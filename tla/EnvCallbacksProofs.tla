------------------------- MODULE EnvCallbacksProofs -------------------------
(***************************************************************************)
(* Theorems about EnvCallbacks, for every set of update periods.           *)
(***************************************************************************)
EXTENDS EnvCallbacks, TLAPS

(* What the invariants need besides themselves to be inductive.            *)

\* Only a failed shutdown leaves app_context behind, and only on linux.
StaleByShutdown ==
  /\ app = "stale" => "SSL_shutdown" \in faults
  /\ platform \notin Linux => app = "null"

\* A ping under way belongs to an MQTT context, and its copy is live only while
\* the owner has the connection.
LiveCopy ==
  /\ ping # "waiting" => platform \in Mqtt
  /\ ping = "live" => pc \in {"open", "receive", "close"}

----------------------------------------------------------------------------
\* What a failed step leaves behind are resources of the platform.
LEMMA LeftByType ==
  ASSUME platform \in Platform, NEW step \in Steps(platform)
  PROVE  LeftBy(step) \subseteq Resources(platform)
BY DEF Platform, Steps, LeftBy, LeftByTls, LeftByPlain, Resources

\* 4294 seconds are the longest period whose microseconds are a 32-bit number:
\* up to there the linux delay is the period, on the cc3200 it always is.
LEMMA SleepTimeExact ==
  ASSUME NEW p \in Nat, platform \in Linux => p <= MaxLinuxPeriod
  PROVE  SleepTime(p) = p * 125000
<1>1. DelayMs(p) * 125 = p * 125000
  BY SMT DEF DelayMs
<1>2. CASE platform \in Linux
  <2>1. p * 125000 \in Nat /\ p * 125000 < 536870912
    BY <1>2, SMT DEF MaxLinuxPeriod
  <2>2. \A q \in Nat : q < 536870912 => q % 536870912 = q
    BY SMT
  <2> QED
    BY <1>1, <1>2, <2>1, <2>2, SMT DEF SleepTime
<1> QED
  BY <1>1, <1>2, SMT DEF SleepTime

\* Every period gives some time to sleep.
LEMMA SleepTimeType == ASSUME NEW p \in Nat PROVE SleepTime(p) \in Nat
<1>1. DelayMs(p) * 125 \in Nat
  BY SMT DEF DelayMs
<1>2. \A q \in Nat : q % 536870912 \in Nat
  BY SMT
<1> QED
  BY <1>1, <1>2, SMT DEF SleepTime

----------------------------------------------------------------------------
\* TypeOK is not inductive by itself: that a connect drops no context on the
\* cc3200 needs to know that app_context is never set there.
LEMMA TypeInvHolds == Spec => [](TypeOK /\ StaleByShutdown)
<1>1. Init => TypeOK /\ StaleByShutdown
  <2> SUFFICES ASSUME Init PROVE TypeOK /\ StaleByShutdown
    OBVIOUS
  <2>1. timeout \in BOOLEAN /\ silent \in BOOLEAN
    BY DEF Init
  <2> QED
    BY <2>1 DEF Init, TypeOK, StaleByShutdown
<1>2. TypeOK /\ StaleByShutdown /\ [Next]_vars => TypeOK' /\ StaleByShutdown'
  <2> SUFFICES ASSUME TypeOK, StaleByShutdown, [Next]_vars
               PROVE  TypeOK' /\ StaleByShutdown'
    OBVIOUS
  <2> USE DEF TypeOK, StaleByShutdown, rigid
  <2>1. CASE Delay
    <3>1. slept' \in Nat
      BY <2>1, SleepTimeType, PeriodsAssumption, SMT DEF Delay
    <3> QED
      BY <2>1, <3>1 DEF Delay
  <2>2. CASE Connect
    <3>1. timeout' \in BOOLEAN
      BY <2>2 DEF Connect
    <3>2. leaked' \subseteq Resources(platform)
      BY <2>2 DEF Connect, DroppedContext, Resources
    <3> QED
      BY <2>2, <3>1, <3>2 DEF Connect
  <2>3. ASSUME NEW step \in Steps(platform), ConnectFails(step)
        PROVE  TypeOK' /\ StaleByShutdown'
    BY <2>3, LeftByType DEF ConnectFails
  <2>4. ASSUME NEW ok \in BOOLEAN, Send(ok) PROVE TypeOK' /\ StaleByShutdown'
    BY <2>4 DEF Send
  <2>5. ASSUME NEW next \in {"open", "close"}, Receive(next)
        PROVE  TypeOK' /\ StaleByShutdown'
    BY <2>5 DEF Receive
  <2>6. CASE ReceiveTimesOut
    BY <2>6 DEF ReceiveTimesOut
  <2>7. ASSUME NEW shutdown \in BOOLEAN, Close(shutdown)
        PROVE  TypeOK' /\ StaleByShutdown'
    BY <2>7 DEF Close, Released
  <2>8. CASE GoSilent
    <3>1. silent' \in BOOLEAN
      BY <2>8 DEF GoSilent
    <3> QED
      BY <2>8, <3>1 DEF GoSilent
  <2>9. CASE PingLoads
    BY <2>9 DEF PingLoads
  <2>10. CASE PingSends
    BY <2>10 DEF PingSends
  <2>11. CASE UNCHANGED vars
    BY <2>11 DEF vars
  <2> QED
    BY <2>1, <2>2, <2>3, <2>4, <2>5, <2>6, <2>7, <2>8, <2>9, <2>10, <2>11 DEF Next, TaskStep
<1> QED
  BY <1>1, <1>2, PTL DEF Spec

\* Every variable keeps its type: a platform holds and loses only resources
\* that its callbacks acquire.
THEOREM TypeCorrect == Spec => []TypeOK
BY TypeInvHolds, PTL

\* A live copy is the owner's connection, by induction together with
\* UsesLiveConnection.
LEMMA LiveInvHolds == Spec => [](UsesLiveConnection /\ LiveCopy)
<1>1. Init => UsesLiveConnection /\ LiveCopy
  BY DEF Init, UsesLiveConnection, LiveCopy
<1>2. TypeOK /\ UsesLiveConnection /\ LiveCopy /\ [Next]_vars
        => UsesLiveConnection' /\ LiveCopy'
  <2> SUFFICES ASSUME TypeOK, UsesLiveConnection, LiveCopy, [Next]_vars
               PROVE  UsesLiveConnection' /\ LiveCopy'
    OBVIOUS
  <2> USE DEF UsesLiveConnection, LiveCopy, rigid
  <2>1. CASE Delay
    BY <2>1 DEF Delay
  <2>2. CASE Connect
    BY <2>2 DEF Connect
  <2>3. ASSUME NEW step \in Steps(platform), ConnectFails(step)
        PROVE  UsesLiveConnection' /\ LiveCopy'
    BY <2>3 DEF ConnectFails
  <2>4. ASSUME NEW ok \in BOOLEAN, Send(ok) PROVE UsesLiveConnection' /\ LiveCopy'
    BY <2>4 DEF Send
  <2>5. ASSUME NEW next \in {"open", "close"}, Receive(next)
        PROVE  UsesLiveConnection' /\ LiveCopy'
    BY <2>5 DEF Receive
  <2>6. CASE ReceiveTimesOut
    BY <2>6 DEF ReceiveTimesOut
  <2>7. ASSUME NEW shutdown \in BOOLEAN, Close(shutdown)
        PROVE  UsesLiveConnection' /\ LiveCopy'
    BY <2>7 DEF Close, Released
  <2>8. CASE PingLoads
    BY <2>8 DEF PingLoads
  <2>9. CASE PingSends
    BY <2>9 DEF PingSends, TypeOK, Platform, Linux, Mqtt
  <2>10. CASE GoSilent \/ UNCHANGED vars
    BY <2>10 DEF GoSilent, vars
  <2> QED
    BY <2>1, <2>2, <2>3, <2>4, <2>5, <2>6, <2>7, <2>8, <2>9, <2>10 DEF Next, TaskStep
<1> QED
  BY <1>1, <1>2, TypeCorrect, PTL DEF Spec

\* Whatever failed in earlier rounds and wherever a ping is, a callback that the
\* owner calls between a successful connect and its close finds all the objects
\* of that connection, and so does a ping that no close has overtaken.  Only on
\* linux can a ping that was overtaken use freed memory, and only on the MQTT
\* context.
THEOREM LiveConnectionIsUsed == Spec => []UsesLiveConnection
BY LiveInvHolds, PTL

\* The delay is exactly the period: always on the cc3200, up to 4294 seconds on
\* linux, for every period that can be configured.
THEOREM PeriodIsKept == Spec => []PeriodKept
<1>1. Init => PeriodKept
  BY DEF Init, PeriodKept
<1>2. TypeOK /\ LiveCopy /\ PeriodKept /\ [Next]_vars => PeriodKept'
  <2> SUFFICES ASSUME TypeOK, LiveCopy, PeriodKept, [Next]_vars PROVE PeriodKept'
    OBVIOUS
  <2>1. CASE Delay
    <3>1. /\ platform' = platform /\ period' = period
          /\ platform \notin Mqtt => slept' = SleepTime(period)
      BY <2>1 DEF Delay, rigid
    <3>2. period \in Nat
      BY PeriodsAssumption, SMT DEF TypeOK
    <3> QED
      BY <3>1, <3>2, SleepTimeExact, SMT DEF PeriodKept
  <2>2. CASE ~Delay
    <3>1. \/ pc' = "delay"
          \/ pc # "delay" /\ UNCHANGED <<platform, period, slept>>
          \/ pc = "delay" /\ pc' = pc
          \/ PingSends
      BY <2>2 DEF Next, TaskStep, Connect, ConnectFails, Send, Receive, ReceiveTimesOut,
         Close, PingLoads, GoSilent, vars, rigid
    <3>2. CASE PingSends
      <4>1. UNCHANGED <<platform, period, slept>>
        BY <3>2 DEF PingSends, rigid
      <4>2. pc' = pc \/ platform \in Mqtt
        BY <3>2 DEF PingSends, LiveCopy
      <4> QED
        BY <4>1, <4>2 DEF PeriodKept
    <3> QED
      BY <3>1, <3>2 DEF PeriodKept
  <2> QED
    BY <2>1, <2>2
<1> QED
  BY <1>1, <1>2, LiveInvHolds, TypeCorrect, PTL DEF Spec

\* Resources are lost only by the failures that LeaksOnlyByFault names, in any
\* number of rounds: a connection that was up gives back all it acquired, and
\* a context left by a failed shutdown is the only thing a later connect drops.
THEOREM OnlyFaultsLeak == Spec => []LeaksOnlyByFault
<1>1. Init => LeaksOnlyByFault
  BY DEF Init, LeaksOnlyByFault
<1>2. TypeOK /\ StaleByShutdown /\ LeaksOnlyByFault /\ [Next]_vars => LeaksOnlyByFault'
  <2> SUFFICES ASSUME TypeOK, StaleByShutdown, LeaksOnlyByFault, [Next]_vars
               PROVE  LeaksOnlyByFault'
    OBVIOUS
  <2> USE DEF rigid, Linux
  <2>1. CASE Connect
    <3>1. /\ leaked' = leaked \cup DroppedContext
          /\ UNCHANGED <<platform, faults>>
      BY <2>1 DEF Connect
    <3>2. /\ platform \notin Linux => DroppedContext = {}
          /\ DroppedContext \subseteq {"ctx"}
          /\ DroppedContext # {} => "SSL_shutdown" \in faults
      BY DEF DroppedContext, StaleByShutdown
    <3> QED
      BY <3>1, <3>2 DEF LeaksOnlyByFault
  <2>2. ASSUME NEW step \in Steps(platform), ConnectFails(step)
        PROVE  LeaksOnlyByFault'
    <3>1. /\ leaked' = leaked \cup LeftBy(step) /\ faults' = faults \cup {step}
          /\ platform' = platform
      BY <2>2 DEF ConnectFails
    <3>2. platform \in Platform
      BY DEF TypeOK
    <3>3. CASE platform \in Linux
      <4>1. LeftBy(step) = LeftByTls(step) /\ "ctx" \notin LeftByTls(step)
        BY <3>3 DEF LeftBy, LeftByTls, Steps
      <4>2. /\ "sock" \in LeftByTls(step) =>
                 step \in {"connect", "SSL_CTX_new", "SSL_new", "SSL_set_fd", "SSL_connect"}
            /\ "ssl_ctx" \in LeftByTls(step) => step \in {"SSL_new", "SSL_set_fd", "SSL_connect"}
            /\ "ssl" \in LeftByTls(step) => step \in {"SSL_set_fd", "SSL_connect"}
        BY <3>3 DEF LeftByTls, Steps
      <4> QED
        BY <3>1, <3>3, <4>1, <4>2 DEF LeaksOnlyByFault
    <3>4. CASE platform = "cc3200_http"
      <4>1. LeftBy(step) = {}
        BY <3>4 DEF LeftBy, LeftByPlain, Steps
      <4> QED
        BY <3>1, <3>4, <4>1 DEF LeaksOnlyByFault
    <3>5. CASE platform = "cc3200_mqtt"
      <4>1. LeftBy(step) # {} => step = "setsockopt"
        BY <3>5 DEF LeftBy, LeftByPlain
      <4> QED
        BY <3>1, <3>5, <4>1 DEF LeaksOnlyByFault
    <3> QED
      BY <3>2, <3>3, <3>4, <3>5 DEF Platform
  <2>3. ASSUME NEW shutdown \in BOOLEAN, Close(shutdown) PROVE LeaksOnlyByFault'
    BY <2>3 DEF Close, LeaksOnlyByFault
  <2>4. CASE \/ Delay \/ GoSilent \/ ReceiveTimesOut \/ PingLoads \/ PingSends
             \/ UNCHANGED vars
             \/ \E ok \in BOOLEAN : Send(ok)
             \/ \E next \in {"open", "close"} : Receive(next)
    BY <2>4 DEF Delay, GoSilent, ReceiveTimesOut, PingLoads, PingSends, Send, Receive, vars, LeaksOnlyByFault
  <2> QED
    BY <2>1, <2>2, <2>3, <2>4 DEF Next, TaskStep
<1> QED
  BY <1>1, <1>2, TypeInvHolds, PTL DEF Spec
=============================================================================
