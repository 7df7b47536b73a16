------------------------- MODULE WlanConnectProofs -------------------------
(***************************************************************************)
(* Theorems about WlanConnect, for every length of the queue of events.    *)
(***************************************************************************)
EXTENDS WlanConnect, SequenceTheorems, TLAPS

USE MaxEventsAssumption

(* The inductive invariant.  The bits of g_ulStatus lag behind the link by *)
(* the events that are not yet dispatched, so the invariant has to say     *)
(* what such a queue can hold.                                             *)

\* Between sl_Stop and sl_Start nothing is queued and there is no link.
StoppedIsQuiet == ~running => link = "down" /\ events = <<>>

\* From here on the processor is a station.
StationPc == {"configure", "disconnect", "wait_disconnected", "configure_rest", "stop",
              "reset", "restart"} \cup {"connect", "wait_online", "online", "tasks"}
StationRole == pc \in StationPc => role = "STA"

\* InitializeAppVariables has cleared both bits before the last sl_Start.
ClearedBeforeRestart == pc = "restart" => ~connected /\ ~acquired

\* The link as the bits of g_ulStatus describe it.
StatusLink == IF ~connected THEN "down" ELSE IF acquired THEN "ip" ELSE "up"

\* The link right after the event, and whether the event can happen to a link.
After(e) == CASE e = "CONNECT" -> "up"
              [] e = "IPACQUIRED" -> "ip"
              [] e = "DISCONNECT" -> "down"
Possible(l, e) == CASE e = "CONNECT" -> l = "down"
                    [] e = "IPACQUIRED" -> l = "up"
                    [] e = "DISCONNECT" -> l # "down"

\* The queue leads from what the bits say to what the link is.
QueueLeadsToLink ==
  /\ acquired => connected
  /\ events = <<>> => StatusLink = link
  /\ events # <<>> => Possible(StatusLink, events[1]) /\ After(events[Len(events)]) = link
  /\ \A n \in 1..(Len(events) - 1) : Possible(After(events[n]), events[n + 1])

StatusInv ==
  /\ StoppedIsQuiet
  /\ StationRole
  /\ ClearedBeforeRestart
  /\ LastSession => running /\ QueueLeadsToLink

----------------------------------------------------------------------------
\* What sl_Stop and sl_Start leave behind has its type.
LEMMA StoppedType ==
  ASSUME TypeOK, Stopped
  PROVE  /\ running' = FALSE /\ link' = "down" /\ asked' = FALSE /\ events' = <<>>
         /\ role' = role /\ profiles' = profiles
         /\ events' \in Seq(Event) /\ Len(events') <= MaxEvents
BY EmptySeq DEF Stopped

\* An event that the processor queues finds room there.
LEMMA NotifyType ==
  ASSUME TypeOK, NEW e \in Event, Notify(e)
  PROVE  /\ events' \in Seq(Event) /\ Len(events') <= MaxEvents
         /\ Len(events') = Len(events) + 1
         /\ \A n \in 1..Len(events) : events'[n] = events[n]
         /\ events'[Len(events) + 1] = e
BY AppendProperties DEF TypeOK, Notify

\* Dispatching takes the first event out.
LEMMA DispatchType ==
  ASSUME TypeOK, events # <<>>, events' = Tail(events)
  PROVE  /\ events' \in Seq(Event) /\ Len(events') <= MaxEvents
         /\ Len(events) > 0 /\ Len(events') = Len(events) - 1
         /\ Head(events) = events[1] /\ Head(events) \in Event
         /\ \A n \in 1..Len(events') : events'[n] = events[n + 1]
BY HeadTailProperties, EmptySeq DEF TypeOK

\* Every variable keeps its type, and the device is never started twice: it is
\* stopped wherever main() comes to an sl_Start.
THEOREM TypeCorrect == Spec => []TypeOK
<1> USE DEF Pc, Role, Event
<1>1. Init => TypeOK
  <2> SUFFICES ASSUME Init PROVE TypeOK
    OBVIOUS
  <2>1. /\ connected \in BOOLEAN /\ acquired \in BOOLEAN /\ running \in BOOLEAN
        /\ asked \in BOOLEAN
    BY DEF Init
  <2> QED
    BY <2>1 DEF Init, TypeOK
<1>2. TypeOK /\ [Next]_vars => TypeOK'
  <2> SUFFICES ASSUME TypeOK, [Next]_vars PROVE TypeOK'
    OBVIOUS
  <2>1. ASSUME NEW ok \in BOOLEAN,
               \/ Start(ok) \/ SetMode(ok) \/ StopAp(ok) \/ StartSta(ok) \/ Configure(ok)
               \/ ConfigureRest(ok) \/ StopDevice(ok) \/ Restart(ok) \/ CallWlanConnect(ok)
               \/ CreateTasks(ok)
        PROVE  TypeOK'
    <3>1. CASE Start(ok)
      BY <3>1 DEF Start, Goto, Started, TypeOK, status, device
    <3>5. CASE Restart(ok)
      BY <3>5 DEF Restart, Goto, Started, TypeOK, status, device
    <3>2. CASE SetMode(ok) \/ ConfigureRest(ok) \/ CreateTasks(ok)
      BY <3>2 DEF SetMode, ConfigureRest, CreateTasks, Goto, TypeOK, status, device
    <3>3. CASE StopAp(ok) \/ StopDevice(ok)
      BY <3>3, StoppedType DEF StopAp, StopDevice, Goto, TypeOK, status, device
    <3>4. CASE StartSta(ok) \/ Configure(ok) \/ CallWlanConnect(ok)
      BY <3>4 DEF StartSta, Configure, CallWlanConnect, Goto, TypeOK, status, device
    <3> QED
      BY <2>1, <3>1, <3>2, <3>3, <3>4, <3>5
  <2>2. CASE WaitApIp \/ WaitDisconnected \/ ReturnOnline
    BY <2>2 DEF WaitApIp, WaitDisconnected, ReturnOnline, Goto, TypeOK, status, device
  <2>7. CASE InitializeAppVariables
    <3>1. connected' \in BOOLEAN /\ acquired' \in BOOLEAN
      BY <2>7 DEF InitializeAppVariables
    <3> QED
      BY <2>7, <3>1 DEF InitializeAppVariables, Goto, TypeOK, device
  <2>3. CASE Disconnect
    BY <2>3, NotifyType DEF Disconnect, Goto, TypeOK, status
  <2>4. CASE Dispatch
    BY <2>4, DispatchType DEF Dispatch, WlanEventHandler, NetAppEventHandler, TypeOK
  <2>5. CASE LinkUp \/ GetIp \/ LinkLost
    BY <2>5, NotifyType DEF LinkUp, GetIp, LinkLost, DeviceStep, TypeOK, status
  <2>6. CASE UNCHANGED vars
    BY <2>6 DEF vars, status, device, TypeOK
  <2> QED
    BY <2>1, <2>2, <2>3, <2>4, <2>5, <2>6, <2>7 DEF Next, MainStep
<1> QED
  BY <1>1, <1>2, PTL DEF Spec

----------------------------------------------------------------------------
\* A step of main() within the last session that leaves bits and device alone
\* keeps the invariant.
LEMMA LastSessionStays ==
  ASSUME TypeOK, StatusInv, LastSession, UNCHANGED <<status, device>>,
         pc' \in {"connect", "wait_online", "online", "tasks", "halted"}
  PROVE  StatusInv'
<1>1. running /\ QueueLeadsToLink /\ role = "STA"
  BY DEF StatusInv, StationRole, StationPc, LastSession
<1>2. QueueLeadsToLink'
  BY <1>1 DEF QueueLeadsToLink, StatusLink, status, device
<1> QED
  BY <1>1, <1>2 DEF StatusInv, StoppedIsQuiet, StationRole, ClearedBeforeRestart, device

\* An event that was queued leads on from the last one, or from the bits.
LEMMA NotifyKeepsQueue ==
  ASSUME TypeOK, QueueLeadsToLink, NEW e \in Event, Notify(e), Possible(link, e),
         link' = After(e), UNCHANGED status
  PROVE  QueueLeadsToLink'
<1>1. /\ events \in Seq(Event) /\ Len(events) \in Nat /\ events' \in Seq(Event)
      /\ Len(events') = Len(events) + 1
      /\ \A n \in 1..Len(events) : events'[n] = events[n]
      /\ events'[Len(events) + 1] = e
  BY NotifyType, LenProperties DEF TypeOK
<1>2. (acquired => connected)' /\ StatusLink' = StatusLink
  BY DEF QueueLeadsToLink, status, StatusLink
<1>3. After(events'[Len(events')]) = link'
  BY <1>1
<1>4. CASE events = <<>>
  <2>1. Len(events) = 0 /\ Len(events') = 1 /\ events'[1] = e
    BY <1>1, <1>4
  <2>2. Possible(StatusLink', events'[1])
    BY <1>2, <1>4, <2>1 DEF QueueLeadsToLink
  <2> QED
    BY <1>1, <1>2, <1>3, <2>1, <2>2 DEF QueueLeadsToLink
<1>5. CASE events # <<>>
  <2>1. Len(events) > 0 /\ events'[1] = events[1]
    BY <1>1, <1>5
  <2>2. Possible(StatusLink', events'[1])
    BY <1>2, <1>5, <2>1 DEF QueueLeadsToLink
  <2>3. ASSUME NEW n \in 1..(Len(events') - 1)
        PROVE  Possible(After(events'[n]), events'[n + 1])
    <3>1. CASE n = Len(events)
      BY <1>1, <1>5, <3>1 DEF QueueLeadsToLink
    <3>2. CASE n # Len(events)
      <4>1. n \in 1..(Len(events) - 1) /\ n \in 1..Len(events) /\ n + 1 \in 1..Len(events)
        BY <1>1, <3>2
      <4> QED
        BY <1>1, <4>1 DEF QueueLeadsToLink
    <3> QED
      BY <3>1, <3>2
  <2>4. events' # <<>>
    BY <1>1, <2>1
  <2> QED
    BY <1>2, <1>3, <2>2, <2>3, <2>4 DEF QueueLeadsToLink
<1> QED
  BY <1>4, <1>5

\* A handler makes the bits say what its event made of the link.
LEMMA DispatchKeepsQueue ==
  ASSUME TypeOK, QueueLeadsToLink, Dispatch
  PROVE  QueueLeadsToLink'
<1>1. /\ events # <<>> /\ events' = Tail(events) /\ link' = link
      /\ IF Head(events) = "IPACQUIRED" THEN NetAppEventHandler
                                        ELSE WlanEventHandler(Head(events))
  BY DEF Dispatch
<1>2. /\ events' \in Seq(Event)
      /\ Len(events) > 0 /\ Len(events') = Len(events) - 1
      /\ Head(events) = events[1] /\ events[1] \in Event
      /\ \A n \in 1..Len(events') : events'[n] = events[n + 1]
      /\ Len(events) \in Nat
  BY <1>1, DispatchType, LenProperties DEF TypeOK
<1>3. Possible(StatusLink, events[1]) /\ (acquired => connected)
  BY <1>1 DEF QueueLeadsToLink
<1>4. StatusLink' = After(events[1]) /\ (acquired => connected)'
  BY <1>1, <1>2, <1>3 DEF StatusLink, After, Possible, NetAppEventHandler, WlanEventHandler,
     Event, TypeOK
<1>5. CASE Len(events) = 1
  <2>1. events' = <<>>
    BY <1>2, <1>5
  <2>2. StatusLink' = link'
    BY <1>1, <1>4, <1>5 DEF QueueLeadsToLink
  <2> QED
    BY <1>2, <1>4, <1>5, <2>1, <2>2 DEF QueueLeadsToLink
<1>6. CASE Len(events) > 1
  <2>1. events' # <<>> /\ events'[1] = events[2] /\ events'[Len(events')] = events[Len(events)]
    BY <1>2, <1>6
  <2>2. Possible(StatusLink', events'[1])
    BY <1>2, <1>4, <1>6, <2>1 DEF QueueLeadsToLink
  <2>3. After(events'[Len(events')]) = link'
    BY <1>1, <2>1 DEF QueueLeadsToLink
  <2>4. ASSUME NEW n \in 1..(Len(events') - 1)
        PROVE  Possible(After(events'[n]), events'[n + 1])
    <3>1. events'[n] = events[n + 1] /\ events'[n + 1] = events[(n + 1) + 1]
      BY <1>2
    <3>2. n + 1 \in 1..(Len(events) - 1)
      BY <1>2
    <3> QED
      BY <3>1, <3>2 DEF QueueLeadsToLink
  <2> QED
    BY <1>4, <2>1, <2>2, <2>3, <2>4 DEF QueueLeadsToLink
<1> QED
  BY <1>2, <1>5, <1>6

\* The bits and the queue together always tell the truth in the last session.
LEMMA StatusInvHolds == Spec => []StatusInv
<1> USE DEF LastSession, StationPc
<1>1. Init => StatusInv
  BY DEF Init, StatusInv, StoppedIsQuiet, StationRole, ClearedBeforeRestart
<1>2. TypeOK /\ TypeOK' /\ StatusInv /\ [Next]_vars => StatusInv'
  <2> SUFFICES ASSUME TypeOK, TypeOK', StatusInv, [Next]_vars PROVE StatusInv'
    OBVIOUS
  <2>0. /\ StoppedIsQuiet /\ StationRole /\ ClearedBeforeRestart
        /\ LastSession => running /\ QueueLeadsToLink
    BY DEF StatusInv
  \* The steps up to the last sl_Start end outside the last session.
  <2>1. ASSUME NEW ok \in BOOLEAN,
               \/ Start(ok) \/ SetMode(ok) \/ StopAp(ok) \/ StartSta(ok) \/ Configure(ok)
               \/ ConfigureRest(ok) \/ StopDevice(ok)
        PROVE  StatusInv'
    <3>1. CASE Start(ok)
      BY <2>0, <3>1 DEF Start, Goto, Started, StatusInv, StoppedIsQuiet, StationRole,
         ClearedBeforeRestart, status, device
    <3>2. CASE SetMode(ok) \/ ConfigureRest(ok)
      BY <2>0, <3>2 DEF SetMode, ConfigureRest, Goto, StatusInv, StoppedIsQuiet, StationRole,
         ClearedBeforeRestart, status, device
    <3>3. CASE StopAp(ok) \/ StopDevice(ok)
      BY <2>0, <3>3 DEF StopAp, StopDevice, Stopped, Goto, StatusInv, StoppedIsQuiet,
         StationRole, ClearedBeforeRestart, status, device
    <3>4. CASE StartSta(ok) \/ Configure(ok)
      BY <2>0, <3>4 DEF StartSta, Configure, Goto, StatusInv, StoppedIsQuiet, StationRole,
         ClearedBeforeRestart, status, device
    <3> QED
      BY <2>1, <3>1, <3>2, <3>3, <3>4
  <2>2. CASE WaitApIp \/ WaitDisconnected \/ InitializeAppVariables
    BY <2>0, <2>2 DEF WaitApIp, WaitDisconnected, InitializeAppVariables, Goto, StatusInv,
       StoppedIsQuiet, StationRole, ClearedBeforeRestart, status, device
  <2>3. CASE Disconnect
    BY <2>0, <2>3 DEF Disconnect, Goto, StatusInv, StoppedIsQuiet, StationRole,
       ClearedBeforeRestart, status, TypeOK
  \* The last session begins with a stopped device and cleared bits.
  <2>4. ASSUME NEW ok \in BOOLEAN, Restart(ok) PROVE StatusInv'
    <3>1. /\ ~running /\ role = "STA" /\ link = "down" /\ events = <<>>
          /\ ~connected /\ ~acquired
      BY <2>0, <2>4 DEF Restart, Goto, TypeOK, StoppedIsQuiet, StationRole,
         ClearedBeforeRestart
    <3>2. CASE ok
      <4>1. /\ pc' = "connect" /\ running' /\ link' = "down" /\ events' = <<>>
            /\ role' = "STA" /\ ~connected' /\ ~acquired'
        BY <2>4, <3>1, <3>2 DEF Restart, Goto, Started, status
      <4>2. QueueLeadsToLink'
        BY <4>1 DEF QueueLeadsToLink, StatusLink
      <4> QED
        BY <4>1, <4>2 DEF StatusInv, StoppedIsQuiet, StationRole, ClearedBeforeRestart
    <3>3. CASE ~ok
      BY <2>0, <2>4, <3>3 DEF Restart, Goto, StatusInv, StoppedIsQuiet, StationRole,
         ClearedBeforeRestart, status, device
    <3> QED
      BY <3>2, <3>3
  <2>5. ASSUME NEW ok \in BOOLEAN, CallWlanConnect(ok) PROVE StatusInv'
    <3>1. /\ pc = "connect" /\ pc' \in {"wait_online", "halted"}
          /\ UNCHANGED <<connected, acquired, role, running, link, events>>
      BY <2>5 DEF CallWlanConnect, Goto, status
    <3> QED
      BY <2>0, <3>1 DEF StatusInv, StoppedIsQuiet, StationRole, ClearedBeforeRestart,
         QueueLeadsToLink, StatusLink
  <2>6. CASE ReturnOnline \/ \E queue \in BOOLEAN : CreateTasks(queue)
    <3>1. LastSession /\ UNCHANGED <<status, device>>
      BY <2>6 DEF ReturnOnline, CreateTasks, Goto
    <3>2. pc' \in {"connect", "wait_online", "online", "tasks", "halted"}
      BY <2>6 DEF ReturnOnline, CreateTasks, Goto
    <3> QED
      BY <3>1, <3>2, LastSessionStays
  <2>7. CASE Dispatch
    <3>1. running /\ UNCHANGED <<pc, role, running, link>>
      BY <2>7 DEF Dispatch
    <3>2. pc # "restart"
      BY <3>1 DEF TypeOK
    <3>3. LastSession => QueueLeadsToLink'
      BY <2>0, <2>7, DispatchKeepsQueue
    <3> QED
      BY <2>0, <3>1, <3>2, <3>3 DEF StatusInv, StoppedIsQuiet, StationRole,
         ClearedBeforeRestart
  <2>8. CASE LinkUp \/ GetIp \/ LinkLost
    <3>1. running /\ UNCHANGED <<pc, status, role, running>>
      BY <2>8 DEF LinkUp, GetIp, LinkLost, DeviceStep
    <3>2. PICK e \in Event : Notify(e) /\ Possible(link, e) /\ link' = After(e)
      BY <2>8 DEF LinkUp, GetIp, LinkLost, Event, Possible, After, TypeOK
    <3>3. LastSession => QueueLeadsToLink'
      BY <2>0, <3>1, <3>2, NotifyKeepsQueue
    <3> QED
      BY <2>0, <3>1, <3>3 DEF StatusInv, StoppedIsQuiet, StationRole, ClearedBeforeRestart,
         status
  <2>9. CASE UNCHANGED vars
    BY <2>0, <2>9 DEF vars, status, device, StatusInv, StoppedIsQuiet, StationRole,
       ClearedBeforeRestart, QueueLeadsToLink, StatusLink
  <2> QED
    BY <2>1, <2>2, <2>3, <2>4, <2>5, <2>6, <2>7, <2>8, <2>9 DEF Next, MainStep
<1> QED
  BY <1>1, <1>2, TypeCorrect, PTL DEF Spec

\* Once the device is started for good, the bits that main() polls agree with
\* the link as soon as no event is waiting, whatever role the device was found
\* in and however often its link came and went.
THEOREM StatusFollowsTheLink == Spec => []StatusFollowsLink
<1>1. TypeOK /\ StatusInv => StatusFollowsLink
  BY DEF StatusInv, QueueLeadsToLink, StatusLink, StatusFollowsLink, TypeOK
<1> QED
  BY <1>1, TypeCorrect, StatusInvHolds, PTL

\* WlanConnect returns only with an IP address, or with one that was lost and
\* whose loss is still in the queue.
THEOREM WlanConnectReturnsOnline == Spec => ReturnsOnlyOnline
<1>1. TypeOK /\ StatusInv /\ [Next]_vars =>
        [pc = "wait_online" /\ pc' = "online" =>
           link = "ip" \/ \E n \in DOMAIN events : events[n] = "DISCONNECT"]_vars
  <2> SUFFICES ASSUME TypeOK, StatusInv, [Next]_vars, pc = "wait_online", pc' = "online",
                      link # "ip"
               PROVE  \E n \in DOMAIN events : events[n] = "DISCONNECT"
    OBVIOUS
  <2>1. ReturnOnline
    BY DEF Next, MainStep, Start, SetMode, StopAp, StartSta, Configure, ConfigureRest,
       StopDevice, Restart, CallWlanConnect, CreateTasks, WaitApIp, Disconnect,
       WaitDisconnected, InitializeAppVariables, Goto, Dispatch, LinkUp, GetIp, LinkLost,
       DeviceStep, vars
  <2>2. StatusLink = "ip" /\ QueueLeadsToLink
    BY <2>1 DEF ReturnOnline, StatusLink, StatusInv, LastSession, TypeOK
  <2>3. events # <<>> /\ Possible("ip", events[1])
    BY <2>2 DEF QueueLeadsToLink
  <2>4. Len(events) > 0 /\ 1 \in DOMAIN events /\ events[1] \in Event
    BY <2>3, EmptySeq, LenProperties DEF TypeOK
  <2> QED
    BY <2>3, <2>4 DEF Possible, Event
<1> QED
  BY <1>1, TypeCorrect, StatusInvHolds, PTL DEF Spec, ReturnsOnlyOnline
=============================================================================
