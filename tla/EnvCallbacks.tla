---------------------------- MODULE EnvCallbacks ----------------------------
(***************************************************************************)
(* The environment callbacks of the two samples.  A task uses a connection *)
(* the way the SDK's tasks do: delay, connect, send and receive, close, and*)
(* round again.  linux-env/secure_socket_impl.c makes a TLS connection of  *)
(* four resources; kii_thing_if_environment_cc3200.c has one socket for    *)
(* HTTP and another, with a receive timeout, for MQTT.  What matters of a  *)
(* callback is how far it came before it failed and what it left behind.   *)
(*                                                                         *)
(* An HTTP context belongs to one task.  The MQTT context does not: the    *)
(* push task connects, receives and closes, and the keep-alive ping task   *)
(* (KII_TASK_NAME_PING_REQ) sends on it.  The SDK has no callback for a    *)
(* lock, so a ping may be anywhere in its send callback when the push task *)
(* closes: that callback is two steps.                                     *)
(***************************************************************************)
EXTENDS Naturals

CONSTANT Periods    \* the values of state_update_period, in seconds

\* period * 1000 is an int.
ASSUME PeriodsAssumption == \A p \in Periods : p \in Nat /\ p <= 2147483

VARIABLES
  platform,   \* whose callbacks: it never changes
  period,     \* the period of the status update: it never changes
  pc,         \* where the owner of the connection is; "undefined" after a use of
              \* freed memory
  slept,      \* how long the last delay was, in units of 8 microseconds
  held,       \* the resources of the connection that the context names
  app,        \* app_context: NULL, of this connection, or of freed objects
  timeout,    \* the socket has a receive timeout
  leaked,     \* history: the kinds of resources that nobody can release any more
  faults,     \* history: the steps that failed
  silent,     \* the server sends nothing any more
  ping        \* the ping task: between two pings, in a send with its copy of
              \* app_context (linux) or of the descriptor (cc3200) "live" or
              \* "dangling"

vars == <<platform, period, pc, slept, held, app, timeout, leaked, faults, silent,
          ping>>
rigid == <<platform, period>>

----------------------------------------------------------------------------
\* Whose callbacks, and for which of the two kinds of context.
Platform == {"linux_http", "linux_mqtt", "cc3200_http", "cc3200_mqtt"}
Linux == {"linux_http", "linux_mqtt"}
Mqtt == {"linux_mqtt", "cc3200_mqtt"}

\* ctx is the malloc'ed ssl_context_t that app_context points to.
Resources(p) == IF p \in Linux THEN {"ctx", "sock", "ssl_ctx", "ssl"} ELSE {"sock"}

\* The steps of a connect that can fail, in order.
Steps(p) ==
  IF p \in Linux THEN {"host", "socket", "connect", "SSL_CTX_new", "SSL_new",
                       "SSL_set_fd", "SSL_connect"}
  ELSE IF p = "cc3200_http" THEN {"host", "socket", "connect"}
  ELSE {"host", "socket", "setsockopt", "connect"}

\* What s_connect_cb has and does not release when a step fails: it frees the
\* context only.
LeftByTls(step) ==
  IF step \in {"host", "socket"} THEN {}
  ELSE IF step \in {"connect", "SSL_CTX_new"} THEN {"sock"}
  ELSE IF step = "SSL_new" THEN {"sock", "ssl_ctx"}
  ELSE {"sock", "ssl_ctx", "ssl"}

\* The cc3200 callbacks close the socket if sl_Connect fails, not if
\* sl_SetSockOpt does.
LeftByPlain(step) == IF step = "setsockopt" THEN {"sock"} ELSE {}

\* Mutant: the cc3200 callbacks allocate a context too, and forget it.
MutLeftByContext(step) == IF platform \in Linux THEN LeftByTls(step) ELSE {"ctx"}

LeftBy(step) == IF platform \in Linux THEN LeftByTls(step) ELSE LeftByPlain(step)

----------------------------------------------------------------------------
(* delay_ms_cb.                                                            *)

\* Mutant: the period is handed on in seconds.
MutDelayMsInSeconds(p) == p

\* What prv_update_status passes to delay_ms_cb.
DelayMs(p) == p * 1000

\* usleep takes msec * 1000 as a 32-bit unsigned number of microseconds, that
\* is (msec * 125) % 2^29 times 8; osi_Sleep takes the milliseconds.
SleepTime(p) ==
  IF platform \in Linux THEN (DelayMs(p) * 125) % 536870912 ELSE DelayMs(p) * 125

\* Before an update the state task sleeps its period.  How long the push task
\* waits before it reconnects is external.
Delay ==
  /\ pc = "delay"
  /\ slept' = IF platform \in Mqtt THEN slept ELSE SleepTime(period)
  /\ pc' = "connect"
  /\ UNCHANGED <<rigid, held, app, timeout, leaked, faults, silent, ping>>

----------------------------------------------------------------------------
(* The socket callbacks.                                                   *)

\* A context whose close failed still names the malloc'ed structure; a
\* successful connect drops that pointer.
DroppedContext == IF app = "stale" THEN {"ctx"} ELSE {}

\* Mutant: the receive timeout is not set.
MutConnectNoTimeout ==
  /\ pc = "connect"
  /\ held' = Resources(platform)
  /\ app' = IF platform \in Linux THEN "current" ELSE app
  /\ timeout' = FALSE
  /\ leaked' = leaked \cup DroppedContext
  /\ pc' = "open"
  /\ UNCHANGED <<rigid, slept, faults, silent, ping>>

\* s_connect_cb, socket_connect_cb_impl or mqtt_connect_cb_impl succeeds.
Connect ==
  /\ pc = "connect"
  /\ held' = Resources(platform)
  /\ app' = IF platform \in Linux THEN "current" ELSE app
  /\ timeout' = (platform = "cc3200_mqtt")
  /\ leaked' = leaked \cup DroppedContext
  /\ pc' = "open"
  /\ UNCHANGED <<rigid, slept, faults, silent, ping>>

\* Mutant: a failed connect is logged and KII_SOCKETC_OK is returned.
MutConnectFailsUnnoticed(step) ==
  /\ pc = "connect"
  /\ step \in Steps(platform)
  /\ faults' = faults \cup {step}
  /\ leaked' = leaked \cup LeftBy(step)
  /\ pc' = "open"
  /\ UNCHANGED <<rigid, slept, held, app, timeout, silent, ping>>

\* It fails at some step and writes nothing to the context.
ConnectFails(step) ==
  /\ pc = "connect"
  /\ step \in Steps(platform)
  /\ faults' = faults \cup {step}
  /\ leaked' = leaked \cup LeftBy(step)
  /\ pc' = "delay"
  /\ UNCHANGED <<rigid, slept, held, app, timeout, silent, ping>>

\* s_send_cb and its cc3200 siblings; the client closes after a failure.
Send(ok) ==
  /\ pc = "open"
  /\ pc' = IF ok THEN "receive" ELSE "close"
  /\ UNCHANGED <<rigid, slept, held, app, timeout, leaked, faults, silent, ping>>

\* s_recv_cb and its siblings wait for the server.  Whether the client then goes
\* on with the connection or closes it is external.
Receive(next) ==
  /\ pc = "receive" /\ ~silent
  /\ pc' = next
  /\ UNCHANGED <<rigid, slept, held, app, timeout, leaked, faults, silent, ping>>

\* Only a socket with a timeout wakes up when the server says nothing.
ReceiveTimesOut ==
  /\ pc = "receive"
  /\ silent /\ timeout
  /\ pc' = "close"
  /\ UNCHANGED <<rigid, slept, held, app, timeout, leaked, faults, silent, ping>>

\* A close releases what a ping under way has taken from the context.
Released(copy) == IF copy = "live" THEN "dangling" ELSE copy

\* Mutant: a close whose shutdown fails returns before it frees anything.
MutCloseReturnsEarly(shutdown) ==
  /\ pc = "close"
  /\ platform \notin Linux => shutdown
  /\ held' = {}
  /\ app' = IF shutdown THEN "null" ELSE "stale"
  /\ ping' = Released(ping)
  /\ leaked' = IF shutdown THEN leaked ELSE leaked \cup (Resources(platform) \ {"ctx"})
  /\ faults' = IF shutdown THEN faults ELSE faults \cup {"SSL_shutdown"}
  /\ pc' = "delay"
  /\ UNCHANGED <<rigid, slept, timeout, silent>>

\* s_close_cb frees the socket and the SSL objects; if SSL_shutdown failed it
\* returns before it frees the context and clears app_context.  The cc3200
\* callbacks close the socket and always succeed.
Close(shutdown) ==
  /\ pc = "close"
  /\ platform \notin Linux => shutdown
  /\ held' = {}
  /\ app' = IF shutdown THEN "null" ELSE "stale"
  /\ ping' = Released(ping)
  /\ faults' = IF shutdown THEN faults ELSE faults \cup {"SSL_shutdown"}
  /\ pc' = "delay"
  /\ UNCHANGED <<rigid, slept, timeout, leaked, silent>>

\* The ping task enters the send callback and loads app_context or the
\* descriptor.  That it does so only while the push task has a connection is
\* external: the callback itself tests nothing.
PingLoads ==
  /\ platform \in Mqtt
  /\ ping = "waiting" /\ pc \in {"open", "receive"}
  /\ ping' = "live"
  /\ UNCHANGED <<rigid, pc, slept, held, app, timeout, leaked, faults, silent>>

\* SSL_write or sl_Send with what it loaded.  If the push task has closed in
\* between, SSL_write gets a freed object; sl_Send gets a number, and fails or
\* writes to whoever was given that number since.
PingSends ==
  /\ ping \in {"live", "dangling"}
  /\ ping' = "waiting"
  /\ pc' = IF ping = "dangling" /\ platform \in Linux THEN "undefined" ELSE pc
  /\ UNCHANGED <<rigid, slept, held, app, timeout, leaked, faults, silent>>

\* External: the server stops answering.
GoSilent ==
  /\ ~silent
  /\ silent' = TRUE
  /\ UNCHANGED <<rigid, pc, slept, held, app, timeout, leaked, faults, ping>>

----------------------------------------------------------------------------
Init ==
  /\ platform \in Platform
  /\ period \in Periods
  /\ pc = "delay"
  /\ slept = 0
  /\ held = {}
  /\ app = "null"
  /\ timeout = FALSE
  /\ leaked = {}
  /\ faults = {}
  /\ silent = FALSE
  /\ ping = "waiting"

\* The task that owns the connection.
TaskStep ==
  \/ Delay
  \/ Connect
  \/ \E step \in Steps(platform) : ConnectFails(step)
  \/ \E ok \in BOOLEAN : Send(ok)
  \/ \E next \in {"open", "close"} : Receive(next)
  \/ ReceiveTimesOut
  \/ \E shutdown \in BOOLEAN : Close(shutdown)

Next == TaskStep \/ PingLoads \/ PingSends \/ GoSilent

\* The owner runs, and the calls into the system return, except a receive from
\* a silent server without a timeout.
Spec == Init /\ [][Next]_vars /\ WF_vars(TaskStep)

----------------------------------------------------------------------------
(* Properties.                                                             *)

TypeOK ==
  /\ platform \in Platform
  /\ period \in Periods
  /\ pc \in {"delay", "connect", "open", "receive", "close", "undefined"}
  /\ slept \in Nat
  /\ held \subseteq Resources(platform)
  /\ app \in {"null", "current", "stale"}
  /\ timeout \in BOOLEAN
  /\ leaked \subseteq Resources(platform)
  /\ faults \subseteq Steps(platform) \cup {"SSL_shutdown"}
  /\ silent \in BOOLEAN
  /\ ping \in {"waiting", "live", "dangling"}

\* Between a successful connect and its close every send, receive and close of
\* the owner finds all the objects of this connection alive behind the context:
\* neither a failed connect nor a failed close of an earlier round (which leaves
\* app_context pointing at a structure of freed objects) is ever used.  A ping
\* that no close has overtaken writes to live objects too, and one that was
\* overtaken reaches freed memory on linux only.
UsesLiveConnection ==
  /\ pc \in {"open", "receive", "close"} \/ ping = "live" =>
       /\ held = Resources(platform)
       /\ platform \in Linux => app = "current"
  /\ pc = "undefined" => platform = "linux_mqtt"

\* What linux-sample/sys_cb_impl.h asks of the MQTT send callback: it returns a
\* code, KII_SOCKETC_FAIL when the connection has failed.  s_send_cb uses the
\* context it loaded after the push task has freed it.
SendAnswers == pc # "undefined"

\* Resources are lost only by the failures that the code does not clean up
\* after: on cc3200 a refused receive timeout; on linux a failed TCP or TLS
\* connect loses the socket and the SSL objects made so far, and a failed
\* shutdown the context structure.  A connection that was up always gives its
\* socket and SSL objects back.
LeaksOnlyByFault ==
  /\ platform = "cc3200_http" => leaked = {}
  /\ platform = "cc3200_mqtt" /\ leaked # {} => "setsockopt" \in faults
  /\ platform \in Linux =>
       /\ "ctx" \in leaked => "SSL_shutdown" \in faults
       /\ "sock" \in leaked => faults \cap {"connect", "SSL_CTX_new", "SSL_new",
                                            "SSL_set_fd", "SSL_connect"} # {}
       /\ "ssl_ctx" \in leaked => faults \cap {"SSL_new", "SSL_set_fd", "SSL_connect"} # {}
       /\ "ssl" \in leaked => faults \cap {"SSL_set_fd", "SSL_connect"} # {}

\* The longest period for which msec * 1000 fits in 32 bits.
MaxLinuxPeriod == 4294

\* The update task sleeps for exactly the period it was given: the conversions
\* to milliseconds and microseconds lose nothing, on linux up to MaxLinuxPeriod
\* seconds (above it the product wraps and the task sends far too often).
PeriodKept ==
  platform \notin Mqtt /\ pc # "delay" /\ (platform \in Linux => period <= MaxLinuxPeriod) =>
    slept = period * 125000

\* A server that falls silent cannot hold the MQTT task of the cc3200 in a
\* receive for ever: its socket has a timeout, twice the keep-alive interval.
MqttReceiveEnds ==
  platform = "cc3200_mqtt" /\ pc = "receive" ~> pc # "receive"
=============================================================================
