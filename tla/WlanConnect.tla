---------------------------- MODULE WlanConnect ----------------------------
(***************************************************************************)
(* How the cc3200 demo's main() brings up the network before it creates    *)
(* its task: ConfigureSimpleLinkToDefaultState, which may have to leave    *)
(* the access-point role and an old connection, then WlanConnect.  main()  *)
(* learns of the link only through two bits of g_ulStatus, which the       *)
(* SimpleLink event handlers set and clear.  The demo links the library    *)
(* without an OS: handlers run inside sl_ calls and inside the             *)
(* _SlNonOsMainLoopTask of the waiting loops, so late, but never in the    *)
(* middle of a step of main().  The network processor is external.         *)
(***************************************************************************)
EXTENDS Naturals, Sequences

CONSTANT MaxEvents    \* bound: events the network processor has queued

ASSUME MaxEventsAssumption == MaxEvents \in Nat \ {0}

VARIABLES
  pc,         \* where main() is
  connected,  \* STATUS_BIT_CONNECTION of g_ulStatus
  acquired,   \* STATUS_BIT_IP_AQUIRED of g_ulStatus
  role,       \* the role the processor starts in
  running,    \* between sl_Start and sl_Stop
  link,       \* the processor's link: down, up, or up with an IP address
  profiles,   \* it has stored profiles that it connects to by itself
  asked,      \* sl_WlanConnect was called in this session
  events      \* the events not yet dispatched

status == <<connected, acquired>>
device == <<role, running, link, profiles, asked, events>>
vars == <<pc, status, device>>

----------------------------------------------------------------------------
Role == {"STA", "AP", "P2P"}
Event == {"CONNECT", "DISCONNECT", "IPACQUIRED"}
Pc == {"start", "wait_ap_ip", "set_mode", "stop_ap", "start_sta", "configure",
       "disconnect", "wait_disconnected", "configure_rest", "stop", "reset", "restart",
       "connect", "wait_online", "online", "tasks", "halted"}

\* Every variable has its type, and the device is stopped where main() is about
\* to start it.
TypeOK ==
  /\ pc \in Pc
  /\ connected \in BOOLEAN /\ acquired \in BOOLEAN
  /\ role \in Role
  /\ running \in BOOLEAN
  /\ link \in {"down", "up", "ip"}
  /\ profiles \in BOOLEAN /\ asked \in BOOLEAN
  /\ events \in Seq(Event) /\ Len(events) <= MaxEvents
  /\ pc \in {"start", "start_sta", "reset", "restart"} => ~running

----------------------------------------------------------------------------
(* The network processor (external).                                       *)

Notify(e) ==
  /\ Len(events) < MaxEvents
  /\ events' = Append(events, e)

DeviceStep ==
  /\ running /\ pc # "halted"
  /\ UNCHANGED <<pc, status, role, running, profiles, asked>>

\* As a station it connects because it was told to or because of a profile.
LinkUp ==
  /\ DeviceStep
  /\ link = "down" /\ role = "STA" /\ (profiles \/ asked)
  /\ link' = "up"
  /\ Notify("CONNECT")

GetIp ==
  /\ DeviceStep
  /\ link = "up"
  /\ link' = "ip"
  /\ Notify("IPACQUIRED")

LinkLost ==
  /\ DeviceStep
  /\ link # "down" /\ role = "STA"
  /\ link' = "down"
  /\ Notify("DISCONNECT")

\* sl_Start: as an access point the link needs no connection.
Started ==
  /\ running' = TRUE
  /\ link' = IF role = "AP" THEN "up" ELSE "down"
  /\ asked' = FALSE
  /\ UNCHANGED <<role, profiles, events>>

\* sl_Stop drops the link and what was not dispatched, without an event.
Stopped ==
  /\ running' = FALSE
  /\ link' = "down"
  /\ asked' = FALSE
  /\ events' = <<>>
  /\ UNCHANGED <<role, profiles>>

----------------------------------------------------------------------------
(* The event handlers.                                                     *)

\* SimpleLinkWlanEventHandler
WlanEventHandler(e) ==
  /\ connected' = (e = "CONNECT")
  /\ acquired' = (e = "CONNECT" /\ acquired)

\* SimpleLinkNetAppEventHandler
NetAppEventHandler ==
  /\ acquired' = TRUE
  /\ UNCHANGED connected

\* Mutant: the waiting loop of WlanConnect does not run the event loop.
MutDispatchNotPolled ==
  /\ running /\ pc \notin {"halted", "wait_online"} /\ events # <<>>
  /\ IF Head(events) = "IPACQUIRED" THEN NetAppEventHandler
                                    ELSE WlanEventHandler(Head(events))
  /\ events' = Tail(events)
  /\ UNCHANGED <<pc, role, running, link, profiles, asked>>

\* The library hands the oldest event to its handler.
Dispatch ==
  /\ running /\ pc # "halted" /\ events # <<>>
  /\ IF Head(events) = "IPACQUIRED" THEN NetAppEventHandler
                                    ELSE WlanEventHandler(Head(events))
  /\ events' = Tail(events)
  /\ UNCHANGED <<pc, role, running, link, profiles, asked>>

----------------------------------------------------------------------------
(* ConfigureSimpleLinkToDefaultState.  ok: the sl_ calls of the step were  *)
(* successful; an error ends in LOOP_FOREVER of main().                    *)

Goto(from, to) == pc = from /\ pc' = to

Start(ok) ==
  /\ Goto("start", IF ~ok THEN "halted"
                ELSE IF role = "STA" THEN "configure"
                ELSE IF role = "AP" THEN "wait_ap_ip" ELSE "set_mode")
  /\ IF ok THEN Started ELSE UNCHANGED device
  /\ UNCHANGED status

WaitApIp ==
  /\ Goto("wait_ap_ip", "set_mode")
  /\ acquired
  /\ UNCHANGED <<status, device>>

\* The role takes effect at the next sl_Start.
SetMode(ok) ==
  /\ Goto("set_mode", IF ok THEN "stop_ap" ELSE "halted")
  /\ UNCHANGED <<status, device>>

StopAp(ok) ==
  /\ Goto("stop_ap", IF ok THEN "start_sta" ELSE "halted")
  /\ IF ok THEN Stopped ELSE UNCHANGED device
  /\ UNCHANGED status

\* It may fail, or come up in another role than STA.
StartSta(ok) ==
  /\ Goto("start_sta", IF ok THEN "configure" ELSE "halted")
  /\ IF ok THEN /\ role' = "STA" /\ running' = TRUE /\ link' = "down"
                /\ asked' = FALSE
                /\ UNCHANGED <<profiles, events>>
           ELSE UNCHANGED device
  /\ UNCHANGED status

\* Mutant: the stored profiles are not deleted.
MutConfigureKeepsProfiles(ok) ==
  /\ Goto("configure", IF ok THEN "disconnect" ELSE "halted")
  /\ UNCHANGED <<status, device>>

\* The version, the connection policy, and the deletion of all profiles.
Configure(ok) ==
  /\ Goto("configure", IF ok THEN "disconnect" ELSE "halted")
  /\ profiles' = IF ok THEN FALSE ELSE profiles
  /\ UNCHANGED <<status, role, running, link, asked, events>>

\* sl_WlanDisconnect returns 0 only if there was a connection; then its event
\* will come.
Disconnect ==
  /\ Goto("disconnect", IF link = "down" THEN "configure_rest" ELSE "wait_disconnected")
  /\ IF link = "down" THEN UNCHANGED <<link, events>>
                      ELSE link' = "down" /\ Notify("DISCONNECT")
  /\ UNCHANGED <<status, role, running, profiles, asked>>

WaitDisconnected ==
  /\ Goto("wait_disconnected", "configure_rest")
  /\ ~connected
  /\ UNCHANGED <<status, device>>

\* DHCP, scan policy, power, power policy, mDNS and filters.
ConfigureRest(ok) ==
  /\ Goto("configure_rest", IF ok THEN "stop" ELSE "halted")
  /\ UNCHANGED <<status, device>>

\* Mutant: the device is left running.
MutStopDeviceSkipped(ok) ==
  /\ Goto("stop", IF ok THEN "reset" ELSE "halted")
  /\ UNCHANGED <<status, device>>

StopDevice(ok) ==
  /\ Goto("stop", IF ok THEN "reset" ELSE "halted")
  /\ IF ok THEN Stopped ELSE UNCHANGED device
  /\ UNCHANGED status

\* Mutant: the variables are not initialized again.
MutInitializeAppVariablesOnce ==
  /\ Goto("reset", "restart")
  /\ UNCHANGED <<status, device>>

InitializeAppVariables ==
  /\ Goto("reset", "restart")
  /\ connected' = FALSE
  /\ acquired' = FALSE
  /\ UNCHANGED device

----------------------------------------------------------------------------
(* The rest of main().                                                     *)

Restart(ok) ==
  /\ Goto("restart", IF ok THEN "connect" ELSE "halted")
  /\ IF ok THEN Started ELSE UNCHANGED device
  /\ UNCHANGED status

CallWlanConnect(ok) ==
  /\ Goto("connect", IF ok THEN "wait_online" ELSE "halted")
  /\ asked' = ok
  /\ UNCHANGED <<status, role, running, link, profiles, events>>

\* Mutant: WlanConnect waits for the connection only.
MutReturnOnlineEarly ==
  /\ Goto("wait_online", "online")
  /\ connected
  /\ UNCHANGED <<status, device>>

\* The loop of WlanConnect ends.
ReturnOnline ==
  /\ Goto("wait_online", "online")
  /\ connected /\ acquired
  /\ UNCHANGED <<status, device>>

\* The queue, the mutex (a failure is only printed), the task, the scheduler.
CreateTasks(queue) ==
  /\ Goto("online", IF queue THEN "tasks" ELSE "halted")
  /\ UNCHANGED <<status, device>>

----------------------------------------------------------------------------
Init ==
  /\ pc = "start"
  /\ connected = FALSE
  /\ acquired = FALSE
  /\ role \in Role
  /\ running = FALSE
  /\ link = "down"
  /\ profiles \in BOOLEAN
  /\ asked = FALSE
  /\ events = <<>>

MainStep ==
  \/ WaitApIp \/ Disconnect \/ WaitDisconnected \/ InitializeAppVariables \/ ReturnOnline
  \/ \E ok \in BOOLEAN :
       \/ Start(ok) \/ SetMode(ok) \/ StopAp(ok) \/ StartSta(ok) \/ Configure(ok)
       \/ ConfigureRest(ok) \/ StopDevice(ok) \/ Restart(ok) \/ CallWlanConnect(ok)
       \/ CreateTasks(ok)

Next == MainStep \/ Dispatch \/ LinkUp \/ GetIp \/ LinkLost

\* main() runs, its loops run the library's event loop, and an access point
\* gets its own address.  A station may never get a link or an address.
Spec ==
  /\ Init /\ [][Next]_vars
  /\ WF_vars(MainStep) /\ WF_vars(Dispatch) /\ WF_vars(role = "AP" /\ GetIp)

----------------------------------------------------------------------------
(* Properties.                                                             *)

LastSession == pc \in {"connect", "wait_online", "online", "tasks"}

\* Once the device is started for good and all its events are dispatched, the
\* bits of g_ulStatus say what the link is: nothing is left in them of the
\* access-point role, of an old connection or of an IP address lost with it.
StatusFollowsLink ==
  LastSession /\ events = <<>> =>
    /\ connected <=> link # "down"
    /\ acquired <=> link = "ip"

\* "After this call we will be connected and have IP address" (main.c): when
\* WlanConnect returns, the device is online, or has lost the link since and
\* the event that says so is still to be dispatched.
ReturnsOnlyOnline ==
  [][pc = "wait_online" /\ pc' = "online" =>
       link = "ip" \/ \E n \in DOMAIN events : events[n] = "DISCONNECT"]_vars

\* The loops of ConfigureSimpleLinkToDefaultState end: the address of the
\* access point and the end of the old connection do not pass unnoticed.
ConfigurationLoopsEnd ==
  pc \in {"wait_ap_ip", "wait_disconnected"} ~> pc \notin {"wait_ap_ip", "wait_disconnected"}

\* WlanConnect cannot wait for ever on a device that stays online: no event it
\* waits for was consumed before it began to wait.
NotStuckOnline == ~<>[](pc = "wait_online" /\ link = "ip")
=============================================================================
