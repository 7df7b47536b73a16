--------------------------- MODULE SampleHandlers ---------------------------
(***************************************************************************)
(* The handlers that the two sample applications give to the SDK: the air  *)
(* conditioner of linux-sample/example.c and the smart light of the cc3200 *)
(* demo's main.c.  Both keep the device in one static structure guarded by *)
(* a mutex.  The push task calls action_handler, which copies the          *)
(* structure out, changes its copy and copies it back, each copy under a   *)
(* lock of its own; the push task and the status-update task both call     *)
(* state_handler, which copies it out and sends what it copied.  A step is *)
(* one call of the mutex or the copying of one field.                      *)
(***************************************************************************)
EXTENDS Naturals, Sequences

CONSTANTS
  Values,       \* the values a field of the device takes
  Inputs,       \* the actions the server may send
  MaxActions    \* bound: how many actions the server sends

ASSUME ValuesAssumption == Values \subseteq Nat /\ 0 \in Values
ASSUME MaxActionsAssumption == MaxActions \in Nat

VARIABLES
  sample,    \* which sample runs: it never changes
  rec,       \* m_air_conditioner or m_smartlight
  owner,     \* the thread that holds m_mutex
  jammed,    \* an unlock failed: the mutex stays locked for good
  pc,        \* where each thread is in its handler
  handler,   \* the handler it is in
  pos,       \* the next field it copies
  copy,      \* its local structure
  act,       \* the action that action_handler got last
  actions,   \* how many actions the push task got
  device,    \* history: what the actions reported as done ask of the device
  seen,      \* history: what device was since each thread's handler began
  sent       \* the device state, if any, that each state_handler wrote last

vars == <<sample, rec, owner, jammed, pc, handler, pos, copy, act, actions,
          device, seen, sent>>

----------------------------------------------------------------------------
PushTask == "push"
UpdateTask == "update"
Thread == {PushTask, UpdateTask}
Nobody == "nobody"

\* The fields of prv_air_conditioner_t, and of prv_smartlight_t, in the order
\* in which the get and the set functions copy them.
AirConditionerFields == <<"power", "temperature">>
SmartlightFields == <<"power", "brightness", "color0", "color1", "color2",
                      "color_temperature">>

Fields == IF sample = "linux" THEN AirConditionerFields ELSE SmartlightFields
Field == {Fields[i] : i \in 1..Len(Fields)}
Device == [Field -> Values]
Zeroed == [f \in Field |-> 0]

\* An action as the server sends it.  alias is the alias (linux) or the schema
\* (cc3200) and whether it is the sample's own; wellFormed is whether the
\* parameters are the JSON object that the cc3200 handler reads.
ActionName == {"turnPower", "setPresetTemperature", "setBrightness", "setColor",
               "setColorTemperature", "unknown"}
Action == [alias : {"own", "other"}, version : {1, 2}, name : ActionName,
           value : Values, wellFormed : BOOLEAN]
ASSUME InputsAssumption == Inputs \subseteq Action
NoAction == [alias |-> "other", version |-> 1, name |-> "unknown", value |-> 0,
             wellFormed |-> FALSE]

\* The alias check of the linux handler; the cc3200 handler refuses only an
\* action whose schema and version are both wrong.
Refused(a) ==
  /\ a.alias = "other"
  /\ sample = "cc3200" => a.version # 1

\* prv_json_read_object finds the field that the action's name calls for.
ParsesParams(a) == a.wellFormed

\* The cc3200 handler gives up, before it stores anything, on an unknown name
\* or on parameters it cannot read; the linux handler never does.
Unreadable(a) ==
  /\ sample = "cc3200"
  /\ a.name \in {"unknown", "setPresetTemperature"} \/ ~ParsesParams(a)

\* The structure d after the action, with preset as the temperature if that is
\* what it sets.  One value stands for the three components of a colour.
Changed(a, d, preset) ==
  [f \in DOMAIN d |->
     CASE a.name = "turnPower" /\ f = "power" -> a.value
       [] a.name = "setPresetTemperature" /\ f = "temperature" -> preset
       [] a.name = "setBrightness" /\ f = "brightness" -> a.value
       [] a.name = "setColor" /\ f \in {"color0", "color1", "color2"} -> a.value
       [] a.name = "setColorTemperature" /\ f = "color_temperature" -> a.value
       [] OTHER -> d[f]]

\* What the handlers do: the linux one takes the temperature from
\* atoi(action_name), which is 0.
Apply(a, d) == Changed(a, d, 0)

\* What the server asks for: the value that the command holds.
Meant(a, d) == Changed(a, d, a.value)

\* What sample s can keep of a device d: the linux handler stores every preset
\* temperature as 0.
Kept(s, d) ==
  [f \in DOMAIN d |-> IF s = "linux" /\ f = "temperature" THEN 0 ELSE d[f]]

----------------------------------------------------------------------------
Goto(t, from, to) ==
  /\ pc[t] = from
  /\ pc' = [pc EXCEPT ![t] = to]

\* The server's next action reaches action_handler, which may refuse it.
BeginAction(a) ==
  /\ actions < MaxActions
  /\ actions' = actions + 1
  /\ Goto(PushTask, "idle", IF Refused(a) THEN "idle" ELSE "get_lock")
  /\ handler' = [handler EXCEPT ![PushTask] = "action"]
  /\ act' = a
  /\ copy' = [copy EXCEPT ![PushTask] = Zeroed]
  /\ UNCHANGED <<sample, rec, owner, jammed, pos, device, seen, sent>>

\* state_handler is called, by either task.  The linux one sends the file
\* air_conditioner-state.json if there is one.
BeginState(t, file) ==
  /\ file => sample = "linux"
  /\ Goto(t, "idle", IF file THEN "write_file" ELSE "get_lock")
  /\ handler' = [handler EXCEPT ![t] = "state"]
  /\ copy' = [copy EXCEPT ![t] = Zeroed]
  /\ seen' = [seen EXCEPT ![t] = {device}]
  /\ sent' = [sent EXCEPT ![t] = {}]
  /\ UNCHANGED <<sample, rec, owner, jammed, pos, act, actions, device>>

\* Mutant: the structure is read without the mutex.
MutLockReadUnguarded(t, at, next, ok) ==
  /\ at = "set_lock" => owner = Nobody
  /\ Goto(t, at, next)
  /\ owner' = IF at = "set_lock" THEN t ELSE owner
  /\ pos' = [pos EXCEPT ![t] = 1]
  /\ UNCHANGED <<sample, rec, jammed, handler, copy, act, actions, device, seen, sent>>

\* prv_get_* and prv_set_* take the mutex, or return KII_FALSE if that fails.
Lock(t, at, next, ok) ==
  /\ ok => owner = Nobody
  /\ Goto(t, at, IF ok THEN next ELSE "idle")
  /\ owner' = IF ok THEN t ELSE owner
  /\ pos' = [pos EXCEPT ![t] = 1]
  /\ UNCHANGED <<sample, rec, jammed, handler, copy, act, actions, device, seen, sent>>

\* Mutant: the copy runs one field too far.
MutAdvancePastEnd(t, at, next) ==
  /\ Goto(t, at, IF pos[t] > Len(Fields) THEN next ELSE at)
  /\ pos' = [pos EXCEPT ![t] = pos[t] + 1]

\* One more field is copied; after the last one comes the unlock.
Advance(t, at, next) ==
  /\ Goto(t, at, IF pos[t] = Len(Fields) THEN next ELSE at)
  /\ pos' = [pos EXCEPT ![t] = IF pos[t] = Len(Fields) THEN 1 ELSE pos[t] + 1]

\* Mutant: the last field is not copied out.
MutCopyOutShort(t) ==
  /\ Advance(t, "get_copy", "get_unlock")
  /\ copy' = IF pos[t] = Len(Fields) THEN copy
             ELSE [copy EXCEPT ![t][Fields[pos[t]]] = rec[Fields[pos[t]]]]
  /\ UNCHANGED <<sample, rec, owner, jammed, handler, act, actions, device, seen, sent>>

CopyOut(t) ==
  /\ Advance(t, "get_copy", "get_unlock")
  /\ copy' = [copy EXCEPT ![t][Fields[pos[t]]] = rec[Fields[pos[t]]]]
  /\ UNCHANGED <<sample, rec, owner, jammed, handler, act, actions, device, seen, sent>>

CopyIn(t) ==
  /\ Advance(t, "set_copy", "set_unlock")
  /\ rec' = [rec EXCEPT ![Fields[pos[t]]] = copy[t][Fields[pos[t]]]]
  /\ UNCHANGED <<sample, owner, jammed, handler, copy, act, actions, device, seen, sent>>

\* Mutant: a get returns without the unlock.
MutUnlockGetForgets(t, ok) ==
  /\ Goto(t, "get_unlock", IF handler[t] = "action" THEN "apply" ELSE "write")
  /\ UNCHANGED <<sample, rec, owner, jammed, pos, handler, copy, act, actions, device,
                 seen, sent>>

\* The mutex is released, or the call fails, leaves it locked and ends the
\* handler with KII_FALSE.
UnlockGet(t, ok) ==
  /\ Goto(t, "get_unlock",
          IF ~ok THEN "idle"
          ELSE IF handler[t] = "action" THEN "apply" ELSE "write")
  /\ owner' = IF ok THEN Nobody ELSE owner
  /\ jammed' = ~ok
  /\ UNCHANGED <<sample, rec, pos, handler, copy, act, actions, device, seen, sent>>

\* action_handler returns KII_TRUE, so the action is reported as done, only if
\* this unlock succeeds.
UnlockSet(t, ok) ==
  /\ Goto(t, "set_unlock", "idle")
  /\ owner' = IF ok THEN Nobody ELSE owner
  /\ jammed' = ~ok
  /\ device' = IF ok THEN Meant(act, device) ELSE device
  /\ seen' = [u \in Thread |-> seen[u] \cup {device'}]
  /\ UNCHANGED <<sample, rec, pos, handler, copy, act, actions, sent>>

\* action_handler changes its copy, or returns KII_FALSE.
ApplyAction ==
  /\ Goto(PushTask, "apply", IF Unreadable(act) THEN "idle" ELSE "set_lock")
  /\ copy' = IF Unreadable(act) THEN copy
             ELSE [copy EXCEPT ![PushTask] = Apply(act, copy[PushTask])]
  /\ UNCHANGED <<sample, rec, owner, jammed, pos, handler, act, actions, device, seen, sent>>

\* state_handler hands the pieces of the JSON object to the writer, and stops
\* with KII_FALSE at the first one the writer has no room for.
WriteState(t, written) ==
  /\ Goto(t, "write", "idle")
  /\ sent' = [sent EXCEPT ![t] = IF written THEN {copy[t]} ELSE {}]
  /\ UNCHANGED <<sample, rec, owner, jammed, pos, handler, copy, act, actions, device, seen>>

\* The lines of the file are written as they are, up to the first that does
\* not fit: the device is not looked at.
WriteFile(t) ==
  /\ Goto(t, "write_file", "idle")
  /\ UNCHANGED <<sample, rec, owner, jammed, pos, handler, copy, act, actions, device,
                 seen, sent>>

----------------------------------------------------------------------------
Init ==
  /\ sample \in {"linux", "cc3200"}
  /\ rec = Zeroed
  /\ owner = Nobody
  /\ jammed = FALSE
  /\ pc = [t \in Thread |-> "idle"]
  /\ handler = [t \in Thread |-> "none"]
  /\ pos = [t \in Thread |-> 1]
  /\ copy = [t \in Thread |-> Zeroed]
  /\ act = NoAction
  /\ actions = 0
  /\ device = Zeroed
  /\ seen = [t \in Thread |-> {}]
  /\ sent = [t \in Thread |-> {}]

Locks(t, ok) ==
  \/ Lock(t, "get_lock", "get_copy", ok)
  \/ Lock(t, "set_lock", "set_copy", ok)

HandlerStep(t) ==
  \/ CopyOut(t)
  \/ CopyIn(t)
  \/ \E ok \in BOOLEAN : UnlockGet(t, ok) \/ UnlockSet(t, ok)
  \/ t = PushTask /\ ApplyAction
  \/ \E written \in BOOLEAN : WriteState(t, written)
  \/ WriteFile(t)

Next ==
  \/ \E a \in Inputs : BeginAction(a)
  \/ \E t \in Thread : \/ \E file \in BOOLEAN : BeginState(t, file)
                       \/ \E ok \in BOOLEAN : Locks(t, ok)
                       \/ HandlerStep(t)

\* Every thread runs, and one that waits for a mutex released again and again
\* gets it: the tasks spend nearly all of their time in the delay and waiting
\* for the network, without the mutex.  Nothing makes a lock fail.
Fairness == \A t \in Thread : SF_vars(Locks(t, TRUE)) /\ WF_vars(HandlerStep(t))

Spec == Init /\ [][Next]_vars /\ Fairness

----------------------------------------------------------------------------
(* Properties.                                                             *)

Pc == {"idle", "get_lock", "get_copy", "get_unlock", "apply", "set_lock", "set_copy",
       "set_unlock", "write", "write_file"}

TypeOK ==
  /\ sample \in {"linux", "cc3200"}
  /\ rec \in Device /\ device \in Device
  /\ owner \in Thread \cup {Nobody}
  /\ jammed \in BOOLEAN
  /\ pc \in [Thread -> Pc]
  /\ handler \in [Thread -> {"none", "action", "state"}]
  /\ pos \in [Thread -> 1..Len(Fields)]
  /\ copy \in [Thread -> Device]
  /\ act \in Action
  /\ actions \in 0..MaxActions
  /\ seen \in [Thread -> SUBSET Device] /\ sent \in [Thread -> SUBSET Device]

\* Whenever the mutex is free, the structure holds what the commands whose
\* actions were reported as done ask of the device, the preset temperature of
\* the linux sample excepted, which is always 0 although README.mkd of the sample
\* promises "last received command contents": action_handler copies out,
\* changes and copies back under two locks, so this rests on the push task being
\* the only thread that stores, on every field being copied both ways, and on a
\* failing action storing nothing.
NoLostUpdate == owner = Nobody => rec = Kept(sample, device)

\* What state_handler sends is the whole device, as far as the sample keeps it,
\* at one moment since the call began: never some fields from before and others
\* from after actions that the push task executed meanwhile, and never a state
\* of the past.
StateIsSnapshot ==
  \A t \in Thread : \A s \in sent[t] : \E d \in seen[t] : s = Kept(sample, d)

\* Every handler returns, whatever the parameters, the writer and the other
\* thread do, unless an unlock failed.
HandlersReturn == \A t \in Thread : pc[t] # "idle" ~> (pc[t] = "idle" \/ jammed)
=============================================================================
