------------------------ MODULE SampleHandlersProofs ------------------------
(***************************************************************************)
(* Theorems about SampleHandlers, for both samples, every set of values,   *)
(* every set of actions and every number of them.                          *)
(***************************************************************************)
EXTENDS SampleHandlers, SequenceTheorems, TLAPS

USE ValuesAssumption, MaxActionsAssumption, InputsAssumption

(* The inductive invariant.                                                *)

GetPc == {"get_copy", "get_unlock"}
SetPc == {"set_copy", "set_unlock"}
Holds(t) == pc[t] \in GetPc \cup SetPc

\* Who is between a lock and its unlock owns the mutex, and nobody is there once
\* an unlock has failed.
MutualExclusion ==
  /\ \A t \in Thread : Holds(t) => owner = t /\ ~jammed
  /\ jammed => owner # Nobody

\* The update task never changes or stores the device.
OnlyPushStores ==
  /\ handler[UpdateTask] # "action"
  /\ \A t \in Thread :
       /\ pc[t] \in {"apply", "set_lock"} \cup SetPc => t = PushTask
       /\ pc[t] \in {"write", "write_file"} => handler[t] = "state"

\* What the sample keeps of the device as it is now.
Current == Kept(sample, device)

\* What a get has copied so far is the device as it is.
CopiedOut ==
  \A t \in Thread :
    /\ pc[t] = "get_copy" => \A n \in 1..(pos[t] - 1) : copy[t][Fields[n]] = Current[Fields[n]]
    /\ pc[t] = "get_unlock" => copy[t] = Current

\* What action_handler has in its copy.
CopyApplied ==
  /\ pc[PushTask] = "apply" => copy[PushTask] = Current
  /\ pc[PushTask] \in {"set_lock"} \cup SetPc => copy[PushTask] = Apply(act, Current)

\* The structure is the device, or is being overwritten by the push task.
RecordCurrent ==
  /\ ~jammed /\ pc[PushTask] \notin SetPc => rec = Current
  /\ pc[PushTask] = "set_copy" =>
       \A n \in 1..(pos[PushTask] - 1) : rec[Fields[n]] = copy[PushTask][Fields[n]]
  /\ pc[PushTask] = "set_unlock" => rec = copy[PushTask]

\* What state_handler has in its copy is the device at some moment of the call.
CopySeen ==
  \A t \in Thread :
    /\ handler[t] = "state" => device \in seen[t]
    /\ pc[t] = "write" => \E d \in seen[t] : copy[t] = Kept(sample, d)

\* A thread on its way through a handler has begun one.
HandlerKnown == \A t \in Thread : pc[t] # "idle" => handler[t] # "none"

HandlersInv ==
  /\ MutualExclusion
  /\ HandlerKnown
  /\ OnlyPushStores
  /\ CopiedOut
  /\ CopyApplied
  /\ RecordCurrent
  /\ CopySeen
  /\ StateIsSnapshot

----------------------------------------------------------------------------
(* The fields and the actions.                                             *)

\* The get and the set functions copy every field of the structure.
LEMMA FieldsCovered ==
  /\ Len(Fields) \in Nat \ {0}
  /\ \A n \in 1..Len(Fields) : Fields[n] \in Field
  /\ \A f \in Field : \E n \in 1..Len(Fields) : f = Fields[n]
<1>1. Len(Fields) \in Nat \ {0}
  BY DEF Fields, AirConditionerFields, SmartlightFields
<1> QED
  BY <1>1 DEF Field

\* The sample, and with it the fields, stays the same.
LEMMA FieldsStay ==
  ASSUME sample' = sample PROVE Fields' = Fields /\ Field' = Field /\ Device' = Device
BY DEF Fields, Field, Device

\* An action makes a device out of a device, in the code and as it is meant,
\* and what a sample keeps of a device is one too.
LEMMA ApplyType ==
  ASSUME NEW a \in Action, NEW d \in Device
  PROVE  Apply(a, d) \in Device /\ Meant(a, d) \in Device /\ Kept(sample, d) \in Device
BY DEF Apply, Meant, Changed, Kept, Action, Device

\* What action_handler makes of the kept device is what the sample keeps of the
\* device that the command asks for.
LEMMA ApplyKeeps ==
  ASSUME NEW a \in Action, NEW d \in Device
  PROVE  Apply(a, Kept(sample, d)) = Kept(sample, Meant(a, d))
<1>1. DOMAIN d = Field
  BY DEF Device
<1>2. \A f \in Field : Apply(a, Kept(sample, d))[f] = Kept(sample, Meant(a, d))[f]
  <2> SUFFICES ASSUME NEW f \in Field
               PROVE  Apply(a, Kept(sample, d))[f] = Kept(sample, Meant(a, d))[f]
    OBVIOUS
  <2>1. CASE a.name = "setPresetTemperature" /\ f = "temperature" /\ sample # "linux"
    BY <2>1 DEF Field, Fields, SmartlightFields
  <2>2. CASE a.name = "setPresetTemperature" /\ f = "temperature" /\ sample = "linux"
    BY <1>1, <2>2 DEF Apply, Meant, Changed, Kept
  <2>3. CASE ~(a.name = "setPresetTemperature" /\ f = "temperature")
    BY <1>1, <2>3 DEF Apply, Meant, Changed, Kept
  <2> QED
    BY <2>1, <2>2, <2>3
<1> QED
  BY <1>1, <1>2 DEF Apply, Meant, Changed, Kept

\* Between two unlocks after a set, what the sample keeps stays the same.
LEMMA CurrentStays ==
  ASSUME UNCHANGED <<sample, device>> PROVE Current' = Current
BY DEF Current

\* So does copying one field out of another device.
LEMMA CopyFieldType ==
  ASSUME NEW d \in Device, NEW e \in Device, NEW n \in 1..Len(Fields)
  PROVE  [d EXCEPT ![Fields[n]] = e[Fields[n]]] \in Device
BY FieldsCovered DEF Device

\* Two devices that agree up to the last field are the same.
LEMMA AllFieldsCopied ==
  ASSUME NEW d \in Device, NEW e \in Device,
         \A n \in 1..Len(Fields) : d[Fields[n]] = e[Fields[n]]
  PROVE  d = e
<1>1. \A f \in Field : d[f] = e[f]
  BY FieldsCovered
<1> QED
  BY <1>1 DEF Device

\* The zeroed structure is a device.
LEMMA ZeroedType == Zeroed \in Device
BY DEF Zeroed, Device

\* The next action is one the server may send.
LEMMA NoActionType == NoAction \in Action
BY DEF NoAction, Action, ActionName

----------------------------------------------------------------------------
(* Types.                                                                  *)

\* A thread goes to a place in its handler.
LEMMA GotoType ==
  ASSUME TypeOK, NEW t \in Thread, NEW from, NEW to \in Pc, Goto(t, from, to)
  PROVE  /\ pc' \in [Thread -> Pc] /\ pc[t] = from /\ pc'[t] = to
         /\ \A u \in Thread : u # t => pc'[u] = pc[u]
BY DEF TypeOK, Goto

\* Copying a field moves on to the next one, or back to the first.
LEMMA AdvanceType ==
  ASSUME TypeOK, NEW t \in Thread, NEW at \in Pc, NEW next \in Pc, Advance(t, at, next)
  PROVE  /\ pc' \in [Thread -> Pc] /\ pos' \in [Thread -> 1..Len(Fields)]
         /\ pc[t] = at
         /\ pc'[t] = IF pos[t] = Len(Fields) THEN next ELSE at
         /\ pos[t] # Len(Fields) => pos'[t] = pos[t] + 1
         /\ \A u \in Thread : u # t => pc'[u] = pc[u] /\ pos'[u] = pos[u]
<1>1. pos[t] \in 1..Len(Fields) /\ Len(Fields) \in Nat \ {0}
  BY FieldsCovered DEF TypeOK
<1>2. (IF pos[t] = Len(Fields) THEN 1 ELSE pos[t] + 1) \in 1..Len(Fields)
  BY <1>1
<1> QED
  BY <1>1, <1>2 DEF TypeOK, Advance, Goto

\* Every variable keeps its type: in particular both samples only ever copy
\* fields that their structure has.
THEOREM TypeCorrect == Spec => []TypeOK
<1> USE DEF Pc
<1>1. Init => TypeOK
  <2> SUFFICES ASSUME Init PROVE TypeOK
    OBVIOUS
  <2>1. /\ rec \in Device /\ device \in Device /\ copy \in [Thread -> Device]
        /\ act \in Action
    BY ZeroedType, NoActionType DEF Init
  <2>2. pos \in [Thread -> 1..Len(Fields)]
    BY FieldsCovered DEF Init
  <2>3. jammed \in BOOLEAN
    BY DEF Init
  <2>4. seen \in [Thread -> SUBSET Device] /\ sent \in [Thread -> SUBSET Device]
    BY DEF Init
  <2> QED
    BY <2>1, <2>2, <2>3, <2>4 DEF Init, TypeOK
<1>2. TypeOK /\ [Next]_vars => TypeOK'
  <2> SUFFICES ASSUME TypeOK, [Next]_vars PROVE TypeOK'
    OBVIOUS
  <2>0. sample' = sample
    BY DEF Next, BeginAction, BeginState, Locks, Lock, HandlerStep, CopyOut, CopyIn,
       UnlockGet, UnlockSet, ApplyAction, WriteState, WriteFile, vars
  <2>1. Fields' = Fields /\ Device' = Device
    BY <2>0, FieldsStay
  <2> USE <2>0, <2>1
  <2>2. ASSUME NEW a \in Inputs, BeginAction(a) PROVE TypeOK'
    <3>1. a \in Action /\ PushTask \in Thread
      BY DEF Thread
    <3>2. pc' \in [Thread -> Pc]
      BY <2>2, <3>1, GotoType DEF BeginAction
    <3>3. copy' \in [Thread -> Device]
      BY <2>2, ZeroedType DEF BeginAction, TypeOK
    <3>4. actions' \in 0..MaxActions
      BY <2>2 DEF BeginAction, TypeOK
    <3> QED
      BY <2>2, <3>1, <3>2, <3>3, <3>4 DEF BeginAction, TypeOK
  <2>3. ASSUME NEW t \in Thread, NEW file \in BOOLEAN, BeginState(t, file) PROVE TypeOK'
    <3>1. pc' \in [Thread -> Pc]
      BY <2>3, GotoType DEF BeginState
    <3>2. copy' \in [Thread -> Device]
      BY <2>3, ZeroedType DEF BeginState, TypeOK
    <3>3. seen' \in [Thread -> SUBSET Device] /\ sent' \in [Thread -> SUBSET Device]
      BY <2>3 DEF BeginState, TypeOK
    <3> QED
      BY <2>3, <3>1, <3>2, <3>3 DEF BeginState, TypeOK
  <2>4. ASSUME NEW t \in Thread, NEW ok \in BOOLEAN, Locks(t, ok) PROVE TypeOK'
    <3>1. PICK at \in Pc, next \in Pc : Lock(t, at, next, ok)
      BY <2>4 DEF Locks
    <3>2. pc' \in [Thread -> Pc]
      BY <3>1, GotoType DEF Lock
    <3>3. pos' \in [Thread -> 1..Len(Fields)]
      BY <3>1, FieldsCovered DEF Lock, TypeOK
    <3> QED
      BY <3>1, <3>2, <3>3 DEF Lock, TypeOK
  <2>5. ASSUME NEW t \in Thread, CopyOut(t) PROVE TypeOK'
    <3>1. pc' \in [Thread -> Pc] /\ pos' \in [Thread -> 1..Len(Fields)]
      BY <2>5, AdvanceType DEF CopyOut
    <3>2. [copy[t] EXCEPT ![Fields[pos[t]]] = rec[Fields[pos[t]]]] \in Device
      BY CopyFieldType DEF TypeOK
    <3>3. copy' \in [Thread -> Device]
      BY <2>5, <3>2 DEF CopyOut, TypeOK
    <3> QED
      BY <2>5, <3>1, <3>3 DEF CopyOut, TypeOK
  <2>6. ASSUME NEW t \in Thread, CopyIn(t) PROVE TypeOK'
    <3>1. pc' \in [Thread -> Pc] /\ pos' \in [Thread -> 1..Len(Fields)]
      BY <2>6, AdvanceType DEF CopyIn
    <3>2. rec' \in Device
      BY <2>6, CopyFieldType DEF CopyIn, TypeOK
    <3> QED
      BY <2>6, <3>1, <3>2 DEF CopyIn, TypeOK
  <2>7. ASSUME NEW t \in Thread, NEW ok \in BOOLEAN, UnlockGet(t, ok) PROVE TypeOK'
    <3>1. pc' \in [Thread -> Pc]
      BY <2>7, GotoType DEF UnlockGet
    <3>2. jammed' \in BOOLEAN
      BY <2>7 DEF UnlockGet
    <3> QED
      BY <2>7, <3>1, <3>2 DEF UnlockGet, TypeOK
  <2>8. ASSUME NEW t \in Thread, NEW ok \in BOOLEAN, UnlockSet(t, ok) PROVE TypeOK'
    <3>1. pc' \in [Thread -> Pc]
      BY <2>8, GotoType DEF UnlockSet
    <3>2. jammed' \in BOOLEAN
      BY <2>8 DEF UnlockSet
    <3>3. device' \in Device
      BY <2>8, ApplyType DEF UnlockSet, TypeOK
    <3>4. seen' \in [Thread -> SUBSET Device]
      BY <2>8, <3>3 DEF UnlockSet, TypeOK
    <3> QED
      BY <2>8, <3>1, <3>2, <3>3, <3>4 DEF UnlockSet, TypeOK
  <2>9. CASE ApplyAction
    <3>1. PushTask \in Thread
      BY DEF Thread
    <3>2. pc' \in [Thread -> Pc]
      BY <2>9, <3>1, GotoType DEF ApplyAction
    <3>3. copy' \in [Thread -> Device]
      BY <2>9, <3>1, ApplyType DEF ApplyAction, TypeOK
    <3> QED
      BY <2>9, <3>2, <3>3 DEF ApplyAction, TypeOK
  <2>10. ASSUME NEW t \in Thread, NEW written \in BOOLEAN, WriteState(t, written)
         PROVE  TypeOK'
    <3>1. pc' \in [Thread -> Pc]
      BY <2>10, GotoType DEF WriteState
    <3>2. sent' \in [Thread -> SUBSET Device]
      BY <2>10 DEF WriteState, TypeOK
    <3> QED
      BY <2>10, <3>1, <3>2 DEF WriteState, TypeOK
  <2>11. ASSUME NEW t \in Thread, WriteFile(t) PROVE TypeOK'
    <3>1. pc' \in [Thread -> Pc]
      BY <2>11, GotoType DEF WriteFile
    <3> QED
      BY <2>11, <3>1 DEF WriteFile, TypeOK
  <2>12. CASE UNCHANGED vars
    BY <2>12 DEF vars, TypeOK
  <2> QED
    BY <2>2, <2>3, <2>4, <2>5, <2>6, <2>7, <2>8, <2>9, <2>10, <2>11, <2>12
    DEF Next, HandlerStep
<1> QED
  BY <1>1, <1>2, PTL DEF Spec

----------------------------------------------------------------------------
(* The induction: one lemma per kind of step.                              *)

\* A handler begins, outside of the locked sections.
LEMMA BeginKeepsInv ==
  ASSUME TypeOK, HandlersInv, NEW t \in Thread,
         \/ \E a \in Inputs : BeginAction(a)
         \/ \E file \in BOOLEAN : BeginState(t, file)
  PROVE  HandlersInv'
<1>1. PushTask \in Thread /\ UpdateTask \in Thread /\ PushTask # UpdateTask
  BY DEF Thread, PushTask, UpdateTask
<1>2. ASSUME NEW a \in Inputs, BeginAction(a) PROVE HandlersInv'
  <2>1. /\ UNCHANGED <<sample, rec, owner, jammed, pos, device, seen, sent>>
        /\ pc'[PushTask] \in {"idle", "get_lock"}
        /\ handler'[PushTask] = "action"
        /\ pc'[UpdateTask] = pc[UpdateTask] /\ handler'[UpdateTask] = handler[UpdateTask]
        /\ copy'[UpdateTask] = copy[UpdateTask]
        /\ pc[PushTask] = "idle"
    BY <1>1, <1>2 DEF BeginAction, Goto, TypeOK
  <2>2. Fields' = Fields /\ Current' = Current
    BY <2>1, FieldsStay, CurrentStays
  <2> QED
    BY <1>1, <2>1, <2>2 DEF HandlersInv, HandlerKnown, MutualExclusion, OnlyPushStores, CopiedOut,
       CopyApplied, RecordCurrent, CopySeen, StateIsSnapshot, Holds, GetPc, SetPc, Thread
<1>3. ASSUME NEW file \in BOOLEAN, BeginState(t, file) PROVE HandlersInv'
  <2>1. /\ UNCHANGED <<sample, rec, owner, jammed, pos, act, device>>
        /\ pc[t] = "idle" /\ pc'[t] \in {"get_lock", "write_file"}
        /\ handler'[t] = "state" /\ seen'[t] = {device} /\ sent'[t] = {}
        /\ \A u \in Thread : u # t =>
             /\ pc'[u] = pc[u] /\ handler'[u] = handler[u] /\ copy'[u] = copy[u]
             /\ seen'[u] = seen[u] /\ sent'[u] = sent[u]
    BY <1>3 DEF BeginState, Goto, TypeOK
  <2>2. Fields' = Fields /\ Current' = Current
    BY <2>1, FieldsStay, CurrentStays
  <2>3. MutualExclusion' /\ OnlyPushStores'
    BY <1>1, <2>1 DEF HandlersInv, MutualExclusion, OnlyPushStores, Holds, GetPc, SetPc
  <2>4. CopiedOut' /\ CopySeen' /\ StateIsSnapshot'
    BY <2>1, <2>2 DEF HandlersInv, CopiedOut, CopySeen, StateIsSnapshot
  <2>5. CopyApplied' /\ RecordCurrent'
    <3>1. CASE t = PushTask
      BY <2>1, <2>2, <3>1 DEF HandlersInv, CopyApplied, RecordCurrent, SetPc
    <3>2. CASE t # PushTask
      <4>1. pc'[PushTask] = pc[PushTask] /\ copy'[PushTask] = copy[PushTask]
        BY <1>1, <2>1, <3>2
      <4>2. Current' = Current /\ Apply(act, Current)' = Apply(act, Current)
        BY <2>1, CurrentStays
      <4> QED
        BY <2>1, <2>2, <4>1, <4>2 DEF HandlersInv, CopyApplied, RecordCurrent, SetPc
    <3> QED
      BY <3>1, <3>2
  <2>6. HandlerKnown'
    BY <2>1 DEF HandlersInv, HandlerKnown
  <2> QED
    BY <2>3, <2>4, <2>5, <2>6 DEF HandlersInv
<1> QED
  BY <1>2, <1>3

\* Whoever gets the mutex begins with the first field; nobody else is inside.
LEMMA LockKeepsInv ==
  ASSUME TypeOK, HandlersInv, NEW t \in Thread, NEW ok \in BOOLEAN, Locks(t, ok)
  PROVE  HandlersInv'
<1>1. PushTask \in Thread /\ UpdateTask \in Thread /\ Nobody \notin Thread
  BY DEF Thread, PushTask, UpdateTask, Nobody
<1>2. /\ UNCHANGED <<sample, rec, jammed, handler, copy, act, device, seen, sent>>
      /\ owner' = IF ok THEN t ELSE owner
      /\ ok => owner = Nobody
      /\ \/ pc[t] = "get_lock" /\ pc'[t] = IF ok THEN "get_copy" ELSE "idle"
         \/ pc[t] = "set_lock" /\ pc'[t] = IF ok THEN "set_copy" ELSE "idle"
      /\ pos'[t] = 1
      /\ \A u \in Thread : u # t => pc'[u] = pc[u] /\ pos'[u] = pos[u]
  BY DEF Locks, Lock, Goto, TypeOK
<1>3. Fields' = Fields /\ Current' = Current /\ Apply(act, Current)' = Apply(act, Current)
  BY <1>2, FieldsStay, CurrentStays
<1>4. owner = Nobody => ~jammed /\ \A u \in Thread : ~Holds(u)
  BY <1>1 DEF HandlersInv, MutualExclusion
<1>5. MutualExclusion'
  BY <1>1, <1>2, <1>4 DEF HandlersInv, MutualExclusion, Holds, GetPc, SetPc
<1>6. OnlyPushStores'
  BY <1>1, <1>2 DEF HandlersInv, OnlyPushStores, SetPc
<1>7. CopiedOut'
  BY <1>2, <1>3 DEF HandlersInv, CopiedOut
<1>8. CopySeen' /\ StateIsSnapshot'
  BY <1>2 DEF HandlersInv, CopySeen, StateIsSnapshot
<1>9. CopyApplied' /\ RecordCurrent'
  <2>1. CASE t = PushTask
    BY <1>2, <1>3, <2>1 DEF HandlersInv, CopyApplied, RecordCurrent, SetPc
  <2>2. CASE t # PushTask
    <3>1. pc'[PushTask] = pc[PushTask] /\ pos'[PushTask] = pos[PushTask]
      BY <1>1, <1>2, <2>2
    <3> QED
      BY <1>2, <1>3, <3>1 DEF HandlersInv, CopyApplied, RecordCurrent, SetPc
  <2> QED
    BY <2>1, <2>2
<1> QED
  BY <1>2, <1>5, <1>6, <1>7, <1>8, <1>9 DEF HandlersInv, HandlerKnown

\* A get copies the device, field by field: whoever holds the mutex finds the
\* structure current.
LEMMA CopyOutKeepsInv ==
  ASSUME TypeOK, HandlersInv, NEW t \in Thread, CopyOut(t)
  PROVE  HandlersInv'
<1>1. PushTask \in Thread /\ UpdateTask \in Thread /\ PushTask # UpdateTask
  BY DEF Thread, PushTask, UpdateTask
<1>2. /\ UNCHANGED <<sample, rec, owner, jammed, handler, act, device, seen, sent>>
      /\ copy' = [copy EXCEPT ![t] = [copy[t] EXCEPT ![Fields[pos[t]]] = rec[Fields[pos[t]]]]]
      /\ Advance(t, "get_copy", "get_unlock")
  BY DEF CopyOut
<1>3. /\ pc[t] = "get_copy"
      /\ pc'[t] = IF pos[t] = Len(Fields) THEN "get_unlock" ELSE "get_copy"
      /\ pos[t] # Len(Fields) => pos'[t] = pos[t] + 1
      /\ \A u \in Thread : u # t => pc'[u] = pc[u] /\ pos'[u] = pos[u]
  BY <1>2, AdvanceType DEF Pc
<1>4. /\ \A u \in Thread : u # t => copy'[u] = copy[u]
      /\ copy'[t] = [copy[t] EXCEPT ![Fields[pos[t]]] = rec[Fields[pos[t]]]]
  BY <1>2 DEF TypeOK
<1>5. Fields' = Fields /\ Current' = Current /\ Apply(act, Current)' = Apply(act, Current)
  BY <1>2, FieldsStay, CurrentStays
\* The reader holds the mutex, so the push task is not storing.
<1>6. rec = Current
  <2>1. Holds(t) /\ ~jammed /\ owner = t
    BY <1>3 DEF HandlersInv, MutualExclusion, Holds, GetPc
  <2>2. pc[PushTask] \notin SetPc
    BY <1>1, <1>3, <2>1 DEF HandlersInv, MutualExclusion, Holds, SetPc
  <2> QED
    BY <2>1, <2>2 DEF HandlersInv, RecordCurrent
<1>7. MutualExclusion' /\ OnlyPushStores'
  BY <1>1, <1>2, <1>3 DEF HandlersInv, MutualExclusion, OnlyPushStores, Holds, GetPc, SetPc
<1>8. CopiedOut'
  <2>1. pos[t] \in 1..Len(Fields) /\ Len(Fields) \in Nat
    BY FieldsCovered DEF TypeOK
  <2>2. \A n \in 1..pos[t] : copy'[t][Fields[n]] = Current[Fields[n]]
    <3> SUFFICES ASSUME NEW n \in 1..pos[t] PROVE copy'[t][Fields[n]] = Current[Fields[n]]
      OBVIOUS
    <3>1. Fields[n] \in Field
      BY <2>1, FieldsCovered
    <3>2. copy'[t][Fields[n]] = IF Fields[n] = Fields[pos[t]] THEN rec[Fields[n]]
                                ELSE copy[t][Fields[n]]
      <4>1. copy[t] \in [Field -> Values]
        BY DEF TypeOK, Device
      <4> QED
        BY <1>4, <3>1, <4>1
    <3>3. n # pos[t] => copy[t][Fields[n]] = Current[Fields[n]]
      BY <1>3, <2>1 DEF HandlersInv, CopiedOut
    <3> QED
      BY <1>6, <3>2, <3>3
  <2>3. CASE pos[t] = Len(Fields)
    <3>1. copy'[t] \in Device /\ Current \in Device
      <4>1. copy[t] \in Device /\ rec \in Device /\ Current \in Device
        BY ApplyType DEF TypeOK, Current
      <4>2. rec[Fields[pos[t]]] \in Values
        BY <2>1, <4>1, FieldsCovered DEF Device
      <4> QED
        BY <1>4, <4>1, <4>2 DEF Device
    <3>2. copy'[t] = Current
      BY <2>2, <2>3, <3>1, AllFieldsCopied
    <3> QED
      BY <1>2, <1>3, <1>4, <1>5, <2>3, <3>2 DEF HandlersInv, CopiedOut
  <2>4. CASE pos[t] # Len(Fields)
    <3>1. pc'[t] = "get_copy" /\ pos'[t] - 1 = pos[t]
      BY <1>3, <2>1, <2>4
    <3> QED
      BY <1>2, <1>3, <1>4, <1>5, <2>2, <3>1 DEF HandlersInv, CopiedOut
  <2> QED
    BY <2>3, <2>4
<1>9. CopySeen' /\ StateIsSnapshot'
  BY <1>2, <1>3, <1>4 DEF HandlersInv, CopySeen, StateIsSnapshot
<1>10. CopyApplied' /\ RecordCurrent'
  <2>1. CASE t = PushTask
    BY <1>2, <1>3, <1>5, <1>6, <2>1 DEF HandlersInv, CopyApplied, RecordCurrent, SetPc
  <2>2. CASE t # PushTask
    <3>1. /\ pc'[PushTask] = pc[PushTask] /\ pos'[PushTask] = pos[PushTask]
          /\ copy'[PushTask] = copy[PushTask]
      BY <1>1, <1>3, <1>4, <2>2
    <3> QED
      BY <1>2, <1>5, <3>1 DEF HandlersInv, CopyApplied, RecordCurrent, SetPc
  <2> QED
    BY <2>1, <2>2
<1> QED
  BY <1>2, <1>3, <1>7, <1>8, <1>9, <1>10 DEF HandlersInv, HandlerKnown

\* A set overwrites the structure with the push task's copy while nobody reads.
LEMMA CopyInKeepsInv ==
  ASSUME TypeOK, HandlersInv, NEW t \in Thread, CopyIn(t)
  PROVE  HandlersInv'
<1>1. PushTask \in Thread /\ UpdateTask \in Thread /\ PushTask # UpdateTask
  BY DEF Thread, PushTask, UpdateTask
<1>2. /\ UNCHANGED <<sample, owner, jammed, handler, copy, act, device, seen, sent>>
      /\ rec' = [rec EXCEPT ![Fields[pos[t]]] = copy[t][Fields[pos[t]]]]
      /\ Advance(t, "set_copy", "set_unlock")
  BY DEF CopyIn
<1>3. /\ pc[t] = "set_copy"
      /\ pc'[t] = IF pos[t] = Len(Fields) THEN "set_unlock" ELSE "set_copy"
      /\ pos[t] # Len(Fields) => pos'[t] = pos[t] + 1
      /\ \A u \in Thread : u # t => pc'[u] = pc[u] /\ pos'[u] = pos[u]
  BY <1>2, AdvanceType DEF Pc
<1>4. t = PushTask
  BY <1>3 DEF HandlersInv, OnlyPushStores, SetPc
<1>5. Fields' = Fields /\ Current' = Current /\ Apply(act, Current)' = Apply(act, Current)
  BY <1>2, FieldsStay, CurrentStays
<1>6. MutualExclusion' /\ OnlyPushStores'
  BY <1>1, <1>2, <1>3, <1>4 DEF HandlersInv, MutualExclusion, OnlyPushStores, Holds, GetPc,
     SetPc
<1>7. CopiedOut' /\ CopySeen' /\ StateIsSnapshot'
  BY <1>2, <1>3, <1>5 DEF HandlersInv, CopiedOut, CopySeen, StateIsSnapshot
<1>8. CopyApplied'
  BY <1>2, <1>3, <1>4, <1>5 DEF HandlersInv, CopyApplied, SetPc
<1>9. RecordCurrent'
  <2>1. pos[t] \in 1..Len(Fields) /\ Len(Fields) \in Nat
    BY FieldsCovered DEF TypeOK
  <2>2. \A n \in 1..pos[t] : rec'[Fields[n]] = copy[t][Fields[n]]
    <3> SUFFICES ASSUME NEW n \in 1..pos[t] PROVE rec'[Fields[n]] = copy[t][Fields[n]]
      OBVIOUS
    <3>1. Fields[n] \in Field
      BY <2>1, FieldsCovered
    <3>2. rec'[Fields[n]] = IF Fields[n] = Fields[pos[t]] THEN copy[t][Fields[n]]
                            ELSE rec[Fields[n]]
      <4>1. rec \in [Field -> Values]
        BY DEF TypeOK, Device
      <4> QED
        BY <1>2, <3>1, <4>1
    <3>3. n # pos[t] => rec[Fields[n]] = copy[t][Fields[n]]
      BY <1>3, <1>4, <2>1 DEF HandlersInv, RecordCurrent
    <3> QED
      BY <3>2, <3>3
  <2>3. CASE pos[t] = Len(Fields)
    <3>1. rec' \in Device /\ copy[t] \in Device
      BY <1>2, <2>1, CopyFieldType DEF TypeOK
    <3>2. rec' = copy[t]
      BY <2>2, <2>3, <3>1, AllFieldsCopied
    <3> QED
      BY <1>2, <1>3, <1>4, <2>3, <3>2 DEF RecordCurrent, SetPc
  <2>4. CASE pos[t] # Len(Fields)
    <3>1. pc'[t] = "set_copy" /\ pos'[t] - 1 = pos[t]
      BY <1>3, <2>1, <2>4
    <3> QED
      BY <1>2, <1>4, <1>5, <2>2, <3>1 DEF RecordCurrent, SetPc
  <2> QED
    BY <2>3, <2>4
<1> QED
  BY <1>2, <1>3, <1>6, <1>7, <1>8, <1>9 DEF HandlersInv, HandlerKnown

\* After a get the copy is the device, for the action handler to change or for
\* the state handler to send; a failed unlock leaves the mutex to nobody else.
LEMMA UnlockGetKeepsInv ==
  ASSUME TypeOK, HandlersInv, NEW t \in Thread, NEW ok \in BOOLEAN, UnlockGet(t, ok)
  PROVE  HandlersInv'
<1>1. /\ PushTask \in Thread /\ UpdateTask \in Thread /\ PushTask # UpdateTask
      /\ Nobody \notin Thread
  BY DEF Thread, PushTask, UpdateTask, Nobody
<1>2. /\ UNCHANGED <<sample, rec, pos, handler, copy, act, device, seen, sent>>
      /\ owner' = IF ok THEN Nobody ELSE owner
      /\ jammed' = ~ok
      /\ pc[t] = "get_unlock"
      /\ pc'[t] = IF ~ok THEN "idle" ELSE IF handler[t] = "action" THEN "apply" ELSE "write"
      /\ \A u \in Thread : u # t => pc'[u] = pc[u]
  <2>1. /\ UNCHANGED <<sample, rec, pos, handler, copy, act, device, seen, sent>>
        /\ owner' = IF ok THEN Nobody ELSE owner
        /\ jammed' = ~ok
    BY DEF UnlockGet
  <2>2. /\ pc[t] = "get_unlock"
        /\ pc' = [pc EXCEPT ![t] = IF ~ok THEN "idle"
                                   ELSE IF handler[t] = "action" THEN "apply" ELSE "write"]
    BY DEF UnlockGet, Goto
  <2> QED
    BY <2>1, <2>2 DEF TypeOK
<1>3. /\ owner = t /\ ~jammed /\ copy[t] = Current
      /\ \A u \in Thread : u # t => ~Holds(u)
  BY <1>2 DEF HandlersInv, MutualExclusion, CopiedOut, Holds, GetPc
<1>4. Fields' = Fields /\ Current' = Current /\ Apply(act, Current)' = Apply(act, Current)
  BY <1>2, FieldsStay, CurrentStays
<1>5. MutualExclusion'
  BY <1>1, <1>2, <1>3 DEF HandlersInv, MutualExclusion, Holds, GetPc, SetPc
<1>6. handler[t] = "action" => t = PushTask
  BY DEF HandlersInv, OnlyPushStores, Thread
<1>7. OnlyPushStores'
  <2>1. handler[t] \in {"none", "action", "state"}
    BY DEF TypeOK
  <2>2. handler[t] # "none"
    BY <1>2 DEF HandlersInv, HandlerKnown
  <2> QED
    BY <1>1, <1>2, <1>6, <2>1, <2>2 DEF HandlersInv, OnlyPushStores, SetPc
<1>8. CopiedOut'
  BY <1>2, <1>4 DEF HandlersInv, CopiedOut
<1>9. CopySeen' /\ StateIsSnapshot'
  <2>1. pc'[t] = "write" => handler[t] = "state"
    BY <1>2, <1>7 DEF OnlyPushStores
  <2> QED
    BY <1>2, <1>3, <2>1 DEF HandlersInv, CopySeen, StateIsSnapshot, Current
<1>10. CopyApplied'
  <2>1. CASE t = PushTask
    BY <1>2, <1>3, <1>4, <2>1 DEF CopyApplied, SetPc
  <2>2. CASE t # PushTask
    BY <1>1, <1>2, <1>4, <2>2 DEF HandlersInv, CopyApplied
  <2> QED
    BY <2>1, <2>2
<1>11. RecordCurrent'
  <2>1. rec = Current /\ pc[PushTask] \notin SetPc
    BY <1>1, <1>2, <1>3 DEF HandlersInv, RecordCurrent, Holds, SetPc
  <2>2. pc'[PushTask] \notin SetPc
    BY <1>1, <1>2, <2>1 DEF SetPc
  <2> QED
    BY <1>2, <1>4, <2>1, <2>2 DEF RecordCurrent, SetPc
<1> QED
  BY <1>2, <1>5, <1>7, <1>8, <1>9, <1>10, <1>11 DEF HandlersInv, HandlerKnown

\* The unlock after a set is where the action is done: device follows rec.
LEMMA UnlockSetKeepsInv ==
  ASSUME TypeOK, HandlersInv, NEW t \in Thread, NEW ok \in BOOLEAN, UnlockSet(t, ok)
  PROVE  HandlersInv'
<1>1. /\ PushTask \in Thread /\ UpdateTask \in Thread /\ PushTask # UpdateTask
      /\ Nobody \notin Thread
  BY DEF Thread, PushTask, UpdateTask, Nobody
<1>2. /\ UNCHANGED <<sample, rec, pos, handler, copy, act, sent>>
      /\ owner' = IF ok THEN Nobody ELSE owner
      /\ jammed' = ~ok
      /\ pc[t] = "set_unlock" /\ pc'[t] = "idle"
      /\ device' = IF ok THEN Meant(act, device) ELSE device
      /\ \A u \in Thread : u # t => pc'[u] = pc[u]
      /\ \A u \in Thread : seen'[u] = seen[u] \cup {device'}
  BY DEF UnlockSet, Goto, TypeOK
<1>3. /\ t = PushTask /\ owner = t /\ ~jammed
      /\ rec = copy[PushTask] /\ copy[PushTask] = Apply(act, Current)
      /\ \A u \in Thread : u # t => ~Holds(u)
  <2>1. t = PushTask
    BY <1>2 DEF HandlersInv, OnlyPushStores, SetPc
  <2>2. Holds(t)
    BY <1>2 DEF Holds, SetPc
  <2> QED
    BY <1>2, <2>1, <2>2 DEF HandlersInv, MutualExclusion, RecordCurrent, CopyApplied, SetPc
<1>4. MutualExclusion'
  BY <1>1, <1>2, <1>3 DEF HandlersInv, MutualExclusion, Holds, GetPc, SetPc
<1>5. OnlyPushStores'
  BY <1>1, <1>2, <1>3 DEF HandlersInv, OnlyPushStores, SetPc
\* Nobody else is in a section, so nobody has copied a part of the old device.
<1>6. CopiedOut'
  BY <1>2, <1>3 DEF CopiedOut, Holds, GetPc
<1>7. CopyApplied' /\ RecordCurrent'
  <2>1. act \in Action /\ device \in Device
    BY DEF TypeOK
  <2>2. ok => Current' = Apply(act, Current)
    BY <1>2, <2>1, ApplyKeeps DEF Current
  <2> QED
    BY <1>2, <1>3, <2>2 DEF CopyApplied, RecordCurrent, SetPc
<1>8. CopySeen' /\ StateIsSnapshot'
  BY <1>2 DEF HandlersInv, CopySeen, StateIsSnapshot
<1> QED
  BY <1>2, <1>4, <1>5, <1>6, <1>7, <1>8 DEF HandlersInv, HandlerKnown

\* The action handler changes its own copy only.
LEMMA ApplyKeepsInv ==
  ASSUME TypeOK, HandlersInv, ApplyAction
  PROVE  HandlersInv'
<1>1. PushTask \in Thread /\ UpdateTask \in Thread /\ PushTask # UpdateTask
  BY DEF Thread, PushTask, UpdateTask
<1>2. /\ UNCHANGED <<sample, rec, owner, jammed, pos, handler, act, device, seen, sent>>
      /\ pc[PushTask] = "apply"
      /\ \/ pc'[PushTask] = "idle"
         \/ pc'[PushTask] = "set_lock" /\ copy'[PushTask] = Apply(act, copy[PushTask])
      /\ pc'[UpdateTask] = pc[UpdateTask] /\ copy'[UpdateTask] = copy[UpdateTask]
  BY <1>1 DEF ApplyAction, Goto, TypeOK
<1>3. Fields' = Fields /\ Current' = Current /\ Apply(act, Current)' = Apply(act, Current)
  BY <1>2, FieldsStay, CurrentStays
<1>4. copy[PushTask] = Current
  BY <1>2 DEF HandlersInv, CopyApplied
<1>5. CopyApplied' /\ RecordCurrent'
  BY <1>2, <1>3, <1>4 DEF HandlersInv, CopyApplied, RecordCurrent, SetPc
<1>6. MutualExclusion' /\ OnlyPushStores'
  BY <1>1, <1>2 DEF HandlersInv, MutualExclusion, OnlyPushStores, Holds, GetPc, SetPc, Thread
<1>7. CopiedOut' /\ CopySeen' /\ StateIsSnapshot'
  BY <1>1, <1>2, <1>3 DEF HandlersInv, CopiedOut, CopySeen, StateIsSnapshot, Thread
<1> QED
  BY <1>2, <1>5, <1>6, <1>7 DEF HandlersInv, HandlerKnown, Thread

\* The state handler sends its copy, or the file, or nothing.
LEMMA WriteKeepsInv ==
  ASSUME TypeOK, HandlersInv, NEW t \in Thread,
         WriteFile(t) \/ \E written \in BOOLEAN : WriteState(t, written)
  PROVE  HandlersInv'
<1>1. PushTask \in Thread /\ UpdateTask \in Thread
  BY DEF Thread, PushTask, UpdateTask
<1>2. /\ UNCHANGED <<sample, rec, owner, jammed, pos, handler, copy, act, device, seen>>
      /\ pc[t] \in {"write", "write_file"} /\ pc'[t] = "idle"
      /\ \A u \in Thread : u # t => pc'[u] = pc[u] /\ sent'[u] = sent[u]
      /\ \/ sent'[t] \in {sent[t], {}}
         \/ pc[t] = "write" /\ sent'[t] = {copy[t]}
  BY DEF WriteFile, WriteState, Goto, TypeOK
<1>3. Fields' = Fields /\ Current' = Current /\ Apply(act, Current)' = Apply(act, Current)
  BY <1>2, FieldsStay, CurrentStays
<1>4. StateIsSnapshot'
  BY <1>2 DEF HandlersInv, StateIsSnapshot, CopySeen
<1>5. MutualExclusion' /\ OnlyPushStores'
  BY <1>1, <1>2 DEF HandlersInv, MutualExclusion, OnlyPushStores, Holds, GetPc, SetPc
<1>6. CopiedOut' /\ CopySeen'
  BY <1>2, <1>3 DEF HandlersInv, CopiedOut, CopySeen
<1>7. CopyApplied' /\ RecordCurrent'
  <2>1. /\ pc'[PushTask] \in SetPc \cup {"apply", "set_lock"} => pc'[PushTask] = pc[PushTask]
        /\ pc'[PushTask] \notin SetPc => pc[PushTask] \notin SetPc
    BY <1>1, <1>2 DEF SetPc
  <2> QED
    BY <1>2, <1>3, <2>1 DEF HandlersInv, CopyApplied, RecordCurrent, SetPc
<1> QED
  BY <1>2, <1>4, <1>5, <1>6, <1>7 DEF HandlersInv, HandlerKnown

\* HandlersInv is an invariant.
LEMMA HandlersInvHolds == Spec => []HandlersInv
<1>1. Init => HandlersInv
  <2>1. Kept(sample, Zeroed) = Zeroed
    BY DEF Kept, Zeroed
  <2> QED
    BY <2>1 DEF Current, Init, HandlersInv, HandlerKnown, MutualExclusion, OnlyPushStores, CopiedOut,
       CopyApplied, RecordCurrent, CopySeen, StateIsSnapshot, Holds, GetPc, SetPc, Thread,
       PushTask, UpdateTask
<1>2. TypeOK /\ HandlersInv /\ [Next]_vars => HandlersInv'
  <2> SUFFICES ASSUME TypeOK, HandlersInv, [Next]_vars PROVE HandlersInv'
    OBVIOUS
  <2>1. CASE UNCHANGED vars
    <3>1. Fields' = Fields /\ Current' = Current
      BY <2>1, FieldsStay, CurrentStays DEF vars
    <3> QED
      BY <2>1, <3>1 DEF vars, HandlersInv, HandlerKnown, MutualExclusion, OnlyPushStores,
         CopiedOut, CopyApplied, RecordCurrent, CopySeen, StateIsSnapshot, Holds
  <2>2. CASE \E a \in Inputs : BeginAction(a)
    <3>1. PushTask \in Thread
      BY DEF Thread
    <3> QED
      BY <2>2, <3>1, BeginKeepsInv
  <2>3. ASSUME NEW t \in Thread, NEW file \in BOOLEAN, BeginState(t, file)
        PROVE  HandlersInv'
    BY <2>3, BeginKeepsInv
  <2>4. ASSUME NEW t \in Thread, NEW ok \in BOOLEAN, Locks(t, ok) PROVE HandlersInv'
    BY <2>4, LockKeepsInv
  <2>5. ASSUME NEW t \in Thread, HandlerStep(t) PROVE HandlersInv'
    BY <2>5, CopyOutKeepsInv, CopyInKeepsInv, UnlockGetKeepsInv, UnlockSetKeepsInv,
       ApplyKeepsInv, WriteKeepsInv DEF HandlerStep
  <2> QED
    BY <2>1, <2>2, <2>3, <2>4, <2>5 DEF Next
<1> QED
  BY <1>1, <1>2, TypeCorrect, PTL DEF Spec

\* No action that action_handler reported as done is lost, although it holds a
\* copy of the device between two locks: whenever the mutex is free, the
\* structure is what those actions make of the device.
THEOREM NoUpdateIsLost == Spec => []NoLostUpdate
<1>1. TypeOK /\ HandlersInv => NoLostUpdate
  <2> SUFFICES ASSUME TypeOK, HandlersInv, owner = Nobody PROVE rec = Current
    BY DEF NoLostUpdate, Current
  <2>1. ~jammed /\ ~Holds(PushTask)
    BY DEF HandlersInv, MutualExclusion, Thread, PushTask, Nobody
  <2> QED
    BY <2>1 DEF HandlersInv, RecordCurrent, Holds
<1> QED
  BY <1>1, TypeCorrect, HandlersInvHolds, PTL

\* What state_handler sends is the device at one moment of the call.
THEOREM StatesAreSnapshots == Spec => []StateIsSnapshot
<1>1. HandlersInv => StateIsSnapshot
  BY DEF HandlersInv
<1> QED
  BY <1>1, HandlersInvHolds, PTL
=============================================================================
