---------------------------- MODULE ThingIfProofs ----------------------------
(***************************************************************************)
(* Theorems about ThingIf, for every set of things, every length and every *)
(* number of starts.                                                       *)
(***************************************************************************)
EXTENDS ThingIf, TLAPS

USE IdsAssumption, LengthsAssumption, MaxStartsAssumption, FlagsAssumption

(* Types of the pieces the actions are put together from.                  *)

\* The zeroed kii_author_t is one.
LEMMA NoAuthorType == NoAuthor \in Author
BY DEF NoAuthor, Author

\* So is the ID and token of a thing.
LEMMA AuthorOfType == ASSUME NEW t \in ThingId PROVE AuthorOf(t) \in Author
BY DEF AuthorOf, Author

\* The zeroed request buffer holds a request of nobody.
LEMMA NoRequestType == NoRequest \in Request
BY DEF NoRequest, Request, Thread

\* The application's thread and both tasks of every start are threads.
LEMMA ThreadType ==
  /\ AppThread \in Thread
  /\ \A k \in Task : RecvThread(k) \in Thread /\ UpdThread(k) \in Thread
BY DEF Thread

\* The requests that onboarding builds, without a thing ID in their path.
LEMMA AppRequestType ==
  ASSUME NEW token \in {Anonymous, None}
  PROVE  [by |-> AppThread, author_id |-> None, access_token |-> token] \in Request
BY ThreadType DEF Request

\* error->code = code leaves an error structure.
LEMMA WithCodeType ==
  ASSUME AppTypeOK, NEW p \in BOOLEAN, NEW code \in ErrorCode \cup {Unset}
  PROVE  WithCode(p, code) \in Error
BY DEF WithCode, Uninitialized, Error

\* So does every way prv_execute_http_session can fail.
LEMMA SessionErrorType ==
  ASSUME AppTypeOK, errp \in BOOLEAN, NEW outcome \in HttpOutcome
  PROVE  SessionError(outcome) \in Error
<1>1. error \in Error
  BY DEF AppTypeOK
<1>2. /\ WithCode(errp, "INSUFFICIENT_BUFFER") \in Error
      /\ WithCode(errp, "SOCKET") \in Error
  BY WithCodeType DEF ErrorCode
<1>3. HttpError(outcome) \in Error
  BY DEF HttpError, Error, ErrorCode
<1> QED
  BY <1>1, <1>2, <1>3 DEF SessionError

\* A return to the application leaves its result and error structure typed.
LEMMA ReturnType ==
  ASSUME NEW value \in {"TRUE", "FALSE"}, NEW err \in Error, Return(value, err)
  PROVE  appPc' \in AppPc /\ ret' \in {"TRUE", "FALSE", None} /\ error' \in Error
BY DEF Return, AppPc

\* So does a step that stays inside the call.
LEMMA ContinueType ==
  ASSUME AppTypeOK, NEW p \in AppPc, Continue(p)
  PROVE  appPc' \in AppPc /\ ret' \in {"TRUE", "FALSE", None} /\ error' \in Error
BY DEF Continue, Uninitialized, Error

\* kii_api_call_start leaves a request in each buffer.
LEMMA BuildType ==
  ASSUME ObjTypeOK, TaskTypeOK,
         NEW t \in Thread, NEW h \in Handle, NEW id \in ThingId \cup {None},
         Build(t, h, id)
  PROVE  req' \in [Handle -> Request]
BY DEF TaskTypeOK, ObjTypeOK, Build, Request, Author

----------------------------------------------------------------------------
\* The zeroed object and the idle threads have their types.
LEMMA InitTypeOK == Init => TypeOK
<1> USE DEF Author, Handle, CH, SU, Task, State, Call, OnboardCall, GetCall, UpdateCall, InitCall, AppPc, RecvPc, UpdPc,
        objVars, appVars, taskVars
<1> SUFFICES ASSUME Init PROVE TypeOK
  OBVIOUS
<1>1. ObjTypeOK
  BY NoAuthorType DEF Init, ObjTypeOK
<1>2. AppTypeOK
  BY DEF Init, AppTypeOK, Error, Uninitialized
<1>3. FlagTypeOK
  BY DEF Init, FlagTypeOK
<1>4. TaskTypeOK
  BY NoRequestType DEF Init, TaskTypeOK
<1> QED
  BY <1>1, <1>2, <1>3, <1>4 DEF TypeOK

\* Every variable keeps the type of the C object it stands for: in particular
\* an author's ID is a thing's or empty (never a token), and the error codes
\* are those of kii_thing_if_error_code_t.
THEOREM TypeCorrect == Spec => []TypeOK
<1> USE DEF Author, Handle, CH, SU, Task, State, Call, OnboardCall, GetCall, UpdateCall, InitCall, AppPc, RecvPc, UpdPc,
        objVars, appVars, taskVars
<1>1. Init => TypeOK
  BY InitTypeOK
<1>2. TypeOK /\ [Next]_vars => TypeOK'
  <2> SUFFICES ASSUME TypeOK, [Next]_vars PROVE TypeOK'
    OBVIOUS
  <2> USE DEF TypeOK
  <2>0. errp \in BOOLEAN
    BY DEF FlagTypeOK
  <2>1. ASSUME NEW ok \in BOOLEAN,
              init_kii_thing_if(ok)
       PROVE  TypeOK'
    <3>1. ObjTypeOK'
      BY <2>1, NoAuthorType
      DEF init_kii_thing_if, prv_init_kii_thing_if, ObjTypeOK
    <3>2. AppTypeOK'
      BY <2>1
      DEF init_kii_thing_if, prv_init_kii_thing_if, AppTypeOK
    <3>3. FlagTypeOK'
      BY <2>1
      DEF init_kii_thing_if, prv_init_kii_thing_if, FlagTypeOK
    <3>4. TaskTypeOK'
      BY <2>1, NoRequestType
      DEF init_kii_thing_if, prv_init_kii_thing_if, TaskTypeOK
    <3> QED
      BY <3>1, <3>2, <3>3, <3>4 DEF TypeOK
  <2>2. ASSUME NEW id \in ThingId, NEW ok \in BOOLEAN, NEW fits \in BOOLEAN,
              init_kii_thing_if_with_onboarded_thing(id, ok, fits)
       PROVE  TypeOK'
    <3>1. ObjTypeOK'
      BY <2>2, NoAuthorType, AuthorOfType
      DEF init_kii_thing_if_with_onboarded_thing,
             prv_init_kii_thing_if, ObjTypeOK
    <3>2. AppTypeOK'
      BY <2>2
      DEF init_kii_thing_if_with_onboarded_thing,
             prv_init_kii_thing_if, AppTypeOK
    <3>3. FlagTypeOK'
      BY <2>2
      DEF init_kii_thing_if_with_onboarded_thing,
             prv_init_kii_thing_if, FlagTypeOK
    <3>4. TaskTypeOK'
      BY <2>2, NoRequestType
      DEF init_kii_thing_if_with_onboarded_thing,
             prv_init_kii_thing_if, TaskTypeOK
    <3> QED
      BY <3>1, <3>2, <3>3, <3>4 DEF TypeOK
  <2>3. ASSUME NEW op \in OnboardCall, NEW p \in BOOLEAN, NEW built \in BOOLEAN,
              BeginOnboard(op, p, built)
       PROVE  TypeOK'
    <3>1. ObjTypeOK'
      BY <2>3
      DEF BeginOnboard, ObjTypeOK
    <3>2. AppTypeOK'
      BY <2>3, WithCodeType, ReturnType, ContinueType
      DEF BeginOnboard, Enter, ErrorCode, AppTypeOK
    <3>3. FlagTypeOK'
      BY <2>3
      DEF BeginOnboard, Enter, FlagTypeOK
    <3>4. TaskTypeOK'
      BY <2>3, AppRequestType
      DEF BeginOnboard, TaskTypeOK
    <3> QED
      BY <3>1, <3>2, <3>3, <3>4 DEF TypeOK
  <2>4. ASSUME NEW op \in GetCall \cup UpdateCall, NEW p \in BOOLEAN, NEW built \in BOOLEAN,
              BeginApi(op, p, built)
       PROVE  TypeOK'
    <3>1. ObjTypeOK'
      BY <2>4
      DEF BeginApi, ObjTypeOK
    <3>2. AppTypeOK'
      BY <2>4, WithCodeType, ReturnType, ContinueType
      DEF BeginApi, Enter, ErrorCode, AppTypeOK
    <3>3. FlagTypeOK'
      BY <2>4
      DEF BeginApi, Enter, AssertFalse, FlagTypeOK
    <3>4. TaskTypeOK'
      BY <2>4, BuildType, ThreadType
      DEF BeginApi, ObjTypeOK, TaskTypeOK
    <3> QED
      BY <3>1, <3>2, <3>3, <3>4 DEF TypeOK
  <2>5. ASSUME NEW pushStarted \in BOOLEAN,
              BeginStart(pushStarted)
       PROVE  TypeOK'
    <3>1. ObjTypeOK'
      <4>1. starts < MaxStarts /\ (starts' = starts \/ starts' = starts + 1)
        BY <2>5 DEF BeginStart
      <4>2. UNCHANGED <<state, author>>
        BY <2>5 DEF BeginStart
      <4> QED
        BY <4>1, <4>2 DEF ObjTypeOK
    <3>2. AppTypeOK'
      BY <2>5, WithCodeType, ReturnType, ContinueType
      DEF BeginStart, Enter, ErrorCode, AppTypeOK
    <3>3. FlagTypeOK'
      BY <2>5
      DEF BeginStart, Enter, FlagTypeOK
    <3>4. TaskTypeOK'
      BY <2>5
      DEF BeginStart, TaskTypeOK
    <3> QED
      BY <3>1, <3>2, <3>3, <3>4 DEF TypeOK
  <2>6. ASSUME NEW outcome \in HttpOutcome, NEW parsed \in BOOLEAN,
              NEW started \in BOOLEAN, NEW appended \in BOOLEAN,
              RunToken(outcome, parsed, started, appended)
       PROVE  TypeOK'
    <3>1. ObjTypeOK'
      BY <2>6
      DEF RunToken, ObjTypeOK
    <3>2. AppTypeOK'
      BY <2>6, <2>0, WithCodeType, SessionErrorType, ReturnType, ContinueType
      DEF RunToken, OnboardRequest, SessionFails, ErrorCode, AppTypeOK
    <3>3. FlagTypeOK'
      BY <2>6
      DEF RunToken, OnboardRequest, SessionFails, AssertFalse, FlagTypeOK
    <3>4. TaskTypeOK'
      BY <2>6, AppRequestType
      DEF RunToken, OnboardRequest, TaskTypeOK
    <3> QED
      BY <3>1, <3>2, <3>3, <3>4 DEF TypeOK
  <2>7. ASSUME NEW outcome \in HttpOutcome, NEW t \in ThingId, NEW fields \in ParsedFields,
              RunOnboard(outcome, t, fields)
       PROVE  TypeOK'
    <3>1. ObjTypeOK'
      BY <2>7, AuthorOfType
      DEF RunOnboard, CopyFields, AuthorOf, ObjTypeOK
    <3>2. AppTypeOK'
      BY <2>7, <2>0, WithCodeType, SessionErrorType, ReturnType, ContinueType
      DEF RunOnboard, SessionFails, ErrorCode, AppTypeOK
    <3>3. FlagTypeOK'
      BY <2>7
      DEF RunOnboard, SessionFails, AssertFalse, FlagTypeOK
    <3>4. TaskTypeOK'
      BY <2>7
      DEF RunOnboard, TaskTypeOK
    <3> QED
      BY <3>1, <3>2, <3>3, <3>4 DEF TypeOK
  <2>8. CASE FinishOnboard
    <3>1. ObjTypeOK'
      BY <2>8
      DEF FinishOnboard, ObjTypeOK
    <3>2. AppTypeOK'
      BY <2>8
      DEF FinishOnboard, Return, AppTypeOK
    <3>3. FlagTypeOK'
      BY <2>8
      DEF FinishOnboard, FlagTypeOK
    <3>4. TaskTypeOK'
      BY <2>8
      DEF FinishOnboard, TaskTypeOK
    <3> QED
      BY <3>1, <3>2, <3>3, <3>4 DEF TypeOK
  <2>9. ASSUME NEW outcome \in HttpOutcome, NEW parsed \in {"SUCCESS", "COPY_FAILED", "NOT_FOUND"},
              RunApi(outcome, parsed)
       PROVE  TypeOK'
    <3>1. ObjTypeOK'
      BY <2>9
      DEF RunApi, ObjTypeOK
    <3>2. AppTypeOK'
      BY <2>9, <2>0, WithCodeType, SessionErrorType, ReturnType
      DEF RunApi, SessionFails, ErrorCode, AppTypeOK
    <3>3. FlagTypeOK'
      BY <2>9
      DEF RunApi, SessionFails, AssertFalse, FlagTypeOK
    <3>4. TaskTypeOK'
      BY <2>9
      DEF RunApi, TaskTypeOK
    <3> QED
      BY <3>1, <3>2, <3>3, <3>4 DEF TypeOK
  <2>10. ASSUME NEW created \in BOOLEAN,
              FinishStart(created)
       PROVE  TypeOK'
    <3>1. ObjTypeOK'
      BY <2>10
      DEF FinishStart, ObjTypeOK
    <3>2. AppTypeOK'
      BY <2>10
      DEF FinishStart, Return, AppTypeOK
    <3>3. FlagTypeOK'
      BY <2>10
      DEF FinishStart, FlagTypeOK
    <3>4. TaskTypeOK'
      BY <2>10
      DEF FinishStart, TaskTypeOK
    <3> QED
      BY <3>1, <3>2, <3>3, <3>4 DEF TypeOK
  <2>11. ASSUME NEW k \in Task,
              BeginPush(k)
       PROVE  TypeOK'
    <3>1. ObjTypeOK' /\ AppTypeOK'
      BY <2>11 DEF BeginPush, RecvStep, ObjTypeOK, AppTypeOK
    <3>2. FlagTypeOK'
      BY <2>11 DEF BeginPush, RecvStep, FlagTypeOK
    <3>3. TaskTypeOK'
      BY <2>11, BuildType, ThreadType DEF BeginPush, RecvStep, ObjTypeOK, TaskTypeOK
    <3> QED
      BY <3>1, <3>2, <3>3 DEF TypeOK
  <2>12. ASSUME NEW k \in Task, NEW ok \in BOOLEAN,
              RunPush(k, ok)
       PROVE  TypeOK'
    <3>1. ObjTypeOK' /\ AppTypeOK'
      BY <2>12 DEF RunPush, RecvStep, ObjTypeOK, AppTypeOK
    <3>2. FlagTypeOK'
      BY <2>12 DEF RunPush, RecvStep, FlagTypeOK
    <3>3. TaskTypeOK'
      BY <2>12 DEF RunPush, RecvStep, ObjTypeOK, TaskTypeOK
    <3> QED
      BY <3>1, <3>2, <3>3 DEF TypeOK
  <2>13. ASSUME NEW k \in Task,
              LoseConnection(k)
       PROVE  TypeOK'
    <3>1. ObjTypeOK' /\ AppTypeOK'
      BY <2>13 DEF LoseConnection, RecvStep, ObjTypeOK, AppTypeOK
    <3>2. FlagTypeOK'
      BY <2>13 DEF LoseConnection, RecvStep, FlagTypeOK
    <3>3. TaskTypeOK'
      BY <2>13 DEF LoseConnection, RecvStep, ObjTypeOK, TaskTypeOK
    <3> QED
      BY <3>1, <3>2, <3>3 DEF TypeOK
  <2>14. ASSUME NEW k \in Task,
              BeginResults(k)
       PROVE  TypeOK'
    <3>1. ObjTypeOK' /\ AppTypeOK'
      BY <2>14 DEF BeginResults, RecvStep, ObjTypeOK, AppTypeOK
    <3>2. FlagTypeOK'
      BY <2>14 DEF BeginResults, RecvStep, FlagTypeOK
    <3>3. TaskTypeOK'
      BY <2>14, BuildType, ThreadType DEF BeginResults, RecvStep, ObjTypeOK, TaskTypeOK
    <3> QED
      BY <3>1, <3>2, <3>3 DEF TypeOK
  <2>15. ASSUME NEW k \in Task, NEW sent \in BOOLEAN, NEW started \in BOOLEAN,
              FinishResults(k, sent, started)
       PROVE  TypeOK'
    <3>1. ObjTypeOK' /\ AppTypeOK'
      BY <2>15 DEF FinishResults, RecvStep, ObjTypeOK, AppTypeOK
    <3>2. FlagTypeOK'
      BY <2>15 DEF FinishResults, RecvStep, AssertFalse, FlagTypeOK
    <3>3. TaskTypeOK'
      BY <2>15, BuildType, ThreadType DEF FinishResults, RecvStep, ObjTypeOK, TaskTypeOK
    <3> QED
      BY <3>1, <3>2, <3>3 DEF TypeOK
  <2>16. ASSUME NEW k \in Task,
              FinishState(k)
       PROVE  TypeOK'
    <3>1. ObjTypeOK' /\ AppTypeOK'
      BY <2>16 DEF FinishState, RecvStep, ObjTypeOK, AppTypeOK
    <3>2. FlagTypeOK'
      BY <2>16 DEF FinishState, RecvStep, FlagTypeOK
    <3>3. TaskTypeOK'
      BY <2>16 DEF FinishState, RecvStep, ObjTypeOK, TaskTypeOK
    <3> QED
      BY <3>1, <3>2, <3>3 DEF TypeOK
  <2>17. ASSUME NEW k \in Task,
              SetUpdatePath(k)
       PROVE  TypeOK'
    <3>1. ObjTypeOK' /\ AppTypeOK'
      BY <2>17 DEF SetUpdatePath, UpdStep, ObjTypeOK, AppTypeOK
    <3>2. FlagTypeOK'
      BY <2>17 DEF SetUpdatePath, UpdStep, AssertFalse, FlagTypeOK
    <3>3. TaskTypeOK'
      BY <2>17 DEF SetUpdatePath, UpdStep, ObjTypeOK, TaskTypeOK
    <3> QED
      BY <3>1, <3>2, <3>3 DEF TypeOK
  <2>18. ASSUME NEW k \in Task,
              Delay(k)
       PROVE  TypeOK'
    <3>1. ObjTypeOK' /\ AppTypeOK'
      BY <2>18 DEF Delay, UpdStep, ObjTypeOK, AppTypeOK
    <3>2. FlagTypeOK'
      BY <2>18 DEF Delay, UpdStep, FlagTypeOK
    <3>3. TaskTypeOK'
      BY <2>18 DEF Delay, UpdStep, ObjTypeOK, TaskTypeOK
    <3> QED
      BY <3>1, <3>2, <3>3 DEF TypeOK
  <2>19. ASSUME NEW k \in Task, NEW started \in BOOLEAN,
              BeginUpdate(k, started)
       PROVE  TypeOK'
    <3>1. ObjTypeOK' /\ AppTypeOK'
      BY <2>19 DEF BeginUpdate, UpdStep, ObjTypeOK, AppTypeOK
    <3>2. FlagTypeOK'
      BY <2>19 DEF BeginUpdate, UpdStep, FlagTypeOK
    <3>3. TaskTypeOK'
      BY <2>19, BuildType, ThreadType DEF BeginUpdate, UpdStep, ObjTypeOK, TaskTypeOK
    <3> QED
      BY <3>1, <3>2, <3>3 DEF TypeOK
  <2>20. ASSUME NEW k \in Task,
              FinishUpdate(k)
       PROVE  TypeOK'
    <3>1. ObjTypeOK' /\ AppTypeOK'
      BY <2>20 DEF FinishUpdate, UpdStep, ObjTypeOK, AppTypeOK
    <3>2. FlagTypeOK'
      BY <2>20 DEF FinishUpdate, UpdStep, FlagTypeOK
    <3>3. TaskTypeOK'
      BY <2>20 DEF FinishUpdate, UpdStep, ObjTypeOK, TaskTypeOK
    <3> QED
      BY <3>1, <3>2, <3>3 DEF TypeOK
  <2>21. CASE UNCHANGED vars
    BY <2>21 DEF vars, ObjTypeOK, AppTypeOK, FlagTypeOK, TaskTypeOK
  <2> HIDE DEF TypeOK
  <2> QED
    BY <2>1, <2>2, <2>3, <2>4, <2>5, <2>6, <2>7, <2>8, <2>9, <2>10, <2>11, <2>12, <2>13, <2>14, <2>15, <2>16, <2>17, <2>18, <2>19, <2>20, <2>21
    DEF Next, AppCall, AppStep, RecvTask, UpdTask
<1> QED
  BY <1>1, <1>2, PTL DEF Spec
----------------------------------------------------------------------------
(* The state updater's identity.                                           *)

\* While the object is onboarded, the updater's ID and its token are those of
\* things, also in the middle of prv_set_author.
OnboardedHasAuthor ==
  state = "ONBOARDED" =>
    author[SU].author_id \in ThingId /\ author[SU].access_token \in ThingId

\* In the middle of prv_set_author the command handler has the whole author of
\* the thing whose ID the updater got.
SetAuthorKnowsThing ==
  appPc = "set_author" =>
    \E t \in ThingId : author[CH] = AuthorOf(t) /\ author[SU].author_id = t

\* Tasks run on an onboarded object only.
TasksNeedOnboarding == appPc = "start" \/ ObjectInUse => state = "ONBOARDED"

\* The path that an updater cached has the ID of a thing.
PathNamesThing ==
  \A k \in Task : upd[k] \in {"delay", "start", "write"} => updId[k] \in ThingId

UpdaterInv ==
  /\ UpdaterAuthorCoherent
  /\ OnboardedHasAuthor
  /\ SetAuthorKnowsThing
  /\ TasksNeedOnboarding
  /\ PathNamesThing
  /\ UpdaterNeverAnonymous

\* A step that UpdaterInv cannot see: it is of the application inside a call
\* that is not setting the author, or of a push task.
SameUpdater ==
  /\ UNCHANGED <<state, upd, updId>>
  /\ author'[SU] = author[SU]
  /\ req'[SU] = req[SU]
  /\ \/ appPc' = appPc /\ author'[CH] = author[CH]
     \/ appPc' \notin {"set_author", "start"} /\ appPc # "set_author"
  /\ \A k \in Task : recv'[k] # "none" => recv[k] # "none"

\* Such a step keeps the invariant.
LEMMA SameUpdaterKeepsInv ==
  ASSUME UpdaterInv, SameUpdater
  PROVE  UpdaterInv'
BY DEF UpdaterInv, SameUpdater, UpdaterAuthorCoherent, OnboardedHasAuthor,
   SetAuthorKnowsThing, TasksNeedOnboarding, ObjectInUse, PathNamesThing,
   UpdaterNeverAnonymous

\* UpdaterInv is inductive: the initial states have it and every step keeps it.
LEMMA UpdaterInvHolds == Spec => []UpdaterInv
<1> USE DEF Handle, CH, SU
<1>1. Init => UpdaterInv
  BY DEF Init, UpdaterInv, UpdaterAuthorCoherent, OnboardedHasAuthor,
     SetAuthorKnowsThing, TasksNeedOnboarding, ObjectInUse, PathNamesThing,
     UpdaterNeverAnonymous
<1>2. TypeOK /\ UpdaterInv /\ [Next]_vars => UpdaterInv'
  <2> SUFFICES ASSUME TypeOK, UpdaterInv, [Next]_vars PROVE UpdaterInv'
    OBVIOUS
  <2> USE DEF TypeOK, objVars, appVars, taskVars, UpdaterInv, UpdaterAuthorCoherent,
          OnboardedHasAuthor, SetAuthorKnowsThing, TasksNeedOnboarding, PathNamesThing,
          UpdaterNeverAnonymous
  <2>1. ASSUME NEW ok \in BOOLEAN,
              init_kii_thing_if(ok)
       PROVE  UpdaterInv'
    <3>1. /\ ~ObjectInUse' /\ appPc' = "idle"
          /\ \/ state' = "INITIALIZED"
             \/ \E t \in ThingId : author' = [h \in Handle |-> AuthorOf(t)]
      BY <2>1 DEF init_kii_thing_if,
         prv_init_kii_thing_if, ObjectInUse
    <3> QED
      BY <3>1 DEF ObjectInUse, AuthorOf
  <2>2. ASSUME NEW id \in ThingId, NEW ok \in BOOLEAN, NEW fits \in BOOLEAN,
              init_kii_thing_if_with_onboarded_thing(id, ok, fits)
       PROVE  UpdaterInv'
    <3>1. /\ ~ObjectInUse' /\ appPc' = "idle"
          /\ \/ state' = "INITIALIZED"
             \/ \E t \in ThingId : author' = [h \in Handle |-> AuthorOf(t)]
      BY <2>2 DEF init_kii_thing_if_with_onboarded_thing,
         prv_init_kii_thing_if, ObjectInUse
    <3> QED
      BY <3>1 DEF ObjectInUse, AuthorOf
  <2>3. ASSUME NEW op \in OnboardCall, NEW p \in BOOLEAN, NEW built \in BOOLEAN,
              BeginOnboard(op, p, built)
       PROVE  UpdaterInv'
    <3>1. /\ appPc' \notin {"set_author", "start"} /\ appPc # "set_author"
          /\ UNCHANGED <<state, recv, upd, updId>>
      BY <2>3 DEF BeginOnboard, Enter, CallAllowed, Return, Continue
    <3>2. author'[SU] = author[SU] /\ req'[SU] = req[SU]
      BY <2>3 DEF BeginOnboard, ObjTypeOK, TaskTypeOK
    <3>3. SameUpdater
      BY <3>1, <3>2 DEF SameUpdater
    <3> QED
      BY <3>3, SameUpdaterKeepsInv
  <2>4. ASSUME NEW op \in GetCall \cup UpdateCall, NEW p \in BOOLEAN, NEW built \in BOOLEAN,
              BeginApi(op, p, built)
       PROVE  UpdaterInv'
    <3>1. /\ appPc' \notin {"set_author", "start"} /\ appPc # "set_author"
          /\ UNCHANGED <<state, recv, upd, updId>>
      BY <2>4 DEF BeginApi, Enter, CallAllowed, Return, Continue
    <3>2. author'[SU] = author[SU] /\ req'[SU] = req[SU]
      BY <2>4 DEF BeginApi, Build, ObjTypeOK, TaskTypeOK
    <3>3. SameUpdater
      BY <3>1, <3>2 DEF SameUpdater
    <3> QED
      BY <3>3, SameUpdaterKeepsInv
  <2>5. ASSUME NEW pushStarted \in BOOLEAN,
              BeginStart(pushStarted)
       PROVE  UpdaterInv'
    <3>1. /\ UNCHANGED <<state, author, upd, updId, req>>
          /\ appPc = "idle" /\ appPc' \in {"idle", "start"}
          /\ state = "ONBOARDED" \/ (recv' = recv /\ appPc' = "idle")
      BY <2>5 DEF BeginStart, Enter, CallAllowed, Return, Continue
    <3> QED
      BY <3>1 DEF ObjectInUse
  <2>6. ASSUME NEW outcome \in HttpOutcome, NEW parsed \in BOOLEAN,
              NEW started \in BOOLEAN, NEW appended \in BOOLEAN,
              RunToken(outcome, parsed, started, appended)
       PROVE  UpdaterInv'
    <3>1. /\ appPc' \notin {"set_author", "start"} /\ appPc # "set_author"
          /\ UNCHANGED <<state, recv, upd, updId>>
      BY <2>6 DEF RunToken, SessionFails, OnboardRequest, Return, Continue
    <3>2. author'[SU] = author[SU] /\ req'[SU] = req[SU]
      BY <2>6 DEF RunToken, OnboardRequest, ObjTypeOK, TaskTypeOK
    <3>3. SameUpdater
      BY <3>1, <3>2 DEF SameUpdater
    <3> QED
      BY <3>3, SameUpdaterKeepsInv
  <2>7. ASSUME NEW outcome \in HttpOutcome, NEW t \in ThingId, NEW fields \in ParsedFields,
              RunOnboard(outcome, t, fields)
       PROVE  UpdaterInv'
    <3>1. CASE author'[SU] = author[SU] /\ appPc' = "idle"
      <4>1. SameUpdater
        BY <2>7, <3>1 DEF SameUpdater, RunOnboard
      <4> QED
        BY <4>1, SameUpdaterKeepsInv
    <3>2. CASE /\ author' = [author EXCEPT ![CH] = AuthorOf(t), ![SU].author_id = t]
               /\ appPc' = "set_author"
      <4>1. UNCHANGED <<state, recv, upd, updId, req>>
        BY <2>7 DEF RunOnboard
      <4>2. /\ author'[CH] = AuthorOf(t) /\ author'[SU].author_id = t
            /\ author'[SU].access_token = author[SU].access_token
        BY <3>2 DEF ObjTypeOK
      <4> QED
        BY <3>2, <4>1, <4>2 DEF ObjectInUse
    <3> QED
      BY <2>7, <3>1, <3>2 DEF RunOnboard, SessionFails, Return, Continue, ObjTypeOK
  <2>8. CASE FinishOnboard
    <3>1. /\ UNCHANGED <<recv, upd, updId, req>>
          /\ state' = "ONBOARDED" /\ appPc' = "idle"
          /\ author' = [author EXCEPT ![SU].access_token = author[CH].access_token]
      BY <2>8 DEF FinishOnboard, Return
    <3>2. PICK t \in ThingId : author[CH] = AuthorOf(t) /\ author[SU].author_id = t
      BY <2>8 DEF FinishOnboard
    <3>3. author'[SU] = AuthorOf(t)
      <4>1. author[SU] \in Author /\ SU \in DOMAIN author
        BY DEF ObjTypeOK
      <4>2. author'[SU] = [author[SU] EXCEPT !.access_token = t]
        BY <3>1, <3>2, <4>1 DEF AuthorOf
      <4> QED
        BY <3>2, <4>1, <4>2 DEF Author, AuthorOf
    <3> QED
      BY <3>1, <3>3 DEF AuthorOf, ObjectInUse
  <2>9. ASSUME NEW outcome \in HttpOutcome, NEW parsed \in {"SUCCESS", "COPY_FAILED", "NOT_FOUND"},
              RunApi(outcome, parsed)
       PROVE  UpdaterInv'
    <3>1. SameUpdater
      BY <2>9 DEF SameUpdater, RunApi, SessionFails, Return
    <3> QED
      BY <3>1, SameUpdaterKeepsInv
  <2>10. ASSUME NEW created \in BOOLEAN,
              FinishStart(created)
       PROVE  UpdaterInv'
    <3>1. /\ UNCHANGED <<state, author, recv, updId, req>>
          /\ appPc = "start" /\ appPc' = "idle"
          /\ \A k \in Task : upd'[k] = upd[k] \/ upd'[k] \in {"path", "none"}
      BY <2>10 DEF FinishStart, Return, TaskTypeOK
    <3> QED
      BY <3>1 DEF ObjectInUse
  <2>11. ASSUME NEW k \in Task,
              BeginPush(k)
       PROVE  UpdaterInv'
    <3>1. SameUpdater
      BY <2>11 DEF SameUpdater, BeginPush, RecvStep, Build
    <3> QED
      BY <3>1, SameUpdaterKeepsInv
  <2>12. ASSUME NEW k \in Task, NEW ok \in BOOLEAN,
              RunPush(k, ok)
       PROVE  UpdaterInv'
    <3>1. SameUpdater
      BY <2>12 DEF SameUpdater, RunPush, RecvStep
    <3> QED
      BY <3>1, SameUpdaterKeepsInv
  <2>13. ASSUME NEW k \in Task,
              LoseConnection(k)
       PROVE  UpdaterInv'
    <3>1. SameUpdater
      BY <2>13 DEF SameUpdater, LoseConnection, RecvStep
    <3> QED
      BY <3>1, SameUpdaterKeepsInv
  <2>14. ASSUME NEW k \in Task,
              BeginResults(k)
       PROVE  UpdaterInv'
    <3>1. SameUpdater
      BY <2>14 DEF SameUpdater, BeginResults, RecvStep, Build
    <3> QED
      BY <3>1, SameUpdaterKeepsInv
  <2>15. ASSUME NEW k \in Task, NEW sent \in BOOLEAN, NEW started \in BOOLEAN,
              FinishResults(k, sent, started)
       PROVE  UpdaterInv'
    <3>1. /\ UNCHANGED <<state, author, upd, updId, appPc>>
          /\ \A x \in Task : recv'[x] # "none" => recv[x] # "none"
      BY <2>15 DEF FinishResults, RecvStep, TaskTypeOK
    <3>2. author'[SU] = author[SU] /\ req'[SU] = req[SU]
      BY <2>15, <3>1 DEF FinishResults, Build, TaskTypeOK
    <3>3. SameUpdater
      BY <3>1, <3>2 DEF SameUpdater
    <3> QED
      BY <3>3, SameUpdaterKeepsInv
  <2>16. ASSUME NEW k \in Task,
              FinishState(k)
       PROVE  UpdaterInv'
    <3>1. SameUpdater
      BY <2>16 DEF SameUpdater, FinishState, RecvStep
    <3> QED
      BY <3>1, SameUpdaterKeepsInv
  <2>17. ASSUME NEW k \in Task,
              SetUpdatePath(k)
       PROVE  UpdaterInv'
    <3>1. /\ UNCHANGED <<state, author, appPc, recv>>
          /\ upd[k] # "none"
          /\ req' = req
          /\ updId' = [updId EXCEPT ![k] = author[SU].author_id]
          /\ \A x \in Task : upd'[x] = upd[x] \/ (x = k /\ upd'[x] \in {"delay", "ended"})
      BY <2>17 DEF SetUpdatePath, UpdStep, TaskTypeOK
    <3>2. state = "ONBOARDED"
      BY <3>1 DEF ObjectInUse
    <3> QED
      BY <3>1, <3>2 DEF ObjectInUse, TaskTypeOK
  <2>18. ASSUME NEW k \in Task,
              Delay(k)
       PROVE  UpdaterInv'
    <3>1. /\ UNCHANGED <<state, author, appPc, recv>>
          /\ upd[k] # "none"
          /\ UNCHANGED <<updId, req>>
          /\ upd[k] = "delay"
          /\ \A x \in Task : upd'[x] = upd[x] \/ (x = k /\ upd'[x] = "start")
      BY <2>18 DEF Delay, UpdStep, TaskTypeOK
    <3>2. state = "ONBOARDED"
      BY <3>1 DEF ObjectInUse
    <3> QED
      BY <3>1, <3>2 DEF ObjectInUse, TaskTypeOK
  <2>19. ASSUME NEW k \in Task, NEW started \in BOOLEAN,
              BeginUpdate(k, started)
       PROVE  UpdaterInv'
    <3>1. /\ UNCHANGED <<state, author, appPc, recv>>
          /\ upd[k] # "none"
          /\ updId' = updId
          /\ upd[k] = "start"
          /\ req'[SU].author_id = updId[k]
          /\ req'[SU].access_token = author[SU].access_token
          /\ \A x \in Task : upd'[x] = upd[x] \/ (x = k /\ upd'[x] \in {"write", "delay"})
      BY <2>19 DEF BeginUpdate, UpdStep, Build, TaskTypeOK
    <3>2. state = "ONBOARDED"
      BY <3>1 DEF ObjectInUse
    <3> QED
      BY <3>1, <3>2 DEF ObjectInUse, TaskTypeOK
  <2>20. ASSUME NEW k \in Task,
              FinishUpdate(k)
       PROVE  UpdaterInv'
    <3>1. /\ UNCHANGED <<state, author, appPc, recv>>
          /\ upd[k] # "none"
          /\ UNCHANGED <<updId, req>>
          /\ upd[k] = "write"
          /\ \A x \in Task : upd'[x] = upd[x] \/ (x = k /\ upd'[x] = "delay")
      BY <2>20 DEF FinishUpdate, UpdStep, TaskTypeOK
    <3>2. state = "ONBOARDED"
      BY <3>1 DEF ObjectInUse
    <3> QED
      BY <3>1, <3>2 DEF ObjectInUse, TaskTypeOK
  <2>21. CASE UNCHANGED vars
    <3>1. UNCHANGED <<state, author, appPc, recv, upd, updId, req>>
      BY <2>21 DEF vars
    <3> QED
      BY <3>1 DEF ObjectInUse
  <2> HIDE DEF UpdaterInv, UpdaterAuthorCoherent, OnboardedHasAuthor, SetAuthorKnowsThing,
           TasksNeedOnboarding, PathNamesThing, UpdaterNeverAnonymous
  <2> QED
    BY <2>1, <2>2, <2>3, <2>4, <2>5, <2>6, <2>7, <2>8, <2>9, <2>10, <2>11, <2>12, <2>13, <2>14, <2>15, <2>16, <2>17, <2>18, <2>19, <2>20, <2>21
    DEF Next, AppCall, AppStep, RecvTask, UpdTask
<1> QED
  BY <1>1, <1>2, TypeCorrect, PTL DEF Spec

\* Whatever the application calls, in whatever order and next to running tasks,
\* and however requests fail: no periodic update is sent without a thing's ID
\* and a thing's token.
THEOREM UpdaterIsNeverAnonymous == Spec => []UpdaterNeverAnonymous
<1>1. UpdaterInv => UpdaterNeverAnonymous
  BY DEF UpdaterInv
<1> QED
  BY <1>1, UpdaterInvHolds, PTL

\* A failed onboarding leaves the updater's ID and token those of one thing.
THEOREM UpdaterAuthorStaysCoherent == Spec => []UpdaterAuthorCoherent
<1>1. UpdaterInv => UpdaterAuthorCoherent
  BY DEF UpdaterInv
<1> QED
  BY <1>1, UpdaterInvHolds, PTL
----------------------------------------------------------------------------
(* An application that calls nothing after start().                        *)

\* Only tasks that a start created exist.
TasksOfStarts ==
  \A k \in Task : recv[k] # "none" \/ upd[k] # "none" => k <= starts

\* There is one start, and the application is in no other call after it.
QuietAfterStart ==
  /\ starts <= 1
  /\ starts > 0 => appPc \in {"idle", "start"}

\* The thing in the path an updater cached is the one it is onboarded as.
CachedPathCurrent ==
  \A k \in Task : upd[k] \in {"delay", "start", "write"} =>
    author[SU] = AuthorOf(updId[k])

ContractInv ==
  /\ TasksOfStarts
  /\ QuietAfterStart
  /\ CachedPathCurrent
  /\ SendsOwnRequest
  /\ UpdaterIdentity

\* The steps of the calls other than the two inits and start().
CallStep ==
  \/ \E op \in OnboardCall, p, built \in BOOLEAN : BeginOnboard(op, p, built)
  \/ \E op \in GetCall \cup UpdateCall, p, built \in BOOLEAN : BeginApi(op, p, built)
  \/ \E outcome \in HttpOutcome, parsed, started, appended \in BOOLEAN :
       RunToken(outcome, parsed, started, appended)
  \/ \E outcome \in HttpOutcome, t \in ThingId, fields \in ParsedFields :
       RunOnboard(outcome, t, fields)
  \/ FinishOnboard
  \/ \E outcome \in HttpOutcome, parsed \in {"SUCCESS", "COPY_FAILED", "NOT_FOUND"} :
       RunApi(outcome, parsed)

\* Such a step happens before any task exists, and leaves the application's own
\* request in the buffer if it leaves the call unfinished.
LEMMA CallStepFacts ==
  ASSUME TypeOK, AppStopsAfterStart, QuietAfterStart, CallStep
  PROVE  /\ starts = 0
         /\ UNCHANGED <<starts, recv, upd, updId>>
         /\ appPc' \in {"token", "onboard", "api"} => req'[CH].by = AppThread
<1> USE DEF Handle, CH, SU, objVars, appVars, taskVars
<1>0. starts \in Nat /\ req \in [Handle -> Request]
  BY DEF TypeOK, ObjTypeOK, TaskTypeOK
<1>1. ASSUME NEW op \in OnboardCall, NEW p \in BOOLEAN, NEW built \in BOOLEAN,
             BeginOnboard(op, p, built)
      PROVE  /\ starts = 0 /\ UNCHANGED <<starts, recv, upd, updId>>
             /\ appPc' \in {"token", "onboard", "api"} => req'[CH].by = AppThread
  BY <1>0, <1>1 DEF BeginOnboard, Enter, CallAllowed, Return, Continue
<1>2. ASSUME NEW op \in GetCall \cup UpdateCall, NEW p \in BOOLEAN, NEW built \in BOOLEAN,
             BeginApi(op, p, built)
      PROVE  /\ starts = 0 /\ UNCHANGED <<starts, recv, upd, updId>>
             /\ appPc' \in {"token", "onboard", "api"} => req'[CH].by = AppThread
  BY <1>0, <1>2 DEF BeginApi, Enter, CallAllowed, Return, Continue, Build
<1>3. ASSUME NEW outcome \in HttpOutcome, NEW parsed \in BOOLEAN,
             NEW started \in BOOLEAN, NEW appended \in BOOLEAN,
             RunToken(outcome, parsed, started, appended)
      PROVE  /\ starts = 0 /\ UNCHANGED <<starts, recv, upd, updId>>
             /\ appPc' \in {"token", "onboard", "api"} => req'[CH].by = AppThread
  BY <1>0, <1>3 DEF QuietAfterStart, RunToken, SessionFails, OnboardRequest, Return,
     Continue
<1>4. ASSUME NEW outcome \in HttpOutcome, NEW t \in ThingId, NEW fields \in ParsedFields,
             RunOnboard(outcome, t, fields)
      PROVE  /\ starts = 0 /\ UNCHANGED <<starts, recv, upd, updId>>
             /\ appPc' \in {"idle", "set_author"}
  BY <1>0, <1>4 DEF QuietAfterStart, RunOnboard, SessionFails, Return, Continue
<1>5. CASE FinishOnboard
  BY <1>0, <1>5 DEF QuietAfterStart, FinishOnboard, Return
<1>6. ASSUME NEW outcome \in HttpOutcome,
             NEW parsed \in {"SUCCESS", "COPY_FAILED", "NOT_FOUND"},
             RunApi(outcome, parsed)
      PROVE  /\ starts = 0 /\ UNCHANGED <<starts, recv, upd, updId>>
             /\ appPc' = "idle"
  BY <1>0, <1>6 DEF QuietAfterStart, RunApi, SessionFails, Return
<1> QED
  BY <1>1, <1>2, <1>3, <1>4, <1>5, <1>6 DEF CallStep

\* A push task touches only its own pc and the command handler's buffer, which
\* holds its own request when it leaves one to be run.
LEMMA RecvTaskFacts ==
  ASSUME TypeOK, NEW k \in Task, RecvTask(k)
  PROVE  /\ recv[k] # "none"
         /\ UNCHANGED <<starts, appPc, author, upd, updId>>
         /\ req'[SU] = req[SU]
         /\ \A x \in Task : x # k => recv'[x] = recv[x]
         /\ recv'[k] \in {"push", "results", "state"} => req'[CH].by = RecvThread(k)
<1> USE DEF Handle, CH, SU, objVars, appVars, RecvStep
<1>0. req \in [Handle -> Request] /\ recv \in [Task -> RecvPc]
  BY DEF TypeOK, TaskTypeOK
<1>1. ASSUME NEW sent \in BOOLEAN, NEW started \in BOOLEAN, FinishResults(k, sent, started)
      PROVE  /\ UNCHANGED <<starts, appPc, author, upd, updId>>
             /\ recv[k] = "results"
             /\ req'[SU] = req[SU]
             /\ \A x \in Task : x # k => recv'[x] = recv[x]
             /\ recv'[k] \in {"push", "results", "state"} => req'[CH].by = RecvThread(k)
  BY <1>0, <1>1 DEF FinishResults, Build
<1>2. CASE BeginPush(k) \/ BeginResults(k)
  BY <1>0, <1>2 DEF BeginPush, BeginResults, Build
<1>3. CASE LoseConnection(k) \/ FinishState(k) \/ \E ok \in BOOLEAN : RunPush(k, ok)
  BY <1>0, <1>3 DEF LoseConnection, FinishState, RunPush
<1> QED
  BY <1>1, <1>2, <1>3 DEF RecvTask

\* An update task touches only its own pc and path and the updater's buffer; a
\* request it leaves to be run is its own, for the path it cached.
LEMMA UpdTaskFacts ==
  ASSUME TypeOK, NEW k \in Task, UpdTask(k)
  PROVE  /\ upd[k] # "none"
         /\ UNCHANGED <<starts, appPc, author, recv>>
         /\ req'[CH] = req[CH]
         /\ \A x \in Task : x # k => upd'[x] = upd[x] /\ updId'[x] = updId[x]
         /\ upd'[k] = "write" =>
              /\ upd[k] = "start" /\ updId'[k] = updId[k]
              /\ req'[SU] = [by |-> UpdThread(k), author_id |-> updId[k],
                             access_token |-> author[SU].access_token]
         /\ upd'[k] \in {"delay", "start", "write"} =>
              \/ upd[k] \in {"delay", "start", "write"} /\ updId'[k] = updId[k]
              \/ updId'[k] = author[SU].author_id
<1> USE DEF Handle, CH, SU, objVars, appVars, UpdStep
<1>0. /\ req \in [Handle -> Request] /\ upd \in [Task -> UpdPc]
      /\ updId \in [Task -> ThingId \cup {None}]
  BY DEF TypeOK, TaskTypeOK
<1>1. CASE SetUpdatePath(k)
  BY <1>0, <1>1 DEF SetUpdatePath
<1>2. CASE Delay(k) \/ FinishUpdate(k)
  BY <1>0, <1>2 DEF Delay, FinishUpdate
<1>3. CASE \E started \in BOOLEAN : BeginUpdate(k, started)
  BY <1>0, <1>3 DEF BeginUpdate, Build
<1> QED
  BY <1>1, <1>2, <1>3 DEF UpdTask

\* ContractInv is inductive, given what UpdaterInv says of the updater's author.
LEMMA ContractInvHolds == ASSUME AppStopsAfterStart PROVE Spec => []ContractInv
<1>1. Init => ContractInv
  BY DEF Init, ContractInv, TasksOfStarts, QuietAfterStart, CachedPathCurrent,
     SendsOwnRequest, UpdaterIdentity
<1>2. TypeOK /\ UpdaterInv /\ ContractInv /\ [Next]_vars => ContractInv'
  <2> SUFFICES ASSUME TypeOK, UpdaterInv, ContractInv, [Next]_vars PROVE ContractInv'
    OBVIOUS
  <2>0. starts \in Nat /\ Task \subseteq Nat \ {0}
    BY DEF TypeOK, ObjTypeOK, Task
  \* What makes the steps safe: without a start there are no tasks, and after it
  \* there is the first task of each kind and an application that does nothing.
  <2>1. ASSUME NEW x \in Task, recv[x] # "none" \/ upd[x] # "none"
        PROVE  x = 1 /\ starts = 1 /\ appPc \in {"idle", "start"}
    BY <2>0, <2>1 DEF ContractInv, TasksOfStarts, QuietAfterStart
  <2>2. ASSUME UNCHANGED <<starts, recv, upd, updId>>,
               \A x \in Task : recv[x] = "none" /\ upd[x] = "none",
               starts > 0 => appPc' \in {"idle", "start"},
               appPc' \in {"token", "onboard", "api"} => req'[CH].by = AppThread
        PROVE  ContractInv'
    BY <2>2 DEF ContractInv, TasksOfStarts, QuietAfterStart, CachedPathCurrent,
       SendsOwnRequest, UpdaterIdentity
  <2>3. ASSUME \/ \E ok \in BOOLEAN : init_kii_thing_if(ok)
               \/ \E id \in ThingId, ok, fits \in BOOLEAN :
                    init_kii_thing_if_with_onboarded_thing(id, ok, fits)
        PROVE  ContractInv'
    <3>1. /\ UNCHANGED <<starts, recv, upd, updId, appPc>>
          /\ appPc = "idle" /\ ~ObjectInUse
      BY <2>3 DEF init_kii_thing_if, init_kii_thing_if_with_onboarded_thing,
         prv_init_kii_thing_if, taskVars
    <3> QED
      BY <2>2, <3>1 DEF ObjectInUse
  <2>4. CASE CallStep
    <3>1. QuietAfterStart /\ TasksOfStarts
      BY DEF ContractInv
    <3>2. /\ starts = 0
          /\ UNCHANGED <<starts, recv, upd, updId>>
          /\ appPc' \in {"token", "onboard", "api"} => req'[CH].by = AppThread
      BY <2>4, <3>1, CallStepFacts
    <3>3. \A x \in Task : recv[x] = "none" /\ upd[x] = "none"
      BY <2>1, <3>2
    <3> QED
      BY <2>2, <3>2, <3>3
  <2>5. ASSUME NEW pushStarted \in BOOLEAN, BeginStart(pushStarted)
        PROVE  ContractInv'
    <3>1. /\ starts = 0 /\ appPc' \in {"idle", "start"}
          /\ UNCHANGED <<author, upd, updId, req>>
          /\ \/ UNCHANGED <<starts, recv>>
             \/ starts' = 1 /\ recv' = [recv EXCEPT ![1] = "boot"]
      <4>1. starts = 0
        BY <2>5 DEF BeginStart, Enter, CallAllowed
      <4>2. /\ appPc' \in {"idle", "start"}
            /\ UNCHANGED <<author, upd, updId, req>>
        BY <2>5 DEF BeginStart, Return, Continue, objVars
      <4>3. \/ UNCHANGED <<starts, recv>>
            \/ /\ starts' = starts + 1
               /\ recv' = [recv EXCEPT ![starts + 1] = "boot"]
        BY <2>5 DEF BeginStart
      <4>4. starts + 1 = 1
        BY <4>1
      <4> QED
        BY <4>1, <4>2, <4>3, <4>4
    <3>2. \A x \in Task : recv[x] = "none" /\ upd[x] = "none"
      BY <2>1, <3>1
    <3>3. \A x \in Task : recv'[x] = "none" \/ (x = 1 /\ recv'[x] = "boot" /\ starts' = 1)
      BY <3>1, <3>2 DEF TypeOK, TaskTypeOK
    <3>4. starts' \in {0, 1}
      BY <3>1
    <3> QED
      BY <2>0, <3>1, <3>2, <3>3, <3>4 DEF ContractInv, TasksOfStarts, QuietAfterStart,
         CachedPathCurrent, SendsOwnRequest, UpdaterIdentity
  <2>6. ASSUME NEW created \in BOOLEAN, FinishStart(created)
        PROVE  ContractInv'
    <3>1. /\ UNCHANGED <<author, starts, recv, updId, req>>
          /\ appPc' = "idle"
          /\ upd' = [upd EXCEPT ![starts] = IF created THEN "path" ELSE "none"]
      BY <2>6 DEF FinishStart, Return, objVars
    <3>2. \A x \in Task : upd'[x] = upd[x] \/ (x = starts /\ upd'[x] \in {"path", "none"})
      BY <3>1 DEF TypeOK, TaskTypeOK
    <3> QED
      BY <2>0, <3>1, <3>2 DEF ContractInv, TasksOfStarts, QuietAfterStart,
         CachedPathCurrent, SendsOwnRequest, UpdaterIdentity
  <2>7. ASSUME NEW k \in Task, RecvTask(k)
        PROVE  ContractInv'
    <3>1. /\ recv[k] # "none"
          /\ UNCHANGED <<starts, appPc, author, upd, updId>>
          /\ req'[SU] = req[SU]
          /\ \A x \in Task : x # k => recv'[x] = recv[x]
          /\ recv'[k] \in {"push", "results", "state"} => req'[CH].by = RecvThread(k)
      BY <2>7, RecvTaskFacts
    <3>2. k = 1 /\ starts = 1 /\ appPc \in {"idle", "start"}
      BY <2>1, <3>1
    <3>3. \A x \in Task : x # k => recv'[x] = "none"
      BY <2>1, <3>1, <3>2
    <3>4. TasksOfStarts' /\ QuietAfterStart'
      BY <2>0, <3>1, <3>2, <3>3 DEF ContractInv, TasksOfStarts, QuietAfterStart
    <3>5. SendsOwnRequest'
      BY <3>1, <3>2, <3>3 DEF ContractInv, SendsOwnRequest
    <3>6. CachedPathCurrent' /\ UpdaterIdentity'
      BY <3>1 DEF ContractInv, CachedPathCurrent, UpdaterIdentity
    <3> QED
      BY <3>4, <3>5, <3>6 DEF ContractInv
  <2>8. ASSUME NEW k \in Task, UpdTask(k)
        PROVE  ContractInv'
    <3>1. /\ upd[k] # "none"
          /\ UNCHANGED <<starts, appPc, author, recv>>
          /\ req'[CH] = req[CH]
          /\ \A x \in Task : x # k => upd'[x] = upd[x] /\ updId'[x] = updId[x]
          /\ upd'[k] = "write" =>
               /\ upd[k] = "start" /\ updId'[k] = updId[k]
               /\ req'[SU] = [by |-> UpdThread(k), author_id |-> updId[k],
                              access_token |-> author[SU].access_token]
          /\ upd'[k] \in {"delay", "start", "write"} =>
               \/ upd[k] \in {"delay", "start", "write"} /\ updId'[k] = updId[k]
               \/ updId'[k] = author[SU].author_id
      BY <2>8, UpdTaskFacts
    <3>2. k = 1 /\ starts = 1 /\ appPc \in {"idle", "start"}
      BY <2>1, <3>1
    <3>3. \A x \in Task : x # k => upd'[x] = "none"
      BY <2>1, <3>1, <3>2
    <3>4. TasksOfStarts' /\ QuietAfterStart'
      BY <2>0, <3>1, <3>2, <3>3 DEF ContractInv, TasksOfStarts, QuietAfterStart
    <3>5. SendsOwnRequest'
      BY <3>1, <3>3 DEF ContractInv, SendsOwnRequest
    \* start() found the object onboarded, so the updater's author is one thing's.
    <3>6. /\ author[SU] = AuthorOf(author[SU].author_id)
          /\ author[SU].author_id \in ThingId
      <4>1. state = "ONBOARDED"
        BY <3>1 DEF UpdaterInv, TasksNeedOnboarding, ObjectInUse
      <4>2. PICK t \in ThingId : author[SU] = AuthorOf(t)
        BY <3>2, <4>1 DEF UpdaterInv, UpdaterAuthorCoherent
      <4>3. author[SU].author_id = t
        BY <4>2 DEF AuthorOf
      <4> QED
        BY <4>2, <4>3
    <3>7. CachedPathCurrent'
      BY <3>1, <3>3, <3>6 DEF ContractInv, CachedPathCurrent
    <3>8. UpdaterIdentity'
      <4> SUFFICES ASSUME upd'[k] = "write"
                   PROVE  \E t \in ThingId : /\ author'[SU] = AuthorOf(t)
                                             /\ req'[SU].author_id = t
                                             /\ req'[SU].access_token = t
        BY <3>3 DEF UpdaterIdentity
      <4>1. author[SU] = AuthorOf(updId[k])
        BY <3>1 DEF ContractInv, CachedPathCurrent
      <4>2. author[SU].author_id = updId[k] /\ author[SU].access_token = updId[k]
        BY <4>1 DEF AuthorOf
      <4> QED
        BY <3>1, <3>6, <4>1, <4>2
    <3> QED
      BY <3>4, <3>5, <3>7, <3>8 DEF ContractInv
  <2>9. CASE UNCHANGED vars
    BY <2>9 DEF vars, objVars, appVars, taskVars, ContractInv, TasksOfStarts,
       QuietAfterStart, CachedPathCurrent, SendsOwnRequest, UpdaterIdentity
  <2> QED
    BY <2>3, <2>4, <2>5, <2>6, <2>7, <2>8, <2>9 DEF Next, AppCall, AppStep, CallStep
<1> QED
  BY <1>1, <1>2, TypeCorrect, UpdaterInvHolds, PTL DEF Spec

\* If the application keeps out of the SDK once start() has succeeded (as the
\* state KII_THING_IF_STATE_STARTED was meant to enforce), no thread ever runs a
\* request that another thread put into the unlocked buffer of a kii_t.
THEOREM ThreadsSendTheirOwnRequests ==
  ASSUME AppStopsAfterStart PROVE Spec => []SendsOwnRequest
<1>1. ContractInv => SendsOwnRequest
  BY DEF ContractInv
<1> QED
  BY <1>1, ContractInvHolds, PTL

\* Under the same discipline every periodic update is for the thing the object
\* is onboarded as: cached path, token and author agree.
THEOREM UpdatesAreForTheOnboardedThing ==
  ASSUME AppStopsAfterStart PROVE Spec => []UpdaterIdentity
<1>1. ContractInv => UpdaterIdentity
  BY DEF ContractInv
<1> QED
  BY <1>1, ContractInvHolds, PTL
----------------------------------------------------------------------------
(* Error reporting.                                                        *)

\* error->code is set wherever the pointer is looked at.
LEMMA WithCodeSets ==
  ASSUME AppTypeOK, NEW code \in ErrorCode
  PROVE  /\ WithCode(TRUE, code).code # Unset
         /\ errp => WithCode(errp, code).code # Unset
BY DEF WithCode, Uninitialized, ErrorCode, Unset

\* prv_execute_http_session sets the code, or an assertion fails.
LEMMA SessionErrorSets ==
  ASSUME AppTypeOK, NEW outcome \in HttpOutcome \ {"2xx"}, errp,
         outcome # "INVALID_RESPONSE"
  PROVE  SessionError(outcome).code # Unset
<1>1. CASE outcome \in {"status", "status_without_code"}
  BY <1>1 DEF SessionError, HttpError, Unset
<1>2. CASE outcome \in {"NONE", "INSUFFICIENT_BUFFER"}
  <2>1. SessionError(outcome) = WithCode(errp, "INSUFFICIENT_BUFFER")
    BY <1>2 DEF SessionError
  <2> QED
    BY <2>1, WithCodeSets DEF ErrorCode
<1>3. CASE outcome = "SOCKET"
  <2>1. SessionError(outcome) = WithCode(errp, "SOCKET")
    BY <1>3 DEF SessionError
  <2> QED
    BY <2>1, WithCodeSets DEF ErrorCode
<1> QED
  BY <1>1, <1>2, <1>3 DEF HttpOutcome

\* So a call that a failed session ends keeps its promise.
LEMMA SessionFailureReported ==
  ASSUME AppTypeOK, NEW outcome \in HttpOutcome \ {"2xx"}, SessionFails(outcome),
         UNCHANGED errp
  PROVE  ErrorReported'
<1>1. CASE outcome = "INVALID_RESPONSE" /\ errp
  BY <1>1 DEF SessionFails, AssertFalse, ErrorReported
<1>2. CASE outcome # "INVALID_RESPONSE" /\ errp
  <2>1. error' = SessionError(outcome)
    BY DEF SessionFails, Return
  <2> QED
    BY <1>2, <2>1, SessionErrorSets DEF ErrorReported
<1>3. CASE ~errp
  BY <1>3 DEF ErrorReported
<1> QED
  BY <1>1, <1>2, <1>3

\* The application learns why a call failed: every path on which onboarding, a
\* get or an update returns KII_FALSE has put a code into the error structure,
\* but for the two exceptions that ErrorReported names.
THEOREM FailuresAreReported == Spec => []ErrorReported
<1>1. Init => ErrorReported
  BY DEF Init, ErrorReported, None
<1>2. TypeOK /\ ErrorReported /\ [Next]_vars => ErrorReported'
  <2> SUFFICES ASSUME TypeOK, ErrorReported, [Next]_vars PROVE ErrorReported'
    OBVIOUS
  <2>0. AppTypeOK /\ errp \in BOOLEAN
    BY DEF TypeOK, FlagTypeOK
  <2>1. ASSUME NEW op, prv_init_kii_thing_if(op), op \in InitCall
        PROVE  ErrorReported'
    BY <2>1 DEF prv_init_kii_thing_if, ErrorReported, OnboardCall, GetCall, UpdateCall, InitCall
  <2>2. ASSUME NEW op \in OnboardCall, NEW p \in BOOLEAN, NEW built \in BOOLEAN,
               BeginOnboard(op, p, built)
        PROVE  ErrorReported'
    <3>1. errp' = p
      BY <2>2 DEF BeginOnboard, Enter
    <3>2. \/ Return("FALSE", WithCode(p, "INVALID_STATE"))
          \/ Return("FALSE", WithCode(p, "INSUFFICIENT_BUFFER"))
          \/ Continue("token")
      BY <2>2 DEF BeginOnboard
    <3>3. CASE Continue("token")
      BY <3>3 DEF Continue, ErrorReported, None
    <3>4. CASE ~p
      BY <3>1, <3>4 DEF ErrorReported
    <3>5. ASSUME p, NEW code \in ErrorCode, Return("FALSE", WithCode(p, code))
          PROVE  ErrorReported'
      <4>1. error' = WithCode(TRUE, code)
        BY <3>5 DEF Return, WithCode
      <4> QED
        BY <2>0, <4>1, WithCodeSets DEF ErrorReported
    <3> QED
      BY <3>2, <3>3, <3>4, <3>5 DEF ErrorCode
  <2>3. ASSUME NEW op \in GetCall \cup UpdateCall, NEW p \in BOOLEAN, NEW built \in BOOLEAN,
               BeginApi(op, p, built)
        PROVE  ErrorReported'
    <3>1. errp' = p
      BY <2>3 DEF BeginApi, Enter
    <3>2. \/ Return("FALSE", WithCode(p, "INVALID_STATE"))
          \/ Return("FALSE", WithCode(p, "INSUFFICIENT_BUFFER"))
          \/ Continue("api")
          \/ AssertFalse
      BY <2>3 DEF BeginApi
    <3>3. CASE Continue("api")
      BY <3>3 DEF Continue, ErrorReported, None
    <3>4. CASE ~p
      BY <3>1, <3>4 DEF ErrorReported
    <3>5. ASSUME p, NEW code \in ErrorCode, Return("FALSE", WithCode(p, code))
          PROVE  ErrorReported'
      <4>1. error' = WithCode(TRUE, code)
        BY <3>5 DEF Return, WithCode
      <4> QED
        BY <2>0, <4>1, WithCodeSets DEF ErrorReported
    <3>6. CASE AssertFalse
      BY <3>6 DEF AssertFalse, ErrorReported
    <3> QED
      BY <3>2, <3>3, <3>4, <3>5, <3>6 DEF ErrorCode
  <2>4. ASSUME NEW pushStarted, BeginStart(pushStarted)
        PROVE  ErrorReported'
    BY <2>4 DEF BeginStart, Enter, ErrorReported
  <2>5. ASSUME NEW outcome \in HttpOutcome, NEW parsed \in BOOLEAN, NEW started \in BOOLEAN,
               NEW appended \in BOOLEAN, RunToken(outcome, parsed, started, appended)
        PROVE  ErrorReported'
    <3>1. UNCHANGED <<errp, call>>
      BY <2>5 DEF RunToken
    <3>2. \/ outcome # "2xx" /\ SessionFails(outcome)
          \/ Return("FALSE", WithCode(errp, "INVALID_PAYLOAD"))
          \/ OnboardRequest(started, appended)
      BY <2>5 DEF RunToken
    <3>3. CASE outcome # "2xx" /\ SessionFails(outcome)
      BY <2>0, <3>1, <3>3, SessionFailureReported
    <3>4. ASSUME NEW code \in ErrorCode, Return("FALSE", WithCode(errp, code))
          PROVE  ErrorReported'
      <4>1. error' = WithCode(errp, code)
        BY <3>4 DEF Return
      <4> QED
        BY <2>0, <3>1, <4>1, WithCodeSets DEF ErrorReported
    <3>5. CASE OnboardRequest(started, appended)
      <4>1. \/ AssertFalse
            \/ Continue("onboard")
            \/ call = "onboard_with_thing_id"
            \/ Return("FALSE", WithCode(errp, "INSUFFICIENT_BUFFER"))
        BY <3>5 DEF OnboardRequest
      <4>2. CASE AssertFalse
        BY <4>2 DEF AssertFalse, ErrorReported
      <4>3. CASE Continue("onboard")
        BY <4>3 DEF Continue, ErrorReported, None
      <4>4. CASE call = "onboard_with_thing_id"
        BY <3>1, <4>4 DEF ErrorReported
      <4> QED
        BY <3>4, <4>1, <4>2, <4>3, <4>4 DEF ErrorCode
    <3> QED
      BY <3>2, <3>3, <3>4, <3>5 DEF ErrorCode
  <2>6. ASSUME NEW outcome \in HttpOutcome, NEW t \in ThingId, NEW fields \in ParsedFields,
               RunOnboard(outcome, t, fields)
        PROVE  ErrorReported'
    <3>1. UNCHANGED <<errp, call>>
      BY <2>6 DEF RunOnboard
    <3>2. \/ outcome # "2xx" /\ SessionFails(outcome)
          \/ Continue("set_author")
          \/ Return("FALSE", WithCode(errp, "INVALID_PAYLOAD"))
      BY <2>6 DEF RunOnboard
    <3>3. CASE outcome # "2xx" /\ SessionFails(outcome)
      BY <2>0, <3>1, <3>3, SessionFailureReported
    <3>4. CASE Continue("set_author")
      BY <3>4 DEF Continue, ErrorReported, None
    <3>5. CASE Return("FALSE", WithCode(errp, "INVALID_PAYLOAD"))
      BY <2>0, <3>1, <3>5, WithCodeSets DEF Return, ErrorReported, ErrorCode
    <3> QED
      BY <3>2, <3>3, <3>4, <3>5
  <2>7. ASSUME NEW outcome \in HttpOutcome, NEW parsed, RunApi(outcome, parsed)
        PROVE  ErrorReported'
    <3>1. UNCHANGED <<errp, call>>
      BY <2>7 DEF RunApi
    <3>2. \/ outcome # "2xx" /\ SessionFails(outcome)
          \/ Return("TRUE", error)
          \/ \E code \in ErrorCode : Return("FALSE", WithCode(errp, code))
      BY <2>7 DEF RunApi, ErrorCode
    <3>3. CASE outcome # "2xx" /\ SessionFails(outcome)
      BY <2>0, <3>1, <3>3, SessionFailureReported
    <3>4. CASE Return("TRUE", error)
      BY <3>4 DEF Return, ErrorReported
    <3>5. ASSUME NEW code \in ErrorCode, Return("FALSE", WithCode(errp, code))
          PROVE  ErrorReported'
      BY <2>0, <3>1, <3>5, WithCodeSets DEF Return, ErrorReported
    <3> QED
      BY <3>2, <3>3, <3>4, <3>5
  <2>8. CASE FinishOnboard \/ \E created \in BOOLEAN : FinishStart(created)
    BY <2>8 DEF FinishOnboard, FinishStart, Return, ErrorReported
  <2>9. ASSUME ~aborted, UNCHANGED appVars
        PROVE  ErrorReported'
    BY <2>9 DEF appVars, ErrorReported
  <2>10. ASSUME NEW k \in Task, RecvTask(k) \/ UpdTask(k)
         PROVE  UNCHANGED appVars
    BY <2>10 DEF RecvTask, UpdTask, BeginPush, RunPush, LoseConnection, BeginResults,
       FinishResults, FinishState, SetUpdatePath, Delay, BeginUpdate, FinishUpdate, RecvStep,
       UpdStep
  <2>11. CASE UNCHANGED vars
    BY <2>11 DEF vars, appVars, ErrorReported
  <2>12. CASE Next /\ AppCall
    BY <2>1, <2>2, <2>3, <2>4, <2>12 DEF AppCall, init_kii_thing_if,
       init_kii_thing_if_with_onboarded_thing, InitCall
  <2>13. CASE Next /\ AppStep
    BY <2>5, <2>6, <2>7, <2>8, <2>13 DEF AppStep
  <2>14. CASE Next /\ \E k \in Task : RecvTask(k) \/ UpdTask(k)
    BY <2>9, <2>10, <2>14 DEF Next
  <2> QED
    BY <2>11, <2>12, <2>13, <2>14 DEF Next
<1> QED
  BY <1>1, <1>2, TypeCorrect, PTL DEF Spec
=============================================================================
