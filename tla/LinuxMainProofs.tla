-------------------------- MODULE LinuxMainProofs --------------------------
(***************************************************************************)
(* Theorems about LinuxMain, for every set of command lines, every set of  *)
(* things, every length and every number of starts.                        *)
(***************************************************************************)
EXTENDS LinuxMain, ThingIfProofs, SequenceTheorems

(* The inductive invariant.                                                *)

\* The types of the program's variables and of the SDK's.
MainTypes ==
  /\ TypeOK
  /\ mainPc \in MainPc
  /\ plan \in Plan
  /\ unanswered \in BOOLEAN

\* Where main is inside no call of the SDK.
Between == MainPc \ {"onboarding", "calling", "starting"}

\* How far the call is that main is in.
InItsCall ==
  /\ mainPc \in Between => appPc = "idle"
  /\ mainPc = "onboarding" => appPc \in {"idle", "token", "onboard", "set_author"}
  /\ mainPc = "calling" =>
       /\ appPc \in {"idle", "api"}
       /\ plan.calls # <<>>
       /\ call = Head(plan.calls)
       /\ call \in GetCall \cup UpdateCall
       /\ errp
  /\ mainPc = "starting" => appPc \in {"idle", "start"}

\* A call that is over has returned something.
HasReturned ==
  mainPc \in {"onboarding", "calling"} /\ appPc = "idle" => ret \in {"TRUE", "FALSE"}

\* Tasks are created by the last call alone.
CallsBeforeStart == mainPc \notin {"starting", "forever"} => starts = 0

Authorized == \E t \in ThingId : \A h \in Handle : author[h] = AuthorOf(t)

\* What onboarding has reached by the time it returns.
OnboardingResult ==
  /\ mainPc \in {"onboard", "onboarding"} => usable
  /\ appPc = "set_author" =>
       \E t \in ThingId : author[CH] = AuthorOf(t) /\ author[SU].author_id = t
  /\ mainPc = "onboarding" /\ appPc = "idle" /\ ret = "TRUE" =>
       state = "ONBOARDED" /\ Authorized

\* The status is written together with the code HTTP, and an error code with no
\* other code.
WellWritten(e) ==
  /\ e.code = "HTTP" <=> e.http_status_code = Written
  /\ e.error_code = Written => e.code = "HTTP"
StatusWithCode == WellWritten(error)

MainInv ==
  /\ InItsCall
  /\ HasReturned
  /\ CallsBeforeStart
  /\ OnboardingResult
  /\ StartsOnboarded
  /\ StatusWithCode
----------------------------------------------------------------------------
(* main uses the SDK, so what holds of the SDK for any caller holds here.  *)

\* A step of the program is a step of ThingIf or leaves the SDK alone.
LEMMA MainStepIsSdkStep ==
  ASSUME [MainNext]_allVars
  PROVE  [Next]_vars
<1>1. CASE UNCHANGED allVars
  BY <1>1 DEF allVars
<1>2. CASE MainNext /\ MainStep
  <2>1. CASE Initialize
    BY <1>2, <2>1 DEF MainNext, Initialize, Next, AppCall
  <2>2. CASE CallOnboard
    <3>1. PICK built \in BOOLEAN : BeginOnboard(plan.onboard, FALSE, built)
      BY <2>2 DEF CallOnboard
    <3>2. plan.onboard \in OnboardCall
      BY <3>1 DEF BeginOnboard
    <3> QED
      BY <1>2, <3>1, <3>2 DEF MainNext, Next, AppCall
  <2>3. CASE CallApi
    <3>1. PICK built \in BOOLEAN : BeginApi(Head(plan.calls), TRUE, built)
      BY <2>3 DEF CallApi
    <3>2. Head(plan.calls) \in GetCall \cup UpdateCall
      BY <3>1 DEF BeginApi
    <3> QED
      BY <1>2, <3>1, <3>2 DEF MainNext, Next, AppCall
  <2>4. CASE CallStart
    BY <1>2, <2>4 DEF MainNext, CallStart, Next, AppCall
  <2>5. CASE UNCHANGED vars
    BY <2>5
  <2> QED
    BY <1>2, <2>1, <2>2, <2>3, <2>4, <2>5 DEF MainStep, ParseCommandLine, OnboardReturned,
       ApiReturned, Exit, StartUninitialized, StartReturned
<1>3. CASE MainNext /\ (SdkStep \/ \E k \in Task : TaskStep(k))
  BY <1>3 DEF MainNext, SdkStep, TaskStep, Next
<1>4. CASE ServerFallsSilent
  BY <1>4 DEF ServerFallsSilent
<1> QED
  BY <1>1, <1>2, <1>3, <1>4 DEF MainNext

\* The whole program is an application of ThingIf.
LEMMA MainUsesSdk == MainSpec => Spec
<1>1. MainInit => Init
  BY DEF MainInit
<1>2. [MainNext]_allVars => [Next]_vars
  BY MainStepIsSdkStep
<1> QED
  BY <1>1, <1>2, PTL DEF MainSpec, Spec

----------------------------------------------------------------------------
(* What a step of the SDK can do to the object and to the call.            *)

\* What a step inside a call of the SDK does to the things MainInv speaks of.
LEMMA AppStepFacts ==
  ASSUME TypeOK, AppStep
  PROVE  /\ UNCHANGED <<usable, starts, call, errp>>
         /\ \/ appPc = "token" /\ appPc' \in {"idle", "onboard"}
            \/ appPc = "onboard" /\ appPc' \in {"idle", "set_author"}
            \/ appPc = "set_author" /\ appPc' = "idle"
            \/ appPc \in {"api", "start"} /\ appPc' = "idle"
         /\ appPc' = "idle" => ret' \in {"TRUE", "FALSE"}
         /\ appPc \in {"token", "onboard"} /\ appPc' = "idle" => ret' = "FALSE"
         /\ appPc' = "set_author" =>
              \E t \in ThingId : author'[CH] = AuthorOf(t) /\ author'[SU].author_id = t
         /\ appPc = "set_author" =>
              /\ state' = "ONBOARDED"
              /\ author' = [author EXCEPT ![SU].access_token = author[CH].access_token]
<1>1. ASSUME NEW outcome \in HttpOutcome, NEW parsed, NEW started, NEW appended,
             RunToken(outcome, parsed, started, appended)
      PROVE  /\ UNCHANGED <<usable, starts, call, errp>>
             /\ appPc = "token" /\ appPc' \in {"idle", "onboard"}
             /\ appPc' = "idle" => ret' = "FALSE"
  BY <1>1 DEF RunToken, SessionFails, OnboardRequest, Return, Continue
<1>2. ASSUME NEW outcome \in HttpOutcome, NEW t \in ThingId, NEW fields \in ParsedFields,
             RunOnboard(outcome, t, fields)
      PROVE  /\ UNCHANGED <<usable, starts, call, errp>>
             /\ appPc = "onboard" /\ appPc' \in {"idle", "set_author"}
             /\ appPc' = "idle" => ret' = "FALSE"
             /\ appPc' = "set_author" =>
                  author'[CH] = AuthorOf(t) /\ author'[SU].author_id = t
  <2>1. /\ UNCHANGED <<usable, starts, call, errp>>
        /\ appPc = "onboard" /\ appPc' \in {"idle", "set_author"}
        /\ appPc' = "idle" => ret' = "FALSE"
    BY <1>2 DEF RunOnboard, SessionFails, Return, Continue
  <2>2. appPc' = "set_author" =>
          author' = [author EXCEPT ![CH] = AuthorOf(t), ![SU].author_id = t]
    BY <1>2 DEF RunOnboard, SessionFails, Return
  <2>3. author \in [Handle -> Author]
    BY DEF TypeOK, ObjTypeOK
  <2> QED
    BY <2>1, <2>2, <2>3 DEF Handle, CH, SU, Author
<1>3. CASE FinishOnboard
  BY <1>3 DEF FinishOnboard, Return
<1>4. ASSUME NEW outcome \in HttpOutcome, NEW parsed, RunApi(outcome, parsed)
      PROVE  /\ UNCHANGED <<usable, starts, call, errp>>
             /\ appPc = "api" /\ appPc' = "idle" /\ ret' \in {"TRUE", "FALSE"}
  BY <1>4 DEF RunApi, SessionFails, Return, objVars
<1>5. ASSUME NEW created, FinishStart(created)
      PROVE  /\ UNCHANGED <<usable, starts, call, errp>>
             /\ appPc = "start" /\ appPc' = "idle" /\ ret' \in {"TRUE", "FALSE"}
  BY <1>5 DEF FinishStart, Return, objVars
<1>6. CASE \E outcome \in HttpOutcome, parsed, started, appended \in BOOLEAN :
             RunToken(outcome, parsed, started, appended)
  BY <1>1, <1>6
<1>7. CASE \E outcome \in HttpOutcome, t \in ThingId, fields \in ParsedFields :
             RunOnboard(outcome, t, fields)
  BY <1>2, <1>7
<1>8. CASE \E outcome \in HttpOutcome, parsed \in {"SUCCESS", "COPY_FAILED", "NOT_FOUND"} :
             RunApi(outcome, parsed)
  BY <1>4, <1>8
<1>9. CASE \E created \in BOOLEAN : FinishStart(created)
  BY <1>5, <1>9
<1> QED
  BY <1>3, <1>6, <1>7, <1>8, <1>9 DEF AppStep

\* The tasks never touch the application's call or the object.
LEMMA TaskStepFacts ==
  ASSUME NEW k \in Task, RecvTask(k) \/ UpdTask(k)
  PROVE  UNCHANGED <<objVars, starts, appVars>>
BY DEF RecvTask, UpdTask, BeginPush, RunPush, LoseConnection, BeginResults, FinishResults,
   FinishState, SetUpdatePath, Delay, BeginUpdate, FinishUpdate, RecvStep, UpdStep

\* Whoever writes the error structure writes it well.
LEMMA ErrorStepFacts ==
  ASSUME TypeOK, [Next]_vars
  PROVE  error' = error \/ WellWritten(error')
<1>1. ASSUME NEW p \in BOOLEAN, NEW code \in (ErrorCode \cup {Unset}) \ {"HTTP"}
      PROVE  WellWritten(WithCode(p, code))
  BY DEF WellWritten, WithCode, Uninitialized, ErrorCode, Unset, Written
<1>2. errp \in BOOLEAN
  BY DEF TypeOK, FlagTypeOK
<1>3. ASSUME NEW value, NEW p \in BOOLEAN, NEW code \in (ErrorCode \cup {Unset}) \ {"HTTP"},
             Return(value, WithCode(p, code))
      PROVE  WellWritten(error')
  BY <1>1, <1>3 DEF Return
<1>4. ASSUME NEW outcome, SessionFails(outcome)
      PROVE  error' = error \/ WellWritten(error')
  <2>1. error' = SessionError(outcome)
    BY <1>4 DEF SessionFails, Return
  <2>2. \/ SessionError(outcome) = HttpError(outcome)
        \/ SessionError(outcome) = error
        \/ SessionError(outcome) = WithCode(errp, "INSUFFICIENT_BUFFER")
        \/ SessionError(outcome) = WithCode(errp, "SOCKET")
    BY DEF SessionError
  <2>3. WellWritten(HttpError(outcome))
    BY DEF WellWritten, HttpError, Unset, Written
  <2> QED
    BY <1>1, <1>2, <2>1, <2>2, <2>3 DEF ErrorCode
<1>5. ASSUME NEW pc, Continue(pc)
      PROVE  WellWritten(error')
  BY <1>5 DEF Continue, WellWritten, Uninitialized, Unset, Written
<1>6. ASSUME NEW value, Return(value, error)
      PROVE  error' = error
  BY <1>6 DEF Return
<1>7. ASSUME AppCall
      PROVE  error' = error \/ WellWritten(error')
  <2>1. ASSUME NEW op, prv_init_kii_thing_if(op)
        PROVE  error' = error
    BY <2>1 DEF prv_init_kii_thing_if
  <2>2. ASSUME NEW op, NEW p \in BOOLEAN, NEW built, BeginOnboard(op, p, built)
        PROVE  WellWritten(error')
    BY <1>3, <1>5, <2>2 DEF BeginOnboard, ErrorCode, Unset
  <2>3. ASSUME NEW op, NEW p \in BOOLEAN, NEW built, BeginApi(op, p, built)
        PROVE  WellWritten(error')
    BY <1>3, <1>5, <2>3 DEF BeginApi, ErrorCode, Unset
  <2>4. ASSUME NEW pushStarted, BeginStart(pushStarted)
        PROVE  WellWritten(error')
    BY <1>3, <1>5, <2>4 DEF BeginStart, ErrorCode, Unset
  <2> QED
    BY <1>7, <2>1, <2>2, <2>3, <2>4 DEF AppCall, init_kii_thing_if,
       init_kii_thing_if_with_onboarded_thing
<1>8. ASSUME AppStep
      PROVE  error' = error \/ WellWritten(error')
  <2>1. ASSUME NEW outcome, NEW parsed, NEW started, NEW appended,
               RunToken(outcome, parsed, started, appended)
        PROVE  error' = error \/ WellWritten(error')
    <3>1. \/ SessionFails(outcome)
          \/ Return("FALSE", WithCode(errp, "INVALID_PAYLOAD"))
          \/ Return("FALSE", error)
          \/ Return("FALSE", WithCode(errp, "INSUFFICIENT_BUFFER"))
          \/ Continue("onboard")
      BY <2>1 DEF RunToken, OnboardRequest
    <3> QED
      BY <1>2, <1>3, <1>4, <1>5, <1>6, <3>1 DEF ErrorCode
  <2>2. ASSUME NEW outcome, NEW t, NEW fields, RunOnboard(outcome, t, fields)
        PROVE  error' = error \/ WellWritten(error')
    BY <1>2, <1>3, <1>4, <1>5, <2>2 DEF RunOnboard, ErrorCode
  <2>3. ASSUME NEW outcome, NEW parsed, RunApi(outcome, parsed)
        PROVE  error' = error \/ WellWritten(error')
    BY <1>2, <1>3, <1>4, <1>6, <2>3 DEF RunApi, ErrorCode
  <2>4. CASE FinishOnboard \/ \E created \in BOOLEAN : FinishStart(created)
    BY <1>6, <2>4 DEF FinishOnboard, FinishStart
  <2> QED
    BY <1>8, <2>1, <2>2, <2>3, <2>4 DEF AppStep
<1>9. ASSUME NEW k \in Task, RecvTask(k) \/ UpdTask(k)
      PROVE  error' = error
  BY <1>9, TaskStepFacts DEF appVars
<1> QED
  BY <1>7, <1>8, <1>9 DEF Next, vars, appVars
----------------------------------------------------------------------------
(* Type correctness of main.                                               *)

\* The calls that the options ask for are calls of the SDK.
LEMMA CallsOfType ==
  ASSUME NEW c \in CommandLine
  PROVE  CallsOf(c.subc, c.opts) \in Seq(GetCall \cup UpdateCall)
<1>1. /\ FirmwareCall(c.subc) \in GetCall \cup UpdateCall
      /\ TypeCall(c.subc) \in GetCall \cup UpdateCall
  BY DEF FirmwareCall, TypeCall, GetCall, UpdateCall
<1> DEFINE s == IF "firmware-version" \in c.opts THEN <<FirmwareCall(c.subc)>> ELSE <<>>
           t == IF "thing-type" \in c.opts THEN <<TypeCall(c.subc)>> ELSE <<>>
<1>2. s \in Seq(GetCall \cup UpdateCall) /\ t \in Seq(GetCall \cup UpdateCall)
  <2>1. /\ <<FirmwareCall(c.subc)>> \in Seq(GetCall \cup UpdateCall)
        /\ <<TypeCall(c.subc)>> \in Seq(GetCall \cup UpdateCall)
    <3>1. ASSUME NEW S, NEW e \in S PROVE <<e>> \in Seq(S)
      OBVIOUS
    <3> QED
      BY <1>1, <3>1
  <2>2. <<>> \in Seq(GetCall \cup UpdateCall)
    BY EmptySeq
  <2> QED
    BY <2>1, <2>2, Zenon
<1>3. CallsOf(c.subc, c.opts) = s \o t
  BY DEF CallsOf
<1> HIDE DEF s, t
<1> QED
  BY <1>2, <1>3

\* main never leaves its states and its plan is always made of SDK calls.
LEMMA MainTypeStep ==
  ASSUME MainTypes, MainInv, [MainNext]_allVars
  PROVE  mainPc' \in MainPc /\ plan' \in Plan
<1>0. NoPlan \in Plan
  BY EmptySeq DEF NoPlan, Plan
<1>1. ASSUME NEW c \in CommandLines, NEW mutexOk \in BOOLEAN, ParseCommandLine(c, mutexOk)
      PROVE  mainPc' \in MainPc /\ plan' \in Plan
  <2>1. c \in CommandLine
    BY CommandLinesAssumption
  <2>2. mainPc' \in {"start", "init", "init_token", "exited"}
    BY <1>1 DEF ParseCommandLine, AfterOptions
  <2> DEFINE o == IF mainPc' = "init" THEN OnboardingCall(c.opts) ELSE None
             s == IF mainPc' = "init" /\ c.subc # "onboard" THEN CallsOf(c.subc, c.opts) ELSE <<>>
             v == c.subc \in {"onboard", "onboard-with-token"}
             h == mainPc' = "start"
  <2>3. v \in BOOLEAN /\ h \in BOOLEAN
    OBVIOUS
  <2>4. o \in OnboardCall \cup {None}
    BY DEF OnboardingCall, OnboardCall
  <2>5. s \in Seq(GetCall \cup UpdateCall)
    BY <2>1, CallsOfType, EmptySeq
  <2>6. plan' = NoPlan \/ plan' = [onboard |-> o, calls |-> s, serve |-> v, help |-> h]
    BY <1>1 DEF ParseCommandLine
  <2> HIDE DEF o, s, v, h
  <2>7. plan' \in Plan
    BY <1>0, <2>3, <2>4, <2>5, <2>6 DEF Plan
  <2> QED
    BY <2>2, <2>7 DEF MainPc
<1>2. CASE Initialize \/ CallOnboard \/ OnboardReturned \/ CallApi \/ Exit \/ CallStart
  BY <1>2 DEF Initialize, CallOnboard, OnboardReturned, CallApi, Exit, CallStart, MainTypes,
     MainPc
<1>3. CASE ApiReturned
  <2>1. plan \in Plan /\ plan.calls # <<>>
    BY <1>3 DEF ApiReturned, MainTypes, MainInv, InItsCall
  <2>2. Tail(plan.calls) \in Seq(GetCall \cup UpdateCall)
    BY <2>1, HeadTailProperties DEF Plan
  <2>3. plan' = [plan EXCEPT !.calls = Tail(plan.calls)] /\ mainPc' \in {"call", "failed"}
    BY <1>3 DEF ApiReturned
  <2> QED
    BY <2>1, <2>2, <2>3 DEF Plan, MainPc
<1>4. CASE StartReturned \/ \E looksOnboarded \in BOOLEAN : StartUninitialized(looksOnboarded)
  BY <1>0, <1>4 DEF StartReturned, StartUninitialized, MainTypes, MainPc
<1>5. CASE UNCHANGED <<mainPc, plan>>
  BY <1>5 DEF MainTypes
<1> QED
  BY <1>1, <1>2, <1>3, <1>4, <1>5 DEF MainNext, MainStep, SdkStep, ServerFallsSilent, TaskStep,
     allVars, mainVars

\* The server answers, or it does not.
LEMMA UnansweredStep ==
  ASSUME MainTypes, [MainNext]_allVars
  PROVE  unanswered' \in BOOLEAN
<1>1. unanswered' = unanswered \/ unanswered' = TRUE
  BY DEF MainNext, MainStep, ParseCommandLine, Initialize, CallOnboard, OnboardReturned, CallApi,
     ApiReturned, Exit, CallStart, StartUninitialized, StartReturned, SdkStep,
     ServerFallsSilent, TaskStep, allVars, mainVars
<1> QED
  BY <1>1 DEF MainTypes

----------------------------------------------------------------------------
(* Every action keeps the invariant.                                       *)

\* A step of main between two calls leaves the SDK alone.
LEMMA ParseKeepsInv ==
  ASSUME MainTypes, MainInv, NEW c \in CommandLines, NEW mutexOk \in BOOLEAN,
         ParseCommandLine(c, mutexOk)
  PROVE  MainInv'
<1>1. /\ mainPc = "parse" /\ UNCHANGED vars
      /\ mainPc' \in {"start", "init", "init_token", "exited"}
      /\ mainPc' = "start" => plan'.help
  BY DEF ParseCommandLine, AfterOptions
<1>2. appPc = "idle" /\ starts = 0
  BY <1>1 DEF MainInv, InItsCall, CallsBeforeStart, Between, MainPc
<1>3. UNCHANGED <<state, author, usable, starts, appPc, call, errp, ret, error>>
  BY <1>1 DEF vars, objVars, appVars
<1>4. InItsCall' /\ HasReturned' /\ CallsBeforeStart'
  BY <1>1, <1>2, <1>3 DEF InItsCall, HasReturned, CallsBeforeStart
<1>5. OnboardingResult' /\ StartsOnboarded'
  BY <1>1, <1>2, <1>3 DEF OnboardingResult, StartsOnboarded, Serves
<1>6. StatusWithCode'
  BY <1>3 DEF MainInv, StatusWithCode
<1> QED
  BY <1>4, <1>5, <1>6 DEF MainInv

\* An init call that returns KII_TRUE leaves a usable object, and one with an
\* onboarded thing leaves it onboarded.
LEMMA InitializeKeepsInv ==
  ASSUME MainTypes, MainInv, Initialize
  PROVE  MainInv'
<1>1. /\ mainPc \in {"init", "init_token"} /\ UNCHANGED <<appPc, starts, error>>
      /\ mainPc' = IF ret' = "FALSE" THEN "exited"
                   ELSE IF mainPc = "init" THEN "onboard" ELSE "start"
      /\ ret' # "FALSE" => usable'
      /\ mainPc = "init_token" /\ ret' # "FALSE" =>
           state' = "ONBOARDED" /\ \E t \in ThingId : author' = [h \in Handle |-> AuthorOf(t)]
  <2>1. CASE mainPc = "init" /\ \E ok \in BOOLEAN : init_kii_thing_if(ok)
    BY <2>1 DEF Initialize, init_kii_thing_if, prv_init_kii_thing_if
  <2>2. CASE /\ mainPc = "init_token"
             /\ \E id \in ThingId, ok, fits \in BOOLEAN :
                  init_kii_thing_if_with_onboarded_thing(id, ok, fits)
    BY <2>2 DEF Initialize, init_kii_thing_if_with_onboarded_thing, prv_init_kii_thing_if
  <2> QED
    BY <2>1, <2>2 DEF Initialize
<1>2. appPc = "idle" /\ starts = 0
  BY <1>1 DEF MainInv, InItsCall, CallsBeforeStart, Between, MainPc
<1>3. InItsCall' /\ HasReturned' /\ CallsBeforeStart'
  BY <1>1, <1>2 DEF InItsCall, HasReturned, CallsBeforeStart
<1>4. OnboardingResult'
  BY <1>1, <1>2 DEF OnboardingResult
<1>5. mainPc' = "start" => Authorized'
  BY <1>1 DEF Authorized
<1>6. StartsOnboarded'
  BY <1>1, <1>5 DEF StartsOnboarded, Serves, Authorized
<1>7. StatusWithCode'
  BY <1>1 DEF MainInv, StatusWithCode
<1> QED
  BY <1>3, <1>4, <1>6, <1>7 DEF MainInv

\* The SDK leaves a usable object usable.
LEMMA CallOnboardKeepsInv ==
  ASSUME MainTypes, MainInv, StatusWithCode', CallOnboard
  PROVE  MainInv'
<1>1. /\ mainPc = "onboard" /\ mainPc' = "onboarding" /\ UNCHANGED <<starts, usable>>
      /\ \/ appPc' = "token"
         \/ appPc' = "idle" /\ ret' = "FALSE"
  BY DEF CallOnboard, BeginOnboard, objVars, Return, Continue
<1>2. starts = 0 /\ usable
  BY <1>1 DEF MainInv, CallsBeforeStart, OnboardingResult
<1>3. InItsCall' /\ HasReturned' /\ CallsBeforeStart' /\ OnboardingResult' /\ StartsOnboarded'
  BY <1>1, <1>2 DEF InItsCall, HasReturned, CallsBeforeStart, OnboardingResult, StartsOnboarded,
     Serves, Between
<1> QED
  BY <1>3 DEF MainInv

\* main goes on only with an onboarded object.
LEMMA OnboardReturnedKeepsInv ==
  ASSUME MainTypes, MainInv, OnboardReturned
  PROVE  MainInv'
<1>1. /\ mainPc = "onboarding" /\ appPc = "idle" /\ UNCHANGED <<vars, plan>>
      /\ mainPc' = IF ret # "TRUE" THEN "exited" ELSE IF plan.serve THEN "start" ELSE "call"
  BY DEF OnboardReturned, Succeeded
<1>2. UNCHANGED <<state, author, usable, starts, appPc, call, errp, ret, error>>
  BY <1>1 DEF vars, objVars, appVars
<1>3. starts = 0 /\ usable
  BY <1>1 DEF MainInv, CallsBeforeStart, OnboardingResult
<1>4. ret = "TRUE" => state = "ONBOARDED" /\ Authorized
  BY <1>1 DEF MainInv, OnboardingResult
<1>5. InItsCall' /\ HasReturned' /\ CallsBeforeStart' /\ OnboardingResult'
  BY <1>1, <1>2, <1>3 DEF InItsCall, HasReturned, CallsBeforeStart, OnboardingResult
<1>6. StartsOnboarded'
  BY <1>1, <1>2, <1>3, <1>4 DEF StartsOnboarded, Serves, Authorized
<1>7. StatusWithCode'
  BY <1>2 DEF MainInv, StatusWithCode
<1> QED
  BY <1>5, <1>6, <1>7 DEF MainInv

\* A get or an update is called with the error structure.
LEMMA CallApiKeepsInv ==
  ASSUME MainTypes, MainInv, StatusWithCode', CallApi
  PROVE  MainInv'
<1>1. PICK built \in BOOLEAN : BeginApi(Head(plan.calls), TRUE, built)
  BY DEF CallApi
<1>2. /\ mainPc = "call" /\ mainPc' = "calling" /\ UNCHANGED <<plan, starts>>
      /\ plan.calls # <<>>
      /\ call' = Head(plan.calls) /\ call' \in GetCall \cup UpdateCall /\ errp' = TRUE
  BY <1>1 DEF CallApi, BeginApi, Enter
<1>3. appPc' = "api" \/ (appPc' = "idle" /\ ret' = "FALSE")
  BY <1>1 DEF BeginApi, Return, Continue
<1>4. starts = 0
  BY <1>2 DEF MainInv, CallsBeforeStart
<1>5. InItsCall'
  BY <1>2, <1>3 DEF InItsCall, Between
<1>6. HasReturned' /\ CallsBeforeStart' /\ OnboardingResult' /\ StartsOnboarded'
  BY <1>2, <1>3, <1>4 DEF HasReturned, CallsBeforeStart, OnboardingResult, StartsOnboarded, Serves
<1> QED
  BY <1>5, <1>6 DEF MainInv

\* main is out of the call, or at the end.
LEMMA LeavesKeepInv ==
  ASSUME MainTypes, MainInv, UNCHANGED vars, appPc = "idle", mainPc' \in Between,
         mainPc' \notin {"start", "onboard"},
         mainPc' # "forever" => starts = 0
  PROVE  MainInv'
<1>1. UNCHANGED <<state, author, usable, starts, appPc, call, errp, ret, error>>
  BY DEF vars, objVars, appVars
<1>2. InItsCall' /\ HasReturned' /\ CallsBeforeStart' /\ OnboardingResult' /\ StartsOnboarded'
  BY <1>1 DEF InItsCall, HasReturned, CallsBeforeStart, OnboardingResult, StartsOnboarded, Serves,
     Between
<1>3. StatusWithCode'
  BY <1>1 DEF MainInv, StatusWithCode
<1> QED
  BY <1>2, <1>3 DEF MainInv

\* The only call that creates tasks.
LEMMA CallStartKeepsInv ==
  ASSUME MainTypes, MainInv, StatusWithCode', CallStart
  PROVE  MainInv'
<1>1. /\ mainPc' = "starting"
      /\ appPc' \in {"idle", "start"}
  BY DEF CallStart, BeginStart, Return, Continue
<1>2. InItsCall' /\ HasReturned' /\ CallsBeforeStart' /\ OnboardingResult' /\ StartsOnboarded'
  BY <1>1 DEF InItsCall, HasReturned, CallsBeforeStart, OnboardingResult, StartsOnboarded, Serves,
     Between
<1> QED
  BY <1>2 DEF MainInv

\* The SDK inside the call that main is in.
LEMMA SdkStepKeepsInv ==
  ASSUME MainTypes, MainInv, StatusWithCode', SdkStep
  PROVE  MainInv'
<1>1. AppStep /\ UNCHANGED <<mainPc, plan>> /\ TypeOK /\ mainPc \in MainPc
  BY DEF SdkStep, mainVars, MainTypes
<1>2. /\ UNCHANGED <<usable, starts, call, errp>>
      /\ \/ appPc = "token" /\ appPc' \in {"idle", "onboard"}
         \/ appPc = "onboard" /\ appPc' \in {"idle", "set_author"}
         \/ appPc = "set_author" /\ appPc' = "idle"
         \/ appPc \in {"api", "start"} /\ appPc' = "idle"
      /\ appPc' = "idle" => ret' \in {"TRUE", "FALSE"}
      /\ appPc \in {"token", "onboard"} /\ appPc' = "idle" => ret' = "FALSE"
  BY <1>1, AppStepFacts
<1>3. mainPc \in {"onboarding", "calling", "starting"}
  BY <1>1, <1>2 DEF MainInv, InItsCall, Between
<1>4. InItsCall' /\ HasReturned' /\ CallsBeforeStart'
  BY <1>1, <1>2, <1>3 DEF MainInv, InItsCall, HasReturned, CallsBeforeStart, Between
<1>5. appPc = "set_author" => state' = "ONBOARDED" /\ Authorized'
  <2> SUFFICES ASSUME appPc = "set_author" PROVE state' = "ONBOARDED" /\ Authorized'
    OBVIOUS
  <2>1. /\ state' = "ONBOARDED"
        /\ author' = [author EXCEPT ![SU].access_token = author[CH].access_token]
    BY <1>1, AppStepFacts
  <2>2. PICK t \in ThingId : author[CH] = AuthorOf(t) /\ author[SU].author_id = t
    BY DEF MainInv, OnboardingResult
  <2>3. author \in [Handle -> Author]
    BY <1>1 DEF TypeOK, ObjTypeOK
  <2>4. author'[CH] = AuthorOf(t) /\ author'[SU] = AuthorOf(t)
    BY <2>1, <2>2, <2>3 DEF Handle, CH, SU, Author, AuthorOf
  <2> QED
    BY <2>1, <2>4 DEF Authorized, Handle
<1>6. OnboardingResult'
  <2>1. appPc' = "set_author" =>
          \E t \in ThingId : author'[CH] = AuthorOf(t) /\ author'[SU].author_id = t
    BY <1>1, AppStepFacts
  <2>2. mainPc' \in {"onboard", "onboarding"} => usable'
    BY <1>1, <1>2 DEF MainInv, OnboardingResult
  <2>3. mainPc' = "onboarding" /\ appPc' = "idle" /\ ret' = "TRUE" =>
          state' = "ONBOARDED" /\ Authorized'
    BY <1>1, <1>2, <1>5 DEF MainInv, InItsCall
  <2> QED
    BY <2>1, <2>2, <2>3 DEF OnboardingResult
<1>7. StartsOnboarded'
  BY <1>1, <1>3 DEF StartsOnboarded, Serves
<1> QED
  BY <1>4, <1>6, <1>7 DEF MainInv

\* The tasks and the server touch nothing that main looks at.
LEMMA TaskStepKeepsInv ==
  ASSUME MainInv, UNCHANGED <<objVars, starts, appVars, mainPc, plan>>
  PROVE  MainInv'
BY DEF objVars, appVars, MainInv, InItsCall, HasReturned, CallsBeforeStart,
   OnboardingResult, Authorized, StartsOnboarded, Serves, StatusWithCode

\* MainInv is an invariant of the program.
LEMMA MainInvHolds == MainSpec => [](MainTypes /\ MainInv)
<1>1. MainInit => MainTypes /\ MainInv
  <2> SUFFICES ASSUME MainInit, TypeOK PROVE MainTypes /\ MainInv
    <3>1. Init => TypeOK
      BY InitTypeOK
    <3> QED
      BY <3>1 DEF MainInit
  <2>1. MainTypes
    BY EmptySeq DEF MainInit, MainTypes, MainPc, Plan, NoPlan
  <2>2. MainInv
    BY DEF MainInit, Init, MainInv, InItsCall, HasReturned, CallsBeforeStart, OnboardingResult,
       StartsOnboarded, Serves, StatusWithCode, WellWritten, Uninitialized, Unset, Written
  <2> QED
    BY <2>1, <2>2
<1>2. TypeOK' /\ MainTypes /\ MainInv /\ [MainNext]_allVars => (MainTypes /\ MainInv)'
  <2> SUFFICES ASSUME TypeOK', MainTypes, MainInv, [MainNext]_allVars
               PROVE  MainTypes' /\ MainInv'
    OBVIOUS
  <2>1. MainTypes'
    BY MainTypeStep, UnansweredStep DEF MainTypes
  <2>2. StatusWithCode'
    <3>1. error' = error \/ WellWritten(error')
      BY MainStepIsSdkStep, ErrorStepFacts DEF MainTypes
    <3> QED
      BY <3>1 DEF MainInv, StatusWithCode
  <2>3. CASE ApiReturned \/ Exit \/ StartReturned
             \/ \E looksOnboarded \in BOOLEAN : StartUninitialized(looksOnboarded)
    <3>1. /\ UNCHANGED vars
          /\ mainPc' \in Between \ {"start", "onboard"}
          /\ \/ appPc = "idle"
             \/ mainPc \in Between
          /\ mainPc' # "forever" => mainPc \notin {"starting", "forever"}
      BY <2>3 DEF ApiReturned, Exit, StartReturned, StartUninitialized, Between, MainPc
    <3>2. appPc = "idle" /\ (mainPc' # "forever" => starts = 0)
      BY <3>1 DEF MainInv, InItsCall, CallsBeforeStart
    <3> QED
      BY <2>1, <3>1, <3>2, LeavesKeepInv
  <2>4. CASE UNCHANGED allVars \/ ServerFallsSilent
    BY <2>1, <2>4, TaskStepKeepsInv DEF allVars, vars, mainVars, ServerFallsSilent
  <2>5. ASSUME NEW k \in Task, TaskStep(k)
        PROVE  MainInv'
    BY <2>5, TaskStepFacts, TaskStepKeepsInv DEF TaskStep, mainVars
  <2>6. CASE MainStep
    BY <2>1, <2>2, <2>3, <2>6, ParseKeepsInv, InitializeKeepsInv, CallOnboardKeepsInv,
       OnboardReturnedKeepsInv, CallApiKeepsInv, CallStartKeepsInv DEF MainStep
  <2> QED
    BY <2>1, <2>2, <2>4, <2>5, <2>6, SdkStepKeepsInv DEF MainNext
<1>3. MainSpec => []TypeOK
  BY MainUsesSdk, TypeCorrect, PTL
<1> QED
  BY <1>1, <1>2, <1>3, PTL DEF MainSpec
----------------------------------------------------------------------------
(* The theorems.                                                           *)

\* For any command line and any outcome of its calls, main and the SDK below it
\* keep their variables in their types.
THEOREM MainTypeCorrect == MainSpec => []MainTypeOK
<1>1. MainTypes /\ MainInv => MainTypeOK
  BY DEF MainTypes, MainTypeOK, MainInv, InItsCall
<1> QED
  BY <1>1, MainInvHolds, PTL

\* main comes to start() only with a usable, onboarded object whose two clients
\* are authorized as one thing, unless it was asked for help.
THEOREM MainStartsOnboarded == MainSpec => []StartsOnboarded
<1>1. MainInv => StartsOnboarded
  BY DEF MainInv
<1> QED
  BY <1>1, MainInvHolds, PTL

\* In a build with assertions, what main prints of the uninitialized error
\* structure after a failed call was written by that call.
THEOREM PrintedErrorsAreWritten == ASSUME ~NoAssert PROVE MainSpec => []PrintsWrittenError
<1>1. MainInit => PrintsWrittenError
  BY DEF MainInit, PrintsWrittenError
<1>2. MainInv /\ MainInv' /\ ErrorReported /\ PrintsWrittenError /\ [MainNext]_allVars
        => PrintsWrittenError'
  <2> SUFFICES ASSUME MainInv, MainInv', ErrorReported, PrintsWrittenError, [MainNext]_allVars,
                      mainPc' = "failed"
               PROVE  error'.code # Unset
    BY DEF PrintsWrittenError, MainInv, StatusWithCode, WellWritten
  <2>1. CASE mainPc = "failed"
    <3>1. appPc = "idle" /\ error.code # Unset
      BY <2>1 DEF MainInv, InItsCall, Between, MainPc, PrintsWrittenError
    <3>2. ~MainStep /\ ~SdkStep
      BY <2>1, <3>1 DEF MainStep, ParseCommandLine, Initialize, CallOnboard, OnboardReturned, CallApi,
         ApiReturned, Exit, CallStart, StartUninitialized, StartReturned, SdkStep, AppStep,
         RunToken, RunOnboard, FinishOnboard, RunApi, FinishStart
    <3>3. error' = error
      BY <3>2, TaskStepFacts DEF MainNext, TaskStep, ServerFallsSilent, allVars, vars, appVars
    <3> QED
      BY <3>1, <3>3
  <2>2. CASE mainPc # "failed"
    <3>1. ~aborted /\ ApiReturned /\ ret # "TRUE"
      <4>1. mainPc' # mainPc
        BY <2>2
      <4>2. MainNext /\ MainStep
        BY <4>1 DEF MainNext, SdkStep, TaskStep, ServerFallsSilent, allVars, mainVars
      <4> QED
        BY <4>2 DEF MainNext, MainStep, ParseCommandLine, AfterOptions, Initialize, CallOnboard,
           OnboardReturned, CallApi, ApiReturned, Succeeded, Exit, CallStart, StartUninitialized,
           StartReturned
    <3>2. /\ call \in GetCall \cup UpdateCall /\ errp /\ ret = "FALSE"
          /\ call # "onboard_with_thing_id" /\ error' = error
      BY <3>1 DEF ApiReturned, MainInv, InItsCall, HasReturned, GetCall, UpdateCall, vars, appVars
    <3> QED
      BY <3>1, <3>2 DEF ErrorReported
  <2> QED
    BY <2>1, <2>2
<1>3. MainSpec => []ErrorReported
  BY MainUsesSdk, FailuresAreReported, PTL
<1> QED
  BY <1>1, <1>2, <1>3, MainInvHolds, PTL DEF MainSpec

----------------------------------------------------------------------------
(* main keeps the contract.                                                *)

\* A call that the SDK allows any application, made while no tasks were
\* created, is one that the contract allows.
LEMMA ContractCall ==
  ASSUME starts = 0
  PROVE  /\ CallAllowed => Contract!CallAllowed
         /\ \A op, p : Enter(op, p) => Contract!Enter(op, p)
BY DEF CallAllowed, Enter, Contract!CallAllowed, Contract!Enter

\* Operators that the contract does not touch mean the same in it.
LEMMA ContractPieces ==
  /\ \A value, err : Contract!Return(value, err) <=> Return(value, err)
  /\ \A pc : Contract!Continue(pc) <=> Continue(pc)
  /\ \A p, code : Contract!WithCode(p, code) = WithCode(p, code)
  /\ \A t, h, id : Contract!Build(t, h, id) <=> Build(t, h, id)
<1>1. \A value, err : Contract!Return(value, err) <=> Return(value, err)
  BY DEF Return, Contract!Return
<1>2. \A pc : Contract!Continue(pc) <=> Continue(pc)
  BY DEF Continue, None, Uninitialized, Unset, Contract!Continue, Contract!None,
     Contract!Uninitialized, Contract!Unset
<1>3. \A p, code : Contract!WithCode(p, code) = WithCode(p, code)
  BY DEF WithCode, Uninitialized, Unset, Contract!WithCode, Contract!Uninitialized,
     Contract!Unset
<1>4. \A t, h, id : Contract!Build(t, h, id) <=> Build(t, h, id)
  BY DEF Build, Contract!Build
<1> QED
  BY <1>1, <1>2, <1>3, <1>4

\* So does a failed session.
LEMMA ContractSession ==
  ASSUME NEW outcome
  PROVE  Contract!SessionFails(outcome) <=> SessionFails(outcome)
<1>1. Contract!SessionError(outcome) = SessionError(outcome)
  BY ContractPieces DEF SessionError, HttpError, Unset, Written, Contract!SessionError,
     Contract!HttpError, Contract!Unset, Contract!Written
<1> QED
  BY <1>1, ContractPieces DEF SessionFails, AssertFalse, Contract!SessionFails,
     Contract!AssertFalse

\* A call made before tasks exist is a call of the disciplined application.
LEMMA ContractAppCall ==
  ASSUME starts = 0, AppCall
  PROVE  Contract!AppCall
<1>1. ASSUME NEW ok, init_kii_thing_if(ok)
      PROVE  Contract!init_kii_thing_if(ok)
  BY <1>1 DEF init_kii_thing_if, prv_init_kii_thing_if, ObjectInUse, NoAuthor, NoRequest, Handle,
     CH, SU, Task, NoThread, None, taskVars,
     Contract!init_kii_thing_if, Contract!prv_init_kii_thing_if, Contract!ObjectInUse,
     Contract!NoAuthor, Contract!NoRequest, Contract!Handle, Contract!CH, Contract!SU,
     Contract!Task, Contract!NoThread, Contract!None, Contract!taskVars
<1>2. ASSUME NEW id, NEW ok, NEW fits, init_kii_thing_if_with_onboarded_thing(id, ok, fits)
      PROVE  Contract!init_kii_thing_if_with_onboarded_thing(id, ok, fits)
  BY <1>2 DEF init_kii_thing_if_with_onboarded_thing, prv_init_kii_thing_if, ObjectInUse, NoAuthor,
     NoRequest, Handle, CH, SU, Task, NoThread, None, taskVars, AuthorFits, AuthorOf,
     Contract!init_kii_thing_if_with_onboarded_thing, Contract!prv_init_kii_thing_if,
     Contract!ObjectInUse, Contract!NoAuthor, Contract!NoRequest, Contract!Handle, Contract!CH,
     Contract!SU, Contract!Task, Contract!NoThread, Contract!None, Contract!taskVars,
     Contract!AuthorFits, Contract!AuthorOf
<1>3. ASSUME NEW op, NEW p, NEW built, BeginOnboard(op, p, built)
      PROVE  Contract!BeginOnboard(op, p, built)
  BY <1>3, ContractCall DEF BeginOnboard, OnboardCall, Return, Continue, WithCode, Uninitialized,
     Unset, OauthPathFits, Fits, CH, AppThread, None, objVars, taskVars,
     Contract!BeginOnboard, Contract!OnboardCall, Contract!Return, Contract!Continue,
     Contract!WithCode, Contract!Uninitialized, Contract!Unset, Contract!OauthPathFits, Contract!Fits, Contract!CH,
     Contract!AppThread, Contract!None, Contract!objVars, Contract!taskVars
<1>4. ASSUME NEW op, NEW p, NEW built, BeginApi(op, p, built)
      PROVE  Contract!BeginApi(op, p, built)
  <2>1. \A x, id : Contract!PathFits(x, id) <=> PathFits(x, id)
    BY DEF PathFits, FirmwarePathFits, ThingTypePathFits, Strlen, Fits,
       Contract!PathFits, Contract!FirmwarePathFits, Contract!ThingTypePathFits,
       Contract!Strlen, Contract!Fits
  <2> QED
    BY <1>4, <2>1, ContractCall, ContractPieces DEF BeginApi, GetCall, UpdateCall, Unset,
       AssertFalse, CH, AppThread, objVars, taskVars,
       Contract!BeginApi, Contract!GetCall, Contract!UpdateCall, Contract!Unset,
       Contract!AssertFalse, Contract!CH, Contract!AppThread, Contract!objVars,
       Contract!taskVars
<1>5. ASSUME NEW pushStarted, BeginStart(pushStarted)
      PROVE  Contract!BeginStart(pushStarted)
  BY <1>5, ContractCall DEF BeginStart, Return, Continue, WithCode, Uninitialized, Unset, None,
     objVars, Contract!BeginStart, Contract!Return, Contract!Continue, Contract!WithCode,
     Contract!Uninitialized, Contract!Unset,
     Contract!None, Contract!objVars
<1> QED
  BY <1>1, <1>2, <1>3, <1>4, <1>5 DEF AppCall, OnboardCall, GetCall, UpdateCall,
     Contract!AppCall, Contract!OnboardCall, Contract!GetCall, Contract!UpdateCall

\* Inside a call and in the tasks the contract changes nothing.
LEMMA ContractAppStep ==
  ASSUME AppStep
  PROVE  Contract!AppStep
<1>1. ASSUME NEW outcome, NEW parsed, NEW started, NEW appended,
             RunToken(outcome, parsed, started, appended)
      PROVE  Contract!RunToken(outcome, parsed, started, appended)
  <2>1. OnboardRequest(started, appended) => Contract!OnboardRequest(started, appended)
    BY ContractPieces DEF OnboardRequest, OnboardPathFits, Fits, AssertFalse, CH, AppThread, None,
       Anonymous, Contract!OnboardRequest, Contract!OnboardPathFits, Contract!Fits,
       Contract!AssertFalse, Contract!CH, Contract!AppThread, Contract!None, Contract!Anonymous
  <2> QED
    BY <1>1, <2>1, ContractPieces, ContractSession DEF RunToken, CH, Anonymous, taskVars,
       Contract!RunToken, Contract!CH, Contract!Anonymous, Contract!taskVars
<1>2. ASSUME NEW outcome, NEW t, NEW fields, RunOnboard(outcome, t, fields)
      PROVE  Contract!RunOnboard(outcome, t, fields)
  BY <1>2, ContractPieces, ContractSession DEF RunOnboard, CopyFields, AuthorOf, CH, SU, taskVars,
     Contract!RunOnboard, Contract!CopyFields, Contract!AuthorOf, Contract!CH, Contract!SU,
     Contract!taskVars
<1>3. FinishOnboard => Contract!FinishOnboard
  BY ContractPieces DEF FinishOnboard, CH, SU, taskVars,
     Contract!FinishOnboard, Contract!CH, Contract!SU, Contract!taskVars
<1>4. ASSUME NEW outcome, NEW parsed, RunApi(outcome, parsed)
      PROVE  Contract!RunApi(outcome, parsed)
  BY <1>4, ContractPieces, ContractSession DEF RunApi, UpdateCall, objVars, taskVars,
     Contract!RunApi, Contract!UpdateCall, Contract!objVars, Contract!taskVars
<1>5. ASSUME NEW created, FinishStart(created)
      PROVE  Contract!FinishStart(created)
  BY <1>5, ContractPieces DEF FinishStart, objVars, Contract!FinishStart, Contract!objVars
<1> QED
  BY <1>1, <1>2, <1>3, <1>4, <1>5 DEF AppStep, HttpOutcome, ParsedFields,
     Contract!AppStep, Contract!HttpOutcome, Contract!ParsedFields

\* The tasks know nothing of the contract.
LEMMA ContractTasks ==
  ASSUME NEW k
  PROVE  /\ RecvTask(k) => Contract!RecvTask(k)
         /\ UpdTask(k) => Contract!UpdTask(k)
<1>1. \A from, to : Contract!RecvStep(k, from, to) <=> RecvStep(k, from, to)
  BY DEF RecvStep, objVars, appVars, Contract!RecvStep, Contract!objVars, Contract!appVars
<1>2. \A from, to : Contract!UpdStep(k, from, to) <=> UpdStep(k, from, to)
  BY DEF UpdStep, objVars, appVars, Contract!UpdStep, Contract!objVars, Contract!appVars
<1>3. \A id : Contract!StatePathFits(id) <=> StatePathFits(id)
  BY DEF StatePathFits, Fits, Strlen, Contract!StatePathFits, Contract!Fits, Contract!Strlen
<1>4. RecvTask(k) => Contract!RecvTask(k)
  BY <1>1, <1>3, ContractPieces DEF RecvTask, BeginPush, RunPush, LoseConnection, BeginResults,
     FinishResults, FinishState, CH, RecvThread, AssertFalse,
     Contract!RecvTask, Contract!BeginPush, Contract!RunPush, Contract!LoseConnection,
     Contract!BeginResults, Contract!FinishResults, Contract!FinishState, Contract!CH,
     Contract!RecvThread, Contract!AssertFalse
<1>5. UpdTask(k) => Contract!UpdTask(k)
  BY <1>2, <1>3, ContractPieces DEF UpdTask, SetUpdatePath, Delay, BeginUpdate, FinishUpdate, SU,
     UpdThread, AssertFalse,
     Contract!UpdTask, Contract!SetUpdatePath, Contract!Delay, Contract!BeginUpdate,
     Contract!FinishUpdate, Contract!SU, Contract!UpdThread, Contract!AssertFalse
<1> QED
  BY <1>4, <1>5

\* Every call of main is made before tasks exist, and every other step is the
\* SDK's own.
LEMMA ContractStep ==
  ASSUME MainTypes, MainInv, [MainNext]_allVars
  PROVE  [Contract!Next]_(Contract!vars)
<1>1. ASSUME UNCHANGED vars
      PROVE  UNCHANGED Contract!vars
  BY <1>1 DEF vars, objVars, appVars, taskVars,
     Contract!vars, Contract!objVars, Contract!appVars, Contract!taskVars
<1>2. ASSUME ~aborted, mainPc \notin {"starting", "forever"}, AppCall
      PROVE  Contract!Next
  BY <1>2, ContractAppCall DEF MainInv, CallsBeforeStart, Contract!Next
<1>3. ASSUME ~aborted, AppStep
      PROVE  Contract!Next
  BY <1>3, ContractAppStep DEF Contract!Next
<1>4. ASSUME ~aborted, NEW k \in Task, RecvTask(k) \/ UpdTask(k)
      PROVE  Contract!Next
  BY <1>4, ContractTasks DEF Task, Contract!Task, Contract!Next
<1>5. CASE MainNext /\ MainStep
  <2>1. CASE Initialize
    BY <1>2, <1>5, <2>1 DEF MainNext, Initialize, AppCall
  <2>2. CASE CallOnboard
    <3>1. PICK built \in BOOLEAN : BeginOnboard(plan.onboard, FALSE, built)
      BY <2>2 DEF CallOnboard
    <3>2. plan.onboard \in OnboardCall
      BY <3>1 DEF BeginOnboard
    <3>3. AppCall /\ mainPc = "onboard"
      BY <2>2, <3>1, <3>2 DEF AppCall, CallOnboard
    <3> QED
      BY <1>2, <1>5, <3>3 DEF MainNext
  <2>3. CASE CallApi
    <3>1. PICK built \in BOOLEAN : BeginApi(Head(plan.calls), TRUE, built)
      BY <2>3 DEF CallApi
    <3>2. Head(plan.calls) \in GetCall \cup UpdateCall
      BY <3>1 DEF BeginApi
    <3>3. AppCall /\ mainPc = "call"
      BY <2>3, <3>1, <3>2 DEF AppCall, CallApi
    <3> QED
      BY <1>2, <1>5, <3>3 DEF MainNext
  <2>4. CASE CallStart
    BY <1>2, <1>5, <2>4 DEF MainNext, CallStart, AppCall
  <2>5. CASE UNCHANGED vars
    BY <1>1, <2>5
  <2> QED
    BY <1>5, <2>1, <2>2, <2>3, <2>4, <2>5 DEF MainStep, ParseCommandLine, OnboardReturned,
       ApiReturned, Exit, StartUninitialized, StartReturned
<1>6. CASE MainNext /\ (SdkStep \/ \E k \in Task : TaskStep(k))
  BY <1>3, <1>4, <1>6 DEF MainNext, SdkStep, TaskStep
<1>7. CASE UNCHANGED allVars \/ ServerFallsSilent
  BY <1>1, <1>7 DEF allVars, ServerFallsSilent
<1> QED
  BY <1>5, <1>6, <1>7 DEF MainNext

\* Whatever its command line, the program is an application that calls nothing
\* after start() created tasks: it keeps the discipline under which the missing
\* locks of the SDK are harmless.
THEOREM MainKeepsContract == MainSpec => KeepsContract
<1>1. MainInit => Contract!Init
  BY DEF MainInit, Init, Handle, CH, SU, Task, NoAuthor, NoRequest, NoThread, None, Unset,
     Uninitialized, Contract!Uninitialized,
     Contract!Init, Contract!Handle, Contract!CH, Contract!SU, Contract!Task, Contract!NoAuthor,
     Contract!NoRequest, Contract!NoThread, Contract!None, Contract!Unset
<1>2. MainTypes /\ MainInv /\ [MainNext]_allVars => [Contract!Next]_(Contract!vars)
  BY ContractStep
<1>3. MainSpec => Contract!Spec
  BY <1>1, <1>2, MainInvHolds, PTL DEF MainSpec, Contract!Spec
<1> QED
  BY <1>3 DEF KeepsContract
----------------------------------------------------------------------------
(* What the contract is worth to the program.                              *)

Disciplined == INSTANCE ThingIfProofs WITH AppStopsAfterStart <- TRUE

\* Contract and Disciplined are one specification under two names: the expanded
\* definitions are the same.
LEMMA SameContract == Contract!Spec => Disciplined!Spec
<1>1. Contract!Init => Disciplined!Init
  BY DEF
    Contract!Init, Contract!Handle, Contract!CH, Contract!SU, Contract!Task, Contract!NoAuthor,
    Contract!NoRequest, Contract!NoThread, Contract!None, Contract!Unset,
    Contract!Uninitialized, Disciplined!Uninitialized, Disciplined!Init,
    Disciplined!Handle, Disciplined!CH, Disciplined!SU, Disciplined!Task, Disciplined!NoAuthor,
    Disciplined!NoRequest, Disciplined!NoThread, Disciplined!None, Disciplined!Unset
<1>2. Contract!Next => Disciplined!Next
  BY Zenon DEF
    Contract!None, Contract!Anonymous, Contract!taskVars, Contract!CH,
    Contract!SU, Contract!Handle, Contract!Task, Contract!AppThread, Contract!RecvThread,
    Contract!UpdThread, Contract!NoThread, Contract!NoAuthor, Contract!AuthorOf,
    Contract!NoRequest, Contract!Unset, Contract!Written, Contract!Uninitialized, Contract!HttpError, Contract!OnboardCall,
    Contract!GetCall, Contract!UpdateCall, Contract!InitCall, Contract!Strlen, Contract!Fits,
    Contract!OauthPathFits, Contract!OnboardPathFits, Contract!StatePathFits,
    Contract!FirmwarePathFits, Contract!ThingTypePathFits, Contract!Build,
    Contract!HttpOutcome, Contract!CallAllowed, Contract!Enter, Contract!WithCode,
    Contract!Return, Contract!Continue, Contract!SessionError, Contract!AssertFalse,
    Contract!SessionFails, Contract!ObjectInUse, Contract!prv_init_kii_thing_if,
    Contract!init_kii_thing_if, Contract!AuthorFits,
    Contract!init_kii_thing_if_with_onboarded_thing, Contract!BeginOnboard,
    Contract!OnboardRequest, Contract!RunToken, Contract!ParsedFields, Contract!CopyFields,
    Contract!RunOnboard, Contract!FinishOnboard, Contract!PathFits, Contract!BeginApi,
    Contract!RunApi, Contract!BeginStart, Contract!FinishStart, Contract!RecvStep,
    Contract!BeginPush, Contract!RunPush, Contract!LoseConnection, Contract!BeginResults,
    Contract!FinishResults, Contract!FinishState, Contract!UpdStep, Contract!SetUpdatePath,
    Contract!Delay, Contract!BeginUpdate, Contract!FinishUpdate,
    Contract!AppCall, Contract!AppStep, Contract!RecvTask, Contract!UpdTask, Contract!Next,
    Contract!objVars, Contract!appVars, Disciplined!None, Disciplined!Anonymous,
    Disciplined!taskVars, Disciplined!CH, Disciplined!SU, Disciplined!Handle,
    Disciplined!Task, Disciplined!AppThread, Disciplined!RecvThread, Disciplined!UpdThread,
    Disciplined!NoThread, Disciplined!NoAuthor, Disciplined!AuthorOf, Disciplined!NoRequest,
    Disciplined!Unset, Disciplined!Written,
    Disciplined!Uninitialized, Disciplined!HttpError, Disciplined!OnboardCall, Disciplined!GetCall,
    Disciplined!UpdateCall, Disciplined!InitCall, Disciplined!Strlen, Disciplined!Fits,
    Disciplined!OauthPathFits, Disciplined!OnboardPathFits, Disciplined!StatePathFits,
    Disciplined!FirmwarePathFits, Disciplined!ThingTypePathFits, Disciplined!Build,
    Disciplined!HttpOutcome, Disciplined!CallAllowed, Disciplined!Enter, Disciplined!WithCode,
    Disciplined!Return, Disciplined!Continue, Disciplined!SessionError,
    Disciplined!AssertFalse, Disciplined!SessionFails, Disciplined!ObjectInUse,
    Disciplined!prv_init_kii_thing_if, Disciplined!init_kii_thing_if, Disciplined!AuthorFits,
    Disciplined!init_kii_thing_if_with_onboarded_thing, Disciplined!BeginOnboard,
    Disciplined!OnboardRequest, Disciplined!RunToken, Disciplined!ParsedFields,
    Disciplined!CopyFields, Disciplined!RunOnboard, Disciplined!FinishOnboard,
    Disciplined!PathFits, Disciplined!BeginApi, Disciplined!RunApi, Disciplined!BeginStart,
    Disciplined!FinishStart, Disciplined!RecvStep, Disciplined!BeginPush, Disciplined!RunPush,
    Disciplined!LoseConnection, Disciplined!BeginResults, Disciplined!FinishResults,
    Disciplined!FinishState, Disciplined!UpdStep, Disciplined!SetUpdatePath, Disciplined!Delay,
    Disciplined!BeginUpdate, Disciplined!FinishUpdate, Disciplined!AppCall,
    Disciplined!AppStep, Disciplined!RecvTask, Disciplined!UpdTask, Disciplined!Next,
    Disciplined!objVars, Disciplined!appVars
<1>3. UNCHANGED Contract!vars => UNCHANGED Disciplined!vars
  BY DEF Contract!vars, Contract!objVars, Contract!appVars, Contract!taskVars,
    Disciplined!vars, Disciplined!objVars, Disciplined!appVars, Disciplined!taskVars
<1> QED
  BY <1>1, <1>2, <1>3, PTL DEF Contract!Spec, Disciplined!Spec

\* The assumptions of ThingIf are those of its instance.
LEMMA DisciplinedAssumptions ==
  /\ Disciplined!None \notin ThingId
  /\ Disciplined!Anonymous \notin ThingId
BY IdsAssumption DEF None, Anonymous, Disciplined!None, Disciplined!Anonymous

\* In the linux program, no thread runs a request that another thread put into
\* the unlocked buffer of a kii_t, although main and the push task share one.
THEOREM MainThreadsSendTheirOwnRequests == MainSpec => []SendsOwnRequest
<1>1. Disciplined!Spec => []Disciplined!SendsOwnRequest
  BY DisciplinedAssumptions, Disciplined!ThreadsSendTheirOwnRequests, LengthsAssumption,
     MaxStartsAssumption, FlagsAssumption
<1>2. Disciplined!SendsOwnRequest => SendsOwnRequest
  BY DEF SendsOwnRequest, CH, SU, Task, AppThread, RecvThread, UpdThread,
     Disciplined!SendsOwnRequest, Disciplined!CH, Disciplined!SU, Disciplined!Task,
     Disciplined!AppThread, Disciplined!RecvThread, Disciplined!UpdThread
<1> QED
  BY <1>1, <1>2, MainKeepsContract, SameContract, PTL DEF KeepsContract

\* In the linux program, the path that prv_update_status cached, the token of
\* every update it sends and the updater's author belong to one thing.
THEOREM MainUpdatesAreForTheOnboardedThing == MainSpec => []UpdaterIdentity
<1>1. Disciplined!Spec => []Disciplined!UpdaterIdentity
  BY DisciplinedAssumptions, Disciplined!UpdatesAreForTheOnboardedThing, LengthsAssumption,
     MaxStartsAssumption, FlagsAssumption
<1>2. Disciplined!UpdaterIdentity => UpdaterIdentity
  BY DEF UpdaterIdentity, AuthorOf, SU, Task,
     Disciplined!UpdaterIdentity, Disciplined!AuthorOf, Disciplined!SU, Disciplined!Task
<1> QED
  BY <1>1, <1>2, MainKeepsContract, SameContract, PTL DEF KeepsContract
=============================================================================
