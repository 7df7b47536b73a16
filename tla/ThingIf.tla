------------------------------ MODULE ThingIf ------------------------------
(***************************************************************************)
(* The kii_thing_if_t object of kii_thing_if.c: its life cycle (init,      *)
(* onboarding, start), the firmware-version and thing-type calls, and the  *)
(* tasks that start() leaves running on it.                                *)
(*                                                                         *)
(* The object holds two API clients of type kii_t.  The application thread *)
(* and the push task share "command_handler"; the status-update task has   *)
(* "state_updater" to itself.  No lock protects either: a client has one   *)
(* request buffer, kii_api_call_start overwrites it, and kii_api_call_run  *)
(* sends whatever it holds.  A step of this module is what a thread does   *)
(* between two points at which another thread can be seen to run: building *)
(* a request, running it (and acting on the response), returning.          *)
(***************************************************************************)
EXTENDS Naturals

CONSTANTS
  ThingId,             \* the thing IDs an onboarding can yield
  IdLen,               \* strlen of each thing ID
  AppIdLen,            \* strlen(app_id)
  AuthorIdSize,        \* sizeof(kii_author_t.author_id)
  MaxStarts,           \* bound: how many calls of start() may create tasks
  AppStopsAfterStart,  \* the application calls nothing after start() created tasks
  NoAssert             \* built with KII_THING_IF_NOASSERT

None == "none"              \* the empty string of a zeroed kii_author_t
Anonymous == "anonymous"    \* the token of an anonymous (app-level) login

ASSUME IdsAssumption == None \notin ThingId /\ Anonymous \notin ThingId
ASSUME LengthsAssumption ==
  /\ IdLen \in [ThingId -> Nat]
  /\ AppIdLen \in Nat
  /\ AuthorIdSize \in Nat
ASSUME MaxStartsAssumption == MaxStarts \in Nat \ {0}
ASSUME FlagsAssumption == AppStopsAfterStart \in BOOLEAN /\ NoAssert \in BOOLEAN

VARIABLES
  state,     \* kii_thing_if_t.state
  author,    \* the kii_author_t of each client
  usable,    \* the last init call returned KII_TRUE
  starts,    \* how many calls of start() got past kii_push_start_routine
  appPc,     \* where the application thread is inside a call
  call,      \* the call it is in, or was in last
  errp,      \* that call got a non-NULL kii_thing_if_error_t*
  ret,       \* what that call returned, None while it runs
  error,     \* the application's kii_thing_if_error_t
  recv,      \* the push task that each start created
  upd,       \* the status-update task that each start created
  updId,     \* the thing ID in the resource path of that task
  req,       \* what the request buffer of each client holds
  aborted    \* an assertion failed: the process is gone

appVars  == <<appPc, call, errp, ret, error>>
objVars  == <<state, author, usable>>
taskVars == <<recv, upd, updId>>
vars == <<objVars, starts, appVars, taskVars, req, aborted>>

----------------------------------------------------------------------------
(* Types.                                                                  *)

CH == "command_handler"
SU == "state_updater"
Handle == {CH, SU}
Task == 1..MaxStarts

AppThread == <<"app", 0>>
RecvThread(k) == <<"recv", k>>
UpdThread(k) == <<"upd", k>>
NoThread == <<"nobody", 0>>
Thread == {NoThread, AppThread}
            \cup {RecvThread(k) : k \in Task} \cup {UpdThread(k) : k \in Task}

\* kii_thing_if_state_t
State == {"INITIALIZED", "ONBOARDED", "STARTED"}

\* kii_author_t.  The token of thing t is written t: what matters is whose it is.
Author == [author_id : ThingId \cup {None},
           access_token : ThingId \cup {Anonymous, None}]
NoAuthor == [author_id |-> None, access_token |-> None]
AuthorOf(t) == [author_id |-> t, access_token |-> t]

\* A request: who built it, the thing ID in its path, its bearer token.
Request == [by : Thread, author_id : ThingId \cup {None},
            access_token : ThingId \cup {Anonymous, None}]
NoRequest == [by |-> NoThread, author_id |-> None, access_token |-> None]

\* kii_thing_if_error_t.  Every call gets a structure of its own, which its
\* caller has not initialized: what matters is what the call writes to it.
Unset == "unset"
Written == "written"
ErrorCode == {"INVALID_STATE", "HTTP", "SOCKET", "INSUFFICIENT_BUFFER",
              "INSUFFICIENT_ARG_BUFFER", "INVALID_PAYLOAD"}
Error == [code : ErrorCode \cup {Unset}, http_status_code : {Unset, Written},
          error_code : {Unset, Written}]
Uninitialized == [code |-> Unset, http_status_code |-> Unset, error_code |-> Unset]

OnboardCall == {"onboard_with_vendor_thing_id", "onboard_with_thing_id"}
GetCall == {"get_firmware_version", "get_thing_type"}
UpdateCall == {"update_firmware_version", "update_thing_type"}
InitCall == {"init_kii_thing_if", "init_kii_thing_if_with_onboarded_thing"}
Call == OnboardCall \cup GetCall \cup UpdateCall \cup InitCall \cup {"start", None}

AppPc == {"idle", "token", "onboard", "set_author", "api", "start"}
RecvPc == {"none", "boot", "push", "wait", "results", "state"}
UpdPc == {"none", "path", "delay", "start", "write", "ended"}

ObjTypeOK ==
  /\ state \in State
  /\ author \in [Handle -> Author]
  /\ starts \in 0..MaxStarts

AppTypeOK ==
  /\ appPc \in AppPc
  /\ call \in Call
  /\ ret \in {"TRUE", "FALSE", None}
  /\ error \in Error

FlagTypeOK == {usable, errp, aborted} \subseteq BOOLEAN

TaskTypeOK ==
  /\ recv \in [Task -> RecvPc]
  /\ upd \in [Task -> UpdPc]
  /\ updId \in [Task -> ThingId \cup {None}]
  /\ req \in [Handle -> Request]

\* Every variable has the type of what it stands for in kii_thing_if.c.
TypeOK == ObjTypeOK /\ AppTypeOK /\ FlagTypeOK /\ TaskTypeOK

----------------------------------------------------------------------------
(* Resource paths.  Each builder adds up the strlen of the parts and       *)
(* refuses a path that does not leave room for the terminating NUL.        *)

Strlen(id) == IF id \in ThingId THEN IdLen[id] ELSE 0

Fits(size, length) == ~(size <= length)

\* "api/apps/" app_id "/oauth2/token" in a buffer of 64
OauthPathFits == Fits(64, 9 + AppIdLen + 13)
\* "thing-if/apps/" app_id "/onboardings" in a buffer of 64
OnboardPathFits == Fits(64, 14 + AppIdLen + 12)
\* "thing-if/apps/" app_id "/targets/thing:" id "/states" in a buffer of 256
StatePathFits(id) == Fits(256, 14 + AppIdLen + 15 + Strlen(id) + 7)
\* "thing-if/apps/" app_id "/things/" id "/firmware-version" in a buffer of 128
FirmwarePathFits(id) == Fits(128, 14 + AppIdLen + 8 + Strlen(id) + 17)
\* "thing-if/apps/" app_id "/things/" id "/thing-type" in a buffer of 128
ThingTypePathFits(id) == Fits(128, 14 + AppIdLen + 8 + Strlen(id) + 11)

----------------------------------------------------------------------------
(* The API client (external: the kii submodule).                           *)

\* kii_api_call_start: the buffer now holds a request of thread t, for thing
\* id, with the token the client has at this moment.
Build(t, h, id) ==
  req' = [req EXCEPT ![h] = [by |-> t, author_id |-> id,
                             access_token |-> author[h].access_token]]

\* How kii_api_call_run ends: with a 2xx or with another status, whose body has
\* an /errorCode that fits its array or has none, or by one of the http_error
\* values of its socket context.
HttpOutcome == {"2xx", "status", "status_without_code", "NONE", "INSUFFICIENT_BUFFER",
                "SOCKET", "INVALID_RESPONSE"}

----------------------------------------------------------------------------
(* How a call of the application thread begins and ends.                   *)

CallAllowed ==
  /\ appPc = "idle"
  /\ usable
  /\ AppStopsAfterStart => starts = 0

Enter(op, p) ==
  /\ CallAllowed
  /\ call' = op
  /\ errp' = p

\* The error structure after error->code = code, which the code does only when
\* the pointer is not NULL.  hasError is that pointer's value in this call.
WithCode(hasError, code) ==
  [Uninitialized EXCEPT !.code = IF hasError THEN code ELSE Unset]

Return(value, err) ==
  /\ appPc' = "idle"
  /\ ret' = value
  /\ error' = err

Continue(pc) ==
  /\ appPc' = pc
  /\ ret' = None
  /\ error' = Uninitialized

\* Mutant: the error structure gets no status when the body cannot be parsed.
MutHttpErrorReturnsEarly(outcome) ==
  IF outcome = "status"
    THEN [code |-> "HTTP", http_status_code |-> Written, error_code |-> Written]
    ELSE [Uninitialized EXCEPT !.code = "HTTP"]

\* A status outside 200..299: the code and the status are always written, the
\* error code only as far as the response body could be parsed.
HttpError(outcome) ==
  [code |-> "HTTP", http_status_code |-> Written,
   error_code |-> IF outcome = "status" THEN Written ELSE Unset]

\* Mutant: a socket error does not reach the caller's error structure.
MutSessionErrorSilent(outcome) ==
  CASE outcome \in {"status", "status_without_code"} ->
         IF errp THEN HttpError(outcome) ELSE error
    [] outcome \in {"NONE", "INSUFFICIENT_BUFFER"} -> WithCode(errp, "INSUFFICIENT_BUFFER")
    [] OTHER -> error

\* prv_execute_http_session when it does not return KII_TRUE.
SessionError(outcome) ==
  CASE outcome \in {"status", "status_without_code"} ->
         IF errp THEN HttpError(outcome) ELSE error
    [] outcome \in {"NONE", "INSUFFICIENT_BUFFER"} -> WithCode(errp, "INSUFFICIENT_BUFFER")
    [] outcome = "SOCKET" -> WithCode(errp, "SOCKET")
    [] OTHER -> error

\* M_KII_THING_IF_ASSERT(0), and the return after it in a build without asserts.
AssertFalse == aborted' = ~NoAssert

SessionFails(outcome) ==
  /\ Return("FALSE", SessionError(outcome))
  /\ IF outcome = "INVALID_RESPONSE" /\ errp THEN AssertFalse ELSE UNCHANGED aborted

----------------------------------------------------------------------------
(* Initialization.                                                         *)

ObjectInUse == \E k \in Task : recv[k] # "none" \/ upd[k] # "none"

\* prv_init_kii_thing_if zeroes the object and both request buffers, whether or
\* not _kii_init_with_info then accepts the parameters.  The zeroed state is
\* KII_THING_IF_STATE_INITIALIZED.  The object must not be in use.
prv_init_kii_thing_if(op) ==
  /\ appPc = "idle"
  /\ ~ObjectInUse
  /\ call' = op
  /\ req' = [h \in Handle |-> NoRequest]
  /\ UNCHANGED <<starts, appPc, errp, error, taskVars, aborted>>

init_kii_thing_if(ok) ==
  /\ prv_init_kii_thing_if("init_kii_thing_if")
  /\ state' = "INITIALIZED"
  /\ author' = [h \in Handle |-> NoAuthor]
  /\ usable' = ok
  /\ ret' = IF ok THEN "TRUE" ELSE "FALSE"

\* prv_set_author refuses an ID or a token its arrays cannot hold and then
\* copies neither.
AuthorFits(id, tokenFits) == IdLen[id] < AuthorIdSize /\ tokenFits

\* ok: _kii_init_with_info accepted the parameters.
init_kii_thing_if_with_onboarded_thing(id, ok, tokenFits) ==
  /\ prv_init_kii_thing_if("init_kii_thing_if_with_onboarded_thing")
  /\ usable' = (ok /\ AuthorFits(id, tokenFits))
  /\ IF ok /\ AuthorFits(id, tokenFits)
       THEN /\ state' = "ONBOARDED"
            /\ author' = [h \in Handle |-> AuthorOf(id)]
            /\ ret' = "TRUE"
       ELSE /\ state' = "INITIALIZED"
            /\ author' = [h \in Handle |-> NoAuthor]
            /\ ret' = "FALSE"

----------------------------------------------------------------------------
(* Onboarding, with a vendor thing ID or with a thing ID.                  *)

\* onboard_with_* up to the anonymous-token request.  built is whether
\* kii_api_call_start and the appends of prv_kii_thing_if_get_anonymous_token
\* found room in the buffer.
BeginOnboard(op, p, built) ==
  /\ op \in OnboardCall
  /\ Enter(op, p)
  /\ IF state = "STARTED"
       THEN Return("FALSE", WithCode(p, "INVALID_STATE")) /\ UNCHANGED req
       ELSE IF ~OauthPathFits
              THEN Return("FALSE", WithCode(p, "INSUFFICIENT_BUFFER")) /\ UNCHANGED req
              ELSE /\ IF built THEN Continue("token")
                      ELSE Return("FALSE", WithCode(p, "INSUFFICIENT_BUFFER"))
                   /\ req' = [req EXCEPT ![CH] = [by |-> AppThread, author_id |-> None,
                                                  access_token |-> None]]
  /\ UNCHANGED <<objVars, starts, taskVars, aborted>>

\* The onboarding request is complete.  A failed kii_api_call_start ends
\* onboard_with_vendor_thing_id; onboard_with_thing_id logs it and goes on.
\* A body that does not fit ends both, and only the first sets an error.
OnboardRequest(started, appended) ==
  IF ~OnboardPathFits
    THEN /\ Return("FALSE", error)
         /\ AssertFalse
         /\ UNCHANGED req
    ELSE /\ IF appended /\ (started \/ call = "onboard_with_thing_id")
              THEN Continue("onboard")
              ELSE Return("FALSE", IF call = "onboard_with_thing_id" THEN error
                                   ELSE WithCode(errp, "INSUFFICIENT_BUFFER"))
         /\ req' = [req EXCEPT ![CH] = [by |-> AppThread, author_id |-> None,
                                        access_token |-> Anonymous]]
         /\ UNCHANGED aborted

\* Mutant: the token is copied over the author's ID.
MutRunTokenWrongField(outcome, parsed, started, appended) ==
  /\ appPc = "token"
  /\ IF outcome # "2xx"
       THEN SessionFails(outcome) /\ UNCHANGED <<author, req>>
       ELSE IF ~parsed
              THEN /\ Return("FALSE", WithCode(errp, "INVALID_PAYLOAD"))
                   /\ UNCHANGED <<author, req, aborted>>
              ELSE /\ author' = [author EXCEPT ![CH].author_id = Anonymous]
                   /\ OnboardRequest(started, appended)
  /\ UNCHANGED <<state, usable, starts, call, errp, taskVars>>

\* prv_kii_thing_if_get_anonymous_token runs its request and writes the token
\* straight into the command handler's author; then the onboarding request.
RunToken(outcome, parsed, started, appended) ==
  /\ appPc = "token"
  /\ IF outcome # "2xx"
       THEN SessionFails(outcome) /\ UNCHANGED <<author, req>>
       ELSE IF ~parsed
              THEN /\ Return("FALSE", WithCode(errp, "INVALID_PAYLOAD"))
                   /\ UNCHANGED <<author, req, aborted>>
              ELSE /\ author' = [author EXCEPT ![CH].access_token = Anonymous]
                   /\ OnboardRequest(started, appended)
  /\ UNCHANGED <<state, usable, starts, call, errp, taskVars>>

\* prv_thing_if_parse_onboarding_response: the JSON reader copies each field it
\* finds into the command handler's author, so a response that lacks one of
\* the two leaves the other behind.
ParsedFields == {{}, {"author_id"}, {"access_token"}, {"author_id", "access_token"}}

CopyFields(t, fields) ==
  [author_id |-> IF "author_id" \in fields THEN t ELSE author[CH].author_id,
   access_token |-> IF "access_token" \in fields THEN t ELSE author[CH].access_token]

\* Mutant: the ID reaches the state updater before the response is accepted.
MutRunOnboardEarlyCopy(outcome, t, fields) ==
  /\ appPc = "onboard"
  /\ IdLen[t] < AuthorIdSize \/ "author_id" \notin fields
  /\ IF outcome # "2xx"
       THEN SessionFails(outcome) /\ UNCHANGED author
       ELSE /\ UNCHANGED aborted
            /\ author' = [author EXCEPT ![CH] = CopyFields(t, fields),
                                        ![SU].author_id = CopyFields(t, fields).author_id]
            /\ IF fields = {"author_id", "access_token"}
                 THEN Continue("set_author")
                 ELSE Return("FALSE", WithCode(errp, "INVALID_PAYLOAD"))
  /\ UNCHANGED <<state, usable, starts, call, errp, taskVars, req>>

\* The onboarding request runs.  On success prv_set_author begins to copy the
\* command handler's author to the state updater: first the ID.
RunOnboard(outcome, t, fields) ==
  /\ appPc = "onboard"
  /\ IdLen[t] < AuthorIdSize \/ "author_id" \notin fields
  /\ IF outcome # "2xx"
       THEN SessionFails(outcome) /\ UNCHANGED author
       ELSE /\ UNCHANGED aborted
            /\ IF fields = {"author_id", "access_token"}
                 THEN /\ Continue("set_author")
                      /\ author' = [author EXCEPT ![CH] = AuthorOf(t),
                                                  ![SU].author_id = t]
                 ELSE /\ Return("FALSE", WithCode(errp, "INVALID_PAYLOAD"))
                      /\ author' = [author EXCEPT ![CH] = CopyFields(t, fields)]
  /\ UNCHANGED <<state, usable, starts, call, errp, taskVars, req>>

\* Mutant: the token is not copied to the state updater.
MutFinishOnboardNoToken ==
  /\ appPc = "set_author"
  /\ state' = "ONBOARDED"
  /\ Return("TRUE", error)
  /\ UNCHANGED <<author, usable, starts, call, errp, taskVars, req, aborted>>

\* prv_set_author copies the token, and the object is onboarded.  It cannot
\* refuse here: what it copies comes from arrays of the same sizes.
FinishOnboard ==
  /\ appPc = "set_author"
  /\ author' = [author EXCEPT ![SU].access_token = author[CH].access_token]
  /\ state' = "ONBOARDED"
  /\ Return("TRUE", error)
  /\ UNCHANGED <<usable, starts, call, errp, taskVars, req, aborted>>

----------------------------------------------------------------------------
(* Firmware version and thing type: one request on the command handler.    *)

PathFits(op, id) ==
  IF op \in {"get_firmware_version", "update_firmware_version"}
    THEN FirmwarePathFits(id) ELSE ThingTypePathFits(id)

\* built: kii_api_call_start and, for the updates, the body found room.
BeginApi(op, p, built) ==
  /\ op \in GetCall \cup UpdateCall
  /\ Enter(op, p)
  /\ IF state # "ONBOARDED"
       THEN Return("FALSE", WithCode(p, "INVALID_STATE")) /\ UNCHANGED <<req, aborted>>
       ELSE IF ~PathFits(op, author[CH].author_id)
              THEN Return("FALSE", WithCode(p, Unset)) /\ AssertFalse /\ UNCHANGED req
              ELSE /\ IF built THEN Continue("api")
                      ELSE Return("FALSE", WithCode(p, "INSUFFICIENT_BUFFER"))
                   /\ Build(AppThread, CH, author[CH].author_id)
                   /\ UNCHANGED aborted
  /\ UNCHANGED <<objVars, starts, taskVars>>

\* An update is done when its request is; a get copies a field of the response
\* into the caller's array, which may be too small for it.
RunApi(outcome, parsed) ==
  /\ appPc = "api"
  /\ IF outcome # "2xx"
       THEN SessionFails(outcome)
       ELSE /\ UNCHANGED aborted
            /\ IF call \in UpdateCall \/ parsed = "SUCCESS"
                 THEN Return("TRUE", error)
                 ELSE Return("FALSE",
                        WithCode(errp, IF parsed = "COPY_FAILED"
                                         THEN "INSUFFICIENT_ARG_BUFFER"
                                         ELSE "INVALID_PAYLOAD"))
  /\ UNCHANGED <<objVars, starts, call, errp, taskVars, req>>

----------------------------------------------------------------------------
(* start(): two tasks are created, in two steps, and the first one runs    *)
(* while the second is being created.  start takes no error structure.     *)

\* Mutant: start() does not look at the state.
MutBeginStartAnyState(pushStarted) ==
  /\ Enter("start", FALSE)
  /\ starts < MaxStarts
  /\ IF pushStarted
       THEN /\ Continue("start")
            /\ starts' = starts + 1
            /\ recv' = [recv EXCEPT ![starts + 1] = "boot"]
       ELSE /\ Return("FALSE", WithCode(FALSE, Unset))
            /\ UNCHANGED <<starts, recv>>
  /\ UNCHANGED <<objVars, upd, updId, req, aborted>>

\* kii_push_start_routine creates the push task or fails and creates none.
BeginStart(pushStarted) ==
  /\ Enter("start", FALSE)
  /\ starts < MaxStarts
  /\ IF state = "ONBOARDED" /\ pushStarted
       THEN /\ Continue("start")
            /\ starts' = starts + 1
            /\ recv' = [recv EXCEPT ![starts + 1] = "boot"]
       ELSE /\ Return("FALSE", WithCode(FALSE, Unset))
            /\ UNCHANGED <<starts, recv>>
  /\ UNCHANGED <<objVars, upd, updId, req, aborted>>

\* Mutant: start() blocks until the push connection is up.
MutFinishStartWaitsForPush(created) ==
  /\ appPc = "start"
  /\ recv[starts] = "wait"
  /\ upd' = [upd EXCEPT ![starts] = IF created THEN "path" ELSE "none"]
  /\ Return("TRUE", error)
  /\ UNCHANGED <<objVars, starts, call, errp, recv, updId, req, aborted>>

\* The result of task_create_cb is not looked at, and state is left alone.
FinishStart(created) ==
  /\ appPc = "start"
  /\ upd' = [upd EXCEPT ![starts] = IF created THEN "path" ELSE "none"]
  /\ Return("TRUE", error)
  /\ UNCHANGED <<objVars, starts, call, errp, recv, updId, req, aborted>>

----------------------------------------------------------------------------
(* The push task.                                                          *)

RecvStep(k, from, to) ==
  /\ recv[k] = from
  /\ recv' = [recv EXCEPT ![k] = to]
  /\ UNCHANGED <<objVars, starts, appVars, upd, updId>>

\* External: the task registers for push with the client it was given, waits
\* for messages, and registers again when the connection is lost.
BeginPush(k) ==
  /\ RecvStep(k, "boot", "push")
  /\ Build(RecvThread(k), CH, author[CH].author_id)
  /\ UNCHANGED aborted

RunPush(k, ok) ==
  /\ RecvStep(k, "push", IF ok THEN "wait" ELSE "boot")
  /\ UNCHANGED <<req, aborted>>

LoseConnection(k) ==
  /\ RecvStep(k, "wait", "boot")
  /\ UNCHANGED <<req, aborted>>

\* received_callback got a command: handle_command has started the request for
\* the action results.  (Messages that it drops before that change nothing.)
BeginResults(k) ==
  /\ RecvStep(k, "wait", "results")
  /\ Build(RecvThread(k), CH, author[CH].author_id)
  /\ UNCHANGED aborted

\* handle_command ran that request (sent) or gave up; prv_send_state follows a
\* request that ran, whatever its status was.
FinishResults(k, sent, started) ==
  LET id == author[CH].author_id
      path == StatePathFits(id)
  IN /\ RecvStep(k, "results", IF sent /\ path /\ started THEN "state" ELSE "wait")
     /\ IF sent /\ path THEN Build(RecvThread(k), CH, id) ELSE UNCHANGED req
     /\ IF sent /\ ~path THEN AssertFalse ELSE UNCHANGED aborted

\* The state handler wrote the body and the request ran, or either failed.
FinishState(k) ==
  /\ RecvStep(k, "state", "wait")
  /\ UNCHANGED <<req, aborted>>

----------------------------------------------------------------------------
(* The status-update task, prv_update_status.                              *)

UpdStep(k, from, to) ==
  /\ upd[k] = from
  /\ upd' = [upd EXCEPT ![k] = to]
  /\ UNCHANGED <<objVars, starts, appVars, recv>>

\* The resource path is made once, before the loop.
SetUpdatePath(k) ==
  LET id == author[SU].author_id
  IN /\ UpdStep(k, "path", IF StatePathFits(id) THEN "delay" ELSE "ended")
     /\ updId' = [updId EXCEPT ![k] = id]
     /\ IF StatePathFits(id) THEN UNCHANGED aborted ELSE AssertFalse
     /\ UNCHANGED req

Delay(k) ==
  /\ UpdStep(k, "delay", "start")
  /\ UNCHANGED <<updId, req, aborted>>

\* Mutant: the update task is given the command handler's client.
MutBeginUpdateOnCommandHandler(k, started) ==
  /\ UpdStep(k, "start", IF started THEN "write" ELSE "delay")
  /\ Build(UpdThread(k), CH, updId[k])
  /\ UNCHANGED <<updId, aborted>>

\* Mutant: the task returns when a request cannot be started.
MutBeginUpdateReturns(k, started) ==
  /\ UpdStep(k, "start", IF started THEN "write" ELSE "ended")
  /\ Build(UpdThread(k), SU, updId[k])
  /\ UNCHANGED <<updId, aborted>>

BeginUpdate(k, started) ==
  /\ UpdStep(k, "start", IF started THEN "write" ELSE "delay")
  /\ Build(UpdThread(k), SU, updId[k])
  /\ UNCHANGED <<updId, aborted>>

\* The state handler wrote the body and the request ran, or either failed: the
\* loop goes on in every case.
FinishUpdate(k) ==
  /\ UpdStep(k, "write", "delay")
  /\ UNCHANGED <<updId, req, aborted>>

----------------------------------------------------------------------------
Init ==
  /\ state = "INITIALIZED"
  /\ author = [h \in Handle |-> NoAuthor]
  /\ usable = FALSE
  /\ starts = 0
  /\ appPc = "idle"
  /\ call = None
  /\ errp = FALSE
  /\ ret = None
  /\ error = Uninitialized
  /\ recv = [k \in Task |-> "none"]
  /\ upd = [k \in Task |-> "none"]
  /\ updId = [k \in Task |-> None]
  /\ req = [h \in Handle |-> NoRequest]
  /\ aborted = FALSE

\* The calls the application makes, and the steps inside them.
AppCall ==
  \/ \E ok \in BOOLEAN : init_kii_thing_if(ok)
  \/ \E id \in ThingId, ok, fits \in BOOLEAN :
       init_kii_thing_if_with_onboarded_thing(id, ok, fits)
  \/ \E op \in OnboardCall, p, built \in BOOLEAN : BeginOnboard(op, p, built)
  \/ \E op \in GetCall \cup UpdateCall, p, built \in BOOLEAN : BeginApi(op, p, built)
  \/ \E pushStarted \in BOOLEAN : BeginStart(pushStarted)

AppStep ==
  \/ \E outcome \in HttpOutcome, parsed, started, appended \in BOOLEAN :
       RunToken(outcome, parsed, started, appended)
  \/ \E outcome \in HttpOutcome, t \in ThingId, fields \in ParsedFields :
       RunOnboard(outcome, t, fields)
  \/ FinishOnboard
  \/ \E outcome \in HttpOutcome, parsed \in {"SUCCESS", "COPY_FAILED", "NOT_FOUND"} :
       RunApi(outcome, parsed)
  \/ \E created \in BOOLEAN : FinishStart(created)

RecvTask(k) ==
  \/ BeginPush(k)
  \/ \E ok \in BOOLEAN : RunPush(k, ok)
  \/ LoseConnection(k)
  \/ BeginResults(k)
  \/ \E sent, started \in BOOLEAN : FinishResults(k, sent, started)
  \/ FinishState(k)

UpdTask(k) ==
  \/ SetUpdatePath(k)
  \/ Delay(k)
  \/ \E started \in BOOLEAN : BeginUpdate(k, started)
  \/ FinishUpdate(k)

Next ==
  /\ ~aborted
  /\ \/ AppCall
     \/ AppStep
     \/ \E k \in Task : RecvTask(k) \/ UpdTask(k)

Spec == Init /\ [][Next]_vars

\* The scheduler runs every thread, and the calls the SDK makes into its
\* environment (kii_api_call_run, delay_ms_cb, task_create_cb, the handlers)
\* return.  A push task that waits for a message may wait for ever, and the
\* application need not call anything.
Fairness ==
  /\ WF_vars(~aborted /\ AppStep)
  /\ \A k \in Task : /\ WF_vars(~aborted /\ recv[k] # "wait" /\ RecvTask(k))
                    /\ WF_vars(~aborted /\ UpdTask(k))

FairSpec == Spec /\ Fairness

----------------------------------------------------------------------------
(* Properties.                                                             *)

\* A thread that has built a request and not yet run it still finds its own
\* request in the client's buffer: nothing the other threads do in between
\* (kii_api_call_start on the same kii_t) may overwrite it.  The code has no
\* lock, so this rests on which thread uses which client and when.
SendsOwnRequest ==
  /\ appPc \in {"token", "onboard", "api"} => req[CH].by = AppThread
  /\ \A k \in Task :
       /\ recv[k] \in {"push", "results", "state"} => req[CH].by = RecvThread(k)
       /\ upd[k] = "write" => req[SU].by = UpdThread(k)

\* A state update is sent for the thing the object is onboarded as: the ID in
\* the path that prv_update_status cached before its loop, the bearer token in
\* the request and the updater's current author all belong to one thing.
UpdaterIdentity ==
  \A k \in Task : upd[k] = "write" =>
    \E t \in ThingId : /\ author[SU] = AuthorOf(t)
                       /\ req[SU].author_id = t
                       /\ req[SU].access_token = t

\* Whatever the application calls and when, and however an onboarding fails,
\* the periodic updater never sends a request without the ID of a thing in its
\* path, and never with an anonymous or an empty token.
UpdaterNeverAnonymous ==
  \A k \in Task : upd[k] = "write" =>
    req[SU].author_id \in ThingId /\ req[SU].access_token \in ThingId

\* An onboarding that fails at any step leaves the state updater's ID and token
\* as they were: they are a pair of one thing whenever the object is onboarded,
\* except in the middle of prv_set_author.
UpdaterAuthorCoherent ==
  state = "ONBOARDED" /\ appPc # "set_author" =>
    \E t \in ThingId : author[SU] = AuthorOf(t)

\* A call that returns KII_FALSE has set error->code if it got an error
\* structure.  Two calls are known not to and are left out:
\* onboard_with_thing_id when its body does not fit, and, in a build without
\* assertions, the calls that an assertion would have stopped.
ErrorReported ==
  /\ call \in OnboardCall \cup GetCall \cup UpdateCall
  /\ ret = "FALSE" /\ errp
  /\ ~aborted /\ ~NoAssert
  /\ call # "onboard_with_thing_id"
  => error.code # Unset

\* Every call returns: no failure of a request, of a parse or of another thread
\* leaves the application thread inside the SDK (unless an assertion ends the
\* process).
CallsReturn == appPc # "idle" ~> (appPc = "idle" \/ aborted)

\* The status-update task never leaves its loop: once in it, it starts updates
\* again and again, whatever becomes of each.
UpdaterKeepsGoing ==
  \A k \in Task : <>(upd[k] \in {"delay", "start", "write"})
                     => []<>(upd[k] = "start" \/ aborted)

\* kii_thing_if.h says of the state_handler of the state updater that its
\* invocation "is serialized since it called from single task".
SerializedStateHandler ==
  \A j, k \in Task : upd[j] = "write" /\ upd[k] = "write" => j = k

\* kii_thing_if.h defines KII_THING_IF_STATE_ONBOARDED as "A kii_thing_if_t
\* instance is onboarded": between calls both clients act as the same thing.
OnboardedClientsAgree ==
  state = "ONBOARDED" /\ appPc = "idle" =>
    \E t \in ThingId : \A h \in Handle : author[h] = AuthorOf(t)
=============================================================================
