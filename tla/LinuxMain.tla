----------------------------- MODULE LinuxMain -----------------------------
(***************************************************************************)
(* main of linux-sample/example.c on top of the SDK of ThingIf: which      *)
(* calls the program makes for which command line, in which order, and     *)
(* what it does with their results.  The calls and the tasks are those of  *)
(* ThingIf; this module decides when the application thread makes them.    *)
(***************************************************************************)
EXTENDS ThingIf, Sequences

CONSTANT CommandLines    \* the command lines the program is run with

\* A command line: the sub command and the options given to it.  An option that
\* the sub command does not have is reported and skipped, so it is not there.
SubCommand == {"none", "onboard-with-token", "onboard", "get", "update", "other"}
Option == {"vendor-thing-id", "thing-id", "password", "access-token",
           "firmware-version", "thing-type", "help"}
CommandLine == [subc : SubCommand, opts : SUBSET Option]

ASSUME CommandLinesAssumption == CommandLines \subseteq CommandLine

VARIABLES
  mainPc,    \* where main is between its calls
  plan,      \* what the options it parsed make it do
  unanswered \* the server never answers the request that main waits for

mainVars == <<mainPc, plan, unanswered>>
allVars == <<vars, mainVars>>

----------------------------------------------------------------------------
MainPc == {"parse", "init", "init_token", "onboard", "onboarding", "call", "calling",
           "failed", "start", "starting", "forever", "exited", "undefined"}

\* onboard: the onboarding call; calls: the calls after it; serve: start()
\* follows; help: usage was printed in place of all that.
Plan == [onboard : OnboardCall \cup {None}, calls : Seq(GetCall \cup UpdateCall),
         serve : BOOLEAN, help : BOOLEAN]
NoPlan == [onboard |-> None, calls |-> <<>>, serve |-> FALSE, help |-> FALSE]

\* A plan is made of calls that the SDK has, and while one of them runs it is
\* the next one on the list: main drops a call from the list when it returns.
MainTypeOK ==
  /\ mainPc \in MainPc
  /\ plan \in Plan
  /\ unanswered \in BOOLEAN
  /\ mainPc = "calling" => plan.calls # <<>> /\ call = Head(plan.calls)

----------------------------------------------------------------------------
(* Parsing the command line.                                               *)

\* One of the two kinds of thing ID, and a password.
NamesThing(opts) ==
  /\ ("vendor-thing-id" \in opts) # ("thing-id" \in opts)
  /\ "password" \in opts

OnboardingCall(opts) ==
  IF "vendor-thing-id" \in opts THEN "onboard_with_vendor_thing_id"
                                ELSE "onboard_with_thing_id"

FirmwareCall(subc) ==
  IF subc = "get" THEN "get_firmware_version" ELSE "update_firmware_version"
TypeCall(subc) == IF subc = "get" THEN "get_thing_type" ELSE "update_thing_type"

\* The firmware version comes before the thing type.
CallsOf(subc, opts) ==
  (IF "firmware-version" \in opts THEN <<FirmwareCall(subc)>> ELSE <<>>)
    \o (IF "thing-type" \in opts THEN <<TypeCall(subc)>> ELSE <<>>)

\* Where main goes after the options.  Both onboard commands leave their loop at
\* --help for the end of main; get and update exit there.
AfterOptions(c) ==
  IF "help" \in c.opts
    THEN IF c.subc \in {"onboard", "onboard-with-token"} THEN "start" ELSE "exited"
  ELSE IF c.subc = "onboard-with-token" /\ {"thing-id", "access-token"} \subseteq c.opts
    THEN "init_token"
  ELSE IF \/ c.subc = "onboard" /\ NamesThing(c.opts)
          \/ /\ c.subc \in {"get", "update"}
             /\ NamesThing(c.opts)
             /\ CallsOf(c.subc, c.opts) # <<>>
    THEN "init"
  ELSE "exited"

\* mutexOk: pthread_mutex_init succeeded; without it nothing is parsed.
ParseCommandLine(c, mutexOk) ==
  /\ mainPc = "parse"
  /\ mainPc' = IF mutexOk THEN AfterOptions(c) ELSE "exited"
  /\ plan' = IF mainPc' = "exited" THEN NoPlan
             ELSE [onboard |-> IF mainPc' = "init" THEN OnboardingCall(c.opts) ELSE None,
                   calls |-> IF mainPc' = "init" /\ c.subc # "onboard"
                               THEN CallsOf(c.subc, c.opts) ELSE <<>>,
                   serve |-> c.subc \in {"onboard", "onboard-with-token"},
                   help |-> mainPc' = "start"]
  /\ UNCHANGED <<vars, unanswered>>

----------------------------------------------------------------------------
(* The calls, and what main does with what they return.                    *)

Succeeded == ret = "TRUE"

\* An init call returns in the step that makes it.
Initialize ==
  /\ \/ mainPc = "init" /\ \E ok \in BOOLEAN : init_kii_thing_if(ok)
     \/ /\ mainPc = "init_token"
        /\ \E id \in ThingId, ok, fits \in BOOLEAN :
             init_kii_thing_if_with_onboarded_thing(id, ok, fits)
  /\ mainPc' = IF ret' = "FALSE" THEN "exited"
               ELSE IF mainPc = "init" THEN "onboard" ELSE "start"
  /\ UNCHANGED <<plan, unanswered>>

\* The onboarding calls get no error structure.
CallOnboard ==
  /\ mainPc = "onboard"
  /\ \E built \in BOOLEAN : BeginOnboard(plan.onboard, FALSE, built)
  /\ mainPc' = "onboarding"
  /\ UNCHANGED <<plan, unanswered>>

\* Mutant: the result of the onboarding call is not looked at.
MutOnboardReturnedUnchecked ==
  /\ mainPc = "onboarding" /\ appPc = "idle"
  /\ mainPc' = IF plan.serve THEN "start" ELSE "call"
  /\ UNCHANGED <<vars, plan, unanswered>>

\* Mutant: a failed onboarding is tried again, for ever.
MutOnboardReturnedRetries ==
  /\ mainPc = "onboarding" /\ appPc = "idle"
  /\ mainPc' = IF ~Succeeded THEN "onboard"
               ELSE IF plan.serve THEN "start" ELSE "call"
  /\ UNCHANGED <<vars, plan, unanswered>>

OnboardReturned ==
  /\ mainPc = "onboarding" /\ appPc = "idle"
  /\ mainPc' = IF ~Succeeded THEN "exited"
               ELSE IF plan.serve THEN "start" ELSE "call"
  /\ UNCHANGED <<vars, plan, unanswered>>

\* Mutant: the call is dropped from the list when it is made, too.
MutCallApiDropsCall ==
  /\ mainPc = "call" /\ plan.calls # <<>>
  /\ \E built \in BOOLEAN : BeginApi(Head(plan.calls), TRUE, built)
  /\ mainPc' = "calling"
  /\ plan' = [plan EXCEPT !.calls = Tail(plan.calls)]
  /\ UNCHANGED unanswered

\* get_firmware_version, get_thing_type or an update of one of them, each with
\* an error structure.
CallApi ==
  /\ mainPc = "call" /\ plan.calls # <<>>
  /\ \E built \in BOOLEAN : BeginApi(Head(plan.calls), TRUE, built)
  /\ mainPc' = "calling"
  /\ UNCHANGED <<plan, unanswered>>

\* The first call that fails ends the program; "failed" is where it prints the
\* error structure.
ApiReturned ==
  /\ mainPc = "calling" /\ appPc = "idle"
  /\ mainPc' = IF Succeeded THEN "call" ELSE "failed"
  /\ plan' = [plan EXCEPT !.calls = Tail(plan.calls)]
  /\ UNCHANGED <<vars, unanswered>>

Exit ==
  /\ mainPc = "failed" \/ (mainPc = "call" /\ plan.calls = <<>>)
  /\ mainPc' = "exited"
  /\ UNCHANGED <<vars, plan, unanswered>>

CallStart ==
  /\ mainPc = "start" /\ ~plan.help
  /\ \E pushStarted \in BOOLEAN : BeginStart(pushStarted)
  /\ mainPc' = "starting"
  /\ UNCHANGED <<plan, unanswered>>

\* start(&kii_thing_if) on the object that main never initialized: either its
\* state does not look like ONBOARDED, or garbage is used as a client.
StartUninitialized(looksOnboarded) ==
  /\ mainPc = "start" /\ plan.help
  /\ mainPc' = IF looksOnboarded THEN "undefined" ELSE "forever"
  /\ UNCHANGED <<vars, plan, unanswered>>

\* Mutant: the thing type is read once the tasks run.
MutStartReturnedCallsOn ==
  /\ mainPc = "starting" /\ appPc = "idle"
  /\ mainPc' = "call"
  /\ plan' = [NoPlan EXCEPT !.calls = <<"get_thing_type">>]
  /\ UNCHANGED <<vars, unanswered>>

\* The result of start() is not looked at.
StartReturned ==
  /\ mainPc = "starting" /\ appPc = "idle"
  /\ mainPc' = "forever"
  /\ plan' = NoPlan
  /\ UNCHANGED <<vars, unanswered>>

----------------------------------------------------------------------------
(* What the program runs on.                                               *)

\* main has a request out.
Requesting == appPc \in {"token", "onboard", "api"}

\* External: the server leaves a request without an answer.  s_recv_cb of the
\* program waits for it in SSL_read, which has no time limit.
ServerFallsSilent ==
  /\ Requesting
  /\ ~unanswered
  /\ unanswered' = TRUE
  /\ UNCHANGED <<vars, mainPc, plan>>

\* A step inside a call; a request that is not answered never ends.
SdkStep ==
  /\ ~unanswered
  /\ AppStep
  /\ UNCHANGED mainVars

TaskStep(k) == (RecvTask(k) \/ UpdTask(k)) /\ UNCHANGED mainVars

----------------------------------------------------------------------------
MainInit == Init /\ mainPc = "parse" /\ plan = NoPlan /\ unanswered = FALSE

MainStep ==
  \/ \E c \in CommandLines, mutexOk \in BOOLEAN : ParseCommandLine(c, mutexOk)
  \/ Initialize
  \/ CallOnboard \/ OnboardReturned
  \/ CallApi \/ ApiReturned
  \/ Exit
  \/ CallStart
  \/ \E looksOnboarded \in BOOLEAN : StartUninitialized(looksOnboarded)
  \/ StartReturned

MainNext ==
  /\ ~aborted
  /\ \/ MainStep
     \/ SdkStep
     \/ ServerFallsSilent
     \/ \E k \in Task : TaskStep(k)

\* main runs, and what it calls returns (see Fairness of ThingIf), except for a
\* request that the server leaves unanswered.
MainSpec ==
  /\ MainInit
  /\ [][MainNext]_allVars
  /\ WF_allVars(~aborted /\ (MainStep \/ SdkStep))

----------------------------------------------------------------------------
(* Properties.                                                             *)

\* ThingIf for an application that calls nothing once start() created tasks.
Contract == INSTANCE ThingIf WITH AppStopsAfterStart <- TRUE

\* main keeps the order of calls that the SDK's guarantees rest on: with any
\* command line and any outcome of its calls, what it does to the object is a
\* behaviour of ThingIf in which the application stops after start().
KeepsContract == Contract!Spec

Serves == mainPc = "start" =>
  /\ usable
  /\ state = "ONBOARDED"
  /\ \E t \in ThingId : \A h \in Handle : author[h] = AuthorOf(t)

\* When main comes to start() with an object that it set up, the object is
\* onboarded and both of its clients are authorized as one thing, however the
\* thing was onboarded.  This is what kii_thing_if.h asks of a caller of start();
\* after --help, which is left out, main calls it without any object.
StartsOnboarded == ~plan.help => Serves

\* What main prints after a failed call comes from that call, the error code of
\* the response excepted: main leaves its error structure uninitialized, and the
\* SDK has written the code, with the code HTTP, and only then, the status as
\* well, and an error code with no other code than HTTP.
PrintsWrittenError ==
  mainPc = "failed" =>
    /\ error.code # Unset
    /\ error.code = "HTTP" <=> error.http_status_code = Written
    /\ error.error_code = Written => error.code = "HTTP"

\* main exits or comes to its final loop: no outcome of a call, and no order of
\* them, makes it try without end.  An assertion may end it, and a server that
\* never answers a request keeps it waiting.
MainSettles ==
  <>(mainPc \in {"exited", "forever", "undefined"} \/ aborted \/ unanswered)

\* kii_thing_if.h says of error_code "If ::kii_thing_if_error_t::code is
\* ::KII_THING_IF_ERROR_HTTP, this value is set": main prints it whenever the
\* code is HTTP, and then somebody has written it.
PrintsWrittenErrorCode ==
  mainPc = "failed" /\ error.code = "HTTP" => error.error_code = Written
=============================================================================
