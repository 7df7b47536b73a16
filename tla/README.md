# TLA+ development for the Thing-IF Thing SDK

TLA+ models, TLC runs and TLAPS proofs for `kii_thing_if.c`, the SDK that
connects a device ("thing") to Kii Cloud's Thing Interaction Framework, and for
the two sample applications that come with it.
References such as `kii_thing_if.c:825` are to the repository's files.

## 1. The system

### Parts, state, operations

| Part | State it keeps | Operations |
|---|---|---|
| `kii_thing_if_t` life cycle (`kii_thing_if.c`) | `state`; two `kii_t` API clients, `command_handler` and `state_updater`, each with an author (thing ID and token) and one request buffer; the handlers | `init_kii_thing_if`, `init_kii_thing_if_with_onboarded_thing`, `onboard_with_vendor_thing_id`, `onboard_with_thing_id`, `start` |
| firmware version and thing type calls | none of their own; they use `command_handler` | `get_/update_firmware_version`, `get_/update_thing_type` |
| status-update task (`prv_update_status`) | the resource path, made once | delay, build, state handler, run, for ever |
| command handler (`received_callback`, `handle_command`) | the message, two indices, the request being written | parse, walk aliases and actions, call the action handler, report, send state |
| resource paths | fixed arrays on the stack | sum of lengths, comparison, `strcat`/`sprintf` |
| kii SDK (the `kii` submodule, not in the repository) | request and response buffers, push registration | `kii_api_call_start/append/run`, `kii_push_start_routine`, `kii_json_read_object` |
| linux sample, main (`linux-sample/example.c`) | the sub command and options it parsed, an error structure | parse, init, onboard, get and update calls, `start()`, final loop |
| sample handlers (`example.c`, cc3200 `main.c`) | the air conditioner or the smart light, in one static structure under a mutex | `action_handler`, `state_handler`, the get and set functions |
| callbacks (`sys_cb_linux.c`, `linux-env/`, `kii_thing_if_environment_cc3200.c`) | a socket, on linux also the TLS objects and the structure that `app_context` points to | connect, send, recv, close, task create, delay |
| cc3200 network start-up (`main.c`) | two bits of `g_ulStatus`; the role, link and profiles of the network processor | `ConfigureSimpleLinkToDefaultState`, `WlanConnect`, the event handlers |
| cc3200 command task, board set-up | | not modelled, see section 5 |

### How the parts interact

There are four kinds of threads. The **application** calls the SDK. `start()`
creates a **push task** (inside the kii SDK), which calls `received_callback`
for every message, and a **status-update task**. With a keep-alive interval,
which `CMakeLists.txt:4` sets, the kii SDK also has a **ping task**
(`README.md:141`), which only sends, on the push task's MQTT connection. The
application and the push task share the client `command_handler`; the update task uses `state_updater`.
There is no lock anywhere in the SDK: a client has one request buffer, and
`kii_api_call_run` sends what it holds at that moment. Onboarding writes the
command handler's author while it parses the response and copies it to the
state updater at the end, in `prv_set_author`.

The SDK's tasks call back into the application: both of them call
`state_handler`, the push task calls `action_handler`, and every request goes
through the socket callbacks of the platform, the status-update task also
through its delay. The linux `main` decides which calls of the SDK are made in
which order; the cc3200 `main` brings up the network before it creates its task.

### What is hard here

* Threads share clients, buffers and authors without a lock.
* `start()` checks for a state (`STARTED`) that no code ever sets.
* Onboarding makes two requests and changes the live author between them; any
  step can fail.
* The update task uses a path cached once and a token read every time.
* The command handler re-parses a message that it has written NULs into, and
  every append to the request buffer can overflow.
* Path lengths are compared with array sizes in six places.
* The samples' handlers run in two tasks, and `action_handler` reads the device
  and stores it under two locks.
* What the linux connect callback has acquired is not released when a later
  step of it fails, and a close that fails leaves a pointer to freed objects.
* The ping task sends on a connection that the push task closes and opens again,
  and no callback of the SDK is a lock.
* The error structure is written only in part, and `main` prints all of it.
* A server that falls silent holds a task in a receive that has no timeout.
* The update period is multiplied twice in 32 bits.
* The cc3200 learns of its link from status bits that outlive the session of the
  network processor in which they were set.

`PROJECT.json` lists each hazard at its line with the properties that cover it.

## 2. Modules

| Module | What it is |
|---|---|
| `ThingIf` | the object, the application thread and both tasks of each `start()` |
| `MCThingIf` | its instances for TLC |
| `CommandHandler` | one push task and the messages it handles, in detail |
| `CommandService` | what the push task promises about a command; `CommandHandler` implements it |
| `MCCommandHandler` | the instance of `CommandHandler` for TLC |
| `LinuxMain` | `main` of the linux sample, composed with `ThingIf` |
| `MCLinuxMain` | its instance for TLC |
| `SampleHandlers` | the handlers of both samples in both tasks |
| `MCSampleHandlers` | its instance for TLC |
| `EnvCallbacks` | the socket and delay callbacks of both platforms |
| `WlanConnect` | the network start-up of the cc3200 sample |
| `ThingIfProofs`, `CommandHandlerProofs`, `LinuxMainProofs`, `SampleHandlersProofs`, `EnvCallbacksProofs`, `WlanConnectProofs` | the theorems about these modules and their proofs |

An operator whose name begins with `Mut` is a deliberately wrong version of the
definition below it, used to see that a property notices the mistake. It is not
part of any specification.

### ThingIf

A step is what a thread does between two points at which another thread can be
seen to run. A call of the application is therefore two or more steps: one
builds a request (`BeginOnboard`, `BeginApi`), one runs it and acts on the
response (`RunToken`, `RunOnboard`, `RunApi`), and `prv_set_author` is cut
between its two `strncpy` calls (`RunOnboard` copies the ID, `FinishOnboard` the
token and sets `state`). `start()` is cut between its two task creations
(`BeginStart`, `FinishStart`).

| Variable | Code |
|---|---|
| `state`, `author`, `req` | `kii_thing_if_t.state`, the clients' `kii_core.author` and request buffers |
| `usable` | the last init returned `KII_TRUE` |
| `appPc`, `call`, `errp`, `ret`, `error` | where the application thread is, its last call, whether it passed an error pointer, the result, the error structure |
| `recv`, `upd`, `updId` | the tasks of each start; the ID in the path that the updater cached |
| `starts`, `aborted` | starts that created a push task; a failed assertion |

The token of thing `t` is written `t`: what counts is whose it is. Strings are
lengths where the code measures them (IDs in paths) and absent otherwise.
Requests record who built them, the ID in their path and their token. How
`kii_api_call_run` ends is a choice of `HttpOutcome`, the cases that
`prv_execute_http_session` tells apart; whether appends fit is a choice.
The assertion macro ends the process unless `NoAssert` (the build option
`KII_THING_IF_NOASSERT`) is set. The push task's registration is external and
modelled from how `start()` uses it: it registers with the client it was given,
waits, and registers again when the connection is lost. `BeginResults`,
`FinishResults` and `FinishState` are the three points of `handle_command` at
which the shared buffer changes hands; what lies between them is the subject of
`CommandHandler`.

Every call gets an error structure of its own that its caller did not
initialize, as in the samples: `error` says which of its fields the call has
written. After an HTTP error these are the code and the status, and `error_code`
only if the response body has one (outcome `status`, not `status_without_code`).
The application does not call init while tasks run on the object.

### CommandHandler

A message is a parse result, the length of its command ID and the array of
aliases, each with an array of actions; an item is an object of one pair, a
scalar or an empty object. `received_callback` does everything up to the
opening of the results array; `next_alias` and `next_action` are the two loop
heads with their calls of `get_key_and_value_at_index`; `action_handler`,
`report_result`, `finish_results`, `run_results` and `prv_send_state` follow.
`nuls` is the set of bytes of the message that hold a NUL at the moment, `body`
the elements and commas written so far, `room` the bytes left in the request
buffer.

Reads of memory that nobody wrote are choices: an empty object makes the code
look at an unwritten token (`kii_thing_if.c:560`), which either fails or leads
to `"undefined"`, after which nothing is claimed; an unwritten error array has
its first NUL at any place of `StackLen`. The bytes up to there are sent as the message
of a handler that failed without writing one, although the header calls it
optional (`kii_thing_if.h:89`); the claims about the results hold for any of
these lengths. The longest accepted results path
needs 257 bytes in an array of 256 (`kii_thing_if.c:724` subtracts one from the
ID's length); this too leads to `"undefined"`.

`Service`, in `CommandHandler`, is `CommandService` with this mapping. `asked` is
the set of pairs of an alias and an action of the last message, `done` the
executed actions; `results` are the reported ones (`Results`, the elements of
`body` that are no commas, in order) and `stateSent` tells that a
state was answered after them; `status` is `"idle"` between messages,
`"undefined"` after an undefined read, and `"busy"` otherwise. An answer is
any response: `handle_command` does not look at its status
(`kii_thing_if.c:882`). The abstract
module knows no JSON, no index and no buffer. `ImplementsService` says that each
step of `CommandHandler` is a step of it or leaves it unchanged.

### LinuxMain

`LinuxMain` extends `ThingIf`: the object, the calls and the tasks are those of
that module, and `mainPc` and `plan` say when the application thread makes which
call. `ParseCommandLine` takes one command line (a sub command and the set of
options given) and turns it into a plan; the other actions follow `main` to its
next call or exit. In `ServerFallsSilent`, which is external, a request is never
answered: `s_recv_cb` has no time limit, and main then stays in its call
(`unanswered`). `--help` after either onboard command leaves the option loop
and falls through to `start()` on an object that was never initialized
(`StartUninitialized`). `Contract` is `ThingIf` once more, for an application
that makes no call after `start()` created tasks.

### SampleHandlers

`sample` says whose handlers run and never changes. A step is one call of the
mutex or the copy of one field, so that another thread can come between any two
of them. Locks and unlocks may fail: a failed unlock leaves the mutex locked
(`jammed`). `device` and `seen` are history variables: what the commands that were reported
as done ask of the device (`Meant`), and which of these values each thread could
have seen since its handler began. The linux handler computes the temperature
from `atoi(action_name)` (`example.c:79`), which is 0 for
`setPresetTemperature`; `Apply` does the same, and `Kept` is what is then left of
a device. `NoLostUpdate` and `StateIsSnapshot` except this one field of this one
sample, and nothing else. There the code disagrees with its own README
(`linux-sample/README.mkd:80`), which says that the sample "sends last received
command contents as thing state": a command that sets the temperature is
reported as done, and the state that follows has 0.

### EnvCallbacks

A task, the owner of a connection, uses the callbacks round after round.
`platform` (linux or cc3200, HTTP or MQTT) and `period` never change. A callback
of the owner is one step with all of its outcomes; `Steps` are the places where
a connect can fail and `LeftBy` is what is then lost. An HTTP context has no other
user. The MQTT context has the ping task: its send callback is two steps,
`PingLoads` and `PingSends`, so that the push task can close, and connect again,
between the load of `app_context` (on the cc3200, of the descriptor) and its
use. `Close` leaves such a copy dangling. On linux its use is a use of freed
memory, and `pc` becomes `"undefined"`; on the cc3200 it is a wrong number, and
the send fails or reaches another connection. The ping task's loop is not in the
repository; the model lets it begin a send only while the push task has a
connection, which is the best that it could do. The inside of OpenSSL is
not modelled: that `SSL_read` and `SSL_write` of two threads meet on one `SSL`
object is listed as a hazard only. The kii SDK's use of
the callbacks is external: it sends and receives after a successful connect only
and closes before it connects again; how long the push task waits before it
connects is external, too, so that the delay is that of the HTTP contexts. `malloc` is taken to succeed: the code does
not look at its result. Times are in units of 8 microseconds, so that the 32-bit product of
the linux callback becomes a product modulo 2^29.

### WlanConnect

`connected` and `acquired` are the two bits of `g_ulStatus`; `role`, `running`,
`link`, `profiles`, `asked` and `events` describe the network processor, which is
external. The sample links the SimpleLink library for use without an OS, so
event handlers run inside `sl_` calls and inside the waiting loops'
`_SlNonOsMainLoopTask`: `Dispatch` is a step of its own and delivers events
late, in order, and never in the middle of an update of the bits. `sl_Stop`
drops the link and the queued events without telling anyone. An error of an
`sl_` call leads to `LOOP_FOREVER` (`"halted"`).

## 3. Runs

| Run | Checks | Shows |
|---|---|---|
| `thing_if_contract` | `TypeOK`, `SendsOwnRequest`, `UpdaterIdentity`, `ErrorReported`, `CallsReturn`, `UpdaterKeepsGoing` | An application that calls nothing once `start()` has created tasks is safe without a lock: each thread runs its own request, updates carry one thing's ID and token, failures are reported, calls return, the updater never stops. |
| `thing_if_any_order` | `UpdaterNeverAnonymous`, `UpdaterAuthorCoherent` | Without that discipline, the updater's credentials still survive every failed onboarding and are never anonymous. |
| `thing_if_second_start` | `SerializedStateHandler` | *Violated.* `start()` never sets `STARTED`, contrary to its comment, so it can be called twice, and the state handler that the header calls "serialized" runs in two tasks at once. |
| `thing_if_reonboard` | `OnboardedClientsAgree` | *Violated.* A second onboarding that fails after its token request leaves an object that says `ONBOARDED` with an anonymous token in its command handler. |
| `command_handler` | `TypeOK`, `ExecutesInOrder`, `ReportsWhatRan`, `CommasSeparate`, `ParsesIntactMessage`, `StateAfterResults`, `CommandEnds`, `ImplementsService` | Each action of a command is executed once and in order; a request that is sent reports all of them; the body has no two results without a comma; the message is whole whenever it is parsed; a state follows results only; every command ends; and all of it implements `CommandService`. |
| `command_leading_comma` | `NoLeadingComma` | *Violated.* A first alias that yields no action gives `[,{...}]`. |
| `sample_handlers` | `TypeOK`, `NoLostUpdate`, `StateIsSnapshot`, `HandlersReturn` | Two locks per action are enough because only the push task stores: no action is lost, no state is torn or old, and handlers return unless an unlock failed. The preset temperature of the linux sample is excepted. |
| `linux_main` | `MainTypeOK`, `StartsOnboarded`, `PrintsWrittenError`, `KeepsContract`, `MainSettles` | The linux `main` keeps the discipline that the guarantees of `thing_if_contract` rest on; it comes to `start()` with both clients authorized as one thing; the code and the status that it prints were written by the failed call; it settles unless a request is never answered. |
| `linux_main_error_code` | `PrintsWrittenErrorCode` | *Violated.* After an HTTP error without an `errorCode` in its body, `main` prints an `error_code` that nobody wrote, although the header says it is set. |
| `env_callbacks` | `TypeOK`, `UsesLiveConnection`, `LeaksOnlyByFault`, `PeriodKept`, `MqttReceiveEnds` | The owner of a connection uses no freed object although a failed close leaves a pointer to some, and neither does a ping that no close has overtaken; what is lost is lost by named failures only; the delay is the period, on linux up to 4294 seconds; a silent server cannot hold the MQTT task of the cc3200. |
| `env_ping_overtaken` | `SendAnswers` | *Violated.* A ping that loaded the TLS context before the push task closed the connection uses it afterwards, on linux: it does not return the failure that the callback's description asks for. |
| `wlan_connect` | `TypeOK`, `StatusFollowsLink`, `ReturnsOnlyOnline`, `ConfigurationLoopsEnd`, `NotStuckOnline` | From every role and with or without an old connection, the status bits come to agree with the link, `WlanConnect` returns only when there was an address, and no waiting loop misses its event. |

`SendsOwnRequest` is stated for the disciplined application only: without the
discipline it does not hold, since `get_firmware_version` and a command may be
in progress on one client. Nothing in the repository promises otherwise, so
this is a precondition of use and not a finding. `ErrorReported` leaves out
`onboard_with_thing_id`, which returns `KII_FALSE` without a code when its body
does not fit (`kii_thing_if.c:1197`), and builds without assertions, in which
the path builders fail without one.

`StartsOnboarded` leaves out the `--help` path of the two onboard commands
(`example.c:369`), on which `main` calls `start()` with an object that no init
has touched, although the header says it "must be called after" onboarding
(`kii_thing_if.h:371`). The model goes to `"undefined"` there. `HandlersReturn` leaves out a mutex that could not be
unlocked, after which every later handler of the program waits for ever.

### Bounds

* Things: two with IDs of 36 characters and, in the contract run, one of 100,
  which a `kii_author_t` and a state path hold and a 128-byte path does not, so
  that the assertion in the firmware and thing-type paths is reached. Two things
  are enough to mix an ID and a token. `AuthorIdSize = 128` and `AppIdLen = 8`
  stand for the kii SDK's array and Kii's application IDs.
* `MaxStarts` is 1 where the claim is about one pair of tasks and 2 for the
  second start. The theorems hold for every value.
* Commands have at most two aliases of at most two actions: the shortest in
  which every comma rule, both loop heads and a second alias matter.
* `Room` has one value for each place at which the request overflows: the
  opening, the first result, the comma after it, the second result, never.
  `StackLen` is 0, a few bytes that fit, or more than the buffer holds.
* `SampleHandlers`: two values for a field and two actions from the server, one
  to be overwritten and one to overwrite it; state handlers run any number of
  times. The inputs are the actions of every name that a sample knows, and some
  that are refused, unknown or malformed.
* `LinuxMain`: command lines with every sub command, complete, incomplete,
  contradictory, and with `--help`; the things and lengths of the contract run.
  The sample is built with assertions (`NoAssert = FALSE`).
* `Periods`: 4294 and 4295 seconds are the two sides of the 32-bit limit on
  linux; 60 is the sample's own period.
* `MaxEvents = 4`: a link can come, get its address, go and come again before
  the first event is dispatched.
* Command IDs: of 36 characters, the longest accepted, and one more.

`thing_if_any_order` uses the symmetry of the two ordinary things; it checks
invariants only.

Deadlock is not checked, since the programs really may stop: a failed assertion,
`exit()` and an undefined read end the process, `LOOP_FOREVER` is where the
cc3200 start-up goes on an error, a mutex whose unlock failed stays locked, a
ping through freed memory ends what is known of the program, and a receive
without a timeout waits for a silent server. The liveness properties
take its place.

### Fairness

Each thread is weakly fair on its own: the tasks are threads of an operating
system that schedules them, and the callbacks that the SDK calls
(`kii_api_call_run`, delays, task creation, handlers) are taken to return.
A push task that waits for a message may wait for ever, the application need not
call anything, and no outcome of a request is ever assumed. `CallsReturn` and
`UpdaterKeepsGoing` need fairness of one thread each, `CommandEnds` that of the
push task, `MainSettles` that of the main thread. That `kii_api_call_run` returns
is an assumption of `ThingIf` only, where the callbacks are the application's.
The linux program has callbacks that wait for ever for a silent server, and
`LinuxMain` does not assume it: `MainSettles` excepts that case.

`SampleHandlers` adds strong fairness of a successful lock: a task that waits
for a mutex which is released again and again gets it. Both tasks spend nearly
all of their time in the delay or waiting for the network, without the mutex, so
a thread that is passed over each time is not a schedule these programs meet.
`EnvCallbacks` assumes that calls of the owner into the system return, except a
receive without a timeout from a silent server, and nothing of the ping task. `WlanConnect` assumes that `main` runs,
that its waiting loops dispatch events, which is what their bodies do, and that
a device in the access-point role gives itself an address; whether a station
ever gets a link or an address is left open.

## 4. Proofs

Every invariant and action property that a passing run checks is also a theorem,
proved for every value of the constants. So are both refinements. The bounds of
section 3 are those of the runs only: the theorems speak of any set of things,
messages, command lines, actions and periods, of any length of a queue or a
buffer and of any number of starts. Each inductive invariant was checked with
TLC on the run of its module before it was proved.

### Assumptions

The theorems use the assumptions that the modules name, and no others: the two
special strings are no thing IDs, lengths and sizes are natural numbers, at
least one start (`ThingIf`); messages are of the type that the code can receive,
their command ID is not empty, and one that parses has an array of aliases
(`CommandHandler`); command lines and actions are of their types (`LinuxMain`,
`SampleHandlers`); the values of a field contain the 0 that a zeroed structure
holds; a period in milliseconds is a 32-bit `int` (`EnvCallbacks`); the queue of
events has room for one (`WlanConnect`). A theorem with a condition of its own
shows it in the table.

### ThingIfProofs

| Theorem | Statement |
|---|---|
| `TypeCorrect` | `Spec => []TypeOK` |
| `UpdaterIsNeverAnonymous` | `Spec => []UpdaterNeverAnonymous` |
| `UpdaterAuthorStaysCoherent` | `Spec => []UpdaterAuthorCoherent` |
| `ThreadsSendTheirOwnRequests` | `Spec => []SendsOwnRequest` if `AppStopsAfterStart` |
| `UpdatesAreForTheOnboardedThing` | `Spec => []UpdaterIdentity` if `AppStopsAfterStart` |
| `FailuresAreReported` | `Spec => []ErrorReported` |

The second and third rest on the inductive invariant `UpdaterInv`. Neither
property is inductive by itself: that a request of the updater names a thing
follows from the cached path naming one (`PathNamesThing`), which follows from
the author at the time it was cached (`OnboardedHasAuthor`), which needs tasks
to exist on onboarded objects only (`TasksNeedOnboarding`); and that the copy in
`prv_set_author` ends with a pair of one thing needs to know, between its two
halves, whose token is coming (`SetAuthorKnowsThing`). Note what is not needed:
that the command handler's author is coherent. It is not.

The next two rest on `ContractInv`: only started tasks exist
(`TasksOfStarts`), there is one start and no other call after it
(`QuietAfterStart`), and the cached path is that of the updater's current author
(`CachedPathCurrent`). Three lemmas say what a step of a call, of a push task
and of an update task leaves alone; the induction then has one case for each
kind of step and one step for each conjunct that kind can disturb.

`ErrorReported` needs the types only: a call resets `code` when it is
entered and returns in one step with it.

### CommandHandlerProofs

| Theorem | Statement |
|---|---|
| `TypeCorrect` | `Spec => []TypeOK` |
| `MessageIsIntact` | `Spec => []ParsesIntactMessage` |
| `ActionsRunInOrder` | `Spec => []ExecutesInOrder` |
| `ResultsAreComplete` | `Spec => []ReportsWhatRan` |
| `CommasBetweenResults` | `Spec => []CommasSeparate` |
| `StateFollowsResults` | `Spec => []StateAfterResults` |
| `HandlerImplementsService` | `Spec => ImplementsService` |

All of them come from one invariant, `CommandInv`. The loops of
`handle_command` are described by their two indices: only pairs lie behind them
(`OnlyPairsPassed`), the executed actions are exactly the ones behind them
(`DoneIsPassed`), and they stand in order (`InOrder`, `LastIsCurrent`). The
array is described by `BodyHolds`: its results and commas alternate, each result
at its own place, with all places shifted by one if the first alias was empty
and a comma came first. This shift is the known leading comma; because it is
carried along, the claims about everything behind it could be proved without
leaving that case out. `NulsSoFar` and `SentSoFar` tie the NULs in the message
and the answered requests to the place in the code.

The refinement takes each action of `CommandHandler` to one of `CommandService`
or to a stutter. Its two hard steps are a call of `action_handler`, which must
be the first action that the service still has pending (`PendingAhead`: these
are the actions ahead of the indices), and an answered request, whose results
must be all of them in order (lemma `ResultsAreExecuted`).

### LinuxMainProofs

| Theorem | Statement |
|---|---|
| `MainTypeCorrect` | `MainSpec => []MainTypeOK` |
| `MainStartsOnboarded` | `MainSpec => []StartsOnboarded` |
| `PrintedErrorsAreWritten` | `MainSpec => []PrintsWrittenError` if `~NoAssert` |
| `MainKeepsContract` | `MainSpec => KeepsContract` |
| `MainThreadsSendTheirOwnRequests` | `MainSpec => []SendsOwnRequest` |
| `MainUpdatesAreForTheOnboardedThing` | `MainSpec => []UpdaterIdentity` |

`MainUsesSdk` shows first that a step of the program is a step of `ThingIf` or
leaves it alone, so that every theorem about any application holds of `main`.
`MainInv` relates where `main` is to where its call is (`InItsCall`,
`HasReturned`), says that tasks are created by its last call only
(`CallsBeforeStart`), what onboarding has achieved when it returns
(`OnboardingResult`) and which fields of the error structure are written with
which code (`StatusWithCode`). `CallsBeforeStart` is what makes each step of `main` a step
of the disciplined application, although `main` itself knows no such rule. The
last two theorems need no condition any more: they apply the theorems of
`ThingIfProofs`, instantiated for the disciplined application (`Disciplined`),
to the refinement. Together they say that the program in the repository
is safe without a lock. With `--help` after an onboard command the program's
behaviour is undefined and the model stops there.

### SampleHandlersProofs

| Theorem | Statement |
|---|---|
| `TypeCorrect` | `Spec => []TypeOK` |
| `NoUpdateIsLost` | `Spec => []NoLostUpdate` |
| `StatesAreSnapshots` | `Spec => []StateIsSnapshot` |

`HandlersInv` holds the argument why two locks per action are enough: who is
between a lock and an unlock owns the mutex (`MutualExclusion`), only the push
task stores (`OnlyPushStores`), a copy that is being made agrees with the device
as far as it has come (`CopiedOut`), the push task's copy is the device with its
action applied, although it has given the mutex back in between (`CopyApplied`),
and the structure is the device except while the push task overwrites it
(`RecordCurrent`). The proof for a copied field is by its position in `Fields`
and holds for both samples.

### EnvCallbacksProofs

| Theorem | Statement |
|---|---|
| `TypeCorrect` | `Spec => []TypeOK` |
| `LiveConnectionIsUsed` | `Spec => []UsesLiveConnection` |
| `OnlyFaultsLeak` | `Spec => []LeaksOnlyByFault` |
| `PeriodIsKept` | `Spec => []PeriodKept` |

Both the type invariant and `LeaksOnlyByFault` need `StaleByShutdown`: a pointer
left in `app_context` comes from a failed shutdown, and only linux has one.
`UsesLiveConnection` is inductive together with `LiveCopy`: a ping under way
belongs to an MQTT context, and what it loaded is live only while the owner has
its connection. That a ping reaches freed memory is not excluded; the theorem
says on which platform.
`SleepTimeExact` is the arithmetic: up to 4294 seconds the product modulo 2^32
is the product.

### WlanConnectProofs

| Theorem | Statement |
|---|---|
| `TypeCorrect` | `Spec => []TypeOK` |
| `StatusFollowsTheLink` | `Spec => []StatusFollowsLink` |
| `WlanConnectReturnsOnline` | `Spec => ReturnsOnlyOnline` |

The bits lag behind the link by the events that are not dispatched yet. The
central conjunct of `StatusInv`, `QueueLeadsToLink`, says that the queue is a
path from the link that the bits describe to the link as it is: the first event
can happen to the former, each event to what the one before it leaves, and the
last one leaves the latter. It holds from the last `sl_Start` on, because
`InitializeAppVariables` has cleared the bits (`ClearedBeforeRestart`) and a
stopped device has no link and no events (`StoppedIsQuiet`).

### Only model-checked

* Liveness: `CallsReturn`, `UpdaterKeepsGoing`, `CommandEnds`, `HandlersReturn`,
  `MainSettles`, `MqttReceiveEnds`, `ConfigurationLoopsEnd`, `NotStuckOnline`.
  Properties under fairness are outside what the prover handles.
* The five violations of section 3: a counterexample is a behaviour, and TLC
  shows it.

## 5. Not modelled

* The kii submodule is not in the repository; it appears as external actions.
* JSON text, request text, logging and HTTP headers: sizes and choices only.
* Texts and optional parameters of the onboarding and update bodies.
* The cc3200 command task `vCmdTask`: it calls init and onboarding with the
  argument lists of an older version of the SDK, does not compile against this
  one and never calls `start()`.
* `task_create_cb` of both platforms: it forwards to the system; both outcomes
  are in `ThingIf`. `custom_push_handler` compares a prefix: its result is an
  input of `CommandHandler`.
* The texts that the samples print, and the state file of the linux sample,
  which is sent as it is. Its README names the file `smartlight-state.json`; the
  code opens `air_conditioner-state.json`.
* The lengths of the samples' error messages: the cc3200 handler prints a refused
  schema into `error[51]` with an unbounded `sprintf` (`main.c:712`), which the
  model does not see.
* The loop of the ping task, which is in the kii submodule, the plain TCP
  callbacks of `KII_MQTT_USE_PORT_TCP`, which the build leaves out, and the
  inside of OpenSSL.
* Pin and board set-up and vendor code of the cc3200.
* `handle_command_test.c` is a source of expectations, not a model.

## 6. Plan

In the order of importance:

1. `ThingIf`, its runs and its theorems; `CommandHandler` and its runs (done).
2. `CommandService` and the refinement, `LinuxMain` on top of `ThingIf`,
   `SampleHandlers`, `EnvCallbacks`, `WlanConnect`, all model-checked (done).
3. The invariants, the action property and both refinements as theorems, and
   the guarantees of the disciplined application carried over to the linux
   program (done).
4. Action properties worth stating and proving: the updater's author changes only
   while an onboarding or an init is in progress; `usable` objects stay
   authorized as long as only get and update calls are made.
5. Step simulation of the other direction of composition: the push task of
   `ThingIf` (`BeginResults`, `FinishResults`, `FinishState`) as an abstraction of
   `CommandHandler`, so that the two models of `handle_command` are one.
