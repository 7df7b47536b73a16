--------------------------- MODULE CommandHandler ---------------------------
(***************************************************************************)
(* What the push task does with one message after another:                 *)
(* received_callback and handle_command of kii_thing_if.c.                 *)
(*                                                                         *)
(* A command holds an array of aliases, each an object whose one value is  *)
(* an array of actions, each an object of one name and one value.  The     *)
(* code walks both arrays by index and parses the array again for every    *)
(* index; it terminates the strings it hands to the action handler by      *)
(* writing NULs into the message and takes them back before it parses the  *)
(* next item.  The results go into the request buffer as the actions run.  *)
(***************************************************************************)
EXTENDS Naturals, Sequences, FiniteSets

CONSTANTS
  Message,     \* the messages the push channel may deliver
  Room,        \* free bytes kii_api_call_start may leave in the request buffer
  PathPrefix,  \* strlen of the results path without its command ID
  NameLen,     \* strlen of an action's name
  ErrorLen,    \* strlen of the error message a handler writes
  StackLen     \* where the first NUL of an array nobody wrote to may be

\* An item of either array, as the JSON parser sees it.
ItemKind == {"object", "scalar", "empty"}

\* valid: the value is an array; items: the kind of each of its items.
Array(Item) == [valid : BOOLEAN, items : Seq(Item)]
Action == [kind : ItemKind]
Alias == [kind : ItemKind, actions : Array(Action)]

\* parse: how kii_json_read_object fares when it looks for /commandID and
\* /actions; idLen: the length of the command ID.
ParseResult == {"SUCCESS", "PARTIAL_SUCCESS", "PARTIAL_SUCCESS_NO_ID", "ERROR"}
MessageType == [parse : ParseResult, idLen : Nat, aliases : Array(Alias)]

ASSUME MessageAssumption ==
  \A m \in Message :
    /\ m \in MessageType
    /\ m.parse = "SUCCESS" <=> m.aliases.valid
    /\ m.idLen > 0
ASSUME SizesAssumption ==
  /\ Room \subseteq Nat /\ StackLen \subseteq Nat
  /\ PathPrefix \in Nat /\ NameLen \in Nat /\ ErrorLen \in Nat

VARIABLES
  pc,        \* where the push task is
  msg,       \* the message in the MQTT buffer
  i,         \* alias_index + 1
  j,         \* action_index + 1
  nuls,      \* the bytes of the message that are overwritten by a NUL
  executed,  \* the actions the handler was called for, and how it ended
  body,      \* the elements and commas in the actionResults array
  room,      \* bytes left in the request buffer
  sent       \* the requests sent for this message: "results" and "state"

vars == <<pc, msg, i, j, nuls, executed, body, room, sent>>

----------------------------------------------------------------------------
Pc == {"wait", "alias", "action", "handler", "report", "finish", "run", "state",
       "undefined"}

\* How an action handler ends: KII_TRUE, or KII_FALSE with or without having
\* written to the error array it was given.
Outcome == {"succeeded", "failed", "failed_silently"}

Comma == [alias |-> 0, action |-> 0, outcome |-> "comma"]
Executed == [alias : Nat, action : Nat, outcome : Outcome]

Byte == {"name", "value"} \X Nat \X Nat

TypeOK ==
  /\ pc \in Pc
  /\ msg \in Message
  /\ i \in Nat
  /\ j \in Nat
  /\ nuls \subseteq Byte
  /\ executed \in Seq(Executed)
  /\ body \in Seq(Executed \cup {Comma})
  /\ room \in Nat
  /\ sent \in Seq({"results", "state"})

----------------------------------------------------------------------------
(* The JSON array walk.                                                    *)

\* get_key_and_value_at_index.  Partial success is taken for the end of the
\* array, which is also what an item that is not an object gives.  A value that
\* is not an array (a missing one is an empty string) is either refused by the
\* parser or partially read.  An empty object has no second token, and the code
\* reads the one in an array that nobody initialized: it either looks like no
\* string or names bytes anywhere in memory.
GetKeyAndValueAtIndex(array, n) ==
  IF ~array.valid THEN {"FAIL", "FINISH"}
  ELSE IF n > Len(array.items) THEN {"FINISH"}
  ELSE IF array.items[n].kind = "object" THEN {"SUCCESS"}
  ELSE IF array.items[n].kind = "scalar" THEN {"FINISH"}
  ELSE {"FAIL", "undefined"}

Actions == msg.aliases.items[i].actions

----------------------------------------------------------------------------
(* Receiving a message.                                                    *)

\* The length that handle_command checks; it counts one character less than
\* the command ID has.
ResultsPathLength(m) == PathPrefix + (m.idLen - 1)
ResultsPathFits(m) == ~(256 <= ResultsPathLength(m))
\* What strcat then writes, the NUL included.
ResultsPathBytes(m) == PathPrefix + m.idLen + 1

PrefixSize == 18       \* {"actionResults":[
SuffixSize == 2        \* ]}

\* skip: what the custom push handler returned, if there is one.  started:
\* kii_api_call_start found room for the request line and the headers, and left r.
received_callback(m, skip, started, r) ==
  /\ pc = "wait"
  /\ IF \/ skip
        \/ m.parse \in {"ERROR", "PARTIAL_SUCCESS_NO_ID"}
        \/ ~ResultsPathFits(m)
       THEN UNCHANGED pc
       ELSE IF ResultsPathBytes(m) > 256 THEN pc' = "undefined"
       ELSE IF started /\ r >= PrefixSize THEN pc' = "alias"
       ELSE UNCHANGED pc
  /\ msg' = m
  /\ i' = 1
  /\ j' = 1
  /\ nuls' = {}
  /\ executed' = <<>>
  /\ body' = <<>>
  /\ room' = IF pc' = "alias" THEN r - PrefixSize ELSE 0
  /\ sent' = <<>>

----------------------------------------------------------------------------
(* The loop over the aliases and the loop over the actions of one.         *)

next_alias(result) ==
  /\ pc = "alias"
  /\ result \in GetKeyAndValueAtIndex(msg.aliases, i)
  /\ pc' = CASE result = "SUCCESS" -> "action"
             [] result = "FINISH" -> "finish"
             [] result = "FAIL" -> "wait"
             [] result = "undefined" -> "undefined"
  /\ nuls' = IF result = "SUCCESS" THEN nuls \cup {<<"name", i, 0>>} ELSE nuls
  /\ j' = 1
  /\ UNCHANGED <<msg, i, executed, body, room, sent>>

ActionBytes == {<<"name", i, j>>, <<"value", i, j>>}

\* Mutant: alias_index is not advanced.
MutNextActionSameAlias(result) ==
  /\ pc = "action"
  /\ result \in GetKeyAndValueAtIndex(Actions, j)
  /\ pc' = CASE result = "SUCCESS" -> "handler"
             [] result = "FINISH" -> "alias"
             [] result = "FAIL" -> "wait"
             [] result = "undefined" -> "undefined"
  /\ nuls' = IF result = "SUCCESS" THEN nuls \cup ActionBytes
             ELSE IF result = "FINISH" THEN nuls \ {<<"name", i, 0>>} ELSE nuls
  /\ UNCHANGED <<msg, i, j, executed, body, room, sent>>

next_action(result) ==
  /\ pc = "action"
  /\ result \in GetKeyAndValueAtIndex(Actions, j)
  /\ pc' = CASE result = "SUCCESS" -> "handler"
             [] result = "FINISH" -> "alias"
             [] result = "FAIL" -> "wait"
             [] result = "undefined" -> "undefined"
  /\ nuls' = IF result = "SUCCESS" THEN nuls \cup ActionBytes
             ELSE IF result = "FINISH" THEN nuls \ {<<"name", i, 0>>} ELSE nuls
  /\ i' = IF result = "FINISH" THEN i + 1 ELSE i
  /\ UNCHANGED <<msg, j, executed, body, room, sent>>

\* The application's action_handler runs.
action_handler(outcome) ==
  /\ pc = "handler"
  /\ executed' = Append(executed, [alias |-> i, action |-> j, outcome |-> outcome])
  /\ pc' = "report"
  /\ UNCHANGED <<msg, i, j, nuls, body, room, sent>>

Last == executed[Len(executed)]

\* {"name":{"succeeded":true}} or {"name":{"succeeded":false,"errorMessage":"text"}}
ResultSize(outcome, stackLen) ==
  CASE outcome = "succeeded" -> 23 + NameLen
    [] outcome = "failed" -> 42 + NameLen + ErrorLen
    [] outcome = "failed_silently" -> 42 + NameLen + stackLen

\* Mutant: a comma only between the actions of one alias.
MutNeedsCommaPerAlias == j > 1

\* A comma goes before every result but that of the first action of the first
\* alias.
NeedsComma == i > 1 \/ j > 1

CommaFits == NeedsComma /\ room >= 1
RoomAfterComma == IF CommaFits THEN room - 1 ELSE room
BodyAfterComma == IF CommaFits THEN Append(body, Comma) ELSE body

\* Mutant: the value is not restored before the next item is parsed.
MutReportKeepsValue(stackLen) ==
  /\ pc = "report"
  /\ IF ResultSize(Last.outcome, stackLen) <= RoomAfterComma
       THEN /\ body' = Append(BodyAfterComma, Last)
            /\ room' = RoomAfterComma - ResultSize(Last.outcome, stackLen)
            /\ nuls' = nuls \ {<<"name", i, j>>}
            /\ j' = j + 1
            /\ pc' = "action"
       ELSE /\ pc' = "wait"
            /\ UNCHANGED <<body, room, nuls, j>>
  /\ UNCHANGED <<msg, i, executed, sent>>

\* Mutant: a result that does not fit is skipped and the loop goes on.
MutReportSkipsResult(stackLen) ==
  /\ pc = "report"
  /\ IF ResultSize(Last.outcome, stackLen) <= RoomAfterComma
       THEN /\ body' = Append(BodyAfterComma, Last)
            /\ room' = RoomAfterComma - ResultSize(Last.outcome, stackLen)
       ELSE UNCHANGED <<body, room>>
  /\ nuls' = nuls \ ActionBytes
  /\ j' = j + 1
  /\ pc' = "action"
  /\ UNCHANGED <<msg, i, executed, sent>>

\* Mutant: a failed action is tried again instead of going on to the next one.
MutReportRetries(stackLen) ==
  /\ pc = "report"
  /\ IF ResultSize(Last.outcome, stackLen) <= RoomAfterComma
       THEN /\ body' = Append(BodyAfterComma, Last)
            /\ room' = RoomAfterComma - ResultSize(Last.outcome, stackLen)
            /\ nuls' = nuls \ ActionBytes
            /\ j' = IF Last.outcome = "succeeded" THEN j + 1 ELSE j
            /\ pc' = "action"
       ELSE /\ pc' = "wait"
            /\ UNCHANGED <<body, room, nuls, j>>
  /\ UNCHANGED <<msg, i, executed, sent>>

\* Mutant: a result is appended whether or not it fits.
MutReportUnchecked(stackLen) ==
  /\ pc = "report"
  /\ body' = Append(BodyAfterComma, Last)
  /\ room' = RoomAfterComma - ResultSize(Last.outcome, stackLen)
  /\ nuls' = nuls \ ActionBytes
  /\ j' = j + 1
  /\ pc' = "action"
  /\ UNCHANGED <<msg, i, executed, sent>>

\* The result is appended to the request and the message restored.  A comma
\* that does not fit is only logged; a result that does not fit ends the command
\* at once, without a request.
report_result(stackLen) ==
  /\ pc = "report"
  /\ IF ResultSize(Last.outcome, stackLen) <= RoomAfterComma
       THEN /\ body' = Append(BodyAfterComma, Last)
            /\ room' = RoomAfterComma - ResultSize(Last.outcome, stackLen)
            /\ nuls' = nuls \ ActionBytes
            /\ j' = j + 1
            /\ pc' = "action"
       ELSE /\ body' = BodyAfterComma
            /\ room' = RoomAfterComma
            /\ pc' = "wait"
            /\ UNCHANGED <<nuls, j>>
  /\ UNCHANGED <<msg, i, executed, sent>>

----------------------------------------------------------------------------
(* Sending.                                                                *)

\* Mutant: the state is sent even when the results did not fit.
MutFinishResultsGoesOn ==
  /\ pc = "finish"
  /\ IF room >= SuffixSize
       THEN pc' = "run" /\ room' = room - SuffixSize
       ELSE pc' = "state" /\ UNCHANGED room
  /\ UNCHANGED <<msg, i, j, nuls, executed, body, sent>>

finish_results ==
  /\ pc = "finish"
  /\ IF room >= SuffixSize
       THEN pc' = "run" /\ room' = room - SuffixSize
       ELSE pc' = "wait" /\ UNCHANGED room
  /\ UNCHANGED <<msg, i, j, nuls, executed, body, sent>>

\* kii_api_call_run: ran if there was a response, whatever its status.
run_results(ran) ==
  /\ pc = "run"
  /\ pc' = IF ran THEN "state" ELSE "wait"
  /\ sent' = IF ran THEN Append(sent, "results") ELSE sent
  /\ UNCHANGED <<msg, i, j, nuls, executed, body, room>>

\* Mutant: the test for another try is inverted, so a sent state is sent again.
MutSendStateAgain(written, ran) ==
  /\ pc = "state"
  /\ pc' = IF written /\ ran THEN "state" ELSE "wait"
  /\ sent' = IF written /\ ran THEN Append(sent, "state") ELSE sent
  /\ UNCHANGED <<msg, i, j, nuls, executed, body, room>>

\* written: the path, the request and the state that the state handler wrote all
\* fitted and the handler returned KII_TRUE; ran: the request got a response.
prv_send_state(written, ran) ==
  /\ pc = "state"
  /\ pc' = "wait"
  /\ sent' = IF written /\ ran THEN Append(sent, "state") ELSE sent
  /\ UNCHANGED <<msg, i, j, nuls, executed, body, room>>

----------------------------------------------------------------------------
Init ==
  /\ pc = "wait"
  /\ msg \in Message
  /\ i = 1
  /\ j = 1
  /\ nuls = {}
  /\ executed = <<>>
  /\ body = <<>>
  /\ room = 0
  /\ sent = <<>>

HandleStep ==
  \/ \E result \in {"SUCCESS", "FAIL", "FINISH", "undefined"} :
       next_alias(result) \/ next_action(result)
  \/ \E outcome \in Outcome : action_handler(outcome)
  \/ \E stackLen \in StackLen : report_result(stackLen)
  \/ finish_results
  \/ \E ran \in BOOLEAN : run_results(ran)
  \/ \E written, ran \in BOOLEAN : prv_send_state(written, ran)

Receive ==
  \E m \in Message, skip, started \in BOOLEAN, r \in Room :
    received_callback(m, skip, started, r)

Next == Receive \/ HandleStep

Spec == Init /\ [][Next]_vars

\* The push task runs, and the handlers and requests it waits for return.
FairSpec == Spec /\ WF_vars(HandleStep)

----------------------------------------------------------------------------
(* Properties.                                                             *)

\* The actions a command asks for, as far as the code reads it: everything
\* before the first item that is not an object of one pair.
IsPair(array, n) ==
  array.valid /\ n <= Len(array.items) /\ array.items[n].kind = "object"

Asked(m) ==
  UNION {{<<a, b>> : b \in {n \in 1..Len(m.aliases.items[a].actions.items) :
                             \A y \in 1..n : IsPair(m.aliases.items[a].actions, y)}} :
           a \in {n \in 1..Len(m.aliases.items) : \A x \in 1..n : IsPair(m.aliases, x)}}

\* Lexicographic order of <<alias, action>>.
Before(e, f) == e.alias < f.alias \/ (e.alias = f.alias /\ e.action < f.action)

Requests == {sent[n] : n \in DOMAIN sent}

\* The elements of the array without the commas between them: the nth of them
\* is at the position that has n of their positions up to it.
ResultPositions == {n \in DOMAIN body : body[n] # Comma}
Results ==
  [n \in 1..Cardinality(ResultPositions) |->
     body[CHOOSE p \in ResultPositions :
            Cardinality({q \in ResultPositions : q <= p}) = n]]

\* The abstract service, seen through the state of handle_command.
Service == INSTANCE CommandService WITH
  status <- IF pc = "wait" THEN "idle" ELSE IF pc = "undefined" THEN pc ELSE "busy",
  asked <- Asked(msg),
  done <- executed,
  reported <- "results" \in Requests,
  results <- IF "results" \in Requests THEN Results ELSE <<>>,
  stateSent <- "state" \in Requests

\* handle_command does what CommandService promises: every step of the array
\* walks, the buffer and the requests is a step of the service or invisible to
\* it, however early the code returns.
ImplementsService == Service!Spec

\* The handler is called for the actions of the command in the order they are
\* written, for each at most once, and for nothing else; a command whose
\* results are complete had all of them called.
ExecutesInOrder ==
  /\ \A m, n \in DOMAIN executed : m < n => Before(executed[m], executed[n])
  /\ LET done == {<<executed[n].alias, executed[n].action>> : n \in DOMAIN executed}
     IN /\ done \subseteq Asked(msg)
        /\ pc \in {"run", "state"} => done = Asked(msg)

\* A request that is run reports every action that was executed, in order and
\* with its own outcome, although results that overflow the buffer are dropped
\* piece by piece.
ReportsWhatRan ==
  pc \in {"run", "state"} => Results = executed

\* In a request that is run, results and commas alternate and the last is a
\* result: an append of a comma that failed unnoticed never leaves two results
\* side by side.
CommasSeparate ==
  pc \in {"run", "state"} /\ body # <<>> =>
    /\ \A n \in 1..(Len(body) - 1) : (body[n] = Comma) # (body[n + 1] = Comma)
    /\ body[Len(body)] # Comma

\* The message is intact when an array of it is parsed: all the NULs written to
\* it are taken back by then, except the one behind the alias's name, which is
\* outside the array of its actions.
ParsesIntactMessage ==
  /\ pc = "alias" => nuls = {}
  /\ pc = "action" => nuls = {<<"name", i, 0>>}

\* The server gets a state only after the results of the command that led to
\* it, and those were of all the command's actions.
StateAfterResults ==
  "state" \in Requests =>
    /\ sent = <<"results", "state">>
    /\ \A p \in Asked(msg) :
         \E n \in DOMAIN body : <<body[n].alias, body[n].action>> = p

\* Every command comes to an end: both loops leave their array, and the push
\* task waits for the next message (unless it read an uninitialized token).
CommandEnds == pc # "wait" ~> pc \in {"wait", "undefined"}

\* handle_command_test.c expects the results as the elements of a JSON array,
\* "[{...},{...},{...}]": such an array does not begin with a comma.
NoLeadingComma ==
  pc \in {"run", "state"} /\ body # <<>> => body[1] # Comma
=============================================================================
