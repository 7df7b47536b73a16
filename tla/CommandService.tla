--------------------------- MODULE CommandService ---------------------------
(***************************************************************************)
(* What the push task promises about a command, without the JSON walk, the *)
(* request buffer or the indices of handle_command: the actions it asks    *)
(* for are executed one after the other in the order they are written,     *)
(* then all of their results are reported or none, and only after a report *)
(* is the state sent.  A report counts when the server answers it at all:  *)
(* the task does not look at the status of the answer.  The task may give  *)
(* up at any point.                                                        *)
(***************************************************************************)
EXTENDS Naturals, Sequences

CONSTANT Outcome    \* how an action can end

VARIABLES
  status,      \* "idle", "busy" with a command, or "undefined"
  asked,       \* the actions of the last message: pairs of alias and action
  done,        \* the executed ones, in order, each with its outcome
  reported,    \* the server has answered the request with results
  results,     \* those results
  stateSent    \* the server has answered a request with the state after them

vars == <<status, asked, done, reported, results, stateSent>>

Pair == Nat \X Nat
Execution == [alias : Nat, action : Nat, outcome : Outcome]

Precedes(p, q) == p[1] < q[1] \/ (p[1] = q[1] /\ p[2] < q[2])

Pending == asked \ {<<done[n].alias, done[n].action>> : n \in DOMAIN done}

Init ==
  /\ status = "idle"
  /\ asked \in SUBSET Pair
  /\ done = <<>>
  /\ reported = FALSE
  /\ results = <<>>
  /\ stateSent = FALSE

\* A message arrives.  It is taken up, or dropped before any of its actions.
Take ==
  /\ status = "idle"
  /\ status' \in {"idle", "busy", "undefined"}
  /\ asked' \in SUBSET Pair
  /\ done' = <<>>
  /\ reported' = FALSE
  /\ results' = <<>>
  /\ stateSent' = FALSE

\* The first action that is left is executed.
Execute ==
  /\ status = "busy"
  /\ ~reported
  /\ \E p \in Pending, o \in Outcome :
       /\ \A q \in Pending : q = p \/ Precedes(p, q)
       /\ done' = Append(done, [alias |-> p[1], action |-> p[2], outcome |-> o])
  /\ UNCHANGED <<status, asked, reported, results, stateSent>>

\* All actions are done and the server answers the request that holds every result.
Report ==
  /\ status = "busy"
  /\ ~reported
  /\ Pending = {}
  /\ reported' = TRUE
  /\ results' = done
  /\ UNCHANGED <<status, asked, done, stateSent>>

\* The state follows the report and ends the command.
SendState ==
  /\ status = "busy"
  /\ reported
  /\ stateSent' = TRUE
  /\ status' = "idle"
  /\ UNCHANGED <<asked, done, reported, results>>

\* The task gives the command up, or reads memory that nobody wrote.
GiveUp ==
  /\ status = "busy"
  /\ status' \in {"idle", "undefined"}
  /\ UNCHANGED <<asked, done, reported, results, stateSent>>

Next == Take \/ Execute \/ Report \/ SendState \/ GiveUp

Spec == Init /\ [][Next]_vars
=============================================================================
