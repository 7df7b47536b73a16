-------------------------- MODULE MCCommandHandler --------------------------
(***************************************************************************)
(* An instance of CommandHandler for TLC: commands of up to two aliases    *)
(* with up to two actions each, among them items that are no objects,      *)
(* empty objects, aliases without actions, and values that are no arrays.  *)
(***************************************************************************)
EXTENDS CommandHandler

Item(kind) == [kind |-> kind]

ActionArrays ==
  {[valid |-> TRUE, items |-> s] :
     s \in {<<>>, <<Item("object")>>, <<Item("object"), Item("object")>>,
            <<Item("scalar"), Item("object")>>, <<Item("object"), Item("empty")>>}}
NoArray == [valid |-> FALSE, items |-> <<>>]

AliasItems ==
  {[kind |-> "object", actions |-> a] : a \in ActionArrays \cup {NoArray}}
    \cup {[kind |-> k, actions |-> NoArray] : k \in {"scalar", "empty"}}

AliasArrays ==
  {[valid |-> TRUE, items |-> s] :
     s \in {<<>>} \cup {<<a>> : a \in AliasItems}
             \cup {<<a, b>> : a, b \in AliasItems}}

\* The command ID that makes the results path one byte too long for its array
\* is the one whose length the code takes for 255.
MCPathPrefix == 98
UuidLen == 36
BoundaryLen == 158
TooLong == 159

Command(arrays, len) ==
  {[parse |-> "SUCCESS", idLen |-> len, aliases |-> a] : a \in arrays}

MCMessage ==
  Command(AliasArrays, UuidLen)
    \cup Command({[valid |-> TRUE, items |-> <<>>]}, BoundaryLen)
    \cup Command({[valid |-> TRUE, items |-> <<>>]}, TooLong)
    \cup {[parse |-> p, idLen |-> UuidLen, aliases |-> NoArray] :
            p \in {"PARTIAL_SUCCESS", "PARTIAL_SUCCESS_NO_ID", "ERROR"}}

\* No room for the array's opening; for a comma, but for no result; for one
\* result and no comma after it; for one result and a comma; for all.
MCRoom == {17, 19, 50, 51, 83, 400}
\* The first NUL of an unwritten error array: at once, inside its 51 bytes, or
\* far behind them.
MCStackLen == {0, 10, 300}
=============================================================================
