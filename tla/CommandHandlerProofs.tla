------------------------ MODULE CommandHandlerProofs ------------------------
(***************************************************************************)
(* Theorems about CommandHandler, for every set of messages, every size of *)
(* the request buffer and every length of a name or an error message.      *)
(***************************************************************************)
EXTENDS CommandHandler, FiniteSetTheorems, SequenceTheorems, TLAPS

(* The inductive invariant.                                                *)

InLoop == {"alias", "action", "handler", "report"}
InInnerLoop == {"action", "handler", "report"}
Busy == InLoop \cup {"finish", "run", "state"}

Done == {<<executed[n].alias, executed[n].action>> : n \in DOMAIN executed}

\* The request with the results has been answered, so they are complete.
Reported == "results" \in Requests

IndicesPositive == i > 0 /\ j > 0

\* The loops have come past nothing but pairs of a name and a value.
OnlyPairsPassed ==
  /\ pc \in InLoop => \A x \in 1..(i - 1) : IsPair(msg.aliases, x)
  /\ pc \in InInnerLoop =>
       IsPair(msg.aliases, i) /\ \A y \in 1..(j - 1) : IsPair(Actions, y)
  /\ pc \in {"handler", "report"} => IsPair(Actions, j)

\* The actions that the indices have passed, and no others, were executed.
Passed(p) == p[1] < i \/ (p[1] = i /\ p[2] < j)
DoneIsPassed ==
  /\ Done \subseteq Asked(msg)
  /\ pc = "alias" => Done = {p \in Asked(msg) : p[1] < i}
  /\ pc \in {"action", "handler"} => Done = {p \in Asked(msg) : Passed(p)}
  /\ pc = "report" => Done = {p \in Asked(msg) : Passed(p) \/ p = <<i, j>>}
  /\ pc \in {"finish", "run", "state"} \/ Reported => Done = Asked(msg)

InOrder == \A m, n \in DOMAIN executed : m < n => Before(executed[m], executed[n])

LastIsCurrent ==
  pc = "report" => executed # <<>> /\ Last.alias = i /\ Last.action = j

\* The array holds the first k results, a comma between any two of them, and
\* one more in front of them if shift is 1.
Holds(k, shift) ==
  /\ Len(body) = IF k = 0 THEN 0 ELSE 2 * k - 1 + shift
  /\ \A n \in 1..k : body[2 * n - 1 + shift] = executed[n]
  /\ \A n \in 0..k : 2 * n + shift \in DOMAIN body => body[2 * n + shift] = Comma

BodyHolds ==
  /\ pc \in Busy \ {"report"} \/ Reported =>
       \E shift \in {0, 1} : Holds(Len(executed), shift)
  /\ pc = "report" => \E shift \in {0, 1} : Holds(Len(executed) - 1, shift)

\* Which requests have been answered where.
SentSoFar ==
  /\ pc \in Busy \ {"state"} => sent = <<>>
  /\ pc = "state" => sent = <<"results">>
  /\ sent \in {<<>>, <<"results">>, <<"results", "state">>}

\* Where NULs are in the message.
NulsSoFar ==
  /\ pc = "alias" => nuls = {}
  /\ pc = "action" => nuls = {<<"name", i, 0>>}
  /\ pc \in {"handler", "report"} => nuls = {<<"name", i, 0>>} \cup ActionBytes

CommandInv ==
  /\ IndicesPositive
  /\ OnlyPairsPassed
  /\ DoneIsPassed
  /\ InOrder
  /\ LastIsCurrent
  /\ BodyHolds
  /\ SentSoFar
  /\ NulsSoFar
----------------------------------------------------------------------------
(* What the operators of the array walk return.                            *)

\* Both arrays of a message are sequences, and so is what an alias holds.
LEMMA MessageArrays ==
  ASSUME NEW m \in Message
  PROVE  /\ m \in MessageType
         /\ m.idLen \in Nat /\ m.idLen > 0
         /\ Len(m.aliases.items) \in Nat
         /\ \A a \in 1..Len(m.aliases.items) :
              Len(m.aliases.items[a].actions.items) \in Nat
<1>1. m \in MessageType /\ m.idLen > 0
  BY MessageAssumption
<1>2. m.aliases.items \in Seq(Alias)
  BY <1>1 DEF MessageType, Array
<1>3. \A a \in 1..Len(m.aliases.items) : m.aliases.items[a] \in Alias
  BY <1>2
<1>4. \A a \in 1..Len(m.aliases.items) : m.aliases.items[a].actions.items \in Seq(Action)
  BY <1>3 DEF Alias, Array
<1> QED
  BY <1>1, <1>2, <1>4 DEF MessageType

\* SUCCESS is told for a pair of a name and a value, and FINISH never is.
LEMMA WalkResult ==
  ASSUME NEW array, Len(array.items) \in Nat, NEW n \in Nat,
         NEW result \in GetKeyAndValueAtIndex(array, n)
  PROVE  /\ result = "SUCCESS" => IsPair(array, n)
         /\ result = "FINISH" => ~IsPair(array, n)
         /\ result \in {"SUCCESS", "FAIL", "FINISH", "undefined"}
  BY DEF GetKeyAndValueAtIndex, IsPair

\* The code reads a command as far as there are pairs.
LEMMA AskedArePairs ==
  ASSUME NEW m \in Message, NEW a, NEW b
  PROVE  <<a, b>> \in Asked(m) <=>
           /\ a \in Nat \ {0} /\ b \in Nat \ {0}
           /\ \A x \in 1..a : IsPair(m.aliases, x)
           /\ \A y \in 1..b : IsPair(m.aliases.items[a].actions, y)
<1> DEFINE Aliases == {n \in 1..Len(m.aliases.items) : \A x \in 1..n : IsPair(m.aliases, x)}
           ActionsOf(c) == {n \in 1..Len(m.aliases.items[c].actions.items) :
                              \A y \in 1..n : IsPair(m.aliases.items[c].actions, y)}
<1>1. <<a, b>> \in Asked(m) <=> a \in Aliases /\ b \in ActionsOf(a)
  BY DEF Asked
<1>2. a \in Aliases <=> a \in Nat \ {0} /\ \A x \in 1..a : IsPair(m.aliases, x)
  BY MessageArrays DEF IsPair
<1>3. ASSUME a \in Aliases
      PROVE  b \in ActionsOf(a) <=>
               /\ b \in Nat \ {0}
               /\ \A y \in 1..b : IsPair(m.aliases.items[a].actions, y)
  <2>1. Len(m.aliases.items[a].actions.items) \in Nat
    BY <1>3, MessageArrays
  <2> QED
    BY <2>1 DEF IsPair
<1> HIDE DEF Aliases, ActionsOf
<1> QED
  BY <1>1, <1>2, <1>3

\* The actions a message asks for are pairs of an alias and an action number.
LEMMA AskedType ==
  ASSUME NEW m \in Message
  PROVE  Asked(m) \subseteq Nat \X Nat
<1>1. \A p \in Asked(m) : \E a, b : p = <<a, b>>
  BY DEF Asked
<1> QED
  BY <1>1, AskedArePairs

----------------------------------------------------------------------------
(* Type correctness.                                                       *)

\* A result has a length, and none fits in no room.
LEMMA ResultSizeType ==
  ASSUME NEW o \in Outcome, NEW s \in StackLen
  PROVE  ResultSize(o, s) \in Nat \ {0}
<1>1. s \in Nat /\ NameLen \in Nat /\ ErrorLen \in Nat
  BY SizesAssumption
<1> QED
  BY <1>1 DEF ResultSize, Outcome

\* What is left of the buffer and what is in the array after the comma.
LEMMA CommaType ==
  ASSUME TypeOK
  PROVE  RoomAfterComma \in Nat /\ BodyAfterComma \in Seq(Executed \cup {Comma})
<1>1. RoomAfterComma \in Nat
  BY DEF TypeOK, RoomAfterComma, CommaFits
<1>2. Comma \in Executed \cup {Comma}
  OBVIOUS
<1>3. BodyAfterComma \in Seq(Executed \cup {Comma})
  BY <1>2 DEF TypeOK, BodyAfterComma
<1> QED
  BY <1>1, <1>3

\* Every action keeps every variable in its set: no index, no room and no
\* element of the array ever leaves its type.
LEMMA TypeStep ==
  ASSUME TypeOK, CommandInv, [Next]_vars
  PROVE  TypeOK'
<1>1. CASE Receive
  <2>1. PICK m \in Message, skip \in BOOLEAN, started \in BOOLEAN, r \in Room :
          received_callback(m, skip, started, r)
    BY <1>1 DEF Receive
  <2>2. r \in Nat
    BY SizesAssumption
  <2>3. pc' \in Pc /\ (pc' = "alias" => r >= PrefixSize)
    BY <2>1 DEF received_callback, TypeOK, Pc
  <2>4. room' \in Nat
    BY <2>1, <2>2, <2>3 DEF received_callback, PrefixSize
  <2> QED
    BY <2>1, <2>3, <2>4 DEF received_callback, TypeOK
<1>2. ASSUME NEW result \in {"SUCCESS", "FAIL", "FINISH", "undefined"}, next_alias(result)
      PROVE  TypeOK'
  <2>1. pc' \in Pc
    BY <1>2 DEF next_alias, Pc
  <2>2. nuls' \subseteq Byte
    BY <1>2 DEF next_alias, TypeOK, Byte
  <2> QED
    BY <1>2, <2>1, <2>2 DEF next_alias, TypeOK
<1>3. ASSUME NEW result \in {"SUCCESS", "FAIL", "FINISH", "undefined"}, next_action(result)
      PROVE  TypeOK'
  <2>1. pc' \in Pc
    BY <1>3 DEF next_action, Pc
  <2>2. nuls' \subseteq Byte
    BY <1>3 DEF next_action, TypeOK, Byte, ActionBytes
  <2>3. i' \in Nat
    BY <1>3 DEF next_action, TypeOK
  <2> QED
    BY <1>3, <2>1, <2>2, <2>3 DEF next_action, TypeOK
<1>4. ASSUME NEW outcome \in Outcome, action_handler(outcome)
      PROVE  TypeOK'
  <2>1. [alias |-> i, action |-> j, outcome |-> outcome] \in Executed
    BY DEF TypeOK, Executed
  <2>2. executed' \in Seq(Executed)
    BY <1>4, <2>1 DEF action_handler, TypeOK
  <2> QED
    BY <1>4, <2>2 DEF action_handler, TypeOK, Pc
<1>5. ASSUME NEW stackLen \in StackLen, report_result(stackLen)
      PROVE  TypeOK'
  <2>1. Last \in Executed
    BY <1>5 DEF report_result, CommandInv, LastIsCurrent, TypeOK, Last
  <2>2. ResultSize(Last.outcome, stackLen) \in Nat
    BY <2>1, ResultSizeType DEF Executed
  <2>3. body' \in Seq(Executed \cup {Comma})
    BY <1>5, <2>1, CommaType DEF report_result
  <2>4. room' \in Nat
    BY <1>5, <2>2, CommaType DEF report_result
  <2>5. nuls' \subseteq Byte
    BY <1>5 DEF report_result, TypeOK
  <2>6. j' \in Nat
    BY <1>5 DEF report_result, TypeOK
  <2>7. pc' \in Pc
    BY <1>5 DEF report_result, Pc
  <2> QED
    BY <1>5, <2>3, <2>4, <2>5, <2>6, <2>7 DEF report_result, TypeOK
<1>6. CASE finish_results
  <2>1. pc' \in Pc /\ room' \in Nat
    BY <1>6 DEF finish_results, TypeOK, Pc, SuffixSize
  <2> QED
    BY <1>6, <2>1 DEF finish_results, TypeOK
<1>7. ASSUME NEW ran \in BOOLEAN, run_results(ran)
      PROVE  TypeOK'
  <2>1. pc' \in Pc /\ sent' \in Seq({"results", "state"})
    BY <1>7 DEF run_results, TypeOK, Pc
  <2> QED
    BY <1>7, <2>1 DEF run_results, TypeOK
<1>8. ASSUME NEW written \in BOOLEAN, NEW ran \in BOOLEAN, prv_send_state(written, ran)
      PROVE  TypeOK'
  <2>1. pc' \in Pc /\ sent' \in Seq({"results", "state"})
    BY <1>8 DEF prv_send_state, TypeOK, Pc
  <2> QED
    BY <1>8, <2>1 DEF prv_send_state, TypeOK
<1>9. CASE UNCHANGED vars
  BY <1>9 DEF TypeOK, vars
<1> QED
  BY <1>1, <1>2, <1>3, <1>4, <1>5, <1>6, <1>7, <1>8, <1>9 DEF Next, HandleStep
----------------------------------------------------------------------------
(* Every action keeps the invariant.                                       *)

\* Every action that was executed is one of the command's.
LEMMA DoneType ==
  ASSUME TypeOK, CommandInv
  PROVE  /\ Asked(msg) \subseteq Nat \X Nat
         /\ \A n \in DOMAIN executed :
              /\ <<executed[n].alias, executed[n].action>> \in Done
              /\ executed[n].alias \in Nat \ {0} /\ executed[n].action \in Nat \ {0}
<1>1. msg \in Message
  BY DEF TypeOK
<1>2. \A n \in DOMAIN executed : <<executed[n].alias, executed[n].action>> \in Done
  BY DEF Done
<1>3. Done \subseteq Asked(msg)
  BY DEF CommandInv, DoneIsPassed
<1> QED
  BY <1>1, <1>2, <1>3, AskedType, AskedArePairs

\* Whether the results are reported is told by the requests.
LEMMA ReportedOrNot ==
  /\ sent = <<>> => ~Reported
  /\ sent \in {<<"results">>, <<"results", "state">>} => Reported
  BY DEF Reported, Requests

\* A step that leaves the command, its actions and the requests alone and
\* gives the command up keeps what is known of them.
LEMMA GivenUpKeepsInv ==
  ASSUME TypeOK, CommandInv, IndicesPositive', sent' = sent, executed' = executed,
         msg' = msg, pc \in Busy, pc' \in {"wait", "undefined"}, Reported => body' = body
  PROVE  CommandInv'
<1>1. Done' = Done /\ Asked(msg)' = Asked(msg) /\ (Reported' <=> Reported)
  BY DEF Done, Asked, IsPair, Reported, Requests
<1>2. OnlyPairsPassed' /\ LastIsCurrent' /\ NulsSoFar'
  BY DEF OnlyPairsPassed, LastIsCurrent, NulsSoFar, InLoop, InInnerLoop
<1>3. DoneIsPassed'
  BY <1>1 DEF CommandInv, DoneIsPassed
<1>4. InOrder'
  BY DEF CommandInv, InOrder
<1>5. BodyHolds'
  BY <1>1 DEF CommandInv, BodyHolds, Holds, Busy, InLoop
<1>6. SentSoFar'
  BY DEF CommandInv, SentSoFar, Busy, InLoop
<1> QED
  BY <1>2, <1>3, <1>4, <1>5, <1>6 DEF CommandInv

\* A message starts the loops with nothing executed and nothing written.
LEMMA ReceiveKeepsInv ==
  ASSUME TypeOK, CommandInv, Receive
  PROVE  CommandInv'
<1>1. PICK m \in Message, skip \in BOOLEAN, started \in BOOLEAN, r \in Room :
        received_callback(m, skip, started, r)
  BY DEF Receive
<1>2. /\ pc' \in {"wait", "undefined", "alias"}
      /\ msg' = m /\ i' = 1 /\ j' = 1 /\ nuls' = {}
      /\ executed' = <<>> /\ body' = <<>> /\ sent' = <<>>
  BY <1>1 DEF received_callback
<1>3. Done' = {} /\ ~Reported'
  BY <1>2 DEF Done, Reported, Requests
<1>4. IndicesPositive' /\ OnlyPairsPassed' /\ LastIsCurrent' /\ NulsSoFar'
  BY <1>2 DEF IndicesPositive, OnlyPairsPassed, LastIsCurrent, NulsSoFar, InLoop, InInnerLoop
<1>5. {p \in Asked(m) : p[1] < 1} = {}
  BY AskedType, AskedArePairs
<1>6. DoneIsPassed'
  BY <1>2, <1>3, <1>5 DEF DoneIsPassed
<1>7. InOrder' /\ SentSoFar'
  BY <1>2 DEF InOrder, SentSoFar, Busy, InLoop
<1>8. BodyHolds'
  <2>1. Holds(0, 0)'
    BY <1>2 DEF Holds
  <2>2. Len(executed') = 0
    BY <1>2
  <2>3. \E shift \in {0, 1} : Holds(Len(executed), shift)'
    BY <2>1, <2>2 DEF Holds
  <2> QED
    BY <1>2, <1>3, <2>3 DEF BodyHolds, Busy
<1> QED
  BY <1>4, <1>6, <1>7, <1>8 DEF CommandInv

\* The walk of the aliases enters an alias that is a pair, and leaves the array
\* only at an item that is none.
LEMMA NextAliasKeepsInv ==
  ASSUME TypeOK, CommandInv, NEW result, next_alias(result)
  PROVE  CommandInv'
<1>1. /\ UNCHANGED <<msg, i, executed, body, room, sent>>
      /\ pc = "alias" /\ j' = 1 /\ i \in Nat \ {0} /\ msg \in Message
      /\ Len(msg.aliases.items) \in Nat
      /\ result \in GetKeyAndValueAtIndex(msg.aliases, i)
  BY MessageArrays DEF next_alias, TypeOK, CommandInv, IndicesPositive
<1>2. /\ result = "SUCCESS" => IsPair(msg.aliases, i)
      /\ result = "FINISH" => ~IsPair(msg.aliases, i)
      /\ result \in {"SUCCESS", "FAIL", "FINISH", "undefined"}
  BY <1>1, WalkResult
<1>3. IndicesPositive'
  BY <1>1 DEF IndicesPositive
<1>4. Done' = Done /\ Asked(msg)' = Asked(msg) /\ ~Reported /\ ~Reported'
  BY <1>1, ReportedOrNot DEF Done, Asked, IsPair, Reported, Requests, CommandInv, SentSoFar,
     Busy, InLoop
<1>5. Done = {p \in Asked(msg) : p[1] < i} /\ Asked(msg) \subseteq Nat \X Nat
  BY <1>1, DoneType DEF CommandInv, DoneIsPassed
<1>6. InOrder' /\ LastIsCurrent' /\ SentSoFar'
  <2>1. pc' \in {"action", "finish", "wait", "undefined"}
    BY <1>2 DEF next_alias
  <2> QED
    BY <1>1, <2>1 DEF CommandInv, InOrder, LastIsCurrent, SentSoFar, Busy, InLoop
<1>7. BodyHolds'
  <2>1. pc' # "report"
    BY <1>2 DEF next_alias
  <2>2. \E shift \in {0, 1} : Holds(Len(executed), shift)
    BY <1>1 DEF CommandInv, BodyHolds, Busy, InLoop
  <2> QED
    BY <1>1, <2>1, <2>2 DEF BodyHolds, Holds
<1>8. CASE result = "SUCCESS"
  <2>1. pc' = "action" /\ nuls' = nuls \cup {<<"name", i, 0>>}
    BY <1>8 DEF next_alias
  <2>2. OnlyPairsPassed'
    BY <1>1, <1>2, <1>8, <2>1 DEF CommandInv, OnlyPairsPassed, InLoop, InInnerLoop
  <2>3. \A p \in Asked(msg) : p[2] > 0
    BY <1>1, AskedType, AskedArePairs
  <2>4. DoneIsPassed'
    BY <1>1, <1>4, <1>5, <2>1, <2>3 DEF CommandInv, DoneIsPassed, Passed
  <2>5. NulsSoFar'
    BY <1>1, <2>1 DEF CommandInv, NulsSoFar
  <2> QED
    BY <1>3, <1>6, <1>7, <2>2, <2>4, <2>5 DEF CommandInv
<1>9. CASE result = "FINISH"
  <2>1. pc' = "finish"
    BY <1>9 DEF next_alias
  <2>2. OnlyPairsPassed' /\ NulsSoFar'
    BY <2>1 DEF OnlyPairsPassed, NulsSoFar, InLoop, InInnerLoop
  <2>3. \A p \in Asked(msg) : p[1] < i
    BY <1>1, <1>2, <1>5, <1>9, AskedArePairs
  <2>4. DoneIsPassed'
    BY <1>4, <1>5, <2>1, <2>3 DEF DoneIsPassed
  <2> QED
    BY <1>3, <1>6, <1>7, <2>2, <2>4 DEF CommandInv
<1>10. CASE result \in {"FAIL", "undefined"}
  <2>1. pc' \in {"wait", "undefined"}
    BY <1>10 DEF next_alias
  <2> QED
    BY <1>1, <1>3, <2>1, GivenUpKeepsInv DEF Busy, InLoop
<1> QED
  BY <1>2, <1>8, <1>9, <1>10
\* The walk of the actions comes to the handler with a pair, and goes on to the
\* next alias only at an item that is none.
LEMMA NextActionKeepsInv ==
  ASSUME TypeOK, CommandInv, NEW result, next_action(result)
  PROVE  CommandInv'
<1>1. /\ UNCHANGED <<msg, j, executed, body, room, sent>>
      /\ pc = "action" /\ i \in Nat \ {0} /\ j \in Nat \ {0} /\ msg \in Message
      /\ i' = IF result = "FINISH" THEN i + 1 ELSE i
      /\ result \in GetKeyAndValueAtIndex(Actions, j)
  BY DEF next_action, TypeOK, CommandInv, IndicesPositive
<1>2. IsPair(msg.aliases, i) /\ Len(Actions.items) \in Nat
  <2>1. IsPair(msg.aliases, i)
    BY <1>1 DEF CommandInv, OnlyPairsPassed, InInnerLoop
  <2>2. i \in 1..Len(msg.aliases.items)
    BY <1>1, <2>1, MessageArrays DEF IsPair
  <2> QED
    BY <1>1, <2>1, <2>2, MessageArrays DEF Actions
<1>3. /\ result = "SUCCESS" => IsPair(Actions, j)
      /\ result = "FINISH" => ~IsPair(Actions, j)
      /\ result \in {"SUCCESS", "FAIL", "FINISH", "undefined"}
  BY <1>1, <1>2, WalkResult
<1>4. IndicesPositive'
  BY <1>1 DEF IndicesPositive
<1>5. Done' = Done /\ Asked(msg)' = Asked(msg) /\ ~Reported /\ ~Reported'
  BY <1>1, ReportedOrNot DEF Done, Asked, IsPair, Reported, Requests, CommandInv, SentSoFar,
     Busy, InLoop
<1>6. Done = {p \in Asked(msg) : Passed(p)} /\ Asked(msg) \subseteq Nat \X Nat
  BY <1>1, DoneType DEF CommandInv, DoneIsPassed
<1>7. InOrder' /\ LastIsCurrent' /\ SentSoFar'
  <2>1. pc' \in {"handler", "alias", "wait", "undefined"}
    BY <1>3 DEF next_action
  <2> QED
    BY <1>1, <2>1 DEF CommandInv, InOrder, LastIsCurrent, SentSoFar, Busy, InLoop
<1>8. BodyHolds'
  <2>1. pc' # "report"
    BY <1>3 DEF next_action
  <2>2. \E shift \in {0, 1} : Holds(Len(executed), shift)
    BY <1>1 DEF CommandInv, BodyHolds, Busy, InLoop
  <2> QED
    BY <1>1, <2>1, <2>2 DEF BodyHolds, Holds
<1>9. CASE result = "SUCCESS"
  <2>1. pc' = "handler" /\ i' = i /\ nuls' = nuls \cup ActionBytes
    BY <1>1, <1>9 DEF next_action
  <2>2. OnlyPairsPassed'
    BY <1>1, <1>3, <1>9, <2>1 DEF CommandInv, OnlyPairsPassed, InLoop, InInnerLoop, Actions
  <2>3. DoneIsPassed'
    BY <1>1, <1>5, <1>6, <2>1 DEF CommandInv, DoneIsPassed, Passed
  <2>4. NulsSoFar'
    BY <1>1, <2>1 DEF CommandInv, NulsSoFar, ActionBytes
  <2> QED
    BY <1>4, <1>7, <1>8, <2>2, <2>3, <2>4 DEF CommandInv
<1>10. CASE result = "FINISH"
  <2>1. pc' = "alias" /\ i' = i + 1 /\ nuls' = nuls \ {<<"name", i, 0>>}
    BY <1>1, <1>10 DEF next_action
  <2>2. OnlyPairsPassed'
    BY <1>1, <1>2, <2>1 DEF CommandInv, OnlyPairsPassed, InLoop, InInnerLoop
  <2>3. \A p \in Asked(msg) : p[1] = i => p[2] < j
    BY <1>1, <1>3, <1>6, <1>10, AskedArePairs DEF Actions
  <2>4. {p \in Asked(msg) : Passed(p)} = {p \in Asked(msg) : p[1] < i + 1}
    BY <1>1, <1>6, <2>3 DEF Passed
  <2>5. DoneIsPassed'
    BY <1>5, <1>6, <2>1, <2>4 DEF DoneIsPassed
  <2>6. NulsSoFar'
    BY <1>1, <2>1 DEF CommandInv, NulsSoFar
  <2> QED
    BY <1>4, <1>7, <1>8, <2>2, <2>5, <2>6 DEF CommandInv
<1>11. CASE result \in {"FAIL", "undefined"}
  <2>1. pc' \in {"wait", "undefined"}
    BY <1>11 DEF next_action
  <2> QED
    BY <1>1, <1>4, <2>1, GivenUpKeepsInv DEF Busy, InLoop
<1> QED
  BY <1>3, <1>9, <1>10, <1>11

\* The action at the indices is the first one not executed: it comes after all
\* that were.
LEMMA ActionHandlerKeepsInv ==
  ASSUME TypeOK, CommandInv, NEW outcome \in Outcome, action_handler(outcome)
  PROVE  CommandInv'
<1> DEFINE e == [alias |-> i, action |-> j, outcome |-> outcome]
<1>1. /\ UNCHANGED <<msg, i, j, nuls, body, room, sent>>
      /\ pc = "handler" /\ pc' = "report"
      /\ executed' = Append(executed, e)
      /\ i \in Nat \ {0} /\ j \in Nat \ {0} /\ msg \in Message
      /\ executed \in Seq(Executed) /\ Len(executed) \in Nat
  BY DEF action_handler, TypeOK, CommandInv, IndicesPositive
<1>2. e \in Executed
  BY <1>1 DEF Executed
<1> HIDE DEF e
<1>3. /\ Len(executed') = Len(executed) + 1 /\ executed' \in Seq(Executed)
      /\ executed'[Len(executed) + 1] = e
      /\ \A n \in 1..Len(executed) : executed'[n] = executed[n]
  BY <1>1, <1>2
<1>4. e.alias = i /\ e.action = j
  BY DEF e
<1>5. Done = {p \in Asked(msg) : Passed(p)} /\ Asked(msg) \subseteq Nat \X Nat
  BY <1>1, DoneType DEF CommandInv, DoneIsPassed
<1>6. <<i, j>> \in Asked(msg)
  <2>1. \A x \in 1..i : IsPair(msg.aliases, x)
    BY <1>1 DEF CommandInv, OnlyPairsPassed, InLoop, InInnerLoop
  <2>2. \A y \in 1..j : IsPair(msg.aliases.items[i].actions, y)
    BY <1>1 DEF CommandInv, OnlyPairsPassed, InInnerLoop, Actions
  <2> QED
    BY <1>1, <2>1, <2>2, AskedArePairs
<1>7. Asked(msg)' = Asked(msg) /\ ~Reported'
  BY <1>1, ReportedOrNot DEF Asked, IsPair, Reported, Requests, CommandInv, SentSoFar, Busy,
     InLoop
<1>8. Done' = Done \cup {<<i, j>>}
  <2>1. DOMAIN executed = 1..Len(executed) /\ DOMAIN executed' = 1..(Len(executed) + 1)
    BY <1>1, <1>3
  <2>2. Done' \subseteq Done \cup {<<i, j>>}
    BY <1>1, <1>3, <1>4, <2>1 DEF Done
  <2>3. Done \subseteq Done'
    BY <1>1, <1>3, <2>1 DEF Done
  <2>4. <<i, j>> \in Done'
    <3>1. Len(executed) + 1 \in DOMAIN executed'
      BY <1>1, <2>1
    <3> QED
      BY <1>3, <1>4, <3>1 DEF Done
  <2> QED
    BY <2>2, <2>3, <2>4
<1>9. DoneIsPassed'
  BY <1>1, <1>5, <1>6, <1>7, <1>8 DEF DoneIsPassed, Passed
<1>10. InOrder'
  <2>1. \A n \in 1..Len(executed) : Before(executed[n], e)
    <3>1. \A n \in 1..Len(executed) : <<executed[n].alias, executed[n].action>> \in Done
      BY <1>1, DoneType
    <3>2. \A n \in 1..Len(executed) : Passed(<<executed[n].alias, executed[n].action>>)
      BY <1>5, <3>1
    <3> QED
      BY <1>4, <3>2 DEF Passed, Before
  <2>2. SUFFICES ASSUME NEW m \in DOMAIN executed', NEW n \in DOMAIN executed', m < n
                 PROVE  Before(executed'[m], executed'[n])
    BY DEF InOrder, Before
  <2>3. m \in 1..Len(executed) /\ n \in 1..(Len(executed) + 1)
    BY <1>1, <1>3, <2>2
  <2>4. CASE n = Len(executed) + 1
    BY <1>3, <2>1, <2>3, <2>4
  <2>5. CASE n \in 1..Len(executed)
    BY <1>1, <1>3, <2>2, <2>3, <2>5 DEF CommandInv, InOrder
  <2> QED
    BY <1>1, <2>3, <2>4, <2>5
<1>11. LastIsCurrent'
  BY <1>1, <1>3, <1>4 DEF LastIsCurrent, Last
<1>12. BodyHolds'
  <2>1. PICK shift \in {0, 1} : Holds(Len(executed), shift)
    BY <1>1 DEF CommandInv, BodyHolds, Busy, InLoop
  <2>2. Len(executed') - 1 = Len(executed)
    BY <1>1, <1>3
  <2>3. Holds(Len(executed) - 1, shift)'
    BY <1>1, <1>3, <2>1, <2>2 DEF Holds
  <2> QED
    BY <1>1, <1>7, <2>3 DEF BodyHolds, Busy
<1>13. IndicesPositive' /\ OnlyPairsPassed' /\ SentSoFar' /\ NulsSoFar'
  BY <1>1 DEF CommandInv, IndicesPositive, OnlyPairsPassed, SentSoFar, NulsSoFar, Busy, InLoop,
     InInnerLoop, Actions, ActionBytes
<1> QED
  BY <1>9, <1>10, <1>11, <1>12, <1>13 DEF CommandInv
\* A result goes behind those of the actions before it, with a comma between:
\* only the first action of all does without one, and where a comma does not
\* fit no result does.
LEMMA ReportResultKeepsInv ==
  ASSUME TypeOK, CommandInv, NEW stackLen \in StackLen, report_result(stackLen)
  PROVE  CommandInv'
<1>1. /\ UNCHANGED <<msg, i, executed, sent>>
      /\ pc = "report" /\ i \in Nat \ {0} /\ j \in Nat \ {0} /\ msg \in Message
      /\ executed \in Seq(Executed) /\ Len(executed) \in Nat \ {0}
      /\ body \in Seq(Executed \cup {Comma}) /\ room \in Nat
      /\ Last.alias = i /\ Last.action = j /\ Last = executed[Len(executed)]
  BY DEF report_result, TypeOK, CommandInv, IndicesPositive, LastIsCurrent, Last
<1>5. Len(executed) \in Nat \ {0} /\ (Len(executed) = 1 \/ Len(executed) > 1)
  <2>1. \A n \in Nat \ {0} : n = 1 \/ n > 1
    OBVIOUS
  <2> QED
    BY <1>1, <2>1
<1>2. sent = <<>> /\ ~Reported /\ ~Reported'
  BY <1>1, ReportedOrNot DEF CommandInv, SentSoFar, Busy, InLoop, Reported, Requests
<1>3. CASE ~(ResultSize(Last.outcome, stackLen) <= RoomAfterComma)
  <2>1. pc' = "wait" /\ j' = j
    BY <1>3 DEF report_result
  <2>2. IndicesPositive'
    BY <1>1, <2>1 DEF IndicesPositive
  <2> QED
    BY <1>1, <1>2, <2>1, <2>2, GivenUpKeepsInv DEF Busy, InLoop
<1>4. CASE ResultSize(Last.outcome, stackLen) <= RoomAfterComma
  <2>1. /\ body' = Append(BodyAfterComma, Last)
        /\ nuls' = nuls \ ActionBytes
        /\ j' = j + 1
        /\ pc' = "action"
    BY <1>4 DEF report_result
  <2>2. Last \in Executed
    BY <1>1
  <2>3. RoomAfterComma > 0
    BY <1>4, <2>2, ResultSizeType, CommaType DEF Executed
  <2>4. NeedsComma => CommaFits
    BY <1>1, <2>3 DEF RoomAfterComma, CommaFits
  <2>5. IndicesPositive'
    BY <1>1, <2>1 DEF IndicesPositive
  <2>6. OnlyPairsPassed'
    BY <1>1, <2>1 DEF CommandInv, OnlyPairsPassed, InLoop, InInnerLoop, Actions
  <2>7. DoneIsPassed'
    <3>1. Done' = Done /\ Asked(msg)' = Asked(msg) /\ Asked(msg) \subseteq Nat \X Nat
      <4>1. Done' = Done /\ Asked(msg)' = Asked(msg)
        BY <1>1 DEF Done, Asked, IsPair
      <4> QED
        BY <4>1, DoneType
    <3>2. Done = {p \in Asked(msg) : Passed(p) \/ p = <<i, j>>}
      BY <1>1 DEF CommandInv, DoneIsPassed
    <3>3. \A p \in Asked(msg) : Passed(p)' <=> Passed(p) \/ p = <<i, j>>
      BY <1>1, <2>1, <3>1 DEF Passed
    <3> QED
      BY <1>2, <2>1, <3>1, <3>2, <3>3 DEF DoneIsPassed
  <2>8. InOrder' /\ LastIsCurrent' /\ SentSoFar'
    BY <1>1, <2>1 DEF CommandInv, InOrder, LastIsCurrent, SentSoFar, Busy, InLoop
  <2>9. NulsSoFar'
    <3>1. nuls = {<<"name", i, 0>>} \cup ActionBytes
      BY <1>1 DEF CommandInv, NulsSoFar
    <3>2. <<"name", i, 0>> \notin ActionBytes
      BY <1>1 DEF ActionBytes
    <3> QED
      BY <1>1, <2>1, <3>1, <3>2 DEF NulsSoFar
  <2>10. \E shift \in {0, 1} : Holds(Len(executed), shift)'
    <3>1. PICK shift \in {0, 1} : Holds(Len(executed) - 1, shift)
      BY <1>1 DEF CommandInv, BodyHolds
    <3>2. CASE CommaFits
      <4>1. /\ Len(body') = Len(body) + 2
            /\ body'[Len(body) + 2] = Last
            /\ body'[Len(body) + 1] = Comma
            /\ \A n \in 1..Len(body) : body'[n] = body[n]
        <5>1. body' = Append(Append(body, Comma), Last)
          BY <2>1, <3>2 DEF BodyAfterComma
        <5>2. Append(body, Comma) \in Seq(Executed \cup {Comma})
          BY <1>1
        <5> QED
          BY <1>1, <2>2, <5>1, <5>2
      <4>2. CASE Len(executed) = 1
        <5>1. Len(body) = 0
          BY <3>1, <4>2 DEF Holds
        <5>2. Holds(Len(executed), 1)'
          BY <1>1, <4>1, <4>2, <5>1 DEF Holds
        <5> QED
          BY <5>2
      <4>3. CASE Len(executed) > 1
        <5>1. Len(body) = 2 * Len(executed) - 3 + shift
          BY <1>1, <3>1, <4>3 DEF Holds
        <5>2. Len(body') = 2 * Len(executed) - 1 + shift
          BY <1>1, <4>1, <5>1
        <5>3. \A n \in 1..Len(executed) : body'[2 * n - 1 + shift] = executed[n]
          <6>1. \A n \in 1..(Len(executed) - 1) : 2 * n - 1 + shift \in 1..Len(body)
            BY <1>1, <5>1
          <6>2. \A n \in 1..(Len(executed) - 1) : body'[2 * n - 1 + shift] = executed[n]
            BY <1>1, <3>1, <4>1, <6>1 DEF Holds
          <6>3. 2 * Len(executed) - 1 + shift = Len(body) + 2
            BY <1>1, <5>1
          <6>4. body'[2 * Len(executed) - 1 + shift] = executed[Len(executed)]
            BY <1>1, <4>1, <6>3
          <6>5. \A n \in 1..Len(executed) : n \in 1..(Len(executed) - 1) \/ n = Len(executed)
            BY <1>5
          <6> QED
            BY <6>2, <6>4, <6>5
        <5>4. \A n \in 0..Len(executed) :
                2 * n + shift \in DOMAIN body' => body'[2 * n + shift] = Comma
          <6>1. SUFFICES ASSUME NEW n \in 0..Len(executed), 2 * n + shift \in 1..Len(body')
                         PROVE  body'[2 * n + shift] = Comma
            <7>1. DOMAIN body' = 1..Len(body')
              <8>1. body' \in Seq(Executed \cup {Comma})
                BY <1>1, <2>1, <2>2, CommaType
              <8> QED
                BY <8>1
            <7> QED
              BY <7>1
          <6>2. CASE n = Len(executed) - 1
            <7>1. 2 * n + shift = Len(body) + 1
              BY <1>1, <5>1, <6>2
            <7> QED
              BY <4>1, <7>1
          <6>3. CASE n \in 0..(Len(executed) - 2)
            <7>1. 2 * n + shift \in 1..Len(body) /\ n \in 0..(Len(executed) - 1)
              BY <1>1, <5>1, <6>1, <6>3
            <7>2. DOMAIN body = 1..Len(body)
              BY <1>1
            <7> QED
              BY <3>1, <4>1, <7>1, <7>2 DEF Holds
          <6>4. n # Len(executed)
            BY <1>1, <5>2, <6>1
          <6> QED
            BY <1>1, <6>2, <6>3, <6>4
        <5>5. Holds(Len(executed), shift)'
          BY <1>1, <5>2, <5>3, <5>4 DEF Holds
        <5> QED
          BY <5>5
      <4> QED
        BY <1>5, <4>2, <4>3
    <3>3. CASE ~CommaFits
      <4>1. i = 1 /\ j = 1
        BY <1>1, <2>4, <3>3 DEF NeedsComma
      <4>2. Len(executed) = 1
        <5>1. \A n \in 1..Len(executed) :
                executed[n].alias \in Nat \ {0} /\ executed[n].action \in Nat \ {0}
          <6>1. DOMAIN executed = 1..Len(executed)
            BY <1>1
          <6> QED
            BY <6>1, DoneType
        <5>2. ASSUME Len(executed) > 1
              PROVE  Before(executed[1], executed[Len(executed)])
          <6>1. 1 \in DOMAIN executed /\ Len(executed) \in DOMAIN executed
            BY <1>1, <5>2
          <6> QED
            BY <1>1, <5>2, <6>1 DEF CommandInv, InOrder
        <5>3. ASSUME Len(executed) > 1
              PROVE  FALSE
          <6>1. executed[Len(executed)].alias = 1 /\ executed[Len(executed)].action = 1
            BY <1>1, <4>1
          <6>2. executed[1].alias \in Nat \ {0} /\ executed[1].action \in Nat \ {0}
            BY <1>1, <5>1
          <6> QED
            BY <5>2, <5>3, <6>1, <6>2 DEF Before
        <5> QED
          BY <1>5, <5>3
      <4>3. Len(body) = 0
        BY <3>1, <4>2 DEF Holds
      <4>4. Len(body') = 1 /\ body'[1] = Last
        BY <1>1, <2>1, <2>2, <3>3, <4>3 DEF BodyAfterComma
      <4>5. Holds(Len(executed), 0)'
        <5>1. DOMAIN body' = 1..Len(body')
          <6>1. body' \in Seq(Executed \cup {Comma})
            BY <1>1, <2>1, <2>2, CommaType
          <6> QED
            BY <6>1
        <5> QED
          BY <1>1, <4>2, <4>4, <5>1 DEF Holds
      <4> QED
        BY <4>5
    <3> QED
      BY <3>2, <3>3
  <2>11. BodyHolds'
    BY <2>1, <2>10 DEF BodyHolds, Holds
  <2> QED
    BY <2>5, <2>6, <2>7, <2>8, <2>9, <2>11 DEF CommandInv
<1> QED
  BY <1>3, <1>4

\* The array is closed, or the command given up.
LEMMA FinishResultsKeepsInv ==
  ASSUME TypeOK, CommandInv, finish_results
  PROVE  CommandInv'
<1>1. /\ UNCHANGED <<msg, i, j, nuls, executed, body, sent>>
      /\ pc = "finish" /\ pc' \in {"run", "wait"}
  BY DEF finish_results
<1>2. IndicesPositive'
  BY <1>1 DEF CommandInv, IndicesPositive
<1>3. CASE pc' = "wait"
  BY <1>1, <1>2, <1>3, GivenUpKeepsInv DEF Busy
<1>4. CASE pc' = "run"
  <2>1. Done' = Done /\ Asked(msg)' = Asked(msg) /\ (Reported' <=> Reported)
    BY <1>1 DEF Done, Asked, IsPair, Reported, Requests
  <2>2. OnlyPairsPassed' /\ LastIsCurrent' /\ NulsSoFar' /\ InOrder' /\ SentSoFar'
    BY <1>1, <1>4 DEF CommandInv, OnlyPairsPassed, LastIsCurrent, NulsSoFar, InOrder, SentSoFar,
       InLoop, InInnerLoop, Busy
  <2>3. DoneIsPassed'
    BY <1>1, <1>4, <2>1 DEF CommandInv, DoneIsPassed
  <2>4. BodyHolds'
    BY <1>1, <1>4, <2>1 DEF CommandInv, BodyHolds, Holds, Busy, InLoop
  <2> QED
    BY <1>2, <2>2, <2>3, <2>4 DEF CommandInv
<1> QED
  BY <1>1, <1>3, <1>4

\* The results are answered, or the command is given up.
LEMMA RunResultsKeepsInv ==
  ASSUME TypeOK, CommandInv, NEW ran \in BOOLEAN, run_results(ran)
  PROVE  CommandInv'
<1>1. /\ UNCHANGED <<msg, i, j, nuls, executed, body>>
      /\ pc = "run" /\ sent = <<>>
  BY DEF run_results, CommandInv, SentSoFar, Busy
<1>2. IndicesPositive'
  BY <1>1 DEF CommandInv, IndicesPositive
<1>3. CASE ~ran
  BY <1>1, <1>2, <1>3, GivenUpKeepsInv DEF Busy, run_results
<1>4. CASE ran
  <2>1. pc' = "state" /\ sent' = <<"results">>
    BY <1>1, <1>4 DEF run_results
  <2>2. Done' = Done /\ Asked(msg)' = Asked(msg)
    BY <1>1 DEF Done, Asked, IsPair
  <2>3. OnlyPairsPassed' /\ LastIsCurrent' /\ NulsSoFar' /\ InOrder' /\ SentSoFar'
    BY <1>1, <2>1 DEF CommandInv, OnlyPairsPassed, LastIsCurrent, NulsSoFar, InOrder, SentSoFar,
       InLoop, InInnerLoop, Busy
  <2>4. DoneIsPassed'
    BY <1>1, <2>1, <2>2 DEF CommandInv, DoneIsPassed
  <2>5. BodyHolds'
    BY <1>1, <2>1 DEF CommandInv, BodyHolds, Holds, Busy, InLoop
  <2> QED
    BY <1>2, <2>3, <2>4, <2>5 DEF CommandInv
<1> QED
  BY <1>3, <1>4

\* The state follows the results.
LEMMA SendStateKeepsInv ==
  ASSUME TypeOK, CommandInv, NEW written \in BOOLEAN, NEW ran \in BOOLEAN,
         prv_send_state(written, ran)
  PROVE  CommandInv'
<1>1. /\ UNCHANGED <<msg, i, j, nuls, executed, body>>
      /\ pc = "state" /\ pc' = "wait" /\ sent = <<"results">>
  BY DEF prv_send_state, CommandInv, SentSoFar
<1>2. sent' \in {<<"results">>, <<"results", "state">>}
  <2>1. sent' = Append(sent, "state") \/ sent' = sent
    BY DEF prv_send_state
  <2>2. Append(<<"results">>, "state") = <<"results", "state">>
    <3> DEFINE s == Append(<<"results">>, "state")
               t == <<"results", "state">>
    <3>1. s \in Seq({"results", "state"}) /\ Len(s) = 2 /\ s[1] = "results" /\ s[2] = "state"
      OBVIOUS
    <3>2. t \in Seq({"results", "state"}) /\ Len(t) = 2 /\ t[1] = "results" /\ t[2] = "state"
      OBVIOUS
    <3>3. \A n \in 1..2 : n = 1 \/ n = 2
      OBVIOUS
    <3> HIDE DEF s, t
    <3>4. s = t
      BY <3>1, <3>2, <3>3, SeqEqual
    <3> QED
      BY <3>4 DEF s, t
  <2> QED
    BY <1>1, <2>1, <2>2
<1>3. Done' = Done /\ Asked(msg)' = Asked(msg)
  BY <1>1 DEF Done, Asked, IsPair
<1>4. IndicesPositive' /\ OnlyPairsPassed' /\ LastIsCurrent' /\ NulsSoFar' /\ InOrder'
      /\ SentSoFar'
  BY <1>1, <1>2 DEF CommandInv, IndicesPositive, OnlyPairsPassed, LastIsCurrent, NulsSoFar,
     InOrder, SentSoFar, InLoop, InInnerLoop, Busy
<1>5. DoneIsPassed'
  BY <1>1, <1>3 DEF CommandInv, DoneIsPassed
<1>6. BodyHolds'
  BY <1>1 DEF CommandInv, BodyHolds, Holds, Busy, InLoop
<1> QED
  BY <1>4, <1>5, <1>6 DEF CommandInv

\* CommandInv is an invariant of the push task.
LEMMA CommandInvHolds == Spec => [](TypeOK /\ CommandInv)
<1>1. Init => TypeOK /\ CommandInv
  <2> SUFFICES ASSUME Init PROVE TypeOK /\ CommandInv
    OBVIOUS
  <2>1. TypeOK
    BY DEF Init, TypeOK, Pc
  <2>2. Done = {} /\ ~Reported
    BY DEF Init, Done, Reported, Requests
  <2>3. CommandInv
    BY <2>2 DEF Init, CommandInv, IndicesPositive, OnlyPairsPassed, DoneIsPassed, InOrder,
       LastIsCurrent, BodyHolds, SentSoFar, NulsSoFar, Busy, InLoop, InInnerLoop
  <2> QED
    BY <2>1, <2>3
<1>2. TypeOK /\ CommandInv /\ [Next]_vars => (TypeOK /\ CommandInv)'
  <2> SUFFICES ASSUME TypeOK, CommandInv, [Next]_vars PROVE TypeOK' /\ CommandInv'
    OBVIOUS
  <2>1. TypeOK'
    BY TypeStep
  <2>2. CASE UNCHANGED vars
    <3>1. Done' = Done /\ Asked(msg)' = Asked(msg) /\ (Reported' <=> Reported)
      BY <2>2 DEF vars, Done, Asked, IsPair, Reported, Requests
    <3>2. IndicesPositive' /\ OnlyPairsPassed' /\ InOrder' /\ LastIsCurrent' /\ SentSoFar'
          /\ NulsSoFar'
      BY <2>2 DEF vars, CommandInv, IndicesPositive, OnlyPairsPassed, InOrder, LastIsCurrent,
         SentSoFar, NulsSoFar, Actions, ActionBytes, Last
    <3>3. DoneIsPassed'
      BY <2>2, <3>1 DEF vars, CommandInv, DoneIsPassed, Passed
    <3>4. BodyHolds'
      BY <2>2, <3>1 DEF vars, CommandInv, BodyHolds, Holds
    <3> QED
      BY <2>1, <3>2, <3>3, <3>4 DEF CommandInv
  <2>3. CASE Next
    BY <2>1, <2>3, ReceiveKeepsInv, NextAliasKeepsInv, NextActionKeepsInv, ActionHandlerKeepsInv,
       ReportResultKeepsInv, FinishResultsKeepsInv, RunResultsKeepsInv, SendStateKeepsInv
       DEF Next, HandleStep
  <2> QED
    BY <2>1, <2>2, <2>3
<1> QED
  BY <1>1, <1>2, PTL DEF Spec

----------------------------------------------------------------------------
(* What the array holds when the request is run.                           *)

\* The result of an action is never mistaken for a comma of the array.
LEMMA NoResultIsComma ==
  ASSUME TypeOK
  PROVE  \A n \in DOMAIN executed : executed[n] # Comma
<1>1. \A n \in DOMAIN executed : executed[n] \in Executed
  BY DEF TypeOK
<1>2. \A e \in Executed : e.outcome # "comma"
  BY DEF Executed, Outcome
<1>3. Comma.outcome = "comma"
  BY DEF Comma
<1> QED
  BY <1>1, <1>2, <1>3

\* Positions of the array are even or odd: results stand on one kind, commas on
\* the other.
LEMMA EvenOrOdd ==
  ASSUME NEW p \in Nat
  PROVE  \E n \in Nat : p = 2 * n \/ p = 2 * n + 1
<1>1. p = 2 * (p \div 2) \/ p = 2 * (p \div 2) + 1
  OBVIOUS
<1>2. p \div 2 \in Nat
  OBVIOUS
<1> QED
  BY <1>1, <1>2

\* With a comma between any two results, the nth result is the nth action's.
LEMMA ResultsAreExecuted ==
  ASSUME TypeOK, NEW shift \in {0, 1}, Holds(Len(executed), shift)
  PROVE  Results = executed
<1> DEFINE N == Len(executed)
           At(n) == 2 * n - 1 + shift
<1>1. N \in Nat /\ DOMAIN executed = 1..N
  BY DEF TypeOK
<1>2. DOMAIN body = 1..Len(body) /\ Len(body) \in Nat
  BY DEF TypeOK
<1>3. \A n \in 1..N : At(n) \in DOMAIN body /\ body[At(n)] = executed[n]
  <2>1. \A n \in 1..N : At(n) \in 1..(2 * N - 1 + shift)
    BY <1>1
  <2>2. N # 0 => Len(body) = 2 * N - 1 + shift
    BY <1>1 DEF Holds
  <2>3. \A n \in 1..N : body[At(n)] = executed[n]
    BY DEF Holds
  <2>4. \A n \in 1..N : N # 0
    BY <1>1
  <2> HIDE DEF N, At
  <2> QED
    BY <1>2, <2>1, <2>2, <2>3, <2>4
<1>4. \A n \in 1..N : executed[n] # Comma
  BY <1>1, NoResultIsComma
<1>5. ASSUME NEW p \in DOMAIN body, body[p] # Comma
      PROVE  \E n \in 1..N : p = At(n)
  <2>1. p \in 1..Len(body) /\ N # 0 /\ Len(body) = 2 * N - 1 + shift
    BY <1>1, <1>2, <1>5 DEF Holds
  <2>2. \E n \in 0..N : p = 2 * n - 1 + shift \/ p = 2 * n + shift
    <3>1. p \in Nat
      BY <1>2, <2>1
    <3>2. PICK n \in Nat : p = 2 * n \/ p = 2 * n + 1
      BY <3>1, EvenOrOdd
    <3>3. CASE shift = 0 /\ p = 2 * n
      BY <1>1, <2>1, <3>3
    <3>4. CASE shift = 0 /\ p = 2 * n + 1
      <4>1. n + 1 \in 0..N /\ p = 2 * (n + 1) - 1 + shift
        BY <1>1, <2>1, <3>4
      <4> QED
        BY <4>1
    <3>5. CASE shift = 1 /\ p = 2 * n
      BY <1>1, <2>1, <3>5
    <3>6. CASE shift = 1 /\ p = 2 * n + 1
      BY <1>1, <2>1, <3>6
    <3> QED
      BY <3>2, <3>3, <3>4, <3>5, <3>6
  <2>3. PICK n \in 0..N : p = 2 * n - 1 + shift \/ p = 2 * n + shift
    BY <2>2
  <2>4. p # 2 * n + shift
    BY <1>5, <2>3 DEF Holds
  <2>5. p = At(n)
    BY <2>3, <2>4
  <2>6. CASE n = 0
    <3>1. p = 0 \/ p = -1
      BY <2>5, <2>6
    <3> QED
      BY <2>1, <3>1
  <2> QED
    BY <1>1, <2>3, <2>5, <2>6
<1>6. ResultPositions = {At(n) : n \in 1..N}
  BY <1>3, <1>4, <1>5 DEF ResultPositions
<1>7. ASSUME NEW k \in 0..N
      PROVE  Cardinality({At(n) : n \in 1..k}) = k
  <2> DEFINE f == [n \in 1..k |-> At(n)]
             T == {At(n) : n \in 1..k}
  <2>1. f \in Bijection(1..k, T)
    <3>1. f \in [1..k -> T]
      OBVIOUS
    <3>2. \A m, n \in 1..k : f[m] = f[n] => m = n
      BY <1>1
    <3>3. \A t \in T : \E n \in 1..k : f[n] = t
      OBVIOUS
    <3> HIDE DEF f, T
    <3> QED
      BY <3>1, <3>2, <3>3 DEF Bijection, Injection, Surjection, IsInjective
  <2>2. IsFiniteSet(1..k) /\ Cardinality(1..k) = k
    BY <1>1, FS_Interval
  <2>3. ExistsBijection(1..k, T)
    BY <2>1 DEF ExistsBijection
  <2> QED
    BY <2>2, <2>3, FS_Bijection
<1>8. \A k \in 1..N : {q \in ResultPositions : q <= At(k)} = {At(n) : n \in 1..k}
  <2> SUFFICES ASSUME NEW k \in 1..N
               PROVE  \A q : q \in ResultPositions /\ q <= At(k) <=> q \in {At(n) : n \in 1..k}
    OBVIOUS
  <2>1. ASSUME NEW q \in ResultPositions, q <= At(k)
        PROVE  q \in {At(n) : n \in 1..k}
    <3>1. PICK n \in 1..N : q = At(n)
      BY <1>6
    <3>2. n \in 1..k
      BY <1>1, <2>1, <3>1
    <3> QED
      BY <3>1, <3>2
  <2>2. ASSUME NEW n \in 1..k
        PROVE  At(n) \in ResultPositions /\ At(n) <= At(k)
    <3>1. n \in 1..N /\ At(n) <= At(k)
      BY <1>1
    <3> QED
      BY <1>6, <3>1
  <2> QED
    BY <2>1, <2>2
<1>9. \A k \in 1..N : Cardinality({q \in ResultPositions : q <= At(k)}) = k
  BY <1>1, <1>7, <1>8
<1>10. Cardinality(ResultPositions) = N
  <2>1. N \in 0..N
    BY <1>1
  <2> HIDE DEF N, At
  <2> QED
    BY <1>6, <1>7, <2>1
<1>11. ASSUME NEW n \in 1..N
       PROVE  (CHOOSE p \in ResultPositions :
                 Cardinality({q \in ResultPositions : q <= p}) = n) = At(n)
  <2>1. At(n) \in ResultPositions
    BY <1>6
  <2>2. \A p \in ResultPositions :
          Cardinality({q \in ResultPositions : q <= p}) = n => p = At(n)
    BY <1>6, <1>9
  <2> HIDE DEF At
  <2> QED
    BY <1>9, <2>1, <2>2
<1>12. Results = [n \in 1..N |-> executed[n]]
  BY <1>3, <1>10, <1>11 DEF Results
<1> QED
  BY <1>1, <1>12 DEF TypeOK
\* Commas and results alternate, and a result is last.
LEMMA CommasAlternate ==
  ASSUME TypeOK, NEW shift \in {0, 1}, Holds(Len(executed), shift), body # <<>>
  PROVE  /\ \A n \in 1..(Len(body) - 1) : (body[n] = Comma) # (body[n + 1] = Comma)
         /\ body[Len(body)] # Comma
<1> DEFINE N == Len(executed)
<1>1. N \in Nat /\ DOMAIN executed = 1..N
  BY DEF TypeOK
<1>2. DOMAIN body = 1..Len(body) /\ Len(body) \in Nat \ {0}
  BY DEF TypeOK
<1>3. N # 0 /\ Len(body) = 2 * N - 1 + shift
  BY <1>1, <1>2 DEF Holds
<1>4. \A n \in 1..N : executed[n] # Comma
  BY <1>1, NoResultIsComma
<1>5. \A n \in 1..N : body[2 * n - 1 + shift] # Comma
  BY <1>4 DEF Holds
<1>6. \A n \in 0..N : 2 * n + shift \in 1..Len(body) => body[2 * n + shift] = Comma
  BY <1>2 DEF Holds
<1>7. body[Len(body)] # Comma
  BY <1>1, <1>3, <1>5
<1>8. ASSUME NEW p \in 1..(Len(body) - 1)
      PROVE  (body[p] = Comma) # (body[p + 1] = Comma)
  <2>1. PICK n \in Nat : p = 2 * n \/ p = 2 * n + 1
    <3>1. p \in Nat
      BY <1>2
    <3> QED
      BY <3>1, EvenOrOdd
  <2>2. CASE shift = 0 /\ p = 2 * n
    <3>1. n \in 0..N /\ n + 1 \in 1..N /\ p + 1 = 2 * (n + 1) - 1 + shift
          /\ p = 2 * n + shift
      BY <1>1, <1>2, <1>3, <2>2
    <3>2. body[p] = Comma /\ body[p + 1] # Comma
      BY <1>2, <1>5, <1>6, <3>1
    <3> QED
      BY <3>2
  <2>3. CASE shift = 0 /\ p = 2 * n + 1
    <3>1. n + 1 \in 1..N /\ n + 1 \in 0..N /\ p = 2 * (n + 1) - 1 + shift
          /\ p + 1 = 2 * (n + 1) + shift /\ p + 1 \in 1..Len(body)
      BY <1>1, <1>2, <1>3, <2>3
    <3>2. body[p] # Comma /\ body[p + 1] = Comma
      BY <1>5, <1>6, <3>1
    <3> QED
      BY <3>2
  <2>4. CASE shift = 1 /\ p = 2 * n
    <3>1. n \in 1..N /\ n \in 0..N /\ p = 2 * n - 1 + shift
          /\ p + 1 = 2 * n + shift /\ p + 1 \in 1..Len(body)
      BY <1>1, <1>2, <1>3, <2>4
    <3>2. body[p] # Comma /\ body[p + 1] = Comma
      BY <1>5, <1>6, <3>1
    <3> QED
      BY <3>2
  <2>5. CASE shift = 1 /\ p = 2 * n + 1
    <3>1. n \in 0..N /\ n + 1 \in 1..N /\ p + 1 = 2 * (n + 1) - 1 + shift
          /\ p = 2 * n + shift
      BY <1>1, <1>2, <1>3, <2>5
    <3>2. body[p] = Comma /\ body[p + 1] # Comma
      BY <1>2, <1>5, <1>6, <3>1
    <3> QED
      BY <3>2
  <2> QED
    BY <2>1, <2>2, <2>3, <2>4, <2>5
<1> QED
  BY <1>7, <1>8

----------------------------------------------------------------------------
(* The theorems.                                                           *)

\* Whatever messages arrive, handle_command keeps its indices, its request
\* buffer and its array in their types; no result is written past the buffer.
THEOREM TypeCorrect == Spec => []TypeOK
  BY CommandInvHolds, PTL

\* get_key_and_value_at_index always parses the text that arrived: every NUL
\* that handle_command wrote into it is taken back first.
THEOREM MessageIsIntact == Spec => []ParsesIntactMessage
<1>1. CommandInv => ParsesIntactMessage
  BY DEF CommandInv, NulsSoFar, ParsesIntactMessage
<1> QED
  BY <1>1, CommandInvHolds, PTL

\* The action handler is called for the command's actions alone, in their order
\* and each once, and for all of them when the loops of handle_command end.
THEOREM ActionsRunInOrder == Spec => []ExecutesInOrder
<1>1. CommandInv => ExecutesInOrder
  <2> SUFFICES ASSUME CommandInv PROVE ExecutesInOrder
    OBVIOUS
  <2>1. \A m, n \in DOMAIN executed : m < n => Before(executed[m], executed[n])
    BY DEF CommandInv, InOrder
  <2>2. Done \subseteq Asked(msg) /\ (pc \in {"run", "state"} => Done = Asked(msg))
    BY DEF CommandInv, DoneIsPassed
  <2> QED
    BY <2>1, <2>2 DEF ExecutesInOrder, Done
<1> QED
  BY <1>1, CommandInvHolds, PTL

\* The request with the results holds exactly the executed actions, each with
\* its own outcome, although appends that failed for want of room are ignored
\* one by one.
THEOREM ResultsAreComplete == Spec => []ReportsWhatRan
<1>1. TypeOK /\ CommandInv => ReportsWhatRan
  <2> SUFFICES ASSUME TypeOK, CommandInv, pc \in {"run", "state"} PROVE Results = executed
    BY DEF ReportsWhatRan
  <2>1. PICK shift \in {0, 1} : Holds(Len(executed), shift)
    BY DEF CommandInv, BodyHolds, Busy
  <2> QED
    BY <2>1, ResultsAreExecuted
<1> QED
  BY <1>1, CommandInvHolds, PTL

\* A comma that did not fit never lets two results of handle_command run into
\* each other, nor does one end the array.
THEOREM CommasBetweenResults == Spec => []CommasSeparate
<1>1. TypeOK /\ CommandInv => CommasSeparate
  <2> SUFFICES ASSUME TypeOK, CommandInv, pc \in {"run", "state"}, body # <<>>
               PROVE  /\ \A n \in 1..(Len(body) - 1) :
                           (body[n] = Comma) # (body[n + 1] = Comma)
                      /\ body[Len(body)] # Comma
    BY DEF CommasSeparate
  <2>1. PICK shift \in {0, 1} : Holds(Len(executed), shift)
    BY DEF CommandInv, BodyHolds, Busy
  <2> QED
    BY <2>1, CommasAlternate
<1> QED
  BY <1>1, CommandInvHolds, PTL

\* prv_send_state of the push task comes after an answered request with the
\* results of every action of the command.
THEOREM StateFollowsResults == Spec => []StateAfterResults
<1>1. TypeOK /\ CommandInv => StateAfterResults
  <2> SUFFICES ASSUME TypeOK, CommandInv, "state" \in Requests PROVE StateAfterResults
    BY DEF StateAfterResults
  <2>1. sent = <<"results", "state">>
    <3>1. sent # <<>> /\ sent # <<"results">>
      BY DEF Requests
    <3> QED
      BY <3>1 DEF CommandInv, SentSoFar
  <2>2. Reported
    BY <2>1, ReportedOrNot
  <2>3. PICK shift \in {0, 1} : Holds(Len(executed), shift)
    BY <2>2 DEF CommandInv, BodyHolds
  <2>4. Done = Asked(msg)
    BY <2>2 DEF CommandInv, DoneIsPassed
  <2>5. ASSUME NEW n \in DOMAIN executed
        PROVE  \E q \in DOMAIN body : body[q] = executed[n]
    <3>1. n \in 1..Len(executed) /\ Len(executed) \in Nat
      BY DEF TypeOK
    <3>2. Len(executed) # 0
      BY <3>1
    <3>3. Len(body) = 2 * Len(executed) - 1 + shift
      BY <2>3, <3>2 DEF Holds
    <3>4. 2 * n - 1 + shift \in 1..Len(body) /\ body[2 * n - 1 + shift] = executed[n]
      BY <2>3, <3>1, <3>3 DEF Holds
    <3>5. DOMAIN body = 1..Len(body)
      BY DEF TypeOK
    <3> QED
      BY <3>4, <3>5
  <2> QED
    BY <2>1, <2>4, <2>5 DEF StateAfterResults, Done
<1> QED
  BY <1>1, CommandInvHolds, PTL
----------------------------------------------------------------------------
(* handle_command implements CommandService.                               *)

\* What the service sees of a state in which no request was answered, and in
\* which the results were.
LEMMA ServiceView ==
  /\ sent = <<>> => ~Reported /\ "state" \notin Requests
  /\ sent = <<"results">> => Reported /\ "state" \notin Requests
  /\ sent = <<"results", "state">> => Reported /\ "state" \in Requests
  BY DEF Reported, Requests

\* The results are read off the body alone.
LEMMA ResultsStay ==
  ASSUME body' = body
  PROVE  Results' = Results
  BY DEF Results, ResultPositions

\* While a command is walked, its actions that are pending for the service are
\* the ones that the indices have not passed.
LEMMA PendingAhead ==
  ASSUME TypeOK, CommandInv, pc = "handler"
  PROVE  /\ <<i, j>> \in Service!Pending
         /\ \A q \in Service!Pending : q = <<i, j>> \/ Service!Precedes(<<i, j>>, q)
<1>1. Service!Pending = Asked(msg) \ Done
  BY DEF Service!Pending, Done
<1>2. Done = {p \in Asked(msg) : Passed(p)} /\ Asked(msg) \subseteq Nat \X Nat
  BY DoneType DEF CommandInv, DoneIsPassed
<1>3. i \in Nat \ {0} /\ j \in Nat \ {0} /\ msg \in Message
  BY DEF TypeOK, CommandInv, IndicesPositive
<1>4. <<i, j>> \in Asked(msg)
  <2>1. \A x \in 1..i : IsPair(msg.aliases, x)
    BY <1>3 DEF CommandInv, OnlyPairsPassed, InLoop, InInnerLoop
  <2>2. \A y \in 1..j : IsPair(msg.aliases.items[i].actions, y)
    BY <1>3 DEF CommandInv, OnlyPairsPassed, InInnerLoop, Actions
  <2> QED
    BY <1>3, <2>1, <2>2, AskedArePairs
<1>5. <<i, j>> \in Service!Pending
  BY <1>1, <1>2, <1>3, <1>4 DEF Passed
<1>6. ASSUME NEW q \in Asked(msg), ~Passed(q)
      PROVE  q = <<i, j>> \/ Service!Precedes(<<i, j>>, q)
  BY <1>2, <1>3, <1>6 DEF Passed, Service!Precedes
<1> QED
  BY <1>1, <1>2, <1>5, <1>6

\* A step in which handle_command only moves on is invisible to the service,
\* and one in which it gives the command up is GiveUp.
LEMMA InvisibleOrGivenUp ==
  ASSUME TypeOK, CommandInv, sent' = sent, executed' = executed, msg' = msg,
         pc \in Busy, pc' \in Pc, Reported => body' = body
  PROVE  [Service!Next]_(Service!vars)
<1>1. /\ Asked(msg)' = Asked(msg) /\ Requests' = Requests
      /\ (IF "results" \in Requests THEN Results ELSE <<>>)'
           = IF "results" \in Requests THEN Results ELSE <<>>
  <2>1. Asked(msg)' = Asked(msg) /\ Requests' = Requests
    BY DEF Asked, IsPair, Requests
  <2>2. Reported => Results' = Results
    BY ResultsStay
  <2> QED
    BY <2>1, <2>2 DEF Reported
<1>2. CASE pc' \in Busy
  BY <1>1, <1>2 DEF Service!vars, Busy, InLoop
<1>3. CASE pc' \in {"wait", "undefined"}
  <2>1. Service!GiveUp
    BY <1>1, <1>3 DEF Service!GiveUp, Busy, InLoop
  <2> QED
    BY <2>1 DEF Service!Next
<1> QED
  BY <1>2, <1>3 DEF Pc, Busy, InLoop

\* Every step of the push task is a step of the service, or invisible to it.
LEMMA ServiceStep ==
  ASSUME TypeOK, CommandInv, TypeOK', CommandInv', [Next]_vars
  PROVE  [Service!Next]_(Service!vars)
<1>0. pc' \in Pc
  BY DEF TypeOK
<1>1. CASE Receive
  <2>1. PICK m \in Message, skip \in BOOLEAN, started \in BOOLEAN, r \in Room :
          received_callback(m, skip, started, r)
    BY <1>1 DEF Receive
  <2>2. /\ pc = "wait" /\ pc' \in {"wait", "undefined", "alias"}
        /\ msg' = m /\ executed' = <<>> /\ sent' = <<>>
    BY <2>1 DEF received_callback
  <2>3. Asked(msg)' \in SUBSET Service!Pair
    BY <2>2, AskedType DEF Service!Pair
  <2>4. Requests' = {}
    BY <2>2 DEF Requests
  <2>5. Service!Take
    BY <2>2, <2>3, <2>4 DEF Service!Take
  <2> QED
    BY <2>5 DEF Service!Next
<1>2. ASSUME NEW result, next_alias(result)
      PROVE  [Service!Next]_(Service!vars)
  BY <1>0, <1>2, InvisibleOrGivenUp DEF next_alias, Busy, InLoop
<1>3. ASSUME NEW result, next_action(result)
      PROVE  [Service!Next]_(Service!vars)
  BY <1>0, <1>3, InvisibleOrGivenUp DEF next_action, Busy, InLoop
<1>4. ASSUME NEW outcome \in Outcome, action_handler(outcome)
      PROVE  [Service!Next]_(Service!vars)
  <2>1. /\ pc = "handler" /\ pc' = "report" /\ UNCHANGED <<msg, body, sent>>
        /\ executed' = Append(executed, [alias |-> i, action |-> j, outcome |-> outcome])
        /\ sent = <<>>
    BY <1>4 DEF action_handler, CommandInv, SentSoFar, Busy, InLoop
  <2>2. /\ Asked(msg)' = Asked(msg) /\ Requests' = Requests
        /\ "results" \notin Requests
    BY <2>1, ServiceView DEF Asked, IsPair, Requests, Reported
  <2>3. <<i, j>>[1] = i /\ <<i, j>>[2] = j
    OBVIOUS
  <2>4. \E p \in Service!Pending, o \in Outcome :
          /\ \A q \in Service!Pending : q = p \/ Service!Precedes(p, q)
          /\ executed' = Append(executed, [alias |-> p[1], action |-> p[2], outcome |-> o])
    BY <2>1, <2>3, PendingAhead
  <2>5. Service!Execute
    BY <2>1, <2>2, <2>4 DEF Service!Execute
  <2> QED
    BY <2>5 DEF Service!Next
<1>5. ASSUME NEW stackLen \in StackLen, report_result(stackLen)
      PROVE  [Service!Next]_(Service!vars)
  <2>1. pc = "report" /\ ~Reported /\ UNCHANGED <<msg, executed, sent>>
    BY <1>5, ServiceView DEF report_result, CommandInv, SentSoFar, Busy, InLoop
  <2> QED
    BY <1>0, <2>1, InvisibleOrGivenUp DEF Busy, InLoop
<1>6. CASE finish_results
  BY <1>0, <1>6, InvisibleOrGivenUp DEF finish_results, Busy
<1>7. ASSUME NEW ran \in BOOLEAN, run_results(ran)
      PROVE  [Service!Next]_(Service!vars)
  <2>1. pc = "run" /\ UNCHANGED <<msg, executed, body>> /\ sent = <<>>
    BY <1>7 DEF run_results, CommandInv, SentSoFar, Busy
  <2>2. CASE ~ran
    BY <1>0, <1>7, <2>1, <2>2, InvisibleOrGivenUp DEF run_results, Busy
  <2>3. CASE ran
    <3>1. pc' = "state" /\ sent' = <<"results">>
      BY <1>7, <2>1, <2>3 DEF run_results
    <3>2. Asked(msg)' = Asked(msg)
      BY <2>1 DEF Asked, IsPair
    <3>3. /\ "results" \notin Requests /\ "state" \notin Requests
          /\ ("results" \in Requests)' /\ ("state" \notin Requests)'
      BY <2>1, <3>1 DEF Requests
    <3>4. Service!Pending = {}
      BY <2>1 DEF Service!Pending, CommandInv, DoneIsPassed, Done
    <3>5. Results' = executed
      <4>1. PICK shift \in {0, 1} : Holds(Len(executed), shift)
        BY <2>1 DEF CommandInv, BodyHolds, Busy
      <4>2. Results = executed
        BY <4>1, ResultsAreExecuted
      <4> QED
        BY <2>1, <4>2, ResultsStay
    <3>6. Service!Report
      BY <2>1, <3>1, <3>2, <3>3, <3>4, <3>5 DEF Service!Report
    <3> QED
      BY <3>6 DEF Service!Next
  <2> QED
    BY <2>2, <2>3
<1>8. ASSUME NEW written \in BOOLEAN, NEW ran \in BOOLEAN, prv_send_state(written, ran)
      PROVE  [Service!Next]_(Service!vars)
  <2>1. /\ pc = "state" /\ pc' = "wait" /\ UNCHANGED <<msg, executed, body>>
        /\ sent = <<"results">>
    BY <1>8 DEF prv_send_state, CommandInv, SentSoFar
  <2>2. CASE ~(written /\ ran)
    BY <1>0, <1>8, <2>1, <2>2, InvisibleOrGivenUp DEF prv_send_state, Busy
  <2>3. CASE written /\ ran
    <3>1. sent' = Append(sent, "state")
      BY <1>8, <2>3 DEF prv_send_state
    <3>2. Asked(msg)' = Asked(msg) /\ Results' = Results
      BY <2>1, ResultsStay DEF Asked, IsPair
    <3>3. ("results" \in Requests) /\ ("results" \in Requests)' /\ ("state" \in Requests)'
      <4>1. Len(sent') = 2 /\ sent'[1] = "results" /\ sent'[2] = "state"
            /\ DOMAIN sent' = 1..2
        BY <2>1, <3>1
      <4> QED
        BY <2>1, <4>1 DEF Requests
    <3>4. Service!SendState
      BY <2>1, <3>2, <3>3 DEF Service!SendState
    <3> QED
      BY <3>4 DEF Service!Next
  <2> QED
    BY <2>2, <2>3
<1>9. CASE UNCHANGED vars
  BY <1>9 DEF vars, Service!vars, Asked, IsPair, Requests, Results, ResultPositions
<1> QED
  BY <1>1, <1>2, <1>3, <1>4, <1>5, <1>6, <1>7, <1>8, <1>9 DEF Next, HandleStep

\* handle_command, with its loops, its buffer and its early returns, implements
\* the service: a command's actions run once each in order, and the server hears
\* of all of them or of none, and of the state only after that.
THEOREM HandlerImplementsService == Spec => ImplementsService
<1>1. Init => Service!Init
  <2> SUFFICES ASSUME Init PROVE Service!Init
    OBVIOUS
  <2>1. msg \in Message /\ sent = <<>> /\ pc = "wait" /\ executed = <<>>
    BY DEF Init
  <2>2. Asked(msg) \in SUBSET Service!Pair
    BY <2>1, AskedType DEF Service!Pair
  <2>3. Requests = {}
    BY <2>1 DEF Requests
  <2> QED
    BY <2>1, <2>2, <2>3 DEF Service!Init
<1>2. TypeOK /\ CommandInv /\ (TypeOK /\ CommandInv)' /\ [Next]_vars
        => [Service!Next]_(Service!vars)
  BY ServiceStep
<1>3. Spec => Service!Spec
  BY <1>1, <1>2, CommandInvHolds, PTL DEF Spec, Service!Spec
<1> QED
  BY <1>3 DEF ImplementsService
=============================================================================
