----------------------------- MODULE PathResult -----------------------------
(***************************************************************************)
(* What a path expression promises its consumer: each node it selects is   *)
(* returned once, in document order unless the query asked for no order,   *)
(* the end is reported when all are returned and not before, and every     *)
(* request is answered.  Nothing is said of steps.                         *)
(***************************************************************************)
EXTENDS Integers, Sequences

CONSTANT Node        \* the nodes that can be selected, numbers in document order

VARIABLES
  begun,      \* whether the path has been given its steps
  ordered,    \* whether the nodes are returned in document order
  todo,       \* the selected nodes that have not been returned
  delivered,  \* the nodes returned so far
  waiting,    \* whether the consumer waits for an answer
  ended       \* whether the end has been reported

resultvars == <<begun, ordered, todo, delivered, waiting, ended>>

Init ==
  /\ begun = FALSE /\ ordered \in BOOLEAN
  /\ todo = {} /\ delivered = <<>>
  /\ waiting = FALSE /\ ended = FALSE

Begin ==
  /\ ~begun
  /\ begun' = TRUE
  /\ todo' \in SUBSET Node
  /\ UNCHANGED <<ordered, delivered, waiting, ended>>

Request ==
  /\ begun /\ ~waiting /\ ~ended
  /\ waiting' = TRUE
  /\ UNCHANGED <<begun, ordered, todo, delivered, ended>>

Deliver(x) ==
  /\ waiting /\ x \in todo
  /\ ordered => \A y \in todo : x <= y
  /\ todo' = todo \ {x}
  /\ delivered' = Append(delivered, x)
  /\ waiting' = FALSE
  /\ UNCHANGED <<begun, ordered, ended>>

ReportEnd ==
  /\ waiting /\ todo = {}
  /\ waiting' = FALSE /\ ended' = TRUE
  /\ UNCHANGED <<begun, ordered, todo, delivered>>

Answer == (\E x \in todo : Deliver(x)) \/ ReportEnd

Next == Begin \/ Request \/ Answer

Spec == Init /\ [][Next]_resultvars /\ WF_resultvars(Answer)
=============================================================================
