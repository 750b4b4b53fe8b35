------------------------------ MODULE PathSteps ------------------------------
(***************************************************************************)
(* A path expression from its typing to its last node.  XQNav's typing     *)
(* adds the steps one by one and works out which properties hold after     *)
(* each; XQDocumentOrder drops the sort around the path when they say it   *)
(* is in document order.  Evaluation is a chain of lazy results: stage 0   *)
(* is the context item, stage i the StepResult of step i, which holds what *)
(* is left of the axis of one node and asks stage i - 1 for another node   *)
(* when that is empty.  The sort, or the removal of duplicates, comes last.*)
(***************************************************************************)
EXTENDS PathProperties, FiniteSets

CONSTANTS
  Documents,  \* the documents, each as PathProperties has it, with a set named
  Steps,      \* the steps: an axis, a test, and whether [1] follows it
  MaxSteps    \* the bound on the steps of a path

ASSUME DocumentsAssumption ==
  \A d \in Documents : IsDocument(d) /\ d.named \subseteq Nodes(d)
ASSUME StepsAssumption ==
  Steps \subseteq [axis : Axes, test : {"any", "name"}, pick : {"all", "first"}]
ASSUME MaxStepsAssumption == MaxSteps \in Nat

VARIABLES
  doc,        \* the document
  context,    \* the context node of the path
  ordered,    \* the ordering mode of the query
  path,       \* the steps added so far
  claims,     \* the properties typing claims after each step
  sort,       \* what is done to the last step's nodes, "typing" before Begin
  rest,       \* what is left of the axis each stage walks
  got,        \* the nodes each stage has returned
  found,      \* the nodes collected by the sort and not returned yet
  asked,      \* the stage whose next() runs
  delivered,  \* the nodes the consumer has received
  ended       \* whether the consumer has been told of the end

typing == <<doc, context, ordered, path, claims, sort>>
running == <<rest, got, found, asked, delivered, ended>>
vars == <<typing, running>>

Idle == -1
Last == Len(path)
Sorter == Last + 1
Stages == 1 .. Last
Elements(s) == {s[i] : i \in DOMAIN s}

-----------------------------------------------------------------------------
(* Typing.                                                                 *)

ClaimedBefore == IF path = <<>> THEN OneContextNode ELSE claims[Last]
ClaimedLast == ClaimedBefore

AddStep(s) ==
  /\ sort = "typing" /\ Last < MaxSteps
  /\ path' = Append(path, s)
  /\ claims' = Append(claims, Combine(ClaimedBefore, AxisProperties(s.axis)))
  /\ UNCHANGED <<doc, context, ordered, sort, running>>

Begin ==
  /\ sort = "typing" /\ path # <<>>
  /\ sort' = IF "DOCORDER" \in ClaimedLast THEN "none"
             ELSE IF ordered THEN "sort" ELSE "unique"
  /\ rest' = [i \in 0 .. Last |-> IF i = 0 THEN {context} ELSE {}]
  /\ got' = [i \in Stages |-> <<>>]
  /\ UNCHANGED <<doc, context, ordered, path, claims, found, asked, delivered, ended>>

-----------------------------------------------------------------------------
(* Evaluation.                                                             *)

Least(S) == CHOOSE x \in S : \A y \in S : x <= y
Greatest(S) == CHOOSE x \in S : \A y \in S : y <= x
NextOf(axis, S) == IF axis \in ForwardAxes THEN Least(S) ELSE Greatest(S)

\* The nodes each step selects from each node: those on its axis that pass its
\* test, or the first of them.
Selection ==
  [d \in Documents |-> [s \in Steps |-> [x \in Nodes(d) |->
    LET onAxis == AxisNodes(d, s.axis, x)
        tested == IF s.test = "any" THEN onAxis ELSE onAxis \cap d.named
    IN IF s.pick = "first" /\ tested # {} THEN {NextOf(s.axis, tested)} ELSE tested]]]

Selected(s, x) == Selection[doc][s][x]

\* The consumer calls next().  Once sorted, the nodes come from the sequence.
Ask ==
  /\ sort # "typing" /\ asked = Idle /\ ~ended
  /\ asked' = IF sort = "sorted" THEN Sorter ELSE Last
  /\ UNCHANGED <<typing, rest, got, found, delivered, ended>>

\* BUG: a stage leaves an axis before it has come to its end.
Pull_Early(i) ==
  /\ asked = i
  /\ asked' = i - 1
  /\ UNCHANGED <<typing, rest, got, found, delivered, ended>>

\* Stage i has used up the axis it was on and asks for another node.
Pull(i) ==
  /\ asked = i /\ rest[i] = {}
  /\ asked' = i - 1
  /\ UNCHANGED <<typing, rest, got, found, delivered, ended>>

\* BUG: UniqueNodesResult returns every node.
Receive_Repeats(x) ==
  IF sort = "sort"
  THEN found' = found \cup {x} /\ asked' = Last /\ UNCHANGED delivered
  ELSE delivered' = Append(delivered, x) /\ asked' = Idle /\ UNCHANGED found

\* The last step has returned x.  UniqueNodesResult asks again for a node it
\* has seen, DocumentOrderResult collects all.
Receive(x) ==
  CASE sort = "none" ->
         /\ delivered' = Append(delivered, x) /\ asked' = Idle
         /\ UNCHANGED found
    [] sort = "unique" /\ x \notin Elements(delivered) ->
         /\ delivered' = Append(delivered, x) /\ asked' = Idle
         /\ UNCHANGED found
    [] sort = "unique" /\ x \in Elements(delivered) ->
         /\ asked' = Last
         /\ UNCHANGED <<found, delivered>>
    [] sort = "sort" ->
         /\ found' = found \cup {x} /\ asked' = Last
         /\ UNCHANGED delivered

\* The node stage i returns becomes the context of the next step.
Return(i) ==
  /\ asked = i /\ rest[i] # {}
  /\ LET x == IF i = 0 THEN context ELSE NextOf(path[i].axis, rest[i])
         left == [rest EXCEPT ![i] = @ \ {x}]
     IN /\ got' = IF i = 0 THEN got ELSE [got EXCEPT ![i] = Append(@, x)]
        /\ IF i < Last
           THEN /\ rest' = [left EXCEPT ![i + 1] = Selected(path[i + 1], x)]
                /\ asked' = i + 1
                /\ UNCHANGED <<found, delivered>>
           ELSE rest' = left /\ Receive(x)
  /\ UNCHANGED <<typing, ended>>

\* BUG: the sort asks its path again after the end.
Exhausted_AsksAgain ==
  /\ asked = 0 /\ rest[0] = {}
  /\ IF sort = "sort" THEN asked' = Last /\ UNCHANGED ended
     ELSE asked' = Idle /\ ended' = TRUE
  /\ UNCHANGED <<typing, rest, got, found, delivered>>

\* There is no further context node: all stages return the end.
Exhausted ==
  /\ asked = 0 /\ rest[0] = {}
  /\ IF sort = "sort"
     THEN sort' = "sorted" /\ asked' = Sorter /\ UNCHANGED ended
     ELSE asked' = Idle /\ ended' = TRUE /\ UNCHANGED sort
  /\ UNCHANGED <<doc, context, ordered, path, claims, rest, got, found, delivered>>

\* DocumentOrderResult hands over to the sorted sequence.
Sorted ==
  /\ sort = "sorted" /\ asked = Sorter
  /\ IF found = {}
     THEN ended' = TRUE /\ UNCHANGED <<found, delivered>>
     ELSE LET x == Least(found)
          IN /\ found' = found \ {x}
             /\ delivered' = Append(delivered, x)
             /\ UNCHANGED ended
  /\ asked' = Idle
  /\ UNCHANGED <<typing, rest, got>>

-----------------------------------------------------------------------------
Init ==
  /\ doc \in Documents /\ context \in Nodes(doc) /\ ordered \in BOOLEAN
  /\ path = <<>> /\ claims = <<>> /\ sort = "typing"
  /\ rest = <<>> /\ got = <<>> /\ found = {}
  /\ asked = Idle /\ delivered = <<>> /\ ended = FALSE

Evaluate ==
  \/ \E i \in Stages : Pull(i)
  \/ \E i \in 0 .. Last : Return(i)
  \/ Exhausted
  \/ Sorted

Next ==
  \/ \E s \in Steps : AddStep(s)
  \/ Begin
  \/ Ask
  \/ Evaluate

\* A call of next() runs until it returns; nothing makes the consumer call.
Spec == Init /\ [][Next]_vars /\ WF_vars(Evaluate)

-----------------------------------------------------------------------------
\* What typing claims after each step holds of the nodes that stage has
\* returned so far (XQNav::combineProperties, XQStep::getAxisProperties).
ClaimsHold ==
  sort # "typing" => \A i \in Stages : HoldAll(claims[i], doc, got[i], context)

\* The nodes the whole path selects, step by step (XPath 2.0, 3.2).
Reached ==
  LET reach[i \in 0 .. Last] ==
        IF i = 0 THEN {context} ELSE UNION {Selected(path[i], x) : x \in reach[i - 1]}
  IN reach[Last]

\* The pipeline, with or without the sort, returns exactly the selected nodes,
\* once and in order, and answers each call.
Promised ==
  INSTANCE PathResult WITH
    Node <- UNION {Nodes(d) : d \in Documents},
    begun <- sort # "typing",
    todo <- IF sort = "typing" THEN {} ELSE Reached \ Elements(delivered),
    waiting <- asked # Idle
Refines == Promised!Spec
=============================================================================
