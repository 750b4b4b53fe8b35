---------------------------- MODULE QueryPathTree ----------------------------
(***************************************************************************)
(* The paths a query navigates in a document, as the optimizer collects    *)
(* them for document projection (QueryPathTreeGenerator, QueryPathNode).   *)
(* A QueryPathNode is the path that leads to it: appendChild() merges      *)
(* children that are equal, so that the path names the node, and a tree is *)
(* a set of paths.  The root is the document.                              *)
(***************************************************************************)
EXTENDS Integers, SequencesExt

CONSTANT Wildcard     \* the wildcard of a node test's type, namespace or name

AnyNode == [type |-> Wildcard, uri |-> Wildcard, name |-> Wildcard]
Root == <<>>

TypeOf(p) == IF p = Root THEN "ROOT" ELSE Last(p).type
TestOf(p) == IF p = Root THEN [type |-> "document", uri |-> Wildcard, name |-> Wildcard] ELSE Last(p).test
Child(p, type, test) == Append(p, [type |-> type, test |-> test])

-------------------------------------------------------------------------------
(* Node tests *)

\* NodeTest::filterNode: what has no name passes no name but the wildcard.
FilterNode(test, node) == \A field \in {"type", "uri", "name"} : test[field] \in {Wildcard, node[field]}

\* NodeTest::isSubsetOf
IsSubsetOf(a, b) == \A field \in {"type", "uri", "name"} : b[field] \in {Wildcard, a[field]}

\* The names a test lets through, whatever the type.
NameMatches(test, node) == \A field \in {"uri", "name"} : test[field] \in {Wildcard, node[field]}
NamesOverlap(a, b) == \A field \in {"uri", "name"} : a[field] = Wildcard \/ b[field] \in {Wildcard, a[field]}

IsWildcardNodeType(test) == test.type # "element"

-------------------------------------------------------------------------------
(* One step from one path node: the nodes it may lead to, which are in the *)
(* tree from then on.                                                      *)

BuiltInStep(p, type, test) ==
  IF TypeOf(p) \in {"CHILD", "DESCENDANT", "ROOT"} THEN {Child(p, type, test)} ELSE {}

SelfStep(p, test) ==
  CASE IsSubsetOf(TestOf(p), test) -> {p}
    [] ~IsSubsetOf(TestOf(p), test) /\ IsSubsetOf(test, TestOf(p)) /\ p # Root ->
         {Child(Front(p), TypeOf(p), test)}
    [] OTHER -> {}

ParentStep(p, test) ==
  CASE p = Root -> {}
    [] TypeOf(p) \in {"ATTRIBUTE", "CHILD"} -> SelfStep(Front(p), test)
    [] TypeOf(p) = "DESCENDANT" ->
         {q \in {Front(p)} : IsSubsetOf(TestOf(q), test)} \union {Child(Front(p), "DESCENDANT", test)}
    [] OTHER -> {}

AncestorStep(p, test) == UNION {ParentStep(SubSeq(p, 1, i), test) : i \in 1..Len(p)}

SiblingStep(p, test) ==
  IF TypeOf(p) \in {"CHILD", "DESCENDANT"} THEN {Child(Front(p), TypeOf(p), test)} ELSE {}

FollowingStep(test) == {Child(Root, "DESCENDANT", test)}
PrecedingStep(test) == {p \in {Root} : IsSubsetOf(TestOf(p), test)} \union FollowingStep(test)

Axes == {"child", "attribute", "descendant", "descendant-or-self", "self", "parent",
         "ancestor", "ancestor-or-self", "preceding-sibling", "following-sibling",
         "following", "preceding"}

Step(p, axis, test) ==
  CASE axis = "child" -> BuiltInStep(p, "CHILD", test)
    [] axis = "attribute" -> BuiltInStep(p, "ATTRIBUTE", test)
    [] axis = "descendant" -> BuiltInStep(p, "DESCENDANT", test)
    [] axis = "descendant-or-self" -> SelfStep(p, test) \union BuiltInStep(p, "DESCENDANT", test)
    [] axis = "self" -> SelfStep(p, test)
    [] axis = "parent" -> ParentStep(p, test)
    [] axis = "ancestor" -> AncestorStep(p, test)
    [] axis = "ancestor-or-self" -> SelfStep(p, test) \union AncestorStep(p, test)
    [] axis \in {"preceding-sibling", "following-sibling"} -> SiblingStep(p, test)
    [] axis = "following" -> FollowingStep(test)
    [] axis = "preceding" -> PrecedingStep(test)

\* Where the code does not follow the nodes of p through the test: a node that
\* passes both tests, but the tests are not nested as the step needs it.
Overlap(a, b) == NamesOverlap(a, b) /\ (a.type = Wildcard \/ b.type \in {Wildcard, a.type})
SelfOverlooked(p, test) ==
  Overlap(TestOf(p), test) /\ ~IsSubsetOf(TestOf(p), test) /\ ~IsSubsetOf(test, TestOf(p))
ParentOverlooked(p, test) ==
  p # Root /\ LET parent == Front(p)
              IN  IF TypeOf(p) = "DESCENDANT"
                  THEN Overlap(TestOf(parent), test) /\ ~IsSubsetOf(TestOf(parent), test)
                  ELSE SelfOverlooked(parent, test)

Overlooked(p, axis, test) ==
  \/ axis \in {"self", "descendant-or-self", "ancestor-or-self"} /\ SelfOverlooked(p, test)
  \/ axis = "parent" /\ ParentOverlooked(p, test)
  \/ axis \in {"ancestor", "ancestor-or-self"} /\ \E i \in 1..Len(p) : ParentOverlooked(SubSeq(p, 1, i), test)

\* Where the step depends on who the parent is, and the code takes any.
Displaced(p, axis) ==
  axis \in {"parent", "preceding-sibling", "following-sibling"} /\ TypeOf(p) = "DESCENDANT"

\* Mutant: results do without attributes.
MarkSubtree_Value(p, use) ==
  IF TypeOf(p) \in {"ATTRIBUTE", "DESCENDANT_ATTR"} \/ use = "count" THEN {} ELSE {Child(p, "DESCENDANT", AnyNode)}

\* What the use of a path's result asks of the nodes' content: nothing to
\* count them, the text below them for values, all of it for results.
MarkSubtree(p, use) ==
  IF TypeOf(p) \in {"ATTRIBUTE", "DESCENDANT_ATTR"} THEN {}
  ELSE {Child(p, type, AnyNode) :
          type \in CASE use = "count" -> {}
                     [] use = "value" -> {"DESCENDANT"}
                     [] use = "result" -> {"DESCENDANT", "DESCENDANT_ATTR"}}

ChildrenIn(tree, p) == {q \in tree : q # Root /\ Front(q) = p}
=============================================================================
