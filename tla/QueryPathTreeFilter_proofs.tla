---------------------- MODULE QueryPathTreeFilter_proofs ----------------------
(***************************************************************************)
(* Proofs that document projection builds in place what it lets through,   *)
(* for any queries, any tests and any documents.                           *)
(*                                                                         *)
(* Two facts about queries are at the bottom of it.  A path node that asks *)
(* for all attributes has a sister that asks for all nodes, so that an     *)
(* element that was left out is never sent late for an attribute; and an   *)
(* element that was left out expects only what its parent expected already *)
(* (Inherited), so that checkAncestors() decides the same for all of them: *)
(* either the outermost one is sent with the first node inside it, or it   *)
(* is never sent because of a node inside it.                              *)
(***************************************************************************)
EXTENDS QueryPathTreeFilter, TLAPS, SequenceTheorems, FiniteSetTheorems, WellFoundedInduction

-------------------------------------------------------------------------------
(***************************************************************************)
(* The inductive invariant                                                 *)
(***************************************************************************)
Tests == {AnyNode} \union {s.test : s \in UNION {c.steps : c \in Cases}}
Followed == [type : {"CHILD", "DESCENDANT", "ATTRIBUTE"}, test : Tests]
Marked == [type : {"CHILD", "DESCENDANT", "ATTRIBUTE", "DESCENDANT_ATTR"}, test : Tests]

\* Who expects all attributes expects all nodes.
AsksForNodes(ps) ==
  (\E p \in ps : TypeOf(p) = "DESCENDANT_ATTR") => \E p \in ps : TypeOf(p) = "DESCENDANT" /\ TestOf(p) = AnyNode

QueryInv ==
  /\ case \in Cases
  /\ context \subseteq Seq(Followed)
  /\ tree \subseteq Seq(Marked)
  /\ \A p \in Seq(Marked) : AsksForNodes(ChildrenIn(tree, p))

Noted == [type : {"document", "element", "attribute", "namespace"} \union UNION {c.leaves : c \in Cases},
          uri : {None} \union UNION {{n.uri : n \in c.names \union c.attributes} : c \in Cases},
          name : {None} \union UNION {{n.name : n \in c.names \union c.attributes} : c \in Cases},
          parent : Nat]

Entry == [node : Nat, matched : BOOLEAN, children : SUBSET Seq(Marked)]

Above == AncestorsIn(Whole)

Shape ==
  /\ source \in Seq(Noted) /\ stack_ \in Seq(Entry)
  /\ output \in Seq([node : Nat, parent : Nat])
  /\ unforeseen \in BOOLEAN
  /\ source # <<>>
  /\ \A n \in 1..Len(source) : source[n].parent < n
  /\ stack_ # <<>> /\ stack_[1] = Outside
  /\ pc = "parse" => Len(stack_) >= 2
  /\ Len(stack_) >= 2 => stack_[2].node = 1 /\ stack_[2].matched

\* The stack holds a line of ancestors, and what came after the start of an open
\* element is inside it.
Open(above) ==
  /\ \A i \in 2..Len(stack_) : stack_[i].node \in 1..Len(source)
  /\ \A i \in 2..Len(stack_) : above[stack_[i].node] = {stack_[k].node : k \in 2..i - 1}
  /\ \A i \in 2..Len(stack_), n \in 1..Len(source) :
       n > stack_[i].node => stack_[i].node \in above[n]
  /\ \A i, j \in 1..Len(stack_) : i < j => stack_[i].node < stack_[j].node

\* The flags say what has been built.
Flags ==
  /\ BuiltNodes \subseteq 1..Len(source)
  /\ \A i \in 2..Len(stack_) : stack_[i].matched <=> stack_[i].node \in BuiltNodes

LeftOut(i, j) == \A k \in i..j : ~stack_[k].matched

\* An element that is left out expects what its parent expects of descendants, and
\* no attributes.
Expectations ==
  /\ \A i \in 1..Len(stack_) : AsksForNodes(stack_[i].children)
  /\ \A i \in 2..Len(stack_) : ~stack_[i].matched =>
       /\ stack_[i].children = Inherited(stack_[i - 1])
       /\ OfType(stack_[i], {"DESCENDANT_ATTR"}) = {}
  /\ \A i, j \in 2..Len(stack_) : i < j /\ LeftOut(i, j) => stack_[i].children = stack_[j].children

\* An element that is left out, and will be sent before the next node that is sent
\* inside it, has none inside it yet.
NotLate ==
  \A i \in 2..Len(stack_) :
    stack_[i - 1].matched /\ ~stack_[i].matched /\ ExpectsOneOf(stack_[i - 1], stack_[i]) =>
      \A n \in BuiltNodes : n < stack_[i].node

DocumentInv ==
  /\ Shape
  /\ Open(Above)
  /\ Flags
  /\ Expectations
  /\ WellNested
  /\ ~unforeseen => NotLate /\ InDocumentOrder /\ InNearestAncestor

ProjectionInv ==
  /\ QueryInv
  /\ pc \in {"query", "parse", "built"}
  /\ IF pc = "query" THEN source = <<>> /\ stack_ = <<>> /\ output = <<>> /\ ~unforeseen ELSE DocumentInv

-------------------------------------------------------------------------------
(***************************************************************************)
(* Path nodes                                                              *)
(***************************************************************************)
LEMMA FollowedMarked == Followed \subseteq Marked /\ Seq(Followed) \subseteq Seq(Marked)
<1>1. Followed \subseteq Marked
  BY DEF Followed, Marked
<1> QED
  BY <1>1

LEMMA FrontLast ==
  ASSUME NEW S, NEW p \in Seq(S), p # Root
  PROVE  Front(p) \in Seq(S) /\ Last(p) \in S
<1>1. Len(p) \in Nat /\ Len(p) # 0 /\ DOMAIN p = 1..Len(p)
  BY DEF Root
<1>2. Len(p) - 1 \in 0..Len(p)
  BY <1>1
<1> QED
  BY <1>1, <1>2 DEF Front, Last

LEMMA ChildIs ==
  ASSUME NEW p \in Seq(Marked), NEW type, NEW test
  PROVE  /\ Child(p, type, test) # Root
         /\ Front(Child(p, type, test)) = p
         /\ TypeOf(Child(p, type, test)) = type /\ TestOf(Child(p, type, test)) = test
<1> DEFINE e == [type |-> type, test |-> test]
<1>1. Len(Append(p, e)) = Len(p) + 1 /\ Append(p, e)[Len(p) + 1] = e /\ Len(p) \in Nat
  OBVIOUS
<1>2. Append(p, e) # Root
  BY <1>1 DEF Root
<1>3. SubSeq(Append(p, e), 1, Len(p)) = p
  <2>1. p \in Seq(Marked \union {e}) /\ e \in Marked \union {e}
    OBVIOUS
  <2> HIDE DEF e
  <2>2. Append(p, e) \in Seq(Marked \union {e})
    BY <2>1
  <2>3. Len(p) \in 0..Len(Append(p, e))
    BY <1>1
  <2>4. Len(SubSeq(Append(p, e), 1, Len(p))) = Len(p)
    BY <2>2, <2>3, <1>1
  <2>5. \A i \in 1..Len(p) : SubSeq(Append(p, e), 1, Len(p))[i] = p[i]
    BY <2>2, <2>3, <1>1
  <2>6. SubSeq(Append(p, e), 1, Len(p)) \in Seq(Marked \union {e})
    BY <2>2, <2>3, <1>1
  <2> QED
    BY <2>1, <2>4, <2>5, <2>6, SeqEqual
<1>4. Front(Append(p, e)) = p
  <2>1. Len(Append(p, e)) - 1 = Len(p)
    BY <1>1
  <2> QED
    BY <1>3, <2>1 DEF Front
<1>5. Last(Append(p, e)) = e
  BY <1>1 DEF Last
<1> QED
  BY <1>2, <1>4, <1>5 DEF Child, TypeOf, TestOf

LEMMA ChildIn ==
  ASSUME NEW p \in Seq(Followed), NEW test \in Tests, NEW type \in {"CHILD", "DESCENDANT", "ATTRIBUTE"}
  PROVE  Child(p, type, test) \in Seq(Followed)
<1>1. [type |-> type, test |-> test] \in Followed
  BY DEF Followed
<1> QED
  BY <1>1 DEF Child

LEMMA TypeIn ==
  ASSUME NEW p \in Seq(Followed)
  PROVE  TypeOf(p) \in {"ROOT", "CHILD", "DESCENDANT", "ATTRIBUTE"} /\ (p # Root => TypeOf(p) # "ROOT")
<1>1. CASE p = Root
  BY <1>1 DEF TypeOf
<1>2. CASE p # Root
  <2>1. Last(p) \in Followed
    BY <1>2, FrontLast
  <2> QED
    BY <1>2, <2>1 DEF TypeOf, Followed
<1> QED
  BY <1>1, <1>2

LEMMA SelfStepIn ==
  ASSUME NEW p \in Seq(Followed), NEW test \in Tests
  PROVE  SelfStep(p, test) \subseteq Seq(Followed)
<1>1. CASE p = Root
  BY <1>1 DEF SelfStep
<1>2. CASE p # Root
  <2>1. Front(p) \in Seq(Followed)
    BY <1>2, FrontLast
  <2>2. TypeOf(p) \in {"CHILD", "DESCENDANT", "ATTRIBUTE"}
    BY <1>2, TypeIn
  <2>3. Child(Front(p), TypeOf(p), test) \in Seq(Followed)
    BY <2>1, <2>2, ChildIn
  <2> QED
    BY <2>3 DEF SelfStep
<1> QED
  BY <1>1, <1>2

LEMMA ParentStepIn ==
  ASSUME NEW p \in Seq(Followed), NEW test \in Tests
  PROVE  ParentStep(p, test) \subseteq Seq(Followed)
<1>1. CASE p = Root
  BY <1>1 DEF ParentStep, TypeOf
<1>2. CASE p # Root
  <2>1. Front(p) \in Seq(Followed)
    BY <1>2, FrontLast
  <2>2. SelfStep(Front(p), test) \subseteq Seq(Followed)
    BY <2>1, SelfStepIn
  <2>3. Child(Front(p), "DESCENDANT", test) \in Seq(Followed)
    BY <2>1, ChildIn
  <2>4. {q \in {Front(p)} : IsSubsetOf(TestOf(q), test)} \subseteq Seq(Followed)
    BY <2>1
  <2> QED
    BY <1>2, <2>2, <2>3, <2>4 DEF ParentStep
<1> QED
  BY <1>1, <1>2

LEMMA StepIn ==
  ASSUME NEW p \in Seq(Followed), NEW axis \in Axes, NEW test \in Tests
  PROVE  Step(p, axis, test) \subseteq Seq(Followed)
<1>1. \A type \in {"CHILD", "DESCENDANT", "ATTRIBUTE"} : BuiltInStep(p, type, test) \subseteq Seq(Followed)
  BY ChildIn DEF BuiltInStep
<1>2. SelfStep(p, test) \subseteq Seq(Followed) /\ ParentStep(p, test) \subseteq Seq(Followed)
  BY SelfStepIn, ParentStepIn
<1>3. AncestorStep(p, test) \subseteq Seq(Followed)
  <2>1. ASSUME NEW i \in 1..Len(p) PROVE ParentStep(SubSeq(p, 1, i), test) \subseteq Seq(Followed)
    <3>1. SubSeq(p, 1, i) \in Seq(Followed)
      OBVIOUS
    <3> QED
      BY <3>1, ParentStepIn
  <2> QED
    BY <2>1 DEF AncestorStep
<1>4. SiblingStep(p, test) \subseteq Seq(Followed)
  <2>1. CASE TypeOf(p) \in {"CHILD", "DESCENDANT"}
    <3>1. p # Root
      BY <2>1 DEF TypeOf
    <3>2. Child(Front(p), TypeOf(p), test) \in Seq(Followed)
      BY <2>1, <3>1, FrontLast, ChildIn
    <3> QED
      BY <2>1, <3>2 DEF SiblingStep
  <2>2. CASE TypeOf(p) \notin {"CHILD", "DESCENDANT"}
    BY <2>2 DEF SiblingStep
  <2> QED
    BY <2>1, <2>2
<1>5. Root \in Seq(Followed)
  BY DEF Root
<1>6. FollowingStep(test) \subseteq Seq(Followed) /\ PrecedingStep(test) \subseteq Seq(Followed)
  BY <1>5, ChildIn DEF FollowingStep, PrecedingStep
<1> QED
  BY <1>1, <1>2, <1>3, <1>4, <1>6 DEF Step, Axes

-------------------------------------------------------------------------------
(***************************************************************************)
(* Collecting paths                                                        *)
(***************************************************************************)
\* Nodes that steps lead to ask for no attributes of descendants.
LEMMA FollowedAsks ==
  ASSUME NEW t, NEW new, new \subseteq Seq(Followed),
         \A p \in Seq(Marked) : AsksForNodes(ChildrenIn(t, p))
  PROVE  \A p \in Seq(Marked) : AsksForNodes(ChildrenIn(t \union new, p))
<1> SUFFICES ASSUME NEW p \in Seq(Marked), NEW q \in ChildrenIn(t \union new, p), TypeOf(q) = "DESCENDANT_ATTR"
             PROVE  \E r \in ChildrenIn(t \union new, p) : TypeOf(r) = "DESCENDANT" /\ TestOf(r) = AnyNode
  BY DEF AsksForNodes
<1>1. q \notin new
  BY TypeIn
<1>2. q \in ChildrenIn(t, p)
  BY <1>1 DEF ChildrenIn
<1>3. PICK r \in ChildrenIn(t, p) : TypeOf(r) = "DESCENDANT" /\ TestOf(r) = AnyNode
  BY <1>2 DEF AsksForNodes
<1>4. r \in ChildrenIn(t \union new, p)
  BY <1>3 DEF ChildrenIn
<1> QED
  BY <1>3, <1>4

LEMMA OptimizeStepKeeps ==
  ASSUME QueryInv, NEW s \in case.steps, OptimizeStep(s)
  PROVE  QueryInv'
<1>1. s.axis \in Axes /\ s.test \in Tests
  BY CasesAssumption DEF QueryInv, Tests
<1>2. \A p \in context : Step(p, s.axis, s.test) \subseteq Seq(Followed)
  BY <1>1, StepIn DEF QueryInv
<1>3. context' \subseteq Seq(Followed)
  BY <1>2 DEF OptimizeStep
<1>4. tree' = tree \union context' /\ case' = case
  BY DEF OptimizeStep
<1>5. \A p \in Seq(Marked) : AsksForNodes(ChildrenIn(tree \union context', p))
  BY <1>3, FollowedAsks DEF QueryInv
<1> QED
  BY <1>3, <1>4, <1>5, FollowedMarked DEF QueryInv

LEMMA UseResultKeeps ==
  ASSUME QueryInv, NEW use \in case.uses, UseResult(use)
  PROVE  QueryInv'
<1> DEFINE new == UNION {MarkSubtree(p, use) : p \in context}
<1>1. use \in {"count", "value", "result"}
  BY CasesAssumption DEF QueryInv
<1>2. case' = case /\ context' = {Root} /\ tree' = tree \union new
  BY DEF UseResult
<1>3. \A p \in context : p \in Seq(Marked)
  BY FollowedMarked DEF QueryInv
<1>4. AnyNode \in Tests
  BY DEF Tests
<1>5. \A q \in new : \E p \in context : \E type \in {"DESCENDANT", "DESCENDANT_ATTR"} : q = Child(p, type, AnyNode)
  BY <1>1 DEF MarkSubtree
<1>6. ASSUME NEW p \in context, NEW q \in MarkSubtree(p, use), TypeOf(q) = "DESCENDANT_ATTR"
      PROVE  Child(p, "DESCENDANT", AnyNode) \in MarkSubtree(p, use) /\ Front(q) = p
  <2>1. PICK type \in {"DESCENDANT", "DESCENDANT_ATTR"} : q = Child(p, type, AnyNode)
    BY <1>1, <1>6 DEF MarkSubtree
  <2>2. Front(q) = p
    BY <1>3, <2>1, ChildIs
  <2>3. use = "result" /\ TypeOf(p) \notin {"ATTRIBUTE", "DESCENDANT_ATTR"}
    <3>1. type = "DESCENDANT_ATTR"
      BY <1>3, <1>6, <2>1, ChildIs
    <3>2. TypeOf(p) \notin {"ATTRIBUTE", "DESCENDANT_ATTR"}
      BY <1>6 DEF MarkSubtree
    <3>3. ASSUME use \in {"count", "value"} PROVE FALSE
      <4>1. q = Child(p, "DESCENDANT", AnyNode)
        BY <1>6, <3>2, <3>3 DEF MarkSubtree
      <4> QED
        BY <1>3, <1>6, <4>1, ChildIs
    <3> QED
      BY <1>1, <3>2, <3>3
  <2> QED
    BY <2>2, <2>3 DEF MarkSubtree
<1>7. new \subseteq Seq(Marked)
  <2>1. \A type \in {"DESCENDANT", "DESCENDANT_ATTR"} : [type |-> type, test |-> AnyNode] \in Marked
    BY <1>4 DEF Marked
  <2>2. ASSUME NEW p \in context, NEW type \in {"DESCENDANT", "DESCENDANT_ATTR"}
        PROVE  Child(p, type, AnyNode) \in Seq(Marked)
    BY <1>3, <2>1 DEF Child
  <2> HIDE DEF new
  <2> QED
    BY <1>5, <2>2
<1>8. ASSUME NEW p \in Seq(Marked) PROVE AsksForNodes(ChildrenIn(tree \union new, p))
  <2> SUFFICES ASSUME NEW q \in ChildrenIn(tree \union new, p), TypeOf(q) = "DESCENDANT_ATTR"
               PROVE  \E r \in ChildrenIn(tree \union new, p) : TypeOf(r) = "DESCENDANT" /\ TestOf(r) = AnyNode
    BY DEF AsksForNodes
  <2>1. CASE q \in tree
    <3>1. q \in ChildrenIn(tree, p)
      BY <2>1 DEF ChildrenIn
    <3>2. PICK r \in ChildrenIn(tree, p) : TypeOf(r) = "DESCENDANT" /\ TestOf(r) = AnyNode
      BY <3>1 DEF AsksForNodes, QueryInv
    <3> QED
      BY <3>2 DEF ChildrenIn
  <2>2. CASE q \in new
    <3>1. PICK o \in context : q \in MarkSubtree(o, use)
      BY <2>2
    <3>2. Child(o, "DESCENDANT", AnyNode) \in MarkSubtree(o, use) /\ Front(q) = o
      BY <1>6, <3>1
    <3>3. o = p
      BY <3>2 DEF ChildrenIn
    <3>4. Child(o, "DESCENDANT", AnyNode) \in new
      BY <3>2
    <3>5. /\ Child(o, "DESCENDANT", AnyNode) # Root /\ Front(Child(o, "DESCENDANT", AnyNode)) = o
          /\ TypeOf(Child(o, "DESCENDANT", AnyNode)) = "DESCENDANT"
          /\ TestOf(Child(o, "DESCENDANT", AnyNode)) = AnyNode
      BY <1>3, ChildIs
    <3> HIDE DEF new
    <3> QED
      BY <3>3, <3>4, <3>5 DEF ChildrenIn
  <2> QED
    BY <2>1, <2>2 DEF ChildrenIn
<1>9. Root \in Seq(Followed)
  BY DEF Root
<1> HIDE DEF new
<1> QED
  BY <1>2, <1>7, <1>8, <1>9 DEF QueryInv

-------------------------------------------------------------------------------
(***************************************************************************)
(* Numbers                                                                 *)
(***************************************************************************)
LEMMA SmallestExists ==
  ASSUME NEW S, S \subseteq Nat, S # {}
  PROVE  \E x \in S : \A y \in S : x <= y
<1> DEFINE R == {ss \in Nat \X Nat : ss[1] < ss[2]}
<1>1. IsWellFoundedOn(R, Nat)
  BY NatLessThanWellFounded DEF OpToRel
<1>2. \A k, j \in Nat : k < j => <<k, j>> \in R
  OBVIOUS
<1> HIDE DEF R
<1>3. PICK x \in S : \A y \in S : ~(<<y, x>> \in R)
  BY <1>1, WFMin
<1>4. ASSUME NEW y \in S PROVE x <= y
  <2>1. x \in Nat /\ y \in Nat
    OBVIOUS
  <2>2. ~(y < x)
    BY <1>2, <1>3, <2>1
  <2> QED
    BY <2>1, <2>2
<1> QED
  BY <1>4

LEMMA LargestExists ==
  ASSUME NEW n \in Nat, NEW S, S \subseteq 1..n, S # {}
  PROVE  \E x \in S : \A y \in S : y <= x
<1>1. \A x \in S : x \in Nat /\ n - x \in Nat
  OBVIOUS
<1> DEFINE T == {n - x : x \in S}
<1>2. T \subseteq Nat /\ T # {}
  BY <1>1
<1>3. PICK t \in T : \A y \in T : t <= y
  BY <1>2, SmallestExists
<1>4. PICK x \in S : t = n - x
  OBVIOUS
<1>5. \A y \in S : n - y \in T
  OBVIOUS
<1> HIDE DEF T
<1>6. ASSUME NEW y \in S PROVE y <= x
  <2>1. n - x <= n - y
    BY <1>3, <1>4, <1>5
  <2> QED
    BY <1>1, <2>1
<1> QED
  BY <1>6

\* A set that contains every number up to n all of whose predecessors it contains.
LEMMA Upwards ==
  ASSUME NEW n \in Nat, NEW G,
         \A j \in 1..n : (\A k \in 1..j - 1 : k \in G) => j \in G
  PROVE  \A j \in 1..n : j \in G
<1> DEFINE Bad == {j \in 1..n : j \notin G}
<1>1. SUFFICES ASSUME Bad # {} PROVE FALSE
  OBVIOUS
<1>2. PICK j \in Bad : \A k \in Bad : j <= k
  <2>1. Bad \subseteq Nat
    OBVIOUS
  <2> QED
    BY <1>1, <2>1, SmallestExists
<1>3. ASSUME NEW k \in 1..j - 1 PROVE k \in G
  <2>1. k \in 1..n /\ ~(j <= k)
    OBVIOUS
  <2> QED
    BY <1>2, <2>1
<1> QED
  BY <1>3

LEMMA MaxIs ==
  ASSUME NEW S, S \subseteq Nat, NEW x \in S, \A y \in S : y <= x
  PROVE  Max(S) = x
<1>1. \A y \in S : x >= y /\ y \in Nat
  OBVIOUS
<1>2. \A z \in S : z = x \/ ~(z >= x)
  BY <1>1
<1> QED
  BY <1>1, <1>2 DEF Max

-------------------------------------------------------------------------------
(***************************************************************************)
(* Ancestors                                                               *)
(***************************************************************************)
IsDocument(d, n) == n \in Nat /\ d \in [1..n -> Nat] /\ \A i \in 1..n : d[i] < i

AreAncestors(g, d, n) ==
  \A i \in 1..n : g[i] = IF d[i] = 0 THEN {} ELSE {d[i]} \union g[d[i]]

LEMMA SomeAncestors ==
  ASSUME NEW d, NEW n, IsDocument(d, n)
  PROVE  \E g \in [1..n -> SUBSET Nat] : AreAncestors(g, d, n)
<1> DEFINE G == {m \in 1..n : \E g \in [1..m -> SUBSET Nat] : AreAncestors(g, d, m)}
<1>0. n \in Nat
  BY DEF IsDocument
<1>1. ASSUME NEW m \in 1..n, \A k \in 1..m - 1 : k \in G PROVE m \in G
  <2>1. PICK g \in [1..m - 1 -> SUBSET Nat] : AreAncestors(g, d, m - 1)
    <3>1. CASE m = 1
      <4> DEFINE e == [i \in 1..m - 1 |-> {}]
      <4>1. e \in [1..m - 1 -> SUBSET Nat] /\ AreAncestors(e, d, m - 1)
        BY <3>1 DEF AreAncestors
      <4> QED
        BY <4>1
    <3>2. CASE m # 1
      <4>1. m - 1 \in 1..m - 1
        BY <3>2
      <4>2. m - 1 \in G
        BY <1>1, <4>1
      <4> QED
        BY <4>2
    <3> QED
      BY <3>1, <3>2
  <2> DEFINE h == [i \in 1..m |-> IF i = m THEN (IF d[m] = 0 THEN {} ELSE {d[m]} \union g[d[m]]) ELSE g[i]]
  <2>2. d[m] \in Nat /\ d[m] < m
    BY DEF IsDocument
  <2>3. d[m] # 0 => d[m] \in 1..m - 1 /\ g[d[m]] \in SUBSET Nat
    BY <2>2
  <2>4. h \in [1..m -> SUBSET Nat]
    BY <2>2, <2>3
  <2>5. \A i \in 1..m - 1 : h[i] = g[i] /\ (d[i] # 0 => d[i] \in 1..m - 1 /\ h[d[i]] = g[d[i]])
    <3>1. \A i \in 1..m - 1 : h[i] = g[i] /\ i \in 1..n /\ i < m
      BY <1>0
    <3>2. \A i \in 1..m - 1 : d[i] # 0 => d[i] \in 1..m - 1
      BY <3>1 DEF IsDocument
    <3> HIDE DEF h
    <3> QED
      BY <3>1, <3>2
  <2>6. h[m] = IF d[m] = 0 THEN {} ELSE {d[m]} \union h[d[m]]
    <3>1. h[m] = IF d[m] = 0 THEN {} ELSE {d[m]} \union g[d[m]]
      OBVIOUS
    <3> HIDE DEF h
    <3> QED
      BY <2>3, <2>5, <3>1
  <2> HIDE DEF h
  <2>7. \A i \in 1..m - 1 : h[i] = IF d[i] = 0 THEN {} ELSE {d[i]} \union h[d[i]]
    BY <2>1, <2>5 DEF AreAncestors
  <2>8. \A i \in 1..m : i = m \/ i \in 1..m - 1
    BY <1>0
  <2>9. AreAncestors(h, d, m)
    BY <2>6, <2>7, <2>8 DEF AreAncestors
  <2> QED
    BY <2>4, <2>9
<1>2. CASE n = 0
  <2>1. [i \in 1..n |-> {}] \in [1..n -> SUBSET Nat] /\ AreAncestors([i \in 1..n |-> {}], d, n)
    BY <1>2 DEF AreAncestors
  <2> QED
    BY <2>1
<1>3. CASE n # 0
  <2>1. n \in Nat /\ n \in 1..n
    BY <1>3 DEF IsDocument
  <2> HIDE DEF G
  <2>2. \A m \in 1..n : m \in G
    BY <1>1, <2>1, Upwards
  <2> QED
    BY <2>1, <2>2 DEF G
<1> QED
  BY <1>2, <1>3

LEMMA AncestorsAre ==
  ASSUME NEW d, NEW n, IsDocument(d, n)
  PROVE  AreAncestors(AncestorsIn(d), d, n)
<1> DEFINE F(g) == [i \in DOMAIN d |-> IF d[i] = 0 THEN {} ELSE {d[i]} \union g[d[i]]]
           above == CHOOSE g : g = F(g)
<1>1. PICK g \in [1..n -> SUBSET Nat] : AreAncestors(g, d, n)
  BY SomeAncestors
<1>2. DOMAIN d = 1..n
  BY DEF IsDocument
<1>3. g = F(g)
  BY <1>1, <1>2 DEF AreAncestors
<1>4. AncestorsIn(d) = above
  BY DEF AncestorsIn
<1> HIDE DEF F
<1>5. above = F(above)
  BY <1>3
<1> HIDE DEF above
<1>6. \A i \in 1..n : above[i] = IF d[i] = 0 THEN {} ELSE {d[i]} \union above[d[i]]
  BY <1>2, <1>5 DEF F
<1> QED
  BY <1>4, <1>6 DEF AreAncestors

LEMMA AncestorsBefore ==
  ASSUME NEW d, NEW n, IsDocument(d, n), NEW g, AreAncestors(g, d, n)
  PROVE  \A i \in 1..n : g[i] \subseteq 1..i - 1
<1> DEFINE G == {i \in 1..n : g[i] \subseteq 1..i - 1}
<1>1. ASSUME NEW i \in 1..n, \A k \in 1..i - 1 : k \in G PROVE i \in G
  <2>1. CASE d[i] = 0
    BY <2>1 DEF AreAncestors
  <2>2. CASE d[i] # 0
    <3>1. d[i] \in 1..i - 1
      BY <2>2 DEF IsDocument
    <3>2. g[d[i]] \subseteq 1..d[i] - 1
      BY <1>1, <3>1
    <3>3. g[i] = {d[i]} \union g[d[i]]
      BY <2>2 DEF AreAncestors
    <3> QED
      BY <3>1, <3>2, <3>3
  <2> QED
    BY <2>1, <2>2
<1>2. n \in Nat
  BY DEF IsDocument
<1> HIDE DEF G
<1>3. \A i \in 1..n : i \in G
  BY <1>1, <1>2, Upwards
<1> QED
  BY <1>3 DEF G

\* Ancestors do not depend on what comes later.
LEMMA AncestorsStay ==
  ASSUME NEW d, NEW n, IsDocument(d, n), NEW e, NEW m, IsDocument(e, m), n <= m,
         \A i \in 1..n : d[i] = e[i],
         NEW g, AreAncestors(g, d, n), NEW h, AreAncestors(h, e, m)
  PROVE  \A i \in 1..n : g[i] = h[i]
<1> DEFINE G == {i \in 1..n : g[i] = h[i]}
<1>0. n \in Nat /\ m \in Nat
  BY DEF IsDocument
<1>1. ASSUME NEW i \in 1..n, \A k \in 1..i - 1 : k \in G PROVE i \in G
  <2>1. i \in 1..m /\ d[i] = e[i]
    BY <1>0
  <2>2. CASE d[i] = 0
    BY <2>1, <2>2 DEF AreAncestors
  <2>3. CASE d[i] # 0
    <3>1. d[i] \in 1..i - 1
      BY <2>3 DEF IsDocument
    <3>2. g[d[i]] = h[d[i]]
      BY <1>1, <3>1
    <3>3. g[i] = {d[i]} \union g[d[i]]
      BY <2>3 DEF AreAncestors
    <3>4. h[i] = {e[i]} \union h[e[i]]
      BY <2>1, <2>3 DEF AreAncestors
    <3> QED
      BY <2>1, <3>2, <3>3, <3>4
  <2> QED
    BY <2>2, <2>3
<1> HIDE DEF G
<1>2. \A i \in 1..n : i \in G
  BY <1>0, <1>1, Upwards
<1> QED
  BY <1>2 DEF G

ParentsOf(s) == [i \in DOMAIN s |-> s[i].parent]

LEMMA SourceIsDocument ==
  ASSUME NEW s \in Seq(Noted), \A n \in 1..Len(s) : s[n].parent < n
  PROVE  /\ IsDocument(ParentsOf(s), Len(s))
         /\ AreAncestors(AncestorsIn(ParentsOf(s)), ParentsOf(s), Len(s))
         /\ \A n \in 1..Len(s) : ParentsOf(s)[n] = s[n].parent
         /\ \A n \in 1..Len(s) : AncestorsIn(ParentsOf(s))[n] \subseteq 1..n - 1
<1>1. DOMAIN s = 1..Len(s) /\ Len(s) \in Nat
  OBVIOUS
<1>2. ASSUME NEW n \in 1..Len(s) PROVE s[n].parent \in Nat
  <2>1. s[n] \in Noted
    OBVIOUS
  <2> QED
    BY <2>1 DEF Noted
<1>3. IsDocument(ParentsOf(s), Len(s)) /\ \A n \in 1..Len(s) : ParentsOf(s)[n] = s[n].parent
  BY <1>1, <1>2 DEF IsDocument, ParentsOf
<1>4. AreAncestors(AncestorsIn(ParentsOf(s)), ParentsOf(s), Len(s))
  BY <1>3, AncestorsAre
<1> QED
  BY <1>3, <1>4, AncestorsBefore

-------------------------------------------------------------------------------
(***************************************************************************)
(* The stack                                                               *)
(***************************************************************************)
LEMMA ShapeFacts ==
  ASSUME Shape
  PROVE  /\ Len(stack_) \in Nat /\ Len(stack_) >= 1 /\ DOMAIN stack_ = 1..Len(stack_)
         /\ \A i \in 1..Len(stack_) : /\ stack_[i] \in Entry /\ stack_[i].node \in Nat /\ stack_[i].matched \in BOOLEAN
                                      /\ stack_[i].children \subseteq Seq(Marked)
         /\ stack_[1].node = 0 /\ stack_[1].matched
         /\ Len(source) \in Nat /\ Len(source) >= 1 /\ DOMAIN source = 1..Len(source)
         /\ \A n \in 1..Len(source) : source[n] \in Noted /\ source[n].parent \in Nat
         /\ Len(output) \in Nat /\ DOMAIN output = 1..Len(output)
         /\ \A i \in 1..Len(output) : /\ output[i] \in [node : Nat, parent : Nat]
                                      /\ output[i].node \in Nat /\ output[i].parent \in Nat
<1>1. stack_ \in Seq(Entry) /\ source \in Seq(Noted) /\ output \in Seq([node : Nat, parent : Nat])
      /\ stack_ # <<>> /\ source # <<>> /\ stack_[1] = Outside
  BY DEF Shape
<1>2. Len(stack_) \in Nat \ {0} /\ Len(source) \in Nat \ {0} /\ Len(output) \in Nat
  BY <1>1, EmptySeq
<1>3. \A i \in 1..Len(stack_) : stack_[i] \in Entry
  BY <1>1, ElementOfSeq
<1>4. \A n \in 1..Len(source) : source[n] \in Noted
  BY <1>1, ElementOfSeq
<1>5. \A i \in 1..Len(output) : output[i] \in [node : Nat, parent : Nat]
  BY <1>1, ElementOfSeq
<1>6. \A e \in Entry : e.node \in Nat /\ e.matched \in BOOLEAN /\ e.children \subseteq Seq(Marked)
  BY DEF Entry
<1>7. \A e \in Noted : e.parent \in Nat
  BY DEF Noted
<1>8. stack_[1].node = 0 /\ stack_[1].matched
  BY <1>1 DEF Outside
<1>9. DOMAIN stack_ = 1..Len(stack_) /\ DOMAIN source = 1..Len(source) /\ DOMAIN output = 1..Len(output)
  BY <1>1
<1> QED
  BY <1>2, <1>3, <1>4, <1>5, <1>6, <1>7, <1>8, <1>9

LEMMA NearestMatchedIs ==
  ASSUME Shape
  PROVE  /\ NearestMatched \in 1..Len(stack_) /\ stack_[NearestMatched].matched
         /\ \A j \in NearestMatched + 1..Len(stack_) : ~stack_[j].matched
<1> DEFINE S == {i \in 1..Len(stack_) : stack_[i].matched}
           Is(i) == stack_[i].matched /\ \A j \in i + 1..Len(stack_) : ~stack_[j].matched
<1>1. Len(stack_) \in Nat /\ DOMAIN stack_ = 1..Len(stack_) /\ 1 \in S
  BY ShapeFacts
<1>2. PICK x \in S : \A y \in S : y <= x
  BY <1>1, LargestExists
<1>3. x \in 1..Len(stack_) /\ Is(x)
  <2>1. ASSUME NEW j \in x + 1..Len(stack_), stack_[j].matched PROVE FALSE
    <3>1. j \in 1..Len(stack_)
      BY <1>1
    <3>2. j \in S
      BY <2>1, <3>1
    <3> QED
      BY <1>2, <3>2
  <2> QED
    BY <2>1
<1>4. NearestMatched = CHOOSE i \in DOMAIN stack_ : Is(i)
  BY DEF NearestMatched
<1>5. NearestMatched \in DOMAIN stack_ /\ Is(NearestMatched)
  <2> HIDE DEF Is
  <2> QED
    BY <1>1, <1>3, <1>4
<1> QED
  BY <1>1, <1>5

LEMMA OfSameChildren ==
  ASSUME NEW a, NEW b, NEW c, NEW d, a.children = c.children, b.children = d.children
  PROVE  ExpectsOneOf(a, b) <=> ExpectsOneOf(c, d)
BY DEF ExpectsOneOf, OfType

\* Only the outermost of the elements left out can be sent, since the others are
\* inside one that expects no child.
Reach(k) ==
  /\ k \in NearestMatched..Len(stack_) /\ k <= NearestMatched + 1
  /\ k = NearestMatched + 1 => ExpectsOneOf(stack_[NearestMatched], stack_[k])
  /\ k = NearestMatched /\ k < Len(stack_) => ~ExpectsOneOf(stack_[NearestMatched], stack_[NearestMatched + 1])

LEMMA CheckAncestorsIs ==
  ASSUME Shape, Expectations
  PROVE  \E k \in NearestMatched..Len(stack_) :
           Reach(k) /\ CheckAncestors = IF k = NearestMatched THEN {} ELSE {k}
<1> DEFINE m == NearestMatched
           last == Len(stack_)
<1>1. m \in 1..last /\ last \in Nat /\ \A j \in m + 1..last : ~stack_[j].matched
  BY NearestMatchedIs, ShapeFacts
<1>2. CheckAncestors = {j \in m + 1..last : \A i \in m..j - 1 : ExpectsOneOf(stack_[i], stack_[last])}
  BY DEF CheckAncestors, Top
<1> HIDE DEF m, last
<1>3. CASE m = last
  <2>1. CheckAncestors = {}
    BY <1>1, <1>2, <1>3
  <2>2. Reach(m)
    BY <1>1, <1>3 DEF Reach, m, last
  <2> QED
    BY <1>1, <2>1, <2>2 DEF m, last
<1>4. CASE m < last
  <2>1. m + 1 \in 2..last /\ m + 1 \in m + 1..last /\ m \in m..(m + 1) - 1
    BY <1>1, <1>4
  <2>2. stack_[m + 1].children = stack_[last].children
    <3>1. CASE m + 1 = last
      BY <3>1
    <3>2. CASE m + 1 < last
      <4>1. LeftOut(m + 1, last)
        BY <1>1 DEF LeftOut
      <4>2. last \in 2..last
        BY <1>1, <2>1
      <4> QED
        BY <2>1, <3>2, <4>1, <4>2 DEF Expectations, last
    <3> QED
      BY <1>1, <2>1, <3>1, <3>2
  <2>3. ExpectsOneOf(stack_[m], stack_[last]) <=> ExpectsOneOf(stack_[m], stack_[m + 1])
    BY <2>2, OfSameChildren
  <2>4. ASSUME NEW j \in CheckAncestors PROVE j = m + 1
    <3>1. SUFFICES ASSUME j # m + 1 PROVE FALSE
      OBVIOUS
    <3>2. m + 1 \in m..j - 1
      BY <1>1, <1>2, <3>1
    <3>3. ExpectsOneOf(stack_[m + 1], stack_[last])
      BY <1>2, <3>2
    <3>4. stack_[m + 1].children = Inherited(stack_[m + 1 - 1]) /\ m + 1 - 1 = m
      BY <1>1, <2>1 DEF Expectations, last
    <3>5. OfType(stack_[m + 1], {"CHILD"}) = {}
      BY <3>4 DEF Inherited, OfType
    <3> QED
      BY <3>3, <3>5 DEF ExpectsOneOf
  <2>5. CASE ExpectsOneOf(stack_[m], stack_[m + 1])
    <3>1. \A i \in m..(m + 1) - 1 : i = m
      BY <1>1
    <3>2. m + 1 \in CheckAncestors
      BY <1>2, <2>1, <2>3, <2>5, <3>1
    <3>3. CheckAncestors = {m + 1} /\ m + 1 # m
      BY <1>1, <2>4, <3>2
    <3>4. Reach(m + 1)
      BY <1>1, <1>4, <2>1, <2>5 DEF Reach, m, last
    <3>5. m + 1 \in m..last
      BY <1>1, <2>1
    <3> QED
      BY <3>3, <3>4, <3>5 DEF m, last
  <2>6. CASE ~ExpectsOneOf(stack_[m], stack_[m + 1])
    <3>1. CheckAncestors = {}
      <4>1. ~(m + 1 \in CheckAncestors)
        BY <1>2, <2>1, <2>3, <2>6
      <4> QED
        BY <2>4, <4>1
    <3>2. Reach(m)
      <4>1. m \in m..last /\ m <= m + 1 /\ m # m + 1
        BY <1>1
      <4> QED
        BY <2>6, <4>1 DEF Reach, m, last
    <3>3. m \in m..last
      BY <1>1
    <3> QED
      BY <3>1, <3>2, <3>3 DEF m, last
  <2> QED
    BY <2>5, <2>6
<1> QED
  BY <1>1, <1>3, <1>4

-------------------------------------------------------------------------------
(***************************************************************************)
(* What an event does to the document, the stack and the output            *)
(***************************************************************************)
\* A node is noted inside the innermost open one.
Grows ==
  /\ pc = "parse" /\ pc' = "parse"
  /\ \E e \in Noted : e.parent = Top.node /\ source' = Append(source, e)

\* The entries stay, the k-th is matched, and there may be one for the new node.
StackStays(k) ==
  /\ stack_' \in Seq(Entry)
  /\ Len(stack_') = Len(stack_) \/ Len(stack_') = Len(stack_) + 1
  /\ \A i \in 1..Len(stack_) : /\ stack_'[i].node = stack_[i].node
                               /\ stack_'[i].children = stack_[i].children
                               /\ stack_'[i].matched <=> stack_[i].matched \/ i = k

Enters(matched) ==
  Len(stack_') = Len(stack_) + 1 =>
    LET e == stack_'[Len(stack_) + 1]
    IN  /\ e.node = New /\ (e.matched <=> matched)
        /\ AsksForNodes(e.children)
        /\ ~matched => e.children = Inherited(Top) /\ OfType(e, {"DESCENDANT_ATTR"}) = {}

\* The new node is sent, after the k-th one of the stack unless that one has been
\* sent already.
Item(node, parent) == [node |-> node, parent |-> parent]

Sends(k) ==
  /\ k \in NearestMatched..Len(stack_)
  /\ output' = Append(IF k = NearestMatched THEN output
                      ELSE Append(output, Item(stack_[k].node, stack_[NearestMatched].node)),
                      Item(New, stack_[k].node))

LEMMA SourceGrows ==
  ASSUME Shape, Open(Above), Grows
  PROVE  /\ source' \in Seq(Noted) /\ Len(source') = Len(source) + 1
         /\ \A n \in 1..Len(source') : source'[n].parent < n
         /\ \A n \in 1..Len(source') : Above'[n] \subseteq 1..n - 1
         /\ \A n \in 1..Len(source) : Above'[n] = Above[n] /\ Above[n] \subseteq 1..n - 1
         /\ Above'[New] = {stack_[k].node : k \in 2..Len(stack_)}
<1> DEFINE size == Len(source)
           last == Len(stack_)
<1>1. PICK e \in Noted : e.parent = stack_[last].node /\ source' = Append(source, e)
  BY DEF Grows, Top
<1>2. source \in Seq(Noted) /\ size \in Nat /\ last \in Nat /\ last >= 2 /\ last \in 2..last
      /\ \A n \in 1..size : source[n].parent < n
  BY ShapeFacts DEF Shape, Grows
<1>3. e.parent \in 1..size /\ Above[e.parent] = {stack_[k].node : k \in 2..last - 1}
  BY <1>1, <1>2 DEF Open
<1>4. /\ source' \in Seq(Noted) /\ Len(source') = size + 1
      /\ \A n \in 1..size : source'[n] = source[n]
      /\ source'[size + 1] = e
  BY <1>1, <1>2
<1>5. \A n \in 1..Len(source') : source'[n].parent < n
  <2>1. ASSUME NEW n \in 1..Len(source') PROVE n \in 1..size \/ n = size + 1
    BY <1>2, <1>4
  <2> QED
    BY <1>2, <1>3, <1>4, <2>1
<1> DEFINE d == ParentsOf(source)
           d2 == ParentsOf(source')
<1>6. Above = AncestorsIn(d) /\ Above' = AncestorsIn(d2)
  BY DEF Above, Whole, ParentsOf
<1>7. /\ IsDocument(d, size) /\ AreAncestors(Above, d, size)
      /\ \A n \in 1..size : d[n] = source[n].parent /\ Above[n] \subseteq 1..n - 1
  BY <1>2, <1>6, SourceIsDocument
<1>8. /\ IsDocument(d2, size + 1) /\ AreAncestors(Above', d2, size + 1)
      /\ \A n \in 1..size + 1 : d2[n] = source'[n].parent /\ Above'[n] \subseteq 1..n - 1
  BY <1>4, <1>5, <1>6, SourceIsDocument
<1> HIDE DEF d, d2
<1>9. \A n \in 1..size : n \in 1..size + 1
  BY <1>2
<1>10. \A n \in 1..size : Above[n] = Above'[n]
  <2>1. \A n \in 1..size : d[n] = d2[n]
    BY <1>4, <1>7, <1>8, <1>9
  <2>2. size <= size + 1
    BY <1>2
  <2> QED
    BY <1>7, <1>8, <2>1, <2>2, AncestorsStay
<1>11. Above'[size + 1] = {stack_[k].node : k \in 2..last}
  <2>0. size \in Nat /\ size + 1 \in 1..size + 1
    BY <1>2
  <2> HIDE DEF size
  <2>1. d2[size + 1] = e.parent
    <3>1. d2[size + 1] = source'[size + 1].parent
      BY <1>8, <2>0
    <3> QED
      BY <1>4, <3>1
  <2>2. d2[size + 1] # 0
    BY <1>3, <2>1
  <2>3. Above'[size + 1] = {e.parent} \union Above'[e.parent]
    BY <1>8, <2>0, <2>1, <2>2 DEF AreAncestors
  <2>4. Above'[size + 1] = {stack_[last].node} \union {stack_[k].node : k \in 2..last - 1}
    BY <1>1, <1>3, <1>10, <2>3
  <2>5. \A k \in 2..last : k = last \/ k \in 2..last - 1
    BY <1>2
  <2>6. \A k \in 2..last - 1 : k \in 2..last
    BY <1>2
  <2> HIDE DEF last
  <2> QED
    BY <1>2, <2>4, <2>5, <2>6
<1> QED
  BY <1>4, <1>5, <1>7, <1>8, <1>10, <1>11 DEF New

LEMMA StackKept ==
  ASSUME Shape, Grows, NEW k, StackStays(k)
  PROVE  /\ stack_' # <<>> /\ stack_'[1] = Outside
         /\ Len(stack_') >= 2 /\ Len(stack_') \in Nat
         /\ stack_'[2].node = 1 /\ stack_'[2].matched
         /\ \A i \in 1..Len(stack_') : i \in 1..Len(stack_) \/ (i = Len(stack_) + 1 /\ Len(stack_') = Len(stack_) + 1)
<1>1. Len(stack_) \in Nat /\ Len(stack_) >= 2 /\ stack_[1] = Outside /\ stack_[2].node = 1 /\ stack_[2].matched
  BY ShapeFacts DEF Shape, Grows
<1>2. stack_' \in Seq(Entry) /\ Len(stack_') >= 2 /\ Len(stack_') \in Nat
  BY <1>1 DEF StackStays
<1>3. stack_' # <<>>
  BY <1>2, EmptySeq
<1>4. stack_'[1] = Outside
  <2>1. stack_'[1] \in Entry
    BY <1>2, ElementOfSeq
  <2>2. stack_'[1].node = 0 /\ stack_'[1].matched /\ stack_'[1].children = {Root}
    BY <1>1 DEF StackStays, Outside
  <2>3. stack_'[1].matched = TRUE
    BY <2>1, <2>2 DEF Entry
  <2> QED
    BY <2>1, <2>2, <2>3 DEF Entry, Outside
<1>5. stack_'[2].node = 1 /\ stack_'[2].matched
  BY <1>1 DEF StackStays
<1>6. \A i \in 1..Len(stack_') : i \in 1..Len(stack_) \/ (i = Len(stack_) + 1 /\ Len(stack_') = Len(stack_) + 1)
  BY <1>1 DEF StackStays
<1> QED
  BY <1>1, <1>2, <1>3, <1>4, <1>5, <1>6

LEMMA OpenKept ==
  ASSUME Shape, Open(Above), Grows, NEW k, StackStays(k), NEW matched, Enters(matched)
  PROVE  Open(Above)'
<1> DEFINE size == Len(source)
           last == Len(stack_)
<1>1. last \in Nat /\ size \in Nat /\ last >= 2 /\ \A i \in 1..last : stack_[i].node \in Nat
  BY ShapeFacts DEF Shape, Grows
<1>2. Len(source') = size + 1 /\ Above'[size + 1] = {stack_[j].node : j \in 2..last}
      /\ \A n \in 1..size : Above'[n] = Above[n]
  BY SourceGrows DEF New
<1>3. \A i \in 1..last : stack_'[i].node = stack_[i].node
  BY DEF StackStays
<1>4. \A i \in 2..Len(stack_') : i \in 2..last \/ (i = last + 1 /\ stack_'[i].node = size + 1)
  BY <1>1, StackKept DEF StackStays, Enters, New
<1>5. /\ \A i \in 2..last : stack_[i].node \in 1..size /\ i \in 1..last
      /\ \A i \in 2..last : Above[stack_[i].node] = {stack_[j].node : j \in 2..i - 1}
      /\ \A i \in 2..last, n \in 1..size : n > stack_[i].node => stack_[i].node \in Above[n]
      /\ \A i, j \in 1..last : i < j => stack_[i].node < stack_[j].node
  BY <1>1 DEF Open
<1> HIDE DEF size, last
<1>6. \A i \in 2..Len(stack_') : stack_'[i].node \in 1..Len(source')
  BY <1>1, <1>2, <1>3, <1>4, <1>5
<1>7. ASSUME NEW i \in 2..Len(stack_')
      PROVE  Above'[stack_'[i].node] = {stack_'[j].node : j \in 2..i - 1}
  <2>1. \A j \in 2..i - 1 : j \in 1..last /\ stack_'[j].node = stack_[j].node
    BY <1>1, <1>3, <1>4
  <2>2. {stack_'[j].node : j \in 2..i - 1} = {stack_[j].node : j \in 2..i - 1}
    BY <2>1
  <2>3. CASE i \in 2..last
    BY <1>2, <1>3, <1>5, <2>2, <2>3
  <2>4. CASE i = last + 1 /\ stack_'[i].node = size + 1
    <3>1. i - 1 = last
      BY <1>1, <2>4
    <3> QED
      BY <1>2, <2>2, <2>4, <3>1
  <2> QED
    BY <1>4, <2>3, <2>4
<1>8. ASSUME NEW i \in 2..Len(stack_'), NEW n \in 1..Len(source'), n > stack_'[i].node
      PROVE  stack_'[i].node \in Above'[n]
  <2>1. i \in 2..last
    BY <1>1, <1>2, <1>4, <1>8
  <2>2. CASE n \in 1..size
    BY <1>2, <1>3, <1>5, <1>8, <2>1, <2>2
  <2>3. CASE n = size + 1
    BY <1>2, <1>3, <1>5, <2>1, <2>3
  <2> QED
    BY <1>1, <1>2, <2>2, <2>3
<1>9. ASSUME NEW i \in 1..Len(stack_'), NEW j \in 1..Len(stack_'), i < j
      PROVE  stack_'[i].node < stack_'[j].node
  <2>1. j \in 2..Len(stack_')
    BY <1>9
  <2>2. CASE j \in 2..last
    <3>1. i \in 1..last /\ j \in 1..last
      BY <1>1, <1>9, <2>2
    <3> QED
      BY <1>3, <1>5, <1>9, <3>1
  <2>3. CASE j = last + 1 /\ stack_'[j].node = size + 1
    <3>1. i \in 1..last
      BY <1>1, <1>9, <2>3
    <3>2. CASE i = 1
      <4>1. 1 < 2 /\ 2 \in 1..last /\ 2 \in 2..last
        BY <1>1
      <4>2. stack_[1].node < stack_[2].node /\ stack_[2].node \in 1..size
        BY <1>5, <3>1, <3>2, <4>1
      <4> QED
        BY <1>1, <1>3, <2>3, <3>1, <3>2, <4>2
    <3>3. CASE i # 1
      <4>1. i \in 2..last
        BY <3>1, <3>3
      <4>2. stack_[i].node \in 1..size
        BY <1>5, <4>1
      <4> QED
        BY <1>1, <1>3, <2>3, <3>1, <4>2
    <3> QED
      BY <3>2, <3>3
  <2> QED
    BY <1>4, <2>1, <2>2, <2>3
<1> QED
  BY <1>6, <1>7, <1>8, <1>9 DEF Open

\* What is sent.
Extra(k) == IF k = NearestMatched THEN 0 ELSE 1

LEMMA OutputGrows ==
  ASSUME Shape, NEW k, Sends(k)
  PROVE  LET m == Len(output)
         IN  /\ output' \in Seq([node : Nat, parent : Nat])
             /\ Len(output') = m + Extra(k) + 1
             /\ \A i \in 1..m : output'[i] = output[i]
             /\ k # NearestMatched => /\ output'[m + 1].node = stack_[k].node
                                      /\ output'[m + 1].parent = stack_[NearestMatched].node
             /\ output'[m + Extra(k) + 1].node = New /\ output'[m + Extra(k) + 1].parent = stack_[k].node
             /\ DOMAIN output' = 1..Len(output')
             /\ \A i \in 1..Len(output') : i \in 1..m \/ i = m + Extra(k) + 1 \/ (k # NearestMatched /\ i = m + 1)
             /\ m + Extra(k) + 1 \in 1..Len(output')
             /\ k # NearestMatched => m + 1 \in 1..Len(output')
<1> DEFINE m == Len(output)
           S == [node : Nat, parent : Nat]
           one == Item(stack_[k].node, stack_[NearestMatched].node)
           two == Item(New, stack_[k].node)
<1>1. output \in Seq(S) /\ m \in Nat
  BY ShapeFacts DEF Shape
<1>2. one \in S /\ two \in S
  <2>1. NearestMatched \in 1..Len(stack_) /\ k \in 1..Len(stack_) /\ Len(source) \in Nat
    BY NearestMatchedIs, ShapeFacts DEF Sends
  <2>2. stack_[k].node \in Nat /\ stack_[NearestMatched].node \in Nat
    BY <2>1, ShapeFacts
  <2> QED
    BY <2>1, <2>2 DEF Item, New
<1>3. output' = Append(IF k = NearestMatched THEN output ELSE Append(output, one), two)
  BY DEF Sends
<1>9. /\ one.node = stack_[k].node /\ one.parent = stack_[NearestMatched].node
      /\ two.node = New /\ two.parent = stack_[k].node
  BY DEF Item
<1> HIDE DEF S, one, two
<1>4. CASE k = NearestMatched
  <2>1. output' = Append(output, two) /\ Extra(k) = 0
    BY <1>3, <1>4 DEF Extra
  <2>2. /\ output' \in Seq(S) /\ Len(output') = m + 1 /\ output'[m + 1] = two
        /\ \A i \in 1..m : output'[i] = output[i]
    BY <1>1, <1>2, <2>1
  <2>3. /\ \A i \in 1..Len(output') : i \in 1..m \/ i = m + 1
        /\ DOMAIN output' = 1..Len(output')
    BY <1>1, <2>2
  <2>4. output'[m + 1].node = New /\ output'[m + 1].parent = stack_[k].node
    BY <1>9, <2>2
  <2> QED
    BY <1>1, <1>4, <2>1, <2>2, <2>3, <2>4 DEF S
<1>5. CASE k # NearestMatched
  <2> DEFINE o == Append(output, one)
  <2>1. output' = Append(o, two) /\ Extra(k) = 1
    BY <1>3, <1>5 DEF Extra
  <2>2. /\ o \in Seq(S) /\ Len(o) = m + 1 /\ o[m + 1] = one
        /\ \A i \in 1..m : o[i] = output[i]
    BY <1>1, <1>2
  <2> HIDE DEF o
  <2>3. /\ output' \in Seq(S) /\ Len(output') = m + 2 /\ output'[m + 2] = two
        /\ \A i \in 1..m + 1 : output'[i] = o[i]
    BY <1>1, <1>2, <2>1, <2>2
  <2>4. \A i \in 1..m : output'[i] = output[i]
    BY <1>1, <2>2, <2>3
  <2>5. output'[m + 1] = one
    BY <1>1, <2>2, <2>3
  <2>6. \A i \in 1..Len(output') : i \in 1..m \/ i = m + 1 + 1 \/ i = m + 1
    BY <1>1, <2>3
  <2>7. m + 1 + 1 = m + 2 /\ m + 1 \in 1..Len(output') /\ m + 1 + 1 \in 1..Len(output')
    BY <1>1, <2>3
  <2>8. DOMAIN output' = 1..Len(output')
    BY <2>3
  <2>9. /\ output'[m + 1].node = stack_[k].node /\ output'[m + 1].parent = stack_[NearestMatched].node
        /\ output'[m + 1 + 1].node = New /\ output'[m + 1 + 1].parent = stack_[k].node
    BY <1>9, <2>3, <2>5, <2>7
  <2> QED
    BY <1>5, <2>1, <2>3, <2>4, <2>6, <2>7, <2>8, <2>9 DEF S
<1> QED
  BY <1>4, <1>5

LEMMA BuiltGrows ==
  ASSUME Shape, NEW k, Sends(k)
  PROVE  BuiltNodes' = BuiltNodes \union {New} \union (IF k = NearestMatched THEN {} ELSE {stack_[k].node})
<1> DEFINE m == Len(output)
           p == m + Extra(k) + 1
<1>1. /\ \A i \in 1..m : output'[i] = output[i]
      /\ k # NearestMatched => output'[m + 1].node = stack_[k].node
      /\ output'[p].node = New
      /\ \A i \in 1..Len(output') : i \in 1..m \/ i = p \/ (k # NearestMatched /\ i = m + 1)
      /\ p \in 1..Len(output')
      /\ k # NearestMatched => m + 1 \in 1..Len(output')
      /\ Len(output') = p
      /\ DOMAIN output' = 1..Len(output')
  BY OutputGrows
<1>2. DOMAIN output' = 1..Len(output') /\ DOMAIN output = 1..m
  BY <1>1, ShapeFacts
<1>3. \A i \in 1..m : i \in 1..Len(output')
  <2>1. m \in Nat /\ p >= m
    BY ShapeFacts DEF Extra
  <2> QED
    BY <1>1, <2>1
<1> HIDE DEF m, p
<1>5. BuiltNodes' = {output'[i].node : i \in DOMAIN output'}
  BY DEF BuiltNodes
<1>6. BuiltNodes = {output[i].node : i \in DOMAIN output}
  BY DEF BuiltNodes
<1>7. ASSUME NEW n \in BuiltNodes'
      PROVE  n \in BuiltNodes \union {New} \union (IF k = NearestMatched THEN {} ELSE {stack_[k].node})
  BY <1>1, <1>2, <1>5, <1>6
<1>8. BuiltNodes \subseteq BuiltNodes'
  BY <1>1, <1>2, <1>3, <1>5, <1>6
<1>9. New \in BuiltNodes' /\ (k # NearestMatched => stack_[k].node \in BuiltNodes')
  BY <1>1, <1>2, <1>5
<1> QED
  BY <1>7, <1>8, <1>9

\* Entries are of different nodes.
LEMMA EntriesDiffer ==
  ASSUME Shape, Open(Above)
  PROVE  \A i, j \in 1..Len(stack_) : stack_[i].node = stack_[j].node => i = j
<1>1. Len(stack_) \in Nat /\ \A i \in 1..Len(stack_) : stack_[i].node \in Nat
  BY ShapeFacts
<1>2. \A i, j \in 1..Len(stack_) : i < j => stack_[i].node < stack_[j].node
  BY DEF Open
<1>3. \A i, j \in 1..Len(stack_) : i = j \/ i < j \/ j < i
  BY <1>1
<1> QED
  BY <1>1, <1>2, <1>3

LEMMA NearestBuilt ==
  ASSUME Shape, Open(Above), Flags, Grows
  PROVE  /\ NearestMatched \in 2..Len(stack_)
         /\ stack_[NearestMatched].node \in BuiltNodes
         /\ \A i \in 2..Len(stack_) : stack_[i].node \in BuiltNodes => i <= NearestMatched
<1>1. /\ Len(stack_) \in Nat /\ Len(stack_) >= 2 /\ stack_[2].matched
      /\ NearestMatched \in 1..Len(stack_) /\ stack_[NearestMatched].matched
      /\ \A j \in NearestMatched + 1..Len(stack_) : ~stack_[j].matched
  BY NearestMatchedIs, ShapeFacts DEF Shape, Grows
<1>2. NearestMatched # 1
  <2>1. 2 \in 1 + 1..Len(stack_)
    BY <1>1
  <2> QED
    BY <1>1, <2>1
<1>3. NearestMatched \in 2..Len(stack_)
  BY <1>1, <1>2
<1>4. ASSUME NEW i \in 2..Len(stack_), stack_[i].node \in BuiltNodes, ~(i <= NearestMatched)
      PROVE  FALSE
  <2>1. i \in NearestMatched + 1..Len(stack_)
    BY <1>1, <1>4
  <2> QED
    BY <1>1, <1>4, <2>1 DEF Flags
<1> QED
  BY <1>1, <1>3, <1>4 DEF Flags

LEMMA FlagsKeptSending ==
  ASSUME Shape, Open(Above), Flags, Grows, NEW k, StackStays(k), Enters(TRUE), Sends(k)
  PROVE  Flags'
<1> DEFINE size == Len(source)
           last == Len(stack_)
<1>1. size \in Nat /\ last \in Nat /\ Len(source') = size + 1 /\ New = size + 1
  BY ShapeFacts, SourceGrows DEF New
<1>2. BuiltNodes' = BuiltNodes \union {size + 1} \union (IF k = NearestMatched THEN {} ELSE {stack_[k].node})
  BY <1>1, BuiltGrows
<1>3. /\ NearestMatched \in 2..last /\ stack_[NearestMatched].node \in BuiltNodes
      /\ k \in NearestMatched..last
  BY NearestBuilt DEF Sends
<1>4. k \in 2..last
  BY <1>1, <1>3
<1>5. BuiltNodes \subseteq 1..size /\ \A i \in 2..last : stack_[i].matched <=> stack_[i].node \in BuiltNodes
  BY DEF Flags
<1>6. \A i \in 2..last : stack_[i].node \in 1..size
  BY DEF Open
<1>7. \A i \in 2..last : i \in 1..last
  BY <1>1
<1>8. \A i \in 2..last : stack_[i].node = stack_[k].node => i = k
  BY <1>4, <1>7, EntriesDiffer
<1>9. \A i \in 1..last : /\ stack_'[i].node = stack_[i].node
                         /\ stack_'[i].matched <=> stack_[i].matched \/ i = k
  BY DEF StackStays
<1>10. \A i \in 2..Len(stack_') : i \in 2..last \/ (i = last + 1 /\ stack_'[i].node = size + 1 /\ stack_'[i].matched)
  BY <1>1, StackKept DEF Enters
<1> HIDE DEF size, last
<1>11. BuiltNodes' \subseteq 1..Len(source')
  <2>1. size + 1 \in 1..size + 1 /\ 1..size \subseteq 1..size + 1
    BY <1>1
  <2>2. stack_[k].node \in 1..size + 1
    BY <1>4, <1>6, <2>1
  <2>3. BuiltNodes \subseteq 1..size + 1
    BY <1>5, <2>1
  <2> QED
    BY <1>1, <1>2, <2>1, <2>2, <2>3
<1>12. ASSUME NEW i \in 2..Len(stack_') PROVE stack_'[i].matched <=> stack_'[i].node \in BuiltNodes'
  <2>1. CASE i \in 2..last
    <3>1. stack_'[i].node = stack_[i].node /\ stack_[i].node # size + 1
      BY <1>1, <1>6, <1>7, <1>9, <2>1
    <3>2. stack_'[i].matched <=> stack_[i].node \in BuiltNodes \/ i = k
      BY <1>5, <1>7, <1>9, <2>1
    <3>3. stack_[i].node \in BuiltNodes' <=> stack_[i].node \in BuiltNodes \/ i = k
      BY <1>2, <1>3, <1>8, <2>1, <3>1
    <3> QED
      BY <3>1, <3>2, <3>3
  <2>2. CASE i = last + 1 /\ stack_'[i].node = size + 1 /\ stack_'[i].matched
    BY <1>2, <2>2
  <2> QED
    BY <1>10, <2>1, <2>2
<1> QED
  BY <1>11, <1>12 DEF Flags

LEMMA FlagsKeptSilent ==
  ASSUME Shape, Open(Above), Flags, Grows, StackStays(0), Enters(FALSE), output' = output
  PROVE  Flags'
<1> DEFINE size == Len(source)
           last == Len(stack_)
<1>1. size \in Nat /\ last \in Nat /\ Len(source') = size + 1 /\ New = size + 1
  BY ShapeFacts, SourceGrows DEF New
<1>2. BuiltNodes' = BuiltNodes /\ BuiltNodes \subseteq 1..size
  BY DEF BuiltNodes, Flags
<1>3. \A i \in 2..last : i \in 1..last /\ i # 0
  BY <1>1
<1>4. \A i \in 2..last : stack_'[i].matched <=> stack_'[i].node \in BuiltNodes
  BY <1>3 DEF StackStays, Flags
<1>5. \A i \in 2..Len(stack_') : i \in 2..last \/ (i = last + 1 /\ stack_'[i].node = size + 1 /\ ~stack_'[i].matched)
  BY <1>1, StackKept DEF Enters
<1> HIDE DEF size, last
<1>6. size + 1 \notin BuiltNodes
  BY <1>1, <1>2
<1>7. \A i \in 2..Len(stack_') : stack_'[i].matched <=> stack_'[i].node \in BuiltNodes'
  BY <1>2, <1>4, <1>5, <1>6
<1>8. BuiltNodes' \subseteq 1..Len(source')
  BY <1>1, <1>2
<1> QED
  BY <1>7, <1>8 DEF Flags

LEMMA ExpectationsKept ==
  ASSUME Shape, Expectations, Grows, NEW k, StackStays(k), NEW matched \in BOOLEAN, Enters(matched)
  PROVE  Expectations'
<1> DEFINE last == Len(stack_)
<1>1. last \in Nat /\ last >= 2
  BY ShapeFacts DEF Grows, Shape
<1>2. \A i \in 1..last : /\ stack_'[i].children = stack_[i].children
                         /\ ~stack_'[i].matched => ~stack_[i].matched
  BY DEF StackStays
<1>3. ASSUME NEW i \in 1..Len(stack_')
      PROVE  i \in 1..last \/ (/\ i = last + 1 /\ AsksForNodes(stack_'[i].children)
                               /\ ~stack_'[i].matched => /\ stack_'[i].children = Inherited(stack_[last])
                                                         /\ OfType(stack_'[i], {"DESCENDANT_ATTR"}) = {})
  BY StackKept DEF Enters, Top
<1>4. \A i, j : stack_'[i].children = stack_[j].children => /\ Inherited(stack_'[i]) = Inherited(stack_[j])
                                                            /\ \A types : OfType(stack_'[i], types) = OfType(stack_[j], types)
  BY DEF Inherited, OfType
<1> HIDE DEF last
<1>5. \A i \in 1..Len(stack_') : AsksForNodes(stack_'[i].children)
  BY <1>2, <1>3 DEF Expectations, last
<1>6. ASSUME NEW i \in 2..Len(stack_'), ~stack_'[i].matched
      PROVE  /\ stack_'[i].children = Inherited(stack_'[i - 1])
             /\ OfType(stack_'[i], {"DESCENDANT_ATTR"}) = {}
  <2>1. i \in 1..Len(stack_')
    OBVIOUS
  <2>2. CASE i \in 1..last
    <3>1. i \in 2..last /\ i - 1 \in 1..last
      BY <1>1, <2>2
    <3>2. stack_[i].children = Inherited(stack_[i - 1]) /\ OfType(stack_[i], {"DESCENDANT_ATTR"}) = {}
      BY <1>2, <1>6, <2>2, <3>1 DEF Expectations, last
    <3>3. Inherited(stack_'[i - 1]) = Inherited(stack_[i - 1])
      BY <1>2, <1>4, <3>1
    <3>4. \A types : OfType(stack_'[i], types) = OfType(stack_[i], types)
      BY <1>2, <1>4, <2>2
    <3> QED
      BY <1>2, <2>2, <3>2, <3>3, <3>4
  <2>3. CASE i = last + 1
    <3>1. i - 1 = last /\ last \in 1..last /\ i \notin 1..last
      BY <1>1, <2>3
    <3>2. stack_'[i].children = Inherited(stack_[last]) /\ OfType(stack_'[i], {"DESCENDANT_ATTR"}) = {}
      BY <1>3, <1>6, <2>1, <3>1
    <3> QED
      BY <1>2, <1>4, <3>1, <3>2
  <2> QED
    BY <1>3, <2>1, <2>2, <2>3
<1>7. ASSUME NEW i \in 2..Len(stack_'), NEW j \in 2..Len(stack_'), i < j, LeftOut(i, j)'
      PROVE  stack_'[i].children = stack_'[j].children
  <2>1. \A l \in i..j : ~stack_'[l].matched
    BY <1>7 DEF LeftOut
  <2>2. Len(stack_') \in Nat /\ i \in 1..Len(stack_') /\ j \in 1..Len(stack_')
    BY StackKept
  <2>3. CASE j \in 1..last
    <3>1. i \in 2..last /\ j \in 2..last /\ i \in 1..last /\ \A l \in i..j : l \in 1..last
      BY <1>1, <1>7, <2>3
    <3>2. LeftOut(i, j)
      BY <1>2, <2>1, <3>1 DEF LeftOut
    <3>3. stack_[i].children = stack_[j].children
      BY <1>7, <3>1, <3>2 DEF Expectations, last
    <3> QED
      BY <1>2, <2>3, <3>1, <3>3
  <2>4. CASE j = last + 1
    <3>1. /\ last \in i..j /\ i \in 1..last /\ i \in 2..last /\ last \in 2..last /\ last \in 1..last
          /\ j \in i..j /\ j \notin 1..last /\ last - 1 + 1 = last
      BY <1>1, <1>7, <2>4
    <3>2. stack_'[j].children = Inherited(stack_[last])
      BY <1>3, <2>1, <2>2, <3>1
    <3>3. ~stack_[last].matched
      BY <1>2, <2>1, <3>1
    <3>4. stack_[last].children = Inherited(stack_[last - 1])
      BY <3>1, <3>3 DEF Expectations, last
    <3>5. Inherited(stack_[last]) = stack_[last].children
      BY <3>4 DEF Inherited, OfType
    <3>6. stack_[i].children = stack_[last].children
      <4>1. CASE i = last
        BY <4>1
      <4>2. CASE i # last
        <5>1. i < last /\ \A l \in i..last : l \in i..j /\ l \in 1..last
          BY <1>1, <1>7, <2>4, <3>1, <4>2
        <5>2. LeftOut(i, last)
          BY <1>2, <2>1, <5>1 DEF LeftOut
        <5> QED
          BY <3>1, <5>1, <5>2 DEF Expectations, last
      <4> QED
        BY <4>1, <4>2
    <3> QED
      BY <1>2, <3>1, <3>2, <3>5, <3>6
  <2> QED
    BY <1>3, <2>2, <2>3, <2>4
<1> QED
  BY <1>5, <1>6, <1>7 DEF Expectations

\* After a node has been sent, no element that is left out has one inside it that it
\* would have to be sent before.
LEMMA NotLateSending ==
  ASSUME Shape, Open(Above), Flags, Expectations, NotLate, Grows,
         NEW k, StackStays(k), Enters(TRUE), Sends(k), Reach(k)
  PROVE  NotLate'
<1> DEFINE last == Len(stack_)
           m == NearestMatched
<1>1. /\ last \in Nat /\ m \in 2..last /\ stack_[m].node \in BuiltNodes /\ stack_[m].matched
      /\ \A j \in m + 1..last : ~stack_[j].matched
      /\ k \in m..last /\ k <= m + 1
  BY ShapeFacts, NearestMatchedIs, NearestBuilt DEF Sends, Reach
<1>2. \A i \in 2..Len(stack_') : i \in 2..last \/ (i = last + 1 /\ stack_'[i].matched)
  BY <1>1, StackKept DEF Enters
<1>3. \A i \in 1..last : /\ stack_'[i].children = stack_[i].children
                         /\ stack_'[i].matched <=> stack_[i].matched \/ i = k
  BY DEF StackStays
<1>4. /\ k = m + 1 => ExpectsOneOf(stack_[m], stack_[k])
      /\ k = m /\ k < last => ~ExpectsOneOf(stack_[m], stack_[m + 1])
  BY DEF Reach
<1>5. \A i, j \in 1..last : i < j => stack_[i].node < stack_[j].node
  BY DEF Open
<1>6. \A i \in 1..last : stack_[i].node \in Nat
  BY ShapeFacts
<1>7. \A i \in 2..last : ~stack_[i].matched => stack_[i].children = Inherited(stack_[i - 1])
  BY DEF Expectations
<1> HIDE DEF last, m
<1>8. SUFFICES ASSUME NEW i \in 2..Len(stack_'), stack_'[i - 1].matched, ~stack_'[i].matched,
                      ExpectsOneOf(stack_'[i - 1], stack_'[i])
               PROVE  FALSE
  BY DEF NotLate, ExpectsOneOf, OfType
<1>9. i \in 2..last /\ i \in 1..last /\ i - 1 \in 1..last /\ i # k /\ ~stack_[i].matched
  BY <1>1, <1>2, <1>3, <1>8
<1>10. ExpectsOneOf(stack_[i - 1], stack_[i])
  <2>1. stack_'[i - 1].children = stack_[i - 1].children /\ stack_'[i].children = stack_[i].children
    BY <1>3, <1>9
  <2> QED
    BY <1>8, <2>1, OfSameChildren
<1>11. stack_[i - 1].matched \/ i - 1 = k
  BY <1>3, <1>8, <1>9
<1>12. CASE i < m
  <2>1. stack_[i - 1].matched
    BY <1>1, <1>9, <1>11, <1>12
  <2>2. stack_[m].node < stack_[i].node
    BY <1>1, <1>9, <1>10, <2>1 DEF NotLate, last
  <2>3. stack_[i].node < stack_[m].node /\ m \in 1..last
    BY <1>1, <1>5, <1>9, <1>12
  <2> QED
    BY <1>6, <1>9, <2>2, <2>3
<1>13. CASE i > m
  <2>1. CASE i - 1 = m
    <3>1. k = m /\ k < last /\ i = m + 1
      BY <1>1, <1>9, <2>1
    <3> QED
      BY <1>4, <1>10, <2>1, <3>1
  <2>2. CASE i - 1 # m
    <3>1. i - 1 \in m + 1..last /\ i - 1 \in 2..last
      BY <1>1, <1>9, <1>13, <2>2
    <3>2. ~stack_[i - 1].matched
      BY <1>1, <3>1
    <3>3. stack_[i - 1].children = Inherited(stack_[i - 1 - 1])
      BY <1>7, <3>1, <3>2
    <3>4. OfType(stack_[i - 1], {"CHILD"}) = {}
      BY <3>3 DEF Inherited, OfType
    <3> QED
      BY <1>10, <3>4 DEF ExpectsOneOf
  <2> QED
    BY <2>1, <2>2
<1>14. i # m
  BY <1>1, <1>9
<1> QED
  BY <1>1, <1>9, <1>12, <1>13, <1>14

LEMMA NotLateSilent ==
  ASSUME Shape, Flags, NotLate, Grows, StackStays(0), Enters(FALSE), output' = output
  PROVE  NotLate'
<1> DEFINE last == Len(stack_)
<1>1. last \in Nat /\ last >= 2 /\ Len(source) \in Nat
  BY ShapeFacts DEF Grows, Shape
<1>2. BuiltNodes' = BuiltNodes /\ BuiltNodes \subseteq 1..Len(source)
  BY DEF BuiltNodes, Flags
<1>3. \A i \in 2..Len(stack_') : i \in 2..last \/ (i = last + 1 /\ stack_'[i].node = Len(source) + 1)
  BY <1>1, StackKept DEF Enters, New
<1>4. \A i \in 1..last : /\ stack_'[i].node = stack_[i].node
                         /\ stack_'[i].children = stack_[i].children
                         /\ stack_'[i].matched <=> stack_[i].matched
  <2>1. \A i \in 1..last : i # 0
    BY <1>1
  <2> QED
    BY <2>1 DEF StackStays
<1> HIDE DEF last
<1>5. SUFFICES ASSUME NEW i \in 2..Len(stack_'), stack_'[i - 1].matched, ~stack_'[i].matched,
                      ExpectsOneOf(stack_'[i - 1], stack_'[i]), NEW n \in BuiltNodes
               PROVE  n < stack_'[i].node
  BY <1>2 DEF NotLate, ExpectsOneOf, OfType
<1>6. CASE i = last + 1 /\ stack_'[i].node = Len(source) + 1
  BY <1>1, <1>2, <1>6
<1>7. CASE i \in 2..last
  <2>1. i \in 1..last /\ i - 1 \in 1..last
    BY <1>1, <1>7
  <2>2. stack_[i - 1].matched /\ ~stack_[i].matched
    BY <1>4, <1>5, <2>1
  <2>3. ExpectsOneOf(stack_[i - 1], stack_[i])
    BY <1>4, <1>5, <2>1, OfSameChildren
  <2> QED
    BY <1>4, <1>7, <2>1, <2>2, <2>3 DEF NotLate, last
<1> QED
  BY <1>3, <1>6, <1>7

-------------------------------------------------------------------------------
(***************************************************************************)
(* The properties of the output                                            *)
(***************************************************************************)
LEMMA WellNestedSending ==
  ASSUME Shape, Open(Above), Flags, WellNested, Grows, NEW k, Sends(k)
  PROVE  WellNested'
<1> DEFINE size == Len(source)
           m == Len(output)
           q == m + Extra(k) + 1
           near == NearestMatched
<1>1. /\ size \in Nat /\ m \in Nat /\ Extra(k) \in {0, 1} /\ (k = near <=> Extra(k) = 0)
      /\ Len(stack_) \in Nat
  BY ShapeFacts DEF Extra
<1>2. /\ \A n \in 1..size : Above'[n] = Above[n] /\ Above[n] \subseteq 1..n - 1
      /\ Above'[size + 1] = {stack_[j].node : j \in 2..Len(stack_)}
  BY SourceGrows DEF New
<1>3. /\ \A i \in 1..m : output'[i] = output[i]
      /\ \A i \in 1..Len(output') : i \in 1..m \/ i = q \/ (k # near /\ i = m + 1)
      /\ DOMAIN output' = 1..Len(output')
  BY OutputGrows
<1>4. DOMAIN output' = 1..Len(output') /\ DOMAIN output = 1..m
  BY <1>3, ShapeFacts
<1>5. /\ near \in 2..Len(stack_) /\ stack_[near].node \in BuiltNodes /\ k \in near..Len(stack_)
      /\ \A i \in 2..Len(stack_) : stack_[i].node \in BuiltNodes => i <= near
  BY NearestBuilt DEF Sends
<1>6. k \in 2..Len(stack_) /\ stack_[k].node \in 1..size /\ (k # near => k > near /\ stack_[k].node \notin BuiltNodes)
  BY <1>1, <1>5 DEF Open
<1>7. \A i \in 1..m : output[i].node \in BuiltNodes /\ output[i].node \in 1..size
  BY <1>4 DEF BuiltNodes, Flags
<1>8. \A n \in BuiltNodes : \E i \in 1..m : output[i].node = n
  BY <1>4 DEF BuiltNodes
<1>9. \A i \in 1..m : /\ \A j \in 1..m : output[i].node = output[j].node => i = j
                      /\ output[i].node # 1 => /\ output[i].parent \in Above[output[i].node]
                                               /\ \E j \in 1..i - 1 : output[j].node = output[i].parent
  BY <1>4 DEF WellNested, Above
<1>10. /\ k # near => output'[m + 1].node = stack_[k].node /\ output'[m + 1].parent = stack_[near].node
       /\ output'[q].node = size + 1 /\ output'[q].parent = stack_[k].node
  BY OutputGrows DEF New
<1>11. k # near => stack_[near].node \in Above[stack_[k].node]
  <2>1. k # near => near \in 2..k - 1
    BY <1>1, <1>5, <1>6
  <2> QED
    BY <1>6, <2>1 DEF Open
<1> HIDE DEF size, m, q, near
<1>12. \A i \in 1..m : output'[i].node \in BuiltNodes /\ output'[i].node \in 1..size
  BY <1>3, <1>7
<1>13. ASSUME NEW i \in 1..Len(output'), NEW j \in 1..Len(output'), output'[i].node = output'[j].node
       PROVE  i = j
  <2>1. CASE i \in 1..m /\ j \in 1..m
    BY <1>3, <1>9, <1>13, <2>1
  <2>2. CASE i = q
    <3>1. j \notin 1..m
      BY <1>1, <1>10, <1>12, <1>13, <2>2
    <3>2. ~(k # near /\ j = m + 1)
      BY <1>1, <1>6, <1>10, <1>13, <2>2
    <3> QED
      BY <1>3, <2>2, <3>1, <3>2
  <2>3. CASE j = q
    <3>1. i \notin 1..m
      BY <1>1, <1>10, <1>12, <1>13, <2>3
    <3>2. ~(k # near /\ i = m + 1)
      BY <1>1, <1>6, <1>10, <1>13, <2>3
    <3> QED
      BY <1>3, <2>3, <3>1, <3>2
  <2>4. CASE k # near /\ i = m + 1 /\ j \in 1..m
    BY <1>6, <1>10, <1>12, <1>13, <2>4
  <2>5. CASE k # near /\ j = m + 1 /\ i \in 1..m
    BY <1>6, <1>10, <1>12, <1>13, <2>5
  <2>6. CASE i = m + 1 /\ j = m + 1
    BY <2>6
  <2> QED
    BY <1>3, <2>1, <2>2, <2>3, <2>4, <2>5, <2>6
<1>14. ASSUME NEW i \in 1..Len(output'), output'[i].node # 1
       PROVE  /\ output'[i].parent \in Above'[output'[i].node]
              /\ \E j \in 1..i - 1 : output'[j].node = output'[i].parent
  <2>1. CASE i \in 1..m
    <3>1. \A j \in 1..i - 1 : j \in 1..m
      BY <1>1, <2>1
    <3>2. output'[i].parent \in Above[output'[i].node]
          /\ \E j \in 1..i - 1 : output[j].node = output'[i].parent
      BY <1>3, <1>9, <1>14, <2>1
    <3> QED
      BY <1>2, <1>3, <1>12, <2>1, <3>1, <3>2
  <2>2. CASE i = q
    <3>1. output'[i].parent \in Above'[output'[i].node]
      BY <1>2, <1>6, <1>10, <2>2
    <3>2. CASE k = near
      <4>1. PICK j \in 1..m : output[j].node = stack_[k].node
        BY <1>5, <1>8, <3>2
      <4>2. j \in 1..q - 1
        BY <1>1, <4>1 DEF q
      <4> QED
        BY <1>3, <1>10, <2>2, <3>1, <4>1, <4>2
    <3>3. CASE k # near
      <4>1. m + 1 \in 1..q - 1
        BY <1>1, <3>3 DEF q
      <4> QED
        BY <1>10, <2>2, <3>1, <3>3, <4>1
    <3> QED
      BY <3>2, <3>3
  <2>3. CASE k # near /\ i = m + 1
    <3>1. output'[i].parent \in Above'[output'[i].node]
      BY <1>2, <1>6, <1>10, <1>11, <2>3
    <3>2. PICK j \in 1..m : output[j].node = stack_[near].node
      BY <1>5, <1>8
    <3>3. j \in 1..i - 1
      BY <1>1, <2>3, <3>2
    <3>4. output'[j].node = stack_[near].node
      BY <1>3, <3>2
    <3>5. output'[i].parent = stack_[near].node
      BY <1>10, <2>3
    <3> QED
      BY <3>1, <3>3, <3>4, <3>5
  <2> QED
    BY <1>3, <2>1, <2>2, <2>3
<1>15. \A i \in DOMAIN output' :
         /\ \A j \in DOMAIN output' : output'[i].node = output'[j].node => i = j
         /\ output'[i].node # 1 => /\ output'[i].parent \in Above'[output'[i].node]
                                   /\ \E j \in 1..i - 1 : output'[j].node = output'[i].parent
  BY <1>4, <1>13, <1>14
<1> QED
  BY <1>15 DEF WellNested, Above

LEMMA OrderSending ==
  ASSUME Shape, Open(Above), Flags, NotLate, InDocumentOrder, Grows, NEW k, Sends(k), Reach(k)
  PROVE  InDocumentOrder'
<1> DEFINE size == Len(source)
           m == Len(output)
           q == m + Extra(k) + 1
           near == NearestMatched
<1>1. size \in Nat /\ m \in Nat /\ Len(stack_) \in Nat /\ Extra(k) \in {0, 1} /\ (k # near => Extra(k) = 1)
  BY ShapeFacts DEF Extra
<1>2. /\ \A i \in 1..m : output'[i] = output[i]
      /\ k # near => output'[m + 1].node = stack_[k].node
      /\ output'[q].node = size + 1
      /\ \A i \in 1..Len(output') : i \in 1..m \/ i = q \/ (k # near /\ i = m + 1)
      /\ DOMAIN output' = 1..Len(output')
  BY OutputGrows DEF New
<1>3. DOMAIN output = 1..m /\ \A i \in 1..m : output[i].node \in BuiltNodes /\ output[i].node \in 1..size
  BY ShapeFacts DEF BuiltNodes, Flags
<1>4. ASSUME k # near
      PROVE  stack_[k].node \in 1..size /\ \A n \in BuiltNodes : n < stack_[k].node
  <2>1. k = near + 1 /\ k \in 2..Len(stack_) /\ near \in 2..Len(stack_) /\ k - 1 = near /\ k \in near + 1..Len(stack_)
    BY <1>1, <1>4, NearestBuilt DEF Reach
  <2>2. stack_[k - 1].matched /\ ~stack_[k].matched
    BY <2>1, NearestMatchedIs
  <2>3. ExpectsOneOf(stack_[k - 1], stack_[k])
    BY <2>1 DEF Reach
  <2> QED
    BY <2>1, <2>2, <2>3 DEF NotLate, Open
<1>5. \A i, j \in 1..m : i < j => output[i].node < output[j].node
  BY <1>3 DEF InDocumentOrder
<1> HIDE DEF size, m, near
<1>6. ASSUME NEW i \in 1..Len(output'), NEW j \in 1..Len(output'), i < j
      PROVE  output'[i].node < output'[j].node
  <2>1. CASE j \in 1..m
    <3>1. i \in 1..m
      BY <1>1, <1>6, <2>1
    <3> QED
      BY <1>2, <1>5, <1>6, <2>1, <3>1
  <2>2. CASE j = q
    BY <1>1, <1>2, <1>3, <1>4, <1>6, <2>2
  <2>3. CASE k # near /\ j = m + 1
    <3>1. i \in 1..m
      BY <1>1, <1>6, <2>3
    <3> QED
      BY <1>2, <1>3, <1>4, <2>3, <3>1
  <2> QED
    BY <1>2, <2>1, <2>2, <2>3
<1> QED
  BY <1>2, <1>6 DEF InDocumentOrder

LEMMA NearestSending ==
  ASSUME Shape, Open(Above), Flags, NotLate, InNearestAncestor, Grows, NEW k, Sends(k), Reach(k)
  PROVE  InNearestAncestor'
<1> DEFINE size == Len(source)
           m == Len(output)
           q == m + Extra(k) + 1
           near == NearestMatched
           last == Len(stack_)
<1>1. size \in Nat /\ m \in Nat /\ last \in Nat /\ Extra(k) \in {0, 1} /\ \A i \in 1..last : stack_[i].node \in Nat
  BY ShapeFacts DEF Extra
<1>2. /\ \A i \in 1..m : output'[i] = output[i]
      /\ k # near => output'[m + 1].node = stack_[k].node /\ output'[m + 1].parent = stack_[near].node
      /\ output'[q].node = size + 1 /\ output'[q].parent = stack_[k].node
      /\ \A i \in 1..Len(output') : i \in 1..m \/ i = q \/ (k # near /\ i = m + 1)
      /\ DOMAIN output' = 1..Len(output')
  BY OutputGrows DEF New
<1>3. DOMAIN output = 1..m /\ \A i \in 1..m : output[i].node \in BuiltNodes /\ output[i].node \in 1..size
  BY ShapeFacts DEF BuiltNodes, Flags
<1>4. /\ near \in 2..last /\ stack_[near].node \in BuiltNodes
      /\ \A i \in 2..last : stack_[i].node \in BuiltNodes => i <= near
      /\ k \in near..last /\ k <= near + 1
  BY NearestBuilt DEF Sends, Reach
<1>5. k \in 2..last /\ stack_[k].node \in 1..size /\ near \in 1..last /\ k \in 1..last
  BY <1>1, <1>4 DEF Open
<1>6. ASSUME k # near
      PROVE  \A n \in BuiltNodes : n < stack_[k].node
  <2>1. k = near + 1 /\ k - 1 = near /\ k \in near + 1..last
    BY <1>1, <1>4, <1>6
  <2>2. stack_[k - 1].matched /\ ~stack_[k].matched
    BY <2>1, NearestMatchedIs
  <2>3. ExpectsOneOf(stack_[k - 1], stack_[k])
    BY <2>1 DEF Reach
  <2> QED
    BY <1>5, <2>2, <2>3 DEF NotLate
<1>7. BuiltNodes' = BuiltNodes \union {size + 1} \union (IF k = near THEN {} ELSE {stack_[k].node})
  BY BuiltGrows DEF New
<1>8. BuiltNodes \subseteq 1..size
  BY DEF Flags
<1>9. /\ \A n \in 1..size : Above'[n] = Above[n] /\ Above[n] \subseteq 1..n - 1
      /\ Above'[size + 1] = {stack_[j].node : j \in 2..last}
  BY SourceGrows DEF New
<1>10. \A i \in 1..m : output[i].node # 1 => output[i].parent = Max(Above[output[i].node] \intersect BuiltNodes)
  BY <1>3 DEF InNearestAncestor, Above
<1>11. /\ Above[stack_[k].node] = {stack_[j].node : j \in 2..k - 1}
       /\ \A i, j \in 1..last : i < j => stack_[i].node < stack_[j].node
       /\ \A i \in 2..last : stack_[i].node \in 1..size
       /\ \A i \in 2..last : i \in 1..last
  <2>1. Above[stack_[k].node] = {stack_[j].node : j \in 2..k - 1}
    BY <1>5 DEF Open
  <2>2. /\ \A i, j \in 1..last : i < j => stack_[i].node < stack_[j].node
        /\ \A i \in 2..last : stack_[i].node \in 1..size
    BY DEF Open
  <2>3. \A i \in 2..last : i \in 1..last
    BY <1>1
  <2> QED
    BY <2>1, <2>2, <2>3
<1> HIDE DEF size, m, near, last
<1>12. ASSUME NEW i \in 1..Len(output'), output'[i].node # 1
       PROVE  output'[i].parent = Max(Above'[output'[i].node] \intersect BuiltNodes')
  <2> DEFINE n == output'[i].node
  <2>1. CASE i \in 1..m
    <3>1. n \in BuiltNodes /\ n \in 1..size /\ Above'[n] = Above[n] /\ Above[n] \subseteq 1..n - 1
      BY <1>2, <1>3, <1>9, <2>1
    <3>2. size + 1 \notin Above[n]
      BY <1>1, <3>1
    <3>3. k # near => stack_[k].node \notin Above[n]
      BY <1>1, <1>5, <1>6, <3>1
    <3>4. Above'[n] \intersect BuiltNodes' = Above[n] \intersect BuiltNodes
      BY <1>7, <3>1, <3>2, <3>3
    <3>5. output'[i].parent = Max(Above[n] \intersect BuiltNodes)
      BY <1>2, <1>10, <1>12, <2>1
    <3> QED
      BY <3>4, <3>5
  <2>2. CASE k # near /\ i = m + 1
    <3> DEFINE S == Above'[n] \intersect BuiltNodes'
    <3>1. n = stack_[k].node /\ Above'[n] = {stack_[j].node : j \in 2..k - 1}
      BY <1>2, <1>5, <1>9, <1>11, <2>2
    <3>2. k - 1 = near /\ near \in 2..k - 1
      BY <1>1, <1>4, <2>2
    <3>3. stack_[near].node \in S
      BY <1>4, <1>7, <3>1, <3>2
    <3>4. \A j \in 2..k - 1 : j \in 1..last /\ (j = near \/ j < near)
      BY <1>1, <1>5, <3>2
    <3>5. ASSUME NEW j \in 2..k - 1 PROVE stack_[j].node <= stack_[near].node /\ stack_[j].node \in Nat
      <4>1. stack_[j].node \in Nat /\ stack_[near].node \in Nat
        BY <1>1, <1>5, <3>4
      <4>2. CASE j = near
        BY <4>1, <4>2
      <4>3. CASE j < near
        <5>1. stack_[j].node < stack_[near].node
          BY <1>5, <1>11, <3>4, <4>3
        <5> QED
          BY <4>1, <5>1
      <4> QED
        BY <3>4, <4>2, <4>3
    <3>6. S \subseteq Nat /\ \A y \in S : y <= stack_[near].node
      BY <3>1, <3>5
    <3> HIDE DEF S
    <3>7. Max(S) = stack_[near].node
      BY <3>3, <3>6, MaxIs
    <3> QED
      BY <1>2, <2>2, <3>7 DEF S
  <2>3. CASE i = q
    <3> DEFINE S == Above'[n] \intersect BuiltNodes'
    <3>1. n = size + 1 /\ Above'[n] = {stack_[j].node : j \in 2..last} /\ output'[i].parent = stack_[k].node
      BY <1>2, <1>9, <2>3
    <3>2. stack_[k].node \in S
      BY <1>4, <1>5, <1>7, <3>1
    <3>3. ASSUME NEW j \in 2..last, stack_[j].node \in BuiltNodes'
          PROVE  stack_[j].node <= stack_[k].node
      <4>1. stack_[j].node \in BuiltNodes \/ stack_[j].node = stack_[k].node
        BY <1>1, <1>7, <1>11, <3>3
      <4>2. CASE stack_[j].node = stack_[k].node
        BY <1>1, <1>5, <4>2
      <4>3. CASE stack_[j].node \in BuiltNodes
        <5>1. j \in 1..last /\ j <= k
          BY <1>1, <1>4, <1>11, <4>3
        <5>2. j = k \/ j < k
          BY <1>1, <1>5, <5>1
        <5> QED
          BY <1>1, <1>5, <1>11, <5>1, <5>2
      <4> QED
        BY <4>1, <4>2, <4>3
    <3>4. S \subseteq Nat /\ \A y \in S : y <= stack_[k].node
      <4>1. \A j \in 2..last : stack_[j].node \in Nat
        BY <1>1, <1>11
      <4> QED
        BY <3>1, <3>3, <4>1
    <3> HIDE DEF S
    <3>5. Max(S) = stack_[k].node
      BY <3>2, <3>4, MaxIs
    <3> QED
      BY <3>1, <3>5 DEF S
  <2> QED
    BY <1>2, <2>1, <2>2, <2>3
<1> QED
  BY <1>2, <1>12 DEF InNearestAncestor, Above

-------------------------------------------------------------------------------
(***************************************************************************)
(* One event                                                               *)
(***************************************************************************)
LEMMA ShapeKept ==
  ASSUME Shape, Open(Above), Grows, NEW k, StackStays(k),
         output' \in Seq([node : Nat, parent : Nat]), unforeseen' \in BOOLEAN
  PROVE  Shape'
<1>1. source' \in Seq(Noted) /\ \A n \in 1..Len(source') : source'[n].parent < n
  BY SourceGrows
<1>2. source' # <<>>
  <2>1. Len(source') = Len(source) + 1 /\ Len(source) \in Nat
    BY SourceGrows, ShapeFacts
  <2> QED
    BY <1>1, <2>1
<1>3. stack_' \in Seq(Entry)
  BY DEF StackStays
<1> QED
  BY <1>1, <1>2, <1>3, StackKept DEF Shape

\* A node is sent: in the right place, unless the element before it has been sent
\* for no path.
LEMMA SendingKeeps ==
  ASSUME DocumentInv, Grows, NEW k, StackStays(k), Enters(TRUE), Sends(k),
         unforeseen' \in BOOLEAN, ~unforeseen' => ~unforeseen /\ Reach(k)
  PROVE  DocumentInv'
<1> USE DEF DocumentInv
<1>1. Shape'
  BY OutputGrows, ShapeKept
<1>2. Open(Above)'
  BY OpenKept
<1>3. Flags' /\ Expectations' /\ WellNested'
  BY FlagsKeptSending, ExpectationsKept, WellNestedSending
<1>4. ~unforeseen' => NotLate' /\ InDocumentOrder' /\ InNearestAncestor'
  BY NotLateSending, OrderSending, NearestSending
<1> QED
  BY <1>1, <1>2, <1>3, <1>4

\* A node is left out.
LEMMA OutputStays ==
  ASSUME Shape, Open(Above), Flags, Grows, output' = output
  PROVE  /\ WellNested => WellNested'
         /\ InDocumentOrder => InDocumentOrder'
         /\ InNearestAncestor => InNearestAncestor'
<1>1. \A i \in DOMAIN output : output[i].node \in 1..Len(source)
  BY DEF Flags, BuiltNodes
<1>2. \A i \in DOMAIN output : Above'[output[i].node] = Above[output[i].node]
  BY <1>1, SourceGrows
<1>3. BuiltNodes' = BuiltNodes
  BY DEF BuiltNodes
<1>4. ASSUME WellNested PROVE WellNested'
  BY <1>2, <1>4 DEF WellNested, Above
<1>5. ASSUME InNearestAncestor PROVE InNearestAncestor'
  BY <1>2, <1>3, <1>5 DEF InNearestAncestor, Above
<1>6. ASSUME InDocumentOrder PROVE InDocumentOrder'
  BY <1>6 DEF InDocumentOrder
<1> QED
  BY <1>4, <1>5, <1>6

LEMMA LeavingOutKeeps ==
  ASSUME DocumentInv, Grows, StackStays(0), Enters(FALSE), output' = output, unforeseen' = unforeseen
  PROVE  DocumentInv'
<1> USE DEF DocumentInv
<1>1. Shape'
  <2>1. output' \in Seq([node : Nat, parent : Nat]) /\ unforeseen' \in BOOLEAN
    BY DEF Shape
  <2> QED
    BY <2>1, ShapeKept
<1>2. Open(Above)'
  BY OpenKept
<1>3. Flags' /\ Expectations' /\ WellNested'
  BY FlagsKeptSilent, ExpectationsKept, OutputStays
<1>4. ~unforeseen' => NotLate' /\ InDocumentOrder' /\ InNearestAncestor'
  BY NotLateSilent, OutputStays
<1> QED
  BY <1>1, <1>2, <1>3, <1>4

\* The innermost element or the document ends.
LEMMA EndKeeps ==
  ASSUME DocumentInv, Len(stack_) >= 2, stack_' = Front(stack_), UNCHANGED <<source, output, unforeseen>>,
         pc' = "parse" => Len(stack_) >= 3
  PROVE  DocumentInv'
<1> DEFINE last == Len(stack_)
<1>1. last \in Nat /\ stack_ \in Seq(Entry) /\ stack_[1] = Outside /\ last - 1 \in 1..last
  BY ShapeFacts DEF DocumentInv, Shape
<1>2. /\ stack_' \in Seq(Entry) /\ Len(stack_') = last - 1
      /\ \A i \in 1..last - 1 : stack_'[i] = stack_[i]
  BY <1>1 DEF Front
<1>3. stack_' # <<>>
  BY <1>1, <1>2
<1>4. \A i \in 1..Len(stack_') : i \in 1..last /\ stack_'[i] = stack_[i]
  BY <1>1, <1>2
<1>5. \A i \in 2..Len(stack_') : i \in 2..last /\ i - 1 \in 1..Len(stack_') /\ i \in 1..Len(stack_')
  BY <1>1, <1>2
<1>6. Above' = Above /\ BuiltNodes' = BuiltNodes
  BY DEF Above, Whole, BuiltNodes
<1> HIDE DEF last
<1>7. Shape'
  <2>1. Len(stack_') >= 2 => stack_'[2].node = 1 /\ stack_'[2].matched
    BY <1>1, <1>2, <1>4 DEF DocumentInv, Shape, last
  <2>2. stack_'[1] = Outside
    BY <1>1, <1>2
  <2>3. pc' = "parse" => Len(stack_') >= 2
    BY <1>1, <1>2 DEF last
  <2> QED
    BY <1>2, <1>3, <2>1, <2>2, <2>3 DEF DocumentInv, Shape
<1>8. Open(Above)'
  <2>1. \A i \in 2..Len(stack_') : stack_'[i].node \in 1..Len(source)
    BY <1>4, <1>5 DEF DocumentInv, Open, last
  <2>2. \A i \in 2..Len(stack_'), n \in 1..Len(source) : n > stack_'[i].node => stack_'[i].node \in Above[n]
    BY <1>4, <1>5 DEF DocumentInv, Open, last
  <2>3. ASSUME NEW i \in 2..Len(stack_')
        PROVE  Above[stack_'[i].node] = {stack_'[j].node : j \in 2..i - 1}
    <3>1. Above[stack_[i].node] = {stack_[j].node : j \in 2..i - 1}
      BY <1>5 DEF DocumentInv, Open, last
    <3>2. \A j \in 2..i - 1 : stack_'[j] = stack_[j]
      BY <1>1, <1>2, <1>4
    <3>3. {stack_'[j].node : j \in 2..i - 1} = {stack_[j].node : j \in 2..i - 1}
      BY <3>2
    <3>4. stack_'[i] = stack_[i]
      BY <1>4, <1>5
    <3> QED
      BY <3>1, <3>3, <3>4
  <2>4. \A i, j \in 1..Len(stack_') : i < j => stack_'[i].node < stack_'[j].node
    BY <1>4 DEF DocumentInv, Open, last
  <2> QED
    BY <1>6, <2>1, <2>2, <2>3, <2>4 DEF Open
<1>9. Flags'
  BY <1>4, <1>5, <1>6 DEF DocumentInv, Flags, last
<1>10. Expectations'
  <2>1. \A i \in 1..Len(stack_') : AsksForNodes(stack_'[i].children)
    BY <1>4 DEF DocumentInv, Expectations, last
  <2>2. \A i \in 2..Len(stack_') : ~stack_'[i].matched =>
          /\ stack_'[i].children = Inherited(stack_'[i - 1])
          /\ OfType(stack_'[i], {"DESCENDANT_ATTR"}) = {}
    BY <1>4, <1>5 DEF DocumentInv, Expectations, last
  <2>3. ASSUME NEW i \in 2..Len(stack_'), NEW j \in 2..Len(stack_'), i < j, LeftOut(i, j)'
        PROVE  stack_'[i].children = stack_'[j].children
    <3>1. \A l \in i..j : l \in 1..Len(stack_')
      BY <1>1, <1>2
    <3>2. LeftOut(i, j)
      BY <1>4, <2>3, <3>1 DEF LeftOut
    <3> QED
      BY <1>4, <1>5, <2>3, <3>2 DEF DocumentInv, Expectations, last
  <2> QED
    BY <2>1, <2>2, <2>3 DEF Expectations
<1>11. WellNested'
  BY DEF DocumentInv, WellNested, Whole
<1>12. ~unforeseen' => NotLate' /\ InDocumentOrder' /\ InNearestAncestor'
  <2> SUFFICES ASSUME ~unforeseen PROVE NotLate' /\ InDocumentOrder' /\ InNearestAncestor'
    OBVIOUS
  <2>1. NotLate'
    BY <1>4, <1>5, <1>6 DEF DocumentInv, NotLate, last
  <2>2. InDocumentOrder'
    BY DEF DocumentInv, InDocumentOrder
  <2>3. InNearestAncestor'
    BY <1>6 DEF DocumentInv, InNearestAncestor, Whole
  <2> QED
    BY <2>1, <2>2, <2>3
<1> QED
  BY <1>7, <1>8, <1>9, <1>10, <1>11, <1>12 DEF DocumentInv

\* The ancestors before a node, and the node itself.
LEMMA MatchedIs ==
  ASSUME Shape, NEW k \in 1..Len(stack_), NEW is, is = {k} \/ (is = {} /\ stack_[k].matched)
  PROVE  /\ Matched(is) \in Seq(Entry) /\ Len(Matched(is)) = Len(stack_)
         /\ \A i \in 1..Len(stack_) : /\ Matched(is)[i].node = stack_[i].node
                                      /\ Matched(is)[i].children = stack_[i].children
                                      /\ Matched(is)[i].matched <=> stack_[i].matched \/ i = k
<1>1. DOMAIN stack_ = 1..Len(stack_) /\ Len(stack_) \in Nat
  BY ShapeFacts
<1>2. \A i \in 1..Len(stack_) : Matched(is)[i] = [stack_[i] EXCEPT !.matched = @ \/ i \in is]
  BY <1>1 DEF Matched
<1>3. \A e \in Entry, b \in BOOLEAN : /\ [e EXCEPT !.matched = b] \in Entry
                                     /\ [e EXCEPT !.matched = b].node = e.node
                                     /\ [e EXCEPT !.matched = b].children = e.children
                                     /\ [e EXCEPT !.matched = b].matched = b
  BY DEF Entry
<1>4. ASSUME NEW i \in 1..Len(stack_)
      PROVE  /\ Matched(is)[i] \in Entry
             /\ Matched(is)[i].node = stack_[i].node
             /\ Matched(is)[i].children = stack_[i].children
             /\ Matched(is)[i].matched <=> stack_[i].matched \/ i = k
  <2>1. stack_[i] \in Entry /\ stack_[i].matched \in BOOLEAN
    BY ShapeFacts
  <2> DEFINE b == stack_[i].matched \/ i \in is
  <2>2. b \in BOOLEAN /\ Matched(is)[i] = [stack_[i] EXCEPT !.matched = b]
    BY <1>2, <2>1
  <2>3. b <=> stack_[i].matched \/ i = k
    OBVIOUS
  <2> HIDE DEF b
  <2>4. /\ Matched(is)[i] \in Entry /\ Matched(is)[i].node = stack_[i].node
        /\ Matched(is)[i].children = stack_[i].children /\ Matched(is)[i].matched = b
    BY <1>3, <2>1, <2>2
  <2> QED
    BY <2>2, <2>3, <2>4
<1>5. Matched(is) \in Seq(Entry) /\ Len(Matched(is)) = Len(stack_)
  <2>1. Matched(is) \in [1..Len(stack_) -> Entry]
    <3>1. Matched(is) = [i \in 1..Len(stack_) |-> Matched(is)[i]]
      BY <1>1 DEF Matched
    <3> QED
      BY <1>4, <3>1
  <2> QED
    BY <1>1, <2>1
<1> QED
  BY <1>4, <1>5

LEMMA SentIs ==
  ASSUME Shape, NEW k \in NearestMatched..Len(stack_), k <= NearestMatched + 1,
         NEW is, is = IF k = NearestMatched THEN {} ELSE {k}, output' = Sent(New, is)
  PROVE  Sends(k)
<1> DEFINE S == [node : Nat, parent : Nat]
           near == NearestMatched
           one == Item(stack_[k].node, stack_[near].node)
           two == Item(New, stack_[k].node)
<1>1. /\ output \in Seq(S) /\ near \in 1..Len(stack_) /\ Len(stack_) \in Nat /\ New \in Nat
      /\ stack_[k].node \in Nat /\ stack_[near].node \in Nat
  BY NearestMatchedIs, ShapeFacts DEF Shape, New
<1>2. one \in S /\ two \in S
  BY <1>1 DEF Item
<1>3. CASE k = near
  <2>1. Cardinality(is) = 0
    BY <1>3, FS_EmptySet
  <2>2. Opened(is) = <<>>
    <3>1. Opened(is) \in [1..0 -> S]
      BY <2>1 DEF Opened
    <3>2. Opened(is) \in Seq(S) /\ Len(Opened(is)) = 0
      BY <3>1
    <3> QED
      BY <3>2, EmptySeq
  <2>3. output' = (output \o <<>>) \o <<[node |-> New, parent |-> stack_[near + 0].node]>>
    BY <2>1, <2>2 DEF Sent
  <2>4. near + 0 = near /\ output \o <<>> = output
    BY <1>1, ConcatEmptySeq
  <2>5. output' = output \o <<two>>
    BY <1>3, <2>3, <2>4 DEF Item
  <2>6. output' = Append(output, two)
    BY <1>1, <1>2, <2>5, AppendIsConcat
  <2> QED
    BY <1>3, <2>6 DEF Sends
<1>4. CASE k = near + 1
  <2>1. is = {k}
    BY <1>1, <1>4
  <2>2. Cardinality(is) = 1
    BY <2>1, FS_Singleton
  <2>3. Opened(is) = [j \in 1..1 |-> [node |-> stack_[near + j].node, parent |-> stack_[near + j - 1].node]]
    BY <2>2 DEF Opened
  <2>4. Opened(is) = [j \in 1..1 |-> one]
    <3>1. \A j \in 1..1 : j = 1 /\ near + j = k /\ near + j - 1 = near
      BY <1>1, <1>4
    <3> QED
      BY <2>3, <3>1 DEF Item
  <2> HIDE DEF one, two, S
  <2>5. Opened(is) = <<one>>
    BY <2>4
  <2>6. output' = (output \o Opened(is)) \o <<[node |-> New, parent |-> stack_[near + 1].node]>>
    BY <2>2 DEF Sent
  <2>7. output' = (output \o <<one>>) \o <<two>>
    BY <1>4, <2>5, <2>6 DEF Item, two
  <2>8. output \o <<one>> = Append(output, one) /\ Append(output, one) \in Seq(S)
    BY <1>1, <1>2, AppendIsConcat
  <2>9. output' = Append(Append(output, one), two)
    BY <1>2, <2>7, <2>8, AppendIsConcat
  <2>10. k # near
    BY <1>1, <1>4
  <2> QED
    BY <2>9, <2>10 DEF Sends, one, two
<1> QED
  BY <1>1, <1>3, <1>4

-------------------------------------------------------------------------------
(***************************************************************************)
(* The events of the parser                                                *)
(***************************************************************************)
LEMMA Parsed ==
  ASSUME ProjectionInv, pc = "parse"
  PROVE  /\ QueryInv /\ DocumentInv /\ Shape /\ Expectations /\ case \in Cases
         /\ Len(stack_) \in Nat /\ Len(stack_) >= 2 /\ Len(stack_) \in 1..Len(stack_)
         /\ Top \in Entry /\ Top.node \in Nat /\ Top.matched \in BOOLEAN
         /\ Top.children \subseteq Seq(Marked) /\ AsksForNodes(Top.children)
<1>1. QueryInv /\ DocumentInv /\ case \in Cases
  BY DEF ProjectionInv, QueryInv
<1>2. Shape /\ Expectations /\ Len(stack_) >= 2
  BY <1>1 DEF DocumentInv, Shape
<1>3. Len(stack_) \in Nat /\ Len(stack_) \in 1..Len(stack_)
  BY <1>2, ShapeFacts
<1>4. /\ Top \in Entry /\ Top.node \in Nat /\ Top.matched \in BOOLEAN /\ Top.children \subseteq Seq(Marked)
  BY <1>2, <1>3, ShapeFacts DEF Top
<1>5. AsksForNodes(Top.children)
  BY <1>2, <1>3 DEF Expectations, Top
<1> QED
  BY <1>1, <1>2, <1>3, <1>4, <1>5

LEMMA NoteGrows ==
  ASSUME ProjectionInv, pc = "parse", pc' = pc, NEW type, NEW uri, NEW name, NoteNode(type, uri, name),
         type \in {"element", "attribute", "namespace"} \union case.leaves,
         uri \in {None} \union {n.uri : n \in case.names \union case.attributes},
         name \in {None} \union {n.name : n \in case.names \union case.attributes}
  PROVE  Grows
<1> DEFINE e == [type |-> type, uri |-> uri, name |-> name, parent |-> Top.node]
<1>1. case \in Cases /\ Top.node \in Nat
  BY Parsed
<1>2. type \in {"document", "element", "attribute", "namespace"} \union UNION {c.leaves : c \in Cases}
  BY <1>1
<1>3. uri \in {None} \union UNION {{n.uri : n \in c.names \union c.attributes} : c \in Cases}
  BY <1>1
<1>4. name \in {None} \union UNION {{n.name : n \in c.names \union c.attributes} : c \in Cases}
  BY <1>1
<1>5. e \in Noted
  BY <1>1, <1>2, <1>3, <1>4 DEF Noted
<1>6. e.parent = Top.node /\ source' = Append(source, e)
  BY DEF NoteNode
<1> QED
  BY <1>5, <1>6 DEF Grows

\* What an element expects that is entered through the path nodes "ends".
LEMMA EntryExpects ==
  ASSUME QueryInv, NEW top \in Entry, AsksForNodes(top.children), NEW ends \in SUBSET top.children
  PROVE  /\ Inherited(top) \union Below(ends) \subseteq Seq(Marked)
         /\ AsksForNodes(Inherited(top) \union Below(ends))
<1>1. top.children \subseteq Seq(Marked)
  BY DEF Entry
<1>2. Inherited(top) \subseteq top.children /\ Below(ends) \subseteq tree /\ tree \subseteq Seq(Marked)
  BY DEF Inherited, OfType, Below, ChildrenIn, QueryInv
<1>3. ASSUME NEW q \in Inherited(top), TypeOf(q) = "DESCENDANT_ATTR"
      PROVE  \E p \in Inherited(top) : TypeOf(p) = "DESCENDANT" /\ TestOf(p) = AnyNode
  <2>1. PICK p \in top.children : TypeOf(p) = "DESCENDANT" /\ TestOf(p) = AnyNode
    BY <1>2, <1>3 DEF AsksForNodes
  <2> QED
    BY <2>1 DEF Inherited, OfType
<1>4. ASSUME NEW q \in Below(ends), TypeOf(q) = "DESCENDANT_ATTR"
      PROVE  \E p \in Below(ends) : TypeOf(p) = "DESCENDANT" /\ TestOf(p) = AnyNode
  <2>1. PICK o \in ends : q \in ChildrenIn(tree, o)
    BY DEF Below
  <2>2. AsksForNodes(ChildrenIn(tree, o))
    BY <1>1 DEF QueryInv
  <2>3. PICK p \in ChildrenIn(tree, o) : TypeOf(p) = "DESCENDANT" /\ TestOf(p) = AnyNode
    BY <1>4, <2>1, <2>2 DEF AsksForNodes
  <2> QED
    BY <2>3 DEF Below
<1> QED
  BY <1>1, <1>2, <1>3, <1>4 DEF AsksForNodes

LEMMA StartElementKeeps ==
  ASSUME ProjectionInv, NEW n \in case.names, StartElement(n)
  PROVE  DocumentInv'
<1> DEFINE ends == {p \in OfType(Top, {"DESCENDANT", "CHILD"}) : NameMatches(TestOf(p), n)}
           entry == [node |-> New, matched |-> ends # {}, children |-> Inherited(Top) \union Below(ends)]
           last == Len(stack_)
<1>1. pc = "parse" /\ pc' = pc /\ unforeseen' = unforeseen /\ NoteNode("element", n.uri, n.name)
  BY DEF StartElement, Parsing
<1>2. Grows
  BY <1>1, NoteGrows
<1>3. /\ QueryInv /\ DocumentInv /\ Shape /\ Expectations /\ last \in Nat
      /\ Top \in Entry /\ AsksForNodes(Top.children)
  BY <1>1, Parsed
<1>4. ends \in SUBSET Top.children
  BY DEF OfType
<1>5. /\ entry.node = New /\ entry.matched = (ends # {}) /\ entry.children = Inherited(Top) \union Below(ends)
      /\ entry \in Entry /\ AsksForNodes(entry.children)
  <2>1. New \in Nat
    BY <1>3, ShapeFacts DEF New
  <2> HIDE DEF ends
  <2>2. /\ Inherited(Top) \union Below(ends) \subseteq Seq(Marked)
        /\ AsksForNodes(Inherited(Top) \union Below(ends))
    BY <1>3, <1>4, EntryExpects
  <2> QED
    BY <2>1, <2>2 DEF Entry
<1>6. unforeseen' \in BOOLEAN
  BY <1>1, <1>3 DEF Shape
<1>7. CASE ends # {}
  <2>1. stack_' = Append(Matched(CheckAncestors), entry) /\ output' = Sent(New, CheckAncestors)
    BY <1>7 DEF StartElement
  <2> HIDE DEF ends, entry
  <2>2. PICK k \in NearestMatched..last : Reach(k) /\ CheckAncestors = IF k = NearestMatched THEN {} ELSE {k}
    BY <1>3, CheckAncestorsIs
  <2>3. k \in 1..last /\ k <= NearestMatched + 1 /\ (k = NearestMatched => stack_[k].matched)
    BY <1>3, <2>2, NearestMatchedIs DEF Reach
  <2>4. Sends(k)
    BY <1>3, <2>1, <2>2, <2>3, SentIs
  <2> DEFINE m == Matched(CheckAncestors)
  <2>5. /\ m \in Seq(Entry) /\ Len(m) = last
        /\ \A i \in 1..last : /\ m[i].node = stack_[i].node /\ m[i].children = stack_[i].children
                              /\ m[i].matched <=> stack_[i].matched \/ i = k
    BY <1>3, <2>2, <2>3, MatchedIs
  <2> HIDE DEF m
  <2>6. stack_' = Append(m, entry)
    BY <2>1 DEF m
  <2>7. /\ stack_' \in Seq(Entry) /\ Len(stack_') = last + 1 /\ stack_'[last + 1] = entry
        /\ \A i \in 1..last : stack_'[i] = m[i]
    BY <1>5, <2>5, <2>6
  <2>8. StackStays(k)
    BY <2>5, <2>7 DEF StackStays
  <2>9. Enters(TRUE)
    BY <1>5, <1>7, <2>7 DEF Enters
  <2> QED
    BY <1>1, <1>2, <1>3, <1>6, <2>2, <2>4, <2>8, <2>9, SendingKeeps
<1>8. CASE ends = {}
  <2>1. stack_' = Append(stack_, entry) /\ output' = output
    BY <1>8 DEF StartElement
  <2>2. entry.children = Inherited(Top)
    BY <1>5, <1>8 DEF Below
  <2>3. OfType(entry, {"DESCENDANT_ATTR"}) = {}
    <3>1. SUFFICES ASSUME NEW q \in entry.children, TypeOf(q) = "DESCENDANT_ATTR" PROVE FALSE
      BY DEF OfType
    <3>2. q \in Top.children
      BY <2>2, <3>1 DEF Inherited, OfType
    <3>3. PICK p \in Top.children : TypeOf(p) = "DESCENDANT" /\ TestOf(p) = AnyNode
      BY <1>3, <3>1, <3>2 DEF AsksForNodes
    <3>4. NameMatches(AnyNode, n)
      BY DEF NameMatches, AnyNode
    <3>5. p \in ends
      BY <3>3, <3>4 DEF OfType
    <3> QED
      BY <1>8, <3>5
  <2> HIDE DEF ends, entry
  <2>4. stack_ \in Seq(Entry)
    BY <1>3 DEF Shape
  <2>5. /\ stack_' \in Seq(Entry) /\ Len(stack_') = last + 1 /\ stack_'[last + 1] = entry
        /\ \A i \in 1..last : stack_'[i] = stack_[i] /\ i # 0
    BY <1>3, <1>5, <2>1, <2>4
  <2>6. StackStays(0)
    BY <2>5 DEF StackStays
  <2>7. Enters(FALSE)
    BY <1>5, <1>8, <2>2, <2>3, <2>5 DEF Enters
  <2> QED
    BY <1>1, <1>2, <1>3, <2>1, <2>6, <2>7, LeavingOutKeeps
<1> QED
  BY <1>7, <1>8

\* Nothing is entered and the stack is as it was, or its k-th entry is matched.
LEMMA NoneEnters ==
  ASSUME Shape, Len(stack_') = Len(stack_)
  PROVE  \A matched : Enters(matched)
<1>1. Len(stack_) \in Nat
  BY ShapeFacts
<1> QED
  BY <1>1 DEF Enters

LEMMA StackIsKept ==
  ASSUME Shape, stack_' = stack_
  PROVE  StackStays(0) /\ Enters(FALSE)
<1>1. \A i \in 1..Len(stack_) : i # 0
  BY ShapeFacts
<1>2. StackStays(0)
  BY <1>1 DEF StackStays, Shape
<1> QED
  BY <1>2, NoneEnters

LEMMA StackIsMatched ==
  ASSUME Shape, NEW k \in 1..Len(stack_), NEW is, is = {k} \/ (is = {} /\ stack_[k].matched),
         stack_' = Matched(is)
  PROVE  StackStays(k) /\ Enters(TRUE)
<1>1. StackStays(k)
  BY MatchedIs DEF StackStays
<1> QED
  BY <1>1, MatchedIs, NoneEnters

LEMMA LeafKeeps ==
  ASSUME ProjectionInv, NEW type \in case.leaves, Leaf(type)
  PROVE  DocumentInv'
<1>1. pc = "parse" /\ pc' = pc /\ unforeseen' = unforeseen /\ NoteNode(type, None, None)
  BY DEF Leaf, Parsing
<1>2. Grows
  BY <1>1, NoteGrows
<1>3. DocumentInv /\ Shape /\ Expectations /\ Len(stack_) \in Nat /\ unforeseen' \in BOOLEAN
  BY <1>1, Parsed DEF Shape
<1>4. CASE NonElementChildren(Top)
  <2>1. stack_' = Matched(CheckAncestors) /\ output' = Sent(New, CheckAncestors)
    BY <1>4 DEF Leaf
  <2>2. PICK k \in NearestMatched..Len(stack_) : Reach(k) /\ CheckAncestors = IF k = NearestMatched THEN {} ELSE {k}
    BY <1>3, CheckAncestorsIs
  <2>3. k \in 1..Len(stack_) /\ k <= NearestMatched + 1 /\ (k = NearestMatched => stack_[k].matched)
    BY <1>3, <2>2, NearestMatchedIs DEF Reach
  <2>4. Sends(k)
    BY <1>3, <2>1, <2>2, <2>3, SentIs
  <2>5. StackStays(k) /\ Enters(TRUE)
    BY <1>3, <2>1, <2>2, <2>3, StackIsMatched
  <2> QED
    BY <1>1, <1>2, <1>3, <2>2, <2>4, <2>5, SendingKeeps
<1>5. CASE ~NonElementChildren(Top)
  <2>1. stack_' = stack_ /\ output' = output
    BY <1>5 DEF Leaf
  <2> QED
    BY <1>1, <1>2, <1>3, <2>1, StackIsKept, LeavingOutKeeps
<1> QED
  BY <1>4, <1>5

\* An attribute or a namespace is sent right after its element.
LEMMA SendsLate ==
  ASSUME Shape, output' = Append(SentLate, [node |-> New, parent |-> Top.node])
  PROVE  /\ Sends(Len(stack_))
         /\ Top.matched => Reach(Len(stack_)) /\ NearestMatched = Len(stack_)
<1>1. Len(stack_) \in Nat /\ NearestMatched \in 1..Len(stack_) /\ stack_[NearestMatched].matched
  BY ShapeFacts, NearestMatchedIs
<1>2. ASSUME Top.matched PROVE NearestMatched = Len(stack_)
  <2>1. CASE NearestMatched # Len(stack_)
    <3>1. Len(stack_) \in NearestMatched + 1..Len(stack_)
      BY <1>1, <2>1
    <3> QED
      BY <1>2, <3>1, NearestMatchedIs DEF Top
  <2> QED
    BY <2>1
<1>3. ~Top.matched => NearestMatched # Len(stack_)
  BY <1>1 DEF Top
<1>4. output' = Append(IF NearestMatched = Len(stack_) THEN output
                       ELSE Append(output, Item(stack_[Len(stack_)].node, stack_[NearestMatched].node)),
                       Item(New, stack_[Len(stack_)].node))
  BY <1>2, <1>3 DEF SentLate, Item, Top
<1>5. Len(stack_) \in NearestMatched..Len(stack_)
  BY <1>1
<1>6. Sends(Len(stack_))
  BY <1>4, <1>5 DEF Sends
<1>7. ASSUME Top.matched PROVE Reach(Len(stack_))
  BY <1>1, <1>2, <1>5, <1>7 DEF Reach
<1> QED
  BY <1>2, <1>6, <1>7

LEMMA AttributeKeeps ==
  ASSUME ProjectionInv, NEW n \in case.attributes, Attribute(n)
  PROVE  DocumentInv'
<1> DEFINE last == Len(stack_)
<1>1. pc = "parse" /\ pc' = pc /\ unforeseen' = unforeseen /\ NoteNode("attribute", n.uri, n.name)
  BY DEF Attribute, Parsing
<1>2. Grows
  BY <1>1, NoteGrows
<1>3. /\ DocumentInv /\ Shape /\ Expectations /\ last \in Nat /\ last >= 2 /\ last \in 1..last
      /\ unforeseen' \in BOOLEAN
  BY <1>1, Parsed DEF Shape
<1>4. CASE \E p \in OfType(Top, {"DESCENDANT_ATTR", "ATTRIBUTE"}) : NameMatches(TestOf(p), n)
  <2>1. stack_' = Matched({last}) /\ output' = Append(SentLate, [node |-> New, parent |-> Top.node])
    BY <1>4 DEF Attribute
  <2>2. Top.matched
    <3>1. SUFFICES ASSUME ~Top.matched PROVE FALSE
      OBVIOUS
    <3>2. last \in 2..last
      BY <1>3
    <3>3. Top.children = Inherited(stack_[last - 1]) /\ OfType(Top, {"DESCENDANT_ATTR"}) = {}
      BY <1>3, <3>1, <3>2 DEF Expectations, Top
    <3> QED
      BY <1>4, <3>3 DEF Inherited, OfType
  <2>3. Sends(last) /\ Reach(last)
    BY <1>3, <2>1, <2>2, SendsLate
  <2>4. StackStays(last) /\ Enters(TRUE)
    BY <1>3, <2>1, StackIsMatched
  <2> QED
    BY <1>1, <1>2, <1>3, <2>3, <2>4, SendingKeeps
<1>5. CASE ~\E p \in OfType(Top, {"DESCENDANT_ATTR", "ATTRIBUTE"}) : NameMatches(TestOf(p), n)
  <2>1. stack_' = stack_ /\ output' = output
    BY <1>5 DEF Attribute
  <2> QED
    BY <1>1, <1>2, <1>3, <2>1, StackIsKept, LeavingOutKeeps
<1> QED
  BY <1>4, <1>5

LEMMA NamespaceKeeps ==
  ASSUME ProjectionInv, Namespace
  PROVE  DocumentInv'
<1> DEFINE last == Len(stack_)
<1>1. /\ pc = "parse" /\ pc' = pc /\ NoteNode("namespace", None, None)
      /\ unforeseen' = (unforeseen \/ ~Top.matched)
      /\ stack_' = Matched({last}) /\ output' = Append(SentLate, [node |-> New, parent |-> Top.node])
  BY DEF Namespace, Parsing
<1>2. Grows
  BY <1>1, NoteGrows
<1>3. DocumentInv /\ Shape /\ last \in 1..last /\ Top.matched \in BOOLEAN /\ unforeseen \in BOOLEAN
  BY <1>1, Parsed DEF Shape
<1>4. unforeseen' \in BOOLEAN /\ (~unforeseen' => ~unforeseen /\ Top.matched)
  BY <1>1, <1>3
<1>5. Sends(last) /\ (Top.matched => Reach(last))
  BY <1>1, <1>3, SendsLate
<1>6. StackStays(last) /\ Enters(TRUE)
  BY <1>1, <1>3, StackIsMatched
<1> QED
  BY <1>2, <1>3, <1>4, <1>5, <1>6, SendingKeeps

LEMMA StartDocumentKeeps ==
  ASSUME ProjectionInv, StartDocument
  PROVE  DocumentInv'
<1> DEFINE doc == [type |-> "document", uri |-> None, name |-> None, parent |-> 0]
           entry == [node |-> 1, matched |-> TRUE, children |-> ChildrenIn(tree, Root)]
<1>1. /\ source' = <<doc>> /\ stack_' = <<Outside, entry>> /\ output' = <<Item(1, 0)>>
      /\ unforeseen' = FALSE /\ pc' = "parse" /\ QueryInv
  BY DEF StartDocument, ProjectionInv, Item
<1>2. Root \in Seq(Marked) /\ ChildrenIn(tree, Root) \subseteq Seq(Marked)
  BY <1>1 DEF Root, ChildrenIn, QueryInv
<1>3. /\ doc \in Noted /\ doc.parent = 0 /\ Item(1, 0) \in [node : Nat, parent : Nat]
      /\ Item(1, 0).node = 1 /\ Item(1, 0).parent = 0
  BY DEF Noted, Item
<1>4. entry \in Entry /\ entry.node = 1 /\ entry.matched = TRUE /\ entry.children = ChildrenIn(tree, Root)
  BY <1>2 DEF Entry
<1>5. Outside \in Entry /\ Outside.node = 0 /\ Outside.matched = TRUE /\ Outside.children = {Root}
  BY <1>2 DEF Entry, Outside
<1>6. AsksForNodes(entry.children) /\ AsksForNodes(Outside.children)
  BY <1>1, <1>2, <1>4, <1>5 DEF AsksForNodes, QueryInv, TypeOf
<1> HIDE DEF doc, entry
<1>7. /\ Len(source') = 1 /\ source'[1] = doc /\ Len(stack_') = 2 /\ stack_'[1] = Outside /\ stack_'[2] = entry
      /\ Len(output') = 1 /\ output'[1] = Item(1, 0) /\ DOMAIN output' = 1..1
      /\ source' \in Seq(Noted) /\ stack_' \in Seq(Entry) /\ output' \in Seq([node : Nat, parent : Nat])
  BY <1>1, <1>3, <1>4, <1>5
<1>8. /\ \A i \in 1..1 : i = 1
      /\ \A i \in 2..2 : i = 2
      /\ \A i \in 1..2 : i = 1 \/ i = 2
  OBVIOUS
<1>9. Shape'
  <2>1. source' # <<>> /\ stack_' # <<>>
    <3>1. Len(<<>>) = 0
      OBVIOUS
    <3>2. Len(source') # 0 /\ Len(stack_') # 0
      BY <1>7
    <3> QED
      BY <3>1, <3>2
  <2>2. \A n \in 1..Len(source') : source'[n].parent < n
    BY <1>3, <1>7, <1>8
  <2>3. unforeseen' \in BOOLEAN
    BY <1>1
  <2>4. Len(stack_') >= 2
    BY <1>7
  <2>5. stack_'[2].node = 1 /\ stack_'[2].matched
    BY <1>4, <1>7, Zenon
  <2> QED
    BY <1>7, <2>1, <2>2, <2>3, <2>4, <2>5 DEF Shape
<1>10. Above'[1] = {}
  <2>1. \A i \in 1..Len(source') : source'[i].parent < i
    BY <1>3, <1>7, <1>8
  <2>2. Above'[1] \subseteq 1..1 - 1
    <3>1. \A i \in 1..Len(source') : AncestorsIn(ParentsOf(source'))[i] \subseteq 1..i - 1
      BY <1>7, <2>1, SourceIsDocument
    <3>2. Above' = AncestorsIn(ParentsOf(source'))
      BY DEF Above, Whole, ParentsOf
    <3> QED
      BY <1>7, <3>1, <3>2
  <2> QED
    BY <2>2
<1>11. Open(Above)'
  <2>1. \A i \in 2..Len(stack_') : Above'[stack_'[i].node] = {stack_'[j].node : j \in 2..i - 1}
    BY <1>4, <1>7, <1>8, <1>10
  <2>2. \A i, j \in 1..Len(stack_') : i < j => stack_'[i].node < stack_'[j].node
    BY <1>4, <1>5, <1>7, <1>8
  <2>3. \A i \in 2..Len(stack_') : stack_'[i].node = 1
    BY <1>4, <1>7, <1>8
  <2> QED
    BY <1>7, <1>8, <2>1, <2>2, <2>3 DEF Open
<1>12. BuiltNodes' = {1}
  BY <1>3, <1>7, <1>8 DEF BuiltNodes
<1>13. Flags'
  BY <1>4, <1>7, <1>8, <1>12 DEF Flags
<1>14. Expectations'
  <2>1. \A i \in 1..Len(stack_') : AsksForNodes(stack_'[i].children)
    BY <1>6, <1>7, <1>8
  <2>2. \A i \in 2..Len(stack_') : stack_'[i].matched
    BY <1>4, <1>7, <1>8
  <2>3. \A i, j \in 2..Len(stack_') : ~(i < j)
    BY <1>7
  <2> QED
    BY <2>1, <2>2, <2>3 DEF Expectations
<1>15. WellNested' /\ InDocumentOrder' /\ InNearestAncestor'
  BY <1>3, <1>7, <1>8 DEF WellNested, InDocumentOrder, InNearestAncestor
<1>16. NotLate'
  BY <1>4, <1>7, <1>8 DEF NotLate
<1> QED
  BY <1>9, <1>11, <1>13, <1>14, <1>15, <1>16 DEF DocumentInv

-------------------------------------------------------------------------------
(***************************************************************************)
(* The theorem                                                             *)
(***************************************************************************)
LEMMA InitIsProjection == Init => ProjectionInv
<1> SUFFICES ASSUME Init PROVE ProjectionInv
  OBVIOUS
<1>1. Root \in Seq(Followed) /\ Root \in Seq(Marked)
  BY DEF Root
<1>2. case \in Cases /\ context = {Root} /\ tree = {Root}
  BY DEF Init
<1>3. \A p \in Seq(Marked) : AsksForNodes(ChildrenIn(tree, p))
  BY <1>2 DEF ChildrenIn, AsksForNodes
<1>4. QueryInv
  BY <1>1, <1>2, <1>3 DEF QueryInv
<1> QED
  BY <1>4 DEF Init, ProjectionInv

LEMMA StepKeepsProjection == ProjectionInv /\ [Next]_vars => ProjectionInv'
<1> SUFFICES ASSUME ProjectionInv, [Next]_vars PROVE ProjectionInv'
  OBVIOUS
<1>1. QueryInv
  BY DEF ProjectionInv
<1>2. ASSUME UNCHANGED queryvars PROVE QueryInv'
  BY <1>1, <1>2 DEF queryvars, QueryInv
<1>3. ASSUME UNCHANGED queryvars, DocumentInv', pc' \in {"parse", "built"} PROVE ProjectionInv'
  BY <1>2, <1>3 DEF ProjectionInv
<1>4. ASSUME NEW s \in case.steps, OptimizeStep(s) PROVE ProjectionInv'
  <2>1. pc = "query" /\ pc' = pc /\ UNCHANGED docvars
    BY <1>4 DEF OptimizeStep
  <2> QED
    BY <1>1, <1>4, <2>1, OptimizeStepKeeps DEF ProjectionInv, docvars
<1>5. ASSUME NEW use \in case.uses, UseResult(use) PROVE ProjectionInv'
  <2>1. pc = "query" /\ pc' = pc /\ UNCHANGED docvars
    BY <1>5 DEF UseResult
  <2> QED
    BY <1>1, <1>5, <2>1, UseResultKeeps DEF ProjectionInv, docvars
<1>6. ASSUME StartDocument PROVE ProjectionInv'
  <2>1. UNCHANGED queryvars /\ pc' = "parse"
    BY <1>6 DEF StartDocument
  <2> QED
    BY <1>3, <1>6, <2>1, StartDocumentKeeps
<1>7. ASSUME NEW n \in case.names, StartElement(n) PROVE ProjectionInv'
  <2>1. UNCHANGED queryvars /\ pc' = "parse"
    BY <1>7 DEF StartElement, Parsing
  <2> QED
    BY <1>3, <1>7, <2>1, StartElementKeeps
<1>8. ASSUME NEW n \in case.attributes, Attribute(n) PROVE ProjectionInv'
  <2>1. UNCHANGED queryvars /\ pc' = "parse"
    BY <1>8 DEF Attribute, Parsing
  <2> QED
    BY <1>3, <1>8, <2>1, AttributeKeeps
<1>9. ASSUME Namespace PROVE ProjectionInv'
  <2>1. UNCHANGED queryvars /\ pc' = "parse"
    BY <1>9 DEF Namespace, Parsing
  <2> QED
    BY <1>3, <1>9, <2>1, NamespaceKeeps
<1>10. ASSUME NEW type \in case.leaves, Leaf(type) PROVE ProjectionInv'
  <2>1. UNCHANGED queryvars /\ pc' = "parse"
    BY <1>10 DEF Leaf, Parsing
  <2> QED
    BY <1>3, <1>10, <2>1, LeafKeeps
<1>11. ASSUME EndElement PROVE ProjectionInv'
  <2>1. /\ UNCHANGED queryvars /\ pc = "parse" /\ pc' = "parse" /\ InElement
        /\ stack_' = Front(stack_) /\ UNCHANGED <<source, output, unforeseen>>
    BY <1>11 DEF EndElement
  <2>2. DocumentInv /\ Len(stack_) \in Nat /\ Len(stack_) >= 3
    BY <2>1, Parsed DEF InElement
  <2>3. DocumentInv'
    BY <2>1, <2>2, EndKeeps
  <2> QED
    BY <1>3, <2>1, <2>3
<1>12. ASSUME EndDocument PROVE ProjectionInv'
  <2>1. /\ UNCHANGED queryvars /\ pc = "parse" /\ pc' = "built"
        /\ stack_' = Front(stack_) /\ UNCHANGED <<source, output, unforeseen>>
    BY <1>12 DEF EndDocument
  <2>2. DocumentInv /\ Len(stack_) >= 2
    BY <2>1, Parsed
  <2>3. DocumentInv'
    BY <2>1, <2>2, EndKeeps
  <2> QED
    BY <1>3, <2>1, <2>3
<1>13. ASSUME UNCHANGED vars PROVE ProjectionInv'
  <2>1. UNCHANGED queryvars /\ UNCHANGED <<source, stack_, output, unforeseen>> /\ pc' = pc
    BY <1>13 DEF vars, docvars
  <2>2. Above' = Above /\ BuiltNodes' = BuiltNodes
    BY <2>1 DEF Above, Whole, BuiltNodes
  <2>3. ASSUME DocumentInv PROVE DocumentInv'
    <3>1. Shape /\ Open(Above)
      BY <2>3 DEF DocumentInv
    <3>2. Shape' = Shape
      BY <2>1 DEF Shape
    <3>3. Open(Above)' = Open(Above)
      BY <2>1, <2>2 DEF Open
    <3>4. Flags'
      BY <2>1, <2>2, <2>3 DEF DocumentInv, Flags
    <3>5. Expectations'
      BY <2>1, <2>3 DEF DocumentInv, Expectations, LeftOut
    <3>6. WellNested' = WellNested /\ InNearestAncestor' = InNearestAncestor
      BY <2>1, <2>2 DEF WellNested, InNearestAncestor, Whole
    <3>7. NotLate' = NotLate /\ InDocumentOrder' = InDocumentOrder
      BY <2>1, <2>2 DEF NotLate, InDocumentOrder
    <3> QED
      BY <2>1, <2>3, <3>1, <3>2, <3>3, <3>4, <3>5, <3>6, <3>7 DEF DocumentInv
  <2> QED
    BY <1>2, <2>1, <2>3 DEF ProjectionInv
<1> QED
  BY <1>4, <1>5, <1>6, <1>7, <1>8, <1>9, <1>10, <1>11, <1>12, <1>13 DEF Next

\* Whatever the queries, the tests and the documents: projection builds a node once
\* and inside an ancestor of it; and unless a namespace declaration had an element
\* sent that no path leads to, in document order and inside the nearest ancestor
\* that is built.
THEOREM BuiltInPlaceAlways == Spec => []BuiltInPlace
<1>1. ProjectionInv => BuiltInPlace
  <2>1. ASSUME ProjectionInv, pc # "query" PROVE BuiltInPlace
    BY <2>1 DEF ProjectionInv, DocumentInv, BuiltInPlace
  <2>2. ASSUME ProjectionInv, pc = "query" PROVE BuiltInPlace
    <3>1. DOMAIN output = {}
      BY <2>2 DEF ProjectionInv
    <3> QED
      BY <3>1 DEF BuiltInPlace, WellNested, InDocumentOrder, InNearestAncestor
  <2> QED
    BY <2>1, <2>2
<1> QED
  BY <1>1, InitIsProjection, StepKeepsProjection, PTL DEF Spec
=============================================================================
