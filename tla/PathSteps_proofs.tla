-------------------------- MODULE PathSteps_proofs --------------------------
(***************************************************************************)
(* Proofs about path expressions (PathSteps), for every set of documents,  *)
(* every set of steps and paths of every length: what typing claims of the *)
(* nodes after each step is true of them, and the chain of stages, with or *)
(* without the sort, returns what PathResult promises.                     *)
(*                                                                         *)
(* The argument.  The nodes a stage has returned are those of a walk over  *)
(* the nodes of the stage before: each comes from one of them, in turn,    *)
(* and those that come from the same one are in the order of the axis      *)
(* (Walks).  A walk carries the claims of the nodes it starts from to the  *)
(* ones Combine works out (CombinedHolds), whatever the documents.  What   *)
(* the stages have still to return (Ahead) continues the walks, so the     *)
(* claims hold of it too: nothing comes late.                              *)
(***************************************************************************)
EXTENDS PathSteps, WellFoundedInduction, TLAPS

-----------------------------------------------------------------------------
(* The least and the greatest node of a set.                               *)

\* Every nonempty set of natural numbers has a least one.
LEMMA LeastExists ==
  ASSUME NEW S \in SUBSET Nat, S # {}
  PROVE  \E m \in S : \A n \in S : m <= n
PROOF
<1> DEFINE R == {ss \in Nat \X Nat : ss[1] < ss[2]}
<1>1. IsWellFoundedOn(R, Nat)
  BY NatLessThanWellFounded DEF OpToRel
<1>2. \A m, n \in Nat : n < m => <<n, m>> \in R
  OBVIOUS
<1> HIDE DEF R
<1>3. PICK m \in S : \A y \in S : ~(<<y, m>> \in R)
  BY <1>1, WFMin
<1>4. ASSUME NEW n \in S PROVE m <= n
  <2>1. n \in Nat /\ m \in Nat /\ ~(<<n, m>> \in R)
    BY <1>3
  <2>2. ~(n < m)
    BY <1>2, <2>1
  <2> QED BY <2>1, <2>2
<1> QED BY <1>3, <1>4

\* Every nonempty set of numbers up to b has a greatest one.
LEMMA GreatestExists ==
  ASSUME NEW b \in Nat, NEW S \in SUBSET (0 .. b), S # {}
  PROVE  \E m \in S : \A n \in S : n <= m
PROOF
<1> DEFINE T == {t \in 0 .. b : b - t \in S}
<1>1. \A n \in S : b - n \in T
  <2> SUFFICES ASSUME NEW n \in S PROVE b - n \in T
    OBVIOUS
  <2>1. n \in 0 .. b
    OBVIOUS
  <2>2. b - n \in 0 .. b /\ b - (b - n) = n
    BY <2>1
  <2> QED BY <2>2
<1>2. T \in SUBSET Nat /\ \A t \in T : t \in 0 .. b /\ b - t \in S
  OBVIOUS
<1> HIDE DEF T
<1>3. T # {}
  BY <1>1
<1>4. PICK t \in T : \A u \in T : t <= u
  BY <1>2, <1>3, LeastExists
<1>5. t \in 0 .. b /\ b - t \in S
  BY <1>2
<1>6. ASSUME NEW n \in S PROVE n <= b - t
  <2>1. b - n \in T /\ n \in 0 .. b
    BY <1>1
  <2>2. t <= b - n
    BY <1>4, <2>1
  <2> QED BY <2>1, <2>2, <1>5
<1> QED BY <1>5, <1>6

\* The order an axis is walked in: document order, or its reverse.
Goes(axis, x, y) == IF axis \in ForwardAxes THEN x < y ELSE y < x

\* The next node of an axis is one of those left and comes before the others.
LEMMA NextIsFirst ==
  ASSUME NEW n \in Nat, NEW S \in SUBSET (1 .. n), S # {}, NEW axis
  PROVE  /\ NextOf(axis, S) \in S
         /\ \A y \in S \ {NextOf(axis, S)} : Goes(axis, NextOf(axis, S), y)
PROOF
<1>1. S \in SUBSET Nat /\ S \in SUBSET (0 .. n) /\ \A x \in S : x \in Int
  OBVIOUS
<1>2. CASE axis \in ForwardAxes
  <2>1. \E m \in S : \A y \in S : m <= y
    BY <1>1, LeastExists
  <2>2. Least(S) \in S /\ \A y \in S : Least(S) <= y
    BY <2>1 DEF Least
  <2>3. NextOf(axis, S) = Least(S)
    BY <1>2 DEF NextOf
  <2>4. ASSUME NEW y \in S \ {Least(S)} PROVE Least(S) < y
    <3>1. y \in Int /\ Least(S) \in Int /\ y # Least(S)
      BY <1>1, <2>2
    <3> QED BY <2>2, <3>1
  <2>5. \A y \in S \ {Least(S)} : Goes(axis, Least(S), y)
    BY <1>2, <2>4 DEF Goes
  <2> QED BY <2>2, <2>3, <2>5
<1>3. CASE axis \notin ForwardAxes
  <2>1. \E m \in S : \A y \in S : y <= m
    BY <1>1, GreatestExists
  <2>2. Greatest(S) \in S /\ \A y \in S : y <= Greatest(S)
    BY <2>1 DEF Greatest
  <2>3. NextOf(axis, S) = Greatest(S)
    BY <1>3 DEF NextOf
  <2>4. ASSUME NEW y \in S \ {Greatest(S)} PROVE y < Greatest(S)
    <3>1. y \in Int /\ Greatest(S) \in Int /\ y # Greatest(S)
      BY <1>1, <2>2
    <3> QED BY <2>2, <3>1
  <2>5. \A y \in S \ {Greatest(S)} : Goes(axis, Greatest(S), y)
    BY <1>3, <2>4 DEF Goes
  <2> QED BY <2>2, <2>3, <2>5
<1> QED BY <1>2, <1>3

-----------------------------------------------------------------------------
(* Documents: subtrees are nested, and a node is in one document.          *)

\* A document numbers its nodes from 1.
LEMMA NodesNumbered ==
  ASSUME NEW d \in Documents
  PROVE  \E n \in Nat : Nodes(d) = 1 .. n
PROOF
<1>1. \E n \in Nodes(d) \cup {0} : Nodes(d) = 1 .. n
  BY DocumentsAssumption DEF IsDocument
<1>2. PICK n \in Nodes(d) \cup {0} : Nodes(d) = 1 .. n
  BY <1>1
<1>3. n \in Nat
  BY <1>2
<1> QED BY <1>2, <1>3

LEMMA DocumentFacts ==
  ASSUME NEW d \in Documents
  PROVE  /\ \A x \in Nodes(d) : x \in Nat /\ d.last[x] \in Nodes(d) /\ d.root[x] \in Nodes(d)
         /\ \A x \in Nodes(d) : x <= d.last[x]
         /\ \A x, y \in Nodes(d) : Within(d, x, y) => d.last[y] <= d.last[x]
         /\ \A x \in d.attrs : d.last[x] = x /\ x \in Nodes(d)
PROOF
<1>1. IsDocument(d)
  BY DocumentsAssumption
<1>2. PICK n \in Nat : Nodes(d) = 1 .. n
  BY NodesNumbered
<1>3. \A x \in Nodes(d) : x \in Nat
  BY <1>2
<1>4. \A x \in Nodes(d) : d.last[x] \in Nodes(d) /\ d.root[x] \in Nodes(d) /\ x <= d.last[x]
  BY <1>1 DEF IsDocument
<1>5. \A x, y \in Nodes(d) : Within(d, x, y) => d.last[y] <= d.last[x]
  <2> SUFFICES ASSUME NEW x \in Nodes(d), NEW y \in Nodes(d), Within(d, x, y)
               PROVE  d.last[y] <= d.last[x]
    OBVIOUS
  <2>1. x \in Nat /\ y \in Nat /\ d.last[x] \in Nat
    BY <1>3, <1>4
  <2>2. y \in x .. d.last[x]
    BY <2>1 DEF Within
  <2> QED BY <1>1, <2>2 DEF IsDocument
<1>6. \A x \in d.attrs : d.last[x] = x /\ x \in Nodes(d)
  BY <1>1 DEF IsDocument
<1> QED BY <1>3, <1>4, <1>5, <1>6

LEMMA WithinTransitive ==
  ASSUME NEW d \in Documents, NEW x \in Nodes(d), NEW y \in Nodes(d), NEW z \in Nodes(d),
         Within(d, x, y), Within(d, y, z)
  PROVE  Within(d, x, z)
PROOF
<1>1. /\ x \in Nat /\ y \in Nat /\ z \in Nat /\ d.last[x] \in Nat /\ d.last[y] \in Nat
      /\ d.last[y] <= d.last[x]
  BY DocumentFacts
<1> QED BY <1>1 DEF Within

LEMMA WithinReflexive ==
  ASSUME NEW d \in Documents, NEW x \in Nodes(d)
  PROVE  Within(d, x, x)
PROOF
<1>1. x \in Nat /\ x <= d.last[x]
  BY DocumentFacts
<1> QED BY <1>1 DEF Within

\* The root of a node is the first node whose subtree the node is in.
LEMMA RootIsFirst ==
  ASSUME NEW d \in Documents, NEW x \in Nodes(d)
  PROVE  /\ d.root[x] \in Nodes(d)
         /\ Within(d, d.root[x], x)
         /\ \A z \in Nodes(d) : Within(d, z, x) => d.root[x] <= z
PROOF
<1> DEFINE r == d.root[x]
<1>1. IsDocument(d)
  BY DocumentsAssumption
<1>2. r \in Nodes(d) /\ x \in Nat /\ r \in Nat /\ d.last[r] \in Nat
  BY DocumentFacts
<1>3. /\ x \in r .. d.last[r]
      /\ \A z \in Nodes(d) : x \in z .. d.last[z] => r <= z
  <2>1. \A a, b \in Nodes(d) :
          (d.root[a] = b)
            => (a \in b .. d.last[b] /\ \A z \in Nodes(d) : a \in z .. d.last[z] => b <= z)
    BY <1>1 DEF IsDocument
  <2> QED BY <1>2, <2>1
<1>4. \A z \in Nodes(d) : Within(d, z, x) => x \in z .. d.last[z]
  BY <1>2, DocumentFacts DEF Within
<1>5. Within(d, r, x)
  BY <1>2, <1>3 DEF Within
<1> QED BY <1>2, <1>3, <1>4, <1>5

\* A subtree lies in one document.
LEMMA SubtreeInDocument ==
  ASSUME NEW d \in Documents, NEW x \in Nodes(d), NEW y \in Nodes(d), Within(d, x, y)
  PROVE  SameDocument(d, x, y)
PROOF
<1> DEFINE r == d.root[x]
           q == d.root[y]
<1>1. r \in Nodes(d) /\ Within(d, r, x) /\ \A z \in Nodes(d) : Within(d, z, x) => r <= z
  BY RootIsFirst
<1>2. q \in Nodes(d) /\ Within(d, q, y) /\ \A z \in Nodes(d) : Within(d, z, y) => q <= z
  BY RootIsFirst
<1> HIDE DEF r, q
<1>3. q <= r
  BY <1>1, <1>2, WithinTransitive
<1>4. /\ x \in Nat /\ y \in Nat /\ q \in Nat /\ r \in Nat
      /\ d.last[q] \in Nat /\ d.last[x] \in Nat /\ d.last[r] \in Nat
  BY <1>1, <1>2, DocumentFacts
<1>5. Within(d, q, x)
  BY <1>1, <1>2, <1>3, <1>4 DEF Within
<1>6. r <= q
  BY <1>1, <1>2, <1>5
<1>7. r = q
  BY <1>3, <1>4, <1>6
<1> QED BY <1>7 DEF SameDocument, r, q

\* What lies between two nodes of a document is in that document.
LEMMA BetweenInDocument ==
  ASSUME NEW d \in Documents, NEW x \in Nodes(d), NEW y \in Nodes(d), NEW z \in Nodes(d),
         x <= y, y <= z, SameDocument(d, x, z)
  PROVE  SameDocument(d, x, y)
PROOF
<1> DEFINE r == d.root[x]
<1>1. r \in Nodes(d) /\ Within(d, r, x)
  BY RootIsFirst
<1>2. d.root[z] = r
  BY DEF SameDocument
<1>3. Within(d, r, z)
  BY <1>2, RootIsFirst
<1> HIDE DEF r
<1>4. x \in Nat /\ y \in Nat /\ z \in Nat /\ r \in Nat /\ d.last[r] \in Nat
  BY <1>1, DocumentFacts
<1>5. Within(d, r, y)
  BY <1>1, <1>3, <1>4 DEF Within
<1>6. SameDocument(d, r, y) /\ SameDocument(d, r, x)
  BY <1>1, <1>5, SubtreeInDocument
<1> QED BY <1>6 DEF SameDocument


-----------------------------------------------------------------------------
(* The axes.                                                               *)

LEMMA AncestorFacts ==
  ASSUME NEW d \in Documents, NEW x \in Nodes(d)
  PROVE  /\ \A y \in Ancestors(d, x) : y \in Nodes(d) /\ y # x /\ Within(d, y, x)
         /\ \A y \in Parents(d, x) : y \in Ancestors(d, x)
         /\ \A y, z \in Parents(d, x) : y = z
PROOF
<1>1. \A y \in Ancestors(d, x) : y \in Nodes(d) /\ y # x /\ Within(d, y, x)
  BY DEF Ancestors
<1>2. \A y \in Parents(d, x) : y \in Ancestors(d, x)
  BY DEF Parents
<1>3. ASSUME NEW y \in Parents(d, x), NEW z \in Parents(d, x) PROVE y = z
  <2>1. y <= z /\ z <= y
    BY DEF Parents
  <2>2. y \in Nat /\ z \in Nat
    BY <1>1, <1>2, DocumentFacts
  <2> QED BY <2>1, <2>2
<1> QED BY <1>1, <1>2, <1>3

\* Each axis stays in the document, and those with SUBTREE in the subtree.
LEMMA AxisReaches ==
  ASSUME NEW d \in Documents, NEW axis \in Axes, NEW x \in Nodes(d),
         NEW y \in AxisNodes(d, axis, x)
  PROVE  /\ y \in Nodes(d)
         /\ SameDocument(d, x, y)
         /\ "SUBTREE" \in AxisProperties(axis) => Within(d, x, y)
         /\ axis = "self" => y = x
PROOF
<1> DEFINE content == Nodes(d) \ d.attrs
           under == {z \in content : z # x /\ Within(d, x, z)}
<1>1. CASE axis = "self"
  <2>1. y = x
    BY <1>1 DEF AxisNodes
  <2>2. Within(d, x, x)
    BY WithinReflexive
  <2> QED BY <2>1, <2>2 DEF SameDocument
<1>2. CASE axis \in {"child", "descendant"}
  <2>1. y \in under
    <3>1. CASE axis = "child"
      BY <3>1 DEF AxisNodes
    <3>2. CASE axis = "descendant"
      BY <3>2 DEF AxisNodes
    <3> QED BY <1>2, <3>1, <3>2
  <2>2. y \in Nodes(d) /\ Within(d, x, y)
    BY <2>1
  <2> QED BY <1>2, <2>2, SubtreeInDocument
<1>3. CASE axis = "descendant-or-self"
  <2>1. y \in under \cup {x}
    BY <1>3 DEF AxisNodes
  <2>2. y \in Nodes(d) /\ Within(d, x, y)
    BY <2>1, WithinReflexive
  <2> QED BY <1>3, <2>2, SubtreeInDocument
<1>4. CASE axis = "attribute"
  <2>1. y \in d.attrs /\ Parents(d, y) = {x}
    BY <1>4 DEF AxisNodes
  <2>2. y \in Nodes(d)
    BY <2>1, DocumentFacts
  <2>3. x \in Ancestors(d, y)
    BY <2>1, <2>2, AncestorFacts
  <2>4. Within(d, x, y)
    BY <2>2, <2>3, AncestorFacts
  <2> QED BY <1>4, <2>2, <2>4, SubtreeInDocument
<1>5. CASE axis \in {"following", "preceding"}
  <2>1. y \in Nodes(d) /\ SameDocument(d, x, y)
    <3>1. CASE axis = "following"
      BY <3>1 DEF AxisNodes
    <3>2. CASE axis = "preceding"
      BY <3>2 DEF AxisNodes
    <3> QED BY <1>5, <3>1, <3>2
  <2>2. "SUBTREE" \notin AxisProperties(axis)
    BY <1>5 DEF AxisProperties
  <2> QED BY <1>5, <2>1, <2>2
<1>6. CASE axis \in {"following-sibling", "preceding-sibling"}
  <2>1. y \in Siblings(d, x)
    <3>1. CASE axis = "following-sibling"
      BY <3>1 DEF AxisNodes
    <3>2. CASE axis = "preceding-sibling"
      BY <3>2 DEF AxisNodes
    <3> QED BY <1>6, <3>1, <3>2
  <2>2. y \in Nodes(d) /\ Parents(d, y) = Parents(d, x) /\ Parents(d, x) # {}
    <3>1. x \notin d.attrs
      BY <2>1 DEF Siblings
    <3> QED BY <2>1, <3>1 DEF Siblings
  <2>3. PICK z \in Parents(d, x) : z \in Parents(d, y)
    BY <2>2
  <2>4. z \in Nodes(d) /\ Within(d, z, x) /\ Within(d, z, y)
    BY <2>2, <2>3, AncestorFacts
  <2>5. SameDocument(d, z, x) /\ SameDocument(d, z, y)
    BY <2>2, <2>4, SubtreeInDocument
  <2>6. "SUBTREE" \notin AxisProperties(axis)
    BY <1>6 DEF AxisProperties
  <2> QED BY <1>6, <2>2, <2>5, <2>6 DEF SameDocument
<1>7. CASE axis \in {"parent", "ancestor", "ancestor-or-self"}
  <2>1. y \in Nodes(d) /\ Within(d, y, x)
    <3>1. CASE axis = "parent"
      <4>1. y \in Parents(d, x)
        BY <3>1 DEF AxisNodes
      <4> QED BY <4>1, AncestorFacts
    <3>2. CASE axis = "ancestor"
      <4>1. y \in Ancestors(d, x)
        BY <3>2 DEF AxisNodes
      <4> QED BY <4>1, AncestorFacts
    <3>3. CASE axis = "ancestor-or-self"
      <4>1. y \in Ancestors(d, x) \cup {x}
        BY <3>3 DEF AxisNodes
      <4> QED BY <4>1, AncestorFacts, WithinReflexive
    <3> QED BY <1>7, <3>1, <3>2, <3>3
  <2>2. SameDocument(d, y, x)
    BY <2>1, SubtreeInDocument
  <2>3. "SUBTREE" \notin AxisProperties(axis)
    BY <1>7 DEF AxisProperties
  <2> QED BY <1>7, <2>1, <2>2, <2>3 DEF SameDocument
<1> QED BY <1>1, <1>2, <1>3, <1>4, <1>5, <1>6, <1>7 DEF Axes, ForwardAxes, ReverseAxes

\* An axis with ONENODE has one node at most; the nodes of one with SUBTREE and
\* PEER are not in each other.
LEMMA AxisPairs ==
  ASSUME NEW d \in Documents, NEW axis \in Axes, NEW x \in Nodes(d),
         NEW y \in AxisNodes(d, axis, x), NEW z \in AxisNodes(d, axis, x)
  PROVE  /\ "ONENODE" \in AxisProperties(axis) => y = z
         /\ {"SUBTREE", "PEER"} \subseteq AxisProperties(axis) /\ Within(d, y, z) => y = z
PROOF
<1>1. y \in Nodes(d) /\ z \in Nodes(d)
  BY AxisReaches
<1>2. ASSUME "ONENODE" \in AxisProperties(axis) PROVE y = z
  <2>1. axis \in {"self", "parent"}
    BY <1>2 DEF AxisProperties, Axes, ForwardAxes, ReverseAxes
  <2>2. CASE axis = "self"
    BY <2>2, AxisReaches
  <2>3. CASE axis = "parent"
    <3>1. y \in Parents(d, x) /\ z \in Parents(d, x)
      BY <2>3 DEF AxisNodes
    <3> QED BY <3>1, AncestorFacts
  <2> QED BY <2>1, <2>2, <2>3
<1>3. ASSUME {"SUBTREE", "PEER"} \subseteq AxisProperties(axis), Within(d, y, z) PROVE y = z
  <2>1. axis \in {"self", "child", "attribute"}
    BY <1>3 DEF AxisProperties, Axes, ForwardAxes, ReverseAxes
  <2>2. CASE axis = "self"
    BY <2>2, AxisReaches
  <2>3. CASE axis = "child"
    <3>1. /\ Parents(d, z) = {x} /\ y # x /\ Within(d, x, y)
      BY <2>3 DEF AxisNodes
    <3>2. SUFFICES ASSUME y # z PROVE FALSE
      OBVIOUS
    <3>3. y \in Ancestors(d, z)
      BY <1>1, <1>3, <3>2 DEF Ancestors
    <3>4. y <= x
      BY <3>1, <3>3 DEF Parents
    <3>5. x \in Nat /\ y \in Nat
      BY <1>1, DocumentFacts
    <3> QED BY <3>1, <3>4, <3>5 DEF Within
  <2>4. CASE axis = "attribute"
    <3>1. y \in d.attrs
      BY <2>4 DEF AxisNodes
    <3>2. d.last[y] = y
      BY <3>1, DocumentFacts
    <3>3. y \in Nat /\ z \in Nat
      BY <1>1, DocumentFacts
    <3> QED BY <1>3, <3>2, <3>3 DEF Within
  <2> QED BY <2>1, <2>2, <2>3, <2>4
<1> QED BY <1>2, <1>3

\* A step selects nodes of its axis.
LEMMA SelectedOnAxis ==
  ASSUME NEW d \in Documents, NEW s \in Steps, NEW x \in Nodes(d)
  PROVE  /\ s.axis \in Axes
         /\ Selection[d][s][x] \subseteq AxisNodes(d, s.axis, x)
         /\ Selection[d][s][x] \subseteq Nodes(d)
PROOF
<1>1. s.axis \in Axes
  BY StepsAssumption
<1> DEFINE onAxis == AxisNodes(d, s.axis, x)
           tested == IF s.test = "any" THEN onAxis ELSE onAxis \cap d.named
<1>2. Selection[d][s][x]
        = IF s.pick = "first" /\ tested # {} THEN {NextOf(s.axis, tested)} ELSE tested
  BY DEF Selection
<1>3. tested \subseteq onAxis
  OBVIOUS
<1>4. onAxis \subseteq Nodes(d)
  BY <1>1, AxisReaches
<1>5. PICK n \in Nat : Nodes(d) = 1 .. n
  BY NodesNumbered
<1> HIDE DEF tested, onAxis
<1>6. tested # {} => NextOf(s.axis, tested) \in tested
  <2>1. tested \in SUBSET (1 .. n)
    BY <1>3, <1>4, <1>5
  <2> QED BY <2>1, NextIsFirst
<1>7. Selection[d][s][x] \subseteq tested
  BY <1>2, <1>6
<1>8. Selection[d][s][x] \subseteq onAxis
  BY <1>3, <1>7
<1> QED BY <1>1, <1>4, <1>8 DEF onAxis


-----------------------------------------------------------------------------
(* Walks: cur are the nodes a step s has returned for the nodes prev.      *)

\* The k-th node of cur is one that s selects from the node from[k] of prev.
\* The nodes of prev are taken in turn, and the nodes selected from one of them
\* are returned in the order of the axis.
Walks(d, s, prev, cur, from) ==
  /\ from \in [1 .. Len(cur) -> 1 .. Len(prev)]
  /\ \A k \in 1 .. Len(cur) : cur[k] \in Selection[d][s][prev[from[k]]]
  /\ \A j, k \in 1 .. Len(cur) :
       j < k => from[j] <= from[k] /\ (from[j] = from[k] => Goes(s.axis, cur[j], cur[k]))

\* What each claim about the axis says of a walk.
LEMMA WalkFacts ==
  ASSUME NEW d \in Documents, NEW s \in Steps,
         NEW prev \in Seq(Nodes(d)), NEW cur \in Seq(Nodes(d)), NEW from,
         Walks(d, s, prev, cur, from),
         NEW A, A = AxisProperties(s.axis)
  PROVE  /\ \A k \in 1 .. Len(cur) :
              /\ from[k] \in 1 .. Len(prev)
              /\ prev[from[k]] \in Nodes(d) /\ cur[k] \in Nodes(d)
              /\ SameDocument(d, prev[from[k]], cur[k])
              /\ "SUBTREE" \in A => Within(d, prev[from[k]], cur[k])
              /\ "SELF" \in A => cur[k] = prev[from[k]]
         /\ \A j, k \in 1 .. Len(cur) : j < k =>
              /\ from[j] <= from[k]
              /\ from[j] = from[k] => cur[j] # cur[k]
              /\ from[j] = from[k] /\ "DOCORDER" \in A => cur[j] < cur[k]
              /\ "ONENODE" \in A => from[j] < from[k]
         /\ \A j, k \in 1 .. Len(cur) :
              from[j] = from[k] /\ {"SUBTREE", "PEER"} \subseteq A
                /\ Within(d, cur[j], cur[k]) => cur[j] = cur[k]
PROOF
<1>1. ASSUME NEW k \in 1 .. Len(cur)
      PROVE  /\ from[k] \in 1 .. Len(prev)
             /\ prev[from[k]] \in Nodes(d) /\ cur[k] \in Nodes(d)
             /\ cur[k] \in AxisNodes(d, s.axis, prev[from[k]])
  <2>1. from[k] \in 1 .. Len(prev) /\ cur[k] \in Selection[d][s][prev[from[k]]]
    BY <1>1 DEF Walks
  <2>2. prev[from[k]] \in Nodes(d) /\ cur[k] \in Nodes(d)
    BY <2>1
  <2> QED BY <2>1, <2>2, SelectedOnAxis
<1>2. s.axis \in Axes
  BY StepsAssumption
<1>3. ASSUME NEW k \in 1 .. Len(cur)
      PROVE  /\ SameDocument(d, prev[from[k]], cur[k])
             /\ "SUBTREE" \in A => Within(d, prev[from[k]], cur[k])
             /\ "SELF" \in A => cur[k] = prev[from[k]]
  <2>1. "SELF" \in A => s.axis = "self"
    BY <1>2 DEF AxisProperties, Axes, ForwardAxes, ReverseAxes
  <2> QED BY <1>1, <1>2, <2>1, AxisReaches
<1>4. ASSUME NEW j \in 1 .. Len(cur), NEW k \in 1 .. Len(cur), from[j] = from[k]
      PROVE  /\ "ONENODE" \in A => cur[j] = cur[k]
             /\ {"SUBTREE", "PEER"} \subseteq A /\ Within(d, cur[j], cur[k])
                  => cur[j] = cur[k]
  <2>1. /\ prev[from[j]] \in Nodes(d)
        /\ cur[j] \in AxisNodes(d, s.axis, prev[from[j]])
        /\ cur[k] \in AxisNodes(d, s.axis, prev[from[j]])
    BY <1>1, <1>4
  <2> QED BY <1>2, <2>1, AxisPairs
<1>5. ASSUME NEW j \in 1 .. Len(cur), NEW k \in 1 .. Len(cur), j < k
      PROVE  /\ from[j] <= from[k]
             /\ from[j] = from[k] => cur[j] # cur[k]
             /\ from[j] = from[k] /\ "DOCORDER" \in A => cur[j] < cur[k]
             /\ "ONENODE" \in A => from[j] < from[k]
  <2>1. from[j] <= from[k] /\ (from[j] = from[k] => Goes(s.axis, cur[j], cur[k]))
    BY <1>5 DEF Walks
  <2>2. cur[j] \in Int /\ cur[k] \in Int /\ from[j] \in Int /\ from[k] \in Int
    BY <1>1, DocumentFacts
  <2>3. from[j] = from[k] => cur[j] # cur[k]
    BY <2>1, <2>2 DEF Goes
  <2>4. "ONENODE" \in A => from[j] < from[k]
    BY <1>4, <2>1, <2>2, <2>3
  <2>5. ASSUME from[j] = from[k], "DOCORDER" \in A PROVE cur[j] < cur[k]
    <3>1. CASE s.axis \in ForwardAxes
      BY <2>1, <2>5, <3>1 DEF Goes
    <3>2. CASE s.axis = "parent"
      <4>1. "ONENODE" \in A
        BY <3>2 DEF AxisProperties
      <4> QED BY <2>2, <2>4, <2>5, <4>1
    <3>3. s.axis \in ForwardAxes \cup {"parent"}
      BY <1>2, <2>5 DEF AxisProperties
    <3> QED BY <3>1, <3>2, <3>3
  <2> QED BY <2>1, <2>3, <2>4, <2>5
<1> QED BY <1>1, <1>3, <1>4, <1>5

\* The meaning of each claim, one by one.
LEMMA ClaimMeanings ==
  ASSUME NEW d, NEW s, NEW c
  PROVE  /\ Holds("DOCORDER", d, s, c) <=> InOrder(s)
         /\ Holds("PEER", d, s, c)
              <=> \A i, j \in DOMAIN s : Within(d, s[i], s[j]) => s[i] = s[j]
         /\ Holds("SUBTREE", d, s, c) <=> \A i \in DOMAIN s : Within(d, c, s[i])
         /\ Holds("GROUPED", d, s, c)
              <=> \A i, j, k \in DOMAIN s :
                    i < j /\ j < k /\ SameDocument(d, s[i], s[k])
                      => SameDocument(d, s[i], s[j])
         /\ Holds("SAMEDOC", d, s, c) <=> \A i \in DOMAIN s : SameDocument(d, c, s[i])
         /\ Holds("ONENODE", d, s, c) <=> Len(s) <= 1
         /\ Holds("SELF", d, s, c) <=> \A i \in DOMAIN s : s[i] = c
PROOF
BY DEF Holds

\* Nodes in document order are grouped by their documents.
LEMMA OrderGroups ==
  ASSUME NEW d \in Documents, NEW s \in Seq(Nodes(d)), NEW c, InOrder(s)
  PROVE  Holds("GROUPED", d, s, c)
PROOF
<1>1. ASSUME NEW i \in DOMAIN s, NEW j \in DOMAIN s, NEW k \in DOMAIN s,
             i < j, j < k, SameDocument(d, s[i], s[k])
      PROVE  SameDocument(d, s[i], s[j])
  <2>1. s[i] \in Nodes(d) /\ s[j] \in Nodes(d) /\ s[k] \in Nodes(d)
    OBVIOUS
  <2>2. s[i] < s[j] /\ s[j] < s[k]
    BY <1>1 DEF InOrder
  <2>3. s[i] \in Nat /\ s[j] \in Nat /\ s[k] \in Nat
    BY <2>1, DocumentFacts
  <2>4. s[i] <= s[j] /\ s[j] <= s[k]
    BY <2>2, <2>3
  <2> QED BY <1>1, <2>1, <2>4, BetweenInDocument
<1> QED BY <1>1, ClaimMeanings


\* A step to the node itself keeps some of the nodes, and what was claimed of
\* all of them.
LEMMA SelfKeeps ==
  ASSUME NEW d \in Documents, NEW s \in Steps, NEW c,
         NEW prev \in Seq(Nodes(d)), NEW cur \in Seq(Nodes(d)), NEW from,
         Walks(d, s, prev, cur, from),
         "SELF" \in AxisProperties(s.axis),
         NEW f \in Flags, Holds(f, d, prev, c)
  PROVE  Holds(f, d, cur, c)
PROOF
<1> DEFINE A == AxisProperties(s.axis)
<1>1. /\ \A k \in 1 .. Len(cur) : from[k] \in 1 .. Len(prev) /\ cur[k] = prev[from[k]]
      /\ \A j, k \in 1 .. Len(cur) : j < k => from[j] < from[k]
  <2>1. "ONENODE" \in A
    BY StepsAssumption DEF AxisProperties, Axes, ForwardAxes, ReverseAxes
  <2> HIDE DEF A
  <2>2. A = AxisProperties(s.axis) /\ "SELF" \in A
    BY DEF A
  <2> QED BY <2>1, <2>2, WalkFacts
<1>2. DOMAIN cur = 1 .. Len(cur) /\ DOMAIN prev = 1 .. Len(prev)
  OBVIOUS
<1>3. CASE f = "DOCORDER"
  <2>1. InOrder(prev)
    BY <1>3, ClaimMeanings
  <2>2. InOrder(cur)
    BY <1>1, <1>2, <2>1 DEF InOrder
  <2> QED BY <1>3, <2>2, ClaimMeanings
<1>4. CASE f = "PEER"
  <2>1. \A i, j \in DOMAIN prev : Within(d, prev[i], prev[j]) => prev[i] = prev[j]
    BY <1>4, ClaimMeanings
  <2>2. \A i, j \in DOMAIN cur : Within(d, cur[i], cur[j]) => cur[i] = cur[j]
    BY <1>1, <1>2, <2>1
  <2> QED BY <1>4, <2>2, ClaimMeanings
<1>5. CASE f = "SUBTREE"
  <2>1. \A i \in DOMAIN prev : Within(d, c, prev[i])
    BY <1>5, ClaimMeanings
  <2>2. \A i \in DOMAIN cur : Within(d, c, cur[i])
    BY <1>1, <1>2, <2>1
  <2> QED BY <1>5, <2>2, ClaimMeanings
<1>6. CASE f = "GROUPED"
  <2>1. \A i, j, k \in DOMAIN prev :
          i < j /\ j < k /\ SameDocument(d, prev[i], prev[k]) => SameDocument(d, prev[i], prev[j])
    BY <1>6, ClaimMeanings
  <2>2. \A i, j, k \in DOMAIN cur :
          i < j /\ j < k /\ SameDocument(d, cur[i], cur[k]) => SameDocument(d, cur[i], cur[j])
    BY <1>1, <1>2, <2>1
  <2> QED BY <1>6, <2>2, ClaimMeanings
<1>7. CASE f = "SAMEDOC"
  <2>1. \A i \in DOMAIN prev : SameDocument(d, c, prev[i])
    BY <1>7, ClaimMeanings
  <2>2. \A i \in DOMAIN cur : SameDocument(d, c, cur[i])
    BY <1>1, <1>2, <2>1
  <2> QED BY <1>7, <2>2, ClaimMeanings
<1>8. CASE f = "ONENODE"
  <2>1. Len(prev) <= 1
    BY <1>8, ClaimMeanings
  <2>2. Len(cur) <= 1
    <3>1. SUFFICES ASSUME Len(cur) > 1 PROVE FALSE
      OBVIOUS
    <3>2. 1 \in 1 .. Len(cur) /\ 2 \in 1 .. Len(cur)
      BY <3>1
    <3>3. from[1] < from[2] /\ from[1] \in 1 .. Len(prev) /\ from[2] \in 1 .. Len(prev)
      BY <1>1, <3>2
    <3> QED BY <2>1, <3>3
  <2> QED BY <1>8, <2>2, ClaimMeanings
<1>9. CASE f = "SELF"
  <2>1. \A i \in DOMAIN prev : prev[i] = c
    BY <1>9, ClaimMeanings
  <2>2. \A i \in DOMAIN cur : cur[i] = c
    BY <1>1, <1>2, <2>1
  <2> QED BY <1>9, <2>2, ClaimMeanings
<1> QED BY <1>3, <1>4, <1>5, <1>6, <1>7, <1>8, <1>9 DEF Flags

\* The subtrees of nodes in document order that are not in each other follow
\* each other: the nodes of the one come before those of the other.
LEMMA SubtreesFollow ==
  ASSUME NEW d \in Documents, NEW x \in Nodes(d), NEW y \in Nodes(d),
         NEW a \in Nodes(d), NEW b \in Nodes(d),
         x < y, ~Within(d, x, y), Within(d, x, a), Within(d, y, b)
  PROVE  a < b /\ ~Within(d, a, b) /\ ~Within(d, b, a)
PROOF
<1>1. /\ x \in Nat /\ y \in Nat /\ a \in Nat /\ b \in Nat
      /\ d.last[x] \in Nat /\ d.last[y] \in Nat /\ d.last[a] \in Nat
      /\ d.last[a] <= d.last[x]
  BY DocumentFacts
<1>2. d.last[x] < y
  BY <1>1 DEF Within
<1>3. a <= d.last[x] /\ y <= b
  BY DEF Within
<1> QED BY <1>1, <1>2, <1>3 DEF Within

\* Steps into subtrees from nodes in order that are not in each other: KeepsOrder.
LEMMA SubtreesInOrder ==
  ASSUME NEW d \in Documents, NEW s \in Steps, NEW c,
         NEW prev \in Seq(Nodes(d)), NEW cur \in Seq(Nodes(d)), NEW from,
         Walks(d, s, prev, cur, from),
         {"DOCORDER", "SUBTREE"} \subseteq AxisProperties(s.axis),
         Holds("DOCORDER", d, prev, c), Holds("PEER", d, prev, c)
  PROVE  /\ InOrder(cur)
         /\ "PEER" \in AxisProperties(s.axis) => Holds("PEER", d, cur, c)
PROOF
<1> DEFINE A == AxisProperties(s.axis)
<1>1. /\ \A k \in 1 .. Len(cur) :
           /\ from[k] \in 1 .. Len(prev)
           /\ prev[from[k]] \in Nodes(d) /\ cur[k] \in Nodes(d)
           /\ Within(d, prev[from[k]], cur[k])
      /\ \A j, k \in 1 .. Len(cur) : j < k =>
           /\ from[j] <= from[k]
           /\ from[j] = from[k] => cur[j] < cur[k]
      /\ \A j, k \in 1 .. Len(cur) :
           from[j] = from[k] /\ "PEER" \in A /\ Within(d, cur[j], cur[k]) => cur[j] = cur[k]
  <2> HIDE DEF A
  <2>1. A = AxisProperties(s.axis) /\ {"DOCORDER", "SUBTREE"} \subseteq A
    BY DEF A
  <2> QED BY <2>1, WalkFacts
<1>2. DOMAIN cur = 1 .. Len(cur) /\ DOMAIN prev = 1 .. Len(prev)
  OBVIOUS
<1>3. \A i, j \in 1 .. Len(prev) : i < j => prev[i] < prev[j]
  BY <1>2, ClaimMeanings DEF InOrder
<1>4. \A i, j \in 1 .. Len(prev) : Within(d, prev[i], prev[j]) => prev[i] = prev[j]
  BY <1>2, ClaimMeanings
<1> HIDE DEF A
<1>5. ASSUME NEW j \in 1 .. Len(cur), NEW k \in 1 .. Len(cur), from[j] < from[k]
      PROVE  cur[j] < cur[k] /\ ~Within(d, cur[j], cur[k]) /\ ~Within(d, cur[k], cur[j])
  <2> DEFINE x == prev[from[j]]
             y == prev[from[k]]
  <2>1. from[j] \in 1 .. Len(prev) /\ from[k] \in 1 .. Len(prev) /\ x \in Nodes(d) /\ y \in Nodes(d)
    BY <1>1
  <2>2. x < y
    BY <1>3, <1>5, <2>1
  <2>3. ~Within(d, x, y)
    <3>1. x \in Nat /\ y \in Nat
      BY <2>1, DocumentFacts
    <3>2. Within(d, x, y) => x = y
      BY <1>4, <2>1
    <3> HIDE DEF x, y
    <3> QED BY <2>2, <3>1, <3>2
  <2>4. Within(d, x, cur[j]) /\ Within(d, y, cur[k]) /\ cur[j] \in Nodes(d) /\ cur[k] \in Nodes(d)
    BY <1>1
  <2> HIDE DEF x, y
  <2> QED BY <2>1, <2>2, <2>3, <2>4, SubtreesFollow
<1>6. \A j \in 1 .. Len(cur) : from[j] \in Int
  BY <1>1
<1>7. InOrder(cur)
  <2>1. ASSUME NEW j \in 1 .. Len(cur), NEW k \in 1 .. Len(cur), j < k
        PROVE  cur[j] < cur[k]
    <3>1. CASE from[j] = from[k]
      BY <1>1, <2>1, <3>1
    <3>2. CASE from[j] # from[k]
      <4>1. from[j] < from[k]
        BY <1>1, <1>6, <2>1, <3>2
      <4> QED BY <1>5, <4>1
    <3> QED BY <3>1, <3>2
  <2> QED BY <1>2, <2>1 DEF InOrder
<1>8. ASSUME "PEER" \in A PROVE Holds("PEER", d, cur, c)
  <2>1. ASSUME NEW j \in 1 .. Len(cur), NEW k \in 1 .. Len(cur), Within(d, cur[j], cur[k])
        PROVE  cur[j] = cur[k]
    <3>1. CASE from[j] = from[k]
      BY <1>1, <1>8, <2>1, <3>1
    <3>2. CASE from[j] < from[k]
      BY <1>5, <2>1, <3>2
    <3>3. CASE from[k] < from[j]
      BY <1>5, <2>1, <3>3
    <3>4. from[j] \in Int /\ from[k] \in Int
      BY <1>6
    <3>5. from[j] = from[k] \/ from[j] < from[k] \/ from[k] < from[j]
      BY <3>4
    <3> QED BY <3>1, <3>2, <3>3, <3>5
  <2> QED BY <1>2, <2>1, ClaimMeanings
<1> QED BY <1>7, <1>8 DEF A


\* Nodes grouped by their documents stay grouped under every step.
LEMMA GroupsStay ==
  ASSUME NEW d \in Documents, NEW s \in Steps, NEW c,
         NEW prev \in Seq(Nodes(d)), NEW cur \in Seq(Nodes(d)), NEW from,
         Walks(d, s, prev, cur, from),
         Holds("GROUPED", d, prev, c)
  PROVE  Holds("GROUPED", d, cur, c)
PROOF
<1>1. \A k \in 1 .. Len(cur) :
        from[k] \in 1 .. Len(prev) /\ SameDocument(d, prev[from[k]], cur[k])
  BY WalkFacts
<1>2. \A j, k \in 1 .. Len(cur) : j < k => from[j] <= from[k]
  BY DEF Walks
<1>3. \A i, j, k \in 1 .. Len(prev) :
        i < j /\ j < k /\ SameDocument(d, prev[i], prev[k]) => SameDocument(d, prev[i], prev[j])
  BY ClaimMeanings
<1>4. ASSUME NEW i \in 1 .. Len(cur), NEW j \in 1 .. Len(cur), NEW k \in 1 .. Len(cur),
             i < j, j < k, SameDocument(d, cur[i], cur[k])
      PROVE  SameDocument(d, cur[i], cur[j])
  <2> DEFINE a == from[i]
             b == from[j]
             e == from[k]
  <2>1. a \in 1 .. Len(prev) /\ b \in 1 .. Len(prev) /\ e \in 1 .. Len(prev)
    BY <1>1
  <2>2. a <= b /\ b <= e
    BY <1>2, <1>4
  <2>3. /\ SameDocument(d, prev[a], cur[i]) /\ SameDocument(d, prev[b], cur[j])
        /\ SameDocument(d, prev[e], cur[k])
    BY <1>1
  <2> HIDE DEF a, b, e
  <2>4. SameDocument(d, prev[a], prev[e])
    BY <1>4, <2>3 DEF SameDocument
  <2>5. SameDocument(d, prev[a], prev[b])
    <3>1. CASE a = b
      BY <3>1 DEF SameDocument
    <3>2. CASE b = e
      BY <2>4, <3>2
    <3>3. CASE a < b /\ b < e
      BY <1>3, <2>1, <2>4, <3>3
    <3> QED BY <2>1, <2>2, <3>1, <3>2, <3>3
  <2> QED BY <2>3, <2>5 DEF SameDocument
<1>5. DOMAIN cur = 1 .. Len(cur)
  OBVIOUS
<1>6. \A i, j, k \in DOMAIN cur :
        i < j /\ j < k /\ SameDocument(d, cur[i], cur[k]) => SameDocument(d, cur[i], cur[j])
  BY <1>4, <1>5, Zenon
<1> QED BY <1>6, ClaimMeanings, Zenon

\* The claims that only relate a node to the context: by way of the node the
\* walk came from.
LEMMA ContextClaims ==
  ASSUME NEW d \in Documents, NEW s \in Steps, NEW c \in Nodes(d),
         NEW prev \in Seq(Nodes(d)), NEW cur \in Seq(Nodes(d)), NEW from,
         Walks(d, s, prev, cur, from)
  PROVE  /\ Holds("SUBTREE", d, prev, c) /\ "SUBTREE" \in AxisProperties(s.axis)
              => Holds("SUBTREE", d, cur, c)
         /\ Holds("SAMEDOC", d, prev, c) => Holds("SAMEDOC", d, cur, c)
         /\ Holds("ONENODE", d, prev, c) /\ "ONENODE" \in AxisProperties(s.axis)
              => Holds("ONENODE", d, cur, c)
         /\ Holds("ONENODE", d, prev, c) /\ "DOCORDER" \in AxisProperties(s.axis)
              => InOrder(cur)
PROOF
<1> DEFINE A == AxisProperties(s.axis)
<1>1. /\ \A k \in 1 .. Len(cur) :
           /\ from[k] \in 1 .. Len(prev)
           /\ prev[from[k]] \in Nodes(d) /\ cur[k] \in Nodes(d)
           /\ SameDocument(d, prev[from[k]], cur[k])
           /\ "SUBTREE" \in A => Within(d, prev[from[k]], cur[k])
      /\ \A j, k \in 1 .. Len(cur) : j < k =>
           /\ from[j] = from[k] /\ "DOCORDER" \in A => cur[j] < cur[k]
           /\ "ONENODE" \in A => from[j] < from[k]
  <2> HIDE DEF A
  <2>1. A = AxisProperties(s.axis)
    BY DEF A
  <2> QED BY <2>1, WalkFacts
<1> HIDE DEF A
<1>2. ASSUME Holds("SUBTREE", d, prev, c), "SUBTREE" \in A
      PROVE  Holds("SUBTREE", d, cur, c)
  <2>1. \A i \in 1 .. Len(prev) : Within(d, c, prev[i])
    BY <1>2, ClaimMeanings
  <2>2. \A k \in 1 .. Len(cur) : Within(d, c, cur[k])
    BY <1>1, <1>2, <2>1, WithinTransitive
  <2> QED BY <2>2, ClaimMeanings
<1>3. ASSUME Holds("SAMEDOC", d, prev, c)
      PROVE  Holds("SAMEDOC", d, cur, c)
  <2>1. \A i \in 1 .. Len(prev) : SameDocument(d, c, prev[i])
    BY <1>3, ClaimMeanings
  <2>2. \A k \in 1 .. Len(cur) : SameDocument(d, c, cur[k])
    BY <1>1, <2>1 DEF SameDocument
  <2> QED BY <2>2, ClaimMeanings
<1>4. ASSUME Holds("ONENODE", d, prev, c) PROVE \A k \in 1 .. Len(cur) : from[k] = 1
  <2>1. Len(prev) <= 1 /\ Len(prev) \in Nat
    BY <1>4, ClaimMeanings
  <2> QED BY <1>1, <2>1
<1>5. ASSUME Holds("ONENODE", d, prev, c), "ONENODE" \in A
      PROVE  Holds("ONENODE", d, cur, c)
  <2>1. Len(cur) <= 1
    <3>1. SUFFICES ASSUME Len(cur) > 1 PROVE FALSE
      OBVIOUS
    <3>2. 1 \in 1 .. Len(cur) /\ 2 \in 1 .. Len(cur)
      BY <3>1
    <3>3. from[1] < from[2] /\ from[1] = 1 /\ from[2] = 1
      BY <1>1, <1>4, <1>5, <3>2
    <3> QED BY <3>3
  <2> QED BY <2>1, ClaimMeanings
<1>6. ASSUME Holds("ONENODE", d, prev, c), "DOCORDER" \in A
      PROVE  InOrder(cur)
  <2>1. \A j, k \in 1 .. Len(cur) : j < k => cur[j] < cur[k]
    BY <1>1, <1>4, <1>6
  <2> QED BY <2>1 DEF InOrder
<1> QED BY <1>2, <1>3, <1>5, <1>6 DEF A

\* What Combine works out for a step from the claims of the nodes before it
\* holds of the nodes after it (XQNav::combineProperties).
LEMMA CombinedHolds ==
  ASSUME NEW d \in Documents, NEW s \in Steps, NEW c \in Nodes(d),
         NEW prev \in Seq(Nodes(d)), NEW cur \in Seq(Nodes(d)), NEW from,
         Walks(d, s, prev, cur, from),
         NEW p \in SUBSET Flags, "PEER" \in p => "SUBTREE" \in p,
         HoldAll(p, d, prev, c)
  PROVE  HoldAll(Combine(p, AxisProperties(s.axis)), d, cur, c)
PROOF
<1> DEFINE A == AxisProperties(s.axis)
<1>1. \A f \in p : Holds(f, d, prev, c)
  BY DEF HoldAll
<1>2. ASSUME NEW f \in p, "SELF" \in A PROVE Holds(f, d, cur, c)
  <2>1. f \in Flags /\ Holds(f, d, prev, c)
    BY <1>1
  <2> QED BY <1>2, <2>1, SelfKeeps
<1>3. ASSUME "ONENODE" \in p, "DOCORDER" \in A
      PROVE  Holds("DOCORDER", d, cur, c) /\ Holds("GROUPED", d, cur, c)
  <2>1. InOrder(cur)
    BY <1>1, <1>3, ContextClaims
  <2> QED BY <2>1, OrderGroups, ClaimMeanings
<1>4. ASSUME "SUBTREE" \in p, "SUBTREE" \in A PROVE Holds("SUBTREE", d, cur, c)
  BY <1>1, <1>4, ContextClaims
<1>5. ASSUME KeepsOrder(p, A)
      PROVE  /\ Holds("DOCORDER", d, cur, c) /\ Holds("GROUPED", d, cur, c)
             /\ Holds("SUBTREE", d, cur, c)
             /\ "PEER" \in p \cap A => Holds("PEER", d, cur, c)
  <2>1. /\ "DOCORDER" \in p /\ "PEER" \in p /\ "SUBTREE" \in p
        /\ {"DOCORDER", "SUBTREE"} \subseteq A
    BY <1>5 DEF KeepsOrder
  <2>2. Holds("DOCORDER", d, prev, c) /\ Holds("PEER", d, prev, c)
    BY <1>1, <2>1
  <2>3. InOrder(cur) /\ ("PEER" \in A => Holds("PEER", d, cur, c))
    BY <2>1, <2>2, SubtreesInOrder
  <2> QED BY <1>4, <2>1, <2>3, OrderGroups, ClaimMeanings
<1>6. ASSUME "GROUPED" \in p PROVE Holds("GROUPED", d, cur, c)
  BY <1>1, <1>6, GroupsStay
<1>7. ASSUME "SAMEDOC" \in p PROVE Holds("SAMEDOC", d, cur, c)
  BY <1>1, <1>7, ContextClaims
<1>8. ASSUME "ONENODE" \in p, "ONENODE" \in A PROVE Holds("ONENODE", d, cur, c)
  BY <1>1, <1>8, ContextClaims
<1> HIDE DEF A
<1>9. ASSUME NEW f \in Combine(p, A) PROVE Holds(f, d, cur, c)
  <2>1. \/ "SELF" \in A /\ f \in p
        \/ "ONENODE" \in p /\ "DOCORDER" \in A /\ f \in {"DOCORDER", "GROUPED"}
        \/ KeepsOrder(p, A) /\ f \in {"DOCORDER", "GROUPED", "SUBTREE"}
        \/ KeepsOrder(p, A) /\ f = "PEER" /\ "PEER" \in p \cap A
        \/ "GROUPED" \in p /\ f = "GROUPED"
        \/ f \in {"SUBTREE", "SAMEDOC", "ONENODE"} /\ f \in p /\ f \in A
    BY <1>9 DEF Combine
  <2> QED BY <1>2, <1>3, <1>4, <1>5, <1>6, <1>7, <1>8, <2>1
<1> QED BY <1>9 DEF HoldAll, A

\* Combine claims PEER only together with SUBTREE.
LEMMA PeersInSubtree ==
  ASSUME NEW p \in SUBSET Flags, "PEER" \in p => "SUBTREE" \in p, NEW A
  PROVE  /\ Combine(p, A) \in SUBSET Flags
         /\ "PEER" \in Combine(p, A) => "SUBTREE" \in Combine(p, A)
PROOF
<1>1. Combine(p, A) \in SUBSET Flags
  BY DEF Combine, Flags
<1>2. "PEER" \in Combine(p, A) => "SUBTREE" \in Combine(p, A)
  BY DEF Combine
<1> QED BY <1>1, <1>2


-----------------------------------------------------------------------------
(* The invariant.                                                          *)

\* What stage i asks for nodes: the stage before it, or the context item.
Before(i) == IF i # 1 THEN got[i - 1] ELSE IF rest[0] = {} THEN <<context>> ELSE <<>>
ClaimedOf(i) == IF i # 1 THEN claims[i - 1] ELSE OneContextNode

\* Where a stage stands in its walk: left is what is left of the axis of the
\* last node it has been given, and comes after what it has returned for it.
Stands(d, s, prev, cur, left) ==
  \E from \in [1 .. Len(cur) -> 1 .. Len(prev)] :
    /\ Walks(d, s, prev, cur, from)
    /\ \A k \in 1 .. Len(cur), y \in left :
         from[k] = Len(prev) => Goes(s.axis, cur[k], y)
    /\ left # {} => /\ prev # <<>>
                    /\ left \subseteq Selection[d][s][prev[Len(prev)]]

\* What the nodes before select has been returned or is left.
LosesNothing(d, s, prev, cur, left) ==
  \A m \in 1 .. Len(prev) : Selection[d][s][prev[m]] \subseteq Elements(cur) \cup left

Typed ==
  /\ doc \in Documents /\ context \in Nodes(doc) /\ ordered \in BOOLEAN
  /\ path \in Seq(Steps) /\ claims \in Seq(SUBSET Flags) /\ Len(claims) = Last
  /\ sort \in {"typing", "none", "unique", "sort", "sorted"}
  /\ asked \in Idle .. Sorter
  /\ found \subseteq Nodes(doc) /\ delivered \in Seq(Nodes(doc))
  /\ sort # "typing" =>
       /\ path # <<>>
       /\ rest \in [0 .. Last -> SUBSET Nodes(doc)] /\ rest[0] \subseteq {context}
       /\ got \in [Stages -> Seq(Nodes(doc))]

ClaimsCombined ==
  \A i \in Stages :
    /\ claims[i] = Combine(ClaimedOf(i), AxisProperties(path[i].axis))
    /\ "PEER" \in claims[i] => "SUBTREE" \in claims[i]

StagesStand ==
  sort # "typing" => \A i \in Stages :
    /\ Stands(doc, path[i], Before(i), got[i], rest[i])
    /\ LosesNothing(doc, path[i], Before(i), got[i], rest[i])

\* While stage asked is called, the stages after it have used up their axes.
Drained == asked # Idle => \A i \in Stages : asked < i => rest[i] = {}

\* What the sort, or the removal of duplicates, has made of the last step's nodes.
Received ==
  /\ sort = "typing" => asked = Idle /\ found = {} /\ delivered = <<>>
  /\ asked = Sorter => sort = "sorted"
  /\ sort = "none" => delivered = got[Last] /\ "DOCORDER" \in claims[Last]
  /\ sort = "unique" => Elements(delivered) = Elements(got[Last]) /\ ordered = FALSE
  /\ sort = "sort" => found = Elements(got[Last]) /\ delivered = <<>>
  /\ sort = "sorted" =>
       /\ asked \in {Idle, Sorter} /\ \A i \in 0 .. Last : rest[i] = {}
       /\ found \cup Elements(delivered) = Elements(got[Last])
       /\ found \cap Elements(delivered) = {}

PipelineInv ==
  /\ Typed /\ ClaimsCombined /\ StagesStand /\ ClaimsHold /\ Drained /\ Received


-----------------------------------------------------------------------------
(* How a walk goes on.                                                     *)

LEMMA ElementsOfAppend ==
  ASSUME NEW T, NEW cur \in Seq(T), NEW x \in T
  PROVE  Elements(Append(cur, x)) = Elements(cur) \cup {x}
PROOF
<1> DEFINE new == Append(cur, x)
<1>1. /\ DOMAIN new = 1 .. Len(cur) + 1 /\ DOMAIN cur = 1 .. Len(cur)
      /\ \A i \in 1 .. Len(cur) : new[i] = cur[i]
      /\ new[Len(cur) + 1] = x
      /\ Len(cur) \in Nat
  OBVIOUS
<1> HIDE DEF new
<1>2. \A i \in 1 .. Len(cur) : i \in 1 .. Len(cur) + 1
  BY <1>1
<1>3. Len(cur) + 1 \in 1 .. Len(cur) + 1
  BY <1>1
<1>4. \A i \in 1 .. Len(cur) + 1 : i \in 1 .. Len(cur) \/ i = Len(cur) + 1
  BY <1>1
<1>5. Elements(new) = Elements(cur) \cup {x}
  BY <1>1, <1>2, <1>3, <1>4 DEF Elements
<1> QED BY <1>5 DEF new

\* Nothing has been asked of the stage before, or returned.
LEMMA StandsAtStart ==
  ASSUME NEW d, NEW s, NEW prev, Len(prev) \in Nat
  PROVE  Stands(d, s, prev, <<>>, {}) /\ (prev = <<>> => LosesNothing(d, s, prev, <<>>, {}))
PROOF
<1> DEFINE from == [k \in 1 .. 0 |-> 1]
<1>1. from \in [1 .. Len(<<>>) -> 1 .. Len(prev)]
  OBVIOUS
<1>2. Walks(d, s, prev, <<>>, from)
  BY <1>1 DEF Walks
<1>3. Stands(d, s, prev, <<>>, {})
  BY <1>1, <1>2 DEF Stands
<1> QED BY <1>3 DEF LosesNothing

\* A stage that returns a node of the axis it is on goes on with its walk.
LEMMA WalkReturns ==
  ASSUME NEW d \in Documents, NEW s \in Steps,
         NEW prev \in Seq(Nodes(d)), NEW cur \in Seq(Nodes(d)), NEW from, NEW x, prev # <<>>,
         Walks(d, s, prev, cur, from),
         x \in Selection[d][s][prev[Len(prev)]],
         \A k \in 1 .. Len(cur) : from[k] = Len(prev) => Goes(s.axis, cur[k], x),
         NEW onward, onward = [k \in 1 .. Len(cur) + 1 |->
                                 IF k = Len(cur) + 1 THEN Len(prev) ELSE from[k]]
  PROVE  /\ Append(cur, x) \in Seq(Nodes(d)) /\ x \in Nodes(d)
         /\ onward \in [1 .. Len(Append(cur, x)) -> 1 .. Len(prev)]
         /\ Walks(d, s, prev, Append(cur, x), onward)
PROOF
<1> DEFINE new == Append(cur, x)
           n == Len(cur)
           m == Len(prev)
<1>1. n \in Nat /\ m \in 1 .. Len(prev) /\ m \in Nat
  OBVIOUS
<1>2. x \in Nodes(d)
  <2>1. prev[m] \in Nodes(d)
    BY <1>1
  <2> QED BY <2>1, SelectedOnAxis
<1>3. /\ new \in Seq(Nodes(d)) /\ Len(new) = n + 1
      /\ new[n + 1] = x /\ \A k \in 1 .. n : new[k] = cur[k]
  BY <1>2
<1>4. /\ \A k \in 1 .. n : from[k] \in 1 .. m
      /\ \A k \in 1 .. n : cur[k] \in Selection[d][s][prev[from[k]]]
      /\ \A j, k \in 1 .. n :
           j < k => from[j] <= from[k] /\ (from[j] = from[k] => Goes(s.axis, cur[j], cur[k]))
  BY DEF Walks
<1>5. x \in Selection[d][s][prev[m]] /\ \A k \in 1 .. n : from[k] = m => Goes(s.axis, cur[k], x)
  OBVIOUS
<1>6. /\ onward[n + 1] = m
      /\ \A k \in 1 .. n : onward[k] = from[k]
      /\ onward \in [1 .. n + 1 -> 1 .. m]
  BY <1>1, <1>4
<1> HIDE DEF new, n, m
<1>7. \A k \in 1 .. n + 1 : k \in 1 .. n \/ k = n + 1
  BY <1>1
<1>8. \A k \in 1 .. n + 1 : new[k] \in Selection[d][s][prev[onward[k]]]
  BY <1>3, <1>4, <1>5, <1>6, <1>7
<1>9. ASSUME NEW j \in 1 .. n + 1, NEW k \in 1 .. n + 1, j < k
      PROVE  /\ onward[j] <= onward[k]
             /\ onward[j] = onward[k] => Goes(s.axis, new[j], new[k])
  <2>1. j \in 1 .. n
    BY <1>1, <1>9
  <2>2. CASE k \in 1 .. n
    <3>1. /\ onward[j] = from[j] /\ onward[k] = from[k]
          /\ new[j] = cur[j] /\ new[k] = cur[k]
      BY <1>3, <1>6, <2>1, <2>2
    <3>2. from[j] <= from[k] /\ (from[j] = from[k] => Goes(s.axis, cur[j], cur[k]))
      BY <1>4, <1>9, <2>1, <2>2
    <3> QED BY <3>1, <3>2
  <2>3. CASE k = n + 1
    <3>1. /\ onward[j] = from[j] /\ onward[k] = m
          /\ new[j] = cur[j] /\ new[k] = x
      BY <1>3, <1>6, <2>1, <2>3
    <3>2. from[j] <= m
      BY <1>1, <1>4, <2>1
    <3> QED BY <1>5, <2>1, <3>1, <3>2
  <2> QED BY <1>7, <2>2, <2>3
<1>10. Walks(d, s, prev, new, onward)
  BY <1>3, <1>6, <1>8, <1>9 DEF Walks, m
<1> QED BY <1>2, <1>3, <1>6, <1>10 DEF new, m

LEMMA NextNode ==
  ASSUME NEW d \in Documents, NEW left \in SUBSET Nodes(d), left # {}, NEW axis
  PROVE  /\ NextOf(axis, left) \in left
         /\ \A y \in left \ {NextOf(axis, left)} : Goes(axis, NextOf(axis, left), y)
PROOF
<1>1. PICK n \in Nat : Nodes(d) = 1 .. n
  BY NodesNumbered
<1>2. left \in SUBSET (1 .. n)
  BY <1>1
<1> QED BY <1>2, NextIsFirst

LEMMA LeastNode ==
  ASSUME NEW d \in Documents, NEW S \in SUBSET Nodes(d), S # {}
  PROVE  Least(S) \in S /\ \A y \in S : Least(S) <= y
PROOF
<1>1. S \in SUBSET Nat
  BY DocumentFacts
<1>2. \E m \in S : \A y \in S : m <= y
  BY <1>1, LeastExists
<1> QED BY <1>2 DEF Least

LEMMA StandsReturn ==
  ASSUME NEW d \in Documents, NEW s \in Steps,
         NEW prev \in Seq(Nodes(d)), NEW cur \in Seq(Nodes(d)), NEW left,
         Stands(d, s, prev, cur, left),
         NEW x \in left, \A y \in left \ {x} : Goes(s.axis, x, y)
  PROVE  /\ Append(cur, x) \in Seq(Nodes(d))
         /\ Stands(d, s, prev, Append(cur, x), left \ {x})
         /\ LosesNothing(d, s, prev, cur, left)
              => LosesNothing(d, s, prev, Append(cur, x), left \ {x})
PROOF
<1>2. \A y \in left \ {x} : Goes(s.axis, x, y)
  OBVIOUS
<1>3. PICK from \in [1 .. Len(cur) -> 1 .. Len(prev)] :
        /\ Walks(d, s, prev, cur, from)
        /\ \A k \in 1 .. Len(cur), y \in left :
             from[k] = Len(prev) => Goes(s.axis, cur[k], y)
        /\ left # {} => prev # <<>> /\ left \subseteq Selection[d][s][prev[Len(prev)]]
  BY DEF Stands
<1> DEFINE onward == [k \in 1 .. Len(cur) + 1 |->
                        IF k = Len(cur) + 1 THEN Len(prev) ELSE from[k]]
<1>4. onward = [k \in 1 .. Len(cur) + 1 |->
                  IF k = Len(cur) + 1 THEN Len(prev) ELSE from[k]]
  OBVIOUS
<1> HIDE DEF onward
<1>5. /\ prev # <<>> /\ x \in Selection[d][s][prev[Len(prev)]]
      /\ \A k \in 1 .. Len(cur) : from[k] = Len(prev) => Goes(s.axis, cur[k], x)
  BY <1>2, <1>3
<1>6. Walks(d, s, prev, cur, from)
  BY <1>3
<1>7. /\ Append(cur, x) \in Seq(Nodes(d)) /\ x \in Nodes(d)
      /\ onward \in [1 .. Len(Append(cur, x)) -> 1 .. Len(prev)]
      /\ Walks(d, s, prev, Append(cur, x), onward)
  <2>1. /\ prev # <<>>
        /\ Walks(d, s, prev, cur, from)
        /\ x \in Selection[d][s][prev[Len(prev)]]
        /\ \A k \in 1 .. Len(cur) : from[k] = Len(prev) => Goes(s.axis, cur[k], x)
    BY <1>5, <1>6
  <2>2. Append(cur, x) \in Seq(Nodes(d)) /\ x \in Nodes(d)
    <3>1. prev[Len(prev)] \in Nodes(d)
      BY <2>1
    <3>2. x \in Nodes(d)
      BY <2>1, <3>1, SelectedOnAxis
    <3> QED BY <3>2
  <2>3. Walks(d, s, prev, Append(cur, x), onward)
    BY <1>4, <2>1, WalkReturns
  <2> QED BY <2>2, <2>3 DEF Walks
<1>8. ASSUME NEW k \in 1 .. Len(Append(cur, x)), NEW y \in left \ {x},
             onward[k] = Len(prev)
      PROVE  Goes(s.axis, Append(cur, x)[k], y)
  <2>1. Len(Append(cur, x)) = Len(cur) + 1 /\ Len(cur) \in Nat
    BY <1>7
  <2>2. CASE k = Len(cur) + 1
    <3>1. Append(cur, x)[k] = x
      BY <1>7, <2>1, <2>2
    <3> QED BY <1>2, <3>1
  <2>3. CASE k \in 1 .. Len(cur)
    <3>1. Append(cur, x)[k] = cur[k]
      BY <1>7, <2>1, <2>3
    <3>2. onward[k] = from[k]
      BY <1>4, <2>1, <2>3
    <3> QED BY <1>3, <1>8, <2>3, <3>1, <3>2
  <2> QED BY <2>1, <2>2, <2>3
<1>9. left \ {x} \subseteq Selection[d][s][prev[Len(prev)]]
  BY <1>2, <1>3
<1>10. Stands(d, s, prev, Append(cur, x), left \ {x})
  BY <1>5, <1>7, <1>8, <1>9 DEF Stands
<1>11. Elements(Append(cur, x)) \cup (left \ {x}) = Elements(cur) \cup left
  <2>1. Elements(Append(cur, x)) = Elements(cur) \cup {x}
    BY <1>7, ElementsOfAppend
  <2> QED BY <1>2, <2>1
<1> QED BY <1>2, <1>7, <1>10, <1>11 DEF LosesNothing

\* A stage that is given another node starts on the axis of that.
LEMMA StandsMoves ==
  ASSUME NEW d \in Documents, NEW s \in Steps,
         NEW prev \in Seq(Nodes(d)), NEW cur \in Seq(Nodes(d)),
         NEW left, Stands(d, s, prev, cur, left), NEW z \in Nodes(d)
  PROVE  /\ Stands(d, s, Append(prev, z), cur, Selection[d][s][z])
         /\ left = {} /\ LosesNothing(d, s, prev, cur, left)
              => LosesNothing(d, s, Append(prev, z), cur, Selection[d][s][z])
PROOF
<1> DEFINE new == Append(prev, z)
           n == Len(prev)
<1>1. PICK from \in [1 .. Len(cur) -> 1 .. n] : Walks(d, s, prev, cur, from)
  BY DEF Stands
<1>2. /\ new \in Seq(Nodes(d)) /\ Len(new) = n + 1 /\ new[n + 1] = z
      /\ \A k \in 1 .. n : new[k] = prev[k]
      /\ n \in Nat
  OBVIOUS
<1>3. /\ \A k \in 1 .. Len(cur) : from[k] \in 1 .. n
      /\ \A k \in 1 .. Len(cur) : cur[k] \in Selection[d][s][prev[from[k]]]
      /\ \A j, k \in 1 .. Len(cur) :
           j < k => from[j] <= from[k] /\ (from[j] = from[k] => Goes(s.axis, cur[j], cur[k]))
  BY <1>1 DEF Walks
<1> HIDE DEF new, n
<1>4. from \in [1 .. Len(cur) -> 1 .. Len(new)]
  BY <1>1, <1>2
<1>5. \A k \in 1 .. Len(cur) : cur[k] \in Selection[d][s][new[from[k]]]
  BY <1>2, <1>3
<1>6. Walks(d, s, new, cur, from)
  BY <1>3, <1>4, <1>5 DEF Walks
<1>7. \A k \in 1 .. Len(cur) : from[k] # Len(new)
  BY <1>2, <1>3
<1>8. new # <<>> /\ new[Len(new)] = z
  BY <1>2
<1>9. Stands(d, s, new, cur, Selection[d][s][z])
  BY <1>4, <1>6, <1>7, <1>8 DEF Stands
<1>10. ASSUME left = {}, LosesNothing(d, s, prev, cur, left)
       PROVE  LosesNothing(d, s, new, cur, Selection[d][s][z])
  <2>1. ASSUME NEW m \in 1 .. Len(new)
        PROVE  Selection[d][s][new[m]] \subseteq Elements(cur) \cup Selection[d][s][z]
    <3>1. CASE m = n + 1
      BY <1>2, <3>1
    <3>2. CASE m \in 1 .. n
      <4>1. new[m] = prev[m]
        BY <1>2, <3>2
      <4>2. Selection[d][s][prev[m]] \subseteq Elements(cur) \cup left
        BY <1>10, <3>2 DEF LosesNothing, n
      <4> QED BY <1>10, <4>1, <4>2
    <3> QED BY <1>2, <3>1, <3>2
  <2> QED BY <2>1 DEF LosesNothing
<1> QED BY <1>9, <1>10 DEF new

\* Whatever is left is returned by some continuation of the walk.
LEMMA WalkToLeft ==
  ASSUME NEW d \in Documents, NEW s \in Steps,
         NEW prev \in Seq(Nodes(d)), NEW cur \in Seq(Nodes(d)),
         NEW left, Stands(d, s, prev, cur, left), NEW y \in left
  PROVE  /\ Append(cur, y) \in Seq(Nodes(d))
         /\ \E from : Walks(d, s, prev, Append(cur, y), from)
PROOF
<1>1. PICK from \in [1 .. Len(cur) -> 1 .. Len(prev)] :
        /\ Walks(d, s, prev, cur, from)
        /\ \A k \in 1 .. Len(cur), z \in left :
             from[k] = Len(prev) => Goes(s.axis, cur[k], z)
        /\ left # {} => prev # <<>> /\ left \subseteq Selection[d][s][prev[Len(prev)]]
  BY DEF Stands
<1> DEFINE onward == [k \in 1 .. Len(cur) + 1 |->
                        IF k = Len(cur) + 1 THEN Len(prev) ELSE from[k]]
<1>2. onward = [k \in 1 .. Len(cur) + 1 |->
                  IF k = Len(cur) + 1 THEN Len(prev) ELSE from[k]]
  OBVIOUS
<1> HIDE DEF onward
<1>3. /\ prev # <<>> /\ y \in Selection[d][s][prev[Len(prev)]]
      /\ \A k \in 1 .. Len(cur) : from[k] = Len(prev) => Goes(s.axis, cur[k], y)
  BY <1>1
<1>4. Walks(d, s, prev, cur, from)
  BY <1>1
<1> QED BY <1>2, <1>3, <1>4, WalkReturns


-----------------------------------------------------------------------------
(* The claims of the stages.                                               *)

\* The path starts at one node, or has not started.
LEMMA StartHolds ==
  ASSUME NEW d \in Documents, NEW c \in Nodes(d), NEW s, s = <<c>> \/ s = <<>>
  PROVE  HoldAll(OneContextNode, d, s, c)
PROOF
<1>1. \A i \in DOMAIN s : i = 1 /\ s[i] = c
  OBVIOUS
<1>2. Len(s) <= 1
  <2>1. Len(<<c>>) = 1 /\ Len(<<>>) = 0
    OBVIOUS
  <2>2. CASE s = <<c>>
    <3>1. Len(s) = 1
      BY <2>1, <2>2, Zenon
    <3> QED BY <3>1
  <2>3. CASE s = <<>>
    <3>1. Len(s) = 0
      BY <2>1, <2>3, Zenon
    <3> QED BY <3>1
  <2> QED BY <2>2, <2>3
<1>3. Within(d, c, c)
  BY WithinReflexive
<1>4. \A i, j \in DOMAIN s : ~(i < j)
  BY <1>1
<1>5. InOrder(s)
  BY <1>4 DEF InOrder
<1>6. /\ Holds("DOCORDER", d, s, c) /\ Holds("PEER", d, s, c) /\ Holds("SUBTREE", d, s, c)
      /\ Holds("GROUPED", d, s, c) /\ Holds("SAMEDOC", d, s, c) /\ Holds("ONENODE", d, s, c)
  BY <1>1, <1>2, <1>3, <1>4, <1>5, ClaimMeanings DEF SameDocument
<1> QED BY <1>6 DEF HoldAll, OneContextNode, Flags

\* The claims before a step, and the nodes they are about.
LEMMA BeforeHolds ==
  ASSUME Typed, ClaimsCombined, NEW i \in Stages
  PROVE  /\ path[i] \in Steps /\ i - 1 \in 0 .. Last
         /\ ClaimedOf(i) \in SUBSET Flags
         /\ "PEER" \in ClaimedOf(i) => "SUBTREE" \in ClaimedOf(i)
         /\ sort # "typing" => Before(i) \in Seq(Nodes(doc))
         /\ sort # "typing" /\ ClaimsHold => HoldAll(ClaimedOf(i), doc, Before(i), context)
PROOF
<1>1. /\ doc \in Documents /\ context \in Nodes(doc) /\ Last \in Nat
      /\ path[i] \in Steps /\ i \in 1 .. Last
      /\ Len(claims) = Last /\ claims \in Seq(SUBSET Flags)
  BY DEF Typed, Last, Stages
<1>2. CASE i = 1
  <2>1. ClaimedOf(i) = OneContextNode /\ Before(i) \in {<<context>>, <<>>}
    BY <1>2 DEF ClaimedOf, Before
  <2>2. HoldAll(OneContextNode, doc, Before(i), context)
    BY <1>1, <2>1, StartHolds
  <2>3. Before(i) \in Seq(Nodes(doc))
    <3>1. <<context>> \in Seq(Nodes(doc)) /\ <<>> \in Seq(Nodes(doc))
      BY <1>1
    <3> QED BY <2>1, <3>1
  <2>4. ClaimedOf(i) \in SUBSET Flags /\ "SUBTREE" \in ClaimedOf(i)
    BY <2>1 DEF OneContextNode, Flags
  <2>5. i - 1 \in 0 .. Last
    BY <1>1
  <2> QED BY <1>1, <2>1, <2>2, <2>3, <2>4, <2>5
<1>3. CASE i # 1
  <2>1. i - 1 \in Stages
    BY <1>1, <1>3 DEF Stages
  <2>2. ClaimedOf(i) = claims[i - 1] /\ Before(i) = got[i - 1]
    BY <1>3 DEF ClaimedOf, Before
  <2>3. claims[i - 1] \in SUBSET Flags
    BY <1>1, <2>1 DEF Stages
  <2>4. "PEER" \in claims[i - 1] => "SUBTREE" \in claims[i - 1]
    BY <2>1 DEF ClaimsCombined
  <2>5. sort # "typing" => got[i - 1] \in Seq(Nodes(doc))
    BY <2>1 DEF Typed
  <2>6. sort # "typing" /\ ClaimsHold => HoldAll(claims[i - 1], doc, got[i - 1], context)
    BY <2>1 DEF ClaimsHold
  <2> QED BY <1>1, <2>2, <2>3, <2>4, <2>5, <2>6
<1> QED BY <1>2, <1>3

\* Claims of the nodes before a step carry over to those of a walk over them.
LEMMA ClaimsCarry ==
  ASSUME Typed, ClaimsCombined, NEW i \in Stages,
         NEW prev \in Seq(Nodes(doc)), NEW cur \in Seq(Nodes(doc)), NEW from,
         Walks(doc, path[i], prev, cur, from),
         HoldAll(ClaimedOf(i), doc, prev, context)
  PROVE  HoldAll(claims[i], doc, cur, context)
PROOF
<1>1. /\ path[i] \in Steps /\ ClaimedOf(i) \in SUBSET Flags
      /\ "PEER" \in ClaimedOf(i) => "SUBTREE" \in ClaimedOf(i)
  BY BeforeHolds
<1>2. doc \in Documents /\ context \in Nodes(doc)
  BY DEF Typed
<1>3. claims[i] = Combine(ClaimedOf(i), AxisProperties(path[i].axis))
  BY DEF ClaimsCombined
<1>4. HoldAll(Combine(ClaimedOf(i), AxisProperties(path[i].axis)), doc, cur, context)
  BY <1>1, <1>2, CombinedHolds
<1> QED BY <1>3, <1>4

-----------------------------------------------------------------------------
(* The invariant holds at the beginning.                                   *)

LEMMA InitInv == Init => PipelineInv
PROOF
<1> SUFFICES ASSUME Init PROVE PipelineInv
  OBVIOUS
<1>1. /\ path = <<>> /\ claims = <<>> /\ sort = "typing" /\ found = {} /\ delivered = <<>>
      /\ asked = Idle /\ doc \in Documents /\ context \in Nodes(doc) /\ ordered \in BOOLEAN
  BY DEF Init
<1>2. Last = 0 /\ Stages = {} /\ Sorter = 1
  BY <1>1 DEF Last, Stages, Sorter
<1>3. Typed
  BY <1>1, <1>2 DEF Typed, Idle
<1>4. ClaimsCombined /\ StagesStand /\ ClaimsHold /\ Drained /\ Received
  BY <1>1, <1>2 DEF ClaimsCombined, StagesStand, ClaimsHold, Drained, Received, Idle
<1> QED BY <1>3, <1>4 DEF PipelineInv

\* A step added to the path.
LEMMA AddStepInv ==
  ASSUME PipelineInv, NEW s \in Steps, AddStep(s)
  PROVE  PipelineInv'
PROOF
<1>1. Typed /\ ClaimsCombined /\ Received
  BY DEF PipelineInv
<1>2. /\ sort = "typing" /\ sort' = "typing" /\ path' = Append(path, s)
      /\ claims' = Append(claims, Combine(ClaimedBefore, AxisProperties(s.axis)))
      /\ UNCHANGED <<doc, context, ordered, rest, got, found, asked, delivered, ended>>
  BY DEF AddStep, running
<1>3. /\ path \in Seq(Steps) /\ claims \in Seq(SUBSET Flags) /\ Len(claims) = Len(path)
      /\ Len(path) \in Nat /\ asked = Idle /\ found = {} /\ delivered = <<>>
  BY <1>1, <1>2 DEF Typed, Received, Last
<1> DEFINE n == Len(path)
           new == Combine(ClaimedBefore, AxisProperties(s.axis))
<1>4. /\ ClaimedBefore \in SUBSET Flags
      /\ "PEER" \in ClaimedBefore => "SUBTREE" \in ClaimedBefore
  <2>1. CASE path = <<>>
    BY <2>1 DEF ClaimedBefore, OneContextNode, Flags
  <2>2. CASE path # <<>>
    <3>1. n \in Stages /\ n \in 1 .. Len(claims)
      BY <1>3, <2>2 DEF Stages, Last
    <3>2. ClaimedBefore = claims[n]
      BY <2>2 DEF ClaimedBefore, Last
    <3>3. claims[n] \in SUBSET Flags
      BY <1>3, <3>1
    <3> QED BY <1>1, <3>1, <3>2, <3>3 DEF ClaimsCombined
  <2> QED BY <2>1, <2>2
<1>5. new \in SUBSET Flags /\ ("PEER" \in new => "SUBTREE" \in new)
  BY <1>4, PeersInSubtree
<1> HIDE DEF new
<1>6. /\ path' \in Seq(Steps) /\ claims' \in Seq(SUBSET Flags)
      /\ Len(path') = n + 1 /\ Len(claims') = n + 1
      /\ path'[n + 1] = s /\ claims'[n + 1] = new
      /\ \A i \in 1 .. n : path'[i] = path[i] /\ claims'[i] = claims[i]
  BY <1>2, <1>3, <1>5 DEF new
<1>7. Last' = n + 1 /\ Stages' = 1 .. n + 1 /\ Sorter' = n + 2
  BY <1>3, <1>6 DEF Last, Stages, Sorter
<1>8. Typed'
  BY <1>1, <1>2, <1>3, <1>6, <1>7 DEF Typed, Idle
<1>9. ClaimsCombined'
  <2>1. ASSUME NEW i \in 1 .. n + 1
        PROVE  /\ claims'[i] = Combine(ClaimedOf(i)', AxisProperties(path'[i].axis))
               /\ "PEER" \in claims'[i] => "SUBTREE" \in claims'[i]
    <3>1. CASE i = n + 1
      <4>1. ClaimedOf(i)' = ClaimedBefore
        <5>1. CASE n = 0
          BY <1>3, <3>1, <5>1 DEF ClaimedOf, ClaimedBefore
        <5>2. CASE n # 0
          <6>1. n \in 1 .. n /\ path # <<>> /\ i # 1 /\ i - 1 = n
            BY <1>3, <3>1, <5>2
          <6> QED BY <1>6, <6>1 DEF ClaimedOf, ClaimedBefore, Last
        <5> QED BY <5>1, <5>2
      <4> QED BY <1>5, <1>6, <3>1, <4>1 DEF new
    <3>2. CASE i \in 1 .. n
      <4>1. ClaimedOf(i)' = ClaimedOf(i)
        <5>1. i # 1 => i - 1 \in 1 .. n
          BY <1>3, <3>2
        <5> QED BY <1>6, <5>1 DEF ClaimedOf
      <4>2. i \in Stages
        BY <3>2 DEF Stages, Last
      <4> QED BY <1>1, <1>6, <3>2, <4>1, <4>2 DEF ClaimsCombined
    <3> QED BY <1>3, <3>1, <3>2
  <2> QED BY <1>7, <2>1 DEF ClaimsCombined
<1>10. StagesStand' /\ ClaimsHold'
  BY <1>2 DEF StagesStand, ClaimsHold
<1>11. Drained' /\ Received'
  <2>1. asked' = Idle /\ Idle # n + 2
    BY <1>2, <1>3 DEF Idle
  <2> QED BY <1>2, <1>3, <1>7, <2>1 DEF Drained, Received, Idle
<1> QED BY <1>8, <1>9, <1>10, <1>11 DEF PipelineInv


\* The stages are set up over the context item.
LEMMA BeginInv ==
  ASSUME PipelineInv, Begin
  PROVE  PipelineInv'
PROOF
<1>1. Typed /\ ClaimsCombined /\ Received
  BY DEF PipelineInv
<1>2. /\ sort = "typing" /\ path # <<>>
      /\ sort' = IF "DOCORDER" \in ClaimedLast THEN "none"
                 ELSE IF ordered THEN "sort" ELSE "unique"
      /\ rest' = [i \in 0 .. Last |-> IF i = 0 THEN {context} ELSE {}]
      /\ got' = [i \in Stages |-> <<>>]
      /\ UNCHANGED <<doc, context, ordered, path, claims, found, asked, delivered, ended>>
  BY DEF Begin
<1>3. /\ doc \in Documents /\ context \in Nodes(doc) /\ ordered \in BOOLEAN
      /\ path \in Seq(Steps) /\ claims \in Seq(SUBSET Flags) /\ Len(claims) = Last
      /\ asked = Idle /\ found = {} /\ delivered = <<>>
      /\ Last \in Nat /\ Last # 0
  BY <1>1, <1>2 DEF Typed, Received, Last
<1>4. Last' = Last /\ Stages' = Stages /\ Sorter' = Sorter /\ Stages = 1 .. Last
  BY <1>2 DEF Last, Stages, Sorter
<1>5. /\ rest'[0] = {context} /\ \A i \in Stages : rest'[i] = {} /\ got'[i] = <<>>
      /\ rest' \in [0 .. Last -> SUBSET Nodes(doc)]
      /\ got' \in [Stages -> Seq(Nodes(doc))]
  <2>1. \A i \in Stages : i \in 0 .. Last /\ i # 0
    BY <1>3, <1>4
  <2>2. 0 \in 0 .. Last
    BY <1>3
  <2> QED BY <1>2, <1>3, <2>1, <2>2
<1>6. sort' \in {"none", "sort", "unique"}
  BY <1>2
<1>7. Typed'
  <2>1. asked' \in Idle .. Sorter'
    BY <1>1, <1>2, <1>4 DEF Typed
  <2>2. /\ found' \subseteq Nodes(doc') /\ delivered' \in Seq(Nodes(doc'))
    BY <1>2, <1>3
  <2>3. sort' \in {"typing", "none", "unique", "sort", "sorted"}
    BY <1>6
  <2> QED BY <1>2, <1>3, <1>4, <1>5, <2>1, <2>2, <2>3 DEF Typed
<1>8. ClaimsCombined'
  <2>1. \A i : ClaimedOf(i)' = ClaimedOf(i)
    BY <1>2 DEF ClaimedOf
  <2> QED BY <1>1, <1>2, <1>4, <2>1 DEF ClaimsCombined
<1>9. \A i \in Stages : Before(i)' = <<>>
  <2>1. \A i \in Stages : i # 1 => i - 1 \in Stages
    BY <1>3, <1>4
  <2> QED BY <1>5, <2>1 DEF Before
<1>10. StagesStand'
  <2>1. ASSUME NEW i \in Stages
        PROVE  /\ Stands(doc, path[i], <<>>, <<>>, {})
               /\ LosesNothing(doc, path[i], <<>>, <<>>, {})
    <3>1. Len(<<>>) \in Nat
      OBVIOUS
    <3> QED BY <3>1, StandsAtStart
  <2> QED BY <1>2, <1>4, <1>5, <1>9, <2>1 DEF StagesStand
<1>11. ClaimsHold'
  <2>1. ASSUME NEW f, NEW d, NEW c, f \in Flags PROVE Holds(f, d, <<>>, c)
    <3>1. \A k \in DOMAIN <<>> : FALSE
      OBVIOUS
    <3>2. Len(<<>>) <= 1
      OBVIOUS
    <3> QED BY <2>1, <3>1, <3>2, ClaimMeanings DEF Flags, InOrder
  <2>2. \A i \in Stages : claims[i] \in SUBSET Flags
    BY <1>3, <1>4
  <2>3. \A i \in Stages : HoldAll(claims[i], doc, <<>>, context)
    BY <2>1, <2>2 DEF HoldAll
  <2> QED BY <1>2, <1>4, <1>5, <2>3 DEF ClaimsHold
<1>12. Drained'
  BY <1>2, <1>3 DEF Drained
<1>13. Received'
  <2>1. Last \in Stages /\ got'[Last] = <<>> /\ Elements(<<>>) = {}
    BY <1>3, <1>4, <1>5 DEF Elements
  <2>2. asked' # Sorter'
    BY <1>2, <1>3, <1>4 DEF Idle, Sorter
  <2>3. sort' = "none" => "DOCORDER" \in claims[Last]
    BY <1>2 DEF ClaimedLast, ClaimedBefore
  <2>4. sort' = "unique" => ordered = FALSE
    BY <1>2, <1>3
  <2> QED BY <1>2, <1>3, <1>4, <1>6, <2>1, <2>2, <2>3, <2>4 DEF Received
<1> QED BY <1>7, <1>8, <1>10, <1>11, <1>12, <1>13 DEF PipelineInv

\* An action that leaves typing and the stages alone keeps what they claim.
LEMMA StagesKept ==
  ASSUME PipelineInv, UNCHANGED <<doc, context, ordered, path, claims, rest, got>>,
         (sort' # "typing") <=> (sort # "typing")
  PROVE  ClaimsCombined' /\ StagesStand' /\ ClaimsHold' /\ Last' = Last /\ Stages' = Stages
           /\ Sorter' = Sorter
PROOF
<1>1. ClaimsCombined /\ StagesStand /\ ClaimsHold
  BY DEF PipelineInv
<1>2. Last' = Last /\ Stages' = Stages /\ Sorter' = Sorter
  BY DEF Last, Stages, Sorter
<1>3. \A i : ClaimedOf(i)' = ClaimedOf(i) /\ Before(i)' = Before(i)
  BY DEF ClaimedOf, Before
<1>4. ClaimsCombined'
  BY <1>1, <1>2, <1>3 DEF ClaimsCombined
<1>5. StagesStand'
  BY <1>1, <1>2, <1>3 DEF StagesStand
<1>6. ClaimsHold'
  BY <1>1, <1>2 DEF ClaimsHold
<1> QED BY <1>2, <1>4, <1>5, <1>6

LEMMA AskInv ==
  ASSUME PipelineInv, Ask
  PROVE  PipelineInv'
PROOF
<1>1. Typed /\ Drained /\ Received
  BY DEF PipelineInv
<1>2. /\ sort # "typing" /\ asked = Idle
      /\ asked' = IF sort = "sorted" THEN Sorter ELSE Last
      /\ UNCHANGED <<doc, context, ordered, path, claims, sort, rest, got, found, delivered, ended>>
  BY DEF Ask, typing
<1>3. ClaimsCombined' /\ StagesStand' /\ ClaimsHold' /\ Last' = Last /\ Stages' = Stages
        /\ Sorter' = Sorter
  BY <1>2, StagesKept
<1>4. Last \in Nat /\ Stages = 1 .. Last /\ Sorter = Last + 1
  BY <1>1 DEF Typed, Last, Stages, Sorter
<1>5. asked' \in Idle .. Sorter /\ (asked' = Sorter <=> sort = "sorted")
  BY <1>2, <1>4 DEF Idle
<1>6. Typed'
  BY <1>1, <1>2, <1>3, <1>5 DEF Typed
<1>7. Drained'
  <2>1. \A i \in Stages : ~(asked' < i)
    BY <1>2, <1>4
  <2> QED BY <1>3, <2>1 DEF Drained
<1>8. Received'
  BY <1>1, <1>2, <1>3, <1>5 DEF Received
<1> QED BY <1>3, <1>6, <1>7, <1>8 DEF PipelineInv

LEMMA PullInv ==
  ASSUME PipelineInv, NEW i \in Stages, Pull(i)
  PROVE  PipelineInv'
PROOF
<1>1. Typed /\ Drained /\ Received
  BY DEF PipelineInv
<1>2. /\ asked = i /\ rest[i] = {} /\ asked' = i - 1
      /\ UNCHANGED <<doc, context, ordered, path, claims, sort, rest, got, found, delivered, ended>>
  BY DEF Pull, typing
<1>3. Last \in Nat /\ Stages = 1 .. Last /\ Sorter = Last + 1 /\ i \in 1 .. Last
  BY <1>1 DEF Typed, Last, Stages, Sorter
<1>4. ClaimsCombined' /\ StagesStand' /\ ClaimsHold' /\ Last' = Last /\ Stages' = Stages
        /\ Sorter' = Sorter
  BY <1>2, StagesKept
<1>5. asked' \in Idle .. Sorter /\ asked' # Sorter /\ asked # Idle /\ asked # Sorter
  BY <1>2, <1>3 DEF Idle
<1>6. Typed'
  BY <1>1, <1>2, <1>4, <1>5 DEF Typed
<1>7. Drained'
  <2>1. \A j \in Stages : i < j => rest[j] = {}
    BY <1>1, <1>2, <1>5 DEF Drained
  <2>2. \A j \in Stages : i - 1 < j => i < j \/ j = i
    BY <1>3
  <2>3. \A j \in Stages : i - 1 < j => rest[j] = {}
    BY <1>2, <2>1, <2>2
  <2> QED BY <1>2, <1>4, <2>3 DEF Drained
<1>8. Received'
  <2>1. sort # "sorted"
    BY <1>1, <1>5 DEF Received
  <2>2. sort # "typing"
    BY <1>1, <1>5 DEF Received
  <2> QED BY <1>1, <1>2, <1>4, <1>5, <2>1, <2>2 DEF Received
<1> QED BY <1>4, <1>6, <1>7, <1>8 DEF PipelineInv

LEMMA ExhaustedInv ==
  ASSUME PipelineInv, Exhausted
  PROVE  PipelineInv'
PROOF
<1>1. Typed /\ Drained /\ Received
  BY DEF PipelineInv
<1>2. /\ asked = 0 /\ rest[0] = {}
      /\ UNCHANGED <<doc, context, ordered, path, claims, rest, got, found, delivered>>
      /\ \/ sort = "sort" /\ sort' = "sorted" /\ asked' = Sorter
         \/ sort # "sort" /\ sort' = sort /\ asked' = Idle
  BY DEF Exhausted
<1>3. Last \in Nat /\ Stages = 1 .. Last /\ Sorter = Last + 1 /\ asked # Idle /\ asked # Sorter
  BY <1>1, <1>2 DEF Typed, Last, Stages, Sorter, Idle
<1>4. sort # "typing" /\ sort # "sorted"
  BY <1>1, <1>3 DEF Received
<1>5. ClaimsCombined' /\ StagesStand' /\ ClaimsHold' /\ Last' = Last /\ Stages' = Stages
        /\ Sorter' = Sorter
  BY <1>2, <1>4, StagesKept
<1>6. \A j \in 0 .. Last : rest[j] = {}
  <2>1. \A j \in Stages : rest[j] = {}
    BY <1>1, <1>2, <1>3 DEF Drained
  <2> QED BY <1>2, <1>3, <2>1
<1>7. asked' \in {Idle, Sorter} /\ asked' \in Idle .. Sorter
  BY <1>2, <1>3 DEF Idle
<1>8. Typed'
  <2>1. sort' \in {"typing", "none", "unique", "sort", "sorted"} /\ sort' # "typing"
    BY <1>1, <1>2, <1>4 DEF Typed
  <2> QED BY <1>1, <1>2, <1>4, <1>5, <1>7, <2>1 DEF Typed
<1>9. Drained'
  <2>1. \A j \in Stages : rest'[j] = {}
    BY <1>2, <1>3, <1>6
  <2> QED BY <1>5, <2>1 DEF Drained
<1>10. Received'
  <2>1. CASE sort = "sort"
    <3>1. found = Elements(got[Last]) /\ delivered = <<>> /\ Elements(<<>>) = {}
      BY <1>1, <2>1 DEF Received, Elements
    <3>2. sort' = "sorted" /\ asked' = Sorter
      BY <1>2, <2>1
    <3> QED BY <1>2, <1>5, <1>6, <3>1, <3>2 DEF Received
  <2>2. CASE sort # "sort"
    <3>1. sort' = sort /\ asked' = Idle /\ Idle # Sorter
      BY <1>2, <1>3, <2>2 DEF Idle
    <3> QED BY <1>1, <1>2, <1>4, <1>5, <3>1 DEF Received
  <2> QED BY <2>1, <2>2
<1> QED BY <1>5, <1>8, <1>9, <1>10 DEF PipelineInv

LEMMA SortedInv ==
  ASSUME PipelineInv, Sorted
  PROVE  PipelineInv'
PROOF
<1>1. Typed /\ Drained /\ Received
  BY DEF PipelineInv
<1> DEFINE x == Least(found)
<1>2. /\ sort = "sorted" /\ asked = Sorter /\ asked' = Idle
      /\ UNCHANGED <<doc, context, ordered, path, claims, sort, rest, got>>
      /\ \/ found = {} /\ UNCHANGED <<found, delivered>>
         \/ found # {} /\ found' = found \ {x} /\ delivered' = Append(delivered, x)
  BY DEF Sorted, typing
<1>3. Last \in Nat /\ Stages = 1 .. Last /\ Sorter = Last + 1
  BY <1>1 DEF Typed, Last, Stages, Sorter
<1>4. ClaimsCombined' /\ StagesStand' /\ ClaimsHold' /\ Last' = Last /\ Stages' = Stages
        /\ Sorter' = Sorter
  BY <1>2, StagesKept
<1>5. found # {} => x \in found
  <2>1. doc \in Documents /\ found \in SUBSET Nodes(doc)
    BY <1>1 DEF Typed
  <2> QED BY <2>1, LeastNode
<1> HIDE DEF x
<1>6. delivered \in Seq(Nodes(doc)) /\ found \subseteq Nodes(doc)
  BY <1>1 DEF Typed
<1>7. found' \subseteq Nodes(doc) /\ delivered' \in Seq(Nodes(doc))
  BY <1>2, <1>5, <1>6
<1>8. Typed'
  <2>1. asked' \in Idle .. Sorter
    BY <1>2, <1>3 DEF Idle
  <2> QED BY <1>1, <1>2, <1>4, <1>7, <2>1 DEF Typed
<1>9. Drained'
  BY <1>2 DEF Drained
<1>10. Received'
  <2>1. /\ \A i \in 0 .. Last : rest[i] = {}
        /\ found \cup Elements(delivered) = Elements(got[Last])
        /\ found \cap Elements(delivered) = {}
    BY <1>1, <1>2 DEF Received
  <2>2. /\ found' \cup Elements(delivered') = Elements(got[Last])
        /\ found' \cap Elements(delivered') = {}
    <3>1. CASE found = {}
      BY <1>2, <2>1, <3>1
    <3>2. CASE found # {}
      <4>1. found' = found \ {x} /\ delivered' = Append(delivered, x) /\ x \in found
            /\ x \in Nodes(doc)
        BY <1>2, <1>5, <1>6, <3>2
      <4>2. Elements(delivered') = Elements(delivered) \cup {x}
        BY <1>6, <4>1, ElementsOfAppend
      <4> QED BY <2>1, <4>1, <4>2
    <3> QED BY <3>1, <3>2
  <2>3. Idle # Sorter
    BY <1>3 DEF Idle
  <2> QED BY <1>2, <1>4, <2>1, <2>2, <2>3 DEF Received
<1> QED BY <1>4, <1>8, <1>9, <1>10 DEF PipelineInv


\* The node stage i returns.
NodeOf(i) == IF i = 0 THEN context ELSE NextOf(path[i].axis, rest[i])

\* What returning a node does to the stages: the node is taken from its axis,
\* and the next stage starts on the axis of the node.
LEMMA ReturnEffect ==
  ASSUME Typed, Received, NEW i \in 0 .. Last, Return(i), NEW x, x = NodeOf(i)
  PROVE  /\ sort # "typing" /\ sort # "sorted" /\ sort' = sort
         /\ UNCHANGED <<doc, context, ordered, path, claims, ended>>
         /\ asked = i /\ x \in rest[i] /\ x \in Nodes(doc)
         /\ i # 0 => \A y \in rest[i] \ {x} : Goes(path[i].axis, x, y)
         /\ rest' = [j \in 0 .. Last |->
                       IF j = i THEN rest[i] \ {x}
                       ELSE IF j = i + 1 THEN Selection[doc][path[j]][x] ELSE rest[j]]
         /\ got' = [j \in Stages |-> IF j = i THEN Append(got[j], x) ELSE got[j]]
         /\ i < Last => asked' = i + 1 /\ UNCHANGED <<found, delivered>>
         /\ i = Last => Receive(x)
PROOF
<1>1. /\ asked = i /\ rest[i] # {} /\ i \in 0 .. Last /\ Last \in Nat
      /\ UNCHANGED <<doc, context, ordered, path, claims, sort, ended>>
      /\ Stages = 1 .. Last /\ Sorter = Last + 1
  BY DEF Return, typing, Typed, Last, Stages, Sorter
<1>2. asked # Idle /\ asked # Sorter
  BY <1>1 DEF Idle
<1>3. sort # "typing" /\ sort # "sorted"
  BY <1>1, <1>2 DEF Received
<1>4. /\ rest \in [0 .. Last -> SUBSET Nodes(doc)] /\ rest[0] \subseteq {context}
      /\ got \in [Stages -> Seq(Nodes(doc))] /\ doc \in Documents
  BY <1>3 DEF Typed
<1>5. /\ x \in rest[i] /\ x \in Nodes(doc)
      /\ i # 0 => \A y \in rest[i] \ {x} : Goes(path[i].axis, x, y)
  <2>1. rest[i] \in SUBSET Nodes(doc)
    BY <1>4
  <2>2. CASE i = 0
    BY <1>1, <1>4, <2>1, <2>2 DEF NodeOf
  <2>3. CASE i # 0
    <3>1. x = NextOf(path[i].axis, rest[i])
      BY <2>3 DEF NodeOf
    <3> QED BY <1>1, <1>4, <2>1, <3>1, NextNode
  <2> QED BY <2>2, <2>3
<1> DEFINE left == [rest EXCEPT ![i] = @ \ {x}]
<1>6. /\ got' = IF i = 0 THEN got ELSE [got EXCEPT ![i] = Append(@, x)]
      /\ \/ i < Last /\ rest' = [left EXCEPT ![i + 1] = Selected(path[i + 1], x)]
            /\ asked' = i + 1 /\ UNCHANGED <<found, delivered>>
         \/ ~(i < Last) /\ rest' = left /\ Receive(x)
  BY DEF Return, NodeOf
<1>7. left = [j \in 0 .. Last |-> IF j = i THEN rest[i] \ {x} ELSE rest[j]]
  BY <1>1, <1>4
<1> HIDE DEF left
<1>8. rest' = [j \in 0 .. Last |->
                 IF j = i THEN rest[i] \ {x}
                 ELSE IF j = i + 1 THEN Selection[doc][path[j]][x] ELSE rest[j]]
  <2>1. CASE i < Last
    <3>1. i + 1 \in 0 .. Last /\ i + 1 # i
      BY <1>1, <2>1
    <3>2. rest' = [left EXCEPT ![i + 1] = Selection[doc][path[i + 1]][x]]
      BY <1>6, <2>1 DEF Selected
    <3>3. rest' = [j \in 0 .. Last |-> IF j = i + 1 THEN Selection[doc][path[i + 1]][x]
                                       ELSE left[j]]
      BY <1>7, <3>1, <3>2
    <3> QED BY <1>7, <3>1, <3>3
  <2>2. CASE i = Last
    <3>1. rest' = left /\ \A j \in 0 .. Last : j # i + 1
      BY <1>1, <1>6, <2>2
    <3> QED BY <1>7, <3>1
  <2> QED BY <1>1, <2>1, <2>2
<1>9. got' = [j \in Stages |-> IF j = i THEN Append(got[j], x) ELSE got[j]]
  <2>1. CASE i = 0
    <3>1. got' = got /\ \A j \in Stages : j # i
      BY <1>1, <1>6, <2>1
    <3> QED BY <1>4, <3>1
  <2>2. CASE i # 0
    BY <1>1, <1>4, <1>6, <2>2
  <2> QED BY <2>1, <2>2
<1>10. (i < Last => asked' = i + 1 /\ UNCHANGED <<found, delivered>>) /\ (i = Last => Receive(x))
  BY <1>1, <1>6
<1> QED BY <1>1, <1>3, <1>5, <1>8, <1>9, <1>10

\* The stages after a node is returned, and the nodes each asks.
LEMMA ReturnStages ==
  ASSUME PipelineInv, NEW i \in 0 .. Last, Return(i), NEW x, x = NodeOf(i)
  PROVE  /\ Last' = Last /\ Stages' = Stages /\ Sorter' = Sorter
         /\ rest' \in [0 .. Last -> SUBSET Nodes(doc)] /\ rest'[0] \subseteq {context}
         /\ got' \in [Stages -> Seq(Nodes(doc))]
         /\ \A j \in Stages \ {i + 1} : Before(j)' = Before(j)
         /\ i + 1 \in Stages => Before(i + 1)' = Append(Before(i + 1), x)
PROOF
<1>1. Typed /\ Received
  BY DEF PipelineInv
<1>2. /\ sort # "typing"
      /\ UNCHANGED <<doc, context, ordered, path, claims, ended>>
      /\ x \in rest[i] /\ x \in Nodes(doc)
      /\ rest' = [j \in 0 .. Last |->
                    IF j = i THEN rest[i] \ {x}
                    ELSE IF j = i + 1 THEN Selection[doc][path[j]][x] ELSE rest[j]]
      /\ got' = [j \in Stages |-> IF j = i THEN Append(got[j], x) ELSE got[j]]
  BY <1>1, ReturnEffect
<1>3. /\ rest \in [0 .. Last -> SUBSET Nodes(doc)] /\ rest[0] \subseteq {context}
      /\ got \in [Stages -> Seq(Nodes(doc))] /\ doc \in Documents
      /\ path \in Seq(Steps) /\ Last = Len(path) /\ Last \in Nat /\ i \in 0 .. Last
      /\ Stages = 1 .. Last
  BY <1>1, <1>2 DEF Typed, Last, Stages
<1>4. Last' = Last /\ Stages' = Stages /\ Sorter' = Sorter
  BY <1>2 DEF Last, Stages, Sorter
<1>5. rest' \in [0 .. Last -> SUBSET Nodes(doc)]
  <2>1. ASSUME NEW j \in 0 .. Last, j = i + 1
        PROVE  Selection[doc][path[j]][x] \in SUBSET Nodes(doc)
    <3>1. path[j] \in Steps
      BY <1>3, <2>1
    <3> QED BY <1>2, <1>3, <3>1, SelectedOnAxis
  <2>2. \A j \in 0 .. Last : rest[j] \in SUBSET Nodes(doc) /\ rest[i] \ {x} \in SUBSET Nodes(doc)
    BY <1>3
  <2>3. \A j \in 0 .. Last :
          (IF j = i THEN rest[i] \ {x}
           ELSE IF j = i + 1 THEN Selection[doc][path[j]][x] ELSE rest[j]) \in SUBSET Nodes(doc)
    BY <2>1, <2>2
  <2> QED BY <1>2, <2>3
<1>6. rest'[0] \subseteq {context} /\ (i # 0 => rest'[0] = rest[0]) /\ (i = 0 => rest'[0] = {})
  <2>1. 0 \in 0 .. Last /\ 0 # i + 1
    BY <1>3
  <2>2. rest'[0] = IF 0 = i THEN rest[i] \ {x} ELSE rest[0]
    BY <1>2, <2>1
  <2> QED BY <1>2, <1>3, <2>2
<1>7. got' \in [Stages -> Seq(Nodes(doc))]
  <2>1. ASSUME NEW j \in Stages
        PROVE  got[j] \in Seq(Nodes(doc)) /\ Append(got[j], x) \in Seq(Nodes(doc))
    <3>1. got[j] \in Seq(Nodes(doc)) /\ x \in Nodes(doc)
      BY <1>2, <1>3
    <3> QED BY <3>1
  <2>2. \A j \in Stages :
          (IF j = i THEN Append(got[j], x) ELSE got[j]) \in Seq(Nodes(doc))
    BY <2>1
  <2> QED BY <1>2, <2>2
<1>8. ASSUME NEW j \in Stages, j # i + 1 PROVE Before(j)' = Before(j)
  <2>1. CASE j = 1
    <3>1. i # 0
      BY <1>8, <2>1
    <3> QED BY <1>2, <1>6, <2>1, <3>1 DEF Before
  <2>2. CASE j # 1
    <3>1. j - 1 \in Stages /\ j - 1 # i
      BY <1>3, <1>8, <2>2
    <3>2. got'[j - 1] = got[j - 1]
      BY <1>2, <3>1
    <3> QED BY <2>2, <3>2 DEF Before
  <2> QED BY <2>1, <2>2
<1>9. ASSUME i + 1 \in Stages PROVE Before(i + 1)' = Append(Before(i + 1), x)
  <2>1. CASE i = 0
    <3>1. Before(1) = <<>> /\ x = context /\ i + 1 = 1
      BY <1>2, <1>3, <2>1 DEF Before
    <3>2. Before(1)' = <<context>>
      BY <1>2, <1>6, <2>1 DEF Before
    <3>3. Append(<<>>, context) = <<context>>
      OBVIOUS
    <3>4. Before(i + 1)' = Before(1)' /\ Before(i + 1) = Before(1)
      BY <3>1 DEF Before
    <3> QED BY <3>1, <3>2, <3>3, <3>4, Zenon
  <2>2. CASE i # 0
    <3>1. i \in Stages /\ i + 1 # 1 /\ (i + 1) - 1 = i
      BY <1>3, <2>2
    <3>2. got'[i] = Append(got[i], x)
      BY <1>2, <3>1
    <3> QED BY <3>1, <3>2 DEF Before
  <2> QED BY <2>1, <2>2
<1> QED BY <1>4, <1>5, <1>6, <1>7, <1>8, <1>9

LEMMA ReturnInv ==
  ASSUME PipelineInv, NEW i \in 0 .. Last, Return(i)
  PROVE  PipelineInv'
PROOF
<1> DEFINE x == NodeOf(i)
<1>1. Typed /\ ClaimsCombined /\ StagesStand /\ ClaimsHold /\ Drained /\ Received
  BY DEF PipelineInv
<1>2. /\ sort # "typing" /\ sort # "sorted" /\ sort' = sort
      /\ UNCHANGED <<doc, context, ordered, path, claims, ended>>
      /\ asked = i /\ x \in rest[i] /\ x \in Nodes(doc)
      /\ i # 0 => \A y \in rest[i] \ {x} : Goes(path[i].axis, x, y)
      /\ rest' = [j \in 0 .. Last |->
                    IF j = i THEN rest[i] \ {x}
                    ELSE IF j = i + 1 THEN Selection[doc][path[j]][x] ELSE rest[j]]
      /\ got' = [j \in Stages |-> IF j = i THEN Append(got[j], x) ELSE got[j]]
      /\ i < Last => asked' = i + 1 /\ UNCHANGED <<found, delivered>>
      /\ i = Last => Receive(x)
  BY <1>1, ReturnEffect
<1>3. /\ Last' = Last /\ Stages' = Stages /\ Sorter' = Sorter
      /\ rest' \in [0 .. Last -> SUBSET Nodes(doc)] /\ rest'[0] \subseteq {context}
      /\ got' \in [Stages -> Seq(Nodes(doc))]
      /\ \A j \in Stages \ {i + 1} : Before(j)' = Before(j)
      /\ i + 1 \in Stages => Before(i + 1)' = Append(Before(i + 1), x)
  BY ReturnStages
<1> HIDE DEF x
<1>4. /\ rest \in [0 .. Last -> SUBSET Nodes(doc)] /\ got \in [Stages -> Seq(Nodes(doc))]
      /\ doc \in Documents /\ path # <<>>
      /\ Last \in Nat /\ i \in 0 .. Last /\ Last # 0
      /\ Stages = 1 .. Last /\ Sorter = Last + 1
      /\ found \subseteq Nodes(doc) /\ delivered \in Seq(Nodes(doc))
  BY <1>1, <1>2 DEF Typed, Last, Stages, Sorter
<1>5. \A j \in Stages : j \in 0 .. Last /\ path[j] \in Steps /\ Before(j) \in Seq(Nodes(doc))
        /\ got[j] \in Seq(Nodes(doc))
  BY <1>1, <1>2, <1>4, BeforeHolds
<1>6. /\ asked' \in Idle .. Sorter /\ asked' # Sorter /\ asked' \in {Idle, i + 1, Last}
      /\ found' \subseteq Nodes(doc) /\ delivered' \in Seq(Nodes(doc))
  <2>1. CASE i < Last
    BY <1>2, <1>4, <2>1 DEF Idle
  <2>2. CASE i = Last
    <3>1. Receive(x)
      BY <1>2, <2>2
    <3>2. /\ asked' \in {Idle, Last}
          /\ found' \in {found, found \cup {x}}
          /\ delivered' \in {delivered, Append(delivered, x)}
      <4>1. sort \in {"none", "unique", "sort"}
        BY <1>1, <1>2 DEF Typed
      <4> QED BY <3>1, <4>1 DEF Receive
    <3>3. asked' \in Idle .. Sorter /\ asked' # Sorter /\ asked' \in {Idle, i + 1, Last}
      BY <1>4, <3>2 DEF Idle
    <3>4. Append(delivered, x) \in Seq(Nodes(doc)) /\ found \cup {x} \subseteq Nodes(doc)
      BY <1>2, <1>4
    <3> QED BY <1>4, <3>2, <3>3, <3>4
  <2> QED BY <1>4, <2>1, <2>2
<1>7. Typed'
  BY <1>1, <1>2, <1>3, <1>6 DEF Typed
<1>8. ClaimsCombined'
  <2>1. \A j : ClaimedOf(j)' = ClaimedOf(j)
    BY <1>2 DEF ClaimedOf
  <2> QED BY <1>1, <1>2, <1>3, <2>1 DEF ClaimsCombined
<1>9. ASSUME NEW j \in Stages
      PROVE  /\ Stands(doc, path[j], Before(j)', got'[j], rest'[j])
             /\ LosesNothing(doc, path[j], Before(j)', got'[j], rest'[j])
  <2>1. /\ Stands(doc, path[j], Before(j), got[j], rest[j])
        /\ LosesNothing(doc, path[j], Before(j), got[j], rest[j])
    BY <1>1, <1>2 DEF StagesStand
  <2>2. CASE j = i
    <3>1. Before(j)' = Before(j) /\ rest'[j] = rest[j] \ {x} /\ got'[j] = Append(got[j], x)
      BY <1>2, <1>3, <1>4, <1>5, <2>2
    <3>2. x \in rest[j] /\ \A y \in rest[j] \ {x} : Goes(path[j].axis, x, y)
      BY <1>2, <1>4, <2>2
    <3>3. /\ Stands(doc, path[j], Before(j), Append(got[j], x), rest[j] \ {x})
          /\ LosesNothing(doc, path[j], Before(j), Append(got[j], x), rest[j] \ {x})
      BY <1>4, <1>5, <2>1, <3>2, StandsReturn
    <3> QED BY <3>1, <3>3
  <2>3. CASE j = i + 1
    <3>1. /\ Before(j)' = Append(Before(j), x) /\ got'[j] = got[j]
          /\ rest'[j] = Selection[doc][path[j]][x]
      BY <1>2, <1>3, <1>4, <1>5, <2>3
    <3>2. rest[j] = {}
      <4>1. asked # Idle /\ asked < j
        BY <1>2, <1>4, <2>3 DEF Idle
      <4> QED BY <1>1, <4>1 DEF Drained
    <3>3. /\ Stands(doc, path[j], Append(Before(j), x), got[j], Selection[doc][path[j]][x])
          /\ LosesNothing(doc, path[j], Append(Before(j), x), got[j], Selection[doc][path[j]][x])
      BY <1>2, <1>4, <1>5, <2>1, <3>2, StandsMoves
    <3> QED BY <3>1, <3>3
  <2>4. CASE j # i /\ j # i + 1
    <3>1. Before(j)' = Before(j) /\ rest'[j] = rest[j] /\ got'[j] = got[j]
      BY <1>2, <1>3, <1>5, <2>4
    <3> QED BY <2>1, <3>1
  <2> QED BY <2>2, <2>3, <2>4
<1>10. StagesStand'
  BY <1>2, <1>3, <1>9 DEF StagesStand
<1>11. ASSUME NEW j \in Stages PROVE HoldAll(claims[j], doc, got'[j], context)
  <2>1. CASE j # i
    <3>1. got'[j] = got[j]
      BY <1>2, <2>1
    <3> QED BY <1>1, <1>2, <3>1 DEF ClaimsHold
  <2>2. CASE j = i
    <3>1. Before(j)' = Before(j)
      BY <1>3, <1>4, <2>2
    <3>2. Stands(doc, path[j], Before(j), got'[j], rest'[j])
      BY <1>9, <3>1
    <3>3. PICK from : Walks(doc, path[j], Before(j), got'[j], from)
      BY <3>2 DEF Stands
    <3>4. HoldAll(ClaimedOf(j), doc, Before(j), context) /\ Before(j) \in Seq(Nodes(doc))
      BY <1>1, <1>2, BeforeHolds
    <3>5. got'[j] \in Seq(Nodes(doc))
      BY <1>3
    <3> QED BY <1>1, <3>3, <3>4, <3>5, ClaimsCarry
  <2> QED BY <2>1, <2>2
<1>12. ClaimsHold'
  BY <1>2, <1>3, <1>11 DEF ClaimsHold
<1>13. Drained'
  <2>1. ASSUME NEW j \in Stages, asked' # Idle, asked' < j PROVE rest'[j] = {}
    <3>1. asked' = i + 1 /\ i + 1 < j
      BY <1>4, <1>6, <2>1
    <3>2. rest'[j] = rest[j]
      BY <1>2, <1>4, <1>5, <3>1
    <3>3. asked # Idle /\ asked < j
      BY <1>2, <1>4, <3>1 DEF Idle
    <3> QED BY <1>1, <3>2, <3>3 DEF Drained
  <2> QED BY <1>3, <2>1 DEF Drained
<1>14. Received'
  <2>1. Last \in Stages
    BY <1>4
  <2>2. CASE i < Last
    <3>1. got'[Last] = got[Last] /\ UNCHANGED <<found, delivered>>
      BY <1>2, <1>4, <2>1, <2>2
    <3> QED BY <1>1, <1>2, <1>3, <1>6, <3>1 DEF Received
  <2>3. CASE i = Last
    <3>1. Receive(x) /\ got'[Last] = Append(got[Last], x)
      BY <1>2, <2>1, <2>3
    <3>2. Elements(got'[Last]) = Elements(got[Last]) \cup {x}
      BY <1>2, <1>5, <2>1, <3>1, ElementsOfAppend
    <3>3. Elements(Append(delivered, x)) = Elements(delivered) \cup {x}
      BY <1>2, <1>4, ElementsOfAppend
    <3>4. sort' = "none" => delivered' = got'[Last] /\ "DOCORDER" \in claims'[Last']
      BY <1>1, <1>2, <1>3, <3>1 DEF Received, Receive
    <3>5. sort' = "unique" => Elements(delivered') = Elements(got'[Last]) /\ ordered' = FALSE
      <4>1. SUFFICES ASSUME sort = "unique"
                     PROVE  Elements(delivered') = Elements(got'[Last]) /\ ordered = FALSE
        BY <1>2
      <4>2. Elements(delivered) = Elements(got[Last]) /\ ordered = FALSE
        BY <1>1, <4>1 DEF Received
      <4>3. \/ x \notin Elements(delivered) /\ delivered' = Append(delivered, x)
            \/ x \in Elements(delivered) /\ delivered' = delivered
        BY <3>1, <4>1 DEF Receive
      <4> QED BY <3>2, <3>3, <4>2, <4>3
    <3>6. sort' = "sort" => found' = Elements(got'[Last]) /\ delivered' = <<>>
      BY <1>1, <1>2, <3>1, <3>2 DEF Received, Receive
    <3> QED BY <1>2, <1>3, <1>6, <3>4, <3>5, <3>6 DEF Received
  <2> QED BY <1>4, <2>2, <2>3
<1> QED BY <1>7, <1>8, <1>10, <1>12, <1>13, <1>14 DEF PipelineInv


-----------------------------------------------------------------------------
(* The claims hold.                                                        *)

LEMMA NextInv == PipelineInv /\ [Next]_vars => PipelineInv'
PROOF
<1> SUFFICES ASSUME PipelineInv, [Next]_vars PROVE PipelineInv'
  OBVIOUS
<1>1. CASE UNCHANGED vars
  <2>1. /\ UNCHANGED <<doc, context, ordered, path, claims, rest, got>>
        /\ UNCHANGED <<sort, asked, found, delivered>>
    BY <1>1 DEF vars, typing, running
  <2>2. ClaimsCombined' /\ StagesStand' /\ ClaimsHold' /\ Last' = Last /\ Stages' = Stages
          /\ Sorter' = Sorter
    BY <2>1, StagesKept
  <2>3. Typed /\ Drained /\ Received
    BY DEF PipelineInv
  <2>4. Typed'
    BY <2>1, <2>2, <2>3 DEF Typed
  <2>5. Drained' /\ Received'
    BY <2>1, <2>2, <2>3 DEF Drained, Received
  <2> QED BY <2>2, <2>4, <2>5 DEF PipelineInv
<1>2. CASE \E s \in Steps : AddStep(s)
  BY <1>2, AddStepInv
<1>3. CASE Begin
  BY <1>3, BeginInv
<1>4. CASE Ask
  BY <1>4, AskInv
<1>5. CASE \E i \in Stages : Pull(i)
  BY <1>5, PullInv
<1>6. CASE \E i \in 0 .. Last : Return(i)
  BY <1>6, ReturnInv
<1>7. CASE Exhausted
  BY <1>7, ExhaustedInv
<1>8. CASE Sorted
  BY <1>8, SortedInv
<1> QED BY <1>1, <1>2, <1>3, <1>4, <1>5, <1>6, <1>7, <1>8 DEF Next, Evaluate

\* The invariant of the chain of stages: where each stage stands in its walk,
\* and what has become of the nodes returned.
THEOREM PipelineInvariance == Spec => []PipelineInv
PROOF
<1>1. Init => PipelineInv
  BY InitInv
<1>2. PipelineInv /\ [Next]_vars => PipelineInv'
  BY NextInv
<1> QED BY <1>1, <1>2, PTL DEF Spec

\* What typing claims after each step of a path holds of the nodes the stage of
\* that step has returned, so that XQDocumentOrder drops the sort only where the
\* nodes come in document order.
THEOREM ClaimsHoldAlways == Spec => []ClaimsHold
PROOF
<1>1. PipelineInv => ClaimsHold
  BY DEF PipelineInv
<1> QED BY <1>1, PipelineInvariance, PTL


-----------------------------------------------------------------------------
(* What is still to come.                                                  *)

\* The nodes stage i has still to return, when it starts with base: those left
\* of its axis, and those selected from what the stage before has to return.
Successors(left, base, f) ==
  [i \in 0 .. Last |-> IF i = 0 THEN base
                       ELSE left[i] \cup UNION {Selected(path[i], x) : x \in f[i - 1]}]

LEMMA SuccessorsExist ==
  ASSUME NEW left, NEW base, Last \in Nat
  PROVE  \E f : f = Successors(left, base, f)
PROOF
<1> DEFINE Body(f, i) == IF i = 0 THEN base
                         ELSE left[i] \cup UNION {Selected(path[i], x) : x \in f[i - 1]}
           Upto(n, f) == f = [i \in 0 .. n |-> Body(f, i)]
           Bad == {n \in Nat : ~ \E f : Upto(n, f)}
<1>1. SUFFICES Bad = {}
  <2>1. Last \notin Bad
    BY <1>1
  <2>2. PICK f : Upto(Last, f)
    BY <2>1
  <2> QED BY <2>2 DEF Successors
<1>2. SUFFICES ASSUME Bad # {} PROVE FALSE
  OBVIOUS
<1>3. PICK n \in Bad : \A m \in Bad : n <= m
  <2>1. Bad \in SUBSET Nat
    OBVIOUS
  <2> HIDE DEF Bad
  <2> QED BY <1>2, <2>1, LeastExists
<1>4. n \in Nat /\ ~ \E f : Upto(n, f)
  BY <1>3
<1>5. CASE n = 0
  <2> DEFINE f == [i \in 0 .. 0 |-> base]
  <2>1. \A i \in 0 .. 0 : Body(f, i) = base
    OBVIOUS
  <2>2. f = [i \in 0 .. 0 |-> Body(f, i)]
    <3> HIDE DEF Body
    <3> QED BY <2>1
  <2>3. Upto(0, f)
    BY <2>2
  <2> QED BY <1>4, <1>5, <2>3
<1>6. CASE n # 0
  <2>1. n - 1 \in Nat /\ n - 1 \notin Bad
    <3> HIDE DEF Bad
    <3>1. n - 1 \in Nat /\ ~(n <= n - 1)
      BY <1>4, <1>6
    <3> QED BY <1>3, <3>1
  <2>2. PICK f : Upto(n - 1, f)
    BY <2>1
  <2> DEFINE g == [i \in 0 .. n |-> Body(f, i)]
  <2>3. ASSUME NEW i \in 0 .. n PROVE Body(g, i) = Body(f, i)
    <3>1. CASE i = 0
      BY <3>1
    <3>2. CASE i # 0
      <4>1. i - 1 \in 0 .. n - 1 /\ i - 1 \in 0 .. n
        BY <1>4, <3>2
      <4>2. g[i - 1] = Body(f, i - 1)
        <5> HIDE DEF Body
        <5> QED BY <4>1
      <4>3. f[i - 1] = Body(f, i - 1)
        <5> HIDE DEF Body
        <5> QED BY <2>2, <4>1
      <4>4. g[i - 1] = f[i - 1]
        BY <4>2, <4>3
      <4> HIDE DEF g
      <4> QED BY <4>4
    <3> QED BY <3>1, <3>2
  <2>4. g = [i \in 0 .. n |-> Body(g, i)]
    <3>1. \A i \in 0 .. n : g[i] = Body(g, i)
      <4>1. \A i \in 0 .. n : g[i] = Body(f, i)
        <5> HIDE DEF Body
        <5> QED OBVIOUS
      <4> HIDE DEF Body, g
      <4> QED BY <2>3, <4>1
    <3>2. g = [i \in 0 .. n |-> g[i]]
      <4> HIDE DEF Body
      <4> QED OBVIOUS
    <3> HIDE DEF Body, g
    <3> QED BY <3>1, <3>2
  <2>5. Upto(n, g)
    BY <2>4
  <2> QED BY <1>4, <2>5
<1> QED BY <1>4, <1>5, <1>6


\* All the nodes a path selects, of those returned and those to come.
LEMMA ReachedIs ==
  ASSUME Last \in Nat
  PROVE  \E f : /\ f[0] = {context}
                /\ \A i \in 1 .. Last : f[i] = UNION {Selected(path[i], x) : x \in f[i - 1]}
                /\ Reached = f[Last]
PROOF
<1> DEFINE Body(g, i) == IF i = 0 THEN {context} ELSE UNION {Selected(path[i], x) : x \in g[i - 1]}
           r == CHOOSE g : g = [i \in 0 .. Last |-> Body(g, i)]
<1>1. \E g : g = [i \in 0 .. Last |-> Body(g, i)]
  <2> DEFINE none == [i \in 1 .. Last |-> {}]
  <2>1. PICK g : g = Successors(none, {context}, g)
    <3> HIDE DEF none
    <3> QED BY SuccessorsExist
  <2>2. g = [i \in 0 .. Last |->
               IF i = 0 THEN {context}
               ELSE none[i] \cup UNION {Selected(path[i], x) : x \in g[i - 1]}]
    BY <2>1 DEF Successors
  <2>3. \A i \in 0 .. Last : i # 0 => none[i] = {}
    OBVIOUS
  <2> HIDE DEF none
  <2>4. \A i \in 0 .. Last :
          Body(g, i) = IF i = 0 THEN {context}
                       ELSE none[i] \cup UNION {Selected(path[i], x) : x \in g[i - 1]}
    BY <2>3
  <2>5. g = [i \in 0 .. Last |-> Body(g, i)]
    <3> HIDE DEF Body
    <3> QED BY <2>2, <2>4
  <2> QED BY <2>5
<1>2. r = [i \in 0 .. Last |-> Body(r, i)]
  <2> HIDE DEF Body
  <2> QED BY <1>1
<1>3. Reached = r[Last]
  BY DEF Reached
<1> HIDE DEF r
<1>4. r[0] = {context}
  BY <1>2
<1>5. \A i \in 1 .. Last : r[i] = UNION {Selected(path[i], x) : x \in r[i - 1]}
  <2> SUFFICES ASSUME NEW i \in 1 .. Last
               PROVE  r[i] = UNION {Selected(path[i], x) : x \in r[i - 1]}
    OBVIOUS
  <2>1. i \in 0 .. Last /\ i # 0
    OBVIOUS
  <2>2. r[i] = Body(r, i)
    <3> HIDE DEF Body
    <3> QED BY <1>2, <2>1
  <2> QED BY <2>1, <2>2
<1> QED BY <1>3, <1>4, <1>5

\* The nodes not returned yet do not come late: where the order is claimed they
\* follow all those returned, and when no stage has any left there are none.
NothingComesLate ==
  sort # "typing" =>
    /\ Elements(got[Last]) \subseteq Reached /\ Reached \subseteq Nodes(doc)
    /\ (\A i \in 0 .. Last : rest[i] = {}) => Reached = Elements(got[Last])
    /\ "DOCORDER" \in claims[Last] =>
         \A x \in Elements(got[Last]), y \in Reached \ Elements(got[Last]) : x < y

\* Every number from 1 to n has a property that 1 has and each hands to the next.
LEMMA UpTo ==
  ASSUME NEW n \in Nat, NEW S, 0 \in S, \A i \in 1 .. n : i - 1 \in S => i \in S
  PROVE  \A i \in 0 .. n : i \in S
PROOF
<1> DEFINE Bad == {i \in 0 .. n : i \notin S}
<1>1. SUFFICES ASSUME Bad # {} PROVE FALSE
  OBVIOUS
<1>2. Bad \in SUBSET Nat /\ \A i \in Bad : i \in 0 .. n /\ i \notin S
  OBVIOUS
<1>3. \A i \in 0 .. n : i \notin S => i \in Bad
  OBVIOUS
<1> HIDE DEF Bad
<1>4. PICK m \in Bad : \A i \in Bad : m <= i
  BY <1>1, <1>2, LeastExists
<1>5. m \in 0 .. n /\ m \notin S
  BY <1>2, <1>4
<1>6. m # 0
  BY <1>5
<1>7. m - 1 \in 0 .. n /\ m \in 1 .. n /\ ~(m <= m - 1)
  BY <1>5, <1>6
<1>8. m - 1 \in S
  BY <1>3, <1>4, <1>7
<1> QED BY <1>5, <1>7, <1>8


LEMMA TypedStages ==
  ASSUME Typed, sort # "typing"
  PROVE  /\ doc \in Documents /\ context \in Nodes(doc)
         /\ Last \in Nat /\ Last # 0 /\ Last \in 0 .. Last /\ Stages = 1 .. Last
         /\ rest[0] \subseteq {context}
         /\ \A i \in 1 .. Last : got[i] \in Seq(Nodes(doc)) /\ path[i] \in Steps
PROOF
<1>1. /\ doc \in Documents /\ context \in Nodes(doc) /\ path \in Seq(Steps) /\ path # <<>>
      /\ got \in [Stages -> Seq(Nodes(doc))] /\ rest[0] \subseteq {context}
  BY DEF Typed
<1>2. Last \in Nat /\ Last # 0 /\ Stages = 1 .. Last /\ Last = Len(path)
  BY <1>1 DEF Last, Stages
<1>3. \A i \in 1 .. Last : got[i] \in Seq(Nodes(doc)) /\ path[i] \in Steps
  BY <1>1, <1>2
<1> QED BY <1>1, <1>2, <1>3

\* The nodes stage i has returned; stage 0 has the context item.
Returned(i) == IF i # 0 THEN Elements(got[i]) ELSE IF rest[0] = {} THEN {context} ELSE {}

\* A node selected at a stage has been returned or is still to come.
LEMMA ReachedOrAhead ==
  ASSUME PipelineInv, sort # "typing",
         NEW f, f[0] = {context},
         \A i \in 1 .. Last : f[i] = UNION {Selected(path[i], x) : x \in f[i - 1]},
         NEW a, a[0] = rest[0],
         \A i \in 1 .. Last :
           a[i] = rest[i] \cup UNION {Selected(path[i], x) : x \in a[i - 1]}
  PROVE  \A i \in 0 .. Last : f[i] = Returned(i) \cup a[i] /\ f[i] \subseteq Nodes(doc)
PROOF
<1>1. Typed /\ ClaimsCombined /\ StagesStand
  BY DEF PipelineInv
<1>2. /\ doc \in Documents /\ context \in Nodes(doc) /\ Last \in Nat /\ Stages = 1 .. Last
      /\ rest[0] \subseteq {context}
      /\ \A i \in 1 .. Last : got[i] \in Seq(Nodes(doc)) /\ path[i] \in Steps
  BY <1>1, TypedStages
<1> DEFINE S == {i \in 0 .. Last : f[i] = Returned(i) \cup a[i] /\ f[i] \subseteq Nodes(doc)}
<1>3. 0 \in S
  <2>1. rest[0] = {} \/ rest[0] = {context}
    BY <1>2
  <2>2. f[0] = Returned(0) \cup a[0]
    BY <2>1 DEF Returned
  <2> QED BY <1>2, <2>2
<1>4. ASSUME NEW i \in 1 .. Last, i - 1 \in S PROVE i \in S
  <2>1. f[i - 1] = Returned(i - 1) \cup a[i - 1] /\ f[i - 1] \subseteq Nodes(doc)
    BY <1>4
  <2> DEFINE Sel(x) == Selection[doc][path[i]][x]
             b == Before(i)
  <2>2. f[i] = UNION {Sel(x) : x \in f[i - 1]} /\ a[i] = rest[i] \cup UNION {Sel(x) : x \in a[i - 1]}
    BY <1>4 DEF Selected
  <2>3. path[i] \in Steps /\ got[i] \in Seq(Nodes(doc)) /\ b \in Seq(Nodes(doc))
    BY <1>1, <1>2, <1>4, BeforeHolds
  <2>4. Returned(i) = Elements(got[i]) /\ Returned(i - 1) = {b[m] : m \in 1 .. Len(b)}
    <3>1. CASE i = 1
      <4>1. Len(<<context>>) = 1 /\ <<context>>[1] = context /\ Len(<<>>) = 0
        OBVIOUS
      <4>2. b = IF rest[0] = {} THEN <<context>> ELSE <<>>
        BY <3>1 DEF Before
      <4>3. Returned(i) = Elements(got[i]) /\ Returned(i - 1) = IF rest[0] = {} THEN {context} ELSE {}
        BY <3>1 DEF Returned
      <4>4. CASE rest[0] = {}
        <5>1. b = <<context>>
          BY <4>2, <4>4
        <5>2. {<<context>>[m] : m \in 1 .. Len(<<context>>)} = {context}
          OBVIOUS
        <5> HIDE DEF b
        <5> QED BY <4>3, <4>4, <5>1, <5>2
      <4>5. CASE rest[0] # {}
        <5>1. b = <<>>
          BY <4>2, <4>5
        <5>2. {<<>>[m] : m \in 1 .. Len(<<>>)} = {}
          OBVIOUS
        <5> HIDE DEF b
        <5> QED BY <4>3, <4>5, <5>1, <5>2
      <4> QED BY <4>4, <4>5
    <3>2. CASE i # 1
      <4>1. i - 1 \in 1 .. Last /\ i - 1 # 0 /\ i # 0
        BY <1>2, <3>2
      <4>2. b = got[i - 1] /\ got[i - 1] \in Seq(Nodes(doc))
        BY <1>2, <3>2, <4>1 DEF Before
      <4>3. DOMAIN got[i - 1] = 1 .. Len(got[i - 1])
        BY <4>2
      <4> QED BY <4>1, <4>2, <4>3 DEF Returned, Elements
    <3> QED BY <3>1, <3>2
  <2>5. /\ Stands(doc, path[i], b, got[i], rest[i])
        /\ LosesNothing(doc, path[i], b, got[i], rest[i])
    BY <1>1, <1>2, <1>4 DEF StagesStand
  <2>6. PICK from \in [1 .. Len(got[i]) -> 1 .. Len(b)] :
          /\ Walks(doc, path[i], b, got[i], from)
          /\ rest[i] # {} => b # <<>> /\ rest[i] \subseteq Sel(b[Len(b)])
    BY <2>5 DEF Stands
  <2> HIDE DEF b
  <2>7. ASSUME NEW y \in f[i] PROVE y \in Returned(i) \cup a[i]
    <3>1. PICK x \in f[i - 1] : y \in Sel(x)
      BY <2>2
    <3>2. CASE x \in a[i - 1]
      BY <2>2, <3>1, <3>2
    <3>3. CASE x \in Returned(i - 1)
      <4>1. PICK m \in 1 .. Len(b) : x = b[m]
        BY <2>4, <3>3
      <4>2. y \in Elements(got[i]) \cup rest[i]
        BY <2>5, <3>1, <4>1 DEF LosesNothing
      <4> QED BY <2>2, <2>4, <4>2
    <3> QED BY <2>1, <3>2, <3>3
  <2>8. \A m \in 1 .. Len(b) : b[m] \in f[i - 1]
    BY <2>1, <2>4
  <2>9. ASSUME NEW y \in Returned(i) PROVE y \in f[i]
    <3>1. PICK k \in 1 .. Len(got[i]) : y = got[i][k]
      BY <2>3, <2>4 DEF Elements
    <3>2. y \in Sel(b[from[k]]) /\ from[k] \in 1 .. Len(b)
      BY <2>6, <3>1 DEF Walks
    <3> QED BY <2>2, <2>8, <3>2
  <2>10. ASSUME NEW y \in a[i] PROVE y \in f[i]
    <3>1. CASE y \in rest[i]
      <4>1. b # <<>> /\ y \in Sel(b[Len(b)])
        BY <2>6, <3>1
      <4>2. Len(b) \in 1 .. Len(b)
        BY <2>3, <4>1
      <4> QED BY <2>2, <2>8, <4>1, <4>2
    <3>2. CASE \E x \in a[i - 1] : y \in Sel(x)
      BY <2>1, <2>2, <3>2
    <3> QED BY <2>2, <3>1, <3>2
  <2>11. f[i] \subseteq Nodes(doc)
    <3>1. ASSUME NEW y \in f[i] PROVE y \in Nodes(doc)
      <4>1. PICK x \in f[i - 1] : y \in Sel(x)
        BY <2>2
      <4>2. x \in Nodes(doc)
        BY <2>1
      <4> QED BY <1>2, <2>3, <4>1, <4>2, SelectedOnAxis
    <3> QED BY <3>1
  <2>12. i \in 0 .. Last /\ f[i] = Returned(i) \cup a[i]
    BY <1>2, <2>7, <2>9, <2>10
  <2> QED BY <2>11, <2>12
<1> HIDE DEF S
<1>5. \A i \in 0 .. Last : i \in S
  BY <1>2, <1>3, <1>4, UpTo
<1> QED BY <1>5 DEF S

\* The claims of a stage hold of what it has returned with any one node it has
\* still to return after that.
LEMMA ClaimsAhead ==
  ASSUME PipelineInv, sort # "typing",
         NEW a, a[0] = rest[0],
         \A i \in 1 .. Last :
           a[i] = rest[i] \cup UNION {Selected(path[i], x) : x \in a[i - 1]},
         \A i \in 0 .. Last : a[i] \subseteq Nodes(doc)
  PROVE  \A y \in a[Last] : HoldAll(claims[Last], doc, Append(got[Last], y), context)
PROOF
<1>1. Typed /\ ClaimsCombined /\ StagesStand /\ ClaimsHold
  BY DEF PipelineInv
<1>2. /\ doc \in Documents /\ context \in Nodes(doc) /\ Last \in Nat /\ Stages = 1 .. Last
      /\ rest[0] \subseteq {context} /\ Last # 0
      /\ \A i \in 1 .. Last : got[i] \in Seq(Nodes(doc)) /\ path[i] \in Steps
  BY <1>1, TypedStages
<1> DEFINE S == {i \in 0 .. Last : \A y \in a[i] :
                   HoldAll(ClaimedOf(i + 1), doc, Append(Before(i + 1), y), context)}
<1>3. 0 \in S
  <2>1. ASSUME NEW y \in a[0] PROVE HoldAll(ClaimedOf(1), doc, Append(Before(1), y), context)
    <3>1. y = context /\ rest[0] # {}
      BY <1>2, <2>1
    <3>2. Before(1) = <<>> /\ ClaimedOf(1) = OneContextNode
      BY <3>1 DEF Before, ClaimedOf
    <3>3. Append(<<>>, context) = <<context>>
      OBVIOUS
    <3>4. HoldAll(OneContextNode, doc, <<context>>, context)
      BY <1>2, StartHolds
    <3>5. Append(Before(1), y) = <<context>>
      BY <3>1, <3>2, <3>3, Zenon
    <3> QED BY <3>2, <3>4, <3>5
  <2> QED BY <1>2, <2>1
<1>4. ASSUME NEW i \in 1 .. Last, i - 1 \in S PROVE i \in S
  <2>1. ASSUME NEW y \in a[i]
        PROVE  HoldAll(claims[i], doc, Append(got[i], y), context)
    <3> DEFINE b == Before(i)
    <3>1. /\ path[i] \in Steps /\ got[i] \in Seq(Nodes(doc)) /\ b \in Seq(Nodes(doc))
          /\ HoldAll(ClaimedOf(i), doc, b, context)
      BY <1>1, <1>2, <1>4, BeforeHolds
    <3>2. Stands(doc, path[i], b, got[i], rest[i])
      BY <1>1, <1>2, <1>4 DEF StagesStand
    <3>3. CASE y \in rest[i]
      <4> HIDE DEF b
      <4>1. PICK from : Walks(doc, path[i], b, Append(got[i], y), from)
        BY <1>2, <3>1, <3>2, <3>3, WalkToLeft
      <4>2. Append(got[i], y) \in Seq(Nodes(doc))
        BY <1>2, <3>1, <3>2, <3>3, WalkToLeft
      <4> QED BY <1>1, <1>2, <1>4, <3>1, <4>1, <4>2, ClaimsCarry
    <3>4. CASE \E z \in a[i - 1] : y \in Selection[doc][path[i]][z]
      <4>1. PICK z \in a[i - 1] : y \in Selection[doc][path[i]][z]
        BY <3>4
      <4>2. i - 1 \in 0 .. Last /\ z \in Nodes(doc)
        BY <1>2, <1>4, <4>1
      <4> DEFINE bz == Append(b, z)
      <4>3. HoldAll(ClaimedOf(i), doc, bz, context)
        <5>1. (i - 1) + 1 = i
          BY <1>4
        <5> QED BY <1>4, <4>1, <5>1
      <4> HIDE DEF b
      <4>4. bz \in Seq(Nodes(doc)) /\ Stands(doc, path[i], bz, got[i], Selection[doc][path[i]][z])
        <5>1. bz \in Seq(Nodes(doc))
          BY <3>1, <4>2
        <5> QED BY <1>2, <3>1, <3>2, <4>2, <5>1, StandsMoves
      <4> HIDE DEF bz
      <4>5. PICK from : Walks(doc, path[i], bz, Append(got[i], y), from)
        BY <1>2, <3>1, <4>1, <4>4, WalkToLeft
      <4>6. Append(got[i], y) \in Seq(Nodes(doc))
        BY <1>2, <3>1, <4>1, <4>4, WalkToLeft
      <4> QED BY <1>1, <1>2, <1>4, <4>3, <4>4, <4>5, <4>6, ClaimsCarry
    <3>5. a[i] = rest[i] \cup UNION {Selection[doc][path[i]][z] : z \in a[i - 1]}
      BY <1>4 DEF Selected
    <3> QED BY <3>3, <3>4, <3>5
  <2>2. ClaimedOf(i + 1) = claims[i] /\ Before(i + 1) = got[i] /\ i \in 0 .. Last
    <3>1. i + 1 # 1 /\ (i + 1) - 1 = i /\ i \in 0 .. Last
      BY <1>2, <1>4
    <3> QED BY <3>1 DEF ClaimedOf, Before
  <2> QED BY <2>1, <2>2
<1>5. Last \in S
  <2> HIDE DEF S
  <2>1. \A i \in 0 .. Last : i \in S
    BY <1>2, <1>3, <1>4, UpTo
  <2> QED BY <1>2, <2>1
<1>6. ClaimedOf(Last + 1) = claims[Last] /\ Before(Last + 1) = got[Last]
  <2>1. Last + 1 # 1 /\ (Last + 1) - 1 = Last
    BY <1>2
  <2> QED BY <2>1 DEF ClaimedOf, Before
<1> QED BY <1>5, <1>6

LEMMA ComesInTurn == PipelineInv => NothingComesLate
PROOF
<1> SUFFICES ASSUME PipelineInv, sort # "typing"
             PROVE  /\ Elements(got[Last]) \subseteq Reached /\ Reached \subseteq Nodes(doc)
                    /\ (\A i \in 0 .. Last : rest[i] = {}) => Reached = Elements(got[Last])
                    /\ "DOCORDER" \in claims[Last] =>
                         \A x \in Elements(got[Last]), y \in Reached \ Elements(got[Last]) : x < y
  BY DEF NothingComesLate
<1>1. Typed
  BY DEF PipelineInv
<1>2. Last \in Nat /\ Last # 0 /\ got[Last] \in Seq(Nodes(doc)) /\ Last \in 0 .. Last
  <2>1. /\ Last \in Nat /\ Last # 0
        /\ \A i \in 1 .. Last : got[i] \in Seq(Nodes(doc)) /\ path[i] \in Steps
    BY <1>1, TypedStages
  <2> QED BY <2>1
<1>3. PICK f : /\ f[0] = {context}
               /\ \A i \in 1 .. Last : f[i] = UNION {Selected(path[i], x) : x \in f[i - 1]}
               /\ Reached = f[Last]
  BY <1>2, ReachedIs
<1>4. PICK a : a = Successors(rest, rest[0], a)
  BY <1>2, SuccessorsExist
<1> DEFINE Body(i) == IF i = 0 THEN rest[0]
                      ELSE rest[i] \cup UNION {Selected(path[i], x) : x \in a[i - 1]}
<1>5. \A i \in 0 .. Last : a[i] = Body(i)
  <2>1. a = [i \in 0 .. Last |-> Body(i)]
    BY <1>4 DEF Successors
  <2> HIDE DEF Body
  <2> QED BY <2>1
<1>6. /\ a[0] = rest[0]
      /\ \A i \in 1 .. Last : a[i] = rest[i] \cup UNION {Selected(path[i], x) : x \in a[i - 1]}
  <2>1. 0 \in 0 .. Last /\ \A i \in 1 .. Last : i \in 0 .. Last /\ i # 0
    BY <1>2
  <2> QED BY <1>5, <2>1
<1>7. \A i \in 0 .. Last : f[i] = Returned(i) \cup a[i] /\ f[i] \subseteq Nodes(doc)
  BY <1>3, <1>6, ReachedOrAhead
<1>8. \A y \in a[Last] : HoldAll(claims[Last], doc, Append(got[Last], y), context)
  <2>1. \A i \in 0 .. Last : a[i] \subseteq Nodes(doc)
    BY <1>7
  <2> QED BY <1>6, <2>1, ClaimsAhead
<1>9. Reached = Elements(got[Last]) \cup a[Last] /\ Reached \subseteq Nodes(doc)
  BY <1>2, <1>3, <1>7 DEF Returned
<1>10. ASSUME \A i \in 0 .. Last : rest[i] = {} PROVE a[Last] = {}
  <2> DEFINE S == {i \in 0 .. Last : a[i] = {}}
  <2>1. 0 \in S
    BY <1>2, <1>6, <1>10
  <2>2. ASSUME NEW i \in 1 .. Last, i - 1 \in S PROVE i \in S
    <3>1. a[i - 1] = {} /\ rest[i] = {} /\ i \in 0 .. Last
      BY <1>2, <1>10, <2>2
    <3>2. a[i] = rest[i] \cup UNION {Selected(path[i], x) : x \in a[i - 1]}
      BY <1>6
    <3> QED BY <3>1, <3>2
  <2> HIDE DEF S
  <2>3. \A i \in 0 .. Last : i \in S
    BY <1>2, <2>1, <2>2, UpTo
  <2> QED BY <1>2, <2>3 DEF S
<1>11. ASSUME "DOCORDER" \in claims[Last],
              NEW x \in Elements(got[Last]), NEW y \in Reached \ Elements(got[Last])
       PROVE  x < y
  <2>1. y \in a[Last] /\ y \in Nodes(doc)
    BY <1>9
  <2> DEFINE all == Append(got[Last], y)
  <2>2. InOrder(all)
    <3>1. HoldAll(claims[Last], doc, all, context)
      BY <1>8, <2>1
    <3> HIDE DEF all
    <3> QED BY <1>11, <3>1, ClaimMeanings DEF HoldAll
  <2>3. PICK k \in 1 .. Len(got[Last]) : x = got[Last][k]
    BY <1>2 DEF Elements
  <2>4. /\ DOMAIN all = 1 .. Len(got[Last]) + 1 /\ Len(got[Last]) \in Nat
        /\ all[k] = x /\ all[Len(got[Last]) + 1] = y
    BY <1>2, <2>1, <2>3
  <2> HIDE DEF all
  <2>5. k \in DOMAIN all /\ Len(got[Last]) + 1 \in DOMAIN all /\ k < Len(got[Last]) + 1
    BY <2>4
  <2> QED BY <2>2, <2>4, <2>5 DEF InOrder
<1> QED BY <1>9, <1>10, <1>11


-----------------------------------------------------------------------------
(* The pipeline implements PathResult.                                     *)

Todo == IF sort = "typing" THEN {} ELSE Reached \ Elements(delivered)

\* The state PathResult sees.
LEMMA Shown ==
  /\ Promised!resultvars
       = <<sort # "typing", ordered, Todo, delivered, asked # Idle, ended>>
  /\ Promised!Next <=> Promised!Begin \/ Promised!Request \/ Promised!ReportEnd
                         \/ \E x \in Todo : Promised!Deliver(x)
  /\ Promised!Begin <=>
       /\ ~(sort # "typing") /\ (sort # "typing")' = TRUE
       /\ Todo' \in SUBSET UNION {Nodes(d) : d \in Documents}
       /\ UNCHANGED <<ordered, delivered, asked # Idle, ended>>
  /\ Promised!Request <=>
       /\ sort # "typing" /\ ~(asked # Idle) /\ ~ended
       /\ (asked # Idle)' = TRUE
       /\ UNCHANGED <<sort # "typing", ordered, Todo, delivered, ended>>
  /\ Promised!ReportEnd <=>
       /\ asked # Idle /\ Todo = {}
       /\ (asked # Idle)' = FALSE /\ ended' = TRUE
       /\ UNCHANGED <<sort # "typing", ordered, Todo, delivered>>
  /\ \A x : Promised!Deliver(x) <=>
       /\ asked # Idle /\ x \in Todo
       /\ ordered => \A y \in Todo : x <= y
       /\ Todo' = Todo \ {x}
       /\ delivered' = Append(delivered, x)
       /\ (asked # Idle)' = FALSE
       /\ UNCHANGED <<sort # "typing", ordered, ended>>
PROOF
BY DEF Promised!resultvars, Promised!Next, Promised!Begin, Promised!Request, Promised!Answer,
       Promised!ReportEnd, Promised!Deliver, Todo

LEMMA InitShown == Init => Promised!Init
PROOF
BY DEF Init, Promised!Init

\* A step that changes nothing PathResult sees.
LEMMA Hidden ==
  ASSUME UNCHANGED <<doc, context, path, ordered, delivered, ended>>,
         (sort' # "typing") <=> (sort # "typing"), (asked' # Idle) <=> (asked # Idle)
  PROVE  UNCHANGED Promised!resultvars
PROOF
<1>1. Reached' = Reached
  BY DEF Reached, Selected, Last
<1>2. Todo' = Todo
  BY <1>1 DEF Todo
<1> QED BY <1>2 DEF Promised!resultvars, Todo

\* An answer with the node x.
LEMMA Delivered ==
  ASSUME PipelineInv, UNCHANGED <<doc, context, path, ordered, ended>>,
         sort # "typing", sort' = sort, asked # Idle, asked' = Idle,
         NEW x \in Todo, ordered => \A y \in Todo : x <= y,
         x \in Nodes(doc), delivered' = Append(delivered, x)
  PROVE  Promised!Deliver(x)
PROOF
<1>1. Reached' = Reached
  BY DEF Reached, Selected, Last
<1>2. Elements(delivered') = Elements(delivered) \cup {x}
  <2>1. delivered \in Seq(Nodes(doc))
    BY DEF PipelineInv, Typed
  <2> QED BY <2>1, ElementsOfAppend
<1>3. Todo' = Todo \ {x}
  BY <1>1, <1>2 DEF Todo
<1>4. UNCHANGED <<sort # "typing", ordered, ended>> /\ (asked # Idle)' = FALSE
  OBVIOUS
<1> QED BY <1>3, <1>4, Shown

\* The answer that there is no further node.
LEMMA EndReported ==
  ASSUME UNCHANGED <<doc, context, path, ordered, delivered, sort>>, ended' = TRUE,
         asked # Idle, asked' = Idle, Todo = {}
  PROVE  Promised!ReportEnd
PROOF
<1>1. Reached' = Reached
  BY DEF Reached, Selected, Last
<1>2. Todo' = Todo
  BY <1>1 DEF Todo
<1>3. (asked # Idle)' = FALSE /\ UNCHANGED <<sort # "typing", ordered, Todo, delivered>>
  BY <1>2
<1> QED BY <1>3, Shown

LEMMA ReturnShown ==
  ASSUME PipelineInv, NothingComesLate, PipelineInv', NothingComesLate',
         NEW i \in 0 .. Last, Return(i)
  PROVE  Promised!Next \/ UNCHANGED Promised!resultvars
PROOF
<1> DEFINE x == NodeOf(i)
<1>1. Typed /\ Received /\ Received'
  BY DEF PipelineInv
<1>2. /\ sort # "typing" /\ sort # "sorted" /\ sort' = sort
      /\ UNCHANGED <<doc, context, ordered, path, claims, ended>>
      /\ asked = i /\ x \in Nodes(doc)
      /\ got' = [j \in Stages |-> IF j = i THEN Append(got[j], x) ELSE got[j]]
      /\ i < Last => asked' = i + 1 /\ UNCHANGED <<found, delivered>>
      /\ i = Last => Receive(x)
  BY <1>1, ReturnEffect
<1> HIDE DEF x
<1>3. /\ Last \in Nat /\ Last # 0 /\ Last \in Stages /\ i \in 0 .. Last
      /\ got[Last] \in Seq(Nodes(doc)) /\ doc \in Documents
  <2>1. /\ Last \in Nat /\ Last # 0 /\ Stages = 1 .. Last /\ doc \in Documents
        /\ \A j \in 1 .. Last : got[j] \in Seq(Nodes(doc))
    BY <1>1, <1>2, TypedStages
  <2> QED BY <2>1
<1>4. asked # Idle
  BY <1>2, <1>3 DEF Idle
<1>5. CASE i < Last
  <2>1. asked' # Idle /\ UNCHANGED delivered
    BY <1>2, <1>3, <1>5 DEF Idle
  <2> QED BY <1>2, <1>4, <2>1, Hidden
<1>6. CASE i = Last
  <2>1. Receive(x) /\ got'[Last] = Append(got[Last], x) /\ Last' = Last
    BY <1>2, <1>3, <1>6 DEF Last
  <2>2. Elements(got'[Last]) = Elements(got[Last]) \cup {x}
    BY <1>2, <1>3, <2>1, ElementsOfAppend
  <2>3. Reached' = Reached
    BY <1>2 DEF Reached, Selected, Last
  <2>4. x \in Reached
    <3>1. Elements(got'[Last]) \subseteq Reached'
      BY <1>2, <2>1 DEF NothingComesLate
    <3> QED BY <2>2, <2>3, <3>1
  <2>5. CASE sort = "none"
    <3>1. delivered' = Append(delivered, x) /\ asked' = Idle /\ delivered = got[Last]
      BY <1>1, <2>1, <2>5 DEF Receive, Received
    <3>2. "DOCORDER" \in claims[Last] /\ "DOCORDER" \in claims'[Last]
      BY <1>1, <1>2, <2>5 DEF Received
    <3>3. x \notin Elements(got[Last])
      <4>1. InOrder(got'[Last])
        <5>1. HoldAll(claims'[Last], doc', got'[Last], context')
          <6>1. Last \in Stages' /\ ClaimsHold' /\ sort' # "typing"
            BY <1>2, <1>3 DEF PipelineInv, Stages, Last
          <6> QED BY <6>1 DEF ClaimsHold
        <5> QED BY <3>2, <5>1, ClaimMeanings DEF HoldAll
      <4>2. SUFFICES ASSUME NEW k \in 1 .. Len(got[Last]), x = got[Last][k] PROVE FALSE
        BY <1>3 DEF Elements
      <4> DEFINE all == Append(got[Last], x)
      <4>3. /\ DOMAIN all = 1 .. Len(got[Last]) + 1 /\ Len(got[Last]) \in Nat
            /\ all[k] = x /\ all[Len(got[Last]) + 1] = x
        BY <1>2, <1>3, <4>2
      <4>4. InOrder(all)
        BY <2>1, <4>1
      <4> HIDE DEF all
      <4>5. k \in DOMAIN all /\ Len(got[Last]) + 1 \in DOMAIN all /\ k < Len(got[Last]) + 1
        BY <4>3
      <4>6. x < x
        BY <4>3, <4>4, <4>5 DEF InOrder
      <4>7. x \in Nat
        BY <1>2, <1>3, DocumentFacts
      <4> QED BY <4>6, <4>7
    <3>4. Todo = Reached \ Elements(got[Last]) /\ x \in Todo
      BY <1>2, <2>4, <3>1, <3>3 DEF Todo
    <3>5. ASSUME NEW y \in Todo PROVE x <= y
      <4>1. CASE y = x
        <5>1. x \in Nat
          BY <1>2, <1>3, DocumentFacts
        <5> QED BY <4>1, <5>1
      <4>2. CASE y # x
        <5>1. x \in Elements(got'[Last]) /\ y \in Reached' \ Elements(got'[Last])
          BY <2>2, <2>3, <3>4, <4>2
        <5>2. x < y
          BY <1>2, <2>1, <3>2, <5>1 DEF NothingComesLate
        <5>3. x \in Nat /\ y \in Nat
          <6>1. y \in Nodes(doc)
            BY <1>2, <3>4 DEF NothingComesLate
          <6> QED BY <1>2, <1>3, <6>1, DocumentFacts
        <5> QED BY <5>2, <5>3
      <4> QED BY <4>1, <4>2
    <3>6. Promised!Deliver(x)
      BY <1>2, <1>4, <3>1, <3>4, <3>5, Delivered
    <3> QED BY <3>4, <3>6, Shown
  <2>6. CASE sort = "unique"
    <3>1. Elements(delivered) = Elements(got[Last]) /\ ordered = FALSE
      BY <1>1, <2>6 DEF Received
    <3>2. CASE x \notin Elements(delivered)
      <4>1. delivered' = Append(delivered, x) /\ asked' = Idle
        BY <2>1, <2>6, <3>2 DEF Receive
      <4>2. x \in Todo
        BY <1>2, <2>4, <3>2 DEF Todo
      <4>3. Promised!Deliver(x)
        BY <1>2, <1>4, <3>1, <4>1, <4>2, Delivered
      <4> QED BY <4>2, <4>3, Shown
    <3>3. CASE x \in Elements(delivered)
      <4>1. UNCHANGED delivered /\ asked' = Last
        BY <2>1, <2>6, <3>3 DEF Receive
      <4>2. asked' # Idle
        BY <1>3, <4>1 DEF Idle
      <4> QED BY <1>2, <1>4, <4>1, <4>2, Hidden
    <3> QED BY <3>2, <3>3
  <2>7. CASE sort = "sort"
    <3>1. UNCHANGED delivered /\ asked' = Last
      BY <2>1, <2>7 DEF Receive
    <3>2. asked' # Idle
      BY <1>3, <3>1 DEF Idle
    <3> QED BY <1>2, <1>4, <3>1, <3>2, Hidden
  <2>8. sort \in {"none", "unique", "sort"}
    BY <1>1, <1>2 DEF Typed
  <2> QED BY <2>5, <2>6, <2>7, <2>8
<1> QED BY <1>3, <1>5, <1>6

LEMMA NextShown ==
  PipelineInv /\ NothingComesLate /\ PipelineInv' /\ NothingComesLate' /\ [Next]_vars
    => [Promised!Next]_(Promised!resultvars)
PROOF
<1> SUFFICES ASSUME PipelineInv, NothingComesLate, PipelineInv', NothingComesLate', [Next]_vars
             PROVE  Promised!Next \/ UNCHANGED Promised!resultvars
  OBVIOUS
<1>1. Typed /\ Received /\ Drained
  BY DEF PipelineInv
<1>2. CASE UNCHANGED vars
  <2>1. UNCHANGED <<doc, context, path, ordered, delivered, ended, sort, asked>>
    BY <1>2 DEF vars, typing, running
  <2> QED BY <2>1, Hidden
<1>3. CASE \E s \in Steps : AddStep(s)
  <2>1. sort = "typing" /\ sort' = "typing" /\ UNCHANGED <<ordered, delivered, ended, asked>>
    BY <1>3 DEF AddStep, running
  <2>2. Todo' = Todo
    BY <2>1 DEF Todo
  <2> QED BY <2>1, <2>2 DEF Promised!resultvars, Todo
<1>4. CASE Begin
  <2>1. /\ sort = "typing" /\ sort' # "typing"
        /\ UNCHANGED <<doc, ordered, delivered, asked, ended>>
    BY <1>4 DEF Begin
  <2>2. doc \in Documents /\ Todo' \subseteq Nodes(doc)
    BY <1>1, <2>1 DEF Typed, Todo, NothingComesLate
  <2>3. Todo' \in SUBSET UNION {Nodes(d) : d \in Documents}
    BY <2>2
  <2>4. (sort # "typing")' = TRUE /\ UNCHANGED <<ordered, delivered, asked # Idle, ended>>
    BY <2>1
  <2>5. Promised!Begin
    BY <2>1, <2>3, <2>4, Shown
  <2> QED BY <2>5, Shown
<1>5. CASE Ask
  <2>1. /\ sort # "typing" /\ asked = Idle /\ ~ended
        /\ asked' = IF sort = "sorted" THEN Sorter ELSE Last
        /\ UNCHANGED <<doc, context, path, sort, ordered, delivered, ended>>
    BY <1>5 DEF Ask, typing
  <2>2. asked' # Idle
    <3>1. Last \in Nat
      BY <1>1 DEF Typed, Last
    <3> QED BY <2>1, <3>1 DEF Idle, Sorter
  <2>3. Reached' = Reached
    BY <2>1 DEF Reached, Selected, Last
  <2>4. Todo' = Todo
    BY <2>1, <2>3 DEF Todo
  <2>5. (asked # Idle)' = TRUE /\ UNCHANGED <<sort # "typing", ordered, Todo, delivered, ended>>
    BY <2>1, <2>2, <2>4
  <2>6. Promised!Request
    BY <2>1, <2>5, Shown
  <2> QED BY <2>6, Shown
<1>6. CASE \E i \in Stages : Pull(i)
  <2>1. PICK i \in Stages : Pull(i)
    BY <1>6
  <2>2. i \in 1 .. Last
    BY DEF Stages
  <2>3. /\ asked = i /\ asked' = i - 1
        /\ UNCHANGED <<doc, context, path, sort, ordered, delivered, ended>>
    BY <2>1 DEF Pull, typing
  <2>4. asked # Idle /\ asked' # Idle
    BY <2>2, <2>3 DEF Idle
  <2> QED BY <2>3, <2>4, Hidden
<1>7. CASE \E i \in 0 .. Last : Return(i)
  BY <1>7, ReturnShown
<1>8. CASE Exhausted
  <2>1. /\ asked = 0 /\ rest[0] = {} /\ asked # Idle
        /\ UNCHANGED <<doc, context, ordered, path, delivered>>
        /\ \/ sort = "sort" /\ sort' = "sorted" /\ asked' = Sorter /\ UNCHANGED ended
           \/ sort # "sort" /\ sort' = sort /\ asked' = Idle /\ ended' = TRUE
    BY <1>8 DEF Exhausted, Idle
  <2>2. sort # "typing" /\ sort # "sorted"
    <3>1. Last \in Nat
      BY <1>1 DEF Typed, Last
    <3>2. asked # Sorter
      BY <2>1, <3>1 DEF Sorter
    <3> QED BY <1>1, <2>1, <3>2 DEF Received
  <2>3. CASE sort = "sort"
    <3>1. Last \in Nat
      BY <1>1 DEF Typed, Last
    <3>2. asked' # Idle /\ sort' # "typing" /\ UNCHANGED ended
      BY <2>1, <2>3, <3>1 DEF Sorter, Idle
    <3> QED BY <2>1, <2>2, <3>2, Hidden
  <2>4. CASE sort # "sort"
    <3>1. Last \in Nat /\ Stages = 1 .. Last
      BY <1>1 DEF Typed, Last, Stages
    <3>2. \A j \in 0 .. Last : rest[j] = {}
      <4>1. \A j \in Stages : rest[j] = {}
        BY <1>1, <2>1, <3>1 DEF Drained
      <4> QED BY <2>1, <3>1, <4>1
    <3>3. Reached = Elements(got[Last])
      BY <2>2, <3>2 DEF NothingComesLate
    <3>4. Elements(delivered) = Elements(got[Last])
      <4>1. sort \in {"none", "unique"}
        BY <1>1, <2>2, <2>4 DEF Typed
      <4> QED BY <1>1, <4>1 DEF Received
    <3>5. Todo = {}
      BY <3>3, <3>4 DEF Todo
    <3>6. Promised!ReportEnd
      BY <2>1, <2>4, <3>5, EndReported
    <3> QED BY <3>6, Shown
  <2> QED BY <2>3, <2>4
<1>9. CASE Sorted
  <2> DEFINE x == Least(found)
  <2>1. /\ sort = "sorted" /\ asked = Sorter /\ asked' = Idle
        /\ UNCHANGED <<doc, context, path, ordered, sort>>
        /\ \/ found = {} /\ ended' = TRUE /\ UNCHANGED <<found, delivered>>
           \/ found # {} /\ found' = found \ {x} /\ delivered' = Append(delivered, x)
              /\ UNCHANGED ended
    BY <1>9 DEF Sorted, typing
  <2>2. Last \in Nat /\ asked # Idle
    <3>1. Last \in Nat
      BY <1>1 DEF Typed, Last
    <3> QED BY <2>1, <3>1 DEF Sorter, Idle
  <2>3. Todo = found
    <3>1. /\ \A i \in 0 .. Last : rest[i] = {}
          /\ found \cup Elements(delivered) = Elements(got[Last])
          /\ found \cap Elements(delivered) = {}
      BY <1>1, <2>1 DEF Received
    <3>2. Reached = Elements(got[Last])
      BY <2>1, <3>1 DEF NothingComesLate
    <3> QED BY <2>1, <3>1, <3>2 DEF Todo
  <2>4. CASE found = {}
    <3>1. Promised!ReportEnd
      BY <2>1, <2>2, <2>3, <2>4, EndReported
    <3> QED BY <3>1, Shown
  <2>5. CASE found # {}
    <3>1. doc \in Documents /\ found \in SUBSET Nodes(doc)
      BY <1>1 DEF Typed
    <3>2. x \in found /\ \A y \in found : x <= y
      BY <2>5, <3>1, LeastNode
    <3> HIDE DEF x
    <3>3. x \in Todo /\ x \in Nodes(doc) /\ \A y \in Todo : x <= y
      BY <2>3, <3>1, <3>2
    <3>4. Promised!Deliver(x)
      BY <2>1, <2>2, <2>5, <3>3, Delivered
    <3> QED BY <3>3, <3>4, Shown
  <2> QED BY <2>4, <2>5
<1> QED BY <1>2, <1>3, <1>4, <1>5, <1>6, <1>7, <1>8, <1>9 DEF Next, Evaluate

\* The nodes a stage has not returned follow those it has returned wherever
\* typing claims the order; once no stage has a node left, none is missing.
THEOREM NothingComesLateAlways == Spec => []NothingComesLate
PROOF
BY PipelineInvariance, ComesInTurn, PTL

\* The lazy chain of stages, with no sort, with the sort or with the removal of
\* duplicates, takes only steps PathResult allows: each selected node is returned
\* once, in document order in the ordered mode, and the end is reported when all
\* are returned.  (That each call is answered is left to the runs.)
THEOREM ImplementsPathResult ==
  Spec => Promised!Init /\ [][Promised!Next]_(Promised!resultvars)
PROOF
<1>1. Init => Promised!Init
  BY InitShown
<1>2. PipelineInv /\ NothingComesLate /\ PipelineInv' /\ NothingComesLate' /\ [Next]_vars
        => [Promised!Next]_(Promised!resultvars)
  BY NextShown
<1> QED BY <1>1, <1>2, PipelineInvariance, NothingComesLateAlways, PTL DEF Spec
=============================================================================
