---------------------------- MODULE FastXDM_proofs ----------------------------
(***************************************************************************)
(* Proofs about FastXDMDocument and FastXDMNodeImpl, for any names, any    *)
(* text, any sizes of the arrays and trees of any number of events.        *)
(*                                                                         *)
(* Building: no array is written or walked past its end, the links between *)
(* the stored nodes are those of the tree, and what is stored is the tree  *)
(* that the events describe.                                               *)
(*                                                                         *)
(* Walking, for every document that events can build: each axis returns    *)
(* the nodes of the tree it is named for, each once and in its order, and  *)
(* the comparison of nodes, attributes and namespace nodes is a strict     *)
(* order.                                                                  *)
(***************************************************************************)
EXTENDS FastXDMNodeImpl, TLAPS, SequenceTheorems, WellFoundedInduction

-----------------------------------------------------------------------------
(***************************************************************************)
(* The inductive invariant, as a conjunction of what is true of a document *)
(* d that is being built.                                                  *)
(***************************************************************************)
Kinds == {"document", "element", "text", "comment", "pi", "marker"}
Values == ElementNames \union Seq(STRING)
NodeRecords == [nodeKind : Kinds, level : Nat, nextSibling : Nat,
                value : Values, attributes : Nat, namespaces : Nat]
LabelRecords == [owner : Nat, name : AttributeNames \union Declarations \union {"marker"}]
Documents ==
  [nodes : Seq(NodeRecords), maxNodes : Nat,
   attributes : Seq(LabelRecords), maxAttributes : Nat,
   namespaces : Seq(LabelRecords), maxNamespaces : Nat,
   elementStack : Seq(Nat), prevNode : Nat, text : Seq(STRING), textToCreate : BOOLEAN]

NodeIdsOf(d) == 1..Len(d.nodes)

\* Node j is the parent of node i, as the levels tell it.
IsParent(d, j, i) ==
  /\ j \in 1..i - 1
  /\ d.nodes[j].level < d.nodes[i].level
  /\ \A k \in j + 1..i - 1 : d.nodes[k].level >= d.nodes[i].level

\* Every node has a parent, unless its level is 0.
Parented(d) ==
  \A i \in NodeIdsOf(d) : d.nodes[i].level > 0 => IsParent(d, ParentIn(d, i), i)

\* nextSibling is the next node with the same parent, or 0.
Linked(d) ==
  \A i \in NodeIdsOf(d) :
    IF d.nodes[i].nextSibling = 0
    THEN ParentIn(d, i) = 0 \/ \A j \in i + 1..Len(d.nodes) : ParentIn(d, j) # ParentIn(d, i)
    ELSE /\ ParentIn(d, i) # 0
         /\ d.nodes[i].nextSibling \in i + 1..Len(d.nodes)
         /\ ParentIn(d, d.nodes[i].nextSibling) = ParentIn(d, i)
         /\ \A j \in i + 1..Len(d.nodes) :
              ParentIn(d, j) = ParentIn(d, i) => d.nodes[i].nextSibling <= j

\* The open containers are each inside the one before, and every node after one
\* is inside it.
Stacked(d) ==
  \A k \in 1..Depth(d) :
    /\ d.elementStack[k] \in NodeIdsOf(d)
    /\ d.nodes[d.elementStack[k]].level = k - 1
    /\ \A i \in d.elementStack[k] + 1..Len(d.nodes) : d.nodes[i].level >= k
    /\ \A m \in k + 1..Depth(d) : d.elementStack[k] < d.elementStack[m]

\* prevNode is the last child of the innermost container so far.
Previous(d) ==
  IF d.prevNode = 0
  THEN \A i \in NodeIdsOf(d) : ParentIn(d, i) # Top(d)
  ELSE /\ d.prevNode \in NodeIdsOf(d)
       /\ ParentIn(d, d.prevNode) = Top(d)
       /\ \A i \in d.prevNode + 1..Len(d.nodes) : ParentIn(d, i) # Top(d)

\* Labels come in the order of their owners, and first holds where those of
\* each node begin.
InRuns(labels, first, n) ==
  /\ \A j \in 1..Len(labels) : labels[j].owner \in 1..n
  /\ \A j \in 1..Len(labels) : \A k \in j..Len(labels) : labels[j].owner <= labels[k].owner
  /\ \A i \in 1..n :
       IF first[i] = 0
       THEN \A j \in 1..Len(labels) : labels[j].owner # i
       ELSE /\ first[i] \in 1..Len(labels)
            /\ labels[first[i]].owner = i
            /\ \A j \in 1..first[i] - 1 : labels[j].owner # i

FirstAttributes(d) == [i \in NodeIdsOf(d) |-> d.nodes[i].attributes]
FirstNamespaces(d) == [i \in NodeIdsOf(d) |-> d.nodes[i].namespaces]

Labelled(d) ==
  /\ InRuns(d.attributes, FirstAttributes(d), Len(d.nodes))
  /\ InRuns(d.namespaces, FirstNamespaces(d), Len(d.nodes))

Fits(length, max) == length <= max /\ max >= 1

Fitting(d) ==
  /\ Fits(Len(d.nodes), d.maxNodes)
  /\ Fits(Len(d.attributes), d.maxAttributes)
  /\ Fits(Len(d.namespaces), d.maxNamespaces)

\* What holds of the nodes and labels stored so far.
Stores(d) == d \in Documents /\ Parented(d) /\ Linked(d) /\ Labelled(d) /\ Fitting(d)

Empty(d) ==
  /\ d.nodes = <<>> /\ d.attributes = <<>> /\ d.namespaces = <<>>
  /\ d.prevNode = 0 /\ ~d.textToCreate

Building(d) ==
  /\ Stores(d) /\ Stacked(d)
  /\ IF Depth(d) = 0 THEN Empty(d) ELSE Previous(d)
  /\ ~d.textToCreate => d.text = <<>>

\* Attributes and namespaces belong to the last node stored.
AtStartTag == Top(doc) = Len(doc.nodes) /\ ~doc.textToCreate

\* What LinksMatchTree says of a document: of its first n nodes, and of the
\* walks when the end markers are there.
SiblingsMatch(d, i, n) ==
  LET later == {j \in (i + 1)..n : ParentIn(d, j) = ParentIn(d, i)}
  IN IF ParentIn(d, i) = 0 \/ later = {}
     THEN d.nodes[i].nextSibling = 0
     ELSE /\ d.nodes[i].nextSibling \in later
          /\ \A j \in later : d.nodes[i].nextSibling <= j

Owned(labels, i) == {j \in DOMAIN labels : labels[j].owner = i}

WalkEnds(labels, i, first) == \A j \in Run(labels, i, first) : \E k \in (j + 1)..Len(labels) : labels[k].owner # i

Matches(d, n, marked) ==
  /\ Len(d.nodes) <= d.maxNodes
  /\ Len(d.attributes) <= d.maxAttributes
  /\ Len(d.namespaces) <= d.maxNamespaces
  /\ \A i \in 1..n :
       /\ SiblingsMatch(d, i, n)
       /\ Run(d.attributes, i, d.nodes[i].attributes) = Owned(d.attributes, i)
       /\ Run(d.namespaces, i, d.nodes[i].namespaces) = Owned(d.namespaces, i)
       /\ marked => /\ \E j \in (i + 1)..Len(d.nodes) : d.nodes[j].level <= d.nodes[i].level
                    /\ WalkEnds(d.attributes, i, d.nodes[i].attributes)
                    /\ WalkEnds(d.namespaces, i, d.nodes[i].namespaces)

IInv ==
  /\ level \in Nat /\ seenContent \in BOOLEAN /\ item \in {"none", "node", "attribute"}
  /\ IF item = "none"
     THEN /\ Building(doc) /\ Depth(doc) = level
          /\ level > 0 /\ ~seenContent => AtStartTag
     ELSE Matches(doc, Size, Finished) /\ Depth(doc) = level

-----------------------------------------------------------------------------
(***************************************************************************)
(* Documents and parents                                                   *)
(***************************************************************************)
LEMMA DocumentFields ==
  ASSUME NEW d \in Documents
  PROVE  /\ d.nodes \in Seq(NodeRecords) /\ d.maxNodes \in Nat
         /\ d.attributes \in Seq(LabelRecords) /\ d.maxAttributes \in Nat
         /\ d.namespaces \in Seq(LabelRecords) /\ d.maxNamespaces \in Nat
         /\ d.elementStack \in Seq(Nat) /\ d.prevNode \in Nat
         /\ d.text \in Seq(STRING) /\ d.textToCreate \in BOOLEAN
  BY DEF Documents

LEMMA NodeFields ==
  ASSUME NEW d \in Documents
  PROVE  /\ Len(d.nodes) \in Nat /\ DOMAIN d.nodes = NodeIdsOf(d)
         /\ \A i \in NodeIdsOf(d) :
              /\ d.nodes[i] \in NodeRecords
              /\ d.nodes[i].level \in Nat /\ d.nodes[i].nextSibling \in Nat
              /\ d.nodes[i].attributes \in Nat /\ d.nodes[i].namespaces \in Nat
<1>1. d.nodes \in Seq(NodeRecords)
  BY DocumentFields
<1>2. /\ Len(d.nodes) \in Nat /\ DOMAIN d.nodes = NodeIdsOf(d)
      /\ \A i \in NodeIdsOf(d) : d.nodes[i] \in NodeRecords
  BY <1>1, LenProperties, ElementOfSeq DEF NodeIdsOf
<1> QED
  BY <1>2 DEF NodeRecords

LEMMA StackFields ==
  ASSUME NEW d \in Documents
  PROVE  /\ Depth(d) \in Nat
         /\ \A k \in 1..Depth(d) : d.elementStack[k] \in Nat
         /\ Depth(d) = 0 => d.elementStack = <<>> /\ Top(d) = 0
         /\ Depth(d) > 0 => d.elementStack # <<>> /\ Top(d) = d.elementStack[Depth(d)]
<1>1. d.elementStack \in Seq(Nat)
  BY DocumentFields
<1>2. /\ Depth(d) \in Nat
      /\ \A k \in 1..Depth(d) : d.elementStack[k] \in Nat
  BY <1>1, LenProperties, ElementOfSeq DEF Depth
<1>3. (Depth(d) = 0) <=> (d.elementStack = <<>>)
  BY <1>1, EmptySeq DEF Depth
<1> QED
  BY <1>2, <1>3 DEF Top

\* A node has only one parent, and it is the one getParent() finds.
LEMMA ParentFound ==
  ASSUME NEW d \in Documents, NEW i \in NodeIdsOf(d), NEW j, IsParent(d, j, i)
  PROVE  ParentIn(d, i) = j /\ d.nodes[i].level > 0 /\ j \in NodeIdsOf(d)
<1>1. /\ Len(d.nodes) \in Nat /\ i \in 1..Len(d.nodes) /\ j \in 1..i - 1
      /\ \A k \in 1..Len(d.nodes) : d.nodes[k].level \in Nat
  BY NodeFields DEF NodeIdsOf, IsParent
<1>2. j \in 1..Len(d.nodes)
  BY <1>1
<1>3. d.nodes[j].level < d.nodes[i].level /\ \A k \in j + 1..i - 1 : d.nodes[k].level >= d.nodes[i].level
  BY DEF IsParent
<1>4. d.nodes[i].level > 0
  BY <1>1, <1>2, <1>3
<1> DEFINE c == CHOOSE m \in 1..(i - 1) : /\ d.nodes[m].level < d.nodes[i].level
                                         /\ \A k \in (m + 1)..(i - 1) : d.nodes[k].level >= d.nodes[i].level
<1>5. ParentIn(d, i) = c
  <2>1. d.nodes[i].level # 0
    BY <1>1, <1>4
  <2> QED
    BY Zenon, <2>1 DEF ParentIn
<1>6. /\ c \in 1..(i - 1) /\ d.nodes[c].level < d.nodes[i].level
      /\ \A k \in (c + 1)..(i - 1) : d.nodes[k].level >= d.nodes[i].level
  BY <1>1, <1>3
<1> HIDE DEF c
<1>7. c \in 1..Len(d.nodes)
  BY <1>1, <1>6
<1>8. ~(c < j)
  <2> SUFFICES ASSUME c < j PROVE FALSE
    OBVIOUS
  <2>1. j \in (c + 1)..(i - 1)
    BY <1>1, <1>7
  <2> QED
    BY <1>1, <1>2, <1>3, <1>6, <2>1
<1>9. ~(j < c)
  <2> SUFFICES ASSUME j < c PROVE FALSE
    OBVIOUS
  <2>1. c \in (j + 1)..(i - 1)
    BY <1>1, <1>6, <1>7
  <2> QED
    BY <1>1, <1>3, <1>6, <1>7, <2>1
<1>10. c = j
  BY <1>1, <1>2, <1>7, <1>8, <1>9
<1> QED
  BY <1>2, <1>4, <1>5, <1>10 DEF NodeIdsOf

LEMMA ParentRange ==
  ASSUME NEW d \in Documents, Parented(d), NEW i \in NodeIdsOf(d)
  PROVE  /\ ParentIn(d, i) \in 0..i - 1
         /\ ParentIn(d, i) = 0 <=> d.nodes[i].level = 0
<1>1. d.nodes[i].level \in Nat /\ i \in Nat \ {0}
  BY NodeFields DEF NodeIdsOf
<1>2. CASE d.nodes[i].level = 0
  BY <1>1, <1>2 DEF ParentIn
<1>3. CASE d.nodes[i].level > 0
  BY <1>1, <1>3 DEF Parented, IsParent
<1> QED
  BY <1>1, <1>2, <1>3

\* Parents depend on the levels of earlier nodes only.
LEMMA ParentKept ==
  ASSUME NEW d \in Documents, NEW e \in Documents, Parented(d), Len(d.nodes) <= Len(e.nodes),
         \A k \in NodeIdsOf(d) : e.nodes[k].level = d.nodes[k].level
  PROVE  \A i \in NodeIdsOf(d) :
            /\ ParentIn(e, i) = ParentIn(d, i)
            /\ e.nodes[i].level > 0 => IsParent(e, ParentIn(e, i), i)
<1> SUFFICES ASSUME NEW i \in NodeIdsOf(d)
             PROVE  /\ ParentIn(e, i) = ParentIn(d, i)
                    /\ e.nodes[i].level > 0 => IsParent(e, ParentIn(e, i), i)
  OBVIOUS
<1>1. /\ Len(d.nodes) \in Nat /\ Len(e.nodes) \in Nat /\ i \in 1..Len(d.nodes)
      /\ d.nodes[i].level \in Nat /\ i \in NodeIdsOf(e)
  BY NodeFields DEF NodeIdsOf
<1>2. CASE d.nodes[i].level = 0
  BY <1>2 DEF ParentIn
<1>3. CASE d.nodes[i].level > 0
  <2>1. IsParent(d, ParentIn(d, i), i)
    BY <1>3 DEF Parented
  <2> DEFINE j == ParentIn(d, i)
  <2>2. /\ j \in 1..i - 1 /\ d.nodes[j].level < d.nodes[i].level
        /\ \A k \in j + 1..i - 1 : d.nodes[k].level >= d.nodes[i].level
    BY <2>1 DEF IsParent
  <2> HIDE DEF j
  <2>3. \A k \in 1..i : e.nodes[k].level = d.nodes[k].level
    BY <1>1 DEF NodeIdsOf
  <2>4. \A k \in j + 1..i - 1 : e.nodes[k].level >= e.nodes[i].level
    BY <1>1, <2>2, <2>3
  <2>5. IsParent(e, j, i)
    BY <1>1, <2>2, <2>3, <2>4 DEF IsParent
  <2>6. ParentIn(e, i) = j
    BY <1>1, <2>5, ParentFound
  <2> QED
    BY <2>5, <2>6 DEF j
<1> QED
  BY <1>1, <1>2, <1>3

-----------------------------------------------------------------------------
(***************************************************************************)
(* Storing a node                                                          *)
(***************************************************************************)
LEMMA StoredFields ==
  ASSUME NEW d \in Documents, NEW node \in NodeRecords, d.prevNode \in 0..Len(d.nodes)
  PROVE  LET e == Stored(d, node)
         IN /\ e \in Documents
            /\ Len(e.nodes) = Len(d.nodes) + 1
            /\ e.nodes[Len(d.nodes) + 1] = node
            /\ \A i \in NodeIdsOf(d) :
                 /\ e.nodes[i].nodeKind = d.nodes[i].nodeKind
                 /\ e.nodes[i].level = d.nodes[i].level
                 /\ e.nodes[i].value = d.nodes[i].value
                 /\ e.nodes[i].attributes = d.nodes[i].attributes
                 /\ e.nodes[i].namespaces = d.nodes[i].namespaces
                 /\ e.nodes[i].nextSibling = IF i = d.prevNode THEN Len(d.nodes) + 1
                                             ELSE d.nodes[i].nextSibling
            /\ e.maxNodes = Grown(Len(d.nodes), d.maxNodes)
            /\ e.prevNode = Len(d.nodes) + 1
            /\ e.attributes = d.attributes /\ e.maxAttributes = d.maxAttributes
            /\ e.namespaces = d.namespaces /\ e.maxNamespaces = d.maxNamespaces
            /\ e.elementStack = d.elementStack
            /\ e.text = d.text /\ e.textToCreate = d.textToCreate
<1> DEFINE N == Len(d.nodes)
           p == d.prevNode
           next == [d.nodes[p] EXCEPT !.nextSibling = N + 1]
           linked == IF p = 0 THEN d.nodes ELSE [d.nodes EXCEPT ![p] = next]
           e == Stored(d, node)
<1>1. /\ N \in Nat /\ d.nodes \in Seq(NodeRecords) /\ d.maxNodes \in Nat
      /\ \A i \in 1..N : d.nodes[i] \in NodeRecords
  BY DocumentFields, NodeFields DEF NodeIdsOf
<1>2. p # 0 => /\ next \in NodeRecords
               /\ next.nodeKind = d.nodes[p].nodeKind /\ next.level = d.nodes[p].level
               /\ next.value = d.nodes[p].value /\ next.attributes = d.nodes[p].attributes
               /\ next.namespaces = d.nodes[p].namespaces /\ next.nextSibling = N + 1
  <2> SUFFICES ASSUME p # 0
               PROVE  /\ next \in NodeRecords
                      /\ next.nodeKind = d.nodes[p].nodeKind /\ next.level = d.nodes[p].level
                      /\ next.value = d.nodes[p].value /\ next.attributes = d.nodes[p].attributes
                      /\ next.namespaces = d.nodes[p].namespaces /\ next.nextSibling = N + 1
    OBVIOUS
  <2>1. d.nodes[p] \in NodeRecords /\ N + 1 \in Nat
    BY <1>1
  <2> QED
    BY <2>1 DEF NodeRecords
<1>3. /\ linked \in Seq(NodeRecords) /\ Len(linked) = N
      /\ \A i \in 1..N : linked[i] = IF i = p THEN next ELSE d.nodes[i]
  <2>1. CASE p = 0
    BY <1>1, <2>1
  <2>2. CASE p # 0
    <3>1. p \in 1..N
      BY <1>1, <2>2
    <3> HIDE DEF next
    <3> QED
      BY <1>1, <1>2, <2>2, <3>1, ExceptSeq
  <2> QED
    BY <2>1, <2>2
<1>4. e = [d EXCEPT !.nodes = Append(linked, node), !.prevNode = N + 1, !.maxNodes = Grown(N, d.maxNodes)]
  BY DEF Stored
<1> HIDE DEF linked, next, e
<1>5. /\ Append(linked, node) \in Seq(NodeRecords) /\ Len(Append(linked, node)) = N + 1
      /\ \A i \in 1..N : Append(linked, node)[i] = linked[i]
      /\ Append(linked, node)[N + 1] = node
  BY <1>3, AppendProperties
<1>6. Grown(N, d.maxNodes) \in Nat
  BY <1>1 DEF Grown
<1>7. e = [nodes |-> Append(linked, node), maxNodes |-> Grown(N, d.maxNodes),
           attributes |-> d.attributes, maxAttributes |-> d.maxAttributes,
           namespaces |-> d.namespaces, maxNamespaces |-> d.maxNamespaces,
           elementStack |-> d.elementStack, prevNode |-> N + 1, text |-> d.text,
           textToCreate |-> d.textToCreate]
  BY <1>4 DEF Documents
<1>8. e \in Documents
  BY <1>1, <1>5, <1>6, <1>7, DocumentFields DEF Documents
<1>9. \A i \in 1..N : e.nodes[i] = IF i = p THEN next ELSE d.nodes[i]
  BY <1>3, <1>5, <1>7
<1>10. \A i \in 1..N :
         /\ e.nodes[i].nodeKind = d.nodes[i].nodeKind
         /\ e.nodes[i].level = d.nodes[i].level
         /\ e.nodes[i].value = d.nodes[i].value
         /\ e.nodes[i].attributes = d.nodes[i].attributes
         /\ e.nodes[i].namespaces = d.nodes[i].namespaces
         /\ e.nodes[i].nextSibling = IF i = p THEN N + 1 ELSE d.nodes[i].nextSibling
  BY <1>1, <1>2, <1>9
<1> QED
  BY <1>5, <1>7, <1>8, <1>10 DEF NodeIdsOf, e

\* The node that is stored is a child of the innermost container, and what the
\* links say of the others stays true.
LEMMA StoredStores ==
  ASSUME NEW d \in Documents, Stores(d), Stacked(d), NEW node \in NodeRecords,
         node.level = Depth(d), node.nextSibling = 0, node.attributes = 0, node.namespaces = 0,
         IF Depth(d) = 0 THEN Len(d.nodes) = 0 /\ d.prevNode = 0 ELSE Previous(d)
  PROVE  LET e == Stored(d, node)
         IN /\ Stores(e) /\ Stacked(e) /\ Top(e) = Top(d)
            /\ ParentIn(e, Len(d.nodes) + 1) = Top(d)
            /\ \A i \in NodeIdsOf(d) : ParentIn(e, i) = ParentIn(d, i)
            /\ Depth(d) > 0 => Previous(e)
<1> DEFINE N == Len(d.nodes)
           D == Depth(d)
           e == Stored(d, node)
<1>1. /\ N \in Nat /\ D \in Nat /\ d.prevNode \in 0..N
      /\ \A i \in 1..N : d.nodes[i].level \in Nat /\ d.nodes[i].nextSibling \in Nat
      /\ D > 0 => Top(d) = d.elementStack[D]
  BY NodeFields, StackFields DEF NodeIdsOf, Previous
<1>2. /\ e \in Documents /\ Len(e.nodes) = N + 1 /\ e.nodes[N + 1] = node
      /\ \A i \in 1..N : /\ e.nodes[i].level = d.nodes[i].level
                         /\ e.nodes[i].attributes = d.nodes[i].attributes
                         /\ e.nodes[i].namespaces = d.nodes[i].namespaces
                         /\ e.nodes[i].nextSibling = IF i = d.prevNode THEN N + 1 ELSE d.nodes[i].nextSibling
      /\ e.maxNodes = Grown(N, d.maxNodes) /\ e.prevNode = N + 1
      /\ e.attributes = d.attributes /\ e.maxAttributes = d.maxAttributes
      /\ e.namespaces = d.namespaces /\ e.maxNamespaces = d.maxNamespaces
      /\ e.elementStack = d.elementStack
  BY <1>1, StoredFields DEF NodeIdsOf
<1> HIDE DEF e
<1>3. Depth(e) = D /\ Top(e) = Top(d)
  BY <1>2 DEF Depth, Top
<1>4. D > 0 => /\ Top(d) \in 1..N /\ d.nodes[Top(d)].level = D - 1
               /\ \A i \in Top(d) + 1..N : d.nodes[i].level >= D
  <2> SUFFICES ASSUME D > 0
               PROVE  /\ Top(d) \in 1..N /\ d.nodes[Top(d)].level = D - 1
                      /\ \A i \in Top(d) + 1..N : d.nodes[i].level >= D
    OBVIOUS
  <2>1. D \in 1..D
    BY <1>1
  <2> QED
    BY <1>1, <2>1 DEF Stacked, NodeIdsOf
<1>5. D > 0 => IsParent(e, Top(d), N + 1)
  <2> SUFFICES ASSUME D > 0 PROVE IsParent(e, Top(d), N + 1)
    OBVIOUS
  <2>1. Top(d) \in 1..N /\ e.nodes[Top(d)].level = D - 1 /\ e.nodes[N + 1].level = D
    BY <1>2, <1>4
  <2>2. \A i \in Top(d) + 1..(N + 1) - 1 : e.nodes[i].level >= D
    <3> SUFFICES ASSUME NEW i \in Top(d) + 1..(N + 1) - 1 PROVE e.nodes[i].level >= D
      OBVIOUS
    <3>1. i \in Top(d) + 1..N /\ i \in 1..N
      BY <1>1, <2>1
    <3> QED
      BY <1>2, <1>4, <3>1
  <2> QED
    BY <1>1, <2>1, <2>2 DEF IsParent
<1>6. ParentIn(e, N + 1) = Top(d)
  <2>1. N + 1 \in NodeIdsOf(e)
    BY <1>1, <1>2 DEF NodeIdsOf
  <2>2. CASE D > 0
    BY <1>2, <1>5, <2>1, <2>2, ParentFound
  <2>3. CASE D = 0
    BY <1>2, <2>3, StackFields DEF ParentIn
  <2> QED
    BY <1>1, <2>2, <2>3
<1>7. \A i \in 1..N : /\ ParentIn(e, i) = ParentIn(d, i)
                      /\ e.nodes[i].level > 0 => IsParent(e, ParentIn(e, i), i)
  <2>1. Parented(d) /\ N <= N + 1
    BY <1>1 DEF Stores
  <2> QED
    BY <1>2, <2>1, ParentKept DEF NodeIdsOf
<1>8. Parented(e)
  <2> SUFFICES ASSUME NEW i \in 1..N + 1, e.nodes[i].level > 0
               PROVE  IsParent(e, ParentIn(e, i), i)
    BY <1>2 DEF Parented, NodeIdsOf
  <2>1. CASE i \in 1..N
    BY <1>7, <2>1
  <2>2. CASE i = N + 1
    BY <1>1, <1>2, <1>5, <1>6, <2>2
  <2> QED
    BY <1>1, <2>1, <2>2
<1>9. Linked(e)
  <2> SUFFICES ASSUME NEW i \in 1..N + 1
               PROVE  IF e.nodes[i].nextSibling = 0
                      THEN ParentIn(e, i) = 0 \/ \A j \in i + 1..N + 1 : ParentIn(e, j) # ParentIn(e, i)
                      ELSE /\ ParentIn(e, i) # 0
                           /\ e.nodes[i].nextSibling \in i + 1..N + 1
                           /\ ParentIn(e, e.nodes[i].nextSibling) = ParentIn(e, i)
                           /\ \A j \in i + 1..N + 1 :
                                ParentIn(e, j) = ParentIn(e, i) => e.nodes[i].nextSibling <= j
    BY <1>2 DEF Linked, NodeIdsOf
  <2>1. CASE i = N + 1
    BY <1>1, <1>2, <2>1
  <2>2. CASE i \in 1..N /\ i = d.prevNode
    <3>1. Previous(d) /\ d.prevNode # 0 /\ D > 0
      BY <1>1, <2>2
    <3>2. ParentIn(d, i) = Top(d) /\ \A j \in i + 1..N : ParentIn(d, j) # Top(d)
      BY <2>2, <3>1 DEF Previous
    <3>3. e.nodes[i].nextSibling = N + 1 /\ ParentIn(e, i) = Top(d) /\ Top(d) # 0
      BY <1>2, <1>4, <1>7, <2>2, <3>1, <3>2
    <3>4. \A j \in i + 1..N + 1 : ParentIn(e, j) = Top(d) => j = N + 1
      <4> SUFFICES ASSUME NEW j \in i + 1..N + 1, j # N + 1 PROVE ParentIn(e, j) # Top(d)
        OBVIOUS
      <4>1. N \in Nat /\ i \in 1..N
        BY <1>1, <2>2
      <4> HIDE DEF N
      <4>2. j \in i + 1..N /\ j \in 1..N
        BY <4>1
      <4> QED
        BY <1>7, <3>2, <4>2
    <3> QED
      BY <1>1, <1>6, <2>2, <3>3, <3>4
  <2>3. CASE i \in 1..N /\ i # d.prevNode /\ d.nodes[i].nextSibling = 0
    <3>1. ParentIn(d, i) = 0 \/ \A j \in i + 1..N : ParentIn(d, j) # ParentIn(d, i)
      BY <2>3 DEF Linked, Stores, NodeIdsOf
    <3>2. ParentIn(d, i) # 0 => ParentIn(d, i) # Top(d)
      <4> SUFFICES ASSUME ParentIn(d, i) # 0, ParentIn(d, i) = Top(d) PROVE FALSE
        OBVIOUS
      <4>1. D > 0 /\ Previous(d)
        BY <1>1, <2>3
      <4>2. d.prevNode \in 1..N /\ ParentIn(d, d.prevNode) = Top(d) /\ ~(i \in d.prevNode + 1..N)
        BY <1>1, <2>3, <4>1 DEF Previous, NodeIdsOf
      <4>3. d.prevNode \in i + 1..N
        BY <1>1, <2>3, <4>2
      <4> QED
        BY <3>1, <4>2, <4>3
    <3>3. \A j \in i + 1..N + 1 : j \in i + 1..N \/ j = N + 1
      BY <1>1, <2>3
    <3>4. \A j \in i + 1..N : j \in 1..N
      BY <1>1, <2>3
    <3>5. e.nodes[i].nextSibling = 0 /\ ParentIn(e, i) = ParentIn(d, i)
      BY <1>2, <1>7, <2>3
    <3> QED
      BY <1>6, <1>7, <3>1, <3>2, <3>3, <3>4, <3>5
  <2>4. CASE i \in 1..N /\ i # d.prevNode /\ d.nodes[i].nextSibling # 0
    <3> DEFINE n == d.nodes[i].nextSibling
    <3>1. /\ ParentIn(d, i) # 0 /\ n \in i + 1..N /\ ParentIn(d, n) = ParentIn(d, i)
          /\ \A j \in i + 1..N : ParentIn(d, j) = ParentIn(d, i) => n <= j
      BY <2>4 DEF Linked, Stores, NodeIdsOf
    <3>2. e.nodes[i].nextSibling = n /\ ParentIn(e, i) = ParentIn(d, i)
      BY <1>2, <1>7, <2>4
    <3> HIDE DEF n
    <3>3. n \in 1..N /\ n \in i + 1..N + 1 /\ ParentIn(e, n) = ParentIn(d, n) /\ n # 0 /\ n <= N + 1
      BY <1>1, <1>7, <2>4, <3>1
    <3>4. \A j \in i + 1..N + 1 : j = N + 1 \/ (j \in i + 1..N /\ ParentIn(e, j) = ParentIn(d, j))
      BY <1>1, <1>7, <2>4
    <3> QED
      BY <3>1, <3>2, <3>3, <3>4
  <2> QED
    BY <1>1, <2>1, <2>2, <2>3, <2>4
<1>10. Labelled(e)
  <2>1. \A first, longer, labels :
           /\ labels \in Seq(LabelRecords) /\ InRuns(labels, first, N)
           /\ \A i \in 1..N : longer[i] = first[i]
           /\ longer[N + 1] = 0
           => InRuns(labels, longer, N + 1)
    <3> SUFFICES ASSUME NEW first, NEW longer, NEW labels \in Seq(LabelRecords), InRuns(labels, first, N),
                        \A i \in 1..N : longer[i] = first[i], longer[N + 1] = 0
                 PROVE  InRuns(labels, longer, N + 1)
      OBVIOUS
    <3>1. \A j \in 1..Len(labels) : labels[j].owner \in 1..N + 1 /\ labels[j].owner # N + 1
      BY <1>1 DEF InRuns
    <3>2. \A i \in 1..N + 1 : i \in 1..N \/ i = N + 1
      BY <1>1
    <3> QED
      BY <3>1, <3>2 DEF InRuns
  <2>2. /\ \A i \in 1..N : FirstAttributes(e)[i] = FirstAttributes(d)[i]
        /\ \A i \in 1..N : FirstNamespaces(e)[i] = FirstNamespaces(d)[i]
        /\ FirstAttributes(e)[N + 1] = 0 /\ FirstNamespaces(e)[N + 1] = 0
    <3>1. N + 1 \in 1..N + 1 /\ \A i \in 1..N : i \in 1..N + 1
      BY <1>1
    <3> QED
      BY <1>2, <3>1 DEF FirstAttributes, FirstNamespaces, NodeIdsOf
  <2>3. InRuns(d.attributes, FirstAttributes(d), N) /\ InRuns(d.namespaces, FirstNamespaces(d), N)
    BY DEF Stores, Labelled
  <2>4. InRuns(d.attributes, FirstAttributes(e), N + 1)
    BY <2>1, <2>2, <2>3, DocumentFields
  <2>5. InRuns(d.namespaces, FirstNamespaces(e), N + 1)
    BY <2>1, <2>2, <2>3, DocumentFields
  <2> QED
    BY <1>2, <2>4, <2>5 DEF Labelled
<1>11. Fitting(e)
  <2>1. Fits(N, d.maxNodes) /\ d.maxNodes \in Nat
    BY DocumentFields DEF Stores, Fitting
  <2>2. Fits(N + 1, Grown(N, d.maxNodes))
    BY <1>1, <2>1 DEF Fits, Grown
  <2> QED
    BY <1>2, <2>2 DEF Stores, Fitting
<1>12. Stacked(e)
  <2> SUFFICES ASSUME NEW k \in 1..D
               PROVE  /\ d.elementStack[k] \in 1..N + 1
                      /\ e.nodes[d.elementStack[k]].level = k - 1
                      /\ \A i \in d.elementStack[k] + 1..N + 1 : e.nodes[i].level >= k
                      /\ \A m \in k + 1..D : d.elementStack[k] < d.elementStack[m]
    BY <1>2, <1>3 DEF Stacked, NodeIdsOf
  <2>1. /\ d.elementStack[k] \in 1..N
        /\ d.nodes[d.elementStack[k]].level = k - 1
        /\ \A i \in d.elementStack[k] + 1..N : d.nodes[i].level >= k
        /\ \A m \in k + 1..D : d.elementStack[k] < d.elementStack[m]
    BY DEF Stacked, NodeIdsOf
  <2>2. \A i \in d.elementStack[k] + 1..N + 1 : e.nodes[i].level >= k
    <3> SUFFICES ASSUME NEW i \in d.elementStack[k] + 1..N + 1 PROVE e.nodes[i].level >= k
      OBVIOUS
    <3>1. CASE i = N + 1
      BY <1>1, <1>2, <3>1
    <3>2. CASE i # N + 1
      <4>1. N \in Nat /\ d.elementStack[k] \in 1..N
        BY <1>1, <2>1
      <4> HIDE DEF N
      <4>2. i \in d.elementStack[k] + 1..N /\ i \in 1..N
        BY <3>2, <4>1
      <4> QED
        BY <1>2, <2>1, <4>2
    <3> QED
      BY <3>1, <3>2
  <2>3. d.elementStack[k] \in 1..N + 1
    BY <1>1, <2>1
  <2> QED
    BY <1>2, <2>1, <2>2, <2>3
<1>13. D > 0 => Previous(e)
  BY <1>1, <1>2, <1>3, <1>6 DEF Previous, NodeIdsOf
<1> QED
  BY <1>2, <1>3, <1>6, <1>7, <1>8, <1>9, <1>10, <1>11, <1>12, <1>13 DEF Stores, NodeIdsOf, e

\* The tree is in the levels, its links in the nextSiblings.
LEMMA SameLinks ==
  ASSUME NEW d \in Documents, NEW e \in Documents, Parented(d), Linked(d),
         Len(e.nodes) = Len(d.nodes),
         \A i \in NodeIdsOf(d) : /\ e.nodes[i].level = d.nodes[i].level
                                 /\ e.nodes[i].nextSibling = d.nodes[i].nextSibling
  PROVE  /\ Parented(e) /\ Linked(e)
         /\ \A i \in NodeIdsOf(d) : ParentIn(e, i) = ParentIn(d, i)
         /\ e.elementStack = d.elementStack =>
              /\ Depth(e) = Depth(d) /\ Top(e) = Top(d)
              /\ Stacked(d) => Stacked(e)
              /\ e.prevNode = d.prevNode /\ Previous(d) => Previous(e)
<1>1. Len(d.nodes) \in Nat /\ Len(d.nodes) <= Len(e.nodes) /\ NodeIdsOf(e) = NodeIdsOf(d)
  BY NodeFields DEF NodeIdsOf
<1>2. \A i \in NodeIdsOf(d) : /\ ParentIn(e, i) = ParentIn(d, i)
                              /\ e.nodes[i].level > 0 => IsParent(e, ParentIn(e, i), i)
  BY <1>1, ParentKept
<1>3. Parented(e)
  BY <1>1, <1>2 DEF Parented
<1>4. Linked(e)
  <2>1. \A i \in NodeIdsOf(d) : \A j \in i + 1..Len(d.nodes) : j \in NodeIdsOf(d)
    BY <1>1 DEF NodeIdsOf
  <2>2. \A i \in NodeIdsOf(d) : \A j \in i + 1..Len(d.nodes) : ParentIn(e, j) = ParentIn(d, j)
    BY <1>2, <2>1
  <2> QED
    BY <1>1, <1>2, <2>2 DEF Linked
<1>5. ASSUME e.elementStack = d.elementStack
      PROVE  /\ Depth(e) = Depth(d) /\ Top(e) = Top(d)
             /\ Stacked(d) => Stacked(e)
             /\ e.prevNode = d.prevNode /\ Previous(d) => Previous(e)
  <2>1. Depth(e) = Depth(d) /\ Top(e) = Top(d)
    BY <1>5 DEF Depth, Top
  <2>2. ASSUME Stacked(d) PROVE Stacked(e)
    <3> SUFFICES ASSUME NEW k \in 1..Depth(d)
                 PROVE  /\ d.elementStack[k] \in NodeIdsOf(d)
                        /\ e.nodes[d.elementStack[k]].level = k - 1
                        /\ \A i \in d.elementStack[k] + 1..Len(d.nodes) : e.nodes[i].level >= k
                        /\ \A m \in k + 1..Depth(d) : d.elementStack[k] < d.elementStack[m]
      BY <1>1, <1>5, <2>1 DEF Stacked
    <3>1. /\ d.elementStack[k] \in NodeIdsOf(d)
          /\ d.nodes[d.elementStack[k]].level = k - 1
          /\ \A i \in d.elementStack[k] + 1..Len(d.nodes) : d.nodes[i].level >= k
          /\ \A m \in k + 1..Depth(d) : d.elementStack[k] < d.elementStack[m]
      BY <2>2 DEF Stacked
    <3>2. \A i \in d.elementStack[k] + 1..Len(d.nodes) : i \in NodeIdsOf(d)
      BY <1>1, <3>1 DEF NodeIdsOf
    <3> QED
      BY <3>1, <3>2
  <2>3. ASSUME e.prevNode = d.prevNode, Previous(d) PROVE Previous(e)
    <3>1. CASE d.prevNode = 0
      BY <1>1, <1>2, <2>1, <2>3, <3>1 DEF Previous
    <3>2. CASE d.prevNode # 0
      <4>1. \A i \in d.prevNode + 1..Len(d.nodes) : i \in NodeIdsOf(d)
        BY <1>1, <2>3, <3>2 DEF Previous, NodeIdsOf
      <4> QED
        BY <1>1, <1>2, <2>1, <2>3, <3>2, <4>1 DEF Previous
    <3> QED
      BY <3>1, <3>2
  <2> QED
    BY <2>1, <2>2, <2>3
<1> QED
  BY <1>2, <1>3, <1>4, <1>5

\* What a document stores is in its arrays.
LEMMA SameStore ==
  ASSUME NEW d \in Documents, NEW e \in Documents, Stores(d), e.nodes = d.nodes,
         e.attributes = d.attributes, e.namespaces = d.namespaces, e.maxNodes = d.maxNodes,
         e.maxAttributes = d.maxAttributes, e.maxNamespaces = d.maxNamespaces
  PROVE  /\ Stores(e)
         /\ \A i \in NodeIdsOf(d) : ParentIn(e, i) = ParentIn(d, i)
         /\ e.elementStack = d.elementStack =>
              /\ Depth(e) = Depth(d) /\ Top(e) = Top(d)
              /\ Stacked(d) => Stacked(e)
              /\ e.prevNode = d.prevNode /\ Previous(d) => Previous(e)
<1>1. Parented(d) /\ Linked(d)
  BY DEF Stores
<1>2. Labelled(e) /\ Fitting(e)
  BY DEF Stores, Labelled, Fitting, FirstAttributes, FirstNamespaces, NodeIdsOf
<1> QED
  BY <1>1, <1>2, SameLinks DEF Stores

LEMMA TextNode ==
  ASSUME NEW d \in Documents
  PROVE  Node("text", Depth(d), d.text) \in NodeRecords
  BY DocumentFields, StackFields DEF Node, NodeRecords, Kinds, Values

\* Writing the text that waits into a node of its own.
LEMMA FlushedBuilding ==
  ASSUME NEW d, Building(d)
  PROVE  LET f == Flushed(d)
         IN /\ Building(f) /\ ~f.textToCreate /\ f.text = <<>>
            /\ f.elementStack = d.elementStack
            /\ f.attributes = d.attributes /\ f.maxAttributes = d.maxAttributes
            /\ f.namespaces = d.namespaces /\ f.maxNamespaces = d.maxNamespaces
<1> DEFINE x == IF HasText(d) THEN Stored(d, Node("text", Depth(d), d.text)) ELSE d
           f == Flushed(d)
<1>1. /\ d \in Documents /\ Stores(d) /\ Stacked(d) /\ Len(d.nodes) \in Nat
      /\ d.prevNode \in 0..Len(d.nodes)
      /\ IF Depth(d) = 0 THEN Empty(d) ELSE Previous(d)
  BY NodeFields DEF Building, Stores, Previous, Empty, NodeIdsOf
<1>2. /\ x \in Documents /\ Stores(x) /\ Stacked(x)
      /\ IF Depth(d) = 0 THEN x = d ELSE Previous(x)
      /\ x.elementStack = d.elementStack
      /\ x.attributes = d.attributes /\ x.maxAttributes = d.maxAttributes
      /\ x.namespaces = d.namespaces /\ x.maxNamespaces = d.maxNamespaces
  <2>1. CASE HasText(d)
    <3> DEFINE node == Node("text", Depth(d), d.text)
    <3>1. Depth(d) > 0 /\ Previous(d)
      BY <1>1, <2>1, StackFields DEF HasText, Empty
    <3>2. /\ node \in NodeRecords /\ node.level = Depth(d) /\ node.nextSibling = 0
          /\ node.attributes = 0 /\ node.namespaces = 0
      BY <1>1, TextNode DEF Node
    <3> HIDE DEF node
    <3>3. x = Stored(d, node)
      BY <2>1 DEF node
    <3> HIDE DEF x
    <3>4. /\ x \in Documents
          /\ x.elementStack = d.elementStack
          /\ x.attributes = d.attributes /\ x.maxAttributes = d.maxAttributes
          /\ x.namespaces = d.namespaces /\ x.maxNamespaces = d.maxNamespaces
      BY <1>1, <3>2, <3>3, StoredFields
    <3>5. Stores(x) /\ Stacked(x) /\ Previous(x)
      BY <1>1, <3>1, <3>2, <3>3, StoredStores
    <3> QED
      BY <3>1, <3>4, <3>5
  <2>2. CASE ~HasText(d)
    BY <1>1, <2>2
  <2> QED
    BY <2>1, <2>2
<1>3. f = [x EXCEPT !.text = <<>>, !.textToCreate = FALSE]
  BY DEF Flushed
<1> HIDE DEF x, f
<1>4. f = [nodes |-> x.nodes, maxNodes |-> x.maxNodes,
           attributes |-> x.attributes, maxAttributes |-> x.maxAttributes,
           namespaces |-> x.namespaces, maxNamespaces |-> x.maxNamespaces,
           elementStack |-> x.elementStack, prevNode |-> x.prevNode, text |-> <<>>,
           textToCreate |-> FALSE]
  BY <1>2, <1>3 DEF Documents
<1>5. f \in Documents
  BY <1>2, <1>4, DocumentFields DEF Documents
<1>6. /\ Stores(f) /\ Depth(f) = Depth(x) /\ Stacked(f) /\ (Previous(x) => Previous(f))
  BY <1>2, <1>4, <1>5, SameStore
<1>7. Depth(x) = Depth(d)
  BY <1>2 DEF Depth
<1>8. Depth(d) = 0 => Empty(f)
  BY <1>1, <1>2, <1>4 DEF Empty
<1>9. Building(f)
  BY <1>2, <1>4, <1>6, <1>7, <1>8 DEF Building
<1> QED
  BY <1>2, <1>4, <1>9 DEF f

-----------------------------------------------------------------------------
(***************************************************************************)
(* The events                                                              *)
(***************************************************************************)
\* What the macro leaves for the next node: its place is known.
LEMMA Ready ==
  ASSUME NEW f, Building(f)
  PROVE  /\ f \in Documents /\ Stores(f) /\ Stacked(f)
         /\ Len(f.nodes) \in Nat /\ Depth(f) \in Nat /\ f.prevNode \in 0..Len(f.nodes)
         /\ IF Depth(f) = 0 THEN Len(f.nodes) = 0 /\ f.prevNode = 0 ELSE Previous(f)
  BY NodeFields, StackFields DEF Building, Stores, Previous, Empty, NodeIdsOf

\* A container is stored and becomes the innermost one.
Opened(f, node) ==
  [Stored(f, node) EXCEPT !.elementStack = Append(f.elementStack, Len(f.nodes) + 1), !.prevNode = 0]

LEMMA OpenedBuilding ==
  ASSUME NEW f, Building(f), ~f.textToCreate, f.text = <<>>, NEW node \in NodeRecords,
         node.level = Depth(f), node.nextSibling = 0, node.attributes = 0, node.namespaces = 0
  PROVE  LET g == Opened(f, node)
         IN /\ Building(g) /\ Depth(g) = Depth(f) + 1
            /\ Top(g) = Len(g.nodes) /\ Len(g.nodes) = Len(f.nodes) + 1
            /\ ~g.textToCreate /\ g.text = <<>>
            /\ g.nodes = Stored(f, node).nodes
            /\ g.attributes = f.attributes /\ g.namespaces = f.namespaces
            /\ g.elementStack = Append(f.elementStack, Len(f.nodes) + 1)
<1> DEFINE N == Len(f.nodes)
           D == Depth(f)
           e == Stored(f, node)
           g == Opened(f, node)
<1>1. /\ f \in Documents /\ Stores(f) /\ Stacked(f) /\ N \in Nat /\ D \in Nat /\ f.prevNode \in 0..N
      /\ IF D = 0 THEN N = 0 /\ f.prevNode = 0 ELSE Previous(f)
  BY Ready
<1>2. /\ e \in Documents /\ Len(e.nodes) = N + 1 /\ e.nodes[N + 1] = node
      /\ e.attributes = f.attributes /\ e.namespaces = f.namespaces
      /\ e.elementStack = f.elementStack /\ e.text = f.text /\ e.textToCreate = f.textToCreate
  BY <1>1, StoredFields
<1>3. Stores(e) /\ Stacked(e)
  BY <1>1, StoredStores
<1> HIDE DEF e
<1>4. /\ Append(f.elementStack, N + 1) \in Seq(Nat) /\ Len(Append(f.elementStack, N + 1)) = D + 1
      /\ \A k \in 1..D : Append(f.elementStack, N + 1)[k] = f.elementStack[k]
      /\ Append(f.elementStack, N + 1)[D + 1] = N + 1
      /\ Append(f.elementStack, N + 1) # <<>>
  BY <1>1, DocumentFields, AppendProperties DEF Depth
<1> DEFINE stack == Append(f.elementStack, N + 1)
<1>5a. g = [e EXCEPT !.elementStack = stack, !.prevNode = 0]
  BY DEF Opened, e
<1> HIDE DEF g, stack
<1>5. g = [nodes |-> e.nodes, maxNodes |-> e.maxNodes,
           attributes |-> e.attributes, maxAttributes |-> e.maxAttributes,
           namespaces |-> e.namespaces, maxNamespaces |-> e.maxNamespaces,
           elementStack |-> stack, prevNode |-> 0, text |-> e.text,
           textToCreate |-> e.textToCreate]
  BY <1>2, <1>5a DEF Documents
<1>6. g \in Documents
  BY <1>2, <1>4, <1>5, DocumentFields DEF Documents, stack
<1>7. /\ Stores(g) /\ Len(g.nodes) = N + 1 /\ g.nodes[N + 1] = node
      /\ \A i \in NodeIdsOf(e) : ParentIn(g, i) = ParentIn(e, i)
  BY <1>2, <1>3, <1>5, <1>6, SameStore
<1>8. Depth(g) = D + 1 /\ Top(g) = N + 1
  BY <1>1, <1>4, <1>5 DEF Depth, Top, stack
<1>9. Stacked(g)
  <2> SUFFICES ASSUME NEW k \in 1..D + 1
               PROVE  /\ stack[k] \in 1..N + 1
                      /\ g.nodes[stack[k]].level = k - 1
                      /\ \A i \in stack[k] + 1..N + 1 : g.nodes[i].level >= k
                      /\ \A m \in k + 1..D + 1 : stack[k] < stack[m]
    BY <1>5, <1>7, <1>8 DEF Stacked, NodeIdsOf
  <2>1. CASE k = D + 1
    <3>1. stack[k] = N + 1 /\ g.nodes[N + 1].level = D
      BY <1>4, <1>7, <2>1 DEF stack
    <3> QED
      BY <1>1, <2>1, <3>1
  <2>2. CASE k \in 1..D
    <3>1. /\ f.elementStack[k] \in 1..N
          /\ \A m \in k + 1..D : f.elementStack[k] < f.elementStack[m]
      BY <1>1, <2>2 DEF Stacked, NodeIdsOf
    <3>2. /\ e.nodes[f.elementStack[k]].level = k - 1
          /\ \A i \in f.elementStack[k] + 1..N + 1 : e.nodes[i].level >= k
      BY <1>2, <1>3, <2>2 DEF Stacked, Depth
    <3>3. stack[k] = f.elementStack[k] /\ stack[D + 1] = N + 1
      BY <1>4, <2>2 DEF stack
    <3>4. \A m \in k + 1..D + 1 : stack[k] < stack[m]
      <4> SUFFICES ASSUME NEW m \in k + 1..D + 1 PROVE stack[k] < stack[m]
        OBVIOUS
      <4>1. CASE m = D + 1
        BY <1>1, <3>1, <3>3, <4>1
      <4>2. CASE m # D + 1
        <5>1. m \in k + 1..D /\ m \in 1..D
          BY <1>1, <2>2, <4>2
        <5> QED
          BY <1>4, <3>1, <3>3, <5>1 DEF stack
      <4> QED
        BY <4>1, <4>2
    <3>5. stack[k] \in 1..N + 1
      BY <1>1, <3>1, <3>3
    <3> QED
      BY <1>5, <3>2, <3>3, <3>4, <3>5
  <2> QED
    BY <1>1, <2>1, <2>2
<1>10. Previous(g)
  <2>1. \A i \in NodeIdsOf(g) : ParentIn(g, i) \in 0..i - 1
    BY <1>6, <1>7, ParentRange DEF Stores
  <2>2. \A i \in NodeIdsOf(g) : ParentIn(g, i) # N + 1
    BY <1>1, <1>7, <2>1 DEF NodeIdsOf
  <2> QED
    BY <1>5, <1>8, <2>2 DEF Previous
<1>11. Building(g)
  BY <1>1, <1>2, <1>5, <1>7, <1>8, <1>9, <1>10 DEF Building
<1> QED
  BY <1>2, <1>5, <1>7, <1>8, <1>11 DEF g, e, stack

LEMMA StartDocumentBuilding ==
  ASSUME NEW d, Building(d), Depth(d) = 0
  PROVE  LET g == StartDocument(d)
         IN g = Opened(d, Node("document", 0, <<>>)) /\ Building(g) /\ Depth(g) = 1
<1> DEFINE node == Node("document", 0, <<>>)
<1>1. d \in Documents /\ d.elementStack = <<>> /\ Len(d.nodes) \in Nat
  BY Ready, StackFields
<1>2. StartDocument(d) = Opened(d, node)
  BY <1>1 DEF StartDocument, Opened
<1>3. /\ node \in NodeRecords /\ node.level = 0 /\ node.nextSibling = 0
      /\ node.attributes = 0 /\ node.namespaces = 0
  BY DEF Node, NodeRecords, Kinds, Values
<1>4. ~d.textToCreate /\ d.text = <<>>
  BY DEF Building, Empty
<1> HIDE DEF node
<1> QED
  BY <1>2, <1>3, <1>4, OpenedBuilding DEF node

LEMMA StartElementBuilding ==
  ASSUME NEW d, Building(d), NEW n \in ElementNames
  PROVE  LET g == StartElement(d, n)
         IN /\ g = Opened(Flushed(d), Node("element", Depth(d), n))
            /\ Building(g) /\ Depth(g) = Depth(d) + 1
            /\ Top(g) = Len(g.nodes) /\ ~g.textToCreate
<1> DEFINE f == Flushed(d)
           node == Node("element", Depth(d), n)
<1>1. Building(f) /\ ~f.textToCreate /\ f.text = <<>> /\ f.elementStack = d.elementStack
  BY FlushedBuilding
<1>2. Depth(f) = Depth(d) /\ Depth(d) \in Nat
  BY <1>1, Ready DEF Depth
<1>3. /\ node \in NodeRecords /\ node.level = Depth(f) /\ node.nextSibling = 0
      /\ node.attributes = 0 /\ node.namespaces = 0
  BY <1>2 DEF Node, NodeRecords, Kinds, Values
<1>4. Len(Stored(f, node).nodes) = Len(f.nodes) + 1
  BY <1>1, <1>3, Ready, StoredFields
<1>5. StartElement(d, n) = Opened(f, node)
  BY <1>1, <1>4 DEF StartElement, Opened
<1> HIDE DEF f, node
<1> QED
  BY <1>1, <1>2, <1>3, <1>5, OpenedBuilding DEF f, node

LEMMA PIOrCommentBuilding ==
  ASSUME NEW d, Building(d), Depth(d) > 0, NEW k \in Kinds
  PROVE  LET g == PIOrComment(d, k)
         IN Building(g) /\ Depth(g) = Depth(d)
<1> DEFINE f == Flushed(d)
           node == Node(k, Depth(d), <<>>)
           g == Stored(f, node)
<1>1. Building(f) /\ ~f.textToCreate /\ f.text = <<>> /\ f.elementStack = d.elementStack
  BY FlushedBuilding
<1>2. Depth(f) = Depth(d) /\ Depth(d) \in Nat
  BY <1>1, Ready DEF Depth
<1>3. /\ node \in NodeRecords /\ node.level = Depth(f) /\ node.nextSibling = 0
      /\ node.attributes = 0 /\ node.namespaces = 0
  BY <1>2 DEF Node, NodeRecords, Values
<1>4. PIOrComment(d, k) = g
  BY DEF PIOrComment
<1> HIDE DEF f, node
<1>5. /\ f \in Documents /\ Stores(f) /\ Stacked(f) /\ Previous(f) /\ f.prevNode \in 0..Len(f.nodes)
  BY <1>1, <1>2, Ready
<1>6. Stores(g) /\ Stacked(g) /\ Previous(g)
  BY <1>2, <1>3, <1>5, StoredStores
<1>7. g.elementStack = f.elementStack /\ g.text = f.text /\ g.textToCreate = f.textToCreate
  BY <1>3, <1>5, StoredFields
<1> QED
  BY <1>1, <1>2, <1>4, <1>6, <1>7 DEF Building, Depth

LEMMA TextBuilding ==
  ASSUME NEW d, Building(d), Depth(d) > 0, NEW c \in Seq(STRING)
  PROVE  LET g == Text(d, c)
         IN Building(g) /\ Depth(g) = Depth(d)
<1> DEFINE g == Text(d, c)
<1>1. d \in Documents /\ Stores(d) /\ Stacked(d) /\ Previous(d)
  BY Ready
<1>2. d.text \o c \in Seq(STRING)
  BY <1>1, DocumentFields, ConcatProperties
<1>3a. g = [d EXCEPT !.text = d.text \o c, !.textToCreate = TRUE]
  BY DEF Text
<1> HIDE DEF g
<1>3. g = [nodes |-> d.nodes, maxNodes |-> d.maxNodes,
           attributes |-> d.attributes, maxAttributes |-> d.maxAttributes,
           namespaces |-> d.namespaces, maxNamespaces |-> d.maxNamespaces,
           elementStack |-> d.elementStack, prevNode |-> d.prevNode, text |-> d.text \o c,
           textToCreate |-> TRUE]
  BY <1>1, <1>3a DEF Documents
<1>4. g \in Documents
  BY <1>1, <1>2, <1>3, DocumentFields DEF Documents
<1>5. Stores(g) /\ Stacked(g) /\ Previous(g) /\ Depth(g) = Depth(d)
  BY <1>1, <1>3, <1>4, SameStore
<1> QED
  BY <1>3, <1>5 DEF Building, g

\* A container ends, and becomes the previous sibling of what follows it.
LEMMA EndContainerBuilding ==
  ASSUME NEW d, Building(d), Depth(d) > 0
  PROVE  LET g == EndContainer(d)
         IN /\ Stores(g) /\ ~g.textToCreate /\ g.text = <<>>
            /\ Depth(g) = Depth(d) - 1
            /\ Len(g.nodes) > 0
            /\ g.nodes = Flushed(d).nodes
            /\ g.attributes = d.attributes /\ g.namespaces = d.namespaces
            /\ Depth(d) > 1 => /\ Building(g) /\ Top(g) = d.elementStack[Depth(d) - 1]
                               /\ ParentIn(g, Top(d)) = Top(g)
            /\ Depth(d) = 1 => ParentIn(g, Top(d)) = 0
            /\ g.prevNode = Top(d) /\ Top(d) \in NodeIdsOf(g)
            /\ \A k \in 1..Depth(d) - 1 : g.elementStack[k] = d.elementStack[k]
<1> DEFINE f == Flushed(d)
           N == Len(f.nodes)
           D == Depth(d)
           s == Top(d)
           stack == SubSeq(d.elementStack, 1, D - 1)
           g == EndContainer(d)
<1>1. /\ Building(f) /\ ~f.textToCreate /\ f.text = <<>> /\ f.elementStack = d.elementStack
      /\ f.attributes = d.attributes /\ f.namespaces = d.namespaces
  BY FlushedBuilding
<1>2. /\ f \in Documents /\ Stores(f) /\ Stacked(f) /\ N \in Nat /\ D \in Nat /\ Depth(f) = D
      /\ D \in 1..D /\ d.elementStack \in Seq(Nat) /\ s = d.elementStack[D]
      /\ \A i \in 1..N : f.nodes[i].level \in Nat
  <2>1. f \in Documents /\ Stores(f) /\ Stacked(f) /\ N \in Nat /\ d \in Documents
    BY <1>1, Ready
  <2>2. D \in Nat /\ Depth(f) = D /\ s = d.elementStack[D] /\ d.elementStack \in Seq(Nat)
    BY <1>1, <2>1, StackFields, DocumentFields DEF Depth
  <2>3. \A i \in 1..N : f.nodes[i].level \in Nat
    BY <2>1, NodeFields DEF NodeIdsOf
  <2> QED
    BY <2>1, <2>2, <2>3
<1>3. g = [f EXCEPT !.prevNode = s, !.elementStack = stack]
  BY DEF EndContainer
<1> HIDE DEF g, f
<1>4. /\ s \in 1..N /\ f.nodes[s].level = D - 1
      /\ \A i \in s + 1..N : f.nodes[i].level >= D
  BY <1>1, <1>2 DEF Stacked, NodeIdsOf
<1>5. /\ stack \in Seq(Nat) /\ Len(stack) = D - 1
      /\ \A k \in 1..D - 1 : stack[k] = d.elementStack[k]
  <2>1. \A k \in 1..D - 1 : d.elementStack[k] \in Nat
    BY <1>2, ElementOfSeq DEF Depth
  <2>2. /\ stack \in Seq(Nat) /\ Len(stack) = (IF 1 <= D - 1 THEN (D - 1) - 1 + 1 ELSE 0)
        /\ \A k \in 1..(D - 1) - 1 + 1 : stack[k] = d.elementStack[1 + k - 1]
    BY <1>2, <2>1, SubSeqProperties
  <2> QED
    BY <1>2, <2>2
<1> HIDE DEF stack
<1>6. g = [nodes |-> f.nodes, maxNodes |-> f.maxNodes,
           attributes |-> f.attributes, maxAttributes |-> f.maxAttributes,
           namespaces |-> f.namespaces, maxNamespaces |-> f.maxNamespaces,
           elementStack |-> stack, prevNode |-> s, text |-> f.text,
           textToCreate |-> f.textToCreate]
  BY <1>2, <1>3 DEF Documents
<1>7. g \in Documents
  <2>1. s \in Nat
    BY <1>4
  <2> QED
    BY <1>2, <1>5, <1>6, <2>1, DocumentFields DEF Documents
<1>8. Stores(g) /\ \A i \in 1..N : ParentIn(g, i) = ParentIn(f, i)
  BY <1>2, <1>6, <1>7, SameStore DEF NodeIdsOf
<1>9. /\ Depth(g) = D - 1 /\ g.nodes = f.nodes
      /\ D > 1 => Top(g) = d.elementStack[D - 1]
  <2>1. Depth(g) = D - 1
    BY <1>5, <1>6 DEF Depth
  <2>2. D > 1 => Top(g) = g.elementStack[D - 1]
    BY <1>2, <1>7, <2>1, StackFields
  <2>3. D > 1 => D - 1 \in 1..D - 1
    BY <1>2
  <2> QED
    BY <1>5, <1>6, <2>1, <2>2, <2>3
<1>10. Stacked(g)
  <2> SUFFICES ASSUME NEW k \in 1..D - 1
               PROVE  /\ stack[k] \in 1..N
                      /\ f.nodes[stack[k]].level = k - 1
                      /\ \A i \in stack[k] + 1..N : f.nodes[i].level >= k
                      /\ \A m \in k + 1..D - 1 : stack[k] < stack[m]
    BY <1>6, <1>9 DEF Stacked, NodeIdsOf
  <2>1. k \in 1..D /\ \A m \in k + 1..D - 1 : m \in 1..D - 1 /\ m \in k + 1..D
    BY <1>2
  <2>2. /\ d.elementStack[k] \in 1..N
        /\ f.nodes[d.elementStack[k]].level = k - 1
        /\ \A i \in d.elementStack[k] + 1..N : f.nodes[i].level >= k
        /\ \A m \in k + 1..D : d.elementStack[k] < d.elementStack[m]
    BY <1>1, <1>2, <2>1 DEF Stacked, NodeIdsOf
  <2> QED
    BY <1>5, <2>1, <2>2
<1>11. ASSUME D > 1
       PROVE  /\ IsParent(f, Top(g), s)
              /\ \A i \in s + 1..N : ParentIn(f, i) # Top(g)
  <2> DEFINE t == Top(g)
  <2>1. /\ t \in 1..N /\ f.nodes[t].level = D - 2
        /\ \A i \in t + 1..N : f.nodes[i].level >= D - 1
        /\ t < s
    <3>1. D - 1 \in 1..D /\ D \in (D - 1) + 1..D /\ (D - 1) - 1 = D - 2 /\ (D - 1) + 1 = D
      BY <1>2, <1>11
    <3>2. \A k \in 1..D : /\ d.elementStack[k] \in 1..N
                           /\ f.nodes[d.elementStack[k]].level = k - 1
                           /\ \A i \in d.elementStack[k] + 1..N : f.nodes[i].level >= k
                           /\ \A m \in k + 1..D : d.elementStack[k] < d.elementStack[m]
      BY <1>1, <1>2 DEF Stacked, NodeIdsOf
    <3>3. t = d.elementStack[D - 1] /\ s = d.elementStack[D]
      BY <1>2, <1>9, <1>11
    <3> HIDE DEF D, N, s, t
    <3>4. t \in 1..N /\ f.nodes[t].level = (D - 1) - 1
          /\ \A i \in t + 1..N : f.nodes[i].level >= D - 1
      BY <3>1, <3>2, <3>3
    <3>5. t < s
      <4>1. \A m \in (D - 1) + 1..D : d.elementStack[D - 1] < d.elementStack[m]
        BY <3>1, <3>2
      <4>2. d.elementStack[D - 1] < d.elementStack[D]
        BY <3>1, <4>1
      <4> QED
        BY <3>3, <4>2
    <3> QED
      BY <3>1, <3>4, <3>5
  <2> HIDE DEF t
  <2>2. IsParent(f, t, s)
    <3> HIDE DEF D, N, s
    <3>1. \A k \in t + 1..s - 1 : f.nodes[k].level >= D - 1
      <4>1. t \in Nat /\ s \in 1..N /\ N \in Nat
        BY <1>2, <1>4, <2>1
      <4>2. \A k \in t + 1..s - 1 : k \in t + 1..N
        BY <4>1
      <4> QED
        BY <2>1, <4>2
    <3>2. t \in 1..s - 1 /\ D - 2 < D - 1 /\ s \in 1..N
      BY <1>2, <1>4, <2>1
    <3> QED
      BY <1>4, <2>1, <3>1, <3>2 DEF IsParent
  <2>3. ASSUME NEW i \in s + 1..N, ParentIn(f, i) = t PROVE FALSE
    <3>1. i \in 1..N /\ f.nodes[i].level >= D
      BY <1>2, <1>4, <2>3
    <3>2. IsParent(f, t, i)
      BY <1>2, <2>3, <3>1 DEF Stores, Parented, NodeIdsOf
    <3>3. s \in t + 1..i - 1
      <4>1. s \in Nat /\ t \in Nat /\ N \in Nat /\ t < s
        BY <1>2, <1>4, <2>1
      <4> HIDE DEF N, s
      <4> QED
        BY <4>1
    <3>4. f.nodes[s].level >= f.nodes[i].level
      BY <3>2, <3>3 DEF IsParent
    <3> QED
      BY <1>2, <1>4, <3>1, <3>4
  <2> QED
    BY <2>2, <2>3 DEF t
<1>12. ASSUME D > 1 PROVE Building(g) /\ ParentIn(g, s) = Top(g)
  <2>1. ParentIn(f, s) = Top(g)
    BY <1>2, <1>4, <1>11, <1>12, ParentFound DEF NodeIdsOf
  <2>2. ParentIn(g, s) = Top(g) /\ \A i \in s + 1..N : ParentIn(g, i) # Top(g)
    <3>1. \A i \in s + 1..N : i \in 1..N
      BY <1>2, <1>4
    <3> QED
      BY <1>4, <1>8, <1>11, <1>12, <2>1, <3>1
  <2>3. Previous(g)
    BY <1>4, <1>6, <2>2 DEF Previous, NodeIdsOf
  <2> QED
    BY <1>1, <1>2, <1>6, <1>8, <1>9, <1>10, <1>12, <2>2, <2>3 DEF Building
<1>13. D = 1 => ParentIn(g, s) = 0
  BY <1>4, <1>6 DEF ParentIn
<1>14. Len(g.nodes) > 0
  BY <1>2, <1>4, <1>6
<1>15. /\ g.prevNode = s /\ s \in NodeIdsOf(g)
       /\ \A k \in 1..D - 1 : g.elementStack[k] = d.elementStack[k]
  BY <1>4, <1>5, <1>6 DEF NodeIdsOf
<1> QED
  BY <1>1, <1>6, <1>8, <1>9, <1>12, <1>13, <1>14, <1>15 DEF g, f, s


\* A label of the last node lengthens its run, or begins it.
LEMMA RunExtended ==
  ASSUME NEW labels \in Seq(LabelRecords), NEW n \in Nat \ {0}, NEW first, InRuns(labels, first, n),
         NEW label \in LabelRecords, label.owner = n, NEW longer,
         \A i \in 1..n : longer[i] = IF i = n /\ first[i] = 0 THEN Len(labels) + 1 ELSE first[i]
  PROVE  InRuns(Append(labels, label), longer, n)
<1> DEFINE L == Len(labels)
           more == Append(labels, label)
<1>1. L \in Nat
  BY LenProperties
<1>2. Len(more) = L + 1 /\ more[L + 1] = label /\ \A j \in 1..L : more[j] = labels[j]
  BY AppendProperties
<1> HIDE DEF more, L
<1>3. /\ \A j \in 1..L : labels[j].owner \in 1..n
      /\ \A j \in 1..L : \A k \in j..L : labels[j].owner <= labels[k].owner
  BY DEF InRuns, L
<1>4. \A j \in 1..L + 1 : j \in 1..L \/ j = L + 1
  BY <1>1
<1>5. \A j \in 1..L + 1 : more[j].owner \in 1..n
  BY <1>2, <1>3, <1>4
<1>6. \A j \in 1..L + 1 : \A k \in j..L + 1 : more[j].owner <= more[k].owner
  <2> SUFFICES ASSUME NEW j \in 1..L + 1, NEW k \in j..L + 1 PROVE more[j].owner <= more[k].owner
    OBVIOUS
  <2>1. CASE k = L + 1
    BY <1>2, <1>5, <2>1
  <2>2. CASE k # L + 1
    <3>1. j \in 1..L /\ k \in j..L /\ k \in 1..L
      BY <1>1, <2>2
    <3> QED
      BY <1>2, <1>3, <3>1
  <2> QED
    BY <2>1, <2>2
<1>7. ASSUME NEW i \in 1..n
      PROVE  IF longer[i] = 0
             THEN \A j \in 1..L + 1 : more[j].owner # i
             ELSE /\ longer[i] \in 1..L + 1
                  /\ more[longer[i]].owner = i
                  /\ \A j \in 1..longer[i] - 1 : more[j].owner # i
  <2>1. IF first[i] = 0
        THEN \A j \in 1..L : labels[j].owner # i
        ELSE /\ first[i] \in 1..L
             /\ labels[first[i]].owner = i
             /\ \A j \in 1..first[i] - 1 : labels[j].owner # i
    BY <1>7 DEF InRuns, L
  <2>2. longer[i] = IF i = n /\ first[i] = 0 THEN L + 1 ELSE first[i]
    BY <1>7 DEF L
  <2>3. CASE first[i] = 0 /\ i = n
    <3>1. longer[i] = L + 1 /\ L + 1 # 0 /\ (L + 1) - 1 = L
      BY <1>1, <2>2, <2>3
    <3> QED
      BY <1>1, <1>2, <2>1, <2>3, <3>1
  <2>4. CASE first[i] = 0 /\ i # n
    BY <1>2, <1>4, <2>1, <2>2, <2>4
  <2>5. CASE first[i] # 0
    <3>1. longer[i] = first[i] /\ first[i] \in 1..L /\ first[i] \in 1..L + 1
      BY <1>1, <2>1, <2>2, <2>5
    <3>2. \A j \in 1..first[i] - 1 : j \in 1..L
      BY <1>1, <3>1
    <3> QED
      BY <1>2, <2>1, <2>5, <3>1, <3>2
  <2> QED
    BY <2>3, <2>4, <2>5
<1> QED
  BY <1>2, <1>5, <1>6, <1>7 DEF InRuns, L, more

LEMMA AttributeBuilding ==
  ASSUME NEW d, Building(d), Depth(d) > 0, Top(d) = Len(d.nodes), ~d.textToCreate,
         NEW n \in AttributeNames
  PROVE  LET g == Attribute(d, n)
         IN /\ Building(g) /\ Depth(g) = Depth(d)
            /\ Top(g) = Top(d) /\ Len(g.nodes) = Len(d.nodes) /\ ~g.textToCreate
            /\ \A i \in NodeIdsOf(d) : /\ g.nodes[i].nodeKind = d.nodes[i].nodeKind
                                       /\ g.nodes[i].value = d.nodes[i].value
                                       /\ ParentIn(g, i) = ParentIn(d, i)
            /\ g.attributes = Append(d.attributes, Label(Top(d), n))
            /\ g.namespaces = d.namespaces /\ g.text = d.text /\ g.elementStack = d.elementStack
<1> DEFINE N == Len(d.nodes)
           L == Len(d.attributes)
           label == Label(N, n)
           last == [d.nodes[N] EXCEPT !.attributes = L + 1]
           nodes == IF d.nodes[N].attributes = 0 THEN [d.nodes EXCEPT ![N] = last] ELSE d.nodes
           labels == Append(d.attributes, label)
           max == Grown(L, d.maxAttributes)
           g == Attribute(d, n)
<1>1. /\ d \in Documents /\ Stores(d) /\ Stacked(d) /\ Previous(d) /\ N \in Nat
      /\ d.nodes \in Seq(NodeRecords) /\ d.attributes \in Seq(LabelRecords)
      /\ L \in Nat /\ d.maxAttributes \in Nat
  BY Ready, DocumentFields, LenProperties
<1>2. N \in 1..N
  BY <1>1, StackFields DEF Stacked, NodeIdsOf
<1>3. /\ d.nodes[N] \in NodeRecords /\ last \in NodeRecords /\ last.level = d.nodes[N].level
      /\ last.nextSibling = d.nodes[N].nextSibling /\ last.attributes = L + 1
      /\ last.namespaces = d.nodes[N].namespaces /\ last.nodeKind = d.nodes[N].nodeKind
      /\ last.value = d.nodes[N].value
  <2>1. d.nodes[N] \in NodeRecords /\ L + 1 \in Nat
    BY <1>1, <1>2, NodeFields DEF NodeIdsOf
  <2> QED
    BY <2>1 DEF NodeRecords
<1> HIDE DEF last
<1>4. /\ nodes \in Seq(NodeRecords) /\ Len(nodes) = N
      /\ \A i \in 1..N : nodes[i] = IF i = N /\ d.nodes[i].attributes = 0 THEN last ELSE d.nodes[i]
  <2>1. CASE d.nodes[N].attributes = 0
    BY <1>1, <1>2, <1>3, <2>1, ExceptSeq
  <2>2. CASE d.nodes[N].attributes # 0
    BY <1>1, <2>2
  <2> QED
    BY <2>1, <2>2
<1>5. \A i \in 1..N :
        /\ nodes[i].level = d.nodes[i].level /\ nodes[i].nextSibling = d.nodes[i].nextSibling
        /\ nodes[i].nodeKind = d.nodes[i].nodeKind /\ nodes[i].value = d.nodes[i].value
        /\ nodes[i].namespaces = d.nodes[i].namespaces
        /\ nodes[i].attributes = IF i = N /\ d.nodes[i].attributes = 0 THEN L + 1
                                 ELSE d.nodes[i].attributes
  BY <1>3, <1>4
<1>6. label \in LabelRecords /\ label.owner = N
  BY <1>1 DEF Label, LabelRecords
<1>7. labels \in Seq(LabelRecords) /\ Len(labels) = L + 1
  BY <1>1, <1>6, AppendProperties
<1>8. max \in Nat /\ Fits(L + 1, max)
  <2>1. Fits(L, d.maxAttributes)
    BY <1>1 DEF Stores, Fitting
  <2> QED
    BY <1>1, <2>1 DEF Fits, Grown
<1>9. g = [d EXCEPT !.attributes = labels, !.maxAttributes = max, !.nodes = nodes]
  <2>1. N # 0
    BY <1>2
  <2> QED
    BY <1>1, <2>1 DEF Attribute, last
<1> HIDE DEF g, nodes, labels, max
<1>10. g = [nodes |-> nodes, maxNodes |-> d.maxNodes,
            attributes |-> labels, maxAttributes |-> max,
            namespaces |-> d.namespaces, maxNamespaces |-> d.maxNamespaces,
            elementStack |-> d.elementStack, prevNode |-> d.prevNode, text |-> d.text,
            textToCreate |-> d.textToCreate]
  BY <1>1, <1>9 DEF Documents
<1>11. g \in Documents
  BY <1>1, <1>4, <1>7, <1>8, <1>10, DocumentFields DEF Documents
<1>12. /\ Parented(g) /\ Linked(g) /\ Stacked(g) /\ Previous(g) /\ Depth(g) = Depth(d) /\ Top(g) = Top(d)
       /\ \A i \in 1..N : ParentIn(g, i) = ParentIn(d, i)
  BY <1>1, <1>4, <1>5, <1>10, <1>11, SameLinks DEF Stores, NodeIdsOf
<1>13. Labelled(g)
  <2>1. InRuns(d.attributes, FirstAttributes(d), N) /\ InRuns(d.namespaces, FirstNamespaces(d), N)
    BY <1>1 DEF Stores, Labelled
  <2>2. \A i \in 1..N : FirstAttributes(g)[i] = IF i = N /\ FirstAttributes(d)[i] = 0 THEN L + 1
                                                 ELSE FirstAttributes(d)[i]
    BY <1>4, <1>5, <1>10 DEF FirstAttributes, NodeIdsOf
  <2>3. FirstNamespaces(g) = FirstNamespaces(d)
    BY <1>4, <1>5, <1>10 DEF FirstNamespaces, NodeIdsOf
  <2>4. N \in Nat \ {0}
    BY <1>2
  <2>5. InRuns(labels, FirstAttributes(g), N)
    BY <1>1, <1>6, <2>1, <2>2, <2>4, RunExtended DEF labels
  <2> QED
    BY <1>4, <1>10, <2>1, <2>3, <2>5 DEF Labelled
<1>14. Fitting(g)
  BY <1>1, <1>4, <1>7, <1>8, <1>10 DEF Stores, Fitting
<1>15. Building(g)
  BY <1>1, <1>10, <1>11, <1>12, <1>13, <1>14 DEF Building, Stores
<1>16. g.attributes = Append(d.attributes, Label(Top(d), n))
  BY <1>10 DEF labels
<1>17. Len(g.nodes) = Len(d.nodes) /\ g.textToCreate = d.textToCreate
       /\ g.namespaces = d.namespaces /\ g.text = d.text /\ g.elementStack = d.elementStack
  BY <1>4, <1>10
<1>18. \A i \in NodeIdsOf(d) : /\ g.nodes[i].nodeKind = d.nodes[i].nodeKind
                                /\ g.nodes[i].value = d.nodes[i].value
                                /\ ParentIn(g, i) = ParentIn(d, i)
  BY <1>5, <1>10, <1>12 DEF NodeIdsOf
<1> QED
  BY <1>12, <1>15, <1>16, <1>17, <1>18 DEF g

LEMMA NamespaceBuilding ==
  ASSUME NEW d, Building(d), Depth(d) > 0, Top(d) = Len(d.nodes), ~d.textToCreate,
         NEW n \in Declarations
  PROVE  LET g == Namespace(d, n)
         IN /\ Building(g) /\ Depth(g) = Depth(d)
            /\ Top(g) = Top(d) /\ Len(g.nodes) = Len(d.nodes) /\ ~g.textToCreate
            /\ \A i \in NodeIdsOf(d) : /\ g.nodes[i].nodeKind = d.nodes[i].nodeKind
                                       /\ g.nodes[i].value = d.nodes[i].value
                                       /\ ParentIn(g, i) = ParentIn(d, i)
            /\ g.namespaces = Append(d.namespaces, Label(Top(d), n))
            /\ g.attributes = d.attributes /\ g.text = d.text /\ g.elementStack = d.elementStack
<1> DEFINE N == Len(d.nodes)
           L == Len(d.namespaces)
           label == Label(N, n)
           last == [d.nodes[N] EXCEPT !.namespaces = L + 1]
           nodes == IF d.nodes[N].namespaces = 0 THEN [d.nodes EXCEPT ![N] = last] ELSE d.nodes
           labels == Append(d.namespaces, label)
           max == Grown(L, d.maxNamespaces)
           g == Namespace(d, n)
<1>1. /\ d \in Documents /\ Stores(d) /\ Stacked(d) /\ Previous(d) /\ N \in Nat
      /\ d.nodes \in Seq(NodeRecords) /\ d.namespaces \in Seq(LabelRecords)
      /\ L \in Nat /\ d.maxNamespaces \in Nat
  BY Ready, DocumentFields, LenProperties
<1>2. N \in 1..N
  BY <1>1, StackFields DEF Stacked, NodeIdsOf
<1>3. /\ d.nodes[N] \in NodeRecords /\ last \in NodeRecords /\ last.level = d.nodes[N].level
      /\ last.nextSibling = d.nodes[N].nextSibling /\ last.namespaces = L + 1
      /\ last.attributes = d.nodes[N].attributes /\ last.nodeKind = d.nodes[N].nodeKind
      /\ last.value = d.nodes[N].value
  <2>1. d.nodes[N] \in NodeRecords /\ L + 1 \in Nat
    BY <1>1, <1>2, NodeFields DEF NodeIdsOf
  <2> QED
    BY <2>1 DEF NodeRecords
<1> HIDE DEF last
<1>4. /\ nodes \in Seq(NodeRecords) /\ Len(nodes) = N
      /\ \A i \in 1..N : nodes[i] = IF i = N /\ d.nodes[i].namespaces = 0 THEN last ELSE d.nodes[i]
  <2>1. CASE d.nodes[N].namespaces = 0
    BY <1>1, <1>2, <1>3, <2>1, ExceptSeq
  <2>2. CASE d.nodes[N].namespaces # 0
    BY <1>1, <2>2
  <2> QED
    BY <2>1, <2>2
<1>5. \A i \in 1..N :
        /\ nodes[i].level = d.nodes[i].level /\ nodes[i].nextSibling = d.nodes[i].nextSibling
        /\ nodes[i].nodeKind = d.nodes[i].nodeKind /\ nodes[i].value = d.nodes[i].value
        /\ nodes[i].attributes = d.nodes[i].attributes
        /\ nodes[i].namespaces = IF i = N /\ d.nodes[i].namespaces = 0 THEN L + 1
                                 ELSE d.nodes[i].namespaces
  BY <1>3, <1>4
<1>6. label \in LabelRecords /\ label.owner = N
  BY <1>1 DEF Label, LabelRecords
<1>7. labels \in Seq(LabelRecords) /\ Len(labels) = L + 1
  BY <1>1, <1>6, AppendProperties
<1>8. max \in Nat /\ Fits(L + 1, max)
  <2>1. Fits(L, d.maxNamespaces)
    BY <1>1 DEF Stores, Fitting
  <2> QED
    BY <1>1, <2>1 DEF Fits, Grown
<1>9. g = [d EXCEPT !.namespaces = labels, !.maxNamespaces = max, !.nodes = nodes]
  <2>1. N # 0
    BY <1>2
  <2> QED
    BY <1>1, <2>1 DEF Namespace, last
<1> HIDE DEF g, nodes, labels, max
<1>10. g = [nodes |-> nodes, maxNodes |-> d.maxNodes,
            namespaces |-> labels, maxNamespaces |-> max,
            attributes |-> d.attributes, maxAttributes |-> d.maxAttributes,
            elementStack |-> d.elementStack, prevNode |-> d.prevNode, text |-> d.text,
            textToCreate |-> d.textToCreate]
  BY <1>1, <1>9 DEF Documents
<1>11. g \in Documents
  BY <1>1, <1>4, <1>7, <1>8, <1>10, DocumentFields DEF Documents
<1>12. /\ Parented(g) /\ Linked(g) /\ Stacked(g) /\ Previous(g) /\ Depth(g) = Depth(d) /\ Top(g) = Top(d)
       /\ \A i \in 1..N : ParentIn(g, i) = ParentIn(d, i)
  BY <1>1, <1>4, <1>5, <1>10, <1>11, SameLinks DEF Stores, NodeIdsOf
<1>13. Labelled(g)
  <2>1. InRuns(d.namespaces, FirstNamespaces(d), N) /\ InRuns(d.attributes, FirstAttributes(d), N)
    BY <1>1 DEF Stores, Labelled
  <2>2. \A i \in 1..N : FirstNamespaces(g)[i] = IF i = N /\ FirstNamespaces(d)[i] = 0 THEN L + 1
                                                 ELSE FirstNamespaces(d)[i]
    BY <1>4, <1>5, <1>10 DEF FirstNamespaces, NodeIdsOf
  <2>3. FirstAttributes(g) = FirstAttributes(d)
    BY <1>4, <1>5, <1>10 DEF FirstAttributes, NodeIdsOf
  <2>4. N \in Nat \ {0}
    BY <1>2
  <2>5. InRuns(labels, FirstNamespaces(g), N)
    BY <1>1, <1>6, <2>1, <2>2, <2>4, RunExtended DEF labels
  <2> QED
    BY <1>4, <1>10, <2>1, <2>3, <2>5 DEF Labelled
<1>14. Fitting(g)
  BY <1>1, <1>4, <1>7, <1>8, <1>10 DEF Stores, Fitting
<1>15. Building(g)
  BY <1>1, <1>10, <1>11, <1>12, <1>13, <1>14 DEF Building, Stores
<1>16. g.namespaces = Append(d.namespaces, Label(Top(d), n))
  BY <1>10 DEF labels
<1>17. Len(g.nodes) = Len(d.nodes) /\ g.textToCreate = d.textToCreate
       /\ g.attributes = d.attributes /\ g.text = d.text /\ g.elementStack = d.elementStack
  BY <1>4, <1>10
<1>18. \A i \in NodeIdsOf(d) : /\ g.nodes[i].nodeKind = d.nodes[i].nodeKind
                                /\ g.nodes[i].value = d.nodes[i].value
                                /\ ParentIn(g, i) = ParentIn(d, i)
  BY <1>5, <1>10, <1>12 DEF NodeIdsOf
<1> QED
  BY <1>12, <1>15, <1>16, <1>17, <1>18 DEF g


-----------------------------------------------------------------------------
(***************************************************************************)
(* Walks over what is stored                                               *)
(***************************************************************************)
\* The labels found from the first one on are those of the node, with a marker
\* behind them or not; with the marker the walk ends inside the array.
LEMMA RunIsOwned ==
  ASSUME NEW labels \in Seq(LabelRecords), NEW more \in Seq(LabelRecords), NEW n \in Nat, NEW first,
         InRuns(labels, first, n), Len(labels) <= Len(more),
         \A j \in 1..Len(labels) : more[j] = labels[j],
         \A j \in 1..Len(more) : j > Len(labels) => more[j].owner = 0,
         NEW i \in 1..n, first[i] \in Nat
  PROVE  /\ Run(more, i, first[i]) = Owned(more, i)
         /\ Len(labels) = 0 \/ Len(labels) < Len(more) => WalkEnds(more, i, first[i])
<1> DEFINE L == Len(labels)
           M == Len(more)
           f == first[i]
<1>1. L \in Nat /\ M \in Nat /\ DOMAIN more = 1..M /\ f \in Nat /\ i # 0
  BY LenProperties
<1>2. \A j \in 1..M : more[j].owner = i => j \in 1..L /\ labels[j].owner = i
  BY <1>1
<1>3. /\ \A j \in 1..L : \A k \in j..L : labels[j].owner <= labels[k].owner
      /\ \A j \in 1..L : labels[j].owner \in 1..n
      /\ IF f = 0
         THEN \A j \in 1..L : labels[j].owner # i
         ELSE /\ f \in 1..L
              /\ labels[f].owner = i
              /\ \A j \in 1..f - 1 : labels[j].owner # i
  BY DEF InRuns
<1> HIDE DEF f
<1>4. ASSUME NEW j \in 1..M, more[j].owner = i
      PROVE  f # 0 /\ j >= f /\ \A k \in f..j : more[k].owner = i
  <2>1. j \in 1..L /\ labels[j].owner = i
    BY <1>2, <1>4
  <2>2. f # 0 /\ f \in 1..L /\ labels[f].owner = i
    BY <1>3, <2>1
  <2>3. j >= f
    BY <1>1, <1>3, <2>1, <2>2
  <2>4. ASSUME NEW k \in f..j PROVE more[k].owner = i
    <3>1. k \in 1..L /\ k \in f..L /\ j \in k..L
      BY <1>1, <2>1, <2>2, <2>3
    <3>2. labels[f].owner <= labels[k].owner /\ labels[k].owner <= labels[j].owner
      BY <1>3, <2>2, <3>1
    <3>3. labels[k].owner \in 1..n
      BY <1>3, <3>1
    <3> QED
      BY <2>1, <2>2, <3>1, <3>2, <3>3
  <2> QED
    BY <2>2, <2>3, <2>4
<1>5. ASSUME NEW j \in 1..M, f # 0, j >= f, \A k \in f..j : more[k].owner = i
      PROVE  more[j].owner = i
  <2>1. j \in f..j
    BY <1>1, <1>5
  <2> QED
    BY <1>5, <2>1
<1>6. Run(more, i, f) = Owned(more, i)
  BY <1>1, <1>4, <1>5 DEF Run, Owned
<1>7. ASSUME L = 0 \/ L < M PROVE WalkEnds(more, i, f)
  <2> SUFFICES ASSUME NEW j \in Run(more, i, f) PROVE \E k \in (j + 1)..M : more[k].owner # i
    BY DEF WalkEnds
  <2>1. j \in 1..M /\ more[j].owner = i
    BY <1>1, <1>6 DEF Owned
  <2>2. j \in 1..L /\ L < M
    BY <1>1, <1>2, <1>7, <2>1
  <2>3. M \in (j + 1)..M /\ M > L /\ M \in 1..M
    BY <1>1, <2>2
  <2>4. more[M].owner # i
    BY <1>1, <2>3
  <2> QED
    BY <2>3, <2>4
<1> QED
  BY <1>6, <1>7 DEF f

\* The links are right when others than the stored nodes follow them.
LEMMA LinkedMatches ==
  ASSUME NEW d \in Documents, NEW e \in Documents, Parented(d), Linked(d),
         Len(d.nodes) <= Len(e.nodes), \A i \in NodeIdsOf(d) : e.nodes[i] = d.nodes[i]
  PROVE  \A i \in NodeIdsOf(d) : SiblingsMatch(e, i, Len(d.nodes))
<1> DEFINE N == Len(d.nodes)
<1> SUFFICES ASSUME NEW i \in 1..N PROVE SiblingsMatch(e, i, N)
  BY DEF NodeIdsOf
<1> DEFINE later == {j \in (i + 1)..N : ParentIn(e, j) = ParentIn(e, i)}
           next == d.nodes[i].nextSibling
<1>1. N \in Nat /\ \A j \in 1..N : ParentIn(e, j) = ParentIn(d, j)
  BY ParentKept, NodeFields DEF NodeIdsOf
<1>2. e.nodes[i] = d.nodes[i]
  BY DEF NodeIdsOf
<1>3. IF next = 0
      THEN ParentIn(d, i) = 0 \/ \A j \in i + 1..N : ParentIn(d, j) # ParentIn(d, i)
      ELSE /\ ParentIn(d, i) # 0
           /\ next \in i + 1..N
           /\ ParentIn(d, next) = ParentIn(d, i)
           /\ \A j \in i + 1..N : ParentIn(d, j) = ParentIn(d, i) => next <= j
  BY DEF Linked, NodeIdsOf
<1>4. \A j \in i + 1..N : j \in 1..N
  <2>1. N \in Nat
    BY <1>1
  <2> HIDE DEF N
  <2> QED
    BY <2>1
<1>5. \A j : j \in later <=> j \in i + 1..N /\ ParentIn(d, j) = ParentIn(d, i)
  BY <1>1, <1>4
<1>6. ParentIn(e, i) = ParentIn(d, i)
  BY <1>1
<1> HIDE DEF later, next
<1>7. IF ParentIn(e, i) = 0 \/ later = {} THEN next = 0
      ELSE next \in later /\ \A j \in later : next <= j
  <2>1. CASE next = 0
    BY <1>3, <1>5, <1>6, <2>1
  <2>2. CASE next # 0
    BY <1>3, <1>5, <1>6, <2>2
  <2> QED
    BY <2>1, <2>2
<1> QED
  BY <1>2, <1>7 DEF SiblingsMatch, later, next

\* A label array and its size, with room for what is in it.
Roomy(labels, max) == Len(labels) = 0 \/ Fits(Len(labels), max)

\* What is stored, with what follows it, means the tree.
LEMMA StoredMatches ==
  ASSUME NEW d \in Documents, NEW e \in Documents, Parented(d), Linked(d), Labelled(d),
         Len(d.nodes) <= Len(e.nodes), \A i \in NodeIdsOf(d) : e.nodes[i] = d.nodes[i],
         Len(d.attributes) <= Len(e.attributes),
         \A j \in 1..Len(d.attributes) : e.attributes[j] = d.attributes[j],
         \A j \in 1..Len(e.attributes) : j > Len(d.attributes) => e.attributes[j].owner = 0,
         Len(d.namespaces) <= Len(e.namespaces),
         \A j \in 1..Len(d.namespaces) : e.namespaces[j] = d.namespaces[j],
         \A j \in 1..Len(e.namespaces) : j > Len(d.namespaces) => e.namespaces[j].owner = 0,
         Len(e.nodes) <= e.maxNodes, Len(e.attributes) <= e.maxAttributes,
         Len(e.namespaces) <= e.maxNamespaces,
         NEW marked \in BOOLEAN,
         marked => /\ Len(e.nodes) = Len(d.nodes) + 1 /\ e.nodes[Len(e.nodes)].level = 0
                   /\ Len(d.attributes) = 0 \/ Len(d.attributes) < Len(e.attributes)
                   /\ Len(d.namespaces) = 0 \/ Len(d.namespaces) < Len(e.namespaces)
  PROVE  Matches(e, Len(d.nodes), marked)
<1> DEFINE N == Len(d.nodes)
<1>1. N \in Nat /\ Len(e.nodes) \in Nat
  BY NodeFields
<1> SUFFICES ASSUME NEW i \in 1..N
             PROVE  /\ SiblingsMatch(e, i, N)
                    /\ Run(e.attributes, i, e.nodes[i].attributes) = Owned(e.attributes, i)
                    /\ Run(e.namespaces, i, e.nodes[i].namespaces) = Owned(e.namespaces, i)
                    /\ marked => /\ \E j \in (i + 1)..Len(e.nodes) : e.nodes[j].level <= e.nodes[i].level
                                 /\ WalkEnds(e.attributes, i, e.nodes[i].attributes)
                                 /\ WalkEnds(e.namespaces, i, e.nodes[i].namespaces)
  BY DEF Matches
<1>2. SiblingsMatch(e, i, N)
  BY LinkedMatches DEF NodeIdsOf
<1>3. /\ e.nodes[i] = d.nodes[i] /\ d.nodes[i].level \in Nat
      /\ FirstAttributes(d)[i] = d.nodes[i].attributes /\ d.nodes[i].attributes \in Nat
      /\ FirstNamespaces(d)[i] = d.nodes[i].namespaces /\ d.nodes[i].namespaces \in Nat
  BY NodeFields DEF NodeIdsOf, FirstAttributes, FirstNamespaces
<1>4. /\ Run(e.attributes, i, e.nodes[i].attributes) = Owned(e.attributes, i)
      /\ marked => WalkEnds(e.attributes, i, e.nodes[i].attributes)
  <2>1. /\ d.attributes \in Seq(LabelRecords) /\ e.attributes \in Seq(LabelRecords)
        /\ InRuns(d.attributes, FirstAttributes(d), N)
    BY DocumentFields DEF Labelled
  <2>2. FirstAttributes(d)[i] \in Nat /\ FirstAttributes(d)[i] = e.nodes[i].attributes
    BY <1>3
  <2> HIDE DEF N
  <2>3. /\ Run(e.attributes, i, FirstAttributes(d)[i]) = Owned(e.attributes, i)
        /\ Len(d.attributes) = 0 \/ Len(d.attributes) < Len(e.attributes) =>
             WalkEnds(e.attributes, i, FirstAttributes(d)[i])
    BY <1>1, <2>1, <2>2, RunIsOwned
  <2> QED
    BY <2>2, <2>3
<1>5. /\ Run(e.namespaces, i, e.nodes[i].namespaces) = Owned(e.namespaces, i)
      /\ marked => WalkEnds(e.namespaces, i, e.nodes[i].namespaces)
  <2>1. /\ d.namespaces \in Seq(LabelRecords) /\ e.namespaces \in Seq(LabelRecords)
        /\ InRuns(d.namespaces, FirstNamespaces(d), N)
    BY DocumentFields DEF Labelled
  <2>2. FirstNamespaces(d)[i] \in Nat /\ FirstNamespaces(d)[i] = e.nodes[i].namespaces
    BY <1>3
  <2> HIDE DEF N
  <2>3. /\ Run(e.namespaces, i, FirstNamespaces(d)[i]) = Owned(e.namespaces, i)
        /\ Len(d.namespaces) = 0 \/ Len(d.namespaces) < Len(e.namespaces) =>
             WalkEnds(e.namespaces, i, FirstNamespaces(d)[i])
    BY <1>1, <2>1, <2>2, RunIsOwned
  <2> QED
    BY <2>2, <2>3
<1>6. marked => \E j \in (i + 1)..Len(e.nodes) : e.nodes[j].level <= e.nodes[i].level
  <2> SUFFICES ASSUME marked PROVE \E j \in (i + 1)..Len(e.nodes) : e.nodes[j].level <= e.nodes[i].level
    OBVIOUS
  <2>1. Len(e.nodes) \in (i + 1)..Len(e.nodes)
    BY <1>1
  <2>2. e.nodes[Len(e.nodes)].level <= e.nodes[i].level
    BY <1>3
  <2> QED
    BY <2>1, <2>2
<1> QED
  BY <1>2, <1>4, <1>5, <1>6


LEMMA MarkedLabels ==
  ASSUME NEW labels \in Seq(LabelRecords), NEW max \in Nat, Roomy(labels, max)
  PROVE  LET more == Marked(labels, MarkerLabel)
         IN /\ more \in Seq(LabelRecords) /\ Len(labels) <= Len(more)
            /\ \A j \in 1..Len(labels) : more[j] = labels[j]
            /\ \A j \in 1..Len(more) : j > Len(labels) => more[j].owner = 0
            /\ Len(labels) = 0 \/ Len(labels) < Len(more)
            /\ MarkedMax(labels, max) \in Nat /\ Len(more) <= MarkedMax(labels, max)
<1> DEFINE L == Len(labels)
           more == Append(labels, MarkerLabel)
<1>1. L \in Nat /\ (labels = <<>> <=> L = 0)
  BY LenProperties, EmptySeq
<1>2. MarkerLabel \in LabelRecords /\ MarkerLabel.owner = 0
  BY DEF MarkerLabel, Label, LabelRecords
<1>3. /\ more \in Seq(LabelRecords) /\ Len(more) = L + 1
      /\ \A j \in 1..L : more[j] = labels[j]
      /\ more[L + 1] = MarkerLabel
  BY <1>2, AppendProperties
<1> HIDE DEF more
<1>4. CASE L = 0
  BY <1>1, <1>4 DEF Marked, MarkedMax
<1>5. CASE L # 0
  <2>1. Marked(labels, MarkerLabel) = more /\ MarkedMax(labels, max) = Grown(L, max)
    BY <1>1, <1>5 DEF Marked, MarkedMax, more
  <2>2. Grown(L, max) \in Nat /\ L + 1 <= Grown(L, max)
    BY <1>1, <1>5 DEF Grown, Roomy, Fits
  <2>3. \A j \in 1..L + 1 : j > L => more[j].owner = 0
    BY <1>1, <1>2, <1>3
  <2> QED
    BY <1>1, <1>3, <1>5, <2>1, <2>2, <2>3
<1> QED
  BY <1>4, <1>5

\* A document ends: its arrays get their markers.
LEMMA EndEventMatches ==
  ASSUME NEW g, Flushed(g) \in Documents, Parented(Flushed(g)), Linked(Flushed(g)),
         Labelled(Flushed(g)), Len(Flushed(g).nodes) > 0,
         Fits(Len(Flushed(g).nodes), Flushed(g).maxNodes),
         Roomy(Flushed(g).attributes, Flushed(g).maxAttributes),
         Roomy(Flushed(g).namespaces, Flushed(g).maxNamespaces)
  PROVE  LET e == EndEvent(g)
             f == Flushed(g)
         IN /\ Matches(e, Len(e.nodes) - 1, TRUE)
            /\ e \in Documents /\ Depth(e) = 0
            /\ Len(e.nodes) = Len(f.nodes) + 1 /\ e.nodes[Len(e.nodes)].level = 0
            /\ \A i \in NodeIdsOf(f) : e.nodes[i] = f.nodes[i] /\ ParentIn(e, i) = ParentIn(f, i)
            /\ e.attributes = Marked(f.attributes, MarkerLabel)
            /\ e.namespaces = Marked(f.namespaces, MarkerLabel)
            /\ e.text = f.text /\ e.textToCreate = f.textToCreate
<1> DEFINE f == Flushed(g)
           e == EndEvent(g)
           N == Len(f.nodes)
           nodes == Append(f.nodes, MarkerNode)
           attributes == Marked(f.attributes, MarkerLabel)
           namespaces == Marked(f.namespaces, MarkerLabel)
           maxN == Grown(N, f.maxNodes)
           maxA == MarkedMax(f.attributes, f.maxAttributes)
           maxS == MarkedMax(f.namespaces, f.maxNamespaces)
<1>1. /\ f \in Documents /\ f.nodes \in Seq(NodeRecords) /\ N \in Nat /\ N > 0 /\ f.nodes # <<>>
      /\ f.maxNodes \in Nat /\ f.attributes \in Seq(LabelRecords) /\ f.namespaces \in Seq(LabelRecords)
      /\ f.maxAttributes \in Nat /\ f.maxNamespaces \in Nat
  BY DocumentFields, NodeFields
<1>2. MarkerNode \in NodeRecords /\ MarkerNode.level = 0
  BY DEF MarkerNode, Node, NodeRecords, Kinds, Values
<1>3. /\ nodes \in Seq(NodeRecords) /\ Len(nodes) = N + 1
      /\ \A i \in 1..N : nodes[i] = f.nodes[i]
      /\ nodes[N + 1] = MarkerNode
  BY <1>1, <1>2, AppendProperties
<1>4. maxN \in Nat /\ N + 1 <= maxN
  BY <1>1 DEF Grown, Fits
<1>5. /\ attributes \in Seq(LabelRecords) /\ Len(f.attributes) <= Len(attributes)
      /\ \A j \in 1..Len(f.attributes) : attributes[j] = f.attributes[j]
      /\ \A j \in 1..Len(attributes) : j > Len(f.attributes) => attributes[j].owner = 0
      /\ Len(f.attributes) = 0 \/ Len(f.attributes) < Len(attributes)
      /\ maxA \in Nat /\ Len(attributes) <= maxA
  BY <1>1, MarkedLabels
<1>6. /\ namespaces \in Seq(LabelRecords) /\ Len(f.namespaces) <= Len(namespaces)
      /\ \A j \in 1..Len(f.namespaces) : namespaces[j] = f.namespaces[j]
      /\ \A j \in 1..Len(namespaces) : j > Len(f.namespaces) => namespaces[j].owner = 0
      /\ Len(f.namespaces) = 0 \/ Len(f.namespaces) < Len(namespaces)
      /\ maxS \in Nat /\ Len(namespaces) <= maxS
  BY <1>1, MarkedLabels
<1>7. Marked(f.nodes, MarkerNode) = nodes /\ MarkedMax(f.nodes, f.maxNodes) = maxN
  BY <1>1 DEF Marked, MarkedMax
<1>8. e = [f EXCEPT !.elementStack = <<>>, !.nodes = Marked(f.nodes, MarkerNode),
                    !.maxNodes = MarkedMax(f.nodes, f.maxNodes),
                    !.attributes = attributes, !.maxAttributes = maxA,
                    !.namespaces = namespaces, !.maxNamespaces = maxS]
  BY DEF EndEvent
<1> HIDE DEF e, f, attributes, namespaces, maxA, maxS, maxN, nodes
<1>9. e = [nodes |-> nodes, maxNodes |-> maxN,
           attributes |-> attributes, maxAttributes |-> maxA,
           namespaces |-> namespaces, maxNamespaces |-> maxS,
           elementStack |-> <<>>, prevNode |-> f.prevNode, text |-> f.text,
           textToCreate |-> f.textToCreate]
  BY <1>1, <1>7, <1>8 DEF Documents
<1>10. e \in Documents
  BY <1>1, <1>3, <1>4, <1>5, <1>6, <1>9, DocumentFields DEF Documents
<1>11. Parented(f) /\ Linked(f) /\ Labelled(f)
  BY DEF f
<1>12. Matches(e, N, TRUE)
  <2>1. \A i \in NodeIdsOf(f) : e.nodes[i] = f.nodes[i]
    BY <1>3, <1>9 DEF NodeIdsOf
  <2>2. Len(e.nodes) = N + 1 /\ N <= N + 1 /\ e.nodes[N + 1].level = 0 /\ Len(e.nodes) <= e.maxNodes
    BY <1>1, <1>2, <1>3, <1>4, <1>9
  <2>3. /\ Len(f.attributes) <= Len(e.attributes)
        /\ \A j \in 1..Len(f.attributes) : e.attributes[j] = f.attributes[j]
        /\ \A j \in 1..Len(e.attributes) : j > Len(f.attributes) => e.attributes[j].owner = 0
        /\ Len(f.attributes) = 0 \/ Len(f.attributes) < Len(e.attributes)
        /\ Len(e.attributes) <= e.maxAttributes
    BY <1>5, <1>9
  <2>4. /\ Len(f.namespaces) <= Len(e.namespaces)
        /\ \A j \in 1..Len(f.namespaces) : e.namespaces[j] = f.namespaces[j]
        /\ \A j \in 1..Len(e.namespaces) : j > Len(f.namespaces) => e.namespaces[j].owner = 0
        /\ Len(f.namespaces) = 0 \/ Len(f.namespaces) < Len(e.namespaces)
        /\ Len(e.namespaces) <= e.maxNamespaces
    BY <1>6, <1>9
  <2> QED
    BY <1>1, <1>10, <1>11, <2>1, <2>2, <2>3, <2>4, StoredMatches
<1>13. \A i \in NodeIdsOf(f) : e.nodes[i] = f.nodes[i] /\ ParentIn(e, i) = ParentIn(f, i)
  <2>1. Len(f.nodes) <= Len(e.nodes) /\ \A i \in NodeIdsOf(f) : e.nodes[i] = f.nodes[i]
    BY <1>1, <1>3, <1>9 DEF NodeIdsOf
  <2> QED
    BY <1>1, <1>10, <1>11, <2>1, ParentKept
<1>14. Depth(e) = 0 /\ Len(e.nodes) = N + 1 /\ Len(e.nodes) - 1 = N /\ e.nodes[Len(e.nodes)].level = 0
  BY <1>1, <1>2, <1>3, <1>9 DEF Depth
<1>15. Matches(e, Len(e.nodes) - 1, TRUE)
  BY <1>12, <1>14
<1>16. /\ e.attributes = Marked(f.attributes, MarkerLabel) /\ e.namespaces = Marked(f.namespaces, MarkerLabel)
       /\ e.text = f.text /\ e.textToCreate = f.textToCreate
  BY <1>9 DEF attributes, namespaces
<1> QED
  BY <1>10, <1>13, <1>14, <1>15, <1>16 DEF e, f

LEMMA BuildingMatches ==
  ASSUME NEW d, Building(d)
  PROVE  Matches(d, Len(d.nodes), FALSE)
<1>1. d \in Documents /\ Parented(d) /\ Linked(d) /\ Labelled(d) /\ Fitting(d) /\ Len(d.nodes) \in Nat
  BY Ready DEF Stores
<1>2. Len(d.attributes) \in Nat /\ Len(d.namespaces) \in Nat
  BY <1>1, DocumentFields, LenProperties
<1>3. /\ Len(d.nodes) <= d.maxNodes /\ Len(d.attributes) <= d.maxAttributes
      /\ Len(d.namespaces) <= d.maxNamespaces
  BY <1>1 DEF Fitting, Fits
<1>4. /\ \A j \in 1..Len(d.attributes) : j > Len(d.attributes) => d.attributes[j].owner = 0
      /\ \A j \in 1..Len(d.namespaces) : j > Len(d.namespaces) => d.namespaces[j].owner = 0
  BY <1>2
<1>5. Len(d.nodes) <= Len(d.nodes) /\ Len(d.attributes) <= Len(d.attributes)
      /\ Len(d.namespaces) <= Len(d.namespaces)
  BY <1>1, <1>2
<1>6. FALSE \in BOOLEAN /\ ~FALSE
  OBVIOUS
<1> QED
  BY <1>1, <1>3, <1>4, <1>5, <1>6, StoredMatches


-----------------------------------------------------------------------------
(***************************************************************************)
(* The outermost event                                                     *)
(***************************************************************************)
LEMMA NothingFlushed ==
  ASSUME NEW d \in Documents, ~d.textToCreate, d.text = <<>>
  PROVE  Flushed(d) = d
<1> DEFINE f == Flushed(d)
<1>1. f = [d EXCEPT !.text = <<>>, !.textToCreate = FALSE]
  BY DEF Flushed, HasText
<1> HIDE DEF f
<1>2. f = d
  BY <1>1 DEF Documents
<1> QED
  BY <1>2 DEF f

LEMMA SmallDocument ==
  ASSUME NEW numNodes \in Nat, NEW numAttributes \in Nat, NEW numNamespaces \in Nat
  PROVE  LET d == NewDocument(numNodes, numAttributes, numNamespaces)
         IN /\ d \in Documents /\ Empty(d) /\ Depth(d) = 0 /\ Top(d) = 0 /\ d.text = <<>>
            /\ Flushed(d) = d
            /\ d.maxNodes = numNodes /\ d.maxAttributes = numAttributes
            /\ d.maxNamespaces = numNamespaces
<1> DEFINE d == NewDocument(numNodes, numAttributes, numNamespaces)
<1>1. d = [nodes |-> <<>>, maxNodes |-> numNodes,
           attributes |-> <<>>, maxAttributes |-> numAttributes,
           namespaces |-> <<>>, maxNamespaces |-> numNamespaces,
           elementStack |-> <<>>, prevNode |-> 0, text |-> <<>>, textToCreate |-> FALSE]
  BY DEF NewDocument
<1> HIDE DEF d
<1>2. d \in Documents
  BY <1>1 DEF Documents
<1>3. Empty(d) /\ Depth(d) = 0 /\ Top(d) = 0 /\ d.text = <<>>
  BY <1>1 DEF Empty, Depth, Top
<1>4. Flushed(d) = d
  BY <1>2, <1>3, NothingFlushed DEF Empty
<1> QED
  BY <1>1, <1>2, <1>3, <1>4 DEF d

\* A document for one node.
LEMMA LoneNode ==
  ASSUME NEW d \in Documents, d.nodes = <<>>, d.attributes = <<>>, d.namespaces = <<>>,
         d.prevNode = 0, d.maxNodes = 1, NEW node \in NodeRecords, node.level = 0,
         node.nextSibling = 0, node.attributes = 0, node.namespaces = 0,
         NEW f \in Documents, f.nodes = Stored(d, node).nodes,
         f.maxNodes = Stored(d, node).maxNodes, f.attributes = <<>>, f.namespaces = <<>>
  PROVE  /\ Parented(f) /\ Linked(f) /\ Labelled(f) /\ Len(f.nodes) = 1
         /\ f.nodes[1] = node /\ ParentIn(f, 1) = 0
         /\ Fits(Len(f.nodes), f.maxNodes)
         /\ Roomy(f.attributes, f.maxAttributes) /\ Roomy(f.namespaces, f.maxNamespaces)
<1>1. Len(d.nodes) = 0 /\ d.prevNode \in 0..Len(d.nodes) /\ Len(d.nodes) + 1 = 1
  OBVIOUS
<1>2. Len(f.nodes) = 1 /\ f.nodes[1] = node /\ f.maxNodes = Grown(0, 1)
  <2> DEFINE e == Stored(d, node)
  <2>1. /\ Len(e.nodes) = Len(d.nodes) + 1 /\ e.nodes[Len(d.nodes) + 1] = node
        /\ e.maxNodes = Grown(Len(d.nodes), d.maxNodes)
    BY <1>1, StoredFields
  <2> HIDE DEF e
  <2>2. Len(e.nodes) = 1 /\ e.nodes[1] = node /\ e.maxNodes = Grown(0, 1)
    BY <1>1, <2>1
  <2> QED
    BY <2>2 DEF e
<1>3. ParentIn(f, 1) = 0
  BY <1>2 DEF ParentIn
<1>4. \A i \in NodeIdsOf(f) : i = 1
  BY <1>2 DEF NodeIdsOf
<1>5. Parented(f)
  BY <1>2, <1>4 DEF Parented
<1>6. Linked(f)
  BY <1>2, <1>3, <1>4 DEF Linked
<1>7. FirstAttributes(f)[1] = 0 /\ FirstNamespaces(f)[1] = 0
  BY <1>2 DEF FirstAttributes, FirstNamespaces, NodeIdsOf
<1>8. Labelled(f)
  BY <1>2, <1>4, <1>7 DEF Labelled, InRuns, NodeIdsOf
<1>9. Fits(Len(f.nodes), f.maxNodes) /\ Roomy(f.attributes, f.maxAttributes) /\ Roomy(f.namespaces, f.maxNamespaces)
  BY <1>2 DEF Fits, Roomy, Grown
<1> QED
  BY <1>2, <1>3, <1>5, <1>6, <1>8, <1>9

\* What is there after an event that makes a document of its own.
Alone(e, k, v) ==
  /\ Matches(e, Len(e.nodes) - 1, TRUE) /\ e \in Documents /\ Depth(e) = 0
  /\ Len(e.nodes) = 2 /\ e.nodes[1].nodeKind = k /\ e.nodes[1].value = v
  /\ e.nodes[1].level = 0 /\ e.nodes[2].level = 0
  /\ ParentIn(e, 1) = 0
  /\ e.attributes = <<>> /\ e.namespaces = <<>>

LEMMA LoneEnd ==
  ASSUME NEW g, Flushed(g) \in Documents, NEW d \in Documents,
         d.nodes = <<>>, d.attributes = <<>>, d.namespaces = <<>>,
         d.prevNode = 0, d.maxNodes = 1, NEW k \in Kinds, NEW v \in Values,
         Flushed(g).nodes = Stored(d, Node(k, 0, v)).nodes,
         Flushed(g).maxNodes = Stored(d, Node(k, 0, v)).maxNodes,
         Flushed(g).attributes = <<>>, Flushed(g).namespaces = <<>>
  PROVE  Alone(EndEvent(g), k, v) /\ EndEvent(g).textToCreate = Flushed(g).textToCreate
<1> DEFINE f == Flushed(g)
           node == Node(k, 0, v)
           e == EndEvent(g)
<1>1. /\ node \in NodeRecords /\ node.level = 0 /\ node.nextSibling = 0
      /\ node.attributes = 0 /\ node.namespaces = 0 /\ node.nodeKind = k /\ node.value = v
  BY DEF Node, NodeRecords
<1> HIDE DEF node
<1>2. /\ Parented(f) /\ Linked(f) /\ Labelled(f) /\ Len(f.nodes) = 1
      /\ f.nodes[1] = node /\ ParentIn(f, 1) = 0
      /\ Fits(Len(f.nodes), f.maxNodes)
      /\ Roomy(f.attributes, f.maxAttributes) /\ Roomy(f.namespaces, f.maxNamespaces)
  BY <1>1, LoneNode DEF node
<1>3. /\ Matches(e, Len(e.nodes) - 1, TRUE) /\ e \in Documents /\ Depth(e) = 0
      /\ Len(e.nodes) = Len(f.nodes) + 1 /\ e.nodes[Len(e.nodes)].level = 0
      /\ \A i \in NodeIdsOf(f) : e.nodes[i] = f.nodes[i] /\ ParentIn(e, i) = ParentIn(f, i)
      /\ e.attributes = Marked(f.attributes, MarkerLabel)
      /\ e.namespaces = Marked(f.namespaces, MarkerLabel)
      /\ e.textToCreate = f.textToCreate
  <2>1. Len(f.nodes) > 0
    BY <1>2
  <2> QED
    BY <1>2, <2>1, EndEventMatches
<1> HIDE DEF e, f
<1>4. 1 \in NodeIdsOf(f) /\ Len(e.nodes) = 2
  BY <1>2, <1>3 DEF NodeIdsOf
<1>5. e.attributes = <<>> /\ e.namespaces = <<>>
  BY <1>3 DEF Marked, f
<1>6. Alone(e, k, v)
  BY <1>1, <1>2, <1>3, <1>4, <1>5 DEF Alone
<1> QED
  BY <1>3, <1>6 DEF e, f

LEMMA PIOrCommentAlone ==
  ASSUME NEW k \in Kinds
  PROVE  LET e == EndEvent(PIOrComment(NewDocument(1, 0, 0), k))
         IN Alone(e, k, <<>>) /\ ~e.textToCreate
<1> DEFINE d == NewDocument(1, 0, 0)
           node == Node(k, 0, <<>>)
           g == PIOrComment(d, k)
<1>1. /\ d \in Documents /\ Empty(d) /\ Depth(d) = 0 /\ d.text = <<>> /\ Flushed(d) = d /\ d.maxNodes = 1
  BY SmallDocument
<1>2. g = Stored(d, node)
  BY <1>1 DEF PIOrComment
<1> HIDE DEF d, g
<1>3. node \in NodeRecords /\ <<>> \in Values
  BY DEF Node, NodeRecords, Values
<1> HIDE DEF node
<1>4. /\ g \in Documents /\ g.attributes = <<>> /\ g.namespaces = <<>>
      /\ ~g.textToCreate /\ g.text = <<>>
  BY <1>1, <1>2, <1>3, StoredFields DEF Empty
<1>5. Flushed(g) = g
  BY <1>4, NothingFlushed
<1>6. Alone(EndEvent(g), k, <<>>) /\ EndEvent(g).textToCreate = Flushed(g).textToCreate
  BY <1>1, <1>2, <1>3, <1>4, <1>5, LoneEnd DEF node, Empty
<1> QED
  BY <1>4, <1>5, <1>6 DEF g, d

LEMMA TextAlone ==
  ASSUME NEW c \in Seq(STRING)
  PROVE  LET e == EndEvent(Text(NewDocument(1, 0, 0), c))
         IN Alone(e, "text", c) /\ ~e.textToCreate
<1> DEFINE d == NewDocument(1, 0, 0)
           t == Text(d, c)
           node == Node("text", 0, c)
           s == Stored(t, node)
           f == Flushed(t)
<1>1. /\ d \in Documents /\ Empty(d) /\ Depth(d) = 0 /\ d.text = <<>> /\ d.maxNodes = 1
  BY SmallDocument
<1>2. t = [d EXCEPT !.text = c, !.textToCreate = TRUE]
  <2>1. <<>> \o c = c
    OBVIOUS
  <2> QED
    BY <1>1, <2>1 DEF Text
<1> HIDE DEF d, t
<1>3. t = [nodes |-> d.nodes, maxNodes |-> d.maxNodes,
           attributes |-> d.attributes, maxAttributes |-> d.maxAttributes,
           namespaces |-> d.namespaces, maxNamespaces |-> d.maxNamespaces,
           elementStack |-> d.elementStack, prevNode |-> d.prevNode, text |-> c, textToCreate |-> TRUE]
  BY <1>1, <1>2 DEF Documents
<1>4. t \in Documents
  BY <1>1, <1>3, DocumentFields DEF Documents
<1>5. /\ t.nodes = <<>> /\ t.attributes = <<>> /\ t.namespaces = <<>> /\ t.prevNode = 0 /\ t.maxNodes = 1
      /\ t.textToCreate /\ t.text = c /\ Depth(t) = 0
  BY <1>1, <1>3 DEF Empty, Depth
<1>6. f = [s EXCEPT !.text = <<>>, !.textToCreate = FALSE]
  BY <1>5 DEF Flushed, HasText
<1>7. node \in NodeRecords /\ c \in Values /\ "text" \in Kinds
  BY DEF Node, NodeRecords, Values, Kinds
<1> HIDE DEF node
<1>8. s \in Documents /\ s.attributes = <<>> /\ s.namespaces = <<>>
  BY <1>4, <1>5, <1>7, StoredFields
<1> HIDE DEF s, f
<1>9. f = [nodes |-> s.nodes, maxNodes |-> s.maxNodes,
           attributes |-> s.attributes, maxAttributes |-> s.maxAttributes,
           namespaces |-> s.namespaces, maxNamespaces |-> s.maxNamespaces,
           elementStack |-> s.elementStack, prevNode |-> s.prevNode, text |-> <<>>, textToCreate |-> FALSE]
  BY <1>6, <1>8 DEF Documents
<1>10. f \in Documents
  BY <1>8, <1>9, DocumentFields DEF Documents
<1>11. /\ f.nodes = s.nodes /\ f.maxNodes = s.maxNodes /\ f.attributes = <<>> /\ f.namespaces = <<>>
       /\ f.textToCreate = FALSE
  BY <1>8, <1>9
<1>12. Alone(EndEvent(t), "text", c) /\ EndEvent(t).textToCreate = Flushed(t).textToCreate
  BY <1>4, <1>5, <1>7, <1>10, <1>11, LoneEnd DEF node, s, f
<1> QED
  BY <1>11, <1>12 DEF t, d, f


LEMMA AttributeAlone ==
  ASSUME NEW n \in AttributeNames
  PROVE  LET e == EndEvent(Attribute(NewDocument(0, 1, 0), n))
         IN /\ Matches(e, 0, FALSE) /\ Depth(e) = 0 /\ e.nodes = <<>>
            /\ e.attributes = Append(Append(<<>>, Label(0, n)), MarkerLabel) /\ e.namespaces = <<>>
            /\ ~e.textToCreate
<1> DEFINE d == NewDocument(0, 1, 0)
           g == Attribute(d, n)
           e == EndEvent(g)
           labels == Append(<<>>, Label(0, n))
           marked == Append(labels, MarkerLabel)
<1>1. /\ d \in Documents /\ Empty(d) /\ Depth(d) = 0 /\ Top(d) = 0 /\ d.text = <<>>
      /\ d.maxAttributes = 1 /\ d.maxNodes = 0 /\ d.maxNamespaces = 0
  BY SmallDocument
<1>2. labels \in Seq(LabelRecords) /\ Len(labels) = 1 /\ labels # <<>>
  <2>1. Label(0, n) \in LabelRecords /\ <<>> \in Seq(LabelRecords) /\ Len(<<>>) = 0
    BY DEF Label, LabelRecords
  <2>2. labels \in Seq(LabelRecords) /\ Len(labels) = 0 + 1
    BY <2>1, AppendProperties
  <2> QED
    BY <2>2, EmptySeq
<1>3. g = [nodes |-> d.nodes, maxNodes |-> d.maxNodes,
           attributes |-> labels, maxAttributes |-> 1,
           namespaces |-> d.namespaces, maxNamespaces |-> d.maxNamespaces,
           elementStack |-> d.elementStack, prevNode |-> d.prevNode, text |-> d.text,
           textToCreate |-> d.textToCreate]
  <2> HIDE DEF d
  <2>1. d.attributes = <<>> /\ Top(d) = 0 /\ d.maxAttributes = 1
    BY <1>1 DEF Empty
  <2>3. Append(d.attributes, Label(Top(d), n)) = labels
    BY <2>1
  <2>4. Grown(Len(d.attributes), d.maxAttributes) = 1
    BY <2>1 DEF Grown
  <2> HIDE DEF labels
  <2>2. g = [d EXCEPT !.attributes = Append(d.attributes, Label(Top(d), n)),
                      !.maxAttributes = Grown(Len(d.attributes), d.maxAttributes),
                      !.nodes = d.nodes]
    BY <1>1 DEF Attribute
  <2> HIDE DEF g
  <2> QED
    BY <1>1, <2>2, <2>3, <2>4 DEF Documents
<1> HIDE DEF d, g
<1> HIDE DEF labels
<1>5. g \in Documents
  BY <1>1, <1>3, <1>2, DocumentFields DEF Documents
<1>6. Flushed(g) = g
  BY <1>1, <1>3, <1>5, NothingFlushed DEF Empty
<1>7. /\ Marked(g.nodes, MarkerNode) = <<>> /\ MarkedMax(g.nodes, g.maxNodes) = 0
      /\ Marked(g.attributes, MarkerLabel) = marked /\ MarkedMax(g.attributes, g.maxAttributes) = 2
      /\ Marked(g.namespaces, MarkerLabel) = <<>> /\ MarkedMax(g.namespaces, g.maxNamespaces) = 0
  BY <1>1, <1>3, <1>2 DEF Marked, MarkedMax, Grown, Empty
<1>8. e = [g EXCEPT !.elementStack = <<>>, !.nodes = <<>>, !.maxNodes = 0,
                    !.attributes = marked, !.maxAttributes = 2,
                    !.namespaces = <<>>, !.maxNamespaces = 0]
  BY <1>6, <1>7 DEF EndEvent
<1> HIDE DEF e
<1>9. e = [nodes |-> <<>>, maxNodes |-> 0, attributes |-> marked, maxAttributes |-> 2,
           namespaces |-> <<>>, maxNamespaces |-> 0, elementStack |-> <<>>,
           prevNode |-> g.prevNode, text |-> g.text, textToCreate |-> g.textToCreate]
  BY <1>5, <1>8 DEF Documents
<1>10. Len(marked) = 2
  <2>1. MarkerLabel \in LabelRecords
    BY DEF MarkerLabel, Label, LabelRecords
  <2>2. Len(marked) = Len(labels) + 1
    BY <1>2, <2>1, AppendProperties
  <2> QED
    BY <1>2, <2>2
<1>11. Matches(e, 0, FALSE)
  BY <1>9, <1>10 DEF Matches
<1>12. Depth(e) = 0 /\ e.nodes = <<>> /\ e.attributes = marked /\ e.namespaces = <<>> /\ ~e.textToCreate
  BY <1>1, <1>3, <1>9 DEF Depth, Empty
<1> QED
  BY <1>11, <1>12 DEF e, g, d, labels

\* The end of the outermost container.
LEMMA ContainerEnds ==
  ASSUME NEW d, Building(d), Depth(d) = 1
  PROVE  LET e == EndEvent(EndContainer(d))
             f == Flushed(d)
         IN /\ Matches(e, Len(e.nodes) - 1, TRUE) /\ e \in Documents /\ Depth(e) = 0
            /\ Len(e.nodes) = Len(f.nodes) + 1 /\ e.nodes[Len(e.nodes)].level = 0
            /\ \A i \in NodeIdsOf(f) : e.nodes[i] = f.nodes[i] /\ ParentIn(e, i) = ParentIn(f, i)
            /\ e.attributes = Marked(d.attributes, MarkerLabel)
            /\ e.namespaces = Marked(d.namespaces, MarkerLabel)
            /\ ~e.textToCreate
<1> DEFINE f == Flushed(d)
           g == EndContainer(d)
           e == EndEvent(g)
<1>1. /\ Stores(g) /\ ~g.textToCreate /\ g.text = <<>> /\ Len(g.nodes) > 0
      /\ g.nodes = f.nodes /\ g.attributes = d.attributes /\ g.namespaces = d.namespaces
  BY EndContainerBuilding
<1>2. /\ g \in Documents /\ Parented(g) /\ Linked(g) /\ Labelled(g)
      /\ Fits(Len(g.nodes), g.maxNodes)
      /\ Roomy(g.attributes, g.maxAttributes) /\ Roomy(g.namespaces, g.maxNamespaces)
  BY <1>1 DEF Stores, Fitting, Roomy
<1> HIDE DEF g
<1>3. Flushed(g) = g
  BY <1>1, <1>2, NothingFlushed
<1>4. /\ Matches(e, Len(e.nodes) - 1, TRUE) /\ e \in Documents /\ Depth(e) = 0
      /\ Len(e.nodes) = Len(g.nodes) + 1 /\ e.nodes[Len(e.nodes)].level = 0
      /\ \A i \in NodeIdsOf(g) : e.nodes[i] = g.nodes[i] /\ ParentIn(e, i) = ParentIn(g, i)
      /\ e.attributes = Marked(g.attributes, MarkerLabel)
      /\ e.namespaces = Marked(g.namespaces, MarkerLabel)
      /\ e.textToCreate = g.textToCreate
  <2>1. /\ Flushed(g) \in Documents /\ Parented(Flushed(g)) /\ Linked(Flushed(g))
        /\ Labelled(Flushed(g)) /\ Len(Flushed(g).nodes) > 0
        /\ Fits(Len(Flushed(g).nodes), Flushed(g).maxNodes)
        /\ Roomy(Flushed(g).attributes, Flushed(g).maxAttributes)
        /\ Roomy(Flushed(g).namespaces, Flushed(g).maxNamespaces)
    BY <1>1, <1>2, <1>3
  <2> HIDE DEF e, f
  <2>2. /\ Matches(EndEvent(g), Len(EndEvent(g).nodes) - 1, TRUE)
        /\ EndEvent(g) \in Documents /\ Depth(EndEvent(g)) = 0
        /\ Len(EndEvent(g).nodes) = Len(Flushed(g).nodes) + 1
        /\ EndEvent(g).nodes[Len(EndEvent(g).nodes)].level = 0
        /\ \A i \in NodeIdsOf(Flushed(g)) : /\ EndEvent(g).nodes[i] = Flushed(g).nodes[i]
                                            /\ ParentIn(EndEvent(g), i) = ParentIn(Flushed(g), i)
        /\ EndEvent(g).attributes = Marked(Flushed(g).attributes, MarkerLabel)
        /\ EndEvent(g).namespaces = Marked(Flushed(g).namespaces, MarkerLabel)
        /\ EndEvent(g).textToCreate = Flushed(g).textToCreate
    BY <2>1, EndEventMatches
  <2> QED
    BY <1>3, <2>2 DEF e
<1>5. \A i \in NodeIdsOf(f) : ParentIn(g, i) = ParentIn(f, i)
  BY <1>1 DEF ParentIn
<1> HIDE DEF e, f
<1> QED
  BY <1>1, <1>4, <1>5 DEF NodeIdsOf, e, f, g


-----------------------------------------------------------------------------
(***************************************************************************)
(* The invariant                                                           *)
(***************************************************************************)
LEMMA InitInvariant == Init => IInv
<1> SUFFICES ASSUME Init PROVE IInv
  OBVIOUS
<1>1. /\ InitialNodes \in Nat /\ InitialAttributes \in Nat /\ InitialNamespaces \in Nat
      /\ InitialNodes >= 1 /\ InitialAttributes >= 1 /\ InitialNamespaces >= 1
  BY CapacityAssumption
<1>2. doc = NewDocument(InitialNodes, InitialAttributes, InitialNamespaces)
  BY DEF Init
<1>3. /\ doc \in Documents /\ Empty(doc) /\ Depth(doc) = 0 /\ doc.text = <<>>
      /\ doc.maxNodes = InitialNodes /\ doc.maxAttributes = InitialAttributes
      /\ doc.maxNamespaces = InitialNamespaces
  BY <1>1, <1>2, SmallDocument
<1>4. Len(doc.nodes) = 0 /\ Len(doc.attributes) = 0 /\ Len(doc.namespaces) = 0
  BY <1>3 DEF Empty
<1>5. Parented(doc) /\ Linked(doc) /\ Stacked(doc)
  BY <1>3, <1>4 DEF Parented, Linked, Stacked, NodeIdsOf
<1>6. Labelled(doc)
  BY <1>4 DEF Labelled, InRuns
<1>7. Fitting(doc)
  BY <1>1, <1>3, <1>4 DEF Fitting, Fits
<1>8. Building(doc)
  BY <1>3, <1>5, <1>6, <1>7 DEF Building, Stores
<1>9. level = 0 /\ seenContent \in BOOLEAN /\ item = "none"
  BY DEF Init
<1> QED
  BY <1>3, <1>8, <1>9 DEF IInv

LEMMA InvariantKept ==
  ASSUME item' = "none", Building(doc'), Depth(doc') = level', level' \in Nat, seenContent' \in BOOLEAN,
         level' > 0 /\ ~seenContent' => Top(doc') = Len(doc'.nodes) /\ ~doc'.textToCreate
  PROVE  IInv'
  BY DEF IInv, AtStartTag

LEMMA InvariantReached ==
  ASSUME item' \in {"node", "attribute"}, level' \in Nat, seenContent' \in BOOLEAN, Depth(doc') = level',
         Matches(doc', Len(doc'.nodes) - (IF item' = "node" THEN 1 ELSE 0), item' = "node")
  PROVE  IInv'
  BY DEF IInv, Size, Finished

LEMMA StartDocumentInvariant ==
  ASSUME IInv, StartDocumentEvent PROVE IInv'
<1>1. Building(doc) /\ Depth(doc) = 0
  BY DEF IInv, StartDocumentEvent, Accepting
<1>2. doc' = StartDocument(doc) /\ item' = "none" /\ level' = 1 /\ seenContent' = TRUE
  BY DEF StartDocumentEvent, Accepting, Continue
<1>3. Building(doc') /\ Depth(doc') = 1
  BY <1>1, <1>2, StartDocumentBuilding
<1> QED
  BY <1>2, <1>3, InvariantKept

LEMMA StartElementInvariant ==
  ASSUME IInv, NEW n \in ElementNames, StartElementEvent(n) PROVE IInv'
<1>1. Building(doc) /\ Depth(doc) = level /\ level \in Nat
  BY DEF IInv, StartElementEvent, Accepting
<1>2. doc' = StartElement(doc, n) /\ item' = "none" /\ level' = level + 1 /\ seenContent' = FALSE
  BY DEF StartElementEvent, Accepting, Continue
<1>3. /\ Building(doc') /\ Depth(doc') = Depth(doc) + 1
      /\ Top(doc') = Len(doc'.nodes) /\ ~doc'.textToCreate
  BY <1>1, <1>2, StartElementBuilding
<1>4. level' \in Nat /\ Depth(doc') = level'
  BY <1>1, <1>2, <1>3
<1> QED
  BY <1>2, <1>3, <1>4, InvariantKept

LEMMA EndContainerInvariant ==
  ASSUME IInv, EndContainerEvent PROVE IInv'
<1>1. Building(doc) /\ Depth(doc) = level /\ level \in Nat /\ level > 0
  BY DEF IInv, EndContainerEvent, Accepting
<1>2. level' = level - 1 /\ seenContent' = TRUE /\ level' \in Nat
  BY <1>1 DEF EndContainerEvent
<1>3. CASE level = 1
  <2>1. doc' = EndEvent(EndContainer(doc)) /\ item' = "node"
    BY <1>3 DEF EndContainerEvent, Finish
  <2>2. Matches(doc', Len(doc'.nodes) - 1, TRUE) /\ Depth(doc') = level'
    <3> DEFINE e == EndEvent(EndContainer(doc))
    <3>1. Matches(e, Len(e.nodes) - 1, TRUE) /\ Depth(e) = 0
      BY <1>1, <1>3, ContainerEnds
    <3> HIDE DEF e
    <3>2. doc' = e /\ level' = 0
      BY <1>2, <1>3, <2>1 DEF e
    <3> QED
      BY <3>1, <3>2
  <2> QED
    BY <1>2, <2>1, <2>2, InvariantReached
<1>4. CASE level # 1
  <2>1. doc' = EndContainer(doc) /\ item' = "none"
    BY <1>4 DEF EndContainerEvent, Continue, Accepting
  <2>2. Building(doc') /\ Depth(doc') = level'
    BY <1>1, <1>2, <1>4, <2>1, EndContainerBuilding
  <2> QED
    BY <1>2, <2>1, <2>2, InvariantKept
<1> QED
  BY <1>3, <1>4

LEMMA LeafKinds == \A k \in Leaves : k \in Kinds
  BY LeavesAssumption DEF Kinds

LEMMA PIOrCommentInvariant ==
  ASSUME IInv, NEW k \in Leaves, PIOrCommentEvent(k) PROVE IInv'
<1>1. Building(doc) /\ Depth(doc) = level /\ level \in Nat
  BY DEF IInv, PIOrCommentEvent, Accepting
<1>2. level' = level /\ seenContent' = TRUE
  BY DEF PIOrCommentEvent
<1>3. CASE level = 0
  <2>1. doc' = EndEvent(PIOrComment(NewDocument(1, 0, 0), k)) /\ item' = "node"
    BY <1>3 DEF PIOrCommentEvent, Finish
  <2>2. Matches(doc', Len(doc'.nodes) - 1, TRUE) /\ Depth(doc') = level'
    BY <1>2, <1>3, <2>1, LeafKinds, PIOrCommentAlone DEF Alone
  <2> QED
    BY <1>1, <1>2, <2>1, <2>2, InvariantReached
<1>4. CASE level # 0
  <2>1. doc' = PIOrComment(doc, k) /\ item' = "none"
    BY <1>4 DEF PIOrCommentEvent, Continue, Accepting
  <2>2. Building(doc') /\ Depth(doc') = level'
    BY <1>1, <1>2, <1>4, <2>1, LeafKinds, PIOrCommentBuilding
  <2> QED
    BY <1>1, <1>2, <2>1, <2>2, InvariantKept
<1> QED
  BY <1>3, <1>4

LEMMA TextInvariant ==
  ASSUME IInv, NEW c \in Chunks, TextEvent(c) PROVE IInv'
<1>1. Building(doc) /\ Depth(doc) = level /\ level \in Nat /\ c \in Seq(STRING)
  BY ChunksAssumption DEF IInv, TextEvent, Accepting
<1>2. level' = level /\ seenContent' = TRUE
  BY DEF TextEvent
<1>3. CASE level = 0
  <2>1. doc' = EndEvent(Text(NewDocument(1, 0, 0), c)) /\ item' = "node"
    BY <1>3 DEF TextEvent, Finish
  <2>2. Matches(doc', Len(doc'.nodes) - 1, TRUE) /\ Depth(doc') = level'
    BY <1>1, <1>2, <1>3, <2>1, TextAlone DEF Alone
  <2> QED
    BY <1>1, <1>2, <2>1, <2>2, InvariantReached
<1>4. CASE level # 0
  <2>1. doc' = Text(doc, c) /\ item' = "none"
    BY <1>4 DEF TextEvent, Continue, Accepting
  <2>2. Building(doc') /\ Depth(doc') = level'
    BY <1>1, <1>2, <1>4, <2>1, TextBuilding
  <2> QED
    BY <1>1, <1>2, <2>1, <2>2, InvariantKept
<1> QED
  BY <1>3, <1>4

LEMMA AttributeInvariant ==
  ASSUME IInv, NEW n \in AttributeNames, AttributeEvent(n) PROVE IInv'
<1>1. Building(doc) /\ Depth(doc) = level /\ level \in Nat /\ seenContent \in BOOLEAN
  BY DEF IInv, AttributeEvent, Accepting
<1>2. level' = level /\ seenContent' = seenContent
  BY DEF AttributeEvent
<1>3. CASE level = 0
  <2>1. doc' = EndEvent(Attribute(NewDocument(0, 1, 0), n)) /\ item' = "attribute"
    BY <1>3 DEF AttributeEvent, Finish
  <2>2. Matches(doc', 0, FALSE) /\ Depth(doc') = level' /\ doc'.nodes = <<>>
    BY <1>2, <1>3, <2>1, AttributeAlone
  <2>3. Matches(doc', Len(doc'.nodes) - (IF item' = "node" THEN 1 ELSE 0), item' = "node")
    <3>1. (item' = "node") = FALSE
      BY <2>1
    <3>2. Len(doc'.nodes) - (IF item' = "node" THEN 1 ELSE 0) = 0
      BY <2>1, <2>2
    <3> QED
      BY <2>2, <3>1, <3>2
  <2> QED
    BY <1>1, <1>2, <2>1, <2>2, <2>3, InvariantReached
<1>4. CASE level # 0
  <2>1. doc' = Attribute(doc, n) /\ item' = "none" /\ ~seenContent
    BY <1>1, <1>4 DEF AttributeEvent, Continue, Accepting, AttributeAllowed
  <2>2. Top(doc) = Len(doc.nodes) /\ ~doc.textToCreate
    BY <1>1, <1>4, <2>1 DEF IInv, AtStartTag, AttributeEvent, Accepting
  <2>3. /\ Building(doc') /\ Depth(doc') = level'
        /\ Top(doc') = Len(doc'.nodes) /\ ~doc'.textToCreate
    BY <1>1, <1>2, <1>4, <2>1, <2>2, AttributeBuilding
  <2> QED
    BY <1>1, <1>2, <2>1, <2>3, InvariantKept
<1> QED
  BY <1>3, <1>4

LEMMA NamespaceInvariant ==
  ASSUME IInv, NEW n \in Declarations, NamespaceEvent(n) PROVE IInv'
<1>1. Building(doc) /\ Depth(doc) = level /\ level \in Nat /\ seenContent \in BOOLEAN /\ level > 0
  BY DEF IInv, NamespaceEvent, Accepting
<1>2. level' = level /\ seenContent' = seenContent
  BY DEF NamespaceEvent
<1>3. doc' = Namespace(doc, n) /\ item' = "none" /\ ~seenContent
  BY DEF NamespaceEvent, Continue, Accepting, NamespaceAllowed
<1>4. Top(doc) = Len(doc.nodes) /\ ~doc.textToCreate
  BY <1>1, <1>3 DEF IInv, AtStartTag, NamespaceEvent, Accepting
<1>5. /\ Building(doc') /\ Depth(doc') = level'
      /\ Top(doc') = Len(doc'.nodes) /\ ~doc'.textToCreate
  BY <1>1, <1>2, <1>3, <1>4, NamespaceBuilding
<1> QED
  BY <1>1, <1>2, <1>3, <1>5, InvariantKept

LEMMA NextInvariant == IInv /\ [Next]_vars => IInv'
<1> SUFFICES ASSUME IInv, [Next]_vars PROVE IInv'
  OBVIOUS
<1>1. CASE StartDocumentEvent
  BY <1>1, StartDocumentInvariant
<1>2. CASE \E n \in ElementNames : StartElementEvent(n)
  BY <1>2, StartElementInvariant
<1>3. CASE EndContainerEvent
  BY <1>3, EndContainerInvariant
<1>4. CASE \E k \in Leaves : PIOrCommentEvent(k)
  BY <1>4, PIOrCommentInvariant
<1>5. CASE \E c \in Chunks : TextEvent(c)
  BY <1>5, TextInvariant
<1>6. CASE \E n \in AttributeNames : AttributeEvent(n)
  BY <1>6, AttributeInvariant
<1>7. CASE \E n \in Declarations : NamespaceEvent(n)
  BY <1>7, NamespaceInvariant
<1>8. CASE UNCHANGED vars
  BY <1>8 DEF vars, IInv, AtStartTag, Size, Finished
<1> QED
  BY <1>1, <1>2, <1>3, <1>4, <1>5, <1>6, <1>7, <1>8 DEF Next

LEMMA InvariantMatches == IInv => LinksMatchTree
<1> SUFFICES ASSUME IInv PROVE LinksMatchTree
  OBVIOUS
<1>1. Matches(doc, Size, Finished) /\ Depth(doc) = level
  <2>1. CASE item = "none"
    <3>1. Building(doc) /\ Depth(doc) = level /\ Len(doc.nodes) \in Nat
      BY <2>1, Ready DEF IInv
    <3>2. Size = Len(doc.nodes) /\ Finished = FALSE
      BY <2>1, <3>1 DEF Size, Finished
    <3> QED
      BY <3>1, <3>2, BuildingMatches
  <2>2. CASE item # "none"
    BY <2>2 DEF IInv
  <2> QED
    BY <2>1, <2>2
<1>2. WalksEnd
  BY <1>1 DEF Matches, WalksEnd, WalkEnds, AttributesOf, NamespacesOf, NodeIds
<1>3. StaysInside
  BY <1>1, <1>2 DEF Matches, StaysInside
<1> QED
  BY <1>1, <1>3 DEF Matches, SiblingsMatch, Owned, LinksMatchTree, AttributesOf, NamespacesOf,
                    NodeIds, GetParent

\* The invariant of a document that is built, event by event.
THEOREM DocumentInvariance == Spec => []IInv
<1>1. Init => IInv
  BY InitInvariant
<1>2. IInv /\ [Next]_vars => IInv'
  BY NextInvariant
<1> QED
  BY <1>1, <1>2, PTL DEF Spec

\* After any events, and in the finished document, the links and the labels are
\* those of the tree that the levels describe, no array is written past its end
\* and no walk leaves one.
THEOREM LinksMatchTreeAlways == Spec => []LinksMatchTree
  BY DocumentInvariance, InvariantMatches, PTL


-----------------------------------------------------------------------------
(***************************************************************************)
(* The tree that is stored                                                 *)
(***************************************************************************)
\* Text joins the text before it because text that follows text is never stored
\* apart: the last node is not a text of the innermost container, and no
\* container is a text.
ContainersAreNoTexts(d) ==
  \A k \in 1..Depth(d) : d.nodes[d.elementStack[k]].nodeKind # "text"

TextWaits(d) ==
  /\ ContainersAreNoTexts(d)
  /\ Depth(d) > 0 /\ d.nodes[Len(d.nodes)].nodeKind = "text" =>
       ParentIn(d, Len(d.nodes)) # Top(d)

TInv == IInv /\ (item = "none" => TextWaits(doc))

KindsOf(d) == [i \in NodeIdsOf(d) |-> d.nodes[i].nodeKind]
ParentsOf(d) == [i \in NodeIdsOf(d) |-> ParentIn(d, i)]
ValuesOf(d) == [i \in NodeIdsOf(d) |-> d.nodes[i].value]


LEMMA LongerColumn ==
  ASSUME NEW n \in Nat, NEW S, NEW c \in [1..n -> S], NEW e \in [1..n + 1 -> S],
         \A i \in 1..n : e[i] = c[i]
  PROVE  e = Append(c, e[n + 1])
<1>1. n + 1 \in 1..n + 1 /\ n + 1 \in Nat
  OBVIOUS
<1>2. c \in Seq(S) /\ e \in Seq(S)
  BY <1>1, SeqDef
<1>3. Len(c) = n /\ Len(e) = n + 1
  BY <1>1, <1>2, LenProperties
<1>4. e[n + 1] \in S
  BY <1>1
<1>5. /\ Append(c, e[n + 1]) \in Seq(S) /\ Len(Append(c, e[n + 1])) = n + 1
      /\ \A i \in 1..n : Append(c, e[n + 1])[i] = c[i]
      /\ Append(c, e[n + 1])[n + 1] = e[n + 1]
  BY <1>2, <1>3, <1>4, AppendProperties
<1>6. \A i \in 1..n + 1 : e[i] = Append(c, e[n + 1])[i]
  BY <1>5
<1> QED
  BY <1>2, <1>3, <1>5, <1>6, SeqEqual

\* The columns of a document with one node more.
LEMMA LongerColumns ==
  ASSUME NEW f, NEW g, Len(f.nodes) \in Nat, Len(g.nodes) = Len(f.nodes) + 1,
         \A i \in NodeIdsOf(f) : /\ g.nodes[i].nodeKind = f.nodes[i].nodeKind
                                 /\ g.nodes[i].value = f.nodes[i].value
                                 /\ ParentIn(g, i) = ParentIn(f, i)
  PROVE  LET n == Len(f.nodes) + 1
         IN /\ KindsOf(g) = Append(KindsOf(f), g.nodes[n].nodeKind)
            /\ ParentsOf(g) = Append(ParentsOf(f), ParentIn(g, n))
            /\ ValuesOf(g) = Append(ValuesOf(f), g.nodes[n].value)
<1> DEFINE N == Len(f.nodes)
<1>1. N \in Nat /\ NodeIdsOf(f) = 1..N /\ NodeIdsOf(g) = 1..N + 1
      /\ N + 1 \in 1..N + 1 /\ \A i \in 1..N : i \in 1..N + 1
  BY DEF NodeIdsOf
<1> HIDE DEF N
<1>2. KindsOf(g) = Append(KindsOf(f), KindsOf(g)[N + 1])
  <2> DEFINE S == {KindsOf(g)[i] : i \in 1..N + 1}
  <2>1. /\ KindsOf(f) \in [1..N -> S] /\ KindsOf(g) \in [1..N + 1 -> S]
        /\ \A i \in 1..N : KindsOf(g)[i] = KindsOf(f)[i]
    BY <1>1 DEF KindsOf
  <2> HIDE DEF S
  <2> QED
    BY <1>1, <2>1, LongerColumn
<1>3. ParentsOf(g) = Append(ParentsOf(f), ParentsOf(g)[N + 1])
  <2> DEFINE S == {ParentsOf(g)[i] : i \in 1..N + 1}
  <2>1. /\ ParentsOf(f) \in [1..N -> S] /\ ParentsOf(g) \in [1..N + 1 -> S]
        /\ \A i \in 1..N : ParentsOf(g)[i] = ParentsOf(f)[i]
    BY <1>1 DEF ParentsOf
  <2> HIDE DEF S
  <2> QED
    BY <1>1, <2>1, LongerColumn
<1>4. ValuesOf(g) = Append(ValuesOf(f), ValuesOf(g)[N + 1])
  <2> DEFINE S == {ValuesOf(g)[i] : i \in 1..N + 1}
  <2>1. /\ ValuesOf(f) \in [1..N -> S] /\ ValuesOf(g) \in [1..N + 1 -> S]
        /\ \A i \in 1..N : ValuesOf(g)[i] = ValuesOf(f)[i]
    BY <1>1 DEF ValuesOf
  <2> HIDE DEF S
  <2> QED
    BY <1>1, <2>1, LongerColumn
<1>5. /\ KindsOf(g)[N + 1] = g.nodes[N + 1].nodeKind /\ ParentsOf(g)[N + 1] = ParentIn(g, N + 1)
      /\ ValuesOf(g)[N + 1] = g.nodes[N + 1].value
  BY <1>1 DEF KindsOf, ParentsOf, ValuesOf
<1> QED
  BY <1>2, <1>3, <1>4, <1>5 DEF N

LEMMA SameColumns ==
  ASSUME NEW f, NEW g, Len(g.nodes) = Len(f.nodes),
         \A i \in NodeIdsOf(f) : /\ g.nodes[i].nodeKind = f.nodes[i].nodeKind
                                 /\ g.nodes[i].value = f.nodes[i].value
                                 /\ ParentIn(g, i) = ParentIn(f, i)
  PROVE  KindsOf(g) = KindsOf(f) /\ ParentsOf(g) = ParentsOf(f) /\ ValuesOf(g) = ValuesOf(f)
<1>1. NodeIdsOf(g) = NodeIdsOf(f)
  BY DEF NodeIdsOf
<1> QED
  BY <1>1 DEF KindsOf, ParentsOf, ValuesOf

\* A column with the text that waits.
WaitingOf(d) == IF d.textToCreate /\ d.text # <<>> THEN <<d.text>> ELSE <<>>
TailOf(d, x) == [i \in DOMAIN WaitingOf(d) |-> x]

LEMMA WaitingColumn ==
  ASSUME NEW d, NEW n \in Nat, NEW S, NEW c \in [1..n -> S], NEW x
  PROVE  c \o TailOf(d, x) =
           IF d.textToCreate /\ d.text # <<>> THEN Append(c, x) ELSE c
<1> DEFINE T == S \union {x}
<1>1. x \in T
  OBVIOUS
<1>2. c \in [1..n -> T]
  OBVIOUS
<1> HIDE DEF T
<1>3. c \in Seq(T)
  BY <1>2, SeqDef
<1>4. CASE d.textToCreate /\ d.text # <<>>
  <2>1. WaitingOf(d) = <<d.text>>
    BY <1>4 DEF WaitingOf
  <2>2. DOMAIN <<d.text>> = 1..1
    OBVIOUS
  <2>3. [i \in 1..1 |-> x] = <<x>>
    OBVIOUS
  <2>4. Append(c, x) = c \o <<x>>
    BY <1>1, <1>3, AppendIsConcat
  <2> QED
    BY <1>4, <2>1, <2>2, <2>3, <2>4 DEF TailOf
<1>5. CASE ~(d.textToCreate /\ d.text # <<>>)
  <2>1. WaitingOf(d) = <<>>
    BY <1>5 DEF WaitingOf
  <2>2. [i \in DOMAIN <<>> |-> x] = <<>>
    OBVIOUS
  <2>3. c \o <<>> = c
    BY <1>3, ConcatEmptySeq
  <2> QED
    BY <1>5, <2>1, <2>2, <2>3 DEF TailOf
<1> QED
  BY <1>4, <1>5


\* What the macro stores.
LEMMA FlushedNodes ==
  ASSUME NEW d, Building(d)
  PROVE  LET f == Flushed(d)
             node == Node("text", Depth(d), d.text)
         IN /\ ~(d.textToCreate /\ d.text # <<>>) => f.nodes = d.nodes
            /\ d.textToCreate /\ d.text # <<>> =>
                 /\ Depth(d) > 0
                 /\ f.nodes = Stored(d, node).nodes
                 /\ Len(f.nodes) = Len(d.nodes) + 1 /\ f.nodes[Len(d.nodes) + 1] = node
                 /\ \A i \in NodeIdsOf(d) : /\ f.nodes[i].nodeKind = d.nodes[i].nodeKind
                                            /\ f.nodes[i].value = d.nodes[i].value
                                            /\ ParentIn(f, i) = ParentIn(d, i)
                 /\ ParentIn(f, Len(d.nodes) + 1) = Top(d)
<1> DEFINE f == Flushed(d)
           node == Node("text", Depth(d), d.text)
           x == Stored(d, node)
<1>1. /\ d \in Documents /\ Stores(d) /\ Stacked(d) /\ d.prevNode \in 0..Len(d.nodes)
      /\ Len(d.nodes) \in Nat /\ Depth(d) \in Nat
      /\ IF Depth(d) = 0 THEN Len(d.nodes) = 0 /\ d.prevNode = 0 ELSE Previous(d)
  BY Ready
<1>2. Depth(d) = 0 => ~d.textToCreate
  BY DEF Building, Empty
<1>3. Depth(d) > 0 => d.nodes # <<>>
  <2> SUFFICES ASSUME Depth(d) > 0 PROVE d.nodes # <<>>
    OBVIOUS
  <2>1. d.elementStack[Depth(d)] \in 1..Len(d.nodes)
    BY <1>1 DEF Stacked, NodeIdsOf
  <2> QED
    BY <1>1, <2>1
<1>4. HasText(d) <=> d.textToCreate /\ d.text # <<>>
  BY <1>1, <1>2, <1>3 DEF HasText
<1>5. ASSUME ~(d.textToCreate /\ d.text # <<>>) PROVE f.nodes = d.nodes
  <2>1. f = [d EXCEPT !.text = <<>>, !.textToCreate = FALSE]
    BY <1>4, <1>5 DEF Flushed
  <2> HIDE DEF f
  <2> QED
    BY <1>1, <2>1 DEF Documents
<1>6. ASSUME d.textToCreate /\ d.text # <<>>
      PROVE  /\ Depth(d) > 0 /\ f.nodes = x.nodes
             /\ Len(f.nodes) = Len(d.nodes) + 1 /\ f.nodes[Len(d.nodes) + 1] = node
             /\ \A i \in NodeIdsOf(d) : /\ f.nodes[i].nodeKind = d.nodes[i].nodeKind
                                        /\ f.nodes[i].value = d.nodes[i].value
                                        /\ ParentIn(f, i) = ParentIn(d, i)
             /\ ParentIn(f, Len(d.nodes) + 1) = Top(d)
  <2>1. f = [x EXCEPT !.text = <<>>, !.textToCreate = FALSE]
    BY <1>4, <1>6 DEF Flushed
  <2>2. node \in NodeRecords /\ node.level = Depth(d) /\ node.nextSibling = 0
        /\ node.attributes = 0 /\ node.namespaces = 0
    BY <1>1, TextNode DEF Node
  <2> HIDE DEF node
  <2>3. /\ x \in Documents /\ Len(x.nodes) = Len(d.nodes) + 1 /\ x.nodes[Len(d.nodes) + 1] = node
        /\ \A i \in NodeIdsOf(d) : /\ x.nodes[i].nodeKind = d.nodes[i].nodeKind
                                   /\ x.nodes[i].value = d.nodes[i].value
    BY <1>1, <2>2, StoredFields
  <2>4. /\ ParentIn(x, Len(d.nodes) + 1) = Top(d)
        /\ \A i \in NodeIdsOf(d) : ParentIn(x, i) = ParentIn(d, i)
    BY <1>1, <2>2, StoredStores
  <2> HIDE DEF f, x
  <2>5. f.nodes = x.nodes
    BY <2>1, <2>3 DEF Documents
  <2>6. \A i : ParentIn(f, i) = ParentIn(x, i)
    BY <2>5 DEF ParentIn
  <2> QED
    BY <1>1, <1>2, <1>6, <2>3, <2>4, <2>5, <2>6
<1> QED
  BY <1>5, <1>6

\* The columns of the tree, with the text that waits, are those of the document
\* in which it has been written.
LEMMA FlushedColumns ==
  ASSUME NEW d, Building(d)
  PROVE  LET f == Flushed(d)
         IN /\ KindsOf(f) = KindsOf(d) \o TailOf(d, "text")
            /\ ParentsOf(f) = ParentsOf(d) \o TailOf(d, Top(d))
            /\ ValuesOf(f) = ValuesOf(d) \o TailOf(d, d.text)
            /\ d.textToCreate /\ d.text # <<>> => /\ KindsOf(f) = Append(KindsOf(d), "text")
                                                 /\ ParentsOf(f) = Append(ParentsOf(d), Top(d))
                                                 /\ ValuesOf(f) = Append(ValuesOf(d), d.text)
            /\ ~(d.textToCreate /\ d.text # <<>>) => /\ KindsOf(f) = KindsOf(d)
                                                    /\ ParentsOf(f) = ParentsOf(d)
                                                    /\ ValuesOf(f) = ValuesOf(d)
<1> DEFINE f == Flushed(d)
           N == Len(d.nodes)
           node == Node("text", Depth(d), d.text)
<1>1. N \in Nat
  BY Ready
<1> DEFINE K == {KindsOf(d)[i] : i \in 1..N}
           P == {ParentsOf(d)[i] : i \in 1..N}
           V == {ValuesOf(d)[i] : i \in 1..N}
<1>2. KindsOf(d) \in [1..N -> K] /\ ParentsOf(d) \in [1..N -> P] /\ ValuesOf(d) \in [1..N -> V]
  BY DEF KindsOf, ParentsOf, ValuesOf, NodeIdsOf
<1> HIDE DEF K, P, V
<1>3. /\ KindsOf(d) \o TailOf(d, "text") =
           IF d.textToCreate /\ d.text # <<>> THEN Append(KindsOf(d), "text") ELSE KindsOf(d)
      /\ ParentsOf(d) \o TailOf(d, Top(d)) =
           IF d.textToCreate /\ d.text # <<>> THEN Append(ParentsOf(d), Top(d)) ELSE ParentsOf(d)
      /\ ValuesOf(d) \o TailOf(d, d.text) =
           IF d.textToCreate /\ d.text # <<>> THEN Append(ValuesOf(d), d.text) ELSE ValuesOf(d)
  <2> HIDE DEF N
  <2>1. KindsOf(d) \o TailOf(d, "text") =
          IF d.textToCreate /\ d.text # <<>> THEN Append(KindsOf(d), "text") ELSE KindsOf(d)
    <3>1. KindsOf(d) \in [1..N -> K]
      BY <1>2
    <3> QED
      BY <1>1, <3>1, WaitingColumn, ZenonT(30)
  <2>2. ParentsOf(d) \o TailOf(d, Top(d)) =
          IF d.textToCreate /\ d.text # <<>> THEN Append(ParentsOf(d), Top(d)) ELSE ParentsOf(d)
    <3>1. ParentsOf(d) \in [1..N -> P]
      BY <1>2
    <3> QED
      BY <1>1, <3>1, WaitingColumn, ZenonT(30)
  <2>3. ValuesOf(d) \o TailOf(d, d.text) =
          IF d.textToCreate /\ d.text # <<>> THEN Append(ValuesOf(d), d.text) ELSE ValuesOf(d)
    <3>1. \A x : ValuesOf(d) \o TailOf(d, x) =
                   IF d.textToCreate /\ d.text # <<>> THEN Append(ValuesOf(d), x) ELSE ValuesOf(d)
      <4>1. ValuesOf(d) \in [1..N -> V]
        BY <1>2
      <4> QED
        BY <1>1, <4>1, WaitingColumn, ZenonT(30)
    <3> QED
      BY <3>1
  <2> QED
    BY <2>1, <2>2, <2>3
<1>4. CASE d.textToCreate /\ d.text # <<>>
  <2>1. node.nodeKind = "text" /\ node.value = d.text
    BY DEF Node
  <2> HIDE DEF node, f
  <2>2. /\ Len(f.nodes) = N + 1 /\ f.nodes[N + 1] = node
        /\ \A i \in NodeIdsOf(d) : /\ f.nodes[i].nodeKind = d.nodes[i].nodeKind
                                   /\ f.nodes[i].value = d.nodes[i].value
                                   /\ ParentIn(f, i) = ParentIn(d, i)
        /\ ParentIn(f, N + 1) = Top(d)
    BY <1>4, FlushedNodes DEF f, node
  <2>3. /\ KindsOf(f) = Append(KindsOf(d), f.nodes[N + 1].nodeKind)
        /\ ParentsOf(f) = Append(ParentsOf(d), ParentIn(f, N + 1))
        /\ ValuesOf(f) = Append(ValuesOf(d), f.nodes[N + 1].value)
    BY <1>1, <2>2, LongerColumns
  <2> QED
    BY <1>3, <1>4, <2>1, <2>2, <2>3 DEF f
<1>5. CASE ~(d.textToCreate /\ d.text # <<>>)
  <2>1. f.nodes = d.nodes
    BY <1>5, FlushedNodes
  <2>2. \A i : ParentIn(f, i) = ParentIn(d, i)
    BY <2>1 DEF ParentIn
  <2>3. KindsOf(f) = KindsOf(d) /\ ParentsOf(f) = ParentsOf(d) /\ ValuesOf(f) = ValuesOf(d)
    BY <2>1, <2>2, SameColumns
  <2> QED
    BY <1>3, <1>5, <2>3
<1> QED
  BY <1>4, <1>5


\* Containers keep their kind.
LEMMA ContainersKept ==
  ASSUME NEW d, Stacked(d), ContainersAreNoTexts(d), NEW g, g.elementStack = d.elementStack,
         \A i \in NodeIdsOf(d) : g.nodes[i].nodeKind = d.nodes[i].nodeKind
  PROVE  ContainersAreNoTexts(g)
<1>1. Depth(g) = Depth(d)
  BY DEF Depth
<1>2. \A k \in 1..Depth(d) : d.elementStack[k] \in NodeIdsOf(d)
  BY DEF Stacked
<1> QED
  BY <1>1, <1>2 DEF ContainersAreNoTexts

LEMMA FlushedContainers ==
  ASSUME NEW d, Building(d), ContainersAreNoTexts(d)
  PROVE  ContainersAreNoTexts(Flushed(d))
<1>1. Stacked(d) /\ Flushed(d).elementStack = d.elementStack
  BY FlushedBuilding DEF Building
<1>2. \A i \in NodeIdsOf(d) : Flushed(d).nodes[i].nodeKind = d.nodes[i].nodeKind
  BY FlushedNodes
<1> QED
  BY <1>1, <1>2, ContainersKept

LEMMA OpenedColumns ==
  ASSUME NEW f, Building(f), ~f.textToCreate, f.text = <<>>, ContainersAreNoTexts(f),
         NEW node \in NodeRecords, node.level = Depth(f), node.nextSibling = 0,
         node.attributes = 0, node.namespaces = 0, node.nodeKind # "text"
  PROVE  LET g == Opened(f, node)
         IN /\ TextWaits(g) /\ Flushed(g) = g
            /\ KindsOf(g) = Append(KindsOf(f), node.nodeKind)
            /\ ParentsOf(g) = Append(ParentsOf(f), Top(f))
            /\ ValuesOf(g) = Append(ValuesOf(f), node.value)
            /\ g.attributes = f.attributes /\ g.namespaces = f.namespaces
            /\ Top(g) = Len(f.nodes) + 1
<1> DEFINE N == Len(f.nodes)
           D == Depth(f)
           x == Stored(f, node)
           g == Opened(f, node)
<1>1. /\ f \in Documents /\ Stores(f) /\ Stacked(f) /\ N \in Nat /\ D \in Nat /\ f.prevNode \in 0..N
      /\ IF D = 0 THEN N = 0 /\ f.prevNode = 0 ELSE Previous(f)
      /\ f.elementStack \in Seq(Nat)
  BY Ready, DocumentFields
<1>2. /\ Len(x.nodes) = N + 1 /\ x.nodes[N + 1] = node
      /\ \A i \in NodeIdsOf(f) : /\ x.nodes[i].nodeKind = f.nodes[i].nodeKind
                                 /\ x.nodes[i].value = f.nodes[i].value
  BY <1>1, StoredFields
<1>3. /\ ParentIn(x, N + 1) = Top(f)
      /\ \A i \in NodeIdsOf(f) : ParentIn(x, i) = ParentIn(f, i)
  BY <1>1, StoredStores
<1>4. /\ Building(g) /\ Depth(g) = D + 1 /\ Top(g) = N + 1 /\ Len(g.nodes) = N + 1
      /\ ~g.textToCreate /\ g.text = <<>> /\ g.nodes = x.nodes
      /\ g.attributes = f.attributes /\ g.namespaces = f.namespaces
      /\ g.elementStack = Append(f.elementStack, N + 1)
  BY OpenedBuilding
<1> HIDE DEF x, g
<1>5. \A i : ParentIn(g, i) = ParentIn(x, i)
  BY <1>4 DEF ParentIn
<1>6. /\ KindsOf(g) = Append(KindsOf(f), g.nodes[N + 1].nodeKind)
      /\ ParentsOf(g) = Append(ParentsOf(f), ParentIn(g, N + 1))
      /\ ValuesOf(g) = Append(ValuesOf(f), g.nodes[N + 1].value)
  <2>1. /\ Len(f.nodes) \in Nat /\ Len(g.nodes) = Len(f.nodes) + 1
        /\ \A i \in NodeIdsOf(f) : /\ g.nodes[i].nodeKind = f.nodes[i].nodeKind
                                   /\ g.nodes[i].value = f.nodes[i].value
                                   /\ ParentIn(g, i) = ParentIn(f, i)
    BY <1>1, <1>2, <1>3, <1>4, <1>5
  <2> QED
    BY <2>1, LongerColumns
<1>7. Flushed(g) = g
  BY <1>4, NothingFlushed DEF Building, Stores
<1>8. ContainersAreNoTexts(g)
  <2> SUFFICES ASSUME NEW k \in 1..D + 1 PROVE g.nodes[g.elementStack[k]].nodeKind # "text"
    BY <1>4 DEF ContainersAreNoTexts
  <2>1. /\ g.elementStack[D + 1] = N + 1
        /\ \A m \in 1..D : g.elementStack[m] = f.elementStack[m]
    BY <1>1, <1>4, AppendProperties DEF Depth
  <2>2. CASE k = D + 1
    BY <1>2, <1>4, <2>1, <2>2
  <2>3. CASE k # D + 1
    <3>1. k \in 1..D
      BY <1>1, <2>3
    <3>2. f.elementStack[k] \in NodeIdsOf(f) /\ f.nodes[f.elementStack[k]].nodeKind # "text"
      BY <1>1, <3>1 DEF Stacked, ContainersAreNoTexts
    <3> QED
      BY <1>2, <1>4, <2>1, <3>1, <3>2
  <2> QED
    BY <2>2, <2>3
<1>9. TextWaits(g)
  BY <1>2, <1>4, <1>8 DEF TextWaits
<1> QED
  BY <1>2, <1>3, <1>4, <1>5, <1>6, <1>7, <1>9 DEF g

LEMMA LeafColumns ==
  ASSUME NEW d, Building(d), Depth(d) > 0, TextWaits(d), NEW k \in Leaves
  PROVE  LET g == PIOrComment(d, k)
             f == Flushed(d)
         IN /\ TextWaits(g) /\ Flushed(g) = g
            /\ KindsOf(g) = Append(KindsOf(f), k)
            /\ ParentsOf(g) = Append(ParentsOf(f), Top(d))
            /\ ValuesOf(g) = Append(ValuesOf(f), <<>>)
            /\ g.attributes = d.attributes /\ g.namespaces = d.namespaces
            /\ Top(g) = Top(d)
<1> DEFINE f == Flushed(d)
           node == Node(k, Depth(d), <<>>)
           g == PIOrComment(d, k)
           N == Len(f.nodes)
<1>1. /\ Building(f) /\ ~f.textToCreate /\ f.text = <<>> /\ f.elementStack = d.elementStack
      /\ f.attributes = d.attributes /\ f.namespaces = d.namespaces
  BY FlushedBuilding
<1>2. Depth(f) = Depth(d) /\ Depth(d) \in Nat /\ Top(f) = Top(d)
  BY <1>1, Ready DEF Depth, Top
<1>3. /\ node \in NodeRecords /\ node.level = Depth(f) /\ node.nextSibling = 0
      /\ node.attributes = 0 /\ node.namespaces = 0 /\ node.nodeKind = k /\ node.value = <<>>
  BY <1>2, LeafKinds DEF Node, NodeRecords, Values
<1>4. k # "text"
  BY LeavesAssumption
<1>5. g = Stored(f, node)
  BY DEF PIOrComment
<1>6. ContainersAreNoTexts(f)
  BY FlushedContainers DEF TextWaits
<1> HIDE DEF f, node, g
<1>7. f \in Documents /\ Stores(f) /\ Stacked(f) /\ Previous(f) /\ N \in Nat /\ f.prevNode \in 0..N
  BY <1>1, <1>2, Ready
<1>8. /\ g \in Documents /\ Len(g.nodes) = N + 1 /\ g.nodes[N + 1] = node
      /\ \A i \in NodeIdsOf(f) : /\ g.nodes[i].nodeKind = f.nodes[i].nodeKind
                                 /\ g.nodes[i].value = f.nodes[i].value
      /\ g.attributes = f.attributes /\ g.namespaces = f.namespaces
      /\ g.elementStack = f.elementStack /\ g.text = f.text /\ g.textToCreate = f.textToCreate
  BY <1>3, <1>5, <1>7, StoredFields
<1>9. /\ ParentIn(g, N + 1) = Top(f) /\ Top(g) = Top(f)
      /\ \A i \in NodeIdsOf(f) : ParentIn(g, i) = ParentIn(f, i)
  BY <1>2, <1>3, <1>5, <1>7, StoredStores
<1>10. /\ KindsOf(g) = Append(KindsOf(f), g.nodes[N + 1].nodeKind)
       /\ ParentsOf(g) = Append(ParentsOf(f), ParentIn(g, N + 1))
       /\ ValuesOf(g) = Append(ValuesOf(f), g.nodes[N + 1].value)
  BY <1>7, <1>8, <1>9, LongerColumns
<1>11. Flushed(g) = g
  BY <1>1, <1>8, NothingFlushed
<1>12. ContainersAreNoTexts(g)
  BY <1>6, <1>7, <1>8, ContainersKept
<1>13. TextWaits(g)
  BY <1>3, <1>4, <1>8, <1>12 DEF TextWaits
<1> QED
  BY <1>1, <1>2, <1>3, <1>8, <1>9, <1>10, <1>11, <1>13 DEF g, f

LEMMA EndContainerColumns ==
  ASSUME NEW d, Building(d), Depth(d) > 1, TextWaits(d)
  PROVE  LET g == EndContainer(d)
             f == Flushed(d)
         IN /\ TextWaits(g) /\ Flushed(g) = g
            /\ KindsOf(g) = KindsOf(f) /\ ParentsOf(g) = ParentsOf(f) /\ ValuesOf(g) = ValuesOf(f)
            /\ g.attributes = d.attributes /\ g.namespaces = d.namespaces
            /\ Top(d) \in NodeIdsOf(f) /\ Top(g) = ParentsOf(f)[Top(d)]
<1> DEFINE f == Flushed(d)
           g == EndContainer(d)
           s == Top(d)
<1>0. Depth(d) > 0
  BY Ready
<1>1. /\ Building(g) /\ ~g.textToCreate /\ g.text = <<>> /\ Depth(g) = Depth(d) - 1
      /\ g.nodes = f.nodes /\ g.attributes = d.attributes /\ g.namespaces = d.namespaces
      /\ ParentIn(g, s) = Top(g) /\ g.prevNode = s /\ s \in NodeIdsOf(g)
      /\ \A k \in 1..Depth(d) - 1 : g.elementStack[k] = d.elementStack[k]
  BY <1>0, EndContainerBuilding
<1>2. /\ Building(f) /\ f.elementStack = d.elementStack /\ ContainersAreNoTexts(f)
  BY FlushedBuilding, FlushedContainers DEF TextWaits
<1>3. /\ d \in Documents /\ Depth(d) \in Nat /\ Depth(f) = Depth(d)
      /\ s = d.elementStack[Depth(d)] /\ Len(g.nodes) \in Nat
  <2>1. d \in Documents
    BY Ready
  <2>2. Depth(d) \in Nat /\ s = d.elementStack[Depth(d)]
    BY <2>1, StackFields
  <2> QED
    BY <1>1, <1>2, <2>1, <2>2, Ready DEF Depth
<1> HIDE DEF g, f, s
<1>4. Flushed(g) = g
  BY <1>1, NothingFlushed DEF Building, Stores
<1>5. \A i : ParentIn(g, i) = ParentIn(f, i)
  BY <1>1 DEF ParentIn
<1>6. KindsOf(g) = KindsOf(f) /\ ParentsOf(g) = ParentsOf(f) /\ ValuesOf(g) = ValuesOf(f)
  BY <1>1, <1>5, SameColumns
<1>7. \A k \in 1..Depth(d) : f.nodes[d.elementStack[k]].nodeKind # "text"
  BY <1>2, <1>3 DEF ContainersAreNoTexts
<1>8. ContainersAreNoTexts(g)
  <2>1. \A k \in 1..Depth(d) - 1 : k \in 1..Depth(d)
    BY <1>3
  <2> QED
    BY <1>1, <1>7, <2>1 DEF ContainersAreNoTexts
<1>9. Previous(g)
  BY <1>1, <1>3 DEF Building
<1>10. ASSUME g.nodes[Len(g.nodes)].nodeKind = "text" PROVE ParentIn(g, Len(g.nodes)) # Top(g)
  <2>1. g.nodes[s].nodeKind # "text"
    <3>1. Depth(d) \in 1..Depth(d)
      BY <1>3
    <3> QED
      BY <1>1, <1>3, <1>7, <3>1
  <2>2. s # Len(g.nodes) /\ s \in 1..Len(g.nodes) /\ s # 0
    BY <1>1, <1>10, <2>1 DEF NodeIdsOf
  <2>3. Len(g.nodes) \in s + 1..Len(g.nodes)
    BY <1>3, <2>2
  <2> QED
    BY <1>1, <1>9, <2>2, <2>3 DEF Previous
<1>11. TextWaits(g)
  BY <1>8, <1>10 DEF TextWaits
<1>12. s \in NodeIdsOf(f) /\ Top(g) = ParentsOf(f)[s]
  BY <1>1, <1>5 DEF NodeIdsOf, ParentsOf
<1> QED
  BY <1>1, <1>4, <1>6, <1>11, <1>12 DEF g, f, s


LEMMA ColumnTypes ==
  ASSUME NEW d \in Documents, Parented(d)
  PROVE  /\ KindsOf(d) \in Seq(Kinds) /\ Len(KindsOf(d)) = Len(d.nodes)
         /\ ParentsOf(d) \in Seq(Nat) /\ Len(ParentsOf(d)) = Len(d.nodes)
         /\ ValuesOf(d) \in Seq(Values) /\ Len(ValuesOf(d)) = Len(d.nodes)
<1> DEFINE N == Len(d.nodes)
<1>1. N \in Nat /\ \A i \in 1..N : d.nodes[i] \in NodeRecords /\ ParentIn(d, i) \in Nat
  <2>1. N \in Nat /\ \A i \in 1..N : d.nodes[i] \in NodeRecords
    BY NodeFields DEF NodeIdsOf
  <2>2. \A i \in 1..N : ParentIn(d, i) \in 0..i - 1
    BY ParentRange DEF NodeIdsOf
  <2> QED
    BY <2>1, <2>2
<1>2. KindsOf(d) \in [1..N -> Kinds] /\ ParentsOf(d) \in [1..N -> Nat] /\ ValuesOf(d) \in [1..N -> Values]
  BY <1>1 DEF KindsOf, ParentsOf, ValuesOf, NodeIdsOf, NodeRecords
<1> HIDE DEF N
<1>3. KindsOf(d) \in Seq(Kinds) /\ ParentsOf(d) \in Seq(Nat) /\ ValuesOf(d) \in Seq(Values)
  BY <1>1, <1>2, SeqDef
<1>4. Len(KindsOf(d)) = N /\ Len(ParentsOf(d)) = N /\ Len(ValuesOf(d)) = N
  BY <1>1, <1>2, <1>3, LenProperties
<1> QED
  BY <1>3, <1>4 DEF N

Replaced(s, n, b) == [s EXCEPT ![n] = b]

LEMMA LastReplaced ==
  ASSUME NEW S, NEW s \in Seq(S), NEW a \in S, NEW b \in S
  PROVE  /\ Append(s, a)[Len(s) + 1] = a /\ Append(s, a) # <<>> /\ Len(Append(s, a)) = Len(s) + 1
         /\ Replaced(Append(s, a), Len(s) + 1, b) = Append(s, b)
<1> DEFINE N == Len(s)
           t == Append(s, a)
           u == Append(s, b)
           v == [t EXCEPT ![N + 1] = b]
<1>1. N \in Nat
  BY LenProperties
<1>2. /\ t \in Seq(S) /\ Len(t) = N + 1 /\ \A i \in 1..N : t[i] = s[i]
      /\ t[N + 1] = a /\ t # <<>>
  BY AppendProperties
<1>3. u \in Seq(S) /\ Len(u) = N + 1 /\ (\A i \in 1..N : u[i] = s[i]) /\ u[N + 1] = b
  BY AppendProperties
<1> HIDE DEF t, u
<1>4. N + 1 \in 1..Len(t)
  BY <1>1, <1>2
<1>5. v \in Seq(S) /\ Len(v) = N + 1 /\ \A i \in 1..N + 1 : v[i] = IF i = N + 1 THEN b ELSE t[i]
  <2>1. t \in Seq(S) /\ Len(t) = N + 1
    BY <1>2
  <2> QED
    BY <1>4, <2>1, ExceptSeq
<1> HIDE DEF v
<1>6. ASSUME NEW i \in 1..N + 1 PROVE v[i] = u[i]
  <2>1. CASE i = N + 1
    BY <1>3, <1>5, <2>1
  <2>2. CASE i # N + 1
    <3>1. i \in 1..N
      BY <1>1, <2>2
    <3> QED
      BY <1>2, <1>3, <1>5, <2>2, <3>1
  <2> QED
    BY <2>1, <2>2
<1>7. v = u
  BY <1>3, <1>5, <1>6, SeqEqual
<1> QED
  BY <1>2, <1>7 DEF t, u, v, Replaced

LEMMA TextColumns ==
  ASSUME NEW d, Building(d), Depth(d) > 0, TextWaits(d), NEW c \in Seq(STRING)
  PROVE  LET g == Text(d, c)
             f == Flushed(d)
             h == Flushed(g)
             last == Len(KindsOf(f))
             lastIsText == KindsOf(f) # <<>> /\ KindsOf(f)[last] = "text" /\ ParentsOf(f)[last] = Top(d)
         IN /\ TextWaits(g) /\ Top(g) = Top(d)
            /\ g.attributes = d.attributes /\ g.namespaces = d.namespaces
            /\ \/ /\ c = <<>>
                  /\ KindsOf(h) = KindsOf(f) /\ ParentsOf(h) = ParentsOf(f) /\ ValuesOf(h) = ValuesOf(f)
               \/ /\ lastIsText
                  /\ KindsOf(h) = KindsOf(f) /\ ParentsOf(h) = ParentsOf(f)
                  /\ ValuesOf(h) = [ValuesOf(f) EXCEPT ![last] = @ \o c]
               \/ /\ ~lastIsText /\ c # <<>>
                  /\ KindsOf(h) = Append(KindsOf(f), "text")
                  /\ ParentsOf(h) = Append(ParentsOf(f), Top(d))
                  /\ ValuesOf(h) = Append(ValuesOf(f), c)
<1> DEFINE N == Len(d.nodes)
           g == Text(d, c)
           f == Flushed(d)
           h == Flushed(g)
           last == Len(KindsOf(f))
           lastIsText == KindsOf(f) # <<>> /\ KindsOf(f)[last] = "text" /\ ParentsOf(f)[last] = Top(d)
<1>1. /\ d \in Documents /\ Parented(d) /\ N \in Nat /\ N \in 1..N
      /\ d.text \in Seq(STRING) /\ d.text \o c \in Seq(STRING)
      /\ ~d.textToCreate => d.text = <<>>
  <2>1. d \in Documents /\ Parented(d) /\ Stacked(d) /\ N \in Nat /\ Depth(d) \in 1..Depth(d)
    BY Ready DEF Stores
  <2>2. N \in 1..N
    BY <2>1 DEF Stacked, NodeIdsOf
  <2> QED
    BY <2>1, <2>2, DocumentFields, ConcatProperties DEF Building
<1>2. Building(g)
  BY TextBuilding
<1>3. /\ g.nodes = d.nodes /\ g.elementStack = d.elementStack /\ g.text = d.text \o c /\ g.textToCreate
      /\ g.attributes = d.attributes /\ g.namespaces = d.namespaces
  <2>1. g = [d EXCEPT !.text = d.text \o c, !.textToCreate = TRUE]
    BY DEF Text
  <2> HIDE DEF g
  <2> QED
    BY <1>1, <2>1 DEF Documents
<1> HIDE DEF g
<1>4. Depth(g) = Depth(d) /\ Top(g) = Top(d) /\ \A i : ParentIn(g, i) = ParentIn(d, i)
  BY <1>3 DEF Depth, Top, ParentIn
<1>5. TextWaits(g)
  BY <1>3, <1>4 DEF TextWaits, ContainersAreNoTexts
<1>6. KindsOf(g) = KindsOf(d) /\ ParentsOf(g) = ParentsOf(d) /\ ValuesOf(g) = ValuesOf(d)
  BY <1>3, <1>4, SameColumns
<1>7. /\ d.textToCreate /\ d.text # <<>> => /\ KindsOf(f) = Append(KindsOf(d), "text")
                                           /\ ParentsOf(f) = Append(ParentsOf(d), Top(d))
                                           /\ ValuesOf(f) = Append(ValuesOf(d), d.text)
      /\ ~(d.textToCreate /\ d.text # <<>>) => /\ KindsOf(f) = KindsOf(d)
                                              /\ ParentsOf(f) = ParentsOf(d)
                                              /\ ValuesOf(f) = ValuesOf(d)
  BY FlushedColumns
<1>8. /\ g.text # <<>> => /\ KindsOf(h) = Append(KindsOf(d), "text")
                         /\ ParentsOf(h) = Append(ParentsOf(d), Top(d))
                         /\ ValuesOf(h) = Append(ValuesOf(d), g.text)
      /\ g.text = <<>> => /\ KindsOf(h) = KindsOf(d)
                         /\ ParentsOf(h) = ParentsOf(d)
                         /\ ValuesOf(h) = ValuesOf(d)
  BY <1>2, <1>3, <1>4, <1>6, FlushedColumns
<1>9. /\ KindsOf(d) \in Seq(Kinds) /\ Len(KindsOf(d)) = N
      /\ ParentsOf(d) \in Seq(Nat) /\ Len(ParentsOf(d)) = N
      /\ ValuesOf(d) \in Seq(Values) /\ Len(ValuesOf(d)) = N
  BY <1>1, ColumnTypes
<1> HIDE DEF f, h
<1>10. CASE c = <<>>
  <2>1. g.text = d.text
    BY <1>1, <1>3, <1>10, ConcatEmptySeq
  <2> QED
    BY <1>1, <1>3, <1>4, <1>5, <1>7, <1>8, <1>10, <2>1 DEF g, f, h
<1>11. CASE c # <<>> /\ d.text # <<>>
  <2>1. g.text # <<>> /\ d.textToCreate
    BY <1>1, <1>3, <1>11, ConcatEqualIffEmpty
  <2>2. Top(d) \in Nat /\ "text" \in Kinds /\ d.text \in Values /\ d.text \o c \in Values
    BY <1>1, StackFields DEF Kinds, Values
  <2>3. /\ KindsOf(f)[N + 1] = "text" /\ KindsOf(f) # <<>> /\ Len(KindsOf(f)) = N + 1
        /\ ParentsOf(f)[N + 1] = Top(d) /\ ValuesOf(f)[N + 1] = d.text
    BY <1>7, <1>9, <1>11, <2>1, <2>2, LastReplaced
  <2>4. ValuesOf(h) = Replaced(ValuesOf(f), N + 1, d.text \o c)
    <3>1. Replaced(Append(ValuesOf(d), d.text), N + 1, d.text \o c) = Append(ValuesOf(d), d.text \o c)
      <4>1. ValuesOf(d) \in Seq(Values) /\ d.text \in Values /\ d.text \o c \in Values
        BY <1>9, <2>2
      <4>2. Replaced(Append(ValuesOf(d), d.text), Len(ValuesOf(d)) + 1, d.text \o c)
              = Append(ValuesOf(d), d.text \o c)
        BY <4>1, LastReplaced
      <4> QED
        BY <1>9, <4>2
    <3> QED
      BY <1>3, <1>7, <1>8, <1>11, <2>1, <3>1
  <2>5. lastIsText /\ ValuesOf(h) = [ValuesOf(f) EXCEPT ![last] = @ \o c]
    BY <2>3, <2>4 DEF Replaced
  <2>6. KindsOf(h) = KindsOf(f) /\ ParentsOf(h) = ParentsOf(f)
    BY <1>7, <1>8, <1>11, <2>1
  <2> QED
    BY <1>3, <1>4, <1>5, <2>5, <2>6 DEF g, f, h
<1>12. CASE c # <<>> /\ d.text = <<>>
  <2>1. g.text = c
    BY <1>1, <1>3, <1>12, ConcatEmptySeq
  <2>2. KindsOf(f) = KindsOf(d) /\ ParentsOf(f) = ParentsOf(d) /\ ValuesOf(f) = ValuesOf(d)
    BY <1>7, <1>12
  <2>3. ~lastIsText
    <3>1. KindsOf(d)[N] = d.nodes[N].nodeKind /\ ParentsOf(d)[N] = ParentIn(d, N)
      BY <1>1 DEF KindsOf, ParentsOf, NodeIdsOf
    <3> QED
      BY <1>9, <2>2, <3>1 DEF TextWaits
  <2> QED
    BY <1>3, <1>4, <1>5, <1>8, <1>12, <2>1, <2>2, <2>3 DEF g, f, h
<1> QED
  BY <1>10, <1>11, <1>12


\* A label changes no column.
LEMMA LabelColumns ==
  ASSUME NEW d, Building(d), Depth(d) > 0, TextWaits(d), ~d.textToCreate,
         NEW g, Building(g), Depth(g) = Depth(d), Top(g) = Top(d), Len(g.nodes) = Len(d.nodes),
         ~g.textToCreate, g.elementStack = d.elementStack,
         \A i \in NodeIdsOf(d) : /\ g.nodes[i].nodeKind = d.nodes[i].nodeKind
                                 /\ g.nodes[i].value = d.nodes[i].value
                                 /\ ParentIn(g, i) = ParentIn(d, i)
  PROVE  /\ TextWaits(g) /\ Flushed(g) = g /\ Flushed(d) = d
         /\ KindsOf(g) = KindsOf(d) /\ ParentsOf(g) = ParentsOf(d) /\ ValuesOf(g) = ValuesOf(d)
<1>1. d \in Documents /\ g \in Documents /\ d.text = <<>> /\ g.text = <<>> /\ Stacked(d)
  BY Ready DEF Building
<1>2. Flushed(g) = g /\ Flushed(d) = d
  BY <1>1, NothingFlushed
<1>3. KindsOf(g) = KindsOf(d) /\ ParentsOf(g) = ParentsOf(d) /\ ValuesOf(g) = ValuesOf(d)
  BY SameColumns
<1>4. ContainersAreNoTexts(g)
  BY <1>1, ContainersKept DEF TextWaits
<1>5. Len(d.nodes) \in NodeIdsOf(d)
  <2>1. Depth(d) \in 1..Depth(d) /\ Len(d.nodes) \in Nat
    BY Ready
  <2> QED
    BY <1>1, <2>1 DEF Stacked, NodeIdsOf
<1>6. TextWaits(g)
  BY <1>4, <1>5 DEF TextWaits
<1> QED
  BY <1>2, <1>3, <1>6

LEMMA EmptyColumns ==
  ASSUME NEW d, Building(d), Depth(d) = 0
  PROVE  /\ Flushed(d) = d /\ KindsOf(d) = <<>> /\ ParentsOf(d) = <<>> /\ ValuesOf(d) = <<>>
         /\ d.attributes = <<>> /\ d.namespaces = <<>> /\ Top(d) = 0
<1>1. d \in Documents /\ Empty(d) /\ d.text = <<>>
  BY Ready DEF Building, Empty
<1>2. Flushed(d) = d
  BY <1>1, NothingFlushed DEF Empty
<1>3. NodeIdsOf(d) = {}
  BY <1>1 DEF Empty, NodeIdsOf
<1>4. KindsOf(d) = <<>> /\ ParentsOf(d) = <<>> /\ ValuesOf(d) = <<>>
  BY <1>3 DEF KindsOf, ParentsOf, ValuesOf
<1> QED
  BY <1>1, <1>2, <1>4, StackFields DEF Empty

\* The columns of the first n nodes.
FirstKinds(d, n) == [i \in 1..n |-> d.nodes[i].nodeKind]
FirstParents(d, n) == [i \in 1..n |-> ParentIn(d, i)]
FirstValues(d, n) == [i \in 1..n |-> d.nodes[i].value]

LEMMA FirstColumns ==
  ASSUME NEW d, NEW n \in Nat, ~d.textToCreate, NEW x
  PROVE  /\ FirstKinds(d, n) \o TailOf(d, x) = FirstKinds(d, n)
         /\ FirstParents(d, n) \o TailOf(d, x) = FirstParents(d, n)
         /\ FirstValues(d, n) \o TailOf(d, x) = FirstValues(d, n)
<1> DEFINE K == {FirstKinds(d, n)[i] : i \in 1..n}
           P == {FirstParents(d, n)[i] : i \in 1..n}
           V == {FirstValues(d, n)[i] : i \in 1..n}
<1>1. /\ FirstKinds(d, n) \in [1..n -> K] /\ FirstParents(d, n) \in [1..n -> P]
      /\ FirstValues(d, n) \in [1..n -> V]
  BY DEF FirstKinds, FirstParents, FirstValues
<1> HIDE DEF K, P, V
<1>2. FirstKinds(d, n) \o TailOf(d, x) = FirstKinds(d, n)
  <2>1. FirstKinds(d, n) \in [1..n -> K]
    BY <1>1
  <2> QED
    BY <2>1, WaitingColumn, ZenonT(30)
<1>3. FirstParents(d, n) \o TailOf(d, x) = FirstParents(d, n)
  <2>1. FirstParents(d, n) \in [1..n -> P]
    BY <1>1
  <2> QED
    BY <2>1, WaitingColumn, ZenonT(30)
<1>4. FirstValues(d, n) \o TailOf(d, x) = FirstValues(d, n)
  <2>1. FirstValues(d, n) \in [1..n -> V]
    BY <1>1
  <2> QED
    BY <2>1, WaitingColumn, ZenonT(30)
<1> QED
  BY <1>2, <1>3, <1>4

LEMMA AllColumns ==
  ASSUME NEW d
  PROVE  /\ FirstKinds(d, Len(d.nodes)) = KindsOf(d)
         /\ FirstParents(d, Len(d.nodes)) = ParentsOf(d)
         /\ FirstValues(d, Len(d.nodes)) = ValuesOf(d)
  BY DEF FirstKinds, FirstParents, FirstValues, KindsOf, ParentsOf, ValuesOf, NodeIdsOf

\* What the variables of the tree are, now and after a step.
LEMMA ShownNow ==
  /\ ShownKinds = FirstKinds(doc, Size) \o TailOf(doc, "text")
  /\ ShownParents = FirstParents(doc, Size) \o TailOf(doc, Top(doc))
  /\ ShownValues = FirstValues(doc, Size) \o TailOf(doc, doc.text)
  BY DEF ShownKinds, ShownParents, ShownValues, Shown, Waiting, NodeIds, KindOf, GetParent, ValueOf,
         FirstKinds, FirstParents, FirstValues, TailOf, WaitingOf

LEMMA ShownNext ==
  /\ ShownKinds' = FirstKinds(doc', Size') \o TailOf(doc', "text")
  /\ ShownParents' = FirstParents(doc', Size') \o TailOf(doc', Top(doc'))
  /\ ShownValues' = FirstValues(doc', Size') \o TailOf(doc', doc'.text)
  BY DEF ShownKinds, ShownParents, ShownValues, Shown, Waiting, NodeIds, KindOf, GetParent, ValueOf,
         FirstKinds, FirstParents, FirstValues, TailOf, WaitingOf

LEMMA ShownBuilding ==
  ASSUME item = "none", Building(doc)
  PROVE  /\ ShownKinds = KindsOf(Flushed(doc)) /\ ShownParents = ParentsOf(Flushed(doc))
         /\ ShownValues = ValuesOf(Flushed(doc))
         /\ ShownAttributes = doc.attributes /\ ShownNamespaces = doc.namespaces
<1>1. Size = Len(doc.nodes)
  <2>1. Len(doc.nodes) \in Nat
    BY Ready
  <2> QED
    BY <2>1 DEF Size, Finished
<1>2. ShownAttributes = doc.attributes /\ ShownNamespaces = doc.namespaces
  BY DEF ShownAttributes, ShownNamespaces, Unmarked
<1> QED
  BY <1>1, <1>2, ShownNow, AllColumns, FlushedColumns

LEMMA ShownBuildingNext ==
  ASSUME item' = "none", Building(doc')
  PROVE  /\ ShownKinds' = KindsOf(Flushed(doc')) /\ ShownParents' = ParentsOf(Flushed(doc'))
         /\ ShownValues' = ValuesOf(Flushed(doc'))
         /\ ShownAttributes' = doc'.attributes /\ ShownNamespaces' = doc'.namespaces
<1>1. Size' = Len(doc'.nodes)
  <2>1. Len(doc'.nodes) \in Nat
    BY Ready
  <2> QED
    BY <2>1 DEF Size, Finished
<1>2. ShownAttributes' = doc'.attributes /\ ShownNamespaces' = doc'.namespaces
  BY DEF ShownAttributes, ShownNamespaces, Unmarked
<1> QED
  BY <1>1, <1>2, ShownNext, AllColumns, FlushedColumns

LEMMA ShownFinished ==
  ASSUME item' # "none", ~doc'.textToCreate, NEW n \in Nat, Size' = n
  PROVE  /\ ShownKinds' = FirstKinds(doc', n) /\ ShownParents' = FirstParents(doc', n)
         /\ ShownValues' = FirstValues(doc', n)
         /\ ShownAttributes' = SubSeq(doc'.attributes, 1, Len(doc'.attributes) - 1)
         /\ ShownNamespaces' = SubSeq(doc'.namespaces, 1, Len(doc'.namespaces) - 1)
<1>1. /\ ShownAttributes' = SubSeq(doc'.attributes, 1, Len(doc'.attributes) - 1)
      /\ ShownNamespaces' = SubSeq(doc'.namespaces, 1, Len(doc'.namespaces) - 1)
  BY DEF ShownAttributes, ShownNamespaces, Unmarked
<1> QED
  BY <1>1, ShownNext, FirstColumns

\* Without its marker an array of labels is what it was.
LEMMA MarkerTaken ==
  ASSUME NEW labels \in Seq(LabelRecords)
  PROVE  LET more == Marked(labels, MarkerLabel)
         IN SubSeq(more, 1, Len(more) - 1) = labels
<1>1. CASE labels = <<>>
  <2>1. Marked(labels, MarkerLabel) = <<>>
    BY <1>1 DEF Marked
  <2>2. SubSeq(<<>>, 1, Len(<<>>) - 1) = <<>>
    BY SubSeqEmpty
  <2> QED
    BY <1>1, <2>1, <2>2
<1>2. CASE labels # <<>>
  <2> DEFINE L == Len(labels)
             more == Append(labels, MarkerLabel)
             back == SubSeq(more, 1, L)
  <2>1. MarkerLabel \in LabelRecords
    BY DEF MarkerLabel, Label, LabelRecords
  <2>2. /\ L \in Nat /\ more \in Seq(LabelRecords) /\ Len(more) = L + 1
        /\ \A j \in 1..L : more[j] = labels[j]
    BY <2>1, AppendProperties, LenProperties
  <2>3. Marked(labels, MarkerLabel) = more
    BY <1>2 DEF Marked
  <2> HIDE DEF more
  <2>4. \A j \in 1..L : more[j] \in LabelRecords
    BY <2>2, ElementOfSeq
  <2>5. /\ back \in Seq(LabelRecords) /\ Len(back) = L
        /\ \A j \in 1..L : back[j] = more[j]
    <3>1. /\ back \in Seq(LabelRecords) /\ Len(back) = (IF 1 <= L THEN L - 1 + 1 ELSE 0)
          /\ \A j \in 1..L - 1 + 1 : back[j] = more[1 + j - 1]
      BY <2>2, <2>4, SubSeqProperties
    <3> QED
      BY <2>2, <3>1
  <2> HIDE DEF back
  <2>6. back = labels
    BY <2>2, <2>5, SeqEqual
  <2>7. Len(more) - 1 = L
    BY <2>2
  <2> QED
    BY <2>3, <2>6, <2>7 DEF back
<1> QED
  BY <1>1, <1>2


-----------------------------------------------------------------------------
(***************************************************************************)
(* Every event is a step of the tree                                       *)
(***************************************************************************)
LEMMA StartDocumentTree ==
  ASSUME TInv, StartDocumentEvent
  PROVE  Tree!Begin("document", <<>>) /\ TextWaits(doc')
<1> DEFINE node == Node("document", 0, <<>>)
<1>1. item = "none" /\ Building(doc) /\ Depth(doc) = 0 /\ TextWaits(doc)
  BY DEF TInv, IInv, StartDocumentEvent, Accepting
<1>2. doc' = StartDocument(doc) /\ item' = "none"
  BY DEF StartDocumentEvent, Accepting, Continue
<1>3. doc' = Opened(doc, node) /\ Building(doc')
  BY <1>1, <1>2, StartDocumentBuilding
<1>4. /\ Flushed(doc) = doc /\ KindsOf(doc) = <<>> /\ ParentsOf(doc) = <<>> /\ ValuesOf(doc) = <<>>
      /\ Top(doc) = 0
  BY <1>1, EmptyColumns
<1>5. /\ node \in NodeRecords /\ node.level = Depth(doc) /\ node.nextSibling = 0 /\ node.value = <<>>
      /\ node.attributes = 0 /\ node.namespaces = 0 /\ node.nodeKind = "document"
  BY <1>1 DEF Node, NodeRecords, Kinds, Values
<1>6. ~doc.textToCreate /\ doc.text = <<>> /\ Len(doc.nodes) = 0
  BY <1>1 DEF Building, Empty
<1> HIDE DEF node
<1>7. /\ TextWaits(doc') /\ Flushed(doc') = doc'
      /\ KindsOf(doc') = Append(KindsOf(doc), "document")
      /\ ParentsOf(doc') = Append(ParentsOf(doc), Top(doc))
      /\ ValuesOf(doc') = Append(ValuesOf(doc), <<>>)
      /\ doc'.attributes = doc.attributes /\ doc'.namespaces = doc.namespaces
      /\ Top(doc') = Len(doc.nodes) + 1
  BY <1>1, <1>3, <1>5, <1>6, OpenedColumns DEF TextWaits
<1>8. /\ ShownKinds = <<>> /\ ShownParents = <<>> /\ ShownValues = <<>>
      /\ ShownAttributes = doc.attributes /\ ShownNamespaces = doc.namespaces
  BY <1>1, <1>4, ShownBuilding
<1>9. /\ ShownKinds' = Append(ShownKinds, "document") /\ ShownParents' = Append(ShownParents, Top(doc))
      /\ ShownValues' = Append(ShownValues, <<>>)
      /\ ShownAttributes' = ShownAttributes /\ ShownNamespaces' = ShownNamespaces
  BY <1>2, <1>3, <1>4, <1>7, <1>8, ShownBuildingNext
<1>10. Top(doc)' = Len(ShownKinds) + 1
  BY <1>6, <1>7, <1>8
<1> QED
  BY <1>4, <1>7, <1>8, <1>9, <1>10 DEF Tree!Begin, Tree!Add, Tree!New

LEMMA StartElementTree ==
  ASSUME TInv, NEW n \in ElementNames, StartElementEvent(n)
  PROVE  Tree!Begin("element", n) /\ TextWaits(doc')
<1> DEFINE f == Flushed(doc)
           node == Node("element", Depth(doc), n)
<1>1. item = "none" /\ Building(doc) /\ TextWaits(doc)
  BY DEF TInv, IInv, StartElementEvent, Accepting
<1>2. doc' = StartElement(doc, n) /\ item' = "none"
  BY DEF StartElementEvent, Accepting, Continue
<1>3. doc' = Opened(f, node) /\ Building(doc')
  BY <1>1, <1>2, StartElementBuilding
<1>4. /\ Building(f) /\ ~f.textToCreate /\ f.text = <<>> /\ f.elementStack = doc.elementStack
      /\ f.attributes = doc.attributes /\ f.namespaces = doc.namespaces
      /\ ContainersAreNoTexts(f)
  BY <1>1, FlushedBuilding, FlushedContainers DEF TextWaits
<1>5. Depth(f) = Depth(doc) /\ Top(f) = Top(doc) /\ Depth(doc) \in Nat
  BY <1>1, <1>4, Ready DEF Depth, Top
<1>6. /\ node \in NodeRecords /\ node.level = Depth(f) /\ node.nextSibling = 0 /\ node.value = n
      /\ node.attributes = 0 /\ node.namespaces = 0 /\ node.nodeKind = "element"
  BY <1>5 DEF Node, NodeRecords, Kinds, Values
<1> HIDE DEF node, f
<1>7. /\ TextWaits(doc') /\ Flushed(doc') = doc'
      /\ KindsOf(doc') = Append(KindsOf(f), "element")
      /\ ParentsOf(doc') = Append(ParentsOf(f), Top(f))
      /\ ValuesOf(doc') = Append(ValuesOf(f), n)
      /\ doc'.attributes = f.attributes /\ doc'.namespaces = f.namespaces
      /\ Top(doc') = Len(f.nodes) + 1
  BY <1>3, <1>4, <1>6, OpenedColumns
<1>8. /\ ShownKinds = KindsOf(f) /\ ShownParents = ParentsOf(f) /\ ShownValues = ValuesOf(f)
      /\ ShownAttributes = doc.attributes /\ ShownNamespaces = doc.namespaces
  BY <1>1, ShownBuilding DEF f
<1>9. /\ ShownKinds' = Append(ShownKinds, "element") /\ ShownParents' = Append(ShownParents, Top(doc))
      /\ ShownValues' = Append(ShownValues, n)
      /\ ShownAttributes' = ShownAttributes /\ ShownNamespaces' = ShownNamespaces
  BY <1>2, <1>3, <1>4, <1>5, <1>7, <1>8, ShownBuildingNext
<1>10. Top(doc)' = Len(ShownKinds) + 1
  <2>1. Len(KindsOf(f)) = Len(f.nodes)
    BY <1>4, Ready, ColumnTypes DEF Stores
  <2> QED
    BY <1>7, <1>8, <2>1
<1>11. Top(doc) = 0 => ShownKinds = <<>>
  <2> SUFFICES ASSUME Top(doc) = 0 PROVE ShownKinds = <<>>
    OBVIOUS
  <2>1. doc \in Documents /\ Stacked(doc)
    BY <1>1, Ready
  <2>2. Depth(doc) = 0
    BY <1>5, <2>1, StackFields DEF Stacked, NodeIdsOf
  <2> QED
    BY <1>1, <1>8, <2>2, EmptyColumns DEF f
<1> QED
  BY <1>7, <1>9, <1>10, <1>11 DEF Tree!Begin, Tree!Add, Tree!New

\* The innermost container is there when there is one.
LEMMA TopInside ==
  ASSUME NEW d, Building(d), Depth(d) > 0
  PROVE  Top(d) # 0 /\ Top(d) \in NodeIdsOf(d)
<1>1. d \in Documents /\ Stacked(d) /\ Depth(d) \in 1..Depth(d)
  BY Ready
<1>2. Top(d) = d.elementStack[Depth(d)]
  BY <1>1, StackFields
<1> QED
  BY <1>1, <1>2 DEF Stacked, NodeIdsOf

LEMMA EndContainerTree ==
  ASSUME TInv, EndContainerEvent
  PROVE  Tree!End /\ (item' = "none" => TextWaits(doc'))
<1> DEFINE f == Flushed(doc)
<1>1. item = "none" /\ Building(doc) /\ TextWaits(doc) /\ Depth(doc) = level /\ level \in Nat /\ level > 0
  BY DEF TInv, IInv, EndContainerEvent, Accepting
<1>2. Top(doc) # 0
  BY <1>1, TopInside
<1>3. /\ ShownKinds = KindsOf(f) /\ ShownParents = ParentsOf(f) /\ ShownValues = ValuesOf(f)
      /\ ShownAttributes = doc.attributes /\ ShownNamespaces = doc.namespaces
  BY <1>1, ShownBuilding
<1>4. CASE level = 1
  <2> DEFINE g == EndContainer(doc)
             e == EndEvent(g)
             N == Len(f.nodes)
  <2>1. doc' = e /\ item' = "node"
    BY <1>4 DEF EndContainerEvent, Finish
  <2>2. /\ Depth(e) = 0 /\ Len(e.nodes) = N + 1
        /\ \A i \in NodeIdsOf(f) : e.nodes[i] = f.nodes[i] /\ ParentIn(e, i) = ParentIn(f, i)
        /\ e.attributes = Marked(doc.attributes, MarkerLabel)
        /\ e.namespaces = Marked(doc.namespaces, MarkerLabel)
        /\ ~e.textToCreate
    BY <1>1, <1>4, ContainerEnds
  <2>3. ParentIn(g, Top(doc)) = 0 /\ Top(doc) \in NodeIdsOf(g) /\ g.nodes = f.nodes
    BY <1>1, <1>4, EndContainerBuilding
  <2>4. N \in Nat
    BY <1>1, FlushedBuilding, Ready
  <2> HIDE DEF e, g, f
  <2>5. ParentsOf(f)[Top(doc)] = 0
    BY <2>3 DEF ParentsOf, NodeIdsOf, ParentIn
  <2>6. Top(e) = 0
    <3>1. e.elementStack = <<>>
      BY DEF e, EndEvent
    <3> QED
      BY <3>1 DEF Top
  <2>7. Size' = N
    BY <2>1, <2>2, <2>4 DEF Size, Finished
  <2>8. /\ ShownKinds' = FirstKinds(e, N) /\ ShownParents' = FirstParents(e, N)
        /\ ShownValues' = FirstValues(e, N)
        /\ ShownAttributes' = SubSeq(e.attributes, 1, Len(e.attributes) - 1)
        /\ ShownNamespaces' = SubSeq(e.namespaces, 1, Len(e.namespaces) - 1)
    BY <2>1, <2>2, <2>4, <2>7, ShownFinished
  <2>9. FirstKinds(e, N) = KindsOf(f) /\ FirstParents(e, N) = ParentsOf(f) /\ FirstValues(e, N) = ValuesOf(f)
    BY <2>2 DEF FirstKinds, FirstParents, FirstValues, KindsOf, ParentsOf, ValuesOf, NodeIdsOf
  <2>10. /\ SubSeq(e.attributes, 1, Len(e.attributes) - 1) = doc.attributes
         /\ SubSeq(e.namespaces, 1, Len(e.namespaces) - 1) = doc.namespaces
    <3>1. doc.attributes \in Seq(LabelRecords) /\ doc.namespaces \in Seq(LabelRecords)
      BY <1>1, Ready, DocumentFields
    <3> QED
      BY <2>2, <3>1, MarkerTaken
  <2>11. Top(doc)' = 0
    BY <2>1, <2>6
  <2> QED
    BY <1>2, <1>3, <2>1, <2>5, <2>8, <2>9, <2>10, <2>11 DEF Tree!End
<1>5. CASE level # 1
  <2>1. doc' = EndContainer(doc) /\ item' = "none"
    BY <1>5 DEF EndContainerEvent, Continue, Accepting
  <2>2. Building(doc') /\ Depth(doc) > 1
    BY <1>1, <1>5, <2>1, EndContainerBuilding
  <2>3. /\ TextWaits(doc') /\ Flushed(doc') = doc'
        /\ KindsOf(doc') = KindsOf(f) /\ ParentsOf(doc') = ParentsOf(f) /\ ValuesOf(doc') = ValuesOf(f)
        /\ doc'.attributes = doc.attributes /\ doc'.namespaces = doc.namespaces
        /\ Top(doc') = ParentsOf(f)[Top(doc)]
    BY <1>1, <2>1, <2>2, EndContainerColumns
  <2>4. /\ ShownKinds' = KindsOf(doc') /\ ShownParents' = ParentsOf(doc') /\ ShownValues' = ValuesOf(doc')
        /\ ShownAttributes' = doc'.attributes /\ ShownNamespaces' = doc'.namespaces
    BY <2>1, <2>2, <2>3, ShownBuildingNext
  <2>5. Top(doc)' = Top(doc')
    OBVIOUS
  <2> HIDE DEF f
  <2> QED
    BY <1>2, <1>3, <2>3, <2>4, <2>5 DEF Tree!End
<1> QED
  BY <1>4, <1>5


\* The columns of a document with a single node, and of the one before it.
LEMMA AloneTree ==
  ASSUME TInv, item = "none", Depth(doc) = 0, NEW g, doc' = EndEvent(g), item' = "node",
         NEW k, NEW v, Alone(doc', k, v), ~doc'.textToCreate
  PROVE  /\ ShownKinds = <<>> /\ ShownParents = <<>> /\ ShownValues = <<>>
         /\ ShownAttributes = <<>> /\ ShownNamespaces = <<>> /\ Top(doc) = 0
         /\ ShownKinds' = Append(ShownKinds, k) /\ ShownParents' = Append(ShownParents, Top(doc))
         /\ ShownValues' = Append(ShownValues, v)
         /\ ShownAttributes' = ShownAttributes /\ ShownNamespaces' = ShownNamespaces
         /\ Top(doc)' = Top(doc)
<1>1. Building(doc)
  BY DEF TInv, IInv
<1>2. /\ ShownKinds = <<>> /\ ShownParents = <<>> /\ ShownValues = <<>>
      /\ ShownAttributes = <<>> /\ ShownNamespaces = <<>> /\ Top(doc) = 0
  BY <1>1, EmptyColumns, ShownBuilding
<1>3. Len(doc'.nodes) = 2 /\ Size' = 1
  BY DEF Alone, Size, Finished
<1>4. Top(doc') = 0
  <2>1. doc'.elementStack = <<>>
    BY DEF EndEvent
  <2> QED
    BY <2>1 DEF Top
<1>5. /\ ShownKinds' = FirstKinds(doc', 1) /\ ShownParents' = FirstParents(doc', 1)
      /\ ShownValues' = FirstValues(doc', 1)
      /\ ShownAttributes' = SubSeq(doc'.attributes, 1, Len(doc'.attributes) - 1)
      /\ ShownNamespaces' = SubSeq(doc'.namespaces, 1, Len(doc'.namespaces) - 1)
  BY <1>3, ShownFinished
<1>6. ShownAttributes' = <<>> /\ ShownNamespaces' = <<>>
  <2>1. doc'.attributes = <<>> /\ doc'.namespaces = <<>>
    BY DEF Alone
  <2>2. SubSeq(<<>>, 1, Len(<<>>) - 1) = <<>>
    BY SubSeqEmpty
  <2> QED
    BY <1>5, <2>1, <2>2
<1>7. /\ FirstKinds(doc', 1) = [i \in 1..1 |-> k] /\ FirstParents(doc', 1) = [i \in 1..1 |-> 0]
      /\ FirstValues(doc', 1) = [i \in 1..1 |-> v]
  BY DEF FirstKinds, FirstParents, FirstValues, Alone
<1>8. \A x : [i \in 1..1 |-> x] = Append(<<>>, x)
  OBVIOUS
<1> QED
  BY <1>2, <1>4, <1>5, <1>6, <1>7, <1>8

LEMMA PIOrCommentTree ==
  ASSUME TInv, NEW k \in Leaves, PIOrCommentEvent(k)
  PROVE  Tree!Leaf(k) /\ (item' = "none" => TextWaits(doc'))
<1> DEFINE f == Flushed(doc)
<1>1. item = "none" /\ Building(doc) /\ TextWaits(doc) /\ Depth(doc) = level /\ level \in Nat
  BY DEF TInv, IInv, PIOrCommentEvent, Accepting
<1>2. CASE level = 0
  <2>1. doc' = EndEvent(PIOrComment(NewDocument(1, 0, 0), k)) /\ item' = "node"
    BY <1>2 DEF PIOrCommentEvent, Finish
  <2>2. Alone(doc', k, <<>>) /\ ~doc'.textToCreate
    BY <2>1, LeafKinds, PIOrCommentAlone
  <2>3. /\ ShownKinds = <<>>
        /\ ShownKinds' = Append(ShownKinds, k) /\ ShownParents' = Append(ShownParents, Top(doc))
        /\ ShownValues' = Append(ShownValues, <<>>)
        /\ ShownAttributes' = ShownAttributes /\ ShownNamespaces' = ShownNamespaces
        /\ Top(doc)' = Top(doc)
    BY <1>1, <1>2, <2>1, <2>2, AloneTree
  <2> QED
    BY <2>1, <2>3 DEF Tree!Leaf, Tree!Add
<1>3. CASE level # 0
  <2>1. doc' = PIOrComment(doc, k) /\ item' = "none"
    BY <1>3 DEF PIOrCommentEvent, Continue, Accepting
  <2>2. Depth(doc) > 0 /\ Building(doc')
    BY <1>1, <1>3, <2>1, LeafKinds, PIOrCommentBuilding
  <2>3. /\ TextWaits(doc') /\ Flushed(doc') = doc'
        /\ KindsOf(doc') = Append(KindsOf(f), k)
        /\ ParentsOf(doc') = Append(ParentsOf(f), Top(doc))
        /\ ValuesOf(doc') = Append(ValuesOf(f), <<>>)
        /\ doc'.attributes = doc.attributes /\ doc'.namespaces = doc.namespaces
        /\ Top(doc') = Top(doc)
    BY <1>1, <2>1, <2>2, LeafColumns
  <2>4. /\ ShownKinds = KindsOf(f) /\ ShownParents = ParentsOf(f) /\ ShownValues = ValuesOf(f)
        /\ ShownAttributes = doc.attributes /\ ShownNamespaces = doc.namespaces
    BY <1>1, ShownBuilding
  <2> HIDE DEF f
  <2>5. /\ ShownKinds' = KindsOf(doc') /\ ShownParents' = ParentsOf(doc') /\ ShownValues' = ValuesOf(doc')
        /\ ShownAttributes' = doc'.attributes /\ ShownNamespaces' = doc'.namespaces
    BY <2>1, <2>2, <2>3, ShownBuildingNext
  <2>6. Top(doc)' = Top(doc) /\ Top(doc) # 0
    BY <1>1, <2>2, <2>3, TopInside
  <2> QED
    BY <2>3, <2>4, <2>5, <2>6 DEF Tree!Leaf, Tree!Add
<1> QED
  BY <1>2, <1>3

LEMMA TextTree ==
  ASSUME TInv, NEW c \in Chunks, TextEvent(c)
  PROVE  Tree!Text(c) /\ (item' = "none" => TextWaits(doc'))
<1> DEFINE f == Flushed(doc)
           h == Flushed(doc')
           last == Len(KindsOf(f))
           lastIsText == KindsOf(f) # <<>> /\ KindsOf(f)[last] = "text" /\ ParentsOf(f)[last] = Top(doc)
<1>1. /\ item = "none" /\ Building(doc) /\ TextWaits(doc) /\ Depth(doc) = level /\ level \in Nat
      /\ c \in Seq(STRING)
  BY ChunksAssumption DEF TInv, IInv, TextEvent, Accepting
<1>2. CASE level = 0
  <2>1. doc' = EndEvent(Text(NewDocument(1, 0, 0), c)) /\ item' = "node"
    BY <1>2 DEF TextEvent, Finish
  <2>2. Alone(doc', "text", c) /\ ~doc'.textToCreate
    BY <1>1, <2>1, TextAlone
  <2>3. /\ ShownKinds = <<>> /\ Top(doc) = 0
        /\ ShownKinds' = Append(ShownKinds, "text") /\ ShownParents' = Append(ShownParents, Top(doc))
        /\ ShownValues' = Append(ShownValues, c)
        /\ ShownAttributes' = ShownAttributes /\ ShownNamespaces' = ShownNamespaces
        /\ Top(doc)' = Top(doc)
    BY <1>1, <1>2, <2>1, <2>2, AloneTree
  <2> QED
    BY <2>1, <2>3 DEF Tree!Text, Tree!Add
<1>3. CASE level # 0
  <2>1. doc' = Text(doc, c) /\ item' = "none"
    BY <1>3 DEF TextEvent, Continue, Accepting
  <2>2. Depth(doc) > 0 /\ Building(doc')
    BY <1>1, <1>3, <2>1, TextBuilding
  <2>3. /\ TextWaits(doc') /\ Top(doc') = Top(doc)
        /\ doc'.attributes = doc.attributes /\ doc'.namespaces = doc.namespaces
        /\ \/ /\ c = <<>>
              /\ KindsOf(h) = KindsOf(f) /\ ParentsOf(h) = ParentsOf(f) /\ ValuesOf(h) = ValuesOf(f)
           \/ /\ lastIsText
              /\ KindsOf(h) = KindsOf(f) /\ ParentsOf(h) = ParentsOf(f)
              /\ ValuesOf(h) = [ValuesOf(f) EXCEPT ![last] = @ \o c]
           \/ /\ ~lastIsText /\ c # <<>>
              /\ KindsOf(h) = Append(KindsOf(f), "text")
              /\ ParentsOf(h) = Append(ParentsOf(f), Top(doc))
              /\ ValuesOf(h) = Append(ValuesOf(f), c)
    BY <1>1, <2>1, <2>2, TextColumns
  <2>4. /\ ShownKinds = KindsOf(f) /\ ShownParents = ParentsOf(f) /\ ShownValues = ValuesOf(f)
        /\ ShownAttributes = doc.attributes /\ ShownNamespaces = doc.namespaces
    BY <1>1, ShownBuilding
  <2>5. /\ ShownKinds' = KindsOf(h) /\ ShownParents' = ParentsOf(h) /\ ShownValues' = ValuesOf(h)
        /\ ShownAttributes' = doc'.attributes /\ ShownNamespaces' = doc'.namespaces
    BY <2>1, <2>2, ShownBuildingNext
  <2>6. Top(doc)' = Top(doc) /\ Top(doc) # 0
    BY <1>1, <2>2, <2>3, TopInside
  <2>7. Tree!LastIsText <=> lastIsText
    BY <2>4 DEF Tree!LastIsText
  <2> HIDE DEF f, h
  <2>8. CASE /\ c = <<>>
             /\ KindsOf(h) = KindsOf(f) /\ ParentsOf(h) = ParentsOf(f) /\ ValuesOf(h) = ValuesOf(f)
    BY <2>3, <2>4, <2>5, <2>6, <2>8 DEF Tree!Text
  <2>9. CASE /\ lastIsText
             /\ KindsOf(h) = KindsOf(f) /\ ParentsOf(h) = ParentsOf(f)
             /\ ValuesOf(h) = [ValuesOf(f) EXCEPT ![last] = @ \o c]
    BY <2>3, <2>4, <2>5, <2>6, <2>7, <2>9 DEF Tree!Text
  <2>10. CASE /\ ~lastIsText /\ c # <<>>
              /\ KindsOf(h) = Append(KindsOf(f), "text")
              /\ ParentsOf(h) = Append(ParentsOf(f), Top(doc))
              /\ ValuesOf(h) = Append(ValuesOf(f), c)
    BY <2>3, <2>4, <2>5, <2>6, <2>7, <2>10 DEF Tree!Text, Tree!Add
  <2> QED
    BY <2>1, <2>3, <2>8, <2>9, <2>10
<1> QED
  BY <1>2, <1>3


LEMMA AttributeTree ==
  ASSUME TInv, NEW n \in AttributeNames, AttributeEvent(n)
  PROVE  Tree!Attribute(n) /\ (item' = "none" => TextWaits(doc'))
<1>1. /\ item = "none" /\ Building(doc) /\ TextWaits(doc) /\ Depth(doc) = level /\ level \in Nat
      /\ IInv
  BY DEF TInv, IInv, AttributeEvent, Accepting
<1>2. Label(Top(doc), n) = [owner |-> Top(doc), name |-> n]
  BY DEF Label
<1>3. CASE level = 0
  <2> DEFINE labels == Append(<<>>, Label(0, n))
  <2>1. doc' = EndEvent(Attribute(NewDocument(0, 1, 0), n)) /\ item' = "attribute"
    BY <1>3 DEF AttributeEvent, Finish
  <2>2. /\ doc'.nodes = <<>> /\ doc'.attributes = Append(labels, MarkerLabel)
        /\ doc'.namespaces = <<>> /\ ~doc'.textToCreate
    BY <2>1, AttributeAlone
  <2>3. labels \in Seq(LabelRecords) /\ labels # <<>>
    <3>1. Label(0, n) \in LabelRecords /\ <<>> \in Seq(LabelRecords)
      BY DEF Label, LabelRecords
    <3> QED
      BY <3>1, AppendProperties
  <2> HIDE DEF labels
  <2>4. Top(doc') = 0
    <3>1. doc'.elementStack = <<>>
      BY <2>1 DEF EndEvent
    <3> QED
      BY <3>1 DEF Top
  <2>5. Size' = 0
    BY <2>1, <2>2 DEF Size, Finished
  <2>6. /\ ShownKinds' = FirstKinds(doc', 0) /\ ShownParents' = FirstParents(doc', 0)
        /\ ShownValues' = FirstValues(doc', 0)
        /\ ShownAttributes' = SubSeq(doc'.attributes, 1, Len(doc'.attributes) - 1)
        /\ ShownNamespaces' = SubSeq(doc'.namespaces, 1, Len(doc'.namespaces) - 1)
    BY <2>1, <2>2, <2>5, ShownFinished
  <2>7. ShownAttributes' = labels /\ ShownNamespaces' = <<>>
    <3>1. doc'.attributes = Marked(labels, MarkerLabel)
      BY <2>2, <2>3 DEF Marked
    <3>2. SubSeq(doc'.attributes, 1, Len(doc'.attributes) - 1) = labels
      BY <2>3, <3>1, MarkerTaken
    <3>3. SubSeq(<<>>, 1, Len(<<>>) - 1) = <<>>
      BY SubSeqEmpty
    <3> QED
      BY <2>2, <2>6, <3>2, <3>3
  <2>8. /\ FirstKinds(doc', 0) = <<>> /\ FirstParents(doc', 0) = <<>> /\ FirstValues(doc', 0) = <<>>
    BY DEF FirstKinds, FirstParents, FirstValues
  <2>9. /\ ShownKinds = <<>> /\ ShownParents = <<>> /\ ShownValues = <<>>
        /\ ShownAttributes = <<>> /\ ShownNamespaces = <<>> /\ Top(doc) = 0
    BY <1>1, <1>3, EmptyColumns, ShownBuilding
  <2>10. Top(doc)' = Top(doc)
    BY <2>4, <2>9
  <2> QED
    BY <1>2, <2>1, <2>6, <2>7, <2>8, <2>9, <2>10 DEF Tree!Attribute, labels
<1>4. CASE level # 0
  <2>1. doc' = Attribute(doc, n) /\ item' = "none" /\ ~seenContent
    BY <1>4, <1>1 DEF AttributeEvent, Continue, Accepting, AttributeAllowed
  <2>2. Depth(doc) > 0 /\ Top(doc) = Len(doc.nodes) /\ ~doc.textToCreate
    BY <1>1, <1>4, <2>1 DEF IInv, AtStartTag
  <2>3. /\ Building(doc') /\ Depth(doc') = Depth(doc)
        /\ Top(doc') = Top(doc) /\ Len(doc'.nodes) = Len(doc.nodes) /\ ~doc'.textToCreate
        /\ \A i \in NodeIdsOf(doc) : /\ doc'.nodes[i].nodeKind = doc.nodes[i].nodeKind
                                     /\ doc'.nodes[i].value = doc.nodes[i].value
                                     /\ ParentIn(doc', i) = ParentIn(doc, i)
        /\ doc'.attributes = Append(doc.attributes, Label(Top(doc), n))
        /\ doc'.namespaces = doc.namespaces /\ doc'.elementStack = doc.elementStack
    BY <1>1, <2>1, <2>2, AttributeBuilding
  <2>4. /\ TextWaits(doc') /\ Flushed(doc') = doc' /\ Flushed(doc) = doc
        /\ KindsOf(doc') = KindsOf(doc) /\ ParentsOf(doc') = ParentsOf(doc)
        /\ ValuesOf(doc') = ValuesOf(doc)
    BY <1>1, <2>2, <2>3, LabelColumns
  <2>5. /\ ShownKinds = KindsOf(doc) /\ ShownParents = ParentsOf(doc) /\ ShownValues = ValuesOf(doc)
        /\ ShownAttributes = doc.attributes /\ ShownNamespaces = doc.namespaces
    BY <1>1, <2>4, ShownBuilding
  <2>6. /\ ShownKinds' = KindsOf(doc') /\ ShownParents' = ParentsOf(doc') /\ ShownValues' = ValuesOf(doc')
        /\ ShownAttributes' = doc'.attributes /\ ShownNamespaces' = doc'.namespaces
    BY <2>1, <2>3, <2>4, ShownBuildingNext
  <2>7. Top(doc)' = Top(doc) /\ Top(doc) # 0
    BY <1>1, <2>2, <2>3, TopInside
  <2> QED
    BY <1>2, <2>3, <2>4, <2>5, <2>6, <2>7 DEF Tree!Attribute
<1> QED
  BY <1>3, <1>4

LEMMA NamespaceTree ==
  ASSUME TInv, NEW n \in Declarations, NamespaceEvent(n)
  PROVE  Tree!Declaration(n) /\ TextWaits(doc')
<1>1. /\ item = "none" /\ Building(doc) /\ TextWaits(doc) /\ Depth(doc) = level /\ level \in Nat
      /\ IInv /\ level > 0
  BY DEF TInv, IInv, NamespaceEvent, Accepting
<1>2. Label(Top(doc), n) = [owner |-> Top(doc), name |-> n]
  BY DEF Label
<1>3. doc' = Namespace(doc, n) /\ item' = "none" /\ ~seenContent
  BY DEF NamespaceEvent, Continue, Accepting, NamespaceAllowed
<1>4. Depth(doc) > 0 /\ Top(doc) = Len(doc.nodes) /\ ~doc.textToCreate
  BY <1>1, <1>3 DEF IInv, AtStartTag
<1>5. /\ Building(doc') /\ Depth(doc') = Depth(doc)
      /\ Top(doc') = Top(doc) /\ Len(doc'.nodes) = Len(doc.nodes) /\ ~doc'.textToCreate
      /\ \A i \in NodeIdsOf(doc) : /\ doc'.nodes[i].nodeKind = doc.nodes[i].nodeKind
                                   /\ doc'.nodes[i].value = doc.nodes[i].value
                                   /\ ParentIn(doc', i) = ParentIn(doc, i)
      /\ doc'.namespaces = Append(doc.namespaces, Label(Top(doc), n))
      /\ doc'.attributes = doc.attributes /\ doc'.elementStack = doc.elementStack
  BY <1>1, <1>3, <1>4, NamespaceBuilding
<1>6. /\ TextWaits(doc') /\ Flushed(doc') = doc' /\ Flushed(doc) = doc
      /\ KindsOf(doc') = KindsOf(doc) /\ ParentsOf(doc') = ParentsOf(doc)
      /\ ValuesOf(doc') = ValuesOf(doc)
  BY <1>1, <1>4, <1>5, LabelColumns
<1>7. /\ ShownKinds = KindsOf(doc) /\ ShownParents = ParentsOf(doc) /\ ShownValues = ValuesOf(doc)
      /\ ShownAttributes = doc.attributes /\ ShownNamespaces = doc.namespaces
  BY <1>1, <1>6, ShownBuilding
<1>8. /\ ShownKinds' = KindsOf(doc') /\ ShownParents' = ParentsOf(doc') /\ ShownValues' = ValuesOf(doc')
      /\ ShownAttributes' = doc'.attributes /\ ShownNamespaces' = doc'.namespaces
  BY <1>3, <1>5, <1>6, ShownBuildingNext
<1>9. Top(doc)' = Top(doc) /\ Top(doc) # 0
  BY <1>1, <1>4, <1>5, TopInside
<1> QED
  BY <1>2, <1>5, <1>6, <1>7, <1>8, <1>9 DEF Tree!Declaration

LEMMA InitTree == Init => Tree!Init /\ TInv
<1> SUFFICES ASSUME Init PROVE Tree!Init /\ TInv
  OBVIOUS
<1>1. IInv
  BY InitInvariant
<1>2. item = "none" /\ Building(doc) /\ Depth(doc) = 0
  BY <1>1 DEF Init, IInv
<1>3. /\ ShownKinds = <<>> /\ ShownParents = <<>> /\ ShownValues = <<>>
      /\ ShownAttributes = <<>> /\ ShownNamespaces = <<>> /\ Top(doc) = 0
  BY <1>2, EmptyColumns, ShownBuilding
<1>4. TextWaits(doc)
  BY <1>2 DEF TextWaits, ContainersAreNoTexts
<1> QED
  BY <1>1, <1>3, <1>4 DEF Tree!Init, TInv

LEMMA NextTree == TInv /\ [Next]_vars => TInv' /\ [Tree!Next]_(Tree!treevars)
<1> SUFFICES ASSUME TInv, [Next]_vars PROVE TInv' /\ [Tree!Next]_(Tree!treevars)
  OBVIOUS
<1>1. IInv'
  BY NextInvariant DEF TInv
<1>2. CASE StartDocumentEvent
  BY <1>1, <1>2, StartDocumentTree DEF TInv, Tree!Next
<1>3. ASSUME NEW n \in ElementNames, StartElementEvent(n)
      PROVE  TInv' /\ [Tree!Next]_(Tree!treevars)
  BY <1>1, <1>3, StartElementTree DEF TInv, Tree!Next
<1>4. CASE EndContainerEvent
  BY <1>1, <1>4, EndContainerTree DEF TInv, Tree!Next
<1>5. ASSUME NEW k \in Leaves, PIOrCommentEvent(k) PROVE TInv' /\ [Tree!Next]_(Tree!treevars)
  BY <1>1, <1>5, PIOrCommentTree DEF TInv, Tree!Next
<1>6. ASSUME NEW c \in Chunks, TextEvent(c) PROVE TInv' /\ [Tree!Next]_(Tree!treevars)
  BY <1>1, <1>6, TextTree DEF TInv, Tree!Next
<1>7. ASSUME NEW n \in AttributeNames, AttributeEvent(n) PROVE TInv' /\ [Tree!Next]_(Tree!treevars)
  BY <1>1, <1>7, AttributeTree DEF TInv, Tree!Next
<1>8. ASSUME NEW n \in Declarations, NamespaceEvent(n) PROVE TInv' /\ [Tree!Next]_(Tree!treevars)
  BY <1>1, <1>8, NamespaceTree DEF TInv, Tree!Next
<1>9. CASE UNCHANGED vars
  <2>1. UNCHANGED <<doc, item>>
    BY <1>9 DEF vars
  <2>2. Size' = Size
    BY <2>1 DEF Size, Finished
  <2>3. /\ ShownKinds' = ShownKinds /\ ShownParents' = ShownParents /\ ShownValues' = ShownValues
    BY <2>1, <2>2, ShownNow, ShownNext
  <2>4. ShownAttributes' = ShownAttributes /\ ShownNamespaces' = ShownNamespaces
    BY <2>1 DEF ShownAttributes, ShownNamespaces, Unmarked
  <2>5. Top(doc)' = Top(doc)
    BY <2>1
  <2>6. item' = "none" => TextWaits(doc')
    BY <2>1 DEF TInv
  <2> QED
    BY <1>1, <2>3, <2>4, <2>5, <2>6 DEF TInv, Tree!treevars
<1> QED
  BY <1>2, <1>3, <1>4, <1>5, <1>6, <1>7, <1>8, <1>9 DEF Next

\* While a document is built, text waits only where no text of the same parent
\* has been stored just before it.
THEOREM TreeInvariance == Spec => []TInv
<1>1. Init => TInv
  BY InitTree
<1>2. TInv /\ [Next]_vars => TInv'
  BY NextTree
<1> QED
  BY <1>1, <1>2, PTL DEF Spec

\* Every event adds to the tree what the event means: the arrays, with parents
\* told by the levels and with the text that still waits, are the tree in
\* document order, and the end of the document changes nothing of it.
THEOREM ImplementsTreeAlways == Spec => ImplementsTree
<1>1. Init => Tree!Init
  BY InitTree
<1>2. TInv /\ [Next]_vars => [Tree!Next]_(Tree!treevars)
  BY NextTree
<1> QED
  BY <1>1, <1>2, TreeInvariance, PTL DEF Spec, ImplementsTree, Tree!Spec

-----------------------------------------------------------------------------
(***************************************************************************)
(* Axes and order.  A finished document keeps the invariant of the one     *)
(* that was built, and a node's level is one more than its parent's, which *)
(* is an element or a document (Complete).  So the nodes inside node i are *)
(* those up to the next one of its level or a lower one (Inside), and each *)
(* walk is a recursion over places, along which what is still to come is   *)
(* one of the tree's sets.  The sequences are compared with these sets by  *)
(* Forward and Backward, which say that the one lists the other in order.  *)
(***************************************************************************)

-----------------------------------------------------------------------------
(***************************************************************************)
(* Levels and kinds                                                        *)
(***************************************************************************)
Containers == {"element", "document"}

\* The first n nodes of d are one tree: only the first has no parent, and the
\* parent of any other is a container one level up.
Nested(d, n) ==
  \A i \in 1..n :
    /\ d.nodes[i].level = 0 => i = 1
    /\ d.nodes[i].level > 0 =>
         /\ d.nodes[ParentIn(d, i)].level = d.nodes[i].level - 1
         /\ d.nodes[ParentIn(d, i)].nodeKind \in Containers

\* The open containers are containers.
Open(d) == \A k \in 1..Depth(d) : d.nodes[d.elementStack[k]].nodeKind \in Containers

Shaped(d) == Nested(d, Len(d.nodes)) /\ Open(d)

\* Labels come in the order of their owners, the marker aside.
Rising(labels) ==
  /\ \A j \in DOMAIN labels : labels[j].owner \in Nat
  /\ \A j, k \in DOMAIN labels :
       labels[j].owner # 0 /\ labels[k].owner # 0 /\ j < k => labels[j].owner <= labels[k].owner

\* A finished document: a tree of n nodes and the marker after them.
Complete(d, n) ==
  /\ d \in Documents /\ n \in Nat \ {0} /\ Len(d.nodes) = n + 1
  /\ \A i \in 1..n + 1 : d.nodes[i].level \in Nat
  /\ d.nodes[n + 1].level = 0
  /\ \A i \in 1..n : d.nodes[i].level > 0 => IsParent(d, ParentIn(d, i), i)
  /\ Nested(d, n)
  /\ Rising(d.attributes)

ShapeInv ==
  /\ IInv
  /\ item = "none" => Shaped(doc)
  /\ item = "node" => Complete(doc, Len(doc.nodes) - 1)


LEMMA ShapeOfNodes ==
  ASSUME NEW d, NEW e, e.nodes = d.nodes
  PROVE  \A n : Nested(e, n) <=> Nested(d, n)
<1>1. \A i : ParentIn(e, i) = ParentIn(d, i)
  BY DEF ParentIn
<1> QED
  BY <1>1 DEF Nested

\* The same levels, kinds and parents make the same shape.
LEMMA ShapeKept ==
  ASSUME NEW d \in Documents, NEW e, NEW n \in Nat, n <= Len(d.nodes), Parented(d), Nested(d, n),
         \A i \in 1..n : /\ e.nodes[i].level = d.nodes[i].level
                         /\ e.nodes[i].nodeKind = d.nodes[i].nodeKind
                         /\ ParentIn(e, i) = ParentIn(d, i)
  PROVE  Nested(e, n)
<1> SUFFICES ASSUME NEW i \in 1..n
             PROVE  /\ e.nodes[i].level = 0 => i = 1
                    /\ e.nodes[i].level > 0 =>
                         /\ e.nodes[ParentIn(e, i)].level = e.nodes[i].level - 1
                         /\ e.nodes[ParentIn(e, i)].nodeKind \in Containers
  BY DEF Nested
<1>1. Len(d.nodes) \in Nat /\ i \in NodeIdsOf(d) /\ d.nodes[i].level \in Nat
  BY NodeFields DEF NodeIdsOf
<1>2. e.nodes[i].level = d.nodes[i].level /\ ParentIn(e, i) = ParentIn(d, i)
  OBVIOUS
<1>3. e.nodes[i].level = 0 => i = 1
  BY <1>2 DEF Nested
<1>4. ASSUME e.nodes[i].level > 0
      PROVE  /\ e.nodes[ParentIn(e, i)].level = e.nodes[i].level - 1
             /\ e.nodes[ParentIn(e, i)].nodeKind \in Containers
  <2> DEFINE p == ParentIn(d, i)
  <2>1. d.nodes[p].level = d.nodes[i].level - 1 /\ d.nodes[p].nodeKind \in Containers
    BY <1>2, <1>4 DEF Nested
  <2>2. p \in 1..i - 1
    BY <1>1, <1>2, <1>4 DEF Parented, IsParent
  <2> HIDE DEF p
  <2>3. p \in 1..n
    BY <2>2
  <2>4. e.nodes[p].level = d.nodes[p].level /\ e.nodes[p].nodeKind = d.nodes[p].nodeKind
    BY <2>3
  <2> QED
    BY <1>2, <2>1, <2>4 DEF p
<1> QED
  BY <1>3, <1>4

\* A node that is stored is a child of the innermost container.
LEMMA StoredShape ==
  ASSUME NEW d, Building(d), Shaped(d), NEW node \in NodeRecords, node.level = Depth(d),
         node.nextSibling = 0, node.attributes = 0, node.namespaces = 0
  PROVE  LET e == Stored(d, node)
         IN /\ Nested(e, Len(d.nodes) + 1) /\ Len(e.nodes) = Len(d.nodes) + 1
            /\ e.nodes[Len(d.nodes) + 1] = node
            /\ \A i \in NodeIdsOf(d) : e.nodes[i].nodeKind = d.nodes[i].nodeKind
<1> DEFINE N == Len(d.nodes)
           D == Depth(d)
           e == Stored(d, node)
<1>1. /\ d \in Documents /\ Stores(d) /\ Stacked(d) /\ N \in Nat /\ D \in Nat /\ d.prevNode \in 0..N
      /\ IF D = 0 THEN N = 0 /\ d.prevNode = 0 ELSE Previous(d)
  BY Ready
<1>2. /\ Len(e.nodes) = N + 1 /\ e.nodes[N + 1] = node
      /\ \A i \in NodeIdsOf(d) : /\ e.nodes[i].level = d.nodes[i].level
                                 /\ e.nodes[i].nodeKind = d.nodes[i].nodeKind
  BY <1>1, StoredFields
<1>3. /\ ParentIn(e, N + 1) = Top(d)
      /\ \A i \in NodeIdsOf(d) : ParentIn(e, i) = ParentIn(d, i)
  BY <1>1, StoredStores
<1> HIDE DEF e
<1>4. Nested(d, N) /\ Open(d) /\ Parented(d)
  BY <1>1 DEF Shaped, Stores
<1>5. Nested(e, N)
  <2>1. \A i \in 1..N : /\ e.nodes[i].level = d.nodes[i].level
                        /\ e.nodes[i].nodeKind = d.nodes[i].nodeKind
                        /\ ParentIn(e, i) = ParentIn(d, i)
    BY <1>2, <1>3 DEF NodeIdsOf
  <2>2. N <= Len(d.nodes)
    BY <1>1
  <2> QED
    BY <1>1, <1>4, <2>1, <2>2, ShapeKept
<1>6. /\ node.level = 0 => N + 1 = 1
      /\ node.level > 0 => /\ e.nodes[Top(d)].level = node.level - 1
                           /\ e.nodes[Top(d)].nodeKind \in Containers
  <2>1. node.level = 0 => N + 1 = 1
    BY <1>1
  <2>2. ASSUME node.level > 0
        PROVE  /\ e.nodes[Top(d)].level = node.level - 1
               /\ e.nodes[Top(d)].nodeKind \in Containers
    <3>1. D \in 1..D /\ Top(d) = d.elementStack[D]
      BY <1>1, <2>2, StackFields
    <3>2. Top(d) \in NodeIdsOf(d) /\ d.nodes[Top(d)].level = D - 1 /\ d.nodes[Top(d)].nodeKind \in Containers
      BY <1>1, <1>4, <3>1 DEF Stacked, Open
    <3> QED
      BY <1>2, <3>2
  <2> QED
    BY <2>1, <2>2
<1>7. Nested(e, N + 1)
  <2> SUFFICES ASSUME NEW i \in 1..N + 1
               PROVE  /\ e.nodes[i].level = 0 => i = 1
                      /\ e.nodes[i].level > 0 =>
                           /\ e.nodes[ParentIn(e, i)].level = e.nodes[i].level - 1
                           /\ e.nodes[ParentIn(e, i)].nodeKind \in Containers
    BY DEF Nested
  <2>1. CASE i = N + 1
    BY <1>2, <1>3, <1>6, <2>1
  <2>2. CASE i # N + 1
    <3>1. i \in 1..N
      BY <1>1, <2>2
    <3> QED
      BY <1>5, <3>1 DEF Nested
  <2> QED
    BY <2>1, <2>2
<1> QED
  BY <1>2, <1>7 DEF e

\* Containers keep their kind.
LEMMA OpenKept ==
  ASSUME NEW d, Stacked(d), Open(d), NEW g, g.elementStack = d.elementStack,
         \A i \in NodeIdsOf(d) : g.nodes[i].nodeKind = d.nodes[i].nodeKind
  PROVE  Open(g)
<1>1. Depth(g) = Depth(d)
  BY DEF Depth
<1>2. \A k \in 1..Depth(d) : d.elementStack[k] \in NodeIdsOf(d)
  BY DEF Stacked
<1> QED
  BY <1>1, <1>2 DEF Open

LEMMA FlushedShape ==
  ASSUME NEW d, Building(d), Shaped(d)
  PROVE  Shaped(Flushed(d))
<1> DEFINE f == Flushed(d)
           node == Node("text", Depth(d), d.text)
<1>1. /\ d \in Documents /\ Stacked(d) /\ Depth(d) \in Nat /\ Open(d) /\ Nested(d, Len(d.nodes))
  BY Ready DEF Shaped
<1>2. f.elementStack = d.elementStack
  BY FlushedBuilding
<1>3. CASE ~(d.textToCreate /\ d.text # <<>>)
  <2>1. f.nodes = d.nodes
    BY <1>3, FlushedNodes
  <2> HIDE DEF f
  <2>2. Nested(f, Len(f.nodes))
    BY <1>1, <2>1, ShapeOfNodes
  <2>3. Open(f)
    BY <1>1, <1>2, <2>1, OpenKept
  <2> QED
    BY <2>2, <2>3 DEF Shaped, f
<1>4. CASE d.textToCreate /\ d.text # <<>>
  <2>1. f.nodes = Stored(d, node).nodes
    BY <1>4, FlushedNodes
  <2>2. node \in NodeRecords /\ node.level = Depth(d) /\ node.nextSibling = 0
        /\ node.attributes = 0 /\ node.namespaces = 0
    BY <1>1, TextNode DEF Node
  <2> HIDE DEF node, f
  <2>3. /\ Nested(Stored(d, node), Len(d.nodes) + 1)
        /\ Len(Stored(d, node).nodes) = Len(d.nodes) + 1
        /\ \A i \in NodeIdsOf(d) : Stored(d, node).nodes[i].nodeKind = d.nodes[i].nodeKind
    BY <2>2, StoredShape
  <2>4. Nested(f, Len(f.nodes))
    BY <2>1, <2>3, ShapeOfNodes
  <2>5. Open(f)
    BY <1>1, <1>2, <2>1, <2>3, OpenKept
  <2> QED
    BY <2>4, <2>5 DEF Shaped, f
<1> QED
  BY <1>3, <1>4


LEMMA OpenedShape ==
  ASSUME NEW f, Building(f), Shaped(f), ~f.textToCreate, f.text = <<>>, NEW node \in NodeRecords,
         node.level = Depth(f), node.nextSibling = 0, node.attributes = 0, node.namespaces = 0,
         node.nodeKind \in Containers
  PROVE  Shaped(Opened(f, node))
<1> DEFINE N == Len(f.nodes)
           D == Depth(f)
           x == Stored(f, node)
           g == Opened(f, node)
<1>1. /\ f \in Documents /\ Stacked(f) /\ N \in Nat /\ D \in Nat
      /\ f.elementStack \in Seq(Nat) /\ Open(f)
  BY Ready, DocumentFields DEF Shaped
<1>2. /\ Nested(x, N + 1) /\ Len(x.nodes) = N + 1 /\ x.nodes[N + 1] = node
      /\ \A i \in NodeIdsOf(f) : x.nodes[i].nodeKind = f.nodes[i].nodeKind
  BY StoredShape
<1>3. /\ Depth(g) = D + 1 /\ g.nodes = x.nodes /\ g.elementStack = Append(f.elementStack, N + 1)
  BY OpenedBuilding
<1> HIDE DEF x, g
<1>4. Nested(g, Len(g.nodes))
  BY <1>2, <1>3, ShapeOfNodes
<1>5. Open(g)
  <2> SUFFICES ASSUME NEW k \in 1..D + 1 PROVE g.nodes[g.elementStack[k]].nodeKind \in Containers
    BY <1>3 DEF Open
  <2>1. /\ g.elementStack[D + 1] = N + 1
        /\ \A m \in 1..D : g.elementStack[m] = f.elementStack[m]
    BY <1>1, <1>3, AppendProperties DEF Depth
  <2>2. CASE k = D + 1
    BY <1>2, <1>3, <2>1, <2>2
  <2>3. CASE k # D + 1
    <3>1. k \in 1..D
      BY <1>1, <2>3
    <3>2. f.elementStack[k] \in NodeIdsOf(f) /\ f.nodes[f.elementStack[k]].nodeKind \in Containers
      BY <1>1, <3>1 DEF Stacked, Open
    <3> QED
      BY <1>2, <1>3, <2>1, <3>1, <3>2
  <2> QED
    BY <2>2, <2>3
<1> QED
  BY <1>4, <1>5 DEF Shaped, g

LEMMA StartDocumentShape ==
  ASSUME NEW d, Building(d), Shaped(d), Depth(d) = 0
  PROVE  Shaped(StartDocument(d))
<1> DEFINE node == Node("document", 0, <<>>)
<1>1. StartDocument(d) = Opened(d, node)
  BY StartDocumentBuilding
<1>2. /\ node \in NodeRecords /\ node.level = 0 /\ node.nextSibling = 0
      /\ node.attributes = 0 /\ node.namespaces = 0 /\ node.nodeKind \in Containers
  BY DEF Node, NodeRecords, Kinds, Values, Containers
<1>3. ~d.textToCreate /\ d.text = <<>>
  BY DEF Building, Empty
<1> HIDE DEF node
<1> QED
  BY <1>1, <1>2, <1>3, OpenedShape

LEMMA StartElementShape ==
  ASSUME NEW d, Building(d), Shaped(d), NEW n \in ElementNames
  PROVE  Shaped(StartElement(d, n))
<1> DEFINE f == Flushed(d)
           node == Node("element", Depth(d), n)
<1>1. /\ Building(f) /\ ~f.textToCreate /\ f.text = <<>> /\ f.elementStack = d.elementStack /\ Shaped(f)
  BY FlushedBuilding, FlushedShape
<1>2. Depth(f) = Depth(d) /\ Depth(d) \in Nat
  BY <1>1, Ready DEF Depth
<1>3. /\ node \in NodeRecords /\ node.level = Depth(f) /\ node.nextSibling = 0
      /\ node.attributes = 0 /\ node.namespaces = 0 /\ node.nodeKind \in Containers
  BY <1>2 DEF Node, NodeRecords, Kinds, Values, Containers
<1>4. StartElement(d, n) = Opened(f, node)
  BY StartElementBuilding
<1> HIDE DEF f, node
<1> QED
  BY <1>1, <1>3, <1>4, OpenedShape

LEMMA PIOrCommentShape ==
  ASSUME NEW d, Building(d), Shaped(d), Depth(d) > 0, NEW k \in Kinds
  PROVE  Shaped(PIOrComment(d, k))
<1> DEFINE f == Flushed(d)
           node == Node(k, Depth(d), <<>>)
           g == Stored(f, node)
<1>1. Building(f) /\ f.elementStack = d.elementStack /\ Shaped(f)
  BY FlushedBuilding, FlushedShape
<1>2. Depth(f) = Depth(d) /\ Depth(d) \in Nat /\ Stacked(f) /\ Open(f) /\ f \in Documents
      /\ f.prevNode \in 0..Len(f.nodes)
  BY <1>1, Ready DEF Depth, Shaped
<1>3. /\ node \in NodeRecords /\ node.level = Depth(f) /\ node.nextSibling = 0
      /\ node.attributes = 0 /\ node.namespaces = 0
  BY <1>2 DEF Node, NodeRecords, Values
<1>4. PIOrComment(d, k) = g
  BY DEF PIOrComment
<1> HIDE DEF f, node
<1>5. /\ Nested(g, Len(f.nodes) + 1) /\ Len(g.nodes) = Len(f.nodes) + 1
      /\ \A i \in NodeIdsOf(f) : g.nodes[i].nodeKind = f.nodes[i].nodeKind
  BY <1>1, <1>3, StoredShape
<1>6. g.elementStack = f.elementStack
  BY <1>2, <1>3, StoredFields
<1>7. Open(g)
  BY <1>2, <1>5, <1>6, OpenKept
<1> QED
  BY <1>4, <1>5, <1>7 DEF Shaped

LEMMA TextShape ==
  ASSUME NEW d, Building(d), Shaped(d), NEW c
  PROVE  Shaped(Text(d, c))
<1> DEFINE g == Text(d, c)
<1>1. d \in Documents /\ Stacked(d)
  BY Ready
<1>2. g.nodes = d.nodes /\ g.elementStack = d.elementStack
  BY <1>1 DEF Text, Documents
<1> HIDE DEF g
<1>3. Nested(g, Len(g.nodes)) /\ Open(g)
  BY <1>1, <1>2, ShapeOfNodes, OpenKept DEF Shaped
<1> QED
  BY <1>3 DEF Shaped, g

\* An end tag changes no node but the text before it, and the stack.
LEMMA EndContainerShape ==
  ASSUME NEW d, Building(d), Shaped(d), Depth(d) > 1
  PROVE  Shaped(EndContainer(d))
<1> DEFINE f == Flushed(d)
           g == EndContainer(d)
<1>1. /\ g.nodes = f.nodes /\ Depth(g) = Depth(d) - 1
      /\ \A k \in 1..Depth(d) - 1 : g.elementStack[k] = d.elementStack[k]
  BY Ready, EndContainerBuilding
<1>2. Building(f) /\ f.elementStack = d.elementStack /\ Shaped(f) /\ Depth(d) \in Nat /\ Depth(f) = Depth(d)
  BY FlushedBuilding, FlushedShape, Ready DEF Depth
<1> HIDE DEF f, g
<1>3. Nested(g, Len(g.nodes))
  BY <1>1, <1>2, ShapeOfNodes DEF Shaped
<1>4. Open(g)
  <2> SUFFICES ASSUME NEW k \in 1..Depth(d) - 1 PROVE g.nodes[g.elementStack[k]].nodeKind \in Containers
    BY <1>1 DEF Open
  <2>1. k \in 1..Depth(f)
    BY <1>2
  <2>2. f.nodes[f.elementStack[k]].nodeKind \in Containers
    BY <1>2, <2>1 DEF Shaped, Open
  <2> QED
    BY <1>1, <1>2, <2>2
<1> QED
  BY <1>3, <1>4 DEF Shaped, g

\* A label leaves levels and kinds alone.
LEMMA LabelShape ==
  ASSUME NEW d, Building(d), Shaped(d), NEW g, g.elementStack = d.elementStack,
         Len(g.nodes) = Len(d.nodes),
         \A i \in NodeIdsOf(d) : /\ g.nodes[i].nodeKind = d.nodes[i].nodeKind
                                 /\ g.nodes[i].level = d.nodes[i].level
                                 /\ ParentIn(g, i) = ParentIn(d, i)
  PROVE  Shaped(g)
<1>1. d \in Documents /\ Stacked(d) /\ Parented(d) /\ Len(d.nodes) \in Nat /\ Len(d.nodes) <= Len(d.nodes)
  BY Ready DEF Stores
<1>2. Nested(d, Len(d.nodes)) /\ Open(d)
  BY DEF Shaped
<1>3. \A i \in 1..Len(d.nodes) : /\ g.nodes[i].level = d.nodes[i].level
                                 /\ g.nodes[i].nodeKind = d.nodes[i].nodeKind
                                 /\ ParentIn(g, i) = ParentIn(d, i)
  BY DEF NodeIdsOf
<1>4. Nested(g, Len(d.nodes))
  BY <1>1, <1>2, <1>3, ShapeKept
<1>5. Open(g)
  BY <1>1, <1>2, OpenKept
<1> QED
  BY <1>4, <1>5 DEF Shaped

LEMMA AttributeShape ==
  ASSUME NEW d, Building(d), Shaped(d), Depth(d) > 0, Top(d) = Len(d.nodes), ~d.textToCreate,
         NEW n \in AttributeNames
  PROVE  Shaped(Attribute(d, n))
<1> DEFINE g == Attribute(d, n)
           first == Top(d) # 0 /\ d.nodes[Top(d)].attributes = 0
           nodes == IF first THEN [d.nodes EXCEPT ![Top(d)].attributes = Len(d.attributes) + 1] ELSE d.nodes
<1>1. d \in Documents
  BY Ready
<1>2. g.nodes = nodes
  BY <1>1 DEF Attribute, Documents
<1>3. d.nodes \in Seq(NodeRecords) /\ DOMAIN d.nodes = NodeIdsOf(d)
  BY <1>1, DocumentFields, NodeFields
<1>4. \A i \in NodeIdsOf(d) : nodes[i].level = d.nodes[i].level
  <2> SUFFICES ASSUME NEW i \in NodeIdsOf(d) PROVE nodes[i].level = d.nodes[i].level
    OBVIOUS
  <2>1. d.nodes[i] \in NodeRecords
    BY <1>1, NodeFields
  <2> QED
    BY <1>3, <2>1 DEF NodeRecords
<1>5. /\ Len(g.nodes) = Len(d.nodes) /\ g.elementStack = d.elementStack
      /\ \A i \in NodeIdsOf(d) : /\ g.nodes[i].nodeKind = d.nodes[i].nodeKind
                                 /\ ParentIn(g, i) = ParentIn(d, i)
  BY AttributeBuilding
<1> HIDE DEF nodes, g
<1>6. \A i \in NodeIdsOf(d) : /\ g.nodes[i].nodeKind = d.nodes[i].nodeKind
                              /\ g.nodes[i].level = d.nodes[i].level
                              /\ ParentIn(g, i) = ParentIn(d, i)
  BY <1>2, <1>4, <1>5
<1> QED
  BY <1>5, <1>6, LabelShape DEF g

LEMMA NamespaceShape ==
  ASSUME NEW d, Building(d), Shaped(d), Depth(d) > 0, Top(d) = Len(d.nodes), ~d.textToCreate,
         NEW n \in Declarations
  PROVE  Shaped(Namespace(d, n))
<1> DEFINE g == Namespace(d, n)
           first == d.nodes[Top(d)].namespaces = 0
           nodes == IF first THEN [d.nodes EXCEPT ![Top(d)].namespaces = Len(d.namespaces) + 1] ELSE d.nodes
<1>1. d \in Documents
  BY Ready
<1>2. g.nodes = nodes
  BY <1>1 DEF Namespace, Documents
<1>3. d.nodes \in Seq(NodeRecords) /\ DOMAIN d.nodes = NodeIdsOf(d)
  BY <1>1, DocumentFields, NodeFields
<1>4. \A i \in NodeIdsOf(d) : nodes[i].level = d.nodes[i].level
  <2> SUFFICES ASSUME NEW i \in NodeIdsOf(d) PROVE nodes[i].level = d.nodes[i].level
    OBVIOUS
  <2>1. d.nodes[i] \in NodeRecords
    BY <1>1, NodeFields
  <2> QED
    BY <1>3, <2>1 DEF NodeRecords
<1>5. /\ Len(g.nodes) = Len(d.nodes) /\ g.elementStack = d.elementStack
      /\ \A i \in NodeIdsOf(d) : /\ g.nodes[i].nodeKind = d.nodes[i].nodeKind
                                 /\ ParentIn(g, i) = ParentIn(d, i)
  BY NamespaceBuilding
<1> HIDE DEF nodes, g
<1>6. \A i \in NodeIdsOf(d) : /\ g.nodes[i].nodeKind = d.nodes[i].nodeKind
                              /\ g.nodes[i].level = d.nodes[i].level
                              /\ ParentIn(g, i) = ParentIn(d, i)
  BY <1>2, <1>4, <1>5
<1> QED
  BY <1>5, <1>6, LabelShape DEF g


-----------------------------------------------------------------------------
(***************************************************************************)
(* Finished documents                                                      *)
(***************************************************************************)
\* Labels in runs come in the order of their owners, and the marker after them
\* belongs to nobody.
LEMMA MarkedRising ==
  ASSUME NEW labels \in Seq(LabelRecords),
         \A j \in 1..Len(labels) : \A k \in j..Len(labels) : labels[j].owner <= labels[k].owner
  PROVE  Rising(Marked(labels, MarkerLabel))
<1> DEFINE L == Len(labels)
           more == Marked(labels, MarkerLabel)
<1>1. MarkerLabel \in LabelRecords /\ MarkerLabel.owner = 0 /\ L \in Nat
  BY LenProperties DEF MarkerLabel, Label, LabelRecords
<1>2. CASE labels = <<>>
  BY <1>2 DEF Marked, Rising
<1>3. CASE labels # <<>>
  <2>1. more = Append(labels, MarkerLabel)
    BY <1>3 DEF Marked
  <2>2. /\ more \in Seq(LabelRecords) /\ DOMAIN more = 1..L + 1
        /\ \A j \in 1..L : more[j] = labels[j]
        /\ more[L + 1].owner = 0
    BY <1>1, <2>1, AppendProperties
  <2> HIDE DEF more
  <2>3. \A j \in DOMAIN more : more[j].owner \in Nat
    <3>1. \A j \in DOMAIN more : more[j] \in LabelRecords
      BY <2>2
    <3> QED
      BY <3>1 DEF LabelRecords
  <2>4. ASSUME NEW j \in DOMAIN more, NEW k \in DOMAIN more,
               more[j].owner # 0, more[k].owner # 0, j < k
        PROVE  more[j].owner <= more[k].owner
    <3>1. j \in 1..L /\ k \in j..L /\ k \in 1..L
      BY <1>1, <2>2, <2>4
    <3> QED
      BY <2>2, <3>1
  <2> QED
    BY <2>3, <2>4 DEF Rising, more
<1> QED
  BY <1>2, <1>3

\* The end event leaves the tree as it is and puts the marker behind it.
LEMMA EndComplete ==
  ASSUME NEW f \in Documents, Parented(f), Nested(f, Len(f.nodes)), Len(f.nodes) > 0,
         \A j \in 1..Len(f.attributes) : \A k \in j..Len(f.attributes) :
            f.attributes[j].owner <= f.attributes[k].owner,
         NEW e \in Documents, Len(e.nodes) = Len(f.nodes) + 1, e.nodes[Len(e.nodes)].level = 0,
         \A i \in NodeIdsOf(f) : e.nodes[i] = f.nodes[i] /\ ParentIn(e, i) = ParentIn(f, i),
         e.attributes = Marked(f.attributes, MarkerLabel)
  PROVE  Complete(e, Len(f.nodes))
<1> DEFINE N == Len(f.nodes)
<1>1. N \in Nat /\ N \in Nat \ {0} /\ Len(e.nodes) = N + 1 /\ N <= N /\ f.attributes \in Seq(LabelRecords)
  BY NodeFields, DocumentFields
<1>2. \A i \in 1..N + 1 : e.nodes[i].level \in Nat
  BY NodeFields DEF NodeIdsOf
<1>3. /\ \A i \in 1..N : e.nodes[i].level = f.nodes[i].level /\ e.nodes[i].nodeKind = f.nodes[i].nodeKind
                         /\ ParentIn(e, i) = ParentIn(f, i)
  BY DEF NodeIdsOf
<1>4. ASSUME NEW i \in 1..N, e.nodes[i].level > 0 PROVE IsParent(e, ParentIn(e, i), i)
  <2>1. i \in NodeIdsOf(f) /\ Len(f.nodes) <= Len(e.nodes)
        /\ \A k \in NodeIdsOf(f) : e.nodes[k].level = f.nodes[k].level
    BY <1>1, <1>3 DEF NodeIdsOf
  <2> QED
    BY <1>4, <2>1, ParentKept
<1>5. Nested(e, N)
  BY <1>1, <1>3, ShapeKept
<1>6. Rising(e.attributes)
  BY <1>1, MarkedRising
<1> QED
  BY <1>1, <1>2, <1>4, <1>5, <1>6 DEF Complete

LEMMA AloneComplete ==
  ASSUME NEW e, NEW k, NEW v, Alone(e, k, v)
  PROVE  Complete(e, 1)
<1>1. /\ e \in Documents /\ Len(e.nodes) = 2 /\ e.nodes[1].level = 0 /\ e.nodes[2].level = 0
      /\ e.attributes = <<>>
  BY DEF Alone
<1>2. \A i \in 1..2 : i = 1 \/ i = 2
  OBVIOUS
<1>3. \A i \in 1..2 : e.nodes[i].level = 0
  BY <1>1, <1>2
<1>4. \A i \in 1..1 : i = 1 /\ e.nodes[i].level = 0
  BY <1>1
<1>5. Nested(e, 1)
  BY <1>4 DEF Nested
<1>6. Rising(e.attributes)
  BY <1>1 DEF Rising
<1> QED
  BY <1>1, <1>3, <1>4, <1>5, <1>6 DEF Complete

LEMMA ContainerComplete ==
  ASSUME NEW d, Building(d), Shaped(d), Depth(d) = 1
  PROVE  LET e == EndEvent(EndContainer(d)) IN Complete(e, Len(e.nodes) - 1)
<1> DEFINE f == Flushed(d)
           e == EndEvent(EndContainer(d))
<1>1. Building(f) /\ Shaped(f) /\ f.attributes = d.attributes /\ f.elementStack = d.elementStack
  BY FlushedBuilding, FlushedShape
<1>2. /\ f \in Documents /\ Parented(f) /\ Labelled(f) /\ Stacked(f) /\ Len(f.nodes) \in Nat
      /\ Nested(f, Len(f.nodes)) /\ Depth(f) = 1
  BY <1>1, Ready DEF Stores, Shaped, Depth
<1>3. Len(f.nodes) > 0
  <2>1. f.elementStack[1] \in 1..Len(f.nodes)
    BY <1>2 DEF Stacked, NodeIdsOf
  <2> QED
    BY <1>2, <2>1
<1>4. /\ e \in Documents /\ Len(e.nodes) = Len(f.nodes) + 1 /\ e.nodes[Len(e.nodes)].level = 0
      /\ \A i \in NodeIdsOf(f) : e.nodes[i] = f.nodes[i] /\ ParentIn(e, i) = ParentIn(f, i)
      /\ e.attributes = Marked(d.attributes, MarkerLabel)
  BY ContainerEnds
<1>5. \A j \in 1..Len(f.attributes) : \A k \in j..Len(f.attributes) :
         f.attributes[j].owner <= f.attributes[k].owner
  BY <1>2 DEF Labelled, InRuns
<1> HIDE DEF e, f
<1>6. Complete(e, Len(f.nodes))
  BY <1>1, <1>2, <1>3, <1>4, <1>5, EndComplete
<1>7. Len(e.nodes) - 1 = Len(f.nodes)
  BY <1>2, <1>4
<1> QED
  BY <1>6, <1>7 DEF e

-----------------------------------------------------------------------------
(***************************************************************************)
(* The shape is kept                                                       *)
(***************************************************************************)
LEMMA InitShape == Init => ShapeInv
<1> SUFFICES ASSUME Init PROVE ShapeInv
  OBVIOUS
<1>1. IInv /\ item = "none" /\ level = 0
  BY InitInvariant DEF Init
<1>2. Building(doc) /\ Depth(doc) = 0 /\ Len(doc.nodes) = 0
  BY <1>1, Ready DEF IInv
<1>3. Shaped(doc)
  BY <1>2 DEF Shaped, Nested, Open
<1> QED
  BY <1>1, <1>3 DEF ShapeInv

LEMMA NextShape ==
  ASSUME ShapeInv, [Next]_vars PROVE ShapeInv'
<1>0. IInv /\ IInv'
  BY NextInvariant DEF ShapeInv
<1>a. SUFFICES ASSUME Next
               PROVE  /\ item' = "none" => Shaped(doc')
                      /\ item' = "node" => Complete(doc', Len(doc'.nodes) - 1)
  BY <1>0 DEF ShapeInv, vars
<1>b. item = "none" => Building(doc) /\ Shaped(doc) /\ Depth(doc) = level /\ level \in Nat
  BY DEF ShapeInv, IInv
<1>1. CASE StartDocumentEvent
  <2>1. Building(doc) /\ Shaped(doc) /\ Depth(doc) = 0 /\ doc' = StartDocument(doc) /\ item' = "none"
    BY <1>b, <1>1 DEF StartDocumentEvent, Accepting, Continue
  <2> QED
    BY <2>1, StartDocumentShape
<1>2. CASE \E n \in ElementNames : StartElementEvent(n)
  <2>1. PICK n \in ElementNames : StartElementEvent(n)
    BY <1>2
  <2>2. Building(doc) /\ Shaped(doc) /\ doc' = StartElement(doc, n) /\ item' = "none"
    BY <1>b, <2>1 DEF StartElementEvent, Accepting, Continue
  <2> QED
    BY <2>2, StartElementShape
<1>3. CASE EndContainerEvent
  <2>1. Building(doc) /\ Shaped(doc) /\ Depth(doc) = level /\ level \in Nat /\ level > 0
    BY <1>b, <1>3 DEF EndContainerEvent, Accepting
  <2>2. CASE level = 1
    <3>1. doc' = EndEvent(EndContainer(doc)) /\ item' = "node"
      BY <1>3, <2>2 DEF EndContainerEvent, Finish
    <3> QED
      BY <2>1, <2>2, <3>1, ContainerComplete
  <2>3. CASE level # 1
    <3>1. doc' = EndContainer(doc) /\ item' = "none" /\ Depth(doc) > 1
      BY <1>3, <2>1, <2>3 DEF EndContainerEvent, Continue, Accepting
    <3> QED
      BY <2>1, <3>1, EndContainerShape
  <2> QED
    BY <2>2, <2>3
<1>4. CASE \E k \in Leaves : PIOrCommentEvent(k)
  <2>1. PICK k \in Leaves : PIOrCommentEvent(k)
    BY <1>4
  <2>2. Building(doc) /\ Shaped(doc) /\ Depth(doc) = level /\ level \in Nat /\ k \in Kinds
    BY <1>b, <2>1, LeafKinds DEF PIOrCommentEvent, Accepting
  <2>3. CASE level = 0
    <3>1. doc' = EndEvent(PIOrComment(NewDocument(1, 0, 0), k)) /\ item' = "node"
      BY <2>1, <2>3 DEF PIOrCommentEvent, Finish
    <3>2. Alone(doc', k, <<>>)
      BY <2>2, <3>1, PIOrCommentAlone
    <3>3. Complete(doc', 1)
      BY <3>2, AloneComplete
    <3>4. Len(doc'.nodes) = 2
      BY <3>2 DEF Alone
    <3>5. Len(doc'.nodes) - 1 = 1
      BY <3>4
    <3> QED
      BY <3>1, <3>3, <3>5
  <2>4. CASE level # 0
    <3>1. doc' = PIOrComment(doc, k) /\ item' = "none" /\ Depth(doc) > 0
      BY <2>1, <2>2, <2>4 DEF PIOrCommentEvent, Continue, Accepting
    <3> QED
      BY <2>2, <3>1, PIOrCommentShape
  <2> QED
    BY <2>3, <2>4
<1>5. CASE \E c \in Chunks : TextEvent(c)
  <2>1. PICK c \in Chunks : TextEvent(c)
    BY <1>5
  <2>2. Building(doc) /\ Shaped(doc) /\ Depth(doc) = level /\ level \in Nat /\ c \in Seq(STRING)
    BY <1>b, <2>1, ChunksAssumption DEF TextEvent, Accepting
  <2>3. CASE level = 0
    <3>1. doc' = EndEvent(Text(NewDocument(1, 0, 0), c)) /\ item' = "node"
      BY <2>1, <2>3 DEF TextEvent, Finish
    <3>2. Alone(doc', "text", c)
      BY <2>2, <3>1, TextAlone
    <3>3. Complete(doc', 1)
      BY <3>2, AloneComplete
    <3>4. Len(doc'.nodes) = 2
      BY <3>2 DEF Alone
    <3>5. Len(doc'.nodes) - 1 = 1
      BY <3>4
    <3> QED
      BY <3>1, <3>3, <3>5
  <2>4. CASE level # 0
    <3>1. doc' = Text(doc, c) /\ item' = "none"
      BY <2>1, <2>4 DEF TextEvent, Continue, Accepting
    <3> QED
      BY <2>2, <3>1, TextShape
  <2> QED
    BY <2>3, <2>4
<1>6. CASE \E n \in AttributeNames : AttributeEvent(n)
  <2>1. PICK n \in AttributeNames : AttributeEvent(n)
    BY <1>6
  <2>2. Building(doc) /\ Shaped(doc) /\ Depth(doc) = level /\ level \in Nat
    BY <1>b, <2>1 DEF AttributeEvent, Accepting
  <2>3. CASE level = 0
    BY <2>1, <2>3 DEF AttributeEvent, Finish
  <2>4. CASE level # 0
    <3>1. doc' = Attribute(doc, n) /\ item' = "none" /\ ~seenContent /\ level > 0
      BY <2>1, <2>2, <2>4 DEF AttributeEvent, Continue, Accepting, AttributeAllowed
    <3>2. Top(doc) = Len(doc.nodes) /\ ~doc.textToCreate /\ item = "none"
      BY <1>0, <2>1, <3>1 DEF IInv, AtStartTag, AttributeEvent, Accepting
    <3> QED
      BY <2>2, <3>1, <3>2, AttributeShape
  <2> QED
    BY <2>3, <2>4
<1>7. CASE \E n \in Declarations : NamespaceEvent(n)
  <2>1. PICK n \in Declarations : NamespaceEvent(n)
    BY <1>7
  <2>2. Building(doc) /\ Shaped(doc) /\ Depth(doc) = level /\ level > 0 /\ item = "none"
    BY <1>b, <2>1 DEF NamespaceEvent, Accepting
  <2>3. doc' = Namespace(doc, n) /\ item' = "none" /\ ~seenContent
    BY <2>1 DEF NamespaceEvent, Continue, Accepting, NamespaceAllowed
  <2>4. Top(doc) = Len(doc.nodes) /\ ~doc.textToCreate
    BY <1>0, <2>2, <2>3 DEF IInv, AtStartTag
  <2> QED
    BY <2>2, <2>3, <2>4, NamespaceShape
<1> QED
  BY <1>a, <1>1, <1>2, <1>3, <1>4, <1>5, <1>6, <1>7 DEF Next

\* What the events have built, and what they leave, is one tree: only its first
\* node has no parent, and a parent is an element or document one level up.
THEOREM ShapeInvariance == Spec => []ShapeInv
<1>1. Init => ShapeInv
  BY InitShape
<1>2. ShapeInv /\ [Next]_vars => ShapeInv'
  BY NextShape
<1> QED
  BY <1>1, <1>2, PTL DEF Spec


-----------------------------------------------------------------------------
(***************************************************************************)
(* The order of nodes                                                      *)
(***************************************************************************)
LEMMA FinishedComplete ==
  ASSUME ShapeInv, Finished
  PROVE  Complete(doc, Size) /\ NodeIds = 1..Size /\ Size \in Nat \ {0} /\ Len(doc.nodes) = Size + 1
<1>1. item = "node" /\ Complete(doc, Len(doc.nodes) - 1)
  BY DEF ShapeInv, Finished
<1>2. Size = Len(doc.nodes) - 1
  BY DEF Size, Finished
<1> QED
  BY <1>1, <1>2 DEF Complete, NodeIds

LEMMA RefFields ==
  ASSUME ShapeInv, Finished, NEW x \in Refs
  PROVE  /\ x \in [type : {"node", "attribute", "namespace"}, at : Nat, order : 0..1]
         /\ x.type = "node" => x.at # 0 /\ x.order = 0
         /\ x.type = "attribute" =>
              /\ x.at \in DOMAIN doc.attributes /\ x.order = 0
              /\ doc.attributes[x.at].owner \in Nat \ {0}
         /\ x.type = "namespace" => x.order = 0 \/ x.at = 0
<1>1. NodeIds = 1..Size /\ Size \in Nat /\ Rising(doc.attributes)
  BY FinishedComplete DEF Complete
<1>2. /\ \A a \in DOMAIN doc.attributes : a \in Nat /\ doc.attributes[a].owner \in Nat
  <2>1. doc.attributes \in Seq(LabelRecords)
    BY FinishedComplete, DocumentFields DEF Complete
  <2>2. DOMAIN doc.attributes = 1..Len(doc.attributes) /\ Len(doc.attributes) \in Nat
    BY <2>1, LenProperties
  <2> QED
    BY <1>1, <2>2 DEF Rising
<1>3. CASE \E i \in NodeIds : x = NodeRef(i)
  BY <1>1, <1>3 DEF NodeRef
<1>4. CASE \E a \in DOMAIN doc.attributes : doc.attributes[a].owner # 0 /\ x = AttributeRef(a)
  BY <1>2, <1>4 DEF AttributeRef
<1>5. CASE \E i \in NodeIds : x = NamespaceRef(i, 0)
  BY <1>1, <1>5 DEF NamespaceRef
<1>6. CASE \E n \in 0..1 : x = NamespaceRef(0, n)
  BY <1>6 DEF NamespaceRef
<1> QED
  BY <1>3, <1>4, <1>5, <1>6 DEF Refs, StoredRefs, NamespaceRefs, FreeRefs


\* Attributes are stored in the order of their owners.
LEMMA AttributesRise ==
  ASSUME ShapeInv, Finished, NEW x \in Refs, NEW y \in Refs,
         x.type = "attribute", y.type = "attribute", x.at < y.at
  PROVE  Owner(x) <= Owner(y)
<1>1. Rising(doc.attributes)
  BY FinishedComplete DEF Complete
<1>2. /\ x.at \in DOMAIN doc.attributes /\ doc.attributes[x.at].owner # 0
      /\ y.at \in DOMAIN doc.attributes /\ doc.attributes[y.at].owner # 0
  BY RefFields
<1> QED
  BY <1>1, <1>2 DEF Rising, Owner

\* What the six comparisons of the three classes come to.
LEMMA Comparisons ==
  ASSUME ShapeInv, Finished, NEW x \in Refs, NEW y \in Refs
  PROVE  /\ x.at \in Nat /\ y.at \in Nat /\ x.order \in 0..1 /\ y.order \in 0..1
         /\ Owner(x) \in Nat /\ Owner(y) \in Nat
         /\ x.type \in {"node", "attribute", "namespace"}
         /\ y.type \in {"node", "attribute", "namespace"}
         /\ x.type # "attribute" => Owner(x) = x.at
         /\ y.type # "attribute" => Owner(y) = y.at
         /\ x.type # "namespace" => Owner(x) > 0 /\ x.order = 0
         /\ y.type # "namespace" => Owner(y) > 0 /\ y.order = 0
         /\ x.type = "namespace" => x.order = 0 \/ x.at = 0
         /\ y.type = "namespace" => y.order = 0 \/ y.at = 0
         /\ (Free(x) <=> x.type = "namespace" /\ x.at = 0)
         /\ (Free(y) <=> y.type = "namespace" /\ y.at = 0)
         /\ (x = y <=> x.type = y.type /\ x.at = y.at /\ x.order = y.order)
<1>1. /\ x \in [type : {"node", "attribute", "namespace"}, at : Nat, order : 0..1]
      /\ x.type = "node" => x.at # 0 /\ x.order = 0
      /\ x.type = "attribute" => x.order = 0 /\ doc.attributes[x.at].owner \in Nat \ {0}
      /\ x.type = "namespace" => x.order = 0 \/ x.at = 0
  BY RefFields
<1>2. /\ y \in [type : {"node", "attribute", "namespace"}, at : Nat, order : 0..1]
      /\ y.type = "node" => y.at # 0 /\ y.order = 0
      /\ y.type = "attribute" => y.order = 0 /\ doc.attributes[y.at].owner \in Nat \ {0}
      /\ y.type = "namespace" => y.order = 0 \/ y.at = 0
  BY RefFields
<1>3. x = y <=> x.type = y.type /\ x.at = y.at /\ x.order = y.order
  BY <1>1, <1>2
<1>4. (Free(x) <=> x.type = "namespace" /\ x.at = 0) /\ (Free(y) <=> y.type = "namespace" /\ y.at = 0)
  BY DEF Free
<1>5. /\ Owner(x) \in Nat
      /\ x.type # "attribute" => Owner(x) = x.at
      /\ x.type # "namespace" => Owner(x) > 0
  BY <1>1 DEF Owner
<1>6. /\ Owner(y) \in Nat
      /\ y.type # "attribute" => Owner(y) = y.at
      /\ y.type # "namespace" => Owner(y) > 0
  BY <1>2 DEF Owner
<1> QED
  BY <1>1, <1>2, <1>3, <1>4, <1>5, <1>6

\* Every pair of classes compares in the order of owners; a namespace node comes
\* after its element and its attributes, and before them if it has no element.
LEMMA LessThanOfClasses ==
  ASSUME ShapeInv, Finished, NEW x \in Refs, NEW y \in Refs
  PROVE  /\ LessThan(x, y) \in BOOLEAN
         /\ x.type = "node" /\ y.type = "node" => (LessThan(x, y) <=> x.at < y.at)
         /\ x.type = "node" /\ y.type = "attribute" => (LessThan(x, y) <=> x.at <= Owner(y))
         /\ x.type = "node" /\ y.type = "namespace" => (LessThan(x, y) <=> ~Free(y) /\ x.at < y.at)
         /\ x.type = "attribute" /\ y.type = "node" => (LessThan(x, y) <=> Owner(x) < y.at)
         /\ x.type = "attribute" /\ y.type = "attribute" => (LessThan(x, y) <=> x.at < y.at)
         /\ x.type = "attribute" /\ y.type = "namespace" =>
              (LessThan(x, y) <=> ~Free(y) /\ Owner(x) <= y.at)
         /\ x.type = "namespace" /\ y.type # "namespace" =>
              (LessThan(x, y) <=> Free(x) \/ x.at < Owner(y))
         /\ x.type = "namespace" /\ y.type = "namespace" /\ Free(x) =>
              (LessThan(x, y) <=> ~Free(y) \/ x.order < y.order)
         /\ x.type = "namespace" /\ y.type = "namespace" /\ ~Free(x) =>
              (LessThan(x, y) <=> ~Free(y) /\ (x.at < y.at \/ (x.at = y.at /\ x.order < y.order)))
<1>1. /\ x.type \in {"node", "attribute", "namespace"} /\ y.type \in {"node", "attribute", "namespace"}
      /\ x.at \in Nat /\ y.at \in Nat /\ Owner(x) \in Nat /\ Owner(y) \in Nat
      /\ Free(x) \in BOOLEAN /\ Free(y) \in BOOLEAN
  BY Comparisons DEF Free
<1>2. CASE x.type = "node"
  <2>1. LessThan(x, y) = NodeLessThan(x, y)
    BY <1>2 DEF LessThan
  <2>2. CASE y.type = "node"
    <3>1. NodeLessThan(x, y) = (x.at < y.at)
      BY <1>1, <2>2 DEF NodeLessThan
    <3>2. LessThan(x, y) \in BOOLEAN
      BY <2>1, <3>1
    <3>3. LessThan(x, y) <=> x.at < y.at
      BY <2>1, <3>1
    <3> QED
      BY <1>2, <2>2, <3>2, <3>3
  <2>3. CASE y.type = "attribute"
    <3>1. NodeLessThan(x, y) = (x.at <= Owner(y))
      BY <1>1, <2>3 DEF NodeLessThan
    <3>2. LessThan(x, y) \in BOOLEAN
      BY <2>1, <3>1
    <3>3. LessThan(x, y) <=> x.at <= Owner(y)
      BY <2>1, <3>1
    <3> QED
      BY <1>2, <2>3, <3>2, <3>3
  <2>4. CASE y.type = "namespace"
    <3>1. NodeLessThan(x, y) = (~Free(y) /\ x.at < y.at)
      BY <1>1, <2>4 DEF NodeLessThan
    <3> QED
      BY <1>1, <1>2, <2>1, <2>4, <3>1
  <2> QED
    BY <1>1, <2>2, <2>3, <2>4
<1>3. CASE x.type = "attribute"
  <2>1. LessThan(x, y) = AttributeLessThan(x, y)
    BY <1>3 DEF LessThan
  <2>2. CASE y.type = "node"
    <3>1. AttributeLessThan(x, y) = (Owner(x) < y.at)
      BY <1>1, <2>2 DEF AttributeLessThan
    <3>2. LessThan(x, y) \in BOOLEAN
      BY <2>1, <3>1
    <3>3. LessThan(x, y) <=> Owner(x) < y.at
      BY <2>1, <3>1
    <3> QED
      BY <1>3, <2>2, <3>2, <3>3
  <2>3. CASE y.type = "attribute"
    <3>1. AttributeLessThan(x, y) = (x.at < y.at)
      BY <1>1, <2>3 DEF AttributeLessThan
    <3>2. LessThan(x, y) \in BOOLEAN
      BY <2>1, <3>1
    <3>3. LessThan(x, y) <=> x.at < y.at
      BY <2>1, <3>1
    <3> QED
      BY <1>3, <2>3, <3>2, <3>3
  <2>4. CASE y.type = "namespace"
    <3>1. AttributeLessThan(x, y) = (~Free(y) /\ Owner(x) <= y.at)
      BY <1>1, <2>4 DEF AttributeLessThan
    <3> QED
      BY <1>1, <1>3, <2>1, <2>4, <3>1
  <2> QED
    BY <1>1, <2>2, <2>3, <2>4
<1>4. CASE x.type = "namespace"
  <2>1. LessThan(x, y) = NamespaceLessThan(x, y)
    BY <1>4 DEF LessThan
  <2>2. CASE y.type = "node"
    <3>1. CASE Free(x)
      <4>1. NamespaceLessThan(x, y) = TRUE
        BY <2>2, <3>1 DEF NamespaceLessThan, Free
      <4> QED
        BY <1>4, <2>1, <2>2, <3>1, <4>1
    <3>2. CASE ~Free(x)
      <4>1. NamespaceLessThan(x, y) = (x.at < Owner(y))
        BY <2>2, <3>2 DEF NamespaceLessThan
      <4>2. LessThan(x, y) \in BOOLEAN
        BY <2>1, <4>1
      <4>3. LessThan(x, y) <=> x.at < Owner(y)
        BY <2>1, <4>1
      <4> QED
        BY <1>4, <2>2, <3>2, <4>2, <4>3
    <3> QED
      BY <3>1, <3>2
  <2>3. CASE y.type = "attribute"
    <3>1. CASE Free(x)
      <4>1. NamespaceLessThan(x, y) = TRUE
        BY <2>3, <3>1 DEF NamespaceLessThan, Free
      <4> QED
        BY <1>4, <2>1, <2>3, <3>1, <4>1
    <3>2. CASE ~Free(x)
      <4>1. NamespaceLessThan(x, y) = (x.at < Owner(y))
        BY <2>3, <3>2 DEF NamespaceLessThan
      <4>2. LessThan(x, y) \in BOOLEAN
        BY <2>1, <4>1
      <4>3. LessThan(x, y) <=> x.at < Owner(y)
        BY <2>1, <4>1
      <4> QED
        BY <1>4, <2>3, <3>2, <4>2, <4>3
    <3> QED
      BY <3>1, <3>2
  <2>4. CASE y.type = "namespace" /\ Free(x)
    <3>1. NamespaceLessThan(x, y) = (~Free(y) \/ x.order < y.order)
      BY <1>1, <2>4 DEF NamespaceLessThan
    <3> QED
      BY <1>1, <1>4, <2>1, <2>4, <3>1
  <2>5. CASE y.type = "namespace" /\ ~Free(x)
    <3>1. NamespaceLessThan(x, y) = (~Free(y) /\ (x.at < y.at \/ (x.at = y.at /\ x.order < y.order)))
      BY <1>1, <2>5 DEF NamespaceLessThan
    <3> QED
      BY <1>1, <1>4, <2>1, <2>5, <3>1
  <2> QED
    BY <1>1, <2>2, <2>3, <2>4, <2>5
<1> QED
  BY <1>1, <1>2, <1>3, <1>4


\* Nodes and attributes are in the order of their events, whichever class compares
\* them, and of two different nodes one is before the other: a strict order.
THEOREM OrderIsStrictAlways == Spec => []OrderIsStrict
<1>1. ShapeInv => OrderIsStrict
  <2> SUFFICES ASSUME ShapeInv, Finished
               PROVE  /\ \A x, y \in StoredRefs : LessThan(x, y) = EventOrder(x, y)
                      /\ \A x, y \in Refs :
                           /\ ~LessThan(x, x)
                           /\ x # y /\ ~OwnNamespace(x, y) /\ ~OwnNamespace(y, x) =>
                                LessThan(x, y) = ~LessThan(y, x)
                           /\ Equals(x, y) => ~LessThan(x, y)
                           /\ ~Free(x) => Equals(x, y) = (x = y)
    BY DEF OrderIsStrict
  <2>1. ASSUME NEW x \in StoredRefs, NEW y \in StoredRefs
        PROVE  LessThan(x, y) = EventOrder(x, y)
    <3>1. x \in Refs /\ y \in Refs /\ x.type # "namespace" /\ y.type # "namespace"
      BY DEF Refs, StoredRefs, NodeRef, AttributeRef
    <3>2. /\ x.type = "attribute" /\ y.type = "attribute" /\ x.at < y.at => Owner(x) <= Owner(y)
          /\ x.type = "attribute" /\ y.type = "attribute" /\ y.at < x.at => Owner(y) <= Owner(x)
      BY <3>1, AttributesRise
    <3>3. LessThan(x, y) \in BOOLEAN /\ EventOrder(x, y) \in BOOLEAN
      BY <3>1, LessThanOfClasses DEF EventOrder
    <3>4. LessThan(x, y) <=> EventOrder(x, y)
      <4> HIDE DEF LessThan
      <4>1. /\ x.at \in Nat /\ y.at \in Nat /\ Owner(x) \in Nat /\ Owner(y) \in Nat
            /\ x.type \in {"node", "attribute"} /\ y.type \in {"node", "attribute"}
            /\ x.type # "attribute" => Owner(x) = x.at
            /\ y.type # "attribute" => Owner(y) = y.at
        BY <3>1, Comparisons
      <4>2. /\ x.type = "node" /\ y.type = "node" => (LessThan(x, y) <=> x.at < y.at)
            /\ x.type = "node" /\ y.type = "attribute" => (LessThan(x, y) <=> x.at <= Owner(y))
            /\ x.type = "attribute" /\ y.type = "node" => (LessThan(x, y) <=> Owner(x) < y.at)
            /\ x.type = "attribute" /\ y.type = "attribute" => (LessThan(x, y) <=> x.at < y.at)
        BY <3>1, LessThanOfClasses
      <4>3. CASE x.type = "node" /\ y.type = "node"
        BY <4>1, <4>2, <4>3 DEF EventOrder
      <4>4. CASE x.type = "node" /\ y.type = "attribute"
        BY <4>1, <4>2, <4>4 DEF EventOrder
      <4>5. CASE x.type = "attribute" /\ y.type = "node"
        BY <4>1, <4>2, <4>5 DEF EventOrder
      <4>6. CASE x.type = "attribute" /\ y.type = "attribute"
        <5>1. x.at = y.at => Owner(x) = Owner(y)
          BY <4>6 DEF Owner
        <5> QED
          BY <4>1, <4>2, <3>2, <4>6, <5>1 DEF EventOrder
      <4> QED
        BY <4>1, <4>3, <4>4, <4>5, <4>6
    <3> QED
      BY <3>3, <3>4
  <2>2. ASSUME NEW x \in Refs PROVE ~LessThan(x, x)
    BY Comparisons, LessThanOfClasses
  <2>3. ASSUME NEW x \in Refs, NEW y \in Refs, x # y, ~OwnNamespace(x, y), ~OwnNamespace(y, x)
        PROVE  LessThan(x, y) = ~LessThan(y, x)
    <3>1. LessThan(x, y) \in BOOLEAN /\ LessThan(y, x) \in BOOLEAN
      BY LessThanOfClasses
    <3>2. LessThan(x, y) <=> ~LessThan(y, x)
      <4>1. CASE x.type = "node" /\ y.type = "node"
        BY <2>3, <4>1, Comparisons, LessThanOfClasses
      <4>2. CASE x.type = "node" /\ y.type = "attribute"
        BY <4>2, Comparisons, LessThanOfClasses
      <4>3. CASE x.type = "node" /\ y.type = "namespace"
        BY <2>3, <4>3, Comparisons, LessThanOfClasses DEF OwnNamespace
      <4>4. CASE x.type = "attribute" /\ y.type = "node"
        BY <4>4, Comparisons, LessThanOfClasses
      <4>5. CASE x.type = "attribute" /\ y.type = "attribute"
        BY <2>3, <4>5, Comparisons, LessThanOfClasses
      <4>6. CASE x.type = "attribute" /\ y.type = "namespace"
        BY <4>6, Comparisons, LessThanOfClasses
      <4>7. CASE x.type = "namespace" /\ y.type = "node"
        BY <2>3, <4>7, Comparisons, LessThanOfClasses DEF OwnNamespace
      <4>8. CASE x.type = "namespace" /\ y.type = "attribute"
        BY <4>8, Comparisons, LessThanOfClasses
      <4>9. CASE x.type = "namespace" /\ y.type = "namespace"
        BY <2>3, <4>9, Comparisons, LessThanOfClasses
      <4> QED
        BY <4>1, <4>2, <4>3, <4>4, <4>5, <4>6, <4>7, <4>8, <4>9, Comparisons
    <3> QED
      BY <3>1, <3>2
  <2>4. ASSUME NEW x \in Refs, NEW y \in Refs
        PROVE  /\ Equals(x, y) => ~LessThan(x, y)
               /\ ~Free(x) => Equals(x, y) = (x = y)
    <3>1. Equals(x, y) => x = y
      BY DEF Equals
    <3>2. Equals(x, y) => ~LessThan(x, y)
      BY <2>2, <3>1
    <3>3. ~Free(x) => Equals(x, y) = (x = y)
      BY DEF Equals
    <3> QED
      BY <3>2, <3>3
  <2> QED
    BY <2>1, <2>2, <2>3, <2>4
<1> QED
  BY <1>1, ShapeInvariance, PTL


-----------------------------------------------------------------------------
(***************************************************************************)
(* Recursion over places, and the walks it makes                           *)
(***************************************************************************)
\* Induction upwards: a set that contains every number up to n all of whose
\* predecessors it contains, contains all of them.
LEMMA Upwards ==
  ASSUME NEW n \in Nat, NEW G,
         \A j \in 1..n : (\A k \in 1..j - 1 : k \in G) => j \in G
  PROVE  \A j \in 1..n : j \in G
<1> DEFINE R == {ss \in Nat \X Nat : ss[1] < ss[2]}
           Bad == {j \in 1..n : j \notin G}
<1>1. IsWellFoundedOn(R, Nat)
  BY NatLessThanWellFounded DEF OpToRel
<1>2. \A k, j \in Nat : k < j => <<k, j>> \in R
  OBVIOUS
<1> HIDE DEF R
<1>3. SUFFICES ASSUME Bad # {} PROVE FALSE
  OBVIOUS
<1>4. Bad \subseteq Nat
  OBVIOUS
<1>5. PICK j \in Bad : \A k \in Bad : ~(<<k, j>> \in R)
  BY <1>1, <1>3, <1>4, WFMin
<1>6. j \in 1..n /\ j \notin G
  OBVIOUS
<1>7. ASSUME NEW k \in 1..j - 1 PROVE k \in G
  <2>1. k \in Nat /\ j \in Nat /\ k < j /\ k \in 1..n
    BY <1>6
  <2>2. k \notin Bad
    BY <1>2, <1>5, <2>1
  <2> QED
    BY <2>1, <2>2
<1> QED
  BY <1>6, <1>7

\* Induction downwards.
LEMMA Downwards ==
  ASSUME NEW n \in Nat, NEW G,
         \A j \in 1..n : (\A k \in j + 1..n : k \in G) => j \in G
  PROVE  \A j \in 1..n : j \in G
<1> DEFINE H == {j \in 1..n : n + 1 - j \in G}
<1>1. ASSUME NEW j \in 1..n, \A k \in 1..j - 1 : k \in H PROVE j \in H
  <2>1. n + 1 - j \in 1..n
    OBVIOUS
  <2>2. ASSUME NEW k \in (n + 1 - j) + 1..n PROVE k \in G
    <3>1. n + 1 - k \in 1..j - 1 /\ n + 1 - (n + 1 - k) = k
      OBVIOUS
    <3>2. n + 1 - k \in H
      BY <1>1, <3>1
    <3> QED
      BY <3>1, <3>2
  <2> QED
    BY <2>1, <2>2
<1> HIDE DEF H
<1>2. \A j \in 1..n : j \in H
  BY <1>1, Upwards
<1>3. ASSUME NEW j \in 1..n PROVE j \in G
  <2>1. n + 1 - j \in 1..n /\ n + 1 - (n + 1 - j) = j
    OBVIOUS
  <2>2. n + 1 - j \in H
    BY <1>2, <2>1
  <2> QED
    BY <2>1, <2>2 DEF H
<1> QED
  BY <1>3

\* A recursion over U that goes from j to next[j], of a lower rank, unless it ends
\* at j, and makes a value in V by start or by step.
Descends(U, V, m, rank, Ends, next, start, step) ==
  /\ m \in Nat /\ rank \in [U -> 1..m]
  /\ next \in [U -> U] /\ start \in [U -> V] /\ step \in [U -> [V -> V]]
  /\ \A j \in U : j \notin Ends => rank[next[j]] < rank[j]

\* Such a recursion has a solution.
LEMMA RecursionExists ==
  ASSUME NEW U, NEW V, NEW m, NEW rank, NEW Ends, NEW next, NEW start, NEW step,
         Descends(U, V, m, rank, Ends, next, start, step)
  PROVE  \E g \in [U -> V] : \A j \in U : g[j] = IF j \in Ends THEN start[j] ELSE step[j][g[next[j]]]
<1> SUFFICES ASSUME m \in Nat, rank \in [U -> 1..m], next \in [U -> U], start \in [U -> V],
                    step \in [U -> [V -> V]], \A j \in U : j \notin Ends => rank[next[j]] < rank[j]
             PROVE  \E g \in [U -> V] : \A j \in U : g[j] = IF j \in Ends THEN start[j] ELSE step[j][g[next[j]]]
  BY DEF Descends
<1> DEFINE Upto(n) == {j \in U : rank[j] <= n}
           Solves(g, n) == \A j \in Upto(n) : g[j] = IF j \in Ends THEN start[j] ELSE step[j][g[next[j]]]
           Solved == {n \in 0..m : \E g \in [Upto(n) -> V] : Solves(g, n)}
<1>1. Upto(m) = U
  OBVIOUS
<1>2. 0 \in Solved
  <2> DEFINE e == [j \in Upto(0) |-> start[j]]
  <2>1. Upto(0) = {}
    OBVIOUS
  <2>2. e \in [Upto(0) -> V]
    OBVIOUS
  <2>3. Solves(e, 0)
    BY <2>1
  <2>4. 0 \in 0..m
    OBVIOUS
  <2> HIDE DEF e, Solves
  <2>5. \E g \in [Upto(0) -> V] : Solves(g, 0)
    BY <2>2, <2>3
  <2> HIDE DEF Upto
  <2> QED
    BY <2>4, <2>5
<1>3. ASSUME NEW n \in 1..m, n - 1 \in Solved PROVE n \in Solved
  <2>1. PICK g \in [Upto(n - 1) -> V] : Solves(g, n - 1)
    BY <1>3
  <2> DEFINE h == [j \in Upto(n) |-> IF j \in Ends THEN start[j] ELSE step[j][g[next[j]]]]
  <2>2. ASSUME NEW j \in Upto(n), j \notin Ends PROVE next[j] \in Upto(n - 1)
    <3>1. j \in U /\ rank[j] \in 1..m /\ rank[j] <= n /\ next[j] \in U /\ rank[next[j]] \in 1..m
      OBVIOUS
    <3>2. rank[next[j]] < rank[j]
      BY <2>2, <3>1
    <3>3. rank[next[j]] <= n - 1
      BY <3>1, <3>2
    <3> QED
      BY <3>1, <3>3
  <2>3. h \in [Upto(n) -> V]
    <3>1. ASSUME NEW j \in Upto(n) PROVE (IF j \in Ends THEN start[j] ELSE step[j][g[next[j]]]) \in V
      <4>1. CASE j \in Ends
        BY <4>1
      <4>2. CASE j \notin Ends
        <5>1. g[next[j]] \in V
          BY <2>2, <4>2
        <5> QED
          BY <4>2, <5>1
      <4> QED
        BY <4>1, <4>2
    <3> QED
      BY <3>1
  <2>4. ASSUME NEW j \in Upto(n - 1) PROVE j \in Upto(n) /\ h[j] = g[j]
    <3>1. rank[j] <= n
      OBVIOUS
    <3>2. j \in Upto(n)
      BY <3>1
    <3>3. g[j] = IF j \in Ends THEN start[j] ELSE step[j][g[next[j]]]
      BY <2>1
    <3> QED
      BY <3>2, <3>3
  <2>5. Solves(h, n)
    <3> SUFFICES ASSUME NEW j \in Upto(n)
                 PROVE  h[j] = IF j \in Ends THEN start[j] ELSE step[j][h[next[j]]]
      OBVIOUS
    <3>1. CASE j \in Ends
      BY <3>1
    <3>2. CASE j \notin Ends
      <4>1. h[next[j]] = g[next[j]]
        BY <2>2, <2>4, <3>2
      <4>2. h[j] = step[j][g[next[j]]]
        BY <3>2
      <4> QED
        BY <3>2, <4>1, <4>2
    <3> QED
      BY <3>1, <3>2
  <2>6. n \in 0..m
    OBVIOUS
  <2> HIDE DEF h, Solves
  <2>7. \E f \in [Upto(n) -> V] : Solves(f, n)
    BY <2>3, <2>5
  <2> HIDE DEF Upto
  <2> QED
    BY <2>6, <2>7
<1> HIDE DEF Solved
<1>4. m \in Solved
  <2> DEFINE G == {j \in 1..m : j \in Solved}
  <2>1. ASSUME NEW j \in 1..m, \A k \in 1..j - 1 : k \in G PROVE j \in G
    <3>1. CASE j = 1
      BY <1>2, <1>3, <3>1
    <3>2. CASE j # 1
      <4>1. j - 1 \in 1..j - 1
        BY <3>2
      <4>2. j - 1 \in Solved
        BY <2>1, <4>1
      <4> QED
        BY <1>3, <4>2
    <3> QED
      BY <3>1, <3>2
  <2>2. \A j \in 1..m : j \in G
    <3> HIDE DEF G
    <3> QED
      BY <2>1, Upwards
  <2>3. CASE m = 0
    BY <1>2, <2>3
  <2>4. CASE m # 0
    BY <2>2, <2>4
  <2> QED
    BY <2>3, <2>4
<1>5. PICK g \in [Upto(m) -> V] : Solves(g, m)
  BY <1>4 DEF Solved
<1>6. g \in [U -> V]
  BY <1>1
<1> QED
  BY <1>1, <1>5, <1>6

\* A walk that starts at x and goes on as w does.
LEMMA Prepended ==
  ASSUME NEW x \in Nat, NEW w \in Seq(Nat), NEW S, Range(w) = S
  PROVE  /\ <<x>> \o w \in Seq(Nat) /\ Range(<<x>> \o w) = {x} \union S
         /\ Tail(<<x>> \o w) = w
         /\ (\A y \in S : x < y) /\ Forward(w, S) => Forward(<<x>> \o w, {x} \union S)
         /\ (\A y \in S : x > y) /\ Backward(w, S) => Backward(<<x>> \o w, {x} \union S)
<1> DEFINE v == <<x>> \o w
           L == Len(w)
<1>1. /\ L \in Nat /\ v \in Seq(Nat) /\ Len(v) = L + 1 /\ DOMAIN v = 1..L + 1 /\ DOMAIN w = 1..L
      /\ v[1] = x /\ \A k \in 2..L + 1 : v[k] = w[k - 1]
  OBVIOUS
<1>2. Tail(v) = w
  OBVIOUS
<1> HIDE DEF v, L
<1>3. \A k \in 1..L : w[k] \in S
  BY <1>1 DEF Range
<1>4. Range(v) = {x} \union S
  <2>1. ASSUME NEW y \in Range(v) PROVE y \in {x} \union S
    <3>1. PICK k \in 1..L + 1 : y = v[k]
      BY <1>1 DEF Range
    <3>2. CASE k = 1
      BY <1>1, <3>1, <3>2
    <3>3. CASE k # 1
      <4>1. k \in 2..L + 1 /\ k - 1 \in 1..L
        BY <1>1, <3>3
      <4> QED
        BY <1>1, <1>3, <3>1, <4>1
    <3> QED
      BY <3>2, <3>3
  <2>2. x \in Range(v)
    <3>1. 1 \in 1..L + 1
      BY <1>1
    <3> QED
      BY <1>1, <3>1 DEF Range
  <2>3. ASSUME NEW y \in S PROVE y \in Range(v)
    <3>1. PICK k \in 1..L : y = w[k]
      BY <1>1 DEF Range
    <3>2. k + 1 \in 2..L + 1 /\ k + 1 \in 1..L + 1 /\ (k + 1) - 1 = k
      BY <1>1
    <3>3. v[k + 1] = y
      BY <1>1, <3>1, <3>2
    <3> QED
      BY <1>1, <3>2, <3>3 DEF Range
  <2> QED
    BY <2>1, <2>2, <2>3
<1>5. ASSUME \A y \in S : x < y, Forward(w, S), NEW k \in DOMAIN v, NEW m \in DOMAIN v, k < m
      PROVE  v[k] < v[m]
  <2>1. k \in 1..L + 1 /\ m \in 2..L + 1 /\ m - 1 \in 1..L /\ v[m] = w[m - 1]
    BY <1>1, <1>5
  <2>2. CASE k = 1
    BY <1>1, <1>3, <1>5, <2>1, <2>2
  <2>3. CASE k # 1
    <3>1. L \in Nat /\ k < m
      BY <1>1, <1>5
    <3>2. k \in 2..L + 1 /\ k - 1 \in 1..L /\ k - 1 < m - 1
      BY <2>1, <2>3, <3>1
    <3>3. v[k] = w[k - 1]
      BY <1>1, <3>2
    <3> QED
      BY <1>1, <1>5, <2>1, <3>2, <3>3 DEF Forward
  <2> QED
    BY <2>2, <2>3
<1>6. ASSUME \A y \in S : x > y, Backward(w, S), NEW k \in DOMAIN v, NEW m \in DOMAIN v, k < m
      PROVE  v[k] > v[m]
  <2>1. k \in 1..L + 1 /\ m \in 2..L + 1 /\ m - 1 \in 1..L /\ v[m] = w[m - 1]
    BY <1>1, <1>6
  <2>2. CASE k = 1
    BY <1>1, <1>3, <1>6, <2>1, <2>2
  <2>3. CASE k # 1
    <3>1. L \in Nat /\ k < m
      BY <1>1, <1>6
    <3>2. k \in 2..L + 1 /\ k - 1 \in 1..L /\ k - 1 < m - 1
      BY <2>1, <2>3, <3>1
    <3>3. v[k] = w[k - 1]
      BY <1>1, <3>2
    <3> QED
      BY <1>1, <1>6, <2>1, <3>2, <3>3 DEF Backward
  <2> QED
    BY <2>2, <2>3
<1> QED
  BY <1>1, <1>2, <1>4, <1>5, <1>6 DEF Forward, Backward, v

\* The empty walk, and the one over consecutive nodes.
LEMMA NoWalk == Forward(<<>>, {}) /\ Backward(<<>>, {}) /\ <<>> \in Seq(Nat)
BY DEF Forward, Backward, Range

LEMMA Consecutive ==
  ASSUME NEW i \in Nat, NEW n \in Int, n >= 0
  PROVE  LET w == [k \in 1..n |-> i + k - 1] IN Forward(w, i..i + n - 1) /\ w \in Seq(Nat)
<1> DEFINE w == [k \in 1..n |-> i + k - 1]
<1>1. DOMAIN w = 1..n /\ \A k \in 1..n : w[k] = i + k - 1 /\ w[k] \in i..i + n - 1
  OBVIOUS
<1>2. ASSUME NEW y \in i..i + n - 1 PROVE y - i + 1 \in 1..n /\ w[y - i + 1] = y
  OBVIOUS
<1>3. n \in Nat /\ w \in [1..n -> Nat]
  OBVIOUS
<1>5. w \in Seq(Nat)
  BY <1>3 DEF Seq
<1> HIDE DEF w
<1>4. Range(w) = i..i + n - 1
  <2>1. ASSUME NEW y \in Range(w) PROVE y \in i..i + n - 1
    BY <1>1 DEF Range
  <2>2. ASSUME NEW y \in i..i + n - 1 PROVE y \in Range(w)
    BY <1>1, <1>2 DEF Range
  <2> QED
    BY <2>1, <2>2
<1>6. \A k, m \in DOMAIN w : k < m => w[k] < w[m]
  BY <1>1
<1> QED
  BY <1>4, <1>5, <1>6 DEF Forward, w


-----------------------------------------------------------------------------
(***************************************************************************)
(* The tree of a finished document                                         *)
(***************************************************************************)


\* The tree of a finished document: node 1 is its root, and the parent of any other
\* node is the last one before it that is a level above.
LEMMA TreeFacts ==
  ASSUME ShapeInv, Finished
  PROVE  /\ Size \in Nat \ {0} /\ NodeIds = 1..Size /\ Len(doc.nodes) = Size + 1
         /\ \A i \in 1..Size + 1 : LevelOf(i) \in Nat
         /\ LevelOf(Size + 1) = 0
         /\ \A i \in NodeIds : LevelOf(i) = 0 => i = 1
         /\ GetParent(1) = 0 /\ LevelOf(1) = 0
         /\ \A i \in NodeIds : i # 1 =>
              /\ GetParent(i) \in 1..i - 1
              /\ LevelOf(i) = LevelOf(GetParent(i)) + 1
              /\ HasChildren(GetParent(i))
              /\ \A k \in GetParent(i) + 1..i - 1 : LevelOf(k) >= LevelOf(i)
<1>1. Complete(doc, Size) /\ NodeIds = 1..Size /\ Size \in Nat \ {0} /\ Len(doc.nodes) = Size + 1
  BY FinishedComplete
<1>2. \A i \in 1..Size + 1 : LevelOf(i) \in Nat
  BY <1>1 DEF Complete, LevelOf
<1>3. LevelOf(Size + 1) = 0
  BY <1>1 DEF Complete, LevelOf
<1>4. \A i \in NodeIds : LevelOf(i) = 0 => i = 1
  BY <1>1 DEF Complete, Nested, LevelOf
<1>5. ASSUME NEW i \in NodeIds, LevelOf(i) > 0
      PROVE  /\ GetParent(i) \in 1..i - 1
             /\ LevelOf(GetParent(i)) = LevelOf(i) - 1
             /\ HasChildren(GetParent(i))
             /\ \A k \in GetParent(i) + 1..i - 1 : LevelOf(k) >= LevelOf(i)
  <2>1. IsParent(doc, GetParent(i), i)
    BY <1>1, <1>5 DEF Complete, LevelOf, GetParent
  <2>2. /\ LevelOf(GetParent(i)) = LevelOf(i) - 1
        /\ KindOf(GetParent(i)) \in Containers
    BY <1>1, <1>5 DEF Complete, Nested, LevelOf, GetParent, KindOf
  <2>3. HasChildren(GetParent(i))
    BY <2>2 DEF HasChildren, Containers
  <2> QED
    BY <2>1, <2>2, <2>3 DEF IsParent, LevelOf
<1>6. LevelOf(1) = 0
  <2>1. 1 \in NodeIds /\ LevelOf(1) \in Nat /\ ~(\E j : j \in 1..1 - 1)
    BY <1>1, <1>2
  <2> QED
    BY <1>5, <2>1
<1>7. GetParent(1) = 0
  BY <1>6 DEF GetParent, ParentIn, LevelOf
<1>8. ASSUME NEW i \in NodeIds, i # 1
      PROVE  /\ GetParent(i) \in 1..i - 1
             /\ LevelOf(i) = LevelOf(GetParent(i)) + 1
             /\ HasChildren(GetParent(i))
             /\ \A k \in GetParent(i) + 1..i - 1 : LevelOf(k) >= LevelOf(i)
  <2>1. i \in 1..Size + 1 /\ LevelOf(i) \in Nat
    BY <1>1, <1>2
  <2>2. LevelOf(i) > 0
    BY <1>4, <1>8, <2>1
  <2>3. GetParent(i) \in 1..i - 1 /\ LevelOf(GetParent(i)) = LevelOf(i) - 1
    BY <1>5, <2>2
  <2>4. LevelOf(i) = LevelOf(GetParent(i)) + 1
    BY <2>1, <2>3
  <2> QED
    BY <1>5, <2>2, <2>3, <2>4
<1> QED
  BY <1>1, <1>2, <1>3, <1>4, <1>6, <1>7, <1>8

\* nextSibling leads to the next node with the same parent.
LEMMA SiblingFacts ==
  ASSUME ShapeInv, Finished, NEW i \in NodeIds
  PROVE  LET later == {j \in i + 1..Size : GetParent(j) = GetParent(i)}
             n == doc.nodes[i].nextSibling
         IN  IF n = 0 THEN GetParent(i) = 0 \/ later = {}
                      ELSE GetParent(i) # 0 /\ n \in later /\ \A j \in later : n <= j
<1>1. NodeIds = 1..Size /\ Size \in Nat
  BY TreeFacts
<1>2. Matches(doc, Size, Finished)
  BY DEF ShapeInv, IInv, Finished
<1>3. SiblingsMatch(doc, i, Size)
  BY <1>1, <1>2 DEF Matches
<1>4. ~(0 \in i + 1..Size)
  BY <1>1
<1> QED
  BY <1>3, <1>4 DEF SiblingsMatch, GetParent

\* The ancestors of a node are its parent and that one's ancestors.
LEMMA AncestorsUp ==
  ASSUME ShapeInv, Finished, NEW i \in NodeIds
  PROVE  Ancestors(i) = IF GetParent(i) = 0 THEN {} ELSE {GetParent(i)} \union Ancestors(GetParent(i))
<1>1. Size \in Nat /\ NodeIds = 1..Size /\ GetParent(1) = 0
      /\ \A j \in NodeIds : j # 1 => GetParent(j) \in 1..j - 1
  BY TreeFacts
<1> DEFINE F(g) == [j \in NodeIds |-> IF GetParent(j) = 0 THEN {} ELSE {GetParent(j)} \union g[GetParent(j)]]
           above == CHOOSE g : g = F(g)
           rank == [j \in NodeIds |-> j]
           next == [j \in NodeIds |-> IF GetParent(j) = 0 THEN j ELSE GetParent(j)]
           Ends == {j \in NodeIds : GetParent(j) = 0}
           start == [j \in NodeIds |-> {}]
           step == [j \in NodeIds |-> [S \in SUBSET Nat |-> {GetParent(j)} \union S]]
<1>2. rank \in [NodeIds -> 1..Size] /\ start \in [NodeIds -> SUBSET Nat]
  BY <1>1
<1>3. \A j \in NodeIds : j \notin Ends => GetParent(j) \in 1..j - 1 /\ GetParent(j) \in NodeIds /\ GetParent(j) \in Nat
  BY <1>1
<1>4. next \in [NodeIds -> NodeIds]
  BY <1>1
<1>5. step \in [NodeIds -> [SUBSET Nat -> SUBSET Nat]]
  <2>1. \A j \in NodeIds : GetParent(j) \in Nat
    BY <1>1
  <2> QED
    BY <2>1
<1>6. \A j \in NodeIds : j \notin Ends => next[j] = GetParent(j)
  OBVIOUS
<1>7. \A j \in NodeIds : j \notin Ends => rank[next[j]] < rank[j]
  BY <1>1, <1>3, <1>6
<1>8. \A j \in NodeIds : \A S \in SUBSET Nat : step[j][S] = {GetParent(j)} \union S /\ start[j] = {}
  OBVIOUS
<1> HIDE DEF rank, next, start, step
<1>9. PICK g \in [NodeIds -> SUBSET Nat] :
         \A j \in NodeIds : g[j] = IF j \in Ends THEN start[j] ELSE step[j][g[next[j]]]
  <2>1. Descends(NodeIds, SUBSET Nat, Size, rank, Ends, next, start, step)
    BY <1>1, <1>2, <1>4, <1>5, <1>7 DEF Descends
  <2> QED
    BY <2>1, RecursionExists
<1>10. \A j \in NodeIds : g[j] = IF GetParent(j) = 0 THEN {} ELSE {GetParent(j)} \union g[GetParent(j)]
  BY <1>3, <1>6, <1>8, <1>9
<1>11. g = F(g)
  BY <1>9, <1>10
<1> HIDE DEF F
<1>12. above = F(above)
  BY <1>11
<1> HIDE DEF above
<1>13. \A j \in NodeIds : above[j] = IF GetParent(j) = 0 THEN {} ELSE {GetParent(j)} \union above[GetParent(j)]
  BY <1>12 DEF F
<1>14. \A j : Ancestors(j) = above[j]
  BY DEF Ancestors, above, F
<1> QED
  BY <1>13, <1>14

\* The nodes inside i are those after it up to the next one that is not deeper.
LEMMA Inside ==
  ASSUME ShapeInv, Finished
  PROVE  \A i, j \in NodeIds : i \in Ancestors(j) <=> i < j /\ \A k \in i + 1..j : LevelOf(k) > LevelOf(i)
<1>1. Size \in Nat /\ NodeIds = 1..Size /\ GetParent(1) = 0
      /\ \A j \in 1..Size + 1 : LevelOf(j) \in Nat
  BY TreeFacts
<1> DEFINE Above(i, j) == i \in Ancestors(j) <=> i < j /\ \A k \in i + 1..j : LevelOf(k) > LevelOf(i)
           G == {j \in NodeIds : \A i \in NodeIds : Above(i, j)}
<1>2. ASSUME NEW j \in 1..Size, \A k \in 1..j - 1 : k \in G PROVE j \in G
  <2> SUFFICES ASSUME NEW i \in NodeIds PROVE Above(i, j)
    BY <1>1
  <2>1. CASE j = 1
    <3>1. Ancestors(j) = {} /\ ~(i < j)
      BY <1>1, <2>1, AncestorsUp
    <3> QED
      BY <3>1
  <2>2. CASE j # 1
    <3> DEFINE p == GetParent(j)
    <3>0. /\ p \in 1..j - 1 /\ LevelOf(j) = LevelOf(p) + 1 /\ j \in NodeIds
          /\ \A k \in p + 1..j - 1 : LevelOf(k) >= LevelOf(j)
      BY <1>1, <2>2, TreeFacts
    <3>1. /\ p \in 1..j - 1 /\ p # 0 /\ p \in NodeIds /\ i \in Nat /\ j \in NodeIds
          /\ LevelOf(j) = LevelOf(p) + 1 /\ LevelOf(p) \in Nat /\ LevelOf(i) \in Nat
          /\ \A k \in p + 1..j - 1 : LevelOf(k) >= LevelOf(j)
      BY <1>1, <3>0
    <3>2. Ancestors(j) = {p} \union Ancestors(p)
      BY <1>1, <3>1, AncestorsUp
    <3>3. Above(i, p)
      BY <1>2, <3>1
    <3>4. \A k \in p + 1..j : LevelOf(k) > LevelOf(p) /\ LevelOf(k) \in Nat
      <4> SUFFICES ASSUME NEW k \in p + 1..j PROVE LevelOf(k) > LevelOf(p) /\ LevelOf(k) \in Nat
        OBVIOUS
      <4>1. LevelOf(k) \in Nat
        BY <1>1, <3>1
      <4>2. CASE k = j
        BY <3>1, <4>1, <4>2
      <4>3. CASE k # j
        BY <3>1, <4>1, <4>3
      <4> QED
        BY <4>2, <4>3
    <3> HIDE DEF p
    <3>5. ASSUME i \in Ancestors(j) PROVE i < j /\ \A k \in i + 1..j : LevelOf(k) > LevelOf(i)
      <4>1. CASE i = p
        BY <3>1, <3>4, <4>1
      <4>2. CASE i # p
        <5>1. i < p /\ \A k \in i + 1..p : LevelOf(k) > LevelOf(i)
          BY <3>2, <3>3, <3>5, <4>2
        <5>2. LevelOf(p) > LevelOf(i)
          BY <3>1, <5>1
        <5>3. ASSUME NEW k \in i + 1..j PROVE LevelOf(k) > LevelOf(i)
          <6>1. CASE k \in i + 1..p
            BY <5>1, <6>1
          <6>2. CASE k \in p + 1..j
            BY <3>1, <3>4, <5>2, <6>2
          <6> QED
            BY <3>1, <6>1, <6>2
        <5> QED
          BY <3>1, <5>1, <5>3
      <4> QED
        BY <4>1, <4>2
    <3>6. ASSUME i < j, \A k \in i + 1..j : LevelOf(k) > LevelOf(i) PROVE i \in Ancestors(j)
      <4>1. CASE i = p
        BY <3>2, <4>1
      <4>2. CASE i < p
        <5>1. \A k \in i + 1..p : LevelOf(k) > LevelOf(i)
          BY <3>1, <3>6
        <5> QED
          BY <3>2, <3>3, <4>2, <5>1
      <4>3. CASE i > p
        <5>1. i \in p + 1..j - 1 /\ j \in i + 1..j
          BY <3>1, <3>6, <4>3
        <5>2. LevelOf(i) >= LevelOf(j) /\ LevelOf(j) > LevelOf(i) /\ LevelOf(j) \in Nat
          BY <1>1, <3>1, <3>6, <5>1
        <5> QED
          BY <3>1, <5>2
      <4> QED
        BY <3>1, <4>1, <4>2, <4>3
    <3> QED
      BY <3>5, <3>6
  <2> QED
    BY <2>1, <2>2
<1>3. \A j \in 1..Size : j \in G
  <2> HIDE DEF G
  <2> QED
    BY <1>1, <1>2, Upwards
<1> QED
  BY <1>1, <1>3

\* An ancestor one level above a node is its parent.
LEMMA ParentByLevel ==
  ASSUME ShapeInv, Finished, NEW i \in NodeIds, NEW p \in Ancestors(i), p \in NodeIds,
         LevelOf(i) = LevelOf(p) + 1
  PROVE  GetParent(i) = p
<1>1. Size \in Nat /\ NodeIds = 1..Size /\ GetParent(1) = 0
      /\ \A j \in 1..Size + 1 : LevelOf(j) \in Nat
  BY TreeFacts
<1>2. Ancestors(i) = IF GetParent(i) = 0 THEN {} ELSE {GetParent(i)} \union Ancestors(GetParent(i))
  BY AncestorsUp
<1>3. i # 1
  BY <1>1, <1>2
<1> DEFINE q == GetParent(i)
<1>4. q \in 1..i - 1 /\ LevelOf(i) = LevelOf(q) + 1 /\ q \in NodeIds
  BY <1>1, <1>3, TreeFacts
<1>5. ASSUME p \in Ancestors(q) PROVE FALSE
  <2>1. p < q /\ \A k \in p + 1..q : LevelOf(k) > LevelOf(p)
    BY <1>4, <1>5, Inside
  <2>2. LevelOf(q) > LevelOf(p) /\ LevelOf(q) \in Nat /\ LevelOf(p) \in Nat
    BY <1>1, <1>4, <2>1
  <2> QED
    BY <1>4, <2>2
<1> QED
  BY <1>2, <1>4, <1>5

\* A deeper node is a child of the one right before it.
LEMMA FirstChildNext ==
  ASSUME ShapeInv, Finished, NEW i \in NodeIds
  PROVE  LevelOf(i + 1) > LevelOf(i) <=> i + 1 \in NodeIds /\ GetParent(i + 1) = i
<1>1. Size \in Nat /\ NodeIds = 1..Size /\ LevelOf(Size + 1) = 0
      /\ \A j \in 1..Size + 1 : LevelOf(j) \in Nat
  BY TreeFacts
<1>2. ASSUME LevelOf(i + 1) > LevelOf(i) PROVE i + 1 \in NodeIds /\ GetParent(i + 1) = i
  <2>1. i + 1 # Size + 1
    BY <1>1, <1>2
  <2>2. i + 1 \in NodeIds /\ i + 1 # 1
    BY <1>1, <2>1
  <2>3. GetParent(i + 1) \in 1..(i + 1) - 1 /\ LevelOf(i + 1) = LevelOf(GetParent(i + 1)) + 1
        /\ \A k \in GetParent(i + 1) + 1..(i + 1) - 1 : LevelOf(k) >= LevelOf(i + 1)
    BY <2>2, TreeFacts
  <2>4. CASE GetParent(i + 1) # i
    <3>1. i \in GetParent(i + 1) + 1..(i + 1) - 1 /\ LevelOf(i) \in Nat /\ LevelOf(i + 1) \in Nat
      BY <1>1, <2>2, <2>3, <2>4
    <3> QED
      BY <1>2, <2>3, <3>1
  <2> QED
    BY <2>2, <2>4
<1>3. ASSUME i + 1 \in NodeIds, GetParent(i + 1) = i PROVE LevelOf(i + 1) > LevelOf(i)
  <2>1. i + 1 # 1 /\ i \in 1..Size + 1
    BY <1>1
  <2>2. LevelOf(i + 1) = LevelOf(i) + 1 /\ LevelOf(i) \in Nat
    BY <1>1, <1>3, <2>1, TreeFacts
  <2> QED
    BY <2>2
<1> QED
  BY <1>2, <1>3

\* Where the nodes inside i end.
LEMMA SubtreeEnd ==
  ASSUME ShapeInv, Finished, NEW i \in NodeIds
  PROVE  LET e == FirstAfter(i, LevelOf(i))
         IN  /\ e \in i + 1..Size + 1 /\ LevelOf(e) <= LevelOf(i)
             /\ \A k \in i + 1..e - 1 : LevelOf(k) > LevelOf(i)
             /\ Descendants(i) = i + 1..e - 1
<1>1. /\ Size \in Nat /\ NodeIds = 1..Size /\ LevelOf(Size + 1) = 0 /\ Len(doc.nodes) = Size + 1
      /\ \A j \in 1..Size + 1 : LevelOf(j) \in Nat
  BY TreeFacts
<1> DEFINE e == FirstAfter(i, LevelOf(i))
           Ok(j) == LevelOf(j) <= LevelOf(i) /\ \A k \in i + 1..j - 1 : LevelOf(k) > LevelOf(i)
           G == {j \in 1..Size + 1 : j > i => LevelOf(j) > LevelOf(i)}
<1>2. \E j \in i + 1..Size + 1 : Ok(j)
  <2> SUFFICES ASSUME \A j \in i + 1..Size + 1 : ~Ok(j) PROVE FALSE
    OBVIOUS
  <2>1. ASSUME NEW j \in 1..Size + 1, \A k \in 1..j - 1 : k \in G PROVE j \in G
    <3>1. ASSUME j > i PROVE LevelOf(j) > LevelOf(i)
      <4>1. j \in i + 1..Size + 1 /\ LevelOf(j) \in Nat /\ LevelOf(i) \in Nat
        BY <1>1, <3>1
      <4>2. \A k \in i + 1..j - 1 : LevelOf(k) > LevelOf(i)
        BY <1>1, <2>1, <3>1
      <4>3. ~Ok(j)
        BY <4>1
      <4>4. ~(LevelOf(j) <= LevelOf(i))
        BY <4>2, <4>3
      <4> QED
        BY <4>1, <4>4
    <3> QED
      BY <3>1
  <2>2. \A j \in 1..Size + 1 : j \in G
    <3>1. Size + 1 \in Nat
      BY <1>1
    <3> HIDE DEF G
    <3> QED
      BY <2>1, <3>1, Upwards
  <2>3. Size + 1 \in G /\ Size + 1 > i /\ LevelOf(i) \in Nat
    BY <1>1, <2>2
  <2> QED
    BY <1>1, <2>3
<1>3. e \in i + 1..Size + 1 /\ Ok(e)
  BY <1>1, <1>2 DEF FirstAfter
<1> HIDE DEF e
<1>4. ASSUME NEW j \in NodeIds PROVE j \in Descendants(i) <=> j \in i + 1..e - 1
  <2>1. j \in Descendants(i) <=> i < j /\ \A k \in i + 1..j : LevelOf(k) > LevelOf(i)
    BY Inside DEF Descendants
  <2>2. ASSUME j \in i + 1..e - 1 PROVE i < j /\ \A k \in i + 1..j : LevelOf(k) > LevelOf(i)
    BY <1>1, <1>3, <2>2
  <2>3. ASSUME i < j, \A k \in i + 1..j : LevelOf(k) > LevelOf(i) PROVE j \in i + 1..e - 1
    <3>1. i \in Nat /\ j \in Nat /\ e \in Nat /\ LevelOf(e) \in Nat /\ LevelOf(i) \in Nat
      BY <1>1, <1>3
    <3>2. ~(e \in i + 1..j)
      BY <1>3, <2>3, <3>1
    <3> QED
      BY <1>3, <2>3, <3>1, <3>2
  <2> QED
    BY <2>1, <2>2, <2>3
<1>5. Descendants(i) \subseteq NodeIds /\ i + 1..e - 1 \subseteq NodeIds
  BY <1>1, <1>3 DEF Descendants
<1>6. Descendants(i) = i + 1..e - 1
  BY <1>4, <1>5
<1> QED
  BY <1>3, <1>6 DEF e

-----------------------------------------------------------------------------
(***************************************************************************)
(* The walks that are recursions                                           *)
(***************************************************************************)
\* What next() does: the node itself, then what its nextSibling gives.
LEMMA SiblingsOn ==
  ASSUME ShapeInv, Finished
  PROVE  /\ Siblings(0) = <<>>
         /\ \A j \in NodeIds : /\ doc.nodes[j].nextSibling \in {0} \union j + 1..Size
                               /\ Siblings(j) = <<j>> \o Siblings(doc.nodes[j].nextSibling)
         /\ \A j \in NodesOrNull : Siblings(j) \in Seq(Nat)
<1>1. Size \in Nat /\ NodeIds = 1..Size
  BY TreeFacts
<1>2. \A j \in NodeIds : doc.nodes[j].nextSibling \in {0} \union j + 1..Size
  BY SiblingFacts
<1> DEFINE F(g) == [j \in NodesOrNull |-> IF j = 0 THEN <<>> ELSE <<j>> \o g[doc.nodes[j].nextSibling]]
           from == CHOOSE g : g = F(g)
           rank == [j \in NodesOrNull |-> IF j = 0 THEN 1 ELSE Size + 2 - j]
           next == [j \in NodesOrNull |-> IF j = 0 THEN 0 ELSE doc.nodes[j].nextSibling]
           Ends == {0}
           start == [j \in NodesOrNull |-> <<>>]
           step == [j \in NodesOrNull |-> [w \in Seq(Nat) |-> <<j>> \o w]]
<1>3. NodesOrNull = 0..Size
  BY <1>1 DEF NodesOrNull
<1>4. rank \in [NodesOrNull -> 1..Size + 1]
  BY <1>1, <1>3
<1>5. next \in [NodesOrNull -> NodesOrNull] /\ \A j \in NodesOrNull : j # 0 => next[j] \in {0} \union j + 1..Size
  BY <1>1, <1>2, <1>3
<1>6. start \in [NodesOrNull -> Seq(Nat)] /\ \A j \in NodesOrNull : start[j] = <<>>
  OBVIOUS
<1>7. step \in [NodesOrNull -> [Seq(Nat) -> Seq(Nat)]]
  <2>1. \A j \in NodesOrNull : \A w \in Seq(Nat) : <<j>> \o w \in Seq(Nat)
    BY <1>1, <1>3
  <2> QED
    BY <2>1
<1>8. \A j \in NodesOrNull : \A w \in Seq(Nat) : step[j][w] = <<j>> \o w
  OBVIOUS
<1>9. \A j \in NodesOrNull : j \notin Ends => rank[next[j]] < rank[j]
  <2> SUFFICES ASSUME NEW j \in NodesOrNull, j # 0 PROVE rank[next[j]] < rank[j]
    OBVIOUS
  <2>1. next[j] \in {0} \union j + 1..Size /\ next[j] \in NodesOrNull /\ j \in 1..Size
    BY <1>1, <1>3, <1>5
  <2> HIDE DEF next
  <2>2. rank[j] = Size + 2 - j /\ rank[next[j]] = IF next[j] = 0 THEN 1 ELSE Size + 2 - next[j]
    BY <2>1
  <2> QED
    BY <1>1, <2>1, <2>2
<1>10. \A j \in NodesOrNull : j # 0 => next[j] = doc.nodes[j].nextSibling
  OBVIOUS
<1> HIDE DEF rank, next, start, step
<1>11. PICK g \in [NodesOrNull -> Seq(Nat)] :
         \A j \in NodesOrNull : g[j] = IF j \in Ends THEN start[j] ELSE step[j][g[next[j]]]
  <2>1. Size + 1 \in Nat
    BY <1>1
  <2>2. Descends(NodesOrNull, Seq(Nat), Size + 1, rank, Ends, next, start, step)
    BY <1>4, <1>5, <1>6, <1>7, <1>9, <2>1 DEF Descends
  <2> QED
    BY <2>2, RecursionExists
<1>12. \A j \in NodesOrNull : g[j] = IF j = 0 THEN <<>> ELSE <<j>> \o g[doc.nodes[j].nextSibling]
  <2> SUFFICES ASSUME NEW j \in NodesOrNull
               PROVE  g[j] = IF j = 0 THEN <<>> ELSE <<j>> \o g[doc.nodes[j].nextSibling]
    OBVIOUS
  <2>1. CASE j = 0
    BY <1>6, <1>11, <2>1
  <2>2. CASE j # 0
    <3>1. g[next[j]] \in Seq(Nat) /\ next[j] = doc.nodes[j].nextSibling
      BY <1>5, <1>10, <1>11, <2>2
    <3>2. g[j] = step[j][g[next[j]]]
      BY <1>11, <2>2
    <3> QED
      BY <1>8, <2>2, <3>1, <3>2
  <2> QED
    BY <2>1, <2>2
<1>13. g = F(g)
  BY <1>11, <1>12
<1> HIDE DEF F
<1>14. from = F(from)
  BY <1>13
<1> HIDE DEF from
<1>15. \A j : Siblings(j) = from[j]
  BY DEF Siblings, from, F
<1>16. \A j \in NodesOrNull : from[j] = IF j = 0 THEN <<>> ELSE <<j>> \o from[doc.nodes[j].nextSibling]
  BY <1>14 DEF F
<1>a. 0 \in NodesOrNull /\ \A j \in NodeIds : j \in NodesOrNull /\ j # 0
  BY <1>1, <1>3
<1>b. Siblings(0) = <<>>
  BY <1>15, <1>16, <1>a
<1>c. \A j \in NodeIds : from[j] = <<j>> \o from[doc.nodes[j].nextSibling]
  BY <1>16, <1>a
<1>17. Siblings(0) = <<>> /\ \A j \in NodeIds : Siblings(j) = <<j>> \o Siblings(doc.nodes[j].nextSibling)
  BY <1>15, <1>b, <1>c
<1> DEFINE G == {j \in 1..Size : Siblings(j) \in Seq(Nat)}
<1>18. ASSUME NEW j \in 1..Size, \A k \in j + 1..Size : k \in G PROVE j \in G
  <2> DEFINE n == doc.nodes[j].nextSibling
  <2>1. n \in {0} \union j + 1..Size
    BY <1>1, <1>2
  <2>2. Siblings(n) \in Seq(Nat)
    <3> HIDE DEF n
    <3>1. CASE n = 0
      BY <1>17, <3>1, NoWalk
    <3>2. CASE n # 0
      BY <1>18, <2>1, <3>2
    <3> QED
      BY <3>1, <3>2
  <2>3. Siblings(j) = <<j>> \o Siblings(n) /\ j \in Nat
    BY <1>1, <1>17
  <2>4. Siblings(j) \in Seq(Nat)
    <3> HIDE DEF n
    <3> QED
      BY <2>2, <2>3
  <2> QED
    BY <2>4
<1>19. \A j \in 1..Size : j \in G
  <2> HIDE DEF G
  <2> QED
    BY <1>1, <1>18, Downwards
<1>20. \A j \in NodesOrNull : Siblings(j) \in Seq(Nat)
  <2> SUFFICES ASSUME NEW j \in NodesOrNull PROVE Siblings(j) \in Seq(Nat)
    OBVIOUS
  <2>1. CASE j = 0
    BY <1>17, <2>1, NoWalk
  <2>2. CASE j # 0
    BY <1>1, <1>3, <1>19, <2>2
  <2> QED
    BY <2>1, <2>2
<1> QED
  BY <1>2, <1>17, <1>20

\* A node, then the walk up from its parent.
LEMMA AncestorsOn ==
  ASSUME ShapeInv, Finished
  PROVE  /\ AncestorOrSelfWalk(0) = <<>>
         /\ \A j \in NodeIds : /\ GetParent(j) \in 0..j - 1
                               /\ AncestorOrSelfWalk(j) = <<j>> \o AncestorOrSelfWalk(GetParent(j))
<1>1. Size \in Nat /\ NodeIds = 1..Size /\ GetParent(1) = 0
      /\ \A j \in NodeIds : j # 1 => GetParent(j) \in 1..j - 1
  BY TreeFacts
<1>2. \A j \in NodeIds : GetParent(j) \in 0..j - 1
  BY <1>1
<1> DEFINE F(g) == [j \in NodesOrNull |-> IF j = 0 THEN <<>> ELSE <<j>> \o g[GetParent(j)]]
           from == CHOOSE g : g = F(g)
           rank == [j \in NodesOrNull |-> j + 1]
           next == [j \in NodesOrNull |-> IF j = 0 THEN 0 ELSE GetParent(j)]
           Ends == {0}
           start == [j \in NodesOrNull |-> <<>>]
           step == [j \in NodesOrNull |-> [w \in Seq(Nat) |-> <<j>> \o w]]
<1>3. NodesOrNull = 0..Size
  BY <1>1 DEF NodesOrNull
<1>4. rank \in [NodesOrNull -> 1..Size + 1]
  BY <1>1, <1>3
<1>5. next \in [NodesOrNull -> NodesOrNull] /\ \A j \in NodesOrNull : j # 0 => next[j] \in 0..j - 1
  BY <1>1, <1>2, <1>3
<1>6. start \in [NodesOrNull -> Seq(Nat)] /\ \A j \in NodesOrNull : start[j] = <<>>
  OBVIOUS
<1>7. step \in [NodesOrNull -> [Seq(Nat) -> Seq(Nat)]]
  <2>1. \A j \in NodesOrNull : \A w \in Seq(Nat) : <<j>> \o w \in Seq(Nat)
    BY <1>1, <1>3
  <2> QED
    BY <2>1
<1>8. \A j \in NodesOrNull : \A w \in Seq(Nat) : step[j][w] = <<j>> \o w
  OBVIOUS
<1>9. \A j \in NodesOrNull : j \notin Ends => rank[next[j]] < rank[j]
  <2> SUFFICES ASSUME NEW j \in NodesOrNull, j # 0 PROVE rank[next[j]] < rank[j]
    OBVIOUS
  <2>1. next[j] \in 0..j - 1 /\ next[j] \in NodesOrNull /\ j \in 1..Size
    BY <1>1, <1>3, <1>5
  <2> HIDE DEF next
  <2>2. rank[j] = j + 1 /\ rank[next[j]] = next[j] + 1
    BY <2>1
  <2> QED
    BY <1>1, <2>1, <2>2
<1>10. \A j \in NodesOrNull : j # 0 => next[j] = GetParent(j)
  OBVIOUS
<1> HIDE DEF rank, next, start, step
<1>11. PICK g \in [NodesOrNull -> Seq(Nat)] :
         \A j \in NodesOrNull : g[j] = IF j \in Ends THEN start[j] ELSE step[j][g[next[j]]]
  <2>1. Size + 1 \in Nat
    BY <1>1
  <2>2. Descends(NodesOrNull, Seq(Nat), Size + 1, rank, Ends, next, start, step)
    BY <1>4, <1>5, <1>6, <1>7, <1>9, <2>1 DEF Descends
  <2> QED
    BY <2>2, RecursionExists
<1>12. \A j \in NodesOrNull : g[j] = IF j = 0 THEN <<>> ELSE <<j>> \o g[GetParent(j)]
  <2> SUFFICES ASSUME NEW j \in NodesOrNull
               PROVE  g[j] = IF j = 0 THEN <<>> ELSE <<j>> \o g[GetParent(j)]
    OBVIOUS
  <2>1. CASE j = 0
    BY <1>6, <1>11, <2>1
  <2>2. CASE j # 0
    <3>1. g[next[j]] \in Seq(Nat) /\ next[j] = GetParent(j)
      BY <1>5, <1>10, <1>11, <2>2
    <3>2. g[j] = step[j][g[next[j]]]
      BY <1>11, <2>2
    <3> QED
      BY <1>8, <2>2, <3>1, <3>2
  <2> QED
    BY <2>1, <2>2
<1>13. g = F(g)
  BY <1>11, <1>12
<1> HIDE DEF F
<1>14. from = F(from)
  BY <1>13
<1> HIDE DEF from
<1>15. \A j : AncestorOrSelfWalk(j) = from[j]
  BY DEF AncestorOrSelfWalk, from, F
<1>16. \A j \in NodesOrNull : from[j] = IF j = 0 THEN <<>> ELSE <<j>> \o from[GetParent(j)]
  BY <1>14 DEF F
<1>17. 0 \in NodesOrNull /\ \A j \in NodeIds : j \in NodesOrNull /\ j # 0
  BY <1>1, <1>3
<1>18. AncestorOrSelfWalk(0) = <<>>
  BY <1>15, <1>16, <1>17
<1>19. \A j \in NodeIds : from[j] = <<j>> \o from[GetParent(j)]
  BY <1>16, <1>17
<1> QED
  BY <1>2, <1>15, <1>18, <1>19

\* The node before j that stops --node_.
LEMMA LastBeforeFacts ==
  ASSUME ShapeInv, Finished, NEW j \in NodeIds, j # 1, NEW lv \in Nat
  PROVE  LET k == LastBefore(j, lv)
         IN  /\ k \in 1..j - 1 /\ LevelOf(k) <= lv
             /\ \A m \in k + 1..j - 1 : LevelOf(m) > lv
<1>1. /\ Size \in Nat /\ NodeIds = 1..Size /\ LevelOf(1) = 0
      /\ \A i \in 1..Size + 1 : LevelOf(i) \in Nat
  BY TreeFacts
<1>2. j - 1 \in Nat /\ 1 \in 1..j - 1
  BY <1>1
<1> DEFINE Ok(k) == LevelOf(k) <= lv /\ \A m \in k + 1..j - 1 : LevelOf(m) > lv
           G == {k \in 1..j - 1 : LevelOf(k) > lv}
<1>3. \E k \in 1..j - 1 : Ok(k)
  <2> SUFFICES ASSUME \A k \in 1..j - 1 : ~Ok(k) PROVE FALSE
    OBVIOUS
  <2>1. ASSUME NEW k \in 1..j - 1, \A m \in k + 1..j - 1 : m \in G PROVE k \in G
    <3>1. ~Ok(k)
      OBVIOUS
    <3>2. LevelOf(k) \in Nat
      BY <1>1
    <3> QED
      BY <2>1, <3>1, <3>2
  <2>2. \A k \in 1..j - 1 : k \in G
    <3> HIDE DEF G
    <3> QED
      BY <1>2, <2>1, Downwards
  <2>3. 1 \in G
    BY <1>2, <2>2
  <2> QED
    BY <1>1, <2>3
<1> QED
  BY <1>3 DEF LastBefore

\* From j back to the last node of the level of i, if no lower one comes first.
LEMMA PrecedingSiblingsOn ==
  ASSUME ShapeInv, Finished, NEW i \in NodeIds
  PROVE  \E from \in [NodeIds -> Seq(Nat)] :
           /\ PrecedingSiblingWalk(i) = from[i]
           /\ \A j \in NodeIds :
                from[j] = IF LevelOf(j) = 0 THEN <<>>
                          ELSE LET k == LastBefore(j, LevelOf(i))
                               IN IF LevelOf(k) < LevelOf(i) THEN <<>> ELSE <<k>> \o from[k]
<1>1. Size \in Nat /\ NodeIds = 1..Size /\ LevelOf(i) \in Nat /\ LevelOf(1) = 0
  BY TreeFacts
<1> DEFINE K(j) == LastBefore(j, LevelOf(i))
           F(g) == [j \in NodeIds |->
                      IF LevelOf(j) = 0 THEN <<>>
                      ELSE LET k == LastBefore(j, LevelOf(i))
                           IN IF LevelOf(k) < LevelOf(i) THEN <<>> ELSE <<k>> \o g[k]]
           from == CHOOSE g : g = F(g)
           Ends == {j \in NodeIds : LevelOf(j) = 0 \/ LevelOf(K(j)) < LevelOf(i)}
           rank == [j \in NodeIds |-> j]
           next == [j \in NodeIds |-> IF LevelOf(j) = 0 THEN j ELSE K(j)]
           start == [j \in NodeIds |-> <<>>]
           step == [j \in NodeIds |-> IF LevelOf(j) = 0 THEN [w \in Seq(Nat) |-> w]
                                                        ELSE [w \in Seq(Nat) |-> <<K(j)>> \o w]]
<1>2. \A j \in NodeIds : LevelOf(j) # 0 => K(j) \in 1..j - 1 /\ K(j) \in NodeIds /\ K(j) \in Nat
  <2> SUFFICES ASSUME NEW j \in NodeIds, LevelOf(j) # 0
               PROVE  K(j) \in 1..j - 1 /\ K(j) \in NodeIds /\ K(j) \in Nat
    OBVIOUS
  <2>1. j # 1
    BY <1>1
  <2>2. K(j) \in 1..j - 1
    BY <1>1, <2>1, LastBeforeFacts
  <2> HIDE DEF K
  <2> QED
    BY <1>1, <2>2
<1> HIDE DEF K
<1>3. rank \in [NodeIds -> 1..Size] /\ next \in [NodeIds -> NodeIds]
  BY <1>1, <1>2
<1>4. start \in [NodeIds -> Seq(Nat)] /\ \A j \in NodeIds : start[j] = <<>>
  OBVIOUS
<1>5. step \in [NodeIds -> [Seq(Nat) -> Seq(Nat)]]
  <2>1. \A j \in NodeIds : LevelOf(j) # 0 => \A w \in Seq(Nat) : <<K(j)>> \o w \in Seq(Nat)
    BY <1>2
  <2>2. \A j \in NodeIds : LevelOf(j) # 0 => [w \in Seq(Nat) |-> <<K(j)>> \o w] \in [Seq(Nat) -> Seq(Nat)]
    BY <2>1
  <2>3. [w \in Seq(Nat) |-> w] \in [Seq(Nat) -> Seq(Nat)]
    OBVIOUS
  <2> QED
    BY <2>2, <2>3
<1>6. \A j \in NodeIds : j \notin Ends => LevelOf(j) # 0 /\ next[j] = K(j) /\ rank[K(j)] < rank[j]
  BY <1>1, <1>2
<1>7. \A j \in NodeIds : LevelOf(j) # 0 => \A w \in Seq(Nat) : step[j][w] = <<K(j)>> \o w
  OBVIOUS
<1> HIDE DEF rank, next, start, step
<1>8. PICK g \in [NodeIds -> Seq(Nat)] :
         \A j \in NodeIds : g[j] = IF j \in Ends THEN start[j] ELSE step[j][g[next[j]]]
  <2> HIDE DEF Ends
  <2>1. Descends(NodeIds, Seq(Nat), Size, rank, Ends, next, start, step)
    BY <1>1, <1>3, <1>4, <1>5, <1>6 DEF Descends
  <2> QED
    BY <2>1, RecursionExists
<1>9. ASSUME NEW j \in NodeIds
      PROVE  g[j] = IF LevelOf(j) = 0 THEN <<>>
                    ELSE IF LevelOf(K(j)) < LevelOf(i) THEN <<>> ELSE <<K(j)>> \o g[K(j)]
  <2>1. CASE j \in Ends
    BY <1>4, <1>8, <2>1
  <2>2. CASE j \notin Ends
    <3>1. LevelOf(j) # 0 /\ next[j] = K(j) /\ ~(LevelOf(K(j)) < LevelOf(i))
      BY <1>6, <2>2
    <3>2. g[K(j)] \in Seq(Nat)
      BY <1>2, <1>8, <3>1
    <3>3. g[j] = step[j][g[K(j)]]
      BY <1>8, <2>2, <3>1
    <3>4. g[j] = <<K(j)>> \o g[K(j)]
      BY <1>7, <3>1, <3>2, <3>3
    <3> QED
      BY <3>1, <3>4
  <2> QED
    BY <2>1, <2>2
<1>10. g = F(g)
  BY <1>8, <1>9 DEF K
<1> HIDE DEF F
<1>11. from = F(from)
  BY <1>10
<1>12. PrecedingSiblingWalk(i) = from[i]
  BY DEF PrecedingSiblingWalk, from, F
<1> HIDE DEF from
<1>13. \A j \in NodeIds :
         from[j] = IF LevelOf(j) = 0 THEN <<>>
                   ELSE IF LevelOf(K(j)) < LevelOf(i) THEN <<>> ELSE <<K(j)>> \o from[K(j)]
  BY <1>11 DEF F, K
<1> DEFINE G == {j \in NodeIds : from[j] \in Seq(Nat)}
<1>14. ASSUME NEW j \in 1..Size, \A k \in 1..j - 1 : k \in G PROVE j \in G
  <2>1. j \in NodeIds
    BY <1>1
  <2>2. CASE LevelOf(j) = 0
    <3>1. from[j] = <<>>
      BY <1>13, <2>1, <2>2
    <3> QED
      BY <2>1, <3>1, NoWalk
  <2>3. CASE LevelOf(j) # 0
    <3>1. K(j) \in Nat /\ from[K(j)] \in Seq(Nat)
      BY <1>2, <1>14, <2>1, <2>3
    <3>2. <<K(j)>> \o from[K(j)] \in Seq(Nat)
      BY <3>1
    <3>3. from[j] = <<>> \/ from[j] = <<K(j)>> \o from[K(j)]
      BY <1>13, <2>1, <2>3
    <3>4. from[j] \in Seq(Nat)
      BY <3>2, <3>3, NoWalk
    <3> QED
      BY <2>1, <3>4
  <2> QED
    BY <2>2, <2>3
<1>15. \A j \in NodeIds : from[j] \in Seq(Nat)
  <2>1. \A j \in 1..Size : j \in G
    <3> HIDE DEF G
    <3> QED
      BY <1>1, <1>14, Upwards
  <2> QED
    BY <1>1, <2>1
<1>16. from \in [NodeIds -> Seq(Nat)]
  <2>1. from = [j \in NodeIds |-> from[j]]
    BY <1>11 DEF F
  <2> QED
    BY <1>15, <2>1
<1> QED
  BY <1>12, <1>13, <1>16 DEF K

\* A level is lower than the number of nodes before.
LEMMA LevelsBounded ==
  ASSUME ShapeInv, Finished
  PROVE  \A j \in NodeIds : LevelOf(j) \in 0..j - 1
<1>1. /\ Size \in Nat /\ NodeIds = 1..Size /\ LevelOf(1) = 0
      /\ \A j \in 1..Size + 1 : LevelOf(j) \in Nat
  BY TreeFacts
<1> DEFINE G == {j \in NodeIds : LevelOf(j) \in 0..j - 1}
<1>2. ASSUME NEW j \in 1..Size, \A k \in 1..j - 1 : k \in G PROVE j \in G
  <2>1. CASE j = 1
    BY <1>1, <2>1
  <2>2. CASE j # 1
    <3>1. GetParent(j) \in 1..j - 1 /\ LevelOf(j) = LevelOf(GetParent(j)) + 1
      BY <1>1, <2>2, TreeFacts
    <3>2. LevelOf(GetParent(j)) \in 0..GetParent(j) - 1
      BY <1>2, <3>1
    <3>3. LevelOf(j) \in 0..j - 1
      BY <3>1, <3>2
    <3> QED
      BY <1>1, <3>3
  <2> QED
    BY <2>1, <2>2
<1>3. \A j \in 1..Size : j \in G
  <2> HIDE DEF G
  <2> QED
    BY <1>1, <1>2, Upwards
<1> QED
  BY <1>1, <1>3

\* All nodes before j but those of the level that is skipped, which falls.
LEMMA PrecedingOn ==
  ASSUME ShapeInv, Finished, NEW i \in NodeIds
  PROVE  \E from :
           /\ PrecedingWalk(i) = from[i][LevelOf(i) - 1]
           /\ \A j \in NodeIds : \A skip \in -1..Len(doc.nodes) :
                from[j][skip] = IF LevelOf(j) = 0 THEN <<>>
                                ELSE IF LevelOf(j - 1) = skip THEN from[j - 1][skip - 1]
                                ELSE <<j - 1>> \o from[j - 1][skip]
<1>1. Size \in Nat /\ NodeIds = 1..Size /\ LevelOf(1) = 0 /\ Len(doc.nodes) \in Nat
      /\ \A j \in 1..Size + 1 : LevelOf(j) \in Nat
  BY TreeFacts
<1> DEFINE Levels == -1..Len(doc.nodes)
           V == [Levels -> Seq(Nat)]
           F(g) == [j \in NodeIds |->
                      [skip \in -1..Len(doc.nodes) |->
                        IF LevelOf(j) = 0 THEN <<>>
                        ELSE IF LevelOf(j - 1) = skip THEN g[j - 1][skip - 1]
                        ELSE <<j - 1>> \o g[j - 1][skip]]]
           from == CHOOSE g : g = F(g)
           Ends == {j \in NodeIds : LevelOf(j) = 0}
           On(j, v) == [skip \in Levels |-> IF LevelOf(j - 1) = skip THEN v[skip - 1]
                                                                     ELSE <<j - 1>> \o v[skip]]
           rank == [j \in NodeIds |-> j]
           next == [j \in NodeIds |-> IF LevelOf(j) = 0 THEN j ELSE j - 1]
           start == [j \in NodeIds |-> [skip \in Levels |-> <<>>]]
           step == [j \in NodeIds |-> IF LevelOf(j) = 0 THEN [v \in V |-> v] ELSE [v \in V |-> On(j, v)]]
<1>2. \A j \in NodeIds : LevelOf(j) # 0 => j # 1 /\ j - 1 \in NodeIds /\ LevelOf(j - 1) \in Nat /\ j - 1 \in Nat
  BY <1>1
<1>3. rank \in [NodeIds -> 1..Size] /\ next \in [NodeIds -> NodeIds]
  BY <1>1, <1>2
<1>4. start \in [NodeIds -> V] /\ \A j \in NodeIds : start[j] = [skip \in Levels |-> <<>>]
  OBVIOUS
<1>5. ASSUME NEW j \in NodeIds, LevelOf(j) # 0, NEW v \in V PROVE On(j, v) \in V
  <2> SUFFICES ASSUME NEW skip \in Levels
               PROVE  (IF LevelOf(j - 1) = skip THEN v[skip - 1] ELSE <<j - 1>> \o v[skip]) \in Seq(Nat)
    OBVIOUS
  <2>1. CASE LevelOf(j - 1) = skip
    <3>1. skip - 1 \in Levels
      BY <1>1, <1>2, <1>5, <2>1
    <3> QED
      BY <2>1, <3>1
  <2>2. CASE LevelOf(j - 1) # skip
    <3>1. v[skip] \in Seq(Nat) /\ j - 1 \in Nat
      BY <1>2, <1>5
    <3>2. <<j - 1>> \o v[skip] \in Seq(Nat)
      BY <3>1
    <3> QED
      BY <2>2, <3>2
  <2> QED
    BY <2>1, <2>2
<1> HIDE DEF On, V
<1>6. step \in [NodeIds -> [V -> V]]
  <2>1. \A j \in NodeIds : LevelOf(j) # 0 => [v \in V |-> On(j, v)] \in [V -> V]
    BY <1>5
  <2>2. [v \in V |-> v] \in [V -> V]
    OBVIOUS
  <2> QED
    BY <2>1, <2>2
<1>7. \A j \in NodeIds : j \notin Ends => LevelOf(j) # 0 /\ next[j] = j - 1 /\ rank[j - 1] < rank[j]
  BY <1>1, <1>2
<1>8. \A j \in NodeIds : LevelOf(j) # 0 => \A v \in V : step[j][v] = On(j, v)
  OBVIOUS
<1> HIDE DEF rank, next, start, step
<1>9. PICK g \in [NodeIds -> V] :
         \A j \in NodeIds : g[j] = IF j \in Ends THEN start[j] ELSE step[j][g[next[j]]]
  <2> HIDE DEF Ends
  <2>1. Descends(NodeIds, V, Size, rank, Ends, next, start, step)
    BY <1>1, <1>3, <1>4, <1>6, <1>7 DEF Descends
  <2> QED
    BY <2>1, RecursionExists
<1>10. ASSUME NEW j \in NodeIds
       PROVE  g[j] = [skip \in Levels |->
                        IF LevelOf(j) = 0 THEN <<>>
                        ELSE IF LevelOf(j - 1) = skip THEN g[j - 1][skip - 1]
                        ELSE <<j - 1>> \o g[j - 1][skip]]
  <2>1. CASE j \in Ends
    BY <1>4, <1>9, <2>1
  <2>2. CASE j \notin Ends
    <3>1. LevelOf(j) # 0 /\ next[j] = j - 1 /\ g[j - 1] \in V
      BY <1>2, <1>7, <1>9, <2>2
    <3>2. g[j] = step[j][g[j - 1]]
      BY <1>9, <2>2, <3>1
    <3>3. g[j] = On(j, g[j - 1])
      BY <1>8, <3>1, <3>2
    <3> QED
      BY <3>1, <3>3 DEF On
  <2> QED
    BY <2>1, <2>2
<1>11. g = F(g)
  <2>1. g = [j \in NodeIds |-> g[j]]
    BY <1>9
  <2> QED
    BY <1>10, <2>1
<1> HIDE DEF F
<1>12. from = F(from)
  BY <1>11
<1>13. PrecedingWalk(i) = from[i][LevelOf(i) - 1]
  BY DEF PrecedingWalk, from, F
<1> HIDE DEF from
<1>14. \A j \in NodeIds :
         from[j] = [skip \in -1..Len(doc.nodes) |->
                      IF LevelOf(j) = 0 THEN <<>>
                      ELSE IF LevelOf(j - 1) = skip THEN from[j - 1][skip - 1]
                      ELSE <<j - 1>> \o from[j - 1][skip]]
  BY <1>12 DEF F
<1>15. ASSUME NEW j \in NodeIds, NEW skip \in -1..Len(doc.nodes)
       PROVE  from[j][skip] = IF LevelOf(j) = 0 THEN <<>>
                              ELSE IF LevelOf(j - 1) = skip THEN from[j - 1][skip - 1]
                              ELSE <<j - 1>> \o from[j - 1][skip]
  BY <1>14
<1> QED
  BY <1>13, <1>15

-----------------------------------------------------------------------------
(***************************************************************************)
(* What each walk returns                                                  *)
(***************************************************************************)
\* The root has no parent and every other node has one, which comes before it.
LEMMA Parents ==
  ASSUME ShapeInv, Finished, NEW i \in NodeIds
  PROVE  /\ i \in Nat /\ GetParent(i) \in 0..i - 1 /\ (GetParent(i) = 0 <=> i = 1)
         /\ GetParent(i) # 0 => /\ GetParent(i) \in NodeIds /\ GetParent(i) \in Ancestors(i)
                                /\ LevelOf(i) = LevelOf(GetParent(i)) + 1
                                /\ HasChildren(GetParent(i))
<1>1. Size \in Nat /\ NodeIds = 1..Size /\ GetParent(1) = 0
  BY TreeFacts
<1>2. CASE i = 1
  BY <1>1, <1>2
<1>3. CASE i # 1
  <2>1. GetParent(i) \in 1..i - 1 /\ LevelOf(i) = LevelOf(GetParent(i)) + 1 /\ HasChildren(GetParent(i))
    BY <1>3, TreeFacts
  <2>2. GetParent(i) \in 0..i - 1 /\ GetParent(i) # 0 /\ GetParent(i) \in NodeIds /\ i \in Nat
    BY <1>1, <2>1
  <2>3. GetParent(i) \in Ancestors(i)
    BY <2>2, AncestorsUp
  <2> QED
    BY <1>3, <2>1, <2>2, <2>3
<1> QED
  BY <1>2, <1>3

\* A node with the same parent has the same level, and no lower one is between.
LEMMA SiblingLevels ==
  ASSUME ShapeInv, Finished, NEW i \in NodeIds, NEW j \in NodeIds,
         GetParent(i) = GetParent(j), GetParent(i) # 0
  PROVE  /\ LevelOf(i) = LevelOf(j)
         /\ \A k \in GetParent(i) + 1..j : LevelOf(k) >= LevelOf(i)
<1> DEFINE p == GetParent(i)
<1>1. /\ Size \in Nat /\ NodeIds = 1..Size
      /\ \A k \in 1..Size + 1 : LevelOf(k) \in Nat
  BY TreeFacts
<1>2. p \in NodeIds /\ LevelOf(i) = LevelOf(p) + 1 /\ LevelOf(j) = LevelOf(p) + 1 /\ p \in Ancestors(j)
  BY Parents
<1>3. \A k \in p + 1..j : LevelOf(k) > LevelOf(p)
  BY <1>2, Inside
<1> HIDE DEF p
<1>4. \A k \in p + 1..j : LevelOf(k) \in Nat /\ LevelOf(p) \in Nat
  BY <1>1, <1>2
<1> QED
  BY <1>2, <1>3, <1>4 DEF p

LEMMA SiblingsLists ==
  ASSUME ShapeInv, Finished
  PROVE  \A j \in NodeIds : Forward(Siblings(j), {k \in NodeIds : k >= j /\ GetParent(k) = GetParent(j)})
<1>1. Size \in Nat /\ NodeIds = 1..Size
  BY TreeFacts
<1> DEFINE From(j) == {k \in NodeIds : k >= j /\ GetParent(k) = GetParent(j)}
           G == {j \in 1..Size : Forward(Siblings(j), From(j))}
<1>2. ASSUME NEW j \in 1..Size, \A k \in j + 1..Size : k \in G PROVE j \in G
  <2> DEFINE n == doc.nodes[j].nextSibling
             later == {k \in j + 1..Size : GetParent(k) = GetParent(j)}
  <2>1. j \in NodeIds /\ j \in Nat
    BY <1>1
  <2>2. /\ n \in {0} \union j + 1..Size
        /\ Siblings(j) = <<j>> \o Siblings(n) /\ Siblings(n) \in Seq(Nat)
    <3>1. /\ n \in {0} \union j + 1..Size
          /\ Siblings(j) = <<j>> \o Siblings(n)
      BY <2>1, SiblingsOn
    <3>2. n \in NodesOrNull
      BY <1>1, <3>1 DEF NodesOrNull
    <3> QED
      BY <3>1, <3>2, SiblingsOn
  <2>3. IF n = 0 THEN GetParent(j) = 0 \/ later = {}
                 ELSE GetParent(j) # 0 /\ n \in later /\ \A k \in later : n <= k
    BY <2>1, SiblingFacts
  <2> HIDE DEF n
  <2>4. CASE n = 0
    <3>1. Forward(Siblings(n), {}) /\ Range(Siblings(n)) = {}
      <4>1. Siblings(n) = <<>> /\ Forward(<<>>, {})
        BY <2>4, SiblingsOn, NoWalk
      <4> QED
        BY <4>1 DEF Forward
    <3>2. From(j) = {j} \union {}
      <4>1. ASSUME NEW k \in From(j) PROVE k = j
        <5>1. k \in NodeIds /\ k \in Nat /\ k >= j /\ GetParent(k) = GetParent(j)
          BY <1>1
        <5>2. CASE GetParent(j) = 0
          BY <2>1, <5>1, <5>2, Parents
        <5>3. CASE later = {}
          <6>1. ~(k \in j + 1..Size)
            BY <5>1, <5>3
          <6> QED
            BY <1>1, <2>1, <5>1, <6>1
        <5> QED
          BY <2>3, <2>4, <5>2, <5>3
      <4>2. j \in From(j)
        BY <2>1
      <4> QED
        BY <4>1, <4>2
    <3>3. Forward(<<j>> \o Siblings(n), {j} \union {})
      <4>1. \A y \in {} : j < y
        OBVIOUS
      <4>2. Siblings(n) \in Seq(Nat)
        BY <2>2
      <4> HIDE DEF later, From, G
      <4> QED
        BY <2>1, <3>1, <4>1, <4>2, Prepended
    <3> QED
      BY <2>2, <3>2, <3>3
  <2>5. CASE n # 0
    <3>1. /\ n \in later /\ \A k \in later : n <= k
          /\ n \in j + 1..Size /\ GetParent(n) = GetParent(j) /\ n \in NodeIds
      BY <1>1, <2>3, <2>5
    <3>2. Forward(Siblings(n), From(n))
      BY <1>2, <3>1
    <3>3. From(j) = {j} \union From(n)
      <4>1. ASSUME NEW k \in From(j), k # j PROVE k \in From(n)
        <5>1. k \in NodeIds /\ k \in Nat /\ k >= j /\ GetParent(k) = GetParent(j)
          BY <1>1
        <5>2. k \in later
          BY <1>1, <2>1, <4>1, <5>1
        <5>3. k >= n
          BY <1>1, <3>1, <5>1, <5>2
        <5> QED
          BY <3>1, <5>1, <5>3
      <4>2. ASSUME NEW k \in From(n) PROVE k \in From(j)
        BY <1>1, <2>1, <3>1
      <4>3. j \in From(j)
        BY <2>1
      <4> QED
        BY <4>1, <4>2, <4>3
    <3>4. \A k \in From(n) : j < k
      BY <1>1, <2>1, <3>1
    <3>5. Range(Siblings(n)) = From(n)
      BY <3>2 DEF Forward
    <3> HIDE DEF From
    <3>6. Forward(<<j>> \o Siblings(n), {j} \union From(n))
      BY <2>1, <2>2, <3>2, <3>4, <3>5, Prepended
    <3> QED
      BY <2>2, <3>3, <3>6
  <2> QED
    BY <2>4, <2>5
<1>3. \A j \in 1..Size : j \in G
  <2> HIDE DEF G
  <2> QED
    BY <1>1, <1>2, Downwards
<1> QED
  BY <1>1, <1>3

LEMMA ChildWalkLists ==
  ASSUME ShapeInv, Finished, NEW i \in NodeIds
  PROVE  Forward(ChildWalk(i), {j \in NodeIds : GetParent(j) = i})
<1>1. /\ Size \in Nat /\ NodeIds = 1..Size
      /\ \A j \in 1..Size + 1 : LevelOf(j) \in Nat
  BY TreeFacts
<1>2. LevelOf(i + 1) \in Nat /\ LevelOf(i) \in Nat /\ i \in Nat /\ i # 0
  BY <1>1
<1>3. CASE ~HasChildren(i) \/ LevelOf(i + 1) <= LevelOf(i)
  <2>1. ASSUME NEW j \in NodeIds, GetParent(j) = i PROVE FALSE
    <3>1. i \in Ancestors(j) /\ HasChildren(i)
      BY <1>2, <2>1, Parents
    <3>2. i < j /\ \A k \in i + 1..j : LevelOf(k) > LevelOf(i)
      BY <3>1, Inside
    <3>3. LevelOf(i + 1) > LevelOf(i)
      BY <1>1, <3>2
    <3> QED
      BY <1>2, <1>3, <3>1, <3>3
  <2>2. ChildWalk(i) = <<>>
    BY <1>3 DEF ChildWalk
  <2>3. {j \in NodeIds : GetParent(j) = i} = {}
    BY <2>1
  <2> QED
    BY <2>2, <2>3, NoWalk
<1>4. CASE ~(~HasChildren(i) \/ LevelOf(i + 1) <= LevelOf(i))
  <2>1. ChildWalk(i) = Siblings(i + 1)
    BY <1>4 DEF ChildWalk
  <2>2. i + 1 \in NodeIds /\ GetParent(i + 1) = i
    BY <1>2, <1>4, FirstChildNext
  <2>3. \A j \in NodeIds : GetParent(j) = i => j >= i + 1
    <3> SUFFICES ASSUME NEW j \in NodeIds, GetParent(j) = i PROVE j >= i + 1
      OBVIOUS
    <3>1. i \in 0..j - 1 /\ j \in Nat
      BY Parents
    <3> QED
      BY <3>1
  <2>4. {k \in NodeIds : k >= i + 1 /\ GetParent(k) = GetParent(i + 1)} = {j \in NodeIds : GetParent(j) = i}
    BY <2>2, <2>3
  <2>5. Forward(Siblings(i + 1), {k \in NodeIds : k >= i + 1 /\ GetParent(k) = GetParent(i + 1)})
    BY <2>2, SiblingsLists
  <2> QED
    BY <2>1, <2>4, <2>5
<1> QED
  BY <1>3, <1>4

LEMMA FollowingSiblingWalkLists ==
  ASSUME ShapeInv, Finished, NEW i \in NodeIds
  PROVE  Forward(FollowingSiblingWalk(i), {j \in SiblingsOf(i) : j > i})
<1> DEFINE n == doc.nodes[i].nextSibling
           later == {j \in i + 1..Size : GetParent(j) = GetParent(i)}
<1>1. Size \in Nat /\ NodeIds = 1..Size /\ i \in Nat
  BY TreeFacts, Parents
<1>2. IF n = 0 THEN GetParent(i) = 0 \/ later = {}
               ELSE GetParent(i) # 0 /\ n \in later /\ \A k \in later : n <= k
  BY SiblingFacts
<1>3. FollowingSiblingWalk(i) = Siblings(n)
  BY DEF FollowingSiblingWalk
<1> HIDE DEF n
<1>4. {j \in SiblingsOf(i) : j > i} = {j \in NodeIds : j > i /\ j # 1 /\ GetParent(j) = GetParent(i)}
  BY <1>1 DEF SiblingsOf
<1>5. CASE n = 0
  <2>1. ASSUME NEW j \in NodeIds, j > i, j # 1, GetParent(j) = GetParent(i) PROVE FALSE
    <3>1. GetParent(i) # 0
      BY <2>1, Parents
    <3>2. j \in later
      BY <1>1, <2>1
    <3> QED
      BY <1>2, <1>5, <3>1, <3>2
  <2>2. {j \in SiblingsOf(i) : j > i} = {}
    BY <1>4, <2>1
  <2>3. Siblings(n) = <<>>
    BY <1>5, SiblingsOn
  <2> QED
    BY <1>3, <2>2, <2>3, NoWalk
<1>6. CASE n # 0
  <2>1. n \in i + 1..Size /\ n \in NodeIds /\ GetParent(n) = GetParent(i) /\ \A k \in later : n <= k
    BY <1>1, <1>2, <1>6
  <2>2. Forward(Siblings(n), {k \in NodeIds : k >= n /\ GetParent(k) = GetParent(n)})
    BY <2>1, SiblingsLists
  <2>3. ASSUME NEW k \in NodeIds, GetParent(k) = GetParent(i) PROVE k >= n <=> k > i /\ k # 1
    <3>1. k \in 1..Size /\ n \in Nat
      BY <1>1, <2>1
    <3>2. ASSUME k > i PROVE k >= n
      <4>1. k \in later
        BY <1>1, <2>3, <3>1, <3>2
      <4> QED
        BY <2>1, <3>1, <4>1
    <3> QED
      BY <1>1, <2>1, <3>1, <3>2
  <2>4. {k \in NodeIds : k >= n /\ GetParent(k) = GetParent(n)} = {j \in SiblingsOf(i) : j > i}
    BY <1>4, <2>1, <2>3
  <2> QED
    BY <1>3, <2>2, <2>4
<1> QED
  BY <1>5, <1>6

LEMMA DescendantWalksList ==
  ASSUME ShapeInv, Finished, NEW i \in NodeIds
  PROVE  /\ Forward(DescendantWalk(i), Descendants(i))
         /\ Forward(DescendantOrSelfWalk(i), {i} \union Descendants(i))
<1> DEFINE e == FirstAfter(i, LevelOf(i))
           n == e - i
           w == [k \in 1..n |-> i + k - 1]
<1>1. /\ Size \in Nat /\ NodeIds = 1..Size /\ i \in Nat
      /\ \A j \in 1..Size + 1 : LevelOf(j) \in Nat
  BY TreeFacts, Parents
<1>2. /\ e \in i + 1..Size + 1 /\ \A k \in i + 1..e - 1 : LevelOf(k) > LevelOf(i)
      /\ Descendants(i) = i + 1..e - 1
  BY SubtreeEnd
<1>3. DescendantOrSelfWalk(i) = w
  BY DEF DescendantOrSelfWalk
<1> HIDE DEF e
<1>4. n \in Int /\ n >= 1 /\ i + n - 1 = e - 1 /\ n - 1 \in Int /\ n - 1 >= 0 /\ i + 1 \in Nat
      /\ (i + 1) + (n - 1) - 1 = e - 1
  BY <1>1, <1>2
<1> HIDE DEF n
<1>5. Forward(w, i..e - 1)
  <2>1. n >= 0
    BY <1>4
  <2>2. Forward(w, i..i + n - 1)
    BY <1>1, <1>4, <2>1, Consecutive
  <2> QED
    BY <1>4, <2>2
<1>6. i..e - 1 = {i} \union Descendants(i)
  BY <1>1, <1>2
<1>7. Forward(DescendantWalk(i), Descendants(i))
  <2>1. CASE HasChildren(i)
    <3>1. DescendantWalk(i) = Tail(w)
      BY <1>3, <2>1 DEF DescendantWalk
    <3> DEFINE v == [k \in 1..n - 1 |-> (i + 1) + k - 1]
    <3>2. Tail(w) = v
      <4>1. Len(w) = n /\ w \in Seq(Nat)
        <5>1. n \in Nat /\ n >= 0
          BY <1>4
        <5>2. w \in Seq(Nat) /\ DOMAIN w = 1..n
          BY <1>1, <1>4, <5>1, Consecutive
        <5> HIDE DEF w
        <5> QED
          BY <5>1, <5>2
      <4>2. w # <<>>
        BY <1>4, <4>1
      <4>3. Tail(w) = [k \in 1..n - 1 |-> w[k + 1]]
        <5> HIDE DEF w
        <5>1. Tail(w) \in Seq(Nat) /\ Len(Tail(w)) = n - 1 /\ \A k \in 1..n - 1 : Tail(w)[k] = w[k + 1]
          BY <4>1, <4>2, HeadTailProperties
        <5> DEFINE t == Tail(w)
        <5>2. t \in Seq(Nat) /\ Len(t) = n - 1 /\ \A k \in 1..n - 1 : t[k] = w[k + 1]
          BY <5>1
        <5> HIDE DEF t
        <5>3. t = [k \in 1..n - 1 |-> t[k]]
          BY <5>2, LenProperties
        <5> QED
          BY <5>2, <5>3 DEF t
      <4>4. \A k \in 1..n - 1 : w[k + 1] = (i + 1) + k - 1
        BY <1>1, <1>4
      <4> QED
        BY <4>3, <4>4
    <3>3. Forward(v, i + 1..e - 1)
      <4>1. Forward(v, i + 1..(i + 1) + (n - 1) - 1)
        BY <1>4, Consecutive
      <4> QED
        BY <1>4, <4>1
    <3> QED
      BY <1>2, <3>1, <3>2, <3>3
  <2>2. CASE ~HasChildren(i)
    <3>1. Descendants(i) = {}
      <4> SUFFICES ASSUME Descendants(i) # {} PROVE FALSE
        OBVIOUS
      <4>1. i + 1 \in i + 1..e - 1
        BY <1>1, <1>2
      <4>2. LevelOf(i + 1) > LevelOf(i)
        BY <1>2, <4>1
      <4>3. i + 1 \in NodeIds /\ GetParent(i + 1) = i
        BY <4>2, FirstChildNext
      <4>4. i # 0
        BY <1>1
      <4>5. HasChildren(i)
        BY <4>3, <4>4, Parents
      <4> QED
        BY <2>2, <4>5
    <3>2. DescendantWalk(i) = <<>>
      BY <2>2 DEF DescendantWalk
    <3> QED
      BY <3>1, <3>2, NoWalk
  <2> QED
    BY <2>1, <2>2
<1> QED
  BY <1>3, <1>5, <1>6, <1>7


LEMMA AncestorsBefore ==
  ASSUME ShapeInv, Finished
  PROVE  \A j \in NodeIds : Ancestors(j) \subseteq 1..j - 1 /\ Ancestors(j) \subseteq NodeIds
<1>1. Size \in Nat /\ NodeIds = 1..Size
  BY TreeFacts
<1> DEFINE G == {j \in NodeIds : Ancestors(j) \subseteq 1..j - 1}
<1>2. ASSUME NEW j \in 1..Size, \A k \in 1..j - 1 : k \in G PROVE j \in G
  <2>1. j \in NodeIds /\ j \in Nat
    BY <1>1
  <2>2. Ancestors(j) = IF GetParent(j) = 0 THEN {} ELSE {GetParent(j)} \union Ancestors(GetParent(j))
    BY <2>1, AncestorsUp
  <2>3. CASE GetParent(j) = 0
    BY <2>1, <2>2, <2>3
  <2>4. CASE GetParent(j) # 0
    <3>1. GetParent(j) \in 1..j - 1
      BY <2>1, <2>4, Parents
    <3>2. GetParent(j) \in G
      BY <1>2, <3>1
    <3>3. Ancestors(GetParent(j)) \subseteq 1..GetParent(j) - 1
      BY <3>2
    <3>4. 1..GetParent(j) - 1 \subseteq 1..j - 1
      BY <2>1, <3>1
    <3>5. Ancestors(j) \subseteq 1..j - 1
      BY <2>2, <2>4, <3>1, <3>3, <3>4
    <3> QED
      BY <2>1, <3>5
  <2> QED
    BY <2>3, <2>4
<1>3. \A j \in 1..Size : j \in G
  <2> HIDE DEF G
  <2> QED
    BY <1>1, <1>2, Upwards
<1>4. \A j \in NodeIds : 1..j - 1 \subseteq NodeIds
  BY <1>1
<1> QED
  BY <1>1, <1>3, <1>4

LEMMA AncestorWalksList ==
  ASSUME ShapeInv, Finished, NEW i \in NodeIds
  PROVE  /\ Backward(AncestorOrSelfWalk(i), {i} \union Ancestors(i))
         /\ Backward(AncestorWalk(i), Ancestors(i))
<1>1. Size \in Nat /\ NodeIds = 1..Size
  BY TreeFacts
<1> DEFINE Up(j) == AncestorOrSelfWalk(GetParent(j))
           G == {j \in NodeIds : Up(j) \in Seq(Nat) /\ Backward(Up(j), Ancestors(j))}
<1>2. ASSUME NEW j \in G
      PROVE  /\ AncestorOrSelfWalk(j) \in Seq(Nat) /\ Tail(AncestorOrSelfWalk(j)) = Up(j)
             /\ Backward(AncestorOrSelfWalk(j), {j} \union Ancestors(j))
             /\ Backward(Up(j), Ancestors(j))
  <2>1. j \in NodeIds /\ j \in Nat
    BY <1>1
  <2>2. AncestorOrSelfWalk(j) = <<j>> \o Up(j)
    BY <2>1, AncestorsOn
  <2>3. Up(j) \in Seq(Nat) /\ Backward(Up(j), Ancestors(j))
    OBVIOUS
  <2>4. Range(Up(j)) = Ancestors(j)
    BY <2>3 DEF Backward
  <2>5. \A k \in Ancestors(j) : j > k
    <3>1. Ancestors(j) \subseteq 1..j - 1
      BY <2>1, AncestorsBefore
    <3> QED
      BY <2>1, <3>1
  <2> HIDE DEF Up
  <2>6. /\ <<j>> \o Up(j) \in Seq(Nat) /\ Tail(<<j>> \o Up(j)) = Up(j)
        /\ Backward(<<j>> \o Up(j), {j} \union Ancestors(j))
    BY <2>1, <2>3, <2>4, <2>5, Prepended
  <2> QED
    BY <2>2, <2>3, <2>6
<1>3. ASSUME NEW j \in 1..Size, \A k \in 1..j - 1 : k \in G PROVE j \in G
  <2>1. j \in NodeIds
    BY <1>1
  <2>2. Ancestors(j) = IF GetParent(j) = 0 THEN {} ELSE {GetParent(j)} \union Ancestors(GetParent(j))
    BY <2>1, AncestorsUp
  <2>3. CASE GetParent(j) = 0
    <3>1. Up(j) = <<>>
      BY <2>3, AncestorsOn
    <3>2. Up(j) \in Seq(Nat) /\ Backward(Up(j), Ancestors(j))
      BY <2>2, <2>3, <3>1, NoWalk
    <3> QED
      BY <2>1, <3>2
  <2>4. CASE GetParent(j) # 0
    <3>1. GetParent(j) \in 1..j - 1
      BY <2>1, <2>4, Parents
    <3>2. GetParent(j) \in G
      BY <1>3, <3>1
    <3> HIDE DEF G
    <3>3. /\ AncestorOrSelfWalk(GetParent(j)) \in Seq(Nat)
          /\ Backward(AncestorOrSelfWalk(GetParent(j)), {GetParent(j)} \union Ancestors(GetParent(j)))
      BY <1>2, <3>2
    <3> QED
      BY <2>1, <2>2, <2>4, <3>3 DEF G
  <2> QED
    BY <2>3, <2>4
<1>4. i \in G
  <2>1. \A j \in 1..Size : j \in G
    <3> HIDE DEF G
    <3> QED
      BY <1>1, <1>3, Upwards
  <2> QED
    BY <1>1, <2>1
<1> HIDE DEF G, Up
<1> QED
  BY <1>2, <1>4 DEF AncestorWalk

\* All nodes from i to the marker
LEMMA RestLists ==
  ASSUME ShapeInv, Finished, NEW i \in 1..Size + 1
  PROVE  Forward(Rest(i), {j \in NodeIds : j >= i})
<1>1. Size \in Nat /\ NodeIds = 1..Size /\ Len(doc.nodes) = Size + 1
  BY TreeFacts
<1> DEFINE n == Len(doc.nodes) - i
<1>2. n \in Int /\ n >= 0 /\ i \in Nat /\ i + n - 1 = Size
  BY <1>1
<1>3. Rest(i) = [k \in 1..n |-> i + k - 1]
  BY DEF Rest
<1> HIDE DEF n
<1>4. Forward(Rest(i), i..i + n - 1)
  BY <1>2, <1>3, Consecutive
<1>5. i..i + n - 1 = {j \in NodeIds : j >= i}
  BY <1>1, <1>2
<1> QED
  BY <1>4, <1>5

\* After a node's subtree comes its next sibling, if it has one.
LEMMA FollowingWalkLists ==
  ASSUME ShapeInv, Finished, NEW i \in NodeIds
  PROVE  Forward(FollowingWalk(i), {j \in NodeIds : j > i} \ Descendants(i))
<1> DEFINE n == doc.nodes[i].nextSibling
           e == FirstAfter(i, LevelOf(i))
           later == {j \in i + 1..Size : GetParent(j) = GetParent(i)}
<1>1. /\ Size \in Nat /\ NodeIds = 1..Size /\ i \in Nat /\ LevelOf(Size + 1) = 0
      /\ \A j \in 1..Size + 1 : LevelOf(j) \in Nat
  BY TreeFacts, Parents
<1>2. /\ e \in i + 1..Size + 1 /\ LevelOf(e) <= LevelOf(i)
      /\ \A k \in i + 1..e - 1 : LevelOf(k) > LevelOf(i)
      /\ Descendants(i) = i + 1..e - 1
  BY SubtreeEnd
<1>3. IF n = 0 THEN GetParent(i) = 0 \/ later = {}
               ELSE GetParent(i) # 0 /\ n \in later /\ \A k \in later : n <= k
  BY SiblingFacts
<1>4. FollowingWalk(i) = IF n # 0 THEN Rest(n) ELSE Rest(e)
  BY DEF FollowingWalk
<1> HIDE DEF n, e
<1>5. {j \in NodeIds : j > i} \ Descendants(i) = {j \in NodeIds : j >= e}
  BY <1>1, <1>2
<1>6. ASSUME n # 0 PROVE n = e
  <2> DEFINE p == GetParent(i)
  <2>1. /\ p # 0 /\ p \in NodeIds /\ p < i /\ p \in Nat
        /\ n \in i + 1..Size /\ n \in NodeIds /\ GetParent(n) = p /\ \A k \in later : n <= k
    <3>1. p # 0 /\ n \in later /\ \A k \in later : n <= k
      BY <1>3, <1>6
    <3>2. p \in NodeIds /\ p \in 0..i - 1
      BY <3>1, Parents
    <3> QED
      BY <1>1, <3>1, <3>2
  <2>2. LevelOf(n) = LevelOf(i) /\ \A k \in p + 1..n : LevelOf(k) >= LevelOf(i)
    BY <2>1, SiblingLevels
  <2>3. LevelOf(i) = LevelOf(p) + 1 /\ LevelOf(p) \in Nat /\ LevelOf(i) \in Nat
    BY <1>1, <2>1, Parents
  <2> HIDE DEF p, later
  <2>4. e <= n
    <3>1. ASSUME e > n PROVE FALSE
      <4>1. n \in i + 1..e - 1
        BY <1>1, <1>2, <2>1, <3>1
      <4>2. LevelOf(n) > LevelOf(i)
        BY <1>2, <4>1
      <4> QED
        BY <2>2, <2>3, <4>2
    <3> QED
      BY <1>1, <1>2, <2>1, <3>1
  <2>5. e \in p + 1..n /\ e \in NodeIds
    BY <1>1, <1>2, <2>1, <2>4
  <2>6. LevelOf(e) = LevelOf(p) + 1
    <3>1. LevelOf(e) \in Nat /\ LevelOf(e) >= LevelOf(i)
      BY <1>1, <2>2, <2>5
    <3> QED
      BY <1>2, <2>3, <3>1
  <2>7. p \in Ancestors(e)
    <3>1. p < e /\ \A k \in p + 1..e : k \in p + 1..n
      BY <1>1, <1>2, <2>1, <2>4
    <3>2. \A k \in p + 1..n : LevelOf(k) > LevelOf(p)
      <4> SUFFICES ASSUME NEW k \in p + 1..n PROVE LevelOf(k) > LevelOf(p)
        OBVIOUS
      <4>1. LevelOf(k) \in Nat /\ LevelOf(k) >= LevelOf(i)
        BY <1>1, <2>1, <2>2
      <4> QED
        BY <2>3, <4>1
    <3> QED
      BY <2>1, <2>5, <3>1, <3>2, Inside
  <2>8. GetParent(e) = p
    BY <2>1, <2>5, <2>6, <2>7, ParentByLevel
  <2>9. e \in later
    BY <1>1, <1>2, <2>5, <2>8 DEF later, p
  <2>10. n <= e
    BY <2>1, <2>9
  <2> QED
    BY <1>1, <1>2, <2>1, <2>4, <2>10
<1>7. FollowingWalk(i) = Rest(e)
  BY <1>4, <1>6
<1>8. e \in 1..Size + 1
  BY <1>1, <1>2
<1> QED
  BY <1>5, <1>7, <1>8, RestLists

LEMMA AttributeFollowingWalkLists ==
  ASSUME ShapeInv, Finished, NEW i \in NodeIds, NEW a \in AttributesOf(i)
  PROVE  Forward(AttributeFollowingWalk(a), {j \in NodeIds : j > i})
<1>1. Size \in Nat /\ NodeIds = 1..Size
  BY TreeFacts
<1>2. AttributesOf(i) = Owned(doc.attributes, i)
  <2>1. Matches(doc, Size, Finished)
    BY DEF ShapeInv, IInv, Finished
  <2> QED
    BY <1>1, <2>1 DEF Matches, AttributesOf
<1>3. doc.attributes[a].owner = i
  BY <1>2 DEF Owned
<1>4. AttributeFollowingWalk(a) = Rest(i + 1)
  BY <1>3 DEF AttributeFollowingWalk
<1>5. Forward(Rest(i + 1), {j \in NodeIds : j >= i + 1})
  <2>1. i + 1 \in 1..Size + 1
    BY <1>1
  <2> QED
    BY <2>1, RestLists
<1>6. {j \in NodeIds : j >= i + 1} = {j \in NodeIds : j > i}
  BY <1>1
<1> QED
  BY <1>4, <1>5, <1>6

LEMMA PrecedingSiblingWalkLists ==
  ASSUME ShapeInv, Finished, NEW i \in NodeIds
  PROVE  Backward(PrecedingSiblingWalk(i), {j \in SiblingsOf(i) : j < i})
<1>1. /\ Size \in Nat /\ NodeIds = 1..Size /\ LevelOf(1) = 0 /\ LevelOf(i) \in Nat
      /\ \A j \in 1..Size + 1 : LevelOf(j) \in Nat
      /\ \A j \in NodeIds : LevelOf(j) = 0 => j = 1
  BY TreeFacts
<1>2. PICK from \in [NodeIds -> Seq(Nat)] :
        /\ PrecedingSiblingWalk(i) = from[i]
        /\ \A j \in NodeIds :
             from[j] = IF LevelOf(j) = 0 THEN <<>>
                       ELSE LET k == LastBefore(j, LevelOf(i))
                            IN IF LevelOf(k) < LevelOf(i) THEN <<>> ELSE <<k>> \o from[k]
  BY PrecedingSiblingsOn
<1> DEFINE p == GetParent(i)
           Before(j) == {k \in NodeIds : k # 1 /\ k < j /\ GetParent(k) = p}
<1>3. {j \in SiblingsOf(i) : j < i} = Before(i)
  BY <1>1 DEF SiblingsOf
<1>4. CASE i = 1
  <2>1. Before(i) = {}
    BY <1>1, <1>4
  <2>2. from[i] = <<>>
    BY <1>1, <1>2, <1>4
  <2> QED
    BY <1>2, <1>3, <2>1, <2>2, NoWalk
<1>5. CASE i # 1
  <2>1. p \in NodeIds /\ p # 0 /\ LevelOf(i) = LevelOf(p) + 1 /\ LevelOf(p) \in Nat /\ p \in Nat
    BY <1>1, <1>5, Parents
  <2> HIDE DEF p
  <2> DEFINE G == {j \in NodeIds : GetParent(j) = p => Backward(from[j], Before(j))}
  <2>2. ASSUME NEW j \in 1..Size, \A k \in 1..j - 1 : k \in G, GetParent(j) = p
        PROVE  Backward(from[j], Before(j))
    <3> DEFINE k == LastBefore(j, LevelOf(i))
    <3>1. j \in NodeIds /\ j \in Nat /\ p < j /\ j # 1
      <4>1. j \in NodeIds
        BY <1>1
      <4> QED
        BY <2>1, <2>2, <4>1, Parents
    <3>2. /\ LevelOf(j) = LevelOf(i) /\ LevelOf(j) # 0
          /\ \A m \in p + 1..j : LevelOf(m) >= LevelOf(i)
      <4>1. /\ LevelOf(i) = LevelOf(j)
            /\ \A m \in p + 1..j : LevelOf(m) >= LevelOf(i)
        BY <2>1, <2>2, <3>1, SiblingLevels DEF p
      <4> QED
        BY <2>1, <4>1
    <3>3. k \in 1..j - 1 /\ LevelOf(k) <= LevelOf(i) /\ \A m \in k + 1..j - 1 : LevelOf(m) > LevelOf(i)
      BY <1>1, <3>1, LastBeforeFacts
    <3>4. from[j] = IF LevelOf(k) < LevelOf(i) THEN <<>> ELSE <<k>> \o from[k]
      BY <1>2, <3>1, <3>2
    <3> HIDE DEF k
    <3>5. k \in NodeIds /\ k \in Nat /\ LevelOf(k) \in Nat
      BY <1>1, <3>3
    \* no sibling is between k and j
    <3>6. ASSUME NEW m \in Before(j) PROVE m <= k /\ m \in NodeIds /\ p < m /\ m \in Nat
      <4>1. m \in NodeIds /\ m < j /\ GetParent(m) = p /\ m \in Nat
        BY <1>1
      <4>2. LevelOf(m) = LevelOf(i) /\ p < m
        <5>1. p \in 0..m - 1
          BY <4>1, Parents
        <5>2. LevelOf(i) = LevelOf(m)
          BY <2>1, <4>1, SiblingLevels DEF p
        <5> QED
          BY <4>1, <5>1, <5>2
      <4>3. ~(m \in k + 1..j - 1)
        BY <1>1, <3>3, <4>2
      <4> QED
        BY <3>1, <3>5, <4>1, <4>2, <4>3
    <3>7. CASE LevelOf(k) < LevelOf(i)
      <4>1. ~(k \in p + 1..j)
        BY <1>1, <3>2, <3>5, <3>7
      <4>2. k <= p
        BY <2>1, <3>1, <3>3, <3>5, <4>1
      <4>3. Before(j) = {}
        <5> SUFFICES ASSUME NEW m \in Before(j) PROVE FALSE
          OBVIOUS
        <5>1. m <= k /\ p < m /\ m \in Nat
          BY <3>6
        <5> QED
          BY <2>1, <3>5, <4>2, <5>1
      <4> QED
        BY <3>4, <3>7, <4>3, NoWalk
    <3>8. CASE ~(LevelOf(k) < LevelOf(i))
      <4>1. LevelOf(k) = LevelOf(i)
        BY <1>1, <3>3, <3>5, <3>8
      <4>2. p < k
        <5>1. p # k
          BY <2>1, <4>1
        <5>2. ~(p \in k + 1..j - 1)
          BY <1>1, <2>1, <3>3
        <5> QED
          BY <2>1, <3>1, <3>5, <5>1, <5>2
      <4>3. \A m \in p + 1..k : LevelOf(m) > LevelOf(p)
        <5> SUFFICES ASSUME NEW m \in p + 1..k PROVE LevelOf(m) > LevelOf(p)
          OBVIOUS
        <5>1. m \in p + 1..j /\ m \in 1..Size + 1
          BY <1>1, <2>1, <3>1, <3>3, <3>5
        <5>2. LevelOf(m) \in Nat /\ LevelOf(m) >= LevelOf(i)
          BY <1>1, <3>2, <5>1
        <5> QED
          BY <1>1, <2>1, <5>2
      <4>4. p \in Ancestors(k)
        BY <2>1, <3>5, <4>2, <4>3, Inside
      <4>5. GetParent(k) = p
        BY <2>1, <3>5, <4>1, <4>4, ParentByLevel
      <4>6. Backward(from[k], Before(k)) /\ from[k] \in Seq(Nat)
        BY <1>2, <2>2, <3>3, <3>5, <4>5
      <4>7. Before(j) = {k} \union Before(k)
        <5>1. ASSUME NEW m \in Before(j), m # k PROVE m \in Before(k)
          <6>1. m < k
            BY <3>5, <3>6, <5>1
          <6> QED
            BY <6>1
        <5>2. ASSUME NEW m \in Before(k) PROVE m \in Before(j)
          BY <1>1, <3>1, <3>3, <3>5
        <5>3. k \in Before(j)
          BY <2>1, <3>1, <3>3, <3>5, <4>2, <4>5
        <5> QED
          BY <5>1, <5>2, <5>3
      <4>8. \A m \in Before(k) : k > m
        BY <1>1, <3>5
      <4>9. Range(from[k]) = Before(k)
        BY <4>6 DEF Backward
      <4>10. Backward(<<k>> \o from[k], {k} \union Before(k))
        <5> HIDE DEF Before, G
        <5> QED
          BY <3>5, <4>6, <4>8, <4>9, Prepended
      <4> QED
        BY <3>4, <3>8, <4>7, <4>10
    <3> QED
      BY <3>7, <3>8
  <2>3. \A j \in 1..Size : j \in G
    <3>1. ASSUME NEW j \in 1..Size, \A k \in 1..j - 1 : k \in G PROVE j \in G
      <4>1. GetParent(j) = p => Backward(from[j], Before(j))
        BY <2>2, <3>1
      <4> QED
        BY <1>1, <4>1
    <3> HIDE DEF G
    <3> QED
      BY <1>1, <3>1, Upwards
  <2>4. Backward(from[i], Before(i))
    BY <1>1, <2>3 DEF p
  <2> QED
    BY <1>2, <1>3, <2>4
<1> QED
  BY <1>4, <1>5

\* level_ is one below the lowest level met: that of the next ancestor.
LEMMA PrecedingWalkLists ==
  ASSUME ShapeInv, Finished, NEW i \in NodeIds
  PROVE  Backward(PrecedingWalk(i), {j \in NodeIds : j < i} \ Ancestors(i))
<1>1. /\ Size \in Nat /\ NodeIds = 1..Size /\ LevelOf(1) = 0 /\ Len(doc.nodes) = Size + 1
      /\ \A j \in 1..Size + 1 : LevelOf(j) \in Nat
      /\ \A j \in NodeIds : LevelOf(j) = 0 => j = 1
  BY TreeFacts
<1>2. PICK from :
        /\ PrecedingWalk(i) = from[i][LevelOf(i) - 1]
        /\ \A j \in NodeIds : \A skip \in -1..Len(doc.nodes) :
             from[j][skip] = IF LevelOf(j) = 0 THEN <<>>
                             ELSE IF LevelOf(j - 1) = skip THEN from[j - 1][skip - 1]
                             ELSE <<j - 1>> \o from[j - 1][skip]
  BY PrecedingOn
<1> DEFINE Left(j) == {k \in NodeIds : k < j} \ Ancestors(i)
           Lowest(j, s) == /\ \A k \in j..i : LevelOf(k) >= s + 1
                           /\ \E k \in j..i : LevelOf(k) = s + 1
           Right(w, j) == w \in Seq(Nat) /\ Backward(w, Left(j))
           G == {j \in NodeIds : j <= i => \A s \in -1..Size : Lowest(j, s) => Right(from[j][s], j)}
<1>3. ASSUME NEW j \in 1..Size, \A k \in 1..j - 1 : k \in G, j <= i, NEW s \in -1..Size, Lowest(j, s)
      PROVE  Right(from[j][s], j)
  <2>1. /\ j \in NodeIds /\ j \in Nat /\ i \in Nat /\ s \in -1..Len(doc.nodes) /\ s \in Int
        /\ \A k \in j..i : k \in 1..Size + 1 /\ LevelOf(k) \in Nat /\ LevelOf(k) >= s + 1
    BY <1>1, <1>3
  <2>2. CASE LevelOf(j) = 0
    <3>1. j = 1
      BY <1>1, <2>1, <2>2
    <3>2. Left(j) = {}
      BY <1>1, <3>1
    <3>3. from[j][s] = <<>>
      BY <1>2, <2>1, <2>2
    <3> QED
      BY <3>2, <3>3, NoWalk
  <2>3. CASE LevelOf(j) # 0
    <3> DEFINE h == j - 1
    <3>1. h \in NodeIds /\ h \in Nat /\ h \in 1..j - 1 /\ h < i /\ LevelOf(h) \in Nat /\ h + 1 = j /\ h <= i
      BY <1>1, <1>3, <2>1, <2>3
    <3>2. from[j][s] = IF LevelOf(h) = s THEN from[h][s - 1] ELSE <<h>> \o from[h][s]
      BY <1>2, <2>1, <2>3
    <3>3. h \in Ancestors(i) <=> \A k \in j..i : LevelOf(k) > LevelOf(h)
      BY <3>1, Inside
    <3>4. \A k \in NodeIds : k < j <=> k < h \/ k = h
      BY <1>1, <2>1
    <3>5. \A k \in h..i : k = h \/ k \in j..i
      BY <2>1, <3>1
    <3> HIDE DEF h
    <3>6. CASE LevelOf(h) = s
      <4>1. h \in Ancestors(i)
        BY <2>1, <3>3, <3>6
      <4>2. Left(j) = Left(h)
        BY <3>4, <4>1
      <4>3. Lowest(h, s - 1)
        <5>1. \A k \in h..i : LevelOf(k) >= (s - 1) + 1
          BY <2>1, <3>1, <3>5, <3>6
        <5>2. h \in h..i /\ LevelOf(h) = (s - 1) + 1
          BY <2>1, <3>1, <3>6
        <5> QED
          BY <5>1, <5>2
      <4>4. s - 1 \in -1..Size
        BY <1>1, <2>1, <3>1, <3>6
      <4>5. Right(from[h][s - 1], h)
        BY <1>3, <3>1, <4>3, <4>4
      <4> QED
        BY <3>2, <3>6, <4>2, <4>5
    <3>7. CASE LevelOf(h) # s
      <4>1. h \notin Ancestors(i) /\ LevelOf(h) > s
        <5>1. PICK m \in j..i : LevelOf(m) = s + 1
          BY <1>3
        <5>2. m \in NodeIds /\ m \in Nat /\ h < m /\ h \in 1..m - 1
          BY <1>1, <2>1, <3>1
        <5>3. ASSUME \A k \in j..i : LevelOf(k) > LevelOf(h) PROVE FALSE
          <6>1. h \in Ancestors(m)
            <7>1. \A k \in h + 1..m : LevelOf(k) > LevelOf(h)
              BY <2>1, <3>1, <5>1, <5>3
            <7> QED
              BY <3>1, <5>2, <7>1, Inside
          <6> DEFINE q == GetParent(m)
          <6>2. q # 0
            <7>1. Ancestors(m) # {}
              BY <6>1
            <7> QED
              BY <5>2, <7>1, AncestorsUp
          <6>3. q \in NodeIds /\ q \in Nat /\ q < m /\ LevelOf(m) = LevelOf(q) + 1 /\ LevelOf(q) \in Nat
            <7>1. q \in NodeIds /\ q \in 0..m - 1 /\ LevelOf(m) = LevelOf(q) + 1
              BY <5>2, <6>2, Parents
            <7> QED
              BY <1>1, <5>2, <7>1
          <6>4. q = h \/ h \in Ancestors(q)
            BY <5>2, <6>1, <6>2, AncestorsUp
          <6> HIDE DEF q
          <6>5. LevelOf(q) = s
            BY <2>1, <5>1, <6>3
          <6>6. q # h
            BY <3>7, <6>5
          <6>7. h < q
            BY <3>1, <6>3, <6>4, <6>6, Inside
          <6>8. q \in j..i
            BY <2>1, <3>1, <5>1, <5>2, <6>3, <6>7
          <6>9. LevelOf(q) >= s + 1
            BY <2>1, <6>8
          <6> QED
            BY <2>1, <6>5, <6>9
        <5>4. LevelOf(h) > s
          <6>1. CASE LevelOf(h) < s
            <7>1. \A k \in j..i : LevelOf(k) > LevelOf(h)
              BY <2>1, <3>1, <6>1
            <7> QED
              BY <5>3, <7>1
          <6> QED
            BY <2>1, <3>1, <3>7, <6>1
        <5> QED
          BY <3>3, <5>3, <5>4
      <4>2. Left(j) = {h} \union Left(h)
        BY <3>1, <3>4, <4>1
      <4>3. Lowest(h, s)
        <5>1. \A k \in h..i : LevelOf(k) >= s + 1
          BY <2>1, <3>1, <3>5, <4>1
        <5>2. \E k \in h..i : LevelOf(k) = s + 1
          <6>1. PICK m \in j..i : LevelOf(m) = s + 1
            BY <1>3
          <6>2. m \in h..i
            BY <2>1, <3>1
          <6> QED
            BY <6>1, <6>2
        <5> QED
          BY <5>1, <5>2
      <4>4. Right(from[h][s], h)
        BY <1>3, <3>1, <4>3
      <4>5. \A k \in Left(h) : h > k
        BY <1>1, <3>1
      <4>6. Range(from[h][s]) = Left(h) /\ from[h][s] \in Seq(Nat) /\ Backward(from[h][s], Left(h))
        BY <4>4 DEF Backward
      <4>7. /\ <<h>> \o from[h][s] \in Seq(Nat)
            /\ Backward(<<h>> \o from[h][s], {h} \union Left(h))
        <5> HIDE DEF Left, Right, Lowest, G
        <5> QED
          BY <3>1, <4>5, <4>6, Prepended
      <4> QED
        BY <3>2, <3>7, <4>2, <4>7
    <3> QED
      BY <3>6, <3>7
  <2> QED
    BY <2>2, <2>3
<1>4. \A j \in 1..Size : j \in G
  <2>1. ASSUME NEW j \in 1..Size, \A k \in 1..j - 1 : k \in G PROVE j \in G
    <3> HIDE DEF Lowest, Right
    <3>1. j <= i => \A s \in -1..Size : Lowest(j, s) => Right(from[j][s], j)
      BY <1>3, <2>1
    <3> QED
      BY <1>1, <3>1
  <2> HIDE DEF G
  <2> QED
    BY <1>1, <2>1, Upwards
<1>5. LevelOf(i) - 1 \in -1..Size /\ Lowest(i, LevelOf(i) - 1)
  <2>1. LevelOf(i) \in 0..i - 1 /\ i \in 1..Size
    BY <1>1, LevelsBounded
  <2>2. \A k \in i..i : k = i
    BY <2>1
  <2>3. i \in i..i /\ LevelOf(i) = (LevelOf(i) - 1) + 1 /\ LevelOf(i) >= (LevelOf(i) - 1) + 1
    BY <2>1
  <2>4. LevelOf(i) - 1 \in -1..Size
    BY <1>1, <2>1
  <2> QED
    BY <2>2, <2>3, <2>4
<1>6. Right(from[i][LevelOf(i) - 1], i)
  <2>0. i \in 1..Size /\ i <= i
    BY <1>1
  <2>1. i \in G /\ i <= i
    <3> HIDE DEF G
    <3> QED
      BY <1>4, <2>0
  <2> HIDE DEF Lowest, Right
  <2> QED
    BY <1>5, <2>1
<1> QED
  BY <1>2, <1>6

\* Each axis returns the nodes of the tree it is named for, each once: those that go
\* on in the document in document order, those that go back nearest first.
THEOREM AxesMatchTreeAlways == Spec => []AxesMatchTree
<1>1. ShapeInv => AxesMatchTree
  <2> SUFFICES ASSUME ShapeInv, Finished, NEW i \in NodeIds
               PROVE  /\ Forward(ChildWalk(i), {j \in NodeIds : GetParent(j) = i})
                      /\ Forward(DescendantWalk(i), Descendants(i))
                      /\ Forward(DescendantOrSelfWalk(i), {i} \union Descendants(i))
                      /\ Forward(FollowingSiblingWalk(i), {j \in SiblingsOf(i) : j > i})
                      /\ Forward(FollowingWalk(i), {j \in NodeIds : j > i} \ Descendants(i))
                      /\ \A a \in AttributesOf(i) : Forward(AttributeFollowingWalk(a), {j \in NodeIds : j > i})
                      /\ Backward(AncestorOrSelfWalk(i), {i} \union Ancestors(i))
                      /\ Backward(AncestorWalk(i), Ancestors(i))
                      /\ Backward(PrecedingSiblingWalk(i), {j \in SiblingsOf(i) : j < i})
                      /\ Backward(PrecedingWalk(i), {j \in NodeIds : j < i} \ Ancestors(i))
    BY DEF AxesMatchTree
  <2>1. Forward(ChildWalk(i), {j \in NodeIds : GetParent(j) = i})
    BY ChildWalkLists
  <2>2. /\ Forward(DescendantWalk(i), Descendants(i))
        /\ Forward(DescendantOrSelfWalk(i), {i} \union Descendants(i))
    BY DescendantWalksList
  <2>3. Forward(FollowingSiblingWalk(i), {j \in SiblingsOf(i) : j > i})
    BY FollowingSiblingWalkLists
  <2>4. Forward(FollowingWalk(i), {j \in NodeIds : j > i} \ Descendants(i))
    BY FollowingWalkLists
  <2>5. \A a \in AttributesOf(i) : Forward(AttributeFollowingWalk(a), {j \in NodeIds : j > i})
    BY AttributeFollowingWalkLists
  <2>6. /\ Backward(AncestorOrSelfWalk(i), {i} \union Ancestors(i))
        /\ Backward(AncestorWalk(i), Ancestors(i))
    BY AncestorWalksList
  <2>7. Backward(PrecedingSiblingWalk(i), {j \in SiblingsOf(i) : j < i})
    BY PrecedingSiblingWalkLists
  <2>8. Backward(PrecedingWalk(i), {j \in NodeIds : j < i} \ Ancestors(i))
    BY PrecedingWalkLists
  <2> QED
    BY <2>1, <2>2, <2>3, <2>4, <2>5, <2>6, <2>7, <2>8
<1> QED
  BY <1>1, ShapeInvariance, PTL
=============================================================================
