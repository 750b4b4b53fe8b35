--------------------------- MODULE FastXDMNodeImpl ---------------------------
(***************************************************************************)
(* The nodes of a finished Fast XDM document as queries see them: the axes *)
(* walk the arrays with levels, sibling links and owners, and nodes are    *)
(* ordered by their places in the arrays.  A walk is the sequence of nodes *)
(* that the axis returns from a node i, before any node test.              *)
(***************************************************************************)
EXTENDS FastXDMDocument, SequencesExt

LevelOf(i) == doc.nodes[i].level
NodesOrNull == {0} \union NodeIds

\* ++node_, or --node_, until the level is lv or lower
FirstAfter(i, lv) ==
  CHOOSE j \in (i + 1)..Len(doc.nodes) :
    LevelOf(j) <= lv /\ \A k \in (i + 1)..(j - 1) : LevelOf(k) > lv
LastBefore(i, lv) ==
  CHOOSE j \in 1..(i - 1) :
    LevelOf(j) <= lv /\ \A k \in (j + 1)..(i - 1) : LevelOf(k) > lv

Siblings(i) ==
  LET from[j \in NodesOrNull] == IF j = 0 THEN <<>> ELSE <<j>> \o from[doc.nodes[j].nextSibling]
  IN from[i]

HasChildren(i) == KindOf(i) \in {"element", "document"}
ChildWalk(i) ==
  IF ~HasChildren(i) \/ LevelOf(i + 1) <= LevelOf(i) THEN <<>> ELSE Siblings(i + 1)
FollowingSiblingWalk(i) == Siblings(doc.nodes[i].nextSibling)

DescendantOrSelfWalk(i) == [k \in 1..(FirstAfter(i, LevelOf(i)) - i) |-> i + k - 1]
DescendantWalk(i) == IF HasChildren(i) THEN Tail(DescendantOrSelfWalk(i)) ELSE <<>>

AncestorOrSelfWalk(i) ==
  LET from[j \in NodesOrNull] == IF j = 0 THEN <<>> ELSE <<j>> \o from[GetParent(j)]
  IN from[i]
AncestorWalk(i) == Tail(AncestorOrSelfWalk(i))
ParentWalk(i) == IF GetParent(i) = 0 THEN <<>> ELSE <<GetParent(i)>>

PrecedingSiblingWalk(i) ==
  LET from[j \in NodeIds] ==
        IF LevelOf(j) = 0 THEN <<>>
        ELSE LET k == LastBefore(j, LevelOf(i))
             IN IF LevelOf(k) < LevelOf(i) THEN <<>> ELSE <<k>> \o from[k]
  IN from[i]

\* All nodes from j on; the walk ends at the marker.
Rest(j) == [k \in 1..(Len(doc.nodes) - j) |-> j + k - 1]

\* Mutant: a node without a next sibling has nothing after it.
FollowingWalk_SiblingOnly(i) ==
  IF doc.nodes[i].nextSibling = 0 THEN <<>> ELSE Rest(doc.nodes[i].nextSibling)

FollowingWalk(i) ==
  IF doc.nodes[i].nextSibling # 0 THEN Rest(doc.nodes[i].nextSibling)
                                  ELSE Rest(FirstAfter(i, LevelOf(i)))

\* Mutant: only the parent is skipped.
PrecedingWalk_ParentOnly(i) ==
  LET from[j \in NodeIds] ==
        IF LevelOf(j) = 0 THEN <<>>
        ELSE IF j - 1 = GetParent(i) THEN from[j - 1] ELSE <<j - 1>> \o from[j - 1]
  IN from[i]

\* level_ is the level of the next ancestor to skip.  Below level 0 it wraps
\* in the code, to a value no level has, like -1 here.
PrecedingWalk(i) ==
  LET from[j \in NodeIds] ==
        [skip \in -1..Len(doc.nodes) |->
          IF LevelOf(j) = 0 THEN <<>>
          ELSE IF LevelOf(j - 1) = skip THEN from[j - 1][skip - 1]
          ELSE <<j - 1>> \o from[j - 1][skip]]
  IN from[i][LevelOf(i) - 1]

\* The following axis of an attribute begins after its owner's start tag.
AttributeFollowingWalk(a) == Rest(doc.attributes[a].owner + 1)

\* FastXDMNodeImpl::dmStringValue of a document or an element
StringValue(i) ==
  LET texts == SelectSeq(DescendantOrSelfWalk(i), LAMBDA j : KindOf(j) = "text")
  IN FlattenSeq([k \in DOMAIN texts |-> ValueOf(texts[k])])

(***************************************************************************)
(* References to nodes: a node or an attribute of the document, or a       *)
(* namespace node, which the namespace axis makes anew each time.  Those   *)
(* of one element differ in their order_; one with owner 0 is the result   *)
(* of a namespace constructor.                                             *)
(***************************************************************************)
NodeRef(i) == [type |-> "node", at |-> i, order |-> 0]
AttributeRef(a) == [type |-> "attribute", at |-> a, order |-> 0]
NamespaceRef(own, n) == [type |-> "namespace", at |-> own, order |-> n]

Owner(x) == IF x.type = "attribute" THEN doc.attributes[x.at].owner ELSE x.at
Free(x) == x.type = "namespace" /\ x.at = 0

\* Mutant: an element's attributes come before it.
NodeLessThan_Owner(x, y) == IF y.type = "attribute" THEN x.at < Owner(y) ELSE x.at < y.at

\* FastXDMNodeImpl::lessThan for nodes of one document
NodeLessThan(x, y) ==
  CASE y.type = "node" -> x.at < y.at
    [] y.type = "attribute" -> x.at <= Owner(y)
    [] OTHER -> ~Free(y) /\ x.at < y.at

\* FastXDMAttributeNodeImpl::lessThan
AttributeLessThan(x, y) ==
  CASE y.type = "attribute" -> x.at < y.at
    [] y.type = "node" -> Owner(x) < y.at
    [] OTHER -> ~Free(y) /\ Owner(x) <= y.at

\* Mutant: a namespace node is before the attributes of its element, too.
NamespaceLessThan_Owner(x, y) ==
  CASE y.type # "namespace" -> Free(x) \/ x.at <= Owner(y)
    [] Free(x) -> ~Free(y) \/ x.order < y.order
    [] OTHER -> ~Free(y) /\ (x.at < y.at \/ (x.at = y.at /\ x.order < y.order))

\* FastXDMNamespaceNodeImpl::lessThan.  The nodes of constructors are ordered
\* by their addresses, here their order.
NamespaceLessThan(x, y) ==
  CASE y.type # "namespace" -> Free(x) \/ x.at < Owner(y)
    [] Free(x) -> ~Free(y) \/ x.order < y.order
    [] OTHER -> ~Free(y) /\ (x.at < y.at \/ (x.at = y.at /\ x.order < y.order))

LessThan(x, y) ==
  CASE x.type = "node" -> NodeLessThan(x, y)
    [] x.type = "attribute" -> AttributeLessThan(x, y)
    [] OTHER -> NamespaceLessThan(x, y)

Equals(x, y) == x.type = y.type /\ x = y /\ ~Free(x)

(***************************************************************************)
(* Properties                                                              *)
(***************************************************************************)
Ancestors(i) ==
  LET above[j \in NodeIds] == IF GetParent(j) = 0 THEN {} ELSE {GetParent(j)} \union above[GetParent(j)]
  IN above[i]
Descendants(i) == {j \in NodeIds : i \in Ancestors(j)}
Forward(w, S) == Range(w) = S /\ \A k, m \in DOMAIN w : k < m => w[k] < w[m]
Backward(w, S) == Range(w) = S /\ \A k, m \in DOMAIN w : k < m => w[k] > w[m]
SiblingsOf(i) == {j \in NodeIds \ {1} : j # i /\ GetParent(j) = GetParent(i)}

\* The string value of the outermost node is all text sent, in its order,
\* however the events cut it into pieces.
AllText ==
  LET texts == SelectSeq(events, LAMBDA e : e.type = "text")
  IN FlattenSeq([k \in DOMAIN texts |-> texts[k].value])
StringValueIsText == HasChildren(1) => StringValue(1) = AllText

\* Every axis returns the nodes the tree says, each once: those that go on in the
\* document in document order, those that go back nearest first, stopping at the
\* root without a look at what is in front of the array.
AxesMatchTree ==
  Finished =>
    \A i \in NodeIds :
      /\ Forward(ChildWalk(i), {j \in NodeIds : GetParent(j) = i})
      /\ Forward(DescendantWalk(i), Descendants(i))
      /\ Forward(DescendantOrSelfWalk(i), {i} \union Descendants(i))
      /\ Forward(FollowingSiblingWalk(i), {j \in SiblingsOf(i) : j > i})
      /\ Forward(FollowingWalk(i), {j \in NodeIds : j > i} \ Descendants(i))
      /\ \A a \in AttributesOf(i) : Forward(AttributeFollowingWalk(a), {j \in NodeIds : j > i})
      /\ Backward(AncestorOrSelfWalk(i), {i} \union Ancestors(i))
      /\ Backward(AncestorWalk(i), Ancestors(i))
      /\ Backward(PrecedingSiblingWalk(i), {j \in SiblingsOf(i) : j < i})
      /\ Backward(PrecedingWalk(i), {j \in NodeIds : j < i} \ Ancestors(i))

StoredRefs ==
  {NodeRef(i) : i \in NodeIds} \union {AttributeRef(a) : a \in {b \in DOMAIN doc.attributes : doc.attributes[b].owner # 0}}
\* Every element has a namespace node, that of the prefix xml if no other.
NamespaceRefs == {NamespaceRef(i, 0) : i \in {j \in NodeIds : KindOf(j) = "element"}}
FreeRefs == {NamespaceRef(0, n) : n \in 0..1}
Refs == StoredRefs \union NamespaceRefs \union FreeRefs

\* The order events had: a node, then its attributes, then what is inside it.
EventOrder(x, y) ==
  \/ Owner(x) < Owner(y)
  \/ Owner(x) = Owner(y) /\ x.type = "node" /\ y.type = "attribute"
  \/ Owner(x) = Owner(y) /\ x.type = y.type /\ x.at < y.at

\* Sorting and the removal of duplicates need an order: nodes and attributes are
\* in the order of their events, whatever mixture of node classes compares them,
\* of two different nodes one is before the other, and every node is itself.  (An
\* element and a namespace node of its own are not ordered, and the namespace
\* nodes of constructors are equal to none.)
OwnNamespace(x, y) == x.type = "node" /\ y.type = "namespace" /\ x.at = y.at
OrderIsStrict ==
  Finished =>
    /\ \A x, y \in StoredRefs : LessThan(x, y) = EventOrder(x, y)
    /\ \A x, y \in Refs :
         /\ ~LessThan(x, x)
         /\ x # y /\ ~OwnNamespace(x, y) /\ ~OwnNamespace(y, x) => LessThan(x, y) = ~LessThan(y, x)
         /\ Equals(x, y) => ~LessThan(x, y)
         /\ ~Free(x) => Equals(x, y) = (x = y)
=============================================================================
