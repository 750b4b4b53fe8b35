---------------------------- MODULE XercesNodeImpl ----------------------------
(***************************************************************************)
(* The other data model: XercesSequenceBuilder makes a Xerces DOM of the   *)
(* same events, and the axes of src/src/xerces walk it by its links.  A    *)
(* query must not see which of the two it runs on.  The DOM is all nodes   *)
(* ever made, attributes among them, in the order they were made; 0 is the *)
(* null pointer.  Entity references and document types, which only a       *)
(* parser makes, are left out.                                             *)
(***************************************************************************)
EXTENDS FastXDMNodeImpl, FastXDMCopy

(***************************************************************************)
(* The builder.                                                            *)
(***************************************************************************)
NewDOM == [nodes |-> <<>>, currentParent |-> 0, currentNode |-> 0]

\* createElementNS and the like, and appendChild to currentParent_
Made(d, kind, v) ==
  [d EXCEPT !.nodes = Append(@, [kind |-> kind, parent |-> d.currentParent, value |-> v]),
            !.currentNode = Len(d.nodes) + 1]

DOMStart(d, kind, v) == [Made(d, kind, v) EXCEPT !.currentParent = Len(d.nodes) + 1]

\* Mutant: the node that was closed is forgotten.
DOMEnd_KeepsNode(d) == [d EXCEPT !.currentParent = d.nodes[d.currentParent].parent]

DOMEnd(d) ==
  [d EXCEPT !.currentNode = d.currentParent, !.currentParent = d.nodes[d.currentParent].parent]

\* Adjacent text is combined, and empty text can only be a node without parent.
DOMText(d, v) ==
  IF d.currentNode # 0 /\ d.nodes[d.currentNode].kind = "text"
  THEN [d EXCEPT !.nodes[d.currentNode].value = @ \o v]
  ELSE IF d.currentParent = 0 \/ v # <<>> THEN Made(d, "text", v) ELSE d

\* One event.  Namespaces are attributes of the name xmlns.
DOMHandled(d, e) ==
  CASE e.type = "startDocument" -> DOMStart(d, "document", <<>>)
    [] e.type = "startElement" -> DOMStart(d, "element", e.name)
    [] e.type = "end" -> DOMEnd(d)
    [] e.type = "text" -> DOMText(d, e.value)
    [] e.type = "attribute" -> Made(d, "attribute", e.name)
    [] e.type = "namespace" -> Made(d, "xmlns", e.name)
    [] OTHER -> Made(d, e.type, <<>>)

Built == FoldLeft(DOMHandled, NewDOM, events).nodes

(***************************************************************************)
(* The DOM (external).  An attribute has an owner element and no siblings. *)
(***************************************************************************)
IsLabel(dom, x) == dom[x].kind \in {"attribute", "xmlns"}
DOMChildren(dom, p) == {x \in DOMAIN dom : dom[x].parent = p /\ ~IsLabel(dom, x)}
Labels(dom, p, kind) ==
  SetToSortSeq({x \in DOMAIN dom : dom[x].parent = p /\ dom[x].kind = kind}, LAMBDA x, y : x < y)
FirstOf(S) == IF S = {} THEN 0 ELSE CHOOSE x \in S : \A y \in S : x <= y
LastOf(S) == IF S = {} THEN 0 ELSE CHOOSE x \in S : \A y \in S : y <= x

FirstChild(dom, x) == FirstOf(DOMChildren(dom, x))
LastChild(dom, x) == LastOf(DOMChildren(dom, x))
DOMSiblings(dom, x) ==
  IF dom[x].parent = 0 \/ IsLabel(dom, x) THEN {} ELSE DOMChildren(dom, dom[x].parent)
NextSibling(dom, x) == FirstOf({y \in DOMSiblings(dom, x) : y > x})
PreviousSibling(dom, x) == LastOf({y \in DOMSiblings(dom, x) : y < x})

(***************************************************************************)
(* The axes: the nodes that nextNode() returns from x, before node tests.  *)
(***************************************************************************)
Pointers(dom) == 0..Len(dom)
Parent(dom, x) == dom[x].parent

AncestorOrSelfAxis(dom, x) ==
  LET from[y \in Pointers(dom)] == IF y = 0 THEN <<>> ELSE <<y>> \o from[Parent(dom, y)]
  IN from[x]
AncestorAxis(dom, x) == Tail(AncestorOrSelfAxis(dom, x))

FollowingSiblingAxis(dom, x) ==
  LET from[y \in Pointers(dom)] == IF y = 0 THEN <<>> ELSE <<y>> \o from[NextSibling(dom, y)]
  IN from[NextSibling(dom, x)]
ChildAxis(dom, x) ==
  LET c == FirstChild(dom, x)
  IN IF c = 0 THEN <<>> ELSE <<c>> \o FollowingSiblingAxis(dom, c)
PrecedingSiblingAxis(dom, x) ==
  LET from[y \in Pointers(dom)] == IF y = 0 THEN <<>> ELSE <<y>> \o from[PreviousSibling(dom, y)]
  IN from[PreviousSibling(dom, x)]

\* The next sibling of y or of the nearest ancestor that has one, below x.
NextBelow(dom, x, y) ==
  LET climb[z \in Pointers(dom)] ==
        IF z = x THEN 0
        ELSE IF NextSibling(dom, z) # 0 THEN NextSibling(dom, z) ELSE climb[Parent(dom, z)]
  IN climb[y]

DescendantOrSelfAxis(dom, x) ==
  LET from[y \in Pointers(dom)] ==
        IF y = 0 THEN <<>>
        ELSE <<y>> \o from[IF FirstChild(dom, y) # 0 THEN FirstChild(dom, y) ELSE NextBelow(dom, x, y)]
  IN from[x]

\* Mutant: a walk below x that has climbed to x goes on beside x.
DescendantAxis_Climbs(dom, x) ==
  LET from[y \in Pointers(dom)] ==
        IF y = 0 THEN <<>>
        ELSE <<y>> \o from[IF FirstChild(dom, y) # 0 THEN FirstChild(dom, y) ELSE NextBelow(dom, 0, y)]
  IN from[FirstChild(dom, x)]

DescendantAxis(dom, x) ==
  LET from[y \in Pointers(dom)] ==
        IF y = 0 THEN <<>>
        ELSE <<y>> \o from[IF FirstChild(dom, y) # 0 THEN FirstChild(dom, y) ELSE NextBelow(dom, x, y)]
  IN from[FirstChild(dom, x)]

\* From a node after x the walk goes down first, from x itself it does not.
FollowingAxis(dom, x) ==
  LET from[y \in Pointers(dom)] ==
        IF y = 0 THEN <<>>
        ELSE <<y>> \o from[IF FirstChild(dom, y) # 0 THEN FirstChild(dom, y) ELSE NextBelow(dom, 0, y)]
  IN from[NextBelow(dom, 0, x)]

Deepest(dom, x) ==
  LET down[y \in Pointers(dom)] == IF LastChild(dom, y) = 0 THEN y ELSE down[LastChild(dom, y)]
  IN down[x]

\* Mutant: parent_ stays the parent of x.
PrecedingAxis_ParentOnly(dom, x) ==
  LET from[y \in Pointers(dom)] ==
        IF PreviousSibling(dom, y) # 0
        THEN LET z == Deepest(dom, PreviousSibling(dom, y)) IN <<z>> \o from[z]
        ELSE IF Parent(dom, y) = 0 THEN <<>>
        ELSE IF Parent(dom, y) = Parent(dom, x) THEN from[Parent(dom, y)]
        ELSE <<Parent(dom, y)>> \o from[Parent(dom, y)]
  IN from[x]

\* parent_ is the nearest ancestor of x that has not been passed: a parent the
\* walk climbs to is returned unless it is that one.
PrecedingAxis(dom, x) ==
  LET from[y \in Pointers(dom), parent_ \in Pointers(dom)] ==
        IF PreviousSibling(dom, y) # 0
        THEN LET z == Deepest(dom, PreviousSibling(dom, y)) IN <<z>> \o from[z, parent_]
        ELSE IF Parent(dom, y) = 0 THEN <<>>
        ELSE IF Parent(dom, y) = parent_ THEN from[parent_, Parent(dom, parent_)]
        ELSE <<Parent(dom, y)>> \o from[Parent(dom, y), parent_]
  IN from[x, Parent(dom, x)]

(***************************************************************************)
(* Accessors and copies.                                                   *)
(***************************************************************************)
\* addStringValueToBuffer
DOMStringValue(dom, x) ==
  LET value[y \in DOMAIN dom] ==
        IF dom[y].kind = "text" THEN dom[y].value
        ELSE FlattenSeq([k \in DOMAIN ChildAxis(dom, y) |-> value[ChildAxis(dom, y)[k]]])
  IN value[x]

Names(dom, labels) == [k \in DOMAIN labels |-> dom[labels[k]].value]

\* What outputInheritedNamespaces and the namespace axis meet on the way up.
\* The map keeps attributes by name, and xmlns comes after those of this model.
DOMMet(dom, x) ==
  <<Binding(dom[x].value)>>
    \o SelectSeq(Bindings(Names(dom, Labels(dom, x, "attribute"))), LAMBDA b : b.uri # "")
    \o Bindings(Names(dom, Labels(dom, x, "xmlns")))

DOMInScope(dom, x) ==
  LET met[y \in Pointers(dom)] ==
        IF y = 0 \/ dom[y].kind # "element" THEN <<>> ELSE DOMMet(dom, y) \o met[Parent(dom, y)]
      all == met[x]
  IN {all[k] : k \in {m \in DOMAIN all : all[m].uri # "" /\ \A n \in 1..(m - 1) : all[n].prefix # all[m].prefix}}

\* The events of a copy, those of a start tag gathered into one with a set.
Gathered(type, name, labels) == [type |-> type, name |-> name, labels |-> labels]
ToSetOfEvents(type, names) == ToSet(Events(type, names))

DOMOpening(dom, x, inherited) ==
  CASE dom[x].kind = "document" -> <<[type |-> "startDocument"]>>
    [] dom[x].kind = "element" ->
         <<Gathered("startElement", dom[x].value,
             ToSetOfEvents("attribute", Names(dom, Labels(dom, x, "attribute"))) \union
             IF inherited THEN {[type |-> "namespace", name |-> n] : n \in DOMInScope(dom, x)}
             ELSE ToSetOfEvents("namespace", Names(dom, Labels(dom, x, "xmlns"))))>>
    [] dom[x].kind = "text" -> <<[type |-> "text", value |-> dom[x].value]>>
    [] OTHER -> <<[type |-> dom[x].kind]>>

DOMToEvents(dom, x) ==
  LET sent[y \in DOMAIN dom, inherited \in BOOLEAN] ==
        DOMOpening(dom, y, inherited)
          \o FlattenSeq([k \in DOMAIN ChildAxis(dom, y) |-> sent[ChildAxis(dom, y)[k], FALSE]])
          \o (IF dom[y].kind \in {"document", "element"} THEN <<[type |-> "end"]>> ELSE <<>>)
  IN sent[x, TRUE]

(***************************************************************************)
(* Properties                                                              *)
(***************************************************************************)
\* The node of the DOM that is the node i of the arrays, and back.
InDOM(dom, i) == SetToSortSeq({x \in DOMAIN dom : ~IsLabel(dom, x)}, LAMBDA x, y : x < y)[i]
InArray(dom, x) == Cardinality({y \in 1..x : ~IsLabel(dom, y)})
Found(dom, walk) == [k \in DOMAIN walk |-> InArray(dom, walk[k])]

SameWalks(dom, i, x) ==
  /\ Found(dom, ChildAxis(dom, x)) = ChildWalk(i)
  /\ Found(dom, DescendantAxis(dom, x)) = DescendantWalk(i)
  /\ Found(dom, DescendantOrSelfAxis(dom, x)) = DescendantOrSelfWalk(i)
  /\ Found(dom, FollowingSiblingAxis(dom, x)) = FollowingSiblingWalk(i)
  /\ Found(dom, FollowingAxis(dom, x)) = FollowingWalk(i)
  /\ Found(dom, AncestorAxis(dom, x)) = AncestorWalk(i)
  /\ Found(dom, AncestorOrSelfAxis(dom, x)) = AncestorOrSelfWalk(i)
  /\ Found(dom, PrecedingSiblingAxis(dom, x)) = PrecedingSiblingWalk(i)
  /\ Found(dom, PrecedingAxis(dom, x)) = PrecedingWalk(i)

\* From an attribute the walks begin at its element.  (What follows it begins
\* with the children of its element in the arrays, and leaves them out here.)
SameWalksOfAttribute(dom, a) ==
  LET x == SetToSortSeq({y \in DOMAIN dom : dom[y].kind = "attribute"}, LAMBDA y, z : y < z)[a]
      owner == doc.attributes[a].owner
  IN /\ Found(dom, AncestorAxis(dom, x)) = AncestorOrSelfWalk(owner)
     /\ Found(dom, FollowingAxis(dom, x)) = FollowingWalk(owner)
     /\ Found(dom, PrecedingAxis(dom, x)) = PrecedingWalk(owner)

\* The events of a copy of the arrays, in the same form.
GatheredEvents(evs) ==
  LET add(sent, e) ==
        IF e.type = "startElement" THEN Append(sent, Gathered(e.type, e.name, {}))
        ELSE IF e.type \in {"attribute", "namespace"}
        THEN [sent EXCEPT ![Len(sent)].labels = @ \union {e}]
        ELSE Append(sent, e)
  IN FoldLeft(add, <<>>, evs)

\* A query does not see which data model it runs on: the links of the DOM and the
\* levels of the arrays give the same nodes with the same texts, from every node
\* along every axis, the same namespaces in scope, and the same copies.  The text
\* of the outermost node is all that was sent, however it was cut into events.
DataModelsAgree ==
  Finished =>
    LET dom == Built
    IN /\ StringValueIsText
       /\ Cardinality({x \in DOMAIN dom : ~IsLabel(dom, x)}) = Size
       /\ \A i \in NodeIds :
            LET x == InDOM(dom, i)
            IN /\ dom[x].kind = KindOf(i) /\ dom[x].value = ValueOf(i)
               /\ SameWalks(dom, i, x)
               /\ HasChildren(i) => DOMStringValue(dom, x) = StringValue(i)
               /\ IsElement(doc, i) => DOMInScope(dom, x) = ToSet(InScope(doc, i))
               /\ DOMToEvents(dom, x) = GatheredEvents(ToEvents(i))
       /\ \A a \in UNION {AttributesOf(i) : i \in NodeIds} : SameWalksOfAttribute(dom, a)
===============================================================================
