--------------------------- MODULE FastXDMDocument ---------------------------
(***************************************************************************)
(* The Fast XDM document builder of src/src/fastxdm: the events of one     *)
(* tree, sent by constructors and copies, are stored in document order in  *)
(* three arrays without parent pointers.  Indexes start at 1, and 0 is the *)
(* code's (unsigned int)-1 and null pointer, so that rewriting indexes to  *)
(* pointers in endEvent() changes nothing.  The record doc is document_,   *)
(* the FastXDMDocument being built, and a step is one event that reaches   *)
(* FastXDMSequenceBuilder through the filter of the innermost constructor. *)
(***************************************************************************)
EXTENDS Integers, Sequences

CONSTANTS
  ElementNames,    \* records [prefix, uri, local]
  AttributeNames,  \* records [prefix, uri, local]
  Declarations,    \* records [prefix, uri]
  Leaves,          \* the kinds of nodes without content: "comment", "pi"
  Chunks,          \* the text of a text event, a sequence of characters
  InitialNodes,    \* INITIAL_NODES
  InitialAttributes,
  InitialNamespaces,
  MaxEvents        \* bound: the number of events of a tree

ASSUME CapacityAssumption ==
  /\ InitialNodes \in Nat \ {0}
  /\ InitialAttributes \in Nat \ {0}
  /\ InitialNamespaces \in Nat \ {0}
ASSUME LeavesAssumption == Leaves \subseteq {"comment", "pi"}
ASSUME ChunksAssumption == \A c \in Chunks : c \in Seq(STRING)
ASSUME BoundAssumption == MaxEvents \in Nat

VARIABLES
  doc,         \* FastXDMSequenceBuilder::document_
  level,       \* FastXDMSequenceBuilder::level_
  seenContent, \* seenContent_ of the innermost constructor's filter
  item,        \* the item added to seq_: "none", "node" or "attribute"
  events       \* the events so far (history)

vars == <<doc, level, seenContent, item, events>>

NewDocument(numNodes, numAttributes, numNamespaces) ==
  [nodes |-> <<>>, maxNodes |-> numNodes,
   attributes |-> <<>>, maxAttributes |-> numAttributes,
   namespaces |-> <<>>, maxNamespaces |-> numNamespaces,
   elementStack |-> <<>>, prevNode |-> 0, text |-> <<>>, textToCreate |-> FALSE]

Node(k, lv, v) == [nodeKind |-> k, level |-> lv, nextSibling |-> 0,
                   value |-> v, attributes |-> 0, namespaces |-> 0]
MarkerNode == Node("marker", 0, <<>>)
Label(own, n) == [owner |-> own, name |-> n]
MarkerLabel == Label(0, "marker")

Depth(d) == Len(d.elementStack)
Top(d) == IF d.elementStack = <<>> THEN 0 ELSE d.elementStack[Depth(d)]

\* if(num == max) resize(), which doubles the array, before a store
Grown(num, max) == IF num = max THEN max * 2 ELSE max

\* A node is stored and the previous sibling, if there is one, linked to it.
Stored(d, node) ==
  LET new == Len(d.nodes) + 1
      linked == IF d.prevNode = 0 THEN d.nodes
                ELSE [d.nodes EXCEPT ![d.prevNode].nextSibling = new]
  IN [d EXCEPT !.nodes = Append(linked, node), !.prevNode = new,
               !.maxNodes = Grown(Len(d.nodes), d.maxNodes)]

HasText(d) == d.textToCreate /\ (d.nodes = <<>> \/ d.text # <<>>)

\* The macro checkTextBuffer
Flushed(d) ==
  [IF HasText(d) THEN Stored(d, Node("text", Depth(d), d.text)) ELSE d
     EXCEPT !.text = <<>>, !.textToCreate = FALSE]

\* Sent to a new document only.
StartDocument(d) ==
  [Stored(d, Node("document", 0, <<>>)) EXCEPT !.elementStack = <<Len(d.nodes) + 1>>, !.prevNode = 0]

\* Mutant: the first child of an element is linked from its elder sibling.
StartElement_KeepsPrev(d, n) ==
  LET e == Stored(Flushed(d), Node("element", Depth(d), n))
  IN [e EXCEPT !.elementStack = Append(d.elementStack, Len(e.nodes))]

StartElement(d, n) ==
  LET e == Stored(Flushed(d), Node("element", Depth(d), n))
  IN [e EXCEPT !.elementStack = Append(d.elementStack, Len(e.nodes)), !.prevNode = 0]

\* Mutant: the text before an end tag is stored after it.
EndContainer_KeepsText(d) ==
  [d EXCEPT !.prevNode = Top(d), !.elementStack = SubSeq(d.elementStack, 1, Depth(d) - 1)]
\* Mutant: the stack is not popped.
EndContainer_KeepsStack(d) == [Flushed(d) EXCEPT !.prevNode = Top(d)]

\* endElementEvent and endDocumentEvent
EndContainer(d) ==
  [Flushed(d) EXCEPT !.prevNode = Top(d),
                     !.elementStack = SubSeq(d.elementStack, 1, Depth(d) - 1)]

PIOrComment(d, k) == Stored(Flushed(d), Node(k, Depth(d), <<>>))

Text(d, c) == [d EXCEPT !.text = @ \o c, !.textToCreate = TRUE]

\* The first attribute of an element is remembered in the element.
Attribute(d, n) ==
  LET new == Len(d.attributes) + 1
      own == Top(d)
      first == own # 0 /\ d.nodes[own].attributes = 0
  IN [d EXCEPT !.attributes = Append(@, Label(own, n)),
               !.maxAttributes = Grown(Len(d.attributes), @),
               !.nodes = IF first THEN [@ EXCEPT ![own].attributes = new] ELSE @]

Namespace(d, n) ==
  LET new == Len(d.namespaces) + 1
      first == d.nodes[Top(d)].namespaces = 0
  IN [d EXCEPT !.namespaces = Append(@, Label(Top(d), n)),
               !.maxNamespaces = Grown(Len(d.namespaces), @),
               !.nodes = IF first THEN [@ EXCEPT ![Top(d)].namespaces = new] ELSE @]

\* Mutants: no marker is stored, or one without a look at the size.
Marked_Never(array, marker) == array
MarkedMax_Unchecked(array, max) == max

Marked(array, marker) == IF array = <<>> THEN array ELSE Append(array, marker)
MarkedMax(array, max) == IF array = <<>> THEN max ELSE Grown(Len(array), max)

\* endEvent: the end markers are added.
EndEvent(d) ==
  LET e == Flushed(d) IN
  [e EXCEPT !.elementStack = <<>>,
            !.nodes = Marked(@, MarkerNode),
            !.maxNodes = MarkedMax(e.nodes, @),
            !.attributes = Marked(@, MarkerLabel),
            !.maxAttributes = MarkedMax(e.attributes, @),
            !.namespaces = Marked(@, MarkerLabel),
            !.maxNamespaces = MarkedMax(e.namespaces, @)]

(***************************************************************************)
(* The sequence builder.                                                   *)
(***************************************************************************)
Init ==
  /\ doc = NewDocument(InitialNodes, InitialAttributes, InitialNamespaces)
  /\ level = 0
  /\ seenContent = FALSE
  /\ item = "none"
  /\ events = <<>>

Accepting(e) ==
  /\ item = "none"
  /\ Len(events) < MaxEvents
  /\ events' = Append(events, e)

\* The outermost event ends the document and adds its item to the result.
Finish(d, kind) == doc' = EndEvent(d) /\ item' = kind
Continue(d) == doc' = d /\ UNCHANGED item

\* The filter of a document constructor lets no attribute pass.
StartDocumentEvent ==
  /\ level = 0
  /\ Accepting([type |-> "startDocument"])
  /\ Continue(StartDocument(doc))
  /\ level' = 1
  /\ seenContent' = TRUE

StartElementEvent(n) ==
  /\ Accepting([type |-> "startElement", name |-> n])
  /\ Continue(StartElement(doc, n))
  /\ level' = level + 1
  /\ seenContent' = FALSE

EndContainerEvent ==
  /\ level > 0
  /\ Accepting([type |-> "end"])
  /\ IF level = 1 THEN Finish(EndContainer(doc), "node") ELSE Continue(EndContainer(doc))
  /\ level' = level - 1
  /\ seenContent' = TRUE

PIOrCommentEvent(k) ==
  /\ Accepting([type |-> k])
  /\ IF level = 0 THEN Finish(PIOrComment(NewDocument(1, 0, 0), k), "node")
                  ELSE Continue(PIOrComment(doc, k))
  /\ seenContent' = TRUE
  /\ UNCHANGED level

TextEvent(c) ==
  /\ Accepting([type |-> "text", value |-> c])
  /\ IF level = 0 THEN Finish(Text(NewDocument(1, 0, 0), c), "node")
                  ELSE Continue(Text(doc, c))
  /\ seenContent' = TRUE
  /\ UNCHANGED level

\* What the element's filter has let pass: attrs_, and the namespaces alike.
NamesOf(labels) == {labels[i].name : i \in {j \in DOMAIN labels : labels[j].owner = Top(doc)}}

\* Mutant: an attribute may come after content.
AttributeAllowed_Late(n) ==
  \A m \in NamesOf(doc.attributes) : <<m.uri, m.local>> # <<n.uri, n.local>>

AttributeAllowed(n) ==
  /\ ~seenContent
  /\ \A m \in NamesOf(doc.attributes) : <<m.uri, m.local>> # <<n.uri, n.local>>

NamespaceAllowed(n) == ~seenContent /\ \A m \in NamesOf(doc.namespaces) : m.prefix # n.prefix

AttributeEvent(n) ==
  /\ level > 0 => AttributeAllowed(n)
  /\ Accepting([type |-> "attribute", name |-> n])
  /\ IF level = 0 THEN Finish(Attribute(NewDocument(0, 1, 0), n), "attribute")
                  ELSE Continue(Attribute(doc, n))
  /\ UNCHANGED <<level, seenContent>>

\* A namespace without an element is an item without a document.
NamespaceEvent(n) ==
  /\ level > 0
  /\ NamespaceAllowed(n)
  /\ Accepting([type |-> "namespace", name |-> n])
  /\ Continue(Namespace(doc, n))
  /\ UNCHANGED <<level, seenContent>>

Next ==
  \/ StartDocumentEvent
  \/ \E n \in ElementNames : StartElementEvent(n)
  \/ EndContainerEvent
  \/ \E k \in Leaves : PIOrCommentEvent(k)
  \/ \E c \in Chunks : TextEvent(c)
  \/ \E n \in AttributeNames : AttributeEvent(n)
  \/ \E n \in Declarations : NamespaceEvent(n)

Spec == Init /\ [][Next]_vars

(***************************************************************************)
(* What the arrays mean.                                                   *)
(***************************************************************************)
Finished == item = "node"
\* The number of nodes without the marker.
Size == Len(doc.nodes) - (IF Finished THEN 1 ELSE 0)
NodeIds == 1..Size

\* FastXDMDocument::getParent: back to the first node of a lower level
ParentIn(d, i) ==
  IF d.nodes[i].level = 0 THEN 0
  ELSE CHOOSE j \in 1..(i - 1) :
         /\ d.nodes[j].level < d.nodes[i].level
         /\ \A k \in (j + 1)..(i - 1) : d.nodes[k].level >= d.nodes[i].level
GetParent(i) == ParentIn(doc, i)

\* The labels the code finds for a node: from the first until the owner changes
Run(labels, i, first) ==
  {j \in DOMAIN labels : first # 0 /\ j >= first /\ \A k \in first..j : labels[k].owner = i}
AttributesOf(i) == Run(doc.attributes, i, doc.nodes[i].attributes)
NamespacesOf(i) == Run(doc.namespaces, i, doc.nodes[i].namespaces)

(***************************************************************************)
(* Properties                                                              *)
(***************************************************************************)
\* In a finished document every walk meets its end inside the array: over a
\* subtree until the level falls, over labels until the owner changes.
WalksEnd ==
  Finished =>
    \A i \in NodeIds :
      /\ \E j \in (i + 1)..Len(doc.nodes) : doc.nodes[j].level <= doc.nodes[i].level
      /\ \A j \in AttributesOf(i) : \E k \in (j + 1)..Len(doc.attributes) : doc.attributes[k].owner # i
      /\ \A j \in NamespacesOf(i) : \E k \in (j + 1)..Len(doc.namespaces) : doc.namespaces[k].owner # i

\* No array is left: none is written past its end, also not the small documents
\* that are allocated for one node or one attribute, nor by the marker that each
\* array gets when the document ends, and no walk reads past it.
StaysInside ==
  /\ Len(doc.nodes) <= doc.maxNodes
  /\ Len(doc.attributes) <= doc.maxAttributes
  /\ Len(doc.namespaces) <= doc.maxNamespaces
  /\ WalksEnd

\* The stack is as deep as the builder's level.  Every node's nextSibling is the
\* next node with the same parent, or null when there is none, although parents
\* are never stored and text is stored late, when another event needs it to be.
\* Walking the labels from the first one of an element finds exactly its own
\* attributes and namespaces: nobody else's, and none missing.  And no array is
\* left, by a write or by a walk.
LinksMatchTree ==
  /\ StaysInside
  /\ Depth(doc) = level
  /\ \A i \in NodeIds :
       LET later == {j \in (i + 1)..Size : GetParent(j) = GetParent(i)}
       IN IF GetParent(i) = 0 \/ later = {}
            THEN doc.nodes[i].nextSibling = 0
            ELSE /\ doc.nodes[i].nextSibling \in later
                 /\ \A j \in later : doc.nodes[i].nextSibling <= j
  /\ \A i \in NodeIds :
       /\ AttributesOf(i) = {j \in DOMAIN doc.attributes : doc.attributes[j].owner = i}
       /\ NamespacesOf(i) = {j \in DOMAIN doc.namespaces : doc.namespaces[j].owner = i}

\* The arrays hold the tree the events describe: parents from levels, each
\* run of text one node, text that is still waiting already a node of it.
Waiting == IF doc.textToCreate /\ doc.text # <<>> THEN <<doc.text>> ELSE <<>>
Shown(column, last) == column \o [i \in DOMAIN Waiting |-> last]
Unmarked(labels) == IF item = "none" THEN labels ELSE SubSeq(labels, 1, Len(labels) - 1)
KindOf(i) == doc.nodes[i].nodeKind
ValueOf(i) == doc.nodes[i].value
ShownKinds == Shown([i \in NodeIds |-> KindOf(i)], "text")
ShownParents == Shown([i \in NodeIds |-> GetParent(i)], Top(doc))
ShownValues == Shown([i \in NodeIds |-> ValueOf(i)], doc.text)
ShownAttributes == Unmarked(doc.attributes)
ShownNamespaces == Unmarked(doc.namespaces)
Tree == INSTANCE XDMTree WITH
  kind <- ShownKinds, parent <- ShownParents, value <- ShownValues,
  attrs <- ShownAttributes, decls <- ShownNamespaces, open <- Top(doc)
ImplementsTree == Tree!Spec
=============================================================================
