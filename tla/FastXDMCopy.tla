----------------------------- MODULE FastXDMCopy -----------------------------
(***************************************************************************)
(* Copying a node of a finished Fast XDM document: toEvents() sends the    *)
(* events of its subtree, the outermost element with all namespaces that   *)
(* are in scope for it, and a builder stores them as a document again.     *)
(* An absent prefix or URI is "".                                          *)
(***************************************************************************)
EXTENDS FastXDMDocument, SequencesExt

IsElement(d, i) == i # 0 /\ d.nodes[i].nodeKind = "element"
RunOf(d, i, field) ==
  LET labels == d[field] IN
  [k \in 1..Cardinality(Run(labels, i, d.nodes[i][field])) |->
     labels[d.nodes[i][field] + k - 1].name]

(***************************************************************************)
(* Namespaces in scope.  Both outputInheritedNamespaces and the namespace  *)
(* axis meet the bindings of an element and its ancestors in this order,   *)
(* and the first one of a prefix is the one that counts, although it is    *)
(* not shown when it has no URI.                                           *)
(***************************************************************************)
Binding(n) == [prefix |-> n.prefix, uri |-> n.uri]
Bindings(names) == [k \in DOMAIN names |-> Binding(names[k])]

\* Mutant: an element without a namespace hides no default namespace.
Met_Hidden(d, i) ==
  SelectSeq(<<Binding(d.nodes[i].value)>> \o Bindings(RunOf(d, i, "attributes")), LAMBDA b : b.uri # "")
    \o Bindings(RunOf(d, i, "namespaces"))

Met(d, i) ==
  <<Binding(d.nodes[i].value)>>
    \o SelectSeq(Bindings(RunOf(d, i, "attributes")), LAMBDA b : b.uri # "")
    \o Bindings(RunOf(d, i, "namespaces"))

InScope(d, i) ==
  LET met[j \in 0..Len(d.nodes)] ==
        IF IsElement(d, j) THEN Met(d, j) \o met[ParentIn(d, j)] ELSE <<>>
      all == met[i]
      counts(k) == all[k].uri # "" /\ \A m \in 1..(k - 1) : all[m].prefix # all[k].prefix
  IN [k \in 1..Cardinality({m \in DOMAIN all : counts(m)}) |->
        all[SetToSortSeq({m \in DOMAIN all : counts(m)}, LAMBDA x, y : x < y)[k]]]

\* The namespace axis adds the prefix xml if nothing declares it.
NamespaceAxis(d, i) ==
  LET found == InScope(d, i)
  IN IF \E k \in DOMAIN found : found[k].prefix = "xml" THEN found
     ELSE Append(found, [prefix |-> "xml", uri |-> "xml"])

(***************************************************************************)
(* toEvents                                                                *)
(***************************************************************************)
Events(type, names) == [k \in DOMAIN names |-> [type |-> type, name |-> names[k]]]

\* Mutant: a copy takes only its own declarations along.
Declared_Own(i, inherited) == RunOf(doc, i, "namespaces")

Declared(i, inherited) == IF inherited THEN InScope(doc, i) ELSE RunOf(doc, i, "namespaces")

\* The events before the children.
Opening(i, inherited) ==
  LET node == doc.nodes[i] IN
  CASE node.nodeKind = "document" -> <<[type |-> "startDocument"]>>
    [] node.nodeKind = "element" ->
         <<[type |-> "startElement", name |-> node.value]>>
           \o Events("attribute", RunOf(doc, i, "attributes"))
           \o Events("namespace", Declared(i, inherited))
    [] node.nodeKind = "text" -> <<[type |-> "text", value |-> node.value]>>
    [] OTHER -> <<[type |-> node.nodeKind]>>

Closing(i) ==
  IF doc.nodes[i].nodeKind \in {"document", "element"} THEN <<[type |-> "end"]>> ELSE <<>>

\* Mutant: the children of a child are sent again as children.
After_NextNode(i) == i + 1

\* The first node after the subtree of i.
After(i) ==
  CHOOSE j \in (i + 1)..Len(doc.nodes) :
    /\ doc.nodes[j].level <= doc.nodes[i].level
    /\ \A k \in (i + 1)..(j - 1) : doc.nodes[k].level > doc.nodes[i].level

\* The children of a node of level lv, from the one at c on.
ToEvents(i) ==
  LET children[c \in 1..Len(doc.nodes), lv \in 0..Len(doc.nodes)] ==
        IF doc.nodes[c].level <= lv THEN <<>>
        ELSE Opening(c, FALSE) \o children[c + 1, doc.nodes[c].level] \o Closing(c)
               \o children[After(c), lv]
  IN Opening(i, TRUE) \o children[i + 1, doc.nodes[i].level] \o Closing(i)

\* One event of the copy, as FastXDMSequenceBuilder hands it on.
Handled(d, e) ==
  CASE e.type = "startDocument" -> StartDocument(d)
    [] e.type = "startElement" -> StartElement(d, e.name)
    [] e.type = "attribute" -> Attribute(d, e.name)
    [] e.type = "namespace" -> Namespace(d, e.name)
    [] e.type = "text" -> Text(d, e.value)
    [] e.type = "end" -> EndContainer(d)
    [] OTHER -> PIOrComment(d, e.type)

Copy(i) ==
  EndEvent(FoldLeft(Handled, NewDocument(InitialNodes, InitialAttributes, InitialNamespaces), ToEvents(i)))

(***************************************************************************)
(* Properties                                                              *)
(***************************************************************************)
\* The copy of any node is its subtree, node for node: the same kinds, names,
\* texts and attributes, the levels and links of a tree of its own.
CopyIsSubtree ==
    \A i \in NodeIds :
      LET copy == Copy(i)
          moved(j) == IF j = 0 THEN 0 ELSE j - i + 1
      IN /\ Len(copy.nodes) = moved(After(i))
         /\ \A k \in 1..(After(i) - i) :
              LET old == doc.nodes[i + k - 1] new == copy.nodes[k] IN
              /\ new.nodeKind = old.nodeKind
              /\ new.value = old.value
              /\ new.level = old.level - doc.nodes[i].level
              /\ new.nextSibling = IF k = 1 THEN 0 ELSE moved(old.nextSibling)
              /\ RunOf(copy, k, "attributes") = RunOf(doc, i + k - 1, "attributes")

\* In the copy of an element the same namespaces are in scope everywhere, also
\* those that came from elements around the original; and the prefix of an
\* element's name, or its absence, means in its own scope what it means in the
\* name, whatever the elements around it declare.
ScopeKept ==
    \A i \in NodeIds : IsElement(doc, i) =>
      LET copy == Copy(i)
          name == doc.nodes[i].value
          own == {b \in ToSet(NamespaceAxis(doc, i)) : b.prefix = name.prefix}
      IN /\ \A k \in 1..(After(i) - i) :
              IsElement(copy, k) => ToSet(NamespaceAxis(copy, k)) = ToSet(NamespaceAxis(doc, i + k - 1))
         /\ own = IF name.uri = "" THEN {} ELSE {Binding(name)}

\* A copy of any node of a finished document keeps its tree and its namespaces.
CopyKept == Finished => CopyIsSubtree /\ ScopeKept
=============================================================================
