--------------------------- MODULE NoInheritFilter ---------------------------
(***************************************************************************)
(* The filter behind an element constructor under "copy-namespaces         *)
(* no-inherit": the children of the new element are told to undeclare what *)
(* the element declares, so that they inherit nothing from it.  The events *)
(* of the history go through the filter, a record of its members and of    *)
(* what it has passed on (next_), and are stored as a document of their    *)
(* own.  A null URI is "".                                                 *)
(***************************************************************************)
EXTENDS FastXDMCopy

(***************************************************************************)
(* prefixes_ are those that the constructed element binds, at level 1, and *)
(* prefixes2_ those that its current child names, at level 2.  While       *)
(* elementStarted_ the child's start tag is open.                          *)
(***************************************************************************)
NewFilter ==
  [next |-> <<>>, prefixes |-> {}, prefixes2 |-> {}, level |-> 0, elementStarted |-> FALSE]

Undeclared(f) == SetToSeq(f.prefixes \ f.prefixes2)

\* checkElementStarted
Checked(f) ==
  LET missing == Undeclared(f)
      told == [k \in DOMAIN missing |-> [type |-> "namespace", name |-> [prefix |-> missing[k], uri |-> ""]]]
  IN [f EXCEPT !.elementStarted = FALSE,
               !.next = IF f.elementStarted /\ f.level = 2 THEN @ \o told ELSE @]

Sent(f, e) == [f EXCEPT !.next = Append(@, e)]

\* Mutant: the child is told too late, when its start tag has ended.
Passed_Late(f, e) == Checked(Sent(f, e))

\* What the filter does with an event that may end a start tag.
Passed(f, e) == Sent(Checked(f), e)

NIStartElement(f, e) ==
  LET p == Passed(f, e)
      bound == IF f.level = 0 /\ e.name.uri # "" THEN {e.name.prefix} ELSE {}
  IN [p EXCEPT !.level = @ + 1,
               !.prefixes = @ \union bound,
               !.prefixes2 = IF f.level = 1 THEN {e.name.prefix} ELSE @,
               !.elementStarted = (f.level = 1)]

NIEndElement(f, e) == [Passed(f, e) EXCEPT !.level = @ - 1]

\* Mutant: what the constructed element declares is not remembered.
Bound_NameOnly(f, binding) == f

\* At level 1 the element binds a prefix, unless it undeclares it.
Bound(f, binding) ==
  IF f.level = 1 /\ binding.uri # "" THEN [f EXCEPT !.prefixes = @ \union {binding.prefix}] ELSE f

\* Mutant: what a child declares is not remembered.
Own_NameOnly(f, binding) == f

Own(f, binding) ==
  IF f.level = 2 THEN [f EXCEPT !.prefixes2 = @ \union {binding.prefix}] ELSE f

NIAttribute(f, e) ==
  LET s == Sent(f, e) IN IF e.name.uri = "" THEN s ELSE Own(Bound(s, e.name), e.name)

NINamespace(f, e) == Own(Bound(Sent(f, e), e.name), e.name)

NIHandled(f, e) ==
  CASE e.type = "startElement" -> NIStartElement(f, e)
    [] e.type = "end" -> NIEndElement(f, e)
    [] e.type = "attribute" -> NIAttribute(f, e)
    [] e.type = "namespace" -> NINamespace(f, e)
    [] OTHER -> Passed(f, e)

(***************************************************************************)
(* Properties                                                              *)
(***************************************************************************)
StoredEvents(evs) ==
  EndEvent(FoldLeft(Handled, NewDocument(InitialNodes, InitialAttributes, InitialNamespaces), evs))

\* An element constructor makes an element, and lets no document node into it.
Constructed == Finished /\ IsElement(doc, 1) /\ \A i \in NodeIds : KindOf(i) # "document"

\* What inner elements have in scope when the constructed element declares
\* nothing to them.
Detached == [doc EXCEPT !.nodes[1].nodeKind = "document"]

NothingInherited(kept) ==
  /\ ToSet(InScope(kept, 1)) = ToSet(InScope(doc, 1))
  /\ \A i \in NodeIds \ {1} : IsElement(doc, i) =>
       ToSet(InScope(kept, i)) = ToSet(InScope(Detached, i))

OnlyNamespacesAdded(kept) ==
  /\ kept.attributes = doc.attributes
  /\ Len(kept.nodes) = Len(doc.nodes)
  /\ \A i \in NodeIds :
       /\ [kept.nodes[i] EXCEPT !.namespaces = 0] = [doc.nodes[i] EXCEPT !.namespaces = 0]
       /\ Run(kept.namespaces, i, kept.nodes[i].namespaces) =
            {j \in DOMAIN kept.namespaces : kept.namespaces[j].owner = i}
  /\ \A i, j \in DOMAIN kept.namespaces :
       /\ i < j
       /\ kept.namespaces[i].owner = kept.namespaces[j].owner
       => kept.namespaces[i].name.prefix # kept.namespaces[j].name.prefix

\* Every element inside the constructed one has in scope what it declares and
\* gets from the elements between them, no more and no less, and the constructed
\* element has what it has without the filter.  The filter adds namespaces only,
\* they stay in the run of their element, and no element gets two for one prefix,
\* as the element filter promises: what a child declares itself is not
\* undeclared as well.
NoInheritKept ==
  Constructed =>
    LET kept == StoredEvents(FoldLeft(NIHandled, NewFilter, events).next)
    IN NothingInherited(kept) /\ OnlyNamespacesAdded(kept)
=============================================================================
