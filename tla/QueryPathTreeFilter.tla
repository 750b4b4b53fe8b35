------------------------- MODULE QueryPathTreeFilter -------------------------
(***************************************************************************)
(* Document projection.  The optimizer collects the paths of a query, one  *)
(* step after the other; then the document is parsed, and the filter lets  *)
(* through to the builder what the paths need (QueryPathTreeFilter).       *)
(* Evaluating the query over what was built is to give what it gives over  *)
(* the whole document.                                                     *)
(***************************************************************************)
EXTENDS QueryPathTree

CONSTANTS
  Cases,          \* what a query and a document are made of: records of
                  \*   steps: the steps, maxSteps: bound on the steps of all paths,
                  \*   maxPaths: bound on the paths, uses: what becomes of results,
                  \*   names, attributes: names of elements and attributes,
                  \*   leaves: other kinds of nodes, declares: whether elements
                  \*   declare namespaces, maxNodes: bound on the nodes
  None            \* the namespace and name of what has none

ASSUME CasesAssumption ==
  \A c \in Cases : /\ \A s \in c.steps : s.axis \in Axes
                  /\ c.uses \subseteq {"count", "value", "result"}

VARIABLES
  case,           \* the case at hand
  paths,          \* the paths that are complete: [steps, use, doubts]
  steps,          \* the steps of the path that is being collected
  doubts,         \* in what way that path is known not to be followed
  context,        \* returnPaths: the path nodes those steps lead to
  tree,           \* the tree of QueryPathNodes
  source,         \* the nodes of the document in order: [type, uri, name, parent]
  stack_,         \* an entry for each open node: [node, matched, children]
  output,         \* what the builder has been sent: [node, parent] in that order
  unforeseen,     \* whether a namespace has put an element where none is to be
  pc              \* "query", "parse" or "built"

queryvars == <<case, paths, steps, doubts, context, tree>>
docvars == <<source, stack_, output, unforeseen>>
vars == <<queryvars, docvars, pc>>

-------------------------------------------------------------------------------
(* Collecting paths *)

Init ==
  /\ case \in Cases
  /\ paths = {} /\ steps = <<>> /\ doubts = {}
  /\ context = {Root} /\ tree = {Root}
  /\ source = <<>> /\ stack_ = <<>> /\ output = <<>> /\ unforeseen = FALSE
  /\ pc = "query"

StepsUsed == Len(steps) + FoldSet(LAMBDA p, n : n + Len(p.steps), 0, paths)

\* Mutant: the new node is not given to its parent.
OptimizeStep_NotAppended(s) ==
  /\ pc = "query"
  /\ StepsUsed < case.maxSteps
  /\ Cardinality(paths) < case.maxPaths
  /\ steps' = Append(steps, s)
  /\ context' = UNION {Step(p, s.axis, s.test) : p \in context}
  /\ UNCHANGED <<case, paths, doubts, tree, docvars, pc>>

OptimizeStep(s) ==
  /\ pc = "query"
  /\ StepsUsed < case.maxSteps
  /\ Cardinality(paths) < case.maxPaths
  /\ steps' = Append(steps, s)
  /\ context' = UNION {Step(p, s.axis, s.test) : p \in context}
  /\ tree' = tree \union context'
  /\ doubts' = doubts \union {"overlooked" : p \in {p \in context : Overlooked(p, s.axis, s.test)}}
                      \union {"displaced" : p \in {p \in context : Displaced(p, s.axis)}}
  /\ UNCHANGED <<case, paths, docvars, pc>>

\* The path is complete; another one may start at fn:doc() of the same URI,
\* which projectionMap_ gives the same root.
UseResult(use) ==
  /\ pc = "query" /\ steps # <<>>
  /\ paths' = paths \union {[steps |-> steps, use |-> use, doubts |-> doubts]}
  /\ tree' = tree \union UNION {MarkSubtree(p, use) : p \in context}
  /\ steps' = <<>> /\ doubts' = {} /\ context' = {Root}
  /\ UNCHANGED <<case, docvars, pc>>

-------------------------------------------------------------------------------
(* The filter's stack *)

NonElementChildren(entry) ==
  \E p \in entry.children : TypeOf(p) \in {"DESCENDANT", "CHILD"} /\ IsWildcardNodeType(TestOf(p))

OfType(entry, types) == {p \in entry.children : TypeOf(p) \in types}

\* Mutant: descendants are looked for on one level only.
Inherited_OnlyElements(entry) == OfType(entry, {"DESCENDANT_ATTR"})

\* What an element or the document inside "entry" inherits, and the paths that
\* end at it.
Inherited(entry) == OfType(entry, {"DESCENDANT", "DESCENDANT_ATTR"})
Below(ps) == UNION {ChildrenIn(tree, p) : p \in ps}

\* The bottom of the stack stands for what is outside the document.
Outside == [node |-> 0, matched |-> TRUE, children |-> {Root}]

Top == stack_[Len(stack_)]

NearestMatched == CHOOSE i \in DOMAIN stack_ :
  stack_[i].matched /\ \A j \in i + 1..Len(stack_) : ~stack_[j].matched

\* Mutant: only children are taken for children.
ExpectsOneOf_Children(pseudo, parent) ==
  \E p \in OfType(pseudo, {"CHILD"}), q \in OfType(parent, {"CHILD"}) : NamesOverlap(TestOf(p), TestOf(q))

\* A node below "parent" could be mistaken for a child that "pseudo" expects.
ExpectsOneOf(pseudo, parent) ==
  \E p \in OfType(pseudo, {"CHILD"}), q \in OfType(parent, {"DESCENDANT_ATTR", "DESCENDANT", "CHILD"}) :
    TypeOf(q) = "DESCENDANT_ATTR" \/ NamesOverlap(TestOf(p), TestOf(q))

\* checkAncestors: the ancestors that have to be sent before a node at the top.
CheckAncestors ==
  {j \in NearestMatched + 1..Len(stack_) : \A i \in NearestMatched..j - 1 : ExpectsOneOf(stack_[i], Top)}

\* Mutant: an ancestor that is sent is not noted as such.
Matched_Forgotten(is) == stack_

Matched(is) == [i \in DOMAIN stack_ |-> [stack_[i] EXCEPT !.matched = @ \/ i \in is]]

\* The elements at the levels "is", each inside the one before it.
Opened(is) ==
  LET lower == NearestMatched
  IN  [k \in 1..Cardinality(is) |->
         [node |-> stack_[lower + k].node, parent |-> stack_[lower + k - 1].node]]

\* A node at the top of the stack, after the ancestors it needs.
Sent(node, is) == output \o Opened(is) \o <<[node |-> node, parent |-> stack_[NearestMatched + Cardinality(is)].node]>>

-------------------------------------------------------------------------------
(* Events of the parser *)

New == Len(source) + 1
NoteNode(type, uri, name) ==
  source' = Append(source, [type |-> type, uri |-> uri, name |-> name, parent |-> Top.node])

StartDocument ==
  /\ pc = "query" /\ paths # {} /\ steps = <<>>
  /\ source' = <<[type |-> "document", uri |-> None, name |-> None, parent |-> 0]>>
  /\ stack_' = <<Outside, [node |-> 1, matched |-> TRUE, children |-> ChildrenIn(tree, Root)]>>
  /\ output' = <<[node |-> 1, parent |-> 0]>>
  /\ pc' = "parse"
  /\ UNCHANGED <<queryvars, unforeseen>>

\* A document has one element, and elements and text inside it.
Parsing == pc = "parse" /\ Len(source) < case.maxNodes
InElement == Len(stack_) > 2

StartElement(n) ==
  /\ Parsing
  /\ ~InElement => \A i \in DOMAIN source : source[i].type # "element"
  /\ NoteNode("element", n.uri, n.name)
  /\ LET ends == {p \in OfType(Top, {"DESCENDANT", "CHILD"}) : NameMatches(TestOf(p), n)}
         entry == [node |-> New, matched |-> ends # {}, children |-> Inherited(Top) \union Below(ends)]
     IN  IF ends # {}
         THEN /\ stack_' = Append(Matched(CheckAncestors), entry)
              /\ output' = Sent(New, CheckAncestors)
         ELSE /\ stack_' = Append(stack_, entry)
              /\ UNCHANGED output
  /\ UNCHANGED <<queryvars, unforeseen, pc>>

\* An element that has not been sent goes before its attribute or namespace.
SentLate == IF Top.matched THEN output ELSE Append(output, [node |-> Top.node, parent |-> stack_[NearestMatched].node])

\* Attributes and namespaces come with the start of the element.
AtStart == InElement /\ \A i \in Top.node + 1..Len(source) : source[i].type \in {"attribute", "namespace"}

Attribute(n) ==
  /\ Parsing /\ AtStart
  /\ \A i \in Top.node + 1..Len(source) : source[i].type = "attribute" => source[i].name # n.name
  /\ NoteNode("attribute", n.uri, n.name)
  /\ IF \E p \in OfType(Top, {"DESCENDANT_ATTR", "ATTRIBUTE"}) : NameMatches(TestOf(p), n)
     THEN /\ stack_' = Matched({Len(stack_)})
          /\ output' = Append(SentLate, [node |-> New, parent |-> Top.node])
     ELSE UNCHANGED <<stack_, output>>
  /\ UNCHANGED <<queryvars, unforeseen, pc>>

Namespace ==
  /\ Parsing /\ AtStart /\ case.declares
  /\ \A i \in Top.node + 1..Len(source) : source[i].type # "namespace"
  /\ NoteNode("namespace", None, None)
  /\ stack_' = Matched({Len(stack_)})
  /\ output' = Append(SentLate, [node |-> New, parent |-> Top.node])
  /\ unforeseen' = (unforeseen \/ ~Top.matched)
  /\ UNCHANGED <<queryvars, pc>>

\* Text, comments and processing instructions.
Leaf(type) ==
  /\ Parsing /\ type \in case.leaves
  /\ type = "text" => InElement /\ ~(Last(source).type = "text" /\ Last(source).parent = Top.node)
  /\ NoteNode(type, None, None)
  /\ IF NonElementChildren(Top)
     THEN /\ stack_' = Matched(CheckAncestors)
          /\ output' = Sent(New, CheckAncestors)
     ELSE UNCHANGED <<stack_, output>>
  /\ UNCHANGED <<queryvars, unforeseen, pc>>

EndElement ==
  /\ pc = "parse" /\ InElement
  /\ stack_' = Front(stack_)
  /\ UNCHANGED <<queryvars, source, output, unforeseen, pc>>

EndDocument ==
  /\ pc = "parse" /\ ~InElement /\ \E i \in DOMAIN source : source[i].type = "element"
  /\ stack_' = Front(stack_)
  /\ pc' = "built"
  /\ UNCHANGED <<queryvars, source, output, unforeseen>>

Next ==
  \/ \E s \in case.steps : OptimizeStep(s)
  \/ \E use \in case.uses : UseResult(use)
  \/ StartDocument
  \/ \E n \in case.names : StartElement(n)
  \/ \E n \in case.attributes : Attribute(n)
  \/ Namespace
  \/ \E type \in case.leaves : Leaf(type)
  \/ EndElement
  \/ EndDocument

Spec == Init /\ [][Next]_vars

-------------------------------------------------------------------------------
(* Evaluating paths over a document: the nodes, and the parent of each *)

Whole == [i \in DOMAIN source |-> source[i].parent]
BuiltNodes == {output[i].node : i \in DOMAIN output}
Place == [n \in BuiltNodes |-> (CHOOSE i \in DOMAIN output : output[i].node = n)]
Projected == [n \in BuiltNodes |-> output[Place[n]].parent]

\* The ancestors of every node.
AncestorsIn(doc) ==
  LET above[n \in DOMAIN doc] == IF doc[n] = 0 THEN {} ELSE {doc[n]} \union above[doc[n]]
  IN  above

\* The nodes of an axis; nodes are numbered in document order.
OnAxis(doc, above, axis, x, y) ==
  LET isChild == source[y].type \notin {"attribute", "namespace"}
  IN  CASE axis = "child" -> isChild /\ doc[y] = x
        [] axis = "attribute" -> source[y].type = "attribute" /\ doc[y] = x
        [] axis = "descendant" -> isChild /\ x \in above[y]
        [] axis = "descendant-or-self" -> x = y \/ (isChild /\ x \in above[y])
        [] axis = "self" -> x = y
        [] axis = "parent" -> doc[x] = y
        [] axis = "ancestor" -> y \in above[x]
        [] axis = "ancestor-or-self" -> x = y \/ y \in above[x]
        [] axis = "following-sibling" -> isChild /\ source[x].type # "attribute" /\ doc[x] = doc[y] /\ x < y
        [] axis = "preceding-sibling" -> isChild /\ source[x].type # "attribute" /\ doc[x] = doc[y] /\ y < x
        [] axis = "following" -> isChild /\ x < y /\ x \notin above[y]
        [] axis = "preceding" -> isChild /\ y < x /\ y \notin above[x]

Evaluate(doc, ss) ==
  LET above == AncestorsIn(doc)
      Next1(xs, s) == {y \in DOMAIN doc : FilterNode(s.test, source[y]) /\ \E x \in xs : OnAxis(doc, above, s.axis, x, y)}
  IN  FoldLeft(Next1, {1}, ss)

\* What the use of a result sees of the node n, beside that it is there.
Content(doc, n, use) ==
  LET above == AncestorsIn(doc)
      below == {m \in DOMAIN doc : n \in above[m]}
  IN  CASE use = "count" -> {}
        [] use = "value" -> {m \in below : source[m].type = "text"}
        [] use = "result" -> {<<m, doc[m]>> : m \in below}

-------------------------------------------------------------------------------
(* Properties *)

\* A node is built once, inside an ancestor of it that is there already.
WellNested ==
  LET above == AncestorsIn(Whole)
  IN  \A i \in DOMAIN output :
        /\ \A j \in DOMAIN output : output[i].node = output[j].node => i = j
        /\ output[i].node # 1 => /\ output[i].parent \in above[output[i].node]
                                /\ \E j \in 1..i - 1 : output[j].node = output[i].parent

InDocumentOrder == \A i, j \in DOMAIN output : i < j => output[i].node < output[j].node

InNearestAncestor ==
  LET above == AncestorsIn(Whole)
  IN  \A i \in DOMAIN output :
        output[i].node # 1 => output[i].parent = Max(above[output[i].node] \intersect BuiltNodes)

\* The nodes are built once and inside what they are inside of; and unless a
\* namespace declaration had an element sent that no path leads to, in the order
\* of the document and inside the nearest of their ancestors that is built: no
\* element is sent too late to hold what was sent before.
BuiltInPlace == WellNested /\ (~unforeseen => InDocumentOrder /\ InNearestAncestor)

\* A path finds in the projected document every node that it finds in the
\* whole one, with the content that its use needs, unless a step of it overlooks
\* nodes.
NothingLost ==
  pc = "built" =>
    \A p \in paths : "overlooked" \notin p.doubts =>
      /\ Evaluate(Whole, p.steps) \subseteq Evaluate(Projected, p.steps)
      /\ \A n \in Evaluate(Whole, p.steps) : Content(Projected, n, p.use) = Content(Whole, n, p.use)

\* It finds no other: where ancestors are left out, what is left does not look
\* as if it stood somewhere else.
NothingInvented ==
  pc = "built" =>
    \A p \in paths : "displaced" \notin p.doubts /\ ~unforeseen =>
      Evaluate(Projected, p.steps) \subseteq Evaluate(Whole, p.steps)

\* Projection is enabled "unless query compilation is unable to guarantee its
\* correctness" (StaticContext.hpp): every path finds what it is to find.
SafeProjection ==
  pc = "built" => \A p \in paths : Evaluate(Projected, p.steps) = Evaluate(Whole, p.steps)
=============================================================================
