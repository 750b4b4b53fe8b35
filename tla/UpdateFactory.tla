---------------------------- MODULE UpdateFactory ----------------------------
(***************************************************************************)
(* One application of a pending update list, as UpdateFactory::            *)
(* applyUpdates() drives it and XercesUpdateFactory carries it out.  The   *)
(* updating expressions fill the list; the list is checked; its updates    *)
(* are applied to the DOM in the order of their kinds; what was marked is  *)
(* then deleted, revalidated and written.                                  *)
(***************************************************************************)
EXTENDS UpdateExpressions

(***************************************************************************)
(* What the expressions meet: the nodes, the sequences of items they may   *)
(* insert, the names for rename, the strings for replace value of (empty   *)
(* or of one character), the URIs for fn:put, the roots that a transform   *)
(* expression copied ({} outside of one), and a bound on the length of the *)
(* list.                                                                   *)
(***************************************************************************)
CONSTANT Cases  \* records [dom, contents, names, strings, uris, copies, size]

\* What a transform expression copies has no parent; the names of every element
\* of the start are those of an element that was parsed or constructed.
ASSUME CasesAssumption ==
  \A c \in Cases :
    /\ IsForest(c.dom) /\ \A n \in DOMAIN c.dom : c.dom[n].origin = <<0, n>>
    /\ \A e \in DOMAIN c.dom : IsElement(c.dom, e) => PrefixesAgree(c.dom, e)
    /\ c.contents \subseteq Seq(ItemsToInsert)
    /\ c.names \subseteq Names /\ c.strings \subseteq Strings
    /\ c.uris \subseteq STRING \ {NoURI}
    /\ \A n \in c.copies : n \in DOMAIN c.dom /\ c.dom[n].parent = 0
    /\ c.size \in Nat

VARIABLES
  given,            \* what the expressions meet (constant)
  dom,              \* the nodes
  pul,              \* the pending update list
  pc,               \* collect, apply, write, done, error or crash
  applied,          \* how many updates of the list have been applied
  forDeletion,      \* nodes marked for deletion
  forRevalidation,  \* roots of the trees marked for revalidation
  putSet,           \* what to write: a URI, or NoURI, and a node
  written           \* what was written

vars == <<given, dom, pul, pc, applied, forDeletion, forRevalidation, putSet, written>>

Init ==
  /\ given \in Cases /\ dom = given.dom
  /\ pul = <<>> /\ pc = "collect" /\ applied = 0
  /\ forDeletion = {} /\ forRevalidation = {} /\ putSet = {} /\ written = {}

before == given.dom
Copies == given.copies

(***************************************************************************)
(* Collecting: the updates of several expressions are merged into one list.*)
(***************************************************************************)
Ask(updates) ==
  /\ pc = "collect"
  /\ updates # Rejected
  /\ Len(pul) + Len(updates) <= given.size
  /\ pul' = pul \o updates
  /\ UNCHANGED <<dom, pc, applied, forDeletion, forRevalidation, putSet, written, given>>

Targets == DOMAIN before

UInsertInto == \E t \in Targets, c \in given.contents : Ask(InsertChildren(dom, "INSERT_INTO", t, c))
UInsertAsFirst == \E t \in Targets, c \in given.contents : Ask(InsertChildren(dom, "INSERT_INTO_AS_FIRST", t, c))
UInsertAsLast == \E t \in Targets, c \in given.contents : Ask(InsertChildren(dom, "INSERT_INTO_AS_LAST", t, c))
UInsertBefore == \E t \in Targets, c \in given.contents : Ask(InsertSiblings(dom, "INSERT_BEFORE", t, c))
UInsertAfter == \E t \in Targets, c \in given.contents : Ask(InsertSiblings(dom, "INSERT_AFTER", t, c))
UReplace == \E t \in Targets, c \in given.contents \cup {<<>>} : Ask(Replace(dom, t, c))
UReplaceValueOf == \E t \in Targets, s \in given.strings : Ask(ReplaceValueOf(dom, t, s))
URename == \E t \in Targets, n \in given.names : Ask(Rename(dom, t, n))
UDelete == \E t \in Targets : Ask(Delete(t))
FunctionPut == \E t \in Targets, u \in given.uris : Ask(Put(dom, t, u))

(***************************************************************************)
(* The checks before anything is applied                                   *)
(***************************************************************************)
Updates(types) == {u \in DOMAIN pul : pul[u].type \in types}
OncePerTarget(types) ==
  \A u, v \in Updates(types) : pul[u].target = pul[v].target => u = v

Compatible ==
  /\ OncePerTarget({"REPLACE_VALUE", "REPLACE_ELEMENT_CONTENT"})
  /\ OncePerTarget({"REPLACE_ATTRIBUTE", "REPLACE_NODE"})
  /\ OncePerTarget({"RENAME"})

\* Mutant: only the first update is looked at.
TargetsCopied_First ==
  Copies # {} /\ pul # <<>> => Range(Ancestry(dom, pul[1].target)) \cap Copies # {}

\* A transform expression updates nothing but what it copied.
TargetsCopied ==
  Copies # {} => \A u \in DOMAIN pul : Range(Ancestry(dom, pul[u].target)) \cap Copies # {}

\* What an update does to the names of one element: the attribute names it
\* frees, those it takes and the names whose prefixes it binds.
Claim(e, frees, takes, binds) == [element |-> e, frees |-> frees, takes |-> takes, binds |-> binds]
NamesOf(items) == [k \in DOMAIN items |-> items[k].name]
Prefixed(names) == {n \in ToSet(names) : n.prefix # ""}

\* The claim of an update, if it has one.
Claims(u) ==
  LET t == u.target IN
  CASE u.type = "INSERT_ATTRIBUTES" -> {Claim(t, {}, NamesOf(u.value), Prefixed(NamesOf(u.value)))}
    [] u.type = "RENAME" /\ IsElement(dom, t) -> {Claim(t, {}, <<>>, ToSet(u.value))}
    [] u.type = "RENAME" /\ IsAttribute(dom, t) /\ dom[t].parent # 0 ->
         {Claim(dom[t].parent, {dom[t].name}, u.value, Prefixed(u.value))}
    [] u.type = "REPLACE_ATTRIBUTE" ->
         {Claim(dom[t].parent, {dom[t].name}, NamesOf(u.value), Prefixed(NamesOf(u.value)))}
    [] OTHER -> {}

HasName(names, n) == \E m \in names : SameName(m, n)

\* The attribute names and namespaces of every element, as AttrMap keeps them.
AttrMap0 ==
  [e \in DOMAIN dom |->
     [names |-> {dom[a].name : a \in dom[e].attrs},
      namespaces |-> IF IsElement(dom, e) THEN NamespacesOf(dom, e) ELSE {},
      clash |-> FALSE]]

\* addAttr fails: one of the new names is in use or comes twice.
AttrClash(names, takes) ==
  \E k \in DOMAIN takes : \/ HasName(names, takes[k])
                          \/ \E j \in DOMAIN takes : j # k /\ SameName(takes[j], takes[k])

\* addNamespace fails: a prefix stands for two URIs.
Binding(n) == [prefix |-> n.prefix, uri |-> n.uri]
NamespaceClash(bindings) == \E b, c \in bindings : b.prefix = c.prefix /\ b.uri # c.uri

\* Mutant: a new name is compared with the names of the start only.
Claimed_Start(map, c) ==
  LET v == map[c.element]
      names == {n \in v.names : ~HasName(c.frees, n)}
      namespaces == v.namespaces \cup {Binding(n) : n \in c.binds}
  IN [map EXCEPT ![c.element] =
        [names |-> names, namespaces |-> namespaces,
         clash |-> v.clash \/ AttrClash(names, c.takes) \/ NamespaceClash(namespaces)]]

\* Mutant: a new binding is compared with those of the start only.
Claimed_StartBindings(map, c) ==
  LET v == map[c.element]
      names == {n \in v.names : ~HasName(c.frees, n)}
      namespaces == v.namespaces \cup {Binding(n) : n \in c.binds}
  IN [map EXCEPT ![c.element] =
        [names |-> names \cup ToSet(c.takes), namespaces |-> v.namespaces,
         clash |-> v.clash \/ AttrClash(names, c.takes) \/ NamespaceClash(namespaces)]]

Claimed(map, c) ==
  LET v == map[c.element]
      names == {n \in v.names : ~HasName(c.frees, n)}
      namespaces == v.namespaces \cup {Binding(n) : n \in c.binds}
  IN [map EXCEPT ![c.element] =
        [names |-> names \cup ToSet(c.takes), namespaces |-> namespaces,
         clash |-> v.clash \/ AttrClash(names, c.takes) \/ NamespaceClash(namespaces)]]

\* One pass over the list: replaced attributes come in a second one.
ClaimsOf(u, replaced) == IF (u.type = "REPLACE_ATTRIBUTE") = replaced THEN Claims(u) ELSE {}
Checked(map, claims) == IF claims = {} THEN map ELSE Claimed(map, CHOOSE c \in claims : TRUE)
Pass(map, replaced) ==
  LET after[k \in 0..Len(pul)] ==
        IF k = 0 THEN map ELSE Checked(after[k - 1], ClaimsOf(pul[k], replaced))
  IN after[Len(pul)]

NamesAgree ==
  LET map == Pass(Pass(AttrMap0, FALSE), TRUE) IN \A e \in DOMAIN dom : ~map[e].clash

ApplyUpdates ==
  /\ pc = "collect" /\ pul # <<>>
  /\ pc' = IF TargetsCopied /\ Compatible /\ NamesAgree THEN "apply" ELSE "error"
  /\ UNCHANGED <<dom, pul, applied, forDeletion, forRevalidation, putSet, written, given>>

(***************************************************************************)
(* Applying: kind after kind, each kind in the order of the list.          *)
(***************************************************************************)
Phases == <<
  {"PUT"},
  {"INSERT_INTO", "INSERT_ATTRIBUTES", "REPLACE_VALUE", "RENAME"},
  {"INSERT_BEFORE", "INSERT_AFTER", "INSERT_INTO_AS_FIRST", "INSERT_INTO_AS_LAST"},
  {"REPLACE_NODE", "REPLACE_ATTRIBUTE"},
  {"REPLACE_ELEMENT_CONTENT"},
  {"PUDELETE"}>>

\* Mutant: content is replaced before nodes are inserted next to others.
ApplicationOrder_ContentEarly ==
  FlattenSeq([p \in DOMAIN Phases |->
    SelectSeq([k \in DOMAIN pul |-> k], LAMBDA u : pul[u].type \in Phases[<<1, 5, 2, 3, 4, 6>>[p]])])

ApplicationOrder ==
  FlattenSeq([p \in DOMAIN Phases |->
    SelectSeq([k \in DOMAIN pul |-> k], LAMBDA u : pul[u].type \in Phases[p])])

\* The update to be applied next, if it is of this type.
Due(type) ==
  {u \in DOMAIN pul : /\ pc = "apply" /\ applied < Len(pul)
                      /\ u = ApplicationOrder[applied + 1] /\ pul[u].type = type}

\* Without a URI, the nodes are compared.
SameItem(p, q) == IF p.uri = NoURI /\ q.uri = NoURI THEN p.node = q.node ELSE p.uri = q.uri

PutItem(d, n) == [uri |-> d[Root(d, n)].uri, node |-> Root(d, n)]

\* Two documents cannot be written to one URI, nor fn:put be called for it twice.
AddToPutSet(item, once) ==
  /\ pc' = IF \E p \in putSet : SameItem(p, item) /\ (once \/ p.node # item.node) THEN "error" ELSE pc
  /\ putSet' = IF \E p \in putSet : SameItem(p, item) THEN putSet ELSE putSet \cup {item}

Retyped(d, n) == IF n = 0 THEN d ELSE RemoveType(d, n)

\* The end of every apply function: the DOM has become d, the nodes in marked
\* are to be deleted, removeType is called for n unless it is 0, and the
\* document of the node saved is to be written.
Effect(d, marked, n, saved) ==
  /\ dom' = Retyped(d, n)
  /\ forDeletion' = forDeletion \cup marked
  /\ forRevalidation' = forRevalidation \cup (IF n = 0 THEN {} ELSE Marked(d, n))
  /\ AddToPutSet(PutItem(d, saved), FALSE)
  /\ applied' = applied + 1
  /\ UNCHANGED <<pul, written, given>>

\* A null pointer is followed.
Crash ==
  /\ pc' = "crash"
  /\ UNCHANGED <<dom, pul, applied, forDeletion, forRevalidation, putSet, written, given>>

\* What is put into an untyped element is untyped, elsewhere it keeps its type.
ImportedType(p, item) == IF IsElement(dom, p) /\ dom[p].type = "untyped" THEN "untyped" ELSE item.type

\* The k-th item of the update, imported to be put into p.
Imported(d, u, k, p) ==
  Append(d, NewNode(pul[u].value[k], ImportedType(p, pul[u].value[k]), <<u, k>>))

Inserted(d, u, k, p, next) == InsertBefore(Imported(d, u, k, p), p, Len(d) + 1, next)

InsertAll(u, p, next) ==
  LET after[k \in 0..Len(pul[u].value)] == IF k = 0 THEN dom ELSE Inserted(after[k - 1], u, k, p, next)
  IN after[Len(pul[u].value)]

ContainsElementOrText(u) == \E k \in DOMAIN pul[u].value : pul[u].value[k].kind \in {"element", "text"}

InsertedAt(u, p, next, saved) ==
  Effect(InsertAll(u, p, next), {}, IF ContainsElementOrText(u) THEN p ELSE 0, saved)

Target(u) == pul[u].target
ParentOf(u) == dom[Target(u)].parent

ApplyPut == \E u \in Due("PUT") :
  /\ AddToPutSet([uri |-> pul[u].value[1], node |-> Target(u)], TRUE)
  /\ applied' = applied + 1
  /\ UNCHANGED <<dom, pul, forDeletion, forRevalidation, written, given>>

ApplyInsertInto == \E u \in Due("INSERT_INTO") : InsertedAt(u, Target(u), 0, Target(u))
ApplyInsertAsLast == \E u \in Due("INSERT_INTO_AS_LAST") : InsertedAt(u, Target(u), 0, Target(u))

ApplyInsertAsFirst == \E u \in Due("INSERT_INTO_AS_FIRST") :
  LET children == dom[Target(u)].children
  IN InsertedAt(u, Target(u), IF children = <<>> THEN 0 ELSE children[1], Target(u))

ApplyInsertBefore == \E u \in Due("INSERT_BEFORE") :
  IF ParentOf(u) = 0 THEN Crash ELSE InsertedAt(u, ParentOf(u), Target(u), Target(u))

ApplyInsertAfter == \E u \in Due("INSERT_AFTER") :
  IF ParentOf(u) = 0 THEN Crash ELSE InsertedAt(u, ParentOf(u), NextSibling(dom, Target(u)), Target(u))

\* Mutant: attributes are appended to the children.
SetAll_Appended(u, e) == InsertAll(u, e, 0)

AttributeSet(d, u, k, e) == SetAttributeNode(Imported(d, u, k, e), e, Len(d) + 1)

SetAll(u, e) ==
  LET after[k \in 0..Len(pul[u].value)] == IF k = 0 THEN dom ELSE AttributeSet(after[k - 1], u, k, e)
  IN after[Len(pul[u].value)]

ApplyInsertAttributes == \E u \in Due("INSERT_ATTRIBUTES") :
  Effect(SetAll(u, Target(u)), {}, Target(u), Target(u))

\* Comments and processing instructions are no part of a typed value.
ApplyReplaceValue == \E u \in Due("REPLACE_VALUE") :
  Effect([dom EXCEPT ![Target(u)].value = pul[u].value], {},
         CASE IsAttribute(dom, Target(u)) -> Target(u)
           [] dom[Target(u)].kind = "text" -> ParentOf(u)
           [] OTHER -> 0,
         Target(u))

\* A processing instruction is replaced by a new one.
RenamedPI(u, t, name) ==
  LET new == Len(dom) + 1
      added == Append(dom, [dom[t] EXCEPT !.name = name, !.parent = 0, !.origin = <<u, 1>>])
  IN Removed(InsertBefore(added, dom[t].parent, new, t), t)

ApplyRename == \E u \in Due("RENAME") :
  LET t == Target(u) name == pul[u].value[1] IN
  IF dom[t].kind = "pi"
  THEN IF ParentOf(u) = 0 THEN Crash ELSE Effect(RenamedPI(u, t, name), {}, 0, t)
  ELSE Effect(RenameNode(dom, t, name), {}, t, t)

ApplyReplaceNode == \E u \in Due("REPLACE_NODE") :
  IF ParentOf(u) = 0 THEN Crash
  ELSE Effect(InsertAll(u, ParentOf(u), Target(u)), {Target(u)}, ParentOf(u), Target(u))

\* Mutant: the tree of the replaced attribute is saved.
ApplyReplaceAttribute_Target == \E u \in Due("REPLACE_ATTRIBUTE") :
  LET e == ParentOf(u)
  IN IF e = 0 THEN Crash ELSE Effect(SetAll(u, e), {Target(u)}, e, Target(u))

\* The replaced attribute may have lost its element to one of the same name.
ApplyReplaceAttribute == \E u \in Due("REPLACE_ATTRIBUTE") :
  LET e == ParentOf(u)
  IN IF e = 0 THEN Crash ELSE Effect(SetAll(u, e), {Target(u)}, e, e)

TextItem(s) == [kind |-> "text", name |-> [prefix |-> "", uri |-> "", local |-> ""], value |-> s, type |-> "untyped"]

ApplyReplaceElementContent == \E u \in Due("REPLACE_ELEMENT_CONTENT") :
  LET e == Target(u)
      text == NewNode(TextItem(pul[u].value), "untyped", <<u, 1>>)
      d == IF pul[u].value = <<>> THEN dom ELSE InsertBefore(Append(dom, text), e, Len(dom) + 1, 0)
  IN Effect(d, Range(dom[e].children), e, e)

ApplyDelete == \E u \in Due("PUDELETE") : Effect(dom, {Target(u)}, 0, Target(u))

(***************************************************************************)
(* Completing: the marked nodes are sets of pointers, in any order.        *)
(***************************************************************************)
Completing == pc = "apply" /\ applied = Len(pul)

\* Mutant: deleting text does not change the content of its parent.
LosesContent_Element(n) == dom[n].parent # 0 /\ dom[n].kind \in {"attribute", "element"}

LosesContent(n) == dom[n].parent # 0 /\ dom[n].kind \in {"attribute", "element", "text"}

CompleteDeletions == Completing /\ \E n \in forDeletion :
  LET p == dom[n].parent
      d == Removed(dom, n)
  IN /\ dom' = Retyped(d, IF LosesContent(n) THEN p ELSE 0)
     /\ forRevalidation' = forRevalidation \cup (IF LosesContent(n) THEN Marked(d, p) ELSE {})
     /\ forDeletion' = forDeletion \ {n}
     /\ UNCHANGED <<pul, pc, applied, putSet, written, given>>

\* Validation fails or assigns types anew.
CompleteRevalidation ==
  /\ Completing /\ forDeletion = {}
  /\ \/ /\ pc' = "write" /\ dom' \in {dom,
             [n \in DOMAIN dom |->
                IF dom[n].kind \in {"element", "attribute"} /\ Root(dom, n) \in forRevalidation
                THEN [dom[n] EXCEPT !.type = "typed"] ELSE dom[n]]}
     \/ forRevalidation # {} /\ pc' = "error" /\ dom' = dom
  /\ UNCHANGED <<pul, applied, forDeletion, forRevalidation, putSet, written, given>>

PutDocument == pc = "write" /\ \E p \in putSet :
  /\ putSet' = putSet \ {p}
  /\ \/ pc' = pc /\ written' = written \cup {p}
     \/ p.uri # NoURI /\ pc' = "error" /\ written' = written
  /\ UNCHANGED <<dom, pul, applied, forDeletion, forRevalidation, given>>

Complete ==
  /\ pc = "write" /\ putSet = {}
  /\ pc' = "done"
  /\ UNCHANGED <<dom, pul, applied, forDeletion, forRevalidation, putSet, written, given>>

Next ==
  \/ UInsertInto \/ UInsertAsFirst \/ UInsertAsLast \/ UInsertBefore \/ UInsertAfter
  \/ UReplace \/ UReplaceValueOf \/ URename \/ UDelete \/ FunctionPut
  \/ ApplyUpdates
  \/ ApplyPut \/ ApplyInsertInto \/ ApplyInsertAsFirst \/ ApplyInsertAsLast
  \/ ApplyInsertBefore \/ ApplyInsertAfter \/ ApplyInsertAttributes
  \/ ApplyReplaceValue \/ ApplyRename \/ ApplyReplaceNode \/ ApplyReplaceAttribute
  \/ ApplyReplaceElementContent \/ ApplyDelete
  \/ CompleteDeletions \/ CompleteRevalidation \/ PutDocument \/ Complete

Spec == Init /\ [][Next]_vars

(***************************************************************************)
(* Properties                                                              *)
(***************************************************************************)
\* The DOM is a forest whose parents and children agree, after every step.
TypeOK ==
  /\ IsForest(dom)
  /\ pc \in {"collect", "apply", "write", "done", "error", "crash"}
  /\ applied \in 0..Len(pul) /\ Len(pul) <= given.size
  /\ forDeletion \subseteq DOMAIN dom /\ forRevalidation \subseteq DOMAIN dom
  /\ \A p \in putSet \cup written : p.node \in DOMAIN dom

\* The comments of the apply functions say where each update puts its nodes;
\* the following says it for the whole list.
Of(type, t) == SelectSeq([k \in DOMAIN pul |-> k], LAMBDA u : pul[u].type = type /\ pul[u].target = t)
Items(u) == [k \in DOMAIN pul[u].value |-> <<u, k>>]
Block(us) == FlattenSeq([k \in DOMAIN us |-> Items(us[k])])
Is(type, t) == Updates({type}) \cap {u \in DOMAIN pul : pul[u].target = t} # {}
Gone(c) == Is("PUDELETE", c) \/ Is("REPLACE_NODE", c) \/ Is("REPLACE_ATTRIBUTE", c)

Around(c) ==
  Block(Of("INSERT_BEFORE", c)) \o Block(Of("REPLACE_NODE", c))
    \o (IF Gone(c) THEN <<>> ELSE <<before[c].origin>>)
    \o Block(Reverse(Of("INSERT_AFTER", c)))

ExpectedChildren(p) ==
  IF Is("REPLACE_ELEMENT_CONTENT", p) THEN Block(Of("REPLACE_ELEMENT_CONTENT", p))
  ELSE Block(Reverse(Of("INSERT_INTO_AS_FIRST", p)))
         \o FlattenSeq([k \in DOMAIN before[p].children |-> Around(before[p].children[k])])
         \o Block(Of("INSERT_INTO", p)) \o Block(Of("INSERT_INTO_AS_LAST", p))

\* A processing instruction that is renamed is replaced by another node, and
\* updates that still refer to it have no effect.
PIRenamed == \E u \in Updates({"RENAME"}) : before[pul[u].target].kind = "pi"

Origins(nodes) == [k \in DOMAIN nodes |-> dom[nodes[k]].origin]
Finished == pc \in {"write", "done"}

\* Whatever kinds of updates are mixed, and in whatever order the marked nodes
\* are deleted, the children of every node are those of the start without the
\* deleted and replaced ones, and each inserted node where its update says,
\* unless a processing instruction is renamed.
ChildrenAsAsked ==
  Finished /\ ~PIRenamed => \A p \in Targets : Origins(dom[p].children) = ExpectedChildren(p)

ExpectedAttributes(e) ==
  {before[a].origin : a \in {b \in before[e].attrs : ~Gone(b)}}
    \cup UNION {Range(Items(u)) : u \in Updates({"INSERT_ATTRIBUTES"}) \cap {v \in DOMAIN pul : pul[v].target = e}}
    \cup UNION {Range(Items(u)) : u \in Updates({"REPLACE_ATTRIBUTE"}) \cap {v \in DOMAIN pul : pul[v].target \in before[e].attrs}}

\* checkUpdates compares names ahead of the application, so that no attribute
\* pushes another one out of its element: each attribute that was not deleted
\* or replaced, and each new one, is there in the end.
AttributesKept ==
  Finished => \A e \in Targets : {dom[a].origin : a \in dom[e].attrs} = ExpectedAttributes(e)

\* The same where no attribute is both renamed and replaced.
AttributesAsAsked ==
  (\A t \in Targets : ~(Is("RENAME", t) /\ Is("REPLACE_ATTRIBUTE", t))) => AttributesKept

\* No two names of an element and its attributes bind one prefix to two URIs,
\* wherever the updates of the list got those names from.
NamespacesAgree == Finished => \A e \in Targets : IsElement(before, e) => PrefixesAgree(dom, e)

\* What a schema type depends on: the name, the attributes, the text and the
\* child elements of e, and the order in which those come.
InContent(d, c) == d[c].kind \in {"element", "text"}
Seen(d, c) == <<d[c].origin, IF d[c].kind = "text" THEN d[c].value ELSE <<>> >>
InOrder(d, s) ==
  {<<Seen(d, s[k[1]]), Seen(d, s[k[2]])>> :
     k \in {l \in (DOMAIN s) \X (DOMAIN s) : l[1] <= l[2] /\ InContent(d, s[l[1]]) /\ InContent(d, s[l[2]])}}
Content(d, e) ==
  [name |-> d[e].name,
   attributes |-> {<<d[a].origin, d[a].name, d[a].value>> : a \in d[e].attrs},
   children |-> InOrder(d, d[e].children)]

\* The elements around e, from e itself up to the first one that is untyped.
TypedAround(e) ==
  LET around == Range(Ancestry(before, e))
  IN {a \in around : \A b \in around : a \in Range(Ancestry(before, b)) => Loosens(before, b)}

\* When the deletions are done, an element whose name, attributes, text or child
\* elements changed has lost its schema type, and so have the elements around it
\* that have one, unless an element without one is in between; and if it was not
\* taken out of its tree, that is validated again.
TypesLoosened ==
  Completing /\ forDeletion = {} =>
    \A e \in Targets :
      IsElement(before, e) /\ Content(dom, e) # Content(before, e) =>
        /\ \A a \in TypedAround(e) : dom[a].type # "typed"
        /\ Root(dom, e) = Root(before, e) => Root(before, e) \in forRevalidation

Touched(n) ==
  \/ dom[n].name # before[n].name \/ dom[n].value # before[n].value
  \/ Origins(dom[n].children) # Origins(before[n].children)
  \/ {<<dom[a].origin, dom[a].name>> : a \in dom[n].attrs} # {<<before[a].origin, before[a].name>> : a \in before[n].attrs}

\* Every tree in which something changed is handed to putDocument, under its own
\* URI if it has one, although the updated node itself may be out of the tree.
AllDocumentsSaved ==
  Finished =>
    \A n \in Targets :
      Touched(n) => PutItem(before, n) \in putSet \cup written

\* The same unless a processing instruction is renamed.
DocumentsSaved == PIRenamed \/ AllDocumentsSaved

\* A transform expression leaves everything alone that it did not copy.
CopiesOnly ==
  Copies # {} => \A n \in Targets : Root(before, n) \notin Copies => dom[n] = before[n]
=============================================================================
