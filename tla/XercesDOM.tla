------------------------------ MODULE XercesDOM ------------------------------
(***************************************************************************)
(* The DOM of Xerces-C as far as XQuery Update uses it.  A DOM is the      *)
(* sequence of the nodes that were ever made; a node that is removed from  *)
(* its tree stays in the sequence, without a parent.  0 is no node.        *)
(* A name is a record of prefix, URI and local name, "" for what is absent.*)
(***************************************************************************)
EXTENDS Integers, SequencesExt

NoURI == "none"

Kinds == {"document", "element", "attribute", "text", "comment", "pi"}
TypesOfNodes == {"typed", "any", "untyped"}
\* A prefix stands for a namespace.
Names == {n \in [prefix : STRING \cup {""}, uri : STRING \cup {""}, local : STRING \cup {""}] :
            n.prefix # "" => n.uri # ""}
Strings == Seq(STRING)

\* What is given to a DOM to be inserted, and its nodes.
ItemsToInsert == [kind : Kinds \ {"document"}, name : Names, value : Strings, type : TypesOfNodes]
Nodes == [kind : Kinds, name : Names, value : Strings, type : TypesOfNodes,
          parent : Nat, children : Seq(Nat), attrs : SUBSET Nat, uri : STRING \cup {NoURI}, origin : Nat \X Nat]

\* origin tells the nodes of the start, <<0, n>>, from those of the k-th item
\* of the u-th update, <<u, k>>.
NewNode(item, type, origin) ==
  [kind |-> item.kind, name |-> item.name, value |-> item.value, type |-> type,
   parent |-> 0, children |-> <<>>, attrs |-> {}, uri |-> NoURI, origin |-> origin]

IsAttribute(d, n) == d[n].kind = "attribute"
IsElement(d, n) == d[n].kind = "element"

\* The nodes from n up to the root of its tree.
Ancestry(d, n) ==
  LET up[m \in 0..Len(d)] == IF m = 0 THEN <<>> ELSE <<m>> \o up[d[m].parent]
  IN up[n]

Root(d, n) == Last(Ancestry(d, n))

PlaceOf(n, siblings) == CHOOSE k \in DOMAIN siblings : siblings[k] = n

NextSibling(d, n) ==
  LET siblings == d[d[n].parent].children
      at == PlaceOf(n, siblings)
  IN IF at = Len(siblings) THEN 0 ELSE siblings[at + 1]

\* The nodes are numbered in the order in which they are made, a parent before
\* what is inside it; parents, children and attributes agree.
NodeOf(d, n) ==
  /\ d[n].parent \in 0..n - 1
  /\ IsInjective(d[n].children)
  /\ \A c \in Range(d[n].children) : c \in DOMAIN d /\ d[c].parent = n /\ ~IsAttribute(d, c)
  /\ \A a \in d[n].attrs : a \in DOMAIN d /\ d[a].parent = n /\ IsAttribute(d, a)
  /\ d[n].parent # 0 =>
       n \in (IF IsAttribute(d, n) THEN d[d[n].parent].attrs ELSE Range(d[d[n].parent].children))
  /\ d[n].children # <<>> => d[n].kind \in {"document", "element"}
  /\ d[n].attrs # {} => IsElement(d, n)

IsForest(d) == d \in Seq(Nodes) /\ \A n \in DOMAIN d : NodeOf(d, n)

(***************************************************************************)
(* Changes of the tree                                                     *)
(***************************************************************************)
\* Before no node is behind all of them.
InsertBefore(d, p, n, before) ==
  LET siblings == d[p].children
      at == IF before = 0 THEN Len(siblings) + 1 ELSE PlaceOf(before, siblings)
  IN [d EXCEPT ![n].parent = p, ![p].children = InsertAt(siblings, at, n)]

\* What is not in a tree cannot be taken out of it.
Removed(d, n) ==
  LET p == d[n].parent IN
  IF p = 0 THEN d
  ELSE IF IsAttribute(d, n) THEN [d EXCEPT ![n].parent = 0, ![p].attrs = @ \ {n}]
  ELSE [d EXCEPT ![n].parent = 0, ![p].children = RemoveAt(@, PlaceOf(n, @))]

SameName(a, b) == a.uri = b.uri /\ a.local = b.local

\* The attribute takes the place of one with the same name.
SetAttributeNode(d, e, n) ==
  LET others == {m \in d[e].attrs \ {n} : SameName(d[m].name, d[n].name)}
      cleared == [m \in DOMAIN d |-> IF m \in others THEN [d[m] EXCEPT !.parent = 0] ELSE d[m]]
  IN [cleared EXCEPT ![n].parent = e, ![e].attrs = (@ \ others) \cup {n}]

\* Renaming an attribute takes it out of its element and sets it again.
RenameNode(d, n, name) ==
  LET renamed == [d EXCEPT ![n].name = name] IN
  IF IsAttribute(d, n) /\ d[n].parent # 0 THEN SetAttributeNode(renamed, d[n].parent, n) ELSE renamed

(***************************************************************************)
(* The namespaces in scope of an element                                   *)
(***************************************************************************)
\* What an element and its attributes say of a prefix; an element without a
\* namespace says that there is no default namespace.
SaidOf(d, e, prefix) ==
  (IF d[e].name.prefix = prefix THEN {d[e].name.uri} ELSE {})
    \cup {d[a].name.uri : a \in {m \in d[e].attrs : d[m].name.prefix = prefix /\ d[m].name.uri # ""}}

BoundTo(d, e, prefix) ==
  LET up == Ancestry(d, e)
      speaking == {k \in DOMAIN up : IsElement(d, up[k]) /\ SaidOf(d, up[k], prefix) # {}}
      nearest == CHOOSE k \in speaking : \A j \in speaking : k <= j
  IN IF speaking = {} THEN "" ELSE CHOOSE u \in SaidOf(d, up[nearest], prefix) : TRUE

\* No two of the names of an element and its attributes bind one prefix to two
\* URIs; an attribute without a prefix binds none.
PrefixesAgree(d, e) ==
  \A n, m \in {e} \cup d[e].attrs :
    /\ d[n].name.prefix = d[m].name.prefix
    /\ n # m => d[n].name.prefix # ""
    => d[n].name.uri = d[m].name.uri

PrefixesIn(d) == {d[n].name.prefix : n \in DOMAIN d}

NamespacesOf(d, e) ==
  {[prefix |-> p, uri |-> BoundTo(d, e, p)] : p \in {q \in PrefixesIn(d) : BoundTo(d, e, q) # ""}}

(***************************************************************************)
(* Schema types: "typed" stands for any schema type, "any" for xs:anyType, *)
(* "untyped" for xs:untyped and for the xs:untypedAtomic of attributes.    *)
(***************************************************************************)
Loosens(d, e) == IsElement(d, e) /\ d[e].type # "untyped"

\* The elements that removeType reaches from e: up to one that is untyped.
Loosened(d, e) ==
  LET up == Ancestry(d, e)
  IN {up[k] : k \in {j \in DOMAIN up : \A i \in 1..j : Loosens(d, up[i])}}

ElementOf(d, n) == IF IsAttribute(d, n) THEN d[n].parent ELSE n

RemoveType(d, n) ==
  LET loosened == IF ElementOf(d, n) = 0 THEN {} ELSE Loosened(d, ElementOf(d, n))
  IN [m \in DOMAIN d |->
        IF m \in loosened THEN [d[m] EXCEPT !.type = "any"]
        ELSE IF m = n /\ IsAttribute(d, n) THEN [d[m] EXCEPT !.type = "untyped"]
        ELSE d[m]]

\* The trees that removeType marks for revalidation.
Marked(d, n) ==
  IF d[n].kind \in {"element", "attribute"} /\ ElementOf(d, n) # 0 THEN {Root(d, n)} ELSE {}
=============================================================================
