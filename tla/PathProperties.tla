--------------------------- MODULE PathProperties ---------------------------
(***************************************************************************)
(* What static typing claims about the nodes an expression returns: the    *)
(* properties of StaticAnalysis, those of each axis (XQStep), how a path   *)
(* combines those of its steps (XQNav), and what each one means.           *)
(*                                                                         *)
(* A document, or several, is a numbering of its nodes in document order:  *)
(* last[x] is the last node of the subtree of x, so that the subtree is    *)
(* the interval x .. last[x], and root[x] is the root of its document.     *)
(***************************************************************************)
EXTENDS Integers, Sequences

Flags == {"DOCORDER", "PEER", "SUBTREE", "GROUPED", "SAMEDOC", "ONENODE", "SELF"}

ForwardAxes == {"self", "child", "attribute", "descendant", "descendant-or-self",
                "following", "following-sibling"}
ReverseAxes == {"parent", "ancestor", "ancestor-or-self", "preceding", "preceding-sibling"}
Axes == ForwardAxes \cup ReverseAxes

-----------------------------------------------------------------------------
(* Documents.                                                              *)

Nodes(d) == DOMAIN d.last

IsDocument(d) ==
  /\ \E n \in Nodes(d) \cup {0} : Nodes(d) = 1 .. n
  /\ d.last \in [Nodes(d) -> Nodes(d)]
  /\ d.attrs \subseteq Nodes(d)
  /\ \A x \in Nodes(d) :
       /\ x <= d.last[x]
       /\ \A y \in x .. d.last[x] : d.last[y] <= d.last[x]
  /\ \A x \in d.attrs :
       /\ d.last[x] = x
       /\ x - 1 \in Nodes(d)
       /\ x - 1 \notin d.attrs => d.last[x - 1] >= x
  /\ d.root \in [Nodes(d) -> Nodes(d)]
  /\ \A x, y \in Nodes(d) :
       (d.root[x] = y) <=> (x \in y .. d.last[y] /\ \A z \in Nodes(d) : x \in z .. d.last[z] => y <= z)

Within(d, x, y) == x <= y /\ y <= d.last[x]
Ancestors(d, x) == {y \in Nodes(d) : y # x /\ Within(d, y, x)}
SameDocument(d, x, y) == d.root[x] = d.root[y]
Parents(d, x) == {y \in Ancestors(d, x) : \A z \in Ancestors(d, x) : z <= y}
Siblings(d, x) ==
  IF x \in d.attrs THEN {}
  ELSE {y \in Nodes(d) \ d.attrs : Parents(d, y) = Parents(d, x) /\ Parents(d, x) # {}}

\* The nodes on an axis of the node x.
AxisNodes(d, axis, x) ==
  LET content == Nodes(d) \ d.attrs
      under == {y \in content : y # x /\ Within(d, x, y)}
  IN CASE axis = "self" -> {x}
       [] axis = "child" -> {y \in under : Parents(d, y) = {x}}
       [] axis = "attribute" -> {y \in d.attrs : Parents(d, y) = {x}}
       [] axis = "descendant" -> under
       [] axis = "descendant-or-self" -> under \cup {x}
       [] axis = "following" -> {y \in content : y > d.last[x] /\ SameDocument(d, x, y)}
       [] axis = "following-sibling" -> {y \in Siblings(d, x) : y > x}
       [] axis = "parent" -> Parents(d, x)
       [] axis = "ancestor" -> Ancestors(d, x)
       [] axis = "ancestor-or-self" -> Ancestors(d, x) \cup {x}
       [] axis = "preceding" ->
            {y \in content : y < x /\ d.last[y] < x /\ SameDocument(d, x, y)}
       [] axis = "preceding-sibling" -> {y \in Siblings(d, x) : y < x}

-----------------------------------------------------------------------------
(* What typing claims.                                                     *)

\* The properties of the nodes an axis step returns for one context node.
AxisProperties(axis) ==
  {"GROUPED", "SAMEDOC"}
    \cup (IF axis = "self" THEN {"ONENODE", "SELF"} ELSE {})
    \cup (IF axis \in {"self", "child", "attribute"} THEN {"SUBTREE", "PEER"} ELSE {})
    \cup (IF axis \in {"descendant", "descendant-or-self"} THEN {"SUBTREE"} ELSE {})
    \cup (IF axis \in {"following-sibling", "preceding-sibling"} THEN {"PEER"} ELSE {})
    \cup (IF axis = "parent" THEN {"PEER", "ONENODE"} ELSE {})
    \cup (IF axis \in ForwardAxes \cup {"parent"} THEN {"DOCORDER"} ELSE {})

\* What a path is known for before its first step: it starts at one node.
OneContextNode == Flags \ {"SELF"}

\* BUG: a step into subtrees keeps the order whatever the nodes before it are.
KeepsOrder_AnyNodes(prev, step) == "DOCORDER" \in prev /\ {"DOCORDER", "SUBTREE"} \subseteq step

\* A path in document order whose nodes contain none of each other stays in
\* document order under a step into subtrees.
KeepsOrder(prev, step) == {"DOCORDER", "PEER"} \subseteq prev /\ {"DOCORDER", "SUBTREE"} \subseteq step

Combine(prev, step) ==
  LET both(f) == IF f \in prev \cap step THEN {f} ELSE {}
  IN (IF "SELF" \in step THEN prev ELSE {})
       \cup (IF "ONENODE" \in prev /\ "DOCORDER" \in step THEN {"DOCORDER", "GROUPED"} ELSE {})
       \cup (IF KeepsOrder(prev, step)
             THEN {"DOCORDER", "GROUPED", "SUBTREE"} \cup both("PEER") ELSE {})
       \cup (IF "GROUPED" \in prev /\ "SAMEDOC" \in step THEN {"GROUPED"} ELSE {})
       \cup both("SUBTREE") \cup both("SAMEDOC") \cup both("ONENODE")

-----------------------------------------------------------------------------
(* What a claim means of the nodes s returned for the context node c.      *)

InOrder(s) == \A i, j \in DOMAIN s : i < j => s[i] < s[j]

Holds(flag, d, s, c) ==
  CASE flag = "DOCORDER" -> InOrder(s)
    [] flag = "PEER" -> \A i, j \in DOMAIN s : Within(d, s[i], s[j]) => s[i] = s[j]
    [] flag = "SUBTREE" -> \A i \in DOMAIN s : Within(d, c, s[i])
    [] flag = "GROUPED" -> \A i, j, k \in DOMAIN s :
         i < j /\ j < k /\ SameDocument(d, s[i], s[k]) => SameDocument(d, s[i], s[j])
    [] flag = "SAMEDOC" -> \A i \in DOMAIN s : SameDocument(d, c, s[i])
    [] flag = "ONENODE" -> Len(s) <= 1
    [] flag = "SELF" -> \A i \in DOMAIN s : s[i] = c

HoldAll(flags, d, s, c) == \A f \in flags : Holds(f, d, s, c)
=============================================================================
