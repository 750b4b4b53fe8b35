------------------------------- MODULE XDMTree -------------------------------
(***************************************************************************)
(* What a stream of XDM events means: a tree in document order.  Each node *)
(* knows its parent, runs of text become one text node, text that is empty *)
(* becomes none, and every attribute and namespace declaration belongs to  *)
(* the element that was open when it arrived.  Nothing is said of how the  *)
(* tree is stored; FastXDMDocument implements it.                          *)
(***************************************************************************)
EXTENDS Integers, Sequences

CONSTANTS
  ElementNames,    \* the names of elements
  AttributeNames,  \* the names of attributes
  Declarations,    \* the namespace declarations of elements
  Leaves,          \* the kinds of nodes without content
  Chunks           \* the text of a text event, a sequence of characters

VARIABLES
  kind,    \* the kind of each node, in document order
  parent,  \* the parent of each node, 0 for a root
  value,   \* the name of an element, the text of a text node
  attrs,   \* the owner and the name of each attribute
  decls,   \* the owner and the name of each namespace declaration
  open     \* the innermost node that is still open, or 0

treevars == <<kind, parent, value, attrs, decls, open>>

New == Len(kind) + 1

Init ==
  /\ kind = <<>> /\ parent = <<>> /\ value = <<>>
  /\ attrs = <<>> /\ decls = <<>>
  /\ open = 0

Add(k, v) ==
  /\ kind' = Append(kind, k)
  /\ parent' = Append(parent, open)
  /\ value' = Append(value, v)

\* A tree has one root.
Begin(k, v) ==
  /\ open = 0 => kind = <<>>
  /\ k = "document" => open = 0
  /\ Add(k, v)
  /\ open' = New
  /\ UNCHANGED <<attrs, decls>>

End ==
  /\ open # 0
  /\ open' = parent[open]
  /\ UNCHANGED <<kind, parent, value, attrs, decls>>

Leaf(k) ==
  /\ open = 0 => kind = <<>>
  /\ Add(k, <<>>)
  /\ UNCHANGED <<attrs, decls, open>>

LastIsText == kind # <<>> /\ kind[Len(kind)] = "text" /\ parent[Len(kind)] = open

\* Text joins the text just before it; empty text is a node only on its own.
Text(v) ==
  /\ \/ /\ open = 0 /\ kind = <<>>
        /\ Add("text", v)
     \/ /\ open # 0 /\ LastIsText
        /\ value' = [value EXCEPT ![Len(kind)] = @ \o v]
        /\ UNCHANGED <<kind, parent>>
     \/ /\ open # 0 /\ ~LastIsText /\ v # <<>>
        /\ Add("text", v)
     \/ /\ open # 0 /\ v = <<>>
        /\ UNCHANGED <<kind, parent, value>>
  /\ UNCHANGED <<attrs, decls, open>>

\* An attribute without an element is a tree of its own.
Attribute(l) ==
  /\ open = 0 => kind = <<>> /\ attrs = <<>>
  /\ attrs' = Append(attrs, [owner |-> open, name |-> l])
  /\ UNCHANGED <<kind, parent, value, decls, open>>

Declaration(l) ==
  /\ open # 0
  /\ decls' = Append(decls, [owner |-> open, name |-> l])
  /\ UNCHANGED <<kind, parent, value, attrs, open>>

Next ==
  \/ Begin("document", <<>>)
  \/ \E v \in ElementNames : Begin("element", v)
  \/ End
  \/ \E k \in Leaves : Leaf(k)
  \/ \E v \in Chunks : Text(v)
  \/ \E l \in AttributeNames : Attribute(l)
  \/ \E l \in Declarations : Declaration(l)

Spec == Init /\ [][Next]_treevars
=============================================================================
