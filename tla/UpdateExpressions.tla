-------------------------- MODULE UpdateExpressions --------------------------
(***************************************************************************)
(* What the updating expressions ask for.  Each one checks its target and  *)
(* its content and returns the pending updates of createUpdateList(), or   *)
(* Rejected if it raises an error.                                         *)
(***************************************************************************)
EXTENDS XercesDOM

Rejected == <<[type |-> "rejected", target |-> 0, value |-> <<>>]>>

Update(type, t, value) == <<[type |-> type, target |-> t, value |-> value]>>
Guarded(condition, updates) == IF condition THEN updates ELSE Rejected

\* The implied binding of a name agrees with the namespaces of the element.
NamespaceFits(d, e, name) ==
  name.uri = "" \/ BoundTo(d, e, name.prefix) \in {"", name.uri}

\* The attributes that content begins with, and the rest.
Leading(content) ==
  CHOOSE n \in 0..Len(content) :
    /\ \A k \in 1..n : content[k].kind = "attribute"
    /\ n < Len(content) => content[n + 1].kind # "attribute"
Attributes(content) == SubSeq(content, 1, Leading(content))
Children(content) == SubSeq(content, Leading(content) + 1, Len(content))

HasAttributes(items) == \E k \in DOMAIN items : items[k].kind = "attribute"

AttributesFit(d, e, content) ==
  \A k \in DOMAIN Attributes(content) : NamespaceFits(d, e, Attributes(content)[k].name)

\* Attributes come first and go to the element e, the rest where type says.
Insertion(d, type, e, t, content) ==
  Guarded(/\ ~HasAttributes(Children(content))
          /\ AttributesFit(d, e, content)
          /\ Attributes(content) # <<>> => IsElement(d, e),
          (IF Attributes(content) = <<>> THEN <<>>
           ELSE Update("INSERT_ATTRIBUTES", e, Attributes(content)))
            \o (IF Children(content) = <<>> THEN <<>> ELSE Update(type, t, Children(content))))

\* insert into, as first into, as last into
InsertChildren(d, type, t, content) ==
  IF d[t].kind \in {"element", "document"} THEN Insertion(d, type, t, t, content) ELSE Rejected

\* insert before, insert after
InsertSiblings(d, type, t, content) ==
  IF d[t].kind \notin {"document", "attribute"} /\ d[t].parent # 0
  THEN Insertion(d, type, d[t].parent, t, content)
  ELSE Rejected

Replace(d, t, content) ==
  IF d[t].kind = "document" \/ d[t].parent = 0 THEN Rejected
  ELSE IF IsAttribute(d, t)
  THEN Guarded(Children(content) = <<>> /\ AttributesFit(d, d[t].parent, content),
               Update("REPLACE_ATTRIBUTE", t, content))
  ELSE Guarded(~HasAttributes(content), Update("REPLACE_NODE", t, content))

ReplaceValueOf(d, t, string) ==
  IF d[t].kind = "document" THEN Rejected
  ELSE Update(IF IsElement(d, t) THEN "REPLACE_ELEMENT_CONTENT" ELSE "REPLACE_VALUE", t, string)

Rename(d, t, name) ==
  LET fits == CASE d[t].kind = "element" -> NamespaceFits(d, t, name)
                [] d[t].kind = "attribute" -> d[t].parent # 0 => NamespaceFits(d, d[t].parent, name)
                [] d[t].kind = "pi" -> name.prefix = ""
                [] OTHER -> FALSE
  IN Guarded(fits, Update("RENAME", t, <<name>>))

Delete(t) == Update("PUDELETE", t, <<>>)

Put(d, t, uri) ==
  Guarded(d[t].kind \in {"document", "element"}, Update("PUT", t, <<uri>>))
=============================================================================
