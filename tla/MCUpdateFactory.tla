--------------------------- MODULE MCUpdateFactory ---------------------------
(***************************************************************************)
(* Small documents for UpdateFactory: a document with an element that has  *)
(* text, a child and a comment or a processing instruction, and an element *)
(* with attributes in and out of a namespace.                              *)
(***************************************************************************)
EXTENDS UpdateFactory

NoName == [prefix |-> "", uri |-> "", local |-> ""]
Plain(l) == [prefix |-> "", uri |-> "", local |-> l]
In(u, l) == [prefix |-> "p", uri |-> u, local |-> l]
Node(k, n, v, p, cs, as, u) ==
  [kind |-> k, name |-> n, value |-> v, type |-> "untyped", parent |-> p, children |-> cs,
   attrs |-> as, uri |-> u, origin |-> <<>>]

\* A document as it is loaded, and the same one after validation.
Numbered(d) == [n \in DOMAIN d |-> [d[n] EXCEPT !.origin = <<0, n>>]]
Validated(d) ==
  [n \in DOMAIN d |-> IF d[n].kind \in {"element", "attribute"} THEN [d[n] EXCEPT !.type = "typed"] ELSE d[n]]

Tree(leaf) == Numbered(<<
  Node("document", NoName, <<>>, 0, <<2>>, {}, "doc"),
  Node("element", Plain("e"), <<>>, 1, <<3, 4, 6>>, {}, NoURI),
  Node("text", NoName, <<"t">>, 2, <<>>, {}, NoURI),
  Node("element", Plain("f"), <<>>, 2, <<5>>, {}, NoURI),
  Node("text", NoName, <<"t">>, 4, <<>>, {}, NoURI),
  Node(leaf, Plain("l"), <<"t">>, 2, <<>>, {}, NoURI)>>)
Both(d) == {d, Validated(d)}

\* The same with an element that a wildcard kept from validation.
Skipped(d, e) == [Validated(d) EXCEPT ![e].type = "untyped"]

Item(k, n) == [kind |-> k, name |-> n, value |-> <<"v">>, type |-> "typed"]
Text == <<Item("text", NoName)>>
Mixture == <<Item("element", Plain("g")), Item("comment", NoName)>>

\* Each of the documents with the same contents, names, strings, URIs and copies.
Given(doms, contents, names, strings, uris, copies, size) ==
  {[dom |-> d, contents |-> contents, names |-> names, strings |-> strings,
    uris |-> uris, copies |-> copies, size |-> size] : d \in doms}

MCTree ==
  Given(Both(Tree("comment")) \cup {Skipped(Tree("comment"), 4)}, {Text, Mixture}, {Plain("z")}, {<<>>, <<"w">>}, {"put", "doc"}, {}, 2)
MCTreeWithPI ==
  Given({Tree("pi")}, {Text}, {Plain("z")}, {<<>>, <<"w">>}, {}, {}, 2)

\* A document with one element and text: lists of three updates.
SmallTree == <<
  Node("document", NoName, <<>>, 0, <<2>>, {}, "doc"),
  Node("element", Plain("e"), <<>>, 1, <<3>>, {}, NoURI),
  Node("text", NoName, <<"t">>, 2, <<>>, {}, NoURI)>>
MCSmall == Given({Numbered(SmallTree)}, {Text}, {}, {<<>>}, {}, {}, 3)

\* An element with three attributes, and a child in its namespace.
Labelled == Numbered(<<
  Node("element", In("u", "e"), <<>>, 0, <<5>>, {2, 3, 4}, NoURI),
  Node("attribute", Plain("a"), <<"t">>, 1, <<>>, {}, NoURI),
  Node("attribute", Plain("b"), <<"t">>, 1, <<>>, {}, NoURI),
  Node("attribute", In("u", "c"), <<"t">>, 1, <<>>, {}, NoURI),
  Node("element", Plain("f"), <<>>, 1, <<>>, {}, NoURI)>>)
At(n) == Item("attribute", n)
Strange(u, l) == [prefix |-> "q", uri |-> u, local |-> l]
MCAttributes == {
  <<At(Plain("a"))>>, <<At(In("u", "b")), Item("element", Plain("g"))>>, <<At(In("v", "a"))>>,
  <<At(Strange("v", "a"))>>, <<At(Strange("w", "d"))>>}
MCNames == {Plain("a"), Plain("c"), In("u", "c"), In("v", "c")}
MCLabelled == Given(Both(Labelled), MCAttributes, MCNames, {}, {}, {}, 2)

\* Two documents with the same content: the second is a copy of the first.
Shifted(d, by) ==
  [n \in DOMAIN d |-> [d[n] EXCEPT !.parent = IF @ = 0 THEN 0 ELSE @ + by,
                                   !.children = [k \in DOMAIN @ |-> @[k] + by]]]
WithCopy == Numbered(SmallTree \o Shifted(SmallTree, 3))
MCWithCopy == Given(Both(WithCopy), {Text}, {Plain("z")}, {<<>>, <<"w">>}, {}, {4}, 2)

MCCases == MCTree \cup MCTreeWithPI \cup MCSmall \cup MCLabelled \cup MCWithCopy
=============================================================================
