--------------------------- MODULE MCNSFixupFilter ---------------------------
(***************************************************************************)
(* Trees for NSFixupFilter: nested elements that bind one prefix           *)
(* differently; ones that set the default namespace and take it away; an   *)
(* element that uses a prefix for up to three namespaces, some without a   *)
(* prefix, and a prefix that looks made up, also in a namespace node; and  *)
(* such elements inside each other.                                        *)
(***************************************************************************)
EXTENDS NSFixupFilter

N(p, u) == [prefix |-> p, uri |-> u]
Nested ==
  [names |-> {N(<<"p">>, "u"), N(<<"p">>, "v"), N(<<>>, "")},
   attributes |-> {N(<<"p">>, "u"), N(<<"p">>, "v"), N(<<>>, "")},
   bindings |-> {N(<<"p">>, "v"), N(<<"p", 1>>, "u"), N(<<"p">>, "")},
   mixed |-> FALSE, depth |-> 3, size |-> 8]
Defaults ==
  [names |-> {N(<<>>, "u"), N(<<>>, ""), N(<<"p">>, "u")},
   attributes |-> {N(<<"p">>, "u"), N(<<>>, "")},
   bindings |-> {N(<<>>, "u"), N(<<>>, ""), N(<<"p">>, "")},
   mixed |-> FALSE, depth |-> 3, size |-> 8]
MixedUses ==
  [names |-> {N(<<"p">>, "u"), N(<<"p">>, "v"), N(<<"p">>, "w"), N(<<>>, "u"), N(<<"p", 1>>, "v")},
   attributes |-> {N(<<"p">>, "u"), N(<<"p">>, "v"), N(<<"p">>, "w"), N(<<>>, "u"), N(<<"p", 1>>, "v")},
   bindings |-> {N(<<"p">>, "v"), N(<<>>, "u"), N(<<"p">>, ""), N(<<"p", 1>>, "w")},
   mixed |-> TRUE, depth |-> 1, size |-> 7]
MixedNested ==
  [names |-> {N(<<"p">>, "u"), N(<<"p">>, "v"), N(<<>>, "")},
   attributes |-> {N(<<"p">>, "u"), N(<<"p">>, "v"), N(<<"p", 1>>, "u")},
   bindings |-> {N(<<"p">>, "v"), N(<<"p", 1>>, "w"), N(<<>>, "u")},
   mixed |-> TRUE, depth |-> 3, size |-> 6]
MCTrees == {Nested, Defaults, MixedUses, MixedNested}
=============================================================================
