------------------------ MODULE MCQueryPathTreeFilter ------------------------
(***************************************************************************)
(* Small queries and documents.                                            *)
(***************************************************************************)
EXTENDS QueryPathTreeFilter

Test(type, name) == [type |-> type, uri |-> IF name = Wildcard THEN name ELSE None, name |-> name]
Names(ns) == {[uri |-> None, name |-> n] : n \in ns}
On(axes, tests) == {[axis |-> a, test |-> t] : a \in axes, t \in tests}

A == Test("element", "a")
AnyElement == Test("element", Wildcard)
Upward == {"parent", "ancestor", "ancestor-or-self"}
Sideways == {"preceding-sibling", "following-sibling", "preceding", "following"}

\* Paths forward, with values, attributes and several paths on one document.
Forward ==
  [steps |-> On({"child", "descendant"}, {A, AnyElement, AnyNode}) \union On({"child"}, {Test("text", Wildcard)})
               \union On({"self", "descendant-or-self"}, {A, AnyNode})
               \union On({"attribute"}, {Test("attribute", "x")}),
   maxSteps |-> 2, maxPaths |-> 2, uses |-> {"count", "value", "result"},
   names |-> Names({"a", "b"}), attributes |-> Names({"x"}), leaves |-> {"text"},
   declares |-> FALSE, maxNodes |-> 5]

\* All axes, in paths of three steps.
AllAxes ==
  [steps |-> On({"child", "descendant"}, {A, AnyElement})
               \union On({"self", "descendant-or-self"} \union Upward, {A, AnyNode}) \union On(Sideways, {A}),
   maxSteps |-> 3, maxPaths |-> 1, uses |-> {"result"},
   names |-> Names({"a", "b"}), attributes |-> {}, leaves |-> {"text"},
   declares |-> FALSE, maxNodes |-> 4]

\* Declarations of namespaces, comments, and tests of namespaces.
Namespaces ==
  [steps |-> On({"child", "descendant", "self", "parent"},
                {[type |-> "element", uri |-> u, name |-> n] : u \in {"p", Wildcard}, n \in {"a", Wildcard}})
               \union On({"child"}, {Test("comment", Wildcard)}),
   maxSteps |-> 2, maxPaths |-> 1, uses |-> {"count", "result"},
   names |-> [uri : {"p", None}, name : {"a", "b"}], attributes |-> {}, leaves |-> {"comment"},
   declares |-> TRUE, maxNodes |-> 4]

\* Steps after a step that overlooks nodes.
Overlaps ==
  [steps |-> On({"child", "self", "ancestor"}, {[type |-> "element", uri |-> "p", name |-> Wildcard],
                                    [type |-> "element", uri |-> Wildcard, name |-> "a"]}),
   maxSteps |-> 3, maxPaths |-> 1, uses |-> {"count", "result"},
   names |-> {[uri |-> "p", name |-> n] : n \in {"a", "b"}}, attributes |-> {}, leaves |-> {"text"},
   declares |-> FALSE, maxNodes |-> 4]

\* An element that its declaration alone has sent, inside one that is sent later.
Declarations ==
  [steps |-> On({"child", "descendant"}, {A}), maxSteps |-> 2, maxPaths |-> 2, uses |-> {"count"},
   names |-> Names({"a", "b"}), attributes |-> {}, leaves |-> {},
   declares |-> TRUE, maxNodes |-> 5]

MCCases == {Forward, AllAxes, Namespaces, Overlaps, Declarations}
=============================================================================
