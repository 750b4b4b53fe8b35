----------------------------- MODULE MCPathSteps -----------------------------
(* Paths of up to three steps over two documents.                          *)
EXTENDS PathSteps

\* a document with nested elements of one name and an attribute, and a second
\* document after it:  1(2(3@, 4, 5)), 6
Library ==
  [last |-> <<5, 5, 3, 5, 5, 6>>, root |-> <<1, 1, 1, 1, 1, 6>>,
   attrs |-> {3}, named |-> {2, 4, 6}]

MCDocuments == {Library}

MCSteps ==
  [axis : Axes, test : {"any"}, pick : {"all"}]
    \cup [axis : {"self"}, test : {"name"}, pick : {"all"}]
    \cup [axis : {"ancestor"}, test : {"any"}, pick : {"first"}]
=============================================================================
