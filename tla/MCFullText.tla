------------------------------ MODULE MCFullText ------------------------------
(***************************************************************************)
(* Texts of up to three tokens over two words, in any number of sentences. *)
(***************************************************************************)
EXTENDS FullText

MCOperands == {<<<<>>>>, <<<<"a">>>>, <<<<"b">>>>, <<<<"a", "b">>>>, <<<<"b">>, <<"a">>>>}
MCRanges == {[type |-> "exactly", from |-> 0], [type |-> "at least", from |-> 1], [type |-> "at most", from |-> 0],
             [type |-> "from to", from |-> 1, to |-> 1]}
==============================================================================
