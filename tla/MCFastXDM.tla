------------------------------ MODULE MCFastXDM ------------------------------
(***************************************************************************)
(* Small instances of the Fast XDM document with its axes and copies.  A   *)
(* prefix, and the absence of one, mean different namespaces at different  *)
(* elements.  The arrays start with one entry where the code has 1000, 500 *)
(* and 5, so that every array is resized more than once.                   *)
(***************************************************************************)
EXTENDS XercesNodeImpl, NoInheritFilter

MCElementNames == {[prefix |-> "", uri |-> "", local |-> "e"],
                   [prefix |-> "p", uri |-> "u", local |-> "e"]}
MCAttributeNames == {[prefix |-> "p", uri |-> "v", local |-> "a"],
                     [prefix |-> "", uri |-> "", local |-> "b"]}
MCDeclarations == {[prefix |-> "", uri |-> "u"], [prefix |-> "p", uri |-> "v"],
                   [prefix |-> "p", uri |-> ""]}
MCChunks == {<<>>, <<"x", "y">>}
=============================================================================
