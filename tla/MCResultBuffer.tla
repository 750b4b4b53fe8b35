--------------------------- MODULE MCResultBuffer ---------------------------
(***************************************************************************)
(* An instance of ResultBuffer: variables read without a limit, which is   *)
(* what all the callers in src ask for, and variables created with read    *)
(* counts, which only the interface offers.                                *)
(***************************************************************************)
EXTENDS ResultBuffer, TLC

CONSTANTS a, b, h1, h2, r1, r2

MCSource == <<a, b>>
MCHandles == {h1, h2}
MCReaders == {r1, r2}
MCReadCounts == {Unlimited, 1}
Symmetry == Permutations(MCHandles) \union Permutations(MCReaders)
=============================================================================
