--------------------------- MODULE MatchEnumeration ---------------------------
(***************************************************************************)
(* What a conjunction of full text selections promises whoever pulls its   *)
(* matches: each one it delivers combines one match of every argument, and *)
(* it says that there are no more only when every combination has been     *)
(* delivered.  FTConjunctionMatches implements it.                         *)
(***************************************************************************)
EXTENDS Integers

CONSTANT MaxMatches   \* bound: matches of one argument

VARIABLES
  total,   \* the number of matches of each argument
  seen,    \* combinations delivered so far
  ended    \* the reader has been told that there are no more

\* All ways of taking one match of every argument.
Combinations == {c \in [DOMAIN total -> 1..MaxMatches] : \A k \in DOMAIN total : c[k] <= total[k]}

Init == seen = {} /\ ended = FALSE

Deliver == \E c \in Combinations : seen' = seen \union {c} /\ UNCHANGED ended

Finish == seen = Combinations /\ ended' = TRUE /\ UNCHANGED seen

Next == ~ended /\ (Deliver \/ Finish) /\ UNCHANGED total

Spec == Init /\ [][Next]_<<total, seen, ended>>
===============================================================================
