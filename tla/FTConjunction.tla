---------------------------- MODULE FTConjunction ----------------------------
(***************************************************************************)
(* FTConjunctionMatches and BufferedMatches (src/fulltext/FTAnd.cpp): the  *)
(* matches of "x ftand y ftand z" are all combinations of a match of x, of *)
(* y and of z, found like the readings of an odometer whose last digit     *)
(* turns fastest.  The arguments are iterators that can be read only once, *)
(* so each stands behind a buffer that replays what it has delivered.      *)
(* A match is its number in the argument it comes from; what it includes   *)
(* and excludes is the subject of FullText.                                *)
(***************************************************************************)
EXTENDS Integers, Sequences

CONSTANTS
  MaxArguments,   \* bound: arguments of the conjunction
  MaxMatches      \* bound: matches of one argument

ASSUME BoundsAssumption == MaxArguments \in Nat /\ MaxMatches \in Nat

VARIABLES
  total,    \* for each argument, the number of matches its iterator has
  args,     \* the BufferedMatches of each argument; emptied by deleteMatches()
  toDo,     \* toDo_: next() has not been called yet
  reader,   \* "idle", "calling" next(), or told "match" or "end"
  initialisationState,   \* digits to the right of it are being turned back
  it,       \* the digit in hand, 0 for rend(); its value survives no call
  seen,     \* history: the combinations delivered
  ended     \* history: false has been returned

vars == <<total, args, toDo, reader, initialisationState, it, seen, ended>>

rbegin == Len(args)
rend == 0

\* A BufferedMatches: how many matches it has pulled, where its iterator
\* stands (one past the last is end()), and its reset_ flag.
NewBuffer == [buffered |-> 0, at |-> 1, reset |-> FALSE]

AtEnd(b) == b.at > b.buffered

Reset_FlagOnly(b) == [b EXCEPT !.reset = TRUE]

Reset_Unflagged(b) == [b EXCEPT !.at = 1]

Reset(b) == [b EXCEPT !.reset = TRUE, !.at = 1]

Replay_KeepsFlag(b) == IF AtEnd(b) \/ b.reset THEN b ELSE [b EXCEPT !.at = @ + 1]

\* The part of BufferedMatches::next() that replays the buffer.  The flag is
\* not lowered when there is nothing to replay, so that the first match an
\* argument ever delivers is replayed by the call after it as well.
Replay(b) ==
  IF AtEnd(b) THEN b
  ELSE IF b.reset THEN [b EXCEPT !.reset = FALSE] ELSE [b EXCEPT !.at = @ + 1]

\* BufferedMatches::next() over an iterator with n matches finds one, and
\* the buffer afterwards.
Found_OneMore(b, n) == ~AtEnd(Replay(b)) \/ b.buffered <= n

Found(b, n) == ~AtEnd(Replay(b)) \/ b.buffered < n

BufferedNext_Unchecked(b, n) ==
  LET r == Replay(b)
  IN  IF AtEnd(r) THEN [r EXCEPT !.buffered = b.buffered + 1, !.at = b.buffered + 1] ELSE r

BufferedNext(b, n) ==
  LET r == Replay(b)
  IN  IF AtEnd(r) /\ b.buffered < n
        THEN [r EXCEPT !.buffered = b.buffered + 1, !.at = b.buffered + 1]
        ELSE r

Enumeration == INSTANCE MatchEnumeration

\* What getStringIncludes() and getStringExcludes() put together: the match
\* each argument's iterator stands at.
Current == [k \in DOMAIN args |-> args[k].at]

Init ==
  /\ \E n \in 0..MaxArguments : total \in [1..n -> 0..MaxMatches]
  /\ args = [k \in DOMAIN total |-> NewBuffer]
  /\ toDo = TRUE
  /\ reader = "idle"
  /\ initialisationState = FALSE
  /\ it = rend
  /\ seen = {}
  /\ ended = FALSE

-------------------------------------------------------------------------------
\* The reader calls next(); it may do so again after it was told of the end.
Call ==
  /\ reader # "calling"
  /\ reader' = "calling"
  /\ toDo' = FALSE
  /\ initialisationState' = toDo
  /\ it' = IF toDo THEN rend ELSE rbegin
  /\ UNCHANGED <<total, args, seen, ended>>

\* --it, the argument is turned back to its first match: it has one ...
TurnBack ==
  /\ reader = "calling" /\ initialisationState /\ it # rbegin
  /\ Found(Reset(args[it + 1]), total[it + 1])
  /\ args' = [args EXCEPT ![it + 1] = BufferedNext(Reset(@), total[it + 1])]
  /\ it' = it + 1
  /\ UNCHANGED <<total, toDo, reader, initialisationState, seen, ended>>

\* ... or has none, and the argument to its left is turned on.
NothingToTurnBack ==
  /\ reader = "calling" /\ initialisationState /\ it # rbegin
  /\ ~Found(Reset(args[it + 1]), total[it + 1])
  /\ args' = [args EXCEPT ![it + 1] = BufferedNext(Reset(@), total[it + 1])]
  /\ initialisationState' = FALSE
  /\ UNCHANGED <<total, toDo, reader, it, seen, ended>>

\* Every argument stands at a match: next() returns true.
Deliver ==
  /\ reader = "calling" /\ initialisationState /\ it = rbegin
  /\ reader' = "match"
  /\ seen' = seen \union {Current}
  /\ UNCHANGED <<total, args, toDo, initialisationState, it, ended>>

\* An argument is turned on by one match, and those to its right turn back.
TurnOn ==
  /\ reader = "calling" /\ ~initialisationState /\ it # rend
  /\ Found(args[it], total[it])
  /\ args' = [args EXCEPT ![it] = BufferedNext(@, total[it])]
  /\ initialisationState' = TRUE
  /\ UNCHANGED <<total, toDo, reader, it, seen, ended>>

\* An argument is used up, and the one to its left is next.
UsedUp ==
  /\ reader = "calling" /\ ~initialisationState /\ it # rend
  /\ ~Found(args[it], total[it])
  /\ args' = [args EXCEPT ![it] = BufferedNext(@, total[it])]
  /\ it' = it - 1
  /\ UNCHANGED <<total, toDo, reader, initialisationState, seen, ended>>

\* The first argument is used up: the iterators are released, false is returned.
End ==
  /\ reader = "calling" /\ ~initialisationState /\ it = rend
  /\ args' = <<>>
  /\ reader' = "end"
  /\ ended' = TRUE
  /\ UNCHANGED <<total, toDo, initialisationState, it, seen>>

Loop == TurnBack \/ NothingToTurnBack \/ Deliver \/ TurnOn \/ UsedUp \/ End

Next == Call \/ Loop

\* next() runs until it returns, and the reader is one that pulls until it is
\* told to stop, as FTUnaryNotMatches and FTMildnotMatches do.
Spec == Init /\ [][Next]_vars /\ WF_vars(Loop) /\ WF_vars(Call)

-------------------------------------------------------------------------------
(* Properties *)

\* A match that is read after next() returned true is in the buffer of its
\* argument: no includes are read through an iterator at its end.  And nothing
\* is passed over: when a combination is delivered, so has been every one that
\* comes before it in the order of the odometer.
Before(c, d) == \E k \in DOMAIN total : c[k] < d[k] /\ \A j \in 1..k - 1 : c[j] = d[j]

StandsAtNext ==
  reader = "match" =>
    /\ \A k \in DOMAIN args : ~AtEnd(args[k])
    /\ ~ended => \A c \in Enumeration!Combinations : Before(c, Current) => c \in seen

\* The reader is told of the end, however often matches have to be replayed.
Terminates == <>ended

\* What is delivered is a combination, the end is announced when they have
\* all been delivered, and calls after that deliver nothing.
Refines == Enumeration!Spec
==============================================================================
