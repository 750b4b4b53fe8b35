------------------------- MODULE FTConjunction_proofs -------------------------
(***************************************************************************)
(* Proofs about FTConjunction, for any number of arguments with any        *)
(* numbers of matches: every match that is read is in its buffer, the      *)
(* combinations come in the order of the odometer, and the conjunction     *)
(* implements MatchEnumeration.                                            *)
(***************************************************************************)
EXTENDS FTConjunction, TLAPS, SequenceTheorems

Combinations == Enumeration!Combinations

-----------------------------------------------------------------------------
(***************************************************************************)
(* The inductive invariant                                                 *)
(***************************************************************************)
Buffers == {b \in [buffered : Nat, at : Nat \ {0}, reset : BOOLEAN] :
              b.at <= b.buffered + 1 /\ (b.reset => b.at = 1)}

TypeInv ==
  /\ total \in Seq(0..MaxMatches)
  /\ args \in Seq(Buffers)
  /\ toDo \in BOOLEAN /\ initialisationState \in BOOLEAN /\ ended \in BOOLEAN
  /\ reader \in {"idle", "calling", "match", "end"}
  /\ toDo <=> reader = "idle"
  /\ seen \subseteq Combinations

\* Once the end has been announced the iterators are gone, and every
\* combination has been delivered.
AfterEnd ==
  /\ args = <<>> /\ seen = Combinations /\ ~toDo
  /\ reader \in {"calling", "end"}
  /\ reader = "calling" => it = rend /\ ~initialisationState

\* The odometer stands at or after combination c.
Reached(c) == c = Current \/ Before(c, Current)

\* The first m digits of c come before those of the odometer.
BeforeUpTo(m, c) == \E k \in 1..m : c[k] < args[k].at /\ \A j \in 1..k - 1 : c[j] = args[j].at

\* While digits are turned back, those up to the one in hand show a match, and
\* what comes before them has been delivered.
TurningBack == \A c \in Combinations : BeforeUpTo(it, c) => c \in seen

\* While a digit to turn on is searched, those to its right have passed their
\* last match (unless some argument has none), and all that the odometer has
\* reached has been delivered.
TurningOn ==
  \A c \in Combinations :
    /\ Reached(c) => c \in seen
    /\ \A k \in it + 1..Len(args) : args[k].at = total[k] + 1

BeforeEnd ==
  /\ Len(args) = Len(total)
  /\ \A k \in DOMAIN args : args[k].buffered <= total[k]
  /\ reader # "end"
  /\ reader = "calling" => /\ it \in 0..Len(args)
                           /\ \A k \in 1..it : ~AtEnd(args[k])
                           /\ IF initialisationState THEN TurningBack ELSE TurningOn
  /\ reader = "match" => /\ \A k \in DOMAIN args : ~AtEnd(args[k])
                         /\ \A c \in Combinations : Reached(c) => c \in seen

IInv == TypeInv /\ IF ended THEN AfterEnd ELSE BeforeEnd

-----------------------------------------------------------------------------
(***************************************************************************)
(* A digit: what BufferedMatches::next() does to a buffer over an iterator *)
(* with n matches.                                                         *)
(***************************************************************************)
LEMMA DigitTurnsOn ==
  ASSUME NEW b \in Buffers, NEW n \in Nat, b.buffered <= n, ~AtEnd(b), Found(b, n)
  PROVE  /\ BufferedNext(b, n) \in Buffers
         /\ BufferedNext(b, n).buffered <= n
         /\ ~AtEnd(BufferedNext(b, n))
         /\ BufferedNext(b, n).at \in {b.at, b.at + 1}
<1>0. /\ b \in [buffered : Nat, at : Nat \ {0}, reset : BOOLEAN]
      /\ b.at <= b.buffered /\ (b.reset => b.at = 1)
  BY DEF Buffers, AtEnd
<1>1. CASE b.reset
  <2>1. Replay(b) = [b EXCEPT !.reset = FALSE]
    BY <1>1 DEF Replay
  <2>2. BufferedNext(b, n) = [b EXCEPT !.reset = FALSE]
    BY <1>0, <2>1 DEF BufferedNext, AtEnd
  <2> QED
    BY <1>0, <2>2 DEF Buffers, AtEnd
<1>2. CASE ~b.reset /\ b.at < b.buffered
  <2>1. Replay(b) = [b EXCEPT !.at = b.at + 1]
    BY <1>2 DEF Replay
  <2>2. BufferedNext(b, n) = [b EXCEPT !.at = b.at + 1]
    BY <1>0, <1>2, <2>1 DEF BufferedNext, AtEnd
  <2> QED
    BY <1>0, <1>2, <2>2 DEF Buffers, AtEnd
<1>3. CASE ~b.reset /\ b.at = b.buffered
  <2>1. Replay(b) = [b EXCEPT !.at = b.at + 1]
    BY <1>3 DEF Replay
  <2>2. AtEnd(Replay(b)) /\ b.buffered < n
    BY <1>0, <1>3, <2>1 DEF Found, AtEnd
  <2>3. BufferedNext(b, n) = [b EXCEPT !.at = b.at + 1, !.buffered = b.buffered + 1]
    BY <1>0, <1>3, <2>1, <2>2 DEF BufferedNext
  <2> QED
    <3>1. BufferedNext(b, n) \in [buffered : Nat, at : Nat \ {0}, reset : BOOLEAN]
      <4>1. BufferedNext(b, n) = [buffered |-> b.buffered + 1, at |-> b.at + 1, reset |-> b.reset]
        BY <1>0, <2>3
      <4> QED
        BY <1>0, <4>1
    <3>2. /\ BufferedNext(b, n).buffered = b.buffered + 1
          /\ BufferedNext(b, n).at = b.at + 1
          /\ BufferedNext(b, n).reset = b.reset
      BY <1>0, <2>3
    <3>3. BufferedNext(b, n) \in Buffers
      BY <1>0, <1>3, <3>1, <3>2 DEF Buffers
    <3>4. ~AtEnd(BufferedNext(b, n)) /\ BufferedNext(b, n).buffered <= n
      BY <1>0, <1>3, <2>2, <3>2 DEF AtEnd
    <3> QED
      BY <3>2, <3>3, <3>4
<1> QED
  BY <1>0, <1>1, <1>2, <1>3

LEMMA DigitUsedUp ==
  ASSUME NEW b \in Buffers, NEW n \in Nat, b.buffered <= n, ~AtEnd(b), ~Found(b, n)
  PROVE  /\ BufferedNext(b, n) \in Buffers
         /\ BufferedNext(b, n).buffered <= n
         /\ BufferedNext(b, n).at = n + 1
         /\ b.at = n
  BY DEF Buffers, AtEnd, Found, BufferedNext, Replay

LEMMA DigitTurnsBack ==
  ASSUME NEW b \in Buffers, NEW n \in Nat, b.buffered <= n
  PROVE  /\ BufferedNext(Reset(b), n) \in Buffers
         /\ BufferedNext(Reset(b), n).buffered <= n
         /\ BufferedNext(Reset(b), n).at = 1
         /\ Found(Reset(b), n) => ~AtEnd(BufferedNext(Reset(b), n))
         /\ ~Found(Reset(b), n) => n = 0
<1> DEFINE Records == [buffered : Nat, at : Nat \ {0}, reset : BOOLEAN]
           r == Reset(b)
           q == BufferedNext(r, n)
<1>0. b \in Records /\ b.buffered \in Nat
  BY DEF Buffers
<1>1. r \in Records /\ r.buffered = b.buffered /\ r.at = 1 /\ r.reset
  <2>1. r = [b EXCEPT !.reset = TRUE, !.at = 1]
    BY DEF Reset
  <2> HIDE DEF r
  <2>2. r = [buffered |-> b.buffered, at |-> 1, reset |-> TRUE]
    BY <1>0, <2>1
  <2>3. r \in Records
    BY <1>0, <2>2
  <2> QED
    BY <2>2, <2>3
<1> HIDE DEF r
<1>2. CASE b.buffered = 0
  <2>1. AtEnd(r) /\ Replay(r) = r
    BY <1>1, <1>2 DEF AtEnd, Replay
  <2>2. Found(r, n) <=> 0 < n
    BY <1>1, <1>2, <2>1 DEF Found
  <2>3. CASE 0 < n
    <3>1. q = [r EXCEPT !.buffered = 1, !.at = 1]
      BY <1>1, <1>2, <2>1, <2>3 DEF BufferedNext
    <3>2. q \in Records /\ q.buffered = 1 /\ q.at = 1
      <4> HIDE DEF q
      <4>1. q = [buffered |-> 1, at |-> 1, reset |-> r.reset]
        BY <1>1, <3>1
      <4> QED
        BY <1>1, <4>1
    <3> HIDE DEF q
    <3> QED
      BY <2>2, <2>3, <3>2 DEF Buffers, AtEnd, q, r
  <2>4. CASE n = 0
    <3>1. q = r
      BY <1>1, <1>2, <2>1, <2>4 DEF BufferedNext
    <3> QED
      BY <1>1, <1>2, <2>2, <2>4, <3>1 DEF Buffers, r
  <2> QED
    BY <2>3, <2>4
<1>3. CASE b.buffered # 0
  <2>1. Replay(r) = [r EXCEPT !.reset = FALSE]
    BY <1>0, <1>1, <1>3 DEF AtEnd, Replay
  <2>2. Replay(r) \in Records /\ Replay(r).buffered = b.buffered /\ Replay(r).at = 1
    BY <1>1, <2>1
  <2>3. ~AtEnd(Replay(r))
    BY <1>0, <1>3, <2>2 DEF AtEnd
  <2>4. q = Replay(r) /\ Found(r, n)
    BY <2>3 DEF BufferedNext, Found
  <2> QED
    BY <1>0, <1>3, <2>2, <2>3, <2>4 DEF Buffers, r
<1> QED
  BY <1>0, <1>2, <1>3

-----------------------------------------------------------------------------
(***************************************************************************)
(* The odometer                                                            *)
(***************************************************************************)
LEMMA Lengths ==
  ASSUME TypeInv
  PROVE  /\ Len(total) \in Nat /\ DOMAIN total = 1..Len(total)
         /\ \A k \in 1..Len(total) : total[k] \in 0..MaxMatches /\ total[k] \in Nat
         /\ Len(args) \in Nat /\ DOMAIN args = 1..Len(args)
         /\ \A k \in 1..Len(args) : args[k] \in Buffers
<1>1. /\ Len(total) \in Nat /\ DOMAIN total = 1..Len(total)
      /\ total \in [1..Len(total) -> 0..MaxMatches]
  BY LenProperties DEF TypeInv
<1>2. /\ Len(args) \in Nat /\ DOMAIN args = 1..Len(args)
      /\ args \in [1..Len(args) -> Buffers]
  BY LenProperties DEF TypeInv
<1>3. \A k \in 1..Len(total) : total[k] \in 0..MaxMatches
  BY <1>1
<1>4. \A k \in 1..Len(args) : args[k] \in Buffers
  BY <1>2
<1> QED
  BY <1>1, <1>2, <1>3, <1>4, BoundsAssumption

LEMMA CombinationFacts ==
  ASSUME TypeInv
  PROVE  \A c : c \in Combinations <=>
                  /\ c = [k \in 1..Len(total) |-> c[k]]
                  /\ \A k \in 1..Len(total) : c[k] \in 1..total[k]
<1>1. Combinations = {c \in [1..Len(total) -> 1..MaxMatches] : \A k \in 1..Len(total) : c[k] <= total[k]}
  BY Lengths DEF Combinations, Enumeration!Combinations
<1>2. \A k \in 1..Len(total) : total[k] \in 0..MaxMatches
  BY Lengths
<1> QED
  BY <1>1, <1>2, BoundsAssumption

\* One digit is replaced.
LEMMA DigitReplaced ==
  ASSUME TypeInv, NEW i \in 1..Len(args), NEW d \in Buffers, args' = [args EXCEPT ![i] = d]
  PROVE  /\ args' \in Seq(Buffers) /\ Len(args') = Len(args) /\ DOMAIN args' = 1..Len(args)
         /\ args'[i] = d
         /\ \A k \in 1..Len(args) : k # i => args'[k] = args[k]
<1>1. args \in Seq(Buffers)
  BY DEF TypeInv
<1>2. /\ args' \in Seq(Buffers) /\ Len(args') = Len(args)
      /\ \A k \in 1..Len(args) : args'[k] = IF k = i THEN d ELSE args[k]
  BY <1>1, ExceptSeq
<1>3. DOMAIN args' = 1..Len(args)
  BY <1>2, LenProperties
<1> QED
  BY <1>2, <1>3

\* To be reached is to be shown, or to come before what is shown.
LEMMA ReachedMeans ==
  ASSUME TypeInv, Len(args) = Len(total), NEW c
  PROVE  Reached(c) <=> c = Current \/ BeforeUpTo(Len(args), c)
<1>1. DOMAIN total = 1..Len(args) /\ Len(args) \in Nat
  BY Lengths
<1>2. \A k \in 1..Len(args) : Current[k] = args[k].at
  BY Lengths DEF Current
<1>3. Before(c, Current) <=> BeforeUpTo(Len(args), c)
  <2>1. \A k \in 1..Len(args) : \A j \in 1..k - 1 : j \in 1..Len(args)
    BY <1>1
  <2> QED
    BY <1>1, <1>2, <2>1 DEF Before, BeforeUpTo
<1> QED
  BY <1>3 DEF Reached

\* A combination that shows the digits of the odometer is the one it shows.
LEMMA CurrentMeans ==
  ASSUME TypeInv, Len(args) = Len(total), NEW c \in Combinations,
         \A k \in 1..Len(args) : c[k] = args[k].at
  PROVE  c = Current
<1>1. c = [k \in 1..Len(args) |-> c[k]]
  BY CombinationFacts
<1>2. Current = [k \in 1..Len(args) |-> args[k].at]
  BY Lengths DEF Current
<1> QED
  BY <1>1, <1>2

\* When digit i is about to be turned on, all combinations that agree with the
\* odometer to the left of i and have not passed it there have been delivered.
LEMMA UpToDigit ==
  ASSUME TypeInv, Len(args) = Len(total), it \in 1..Len(args), TurningOn, NEW c \in Combinations,
         \/ BeforeUpTo(it - 1, c)
         \/ c[it] <= args[it].at /\ \A j \in 1..it - 1 : c[j] = args[j].at
  PROVE  c \in seen
<1>1. Len(args) \in Nat /\ \A k \in 1..Len(args) : c[k] \in 1..total[k] /\ args[k] \in Buffers
  BY Lengths, CombinationFacts
<1>2. /\ Reached(c) => c \in seen
      /\ \A k \in it + 1..Len(args) : args[k].at = total[k] + 1
  BY DEF TurningOn
<1>3. CASE BeforeUpTo(it - 1, c)
  <2>1. BeforeUpTo(Len(args), c)
    BY <1>1, <1>3 DEF BeforeUpTo
  <2> QED
    BY <1>2, <2>1, ReachedMeans
<1>4. CASE c[it] <= args[it].at /\ \A j \in 1..it - 1 : c[j] = args[j].at
  <2>1. CASE c[it] < args[it].at
    <3>1. BeforeUpTo(Len(args), c)
      BY <1>4, <2>1 DEF BeforeUpTo
    <3> QED
      BY <1>2, <3>1, ReachedMeans
  <2>2. CASE c[it] = args[it].at /\ it = Len(args)
    <3>1. \A k \in 1..Len(args) : c[k] = args[k].at
      BY <1>1, <1>4, <2>2
    <3>2. c = Current
      BY <3>1, CurrentMeans
    <3> QED
      BY <1>2, <3>2, ReachedMeans
  <2>3. CASE c[it] = args[it].at /\ it # Len(args)
    <3>1. it + 1 \in 1..Len(args) /\ it + 1 \in it + 1..Len(args)
      BY <1>1, <2>3
    <3>2. c[it + 1] < args[it + 1].at
      <4>1. c[it + 1] \in 1..total[it + 1] /\ args[it + 1].at = total[it + 1] + 1
        BY <1>1, <1>2, <3>1
      <4>2. total[it + 1] \in Nat
        BY <3>1, Lengths
      <4> QED
        BY <4>1, <4>2
    <3>3. \A j \in 1..(it + 1) - 1 : c[j] = args[j].at
      BY <1>1, <1>4, <2>3
    <3>4. BeforeUpTo(Len(args), c)
      BY <3>1, <3>2, <3>3 DEF BeforeUpTo
    <3> QED
      BY <1>2, <3>4, ReachedMeans
  <2>4. c[it] \in Int /\ args[it].at \in Int
    BY <1>1 DEF Buffers
  <2> QED
    BY <1>4, <2>1, <2>2, <2>3, <2>4
<1> QED
  BY <1>3, <1>4

-----------------------------------------------------------------------------
(***************************************************************************)
(* The steps                                                               *)
(***************************************************************************)
EnumerationStep == [Enumeration!Next]_<<total, seen, ended>>

LEMMA InitLemma == Init => IInv /\ Enumeration!Init
<1> SUFFICES ASSUME Init PROVE IInv /\ Enumeration!Init
  OBVIOUS
<1>1. PICK n \in 0..MaxArguments : total \in [1..n -> 0..MaxMatches]
  BY DEF Init
<1>2. n \in Nat
  BY <1>1, BoundsAssumption
<1>3. total \in Seq(0..MaxMatches) /\ Len(total) = n /\ DOMAIN total = 1..n
  <2>1. total \in Seq(0..MaxMatches) /\ DOMAIN total = 1..n
    BY <1>1, <1>2, SeqDef
  <2>2. Len(total) \in Nat /\ 1..Len(total) = 1..n
    BY <2>1, LenProperties
  <2>3. Len(total) = n
    BY <1>2, <2>2
  <2> QED
    BY <2>1, <2>3
<1>4. NewBuffer \in Buffers
  BY DEF NewBuffer, Buffers
<1>5. args = [k \in 1..n |-> NewBuffer]
  BY <1>3 DEF Init
<1>6. args \in Seq(Buffers) /\ Len(args) = n
  BY <1>2, <1>4, <1>5
<1>7. TypeInv
  BY <1>3, <1>6 DEF TypeInv, Init
<1>8. BeforeEnd
  <2>1. \A k \in DOMAIN args : args[k].buffered <= total[k]
    <3> SUFFICES ASSUME NEW k \in 1..n PROVE args[k].buffered <= total[k]
      BY <1>5
    <3>1. args[k].buffered = 0 /\ total[k] \in Nat
      BY <1>1, <1>5, BoundsAssumption DEF NewBuffer
    <3> QED
      BY <3>1
  <2> QED
    BY <1>3, <1>6, <2>1 DEF BeforeEnd, Init
<1> QED
  BY <1>7, <1>8 DEF IInv, Init, Enumeration!Init

LEMMA CallStep == IInv /\ Call => IInv' /\ EnumerationStep
<1> SUFFICES ASSUME IInv, Call PROVE IInv' /\ EnumerationStep
  OBVIOUS
<1> USE DEF Call
<1>1. TypeInv /\ TypeInv'
  BY DEF IInv, TypeInv, Combinations, Enumeration!Combinations
<1>2. CASE ended
  BY <1>1, <1>2 DEF IInv, AfterEnd, rbegin, rend, EnumerationStep, Combinations, Enumeration!Combinations
<1>3. CASE ~ended /\ toDo
  <2>1. TurningBack'
    BY <1>3 DEF TurningBack, BeforeUpTo, rend
  <2>2. Len(args) \in Nat
    BY <1>1, Lengths
  <2>3. BeforeEnd'
    BY <1>3, <2>1, <2>2 DEF IInv, BeforeEnd, rend
  <2> QED
    BY <1>1, <1>3, <2>3 DEF IInv, EnumerationStep
<1>4. CASE ~ended /\ ~toDo
  <2>1. BeforeEnd /\ reader = "match"
    BY <1>1, <1>4 DEF IInv, TypeInv, BeforeEnd
  <2>2. Len(args) \in Nat /\ DOMAIN args = 1..Len(args)
    BY <1>1, Lengths
  <2>3. TurningOn'
    <3>1. \A k \in it' + 1..Len(args') : FALSE
      BY <1>4, <2>2 DEF rbegin
    <3>2. \A c \in Combinations' : Reached(c)' => c \in seen'
      <4>1. Combinations' = Combinations
        BY DEF Combinations, Enumeration!Combinations
      <4>2. \A c : Reached(c)' <=> Reached(c)
        BY DEF Reached, Current, Before
      <4> QED
        BY <2>1, <4>1, <4>2 DEF BeforeEnd
    <3> QED
      BY <3>1, <3>2 DEF TurningOn
  <2>4. BeforeEnd'
    BY <1>4, <2>1, <2>2, <2>3 DEF BeforeEnd, rbegin
  <2> QED
    BY <1>1, <1>4, <2>4 DEF IInv, EnumerationStep
<1> QED
  BY <1>2, <1>3, <1>4

\* What the actions on one digit share.
LEMMA DigitStep ==
  ASSUME IInv, ~ended, UNCHANGED <<total, toDo, reader, seen, ended>>, reader = "calling",
         initialisationState' \in BOOLEAN,
         NEW i \in 1..Len(args), NEW d \in Buffers, d.buffered <= total[i],
         args' = [args EXCEPT ![i] = d]
  PROVE  /\ TypeInv' /\ Combinations' = Combinations /\ EnumerationStep
         /\ Len(args') = Len(args) /\ Len(args') = Len(total')
         /\ \A k \in DOMAIN args' : args'[k].buffered <= total'[k]
<1>1. TypeInv /\ BeforeEnd
  BY DEF IInv
<1>2. /\ args' \in Seq(Buffers) /\ Len(args') = Len(args) /\ DOMAIN args' = 1..Len(args)
      /\ args'[i] = d
      /\ \A k \in 1..Len(args) : k # i => args'[k] = args[k]
  BY <1>1, DigitReplaced
<1>3. Combinations' = Combinations
  BY DEF Combinations, Enumeration!Combinations
<1>4. TypeInv'
  BY <1>1, <1>2, <1>3 DEF TypeInv
<1>5. \A k \in 1..Len(args) : args[k].buffered <= total[k]
  BY <1>1, Lengths DEF BeforeEnd
<1>6. \A k \in DOMAIN args' : args'[k].buffered <= total'[k]
  BY <1>2, <1>5
<1> QED
  BY <1>1, <1>2, <1>3, <1>4, <1>6 DEF BeforeEnd, EnumerationStep

LEMMA TurnBackStep == IInv /\ TurnBack => IInv' /\ EnumerationStep
<1> SUFFICES ASSUME IInv, TurnBack PROVE IInv' /\ EnumerationStep
  OBVIOUS
<1>1. ~ended /\ TypeInv /\ BeforeEnd /\ TurningBack
  BY DEF IInv, AfterEnd, BeforeEnd, TurnBack
<1> DEFINE i == it + 1
           d == BufferedNext(Reset(args[i]), total[i])
<1>2. /\ Len(args) \in Nat /\ it \in 0..Len(args) /\ i \in 1..Len(args)
      /\ args[i] \in Buffers /\ total[i] \in Nat /\ args[i].buffered <= total[i]
  BY <1>1, Lengths DEF BeforeEnd, TurnBack, rbegin
<1>3. d \in Buffers /\ d.buffered <= total[i] /\ d.at = 1 /\ ~AtEnd(d)
  BY <1>2, DigitTurnsBack DEF TurnBack
<1>4. args' = [args EXCEPT ![i] = d]
  BY DEF TurnBack
<1> HIDE DEF d
<1>5. /\ args'[i] = d
      /\ \A k \in 1..Len(args) : k # i => args'[k] = args[k]
  BY <1>1, <1>2, <1>3, <1>4, DigitReplaced
<1>6. /\ TypeInv' /\ Combinations' = Combinations /\ EnumerationStep
      /\ Len(args') = Len(args) /\ Len(args') = Len(total')
      /\ \A k \in DOMAIN args' : args'[k].buffered <= total'[k]
  <2>1. /\ UNCHANGED <<total, toDo, reader, seen, ended>>
        /\ reader = "calling" /\ initialisationState' \in BOOLEAN
    BY <1>1 DEF TurnBack, TypeInv
  <2> QED
    BY <1>1, <1>2, <1>3, <1>4, <2>1, DigitStep
<1>7. \A k \in 1..it' : ~AtEnd(args'[k])
  <2>1. \A k \in 1..it : ~AtEnd(args[k]) /\ args'[k] = args[k]
    BY <1>1, <1>2, <1>5 DEF BeforeEnd, TurnBack
  <2>2. \A k \in 1..it' : k \in 1..it \/ k = i
    BY <1>2 DEF TurnBack
  <2> QED
    BY <1>3, <1>5, <2>1, <2>2
<1>8. TurningBack'
  <2> SUFFICES ASSUME NEW c \in Combinations, BeforeUpTo(it, c)' PROVE c \in seen
    BY <1>6 DEF TurningBack, TurnBack
  <2>1. PICK k \in 1..i : c[k] < args'[k].at /\ \A j \in 1..k - 1 : c[j] = args'[j].at
    BY DEF BeforeUpTo, TurnBack
  <2>2. k # i
    <3>1. c[i] \in 1..total[i]
      BY <1>1, <1>2, CombinationFacts DEF BeforeEnd
    <3> QED
      BY <1>2, <1>3, <1>5, <2>1, <3>1
  <2>3. k \in 1..it /\ \A j \in 1..k : args'[j] = args[j]
    BY <1>2, <1>5, <2>2
  <2>4. c[k] < args[k].at /\ \A j \in 1..k - 1 : c[j] = args[j].at
    BY <2>1, <2>3
  <2> QED
    BY <1>1, <2>3, <2>4 DEF TurningBack, BeforeUpTo
<1>9. BeforeEnd'
  BY <1>1, <1>2, <1>6, <1>7, <1>8 DEF BeforeEnd, TurnBack
<1> QED
  BY <1>1, <1>6, <1>9 DEF IInv, TurnBack

LEMMA NothingToTurnBackStep == IInv /\ NothingToTurnBack => IInv' /\ EnumerationStep
<1> SUFFICES ASSUME IInv, NothingToTurnBack PROVE IInv' /\ EnumerationStep
  OBVIOUS
<1>1. ~ended /\ TypeInv /\ BeforeEnd
  BY DEF IInv, AfterEnd, BeforeEnd, NothingToTurnBack
<1> DEFINE i == it + 1
           d == BufferedNext(Reset(args[i]), total[i])
<1>2. /\ Len(args) \in Nat /\ it \in 0..Len(args) /\ i \in 1..Len(args)
      /\ args[i] \in Buffers /\ total[i] \in Nat /\ args[i].buffered <= total[i]
  BY <1>1, Lengths DEF BeforeEnd, NothingToTurnBack, rbegin
<1>3. d \in Buffers /\ d.buffered <= total[i] /\ total[i] = 0
  BY <1>2, DigitTurnsBack DEF NothingToTurnBack
<1>4. args' = [args EXCEPT ![i] = d]
  BY DEF NothingToTurnBack
<1> HIDE DEF d
<1>5. \A k \in 1..Len(args) : k # i => args'[k] = args[k]
  BY <1>1, <1>2, <1>3, <1>4, DigitReplaced
<1>6. /\ TypeInv' /\ Combinations' = Combinations /\ EnumerationStep
      /\ Len(args') = Len(args) /\ Len(args') = Len(total')
      /\ \A k \in DOMAIN args' : args'[k].buffered <= total'[k]
  <2>1. /\ UNCHANGED <<total, toDo, reader, seen, ended>>
        /\ reader = "calling" /\ initialisationState' \in BOOLEAN
    BY <1>1 DEF NothingToTurnBack, TypeInv
  <2> QED
    BY <1>1, <1>2, <1>3, <1>4, <2>1, DigitStep
<1>7. \A k \in 1..it' : ~AtEnd(args'[k])
  BY <1>1, <1>2, <1>5 DEF BeforeEnd, NothingToTurnBack
<1>8. TurningOn'
  <2>1. \A c \in Combinations : c[i] \in 1..0
    BY <1>1, <1>2, <1>3, CombinationFacts DEF BeforeEnd
  <2> QED
    BY <1>6, <2>1 DEF TurningOn
<1>9. BeforeEnd'
  BY <1>1, <1>2, <1>6, <1>7, <1>8 DEF BeforeEnd, NothingToTurnBack
<1> QED
  BY <1>1, <1>6, <1>9 DEF IInv, NothingToTurnBack

LEMMA DeliverStep == IInv /\ Deliver => IInv' /\ EnumerationStep
<1> SUFFICES ASSUME IInv, Deliver PROVE IInv' /\ EnumerationStep
  OBVIOUS
<1>1. ~ended /\ TypeInv /\ BeforeEnd /\ TurningBack
  BY DEF IInv, AfterEnd, BeforeEnd, Deliver
<1>2. /\ Len(args) \in Nat /\ it = Len(args) /\ DOMAIN args = 1..Len(args)
      /\ \A k \in 1..Len(args) : ~AtEnd(args[k])
  BY <1>1, Lengths DEF BeforeEnd, Deliver, rbegin
<1>3. Current \in Combinations
  <2>1. Current = [k \in 1..Len(total) |-> args[k].at]
    BY <1>1, <1>2 DEF Current, BeforeEnd
  <2>2. \A k \in 1..Len(total) : args[k].at \in 1..total[k]
    <3> SUFFICES ASSUME NEW k \in 1..Len(total) PROVE args[k].at \in 1..total[k]
      OBVIOUS
    <3>1. args[k] \in Buffers /\ total[k] \in Nat /\ args[k].buffered <= total[k] /\ ~AtEnd(args[k])
      BY <1>1, <1>2, Lengths DEF BeforeEnd
    <3> QED
      BY <3>1 DEF Buffers, AtEnd
  <2>3. \A k \in 1..Len(total) : Current[k] = args[k].at
    BY <2>1
  <2> QED
    BY <1>1, <2>1, <2>2, <2>3, CombinationFacts
<1>4. Combinations' = Combinations
  BY DEF Combinations, Enumeration!Combinations, Deliver
<1>5. TypeInv'
  BY <1>1, <1>3, <1>4 DEF TypeInv, Deliver
<1>6. \A c \in Combinations' : Reached(c)' => c \in seen'
  <2>1. \A c : Reached(c)' <=> Reached(c)
    BY DEF Reached, Current, Before, Deliver
  <2>2. \A c \in Combinations : Reached(c) => c = Current \/ BeforeUpTo(it, c)
    BY <1>1, <1>2, ReachedMeans DEF BeforeEnd
  <2> QED
    BY <1>1, <1>4, <2>1, <2>2 DEF TurningBack, Deliver
<1>7. BeforeEnd'
  BY <1>1, <1>2, <1>6 DEF BeforeEnd, Deliver
<1>8. Enumeration!Next
  BY <1>1, <1>3 DEF Enumeration!Next, Enumeration!Deliver, Combinations, Deliver
<1> QED
  BY <1>1, <1>5, <1>7, <1>8 DEF IInv, EnumerationStep, Deliver

LEMMA TurnOnStep == IInv /\ TurnOn => IInv' /\ EnumerationStep
<1> SUFFICES ASSUME IInv, TurnOn PROVE IInv' /\ EnumerationStep
  OBVIOUS
<1>1. ~ended /\ TypeInv /\ BeforeEnd /\ TurningOn
  BY DEF IInv, AfterEnd, BeforeEnd, TurnOn
<1> DEFINE d == BufferedNext(args[it], total[it])
<1>2. /\ Len(args) \in Nat /\ it \in 1..Len(args) /\ Len(args) = Len(total)
      /\ args[it] \in Buffers /\ total[it] \in Nat /\ args[it].buffered <= total[it]
      /\ ~AtEnd(args[it])
  BY <1>1, Lengths DEF BeforeEnd, TurnOn, rend
<1>3. d \in Buffers /\ d.buffered <= total[it] /\ d.at \in {args[it].at, args[it].at + 1} /\ ~AtEnd(d)
  BY <1>2, DigitTurnsOn DEF TurnOn
<1>4. args' = [args EXCEPT ![it] = d]
  BY DEF TurnOn
<1> HIDE DEF d
<1>5. /\ args'[it] = d
      /\ \A k \in 1..Len(args) : k # it => args'[k] = args[k]
  BY <1>1, <1>2, <1>3, <1>4, DigitReplaced
<1>6. /\ TypeInv' /\ Combinations' = Combinations /\ EnumerationStep
      /\ Len(args') = Len(args) /\ Len(args') = Len(total')
      /\ \A k \in DOMAIN args' : args'[k].buffered <= total'[k]
  <2>1. /\ UNCHANGED <<total, toDo, reader, seen, ended>>
        /\ reader = "calling" /\ initialisationState' \in BOOLEAN
    BY DEF TurnOn
  <2> QED
    BY <1>1, <1>2, <1>3, <1>4, <2>1, DigitStep
<1>7. \A k \in 1..it' : ~AtEnd(args'[k])
  <2>1. \A k \in 1..it : ~AtEnd(args[k])
    BY <1>1 DEF BeforeEnd, TurnOn
  <2>2. \A k \in 1..it : k # it => args'[k] = args[k]
    BY <1>2, <1>5
  <2> QED
    BY <1>3, <1>5, <2>1, <2>2 DEF TurnOn
<1>8. TurningBack'
  <2> SUFFICES ASSUME NEW c \in Combinations, BeforeUpTo(it, c)' PROVE c \in seen
    BY <1>6 DEF TurningBack, TurnOn
  <2>1. PICK k \in 1..it : c[k] < args'[k].at /\ \A j \in 1..k - 1 : c[j] = args'[j].at
    BY DEF BeforeUpTo, TurnOn
  <2>2. \A j \in 1..k - 1 : c[j] = args[j].at
    BY <1>2, <1>5, <2>1
  <2>3. CASE k = it
    <3>1. c[it] < d.at
      BY <1>5, <2>1, <2>3
    <3>2. c[it] \in Nat /\ args[it].at \in Nat
      BY <1>1, <1>2, CombinationFacts DEF Buffers
    <3>3. c[it] <= args[it].at
      BY <1>3, <3>1, <3>2
    <3> QED
      BY <1>1, <1>2, <2>2, <2>3, <3>3, UpToDigit
  <2>4. CASE k # it
    <3>1. k \in 1..it - 1 /\ c[k] < args[k].at
      BY <1>2, <1>5, <2>1, <2>4
    <3>2. BeforeUpTo(it - 1, c)
      BY <2>2, <3>1 DEF BeforeUpTo
    <3> QED
      BY <1>1, <1>2, <3>2, UpToDigit
  <2> QED
    BY <2>3, <2>4
<1>9. BeforeEnd'
  BY <1>1, <1>2, <1>6, <1>7, <1>8 DEF BeforeEnd, TurnOn
<1> QED
  BY <1>1, <1>6, <1>9 DEF IInv, TurnOn

LEMMA UsedUpStep == IInv /\ UsedUp => IInv' /\ EnumerationStep
<1> SUFFICES ASSUME IInv, UsedUp PROVE IInv' /\ EnumerationStep
  OBVIOUS
<1>1. ~ended /\ TypeInv /\ BeforeEnd /\ TurningOn
  BY DEF IInv, AfterEnd, BeforeEnd, UsedUp
<1> DEFINE d == BufferedNext(args[it], total[it])
<1>2. /\ Len(args) \in Nat /\ it \in 1..Len(args) /\ Len(args) = Len(total)
      /\ args[it] \in Buffers /\ total[it] \in Nat /\ args[it].buffered <= total[it]
      /\ ~AtEnd(args[it])
  BY <1>1, Lengths DEF BeforeEnd, UsedUp, rend
<1>3. d \in Buffers /\ d.buffered <= total[it] /\ d.at = total[it] + 1 /\ args[it].at = total[it]
  BY <1>2, DigitUsedUp DEF UsedUp
<1>4. args' = [args EXCEPT ![it] = d]
  BY DEF UsedUp
<1> HIDE DEF d
<1>5. /\ args'[it] = d
      /\ \A k \in 1..Len(args) : k # it => args'[k] = args[k]
  BY <1>1, <1>2, <1>3, <1>4, DigitReplaced
<1>6. /\ TypeInv' /\ Combinations' = Combinations /\ EnumerationStep
      /\ Len(args') = Len(args) /\ Len(args') = Len(total')
      /\ \A k \in DOMAIN args' : args'[k].buffered <= total'[k]
  <2>1. /\ UNCHANGED <<total, toDo, reader, seen, ended>>
        /\ reader = "calling" /\ initialisationState' \in BOOLEAN
    BY <1>1 DEF UsedUp, TypeInv
  <2> QED
    BY <1>1, <1>2, <1>3, <1>4, <2>1, DigitStep
<1>7. \A k \in 1..it' : ~AtEnd(args'[k])
  <2>1. \A k \in 1..it : ~AtEnd(args[k])
    BY <1>1 DEF BeforeEnd, UsedUp
  <2> QED
    BY <1>2, <1>5, <2>1 DEF UsedUp
<1>8. TurningOn'
  <2> SUFFICES ASSUME NEW c \in Combinations
               PROVE  /\ Reached(c)' => c \in seen
                      /\ \A k \in it..Len(args) : args'[k].at = total[k] + 1
    BY <1>2, <1>6 DEF TurningOn, UsedUp
  <2>1. \A k \in it..Len(args) : args'[k].at = total[k] + 1
    <3>1. \A k \in it + 1..Len(args) : args[k].at = total[k] + 1
      BY <1>1 DEF TurningOn
    <3> QED
      BY <1>2, <1>3, <1>5, <3>1
  <2>2. c[it] \in 1..total[it] /\ \A k \in 1..Len(args) : c[k] \in Nat
    BY <1>1, <1>2, Lengths, CombinationFacts
  <2>3. ASSUME Reached(c)' PROVE c \in seen
    <3>1. Current' = [k \in 1..Len(args) |-> args'[k].at]
      BY <1>1, <1>2, <1>3, <1>4, DigitReplaced DEF Current
    <3>2. Current'[it] = total[it] + 1
      BY <1>2, <1>3, <1>5, <3>1
    <3>3. c # Current'
      BY <1>2, <2>2, <3>2
    <3>4. Before(c, Current)' /\ DOMAIN total' = 1..Len(args)
      BY <1>1, <1>2, <2>3, <3>3, Lengths DEF UsedUp, Reached
    <3>5. PICK k \in 1..Len(args) : c[k] < Current'[k] /\ \A j \in 1..k - 1 : c[j] = Current'[j]
      BY <3>4 DEF Before
    <3>6. ~(it < k)
      BY <1>2, <2>2, <3>2, <3>5
    <3>7. \A j \in 1..k - 1 : c[j] = args[j].at
      <4> SUFFICES ASSUME NEW j \in 1..k - 1 PROVE c[j] = args[j].at
        OBVIOUS
      <4>1. j \in 1..Len(args) /\ j # it
        BY <1>2, <3>5, <3>6
      <4>2. Current'[j] = args[j].at
        BY <1>5, <3>1, <4>1
      <4> QED
        BY <3>5, <4>2
    <3>8. CASE k = it
      BY <1>1, <1>2, <1>3, <2>2, <3>7, <3>8, UpToDigit
    <3>9. CASE k < it
      <4>1. k \in 1..it - 1 /\ c[k] < args[k].at
        BY <1>2, <1>5, <3>1, <3>5, <3>9
      <4>2. BeforeUpTo(it - 1, c)
        BY <3>7, <4>1 DEF BeforeUpTo
      <4> QED
        BY <1>1, <1>2, <4>2, UpToDigit
    <3> QED
      BY <1>2, <3>6, <3>8, <3>9
  <2> QED
    BY <2>1, <2>3
<1>9. BeforeEnd'
  BY <1>1, <1>2, <1>6, <1>7, <1>8 DEF BeforeEnd, UsedUp
<1> QED
  BY <1>1, <1>6, <1>9 DEF IInv, UsedUp

LEMMA EndStep == IInv /\ End => IInv' /\ EnumerationStep
<1> SUFFICES ASSUME IInv, End PROVE IInv' /\ EnumerationStep
  OBVIOUS
<1>0. TypeInv /\ Combinations' = Combinations
  BY DEF IInv, End, Combinations, Enumeration!Combinations
<1>1. seen = Combinations
  <2>1. CASE ended
    BY <2>1 DEF IInv, AfterEnd
  <2>2. CASE ~ended
    <3>1. BeforeEnd /\ TurningOn /\ Len(args) = Len(total)
      BY <2>2 DEF IInv, BeforeEnd, End
    <3> SUFFICES ASSUME NEW c \in Combinations PROVE c \in seen
      BY <1>0 DEF TypeInv
    <3>2. Len(args) \in Nat /\ \A k \in 1..Len(args) : c[k] \in 1..total[k] /\ total[k] \in Nat
      BY <1>0, <3>1, Lengths, CombinationFacts
    <3>3. Reached(c) => c \in seen
      BY <3>1 DEF TurningOn
    <3>4. CASE Len(args) = 0
      <4>1. c = Current
        BY <1>0, <3>1, <3>4, CurrentMeans
      <4> QED
        BY <3>3, <4>1 DEF Reached
    <3>5. CASE Len(args) # 0
      <4>1. 1 \in 1..Len(args) /\ it + 1 = 1
        BY <3>2, <3>5 DEF End, rend
      <4>2. args[1].at = total[1] + 1
        BY <3>1, <4>1 DEF TurningOn
      <4>3. c[1] < args[1].at
        BY <3>2, <4>1, <4>2
      <4>4. BeforeUpTo(Len(args), c)
        BY <4>1, <4>3 DEF BeforeUpTo
      <4> QED
        BY <1>0, <3>1, <3>3, <4>4, ReachedMeans
    <3> QED
      BY <3>4, <3>5
  <2> QED
    BY <2>1, <2>2
<1>2. <<>> \in Seq(Buffers)
  OBVIOUS
<1>3. TypeInv'
  BY <1>0, <1>2 DEF TypeInv, End
<1>4. AfterEnd'
  BY <1>0, <1>1 DEF AfterEnd, End, TypeInv
<1>5. EnumerationStep
  <2>1. CASE ended
    BY <2>1 DEF EnumerationStep, End, IInv
  <2>2. CASE ~ended
    BY <1>1, <2>2 DEF EnumerationStep, End, Enumeration!Next, Enumeration!Finish, Combinations
  <2> QED
    BY <2>1, <2>2
<1> QED
  BY <1>3, <1>4, <1>5 DEF IInv, End

LEMMA NextLemma == IInv /\ [Next]_vars => IInv' /\ EnumerationStep
<1> SUFFICES ASSUME IInv, [Next]_vars PROVE IInv' /\ EnumerationStep
  OBVIOUS
<1>1. CASE Next
  BY <1>1, CallStep, TurnBackStep, NothingToTurnBackStep, DeliverStep, TurnOnStep, UsedUpStep, EndStep
  DEF Next, Loop
<1>2. CASE UNCHANGED vars
  <2> USE <1>2 DEF vars
  <2>1. Combinations' = Combinations /\ EnumerationStep
    BY DEF Combinations, Enumeration!Combinations, EnumerationStep
  <2>2. \A c : Reached(c)' <=> Reached(c)
    BY DEF Reached, Before, Current
  <2>3. \A c : BeforeUpTo(it, c)' <=> BeforeUpTo(it, c)
    BY DEF BeforeUpTo
  <2>4. TurningBack' <=> TurningBack
    BY <2>1, <2>3 DEF TurningBack
  <2>5. TurningOn' <=> TurningOn
    BY <2>1, <2>2 DEF TurningOn
  <2>6. BeforeEnd' <=> BeforeEnd
    BY <2>1, <2>2, <2>4, <2>5 DEF BeforeEnd
  <2>7. (TypeInv' <=> TypeInv) /\ (AfterEnd' <=> AfterEnd)
    BY <2>1 DEF TypeInv, AfterEnd
  <2> QED
    BY <2>1, <2>6, <2>7 DEF IInv
<1> QED
  BY <1>1, <1>2

-----------------------------------------------------------------------------
(***************************************************************************)
(* The theorems                                                            *)
(***************************************************************************)
\* The odometer of FTConjunctionMatches::next() always knows where it is.
THEOREM OdometerInvariance == Spec => []IInv
<1>1. Init => IInv
  BY InitLemma
<1>2. IInv /\ [Next]_vars => IInv'
  BY NextLemma
<1> QED
  BY <1>1, <1>2, PTL DEF Spec

\* When next() has returned true every match is in its argument's buffer, and
\* no combination that comes earlier in the order of the odometer was skipped.
THEOREM StandsAtNextAlways == Spec => []StandsAtNext
<1>1. IInv => StandsAtNext
  BY DEF IInv, AfterEnd, BeforeEnd, StandsAtNext, Reached, Combinations
<1> QED
  BY <1>1, OdometerInvariance, PTL

\* Pulling the matches of a conjunction enumerates all combinations of the
\* matches of its arguments and nothing else, whatever arguments there are,
\* even though each argument is pulled only once and replayed from its buffer.
THEOREM ImplementsEnumeration == Spec => Refines
<1>1. Init => Enumeration!Init
  BY InitLemma
<1>2. IInv /\ [Next]_vars => [Enumeration!Next]_<<total, seen, ended>>
  BY NextLemma DEF EnumerationStep
<1> QED
  BY <1>1, <1>2, OdometerInvariance, PTL DEF Spec, Refines, Enumeration!Spec
==============================================================================
