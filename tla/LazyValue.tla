------------------------------ MODULE LazyValue ------------------------------
(***************************************************************************)
(* What a lazily evaluated XQuery value promises its users: the value is   *)
(* one fixed sequence, a handle (a bound variable) denotes a suffix of it, *)
(* and every reader created from a handle walks that suffix on its own, at *)
(* its own pace, whatever the other readers do.  Nothing is said of how    *)
(* the value is evaluated or stored; ResultBuffer implements it.           *)
(***************************************************************************)
EXTENDS Integers, Sequences

CONSTANTS
  Source,      \* the value: the sequence of items the expression returns
  End,         \* the null item that ends every sequence
  Handles,     \* names of the ResultBuffer objects
  Readers,     \* names of the Result objects
  ReadCounts,  \* the read counts a handle may be created with
  MaxSkip      \* the largest argument of skip()

VARIABLES
  cursor,      \* items of the value each reader has passed, or Absent
  origin,      \* items of the value each handle has passed, or Absent
  quota,       \* reads each handle may still serve
  out          \* what the last step returned to its caller

absvars == <<cursor, origin, quota, out>>

Absent == -1
Unlimited == -1
Silent == <<>>

N == Len(Source)
Clip(i) == IF i < N THEN i ELSE N

TypeOK ==
  /\ cursor \in [Readers -> 0..N \union {Absent}]
  /\ origin \in [Handles -> 0..N \union {Absent}]
  /\ quota \in [Handles -> Nat \union {Unlimited}]

Init ==
  /\ quota = [h \in Handles |-> 0]
  /\ origin = [h \in Handles |-> Absent]
  /\ out = Silent
  /\ \E r \in Readers : cursor = [q \in Readers |-> IF q = r THEN 0 ELSE Absent]

\* A reader asks for its next item.
Read(r) ==
  /\ cursor[r] # Absent
  /\ IF cursor[r] < N
       THEN /\ out' = <<r, Source[cursor[r] + 1]>>
            /\ cursor' = [cursor EXCEPT ![r] = @ + 1]
       ELSE /\ out' = <<r, End>>
            /\ UNCHANGED cursor
  /\ UNCHANGED <<origin, quota>>

\* A reader passes k items without looking at them.
Pass(r, k) ==
  /\ cursor[r] # Absent
  /\ cursor' = [cursor EXCEPT ![r] = Clip(@ + k)]
  /\ out' = Silent
  /\ UNCHANGED <<origin, quota>>

\* What a reader has not read yet is bound to a handle.
Bind(r, h, c) ==
  /\ cursor[r] # Absent
  /\ origin' = [origin EXCEPT ![h] = cursor[r]]
  /\ quota' = [quota EXCEPT ![h] = c]
  /\ cursor' = [cursor EXCEPT ![r] = Absent]
  /\ out' = Silent

\* A handle is read once more; its last promised read uses it up.
Open(h, r) ==
  LET left == IF quota[h] = Unlimited THEN Unlimited ELSE quota[h] - 1 IN
  /\ origin[h] # Absent
  /\ cursor[r] = Absent
  /\ cursor' = [cursor EXCEPT ![r] = origin[h]]
  /\ quota' = [quota EXCEPT ![h] = left]
  /\ origin' = [origin EXCEPT ![h] = IF left = 0 THEN Absent ELSE @]
  /\ out' = Silent

Copy(h, g) ==
  /\ origin[h] # Absent
  /\ quota[h] = Unlimited
  /\ origin' = [origin EXCEPT ![g] = origin[h]]
  /\ quota' = [quota EXCEPT ![g] = Unlimited]
  /\ out' = Silent
  /\ UNCHANGED cursor

Close(r) ==
  /\ cursor[r] # Absent
  /\ cursor' = [cursor EXCEPT ![r] = Absent]
  /\ out' = Silent
  /\ UNCHANGED <<origin, quota>>

Unbind(h) ==
  /\ origin' = [origin EXCEPT ![h] = Absent]
  /\ quota' = [quota EXCEPT ![h] = 0]
  /\ out' = Silent
  /\ UNCHANGED cursor

Next ==
  \/ \E r \in Readers : Read(r) \/ Close(r)
  \/ \E r \in Readers, k \in 1..MaxSkip : Pass(r, k)
  \/ \E r \in Readers, h \in Handles, c \in ReadCounts : Bind(r, h, c)
  \/ \E h \in Handles, r \in Readers : Open(h, r)
  \/ \E h, g \in Handles : Copy(h, g)
  \/ \E h \in Handles : Unbind(h)

Spec == Init /\ [][Next]_absvars
=============================================================================
