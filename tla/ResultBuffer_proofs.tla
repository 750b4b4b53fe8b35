------------------------- MODULE ResultBuffer_proofs -------------------------
(***************************************************************************)
(* Proofs about ResultBuffer, for every value, every number of handles and *)
(* iterators and all read counts: one owner for the stream, the buffer is  *)
(* a stretch of it, ResultBuffer implements LazyValue, evaluates no item   *)
(* before it is asked for, and keeps none for a sole reader.               *)
(***************************************************************************)
EXTENDS ResultBuffer, TLAPS, SequenceTheorems, FiniteSetTheorems

-----------------------------------------------------------------------------
(***************************************************************************)
(* Stretches of the value                                                  *)
(***************************************************************************)

LEMMA NIsNat == N \in Nat
  BY SourceAssumption, LenProperties DEF N

LEMMA SourceItems == \A i \in 1..N : Source[i] \in Items /\ Source[i] # End
<1>1. DOMAIN Source = 1..N
  BY SourceAssumption, LenProperties DEF N
<1>2. \A i \in 1..N : Source[i] \in Items
  BY <1>1 DEF Items
<1> QED
  BY <1>2, SourceAssumption

LEMMA IndexInRange ==
  ASSUME NEW i \in Nat, NEW m \in Int, i < m
  PROVE  i + 1 \in 1..m
  OBVIOUS

LEMMA EmptyStretch ==
  ASSUME NEW b \in Nat
  PROVE  SubSeq(Source, b + 1, b) = <<>>
  BY SubSeqEmpty, b + 1 \in Int, b \in Int, b < b + 1

\* A stretch of the value is a sequence of its items, with the length of the stretch.
LEMMA StretchType ==
  ASSUME NEW b \in 0..N, NEW n \in b..N
  PROVE  /\ SubSeq(Source, b + 1, n) \in Seq(Items)
         /\ Len(SubSeq(Source, b + 1, n)) = n - b
         /\ \A i \in 1..(n - b) : SubSeq(Source, b + 1, n)[i] = Source[b + i]
<1>1. \A i \in (b + 1)..n : Source[i] \in Items
  <2> SUFFICES ASSUME NEW i \in (b + 1)..n PROVE Source[i] \in Items
    OBVIOUS
  <2>1. i \in 1..N
    BY NIsNat
  <2> QED
    BY <2>1, SourceItems
<1>2. b + 1 \in Int /\ n \in Int /\ b \in Int
  BY NIsNat
<1>3. /\ SubSeq(Source, b + 1, n) \in Seq(Items)
      /\ Len(SubSeq(Source, b + 1, n)) = IF b + 1 <= n THEN n - (b + 1) + 1 ELSE 0
      /\ \A i \in 1..(n - (b + 1) + 1) :
           SubSeq(Source, b + 1, n)[i] = Source[(b + 1) + i - 1]
  BY <1>1, <1>2, SubSeqProperties
<1>4. n - (b + 1) + 1 = n - b
  BY <1>2
<1>5. Len(SubSeq(Source, b + 1, n)) = n - b
  BY <1>2, <1>3
<1>6. \A i \in 1..(n - b) : SubSeq(Source, b + 1, n)[i] = Source[b + i]
  BY <1>2, <1>3, <1>4
<1> QED
  BY <1>3, <1>5, <1>6

\* Drawing on from where the last draw stopped extends the stretch.
LEMMA StretchExtends ==
  ASSUME NEW b \in 0..N, NEW m \in b..N, NEW n \in m..N
  PROVE  SubSeq(Source, b + 1, m) \o SubSeq(Source, m + 1, n) = SubSeq(Source, b + 1, n)
<1>1. /\ b + 1 \in 1..(Len(Source) + 1)
      /\ m \in ((b + 1) - 1)..Len(Source)
      /\ n \in m..Len(Source)
  BY NIsNat DEF N
<1> QED
  BY <1>1, SourceAssumption, ConcatAdjacentSubSeq

-----------------------------------------------------------------------------
(***************************************************************************)
(* The inductive invariant.  BufferIsStretch needs OneOwner (a new buffer  *)
(* is made only where no old one is left) and OneOwner needs it back.      *)
(***************************************************************************)
IInv == TypeOK /\ OneOwner /\ BufferIsStretch

LEMMA ClipType ==
  ASSUME NEW i \in Nat
  PROVE  /\ Clip(i) \in 0..N
         /\ \A m \in 0..N : m <= i => m <= Clip(i)
         /\ i >= N => Clip(i) = N
         /\ i <= N => Clip(i) = i
  BY NIsNat DEF Clip

LEMMA InitInv == Init => IInv
<1> SUFFICES ASSUME Init PROVE IInv
  OBVIOUS
<1> USE DEF Init, NoReader, NoImpl, Direct, Silent, Unlimited
<1>1. TypeOK
  <2>1. items \in Seq(Items)
    BY EmptySeq
  <2> QED
    BY <2>1, NIsNat DEF TypeOK, Kinds
<1>2. Refs = {}
  BY DEF Refs, Buffered
<1>3. OneOwner
  BY <1>2, NamesAssumption DEF OneOwner
<1>4. BufferIsStretch
  BY <1>2 DEF BufferIsStretch
<1> QED
  BY <1>1, <1>3, <1>4 DEF IInv

-----------------------------------------------------------------------------
(***************************************************************************)
(* One lemma per action                                                    *)
(***************************************************************************)

LEMMA BufferLength ==
  ASSUME IInv, Refs # {}
  PROVE  src \in base..N /\ Len(items) = src - base
<1>1. src \in base..N /\ base \in 0..N /\ items = SubSeq(Source, base + 1, src)
  BY NIsNat DEF IInv, TypeOK, BufferIsStretch
<1> QED
  BY <1>1, StretchType

\* What DrawTo does to the buffer while somebody refers to it.
LEMMA DrawToStretch ==
  ASSUME IInv, Refs # {}, NEW index \in Nat, DrawTo(index)
  PROVE  /\ src' \in src..N
         /\ base <= src'
         /\ items' = SubSeq(Source, base + 1, src')
         /\ items' \in Seq(Items)
         /\ Len(items') = src' - base
         /\ owner' \in {owner, "null"}
         /\ owner' = "null" => src' = N
         /\ src' > src => src' <= base + index + 1
         /\ index < Len(items') => items'[index + 1] = Source[base + index + 1]
         /\ index < Len(items') <=> base + index < N
<1> USE DEF IInv
<1>1. /\ src \in 0..N /\ base \in 0..N /\ base <= src
      /\ items = SubSeq(Source, base + 1, src)
      /\ owner = "null" => src = N
  BY DEF TypeOK, BufferIsStretch
<1>2. Len(items) = src - base
  BY <1>1, StretchType, NIsNat
<1>3. base + index + 1 \in Nat /\ base + index \in Nat
  BY <1>1, NIsNat
<1>4. src' = Drawn(index) /\ Drawn(index) \in src..N
  BY <1>1, <1>2, <1>3, NIsNat DEF DrawTo, Drawn, Clip
<1>5. items' = SubSeq(Source, base + 1, src')
  <2>1. src \in base..N /\ src' \in src..N
    BY <1>1, <1>4, NIsNat
  <2>2. SubSeq(Source, base + 1, src) \o SubSeq(Source, src + 1, src')
          = SubSeq(Source, base + 1, src')
    BY <1>1, <2>1, StretchExtends
  <2> QED
    BY <1>1, <1>4, <2>2 DEF DrawTo
<1>6. src' \in base..N
  BY <1>1, <1>4, NIsNat
<1>7. items' \in Seq(Items) /\ Len(items') = src' - base
  BY <1>1, <1>5, <1>6, StretchType
<1>elements. \A i \in 1..(src' - base) : items'[i] = Source[base + i]
  BY <1>1, <1>5, <1>6, StretchType
<1>8. owner' \in {owner, "null"}
  BY DEF DrawTo
<1>9. owner' = "null" => src' = N
  BY <1>1, <1>2, <1>3, <1>4, NIsNat DEF DrawTo, Drawn, Clip
<1>10. src' > src => src' <= base + index + 1
  BY <1>1, <1>2, <1>3, <1>4, NIsNat DEF Drawn, Clip
<1>11. index < Len(items') <=> base + index < N
  <2>1. owner \in {"impl", "null"}
    BY DEF TypeOK, OneOwner
  <2> QED
    BY <2>1, <1>1, <1>2, <1>3, <1>4, <1>7, NIsNat DEF Drawn, Clip
<1>12. index < Len(items') => items'[index + 1] = Source[base + index + 1]
  <2> SUFFICES ASSUME index < Len(items') PROVE items'[index + 1] = Source[base + index + 1]
    OBVIOUS
  <2>1. index + 1 \in 1..(src' - base)
    <3>1. base \in Int /\ src' \in Int
      BY <1>1, <1>6, NIsNat
    <3>2. index < src' - base
      BY <1>7
    <3>3. src' - base \in Int
      BY <3>1
    <3> QED
      BY <3>2, <3>3, IndexInRange
  <2>2. base + (index + 1) = base + index + 1
    BY <1>1
  <2> QED
    BY <1>elements, <2>1, <2>2
<1> QED
  BY <1>1, <1>4, <1>5, <1>6, <1>7, <1>8, <1>9, <1>10, <1>11, <1>12, SMTT(30)

LEMMA NextSharedInv ==
  ASSUME IInv, NEW r \in Readers, NextShared(r)
  PROVE  IInv'
<1> DEFINE p == reader[r].pos
<1> USE DEF IInv
<1>1. Buffered(r) /\ ~CaughtUpAlone(r) /\ DrawTo(p)
  BY DEF NextShared
<1>2. r \in Refs /\ Refs # {}
  BY <1>1 DEF Refs
<1>3. p \in Nat
  BY DEF TypeOK
<1>4. /\ src' \in src..N
      /\ base <= src'
      /\ items' = SubSeq(Source, base + 1, src')
      /\ items' \in Seq(Items)
      /\ Len(items') = src' - base
      /\ owner' \in {owner, "null"}
      /\ owner' = "null" => src' = N
      /\ p < Len(items') => items'[p + 1] = Source[base + p + 1]
      /\ p < Len(items') <=> base + p < N
  BY <1>1, <1>2, <1>3, DrawToStretch
<1>5. /\ UNCHANGED <<base, reads, maxReads, handle, quota>>
      /\ reader' \in {[reader EXCEPT ![r].pos = p + 1], [reader EXCEPT ![r] = Done]}
  BY DEF NextShared
<1>6. reader' \in [Readers -> [kind : Kinds, pos : Nat]]
  <2>1. reader \in [Readers -> [kind : Kinds, pos : Nat]] /\ p + 1 \in Nat
    BY <1>3 DEF TypeOK
  <2>2. Done \in [kind : Kinds, pos : Nat]
    BY DEF Done, Kinds
  <2>3. [reader EXCEPT ![r] = Done] \in [Readers -> [kind : Kinds, pos : Nat]]
    BY <2>1, <2>2
  <2>4. [reader EXCEPT ![r].pos = p + 1] \in [Readers -> [kind : Kinds, pos : Nat]]
    BY <2>1
  <2> QED
    BY <1>5, <2>3, <2>4
<1>7. out' \in Readers \X (Items \union {End})
  <2>1. CASE p < Len(items')
    <3>1. base + p + 1 \in 1..N
      <4>1. base \in Nat
        BY DEF TypeOK
      <4>2. base + p < N
        BY <2>1, <1>4
      <4> QED
        BY <4>1, <4>2, <1>3, NIsNat
    <3>2. items'[p + 1] \in Items
      BY <2>1, <3>1, <1>4, SourceItems
    <3> QED
      BY <2>1, <3>2 DEF NextShared
  <2>2. CASE ~(p < Len(items'))
    BY <2>2 DEF NextShared
  <2> QED
    BY <2>1, <2>2
<1>8. TypeOK'
  <2>1. src' \in 0..N
    BY <1>4, NIsNat DEF TypeOK
  <2>2. owner' \in {"impl", "null"} \union Readers
    BY <1>4 DEF TypeOK
  <2> QED
    BY <1>4, <1>5, <1>6, <1>7, <2>1, <2>2 DEF TypeOK
<1>9. \A q \in Readers : reader[q].kind = "direct" <=> reader'[q].kind = "direct"
  BY <1>1, <1>5 DEF Buffered, Done, TypeOK
<1>10. owner \in {"impl", "null"} /\ owner' \in {"impl", "null"}
  BY <1>2, <1>4 DEF TypeOK, OneOwner
<1>11. Refs' # {}
  <2>1. CASE p < Len(items')
    <3>1. reader'[r].kind = "buffered"
      BY <2>1, <1>1 DEF NextShared, Buffered, TypeOK
    <3> QED
      BY <3>1 DEF Refs, Buffered
  <2>2. CASE ~(p < Len(items'))
    <3>1. p >= Len(items)
      <4>1. Len(items) = src - base
        BY <1>2, BufferLength
      <4> QED
        BY <2>2, <1>3, <1>4, <4>1, NIsNat DEF TypeOK
    <3>2. PICK x \in Refs : x # r
      BY <3>1, <1>1, <1>2 DEF CaughtUpAlone
    <3>3. x \in Refs'
      BY <3>2, <1>5 DEF Refs, Buffered, TypeOK
    <3> QED
      BY <3>3
  <2> QED
    BY <2>1, <2>2
<1>12. OneOwner'
  <2>1. \A q \in Readers : reader[q].kind # "direct"
    BY <1>10, NamesAssumption DEF OneOwner
  <2>2. \A q \in Readers : reader'[q].kind # "direct" /\ owner' # q
    BY <1>9, <1>10, <2>1, NamesAssumption
  <2> QED
    BY <1>10, <1>11, <2>2, NamesAssumption DEF OneOwner
<1>13. BufferIsStretch'
  <2>1. Refs' # {} => items' = SubSeq(Source, base' + 1, src') /\ base' <= src'
    BY <1>4, <1>5
  <2>2. Refs' # {} /\ owner' = "null" => src' = N
    BY <1>4
  <2> QED
    BY <1>11, <2>1, <2>2 DEF BufferIsStretch
<1> QED
  BY <1>8, <1>12, <1>13

LEMMA DirectAlone ==
  ASSUME IInv, NEW r \in Readers, reader[r].kind = "direct"
  PROVE  /\ owner = r /\ owner # "impl" /\ owner # "null"
         /\ Refs = {} /\ items = <<>>
         /\ \A q \in Readers : q # r => reader[q].kind # "direct"
  BY NamesAssumption DEF IInv, OneOwner, BufferIsStretch

\* Drawing from the stream itself, by whoever holds or takes it, at a place
\* not before what was drawn.
LEMMA DrawDirectInv ==
  ASSUME IInv, NEW r \in Readers, NEW at \in src..N, DrawDirect(r, at),
         \A q \in Readers \ {r} : reader[q].kind # "direct",
         handle' = handle, quota' = quota,
         \A h \in Handles : ~handle[h].impl,
         \A q \in Readers \ {r} : ~Buffered(q),
         items' = <<>>, base' \in 0..N, reads' \in Nat, maxReads' \in Nat \union {Unlimited}
  PROVE  IInv'
<1>1. src' \in 0..N
  BY NIsNat DEF DrawDirect, IInv, TypeOK
<1>2. owner' \in {r, "null"}
  BY DEF DrawDirect
<1>3. /\ reader' \in {[reader EXCEPT ![r] = Direct], [reader EXCEPT ![r] = Done]}
      /\ reader' = [reader EXCEPT ![r] = Direct] <=> owner' = r
  BY NamesAssumption DEF DrawDirect, Direct, Done, IInv, TypeOK
<1>4. reader' \in [Readers -> [kind : Kinds, pos : Nat]]
  <2>1. reader \in [Readers -> [kind : Kinds, pos : Nat]]
    BY DEF IInv, TypeOK
  <2>2. {Direct, Done} \subseteq [kind : Kinds, pos : Nat]
    BY DEF Direct, Done, Kinds
  <2>3. [reader EXCEPT ![r] = Direct] \in [Readers -> [kind : Kinds, pos : Nat]]
    BY <2>1, <2>2
  <2>4. [reader EXCEPT ![r] = Done] \in [Readers -> [kind : Kinds, pos : Nat]]
    BY <2>1, <2>2
  <2> QED
    BY <1>3, <2>3, <2>4
<1>5. out' \in Readers \X (Items \union {End})
  <2>1. CASE at < N
    <3>1. at + 1 \in 1..N
      BY <2>1, NIsNat DEF IInv, TypeOK
    <3> QED
      BY <2>1, <3>1, SourceItems DEF DrawDirect
  <2>2. CASE ~(at < N)
    BY <2>2 DEF DrawDirect
  <2> QED
    BY <2>1, <2>2
<1>6. items' \in Seq(Items)
  BY EmptySeq
<1>7. TypeOK'
  BY <1>1, <1>2, <1>4, <1>5, <1>6 DEF TypeOK, IInv
<1>8. \A q \in Readers : reader'[q].kind = "direct" <=> owner' = q
  <2>1. \A q \in Readers \ {r} : reader'[q] = reader[q]
    BY <1>3 DEF IInv, TypeOK
  <2>2. reader'[r].kind = "direct" <=> owner' = r
    BY <1>3 DEF IInv, TypeOK, Direct, Done
  <2> QED
    BY <1>2, <2>1, <2>2, NamesAssumption
<1>9. Refs' = {}
  <2>1. \A q \in Readers : reader'[q].kind # "buffered"
    BY <1>3 DEF IInv, TypeOK, Direct, Done, Buffered
  <2> QED
    BY <2>1 DEF Refs, Buffered
<1>10. OneOwner'
  BY <1>2, <1>8, <1>9, NamesAssumption DEF OneOwner
<1>11. BufferIsStretch'
  BY <1>9 DEF BufferIsStretch
<1> QED
  BY <1>7, <1>10, <1>11 DEF IInv

LEMMA NextDitchInv ==
  ASSUME IInv, NEW r \in Readers, NextDitch(r)
  PROVE  IInv'
<1>1. /\ Buffered(r) /\ Refs = {r} /\ reader[r].pos >= Len(items)
      /\ DrawDirect(r, Skipped(reader[r].pos - Len(items)))
      /\ Freed /\ UNCHANGED <<handle, quota>>
  BY DEF NextDitch, CaughtUpAlone
<1>2. Len(items) = src - base /\ src \in base..N /\ base \in 0..N /\ reader[r].pos \in Nat
  BY <1>1, BufferLength DEF IInv, TypeOK
<1>3. Skipped(reader[r].pos - Len(items)) \in src..N
  <2>1. reader[r].pos - Len(items) \in Nat
    BY <1>1, <1>2
  <2>2. src \in 0..N
    BY <1>2
  <2>3. \A k \in Nat : Skipped(k) \in src..N
    BY <2>2, NIsNat DEF Skipped, Clip
  <2> QED
    BY <2>1, <2>3
<1>4. \A h \in Handles : ~handle[h].impl
  BY <1>1, NamesAssumption DEF Refs
<1>5. \A q \in Readers \ {r} : ~Buffered(q)
  BY <1>1 DEF Refs
<1>6. \A q \in Readers \ {r} : reader[q].kind # "direct"
  BY <1>1, DirectAlone DEF Refs
<1>7. items' = <<>> /\ base' \in 0..N /\ reads' \in Nat /\ maxReads' \in Nat \union {Unlimited}
  BY <1>1, NIsNat DEF Freed
<1> QED
  BY <1>1, <1>3, <1>4, <1>5, <1>6, <1>7, DrawDirectInv

LEMMA NextDirectInv ==
  ASSUME IInv, NEW r \in Readers, NextDirect(r)
  PROVE  IInv'
<1>1. /\ reader[r].kind = "direct" /\ DrawDirect(r, src)
      /\ UNCHANGED <<items, base, reads, maxReads, handle, quota>>
  BY DEF NextDirect
<1>2. Refs = {} /\ items = <<>> /\ \A q \in Readers \ {r} : reader[q].kind # "direct"
  BY <1>1, DirectAlone
<1>3. src \in src..N
  BY NIsNat DEF IInv, TypeOK
<1>4. \A h \in Handles : ~handle[h].impl
  BY <1>2 DEF Refs
<1>5. \A q \in Readers \ {r} : ~Buffered(q)
  BY <1>2 DEF Refs
<1>6. items' = <<>> /\ base' \in 0..N /\ reads' \in Nat /\ maxReads' \in Nat \union {Unlimited}
  BY <1>1, <1>2 DEF IInv, TypeOK
<1> QED
  BY <1>1, <1>2, <1>3, <1>4, <1>5, <1>6, DrawDirectInv

LEMMA NextEmptyInv ==
  ASSUME IInv, NEW r \in Readers, NextEmpty(r)
  PROVE  IInv'
<1>1. /\ UNCHANGED <<src, owner, items, base, reads, maxReads, handle, reader, quota>>
      /\ out' = <<r, End>>
  BY DEF NextEmpty
<1>2. Refs' = Refs
  BY <1>1 DEF Refs, Buffered
<1>3. TypeOK'
  BY <1>1 DEF IInv, TypeOK
<1> QED
  BY <1>1, <1>2, <1>3 DEF IInv, OneOwner, BufferIsStretch

LEMMA SkipInv ==
  ASSUME IInv, NEW r \in Readers, NEW k \in 1..MaxSkip, Skip(r, k)
  PROVE  IInv'
<1>1. /\ out' = Silent /\ k \in Nat
      /\ UNCHANGED <<items, base, reads, maxReads, handle, quota>>
  BY BoundsAssumption DEF Skip
<1>2. CASE Buffered(r)
  <2>1. /\ reader' = [reader EXCEPT ![r].pos = @ + k]
        /\ UNCHANGED <<src, owner>>
    BY <1>2 DEF Skip, Buffered
  <2>2. reader' \in [Readers -> [kind : Kinds, pos : Nat]]
    <3>1. reader \in [Readers -> [kind : Kinds, pos : Nat]]
      BY DEF IInv, TypeOK
    <3>2. reader[r].pos + k \in Nat
      BY <1>1, <3>1
    <3> QED
      BY <2>1, <3>1, <3>2
  <2>3. \A q \in Readers : reader'[q].kind = reader[q].kind
    BY <2>1 DEF IInv, TypeOK
  <2>4. Refs' = Refs
    BY <1>1, <2>3 DEF Refs, Buffered
  <2>5. TypeOK'
    BY <1>1, <2>1, <2>2 DEF IInv, TypeOK
  <2> QED
    BY <1>1, <2>1, <2>3, <2>4, <2>5 DEF IInv, OneOwner, BufferIsStretch
<1>3. CASE reader[r].kind = "direct"
  <2>1. /\ src' = Clip(src + k)
        /\ src + k <= N => UNCHANGED <<owner, reader>>
        /\ ~(src + k <= N) => owner' = "null" /\ reader' = [reader EXCEPT ![r] = Done]
    BY <1>3 DEF Skip, Buffered
  <2>2. src' \in 0..N
    BY <1>1, <2>1, NIsNat DEF Clip, IInv, TypeOK
  <2>3. owner = r /\ Refs = {} /\ items = <<>>
    BY <1>3, DirectAlone
  <2>4. CASE src + k <= N
    <3>1. TypeOK'
      BY <1>1, <2>1, <2>2, <2>4 DEF IInv, TypeOK
    <3>2. Refs' = {}
      BY <1>1, <2>1, <2>3, <2>4 DEF Refs, Buffered
    <3> QED
      BY <1>1, <2>1, <2>3, <2>4, <3>1, <3>2, NamesAssumption
      DEF IInv, OneOwner, BufferIsStretch
  <2>5. CASE ~(src + k <= N)
    <3>1. Done \in [kind : Kinds, pos : Nat]
      BY DEF Done, Kinds
    <3>2. TypeOK'
      BY <1>1, <2>1, <2>2, <2>5, <3>1 DEF IInv, TypeOK
    <3>3. /\ reader'[r] = Done
          /\ \A q \in Readers \ {r} : reader'[q] = reader[q]
      BY <2>1, <2>5 DEF IInv, TypeOK
    <3>4. Refs' = {}
      BY <1>1, <2>3, <3>3 DEF Refs, Buffered, Done
    <3>5. \A q \in Readers : reader'[q].kind # "direct" /\ owner' # q
      BY <1>3, <2>1, <2>5, <3>3, DirectAlone, NamesAssumption DEF Done
    <3> QED
      BY <1>1, <2>1, <2>3, <2>5, <3>2, <3>4, <3>5, NamesAssumption
      DEF IInv, OneOwner, BufferIsStretch
  <2> QED
    BY <2>4, <2>5
<1>4. CASE reader[r].kind = "done"
  <2>1. UNCHANGED <<src, owner, reader>>
    BY <1>4 DEF Skip, Buffered
  <2>2. Refs' = Refs
    BY <1>1, <2>1 DEF Refs, Buffered
  <2>3. TypeOK'
    BY <1>1, <2>1 DEF IInv, TypeOK
  <2> QED
    BY <1>1, <2>1, <2>2, <2>3 DEF IInv, OneOwner, BufferIsStretch
<1> QED
  BY <1>2, <1>3, <1>4 DEF Skip

\* Releasing a reference: the same step whoever held it.  refs are the
\* references that are left.
LEMMA ReleaseInv ==
  ASSUME IInv, NEW refs, Release(refs), refs = Refs', refs # {} => Refs # {},
         UNCHANGED src, out' = Silent,
         handle' \in [Handles -> [impl : BOOLEAN, start : Nat]],
         reader' \in [Readers -> [kind : Kinds, pos : Nat]],
         quota' \in [Handles -> Nat \union {Unlimited}],
         \A q \in Readers : reader'[q].kind = "direct" <=> reader[q].kind = "direct"
  PROVE  IInv'
<1>1. CASE refs = {}
  <2>1. /\ items' = <<>> /\ base' = 0 /\ reads' = 0 /\ maxReads' = Unlimited
        /\ owner' = IF owner = "impl" THEN "null" ELSE owner
    BY <1>1 DEF Release, Freed
  <2>2. items' \in Seq(Items)
    BY <2>1, EmptySeq
  <2>3. TypeOK'
    BY <2>1, <2>2, NIsNat DEF IInv, TypeOK
  <2>4. \A q \in Readers : owner' = q <=> owner = q
    BY <2>1, NamesAssumption
  <2>5. OneOwner'
    <3>1. Refs' = {} /\ owner' # "impl"
      BY <1>1, <2>1
    <3>2. \A q \in Readers : reader'[q].kind = "direct" <=> owner' = q
      BY <2>4 DEF IInv, OneOwner
    <3> QED
      BY <3>1, <3>2 DEF OneOwner
  <2>6. BufferIsStretch'
    BY <1>1, <2>1 DEF BufferIsStretch
  <2> QED
    BY <2>3, <2>5, <2>6 DEF IInv
<1>2. CASE refs # {}
  <2>1. UNCHANGED <<owner, items, base, reads, maxReads>> /\ Refs # {} /\ Refs' # {}
    BY <1>2 DEF Release
  <2>2. TypeOK'
    BY <2>1 DEF IInv, TypeOK
  <2> QED
    BY <2>1, <2>2 DEF IInv, OneOwner, BufferIsStretch
<1> QED
  BY <1>1, <1>2

LEMMA ToResultBufferInv ==
  ASSUME IInv, NEW r \in Readers, NEW h \in Handles, NEW c \in ReadCounts,
         ToResultBuffer(r, h, c)
  PROVE  IInv'
<1>1. /\ quota' = [quota EXCEPT ![h] = c]
      /\ reader' = [reader EXCEPT ![r] = NoReader]
      /\ out' = Silent /\ UNCHANGED src
      /\ c \in Nat \union {Unlimited}
  BY ReadCountsAssumption DEF ToResultBuffer
<1>2. /\ reader' \in [Readers -> [kind : Kinds, pos : Nat]]
      /\ reader'[r].kind = "none"
      /\ \A q \in Readers \ {r} : reader'[q] = reader[q]
  <2>1. NoReader \in [kind : Kinds, pos : Nat] /\ NoReader.kind = "none"
    BY DEF NoReader, Kinds
  <2> QED
    BY <1>1, <2>1 DEF IInv, TypeOK
<1>3. quota' \in [Handles -> Nat \union {Unlimited}]
  BY <1>1 DEF IInv, TypeOK
<1>4. h \notin Readers /\ r \notin Handles
  BY NamesAssumption
<1>5. CASE Buffered(r)
  <2>1. /\ maxReads' = Raised(c)
        /\ handle' = [handle EXCEPT ![h] = [impl |-> TRUE, start |-> reader[r].pos]]
        /\ UNCHANGED <<owner, items, base, reads>>
    BY <1>5 DEF ToResultBuffer, Buffered
  <2>2. reader[r].pos \in Nat /\ maxReads' \in Nat \union {Unlimited}
    BY <1>1, <2>1 DEF Raised, IInv, TypeOK
  <2>3. /\ handle' \in [Handles -> [impl : BOOLEAN, start : Nat]]
        /\ handle'[h].impl
    BY <2>1, <2>2 DEF IInv, TypeOK
  <2>4. TypeOK'
    BY <1>1, <1>2, <1>3, <2>1, <2>2, <2>3 DEF IInv, TypeOK
  <2>5. Refs # {} /\ Refs' # {}
    BY <1>5, <2>3 DEF Refs
  <2>6. \A q \in Readers : reader'[q].kind = "direct" <=> owner' = q
    BY <1>2, <1>5, <2>1 DEF IInv, OneOwner, Buffered
  <2> QED
    BY <1>1, <2>1, <2>4, <2>5, <2>6 DEF IInv, OneOwner, BufferIsStretch
<1>6. CASE reader[r].kind = "direct"
  <2>1. /\ owner' = "impl" /\ items' = <<>> /\ base' = src /\ reads' = 0 /\ maxReads' = c
        /\ handle' = [handle EXCEPT ![h] = [impl |-> TRUE, start |-> 0]]
    BY <1>6 DEF ToResultBuffer, Buffered
  <2>2. /\ handle' \in [Handles -> [impl : BOOLEAN, start : Nat]]
        /\ handle'[h].impl
    BY <2>1 DEF IInv, TypeOK
  <2>3. items' \in Seq(Items)
    BY <2>1, EmptySeq
  <2>4. TypeOK'
    BY <1>1, <1>2, <1>3, <2>1, <2>2, <2>3 DEF IInv, TypeOK
  <2>5. Refs' # {}
    BY <2>2 DEF Refs
  <2>6. \A q \in Readers : reader'[q].kind # "direct" /\ owner' # q
    BY <1>2, <1>6, <2>1, DirectAlone, NamesAssumption
  <2>7. OneOwner'
    BY <2>1, <2>5, <2>6, NamesAssumption DEF OneOwner
  <2>8. items' = SubSeq(Source, base' + 1, src') /\ base' <= src'
    BY <1>1, <2>1, EmptyStretch, NIsNat DEF IInv, TypeOK
  <2>9. BufferIsStretch'
    BY <2>1, <2>5, <2>8 DEF BufferIsStretch
  <2> QED
    BY <2>4, <2>7, <2>9 DEF IInv
<1>7. CASE reader[r].kind = "done"
  <2>1. handle' = [handle EXCEPT ![h] = NoImpl] /\ Release(Refs \ {h})
    BY <1>7 DEF ToResultBuffer, Buffered
  <2>2. /\ handle' \in [Handles -> [impl : BOOLEAN, start : Nat]]
        /\ ~handle'[h].impl
        /\ \A g \in Handles \ {h} : handle'[g] = handle[g]
    <3>1. NoImpl \in [impl : BOOLEAN, start : Nat] /\ ~NoImpl.impl
      BY DEF NoImpl
    <3> QED
      BY <2>1, <3>1 DEF IInv, TypeOK
  <2>3. Refs' = Refs \ {h}
    BY <1>2, <1>4, <1>7, <2>2 DEF Refs, Buffered
  <2>4. \A q \in Readers : reader'[q].kind = "direct" <=> reader[q].kind = "direct"
    BY <1>2, <1>7
  <2> QED
    BY <1>1, <1>2, <1>3, <2>1, <2>2, <2>3, <2>4, ReleaseInv
<1>8. reader[r].kind \in {"buffered", "direct", "done"}
  BY DEF ToResultBuffer, IInv, TypeOK, Kinds
<1> QED
  BY <1>5, <1>6, <1>7, <1>8 DEF Buffered

LEMMA CreateResultInv ==
  ASSUME IInv, NEW h \in Handles, NEW r \in Readers, CreateResult(h, r)
  PROVE  IInv'
<1>1. /\ reader[r] = NoReader /\ out' = Silent
      /\ quota[h] # 0 /\ quota' = [quota EXCEPT ![h] = IF @ = Unlimited THEN @ ELSE @ - 1]
      /\ UNCHANGED <<src, owner, items, base, maxReads>>
  BY DEF CreateResult
<1>2. quota' \in [Handles -> Nat \union {Unlimited}]
  BY <1>1 DEF IInv, TypeOK
<1>3. CASE ~handle[h].impl
  <2>1. reader' = [reader EXCEPT ![r] = Done] /\ UNCHANGED <<reads, handle>>
    BY <1>3 DEF CreateResult
  <2>2. Done \in [kind : Kinds, pos : Nat]
    BY DEF Done, Kinds
  <2>3. TypeOK'
    BY <1>1, <1>2, <2>1, <2>2 DEF IInv, TypeOK
  <2>4. /\ reader'[r] = Done
        /\ \A q \in Readers \ {r} : reader'[q] = reader[q]
    BY <2>1 DEF IInv, TypeOK
  <2>5. Refs' = Refs
    BY <1>1, <2>1, <2>4 DEF Refs, Buffered, Done, NoReader
  <2>6. \A q \in Readers : reader'[q].kind = "direct" <=> owner' = q
    BY <1>1, <2>4 DEF IInv, OneOwner, Done, NoReader
  <2> QED
    BY <1>1, <2>3, <2>5, <2>6 DEF IInv, OneOwner, BufferIsStretch
<1>4. CASE handle[h].impl
  <2>1. /\ reader' = [reader EXCEPT ![r] = [kind |-> "buffered", pos |-> handle[h].start]]
        /\ reads' \in {reads, reads + 1}
        /\ handle' \in {handle, [handle EXCEPT ![h] = NoImpl]}
    BY <1>4 DEF CreateResult
  <2>2. /\ reader' \in [Readers -> [kind : Kinds, pos : Nat]]
        /\ reader'[r].kind = "buffered"
        /\ \A q \in Readers \ {r} : reader'[q] = reader[q]
    <3>1. [kind |-> "buffered", pos |-> handle[h].start] \in [kind : Kinds, pos : Nat]
      BY DEF IInv, TypeOK, Kinds
    <3> QED
      BY <2>1, <3>1 DEF IInv, TypeOK
  <2>3. handle' \in [Handles -> [impl : BOOLEAN, start : Nat]]
    <3>1. NoImpl \in [impl : BOOLEAN, start : Nat]
      BY DEF NoImpl
    <3> QED
      BY <2>1, <3>1 DEF IInv, TypeOK
  <2>4. TypeOK'
    BY <1>1, <1>2, <2>1, <2>2, <2>3 DEF IInv, TypeOK
  <2>5. Refs # {} /\ Refs' # {}
    BY <1>4, <2>2 DEF Refs, Buffered
  <2>6. \A q \in Readers : reader'[q].kind = "direct" <=> owner' = q
    BY <1>1, <2>2 DEF IInv, OneOwner, NoReader
  <2> QED
    BY <1>1, <2>4, <2>5, <2>6 DEF IInv, OneOwner, BufferIsStretch
<1> QED
  BY <1>3, <1>4

LEMMA CopyHandleInv ==
  ASSUME IInv, NEW h \in Handles, NEW g \in Handles, CopyHandle(h, g)
  PROVE  IInv'
<1> DEFINE refs == (Refs \ {g}) \union (IF handle[h].impl THEN {g} ELSE {})
<1>1. /\ handle' = [handle EXCEPT ![g] = handle[h]]
      /\ quota' = [quota EXCEPT ![g] = Unlimited]
      /\ Release(refs) /\ out' = Silent /\ UNCHANGED <<src, reader>>
  BY DEF CopyHandle
<1>2. /\ handle' \in [Handles -> [impl : BOOLEAN, start : Nat]]
      /\ handle'[g].impl <=> handle[h].impl
      /\ \A f \in Handles \ {g} : handle'[f] = handle[f]
  BY <1>1 DEF IInv, TypeOK
<1>3. quota' \in [Handles -> Nat \union {Unlimited}]
  BY <1>1 DEF IInv, TypeOK
<1>4. refs = Refs'
  BY <1>1, <1>2, NamesAssumption DEF Refs, Buffered
<1>5. refs # {} => Refs # {}
  BY DEF Refs
<1>6. reader' \in [Readers -> [kind : Kinds, pos : Nat]]
  BY <1>1 DEF IInv, TypeOK
<1> HIDE DEF refs
<1> QED
  BY <1>1, <1>2, <1>3, <1>4, <1>5, <1>6, ReleaseInv

LEMMA DropReaderInv ==
  ASSUME IInv, NEW r \in Readers, DropReader(r)
  PROVE  IInv'
<1>1. /\ reader[r].kind # "none" /\ reader' = [reader EXCEPT ![r] = NoReader]
      /\ out' = Silent /\ UNCHANGED <<src, handle, quota>>
  BY DEF DropReader
<1>2. /\ reader' \in [Readers -> [kind : Kinds, pos : Nat]]
      /\ reader'[r].kind = "none"
      /\ \A q \in Readers \ {r} : reader'[q] = reader[q]
  <2>1. NoReader \in [kind : Kinds, pos : Nat] /\ NoReader.kind = "none"
    BY DEF NoReader, Kinds
  <2> QED
    BY <1>1, <2>1 DEF IInv, TypeOK
<1>3. Refs' = Refs \ {r}
  BY <1>1, <1>2, NamesAssumption DEF Refs, Buffered
<1>4. CASE reader[r].kind = "direct"
  <2>1. owner' = "null" /\ UNCHANGED <<items, base, reads, maxReads>>
    BY <1>4 DEF DropReader
  <2>2. Refs = {} /\ items = <<>> /\ \A q \in Readers : q # r => reader[q].kind # "direct"
    BY <1>4, DirectAlone
  <2>3. TypeOK'
    BY <1>1, <1>2, <2>1 DEF IInv, TypeOK
  <2>4. \A q \in Readers : reader'[q].kind # "direct" /\ owner' # q
    BY <1>2, <2>1, <2>2, NamesAssumption
  <2>5. Refs' = {}
    BY <1>3, <2>2
  <2> QED
    BY <2>1, <2>2, <2>3, <2>4, <2>5, NamesAssumption DEF IInv, OneOwner, BufferIsStretch
<1>5. CASE reader[r].kind # "direct"
  <2>1. Release(Refs \ {r})
    BY <1>5 DEF DropReader
  <2>2. \A q \in Readers : reader'[q].kind = "direct" <=> reader[q].kind = "direct"
    BY <1>2, <1>5
  <2>3. /\ handle' \in [Handles -> [impl : BOOLEAN, start : Nat]]
        /\ quota' \in [Handles -> Nat \union {Unlimited}]
    BY <1>1 DEF IInv, TypeOK
  <2> QED
    BY <1>1, <1>2, <1>3, <2>1, <2>2, <2>3, ReleaseInv
<1> QED
  BY <1>4, <1>5

LEMMA DropHandleInv ==
  ASSUME IInv, NEW h \in Handles, DropHandle(h)
  PROVE  IInv'
<1>1. /\ handle' = [handle EXCEPT ![h] = NoImpl] /\ quota' = [quota EXCEPT ![h] = 0]
      /\ Release(Refs \ {h}) /\ out' = Silent /\ UNCHANGED <<src, reader>>
  BY DEF DropHandle
<1>2. /\ handle' \in [Handles -> [impl : BOOLEAN, start : Nat]]
      /\ ~handle'[h].impl
      /\ \A g \in Handles \ {h} : handle'[g] = handle[g]
  <2>1. NoImpl \in [impl : BOOLEAN, start : Nat] /\ ~NoImpl.impl
    BY DEF NoImpl
  <2> QED
    BY <1>1, <2>1 DEF IInv, TypeOK
<1>3. quota' \in [Handles -> Nat \union {Unlimited}]
  BY <1>1 DEF IInv, TypeOK
<1>4. Refs \ {h} = Refs'
  BY <1>1, <1>2, NamesAssumption DEF Refs, Buffered
<1>5. reader' \in [Readers -> [kind : Kinds, pos : Nat]]
  BY <1>1 DEF IInv, TypeOK
<1> QED
  BY <1>1, <1>2, <1>3, <1>4, <1>5, ReleaseInv

LEMMA NextInv == IInv /\ [Next]_vars => IInv'
<1> SUFFICES ASSUME IInv, [Next]_vars PROVE IInv'
  OBVIOUS
<1>1. ASSUME NEW r \in Readers,
             NextShared(r) \/ NextDitch(r) \/ NextDirect(r) \/ NextEmpty(r) \/ DropReader(r)
      PROVE  IInv'
  BY <1>1, NextSharedInv, NextDitchInv, NextDirectInv, NextEmptyInv, DropReaderInv
<1>2. ASSUME NEW r \in Readers, NEW k \in 1..MaxSkip, Skip(r, k) PROVE IInv'
  BY <1>2, SkipInv
<1>3. ASSUME NEW r \in Readers, NEW h \in Handles, NEW c \in ReadCounts,
             ToResultBuffer(r, h, c)
      PROVE  IInv'
  BY <1>3, ToResultBufferInv
<1>4. ASSUME NEW h \in Handles, NEW r \in Readers, CreateResult(h, r) PROVE IInv'
  BY <1>4, CreateResultInv
<1>5. ASSUME NEW h \in Handles, NEW g \in Handles, CopyHandle(h, g) PROVE IInv'
  BY <1>5, CopyHandleInv
<1>6. ASSUME NEW h \in Handles, DropHandle(h) PROVE IInv'
  BY <1>6, DropHandleInv
<1>7. CASE UNCHANGED vars
  <2>1. Refs' = Refs
    BY <1>7 DEF vars, Refs, Buffered
  <2>2. TypeOK'
    BY <1>7 DEF vars, IInv, TypeOK
  <2> QED
    BY <1>7, <2>1, <2>2 DEF vars, IInv, OneOwner, BufferIsStretch
<1> QED
  BY <1>1, <1>2, <1>3, <1>4, <1>5, <1>6, <1>7 DEF Next

-----------------------------------------------------------------------------
(***************************************************************************)
(* Theorems                                                                *)
(***************************************************************************)

THEOREM Invariance == Spec => []IInv
<1>1. Init => IInv
  BY InitInv
<1>2. IInv /\ [Next]_vars => IInv'
  BY NextInv
<1> QED
  BY <1>1, <1>2, PTL DEF Spec

\* The state of the result buffer keeps its type, for every value, number of
\* variables and iterators, and all read counts.
THEOREM TypeCorrect == Spec => []TypeOK
<1>1. IInv => TypeOK
  BY DEF IInv
<1> QED
  BY <1>1, Invariance, PTL

\* The stream of the expression always has one owner, which agrees with who can
\* reach it, so nextOrTail never hands it to two iterators.
THEOREM StreamHasOneOwner == Spec => []OneOwner
<1>1. IInv => OneOwner
  BY DEF IInv
<1> QED
  BY <1>1, Invariance, PTL

\* A buffer somebody refers to holds exactly the stretch of the value drawn since
\* it was made, whatever order its users read, skip, bind and drop it in.
THEOREM BufferHoldsStretch == Spec => []BufferIsStretch
<1>1. IInv => BufferIsStretch
  BY DEF IInv
<1> QED
  BY <1>1, Invariance, PTL

-----------------------------------------------------------------------------
(***************************************************************************)
(* Read counts.  A buffer with a limit on its reads lets go of the handle  *)
(* that uses up the limit.  That this handle owes no further read follows  *)
(* from a fact about all handles: the buffer has reads left for everything *)
(* that is still owed.                                                     *)
(***************************************************************************)
LEMMA OwedPairs ==
  /\ \A x : x \in Owed <=> \E h \in Owing : \E i \in 1..quota[h] : x = <<h, i>>
  /\ \A x : x \in Owed' <=> \E h \in Owing' : \E i \in 1..quota'[h] : x = <<h, i>>
  BY DEF Owed

LEMMA ReadsOfOne ==
  ASSUME NEW h, NEW c \in Nat
  PROVE  IsFiniteSet({h} \X (1..c)) /\ Cardinality({h} \X (1..c)) = c
<1>1. IsFiniteSet({h}) /\ Cardinality({h}) = 1
  BY FS_Singleton
<1>2. IsFiniteSet(1..c) /\ Cardinality(1..c) = c
  BY FS_Interval
<1>3. /\ IsFiniteSet({h} \X (1..c))
      /\ Cardinality({h} \X (1..c)) = Cardinality({h}) * Cardinality(1..c)
  BY <1>1, <1>2, FS_Product
<1> QED
  BY <1>1, <1>2, <1>3

LEMMA NothingOwed == ASSUME maxReads' = Unlimited PROVE ReadsCovered'
  BY DEF ReadsCovered

\* A step that leaves the limit alone and adds nothing to what is owed.
LEMMA CoveredBySubset ==
  ASSUME IInv, ReadsCovered, maxReads' = maxReads, reads' = reads,
         \A h \in Owing' : h \in Owing /\ quota'[h] = quota[h]
  PROVE  ReadsCovered'
<1> SUFFICES ASSUME maxReads # Unlimited
             PROVE  /\ \A h \in Owing' : quota'[h] # Unlimited
                    /\ IsFiniteSet(Owed')
                    /\ Cardinality(Owed') <= maxReads - reads
  BY DEF ReadsCovered
<1>1. /\ \A h \in Owing : quota[h] # Unlimited
      /\ IsFiniteSet(Owed)
      /\ Cardinality(Owed) <= maxReads - reads
  BY DEF ReadsCovered
<1>2. Owed' \in SUBSET Owed
  BY OwedPairs
<1>3. IsFiniteSet(Owed') /\ Cardinality(Owed') <= Cardinality(Owed)
  BY <1>1, <1>2, FS_Subset
<1>4. maxReads - reads \in Int
  BY DEF IInv, TypeOK, Unlimited
<1>5. Cardinality(Owed) \in Nat /\ Cardinality(Owed') \in Nat
  BY <1>1, <1>3, FS_CardinalityType
<1> QED
  BY <1>1, <1>3, <1>4, <1>5

\* Releasing references: either the limit goes with the buffer, or it stays.
LEMMA ReleaseCovered ==
  ASSUME IInv, ReadsCovered, NEW refs, Release(refs),
         \A h \in Owing' : h \in Owing /\ quota'[h] = quota[h]
  PROVE  ReadsCovered'
<1>1. CASE refs = {}
  BY <1>1, NothingOwed DEF Release, Freed
<1>2. CASE refs # {}
  BY <1>2, CoveredBySubset DEF Release
<1> QED
  BY <1>1, <1>2

\* A handle is bound to the buffer: what it owes now replaces what it owed.
LEMMA BindCovered ==
  ASSUME IInv, ReadsCovered, NEW h \in Handles, NEW c \in Nat,
         maxReads # Unlimited, maxReads' = maxReads + c, reads' = reads,
         quota' = [quota EXCEPT ![h] = c],
         Owing' = Owing \union {h}
  PROVE  ReadsCovered'
<1>1. /\ \A g \in Owing : quota[g] # Unlimited
      /\ IsFiniteSet(Owed)
      /\ Cardinality(Owed) <= maxReads - reads
  BY DEF ReadsCovered
<1>2. /\ quota'[h] = c
      /\ \A g \in Handles \ {h} : quota'[g] = quota[g]
  BY DEF IInv, TypeOK
<1> DEFINE own == {h} \X (1..c)
<1>3. IsFiniteSet(own) /\ Cardinality(own) = c
  BY ReadsOfOne
<1>4. Owed' \in SUBSET (Owed \union own)
  <2> SUFFICES ASSUME NEW x \in Owed' PROVE x \in Owed \union own
    OBVIOUS
  <2>1. PICK g \in Owing' : \E i \in 1..quota'[g] : x = <<g, i>>
    BY OwedPairs
  <2>2. CASE g = h
    BY <1>2, <2>1, <2>2
  <2>3. CASE g # h
    <3>1. g \in Owing /\ quota'[g] = quota[g]
      BY <1>2, <2>3 DEF Owing
    <3> QED
      BY <2>1, <3>1, OwedPairs
  <2> QED
    BY <2>2, <2>3
<1> HIDE DEF own
<1>5. /\ IsFiniteSet(Owed \union own)
      /\ Cardinality(Owed \union own)
           = Cardinality(Owed) + Cardinality(own) - Cardinality(Owed \intersect own)
  BY <1>1, <1>3, FS_Union
<1>6. IsFiniteSet(Owed \intersect own)
  BY <1>1, FS_Intersection
<1>7. IsFiniteSet(Owed') /\ Cardinality(Owed') <= Cardinality(Owed \union own)
  BY <1>4, <1>5, FS_Subset
<1>8. /\ Cardinality(Owed) \in Nat /\ Cardinality(Owed') \in Nat
      /\ Cardinality(Owed \union own) \in Nat /\ Cardinality(Owed \intersect own) \in Nat
  BY <1>1, <1>5, <1>6, <1>7, FS_CardinalityType
<1>9. maxReads \in Nat /\ reads \in Nat
  BY DEF IInv, TypeOK
<1>10. Cardinality(Owed') <= maxReads' - reads'
  BY <1>1, <1>3, <1>5, <1>7, <1>8, <1>9
<1>11. \A g \in Owing' : quota'[g] # Unlimited
  BY <1>1, <1>2 DEF Owing, Unlimited
<1> QED
  BY <1>7, <1>10, <1>11 DEF ReadsCovered

\* A read of a handle: one read less is owed, and one less is left.
LEMMA ReadCovered ==
  ASSUME IInv, ReadsCovered, NEW h \in Handles, handle[h].impl, quota[h] # 0,
         maxReads # Unlimited, maxReads' = maxReads, reads' = reads + 1,
         quota' = [quota EXCEPT ![h] = quota[h] - 1],
         Owing' \subseteq Owing
  PROVE  ReadsCovered' /\ (reads + 1 >= maxReads => quota'[h] = 0)
<1>1. /\ \A g \in Owing : quota[g] # Unlimited
      /\ IsFiniteSet(Owed)
      /\ Cardinality(Owed) <= maxReads - reads
  BY DEF ReadsCovered
<1>2. h \in Owing /\ quota[h] \in Nat \ {0}
  BY <1>1 DEF Owing, IInv, TypeOK
<1>3. /\ quota'[h] = quota[h] - 1
      /\ \A g \in Handles \ {h} : quota'[g] = quota[g]
  BY DEF IInv, TypeOK
<1> DEFINE last == <<h, quota[h]>>
<1>4. last \in Owed
  BY <1>2, OwedPairs
<1>5. IsFiniteSet(Owed \ {last}) /\ Cardinality(Owed \ {last}) = Cardinality(Owed) - 1
  BY <1>1, <1>4, FS_RemoveElement
<1>6. Owed' \in SUBSET (Owed \ {last})
  <2> SUFFICES ASSUME NEW x \in Owed' PROVE x \in Owed /\ x # last
    OBVIOUS
  <2>1. PICK g \in Owing' : \E i \in 1..quota'[g] : x = <<g, i>>
    BY OwedPairs
  <2>2. PICK i \in 1..quota'[g] : x = <<g, i>>
    BY <2>1
  <2>3. g \in Owing /\ g \in Handles
    BY DEF Owing
  <2>4. CASE g = h
    <3>1. i \in 1..quota[h] /\ i # quota[h]
      BY <1>2, <1>3, <2>2, <2>4
    <3> QED
      BY <2>2, <2>3, <2>4, <3>1, OwedPairs
  <2>5. CASE g # h
    BY <1>3, <2>2, <2>3, <2>5, OwedPairs
  <2> QED
    BY <2>4, <2>5
<1> HIDE DEF last
<1>7. IsFiniteSet(Owed') /\ Cardinality(Owed') <= Cardinality(Owed \ {last})
  BY <1>5, <1>6, FS_Subset
<1>8. Cardinality(Owed) \in Nat /\ Cardinality(Owed') \in Nat /\ Cardinality(Owed \ {last}) \in Nat
  BY <1>1, <1>5, <1>7, FS_CardinalityType
<1>9. maxReads \in Nat /\ reads \in Nat
  BY DEF IInv, TypeOK
<1>10. Cardinality(Owed') <= maxReads' - reads'
  BY <1>1, <1>5, <1>7, <1>8, <1>9
<1>11. \A g \in Owing' : quota'[g] # Unlimited
  BY <1>1, <1>2, <1>3 DEF Owing, Unlimited
<1>12. ASSUME reads + 1 >= maxReads PROVE quota[h] = 1
  <2>1. Cardinality(Owed) = 1
    BY <1>1, <1>4, <1>8, <1>9, <1>12, FS_EmptySet
  <2>2. PICK x : Owed = {x}
    BY <1>1, <2>1, FS_Singleton
  <2>3. <<h, 1>> \in Owed /\ <<h, quota[h]>> \in Owed
    BY <1>2, OwedPairs
  <2> QED
    BY <2>2, <2>3
<1> QED
  BY <1>3, <1>7, <1>10, <1>11, <1>12 DEF ReadsCovered

-----------------------------------------------------------------------------
(***************************************************************************)
(* Where readers and handles stand in the value.                           *)
(***************************************************************************)
Inv == IInv /\ ReadsCovered

LEMMA PositionCases ==
  /\ \A q \in Readers :
       /\ reader[q].kind = "buffered" => Position(q) = Clip(base + reader[q].pos)
       /\ reader[q].kind = "direct" => Position(q) = src
       /\ reader[q].kind = "done" => Position(q) = N
       /\ reader[q].kind = "none" => Position(q) = -1
  /\ \A q \in Readers :
       /\ reader'[q].kind = "buffered" => Position(q)' = Clip(base' + reader'[q].pos)
       /\ reader'[q].kind = "direct" => Position(q)' = src'
       /\ reader'[q].kind = "done" => Position(q)' = N
       /\ reader'[q].kind = "none" => Position(q)' = -1
  BY DEF Position, Buffered, Clip, N

LEMMA OriginCases ==
  /\ \A h \in Handles :
       /\ quota[h] = 0 => Origin(h) = -1
       /\ quota[h] # 0 /\ handle[h].impl => Origin(h) = Clip(base + handle[h].start)
       /\ quota[h] # 0 /\ ~handle[h].impl => Origin(h) = N
  /\ \A h \in Handles :
       /\ quota'[h] = 0 => Origin(h)' = -1
       /\ quota'[h] # 0 /\ handle'[h].impl => Origin(h)' = Clip(base' + handle'[h].start)
       /\ quota'[h] # 0 /\ ~handle'[h].impl => Origin(h)' = N
  BY DEF Origin, Clip, N

LEMMA PositionType ==
  ASSUME IInv, NEW q \in Readers
  PROVE  /\ Position(q) \in 0..N \union {-1}
         /\ Position(q) = -1 <=> reader[q].kind = "none"
<1>1. /\ base \in Nat /\ src \in 0..N /\ reader[q].pos \in Nat
      /\ reader[q].kind \in {"none", "buffered", "direct", "done"}
  BY DEF IInv, TypeOK, Kinds
<1>2. base + reader[q].pos \in Nat /\ -1 \notin 0..N /\ N \in 0..N
  BY <1>1, NIsNat
<1> QED
  BY <1>1, <1>2, PositionCases, ClipType

\* What does not touch a reader, its buffer or its stream leaves it where it is.
LEMMA PositionKept ==
  ASSUME IInv, NEW q \in Readers, reader'[q] = reader[q],
         Buffered(q) => base' = base, reader[q].kind = "direct" => src' = src
  PROVE  Position(q)' = Position(q)
<1>1. reader[q].kind \in {"none", "buffered", "direct", "done"}
  BY DEF IInv, TypeOK, Kinds
<1> QED
  BY <1>1, PositionCases DEF Buffered

LEMMA OriginKept ==
  ASSUME IInv, NEW h \in Handles, handle'[h] = handle[h], quota'[h] = quota[h],
         handle[h].impl => base' = base
  PROVE  Origin(h)' = Origin(h)
  BY OriginCases DEF IInv, TypeOK

\* A step of LazyValue, from where it leaves readers and handles.
LEMMA ReadStep ==
  ASSUME NEW r \in Readers, Position(r) # -1, quota' = quota,
         \A q \in Readers \ {r} : Position(q)' = Position(q),
         \A h \in Handles : Origin(h)' = Origin(h),
         IF Position(r) < N
           THEN out' = <<r, Source[Position(r) + 1]>> /\ Position(r)' = Position(r) + 1
           ELSE out' = <<r, End>> /\ Position(r)' = Position(r)
  PROVE  Abs!Next
<1>1. Abs!Read(r)
  BY DEF Abs!Read, Abs!Absent, Abs!N, N
<1> QED
  BY <1>1 DEF Abs!Next

LEMMA PassStep ==
  ASSUME NEW r \in Readers, NEW k \in 1..MaxSkip, Position(r) # -1, quota' = quota,
         \A q \in Readers \ {r} : Position(q)' = Position(q),
         \A h \in Handles : Origin(h)' = Origin(h),
         Position(r)' = Clip(Position(r) + k), out' = Silent
  PROVE  Abs!Next
<1>1. Abs!Pass(r, k)
  BY DEF Abs!Pass, Abs!Absent, Abs!N, N, Abs!Clip, Clip, Abs!Silent, Silent
<1> QED
  BY <1>1 DEF Abs!Next

LEMMA BindStep ==
  ASSUME NEW r \in Readers, NEW h \in Handles, NEW c \in ReadCounts, Position(r) # -1,
         quota' = [quota EXCEPT ![h] = c],
         \A q \in Readers \ {r} : Position(q)' = Position(q), Position(r)' = -1,
         \A g \in Handles \ {h} : Origin(g)' = Origin(g), Origin(h)' = Position(r),
         out' = Silent
  PROVE  Abs!Next
<1>1. Abs!Bind(r, h, c)
  BY DEF Abs!Bind, Abs!Absent, Abs!Silent, Silent
<1> QED
  BY <1>1 DEF Abs!Next

LEMMA OpenStep ==
  ASSUME NEW h \in Handles, NEW r \in Readers, Origin(h) # -1, Position(r) = -1,
         quota' = [quota EXCEPT ![h] = IF @ = Unlimited THEN @ ELSE @ - 1],
         \A q \in Readers \ {r} : Position(q)' = Position(q), Position(r)' = Origin(h),
         \A g \in Handles \ {h} : Origin(g)' = Origin(g),
         Origin(h)' = IF quota[h] # Unlimited /\ quota[h] - 1 = 0 THEN -1 ELSE Origin(h),
         out' = Silent
  PROVE  Abs!Next
<1> DEFINE left == IF quota[h] = Unlimited THEN Unlimited ELSE quota[h] - 1
<1>1. quota' = [quota EXCEPT ![h] = left]
  OBVIOUS
<1>2. left = 0 <=> quota[h] # Unlimited /\ quota[h] - 1 = 0
  BY DEF Unlimited
<1> HIDE DEF left
<1>3. [g \in Handles |-> Origin(g)']
        = [[g \in Handles |-> Origin(g)] EXCEPT ![h] = IF left = 0 THEN -1 ELSE Origin(h)]
  BY <1>2
<1>4. [q \in Readers |-> Position(q)'] = [[q \in Readers |-> Position(q)] EXCEPT ![r] = Origin(h)]
  OBVIOUS
<1>5. Abs!Open(h, r)
  BY <1>1, <1>3, <1>4 DEF Abs!Open, Abs!Absent, Abs!Silent, Silent, Abs!Unlimited, Unlimited, left
<1> QED
  BY <1>5 DEF Abs!Next

LEMMA CopyStep ==
  ASSUME NEW h \in Handles, NEW g \in Handles, Origin(h) # -1, quota[h] = Unlimited,
         quota' = [quota EXCEPT ![g] = Unlimited],
         \A q \in Readers : Position(q)' = Position(q),
         \A f \in Handles \ {g} : Origin(f)' = Origin(f), Origin(g)' = Origin(h),
         out' = Silent
  PROVE  Abs!Next
<1>1. Abs!Copy(h, g)
  BY DEF Abs!Copy, Abs!Absent, Abs!Silent, Silent, Abs!Unlimited, Unlimited
<1> QED
  BY <1>1 DEF Abs!Next

LEMMA CloseStep ==
  ASSUME NEW r \in Readers, Position(r) # -1, quota' = quota,
         \A q \in Readers \ {r} : Position(q)' = Position(q), Position(r)' = -1,
         \A h \in Handles : Origin(h)' = Origin(h), out' = Silent
  PROVE  Abs!Next
<1>1. Abs!Close(r)
  BY DEF Abs!Close, Abs!Absent, Abs!Silent, Silent
<1> QED
  BY <1>1 DEF Abs!Next

LEMMA UnbindStep ==
  ASSUME NEW h \in Handles, quota' = [quota EXCEPT ![h] = 0],
         \A q \in Readers : Position(q)' = Position(q),
         \A g \in Handles \ {h} : Origin(g)' = Origin(g), Origin(h)' = -1,
         out' = Silent
  PROVE  Abs!Next
<1>1. Abs!Unbind(h)
  BY DEF Abs!Unbind, Abs!Absent, Abs!Silent, Silent
<1> QED
  BY <1>1 DEF Abs!Next

-----------------------------------------------------------------------------
(***************************************************************************)
(* One lemma per action: reads stay covered, and the action is a step of   *)
(* LazyValue.                                                              *)
(***************************************************************************)

LEMMA NextSharedStep ==
  ASSUME Inv, NEW r \in Readers, NextShared(r)
  PROVE  ReadsCovered' /\ Abs!Next
<1> DEFINE p == reader[r].pos
<1> USE DEF Inv
<1>1. /\ Buffered(r) /\ DrawTo(p) /\ p \in Nat /\ base \in 0..N
      /\ UNCHANGED <<base, reads, maxReads, handle, quota>>
  BY DEF NextShared, IInv, TypeOK
<1>2. Refs # {}
  BY <1>1 DEF Refs
<1>3. /\ p < Len(items') => items'[p + 1] = Source[base + p + 1]
      /\ p < Len(items') <=> base + p < N
  BY <1>1, <1>2, DrawToStretch
<1>4. ReadsCovered'
  BY <1>1, CoveredBySubset DEF Owing
<1>5. /\ reader \in [Readers -> [kind : Kinds, pos : Nat]]
      /\ \A q \in Readers : reader[q].kind # "direct"
  BY <1>2, NamesAssumption DEF IInv, TypeOK, OneOwner
<1>6. \A q \in Readers \ {r} : reader'[q] = reader[q]
  BY <1>5 DEF NextShared
<1>7. \A q \in Readers \ {r} : Position(q)' = Position(q)
  BY <1>1, <1>5, <1>6, PositionKept
<1>8. \A h \in Handles : Origin(h)' = Origin(h)
  BY <1>1, OriginKept
<1>9. Position(r) = Clip(base + p)
  BY <1>1, PositionCases DEF Buffered
<1>10. base + p \in Nat /\ base + p + 1 = base + (p + 1)
  BY <1>1, NIsNat
<1>11. CASE p < Len(items')
  <2>1. reader'[r] = [kind |-> "buffered", pos |-> p + 1] /\ out' = <<r, items'[p + 1]>>
    BY <1>1, <1>5, <1>11 DEF NextShared, Buffered
  <2>2. Position(r)' = Clip(base + (p + 1))
    BY <1>1, <2>1, PositionCases
  <2>3. Position(r) = base + p /\ Position(r)' = base + p + 1 /\ Position(r) < N
    BY <1>3, <1>9, <1>10, <1>11, <2>2, NIsNat DEF Clip
  <2>4. out' = <<r, Source[Position(r) + 1]>> /\ Position(r)' = Position(r) + 1 /\ Position(r) # -1
    BY <1>3, <1>10, <1>11, <2>1, <2>3
  <2> QED
    BY <1>1, <1>4, <1>7, <1>8, <2>3, <2>4, ReadStep
<1>12. CASE ~(p < Len(items'))
  <2>1. reader'[r] = Done /\ out' = <<r, End>>
    BY <1>1, <1>5, <1>12 DEF NextShared
  <2>2. Position(r)' = N
    BY <2>1, PositionCases DEF Done
  <2>3. Position(r) = N
    BY <1>3, <1>9, <1>10, <1>12, NIsNat DEF Clip
  <2>4. ~(Position(r) < N) /\ Position(r) # -1
    BY <2>3, NIsNat
  <2> QED
    BY <1>1, <1>4, <1>7, <1>8, <2>1, <2>2, <2>3, <2>4, ReadStep
<1> QED
  BY <1>11, <1>12

\* Whoever draws from the stream itself stands where the stream stands.
LEMMA DrawDirectStep ==
  ASSUME IInv, NEW r \in Readers, NEW at \in 0..N, DrawDirect(r, at), Position(r) = at,
         \A q \in Readers \ {r} : reader[q].kind \notin {"buffered", "direct"},
         UNCHANGED <<handle, quota>>, \A h \in Handles : ~handle[h].impl
  PROVE  Abs!Next
<1>1. reader \in [Readers -> [kind : Kinds, pos : Nat]]
  BY DEF IInv, TypeOK
<1>2. \A q \in Readers \ {r} : reader'[q] = reader[q]
  BY <1>1 DEF DrawDirect
<1>3. \A q \in Readers \ {r} : Position(q)' = Position(q)
  BY <1>2, PositionKept DEF Buffered
<1>4. \A h \in Handles : Origin(h)' = Origin(h)
  BY OriginKept
<1>5. Position(r) # -1
  BY NIsNat
<1>6. CASE at < N
  <2>1. src' = at + 1 /\ reader'[r] = Direct /\ out' = <<r, Source[at + 1]>>
    BY <1>1, <1>6 DEF DrawDirect
  <2>2. Position(r)' = at + 1
    BY <2>1, PositionCases DEF Direct
  <2> QED
    BY <1>3, <1>4, <1>5, <1>6, <2>1, <2>2, ReadStep
<1>7. CASE ~(at < N)
  <2>1. reader'[r] = Done /\ out' = <<r, End>>
    BY <1>1, <1>7 DEF DrawDirect
  <2>2. Position(r)' = N /\ at = N
    BY <1>7, <2>1, PositionCases, NIsNat DEF Done
  <2> QED
    BY <1>3, <1>4, <1>5, <1>7, <2>1, <2>2, ReadStep
<1> QED
  BY <1>6, <1>7

LEMMA NextDitchStep ==
  ASSUME Inv, NEW r \in Readers, NextDitch(r)
  PROVE  ReadsCovered' /\ Abs!Next
<1> USE DEF Inv
<1> DEFINE at == Skipped(reader[r].pos - Len(items))
<1>1. /\ Buffered(r) /\ Refs = {r} /\ reader[r].pos >= Len(items)
      /\ DrawDirect(r, at) /\ Freed /\ UNCHANGED <<handle, quota>>
  BY DEF NextDitch, CaughtUpAlone
<1>2. ReadsCovered'
  BY <1>1, NothingOwed DEF Freed
<1>3. /\ Len(items) = src - base /\ src \in base..N /\ base \in 0..N /\ reader[r].pos \in Nat
      /\ owner = "null" => src = N
      /\ owner \in {"impl", "null"}
  BY <1>1, BufferLength DEF IInv, TypeOK, OneOwner, BufferIsStretch
<1>4. at = Clip(base + reader[r].pos) /\ at \in 0..N
  BY <1>1, <1>3, NIsNat, SMTT(30) DEF Skipped, Clip
<1>5. Position(r) = at
  BY <1>1, <1>4, PositionCases DEF Buffered
<1>6. \A q \in Readers \ {r} : reader[q].kind \notin {"buffered", "direct"}
  BY <1>1, DirectAlone DEF Refs, Buffered
<1>7. \A h \in Handles : ~handle[h].impl
  BY <1>1, NamesAssumption DEF Refs
<1> HIDE DEF at
<1> QED
  BY <1>1, <1>2, <1>4, <1>5, <1>6, <1>7, DrawDirectStep

LEMMA NextDirectStep ==
  ASSUME Inv, NEW r \in Readers, NextDirect(r)
  PROVE  ReadsCovered' /\ Abs!Next
<1> USE DEF Inv
<1>1. /\ reader[r].kind = "direct" /\ DrawDirect(r, src)
      /\ UNCHANGED <<items, base, reads, maxReads, handle, quota>>
  BY DEF NextDirect
<1>2. Refs = {} /\ \A q \in Readers \ {r} : reader[q].kind \notin {"buffered", "direct"}
  BY <1>1, DirectAlone DEF Refs, Buffered
<1>3. ReadsCovered'
  BY <1>1, CoveredBySubset DEF Owing
<1>4. src \in 0..N /\ Position(r) = src
  BY <1>1, PositionCases DEF IInv, TypeOK
<1>5. \A h \in Handles : ~handle[h].impl
  BY <1>2 DEF Refs
<1> QED
  BY <1>1, <1>2, <1>3, <1>4, <1>5, DrawDirectStep

LEMMA NextEmptyStep ==
  ASSUME Inv, NEW r \in Readers, NextEmpty(r)
  PROVE  ReadsCovered' /\ Abs!Next
<1> USE DEF Inv
<1>1. /\ UNCHANGED <<src, base, reads, maxReads, handle, reader, quota>>
      /\ reader[r].kind = "done" /\ out' = <<r, End>>
  BY DEF NextEmpty
<1>2. ReadsCovered'
  BY <1>1, CoveredBySubset DEF Owing
<1>3. /\ \A q \in Readers : Position(q)' = Position(q)
      /\ \A h \in Handles : Origin(h)' = Origin(h)
  BY <1>1, PositionKept, OriginKept
<1>4. Position(r) = N /\ ~(N < N) /\ N # -1
  BY <1>1, PositionCases, NIsNat
<1> QED
  BY <1>1, <1>2, <1>3, <1>4, ReadStep

LEMMA SkipStep ==
  ASSUME Inv, NEW r \in Readers, NEW k \in 1..MaxSkip, Skip(r, k)
  PROVE  ReadsCovered' /\ Abs!Next
<1> USE DEF Inv
<1>1. /\ out' = Silent /\ k \in Nat
      /\ UNCHANGED <<items, base, reads, maxReads, handle, quota>>
      /\ reader \in [Readers -> [kind : Kinds, pos : Nat]] /\ src \in 0..N /\ base \in 0..N
  BY BoundsAssumption DEF Skip, IInv, TypeOK
<1>2. ReadsCovered'
  BY <1>1, CoveredBySubset DEF Owing
<1>3. \A q \in Readers \ {r} : reader'[q] = reader[q]
  BY <1>1 DEF Skip
<1>4. \A h \in Handles : Origin(h)' = Origin(h)
  BY <1>1, OriginKept
<1>5. \A i \in Nat : Clip(i) # -1 /\ Clip(Clip(i) + k) = Clip(i + k)
  BY <1>1, NIsNat DEF Clip
<1>6. CASE Buffered(r)
  <2>1. /\ UNCHANGED src
        /\ reader'[r] = [kind |-> "buffered", pos |-> reader[r].pos + k]
    BY <1>1, <1>6 DEF Skip, Buffered
  <2>2. \A q \in Readers \ {r} : Position(q)' = Position(q)
    BY <1>1, <1>3, <2>1, PositionKept
  <2>3. base + reader[r].pos \in Nat /\ base + (reader[r].pos + k) = base + reader[r].pos + k
    BY <1>1, NIsNat
  <2>4. Position(r) = Clip(base + reader[r].pos) /\ Position(r)' = Clip(base + reader[r].pos + k)
    BY <1>1, <1>6, <2>1, <2>3, PositionCases DEF Buffered
  <2> QED
    BY <1>1, <1>2, <1>4, <1>5, <2>2, <2>3, <2>4, PassStep
<1>7. CASE reader[r].kind = "direct"
  <2>1. /\ src' = Clip(src + k)
        /\ src + k <= N => reader' = reader
        /\ ~(src + k <= N) => reader'[r] = Done
    BY <1>1, <1>7 DEF Skip, Buffered
  <2>2. \A q \in Readers \ {r} : reader[q].kind # "direct"
    BY <1>7, DirectAlone
  <2>3. \A q \in Readers \ {r} : Position(q)' = Position(q)
    BY <1>1, <1>3, <2>2, PositionKept
  <2>4. Position(r) = src /\ src # -1
    BY <1>1, <1>7, PositionCases
  <2>5. Position(r)' = Clip(src + k)
    BY <1>1, <1>7, <2>1, PositionCases, NIsNat DEF Done, Clip
  <2> QED
    BY <1>1, <1>2, <1>4, <2>3, <2>4, <2>5, PassStep
<1>8. CASE reader[r].kind = "done"
  <2>1. UNCHANGED <<src, reader>>
    BY <1>8 DEF Skip, Buffered
  <2>2. \A q \in Readers : Position(q)' = Position(q)
    BY <1>1, <2>1, PositionKept
  <2>3. Position(r) = N /\ N # -1 /\ N = Clip(N + k)
    BY <1>1, <1>8, PositionCases, NIsNat DEF Clip
  <2> QED
    BY <1>1, <1>2, <1>4, <2>2, <2>3, PassStep
<1> QED
  BY <1>6, <1>7, <1>8 DEF Skip

\* Releasing a reference leaves every other reader and handle where it is: the
\* buffer is freed only when none of them refers to it.
LEMMA ReleaseKeeps ==
  ASSUME IInv, NEW refs, Release(refs), UNCHANGED src
  PROVE  /\ \A q \in Readers :
              reader'[q] = reader[q] /\ (Buffered(q) => q \in refs) => Position(q)' = Position(q)
         /\ \A h \in Handles :
              handle'[h] = handle[h] /\ quota'[h] = quota[h] /\ (handle[h].impl => h \in refs)
                => Origin(h)' = Origin(h)
<1>1. refs # {} => base' = base
  BY DEF Release
<1>2. ASSUME NEW q \in Readers, reader'[q] = reader[q], Buffered(q) => q \in refs
      PROVE  Position(q)' = Position(q)
  BY <1>1, <1>2, PositionKept
<1>3. ASSUME NEW h \in Handles, handle'[h] = handle[h], quota'[h] = quota[h],
             handle[h].impl => h \in refs
      PROVE  Origin(h)' = Origin(h)
  BY <1>1, <1>3, OriginKept
<1> QED
  BY <1>2, <1>3

LEMMA ToResultBufferStep ==
  ASSUME Inv, NEW r \in Readers, NEW h \in Handles, NEW c \in ReadCounts,
         ToResultBuffer(r, h, c)
  PROVE  ReadsCovered' /\ Abs!Next
<1> USE DEF Inv
<1>1. /\ quota' = [quota EXCEPT ![h] = c]
      /\ reader' = [reader EXCEPT ![r] = NoReader]
      /\ reader[r].kind # "none"
      /\ out' = Silent /\ UNCHANGED src
      /\ c \in (Nat \ {0}) \union {Unlimited}
  BY ReadCountsAssumption DEF ToResultBuffer
<1>2. /\ reader \in [Readers -> [kind : Kinds, pos : Nat]]
      /\ handle \in [Handles -> [impl : BOOLEAN, start : Nat]]
      /\ quota \in [Handles -> Nat \union {Unlimited}]
      /\ maxReads \in Nat \union {Unlimited}
      /\ src \in 0..N /\ base \in 0..N
  BY DEF IInv, TypeOK
<1>3. /\ \A q \in Readers \ {r} : reader'[q] = reader[q]
      /\ reader'[r] = NoReader
      /\ \A g \in Handles \ {h} : quota'[g] = quota[g]
      /\ quota'[h] = c /\ c # 0
  BY <1>1, <1>2 DEF Unlimited
<1>4. Position(r)' = -1 /\ Position(r) # -1
  BY <1>1, <1>3, PositionCases, PositionType DEF NoReader
<1>5. CASE Buffered(r)
  <2>1. /\ maxReads' = Raised(c)
        /\ handle' = [handle EXCEPT ![h] = [impl |-> TRUE, start |-> reader[r].pos]]
        /\ UNCHANGED <<owner, items, base, reads>>
    BY <1>5 DEF ToResultBuffer, Buffered
  <2>2. /\ handle'[h] = [impl |-> TRUE, start |-> reader[r].pos]
        /\ \A g \in Handles \ {h} : handle'[g] = handle[g]
    BY <1>2, <2>1
  <2>3. ReadsCovered'
    <3>1. CASE maxReads' = Unlimited
      BY <3>1, NothingOwed
    <3>2. CASE maxReads' # Unlimited
      <4>1. maxReads # Unlimited /\ c \in Nat /\ maxReads' = maxReads + c
        BY <1>1, <2>1, <3>2 DEF Raised
      <4>2. Owing' = Owing \union {h}
        BY <2>2 DEF Owing
      <4> QED
        BY <1>1, <2>1, <4>1, <4>2, BindCovered
    <3> QED
      BY <3>1, <3>2
  <2>4. \A q \in Readers \ {r} : Position(q)' = Position(q)
    BY <1>1, <1>3, <2>1, PositionKept
  <2>5. \A g \in Handles \ {h} : Origin(g)' = Origin(g)
    BY <1>3, <2>1, <2>2, OriginKept
  <2>6. Origin(h)' = Position(r)
    BY <1>3, <1>5, <2>1, <2>2, OriginCases, PositionCases DEF Buffered
  <2> QED
    BY <1>1, <1>4, <2>3, <2>4, <2>5, <2>6, BindStep
<1>6. CASE reader[r].kind = "direct"
  <2>1. /\ base' = src /\ reads' = 0 /\ maxReads' = c
        /\ handle' = [handle EXCEPT ![h] = [impl |-> TRUE, start |-> 0]]
    BY <1>6 DEF ToResultBuffer, Buffered
  <2>2. /\ handle'[h] = [impl |-> TRUE, start |-> 0]
        /\ \A g \in Handles \ {h} : handle'[g] = handle[g]
    BY <1>2, <2>1
  <2>3. Refs = {} /\ \A q \in Readers \ {r} : reader[q].kind # "direct"
    BY <1>6, DirectAlone
  <2>4. /\ \A q \in Readers : ~Buffered(q)
        /\ \A g \in Handles : ~handle[g].impl
    BY <2>3 DEF Refs
  <2>5. ReadsCovered'
    <3>1. CASE c = Unlimited
      BY <2>1, <3>1, NothingOwed
    <3>2. CASE c # Unlimited
      <4>1. Owing' = {h}
        BY <2>2, <2>4 DEF Owing
      <4>2. Owed' = {h} \X (1..c)
        <5>1. UNION {{g} \X (1..quota'[g]) : g \in {h}} = {h} \X (1..quota'[h])
          OBVIOUS
        <5> QED
          BY <1>3, <4>1, <5>1 DEF Owed
      <4>3. c \in Nat
        BY <1>1, <3>2
      <4>4. IsFiniteSet(Owed') /\ Cardinality(Owed') = c
        BY <4>2, <4>3, ReadsOfOne
      <4> QED
        BY <1>3, <2>1, <3>2, <4>1, <4>3, <4>4 DEF ReadsCovered
    <3> QED
      BY <3>1, <3>2
  <2>6. \A q \in Readers \ {r} : Position(q)' = Position(q)
    BY <1>1, <1>3, <2>4, PositionKept
  <2>7. \A g \in Handles \ {h} : Origin(g)' = Origin(g)
    BY <1>3, <2>2, <2>4, OriginKept
  <2>8. Origin(h)' = Clip(src) /\ Clip(src) = src /\ Position(r) = src
    <3>1. src + 0 = src /\ Clip(src) = src
      BY <1>2, NIsNat DEF Clip
    <3>2. Origin(h)' = Clip(base' + handle'[h].start)
      BY <1>3, <2>2, OriginCases
    <3>3. base' + handle'[h].start = src + 0
      BY <2>1, <2>2
    <3> QED
      BY <1>6, <3>1, <3>2, <3>3, PositionCases
  <2> QED
    BY <1>1, <1>4, <2>5, <2>6, <2>7, <2>8, BindStep
<1>7. CASE reader[r].kind = "done"
  <2>1. handle' = [handle EXCEPT ![h] = NoImpl] /\ Release(Refs \ {h})
    BY <1>7 DEF ToResultBuffer, Buffered
  <2>2. /\ ~handle'[h].impl
        /\ \A g \in Handles \ {h} : handle'[g] = handle[g]
    BY <1>2, <2>1 DEF NoImpl
  <2>3. ReadsCovered'
    BY <1>3, <2>1, <2>2, ReleaseCovered DEF Owing
  <2>4. \A q \in Readers \ {r} : Position(q)' = Position(q)
    <3>1. \A q \in Readers : Buffered(q) => q \in Refs \ {h}
      BY NamesAssumption DEF Refs
    <3> QED
      BY <1>1, <1>3, <2>1, <3>1, ReleaseKeeps
  <2>5. \A g \in Handles \ {h} : Origin(g)' = Origin(g)
    <3>1. \A g \in Handles \ {h} : handle[g].impl => g \in Refs \ {h}
      BY DEF Refs
    <3> QED
      BY <1>1, <1>3, <2>1, <2>2, <3>1, ReleaseKeeps
  <2>6. Origin(h)' = N /\ Position(r) = N
    BY <1>3, <1>7, <2>2, OriginCases, PositionCases
  <2> QED
    BY <1>1, <1>4, <2>3, <2>4, <2>5, <2>6, BindStep
<1>8. reader[r].kind \in {"buffered", "direct", "done"}
  BY <1>1, <1>2 DEF Kinds
<1> QED
  BY <1>5, <1>6, <1>7, <1>8 DEF Buffered

LEMMA CreateResultStep ==
  ASSUME Inv, NEW h \in Handles, NEW r \in Readers, CreateResult(h, r)
  PROVE  ReadsCovered' /\ Abs!Next
<1> USE DEF Inv
<1>1. /\ reader[r] = NoReader /\ quota[h] # 0
      /\ quota' = [quota EXCEPT ![h] = IF @ = Unlimited THEN @ ELSE @ - 1]
      /\ out' = Silent
      /\ UNCHANGED <<src, owner, items, base, maxReads>>
  BY DEF CreateResult
<1>2. /\ reader \in [Readers -> [kind : Kinds, pos : Nat]]
      /\ handle \in [Handles -> [impl : BOOLEAN, start : Nat]]
      /\ quota \in [Handles -> Nat \union {Unlimited}]
      /\ src \in 0..N /\ base \in 0..N
  BY DEF IInv, TypeOK
<1>3. /\ quota'[h] = IF quota[h] = Unlimited THEN Unlimited ELSE quota[h] - 1
      /\ \A g \in Handles \ {h} : quota'[g] = quota[g]
  BY <1>1, <1>2
<1>4. Position(r) = -1
  BY <1>1, PositionCases DEF NoReader
<1>5. quota'[h] = 0 <=> quota[h] # Unlimited /\ quota[h] - 1 = 0
  BY <1>1, <1>3 DEF Unlimited
<1>6. CASE ~handle[h].impl
  <2>1. reader' = [reader EXCEPT ![r] = Done] /\ UNCHANGED <<reads, handle>>
    BY <1>6 DEF CreateResult
  <2>2. reader'[r] = Done /\ \A q \in Readers \ {r} : reader'[q] = reader[q]
    BY <1>2, <2>1
  <2>3. ReadsCovered'
    BY <1>1, <1>3, <1>6, <2>1, CoveredBySubset DEF Owing
  <2>4. \A q \in Readers \ {r} : Position(q)' = Position(q)
    BY <1>1, <2>2, PositionKept
  <2>5. \A g \in Handles \ {h} : Origin(g)' = Origin(g)
    BY <1>1, <1>3, <2>1, OriginKept
  <2>6. Position(r)' = N /\ Origin(h) = N /\ N # -1
    BY <1>1, <1>6, <2>2, PositionCases, OriginCases, NIsNat DEF Done
  <2>7. Origin(h)' = IF quota'[h] = 0 THEN -1 ELSE N
    BY <1>6, <2>1, OriginCases
  <2> QED
    BY <1>1, <1>4, <1>5, <2>3, <2>4, <2>5, <2>6, <2>7, OpenStep
<1>7. CASE handle[h].impl
  <2>1. /\ reader' = [reader EXCEPT ![r] = [kind |-> "buffered", pos |-> handle[h].start]]
        /\ reads' = IF maxReads = Unlimited THEN reads ELSE reads + 1
        /\ handle' = IF LastRead THEN [handle EXCEPT ![h] = NoImpl] ELSE handle
    BY <1>7 DEF CreateResult
  <2>2. /\ reader'[r] = [kind |-> "buffered", pos |-> handle[h].start]
        /\ \A q \in Readers \ {r} : reader'[q] = reader[q]
    BY <1>2, <2>1
  <2>3. \A g \in Handles \ {h} : handle'[g] = handle[g]
    BY <1>2, <2>1
  <2>4. Owing' \subseteq Owing
    BY <1>2, <2>1, <2>3 DEF Owing, NoImpl
  <2>5. ReadsCovered' /\ (LastRead => quota'[h] = 0)
    <3>1. CASE maxReads = Unlimited
      BY <1>1, <3>1, NothingOwed DEF LastRead
    <3>2. CASE maxReads # Unlimited
      <4>1. quota[h] # Unlimited
        BY <1>7, <3>2 DEF ReadsCovered, Owing
      <4>2. quota' = [quota EXCEPT ![h] = quota[h] - 1]
        BY <1>1, <4>1
      <4> QED
        BY <1>1, <1>7, <2>1, <2>4, <3>2, <4>2, ReadCovered DEF LastRead
    <3> QED
      BY <3>1, <3>2
  <2>6. \A q \in Readers \ {r} : Position(q)' = Position(q)
    BY <1>1, <2>2, PositionKept
  <2>7. \A g \in Handles \ {h} : Origin(g)' = Origin(g)
    BY <1>1, <1>3, <2>3, OriginKept
  <2>8. Origin(h) = Clip(base + handle[h].start) /\ Position(r)' = Clip(base + handle[h].start)
    BY <1>1, <1>7, <2>2, OriginCases, PositionCases
  <2>9. Origin(h) # -1
    <3>1. base + handle[h].start \in Nat
      BY <1>2, NIsNat
    <3> QED
      BY <2>8, <3>1, ClipType, NIsNat
  <2>10. Origin(h)' = IF quota'[h] = 0 THEN -1 ELSE Origin(h)
    <3>1. CASE quota'[h] = 0
      BY <3>1, OriginCases
    <3>2. CASE quota'[h] # 0
      <4>1. handle' = handle
        BY <2>1, <2>5, <3>2
      <4> QED
        BY <1>1, <1>7, <2>8, <3>2, <4>1, OriginCases
    <3> QED
      BY <3>1, <3>2
  <2> QED
    BY <1>1, <1>4, <1>5, <2>5, <2>6, <2>7, <2>8, <2>9, <2>10, OpenStep
<1> QED
  BY <1>6, <1>7

LEMMA CopyHandleStep ==
  ASSUME Inv, NEW h \in Handles, NEW g \in Handles, CopyHandle(h, g)
  PROVE  ReadsCovered' /\ Abs!Next
<1> USE DEF Inv
<1> DEFINE refs == (Refs \ {g}) \union (IF handle[h].impl THEN {g} ELSE {})
<1>1. /\ handle' = [handle EXCEPT ![g] = handle[h]]
      /\ quota[h] = Unlimited /\ quota' = [quota EXCEPT ![g] = Unlimited]
      /\ Release(refs) /\ out' = Silent /\ UNCHANGED <<src, reader>>
  BY DEF CopyHandle
<1>2. /\ handle'[g] = handle[h] /\ quota'[g] = Unlimited
      /\ \A f \in Handles \ {g} : handle'[f] = handle[f] /\ quota'[f] = quota[f]
      /\ base \in 0..N /\ handle[h].start \in Nat /\ Unlimited # 0
  BY <1>1 DEF IInv, TypeOK, Unlimited
<1>3. handle[h].impl => base' = base /\ maxReads' = maxReads
  BY <1>1 DEF Release
<1>4. ReadsCovered'
  <2>1. CASE handle[h].impl
    <3>1. maxReads = Unlimited
      BY <1>1, <2>1 DEF ReadsCovered, Owing
    <3> QED
      BY <1>3, <2>1, <3>1, NothingOwed
  <2>2. CASE ~handle[h].impl
    <3>1. \A f \in Owing' : f \in Owing /\ quota'[f] = quota[f]
      BY <1>2, <2>2 DEF Owing
    <3> HIDE DEF refs
    <3> QED
      BY <1>1, <3>1, ReleaseCovered
  <2> QED
    BY <2>1, <2>2
<1>5. /\ \A q \in Readers : Buffered(q) => q \in refs
      /\ \A f \in Handles \ {g} : handle[f].impl => f \in refs
  BY NamesAssumption DEF Refs
<1> HIDE DEF refs
<1>6. \A q \in Readers : Position(q)' = Position(q)
  BY <1>1, <1>5, ReleaseKeeps
<1>7. \A f \in Handles \ {g} : Origin(f)' = Origin(f)
  BY <1>1, <1>2, <1>5, ReleaseKeeps
<1>8. Origin(g)' = Origin(h)
  BY <1>1, <1>2, <1>3, OriginCases
<1>9. Origin(h) # -1
  <2>1. base + handle[h].start \in Nat
    BY <1>2, NIsNat
  <2> QED
    BY <1>1, <1>2, <2>1, OriginCases, ClipType, NIsNat
<1> QED
  BY <1>1, <1>4, <1>6, <1>7, <1>8, <1>9, CopyStep

LEMMA DropReaderStep ==
  ASSUME Inv, NEW r \in Readers, DropReader(r)
  PROVE  ReadsCovered' /\ Abs!Next
<1> USE DEF Inv
<1>1. /\ reader[r].kind # "none" /\ reader' = [reader EXCEPT ![r] = NoReader]
      /\ out' = Silent /\ UNCHANGED <<src, handle, quota>>
  BY DEF DropReader
<1>2. reader'[r] = NoReader /\ \A q \in Readers \ {r} : reader'[q] = reader[q]
  BY <1>1 DEF IInv, TypeOK
<1>3. Position(r) # -1 /\ Position(r)' = -1
  BY <1>1, <1>2, PositionType, PositionCases DEF NoReader
<1>4. CASE reader[r].kind = "direct"
  <2>1. UNCHANGED <<items, base, reads, maxReads>>
    BY <1>4 DEF DropReader
  <2>2. ReadsCovered'
    BY <1>1, <2>1, CoveredBySubset DEF Owing
  <2>3. /\ \A q \in Readers \ {r} : Position(q)' = Position(q)
        /\ \A h \in Handles : Origin(h)' = Origin(h)
    BY <1>1, <1>2, <2>1, PositionKept, OriginKept
  <2> QED
    BY <1>1, <1>3, <2>2, <2>3, CloseStep
<1>5. CASE reader[r].kind # "direct"
  <2>1. Release(Refs \ {r})
    BY <1>5 DEF DropReader
  <2>2. ReadsCovered'
    BY <1>1, <2>1, ReleaseCovered DEF Owing
  <2>3. /\ \A q \in Readers \ {r} : Buffered(q) => q \in Refs \ {r}
        /\ \A h \in Handles : handle[h].impl => h \in Refs \ {r}
    BY NamesAssumption DEF Refs
  <2>4. /\ \A q \in Readers \ {r} : Position(q)' = Position(q)
        /\ \A h \in Handles : Origin(h)' = Origin(h)
    BY <1>1, <1>2, <2>1, <2>3, ReleaseKeeps
  <2> QED
    BY <1>1, <1>3, <2>2, <2>4, CloseStep
<1> QED
  BY <1>4, <1>5

LEMMA DropHandleStep ==
  ASSUME Inv, NEW h \in Handles, DropHandle(h)
  PROVE  ReadsCovered' /\ Abs!Next
<1> USE DEF Inv
<1>1. /\ handle' = [handle EXCEPT ![h] = NoImpl] /\ quota' = [quota EXCEPT ![h] = 0]
      /\ Release(Refs \ {h}) /\ out' = Silent /\ UNCHANGED <<src, reader>>
  BY DEF DropHandle
<1>2. /\ ~handle'[h].impl /\ quota'[h] = 0
      /\ \A g \in Handles \ {h} : handle'[g] = handle[g] /\ quota'[g] = quota[g]
  BY <1>1 DEF IInv, TypeOK, NoImpl
<1>3. ReadsCovered'
  BY <1>1, <1>2, ReleaseCovered DEF Owing
<1>4. /\ \A q \in Readers : Buffered(q) => q \in Refs \ {h}
      /\ \A g \in Handles \ {h} : handle[g].impl => g \in Refs \ {h}
  BY NamesAssumption DEF Refs
<1>5. /\ \A q \in Readers : Position(q)' = Position(q)
      /\ \A g \in Handles \ {h} : Origin(g)' = Origin(g)
  BY <1>1, <1>2, <1>4, ReleaseKeeps
<1>6. Origin(h)' = -1
  BY <1>2, OriginCases
<1> QED
  BY <1>1, <1>3, <1>5, <1>6, UnbindStep

-----------------------------------------------------------------------------
(***************************************************************************)
(* Theorems                                                                *)
(***************************************************************************)
LEMMA NextStep == Inv /\ [Next]_vars => Inv' /\ [Abs!Next]_(Abs!absvars)
<1> SUFFICES ASSUME Inv, [Next]_vars PROVE Inv' /\ [Abs!Next]_(Abs!absvars)
  OBVIOUS
<1>1. IInv'
  BY NextInv DEF Inv
<1>2. CASE Next
  <2>1. ReadsCovered' /\ Abs!Next
    BY <1>2, NextSharedStep, NextDitchStep, NextDirectStep, NextEmptyStep, SkipStep,
       ToResultBufferStep, CreateResultStep, CopyHandleStep, DropReaderStep, DropHandleStep
    DEF Next
  <2> QED
    BY <1>1, <2>1 DEF Inv
<1>3. CASE UNCHANGED vars
  <2>1. ReadsCovered'
    BY <1>3, CoveredBySubset DEF vars, Owing, Inv
  <2>2. /\ \A q \in Readers : Position(q)' = Position(q)
        /\ \A h \in Handles : Origin(h)' = Origin(h)
    BY <1>3, PositionKept, OriginKept DEF vars, Inv
  <2>3. UNCHANGED Abs!absvars
    BY <1>3, <2>2 DEF vars, Abs!absvars
  <2> QED
    BY <1>1, <2>1, <2>3 DEF Inv
<1> QED
  BY <1>2, <1>3

THEOREM RefinementInvariance == Spec => []Inv
<1>1. Init => Inv
  BY InitInv, NothingOwed DEF Inv, Init, ReadsCovered
<1>2. Inv /\ [Next]_vars => Inv'
  BY NextStep
<1> QED
  BY <1>1, <1>2, PTL DEF Spec

\* Sharing, dropping and unwrapping the buffer is invisible, for every value and
\* any number of variables and iterators: the result buffer implements LazyValue,
\* where each of them has the whole value to itself.
THEOREM ImplementsLazyValue == Spec => Refines
<1>1. Init => Abs!Init
  <2> SUFFICES ASSUME Init PROVE Abs!Init
    OBVIOUS
  <2>1. PICK r \in Readers : reader = [q \in Readers |-> IF q = r THEN Direct ELSE NoReader]
    BY DEF Init
  <2>2. \A q \in Readers : Position(q) = IF q = r THEN 0 ELSE -1
    BY <2>1, PositionCases DEF Init, Direct, NoReader
  <2>3. \A h \in Handles : Origin(h) = -1
    BY OriginCases DEF Init
  <2> QED
    BY <2>2, <2>3 DEF Init, Abs!Init, Abs!Absent, Abs!Silent, Silent
<1>2. Inv /\ [Next]_vars => [Abs!Next]_(Abs!absvars)
  BY NextStep
<1> QED
  BY <1>1, <1>2, RefinementInvariance, PTL DEF Spec, Refines, Abs!Spec

\* No call draws an item of the expression beyond what its caller has asked for.
THEOREM EvaluatesLazily == Spec => LazyEvaluation
<1>1. Inv /\ [Next]_vars => [Lazy]_vars
  <2> SUFFICES ASSUME Inv, Next, src' > src
               PROVE  \E r \in Readers : (out' # Silent => out'[1] = r) /\ Position(r)' >= src'
    BY DEF Lazy, vars
  <2>1. IInv' /\ src' \in 0..N
    BY NextInv DEF Inv, IInv, TypeOK
  <2>2. ASSUME NEW r \in Readers, NextShared(r)
        PROVE  out'[1] = r /\ Position(r)' >= src'
    <3>1. /\ Buffered(r) /\ DrawTo(reader[r].pos) /\ reader[r].pos \in Nat
          /\ reader \in [Readers -> [kind : Kinds, pos : Nat]] /\ base \in 0..N /\ base' = base
      BY <2>2 DEF NextShared, Inv, IInv, TypeOK
    <3>2. src' <= base + reader[r].pos + 1
      BY <3>1, DrawToStretch DEF Inv, Refs
    <3>3. CASE reader' = [reader EXCEPT ![r].pos = reader[r].pos + 1]
      <4>1. Position(r)' = Clip(base + (reader[r].pos + 1))
        BY <3>1, <3>3, PositionCases DEF Buffered
      <4>2. base + (reader[r].pos + 1) \in Nat
        BY <3>1, NIsNat
      <4> QED
        BY <2>1, <2>2, <3>1, <3>2, <4>1, <4>2, NIsNat DEF NextShared, Clip
    <3>4. CASE reader' = [reader EXCEPT ![r] = Done]
      <4>1. Position(r)' = N
        BY <3>1, <3>4, PositionCases DEF Done
      <4> QED
        BY <2>1, <2>2, <4>1, NIsNat DEF NextShared
    <3> QED
      BY <2>2, <3>3, <3>4 DEF NextShared
  <2>3. ASSUME NEW r \in Readers, NEW at, DrawDirect(r, at)
        PROVE  out'[1] = r /\ Position(r)' >= src'
    <3>1. reader'[r] = Direct \/ reader'[r] = Done
      BY <2>3 DEF DrawDirect, Inv, IInv, TypeOK
    <3>2. Position(r)' = src' \/ Position(r)' = N
      BY <3>1, PositionCases DEF Direct, Done
    <3> QED
      BY <2>1, <2>3, <3>2, NIsNat DEF DrawDirect
  <2>4. ASSUME NEW r \in Readers, NEW k \in 1..MaxSkip, Skip(r, k)
        PROVE  out' = Silent /\ Position(r)' >= src'
    <3>1. reader[r].kind = "direct" /\ (reader' = reader \/ reader'[r] = Done)
      BY <2>1, <2>4 DEF Skip, Inv, IInv, TypeOK
    <3>2. Position(r)' = src' \/ Position(r)' = N
      BY <3>1, PositionCases DEF Done
    <3> QED
      BY <2>1, <2>4, <3>2, NIsNat DEF Skip
  <2>5. \A r \in Readers, h \in Handles :
          ~CreateResult(h, r) /\ \A c \in ReadCounts : ~ToResultBuffer(r, h, c)
    BY <2>1 DEF CreateResult, ToResultBuffer
  <2>6. \A r \in Readers : ~NextEmpty(r) /\ ~DropReader(r)
    BY <2>1 DEF NextEmpty, DropReader
  <2>7. \A h \in Handles : ~DropHandle(h) /\ \A g \in Handles : ~CopyHandle(h, g)
    BY <2>1 DEF DropHandle, CopyHandle
  <2>8. PICK r \in Readers : NextShared(r) \/ NextDitch(r) \/ NextDirect(r) \/ \E k \in 1..MaxSkip : Skip(r, k)
    BY <2>5, <2>6, <2>7 DEF Next
  <2> QED
    BY <2>2, <2>3, <2>4, <2>8 DEF NextDitch, NextDirect
<1> QED
  BY <1>1, RefinementInvariance, PTL DEF Spec, LazyEvaluation

\* A buffer with a limit always has reads left for everything its variables may
\* still be read, so none of them is emptied while it owes a read.
THEOREM ReadsAreCovered == Spec => []ReadsCovered
<1>1. Inv => ReadsCovered
  BY DEF Inv
<1> QED
  BY <1>1, RefinementInvariance, PTL
=============================================================================
