---------------------------- MODULE ResultBuffer ----------------------------
(***************************************************************************)
(* The lazy result buffer of src/src/runtime: one ResultBufferImpl shared  *)
(* by ResultBuffer handles (variables, LetTuple, TupleImpl) and by the     *)
(* BufferedResults created from them, filled on demand from the Result of  *)
(* the expression.  Evaluation is single threaded: a step is one call on   *)
(* one of these objects.  Every Result that exists either reads the buffer *)
(* or owns the stream of the expression itself.                            *)
(***************************************************************************)
EXTENDS Integers, Sequences, FiniteSets

CONSTANTS
  Source,      \* the items the expression returns, in order
  End,         \* the null Item::Ptr that ends every sequence
  Handles,     \* ResultBuffer objects
  Readers,     \* Result objects
  ReadCounts,  \* the readCount arguments callers pass
  MaxSkip,     \* bound: the largest argument of skip()
  MaxPos,      \* bound: the furthest position skip() moves a reader to
  MaxReads     \* bound: the largest finite _maxReadCount

Unlimited == -1      \* UNLIMITED_COUNT, (unsigned int)-1
Silent == <<>>
N == Len(Source)
Items == {Source[i] : i \in DOMAIN Source}

ASSUME SourceAssumption == Source \in Seq(Items) /\ End \notin Items
ASSUME ReadCountsAssumption == ReadCounts \subseteq (Nat \ {0}) \union {Unlimited}
ASSUME BoundsAssumption == MaxSkip \in Nat /\ MaxPos \in Nat /\ MaxReads \in Nat
ASSUME NamesAssumption == /\ Handles \intersect Readers = {}
                          /\ {"impl", "null"} \intersect Readers = {}

VARIABLES
  src,       \* items drawn from the expression's Result so far
  owner,     \* who holds that Result: "impl", a reader, or "null"
  items,     \* ResultBufferImpl::_items
  base,      \* src when the ResultBufferImpl was created (history)
  reads,     \* ResultBufferImpl::_readCount
  maxReads,  \* ResultBufferImpl::_maxReadCount
  handle,    \* each ResultBuffer: does _impl point at the buffer, and _start
  reader,    \* each Result: its kind, and BufferedResult::_pos
  quota,     \* reads the owner of a handle may still make (history)
  out        \* what the last call returned

vars == <<src, owner, items, base, reads, maxReads, handle, reader, quota, out>>

Kinds == {"none", "buffered", "direct", "done"}

TypeOK ==
  /\ src \in 0..N
  /\ owner \in {"impl", "null"} \union Readers
  /\ items \in Seq(Items)
  /\ base \in 0..N
  /\ reads \in Nat
  /\ maxReads \in Nat \union {Unlimited}
  /\ handle \in [Handles -> [impl : BOOLEAN, start : Nat]]
  /\ reader \in [Readers -> [kind : Kinds, pos : Nat]]
  /\ quota \in [Handles -> Nat \union {Unlimited}]
  /\ out \in {Silent} \union (Readers \X (Items \union {End}))

NoReader == [kind |-> "none", pos |-> 0]
Direct == [kind |-> "direct", pos |-> 0]
Done == [kind |-> "done", pos |-> 0]
NoImpl == [impl |-> FALSE, start |-> 0]

Buffered(r) == reader[r].kind = "buffered"

\* The objects that hold a reference to the ResultBufferImpl.
Refs == {h \in Handles : handle[h].impl} \union {r \in Readers : Buffered(r)}

Clip(i) == IF i < N THEN i ELSE N

\* The expression's Result exists and has not been put in a buffer yet.
Init ==
  /\ \E r \in Readers :
       /\ owner = r
       /\ reader = [q \in Readers |-> IF q = r THEN Direct ELSE NoReader]
  /\ src = 0
  /\ items = <<>>
  /\ base = 0
  /\ reads = 0
  /\ maxReads = Unlimited
  /\ handle = [h \in Handles |-> NoImpl]
  /\ quota = [h \in Handles |-> 0]
  /\ out = Silent

(***************************************************************************)
(* The ResultBufferImpl dies with the last reference to it, and the Result *)
(* it still holds dies with it.                                            *)
(***************************************************************************)
Freed == items' = <<>> /\ base' = 0 /\ reads' = 0 /\ maxReads' = Unlimited

Release(refs) ==
  IF refs = {}
    THEN Freed /\ owner' = IF owner = "impl" THEN "null" ELSE owner
    ELSE UNCHANGED <<owner, items, base, reads, maxReads>>

\* Mutants: item() drawing one item too many, and dropping _result as soon as
\* it has drawn something.
Drawn_TooFar(index) ==
  IF owner = "impl" /\ index >= Len(items) THEN Clip(base + index + 2) ELSE src
DrawTo_DropsResult(index) ==
  /\ src' = IF owner = "impl" /\ index >= Len(items) THEN Clip(base + index + 1) ELSE src
  /\ items' = items \o SubSeq(Source, src + 1, src')
  /\ owner' = IF owner = "impl" /\ index >= Len(items) THEN "null" ELSE owner

(***************************************************************************)
(* ResultBufferImpl::item: draw from the stream until index is buffered or *)
(* the stream returns null, which sets _result to 0.                       *)
(***************************************************************************)
Drawn(index) ==
  IF owner = "impl" /\ index >= Len(items) THEN Clip(base + index + 1) ELSE src

DrawTo(index) ==
  /\ src' = Drawn(index)
  /\ items' = items \o SubSeq(Source, src + 1, Drawn(index))
  /\ owner' = IF owner = "impl" /\ base + index >= N THEN "null" ELSE owner

\* Mutant: the buffer given up while a variable still refers to it.
CaughtUpAlone_Shared(r) ==
  Refs \intersect Readers = {r} /\ reader[r].pos >= Len(items)

\* getRefCount() == 1 && _pos >= _items.size()
CaughtUpAlone(r) == Refs = {r} /\ reader[r].pos >= Len(items)

\* BufferedResult::nextOrTail: the buffer is shared, or still holds the item.
NextShared(r) ==
  LET p == reader[r].pos IN
  /\ Buffered(r)
  /\ ~CaughtUpAlone(r)
  /\ DrawTo(p)
  /\ IF p < Len(items')
       THEN /\ reader' = [reader EXCEPT ![r].pos = p + 1]
            /\ out' = <<r, items'[p + 1]>>
       ELSE /\ reader' = [reader EXCEPT ![r] = Done]
            /\ out' = <<r, End>>
  /\ UNCHANGED <<base, reads, maxReads, handle, quota>>

\* A reader that owns the stream: the next() of the expression's own Result.
DrawDirect(r, at) ==
  IF at < N
    THEN /\ src' = at + 1
         /\ owner' = r
         /\ reader' = [reader EXCEPT ![r] = Direct]
         /\ out' = <<r, Source[at + 1]>>
    ELSE /\ src' = N
         /\ owner' = "null"
         /\ reader' = [reader EXCEPT ![r] = Done]
         /\ out' = <<r, End>>

\* Mutant: the items skipped past the end of the buffer are not skipped.
Skipped_Forgotten(count) == IF owner = "impl" THEN src ELSE N

\* _result->skip(count): where the stream stands afterwards
Skipped(count) == IF owner = "impl" THEN Clip(src + count) ELSE N

\* BufferedResult::nextOrTail: the last reference has read everything that is
\* buffered, so the stream becomes its tail, the buffer is freed, and
\* ResultImpl::next goes on with the tail.
NextDitch(r) ==
  /\ Buffered(r)
  /\ CaughtUpAlone(r)
  /\ DrawDirect(r, Skipped(reader[r].pos - Len(items)))
  /\ Freed
  /\ UNCHANGED <<handle, quota>>

NextDirect(r) ==
  /\ reader[r].kind = "direct"
  /\ DrawDirect(r, src)
  /\ UNCHANGED <<items, base, reads, maxReads, handle, quota>>

\* A null Result answers through EmptyResult.
NextEmpty(r) ==
  /\ reader[r].kind = "done"
  /\ out' = <<r, End>>
  /\ UNCHANGED <<src, owner, items, base, reads, maxReads, handle, reader, quota>>

Skip(r, k) ==
  /\ out' = Silent
  /\ \/ /\ Buffered(r)
        /\ reader[r].pos + k <= MaxPos
        /\ reader' = [reader EXCEPT ![r].pos = @ + k]
        /\ UNCHANGED <<src, owner>>
     \/ /\ reader[r].kind = "direct"
        /\ src' = Clip(src + k)
        /\ IF src + k <= N THEN UNCHANGED <<owner, reader>>
                           ELSE /\ owner' = "null"
                                /\ reader' = [reader EXCEPT ![r] = Done]
     \/ /\ reader[r].kind = "done"
        /\ UNCHANGED <<src, owner, reader>>
  /\ UNCHANGED <<items, base, reads, maxReads, handle, quota>>

\* Mutants: UNLIMITED_COUNT is added like a number, and a limit is replaced.
Raised_Unchecked(c) == maxReads + c
Raised_Replaced(c) == IF maxReads = Unlimited THEN Unlimited ELSE c

\* increaseMaxReadCount
Raised(c) ==
  IF maxReads = Unlimited \/ c = Unlimited THEN Unlimited ELSE maxReads + c

(***************************************************************************)
(* handle = ResultBuffer(result, readCount): setVar, VarEntry, LetTuple    *)
(* and TupleImpl bind what a Result has not returned yet, and the Result   *)
(* is destroyed.  The old buffer of the handle, if any, is released last.  *)
(***************************************************************************)
ToResultBuffer(r, h, c) ==
  /\ reader[r].kind # "none"
  /\ \/ /\ Buffered(r)
        /\ Raised(c) <= MaxReads
        /\ maxReads' = Raised(c)
        /\ handle' = [handle EXCEPT ![h] = [impl |-> TRUE, start |-> reader[r].pos]]
        /\ UNCHANGED <<owner, items, base, reads>>
     \/ /\ reader[r].kind = "direct"
        /\ owner' = "impl"
        /\ items' = <<>>
        /\ base' = src
        /\ reads' = 0
        /\ maxReads' = c
        /\ handle' = [handle EXCEPT ![h] = [impl |-> TRUE, start |-> 0]]
     \/ /\ reader[r].kind = "done"
        /\ handle' = [handle EXCEPT ![h] = NoImpl]
        /\ Release(Refs \ {h})
  /\ quota' = [quota EXCEPT ![h] = c]
  /\ reader' = [reader EXCEPT ![r] = NoReader]
  /\ out' = Silent
  /\ UNCHANGED src

\* incrementReadCount() >= getMaxReadCount()
LastRead == maxReads # Unlimited /\ reads + 1 >= maxReads

(***************************************************************************)
(* ResultBuffer::createResult (VarStoreImpl::getVar).  A caller reads a    *)
(* handle at most as often as it declared when it created it.              *)
(***************************************************************************)
CreateResult(h, r) ==
  /\ reader[r] = NoReader
  /\ quota[h] # 0
  /\ quota' = [quota EXCEPT ![h] = IF @ = Unlimited THEN @ ELSE @ - 1]
  /\ IF ~handle[h].impl
       THEN /\ reader' = [reader EXCEPT ![r] = Done]
            /\ UNCHANGED <<reads, handle>>
       ELSE /\ reader' = [reader EXCEPT ![r] = [kind |-> "buffered", pos |-> handle[h].start]]
            /\ reads' = IF maxReads = Unlimited THEN reads ELSE reads + 1
            /\ handle' = IF LastRead THEN [handle EXCEPT ![h] = NoImpl] ELSE handle
  /\ out' = Silent
  /\ UNCHANGED <<src, owner, items, base, maxReads>>

\* VarStoreImpl's copy constructor copies the buffers of a store.  The stores
\* it is used on are closures, filled by cacheVariableStore with UNLIMITED_COUNT.
CopyHandle(h, g) ==
  /\ quota[h] = Unlimited
  /\ handle' = [handle EXCEPT ![g] = handle[h]]
  /\ quota' = [quota EXCEPT ![g] = Unlimited]
  /\ Release((Refs \ {g}) \union (IF handle[h].impl THEN {g} ELSE {}))
  /\ out' = Silent
  /\ UNCHANGED <<src, reader>>

DropReader(r) ==
  /\ reader[r].kind # "none"
  /\ reader' = [reader EXCEPT ![r] = NoReader]
  /\ IF reader[r].kind = "direct"
       THEN owner' = "null" /\ UNCHANGED <<items, base, reads, maxReads>>
       ELSE Release(Refs \ {r})
  /\ out' = Silent
  /\ UNCHANGED <<src, handle, quota>>

DropHandle(h) ==
  /\ handle[h].impl \/ quota[h] # 0
  /\ handle' = [handle EXCEPT ![h] = NoImpl]
  /\ quota' = [quota EXCEPT ![h] = 0]
  /\ Release(Refs \ {h})
  /\ out' = Silent
  /\ UNCHANGED <<src, reader>>

Next ==
  \/ \E r \in Readers : NextShared(r)
  \/ \E r \in Readers : NextDitch(r)
  \/ \E r \in Readers : NextDirect(r)
  \/ \E r \in Readers : NextEmpty(r)
  \/ \E r \in Readers, k \in 1..MaxSkip : Skip(r, k)
  \/ \E r \in Readers, h \in Handles, c \in ReadCounts : ToResultBuffer(r, h, c)
  \/ \E h \in Handles, r \in Readers : CreateResult(h, r)
  \/ \E h, g \in Handles : CopyHandle(h, g)
  \/ \E r \in Readers : DropReader(r)
  \/ \E h \in Handles : DropHandle(h)

Spec == Init /\ [][Next]_vars

-----------------------------------------------------------------------------
(***************************************************************************)
(* Properties                                                              *)
(***************************************************************************)

\* The items of the value that reader r has passed.
Position(r) ==
  CASE Buffered(r) -> Clip(base + reader[r].pos)
    [] reader[r].kind = "direct" -> src
    [] reader[r].kind = "done" -> N
    [] OTHER -> -1

\* A handle with reads left denotes a suffix of the value; one whose reads are
\* used up denotes nothing, and a null ResultBuffer is the empty sequence.
Origin(h) ==
  IF quota[h] = 0 THEN -1
  ELSE IF handle[h].impl THEN Clip(base + handle[h].start) ELSE N

Abs == INSTANCE LazyValue WITH cursor <- [r \in Readers |-> Position(r)],
                               origin <- [h \in Handles |-> Origin(h)]

\* Sharing, dropping and unwrapping the buffer is invisible: every variable and
\* every iterator behaves as if it had the whole value to itself, and a handle
\* is never emptied while it still owes a read (the read counting of
\* ResultBuffer::createResult and increaseMaxReadCount).
Refines == Abs!Spec

\* The expression's Result has one owner, and the owner agrees with who can
\* reach it: a reader that owns the stream shares it with no buffer, and the
\* buffer owns it only while somebody refers to the buffer.
OneOwner ==
  /\ \A r \in Readers : reader[r].kind = "direct" <=> owner = r
  /\ owner \in Readers => Refs = {}
  /\ owner = "impl" => Refs # {}

\* While anybody refers to it, the buffer holds exactly the stretch of the value
\* between its creation and what has been drawn, and gives up the stream only
\* when the value is exhausted.
BufferIsStretch ==
  /\ Refs # {} => items = SubSeq(Source, base + 1, src) /\ base <= src
  /\ Refs # {} /\ owner = "null" => src = N
  /\ Refs = {} => items = <<>>

\* Evaluation is lazy: no call draws an item of the expression beyond what the
\* caller that made it has asked for (ResultBufferImpl::item, skip).
Lazy ==
  src' > src => \E r \in Readers : /\ out' # Silent => out'[1] = r
                                   /\ Position(r)' >= src'
LazyEvaluation == [][Lazy]_vars

\* A buffer with a limit has reads left for all that its variables may still be
\* read, so that the read which uses up the limit, after which the variable lets
\* go of the buffer, is that variable's last (increaseMaxReadCount and
\* ResultBuffer::createResult: the limit and the count belong to the buffer, the
\* promises to its variables).
Owing == {h \in Handles : handle[h].impl}
Owed == UNION {{h} \X (1..quota[h]) : h \in Owing}

ReadsCovered ==
  maxReads # Unlimited => /\ \A h \in Owing : quota[h] # Unlimited
                          /\ IsFiniteSet(Owed)
                          /\ Cardinality(Owed) <= maxReads - reads
=============================================================================
