------------------------- MODULE UpdateFactory_proofs -------------------------
(***************************************************************************)
(* Proofs about UpdateFactory, for any trees, any contents and lists of    *)
(* any number of updates.                                                  *)
(***************************************************************************)
EXTENDS UpdateFactory, TLAPS, SequenceTheorems, WellFoundedInduction

-------------------------------------------------------------------------------
(***************************************************************************)
(* Numbers and sequences                                                   *)
(***************************************************************************)
LEMMA SmallestExists ==
  ASSUME NEW S, S \subseteq Nat, S # {}
  PROVE  \E x \in S : \A y \in S : x <= y
<1> DEFINE R == {ss \in Nat \X Nat : ss[1] < ss[2]}
<1>1. IsWellFoundedOn(R, Nat)
  BY NatLessThanWellFounded DEF OpToRel
<1>2. \A k, j \in Nat : k < j => <<k, j>> \in R
  OBVIOUS
<1> HIDE DEF R
<1>3. PICK x \in S : \A y \in S : ~(<<y, x>> \in R)
  BY <1>1, WFMin
<1>4. ASSUME NEW y \in S PROVE x <= y
  <2>1. x \in Nat /\ y \in Nat
    OBVIOUS
  <2>2. ~(y < x)
    BY <1>2, <1>3, <2>1
  <2> QED
    BY <2>1, <2>2
<1> QED
  BY <1>4

\* A set that contains every number up to n all of whose predecessors it contains.
LEMMA Upwards ==
  ASSUME NEW n \in Nat, NEW G,
         \A j \in 1..n : (\A k \in 1..j - 1 : k \in G) => j \in G
  PROVE  \A j \in 1..n : j \in G
<1> DEFINE Bad == {j \in 1..n : j \notin G}
<1>1. SUFFICES ASSUME Bad # {} PROVE FALSE
  OBVIOUS
<1>2. PICK j \in Bad : \A k \in Bad : j <= k
  <2>1. Bad \subseteq Nat
    OBVIOUS
  <2> QED
    BY <1>1, <2>1, SmallestExists
<1>3. ASSUME NEW k \in 1..j - 1 PROVE k \in G
  <2>1. k \in 1..n /\ ~(j <= k)
    OBVIOUS
  <2> QED
    BY <1>2, <2>1
<1> QED
  BY <1>3

\* The same from 0, one step at a time.
LEMMA StepByStep ==
  ASSUME NEW n \in Nat, NEW G, 0 \in G,
         \A j \in 1..n : j - 1 \in G => j \in G
  PROVE  \A j \in 0..n : j \in G
<1>1. ASSUME NEW j \in 1..n, \A k \in 1..j - 1 : k \in G PROVE j \in G
  <2>1. j - 1 = 0 \/ j - 1 \in 1..j - 1
    OBVIOUS
  <2> QED
    BY <1>1, <2>1
<1>2. \A j \in 1..n : j \in G
  BY <1>1, Upwards
<1>3. \A j \in 0..n : j = 0 \/ j \in 1..n
  OBVIOUS
<1> QED
  BY <1>2, <1>3

LEMMA SomewhereIn ==
  ASSUME NEW S, NEW s \in Seq(S), NEW x \in Range(s)
  PROVE  PlaceOf(x, s) \in 1..Len(s) /\ s[PlaceOf(x, s)] = x
<1>1. \E k \in DOMAIN s : s[k] = x
  BY DEF Range
<1> QED
  BY <1>1 DEF PlaceOf

LEMMA InsertAtIs ==
  ASSUME NEW S, NEW s \in Seq(S), NEW i \in 1..Len(s) + 1, NEW x \in S
  PROVE  /\ InsertAt(s, i, x) \in Seq(S)
         /\ Len(InsertAt(s, i, x)) = Len(s) + 1
         /\ \A j \in 1..Len(s) + 1 :
              InsertAt(s, i, x)[j] = IF j < i THEN s[j] ELSE IF j = i THEN x ELSE s[j - 1]
<1> DEFINE a == SubSeq(s, 1, i - 1)
           b == SubSeq(s, i, Len(s))
<1>0. Len(s) \in Nat /\ i \in Int /\ i - 1 \in Int
      /\ (\A j \in 1..i - 1 : s[j] \in S) /\ (\A j \in i..Len(s) : s[j] \in S)
  OBVIOUS
<1>1. a \in Seq(S) /\ Len(a) = i - 1 /\ \A j \in 1..i - 1 : a[j] = s[j]
  <2>1. /\ a \in Seq(S) /\ Len(a) = IF 1 <= i - 1 THEN i - 1 - 1 + 1 ELSE 0
        /\ \A j \in 1..i - 1 - 1 + 1 : a[j] = s[1 + j - 1]
    BY <1>0, SubSeqProperties, SMTT(60)
  <2> HIDE DEF a
  <2>2. Len(a) = i - 1
    BY <1>0, <2>1
  <2>3. ASSUME NEW j \in 1..i - 1 PROVE a[j] = s[j]
    <3>1. j \in 1..i - 1 - 1 + 1 /\ 1 + j - 1 = j
      BY <1>0
    <3> QED
      BY <2>1, <3>1
  <2> QED
    BY <2>1, <2>2, <2>3
<1>2. b \in Seq(S) /\ Len(b) = Len(s) + 1 - i /\ \A j \in 1..Len(s) + 1 - i : b[j] = s[i + j - 1]
  <2>1. /\ b \in Seq(S) /\ Len(b) = IF i <= Len(s) THEN Len(s) - i + 1 ELSE 0
        /\ \A j \in 1..Len(s) - i + 1 : b[j] = s[i + j - 1]
    BY <1>0, SubSeqProperties, SMTT(60)
  <2> HIDE DEF b
  <2>2. Len(b) = Len(s) + 1 - i
    BY <1>0, <2>1
  <2>3. ASSUME NEW j \in 1..Len(s) + 1 - i PROVE b[j] = s[i + j - 1]
    <3>1. j \in 1..Len(s) - i + 1
      BY <1>0
    <3> QED
      BY <2>1, <3>1
  <2> QED
    BY <2>1, <2>2, <2>3
<1>3. InsertAt(s, i, x) = (a \o <<x>>) \o b
  BY DEF InsertAt
<1> HIDE DEF a, b
<1>4. a \o <<x>> \in Seq(S) /\ Len(a \o <<x>>) = i /\ \A j \in 1..i : (a \o <<x>>)[j] = IF j < i THEN a[j] ELSE x
  <2>1. <<x>> \in Seq(S) /\ Len(<<x>>) = 1 /\ <<x>>[1] = x
    OBVIOUS
  <2>2. /\ a \o <<x>> \in Seq(S) /\ Len(a \o <<x>>) = Len(a) + Len(<<x>>)
        /\ \A j \in 1..Len(a) + Len(<<x>>) :
             (a \o <<x>>)[j] = IF j <= Len(a) THEN a[j] ELSE <<x>>[j - Len(a)]
    BY <1>1, <2>1, ConcatProperties
  <2> QED
    BY <1>1, <2>1, <2>2
<1> DEFINE c == a \o <<x>>
<1> HIDE DEF c
<1>8. c \in Seq(S) /\ Len(c) = i
  BY <1>4 DEF c
<1>9. /\ c \o b \in Seq(S) /\ Len(c \o b) = Len(c) + Len(b)
      /\ \A j \in 1..Len(c) + Len(b) : (c \o b)[j] = IF j <= Len(c) THEN c[j] ELSE b[j - Len(c)]
  BY <1>2, <1>8, ConcatProperties
<1>5. c \o b \in Seq(S) /\ Len(c \o b) = Len(s) + 1
  BY <1>0, <1>2, <1>8, <1>9
<1>6. \A j \in 1..Len(s) + 1 : (c \o b)[j] = IF j <= i THEN c[j] ELSE b[j - i]
  BY <1>0, <1>2, <1>8, <1>9
<1> DEFINE e == c \o b
<1>10. e \in Seq(S) /\ Len(e) = Len(s) + 1 /\ \A j \in 1..Len(s) + 1 : e[j] = IF j <= i THEN c[j] ELSE b[j - i]
  BY <1>5, <1>6
<1>11. \A j \in 1..i : c[j] = IF j < i THEN a[j] ELSE x
  BY <1>4 DEF c
<1>12. InsertAt(s, i, x) = e
  BY <1>3 DEF c
<1> HIDE DEF e
<1>7. ASSUME NEW j \in 1..Len(s) + 1
      PROVE  e[j] = IF j < i THEN s[j] ELSE IF j = i THEN x ELSE s[j - 1]
  <2>0. i \in Int /\ j \in Int
    BY <1>0
  <2>1. CASE j < i
    <3>1. j \in 1..i - 1 /\ j \in 1..i
      BY <2>0, <2>1
    <3>2. e[j] = s[j]
      BY <1>1, <1>10, <1>11, <2>0, <2>1, <3>1
    <3> QED
      BY <2>1, <3>2
  <2>2. CASE j = i
    BY <1>10, <1>11, <2>0, <2>2
  <2>3. CASE j > i
    <3>1. j - i \in 1..Len(s) + 1 - i /\ i + (j - i) - 1 = j - 1
      BY <1>0, <2>3
    <3>2. b[j - i] = s[j - 1]
      BY <1>2, <3>1
    <3>3. e[j] = s[j - 1]
      BY <1>10, <2>0, <2>3, <3>2
    <3> QED
      BY <2>0, <2>3, <3>3
  <2> QED
    BY <2>0, <2>1, <2>2, <2>3
<1> QED
  BY <1>7, <1>10, <1>12

\* What is inserted joins the elements, and each is there once if it was.
LEMMA InsertedIn ==
  ASSUME NEW S, NEW s \in Seq(S), NEW i \in 1..Len(s) + 1, NEW x \in S
  PROVE  /\ Range(InsertAt(s, i, x)) = Range(s) \cup {x}
         /\ IsInjective(s) /\ x \notin Range(s) => IsInjective(InsertAt(s, i, x))
<1> DEFINE t == InsertAt(s, i, x)
<1>0. Len(s) \in Nat /\ i \in Int /\ DOMAIN s = 1..Len(s)
  OBVIOUS
<1>7. /\ t \in Seq(S) /\ Len(t) = Len(s) + 1
      /\ \A j \in 1..Len(s) + 1 : t[j] = IF j < i THEN s[j] ELSE IF j = i THEN x ELSE s[j - 1]
  BY InsertAtIs
<1> HIDE DEF t
<1>1. /\ DOMAIN t = 1..Len(s) + 1
      /\ \A j \in 1..Len(s) + 1 : t[j] = IF j < i THEN s[j] ELSE IF j = i THEN x ELSE s[j - 1]
  BY <1>7
<1>2. Range(t) \subseteq Range(s) \cup {x}
  BY <1>0, <1>1 DEF Range
<1>3. ASSUME NEW k \in 1..Len(s) PROVE s[k] \in Range(t)
  <2>1. CASE k < i
    BY <1>0, <1>1, <2>1 DEF Range
  <2>2. CASE k >= i
    <3>1. k + 1 \in 1..Len(s) + 1 /\ t[k + 1] = s[k]
      BY <1>0, <1>1, <2>2
    <3> QED
      BY <1>0, <1>1, <3>1 DEF Range
  <2> QED
    BY <1>0, <2>1, <2>2
<1>4. x \in Range(t)
  <2>1. i \in DOMAIN t /\ t[i] = x
    BY <1>0, <1>1
  <2> QED
    BY <2>1 DEF Range
<1>5. Range(t) = Range(s) \cup {x}
  BY <1>2, <1>3, <1>4 DEF Range
<1>6. ASSUME IsInjective(s), x \notin Range(s) PROVE IsInjective(t)
  <2>1. \A k \in 1..Len(s) : s[k] # x
    BY <1>6 DEF Range
  <2>2. \A k, l \in 1..Len(s) : s[k] = s[l] => k = l
    BY <1>6 DEF IsInjective
  <2>3. ASSUME NEW k \in 1..Len(s) + 1, NEW l \in 1..Len(s) + 1, t[k] = t[l] PROVE k = l
    <3>1. CASE k < i /\ l < i
      BY <1>0, <1>1, <2>2, <2>3, <3>1
    <3>2. CASE k < i /\ l > i
      BY <1>0, <1>1, <2>2, <2>3, <3>2
    <3>3. CASE k > i /\ l < i
      BY <1>0, <1>1, <2>2, <2>3, <3>3
    <3>4. CASE k > i /\ l > i
      <4>1. k - 1 \in 1..Len(s) /\ l - 1 \in 1..Len(s) /\ t[k] = s[k - 1] /\ t[l] = s[l - 1]
        BY <1>0, <1>1, <3>4
      <4>2. k - 1 = l - 1
        BY <2>2, <2>3, <4>1
      <4> QED
        BY <1>0, <4>2
    <3>5. CASE k = i \/ l = i
      BY <1>0, <1>1, <2>1, <2>3, <3>5
    <3> QED
      BY <1>0, <3>1, <3>2, <3>3, <3>4, <3>5
  <2> QED
    BY <1>0, <1>1, <2>3 DEF IsInjective
<1> QED
  BY <1>5, <1>6 DEF t

LEMMA RemoveAtIs ==
  ASSUME NEW S, NEW s \in Seq(S), NEW i \in 1..Len(s)
  PROVE  /\ RemoveAt(s, i) \in Seq(S)
         /\ Len(RemoveAt(s, i)) = Len(s) - 1
         /\ \A j \in 1..Len(s) - 1 : RemoveAt(s, i)[j] = IF j < i THEN s[j] ELSE s[j + 1]
<1> DEFINE a == SubSeq(s, 1, i - 1)
           b == SubSeq(s, i + 1, Len(s))
<1>0. Len(s) \in Nat /\ i \in Int /\ i + 1 \in Int /\ i - 1 \in Int
      /\ (\A j \in 1..i - 1 : s[j] \in S) /\ (\A j \in i + 1..Len(s) : s[j] \in S)
  OBVIOUS
<1>1. a \in Seq(S) /\ Len(a) = i - 1 /\ \A j \in 1..i - 1 : a[j] = s[j]
  <2>1. /\ a \in Seq(S) /\ Len(a) = IF 1 <= i - 1 THEN i - 1 - 1 + 1 ELSE 0
        /\ \A j \in 1..i - 1 - 1 + 1 : a[j] = s[1 + j - 1]
    BY <1>0, SubSeqProperties, SMTT(60)
  <2> HIDE DEF a
  <2>2. Len(a) = i - 1
    BY <1>0, <2>1
  <2>3. ASSUME NEW j \in 1..i - 1 PROVE a[j] = s[j]
    <3>1. j \in 1..i - 1 - 1 + 1 /\ 1 + j - 1 = j
      BY <1>0
    <3> QED
      BY <2>1, <3>1
  <2> QED
    BY <2>1, <2>2, <2>3
<1>2. b \in Seq(S) /\ Len(b) = Len(s) - i /\ \A j \in 1..Len(s) - i : b[j] = s[i + j]
  <2>1. /\ b \in Seq(S) /\ Len(b) = IF i + 1 <= Len(s) THEN Len(s) - (i + 1) + 1 ELSE 0
        /\ \A j \in 1..Len(s) - (i + 1) + 1 : b[j] = s[i + 1 + j - 1]
    BY <1>0, SubSeqProperties, SMTT(60)
  <2> HIDE DEF b
  <2>2. Len(b) = Len(s) - i
    BY <1>0, <2>1
  <2>3. ASSUME NEW j \in 1..Len(s) - i PROVE b[j] = s[i + j]
    <3>1. j \in 1..Len(s) - (i + 1) + 1 /\ i + 1 + j - 1 = i + j
      BY <1>0
    <3> QED
      BY <2>1, <3>1
  <2> QED
    BY <2>1, <2>2, <2>3
<1>3. RemoveAt(s, i) = a \o b
  BY DEF RemoveAt
<1> HIDE DEF a, b
<1>7. /\ a \o b \in Seq(S) /\ Len(a \o b) = Len(a) + Len(b)
      /\ \A j \in 1..Len(a) + Len(b) : (a \o b)[j] = IF j <= Len(a) THEN a[j] ELSE b[j - Len(a)]
  BY <1>1, <1>2, ConcatProperties
<1>4. a \o b \in Seq(S) /\ Len(a \o b) = Len(s) - 1
  BY <1>0, <1>1, <1>2, <1>7
<1>5. \A j \in 1..Len(s) - 1 : (a \o b)[j] = IF j < i THEN a[j] ELSE b[j - (i - 1)]
  BY <1>0, <1>1, <1>2, <1>7
<1>6. \A j \in 1..Len(s) - 1 : (a \o b)[j] = IF j < i THEN s[j] ELSE s[j + 1]
  BY <1>1, <1>2, <1>5
<1> QED
  BY <1>3, <1>4, <1>6

LEMMA RemovedFrom ==
  ASSUME NEW S, NEW s \in Seq(S), NEW i \in 1..Len(s), IsInjective(s)
  PROVE  Range(RemoveAt(s, i)) = Range(s) \ {s[i]} /\ IsInjective(RemoveAt(s, i))
<1> DEFINE t == RemoveAt(s, i)
<1>0. Len(s) \in Nat /\ i \in Int /\ DOMAIN s = 1..Len(s)
  OBVIOUS
<1>7. /\ t \in Seq(S) /\ Len(t) = Len(s) - 1
      /\ \A j \in 1..Len(s) - 1 : t[j] = IF j < i THEN s[j] ELSE s[j + 1]
  BY RemoveAtIs
<1> HIDE DEF t
<1>1. /\ DOMAIN t = 1..Len(s) - 1
      /\ \A j \in 1..Len(s) - 1 : t[j] = IF j < i THEN s[j] ELSE s[j + 1]
  BY <1>7
<1>2. \A k, l \in 1..Len(s) : s[k] = s[l] => k = l
  BY DEF IsInjective
<1>3. Range(t) \subseteq Range(s) \ {s[i]}
  BY <1>0, <1>1, <1>2 DEF Range
<1>4. ASSUME NEW k \in 1..Len(s), k # i PROVE s[k] \in Range(t)
  <2>1. CASE k < i
    BY <1>0, <1>1, <2>1 DEF Range
  <2>2. CASE k > i
    <3>1. k - 1 \in 1..Len(s) - 1 /\ t[k - 1] = s[k]
      BY <1>0, <1>1, <2>2
    <3> QED
      BY <1>0, <1>1, <3>1 DEF Range
  <2> QED
    BY <1>0, <1>4, <2>1, <2>2
<1>5. Range(t) = Range(s) \ {s[i]}
  <2>1. ASSUME NEW y \in Range(s) \ {s[i]} PROVE y \in Range(t)
    <3>1. PICK k \in 1..Len(s) : s[k] = y
      BY <1>0 DEF Range
    <3> QED
      BY <1>4, <3>1
  <2> QED
    BY <1>3, <2>1
<1>6. ASSUME NEW k \in 1..Len(s) - 1, NEW l \in 1..Len(s) - 1, t[k] = t[l] PROVE k = l
  <2>1. k + 1 \in 1..Len(s) /\ l + 1 \in 1..Len(s) /\ k \in 1..Len(s) /\ l \in 1..Len(s)
    BY <1>0
  <2>2. CASE k < i /\ l < i
    BY <1>0, <1>1, <1>2, <1>6, <2>1, <2>2
  <2>3. CASE k < i /\ l >= i
    BY <1>0, <1>1, <1>2, <1>6, <2>1, <2>3
  <2>4. CASE k >= i /\ l < i
    BY <1>0, <1>1, <1>2, <1>6, <2>1, <2>4
  <2>5. CASE k >= i /\ l >= i
    BY <1>0, <1>1, <1>2, <1>6, <2>1, <2>5
  <2> QED
    BY <1>0, <2>1, <2>2, <2>3, <2>4, <2>5
<1> QED
  BY <1>0, <1>1, <1>5, <1>6 DEF IsInjective, t

-------------------------------------------------------------------------------
(***************************************************************************)
(* Ancestors and roots, where parents have the lower numbers               *)
(***************************************************************************)
ParentsFirst(d) == d \in Seq(Nodes) /\ \A n \in DOMAIN d : d[n].parent \in 0..n - 1

LEMMA ForestsParents == ASSUME NEW d, IsForest(d) PROVE ParentsFirst(d)
BY DEF IsForest, NodeOf, ParentsFirst

LEMMA NodesOf ==
  ASSUME NEW d, d \in Seq(Nodes)
  PROVE  Len(d) \in Nat /\ DOMAIN d = 1..Len(d) /\ \A n \in 1..Len(d) : d[n] \in Nodes
OBVIOUS

LEMMA SomeAncestry ==
  ASSUME NEW d, ParentsFirst(d)
  PROVE  \E g : g = [m \in 0..Len(d) |-> IF m = 0 THEN <<>> ELSE <<m>> \o g[d[m].parent]]
<1> DEFINE G == {n \in 0..Len(d) :
                   \E g : g = [m \in 0..n |-> IF m = 0 THEN <<>> ELSE <<m>> \o g[d[m].parent]]}
<1>0. Len(d) \in Nat /\ \A m \in 1..Len(d) : d[m].parent \in 0..m - 1
  BY NodesOf DEF ParentsFirst
<1>1. 0 \in G
  <2> DEFINE g == [m \in 0..0 |-> IF m = 0 THEN <<>> ELSE <<m>>]
  <2>1. g = [m \in 0..0 |-> IF m = 0 THEN <<>> ELSE <<m>> \o g[d[m].parent]]
    <3>1. \A m \in 0..0 : m = 0
      OBVIOUS
    <3> QED
      BY <3>1
  <2> HIDE DEF g
  <2> QED
    BY <1>0, <2>1
<1>2. ASSUME NEW n \in 1..Len(d), n - 1 \in G PROVE n \in G
  <2>1. PICK g : g = [m \in 0..n - 1 |-> IF m = 0 THEN <<>> ELSE <<m>> \o g[d[m].parent]]
    BY <1>2
  <2> DEFINE h == [m \in 0..n |-> IF m = n THEN <<n>> \o g[d[n].parent] ELSE g[m]]
  <2>2. \A m \in 0..n : h[m] = IF m = n THEN <<n>> \o g[d[n].parent] ELSE g[m]
    OBVIOUS
  <2>3. DOMAIN h = 0..n /\ h = [m \in 0..n |-> h[m]]
    OBVIOUS
  <2> HIDE DEF h
  <2>4. \A m \in 0..n - 1 : h[m] = g[m]
    BY <2>2
  <2>5. \A m \in 0..n : m # 0 => m \in 1..Len(d) /\ d[m].parent \in 0..n - 1 /\ d[m].parent \in 0..m - 1
    BY <1>0
  <2>6. \A m \in 0..n - 1 : g[m] = IF m = 0 THEN <<>> ELSE <<m>> \o g[d[m].parent]
    BY <2>1
  <2>7. \A m \in 0..n : m # 0 => h[d[m].parent] = g[d[m].parent]
    BY <2>4, <2>5
  <2>8. \A m \in 0..n : m = n \/ m \in 0..n - 1
    BY <1>0
  <2>9. ASSUME NEW m \in 0..n PROVE h[m] = IF m = 0 THEN <<>> ELSE <<m>> \o h[d[m].parent]
    <3>1. CASE m = n
      BY <2>2, <2>7, <3>1
    <3>2. CASE m \in 0..n - 1
      BY <2>4, <2>6, <2>7, <3>2
    <3> QED
      BY <2>8, <3>1, <3>2
  <2>10. h = [m \in 0..n |-> IF m = 0 THEN <<>> ELSE <<m>> \o h[d[m].parent]]
    BY <2>3, <2>9
  <2>11. n \in 0..Len(d)
    BY <1>0
  <2> QED
    BY <2>10, <2>11
<1> HIDE DEF G
<1>3. \A j \in 0..Len(d) : j \in G
  BY <1>0, <1>1, <1>2, StepByStep
<1>4. Len(d) \in 0..Len(d)
  BY <1>0
<1>5. Len(d) \in G
  BY <1>3, <1>4
<1> QED
  BY <1>5 DEF G

LEMMA AncestryIs ==
  ASSUME NEW d, ParentsFirst(d)
  PROVE  /\ Ancestry(d, 0) = <<>>
         /\ \A n \in 1..Len(d) : Ancestry(d, n) = <<n>> \o Ancestry(d, d[n].parent)
<1> DEFINE F(g) == [m \in 0..Len(d) |-> IF m = 0 THEN <<>> ELSE <<m>> \o g[d[m].parent]]
           up == CHOOSE g : g = F(g)
<1>0. Len(d) \in Nat /\ \A m \in 1..Len(d) : d[m].parent \in 0..m - 1
  BY NodesOf DEF ParentsFirst
<1>1. \E g : g = F(g)
  BY SomeAncestry
<1>2. \A n : Ancestry(d, n) = up[n]
  BY DEF Ancestry
<1> HIDE DEF F
<1>3. up = F(up)
  BY <1>1
<1> HIDE DEF up
<1>4. \A m \in 0..Len(d) : up[m] = IF m = 0 THEN <<>> ELSE <<m>> \o up[d[m].parent]
  BY <1>3 DEF F
<1>6. 0 \in 0..Len(d) /\ \A n \in 1..Len(d) : n \in 0..Len(d) /\ n # 0
  BY <1>0
<1>5. up[0] = <<>> /\ \A n \in 1..Len(d) : up[n] = <<n>> \o up[d[n].parent]
  BY <1>4, <1>6
<1> QED
  BY <1>2, <1>5

LEMMA AncestrySeq ==
  ASSUME NEW d, ParentsFirst(d)
  PROVE  \A n \in 0..Len(d) : Ancestry(d, n) \in Seq(1..Len(d))
<1> DEFINE G == {n \in 1..Len(d) : Ancestry(d, n) \in Seq(1..Len(d))}
<1>0. Len(d) \in Nat /\ \A m \in 1..Len(d) : d[m].parent \in 0..m - 1
  BY NodesOf DEF ParentsFirst
<1>1. Ancestry(d, 0) \in Seq(1..Len(d))
  <2>1. <<>> \in Seq(1..Len(d))
    OBVIOUS
  <2> QED
    BY <2>1, AncestryIs
<1>2. ASSUME NEW n \in 1..Len(d), \A k \in 1..n - 1 : k \in G PROVE n \in G
  <2>1. d[n].parent = 0 \/ d[n].parent \in 1..n - 1
    BY <1>0
  <2>2. Ancestry(d, d[n].parent) \in Seq(1..Len(d))
    BY <1>1, <1>2, <2>1
  <2>3. <<n>> \in Seq(1..Len(d))
    OBVIOUS
  <2>4. <<n>> \o Ancestry(d, d[n].parent) \in Seq(1..Len(d))
    BY <2>2, <2>3, ConcatProperties
  <2> QED
    BY <2>4, AncestryIs
<1> HIDE DEF G
<1>3. \A n \in 1..Len(d) : n \in G
  BY <1>0, <1>2, Upwards
<1>4. \A n \in 0..Len(d) : n = 0 \/ n \in 1..Len(d)
  BY <1>0
<1> QED
  BY <1>1, <1>3, <1>4 DEF G

\* A node's ancestors are the node, and then its parent's.
LEMMA AncestryOf ==
  ASSUME NEW d, ParentsFirst(d), NEW n \in 1..Len(d)
  PROVE  LET up == Ancestry(d, n)
             above == Ancestry(d, d[n].parent)
         IN /\ up \in Seq(1..Len(d)) /\ above \in Seq(1..Len(d))
            /\ Len(up) = Len(above) + 1 /\ up[1] = n
            /\ \A k \in 1..Len(above) : up[k + 1] = above[k]
<1> DEFINE up == Ancestry(d, n)
           above == Ancestry(d, d[n].parent)
<1>0. Len(d) \in Nat /\ d[n].parent \in 0..Len(d) /\ n \in 0..Len(d)
  <2>1. Len(d) \in Nat /\ d[n].parent \in 0..n - 1
    BY NodesOf DEF ParentsFirst
  <2> QED
    BY <2>1
<1>1. up = <<n>> \o above
  BY AncestryIs
<1>2. up \in Seq(1..Len(d)) /\ above \in Seq(1..Len(d))
  BY <1>0, AncestrySeq
<1>3. <<n>> \in Seq(1..Len(d)) /\ Len(<<n>>) = 1 /\ <<n>>[1] = n
  OBVIOUS
<1> HIDE DEF up, above
<1>4. /\ Len(<<n>> \o above) = Len(<<n>>) + Len(above)
      /\ \A i \in 1..Len(<<n>>) + Len(above) :
           (<<n>> \o above)[i] = IF i <= Len(<<n>>) THEN <<n>>[i] ELSE above[i - Len(<<n>>)]
  BY <1>2, <1>3, ConcatProperties
<1>5. Len(above) \in Nat
  BY <1>2
<1>6. Len(up) = 1 + Len(above) /\ \A i \in 1..1 + Len(above) : up[i] = IF i <= 1 THEN n ELSE above[i - 1]
  BY <1>1, <1>3, <1>4
<1>7. up[1] = n
  BY <1>5, <1>6
<1>8. ASSUME NEW k \in 1..Len(above) PROVE up[k + 1] = above[k]
  <2>1. k + 1 \in 1..1 + Len(above) /\ ~(k + 1 <= 1) /\ k + 1 - 1 = k
    BY <1>5
  <2> QED
    BY <1>6, <2>1
<1> QED
  BY <1>2, <1>5, <1>6, <1>7, <1>8 DEF up, above

LEMMA AboveIs ==
  ASSUME NEW d, ParentsFirst(d)
  PROVE  /\ Range(Ancestry(d, 0)) = {}
         /\ \A n \in 1..Len(d) : Range(Ancestry(d, n)) = {n} \cup Range(Ancestry(d, d[n].parent))
<1>1. Range(Ancestry(d, 0)) = {}
  BY AncestryIs DEF Range
<1>2. ASSUME NEW n \in 1..Len(d)
      PROVE  Range(Ancestry(d, n)) = {n} \cup Range(Ancestry(d, d[n].parent))
  <2> DEFINE up == Ancestry(d, n)
             above == Ancestry(d, d[n].parent)
  <2>1. /\ up \in Seq(1..Len(d)) /\ above \in Seq(1..Len(d))
        /\ Len(up) = Len(above) + 1 /\ up[1] = n
        /\ \A k \in 1..Len(above) : up[k + 1] = above[k]
    BY AncestryOf
  <2> HIDE DEF up, above
  <2>2. DOMAIN up = 1..Len(above) + 1 /\ DOMAIN above = 1..Len(above) /\ Len(above) \in Nat
    BY <2>1
  <2>3. ASSUME NEW k \in 1..Len(above) + 1 PROVE up[k] \in {n} \cup Range(above)
    <3>1. k = 1 \/ (k - 1 \in 1..Len(above) /\ k = (k - 1) + 1)
      BY <2>2
    <3>2. k = 1 \/ up[k] = above[k - 1]
      BY <2>1, <3>1
    <3> QED
      BY <2>1, <2>2, <3>1, <3>2 DEF Range
  <2>4. 1 \in DOMAIN up /\ \A k \in DOMAIN above : k + 1 \in DOMAIN up
    BY <2>2
  <2>5. {n} \cup Range(above) \subseteq Range(up)
    BY <2>1, <2>2, <2>4 DEF Range
  <2>6. Range(up) \subseteq {n} \cup Range(above)
    BY <2>2, <2>3 DEF Range
  <2> QED
    BY <2>5, <2>6 DEF up, above
<1> QED
  BY <1>1, <1>2

LEMMA RootIs ==
  ASSUME NEW d, ParentsFirst(d), NEW n \in 1..Len(d)
  PROVE  Root(d, n) = IF d[n].parent = 0 THEN n ELSE Root(d, d[n].parent)
<1> DEFINE up == Ancestry(d, n)
           above == Ancestry(d, d[n].parent)
<1>1. /\ up \in Seq(1..Len(d)) /\ above \in Seq(1..Len(d))
      /\ Len(up) = Len(above) + 1 /\ up[1] = n
      /\ \A k \in 1..Len(above) : up[k + 1] = above[k]
  BY AncestryOf
<1>2. Root(d, n) = up[Len(up)] /\ Root(d, d[n].parent) = above[Len(above)]
  BY DEF Root, Last
<1>3. CASE d[n].parent = 0
  <2>1. above = <<>>
    BY <1>3, AncestryIs
  <2> HIDE DEF up, above
  <2>2. Len(up) = 1
    BY <1>1, <2>1
  <2> QED
    BY <1>1, <1>2, <1>3, <2>2
<1>4. CASE d[n].parent # 0
  <2>1. d[n].parent \in 1..Len(d)
    <3>1. Len(d) \in Nat /\ d[n].parent \in 0..n - 1
      BY NodesOf DEF ParentsFirst
    <3> QED
      BY <1>4, <3>1
  <2>2. Len(above) = Len(Ancestry(d, d[d[n].parent].parent)) + 1 /\ Ancestry(d, d[d[n].parent].parent) \in Seq(1..Len(d))
    BY <2>1, AncestryOf
  <2> HIDE DEF up, above
  <2>3. Len(above) \in 1..Len(above)
    BY <2>2
  <2>4. up[Len(up)] = above[Len(above)]
    BY <1>1, <2>3
  <2> QED
    BY <1>2, <1>4, <2>4
<1> QED
  BY <1>3, <1>4

\* A set that contains the parents of its nodes contains their ancestors.
LEMMA UpwardClosed ==
  ASSUME NEW d, ParentsFirst(d), NEW K,
         \A n \in 1..Len(d) : n \in K /\ d[n].parent # 0 => d[n].parent \in K
  PROVE  \A n \in 1..Len(d) : n \in K => Range(Ancestry(d, n)) \subseteq K /\ Root(d, n) \in K
<1> DEFINE G == {n \in 1..Len(d) : n \in K => Range(Ancestry(d, n)) \subseteq K /\ Root(d, n) \in K}
<1>0. Len(d) \in Nat /\ \A m \in 1..Len(d) : d[m].parent \in 0..m - 1
  BY NodesOf DEF ParentsFirst
<1>1. ASSUME NEW n \in 1..Len(d), \A k \in 1..n - 1 : k \in G PROVE n \in G
  <2>1. SUFFICES ASSUME n \in K PROVE Range(Ancestry(d, n)) \subseteq K /\ Root(d, n) \in K
    OBVIOUS
  <2>2. CASE d[n].parent = 0
    <3>1. Range(Ancestry(d, n)) = {n}
      BY <2>2, AboveIs
    <3>2. Root(d, n) = n
      BY <2>2, RootIs
    <3> QED
      BY <2>1, <3>1, <3>2
  <2>3. CASE d[n].parent # 0
    <3>1. d[n].parent \in 1..n - 1 /\ d[n].parent \in K
      BY <1>0, <2>1, <2>3
    <3>2. Range(Ancestry(d, d[n].parent)) \subseteq K /\ Root(d, d[n].parent) \in K
      BY <1>1, <3>1
    <3>3. Root(d, n) = Root(d, d[n].parent)
      BY <2>3, RootIs
    <3>4. Range(Ancestry(d, n)) = {n} \cup Range(Ancestry(d, d[n].parent))
      BY AboveIs
    <3> QED
      BY <2>1, <3>2, <3>3, <3>4
  <2> QED
    BY <2>2, <2>3
<1> HIDE DEF G
<1>2. \A n \in 1..Len(d) : n \in G
  BY <1>0, <1>1, Upwards
<1> QED
  BY <1>2 DEF G

LEMMA RootFacts ==
  ASSUME NEW d, ParentsFirst(d)
  PROVE  \A n \in 1..Len(d) :
           /\ Root(d, n) \in 1..Len(d) /\ d[Root(d, n)].parent = 0
           /\ n \in Range(Ancestry(d, n)) /\ Root(d, n) \in Range(Ancestry(d, n))
           /\ \A m \in Range(Ancestry(d, n)) : m \in 1..Len(d) /\ Root(d, m) = Root(d, n)
<1> DEFINE Good(n) ==
             /\ Root(d, n) \in 1..Len(d) /\ d[Root(d, n)].parent = 0
             /\ n \in Range(Ancestry(d, n)) /\ Root(d, n) \in Range(Ancestry(d, n))
             /\ \A m \in Range(Ancestry(d, n)) : m \in 1..Len(d) /\ Root(d, m) = Root(d, n)
           G == {n \in 1..Len(d) : Good(n)}
<1>0. Len(d) \in Nat /\ \A m \in 1..Len(d) : d[m].parent \in 0..m - 1
  BY NodesOf DEF ParentsFirst
<1>1. ASSUME NEW n \in 1..Len(d), \A k \in 1..n - 1 : k \in G PROVE n \in G
  <2>1. CASE d[n].parent = 0
    <3>1. Range(Ancestry(d, n)) = {n}
      BY <2>1, AboveIs
    <3>2. Root(d, n) = n
      BY <2>1, RootIs
    <3> QED
      BY <2>1, <3>1, <3>2
  <2>2. CASE d[n].parent # 0
    <3>1. d[n].parent \in 1..n - 1
      BY <1>0, <2>2
    <3>2. Good(d[n].parent)
      BY <1>1, <3>1
    <3>3. Root(d, n) = Root(d, d[n].parent)
      BY <2>2, RootIs
    <3>4. Range(Ancestry(d, n)) = {n} \cup Range(Ancestry(d, d[n].parent))
      BY AboveIs
    <3>5. Good(n)
      BY <3>2, <3>3, <3>4
    <3> QED
      BY <3>5
  <2> QED
    BY <2>1, <2>2
<1> HIDE DEF G
<1>2. \A n \in 1..Len(d) : n \in G
  BY <1>0, <1>1, Upwards
<1> QED
  BY <1>2 DEF G

\* Where two DOMs have the same parents, they have the same ancestors.
LEMMA SameAncestry ==
  ASSUME NEW d, ParentsFirst(d), NEW e, ParentsFirst(e), NEW S, S \subseteq 1..Len(d), S \subseteq 1..Len(e),
         \A n \in S : e[n].parent = d[n].parent /\ (d[n].parent # 0 => d[n].parent \in S)
  PROVE  \A n \in S : Ancestry(e, n) = Ancestry(d, n) /\ Root(e, n) = Root(d, n)
<1> DEFINE G == {n \in 1..Len(d) : n \in S => Ancestry(e, n) = Ancestry(d, n)}
<1>0. Len(d) \in Nat /\ \A m \in 1..Len(d) : d[m].parent \in 0..m - 1
  BY NodesOf DEF ParentsFirst
<1>1. ASSUME NEW n \in 1..Len(d), \A k \in 1..n - 1 : k \in G PROVE n \in G
  <2>1. SUFFICES ASSUME n \in S PROVE Ancestry(e, n) = Ancestry(d, n)
    OBVIOUS
  <2>2. Ancestry(d, n) = <<n>> \o Ancestry(d, d[n].parent)
    BY AncestryIs
  <2>3. Ancestry(e, n) = <<n>> \o Ancestry(e, d[n].parent)
    BY <2>1, AncestryIs
  <2>4. Ancestry(e, d[n].parent) = Ancestry(d, d[n].parent)
    <3>1. CASE d[n].parent = 0
      BY <3>1, AncestryIs
    <3>2. CASE d[n].parent # 0
      <4>1. d[n].parent \in 1..n - 1 /\ d[n].parent \in S
        BY <1>0, <2>1, <3>2
      <4> QED
        BY <1>1, <4>1
    <3> QED
      BY <3>1, <3>2
  <2> QED
    BY <2>2, <2>3, <2>4
<1> HIDE DEF G
<1>2. \A n \in 1..Len(d) : n \in G
  BY <1>0, <1>1, Upwards
<1>3. \A n \in S : Ancestry(e, n) = Ancestry(d, n)
  BY <1>2 DEF G
<1> QED
  BY <1>3 DEF Root

-------------------------------------------------------------------------------
(***************************************************************************)
(* Changes of a forest.  Within says that nothing has changed outside of   *)
(* the tree of node t: a set of whole trees without it is a set of whole   *)
(* trees still, and its nodes are what they were.                          *)
(***************************************************************************)
Closed(d, K) ==
  /\ K \subseteq 1..Len(d)
  /\ \A n \in 1..Len(d) : d[n].parent # 0 => (n \in K <=> d[n].parent \in K)

Within(d, e, t) ==
  \A K \in SUBSET (1..Len(d)) : Closed(d, K) /\ t \notin K => Closed(e, K) /\ \A n \in K : e[n] = d[n]

\* What no update changes in a node.
Keeps(d, e) ==
  /\ Len(d) <= Len(e)
  /\ \A n \in 1..Len(d) : e[n].kind = d[n].kind /\ e[n].uri = d[n].uri /\ e[n].origin = d[n].origin

Change(d, e, t) == IsForest(e) /\ Keeps(d, e) /\ Within(d, e, t)

\* Nothing but attributes is taken out of its parent.
Stays(d, e) ==
  \A n \in 1..Len(d) : e[n].parent = d[n].parent \/ (IsAttribute(d, n) /\ e[n].parent = 0)

LEMMA ForestIs ==
  ASSUME NEW d, IsForest(d)
  PROVE  /\ d \in Seq(Nodes) /\ Len(d) \in Nat /\ DOMAIN d = 1..Len(d)
         /\ \A n \in 1..Len(d) : d[n] \in Nodes /\ NodeOf(d, n)
BY NodesOf DEF IsForest

LEMMA WithinItself == ASSUME NEW d, NEW t PROVE Within(d, d, t) /\ Stays(d, d)
BY DEF Within, Stays

LEMMA NoChange == ASSUME NEW d, IsForest(d), NEW t PROVE Change(d, d, t) /\ Stays(d, d)
<1>1. Len(d) <= Len(d)
  BY ForestIs
<1> QED
  BY <1>1, WithinItself DEF Change, Keeps

LEMMA ChangeTwice ==
  ASSUME NEW d, NEW e, NEW f, NEW t, IsForest(d), Change(d, e, t), Change(e, f, t)
  PROVE  Change(d, f, t) /\ (Stays(d, e) /\ Stays(e, f) => Stays(d, f))
<1>1. Len(d) \in Nat /\ Len(e) \in Nat /\ Len(f) \in Nat /\ Len(d) <= Len(e) /\ Len(e) <= Len(f)
  BY ForestIs DEF Change, Keeps
<1>2. Len(d) <= Len(f) /\ \A n \in 1..Len(d) : n \in 1..Len(e)
  BY <1>1
<1>3. Keeps(d, f)
  BY <1>2 DEF Change, Keeps
<1>4. Within(d, f, t)
  <2>1. SUFFICES ASSUME NEW K \in SUBSET (1..Len(d)), Closed(d, K), t \notin K
                 PROVE  Closed(f, K) /\ \A n \in K : f[n] = d[n]
    BY DEF Within
  <2>2. Closed(e, K) /\ \A n \in K : e[n] = d[n]
    BY <2>1 DEF Change, Within
  <2>3. K \in SUBSET (1..Len(e))
    BY <1>2
  <2>4. Closed(f, K) /\ \A n \in K : f[n] = e[n]
    BY <2>1, <2>2, <2>3 DEF Change, Within
  <2> QED
    BY <2>2, <2>4
<1>5. ASSUME Stays(d, e), Stays(e, f) PROVE Stays(d, f)
  <2>1. SUFFICES ASSUME NEW n \in 1..Len(d) PROVE f[n].parent = d[n].parent \/ (IsAttribute(d, n) /\ f[n].parent = 0)
    BY DEF Stays
  <2>2. e[n].parent = d[n].parent \/ (IsAttribute(d, n) /\ e[n].parent = 0)
    BY <1>5 DEF Stays
  <2>3. f[n].parent = e[n].parent \/ (IsAttribute(e, n) /\ f[n].parent = 0)
    BY <1>2, <1>5 DEF Stays
  <2>4. e[n].kind = d[n].kind
    BY DEF Change, Keeps
  <2> QED
    BY <2>2, <2>3, <2>4 DEF IsAttribute
<1> QED
  BY <1>3, <1>4, <1>5 DEF Change

\* Parent and child are in the same tree.
LEMMA SameTree ==
  ASSUME NEW d, NEW e, NEW n \in 1..Len(d), d[n].parent # 0
  PROVE  Within(d, e, n) <=> Within(d, e, d[n].parent)
BY DEF Within, Closed

\* A set of whole trees without n has nothing of its tree.
LEMMA OutsideTree ==
  ASSUME NEW d, ParentsFirst(d), NEW K, Closed(d, K), NEW n \in 1..Len(d), n \notin K
  PROVE  \A m \in Range(Ancestry(d, n)) : m \notin K
<1> DEFINE L == 1..Len(d) \ K
<1>1. \A m \in 1..Len(d) : m \in L /\ d[m].parent # 0 => d[m].parent \in L
  <2>1. Len(d) \in Nat /\ \A m \in 1..Len(d) : d[m].parent \in 0..m - 1
    BY NodesOf DEF ParentsFirst
  <2>2. \A m \in 1..Len(d) : d[m].parent # 0 => d[m].parent \in 1..Len(d)
    BY <2>1
  <2> QED
    BY <2>2 DEF Closed
<1>2. n \in L
  OBVIOUS
<1>3. Range(Ancestry(d, n)) \subseteq L
  BY <1>1, <1>2, UpwardClosed
<1> QED
  BY <1>3

(***************************************************************************)
(* Changes of names, values and types                                      *)
(***************************************************************************)
SameShape(d, e) ==
  /\ e \in Seq(Nodes) /\ Len(e) = Len(d)
  /\ \A n \in 1..Len(d) :
       /\ e[n].kind = d[n].kind /\ e[n].uri = d[n].uri /\ e[n].origin = d[n].origin
       /\ e[n].parent = d[n].parent /\ e[n].children = d[n].children /\ e[n].attrs = d[n].attrs

LEMMA ShapeKept ==
  ASSUME NEW d, NEW e, IsForest(d), SameShape(d, e)
  PROVE  IsForest(e) /\ Keeps(d, e) /\ Stays(d, e)
<1>1. Len(d) \in Nat /\ DOMAIN d = 1..Len(d) /\ DOMAIN e = 1..Len(d) /\ Len(e) = Len(d)
  BY ForestIs, NodesOf DEF SameShape
<1>2. ASSUME NEW n \in 1..Len(d) PROVE NodeOf(e, n)
  <2>1. NodeOf(d, n)
    BY ForestIs
  <2>2. /\ e[n].kind = d[n].kind /\ e[n].parent = d[n].parent
        /\ e[n].children = d[n].children /\ e[n].attrs = d[n].attrs
    BY DEF SameShape
  <2>3. \A m \in 1..Len(d) : e[m].kind = d[m].kind /\ e[m].parent = d[m].parent
    BY DEF SameShape
  <2>4. d[n].parent # 0 => d[n].parent \in 1..Len(d)
    <3>1. d[n].parent \in 0..n - 1
      BY <2>1 DEF NodeOf
    <3> QED
      BY <1>1, <3>1
  <2>5. d[n].parent # 0 =>
          e[d[n].parent].children = d[d[n].parent].children /\ e[d[n].parent].attrs = d[d[n].parent].attrs
    BY <2>4 DEF SameShape
  <2> QED
    BY <1>1, <2>1, <2>2, <2>3, <2>5 DEF NodeOf, IsAttribute, IsElement
<1>3. IsForest(e)
  BY <1>1, <1>2 DEF IsForest, SameShape
<1>4. Keeps(d, e) /\ Stays(d, e)
  BY <1>1 DEF SameShape, Keeps, Stays
<1> QED
  BY <1>3, <1>4

LEMMA ShapeClosed ==
  ASSUME NEW d, NEW e, SameShape(d, e), NEW K, Closed(d, K)
  PROVE  Closed(e, K)
BY DEF SameShape, Closed

(***************************************************************************)
(* A new node, and one that is put among the children of another           *)
(***************************************************************************)
\* A node that was just made.
Fresh(new) == new \in Nodes /\ new.parent = 0 /\ new.children = <<>> /\ new.attrs = {}

LEMMA AppendIs ==
  ASSUME NEW d, IsForest(d), NEW new, Fresh(new)
  PROVE  LET e == Append(d, new)
         IN /\ e \in Seq(Nodes) /\ Len(e) = Len(d) + 1 /\ e[Len(d) + 1] = new
            /\ \A n \in 1..Len(d) : e[n] = d[n]
BY ForestIs, AppendProperties DEF Fresh

LEMMA AppendForest ==
  ASSUME NEW d, IsForest(d), NEW new, Fresh(new)
  PROVE  IsForest(Append(d, new))
<1> DEFINE e == Append(d, new)
<1>1. /\ e \in Seq(Nodes) /\ Len(e) = Len(d) + 1 /\ e[Len(d) + 1] = new
      /\ \A n \in 1..Len(d) : e[n] = d[n]
  BY AppendIs
<1> HIDE DEF e
<1>2. Len(d) \in Nat /\ DOMAIN d = 1..Len(d) /\ DOMAIN e = 1..Len(d) + 1
  BY <1>1, ForestIs
<1>3. ASSUME NEW n \in 1..Len(d) PROVE NodeOf(e, n)
  <2>1. NodeOf(d, n)
    BY ForestIs
  <2>2. e[n] = d[n]
    BY <1>1
  <2>3. \A c \in 1..Len(d) : e[c] = d[c] /\ c \in DOMAIN e
    BY <1>1, <1>2
  <2>4. d[n].parent # 0 => d[n].parent \in 1..Len(d)
    <3>1. d[n].parent \in 0..n - 1
      BY <2>1 DEF NodeOf
    <3> QED
      BY <1>2, <3>1
  <2>5. d[n].parent # 0 => e[d[n].parent] = d[d[n].parent]
    BY <1>1, <2>4
  <2>6. IsInjective(e[n].children)
    BY <2>1, <2>2 DEF NodeOf
  <2>7. \A c \in Range(e[n].children) : c \in DOMAIN e /\ e[c].parent = n /\ ~IsAttribute(e, c)
    BY <1>2, <2>1, <2>2, <2>3 DEF NodeOf, IsAttribute
  <2>8. \A a \in e[n].attrs : a \in DOMAIN e /\ e[a].parent = n /\ IsAttribute(e, a)
    BY <1>2, <2>1, <2>2, <2>3 DEF NodeOf, IsAttribute
  <2>9. e[n].parent # 0 =>
          n \in (IF IsAttribute(e, n) THEN e[e[n].parent].attrs ELSE Range(e[e[n].parent].children))
    BY <2>1, <2>2, <2>5 DEF NodeOf, IsAttribute
  <2>10. e[n].parent \in 0..n - 1 /\ (e[n].children # <<>> => e[n].kind \in {"document", "element"})
         /\ (e[n].attrs # {} => IsElement(e, n))
    BY <2>1, <2>2 DEF NodeOf, IsElement
  <2> QED
    BY <2>6, <2>7, <2>8, <2>9, <2>10 DEF NodeOf
<1>4. NodeOf(e, Len(d) + 1)
  <2>1. Range(<<>>) = {} /\ IsInjective(<<>>)
    BY DEF Range, IsInjective
  <2>2. 0 \in 0..Len(d) + 1 - 1
    BY <1>2
  <2> QED
    BY <1>1, <2>1, <2>2 DEF NodeOf, Fresh
<1>5. \A n \in DOMAIN e : n \in 1..Len(d) \/ n = Len(d) + 1
  BY <1>2
<1>6. \A n \in DOMAIN e : NodeOf(e, n)
  BY <1>3, <1>4, <1>5
<1> QED
  BY <1>1, <1>6 DEF IsForest, e

\* Where insertBefore() puts the node n among the children of p.
LEMMA InsertBeforeIs ==
  ASSUME NEW d, IsForest(d), NEW n \in 1..Len(d), NEW p \in 1..Len(d), n # p,
         NEW sib, sib = 0 \/ sib \in Range(d[p].children)
  PROVE  LET e == InsertBefore(d, p, n, sib)
         IN /\ e \in Seq(Nodes) /\ Len(e) = Len(d)
            /\ e[n] = [d[n] EXCEPT !.parent = p]
            /\ \E at \in 1..Len(d[p].children) + 1 :
                 /\ e[p] = [d[p] EXCEPT !.children = InsertAt(d[p].children, at, n)]
                 /\ sib # 0 => d[p].children[at] = sib /\ at # Len(d[p].children) + 1
                 /\ sib = 0 => at = Len(d[p].children) + 1
            /\ \A m \in 1..Len(d) : m # n /\ m # p => e[m] = d[m]
<1> DEFINE s == d[p].children
           at == IF sib = 0 THEN Len(s) + 1 ELSE PlaceOf(sib, s)
           e == [d EXCEPT ![n].parent = p, ![p].children = InsertAt(s, at, n)]
<1>0. d \in Seq(Nodes) /\ Len(d) \in Nat /\ DOMAIN d = 1..Len(d) /\ d[n] \in Nodes /\ d[p] \in Nodes
      /\ \A m \in 1..Len(d) : d[m] \in Nodes
  BY ForestIs
<1>1. s \in Seq(Nat) /\ n \in Nat /\ p \in Nat /\ Len(s) \in Nat
  <2>1. s \in Seq(Nat)
    BY <1>0 DEF Nodes
  <2>2. n \in Nat /\ p \in Nat
    BY <1>0
  <2> HIDE DEF s
  <2>3. Len(s) \in Nat
    BY <2>1
  <2> QED
    BY <2>1, <2>2, <2>3
<1>2. InsertBefore(d, p, n, sib) = e
  BY DEF InsertBefore
<1>3. at \in 1..Len(s) + 1 /\ (sib # 0 => s[at] = sib /\ at # Len(s) + 1) /\ (sib = 0 => at = Len(s) + 1)
  <2>1. CASE sib = 0
    BY <1>1, <2>1
  <2>2. CASE sib # 0
    <3>1. PlaceOf(sib, s) \in 1..Len(s) /\ s[PlaceOf(sib, s)] = sib
      BY <1>1, <2>2, SomewhereIn
    <3>2. at = PlaceOf(sib, s)
      BY <2>2
    <3> HIDE DEF at
    <3> QED
      BY <1>1, <2>2, <3>1, <3>2
  <2> QED
    BY <2>1, <2>2
<1> HIDE DEF at
<1>4. InsertAt(s, at, n) \in Seq(Nat)
  BY <1>1, <1>3, InsertAtIs
<1> DEFINE new == InsertAt(s, at, n)
<1> HIDE DEF new
<1>5. [d[n] EXCEPT !.parent = p] \in Nodes /\ [d[p] EXCEPT !.children = new] \in Nodes
  BY <1>0, <1>1, <1>4 DEF Nodes, new
<1>6. e = [m \in 1..Len(d) |-> IF m = p THEN [d[p] EXCEPT !.children = new]
                              ELSE IF m = n THEN [d[n] EXCEPT !.parent = p] ELSE d[m]]
  <2>1. e = [d EXCEPT ![n].parent = p, ![p].children = new]
    BY DEF new
  <2> HIDE DEF e
  <2> QED
    BY <1>0, <2>1
<1> HIDE DEF e
<1>7. DOMAIN e = 1..Len(d) /\ \A m \in 1..Len(d) : e[m] \in Nodes
  BY <1>0, <1>5, <1>6
<1>8. e \in Seq(Nodes) /\ Len(e) = Len(d)
  <2>1. e \in [1..Len(d) -> Nodes]
    BY <1>6, <1>7
  <2> QED
    BY <1>0, <2>1
<1>9. e[n] = [d[n] EXCEPT !.parent = p] /\ e[p] = [d[p] EXCEPT !.children = new]
      /\ \A m \in 1..Len(d) : m # n /\ m # p => e[m] = d[m]
  BY <1>6
<1> QED
  BY <1>2, <1>3, <1>8, <1>9 DEF new

Gains(s, t, n) == Range(t) = Range(s) \cup {n}

LEMMA InsertForest ==
  ASSUME NEW d, IsForest(d), NEW n \in 1..Len(d), NEW p \in 1..n - 1,
         d[n].parent = 0, ~IsAttribute(d, n), d[p].kind \in {"document", "element"},
         NEW sib, sib = 0 \/ sib \in Range(d[p].children)
  PROVE  LET e == InsertBefore(d, p, n, sib)
         IN /\ IsForest(e) /\ Keeps(d, e) /\ Len(e) = Len(d)
            /\ e[n].parent = p /\ Gains(d[p].children, e[p].children, n)
            /\ \A m \in 1..Len(d) : m # n => e[m].parent = d[m].parent
            /\ \A m \in 1..Len(d) : m # n /\ m # p => e[m] = d[m]
            /\ \A m \in 1..Len(d) :
                 /\ e[m].kind = d[m].kind /\ e[m].name = d[m].name /\ e[m].value = d[m].value
                 /\ e[m].type = d[m].type /\ e[m].attrs = d[m].attrs
<1> DEFINE e == InsertBefore(d, p, n, sib)
           s == d[p].children
<1>0. d \in Seq(Nodes) /\ Len(d) \in Nat /\ DOMAIN d = 1..Len(d) /\ d[n] \in Nodes /\ d[p] \in Nodes
      /\ (\A m \in 1..Len(d) : d[m] \in Nodes) /\ p \in 1..Len(d) /\ n # p /\ n \in Nat /\ p \in Nat
  BY ForestIs
<1>1. s \in Seq(Nat)
  BY <1>0 DEF Nodes
<1>2. /\ e \in Seq(Nodes) /\ Len(e) = Len(d)
      /\ e[n] = [d[n] EXCEPT !.parent = p]
      /\ \E at \in 1..Len(s) + 1 : e[p] = [d[p] EXCEPT !.children = InsertAt(s, at, n)]
      /\ \A m \in 1..Len(d) : m # n /\ m # p => e[m] = d[m]
  BY <1>0, InsertBeforeIs
<1> HIDE DEF e
<1>3. PICK at \in 1..Len(s) + 1 : e[p] = [d[p] EXCEPT !.children = InsertAt(s, at, n)]
  BY <1>2
<1> DEFINE t == InsertAt(s, at, n)
<1>4. NodeOf(d, p) /\ NodeOf(d, n)
  BY <1>0, ForestIs
<1>5. n \notin Range(s)
  BY <1>0, <1>4 DEF NodeOf
<1>6. Range(t) = Range(s) \cup {n} /\ IsInjective(t)
  <2>1. IsInjective(s)
    BY <1>4 DEF NodeOf
  <2>2. n \in Nat
    BY <1>0
  <2> HIDE DEF s
  <2> QED
    BY <1>1, <1>5, <2>1, <2>2, InsertedIn
<1>7. e[p] = [d[p] EXCEPT !.children = t]
  BY <1>3
<1> HIDE DEF t, s
<1>8. /\ e[n].kind = d[n].kind /\ e[n].name = d[n].name /\ e[n].value = d[n].value /\ e[n].type = d[n].type
      /\ e[n].attrs = d[n].attrs /\ e[n].uri = d[n].uri /\ e[n].origin = d[n].origin
      /\ e[n].parent = p /\ e[n].children = d[n].children
  BY <1>0, <1>2 DEF Nodes
<1>9. /\ e[p].kind = d[p].kind /\ e[p].name = d[p].name /\ e[p].value = d[p].value /\ e[p].type = d[p].type
      /\ e[p].attrs = d[p].attrs /\ e[p].uri = d[p].uri /\ e[p].origin = d[p].origin
      /\ e[p].parent = d[p].parent /\ e[p].children = t
  BY <1>0, <1>7 DEF Nodes
<1>10. \A m \in 1..Len(d) :
         /\ e[m].kind = d[m].kind /\ e[m].name = d[m].name /\ e[m].value = d[m].value /\ e[m].type = d[m].type
         /\ e[m].attrs = d[m].attrs /\ e[m].uri = d[m].uri /\ e[m].origin = d[m].origin
         /\ m # n => e[m].parent = d[m].parent
         /\ m # p => e[m].children = d[m].children
  BY <1>2, <1>8, <1>9
<1>11. ASSUME NEW m \in 1..Len(d) PROVE NodeOf(e, m)
  <2>1. NodeOf(d, m)
    BY <1>0, ForestIs
  <2>2. e[m].parent \in 0..m - 1
    <3>1. d[m].parent \in 0..m - 1
      BY <2>1 DEF NodeOf
    <3>2. p \in 0..n - 1
      BY <1>0
    <3> QED
      BY <1>8, <1>10, <3>1, <3>2
  <2>3. m # p => Range(e[m].children) = Range(d[m].children) /\ IsInjective(e[m].children)
    BY <1>10, <2>1 DEF NodeOf
  <2>4. Range(e[p].children) = Range(d[p].children) \cup {n} /\ IsInjective(e[p].children)
    BY <1>6, <1>9 DEF s
  <2>5. IsInjective(e[m].children)
    BY <2>3, <2>4
  <2>6. \A c \in Range(d[m].children) : c \in 1..Len(d) /\ d[c].parent = m /\ ~IsAttribute(d, c)
    BY <1>0, <2>1 DEF NodeOf
  <2>7. ASSUME NEW c \in Range(e[m].children) PROVE c \in DOMAIN e /\ e[c].parent = m /\ ~IsAttribute(e, c)
    <3>0. DOMAIN e = 1..Len(d)
      BY <1>2
    <3>1. CASE c = n /\ m = p
      BY <1>8, <3>0, <3>1 DEF IsAttribute
    <3>2. CASE c \in Range(d[m].children)
      <4>1. c \in 1..Len(d) /\ d[c].parent = m /\ ~IsAttribute(d, c) /\ c # n
        <5>1. m # 0
          BY <1>0
        <5> QED
          BY <2>6, <3>2, <5>1
      <4> QED
        BY <1>10, <3>0, <4>1 DEF IsAttribute
    <3> QED
      BY <2>3, <2>4, <2>7, <3>1, <3>2
  <2>8. ASSUME NEW a \in e[m].attrs PROVE a \in DOMAIN e /\ e[a].parent = m /\ IsAttribute(e, a)
    <3>0. DOMAIN e = 1..Len(d)
      BY <1>2
    <3>1. a \in d[m].attrs
      BY <1>10, <2>8
    <3>2. a \in 1..Len(d) /\ d[a].parent = m /\ IsAttribute(d, a)
      BY <1>0, <2>1, <3>1 DEF NodeOf
    <3> QED
      BY <1>10, <3>0, <3>2 DEF IsAttribute
  <2>9. ASSUME e[m].parent # 0
        PROVE  m \in (IF IsAttribute(e, m) THEN e[e[m].parent].attrs ELSE Range(e[e[m].parent].children))
    <3>1. CASE m = n
      <4>1. ~IsAttribute(e, m) /\ e[m].parent = p
        BY <1>8, <3>1 DEF IsAttribute
      <4> QED
        BY <2>4, <3>1, <4>1
    <3>2. CASE m # n
      <4>1. e[m].parent = d[m].parent /\ e[m].kind = d[m].kind /\ d[m].parent # 0
        BY <1>10, <2>9, <3>2
      <4>2. m \in (IF IsAttribute(d, m) THEN d[d[m].parent].attrs ELSE Range(d[d[m].parent].children))
        BY <2>1, <4>1 DEF NodeOf
      <4>3. d[m].parent \in 1..Len(d)
        <5>1. d[m].parent \in 0..m - 1
          BY <2>1 DEF NodeOf
        <5> QED
          BY <1>0, <4>1, <5>1
      <4>4. e[d[m].parent].attrs = d[d[m].parent].attrs
        BY <1>10, <4>3
      <4>5. Range(d[d[m].parent].children) \subseteq Range(e[d[m].parent].children)
        BY <1>10, <2>4, <4>3
      <4> QED
        BY <4>1, <4>2, <4>4, <4>5 DEF IsAttribute
    <3> QED
      BY <3>1, <3>2
  <2>10. e[m].children # <<>> => e[m].kind \in {"document", "element"}
    <3>1. m # p /\ e[m].children # <<>> => d[m].kind \in {"document", "element"}
      BY <1>10, <2>1 DEF NodeOf
    <3> QED
      BY <1>10, <3>1
  <2>11. e[m].attrs # {} => IsElement(e, m)
    BY <1>10, <2>1 DEF NodeOf, IsElement
  <2> QED
    BY <2>2, <2>5, <2>7, <2>8, <2>9, <2>10, <2>11 DEF NodeOf
<1>12. IsForest(e)
  <2>1. DOMAIN e = 1..Len(d)
    BY <1>2
  <2> QED
    BY <1>2, <1>11, <2>1 DEF IsForest
<1>13. Keeps(d, e)
  BY <1>0, <1>2, <1>10 DEF Keeps
<1>14. Gains(d[p].children, e[p].children, n)
  BY <1>6, <1>9 DEF s, Gains
<1> QED
  BY <1>2, <1>8, <1>10, <1>12, <1>13, <1>14 DEF e

\* e is d with the new node made a child of p.
ChildAdded(d, e, new, p) ==
  /\ Change(d, e, p) /\ Stays(d, e)
  /\ Len(e) = Len(d) + 1 /\ e[Len(d) + 1].parent = p
  /\ e[Len(d) + 1].kind = new.kind /\ e[Len(d) + 1].type = new.type /\ e[Len(d) + 1].attrs = {}
  /\ Gains(d[p].children, e[p].children, Len(d) + 1)
  /\ \A m \in 1..Len(d) : m # p => e[m] = d[m]
  /\ \A m \in 1..Len(d) :
       /\ e[m].name = d[m].name /\ e[m].value = d[m].value /\ e[m].type = d[m].type
       /\ e[m].attrs = d[m].attrs /\ e[m].parent = d[m].parent

LEMMA NewChild ==
  ASSUME NEW d, IsForest(d), NEW new, Fresh(new), new.kind # "attribute",
         NEW p \in 1..Len(d), d[p].kind \in {"document", "element"},
         NEW sib, sib = 0 \/ sib \in Range(d[p].children)
  PROVE  ChildAdded(d, InsertBefore(Append(d, new), p, Len(d) + 1, sib), new, p)
<1> DEFINE c == Append(d, new)
           N == Len(d) + 1
           e == InsertBefore(c, p, N, sib)
<1>0. Len(d) \in Nat /\ p \in Nat /\ N \in Nat
  BY ForestIs
<1>1. /\ Len(c) = N /\ c[N] = new
      /\ \A n \in 1..Len(d) : c[n] = d[n]
  BY AppendIs
<1>2. IsForest(c)
  BY AppendForest
<1> HIDE DEF c, N
<1>3. /\ N \in 1..Len(c) /\ p \in 1..N - 1 /\ c[N].parent = 0 /\ ~IsAttribute(c, N)
      /\ c[p].kind \in {"document", "element"} /\ (sib = 0 \/ sib \in Range(c[p].children))
  BY <1>0, <1>1 DEF IsAttribute, Fresh, N
<1>4. /\ IsForest(e) /\ Keeps(c, e) /\ Len(e) = Len(c)
      /\ e[N].parent = p /\ Gains(c[p].children, e[p].children, N)
      /\ \A m \in 1..Len(c) : m # N => e[m].parent = c[m].parent
      /\ \A m \in 1..Len(c) : m # N /\ m # p => e[m] = c[m]
      /\ \A m \in 1..Len(c) :
           /\ e[m].kind = c[m].kind /\ e[m].name = c[m].name /\ e[m].value = c[m].value
           /\ e[m].type = c[m].type /\ e[m].attrs = c[m].attrs
  <2>1. N \in 1..Len(c) /\ p \in 1..N - 1
    BY <1>3
  <2>2. c[N].parent = 0 /\ ~IsAttribute(c, N) /\ c[p].kind \in {"document", "element"}
    BY <1>3
  <2>3. sib = 0 \/ sib \in Range(c[p].children)
    BY <1>3
  <2>4. IsForest(e) /\ Keeps(c, e) /\ Len(e) = Len(c)
    BY <1>2, <2>1, <2>2, <2>3, InsertForest
  <2>5. e[N].parent = p
    BY <1>2, <2>1, <2>2, <2>3, InsertForest
  <2>9. Gains(c[p].children, e[p].children, N)
    BY <1>2, <2>1, <2>2, <2>3, InsertForest
  <2>6. \A m \in 1..Len(c) : m # N => e[m].parent = c[m].parent
    BY <1>2, <2>1, <2>2, <2>3, InsertForest
  <2>7. \A m \in 1..Len(c) : m # N /\ m # p => e[m] = c[m]
    BY <1>2, <2>1, <2>2, <2>3, InsertForest
  <2>8. \A m \in 1..Len(c) :
           /\ e[m].kind = c[m].kind /\ e[m].name = c[m].name /\ e[m].value = c[m].value
           /\ e[m].type = c[m].type /\ e[m].attrs = c[m].attrs
    BY <1>2, <2>1, <2>2, <2>3, InsertForest
  <2> QED
    BY <2>4, <2>5, <2>6, <2>7, <2>8, <2>9
<1> HIDE DEF e
<1>5. \A m \in 1..Len(d) : m \in 1..Len(c) /\ m # N /\ c[m] = d[m]
  BY <1>0, <1>1 DEF N
<1>6. /\ \A m \in 1..Len(d) : m # p => e[m] = d[m]
      /\ \A m \in 1..Len(d) :
           /\ e[m].name = d[m].name /\ e[m].value = d[m].value /\ e[m].type = d[m].type
           /\ e[m].attrs = d[m].attrs /\ e[m].parent = d[m].parent
  BY <1>4, <1>5
<1>7. Keeps(d, e)
  <2>1. Len(d) <= Len(e)
    BY <1>0, <1>1, <1>4 DEF N
  <2>2. \A m \in 1..Len(d) : e[m].kind = d[m].kind /\ e[m].uri = d[m].uri /\ e[m].origin = d[m].origin
    BY <1>4, <1>5 DEF Keeps
  <2> QED
    BY <2>1, <2>2 DEF Keeps
<1>8. Within(d, e, p)
  <2>1. SUFFICES ASSUME NEW K \in SUBSET (1..Len(d)), Closed(d, K), p \notin K
                 PROVE  Closed(e, K) /\ \A n \in K : e[n] = d[n]
    BY DEF Within
  <2>2. \A n \in K : e[n] = d[n]
    BY <1>6, <2>1
  <2>3. N \notin K /\ \A n \in 1..Len(e) : n = N \/ n \in 1..Len(d)
    <3>1. Len(e) = Len(d) + 1 /\ N = Len(d) + 1
      BY <1>1, <1>4 DEF N
    <3>2. N \notin 1..Len(d) /\ \A n \in 1..Len(e) : n = N \/ n \in 1..Len(d)
      BY <1>0, <3>1
    <3>3. K \subseteq 1..Len(d)
      OBVIOUS
    <3> QED
      BY <3>2, <3>3
  <2>4. ASSUME NEW n \in 1..Len(e), e[n].parent # 0 PROVE n \in K <=> e[n].parent \in K
    <3>1. CASE n = N
      BY <1>4, <2>1, <2>3, <3>1
    <3>2. CASE n \in 1..Len(d)
      BY <1>6, <2>1, <2>4, <3>2 DEF Closed
    <3> QED
      BY <2>3, <3>1, <3>2
  <2>5. K \subseteq 1..Len(e)
    BY <1>0, <1>1, <1>4 DEF N
  <2> QED
    BY <2>2, <2>4, <2>5 DEF Closed
<1>9. Stays(d, e)
  BY <1>6 DEF Stays
<1>10. /\ Len(e) = Len(d) + 1 /\ e[Len(d) + 1].parent = p
       /\ e[Len(d) + 1].kind = new.kind /\ e[Len(d) + 1].type = new.type /\ e[Len(d) + 1].attrs = {}
  <2>1. N \in 1..Len(c)
    BY <1>3
  <2> QED
    BY <1>1, <1>4, <2>1 DEF N, Fresh
<1>11. Gains(d[p].children, e[p].children, Len(d) + 1)
  BY <1>4, <1>5 DEF N
<1>12. Change(d, e, p)
  BY <1>4, <1>7, <1>8 DEF Change
<1>13. ChildAdded(d, e, new, p)
  BY <1>6, <1>9, <1>10, <1>11, <1>12 DEF ChildAdded
<1> QED
  BY <1>13 DEF e, c, N

(***************************************************************************)
(* Attributes                                                              *)
(***************************************************************************)
\* The attributes that n pushes out of o.
Others(d, o, n) == {m \in d[o].attrs \ {n} : SameName(d[m].name, d[n].name)}

LEMMA SetAttributeIs ==
  ASSUME NEW d, IsForest(d), NEW n \in 1..Len(d), NEW o \in 1..n - 1,
         IsAttribute(d, n), d[n].parent \in {0, o}, IsElement(d, o)
  PROVE  LET e == SetAttributeNode(d, o, n)
             others == Others(d, o, n)
         IN /\ e \in Seq(Nodes) /\ Len(e) = Len(d)
            /\ others \subseteq 1..Len(d) /\ n \notin others /\ o \notin others
            /\ e[n] = [d[n] EXCEPT !.parent = o]
            /\ e[o] = [d[o] EXCEPT !.attrs = (@ \ others) \cup {n}]
            /\ \A m \in others : e[m] = [d[m] EXCEPT !.parent = 0]
            /\ \A m \in 1..Len(d) : m # n /\ m # o /\ m \notin others => e[m] = d[m]
<1> DEFINE others == Others(d, o, n)
           cleared == [m \in DOMAIN d |-> IF m \in others THEN [d[m] EXCEPT !.parent = 0] ELSE d[m]]
           e == [cleared EXCEPT ![n].parent = o, ![o].attrs = (@ \ others) \cup {n}]
<1>0. d \in Seq(Nodes) /\ Len(d) \in Nat /\ DOMAIN d = 1..Len(d) /\ (\A m \in 1..Len(d) : d[m] \in Nodes)
  BY ForestIs
<1>1. SetAttributeNode(d, o, n) = e
  BY DEF SetAttributeNode, Others
<1>2. o \in 1..Len(d) /\ o # n /\ n \in Nat /\ o \in Nat
  BY <1>0
<1>3. \A a \in d[o].attrs : a \in 1..Len(d) /\ IsAttribute(d, a)
  BY <1>0, <1>2, ForestIs DEF NodeOf
<1>4. others \subseteq 1..Len(d) /\ n \notin others /\ o \notin others
  BY <1>3 DEF IsAttribute, IsElement, Others
<1> HIDE DEF others
<1>5. DOMAIN cleared = 1..Len(d) /\ cleared[n] = d[n] /\ cleared[o] = d[o]
      /\ \A m \in 1..Len(d) : cleared[m] = IF m \in others THEN [d[m] EXCEPT !.parent = 0] ELSE d[m]
  BY <1>0, <1>2, <1>4
<1> HIDE DEF cleared
<1>6. e = [m \in 1..Len(d) |-> IF m = o THEN [d[o] EXCEPT !.attrs = (@ \ others) \cup {n}]
                              ELSE IF m = n THEN [d[n] EXCEPT !.parent = o] ELSE cleared[m]]
  <2>1. e = [m \in 1..Len(d) |-> IF m = o THEN [cleared[o] EXCEPT !.attrs = (@ \ others) \cup {n}]
                                 ELSE IF m = n THEN [cleared[n] EXCEPT !.parent = o] ELSE cleared[m]]
    BY <1>2, <1>5
  <2> HIDE DEF e
  <2> QED
    BY <1>5, <2>1
<1> HIDE DEF e
<1>7. /\ e[o] = [d[o] EXCEPT !.attrs = (@ \ others) \cup {n}] /\ e[n] = [d[n] EXCEPT !.parent = o]
      /\ \A m \in 1..Len(d) : m # o /\ m # n => e[m] = cleared[m]
  BY <1>2, <1>6
<1>8. d[o] \in Nodes /\ d[n] \in Nodes /\ \A m \in others : [d[m] EXCEPT !.parent = 0] \in Nodes
  BY <1>0, <1>2, <1>4 DEF Nodes
<1>9. e[o] \in Nodes /\ e[n] \in Nodes
  <2>1. d[o].attrs \in SUBSET Nat
    BY <1>8 DEF Nodes
  <2>2. (d[o].attrs \ others) \cup {n} \in SUBSET Nat
    BY <1>2, <2>1
  <2> DEFINE as == (d[o].attrs \ others) \cup {n}
  <2>3. e[o] = [d[o] EXCEPT !.attrs = as]
    BY <1>7
  <2>4. as \in SUBSET Nat
    BY <2>2
  <2> HIDE DEF as
  <2>5. e[o] \in Nodes
    BY <1>8, <2>3, <2>4 DEF Nodes
  <2>6. e[n] \in Nodes
    BY <1>2, <1>7, <1>8 DEF Nodes
  <2> QED
    BY <2>5, <2>6
<1>10. \A m \in 1..Len(d) : e[m] \in Nodes
  BY <1>0, <1>5, <1>7, <1>8, <1>9
<1>11. e \in Seq(Nodes) /\ Len(e) = Len(d)
  <2>1. e \in [1..Len(d) -> Nodes]
    BY <1>6, <1>10
  <2> QED
    BY <1>0, <2>1
<1>12. /\ \A m \in others : e[m] = [d[m] EXCEPT !.parent = 0]
       /\ \A m \in 1..Len(d) : m # n /\ m # o /\ m \notin others => e[m] = d[m]
  <2>1. \A m \in others : m # n /\ m # o /\ m \in 1..Len(d)
    BY <1>4
  <2> QED
    BY <1>5, <1>7, <2>1
<1> QED
  BY <1>1, <1>4, <1>7, <1>11, <1>12 DEF others

LEMMA SetAttribute ==
  ASSUME NEW d, IsForest(d), NEW n \in 1..Len(d), NEW o \in 1..n - 1,
         IsAttribute(d, n), d[n].parent \in {0, o}, IsElement(d, o)
  PROVE  LET e == SetAttributeNode(d, o, n)
         IN /\ IsForest(e) /\ Keeps(d, e) /\ Len(e) = Len(d) /\ e[n].parent = o
            /\ \A m \in 1..Len(d) : m # n => e[m].parent = d[m].parent \/ (IsAttribute(d, m) /\ e[m].parent = 0)
            /\ \A K \in SUBSET (1..Len(d)) :
                 Closed(d, K) /\ o \notin K /\ n \notin K => Closed(e, K) /\ \A m \in K : e[m] = d[m]
<1> DEFINE e == SetAttributeNode(d, o, n)
           others == Others(d, o, n)
<1>0. d \in Seq(Nodes) /\ Len(d) \in Nat /\ DOMAIN d = 1..Len(d) /\ (\A m \in 1..Len(d) : d[m] \in Nodes)
      /\ o \in 1..Len(d) /\ n # o /\ n \in Nat /\ o \in Nat
  BY ForestIs
<1>20. /\ e \in Seq(Nodes) /\ Len(e) = Len(d)
       /\ others \subseteq 1..Len(d) /\ n \notin others /\ o \notin others
       /\ e[n] = [d[n] EXCEPT !.parent = o]
       /\ e[o] = [d[o] EXCEPT !.attrs = (@ \ others) \cup {n}]
       /\ \A m \in others : e[m] = [d[m] EXCEPT !.parent = 0]
       /\ \A m \in 1..Len(d) : m # n /\ m # o /\ m \notin others => e[m] = d[m]
  BY ONLY SetAttributeIs, IsForest(d), IsAttribute(d, n), d[n].parent \in {0, o}, IsElement(d, o),
          n \in 1..Len(d), o \in 1..n - 1
<1> HIDE DEF e, others
<1>1. e \in Seq(Nodes) /\ Len(e) = Len(d) /\ e[n] = [d[n] EXCEPT !.parent = o]
      /\ e[o] = [d[o] EXCEPT !.attrs = (@ \ others) \cup {n}]
  BY <1>20
<1>2. others \subseteq 1..Len(d) /\ n \notin others /\ o \notin others
  BY <1>20
<1>3. \A m \in others : e[m] = [d[m] EXCEPT !.parent = 0]
  BY <1>20
<1>4. \A m \in 1..Len(d) : m # n /\ m # o /\ m \notin others => e[m] = d[m]
  BY <1>20
<1> HIDE DEF e
<1>5. \A m \in 1..Len(d) : NodeOf(d, m)
  BY ForestIs
<1>6. \A m \in others : m \in d[o].attrs /\ IsAttribute(d, m) /\ d[m].parent = o
  BY <1>0, <1>5 DEF NodeOf, Others, others
<1> DEFINE as == (d[o].attrs \ others) \cup {n}
<1>7. e[o].attrs = as /\ e[o].parent = d[o].parent /\ e[o].children = d[o].children
      /\ e[o].kind = d[o].kind /\ e[o].uri = d[o].uri /\ e[o].origin = d[o].origin
  BY <1>0, <1>1 DEF Nodes
<1> HIDE DEF others, as
<1>8. e[n].parent = o /\ e[n].attrs = d[n].attrs /\ e[n].children = d[n].children
      /\ e[n].kind = d[n].kind /\ e[n].uri = d[n].uri /\ e[n].origin = d[n].origin
  BY <1>0, <1>1 DEF Nodes
<1>9. \A m \in others :
        /\ e[m].parent = 0 /\ e[m].attrs = d[m].attrs /\ e[m].children = d[m].children
        /\ e[m].kind = d[m].kind /\ e[m].uri = d[m].uri /\ e[m].origin = d[m].origin
  <2>1. SUFFICES ASSUME NEW m \in others
                 PROVE  /\ e[m].parent = 0 /\ e[m].attrs = d[m].attrs /\ e[m].children = d[m].children
                        /\ e[m].kind = d[m].kind /\ e[m].uri = d[m].uri /\ e[m].origin = d[m].origin
    OBVIOUS
  <2>2. d[m] \in Nodes
    BY <1>0, <1>2
  <2>3. e[m] = [d[m] EXCEPT !.parent = 0]
    BY <1>3
  <2> QED
    BY <2>2, <2>3 DEF Nodes
<1>10. \A m \in 1..Len(d) :
         /\ e[m].kind = d[m].kind /\ e[m].uri = d[m].uri /\ e[m].origin = d[m].origin
         /\ e[m].children = d[m].children
         /\ m # o => e[m].attrs = d[m].attrs
         /\ m \notin others /\ m # n => e[m].parent = d[m].parent
  BY <1>4, <1>7, <1>8, <1>9
<1>11. \A m \in 1..Len(d) : ~IsAttribute(d, m) => m \notin others /\ m # n /\ e[m].parent = d[m].parent
  BY <1>6, <1>10
<1>12. DOMAIN e = 1..Len(d)
  BY <1>1
<1>13. ASSUME NEW m \in 1..Len(d) PROVE NodeOf(e, m)
  <2>1. NodeOf(d, m)
    BY <1>5
  <2>2. e[m].parent \in 0..m - 1
    <3>1. d[m].parent \in 0..m - 1
      BY <2>1 DEF NodeOf
    <3>2. o \in 0..n - 1
      BY <1>0
    <3>3. 0 \in 0..m - 1
      OBVIOUS
    <3> QED
      BY <1>8, <1>9, <1>10, <3>1, <3>2, <3>3
  <2>3. IsInjective(e[m].children)
    BY <1>10, <2>1 DEF NodeOf
  <2>4. ASSUME NEW c \in Range(e[m].children) PROVE c \in DOMAIN e /\ e[c].parent = m /\ ~IsAttribute(e, c)
    <3>1. c \in 1..Len(d) /\ d[c].parent = m /\ ~IsAttribute(d, c)
      BY <1>0, <1>10, <2>1, <2>4 DEF NodeOf
    <3> QED
      BY <1>10, <1>11, <1>12, <3>1 DEF IsAttribute
  <2>5. ASSUME NEW a \in e[m].attrs PROVE a \in DOMAIN e /\ e[a].parent = m /\ IsAttribute(e, a)
    <3>1. CASE m = o /\ a = n
      BY <1>8, <1>12, <3>1 DEF IsAttribute
    <3>2. CASE ~(m = o /\ a = n)
      <4>1. a \in d[m].attrs /\ (m = o => a \notin others)
        BY <1>7, <1>10, <2>5, <3>2 DEF as
      <4>2. a \in 1..Len(d) /\ d[a].parent = m /\ IsAttribute(d, a)
        BY <1>0, <2>1, <4>1 DEF NodeOf
      <4>3. a \notin others
        BY <1>6, <4>1, <4>2
      <4>4. a # n
        <5>1. a = n => d[n].parent = m /\ m # 0
          BY <4>2
        <5> QED
          BY <3>2, <5>1
      <4> QED
        BY <1>10, <1>12, <4>2, <4>3, <4>4 DEF IsAttribute
    <3> QED
      BY <3>1, <3>2
  <2>6. ASSUME e[m].parent # 0
        PROVE  m \in (IF IsAttribute(e, m) THEN e[e[m].parent].attrs ELSE Range(e[e[m].parent].children))
    <3>1. CASE m = n
      <4>1. IsAttribute(e, m) /\ e[m].parent = o /\ n \in e[o].attrs
        BY <1>7, <1>8, <3>1 DEF IsAttribute, as
      <4> QED
        BY <3>1, <4>1
    <3>2. CASE m # n
      <4>1. m \notin others /\ e[m].parent = d[m].parent /\ e[m].kind = d[m].kind /\ d[m].parent # 0
        BY <1>9, <1>10, <2>6, <3>2
      <4>2. m \in (IF IsAttribute(d, m) THEN d[d[m].parent].attrs ELSE Range(d[d[m].parent].children))
        BY <2>1, <4>1 DEF NodeOf
      <4>3. d[m].parent \in 1..Len(d)
        <5>1. d[m].parent \in 0..m - 1
          BY <2>1 DEF NodeOf
        <5> QED
          BY <1>0, <4>1, <5>1
      <4>4. e[d[m].parent].children = d[d[m].parent].children
        BY <1>10, <4>3
      <4>5. m \in d[d[m].parent].attrs => m \in e[d[m].parent].attrs
        BY <1>7, <1>10, <4>1, <4>3 DEF as
      <4> QED
        BY <4>1, <4>2, <4>4, <4>5 DEF IsAttribute
    <3> QED
      BY <3>1, <3>2
  <2>7. e[m].children # <<>> => e[m].kind \in {"document", "element"}
    <3>1. d[m].children # <<>> => d[m].kind \in {"document", "element"}
      BY <2>1 DEF NodeOf
    <3> QED
      BY <1>10, <3>1
  <2>8. e[m].attrs # {} => IsElement(e, m)
    <3>1. d[m].attrs # {} => IsElement(d, m)
      BY <2>1 DEF NodeOf
    <3> QED
      BY <1>10, <3>1 DEF IsElement
  <2> QED
    BY <2>2, <2>3, <2>4, <2>5, <2>6, <2>7, <2>8 DEF NodeOf
<1>14. IsForest(e)
  BY <1>1, <1>12, <1>13 DEF IsForest
<1>15. Keeps(d, e)
  BY <1>0, <1>1, <1>10 DEF Keeps
<1>16. \A m \in 1..Len(d) : m # n => e[m].parent = d[m].parent \/ (IsAttribute(d, m) /\ e[m].parent = 0)
  BY <1>6, <1>9, <1>10
<1>17. ASSUME NEW K \in SUBSET (1..Len(d)), Closed(d, K), o \notin K, n \notin K
       PROVE  Closed(e, K) /\ \A m \in K : e[m] = d[m]
  <2>1. \A m \in others : m \notin K
    BY <1>0, <1>2, <1>6, <1>17 DEF Closed
  <2>2. \A m \in K : e[m] = d[m]
    BY <1>4, <1>17, <2>1
  <2>3. ASSUME NEW m \in 1..Len(e), e[m].parent # 0 PROVE m \in K <=> e[m].parent \in K
    <3>1. m \in 1..Len(d)
      BY <1>1
    <3>2. CASE m = n
      BY <1>8, <1>17, <3>2
    <3>3. CASE m # n
      <4>1. e[m].parent = d[m].parent
        BY <1>16, <2>3, <3>1, <3>3
      <4> QED
        BY <1>17, <2>3, <3>1, <4>1 DEF Closed
    <3> QED
      BY <3>2, <3>3
  <2>4. K \subseteq 1..Len(e)
    BY <1>1
  <2> QED
    BY <2>2, <2>3, <2>4 DEF Closed
<1> QED
  BY <1>1, <1>8, <1>14, <1>15, <1>16, <1>17 DEF e

LEMMA NewAttribute ==
  ASSUME NEW d, IsForest(d), NEW new, Fresh(new), new.kind = "attribute",
         NEW p \in 1..Len(d), IsElement(d, p)
  PROVE  LET e == SetAttributeNode(Append(d, new), p, Len(d) + 1)
         IN Change(d, e, p) /\ Stays(d, e) /\ Len(e) = Len(d) + 1
<1> DEFINE c == Append(d, new)
           N == Len(d) + 1
           e == SetAttributeNode(c, p, N)
<1>0. Len(d) \in Nat /\ p \in Nat /\ N \in Nat
  BY ForestIs
<1>1. Len(c) = N /\ c[N] = new /\ \A n \in 1..Len(d) : c[n] = d[n]
  BY AppendIs
<1>2. IsForest(c)
  BY AppendForest
<1> HIDE DEF c, N
<1>3. N \in 1..Len(c) /\ p \in 1..N - 1
  BY <1>0, <1>1 DEF N
<1>4. IsAttribute(c, N) /\ c[N].parent \in {0, p} /\ IsElement(c, p)
  BY <1>1 DEF IsAttribute, IsElement, Fresh
<1>5. IsForest(e) /\ Keeps(c, e) /\ Len(e) = Len(c)
  BY <1>2, <1>3, <1>4, SetAttribute
<1>6. \A m \in 1..Len(c) : m # N => e[m].parent = c[m].parent \/ (IsAttribute(c, m) /\ e[m].parent = 0)
  BY <1>2, <1>3, <1>4, SetAttribute
<1>7. \A K \in SUBSET (1..Len(c)) :
        Closed(c, K) /\ p \notin K /\ N \notin K => Closed(e, K) /\ \A m \in K : e[m] = c[m]
  BY <1>2, <1>3, <1>4, SetAttribute
<1> HIDE DEF e
<1>8. \A m \in 1..Len(d) : m \in 1..Len(c) /\ m # N /\ c[m] = d[m]
  BY <1>0, <1>1 DEF N
<1>9. Keeps(d, e)
  <2>1. Len(d) <= Len(e)
    BY <1>0, <1>1, <1>5 DEF N
  <2> QED
    BY <1>5, <1>8, <2>1 DEF Keeps
<1>10. Stays(d, e)
  BY <1>6, <1>8 DEF Stays, IsAttribute
<1>11. Within(d, e, p)
  <2>1. SUFFICES ASSUME NEW K \in SUBSET (1..Len(d)), Closed(d, K), p \notin K
                 PROVE  Closed(e, K) /\ \A n \in K : e[n] = d[n]
    BY DEF Within
  <2>2. K \subseteq 1..Len(c) /\ N \notin K
    BY <1>8
  <2>3. Closed(c, K)
    <3>1. ASSUME NEW n \in 1..Len(c), c[n].parent # 0 PROVE n \in K <=> c[n].parent \in K
      <4>1. n \in 1..Len(d)
        <5>1. n = N \/ n \in 1..Len(d)
          BY <1>0, <1>1 DEF N
        <5>2. n # N
          BY <1>1, <3>1 DEF Fresh
        <5> QED
          BY <5>1, <5>2
      <4> QED
        BY <1>1, <2>1, <3>1, <4>1 DEF Closed
    <3> QED
      BY <2>2, <3>1 DEF Closed
  <2> QED
    BY <1>7, <1>8, <2>1, <2>2, <2>3
<1>12. Len(e) = Len(d) + 1
  BY <1>1, <1>5 DEF N
<1> QED
  BY <1>5, <1>9, <1>10, <1>11, <1>12 DEF Change, e, c, N

(***************************************************************************)
(* Values, names and types                                                 *)
(***************************************************************************)
LEMMA ShapeChange ==
  ASSUME NEW d, NEW e, IsForest(d), SameShape(d, e), NEW n, \A m \in 1..Len(d) : m # n => e[m] = d[m]
  PROVE  Change(d, e, n) /\ Stays(d, e)
<1>1. IsForest(e) /\ Keeps(d, e) /\ Stays(d, e)
  BY ShapeKept
<1>2. Within(d, e, n)
  <2>1. SUFFICES ASSUME NEW K \in SUBSET (1..Len(d)), Closed(d, K), n \notin K
                 PROVE  Closed(e, K) /\ \A m \in K : e[m] = d[m]
    BY DEF Within
  <2>2. Closed(e, K)
    BY <2>1, ShapeClosed
  <2> QED
    BY <2>1, <2>2
<1> QED
  BY <1>1, <1>2 DEF Change

LEMMA ParentIs ==
  ASSUME NEW d, IsForest(d), NEW n \in 1..Len(d), d[n].parent # 0
  PROVE  /\ d[n].parent \in 1..n - 1 /\ d[n].parent \in 1..Len(d)
         /\ IsAttribute(d, n) => n \in d[d[n].parent].attrs /\ IsElement(d, d[n].parent)
         /\ ~IsAttribute(d, n) =>
              n \in Range(d[d[n].parent].children) /\ d[d[n].parent].kind \in {"document", "element"}
<1> DEFINE p == d[n].parent
<1>0. Len(d) \in Nat /\ NodeOf(d, n)
  BY ForestIs
<1>1. p \in 0..n - 1
  BY <1>0 DEF NodeOf
<1>2. p \in 1..n - 1 /\ p \in 1..Len(d)
  BY <1>0, <1>1
<1>3. NodeOf(d, p) /\ d[p] \in Nodes
  BY <1>2, ForestIs
<1>4. n \in (IF IsAttribute(d, n) THEN d[p].attrs ELSE Range(d[p].children))
  BY <1>0 DEF NodeOf
<1> HIDE DEF p
<1>5. IsAttribute(d, n) => n \in d[p].attrs /\ IsElement(d, p)
  BY <1>3, <1>4 DEF NodeOf
<1>6. ~IsAttribute(d, n) => n \in Range(d[p].children) /\ d[p].kind \in {"document", "element"}
  <2>1. n \in Range(d[p].children) => d[p].children # <<>>
    BY DEF Range
  <2>2. d[p].children # <<>> => d[p].kind \in {"document", "element"}
    BY <1>3 DEF NodeOf
  <2> QED
    BY <1>4, <2>1, <2>2
<1> QED
  BY <1>2, <1>5, <1>6 DEF p

LEMMA ValueChange ==
  ASSUME NEW d, IsForest(d), NEW n \in 1..Len(d), NEW v \in Strings
  PROVE  LET e == [d EXCEPT ![n].value = v]
         IN Change(d, e, n) /\ Stays(d, e) /\ Len(e) = Len(d) /\ \A m \in 1..Len(d) : e[m].parent = d[m].parent
<1> DEFINE e == [d EXCEPT ![n].value = v]
<1>0. d \in Seq(Nodes) /\ Len(d) \in Nat /\ DOMAIN d = 1..Len(d) /\ \A m \in 1..Len(d) : d[m] \in Nodes
  BY ForestIs
<1>1. e \in Seq(Nodes) /\ Len(e) = Len(d)
  <2>1. [d[n] EXCEPT !.value = v] \in Nodes
    BY <1>0 DEF Nodes
  <2>2. e \in [1..Len(d) -> Nodes]
    BY <1>0, <2>1
  <2> QED
    BY <1>0, <2>2
<1>2. e[n] = [d[n] EXCEPT !.value = v] /\ \A m \in 1..Len(d) : m # n => e[m] = d[m]
  BY <1>0
<1> HIDE DEF e
<1>3. /\ e[n].kind = d[n].kind /\ e[n].uri = d[n].uri /\ e[n].origin = d[n].origin
      /\ e[n].parent = d[n].parent /\ e[n].children = d[n].children /\ e[n].attrs = d[n].attrs
  BY <1>0, <1>2 DEF Nodes
<1>4. SameShape(d, e)
  BY <1>1, <1>2, <1>3 DEF SameShape
<1>5. Change(d, e, n) /\ Stays(d, e)
  BY <1>2, <1>4, ShapeChange
<1>6. \A m \in 1..Len(d) : e[m].parent = d[m].parent
  BY <1>4 DEF SameShape
<1> QED
  BY <1>1, <1>5, <1>6 DEF e

LEMMA NameChange ==
  ASSUME NEW d, IsForest(d), NEW n \in 1..Len(d), NEW v \in Names
  PROVE  LET e == [d EXCEPT ![n].name = v]
         IN SameShape(d, e) /\ \A m \in 1..Len(d) : m # n => e[m] = d[m]
<1> DEFINE e == [d EXCEPT ![n].name = v]
<1>0. d \in Seq(Nodes) /\ Len(d) \in Nat /\ DOMAIN d = 1..Len(d) /\ \A m \in 1..Len(d) : d[m] \in Nodes
  BY ForestIs
<1>1. e \in Seq(Nodes) /\ Len(e) = Len(d)
  <2>1. [d[n] EXCEPT !.name = v] \in Nodes
    BY <1>0 DEF Nodes
  <2>2. e \in [1..Len(d) -> Nodes]
    BY <1>0, <2>1
  <2> QED
    BY <1>0, <2>2
<1>2. e[n] = [d[n] EXCEPT !.name = v] /\ \A m \in 1..Len(d) : m # n => e[m] = d[m]
  BY <1>0
<1> HIDE DEF e
<1>3. /\ e[n].kind = d[n].kind /\ e[n].uri = d[n].uri /\ e[n].origin = d[n].origin
      /\ e[n].parent = d[n].parent /\ e[n].children = d[n].children /\ e[n].attrs = d[n].attrs
  BY <1>0, <1>2 DEF Nodes
<1> QED
  BY <1>1, <1>2, <1>3 DEF SameShape, e

LEMMA Renaming ==
  ASSUME NEW d, IsForest(d), NEW n \in 1..Len(d), NEW name \in Names
  PROVE  LET e == RenameNode(d, n, name)
         IN Change(d, e, n) /\ Stays(d, e) /\ e[n].parent = d[n].parent
<1> DEFINE c == [d EXCEPT ![n].name = name]
           o == d[n].parent
           e == SetAttributeNode(c, o, n)
<1>1. SameShape(d, c) /\ \A m \in 1..Len(d) : m # n => c[m] = d[m]
  BY NameChange
<1>2. RenameNode(d, n, name) = IF IsAttribute(d, n) /\ o # 0 THEN e ELSE c
  BY DEF RenameNode
<1> HIDE DEF c
<1>3. Change(d, c, n) /\ Stays(d, c)
  BY <1>1, ShapeChange
<1>4. Len(c) = Len(d) /\ \A m \in 1..Len(d) : c[m].parent = d[m].parent /\ c[m].kind = d[m].kind
  BY <1>1 DEF SameShape
<1>5. CASE ~(IsAttribute(d, n) /\ o # 0)
  BY <1>2, <1>3, <1>4, <1>5
<1>6. CASE IsAttribute(d, n) /\ o # 0
  <2>1. o \in 1..n - 1 /\ o \in 1..Len(d) /\ IsElement(d, o)
    BY <1>6, ParentIs
  <2>2. IsForest(c) /\ Keeps(d, c)
    BY <1>3 DEF Change
  <2>3. n \in 1..Len(c) /\ IsAttribute(c, n) /\ c[n].parent \in {0, o} /\ IsElement(c, o)
    BY <1>4, <1>6, <2>1 DEF IsAttribute, IsElement
  <2> HIDE DEF o
  <2>4. /\ IsForest(e) /\ Keeps(c, e) /\ Len(e) = Len(c) /\ e[n].parent = o
        /\ \A m \in 1..Len(c) : m # n => e[m].parent = c[m].parent \/ (IsAttribute(c, m) /\ e[m].parent = 0)
        /\ \A K \in SUBSET (1..Len(c)) :
             Closed(c, K) /\ o \notin K /\ n \notin K => Closed(e, K) /\ \A m \in K : e[m] = c[m]
    BY <2>1, <2>2, <2>3, SetAttribute
  <2> HIDE DEF e
  <2>5. Keeps(d, e)
    <3>1. Len(d) <= Len(e)
      BY <1>4, <2>4, <2>2 DEF Keeps
    <3> QED
      BY <1>4, <2>2, <2>4, <3>1 DEF Keeps
  <2>6. Stays(d, e)
    BY <1>4, <2>4 DEF Stays, IsAttribute, o
  <2>7. Within(d, e, n)
    <3>1. SUFFICES ASSUME NEW K \in SUBSET (1..Len(d)), Closed(d, K), n \notin K
                   PROVE  Closed(e, K) /\ \A m \in K : e[m] = d[m]
      BY DEF Within
    <3>2. o \notin K
      BY <1>6, <3>1 DEF Closed, o
    <3>3. Closed(c, K) /\ \A m \in K : c[m] = d[m]
      BY <1>3, <3>1 DEF Change, Within
    <3> QED
      BY <1>4, <2>4, <3>1, <3>2, <3>3
  <2> QED
    BY <1>2, <1>6, <2>4, <2>5, <2>6, <2>7 DEF Change, o
<1> QED
  BY <1>5, <1>6

LEMMA TypeRemoved ==
  ASSUME NEW d, IsForest(d), NEW n \in 1..Len(d)
  PROVE  LET e == RemoveType(d, n) IN Change(d, e, n) /\ SameShape(d, e)
<1> DEFINE up == Ancestry(d, ElementOf(d, n))
           loosened == IF ElementOf(d, n) = 0 THEN {} ELSE Loosened(d, ElementOf(d, n))
           e == RemoveType(d, n)
<1>0. d \in Seq(Nodes) /\ Len(d) \in Nat /\ DOMAIN d = 1..Len(d) /\ (\A m \in 1..Len(d) : d[m] \in Nodes)
      /\ NodeOf(d, n) /\ ParentsFirst(d)
  BY ForestIs, ForestsParents
<1>1. e = [m \in 1..Len(d) |->
             IF m \in loosened THEN [d[m] EXCEPT !.type = "any"]
             ELSE IF m = n /\ IsAttribute(d, n) THEN [d[m] EXCEPT !.type = "untyped"]
             ELSE d[m]]
  BY <1>0 DEF RemoveType
<1>2. ElementOf(d, n) # 0 => ElementOf(d, n) \in 1..Len(d)
  BY ParentIs DEF ElementOf
<1>3. ElementOf(d, n) # 0 => loosened \subseteq Range(up)
  BY DEF Loosened, Range
<1>4. ElementOf(d, n) = 0 => loosened = {}
  OBVIOUS
<1> HIDE DEF loosened
<1>5. \A m \in 1..Len(d) : [d[m] EXCEPT !.type = "any"] \in Nodes /\ [d[m] EXCEPT !.type = "untyped"] \in Nodes
  BY <1>0 DEF Nodes, TypesOfNodes
<1>6. e \in Seq(Nodes) /\ Len(e) = Len(d)
  <2>1. \A m \in 1..Len(d) : e[m] \in Nodes
    BY <1>0, <1>1, <1>5
  <2>2. e \in [1..Len(d) -> Nodes]
    BY <1>1, <2>1
  <2> QED
    BY <1>0, <2>2
<1>7. \A m \in 1..Len(d) : \/ e[m] = d[m] /\ m \notin loosened
                           \/ e[m] = [d[m] EXCEPT !.type = "any"] /\ m \in loosened
                           \/ e[m] = [d[m] EXCEPT !.type = "untyped"] /\ m = n
  BY <1>1
<1> HIDE DEF e, up
<1>8. SameShape(d, e)
  <2>1. ASSUME NEW m \in 1..Len(d)
        PROVE  /\ e[m].kind = d[m].kind /\ e[m].uri = d[m].uri /\ e[m].origin = d[m].origin
               /\ e[m].parent = d[m].parent /\ e[m].children = d[m].children /\ e[m].attrs = d[m].attrs
    <3>1. d[m] \in Nodes
      BY <1>0
    <3>2. e[m] = d[m] \/ e[m] = [d[m] EXCEPT !.type = "any"] \/ e[m] = [d[m] EXCEPT !.type = "untyped"]
      BY <1>7
    <3> QED
      BY <3>1, <3>2 DEF Nodes
  <2> QED
    BY <1>6, <2>1 DEF SameShape
<1>9. IsForest(e) /\ Keeps(d, e)
  BY <1>8, ShapeKept
<1>10. Within(d, e, n)
  <2>1. SUFFICES ASSUME NEW K \in SUBSET (1..Len(d)), Closed(d, K), n \notin K
                 PROVE  Closed(e, K) /\ \A m \in K : e[m] = d[m]
    BY DEF Within
  <2>2. ElementOf(d, n) # 0 => ElementOf(d, n) \notin K
    BY <2>1 DEF ElementOf, Closed
  <2>3. ElementOf(d, n) # 0 => \A m \in Range(up) : m \notin K
    BY <1>0, <1>2, <2>1, <2>2, OutsideTree DEF up
  <2>4. \A m \in K : m \notin loosened /\ m # n
    BY <1>3, <1>4, <2>1, <2>3
  <2>5. Closed(e, K)
    BY <1>8, <2>1, ShapeClosed
  <2> QED
    BY <1>7, <2>4, <2>5
<1> QED
  BY <1>8, <1>9, <1>10 DEF Change, e

(***************************************************************************)
(* Removing a node                                                         *)
(***************************************************************************)
Loses(s, t, n) == Range(t) = Range(s) \ {n} /\ IsInjective(t)
TakenOut(s, t, n) == \E at \in 1..Len(s) : s[at] = n /\ t = RemoveAt(s, at)

LEMMA RemovedIs ==
  ASSUME NEW d, IsForest(d), NEW n \in 1..Len(d), d[n].parent # 0
  PROVE  LET e == Removed(d, n)
             p == d[n].parent
         IN /\ e \in Seq(Nodes) /\ Len(e) = Len(d)
            /\ e[n] = [d[n] EXCEPT !.parent = 0]
            /\ \A m \in 1..Len(d) : m # n /\ m # p => e[m] = d[m]
            /\ e[p].kind = d[p].kind /\ e[p].uri = d[p].uri /\ e[p].origin = d[p].origin
            /\ e[p].parent = d[p].parent
            /\ e[p].name = d[p].name /\ e[p].value = d[p].value /\ e[p].type = d[p].type
            /\ e[p].attrs = d[p].attrs \ {n} /\ Loses(d[p].children, e[p].children, n)
            /\ IsAttribute(d, n) => e[p].children = d[p].children
            /\ ~IsAttribute(d, n) => TakenOut(d[p].children, e[p].children, n)
<1> DEFINE e == Removed(d, n)
           p == d[n].parent
           s == d[p].children
<1>0. d \in Seq(Nodes) /\ Len(d) \in Nat /\ DOMAIN d = 1..Len(d) /\ (\A m \in 1..Len(d) : d[m] \in Nodes)
      /\ NodeOf(d, n)
  BY ForestIs
<1>1. p \in 1..n - 1 /\ p \in 1..Len(d) /\ p # n /\ p # 0
  BY ParentIs
<1>2. NodeOf(d, p) /\ d[p] \in Nodes /\ d[n] \in Nodes
  BY <1>1, ForestIs
<1>3. s \in Seq(Nat) /\ IsInjective(s) /\ d[p].attrs \in SUBSET Nat
  BY <1>2 DEF Nodes, NodeOf
<1>4. [d[n] EXCEPT !.parent = 0] \in Nodes
  BY <1>2 DEF Nodes
<1>5. CASE IsAttribute(d, n)
  <2> DEFINE as == d[p].attrs \ {n}
  <2>1. e = [d EXCEPT ![n].parent = 0, ![p].attrs = @ \ {n}]
    BY <1>1, <1>5 DEF Removed
  <2>2. e = [m \in 1..Len(d) |-> IF m = p THEN [d[p] EXCEPT !.attrs = as]
                                 ELSE IF m = n THEN [d[n] EXCEPT !.parent = 0] ELSE d[m]]
    BY <1>0, <1>1, <2>1
  <2> HIDE DEF e
  <2>3. as \in SUBSET Nat
    BY <1>3
  <2> HIDE DEF as
  <2>4. [d[p] EXCEPT !.attrs = as] \in Nodes
    BY <1>2, <2>3 DEF Nodes
  <2>5. e[p] = [d[p] EXCEPT !.attrs = as] /\ e[n] = [d[n] EXCEPT !.parent = 0]
        /\ \A m \in 1..Len(d) : m # n /\ m # p => e[m] = d[m]
    BY <1>1, <2>2
  <2>6. e \in Seq(Nodes) /\ Len(e) = Len(d)
    <3>1. \A m \in 1..Len(d) : e[m] \in Nodes
      BY <1>0, <1>4, <2>4, <2>5
    <3>2. e \in [1..Len(d) -> Nodes]
      BY <2>2, <3>1
    <3> QED
      BY <1>0, <3>2
  <2>7. /\ e[p].kind = d[p].kind /\ e[p].uri = d[p].uri /\ e[p].origin = d[p].origin
        /\ e[p].name = d[p].name /\ e[p].value = d[p].value /\ e[p].type = d[p].type
        /\ e[p].parent = d[p].parent /\ e[p].attrs = as /\ e[p].children = s
    BY <1>2, <2>5 DEF Nodes
  <2>8. n \notin Range(s)
    BY <1>2, <1>5 DEF NodeOf
  <2>9. Loses(s, s, n)
    BY <1>3, <2>8 DEF Loses
  <2> QED
    BY <1>5, <2>5, <2>6, <2>7, <2>9 DEF e, as
<1>6. CASE ~IsAttribute(d, n)
  <2> DEFINE t == RemoveAt(s, PlaceOf(n, s))
  <2>1. e = [d EXCEPT ![n].parent = 0, ![p].children = RemoveAt(@, PlaceOf(n, @))]
    BY <1>1, <1>6 DEF Removed
  <2>2. e = [m \in 1..Len(d) |-> IF m = p THEN [d[p] EXCEPT !.children = t]
                                 ELSE IF m = n THEN [d[n] EXCEPT !.parent = 0] ELSE d[m]]
    BY <1>0, <1>1, <2>1
  <2> HIDE DEF e
  <2>3. n \in Range(s)
    BY <1>6, ParentIs
  <2> HIDE DEF s
  <2>4. PlaceOf(n, s) \in 1..Len(s) /\ s[PlaceOf(n, s)] = n
    BY <1>3, <2>3, SomewhereIn
  <2>5. t \in Seq(Nat) /\ Loses(s, t, n)
    <3>1. t \in Seq(Nat)
      BY <1>3, <2>4, RemoveAtIs
    <3>2. Range(t) = Range(s) \ {s[PlaceOf(n, s)]} /\ IsInjective(t)
      BY <1>3, <2>4, RemovedFrom
    <3> QED
      BY <2>4, <3>1, <3>2 DEF Loses
  <2> HIDE DEF t
  <2>6. [d[p] EXCEPT !.children = t] \in Nodes
    BY <1>2, <2>5 DEF Nodes
  <2>7. e[p] = [d[p] EXCEPT !.children = t] /\ e[n] = [d[n] EXCEPT !.parent = 0]
        /\ \A m \in 1..Len(d) : m # n /\ m # p => e[m] = d[m]
    BY <1>1, <2>2
  <2>8. e \in Seq(Nodes) /\ Len(e) = Len(d)
    <3>1. \A m \in 1..Len(d) : e[m] \in Nodes
      BY <1>0, <1>4, <2>6, <2>7
    <3>2. e \in [1..Len(d) -> Nodes]
      BY <2>2, <3>1
    <3> QED
      BY <1>0, <3>2
  <2>9. /\ e[p].kind = d[p].kind /\ e[p].uri = d[p].uri /\ e[p].origin = d[p].origin
        /\ e[p].name = d[p].name /\ e[p].value = d[p].value /\ e[p].type = d[p].type
        /\ e[p].parent = d[p].parent /\ e[p].attrs = d[p].attrs /\ e[p].children = t
    BY <1>2, <2>7 DEF Nodes
  <2>10. n \notin d[p].attrs
    BY <1>2, <1>6 DEF NodeOf
  <2>11. d[p].attrs = d[p].attrs \ {n}
    BY <2>10
  <2>12. TakenOut(s, e[p].children, n)
    BY <2>4, <2>9 DEF t, TakenOut
  <2> QED
    BY <1>6, <2>5, <2>7, <2>8, <2>9, <2>11, <2>12 DEF e, s
<1> QED
  BY <1>5, <1>6

LEMMA Removal ==
  ASSUME NEW d, IsForest(d), NEW n \in 1..Len(d)
  PROVE  LET e == Removed(d, n)
         IN /\ Change(d, e, n) /\ Len(e) = Len(d)
            /\ e[n].parent = 0 /\ \A m \in 1..Len(d) : m # n => e[m].parent = d[m].parent
<1> DEFINE e == Removed(d, n)
           p == d[n].parent
<1>1. CASE p = 0
  <2>1. e = d
    BY <1>1 DEF Removed
  <2> QED
    BY <1>1, <2>1, NoChange
<1>2. CASE p # 0
  <2>0. d \in Seq(Nodes) /\ Len(d) \in Nat /\ DOMAIN d = 1..Len(d) /\ (\A m \in 1..Len(d) : d[m] \in Nodes)
        /\ (\A m \in 1..Len(d) : NodeOf(d, m))
    BY ForestIs
  <2>1. p \in 1..n - 1 /\ p \in 1..Len(d) /\ p # n
    BY <1>2, ParentIs
  <2>2. /\ e \in Seq(Nodes) /\ Len(e) = Len(d)
        /\ e[n] = [d[n] EXCEPT !.parent = 0]
        /\ \A m \in 1..Len(d) : m # n /\ m # p => e[m] = d[m]
        /\ e[p].kind = d[p].kind /\ e[p].uri = d[p].uri /\ e[p].origin = d[p].origin
        /\ e[p].parent = d[p].parent
        /\ e[p].name = d[p].name /\ e[p].value = d[p].value /\ e[p].type = d[p].type
        /\ e[p].attrs = d[p].attrs \ {n} /\ Loses(d[p].children, e[p].children, n)
        /\ IsAttribute(d, n) => e[p].children = d[p].children
        /\ ~IsAttribute(d, n) => TakenOut(d[p].children, e[p].children, n)
    BY <1>2, RemovedIs, ZenonT(60)
  <2> HIDE DEF e
  <2>3. /\ e[n].kind = d[n].kind /\ e[n].uri = d[n].uri /\ e[n].origin = d[n].origin
        /\ e[n].parent = 0 /\ e[n].attrs = d[n].attrs /\ e[n].children = d[n].children
    BY <2>0, <2>2 DEF Nodes
  <2>4. \A m \in 1..Len(d) :
          /\ e[m].kind = d[m].kind /\ e[m].uri = d[m].uri /\ e[m].origin = d[m].origin
          /\ m # n => e[m].parent = d[m].parent
          /\ m # p => e[m].attrs = d[m].attrs /\ e[m].children = d[m].children
    BY <2>2, <2>3
  <2>5. DOMAIN e = 1..Len(d)
    BY <2>2
  <2>6. \A m \in 1..Len(d) : IsInjective(e[m].children) /\ Range(e[m].children) \subseteq Range(d[m].children)
                             /\ e[m].attrs \subseteq d[m].attrs
    <3>1. \A m \in 1..Len(d) : IsInjective(d[m].children)
      BY <2>0 DEF NodeOf
    <3> QED
      BY <2>2, <2>4, <3>1 DEF Loses
  <2>7. n \notin Range(e[p].children) /\ n \notin e[p].attrs
    BY <2>2 DEF Loses
  <2>8. \A m \in 1..Len(d) : m # n => (m \in Range(d[p].children) => m \in Range(e[p].children))
                                      /\ (m \in d[p].attrs => m \in e[p].attrs)
    BY <2>2 DEF Loses
  <2>9. ASSUME NEW m \in 1..Len(d) PROVE NodeOf(e, m)
    <3>1. NodeOf(d, m)
      BY <2>0
    <3>2. e[m].parent \in 0..m - 1
      <4>1. d[m].parent \in 0..m - 1 /\ 0 \in 0..m - 1
        BY <3>1 DEF NodeOf
      <4> QED
        BY <2>3, <2>4, <4>1
    <3>3. IsInjective(e[m].children)
      BY <2>6
    <3>4. ASSUME NEW c \in Range(e[m].children) PROVE c \in DOMAIN e /\ e[c].parent = m /\ ~IsAttribute(e, c)
      <4>1. c \in Range(d[m].children)
        BY <2>6, <3>4
      <4>2. c \in 1..Len(d) /\ d[c].parent = m /\ ~IsAttribute(d, c)
        BY <2>0, <3>1, <4>1 DEF NodeOf
      <4>3. c # n
        BY <2>7, <3>4, <4>2
      <4> QED
        BY <2>4, <2>5, <4>2, <4>3 DEF IsAttribute
    <3>5. ASSUME NEW a \in e[m].attrs PROVE a \in DOMAIN e /\ e[a].parent = m /\ IsAttribute(e, a)
      <4>1. a \in d[m].attrs
        BY <2>6, <3>5
      <4>2. a \in 1..Len(d) /\ d[a].parent = m /\ IsAttribute(d, a)
        BY <2>0, <3>1, <4>1 DEF NodeOf
      <4>3. a # n
        BY <2>7, <3>5, <4>2
      <4> QED
        BY <2>4, <2>5, <4>2, <4>3 DEF IsAttribute
    <3>6. ASSUME e[m].parent # 0
          PROVE  m \in (IF IsAttribute(e, m) THEN e[e[m].parent].attrs ELSE Range(e[e[m].parent].children))
      <4>1. m # n /\ e[m].parent = d[m].parent /\ e[m].kind = d[m].kind /\ d[m].parent # 0
        BY <2>3, <2>4, <3>6
      <4>2. d[m].parent \in 1..Len(d)
        BY <4>1, ParentIs
      <4>3. m \in (IF IsAttribute(d, m) THEN d[d[m].parent].attrs ELSE Range(d[d[m].parent].children))
        BY <3>1, <4>1 DEF NodeOf
      <4>4. CASE d[m].parent = p
        BY <2>8, <4>1, <4>3, <4>4 DEF IsAttribute
      <4>5. CASE d[m].parent # p
        BY <2>4, <4>1, <4>2, <4>3, <4>5 DEF IsAttribute
      <4> QED
        BY <4>4, <4>5
    <3>7. e[m].children # <<>> => e[m].kind \in {"document", "element"}
      <4>1. d[m].children # <<>> => d[m].kind \in {"document", "element"}
        BY <3>1 DEF NodeOf
      <4>2. d[p].kind \in {"document", "element"}
        BY <1>2, ParentIs DEF IsElement
      <4> QED
        BY <2>4, <4>1, <4>2
    <3>8. e[m].attrs # {} => IsElement(e, m)
      <4>1. d[m].attrs # {} => IsElement(d, m)
        BY <3>1 DEF NodeOf
      <4>2. e[m].attrs # {} => d[m].attrs # {}
        BY <2>6
      <4> QED
        BY <2>4, <4>1, <4>2 DEF IsElement
    <3> QED
      BY <3>2, <3>3, <3>4, <3>5, <3>6, <3>7, <3>8 DEF NodeOf
  <2>10. IsForest(e)
    BY <2>2, <2>5, <2>9 DEF IsForest
  <2>11. Keeps(d, e)
    BY <2>0, <2>2, <2>4 DEF Keeps
  <2>12. Within(d, e, n)
    <3>1. SUFFICES ASSUME NEW K \in SUBSET (1..Len(d)), Closed(d, K), n \notin K
                   PROVE  Closed(e, K) /\ \A m \in K : e[m] = d[m]
      BY DEF Within
    <3>2. p \notin K
      BY <1>2, <3>1 DEF Closed
    <3>3. \A m \in K : e[m] = d[m]
      BY <2>2, <3>1, <3>2
    <3>4. ASSUME NEW m \in 1..Len(e), e[m].parent # 0 PROVE m \in K <=> e[m].parent \in K
      <4>1. m \in 1..Len(d) /\ m # n
        BY <2>2, <2>3, <3>4
      <4>2. e[m].parent = d[m].parent
        BY <2>4, <4>1
      <4> QED
        BY <3>1, <3>4, <4>1, <4>2 DEF Closed
    <3>5. K \subseteq 1..Len(e)
      BY <2>2
    <3> QED
      BY <3>3, <3>4, <3>5 DEF Closed
  <2> QED
    BY <2>2, <2>3, <2>4, <2>10, <2>11, <2>12 DEF Change, e
<1> QED
  BY <1>1, <1>2

(***************************************************************************)
(* The content of the elements: each change concerns that of one element   *)
(* at most.                                                                *)
(***************************************************************************)
LEMMA InOrderIs ==
  ASSUME NEW d, NEW s, NEW x
  PROVE  x \in InOrder(d, s) <=>
           \E j, k \in DOMAIN s : /\ j <= k /\ InContent(d, s[j]) /\ InContent(d, s[k])
                                  /\ x = <<Seen(d, s[j]), Seen(d, s[k])>>
<1> DEFINE P == (DOMAIN s) \X (DOMAIN s)
           Good(l) == l[1] <= l[2] /\ InContent(d, s[l[1]]) /\ InContent(d, s[l[2]])
           Pair(l) == <<Seen(d, s[l[1]]), Seen(d, s[l[2]])>>
<1>1. x \in InOrder(d, s) <=> \E l \in P : Good(l) /\ x = Pair(l)
  BY DEF InOrder
<1>2. ASSUME NEW l \in P, Good(l), x = Pair(l)
      PROVE  \E j, k \in DOMAIN s : /\ j <= k /\ InContent(d, s[j]) /\ InContent(d, s[k])
                                    /\ x = <<Seen(d, s[j]), Seen(d, s[k])>>
  BY <1>2
<1>3. ASSUME NEW j \in DOMAIN s, NEW k \in DOMAIN s, j <= k, InContent(d, s[j]), InContent(d, s[k]),
             x = <<Seen(d, s[j]), Seen(d, s[k])>>
      PROVE  \E l \in P : Good(l) /\ x = Pair(l)
  <2>1. <<j, k>> \in P /\ Good(<<j, k>>) /\ x = Pair(<<j, k>>)
    BY <1>3
  <2> QED
    BY <2>1
<1> HIDE DEF P, Good, Pair
<1> QED
  BY <1>1, <1>2, <1>3

LEMMA InOrderSame ==
  ASSUME NEW d, NEW e, NEW s,
         \A k \in DOMAIN s : InContent(e, s[k]) = InContent(d, s[k]) /\ Seen(e, s[k]) = Seen(d, s[k])
  PROVE  InOrder(e, s) = InOrder(d, s)
<1>1. ASSUME NEW x PROVE x \in InOrder(e, s) <=> x \in InOrder(d, s)
  BY InOrderIs
<1> QED
  BY <1>1

LEMMA OneMore ==
  ASSUME NEW d, NEW S, NEW s \in Seq(S), NEW t \in Seq(S), NEW i \in 1..Len(t), Len(t) = Len(s) + 1,
         ~InContent(d, t[i]), \A j \in 1..Len(t) : j # i => t[j] = IF j < i THEN s[j] ELSE s[j - 1]
  PROVE  InOrder(d, t) = InOrder(d, s)
<1>0. Len(s) \in Nat /\ i \in Nat /\ DOMAIN s = 1..Len(s) /\ DOMAIN t = 1..Len(s) + 1
  OBVIOUS
<1>1. ASSUME NEW x \in InOrder(d, t) PROVE x \in InOrder(d, s)
  <2>1. PICK j \in DOMAIN t, k \in DOMAIN t : /\ j <= k /\ InContent(d, t[j]) /\ InContent(d, t[k])
                                              /\ x = <<Seen(d, t[j]), Seen(d, t[k])>>
    BY InOrderIs
  <2> DEFINE At(l) == IF l < i THEN l ELSE l - 1
  <2>2. j # i /\ k # i
    BY <2>1
  <2>3. j \in 1..Len(s) + 1 /\ k \in 1..Len(s) + 1
    BY <1>0
  <2>4. At(j) \in DOMAIN s /\ At(k) \in DOMAIN s /\ At(j) <= At(k)
    BY <1>0, <2>1, <2>2, <2>3
  <2>5. t[j] = s[At(j)] /\ t[k] = s[At(k)]
    BY <1>0, <2>2, <2>3
  <2> HIDE DEF At
  <2> QED
    BY <2>1, <2>4, <2>5, InOrderIs
<1>2. ASSUME NEW x \in InOrder(d, s) PROVE x \in InOrder(d, t)
  <2>1. PICK j \in DOMAIN s, k \in DOMAIN s : /\ j <= k /\ InContent(d, s[j]) /\ InContent(d, s[k])
                                              /\ x = <<Seen(d, s[j]), Seen(d, s[k])>>
    BY InOrderIs
  <2> DEFINE At(l) == IF l < i THEN l ELSE l + 1
  <2>3. j \in 1..Len(s) /\ k \in 1..Len(s)
    BY <1>0
  <2>4. At(j) \in DOMAIN t /\ At(k) \in DOMAIN t /\ At(j) <= At(k) /\ At(j) # i /\ At(k) # i
    BY <1>0, <2>1, <2>3
  <2>5. t[At(j)] = s[j] /\ t[At(k)] = s[k]
    BY <1>0, <2>3
  <2> HIDE DEF At
  <2> QED
    BY <2>1, <2>4, <2>5, InOrderIs
<1> QED
  BY <1>1, <1>2

LEMMA OneMoreAt ==
  ASSUME NEW d, NEW S, NEW s \in Seq(S), NEW at \in 1..Len(s) + 1, NEW n \in S, ~InContent(d, n)
  PROVE  InOrder(d, InsertAt(s, at, n)) = InOrder(d, s)
<1> DEFINE t == InsertAt(s, at, n)
<1>0. /\ t \in Seq(S) /\ Len(t) = Len(s) + 1
      /\ \A j \in 1..Len(s) + 1 : t[j] = IF j < at THEN s[j] ELSE IF j = at THEN n ELSE s[j - 1]
  <2>1. s \in Seq(S) /\ at \in 1..Len(s) + 1 /\ n \in S
    OBVIOUS
  <2> QED
    BY ONLY <2>1, InsertAtIs, SMTT(60)
<1> HIDE DEF t
<1>1. t \in Seq(S)
  BY <1>0
<1>2. Len(t) = Len(s) + 1
  BY <1>0
<1>3. \A j \in 1..Len(s) + 1 : t[j] = IF j < at THEN s[j] ELSE IF j = at THEN n ELSE s[j - 1]
  BY <1>0
<1>4. at \in 1..Len(t) /\ t[at] = n /\ ~InContent(d, t[at])
  BY <1>2, <1>3
<1>5. \A j \in 1..Len(t) : j # at => t[j] = IF j < at THEN s[j] ELSE s[j - 1]
  BY <1>2, <1>3
<1>6. InOrder(d, t) = InOrder(d, s)
  BY <1>1, <1>2, <1>4, <1>5, OneMore
<1> QED
  BY <1>6 DEF t

LEMMA OneLessAt ==
  ASSUME NEW d, NEW S, NEW s \in Seq(S), NEW at \in 1..Len(s), ~InContent(d, s[at])
  PROVE  InOrder(d, RemoveAt(s, at)) = InOrder(d, s)
<1> DEFINE t == RemoveAt(s, at)
<1>0. Len(s) \in Nat /\ at \in Nat
  OBVIOUS
<1>1. t \in Seq(S)
  BY RemoveAtIs
<1>2. Len(t) = Len(s) - 1
  BY RemoveAtIs
<1>3. \A j \in 1..Len(s) - 1 : t[j] = IF j < at THEN s[j] ELSE s[j + 1]
  BY RemoveAtIs
<1> HIDE DEF t
<1>4. Len(s) = Len(t) + 1
  BY <1>0, <1>2
<1>5. ASSUME NEW j \in 1..Len(s), j # at PROVE s[j] = IF j < at THEN t[j] ELSE t[j - 1]
  <2>1. CASE j < at
    <3>1. j \in 1..Len(s) - 1
      BY <1>0, <2>1
    <3> QED
      BY <1>3, <2>1, <3>1
  <2>2. CASE ~(j < at)
    <3>1. j - 1 \in 1..Len(s) - 1 /\ ~(j - 1 < at) /\ (j - 1) + 1 = j
      BY <1>0, <1>5, <2>2
    <3> QED
      BY <1>3, <2>2, <3>1
  <2> QED
    BY <2>1, <2>2
<1>6. InOrder(d, s) = InOrder(d, t)
  BY <1>1, <1>4, <1>5, OneMore
<1> QED
  BY <1>6 DEF t

LEMMA PlacedAmong ==
  ASSUME NEW d, IsForest(d), NEW n \in 1..Len(d), NEW p \in 1..Len(d), n # p,
         NEW sib, sib = 0 \/ sib \in Range(d[p].children)
  PROVE  \E at \in 1..Len(d[p].children) + 1 :
           InsertBefore(d, p, n, sib)[p].children = InsertAt(d[p].children, at, n)
<1> DEFINE e == InsertBefore(d, p, n, sib)
           s == d[p].children
<1>0. d[p] \in Nodes
  BY ForestIs
<1>1. /\ e \in Seq(Nodes) /\ Len(e) = Len(d)
      /\ e[n] = [d[n] EXCEPT !.parent = p]
      /\ \E at \in 1..Len(s) + 1 : e[p] = [d[p] EXCEPT !.children = InsertAt(s, at, n)]
      /\ \A m \in 1..Len(d) : m # n /\ m # p => e[m] = d[m]
  BY InsertBeforeIs
<1> HIDE DEF e
<1>2. PICK at \in 1..Len(s) + 1 : e[p] = [d[p] EXCEPT !.children = InsertAt(s, at, n)]
  BY <1>1
<1> DEFINE t == InsertAt(s, at, n)
<1>3. e[p] = [d[p] EXCEPT !.children = t]
  BY <1>2
<1> HIDE DEF t, s
<1>4. e[p].children = t
  BY <1>0, <1>3 DEF Nodes
<1> QED
  BY <1>4 DEF e, t, s

\* What of a node belongs to the content of its element.
Looks(d, e, c) ==
  /\ e[c].kind = d[c].kind /\ e[c].origin = d[c].origin
  /\ d[c].kind \in {"text", "attribute"} => e[c].value = d[c].value
  /\ d[c].kind = "attribute" => e[c].name = d[c].name

LEMMA ContentSame ==
  ASSUME NEW d, NEW e, NEW m, e[m].name = d[m].name, e[m].attrs = d[m].attrs,
         \A a \in d[m].attrs : IsAttribute(d, a) /\ Looks(d, e, a),
         InOrder(e, e[m].children) = InOrder(d, d[m].children)
  PROVE  Content(e, m) = Content(d, m)
<1> DEFINE Attrs(f, as) == {<<f[a].origin, f[a].name, f[a].value>> : a \in as}
<1>1. \A a \in d[m].attrs : e[a].origin = d[a].origin /\ e[a].name = d[a].name /\ e[a].value = d[a].value
  BY DEF Looks, IsAttribute
<1>2. Attrs(e, d[m].attrs) = Attrs(d, d[m].attrs)
  BY <1>1
<1>3. Attrs(e, e[m].attrs) = Attrs(d, d[m].attrs)
  BY <1>2
<1> QED
  BY <1>3 DEF Content

LEMMA ChildrenSame ==
  ASSUME NEW d, NEW e, NEW s, \A c \in Range(s) : Looks(d, e, c)
  PROVE  InOrder(e, s) = InOrder(d, s)
<1>1. ASSUME NEW k \in DOMAIN s PROVE InContent(e, s[k]) = InContent(d, s[k]) /\ Seen(e, s[k]) = Seen(d, s[k])
  <2>1. Looks(d, e, s[k])
    BY DEF Range
  <2>2. e[s[k]].kind = d[s[k]].kind /\ e[s[k]].origin = d[s[k]].origin
        /\ (d[s[k]].kind = "text" => e[s[k]].value = d[s[k]].value)
    BY <2>1 DEF Looks
  <2> QED
    BY <2>2 DEF InContent, Seen
<1> QED
  BY <1>1, InOrderSame

\* From d to e no element but p has got another content, and none another type.
Leaves(d, e, p) ==
  \A m \in 1..Len(d) :
    e[m].type = d[m].type /\ (IsElement(d, m) /\ m # p => Content(e, m) = Content(d, m))

LEMMA LeavesItself == ASSUME NEW d, NEW p PROVE Leaves(d, d, p)
BY DEF Leaves

LEMMA LeavesMore ==
  ASSUME NEW d, NEW e, Leaves(d, e, 0), NEW p
  PROVE  Leaves(d, e, p)
<1>1. \A m \in 1..Len(d) : m # 0
  OBVIOUS
<1> QED
  BY <1>1 DEF Leaves

LEMMA LeavesTwice ==
  ASSUME NEW d, NEW e, NEW f, NEW p, Keeps(d, e), Len(d) \in Nat, Len(e) \in Nat, Leaves(d, e, p), Leaves(e, f, p)
  PROVE  Leaves(d, f, p)
<1>1. ASSUME NEW m \in 1..Len(d)
      PROVE  f[m].type = d[m].type /\ (IsElement(d, m) /\ m # p => Content(f, m) = Content(d, m))
  <2>1. m \in 1..Len(e) /\ e[m].kind = d[m].kind
    BY DEF Keeps
  <2> QED
    BY <2>1 DEF Leaves, IsElement
<1> QED
  BY <1>1 DEF Leaves

\* Where the nodes inside m are what they were, so is its content.
LEMMA SameInside ==
  ASSUME NEW d, IsForest(d), NEW e, NEW m \in 1..Len(d),
         e[m].name = d[m].name, e[m].attrs = d[m].attrs, e[m].children = d[m].children,
         \A c \in 1..Len(d) : d[c].parent = m => Looks(d, e, c)
  PROVE  Content(e, m) = Content(d, m)
<1>1. NodeOf(d, m) /\ DOMAIN d = 1..Len(d)
  BY ForestIs
<1>2. \A a \in d[m].attrs : IsAttribute(d, a) /\ Looks(d, e, a)
  BY <1>1 DEF NodeOf
<1>3. \A c \in Range(d[m].children) : Looks(d, e, c)
  BY <1>1 DEF NodeOf
<1>4. InOrder(e, e[m].children) = InOrder(d, d[m].children)
  BY <1>3, ChildrenSame
<1> QED
  BY <1>2, <1>4, ContentSame

\* Setting an attribute again does not count if it was there under that name,
\* but no other element than its own is concerned in any case.
LEMMA SettingLeaves ==
  ASSUME NEW d, IsForest(d), NEW n \in 1..Len(d), NEW o \in 1..n - 1,
         IsAttribute(d, n), d[n].parent \in {0, o}, IsElement(d, o)
  PROVE  Leaves(d, SetAttributeNode(d, o, n), o)
<1> DEFINE e == SetAttributeNode(d, o, n)
           others == Others(d, o, n)
<1>0. Len(d) \in Nat /\ n # o /\ o \in 1..Len(d) /\ \A m \in 1..Len(d) : d[m] \in Nodes
  BY ForestIs
<1>1. /\ others \subseteq 1..Len(d)
      /\ e[n] = [d[n] EXCEPT !.parent = o]
      /\ e[o] = [d[o] EXCEPT !.attrs = (@ \ others) \cup {n}]
      /\ \A m \in others : e[m] = [d[m] EXCEPT !.parent = 0]
      /\ \A m \in 1..Len(d) : m # n /\ m # o /\ m \notin others => e[m] = d[m]
  BY SetAttributeIs
<1> DEFINE as == (d[o].attrs \ others) \cup {n}
<1>2. e[o] = [d[o] EXCEPT !.attrs = as]
  BY <1>1
<1> HIDE DEF e, others, as
<1>3. ASSUME NEW m \in 1..Len(d)
      PROVE  /\ e[m].kind = d[m].kind /\ e[m].origin = d[m].origin /\ e[m].name = d[m].name
             /\ e[m].value = d[m].value /\ e[m].type = d[m].type /\ e[m].children = d[m].children
             /\ m # o => e[m].attrs = d[m].attrs
  <2>1. d[m] \in Nodes
    BY <1>0
  <2>2. \/ e[m] = [d[m] EXCEPT !.parent = o] /\ m = n
        \/ e[m] = [d[m] EXCEPT !.attrs = as] /\ m = o
        \/ e[m] = [d[m] EXCEPT !.parent = 0]
        \/ e[m] = d[m]
    BY <1>1, <1>2
  <2> QED
    BY <2>1, <2>2 DEF Nodes
<1>4. \A m \in 1..Len(d) : Looks(d, e, m)
  BY <1>3 DEF Looks
<1>5. ASSUME NEW m \in 1..Len(d), m # o PROVE Content(e, m) = Content(d, m)
  BY <1>3, <1>4, <1>5, SameInside
<1>6. Leaves(d, e, o)
  BY <1>3, <1>5 DEF Leaves
<1> QED
  BY <1>6 DEF e

InContentKinds == {"element", "text"}

LEMMA NewChildLeaves ==
  ASSUME NEW d, IsForest(d), NEW new, Fresh(new), new.kind # "attribute",
         NEW p \in 1..Len(d), d[p].kind \in {"document", "element"},
         NEW sib, sib = 0 \/ sib \in Range(d[p].children)
  PROVE  LET e == InsertBefore(Append(d, new), p, Len(d) + 1, sib)
         IN Leaves(d, e, p) /\ (new.kind \notin InContentKinds => Leaves(d, e, 0))
<1> DEFINE N == Len(d) + 1
           c == Append(d, new)
           e == InsertBefore(c, p, N, sib)
           s == d[p].children
<1>0. Len(d) \in Nat /\ p \in Nat /\ p # N
  BY ForestIs
<1>11. ChildAdded(d, e, new, p)
  BY NewChild
<1> HIDE DEF e
<1>1. /\ Keeps(d, e) /\ e[N].kind = new.kind
      /\ \A m \in 1..Len(d) : m # p => e[m] = d[m]
      /\ \A m \in 1..Len(d) :
           /\ e[m].name = d[m].name /\ e[m].value = d[m].value /\ e[m].type = d[m].type
           /\ e[m].attrs = d[m].attrs
  BY <1>11 DEF ChildAdded, Change
<1> USE DEF e
<1>2. \A m \in 1..Len(d) : Looks(d, e, m) /\ e[m].type = d[m].type
  BY <1>1 DEF Keeps, Looks
<1>3. \E at \in 1..Len(s) + 1 : e[p].children = InsertAt(s, at, N)
  <2>1. IsForest(c) /\ Len(c) = N /\ \A m \in 1..Len(d) : c[m] = d[m]
    BY AppendForest, AppendIs
  <2> HIDE DEF c
  <2>2. N \in 1..Len(c) /\ p \in 1..Len(c) /\ c[p] = d[p]
    BY <1>0, <2>1
  <2>3. sib = 0 \/ sib \in Range(c[p].children)
    BY <2>2
  <2> HIDE DEF N
  <2>4. \E at \in 1..Len(c[p].children) + 1 :
          InsertBefore(c, p, N, sib)[p].children = InsertAt(c[p].children, at, N)
    BY <1>0, <2>1, <2>2, <2>3, PlacedAmong
  <2> QED
    BY <2>2, <2>4
<1>4. s \in Seq(Nat) /\ N \in Nat /\ Range(s) \subseteq 1..Len(d)
  <2>1. d[p] \in Nodes /\ NodeOf(d, p) /\ DOMAIN d = 1..Len(d)
    BY ForestIs
  <2>2. s \in Seq(Nat)
    BY <2>1 DEF Nodes
  <2>3. Range(s) \subseteq 1..Len(d)
    BY <2>1 DEF NodeOf
  <2> QED
    BY <1>0, <2>2, <2>3
<1> HIDE DEF e, c, s, N
<1>5. ASSUME NEW m \in 1..Len(d), m # p PROVE Content(e, m) = Content(d, m)
  BY <1>1, <1>2, <1>5, SameInside
<1>6. ASSUME new.kind \notin InContentKinds PROVE Content(e, p) = Content(d, p)
  <2>1. PICK at \in 1..Len(s) + 1 : e[p].children = InsertAt(s, at, N)
    BY <1>3
  <2>5. ~InContent(e, N)
    BY <1>1, <1>6 DEF InContent, InContentKinds
  <2>7. InOrder(e, e[p].children) = InOrder(e, s)
    BY <1>4, <2>1, <2>5, OneMoreAt
  <2>8. InOrder(e, s) = InOrder(d, s)
    BY <1>2, <1>4, ChildrenSame
  <2>9. \A a \in d[p].attrs : IsAttribute(d, a) /\ Looks(d, e, a)
    <3>1. NodeOf(d, p) /\ DOMAIN d = 1..Len(d)
      BY ForestIs
    <3> QED
      BY <1>2, <3>1 DEF NodeOf
  <2>10. InOrder(e, e[p].children) = InOrder(d, d[p].children)
    BY <2>7, <2>8 DEF s
  <2> QED
    BY <1>1, <2>9, <2>10, ContentSame
<1>7. Leaves(d, e, p)
  BY <1>2, <1>5 DEF Leaves
<1>8. new.kind \notin InContentKinds => Leaves(d, e, 0)
  BY <1>2, <1>5, <1>6 DEF Leaves
<1> QED
  BY <1>7, <1>8 DEF e, c, N

LEMMA NewAttributeLeaves ==
  ASSUME NEW d, IsForest(d), NEW new, Fresh(new), new.kind = "attribute",
         NEW p \in 1..Len(d), IsElement(d, p)
  PROVE  Leaves(d, SetAttributeNode(Append(d, new), p, Len(d) + 1), p)
<1> DEFINE c == Append(d, new)
           N == Len(d) + 1
           e == SetAttributeNode(c, p, N)
<1>0. Len(d) \in Nat /\ p \in Nat /\ N \in Nat
  BY ForestIs
<1>1. Len(c) = N /\ c[N] = new /\ \A n \in 1..Len(d) : c[n] = d[n]
  BY AppendIs
<1>2. IsForest(c)
  BY AppendForest
<1> HIDE DEF c, N
<1>3. N \in 1..Len(c) /\ p \in 1..N - 1
  BY <1>0, <1>1 DEF N
<1>4. IsAttribute(c, N) /\ c[N].parent \in {0, p} /\ IsElement(c, p)
  BY <1>1 DEF IsAttribute, IsElement, Fresh
<1>5. Leaves(c, e, p) /\ IsForest(c)
  BY <1>2, <1>3, <1>4, SettingLeaves
<1> HIDE DEF e
<1>6. \A m \in 1..Len(d) : m \in 1..Len(c) /\ c[m] = d[m]
  BY <1>0, <1>1 DEF N
<1>7. ASSUME NEW m \in 1..Len(d) PROVE Content(c, m) = Content(d, m)
  BY <1>6, SameInside DEF Looks
<1> QED
  BY <1>5, <1>6, <1>7 DEF Leaves, IsElement, e, c, N

\* The element whose content n is part of, if it is part of any.
PartOf(d, n) == IF IsAttribute(d, n) \/ InContent(d, n) THEN d[n].parent ELSE 0

LEMMA ValueLeaves ==
  ASSUME NEW d, IsForest(d), NEW n \in 1..Len(d), NEW v
  PROVE  Leaves(d, [d EXCEPT ![n].value = v], IF IsElement(d, n) THEN 0 ELSE PartOf(d, n))
<1> DEFINE e == [d EXCEPT ![n].value = v]
           p == IF IsElement(d, n) THEN 0 ELSE PartOf(d, n)
<1>0. DOMAIN d = 1..Len(d) /\ \A m \in 1..Len(d) : d[m] \in Nodes
  BY ForestIs
<1>1. e[n] = [d[n] EXCEPT !.value = v] /\ \A m \in 1..Len(d) : m # n => e[m] = d[m]
  BY <1>0
<1> HIDE DEF e
<1>2. /\ e[n].kind = d[n].kind /\ e[n].origin = d[n].origin /\ e[n].name = d[n].name /\ e[n].type = d[n].type
      /\ e[n].children = d[n].children /\ e[n].attrs = d[n].attrs
  BY <1>0, <1>1 DEF Nodes
<1>3. ASSUME NEW m \in 1..Len(d), m # p, NEW c \in 1..Len(d), d[c].parent = m PROVE Looks(d, e, c)
  <2>1. CASE c # n
    BY <1>1, <2>1 DEF Looks
  <2>2. CASE c = n
    <3>1. d[n].kind \notin {"text", "attribute"}
      BY <1>3, <2>2 DEF PartOf, InContent, IsAttribute, IsElement
    <3> QED
      BY <1>2, <2>2, <3>1 DEF Looks
  <2> QED
    BY <2>1, <2>2
<1> HIDE DEF p
<1>4. ASSUME NEW m \in 1..Len(d)
      PROVE  /\ e[m].type = d[m].type /\ e[m].name = d[m].name
             /\ e[m].attrs = d[m].attrs /\ e[m].children = d[m].children
  BY <1>1, <1>2
<1>5. ASSUME NEW m \in 1..Len(d), m # p PROVE Content(e, m) = Content(d, m)
  BY <1>3, <1>4, <1>5, SameInside
<1> QED
  BY <1>4, <1>5 DEF Leaves, e, p

LEMMA NameLeaves ==
  ASSUME NEW d, IsForest(d), NEW n \in 1..Len(d), NEW name
  PROVE  Leaves(d, [d EXCEPT ![n].name = name], ElementOf(d, n))
<1> DEFINE e == [d EXCEPT ![n].name = name]
           p == ElementOf(d, n)
<1>0. DOMAIN d = 1..Len(d) /\ \A m \in 1..Len(d) : d[m] \in Nodes
  BY ForestIs
<1>1. e[n] = [d[n] EXCEPT !.name = name] /\ \A m \in 1..Len(d) : m # n => e[m] = d[m]
  BY <1>0
<1> HIDE DEF e
<1>2. /\ e[n].kind = d[n].kind /\ e[n].origin = d[n].origin /\ e[n].value = d[n].value /\ e[n].type = d[n].type
      /\ e[n].children = d[n].children /\ e[n].attrs = d[n].attrs
  BY <1>0, <1>1 DEF Nodes
<1>3. ASSUME NEW m \in 1..Len(d), m # p, NEW c \in 1..Len(d), d[c].parent = m PROVE Looks(d, e, c)
  <2>1. CASE c # n
    BY <1>1, <2>1 DEF Looks
  <2>2. CASE c = n
    <3>1. d[n].kind # "attribute"
      BY <1>3, <2>2 DEF ElementOf, IsAttribute
    <3> QED
      BY <1>2, <2>2, <3>1 DEF Looks
  <2> QED
    BY <2>1, <2>2
<1>4. ASSUME NEW m \in 1..Len(d)
      PROVE  /\ e[m].type = d[m].type /\ e[m].attrs = d[m].attrs /\ e[m].children = d[m].children
  BY <1>1, <1>2
<1>5. ASSUME NEW m \in 1..Len(d), IsElement(d, m), m # p PROVE Content(e, m) = Content(d, m)
  <2>1. m # n
    BY <1>5 DEF ElementOf, IsElement, IsAttribute
  <2>2. e[m].name = d[m].name
    BY <1>1, <2>1
  <2> HIDE DEF p
  <2> QED
    BY <1>3, <1>4, <1>5, <2>2, SameInside
<1> QED
  BY <1>4, <1>5 DEF Leaves, e, p

LEMMA RenamingLeaves ==
  ASSUME NEW d, IsForest(d), NEW n \in 1..Len(d), NEW name \in Names
  PROVE  Leaves(d, RenameNode(d, n, name), ElementOf(d, n))
<1> DEFINE c == [d EXCEPT ![n].name = name]
           o == d[n].parent
           e == SetAttributeNode(c, o, n)
<1>1. SameShape(d, c) /\ \A m \in 1..Len(d) : m # n => c[m] = d[m]
  BY NameChange
<1>2. RenameNode(d, n, name) = IF IsAttribute(d, n) /\ o # 0 THEN e ELSE c
  BY DEF RenameNode
<1>3. Leaves(d, c, ElementOf(d, n))
  BY NameLeaves
<1> HIDE DEF c
<1>5. CASE ~(IsAttribute(d, n) /\ o # 0)
  BY <1>2, <1>3, <1>5
<1>6. CASE IsAttribute(d, n) /\ o # 0
  <2>1. o \in 1..n - 1 /\ o \in 1..Len(d) /\ IsElement(d, o) /\ ElementOf(d, n) = o
    BY <1>6, ParentIs DEF ElementOf
  <2>2. Len(c) = Len(d) /\ Len(d) \in Nat /\ IsForest(c) /\ Keeps(d, c)
    BY <1>1, ForestIs, ShapeKept DEF SameShape
  <2>3. c[n].kind = d[n].kind /\ c[n].parent = d[n].parent /\ c[o].kind = d[o].kind
    BY <1>1, <2>1 DEF SameShape
  <2>4. n \in 1..Len(c) /\ IsAttribute(c, n) /\ c[n].parent \in {0, o} /\ IsElement(c, o)
    BY <1>6, <2>1, <2>2, <2>3 DEF IsAttribute, IsElement
  <2> HIDE DEF o
  <2>5. Leaves(c, e, o)
    BY <2>1, <2>2, <2>4, SettingLeaves
  <2> HIDE DEF e
  <2>6. Leaves(d, c, o)
    BY <1>3, <2>1
  <2>7. Leaves(d, e, o)
    BY <2>2, <2>5, <2>6, LeavesTwice
  <2> QED
    BY <1>2, <1>6, <2>1, <2>7
<1> QED
  BY <1>5, <1>6

LEMMA RemovalLeaves ==
  ASSUME NEW d, IsForest(d), NEW n \in 1..Len(d)
  PROVE  Leaves(d, Removed(d, n), PartOf(d, n))
<1> DEFINE e == Removed(d, n)
           p == d[n].parent
<1>0. CASE p = 0
  <2>1. e = d
    BY <1>0 DEF Removed
  <2> QED
    BY <2>1, LeavesItself
<1>1. CASE p # 0
  <2>1. /\ e \in Seq(Nodes) /\ Len(e) = Len(d)
        /\ e[n] = [d[n] EXCEPT !.parent = 0]
        /\ \A m \in 1..Len(d) : m # n /\ m # p => e[m] = d[m]
        /\ e[p].kind = d[p].kind /\ e[p].uri = d[p].uri /\ e[p].origin = d[p].origin
        /\ e[p].parent = d[p].parent
        /\ e[p].name = d[p].name /\ e[p].value = d[p].value /\ e[p].type = d[p].type
        /\ e[p].attrs = d[p].attrs \ {n} /\ Loses(d[p].children, e[p].children, n)
        /\ IsAttribute(d, n) => e[p].children = d[p].children
        /\ ~IsAttribute(d, n) => TakenOut(d[p].children, e[p].children, n)
    BY <1>1, RemovedIs, ZenonT(60)
  <2>2. p \in 1..Len(d) /\ p # n /\ d[n] \in Nodes /\ d[p] \in Nodes /\ NodeOf(d, p)
    BY <1>1, ParentIs, ForestIs
  <2> HIDE DEF e
  <2>3. /\ e[n].kind = d[n].kind /\ e[n].origin = d[n].origin /\ e[n].name = d[n].name /\ e[n].value = d[n].value
        /\ e[n].type = d[n].type /\ e[n].children = d[n].children /\ e[n].attrs = d[n].attrs
    BY <2>1, <2>2 DEF Nodes
  <2> HIDE DEF p
  <2>4. \A m \in 1..Len(d) :
          /\ e[m].kind = d[m].kind /\ e[m].origin = d[m].origin /\ e[m].name = d[m].name /\ e[m].value = d[m].value
          /\ e[m].type = d[m].type
          /\ m # p => e[m].children = d[m].children /\ e[m].attrs = d[m].attrs
    BY <2>1, <2>2, <2>3
  <2>5. \A m \in 1..Len(d) : Looks(d, e, m)
    BY <2>4 DEF Looks
  <2>6. ASSUME NEW m \in 1..Len(d), m # p PROVE Content(e, m) = Content(d, m)
    BY <2>4, <2>5, <2>6, SameInside
  <2>7. ASSUME ~IsAttribute(d, n), ~InContent(d, n) PROVE Content(e, p) = Content(d, p)
    <3> DEFINE s == d[p].children
    <3>1. PICK at \in 1..Len(s) : s[at] = n /\ e[p].children = RemoveAt(s, at)
      BY <2>1, <2>7 DEF TakenOut
    <3>2. e[p].attrs = d[p].attrs
      <4>1. n \notin d[p].attrs
        BY <2>2, <2>7 DEF NodeOf
      <4> QED
        BY <2>1, <4>1
    <3>3. s \in Seq(Nat) /\ DOMAIN d = 1..Len(d)
      BY <2>2, ForestIs DEF Nodes
    <3>4. \A c \in Range(s) : Looks(d, e, c)
      BY <2>2, <2>5, <3>3 DEF NodeOf
    <3>5. \A a \in d[p].attrs : IsAttribute(d, a) /\ Looks(d, e, a)
      BY <2>2, <2>5, <3>3 DEF NodeOf
    <3> HIDE DEF s
    <3>6. ~InContent(e, s[at])
      BY <2>4, <2>7, <3>1 DEF InContent
    <3>7. InOrder(e, RemoveAt(s, at)) = InOrder(e, s)
      BY <3>3, <3>6, OneLessAt
    <3>8. InOrder(e, s) = InOrder(d, s)
      BY <3>4, ChildrenSame
    <3>9. InOrder(e, e[p].children) = InOrder(d, d[p].children)
      BY <3>1, <3>7, <3>8 DEF s
    <3> QED
      BY <2>4, <2>2, <3>2, <3>5, <3>9, ContentSame
  <2>8. ASSUME NEW m \in 1..Len(d), m # PartOf(d, n) PROVE Content(e, m) = Content(d, m)
    BY <2>6, <2>7, <2>8 DEF PartOf, p
  <2>9. Leaves(d, e, PartOf(d, n))
    BY <2>4, <2>8 DEF Leaves
  <2> QED
    BY <2>9 DEF e
<1> QED
  BY <1>0, <1>1

\* No element is taken out of its tree.
Stands(d, e) ==
  \A m \in 1..Len(d) : e[m].parent = d[m].parent \/ (~IsElement(d, m) /\ e[m].parent = 0)

LEMMA StaysStands == ASSUME NEW d, NEW e, Stays(d, e) PROVE Stands(d, e)
BY DEF Stays, Stands, IsAttribute, IsElement

LEMMA PIRenamingLeaves ==
  ASSUME IsForest(dom), NEW u \in Nat, NEW t \in 1..Len(dom), dom[t].kind = "pi", dom[t].parent # 0, NEW name \in Names
  PROVE  LET d == RenamedPI(u, t, name) IN Leaves(dom, d, 0) /\ Stands(dom, d)
<1> DEFINE p == dom[t].parent
           new == [dom[t] EXCEPT !.name = name, !.parent = 0, !.origin = <<u, 1>>]
           c == InsertBefore(Append(dom, new), p, Len(dom) + 1, t)
<1>1. NodeOf(dom, t) /\ dom[t] \in Nodes
  BY ForestIs
<1>2. dom[t].children = <<>> /\ dom[t].attrs = {}
  BY <1>1 DEF NodeOf, IsElement
<1>3. <<u, 1>> \in Nat \X Nat
  OBVIOUS
<1>4. Fresh(new) /\ new.kind = "pi"
  BY <1>1, <1>2, <1>3 DEF Fresh, Nodes
<1>5. p \in 1..Len(dom) /\ t \in Range(dom[p].children) /\ dom[p].kind \in {"document", "element"}
  BY ParentIs DEF IsAttribute
<1>6. RenamedPI(u, t, name) = Removed(c, t)
  BY DEF RenamedPI
<1>7. new.kind # "attribute" /\ new.kind \notin InContentKinds
  BY <1>4 DEF InContentKinds
<1> HIDE DEF new, p
<1>8. Change(dom, c, p) /\ Len(c) = Len(dom) + 1
  BY <1>4, <1>5, <1>7, NewChild DEF ChildAdded
<1>9. \A m \in 1..Len(dom) : c[m].parent = dom[m].parent
  BY <1>4, <1>5, <1>7, NewChild DEF ChildAdded
<1>10. Leaves(dom, c, 0)
  BY <1>4, <1>5, <1>7, NewChildLeaves
<1> HIDE DEF c
<1>11. Len(dom) \in Nat /\ IsForest(c) /\ Keeps(dom, c) /\ t \in 1..Len(c) /\ Len(c) \in Nat
  BY <1>8, ForestIs DEF Change
<1>12. c[t].kind = "pi"
  BY <1>11 DEF Keeps
<1> DEFINE d == Removed(c, t)
<1>13. Leaves(c, d, 0)
  <2>1. PartOf(c, t) = 0
    BY <1>12 DEF PartOf, IsAttribute, InContent
  <2> HIDE DEF d
  <2> QED
    BY <1>11, <2>1, RemovalLeaves DEF d
<1>14. d[t].parent = 0 /\ \A m \in 1..Len(c) : m # t => d[m].parent = c[m].parent
  BY <1>11, Removal
<1> HIDE DEF d
<1>15. Leaves(dom, d, 0)
  BY <1>10, <1>11, <1>13, LeavesTwice
<1>16. Stands(dom, d)
  BY <1>8, <1>9, <1>11, <1>14 DEF Stands, IsElement
<1> QED
  BY <1>6, <1>15, <1>16 DEF d

(***************************************************************************)
(* The names of an element: its own and those of its attributes.           *)
(***************************************************************************)
NamesOn(d, m) == {d[x].name : x \in {m} \cup d[m].attrs}

\* From d to e no element gets a name, except o, which may get some of these.
Adds(d, e, o, names) ==
  \A m \in 1..Len(d) : IsElement(d, m) => NamesOn(e, m) \subseteq NamesOn(d, m) \cup (IF m = o THEN names ELSE {})

\* Names stay, and no element gets an attribute.
SameNames(d, e) ==
  \A m \in 1..Len(d) : e[m].name = d[m].name /\ e[m].attrs \subseteq d[m].attrs

LEMMA SameNamesTwice ==
  ASSUME NEW d, NEW e, NEW f, Len(d) \in Nat, Len(e) \in Nat, Len(d) <= Len(e), SameNames(d, e), SameNames(e, f)
  PROVE  SameNames(d, f)
<1>1. \A m \in 1..Len(d) : m \in 1..Len(e)
  OBVIOUS
<1> QED
  BY <1>1 DEF SameNames

LEMMA SameNamesAdd ==
  ASSUME NEW d, IsForest(d), NEW e, SameNames(d, e), NEW o, NEW names
  PROVE  Adds(d, e, o, names)
<1>1. ASSUME NEW m \in 1..Len(d) PROVE NamesOn(e, m) \subseteq NamesOn(d, m)
  <2>1. \A x \in {m} \cup d[m].attrs : x \in 1..Len(d)
    BY ForestIs DEF NodeOf
  <2>2. \A x \in {m} \cup e[m].attrs : x \in {m} \cup d[m].attrs /\ e[x].name = d[x].name
    BY <2>1 DEF SameNames
  <2> QED
    BY <2>2 DEF NamesOn
<1> QED
  BY <1>1 DEF Adds

LEMMA AddsTwice ==
  ASSUME NEW d, NEW e, NEW f, NEW o, NEW names, Keeps(d, e), Len(d) \in Nat, Len(e) \in Nat,
         Adds(d, e, o, names), Adds(e, f, o, names)
  PROVE  Adds(d, f, o, names)
<1>1. ASSUME NEW m \in 1..Len(d), IsElement(d, m)
      PROVE  NamesOn(f, m) \subseteq NamesOn(d, m) \cup (IF m = o THEN names ELSE {})
  <2>1. m \in 1..Len(e) /\ IsElement(e, m)
    BY <1>1 DEF Keeps, IsElement
  <2>2. NamesOn(e, m) \subseteq NamesOn(d, m) \cup (IF m = o THEN names ELSE {})
    BY <1>1 DEF Adds
  <2>3. NamesOn(f, m) \subseteq NamesOn(e, m) \cup (IF m = o THEN names ELSE {})
    BY <2>1 DEF Adds
  <2> QED
    BY <2>2, <2>3
<1> QED
  BY <1>1 DEF Adds

LEMMA AddsMore ==
  ASSUME NEW d, NEW e, NEW o, NEW some, NEW names, some \subseteq names, Adds(d, e, o, some)
  PROVE  Adds(d, e, o, names)
BY DEF Adds

LEMMA SettingAdds ==
  ASSUME NEW d, IsForest(d), NEW n \in 1..Len(d), NEW o \in 1..n - 1,
         IsAttribute(d, n), d[n].parent \in {0, o}, IsElement(d, o)
  PROVE  Adds(d, SetAttributeNode(d, o, n), o, {d[n].name})
<1> DEFINE e == SetAttributeNode(d, o, n)
           others == Others(d, o, n)
<1>0. Len(d) \in Nat /\ n # o /\ o \in 1..Len(d) /\ \A m \in 1..Len(d) : d[m] \in Nodes
  BY ForestIs
<1>1. /\ others \subseteq 1..Len(d)
      /\ e[n] = [d[n] EXCEPT !.parent = o]
      /\ e[o] = [d[o] EXCEPT !.attrs = (@ \ others) \cup {n}]
      /\ \A m \in others : e[m] = [d[m] EXCEPT !.parent = 0]
      /\ \A m \in 1..Len(d) : m # n /\ m # o /\ m \notin others => e[m] = d[m]
  BY SetAttributeIs
<1> DEFINE as == (d[o].attrs \ others) \cup {n}
<1>2. e[o] = [d[o] EXCEPT !.attrs = as] /\ as \subseteq d[o].attrs \cup {n}
  BY <1>1
<1> HIDE DEF e, others, as
<1>3. ASSUME NEW m \in 1..Len(d)
      PROVE  /\ e[m].name = d[m].name /\ (m # o => e[m].attrs = d[m].attrs)
             /\ m = o => e[m].attrs \subseteq d[m].attrs \cup {n}
  <2>1. d[m] \in Nodes
    BY <1>0
  <2>2. \/ e[m] = [d[m] EXCEPT !.parent = o] /\ m = n
        \/ e[m] = [d[m] EXCEPT !.attrs = as] /\ m = o
        \/ e[m] = [d[m] EXCEPT !.parent = 0] /\ m # o
        \/ e[m] = d[m] /\ m # o
    BY <1>0, <1>1, <1>2
  <2> QED
    BY <1>0, <1>2, <2>1, <2>2 DEF Nodes
<1>4. ASSUME NEW m \in 1..Len(d)
      PROVE  NamesOn(e, m) \subseteq NamesOn(d, m) \cup (IF m = o THEN {d[n].name} ELSE {})
  <2>1. \A x \in {m} \cup d[m].attrs : x \in 1..Len(d)
    BY ForestIs DEF NodeOf
  <2>2. \A x \in {m} \cup e[m].attrs :
          (x \in {m} \cup d[m].attrs \/ (m = o /\ x = n)) /\ e[x].name = d[x].name
    BY <1>3, <2>1
  <2> QED
    BY <2>2 DEF NamesOn
<1> QED
  BY <1>4 DEF Adds, e

LEMMA NewAttributeAdds ==
  ASSUME NEW d, IsForest(d), NEW new, Fresh(new), new.kind = "attribute",
         NEW p \in 1..Len(d), IsElement(d, p)
  PROVE  Adds(d, SetAttributeNode(Append(d, new), p, Len(d) + 1), p, {new.name})
<1> DEFINE c == Append(d, new)
           N == Len(d) + 1
           e == SetAttributeNode(c, p, N)
<1>0. Len(d) \in Nat /\ p \in Nat /\ N \in Nat
  BY ForestIs
<1>1. Len(c) = N /\ c[N] = new /\ \A n \in 1..Len(d) : c[n] = d[n]
  BY AppendIs
<1>2. IsForest(c)
  BY AppendForest
<1> HIDE DEF c, N
<1>3. N \in 1..Len(c) /\ p \in 1..N - 1
  BY <1>0, <1>1 DEF N
<1>4. IsAttribute(c, N) /\ c[N].parent \in {0, p} /\ IsElement(c, p)
  BY <1>1 DEF IsAttribute, IsElement, Fresh
<1>5. Adds(c, e, p, {new.name})
  BY <1>1, <1>2, <1>3, <1>4, SettingAdds
<1> HIDE DEF e
<1>6. SameNames(d, c)
  BY <1>1 DEF SameNames
<1>7. Keeps(d, c) /\ Len(c) \in Nat
  BY <1>0, <1>1 DEF Keeps, N
<1>8. Adds(d, c, p, {new.name})
  BY <1>6, SameNamesAdd
<1> QED
  BY <1>0, <1>5, <1>7, <1>8, AddsTwice DEF e, c, N

LEMMA NameAdds ==
  ASSUME NEW d, IsForest(d), NEW n \in 1..Len(d), NEW name
  PROVE  Adds(d, [d EXCEPT ![n].name = name], ElementOf(d, n), {name})
<1> DEFINE e == [d EXCEPT ![n].name = name]
<1>0. DOMAIN d = 1..Len(d) /\ \A m \in 1..Len(d) : d[m] \in Nodes
  BY ForestIs
<1>1. e[n] = [d[n] EXCEPT !.name = name] /\ \A m \in 1..Len(d) : m # n => e[m] = d[m]
  BY <1>0
<1> HIDE DEF e
<1>2. e[n].name = name /\ e[n].attrs = d[n].attrs
  BY <1>0, <1>1 DEF Nodes
<1>3. ASSUME NEW m \in 1..Len(d), IsElement(d, m)
      PROVE  NamesOn(e, m) \subseteq NamesOn(d, m) \cup (IF m = ElementOf(d, n) THEN {name} ELSE {})
  <2>1. \A x \in {m} \cup d[m].attrs : x \in 1..Len(d) /\ (x = n => m = ElementOf(d, n))
    BY <1>0, <1>3, ForestIs DEF NodeOf, ElementOf, IsAttribute, IsElement
  <2>2. \A x \in {m} \cup e[m].attrs :
          x \in {m} \cup d[m].attrs /\ (e[x].name = d[x].name \/ (m = ElementOf(d, n) /\ e[x].name = name))
    BY <1>1, <1>2, <2>1
  <2> QED
    BY <2>2 DEF NamesOn
<1> QED
  BY <1>3 DEF Adds, e

LEMMA RenamingAdds ==
  ASSUME NEW d, IsForest(d), NEW n \in 1..Len(d), NEW name \in Names
  PROVE  Adds(d, RenameNode(d, n, name), ElementOf(d, n), {name})
<1> DEFINE c == [d EXCEPT ![n].name = name]
           o == d[n].parent
           e == SetAttributeNode(c, o, n)
<1>1. SameShape(d, c) /\ \A m \in 1..Len(d) : m # n => c[m] = d[m]
  BY NameChange
<1>2. RenameNode(d, n, name) = IF IsAttribute(d, n) /\ o # 0 THEN e ELSE c
  BY DEF RenameNode
<1>3. Adds(d, c, ElementOf(d, n), {name})
  BY NameAdds
<1>4. c[n].name = name
  <2>1. DOMAIN d = 1..Len(d) /\ d[n] \in Nodes
    BY ForestIs
  <2> QED
    BY <2>1 DEF Nodes
<1> HIDE DEF c
<1>5. CASE ~(IsAttribute(d, n) /\ o # 0)
  BY <1>2, <1>3, <1>5
<1>6. CASE IsAttribute(d, n) /\ o # 0
  <2>1. o \in 1..n - 1 /\ o \in 1..Len(d) /\ IsElement(d, o) /\ ElementOf(d, n) = o
    BY <1>6, ParentIs DEF ElementOf
  <2>2. Len(c) = Len(d) /\ Len(d) \in Nat /\ IsForest(c) /\ Keeps(d, c)
    BY <1>1, ForestIs, ShapeKept DEF SameShape
  <2>3. c[n].kind = d[n].kind /\ c[n].parent = d[n].parent /\ c[o].kind = d[o].kind
    BY <1>1, <2>1 DEF SameShape
  <2>4. n \in 1..Len(c) /\ IsAttribute(c, n) /\ c[n].parent \in {0, o} /\ IsElement(c, o)
    BY <1>6, <2>1, <2>2, <2>3 DEF IsAttribute, IsElement
  <2> HIDE DEF o
  <2>5. Adds(c, e, o, {name})
    BY <1>4, <2>1, <2>2, <2>4, SettingAdds
  <2> HIDE DEF e
  <2>6. Adds(d, c, o, {name})
    BY <1>3, <2>1
  <2>7. Adds(d, e, o, {name})
    BY <2>2, <2>5, <2>6, AddsTwice
  <2> QED
    BY <1>2, <1>6, <2>1, <2>7
<1> QED
  BY <1>5, <1>6

LEMMA RemovalNames ==
  ASSUME NEW d, IsForest(d), NEW n \in 1..Len(d)
  PROVE  SameNames(d, Removed(d, n))
<1> DEFINE e == Removed(d, n)
           p == d[n].parent
<1>0. CASE p = 0
  <2>1. e = d
    BY <1>0 DEF Removed
  <2> QED
    BY <2>1 DEF SameNames
<1>1. CASE p # 0
  <2>1. /\ e \in Seq(Nodes) /\ Len(e) = Len(d)
        /\ e[n] = [d[n] EXCEPT !.parent = 0]
        /\ \A m \in 1..Len(d) : m # n /\ m # p => e[m] = d[m]
        /\ e[p].kind = d[p].kind /\ e[p].uri = d[p].uri /\ e[p].origin = d[p].origin
        /\ e[p].parent = d[p].parent
        /\ e[p].name = d[p].name /\ e[p].value = d[p].value /\ e[p].type = d[p].type
        /\ e[p].attrs = d[p].attrs \ {n} /\ Loses(d[p].children, e[p].children, n)
        /\ IsAttribute(d, n) => e[p].children = d[p].children
        /\ ~IsAttribute(d, n) => TakenOut(d[p].children, e[p].children, n)
    BY <1>1, RemovedIs, ZenonT(60)
  <2>2. d[n] \in Nodes
    BY ForestIs
  <2> HIDE DEF e
  <2>3. e[n].name = d[n].name /\ e[n].attrs = d[n].attrs
    BY <2>1, <2>2 DEF Nodes
  <2> HIDE DEF p
  <2>4. ASSUME NEW m \in 1..Len(d) PROVE e[m].name = d[m].name /\ e[m].attrs \subseteq d[m].attrs
    BY <2>1, <2>3
  <2>5. SameNames(d, e)
    BY <2>4 DEF SameNames
  <2> QED
    BY <2>5 DEF e
<1> QED
  BY <1>0, <1>1

LEMMA NewChildNames ==
  ASSUME NEW d, NEW e, NEW new, NEW p, ChildAdded(d, e, new, p)
  PROVE  SameNames(d, e)
BY DEF ChildAdded, SameNames

LEMMA ValueNames ==
  ASSUME NEW d, IsForest(d), NEW n \in 1..Len(d), NEW v
  PROVE  SameNames(d, [d EXCEPT ![n].value = v])
<1> DEFINE e == [d EXCEPT ![n].value = v]
<1>0. DOMAIN d = 1..Len(d) /\ \A m \in 1..Len(d) : d[m] \in Nodes
  BY ForestIs
<1>1. e[n] = [d[n] EXCEPT !.value = v] /\ \A m \in 1..Len(d) : m # n => e[m] = d[m]
  BY <1>0
<1> HIDE DEF e
<1>2. e[n].name = d[n].name /\ e[n].attrs = d[n].attrs
  BY <1>0, <1>1 DEF Nodes
<1>3. SameNames(d, e)
  BY <1>1, <1>2 DEF SameNames
<1> QED
  BY <1>3 DEF e

LEMMA PIRenamingNames ==
  ASSUME IsForest(dom), NEW u \in Nat, NEW t \in 1..Len(dom), dom[t].kind = "pi", dom[t].parent # 0, NEW name \in Names
  PROVE  SameNames(dom, RenamedPI(u, t, name))
<1> DEFINE p == dom[t].parent
           new == [dom[t] EXCEPT !.name = name, !.parent = 0, !.origin = <<u, 1>>]
           c == InsertBefore(Append(dom, new), p, Len(dom) + 1, t)
<1>1. NodeOf(dom, t) /\ dom[t] \in Nodes
  BY ForestIs
<1>2. dom[t].children = <<>> /\ dom[t].attrs = {}
  BY <1>1 DEF NodeOf, IsElement
<1>3. <<u, 1>> \in Nat \X Nat
  OBVIOUS
<1>4. Fresh(new) /\ new.kind = "pi"
  BY <1>1, <1>2, <1>3 DEF Fresh, Nodes
<1>5. p \in 1..Len(dom) /\ t \in Range(dom[p].children) /\ dom[p].kind \in {"document", "element"}
  BY ParentIs DEF IsAttribute
<1>6. RenamedPI(u, t, name) = Removed(c, t)
  BY DEF RenamedPI
<1>7. new.kind # "attribute"
  BY <1>4
<1> HIDE DEF new, p
<1>8. ChildAdded(dom, c, new, p)
  BY <1>4, <1>5, <1>7, NewChild
<1> HIDE DEF c
<1>9. IsForest(c) /\ Len(c) = Len(dom) + 1 /\ Len(dom) \in Nat
  BY <1>8, ForestIs DEF ChildAdded, Change
<1>10. t \in 1..Len(c)
  BY <1>9
<1>11. SameNames(c, Removed(c, t)) /\ SameNames(dom, c)
  BY <1>8, <1>9, <1>10, RemovalNames, NewChildNames
<1> QED
  BY <1>6, <1>9, <1>11, SameNamesTwice

(***************************************************************************)
(* The items of an update, one after the other                             *)
(***************************************************************************)
LEMMA FreshItems ==
  ASSUME NEW item \in ItemsToInsert, NEW type \in TypesOfNodes, NEW origin \in Nat \X Nat
  PROVE  LET new == NewNode(item, type, origin)
         IN Fresh(new) /\ new.kind = item.kind /\ new.type = type /\ new.name = item.name
<1>1. item.kind \in Kinds /\ item.name \in Names /\ item.value \in Strings
  BY DEF ItemsToInsert
<1>2. <<>> \in Seq(Nat) /\ {} \in SUBSET Nat
  OBVIOUS
<1> QED
  BY <1>1, <1>2 DEF NewNode, Fresh, Nodes

Inserting(g, u, p, next) ==
  g = [k \in 0..Len(pul[u].value) |-> IF k = 0 THEN dom ELSE Inserted(g[k - 1], u, k, p, next)]

LEMMA SomeInsertion ==
  ASSUME NEW u, Len(pul[u].value) \in Nat, NEW p, NEW next
  PROVE  \E g : Inserting(g, u, p, next)
<1> DEFINE n == Len(pul[u].value)
           G == {m \in 0..n : \E g : g = [k \in 0..m |-> IF k = 0 THEN dom ELSE Inserted(g[k - 1], u, k, p, next)]}
<1>0. n \in Nat
  OBVIOUS
<1> HIDE DEF n
<1>1. 0 \in G
  <2> DEFINE g == [k \in 0..0 |-> dom]
  <2>1. g = [k \in 0..0 |-> IF k = 0 THEN dom ELSE Inserted(g[k - 1], u, k, p, next)]
    <3>1. \A k \in 0..0 : k = 0
      OBVIOUS
    <3> QED
      BY <3>1
  <2> HIDE DEF g
  <2> QED
    BY <1>0, <2>1
<1>2. ASSUME NEW m \in 1..n, m - 1 \in G PROVE m \in G
  <2>1. PICK g : g = [k \in 0..m - 1 |-> IF k = 0 THEN dom ELSE Inserted(g[k - 1], u, k, p, next)]
    BY <1>2
  <2> DEFINE h == [k \in 0..m |-> IF k = m THEN Inserted(g[m - 1], u, m, p, next) ELSE g[k]]
  <2>2. \A k \in 0..m : h[k] = IF k = m THEN Inserted(g[m - 1], u, m, p, next) ELSE g[k]
    OBVIOUS
  <2>3. h = [k \in 0..m |-> h[k]]
    OBVIOUS
  <2> HIDE DEF h
  <2>4. \A k \in 0..m - 1 : h[k] = g[k]
    BY <2>2
  <2>5. \A k \in 0..m - 1 : g[k] = IF k = 0 THEN dom ELSE Inserted(g[k - 1], u, k, p, next)
    BY <2>1
  <2>6. \A k \in 0..m : k # 0 => k - 1 \in 0..m - 1 /\ h[k - 1] = g[k - 1]
    BY <2>4
  <2>7. ASSUME NEW k \in 0..m PROVE h[k] = IF k = 0 THEN dom ELSE Inserted(h[k - 1], u, k, p, next)
    <3>1. CASE k = m
      <4>1. k # 0
        BY <3>1
      <4> QED
        BY <2>2, <2>6, <3>1, <4>1
    <3>2. CASE k # m
      <4>1. k \in 0..m - 1
        BY <3>2
      <4> QED
        BY <2>4, <2>5, <2>6, <4>1
    <3> QED
      BY <3>1, <3>2
  <2>8. h = [k \in 0..m |-> IF k = 0 THEN dom ELSE Inserted(h[k - 1], u, k, p, next)]
    BY <2>3, <2>7
  <2> QED
    BY <2>8
<1> HIDE DEF G
<1>3. \A j \in 0..n : j \in G
  BY <1>0, <1>1, <1>2, StepByStep
<1>4. n \in G
  BY <1>0, <1>3
<1> QED
  BY <1>4 DEF G, n, Inserting

LEMMA InsertAllIs ==
  ASSUME NEW u, Len(pul[u].value) \in Nat, NEW p, NEW next
  PROVE  \E after :
           /\ after[0] = dom /\ InsertAll(u, p, next) = after[Len(pul[u].value)]
           /\ \A k \in 1..Len(pul[u].value) : after[k] = Inserted(after[k - 1], u, k, p, next)
<1> DEFINE n == Len(pul[u].value)
           after == CHOOSE g : Inserting(g, u, p, next)
<1>0. n \in Nat
  OBVIOUS
<1>1. \E g : Inserting(g, u, p, next)
  BY SomeInsertion
<1>2. InsertAll(u, p, next) = after[n]
  BY DEF InsertAll, Inserting
<1>3. Inserting(after, u, p, next)
  BY <1>1
<1> HIDE DEF after
<1>4. \A k \in 0..n : after[k] = IF k = 0 THEN dom ELSE Inserted(after[k - 1], u, k, p, next)
  BY <1>3 DEF Inserting
<1> HIDE DEF n
<1>5. 0 \in 0..n /\ \A k \in 1..n : k \in 0..n /\ k # 0
  BY <1>0
<1>6. after[0] = dom /\ \A k \in 1..n : after[k] = Inserted(after[k - 1], u, k, p, next)
  BY <1>4, <1>5
<1> QED
  BY <1>2, <1>6 DEF n

Setting(g, u, e) ==
  g = [k \in 0..Len(pul[u].value) |-> IF k = 0 THEN dom ELSE AttributeSet(g[k - 1], u, k, e)]

LEMMA SomeAttributes ==
  ASSUME NEW u, Len(pul[u].value) \in Nat, NEW e
  PROVE  \E g : Setting(g, u, e)
<1> DEFINE n == Len(pul[u].value)
           G == {m \in 0..n : \E g : g = [k \in 0..m |-> IF k = 0 THEN dom ELSE AttributeSet(g[k - 1], u, k, e)]}
<1>0. n \in Nat
  OBVIOUS
<1> HIDE DEF n
<1>1. 0 \in G
  <2> DEFINE g == [k \in 0..0 |-> dom]
  <2>1. g = [k \in 0..0 |-> IF k = 0 THEN dom ELSE AttributeSet(g[k - 1], u, k, e)]
    <3>1. \A k \in 0..0 : k = 0
      OBVIOUS
    <3> QED
      BY <3>1
  <2> HIDE DEF g
  <2> QED
    BY <1>0, <2>1
<1>2. ASSUME NEW m \in 1..n, m - 1 \in G PROVE m \in G
  <2>1. PICK g : g = [k \in 0..m - 1 |-> IF k = 0 THEN dom ELSE AttributeSet(g[k - 1], u, k, e)]
    BY <1>2
  <2> DEFINE h == [k \in 0..m |-> IF k = m THEN AttributeSet(g[m - 1], u, m, e) ELSE g[k]]
  <2>2. \A k \in 0..m : h[k] = IF k = m THEN AttributeSet(g[m - 1], u, m, e) ELSE g[k]
    OBVIOUS
  <2>3. h = [k \in 0..m |-> h[k]]
    OBVIOUS
  <2> HIDE DEF h
  <2>4. \A k \in 0..m - 1 : h[k] = g[k]
    BY <2>2
  <2>5. \A k \in 0..m - 1 : g[k] = IF k = 0 THEN dom ELSE AttributeSet(g[k - 1], u, k, e)
    BY <2>1
  <2>6. \A k \in 0..m : k # 0 => k - 1 \in 0..m - 1 /\ h[k - 1] = g[k - 1]
    BY <2>4
  <2>7. ASSUME NEW k \in 0..m PROVE h[k] = IF k = 0 THEN dom ELSE AttributeSet(h[k - 1], u, k, e)
    <3>1. CASE k = m
      <4>1. k # 0
        BY <3>1
      <4> QED
        BY <2>2, <2>6, <3>1, <4>1
    <3>2. CASE k # m
      <4>1. k \in 0..m - 1
        BY <3>2
      <4> QED
        BY <2>4, <2>5, <2>6, <4>1
    <3> QED
      BY <3>1, <3>2
  <2>8. h = [k \in 0..m |-> IF k = 0 THEN dom ELSE AttributeSet(h[k - 1], u, k, e)]
    BY <2>3, <2>7
  <2> QED
    BY <2>8
<1> HIDE DEF G
<1>3. \A j \in 0..n : j \in G
  BY <1>0, <1>1, <1>2, StepByStep
<1>4. n \in G
  BY <1>0, <1>3
<1> QED
  BY <1>4 DEF G, n, Setting

LEMMA SetAllIs ==
  ASSUME NEW u, Len(pul[u].value) \in Nat, NEW e
  PROVE  \E after :
           /\ after[0] = dom /\ SetAll(u, e) = after[Len(pul[u].value)]
           /\ \A k \in 1..Len(pul[u].value) : after[k] = AttributeSet(after[k - 1], u, k, e)
<1> DEFINE n == Len(pul[u].value)
           after == CHOOSE g : Setting(g, u, e)
<1>0. n \in Nat
  OBVIOUS
<1>1. \E g : Setting(g, u, e)
  BY SomeAttributes
<1>2. SetAll(u, e) = after[n]
  BY DEF SetAll, Setting
<1>3. Setting(after, u, e)
  BY <1>1
<1> HIDE DEF after
<1>4. \A k \in 0..n : after[k] = IF k = 0 THEN dom ELSE AttributeSet(after[k - 1], u, k, e)
  BY <1>3 DEF Setting
<1> HIDE DEF n
<1>5. 0 \in 0..n /\ \A k \in 1..n : k \in 0..n /\ k # 0
  BY <1>0
<1>6. after[0] = dom /\ \A k \in 1..n : after[k] = AttributeSet(after[k - 1], u, k, e)
  BY <1>4, <1>5
<1> QED
  BY <1>2, <1>6 DEF n

LEMMA ImportedIs ==
  ASSUME NEW u \in Nat, pul[u].value \in Seq(ItemsToInsert), NEW k \in DOMAIN pul[u].value, IsForest(dom), NEW p \in 1..Len(dom), NEW d
  PROVE  \E new : /\ Fresh(new) /\ new.kind = pul[u].value[k].kind /\ new.name = pul[u].value[k].name
                  /\ Imported(d, u, k, p) = Append(d, new)
<1> DEFINE item == pul[u].value[k]
           new == NewNode(item, ImportedType(p, item), <<u, k>>)
<1>1. item \in ItemsToInsert /\ k \in Nat
  OBVIOUS
<1>2. ImportedType(p, item) \in TypesOfNodes
  BY <1>1 DEF ImportedType, ItemsToInsert, TypesOfNodes
<1>3. <<u, k>> \in Nat \X Nat
  BY <1>1
<1>4. Imported(d, u, k, p) = Append(d, new)
  BY DEF Imported
<1>5. Fresh(new) /\ new.kind = item.kind /\ new.name = item.name
  BY <1>1, <1>2, <1>3, FreshItems
<1> HIDE DEF new
<1> QED
  BY <1>4, <1>5

LEMMA InsertingAll ==
  ASSUME NEW u \in Nat, pul[u].value \in Seq(ItemsToInsert), ~HasAttributes(pul[u].value), IsForest(dom),
         NEW p \in 1..Len(dom), dom[p].kind \in {"document", "element"},
         NEW next, next = 0 \/ next \in Range(dom[p].children)
  PROVE  LET e == InsertAll(u, p, next) IN /\ Change(dom, e, p) /\ Stays(dom, e)
            /\ Leaves(dom, e, p) /\ (~ContainsElementOrText(u) => Leaves(dom, e, 0))
            /\ SameNames(dom, e)
<1> DEFINE n == Len(pul[u].value)
           Good(d) == /\ Change(dom, d, p) /\ Stays(dom, d)
                      /\ next = 0 \/ next \in Range(d[p].children)
                      /\ Leaves(dom, d, p) /\ (~ContainsElementOrText(u) => Leaves(dom, d, 0))
                      /\ SameNames(dom, d)
<1>0. n \in Nat
  OBVIOUS
<1>1. PICK after : /\ after[0] = dom /\ InsertAll(u, p, next) = after[n]
                   /\ \A k \in 1..n : after[k] = Inserted(after[k - 1], u, k, p, next)
  BY <1>0, InsertAllIs
<1> DEFINE G == {k \in 0..n : Good(after[k])}
<1>2. 0 \in G
  BY <1>0, <1>1, NoChange, LeavesItself DEF SameNames
<1>3. ASSUME NEW k \in 1..n, k - 1 \in G PROVE k \in G
  <2> DEFINE d == after[k - 1]
             e == after[k]
  <2>1. Change(dom, d, p) /\ Stays(dom, d) /\ (next = 0 \/ next \in Range(d[p].children))
        /\ Leaves(dom, d, p) /\ (~ContainsElementOrText(u) => Leaves(dom, d, 0)) /\ SameNames(dom, d)
    BY <1>3
  <2>2. k \in DOMAIN pul[u].value
    OBVIOUS
  <2> HIDE DEF d, e
  <2>3. PICK new : /\ Fresh(new) /\ new.kind = pul[u].value[k].kind /\ new.name = pul[u].value[k].name
                   /\ Imported(d, u, k, p) = Append(d, new)
    BY <2>2, ImportedIs
  <2>4. e = InsertBefore(Append(d, new), p, Len(d) + 1, next)
    BY <1>1, <2>3 DEF Inserted, d, e
  <2>5. new.kind # "attribute"
    BY <2>2, <2>3 DEF HasAttributes
  <2>6. IsForest(d) /\ p \in 1..Len(d) /\ d[p].kind \in {"document", "element"}
    <3>1. IsForest(d) /\ Keeps(dom, d)
      BY <2>1 DEF Change
    <3>2. Len(dom) <= Len(d) /\ d[p].kind = dom[p].kind
      BY <3>1 DEF Keeps
    <3>3. Len(dom) \in Nat /\ Len(d) \in Nat
      BY <3>1, ForestIs
    <3> QED
      BY <3>1, <3>2, <3>3
  <2>7. Change(d, e, p) /\ Stays(d, e) /\ Gains(d[p].children, e[p].children, Len(d) + 1)
    BY <2>1, <2>3, <2>4, <2>5, <2>6, NewChild DEF ChildAdded
  <2>8. Change(dom, e, p) /\ Stays(dom, e)
    BY <2>1, <2>7, ChangeTwice
  <2>9. next = 0 \/ next \in Range(e[p].children)
    BY <2>1, <2>7 DEF Gains
  <2>10. k \in 0..n
    OBVIOUS
  <2>11. Leaves(d, e, p) /\ (new.kind \notin InContentKinds => Leaves(d, e, 0))
    BY <2>1, <2>3, <2>4, <2>5, <2>6, NewChildLeaves
  <2>12. Keeps(dom, d) /\ Len(dom) \in Nat /\ Len(d) \in Nat
    BY <2>1, <2>6, ForestIs DEF Change
  <2>13. Leaves(dom, e, p)
    BY <2>1, <2>11, <2>12, LeavesTwice
  <2>14. ASSUME ~ContainsElementOrText(u) PROVE Leaves(dom, e, 0)
    <3>1. new.kind \notin InContentKinds
      BY <2>2, <2>3, <2>14 DEF ContainsElementOrText, InContentKinds
    <3> QED
      BY <2>1, <2>11, <2>12, <2>14, <3>1, LeavesTwice
  <2>15. SameNames(dom, e)
    <3>1. ChildAdded(d, e, new, p)
      BY <2>1, <2>3, <2>4, <2>5, <2>6, NewChild
    <3>2. SameNames(d, e)
      BY <3>1, NewChildNames
    <3> QED
      BY <2>1, <2>12, <3>2, SameNamesTwice DEF Keeps
  <2> QED
    BY <2>8, <2>9, <2>10, <2>13, <2>14, <2>15 DEF e
<1> HIDE DEF G
<1>4. \A k \in 0..n : k \in G
  BY <1>0, <1>2, <1>3, StepByStep
<1>5. n \in 0..n
  BY <1>0
<1> QED
  BY <1>1, <1>4, <1>5 DEF G

ItemNames(u) == {pul[u].value[k].name : k \in DOMAIN pul[u].value}

LEMMA SettingAll ==
  ASSUME NEW u \in Nat, pul[u].value \in Seq(ItemsToInsert),
         \A k \in DOMAIN pul[u].value : pul[u].value[k].kind = "attribute", IsForest(dom),
         NEW o \in 1..Len(dom), IsElement(dom, o)
  PROVE  LET e == SetAll(u, o) IN /\ Change(dom, e, o) /\ Stays(dom, e) /\ Leaves(dom, e, o)
                                 /\ Adds(dom, e, o, ItemNames(u))
<1> DEFINE n == Len(pul[u].value)
           Good(d) == Change(dom, d, o) /\ Stays(dom, d) /\ Leaves(dom, d, o) /\ Adds(dom, d, o, ItemNames(u))
<1>0. n \in Nat
  OBVIOUS
<1>1. PICK after : /\ after[0] = dom /\ SetAll(u, o) = after[n]
                   /\ \A k \in 1..n : after[k] = AttributeSet(after[k - 1], u, k, o)
  BY <1>0, SetAllIs
<1> DEFINE G == {k \in 0..n : Good(after[k])}
<1>2. 0 \in G
  BY <1>0, <1>1, NoChange, LeavesItself DEF Adds
<1>3. ASSUME NEW k \in 1..n, k - 1 \in G PROVE k \in G
  <2> DEFINE d == after[k - 1]
             e == after[k]
  <2>1. Change(dom, d, o) /\ Stays(dom, d) /\ Leaves(dom, d, o) /\ Adds(dom, d, o, ItemNames(u))
    BY <1>3
  <2>2. k \in DOMAIN pul[u].value
    OBVIOUS
  <2> HIDE DEF d, e
  <2>3. PICK new : /\ Fresh(new) /\ new.kind = pul[u].value[k].kind /\ new.name = pul[u].value[k].name
                   /\ Imported(d, u, k, o) = Append(d, new)
    BY <2>2, ImportedIs
  <2>4. e = SetAttributeNode(Append(d, new), o, Len(d) + 1)
    BY <1>1, <2>3 DEF AttributeSet, d, e
  <2>5. new.kind = "attribute"
    BY <2>2, <2>3
  <2>6. IsForest(d) /\ o \in 1..Len(d) /\ IsElement(d, o)
    <3>1. IsForest(d) /\ Keeps(dom, d)
      BY <2>1 DEF Change
    <3>2. Len(dom) <= Len(d) /\ d[o].kind = dom[o].kind
      BY <3>1 DEF Keeps
    <3>3. Len(dom) \in Nat /\ Len(d) \in Nat
      BY <3>1, ForestIs
    <3> QED
      BY <3>1, <3>2, <3>3 DEF IsElement
  <2>7. Change(d, e, o) /\ Stays(d, e)
    BY <2>3, <2>4, <2>5, <2>6, NewAttribute
  <2>8. Change(dom, e, o) /\ Stays(dom, e)
    BY <2>1, <2>7, ChangeTwice
  <2>9. k \in 0..n
    OBVIOUS
  <2>10. Leaves(d, e, o)
    BY <2>3, <2>4, <2>5, <2>6, NewAttributeLeaves
  <2>11. Keeps(dom, d) /\ Len(dom) \in Nat /\ Len(d) \in Nat
    BY <2>1, <2>6, ForestIs DEF Change
  <2>12. Leaves(dom, e, o)
    BY <2>1, <2>10, <2>11, LeavesTwice
  <2>13. Adds(d, e, o, {new.name})
    BY <2>3, <2>4, <2>5, <2>6, NewAttributeAdds
  <2>14. {new.name} \subseteq ItemNames(u)
    BY <2>2, <2>3 DEF ItemNames
  <2>15. Adds(d, e, o, ItemNames(u))
    BY <2>13, <2>14, AddsMore
  <2>16. Adds(dom, e, o, ItemNames(u))
    BY <2>1, <2>11, <2>15, AddsTwice
  <2> QED
    BY <2>8, <2>9, <2>12, <2>16 DEF e
<1> HIDE DEF G
<1>4. \A k \in 0..n : k \in G
  BY <1>0, <1>2, <1>3, StepByStep
<1>5. n \in 0..n
  BY <1>0
<1> QED
  BY <1>1, <1>4, <1>5 DEF G

-------------------------------------------------------------------------------
(***************************************************************************)
(* What is asked for, and the inductive invariant.  The kinds of the       *)
(* targets are those of the start, which no update changes.                *)
(***************************************************************************)
PlainItems == {v \in Seq(ItemsToInsert) : ~HasAttributes(v)}
AttributeItems == {v \in Seq(ItemsToInsert) : \A k \in DOMAIN v : v[k].kind = "attribute"}
OfKind(kinds) == {t \in Targets : before[t].kind \in kinds}

AskedFor ==
  [type : {"INSERT_INTO", "INSERT_INTO_AS_FIRST", "INSERT_INTO_AS_LAST"},
   target : OfKind({"document", "element"}), value : PlainItems]
  \cup [type : {"INSERT_BEFORE", "INSERT_AFTER", "REPLACE_NODE"},
        target : OfKind({"element", "text", "comment", "pi"}), value : PlainItems]
  \cup [type : {"INSERT_ATTRIBUTES"}, target : OfKind({"element"}), value : AttributeItems]
  \cup [type : {"REPLACE_ATTRIBUTE"}, target : OfKind({"attribute"}), value : AttributeItems]
  \cup [type : {"REPLACE_ELEMENT_CONTENT"}, target : OfKind({"element"}), value : Strings]
  \cup [type : {"REPLACE_VALUE"}, target : OfKind({"attribute", "text", "comment", "pi"}), value : Strings]
  \cup [type : {"RENAME"}, target : OfKind({"element", "attribute", "pi"}), value : {v \in Seq(Names) : Len(v) = 1}]
  \cup [type : {"PUDELETE"}, target : Targets, value : {<<>>}]
  \cup [type : {"PUT"}, target : OfKind({"document", "element"}), value : {v \in Strings : Len(v) = 1}]

Puts(d) == [uri : STRING \cup {NoURI}, node : 1..Len(d)]

Start ==
  /\ dom = before /\ applied = 0
  /\ forDeletion = {} /\ forRevalidation = {} /\ putSet = {} /\ written = {}

IInv ==
  /\ given \in Cases
  /\ IsForest(dom) /\ Keeps(before, dom)
  /\ pul \in Seq(AskedFor) /\ Len(pul) <= given.size
  /\ pc \in {"collect", "apply", "write", "done", "error", "crash"}
  /\ applied \in 0..Len(pul)
  /\ forDeletion \subseteq 1..Len(dom) /\ forRevalidation \subseteq 1..Len(dom)
  /\ putSet \subseteq Puts(dom) /\ written \subseteq Puts(dom)
  /\ pc = "collect" => Start

LEMMA LeadingIs ==
  ASSUME NEW c \in Seq(ItemsToInsert)
  PROVE  Leading(c) \in 0..Len(c) /\ \A k \in 1..Leading(c) : c[k].kind = "attribute"
<1> DEFINE S == {n \in 0..Len(c) : n < Len(c) => c[n + 1].kind # "attribute"}
           P(n) == /\ \A k \in 1..n : c[k].kind = "attribute"
                   /\ n < Len(c) => c[n + 1].kind # "attribute"
<1>0. Len(c) \in Nat
  OBVIOUS
<1>1. S \subseteq Nat /\ Len(c) \in S
  BY <1>0
<1>2. PICK n \in S : \A m \in S : n <= m
  <2> HIDE DEF S
  <2>1. S # {}
    BY <1>1
  <2> QED
    BY <1>1, <2>1, SmallestExists
<1>3. n \in 0..Len(c) /\ (n < Len(c) => c[n + 1].kind # "attribute")
  OBVIOUS
<1>4. ASSUME NEW k \in 1..n PROVE c[k].kind = "attribute"
  <2>1. k - 1 \in 0..Len(c) /\ k - 1 < n /\ k - 1 < Len(c) /\ (k - 1) + 1 = k
    BY <1>0, <1>3
  <2>2. k - 1 \notin S
    BY <1>2, <2>1
  <2> QED
    BY <2>1, <2>2
<1>5. \E m \in 0..Len(c) : P(m)
  BY <1>3, <1>4
<1>6. Leading(c) = CHOOSE m \in 0..Len(c) : P(m)
  BY DEF Leading
<1> HIDE DEF P
<1>7. Leading(c) \in 0..Len(c) /\ P(Leading(c))
  BY <1>5, <1>6
<1> QED
  BY <1>7 DEF P

LEMMA PartsOf ==
  ASSUME NEW c \in Seq(ItemsToInsert)
  PROVE  Attributes(c) \in AttributeItems /\ Children(c) \in Seq(ItemsToInsert)
<1> DEFINE n == Leading(c)
<1>1. n \in 0..Len(c) /\ \A k \in 1..n : c[k].kind = "attribute"
  BY LeadingIs
<1> HIDE DEF n
<1>2. Len(c) \in Nat
  OBVIOUS
<1>3. SubSeq(c, 1, n) \in Seq(ItemsToInsert) /\ Len(SubSeq(c, 1, n)) = n
      /\ \A k \in 1..n : SubSeq(c, 1, n)[k] = c[k]
  BY <1>1, <1>2
<1>4. SubSeq(c, n + 1, Len(c)) \in Seq(ItemsToInsert)
  BY <1>1, <1>2
<1>5. DOMAIN SubSeq(c, 1, n) = 1..n
  BY <1>3
<1>6. SubSeq(c, 1, n) \in AttributeItems
  BY <1>1, <1>3, <1>5 DEF AttributeItems
<1> QED
  BY <1>4, <1>6 DEF Attributes, Children, n

LEMMA InsertionAsks ==
  ASSUME NEW S, NEW d, NEW type, NEW e, NEW t, NEW content,
         Insertion(d, type, e, t, content) # Rejected,
         Attributes(content) # <<>> /\ IsElement(d, e) =>
           [type |-> "INSERT_ATTRIBUTES", target |-> e, value |-> Attributes(content)] \in S,
         ~HasAttributes(Children(content)) => [type |-> type, target |-> t, value |-> Children(content)] \in S
  PROVE  Insertion(d, type, e, t, content) \in Seq(S)
<1> DEFINE as == IF Attributes(content) = <<>> THEN <<>> ELSE Update("INSERT_ATTRIBUTES", e, Attributes(content))
           cs == IF Children(content) = <<>> THEN <<>> ELSE Update(type, t, Children(content))
<1>1. /\ ~HasAttributes(Children(content)) /\ (Attributes(content) # <<>> => IsElement(d, e))
      /\ Insertion(d, type, e, t, content) = as \o cs
  BY DEF Insertion, Guarded
<1>2. as \in Seq(S)
  BY <1>1 DEF Update
<1>3. cs \in Seq(S)
  BY <1>1 DEF Update
<1> HIDE DEF as, cs
<1>4. as \o cs \in Seq(S)
  BY <1>2, <1>3, ConcatProperties
<1> QED
  BY <1>1, <1>4

LEMMA ChildrenAsked ==
  ASSUME NEW type \in {"INSERT_INTO", "INSERT_INTO_AS_FIRST", "INSERT_INTO_AS_LAST"},
         NEW t \in Targets, NEW c \in Seq(ItemsToInsert),
         InsertChildren(before, type, t, c) # Rejected
  PROVE  InsertChildren(before, type, t, c) \in Seq(AskedFor)
<1>1. before[t].kind \in {"element", "document"} /\ InsertChildren(before, type, t, c) = Insertion(before, type, t, t, c)
  BY DEF InsertChildren
<1>2. Attributes(c) \in AttributeItems /\ Children(c) \in Seq(ItemsToInsert)
  BY PartsOf
<1>3. IsElement(before, t) => [type |-> "INSERT_ATTRIBUTES", target |-> t, value |-> Attributes(c)] \in AskedFor
  BY <1>2 DEF AskedFor, OfKind, IsElement
<1>4. ~HasAttributes(Children(c)) => [type |-> type, target |-> t, value |-> Children(c)] \in AskedFor
  BY <1>1, <1>2 DEF AskedFor, OfKind, PlainItems
<1> QED
  BY <1>1, <1>3, <1>4, InsertionAsks

LEMMA SiblingsAsked ==
  ASSUME NEW type \in {"INSERT_BEFORE", "INSERT_AFTER"}, IsForest(before),
         NEW t \in Targets, NEW c \in Seq(ItemsToInsert),
         InsertSiblings(before, type, t, c) # Rejected
  PROVE  InsertSiblings(before, type, t, c) \in Seq(AskedFor)
<1> DEFINE p == before[t].parent
<1>1. before[t].kind \notin {"document", "attribute"} /\ p # 0
      /\ InsertSiblings(before, type, t, c) = Insertion(before, type, p, t, c)
  BY DEF InsertSiblings
<1>2. Attributes(c) \in AttributeItems /\ Children(c) \in Seq(ItemsToInsert)
  BY PartsOf
<1>3. t \in 1..Len(before) /\ Targets = 1..Len(before) /\ before[t] \in Nodes
  BY ForestIs DEF Targets
<1>4. p \in Targets
  BY <1>1, <1>3, ParentIs
<1>5. before[t].kind \in {"element", "text", "comment", "pi"}
  BY <1>1, <1>3 DEF Nodes, Kinds
<1> HIDE DEF p
<1>6. IsElement(before, p) => [type |-> "INSERT_ATTRIBUTES", target |-> p, value |-> Attributes(c)] \in AskedFor
  BY <1>2, <1>4 DEF AskedFor, OfKind, IsElement
<1>7. ~HasAttributes(Children(c)) => [type |-> type, target |-> t, value |-> Children(c)] \in AskedFor
  BY <1>2, <1>5 DEF AskedFor, OfKind, PlainItems
<1> QED
  BY <1>1, <1>6, <1>7, InsertionAsks

LEMMA AttributesOnly ==
  ASSUME NEW c \in Seq(ItemsToInsert), Children(c) = <<>>
  PROVE  c \in AttributeItems
<1> DEFINE n == Leading(c)
<1>1. n \in 0..Len(c) /\ \A k \in 1..n : c[k].kind = "attribute"
  BY LeadingIs
<1>2. SubSeq(c, n + 1, Len(c)) = <<>>
  BY DEF Children
<1> HIDE DEF n
<1>4. Len(SubSeq(c, n + 1, Len(c))) = 0
  <2>1. Len(<<>>) = 0
    OBVIOUS
  <2> QED
    BY <1>2, <2>1, Zenon
<1>3. n = Len(c)
  BY <1>1, <1>4
<1> QED
  BY <1>1, <1>3 DEF AttributeItems

LEMMA ReplaceAsked ==
  ASSUME IsForest(before), NEW t \in Targets, NEW c \in Seq(ItemsToInsert), Replace(before, t, c) # Rejected
  PROVE  Replace(before, t, c) \in Seq(AskedFor)
<1>1. before[t].kind # "document" /\ before[t] \in Nodes
  BY ForestIs DEF Replace, Targets
<1>2. CASE IsAttribute(before, t)
  <2>1. Children(c) = <<>> /\ Replace(before, t, c) = <<[type |-> "REPLACE_ATTRIBUTE", target |-> t, value |-> c]>>
    BY <1>2 DEF Replace, Guarded, Update
  <2>2. c \in AttributeItems
    BY <2>1, AttributesOnly
  <2>3. [type |-> "REPLACE_ATTRIBUTE", target |-> t, value |-> c] \in AskedFor
    BY <1>2, <2>2 DEF AskedFor, OfKind, IsAttribute
  <2> QED
    BY <2>1, <2>3
<1>3. CASE ~IsAttribute(before, t)
  <2>1. ~HasAttributes(c) /\ Replace(before, t, c) = <<[type |-> "REPLACE_NODE", target |-> t, value |-> c]>>
    BY <1>3 DEF Replace, Guarded, Update
  <2>2. before[t].kind \in {"element", "text", "comment", "pi"}
    BY <1>1, <1>3 DEF Nodes, Kinds, IsAttribute
  <2>3. [type |-> "REPLACE_NODE", target |-> t, value |-> c] \in AskedFor
    BY <2>1, <2>2 DEF AskedFor, OfKind, PlainItems
  <2> QED
    BY <2>1, <2>3
<1> QED
  BY <1>2, <1>3

LEMMA ValueAsked ==
  ASSUME IsForest(before), NEW t \in Targets, NEW s \in Strings, ReplaceValueOf(before, t, s) # Rejected
  PROVE  ReplaceValueOf(before, t, s) \in Seq(AskedFor)
<1>1. before[t].kind # "document" /\ before[t] \in Nodes
  BY ForestIs DEF ReplaceValueOf, Targets
<1>2. CASE IsElement(before, t)
  <2>1. ReplaceValueOf(before, t, s) = <<[type |-> "REPLACE_ELEMENT_CONTENT", target |-> t, value |-> s]>>
    BY <1>1, <1>2 DEF ReplaceValueOf, Update
  <2>2. [type |-> "REPLACE_ELEMENT_CONTENT", target |-> t, value |-> s] \in AskedFor
    BY <1>2 DEF AskedFor, OfKind, IsElement
  <2> QED
    BY <2>1, <2>2
<1>3. CASE ~IsElement(before, t)
  <2>1. ReplaceValueOf(before, t, s) = <<[type |-> "REPLACE_VALUE", target |-> t, value |-> s]>>
    BY <1>1, <1>3 DEF ReplaceValueOf, Update
  <2>2. before[t].kind \in {"attribute", "text", "comment", "pi"}
    BY <1>1, <1>3 DEF Nodes, Kinds, IsElement
  <2>3. [type |-> "REPLACE_VALUE", target |-> t, value |-> s] \in AskedFor
    BY <2>2 DEF AskedFor, OfKind
  <2> QED
    BY <2>1, <2>3
<1> QED
  BY <1>2, <1>3

LEMMA RenameAsked ==
  ASSUME NEW t \in Targets, NEW name \in Names, Rename(before, t, name) # Rejected
  PROVE  Rename(before, t, name) \in Seq(AskedFor)
<1>1. before[t].kind \in {"element", "attribute", "pi"}
      /\ Rename(before, t, name) = <<[type |-> "RENAME", target |-> t, value |-> <<name>>]>>
  BY DEF Rename, Guarded, Update
<1>2. <<name>> \in {v \in Seq(Names) : Len(v) = 1}
  OBVIOUS
<1>3. [type |-> "RENAME", target |-> t, value |-> <<name>>] \in AskedFor
  BY <1>1, <1>2 DEF AskedFor, OfKind
<1> QED
  BY <1>1, <1>3

LEMMA DeleteAsked ==
  ASSUME NEW t \in Targets
  PROVE  Delete(t) \in Seq(AskedFor)
<1>1. [type |-> "PUDELETE", target |-> t, value |-> <<>>] \in AskedFor
  BY DEF AskedFor
<1> QED
  BY <1>1 DEF Delete, Update

LEMMA PutAsked ==
  ASSUME NEW t \in Targets, NEW uri \in STRING, Put(before, t, uri) # Rejected
  PROVE  Put(before, t, uri) \in Seq(AskedFor)
<1>1. before[t].kind \in {"document", "element"}
      /\ Put(before, t, uri) = <<[type |-> "PUT", target |-> t, value |-> <<uri>>]>>
  BY DEF Put, Guarded, Update
<1>2. <<uri>> \in {v \in Strings : Len(v) = 1}
  <2>1. \A S, x : x \in S => <<x>> \in Seq(S) /\ Len(<<x>>) = 1
    OBVIOUS
  <2> QED
    BY <2>1 DEF Strings
<1>3. [type |-> "PUT", target |-> t, value |-> <<uri>>] \in AskedFor
  BY <1>1, <1>2 DEF AskedFor, OfKind
<1> QED
  BY <1>1, <1>3

-------------------------------------------------------------------------------
(***************************************************************************)
(* The apply functions.  CarriedOut says what all of them have in common:  *)
(* the DOM changes in the tree of the target only, the content of no other *)
(* element than the one that loses its type, if any, and no other names    *)
(* than the update's own come to its element.                              *)
(***************************************************************************)
\* The names that an update brings to the element it is about.
Brought(u) ==
  IF pul[u].type \in {"INSERT_ATTRIBUTES", "REPLACE_ATTRIBUTE"} THEN ItemNames(u)
  ELSE IF pul[u].type = "RENAME" THEN {pul[u].value[1]}
  ELSE {}

Brings(u, d) == Adds(dom, d, ElementOf(dom, Target(u)), Brought(u))

Carried(u, t, d, marked, n, saved) ==
  /\ t \in 1..Len(dom) /\ (t = Target(u) \/ t = ParentOf(u))
  /\ Change(dom, d, t) /\ n \in {0, t}
  /\ marked \subseteq 1..Len(dom) /\ \A m \in marked : m = Target(u) \/ dom[m].parent = Target(u)
  /\ saved \in {Target(u), t}
  /\ Leaves(dom, d, IF n = 0 THEN 0 ELSE ElementOf(d, n)) /\ Stands(dom, d)
  /\ PIRenamed \/ Root(d, saved) = Root(dom, saved)
  /\ Brings(u, d)

CarriedOut ==
  \E u \in DOMAIN pul :
    /\ pc = "apply" /\ applied < Len(pul)
    /\ \E t, d, marked, n, saved : Carried(u, t, d, marked, n, saved) /\ Effect(d, marked, n, saved)

\* A node that is no attribute stays in its tree, and an attribute that stays
\* in its element does.
LEMMA RootStays ==
  ASSUME NEW d, NEW e, IsForest(d), IsForest(e), Keeps(d, e), Stays(d, e), NEW n \in 1..Len(d),
         ~IsAttribute(d, n) \/ e[n].parent = d[n].parent
  PROVE  Root(e, n) = Root(d, n)
<1> DEFINE S == {m \in 1..Len(d) : ~IsAttribute(d, m)}
<1>0. ParentsFirst(d) /\ ParentsFirst(e) /\ Len(d) \in Nat /\ Len(e) \in Nat /\ Len(d) <= Len(e)
  BY ForestIs, ForestsParents DEF Keeps
<1>1. S \subseteq 1..Len(d) /\ S \subseteq 1..Len(e)
  BY <1>0
<1>2. \A m \in 1..Len(d) : d[m].parent # 0 => d[m].parent \in S
  <2>1. SUFFICES ASSUME NEW m \in 1..Len(d), d[m].parent # 0 PROVE d[m].parent \in S
    OBVIOUS
  <2>2. d[m].parent \in 1..Len(d)
    BY <2>1, ParentIs
  <2>3. d[d[m].parent].kind \in {"document", "element"}
    BY <2>1, ParentIs DEF IsElement
  <2> QED
    BY <2>2, <2>3 DEF IsAttribute
<1>3. \A m \in S : e[m].parent = d[m].parent
  BY DEF Stays
<1>4. \A m \in S : d[m].parent # 0 => d[m].parent \in S
  BY <1>2
<1> HIDE DEF S
<1>8. \A m \in S : e[m].parent = d[m].parent /\ (d[m].parent # 0 => d[m].parent \in S)
  BY <1>3, <1>4
<1>9. ParentsFirst(d) /\ ParentsFirst(e)
  BY <1>0
<1>10. \A m \in S : Ancestry(e, m) = Ancestry(d, m) /\ Root(e, m) = Root(d, m)
  BY ONLY <1>1, <1>8, <1>9, SameAncestry
<1>5. \A m \in S : Root(e, m) = Root(d, m)
  BY <1>10
<1>6. CASE ~IsAttribute(d, n)
  BY <1>5, <1>6 DEF S
<1>7. CASE e[n].parent = d[n].parent
  <2>1. n \in 1..Len(e)
    BY <1>0
  <2>2. Root(d, n) = IF d[n].parent = 0 THEN n ELSE Root(d, d[n].parent)
    BY <1>0, RootIs
  <2>3. Root(e, n) = IF e[n].parent = 0 THEN n ELSE Root(e, e[n].parent)
    BY <1>0, <2>1, RootIs
  <2> QED
    BY <1>2, <1>5, <1>7, <2>2, <2>3
<1> QED
  BY <1>6, <1>7

LEMMA PIRenaming ==
  ASSUME IsForest(dom), NEW u \in Nat, NEW t \in 1..Len(dom), dom[t].kind = "pi", dom[t].parent # 0, NEW name \in Names
  PROVE  Change(dom, RenamedPI(u, t, name), dom[t].parent)
<1> DEFINE p == dom[t].parent
           new == [dom[t] EXCEPT !.name = name, !.parent = 0, !.origin = <<u, 1>>]
           c == InsertBefore(Append(dom, new), p, Len(dom) + 1, t)
<1>1. NodeOf(dom, t) /\ dom[t] \in Nodes
  BY ForestIs
<1>2. dom[t].children = <<>> /\ dom[t].attrs = {}
  BY <1>1 DEF NodeOf, IsElement
<1>3. <<u, 1>> \in Nat \X Nat
  OBVIOUS
<1>4. Fresh(new) /\ new.kind = "pi"
  BY <1>1, <1>2, <1>3 DEF Fresh, Nodes
<1>5. p \in 1..Len(dom) /\ t \in Range(dom[p].children) /\ dom[p].kind \in {"document", "element"}
  BY ParentIs DEF IsAttribute
<1>6. RenamedPI(u, t, name) = Removed(c, t)
  BY DEF RenamedPI
<1>7. new.kind # "attribute"
  BY <1>4
<1> HIDE DEF new, p
<1>8. Change(dom, c, p) /\ Len(c) = Len(dom) + 1
  BY <1>4, <1>5, <1>7, NewChild DEF ChildAdded
<1>9. \A m \in 1..Len(dom) : c[m].parent = dom[m].parent
  BY <1>4, <1>5, <1>7, NewChild DEF ChildAdded
<1> HIDE DEF c
<1>10. IsForest(c) /\ t \in 1..Len(c)
  <2>1. Len(dom) \in Nat
    BY ForestIs
  <2> QED
    BY <1>8, <2>1 DEF Change
<1>11. Change(c, Removed(c, t), t)
  BY <1>10, Removal
<1>12. c[t].parent = p /\ c[t].parent # 0
  BY <1>9 DEF p
<1>13. Within(c, Removed(c, t), p)
  BY <1>10, <1>11, <1>12, SameTree DEF Change
<1>14. Change(c, Removed(c, t), p)
  BY <1>11, <1>13 DEF Change
<1> QED
  BY <1>6, <1>8, <1>14, ChangeTwice DEF p

LEMMA ContentReplaced ==
  ASSUME IsForest(dom), NEW u \in Nat, NEW s \in Strings, NEW e \in 1..Len(dom), IsElement(dom, e)
  PROVE  LET text == NewNode(TextItem(s), "untyped", <<u, 1>>)
             d == InsertBefore(Append(dom, text), e, Len(dom) + 1, 0)
         IN Change(dom, d, e) /\ Stays(dom, d) /\ Leaves(dom, d, e) /\ SameNames(dom, d)
<1> DEFINE text == NewNode(TextItem(s), "untyped", <<u, 1>>)
<1>1. TextItem(s) \in ItemsToInsert /\ TextItem(s).kind = "text"
  <2>1. [prefix |-> "", uri |-> "", local |-> ""] \in Names
    BY DEF Names
  <2> QED
    BY <2>1 DEF TextItem, ItemsToInsert, Kinds, TypesOfNodes
<1>2. "untyped" \in TypesOfNodes /\ <<u, 1>> \in Nat \X Nat
  BY DEF TypesOfNodes
<1>3. Fresh(text) /\ text.kind = "text"
  BY <1>1, <1>2, FreshItems
<1> HIDE DEF text
<1>4. dom[e].kind \in {"document", "element"} /\ text.kind # "attribute"
  BY <1>3 DEF IsElement
<1>5. Change(dom, InsertBefore(Append(dom, text), e, Len(dom) + 1, 0), e)
      /\ Stays(dom, InsertBefore(Append(dom, text), e, Len(dom) + 1, 0))
  BY <1>3, <1>4, NewChild DEF ChildAdded
<1>6. Leaves(dom, InsertBefore(Append(dom, text), e, Len(dom) + 1, 0), e)
  BY <1>3, <1>4, NewChildLeaves
<1>7. SameNames(dom, InsertBefore(Append(dom, text), e, Len(dom) + 1, 0))
  BY <1>3, <1>4, NewChild, NewChildNames
<1> QED
  BY <1>5, <1>6, <1>7 DEF text

LEMMA BeforeIs ==
  ASSUME IInv
  PROVE  /\ IsForest(before) /\ Targets = 1..Len(before) /\ Len(before) \in Nat /\ Len(dom) \in Nat
         /\ Targets \subseteq 1..Len(dom)
         /\ \A t \in Targets : dom[t].kind = before[t].kind /\ dom[t].uri = before[t].uri
<1>1. IsForest(before)
  BY CasesAssumption DEF IInv, before
<1>2. Targets = 1..Len(before) /\ Len(before) \in Nat
  BY <1>1, ForestIs DEF Targets
<1>3. Len(dom) \in Nat /\ Len(before) <= Len(dom)
  BY ForestIs DEF IInv, Keeps
<1>4. \A t \in Targets : dom[t].kind = before[t].kind /\ dom[t].uri = before[t].uri
  BY <1>2 DEF IInv, Keeps
<1> QED
  BY <1>1, <1>2, <1>3, <1>4

LEMMA DueIs ==
  ASSUME IInv, NEW type, NEW u \in Due(type)
  PROVE  /\ u \in DOMAIN pul /\ u \in Nat /\ pc = "apply" /\ applied < Len(pul)
         /\ pul[u].type = type /\ pul[u] \in AskedFor
<1>1. u \in DOMAIN pul /\ pc = "apply" /\ applied < Len(pul) /\ pul[u].type = type
  BY DEF Due
<1>2. pul \in Seq(AskedFor)
  BY DEF IInv
<1> QED
  BY <1>1, <1>2

LEMMA ParentOfTarget ==
  ASSUME IInv, NEW u, Target(u) \in Targets, ParentOf(u) # 0
  PROVE  /\ ParentOf(u) \in 1..Len(dom)
         /\ before[Target(u)].kind = "attribute" => IsElement(dom, ParentOf(u))
         /\ before[Target(u)].kind # "attribute" =>
              Target(u) \in Range(dom[ParentOf(u)].children) /\ dom[ParentOf(u)].kind \in {"document", "element"}
<1>1. IsForest(dom) /\ Target(u) \in 1..Len(dom) /\ dom[Target(u)].kind = before[Target(u)].kind
  BY BeforeIs DEF IInv
<1> QED
  BY <1>1, ParentIs DEF ParentOf, IsAttribute

\* Nodes are inserted into p.
LEMMA InsertionCarried ==
  ASSUME IInv, NEW u \in DOMAIN pul, u \in Nat, pc = "apply", applied < Len(pul),
         Target(u) \in Targets, before[Target(u)].kind # "attribute", pul[u].value \in PlainItems,
         NEW p \in 1..Len(dom), p = Target(u) \/ p = ParentOf(u), dom[p].kind \in {"document", "element"},
         NEW next, next = 0 \/ next \in Range(dom[p].children),
         NEW marked, marked = {} \/ marked = {Target(u)},
         NEW n, n = p \/ (n = 0 /\ ~ContainsElementOrText(u)),
         Effect(InsertAll(u, p, next), marked, n, Target(u))
  PROVE  CarriedOut
<1> DEFINE d == InsertAll(u, p, next)
<1>1. IsForest(dom) /\ Target(u) \in 1..Len(dom) /\ ~IsAttribute(dom, Target(u))
  BY BeforeIs DEF IInv, IsAttribute
<1>2. pul[u].value \in Seq(ItemsToInsert) /\ ~HasAttributes(pul[u].value)
  BY DEF PlainItems
<1>3. /\ Change(dom, d, p) /\ Stays(dom, d)
      /\ Leaves(dom, d, p) /\ (~ContainsElementOrText(u) => Leaves(dom, d, 0))
      /\ SameNames(dom, d)
  BY <1>1, <1>2, InsertingAll
<1>4. IsForest(d) /\ Keeps(dom, d)
  BY <1>3 DEF Change
<1> HIDE DEF d
<1>5. Root(d, Target(u)) = Root(dom, Target(u))
  BY <1>1, <1>3, <1>4, RootStays
<1>8. ElementOf(d, p) = p /\ p # 0
  <2>1. d[p].kind = dom[p].kind
    BY <1>4 DEF Keeps
  <2> QED
    BY <2>1 DEF ElementOf, IsAttribute
<1>9. Leaves(dom, d, IF n = 0 THEN 0 ELSE ElementOf(d, n)) /\ Stands(dom, d)
  BY <1>3, <1>8, StaysStands
<1>10. Brings(u, d)
  BY <1>1, <1>3, SameNamesAdd DEF Brings
<1>6. Carried(u, p, d, marked, n, Target(u))
  BY <1>1, <1>3, <1>5, <1>9, <1>10 DEF Carried
<1>7. Effect(d, marked, n, Target(u))
  BY DEF d
<1> QED
  BY <1>6, <1>7 DEF CarriedOut

LEMMA Children1 ==
  ASSUME NEW s, s \in Seq(Nat), s # <<>>
  PROVE  s[1] \in Range(s)
<1>1. 1 \in DOMAIN s
  OBVIOUS
<1> QED
  BY <1>1 DEF Range

LEMMA InsertIntoCarried == ASSUME IInv, ApplyInsertInto \/ ApplyInsertAsLast PROVE CarriedOut
<1>1. PICK u \in Due("INSERT_INTO") \cup Due("INSERT_INTO_AS_LAST") : InsertedAt(u, Target(u), 0, Target(u))
  BY DEF ApplyInsertInto, ApplyInsertAsLast
<1>2. /\ u \in DOMAIN pul /\ u \in Nat /\ pc = "apply" /\ applied < Len(pul)
      /\ pul[u].type \in {"INSERT_INTO", "INSERT_INTO_AS_LAST"} /\ pul[u] \in AskedFor
  BY DueIs
<1>3. Target(u) \in Targets /\ before[Target(u)].kind \in {"document", "element"} /\ pul[u].value \in PlainItems
  BY <1>2 DEF AskedFor, OfKind, Target
<1>4. Target(u) \in 1..Len(dom) /\ dom[Target(u)].kind \in {"document", "element"}
  BY <1>3, BeforeIs
<1>5. PICK n : /\ n = Target(u) \/ (n = 0 /\ ~ContainsElementOrText(u))
             /\ Effect(InsertAll(u, Target(u), 0), {}, n, Target(u))
  BY <1>1 DEF InsertedAt
<1> QED
  BY <1>2, <1>3, <1>4, <1>5, InsertionCarried

LEMMA InsertAsFirstCarried == ASSUME IInv, ApplyInsertAsFirst PROVE CarriedOut
<1>1. PICK u \in Due("INSERT_INTO_AS_FIRST") :
        InsertedAt(u, Target(u), IF dom[Target(u)].children = <<>> THEN 0 ELSE dom[Target(u)].children[1], Target(u))
  BY DEF ApplyInsertAsFirst
<1>2. /\ u \in DOMAIN pul /\ u \in Nat /\ pc = "apply" /\ applied < Len(pul)
      /\ pul[u].type = "INSERT_INTO_AS_FIRST" /\ pul[u] \in AskedFor
  BY DueIs
<1>3. Target(u) \in Targets /\ before[Target(u)].kind \in {"document", "element"} /\ pul[u].value \in PlainItems
  BY <1>2 DEF AskedFor, OfKind, Target
<1>4. Target(u) \in 1..Len(dom) /\ dom[Target(u)].kind \in {"document", "element"}
  BY <1>3, BeforeIs
<1> DEFINE s == dom[Target(u)].children
           next == IF s = <<>> THEN 0 ELSE s[1]
<1>5. PICK n : /\ n = Target(u) \/ (n = 0 /\ ~ContainsElementOrText(u))
             /\ Effect(InsertAll(u, Target(u), next), {}, n, Target(u))
  BY <1>1 DEF InsertedAt
<1>6. s \in Seq(Nat)
  BY <1>4, ForestIs DEF IInv, Nodes
<1>7. next = 0 \/ next \in Range(s)
  BY <1>6, Children1
<1> HIDE DEF next
<1> QED
  BY <1>2, <1>3, <1>4, <1>5, <1>7, InsertionCarried

LEMMA SiblingsOf ==
  ASSUME IInv, NEW u \in DOMAIN pul, pul[u] \in AskedFor, pul[u].type \in {"INSERT_BEFORE", "INSERT_AFTER", "REPLACE_NODE"}
  PROVE  /\ Target(u) \in Targets /\ before[Target(u)].kind # "attribute" /\ pul[u].value \in PlainItems
         /\ ParentOf(u) # 0 => /\ ParentOf(u) \in 1..Len(dom) /\ dom[ParentOf(u)].kind \in {"document", "element"}
                               /\ Target(u) \in Range(dom[ParentOf(u)].children)
<1>1. Target(u) \in Targets /\ before[Target(u)].kind \in {"element", "text", "comment", "pi"} /\ pul[u].value \in PlainItems
  BY DEF AskedFor, OfKind, Target
<1> QED
  BY <1>1, ParentOfTarget

LEMMA InsertBeforeCarried == ASSUME IInv, ApplyInsertBefore PROVE CarriedOut \/ Crash
<1>1. PICK u \in Due("INSERT_BEFORE") :
        IF ParentOf(u) = 0 THEN Crash ELSE InsertedAt(u, ParentOf(u), Target(u), Target(u))
  BY DEF ApplyInsertBefore
<1>2. /\ u \in DOMAIN pul /\ u \in Nat /\ pc = "apply" /\ applied < Len(pul)
      /\ pul[u].type = "INSERT_BEFORE" /\ pul[u] \in AskedFor
  BY DueIs
<1>3. CASE ParentOf(u) = 0
  BY <1>1, <1>3
<1>4. CASE ParentOf(u) # 0
  <2>1. PICK n : /\ n = ParentOf(u) \/ (n = 0 /\ ~ContainsElementOrText(u))
                 /\ Effect(InsertAll(u, ParentOf(u), Target(u)), {}, n, Target(u))
    BY <1>1, <1>4 DEF InsertedAt
  <2>2. Target(u) \in Targets /\ before[Target(u)].kind # "attribute" /\ pul[u].value \in PlainItems
        /\ ParentOf(u) \in 1..Len(dom) /\ dom[ParentOf(u)].kind \in {"document", "element"}
        /\ Target(u) \in Range(dom[ParentOf(u)].children)
    BY <1>2, <1>4, SiblingsOf
  <2> QED
    BY <1>2, <2>1, <2>2, InsertionCarried
<1> QED
  BY <1>3, <1>4

LEMMA NextIs ==
  ASSUME NEW d, IsForest(d), NEW n \in 1..Len(d), NEW p \in 1..Len(d), p = d[n].parent, n \in Range(d[p].children)
  PROVE  NextSibling(d, n) = 0 \/ NextSibling(d, n) \in Range(d[p].children)
<1> DEFINE s == d[p].children
           at == PlaceOf(n, s)
<1>1. s \in Seq(Nat)
  BY ForestIs DEF Nodes
<1> HIDE DEF s
<1>2. at \in 1..Len(s)
  BY <1>1, SomewhereIn DEF s
<1>3. NextSibling(d, n) = IF at = Len(s) THEN 0 ELSE s[at + 1]
  BY DEF NextSibling, s
<1> HIDE DEF at
<1>4. at # Len(s) => at + 1 \in DOMAIN s
  BY <1>1, <1>2
<1>5. at # Len(s) => s[at + 1] \in Range(s)
  BY <1>4 DEF Range
<1> QED
  BY <1>3, <1>5 DEF s

LEMMA InsertAfterCarried == ASSUME IInv, ApplyInsertAfter PROVE CarriedOut \/ Crash
<1>1. PICK u \in Due("INSERT_AFTER") :
        IF ParentOf(u) = 0 THEN Crash ELSE InsertedAt(u, ParentOf(u), NextSibling(dom, Target(u)), Target(u))
  BY DEF ApplyInsertAfter
<1>2. /\ u \in DOMAIN pul /\ u \in Nat /\ pc = "apply" /\ applied < Len(pul)
      /\ pul[u].type = "INSERT_AFTER" /\ pul[u] \in AskedFor
  BY DueIs
<1>3. CASE ParentOf(u) = 0
  BY <1>1, <1>3
<1>4. CASE ParentOf(u) # 0
  <2>1. PICK n : /\ n = ParentOf(u) \/ (n = 0 /\ ~ContainsElementOrText(u))
                 /\ Effect(InsertAll(u, ParentOf(u), NextSibling(dom, Target(u))), {}, n, Target(u))
    BY <1>1, <1>4 DEF InsertedAt
  <2>2. Target(u) \in Targets /\ before[Target(u)].kind # "attribute" /\ pul[u].value \in PlainItems
        /\ ParentOf(u) \in 1..Len(dom) /\ dom[ParentOf(u)].kind \in {"document", "element"}
        /\ Target(u) \in Range(dom[ParentOf(u)].children)
    BY <1>2, <1>4, SiblingsOf
  <2>3. Target(u) \in 1..Len(dom) /\ IsForest(dom)
    BY <2>2, BeforeIs DEF IInv
  <2>4. NextSibling(dom, Target(u)) = 0 \/ NextSibling(dom, Target(u)) \in Range(dom[ParentOf(u)].children)
    BY <2>2, <2>3, NextIs DEF ParentOf
  <2> QED
    BY <1>2, <2>1, <2>2, <2>4, InsertionCarried
<1> QED
  BY <1>3, <1>4

LEMMA ReplaceNodeCarried == ASSUME IInv, ApplyReplaceNode PROVE CarriedOut \/ Crash
<1>1. PICK u \in Due("REPLACE_NODE") :
        IF ParentOf(u) = 0 THEN Crash
        ELSE Effect(InsertAll(u, ParentOf(u), Target(u)), {Target(u)}, ParentOf(u), Target(u))
  BY DEF ApplyReplaceNode
<1>2. /\ u \in DOMAIN pul /\ u \in Nat /\ pc = "apply" /\ applied < Len(pul)
      /\ pul[u].type = "REPLACE_NODE" /\ pul[u] \in AskedFor
  BY DueIs
<1>3. CASE ParentOf(u) = 0
  BY <1>1, <1>3
<1>4. CASE ParentOf(u) # 0
  <2>1. Effect(InsertAll(u, ParentOf(u), Target(u)), {Target(u)}, ParentOf(u), Target(u))
    BY <1>1, <1>4
  <2>2. Target(u) \in Targets /\ before[Target(u)].kind # "attribute" /\ pul[u].value \in PlainItems
        /\ ParentOf(u) \in 1..Len(dom) /\ dom[ParentOf(u)].kind \in {"document", "element"}
        /\ Target(u) \in Range(dom[ParentOf(u)].children)
    BY <1>2, <1>4, SiblingsOf
  <2>3. ParentOf(u) \in {0, ParentOf(u)}
    OBVIOUS
  <2> QED
    BY <1>2, <2>1, <2>2, <2>3, InsertionCarried
<1> QED
  BY <1>3, <1>4

\* Attributes are set in o.
LEMMA SettingCarried ==
  ASSUME IInv, NEW u \in DOMAIN pul, u \in Nat, pc = "apply", applied < Len(pul),
         Target(u) \in Targets, pul[u].value \in AttributeItems,
         pul[u].type \in {"INSERT_ATTRIBUTES", "REPLACE_ATTRIBUTE"},
         NEW o \in 1..Len(dom), o = Target(u) \/ o = ParentOf(u), IsElement(dom, o), o = ElementOf(dom, Target(u)),
         NEW marked, marked = {} \/ marked = {Target(u)},
         Effect(SetAll(u, o), marked, o, o)
  PROVE  CarriedOut
<1> DEFINE d == SetAll(u, o)
<1>1. IsForest(dom) /\ Target(u) \in 1..Len(dom) /\ ~IsAttribute(dom, o)
  BY BeforeIs DEF IInv, IsAttribute, IsElement
<1>2. pul[u].value \in Seq(ItemsToInsert) /\ \A k \in DOMAIN pul[u].value : pul[u].value[k].kind = "attribute"
  BY DEF AttributeItems
<1>3. Change(dom, d, o) /\ Stays(dom, d) /\ Leaves(dom, d, o) /\ Adds(dom, d, o, ItemNames(u))
  BY <1>1, <1>2, SettingAll
<1>4. IsForest(d) /\ Keeps(dom, d)
  BY <1>3 DEF Change
<1> HIDE DEF d
<1>5. Root(d, o) = Root(dom, o)
  BY <1>1, <1>3, <1>4, RootStays
<1>8. ElementOf(d, o) = o /\ o # 0
  <2>1. d[o].kind = dom[o].kind
    BY <1>4 DEF Keeps
  <2> QED
    BY <2>1 DEF ElementOf, IsAttribute, IsElement
<1>9. Leaves(dom, d, IF o = 0 THEN 0 ELSE ElementOf(d, o)) /\ Stands(dom, d)
  BY <1>3, <1>8, StaysStands
<1>10. Brings(u, d)
  BY <1>3 DEF Brings, Brought
<1>6. Carried(u, o, d, marked, o, o)
  BY <1>1, <1>3, <1>5, <1>9, <1>10 DEF Carried
<1>7. Effect(d, marked, o, o)
  BY DEF d
<1> QED
  BY <1>6, <1>7 DEF CarriedOut

LEMMA InsertAttributesCarried == ASSUME IInv, ApplyInsertAttributes PROVE CarriedOut
<1>1. PICK u \in Due("INSERT_ATTRIBUTES") : Effect(SetAll(u, Target(u)), {}, Target(u), Target(u))
  BY DEF ApplyInsertAttributes
<1>2. /\ u \in DOMAIN pul /\ u \in Nat /\ pc = "apply" /\ applied < Len(pul)
      /\ pul[u].type = "INSERT_ATTRIBUTES" /\ pul[u] \in AskedFor
  BY DueIs
<1>3. Target(u) \in Targets /\ before[Target(u)].kind = "element" /\ pul[u].value \in AttributeItems
  BY <1>2 DEF AskedFor, OfKind, Target
<1>4. Target(u) \in 1..Len(dom) /\ IsElement(dom, Target(u))
  BY <1>3, BeforeIs DEF IsElement
<1>5. ElementOf(dom, Target(u)) = Target(u)
  BY <1>4 DEF ElementOf, IsAttribute, IsElement
<1> QED
  BY <1>1, <1>2, <1>3, <1>4, <1>5, SettingCarried

LEMMA ReplaceAttributeCarried == ASSUME IInv, ApplyReplaceAttribute PROVE CarriedOut \/ Crash
<1>1. PICK u \in Due("REPLACE_ATTRIBUTE") :
        IF ParentOf(u) = 0 THEN Crash ELSE Effect(SetAll(u, ParentOf(u)), {Target(u)}, ParentOf(u), ParentOf(u))
  BY DEF ApplyReplaceAttribute
<1>2. /\ u \in DOMAIN pul /\ u \in Nat /\ pc = "apply" /\ applied < Len(pul)
      /\ pul[u].type = "REPLACE_ATTRIBUTE" /\ pul[u] \in AskedFor
  BY DueIs
<1>3. Target(u) \in Targets /\ before[Target(u)].kind = "attribute" /\ pul[u].value \in AttributeItems
  BY <1>2 DEF AskedFor, OfKind, Target
<1>4. CASE ParentOf(u) = 0
  BY <1>1, <1>4
<1>5. CASE ParentOf(u) # 0
  <2>1. ParentOf(u) \in 1..Len(dom) /\ IsElement(dom, ParentOf(u))
    BY <1>3, <1>5, ParentOfTarget
  <2>2. Effect(SetAll(u, ParentOf(u)), {Target(u)}, ParentOf(u), ParentOf(u))
    BY <1>1, <1>5
  <2>3. ElementOf(dom, Target(u)) = ParentOf(u)
    BY <1>3, BeforeIs DEF ElementOf, IsAttribute, ParentOf
  <2> QED
    BY <1>2, <1>3, <2>1, <2>2, <2>3, SettingCarried
<1> QED
  BY <1>4, <1>5

LEMMA DeleteCarried == ASSUME IInv, ApplyDelete PROVE CarriedOut
<1>1. PICK u \in Due("PUDELETE") : Effect(dom, {Target(u)}, 0, Target(u))
  BY DEF ApplyDelete
<1>2. /\ u \in DOMAIN pul /\ u \in Nat /\ pc = "apply" /\ applied < Len(pul)
      /\ pul[u].type = "PUDELETE" /\ pul[u] \in AskedFor
  BY DueIs
<1>3. Target(u) \in Targets
  BY <1>2 DEF AskedFor, OfKind, Target
<1>4. Target(u) \in 1..Len(dom) /\ IsForest(dom)
  BY <1>3, BeforeIs DEF IInv
<1>5. Change(dom, dom, Target(u))
  BY <1>4, NoChange
<1>7. Leaves(dom, dom, IF 0 = 0 THEN 0 ELSE ElementOf(dom, 0)) /\ Stands(dom, dom)
  BY <1>4, LeavesItself, NoChange, StaysStands
<1>8. Brings(u, dom)
  BY DEF Brings, Adds
<1>6. Carried(u, Target(u), dom, {Target(u)}, 0, Target(u))
  BY <1>4, <1>5, <1>7, <1>8 DEF Carried
<1> QED
  BY <1>1, <1>2, <1>6 DEF CarriedOut

LEMMA ReplaceElementContentCarried == ASSUME IInv, ApplyReplaceElementContent PROVE CarriedOut
<1> DEFINE Text(u) == InsertBefore(Append(dom, NewNode(TextItem(pul[u].value), "untyped", <<u, 1>>)), Target(u), Len(dom) + 1, 0)
           D(u) == IF pul[u].value = <<>> THEN dom ELSE Text(u)
<1>1. PICK u \in Due("REPLACE_ELEMENT_CONTENT") : Effect(D(u), Range(dom[Target(u)].children), Target(u), Target(u))
  BY DEF ApplyReplaceElementContent
<1>2. /\ u \in DOMAIN pul /\ u \in Nat /\ pc = "apply" /\ applied < Len(pul)
      /\ pul[u].type = "REPLACE_ELEMENT_CONTENT" /\ pul[u] \in AskedFor
  BY DueIs
<1>3. Target(u) \in Targets /\ before[Target(u)].kind = "element" /\ pul[u].value \in Strings
  BY <1>2 DEF AskedFor, OfKind, Target
<1>4. Target(u) \in 1..Len(dom) /\ IsForest(dom) /\ IsElement(dom, Target(u))
  BY <1>3, BeforeIs DEF IInv, IsElement
<1>5. Change(dom, Text(u), Target(u)) /\ Stays(dom, Text(u)) /\ Leaves(dom, Text(u), Target(u))
      /\ SameNames(dom, Text(u))
  BY <1>2, <1>3, <1>4, ContentReplaced
<1>6. Change(dom, dom, Target(u)) /\ Stays(dom, dom) /\ Leaves(dom, dom, Target(u))
  BY <1>4, NoChange, LeavesItself
<1> HIDE DEF Text
<1>7. Change(dom, D(u), Target(u)) /\ Stays(dom, D(u)) /\ Leaves(dom, D(u), Target(u))
  BY <1>5, <1>6
<1> DEFINE d == D(u)
           marked == Range(dom[Target(u)].children)
<1> HIDE DEF D
<1>8. Root(d, Target(u)) = Root(dom, Target(u))
  <2>1. IsForest(d) /\ Keeps(dom, d) /\ Stays(dom, d)
    BY <1>7 DEF Change
  <2>2. ~IsAttribute(dom, Target(u))
    BY <1>4 DEF IsAttribute, IsElement
  <2> QED
    BY <1>4, <2>1, <2>2, RootStays
<1>9. marked \subseteq 1..Len(dom) /\ \A m \in marked : dom[m].parent = Target(u)
  <2>1. NodeOf(dom, Target(u)) /\ DOMAIN dom = 1..Len(dom)
    BY <1>4, ForestIs
  <2> QED
    BY <2>1 DEF NodeOf
<1> HIDE DEF marked
<1>12. ElementOf(d, Target(u)) = Target(u)
  <2>1. d[Target(u)].kind = dom[Target(u)].kind
    BY <1>4, <1>7 DEF Change, Keeps
  <2> QED
    BY <1>4, <2>1 DEF ElementOf, IsAttribute, IsElement
<1>13. Leaves(dom, d, IF Target(u) = 0 THEN 0 ELSE ElementOf(d, Target(u))) /\ Stands(dom, d)
  BY <1>4, <1>7, <1>12, StaysStands
<1>14. Brings(u, d)
  <2>1. SameNames(dom, dom)
    BY DEF SameNames
  <2>2. SameNames(dom, d)
    BY <1>5, <2>1 DEF D
  <2> QED
    BY <1>4, <2>2, SameNamesAdd DEF Brings
<1>10. Carried(u, Target(u), d, marked, Target(u), Target(u))
  BY <1>4, <1>7, <1>8, <1>9, <1>13, <1>14 DEF Carried
<1>11. Effect(d, marked, Target(u), Target(u))
  BY <1>1 DEF marked
<1> QED
  BY <1>2, <1>10, <1>11 DEF CarriedOut

LEMMA ReplaceValueCarried == ASSUME IInv, ApplyReplaceValue PROVE CarriedOut
<1> DEFINE D(u) == [dom EXCEPT ![Target(u)].value = pul[u].value]
<1>1. PICK u \in Due("REPLACE_VALUE") :
        Effect(D(u), {}, CASE IsAttribute(dom, Target(u)) -> Target(u)
                           [] dom[Target(u)].kind = "text" -> ParentOf(u)
                           [] OTHER -> 0, Target(u))
  BY DEF ApplyReplaceValue
<1>2. /\ u \in DOMAIN pul /\ u \in Nat /\ pc = "apply" /\ applied < Len(pul)
      /\ pul[u].type = "REPLACE_VALUE" /\ pul[u] \in AskedFor
  BY DueIs
<1>3. Target(u) \in Targets /\ pul[u].value \in Strings /\ before[Target(u)].kind \in {"attribute", "text", "comment", "pi"}
  BY <1>2 DEF AskedFor, OfKind, Target
<1>4. Target(u) \in 1..Len(dom) /\ IsForest(dom) /\ dom[Target(u)].kind = before[Target(u)].kind
  BY <1>3, BeforeIs DEF IInv
<1> DEFINE d == D(u)
<1>5. Change(dom, d, Target(u)) /\ Stays(dom, d) /\ d[Target(u)].parent = dom[Target(u)].parent
  BY <1>3, <1>4, ValueChange
<1>10. Leaves(dom, d, IF IsElement(dom, Target(u)) THEN 0 ELSE PartOf(dom, Target(u)))
  BY <1>4, ValueLeaves
<1>15. Brings(u, d)
  <2>1. SameNames(dom, d)
    BY <1>4, ValueNames
  <2> HIDE DEF D
  <2> QED
    BY <1>4, <2>1, SameNamesAdd DEF Brings
<1> HIDE DEF D
<1> DEFINE N == CASE IsAttribute(dom, Target(u)) -> Target(u)
                  [] dom[Target(u)].kind = "text" -> ParentOf(u)
                  [] OTHER -> 0
<1>14. N = (IF IsAttribute(dom, Target(u)) THEN Target(u)
            ELSE IF dom[Target(u)].kind = "text" THEN ParentOf(u) ELSE 0)
  <2>1. CASE IsAttribute(dom, Target(u))
    <3>1. dom[Target(u)].kind # "text"
      BY <2>1 DEF IsAttribute
    <3> QED
      BY <2>1, <3>1
  <2> QED
    BY <2>1
<1> HIDE DEF N
<1>6. PICK n : /\ n = (IF IsAttribute(dom, Target(u)) THEN Target(u)
                       ELSE IF dom[Target(u)].kind = "text" THEN ParentOf(u) ELSE 0)
               /\ Effect(d, {}, n, Target(u))
  <2>1. Effect(d, {}, N, Target(u))
    BY <1>1 DEF N
  <2> QED
    BY <1>14, <2>1
<1>11. d[Target(u)].kind = dom[Target(u)].kind
  BY <1>4, <1>5 DEF Change, Keeps
<1>12. Leaves(dom, d, IF n = 0 THEN 0 ELSE ElementOf(d, n)) /\ Stands(dom, d)
  <2>1. CASE IsAttribute(dom, Target(u))
    <3>1. n # 0 /\ ElementOf(d, n) = PartOf(dom, Target(u)) /\ ~IsElement(dom, Target(u))
      BY <1>4, <1>5, <1>6, <1>11, <2>1 DEF ElementOf, PartOf, IsAttribute, IsElement
    <3> QED
      BY <1>5, <1>10, <3>1, StaysStands
  <2>2. CASE dom[Target(u)].kind = "text"
    <3>1. n = ParentOf(u) /\ PartOf(dom, Target(u)) = ParentOf(u) /\ ~IsElement(dom, Target(u))
      BY <1>6, <2>2 DEF PartOf, InContent, IsAttribute, IsElement, ParentOf
    <3>2. n # 0 => ElementOf(d, n) = n
      <4>1. SUFFICES ASSUME n # 0 PROVE ~IsAttribute(d, n)
        BY DEF ElementOf
      <4>2. n \in 1..Len(dom) /\ dom[n].kind \in {"document", "element"}
        BY <1>4, <2>2, <3>1, <4>1, ParentIs DEF ParentOf, IsAttribute
      <4>3. d[n].kind = dom[n].kind
        BY <1>5, <4>2 DEF Change, Keeps
      <4> QED
        BY <4>2, <4>3 DEF IsAttribute
    <3> QED
      BY <1>5, <1>10, <3>1, <3>2, StaysStands
  <2>3. CASE ~IsAttribute(dom, Target(u)) /\ dom[Target(u)].kind # "text"
    <3>1. n = 0 /\ PartOf(dom, Target(u)) = 0
      BY <1>3, <1>4, <1>6, <2>3 DEF PartOf, InContent, IsAttribute
    <3> QED
      BY <1>5, <1>10, <3>1, StaysStands
  <2> QED
    BY <2>1, <2>2, <2>3
<1>7. Root(d, Target(u)) = Root(dom, Target(u))
  BY <1>4, <1>5, RootStays DEF Change
<1>8. CASE n \in {0, Target(u)}
  <2>1. Carried(u, Target(u), d, {}, n, Target(u))
    BY <1>4, <1>5, <1>7, <1>8, <1>12, <1>15 DEF Carried
  <2> QED
    BY <1>2, <1>6, <2>1 DEF CarriedOut
<1>9. CASE n = ParentOf(u) /\ n # 0
  <2>1. n = dom[Target(u)].parent /\ n \in 1..Len(dom)
    BY <1>4, <1>9, ParentIs DEF ParentOf
  <2>2. Within(dom, d, n)
    BY <1>4, <1>5, <1>9, <2>1, SameTree DEF Change
  <2>3. Change(dom, d, n)
    BY <1>5, <2>2 DEF Change
  <2>4. Carried(u, n, d, {}, n, Target(u))
    BY <1>4, <1>7, <1>9, <1>12, <1>15, <2>1, <2>3 DEF Carried
  <2> QED
    BY <1>2, <1>6, <2>4 DEF CarriedOut
<1> QED
  BY <1>6, <1>8, <1>9

LEMMA RenameCarried == ASSUME IInv, ApplyRename PROVE CarriedOut \/ Crash
<1>1. PICK u \in Due("RENAME") :
        IF dom[Target(u)].kind = "pi"
        THEN IF ParentOf(u) = 0 THEN Crash ELSE Effect(RenamedPI(u, Target(u), pul[u].value[1]), {}, 0, Target(u))
        ELSE Effect(RenameNode(dom, Target(u), pul[u].value[1]), {}, Target(u), Target(u))
  BY DEF ApplyRename
<1>2. /\ u \in DOMAIN pul /\ u \in Nat /\ pc = "apply" /\ applied < Len(pul)
      /\ pul[u].type = "RENAME" /\ pul[u] \in AskedFor
  BY DueIs
<1>3. Target(u) \in Targets /\ pul[u].value \in Seq(Names) /\ Len(pul[u].value) = 1
  BY <1>2 DEF AskedFor, OfKind, Target
<1> DEFINE name == pul[u].value[1]
<1>4. name \in Names
  BY <1>3
<1> HIDE DEF name
<1>5. Target(u) \in 1..Len(dom) /\ IsForest(dom) /\ dom[Target(u)].kind = before[Target(u)].kind
  BY <1>3, BeforeIs DEF IInv
<1>6. CASE dom[Target(u)].kind = "pi" /\ ParentOf(u) = 0
  BY <1>1, <1>6
<1>7. CASE dom[Target(u)].kind = "pi" /\ ParentOf(u) # 0
  <2> DEFINE d == RenamedPI(u, Target(u), name)
  <2>1. Effect(d, {}, 0, Target(u))
    BY <1>1, <1>7 DEF name
  <2>2. Change(dom, d, ParentOf(u))
    BY <1>2, <1>4, <1>5, <1>7, PIRenaming DEF ParentOf
  <2> HIDE DEF d
  <2>3. PIRenamed
    BY <1>2, <1>5, <1>7 DEF PIRenamed, Updates, Target
  <2>4. ParentOf(u) \in 1..Len(dom)
    BY <1>5, <1>7, ParentIs DEF ParentOf
  <2>6. Leaves(dom, d, IF 0 = 0 THEN 0 ELSE ElementOf(d, 0)) /\ Stands(dom, d)
    BY <1>2, <1>4, <1>5, <1>7, PIRenamingLeaves DEF ParentOf, d
  <2>7. SameNames(dom, d)
    BY <1>2, <1>4, <1>5, <1>7, PIRenamingNames DEF ParentOf, d
  <2>8. Brings(u, d)
    BY <1>5, <2>7, SameNamesAdd DEF Brings
  <2>5. Carried(u, ParentOf(u), d, {}, 0, Target(u))
    BY <2>2, <2>3, <2>4, <2>6, <2>8 DEF Carried
  <2> QED
    BY <1>2, <2>1, <2>5 DEF CarriedOut
<1>8. CASE dom[Target(u)].kind # "pi"
  <2> DEFINE d == RenameNode(dom, Target(u), name)
  <2>1. Effect(d, {}, Target(u), Target(u))
    BY <1>1, <1>8 DEF name
  <2>2. Change(dom, d, Target(u)) /\ Stays(dom, d) /\ d[Target(u)].parent = dom[Target(u)].parent
    BY <1>4, <1>5, Renaming
  <2>5. Leaves(dom, d, ElementOf(dom, Target(u)))
    BY <1>4, <1>5, RenamingLeaves
  <2>8. Adds(dom, d, ElementOf(dom, Target(u)), {name})
    BY <1>4, <1>5, RenamingAdds
  <2> HIDE DEF d
  <2>9. Brings(u, d)
    BY <1>2, <2>8 DEF Brings, Brought, name
  <2>6. d[Target(u)].kind = dom[Target(u)].kind
    BY <1>5, <2>2 DEF Change, Keeps
  <2>7. Leaves(dom, d, IF Target(u) = 0 THEN 0 ELSE ElementOf(d, Target(u))) /\ Stands(dom, d)
    BY <1>5, <2>2, <2>5, <2>6, StaysStands DEF ElementOf, IsAttribute
  <2>3. Root(d, Target(u)) = Root(dom, Target(u))
    BY <1>5, <2>2, RootStays DEF Change
  <2>4. Carried(u, Target(u), d, {}, Target(u), Target(u))
    BY <1>5, <2>2, <2>3, <2>7, <2>9 DEF Carried
  <2> QED
    BY <1>2, <2>1, <2>4 DEF CarriedOut
<1> QED
  BY <1>6, <1>7, <1>8

-------------------------------------------------------------------------------
(***************************************************************************)
(* What an update leaves alone: a set of whole trees that are as they were *)
(* in the beginning, with nothing marked in them.                          *)
(***************************************************************************)
Alone(K) ==
  /\ Closed(dom, K) /\ \A n \in K : dom[n] = before[n]
  /\ forDeletion \cap K = {} /\ forRevalidation \cap K = {}

LEMMA KeepsTwice ==
  ASSUME NEW d, NEW e, NEW f, Len(d) \in Nat, Len(e) \in Nat, Len(f) \in Nat, Keeps(d, e), Keeps(e, f)
  PROVE  Keeps(d, f)
BY DEF Keeps

LEMMA TreeOutside ==
  ASSUME NEW d, IsForest(d), NEW K, Closed(d, K), NEW n \in 1..Len(d), n \notin K
  PROVE  Root(d, n) \in 1..Len(d) /\ Root(d, n) \notin K
<1>1. ParentsFirst(d)
  BY ForestsParents
<1>2. Root(d, n) \in 1..Len(d) /\ Root(d, n) \in Range(Ancestry(d, n))
  BY <1>1, RootFacts
<1> QED
  BY <1>1, <1>2, OutsideTree

LEMMA ItemIs ==
  ASSUME NEW d, IsForest(d), NEW n \in 1..Len(d)
  PROVE  /\ PutItem(d, n) \in Puts(d)
         /\ d[n].parent # 0 => PutItem(d, n) = PutItem(d, d[n].parent)
<1>1. ParentsFirst(d)
  BY ForestsParents
<1>2. Root(d, n) \in 1..Len(d)
  BY <1>1, RootFacts
<1>3. d[Root(d, n)] \in Nodes
  BY <1>2, ForestIs
<1>4. d[Root(d, n)].uri \in STRING \cup {NoURI}
  BY <1>3 DEF Nodes
<1>5. d[n].parent # 0 => Root(d, n) = Root(d, d[n].parent)
  BY <1>1, RootIs
<1> QED
  BY <1>2, <1>4, <1>5 DEF PutItem, Puts

LEMMA RetypedIs ==
  ASSUME NEW d, IsForest(d), NEW t \in 1..Len(d), NEW n \in {0, t}
  PROVE  LET e == Retyped(d, n)
         IN Change(d, e, t) /\ SameShape(d, e) /\ (n # 0 => Marked(d, n) \subseteq {Root(d, n)})
<1>1. CASE n = 0
  <2>1. Retyped(d, n) = d
    BY <1>1 DEF Retyped
  <2>2. Change(d, d, t)
    BY NoChange
  <2>3. SameShape(d, d)
    BY ForestIs DEF SameShape
  <2> QED
    BY <1>1, <2>1, <2>2, <2>3
<1>2. CASE n # 0
  <2>1. n = t /\ Retyped(d, n) = RemoveType(d, t)
    BY <1>2 DEF Retyped
  <2>2. Change(d, RemoveType(d, t), t) /\ SameShape(d, RemoveType(d, t))
    BY TypeRemoved
  <2>3. Marked(d, n) \subseteq {Root(d, n)}
    BY DEF Marked
  <2> QED
    BY <2>1, <2>2, <2>3
<1> QED
  BY <1>1, <1>2

LEMMA EffectIs ==
  ASSUME IInv, NEW u \in DOMAIN pul, NEW t, NEW d, NEW marked, NEW n, NEW saved,
         Carried(u, t, d, marked, n, saved), Effect(d, marked, n, saved)
  PROVE  /\ Change(dom, d, t) /\ Change(dom, dom', t) /\ Len(dom') = Len(d)
         /\ n # 0 => Marked(d, n) \subseteq {Root(d, n)}
         /\ PutItem(d, saved) \in Puts(dom') /\ Root(d, saved) \in 1..Len(d)
<1>1. /\ IsForest(dom) /\ t \in 1..Len(dom) /\ Change(dom, d, t) /\ n \in {0, t} /\ saved \in {Target(u), t}
      /\ dom' = Retyped(d, n)
  BY DEF IInv, Carried, Effect
<1>2. IsForest(d) /\ Keeps(dom, d) /\ Len(dom) \in Nat /\ Len(d) \in Nat /\ Len(dom) <= Len(d)
  BY <1>1, ForestIs DEF Change, Keeps
<1>3. t \in 1..Len(d)
  BY <1>1, <1>2
<1>4. Change(d, dom', t) /\ SameShape(d, dom') /\ (n # 0 => Marked(d, n) \subseteq {Root(d, n)})
  BY <1>1, <1>2, <1>3, RetypedIs
<1>5. Change(dom, dom', t)
  BY <1>1, <1>4, ChangeTwice
<1>6. Len(dom') = Len(d)
  BY <1>4 DEF SameShape
<1>7. Target(u) \in 1..Len(dom)
  <2>1. pul[u] \in AskedFor
    BY DEF IInv
  <2>2. Target(u) \in Targets
    BY <2>1 DEF AskedFor, OfKind, Target
  <2> QED
    BY <2>2, BeforeIs
<1>8. saved \in 1..Len(d)
  BY <1>1, <1>2, <1>3, <1>7
<1>9. PutItem(d, saved) \in Puts(d) /\ Root(d, saved) \in 1..Len(d)
  BY <1>2, <1>8, ItemIs, RootFacts, ForestsParents
<1> QED
  BY <1>1, <1>4, <1>5, <1>6, <1>9 DEF Puts

\* No conflict, then the item is there.
LEMMA ItemSaved ==
  ASSUME NEW d, putSet \subseteq Puts(d), NEW item \in Puts(d), AddToPutSet(item, FALSE)
  PROVE  /\ putSet \subseteq putSet' /\ putSet' \subseteq putSet \cup {item} /\ pc' \in {pc, "error"}
         /\ pc' # "error" => item \in putSet'
<1>1. pc' = (IF \E p \in putSet : SameItem(p, item) /\ p.node # item.node THEN "error" ELSE pc)
      /\ putSet' = (IF \E p \in putSet : SameItem(p, item) THEN putSet ELSE putSet \cup {item})
  BY DEF AddToPutSet
<1>2. ASSUME NEW p \in putSet, SameItem(p, item), p.node = item.node PROVE p = item
  <2>1. p \in [uri : STRING \cup {NoURI}, node : 1..Len(d)] /\ item \in [uri : STRING \cup {NoURI}, node : 1..Len(d)]
    BY DEF Puts
  <2>2. p.uri = item.uri
    BY <1>2 DEF SameItem
  <2>3. p = [uri |-> p.uri, node |-> p.node] /\ item = [uri |-> item.uri, node |-> item.node]
    BY <2>1
  <2> QED
    BY <1>2, <2>2, <2>3
<1>3. CASE \E p \in putSet : SameItem(p, item)
  <2>1. PICK p \in putSet : SameItem(p, item)
    BY <1>3
  <2>2. pc' # "error" => p.node = item.node
    BY <1>1, <2>1
  <2>3. pc' # "error" => item \in putSet
    BY <1>2, <2>1, <2>2
  <2> QED
    BY <1>1, <1>3, <2>3
<1>4. CASE ~\E p \in putSet : SameItem(p, item)
  BY <1>1, <1>4
<1> QED
  BY <1>3, <1>4

LEMMA CarriedKeepsIInv == ASSUME IInv, CarriedOut PROVE IInv'
<1>1. PICK u \in DOMAIN pul : /\ pc = "apply" /\ applied < Len(pul)
                              /\ \E t, d, marked, n, saved : Carried(u, t, d, marked, n, saved) /\ Effect(d, marked, n, saved)
  BY DEF CarriedOut
<1>2. PICK t, d, marked, n, saved : Carried(u, t, d, marked, n, saved) /\ Effect(d, marked, n, saved)
  BY <1>1
<1>3. /\ Change(dom, d, t) /\ Change(dom, dom', t) /\ Len(dom') = Len(d)
      /\ n # 0 => Marked(d, n) \subseteq {Root(d, n)}
      /\ PutItem(d, saved) \in Puts(dom')
  BY <1>2, EffectIs
<1>4. /\ forDeletion' = forDeletion \cup marked
      /\ forRevalidation' = forRevalidation \cup (IF n = 0 THEN {} ELSE Marked(d, n))
      /\ AddToPutSet(PutItem(d, saved), FALSE)
      /\ applied' = applied + 1 /\ pul' = pul /\ written' = written /\ given' = given
  BY <1>2 DEF Effect
<1>5. before' = before /\ AskedFor' = AskedFor
  BY <1>4 DEF before, AskedFor, OfKind, Targets
<1>6. IsForest(dom') /\ Keeps(dom, dom') /\ Len(dom) \in Nat /\ Len(dom') \in Nat /\ Len(dom) <= Len(dom')
  BY <1>3, ForestIs DEF Change, Keeps, IInv
<1>7. Keeps(before, dom')
  <2>1. Len(before) \in Nat /\ Keeps(before, dom)
    BY BeforeIs DEF IInv
  <2> QED
    BY <1>6, <2>1, KeepsTwice
<1>8. putSet \subseteq Puts(dom') /\ written \subseteq Puts(dom')
  BY <1>6 DEF IInv, Puts
<1>9. putSet' \subseteq putSet \cup {PutItem(d, saved)} /\ pc' \in {pc, "error"}
  <2> DEFINE item == PutItem(d, saved)
  <2>1. item \in Puts(dom') /\ AddToPutSet(item, FALSE)
    BY <1>3, <1>4
  <2> HIDE DEF item
  <2>2. putSet' \subseteq putSet \cup {item} /\ pc' \in {pc, "error"}
    <3>1. PICK e : e = dom'
      OBVIOUS
    <3> QED
      BY <1>8, <2>1, <3>1, ItemSaved
  <2> QED
    BY <2>2 DEF item
<1>10. putSet' \subseteq Puts(dom') /\ written' \subseteq Puts(dom')
  BY <1>3, <1>4, <1>8, <1>9
<1>11. forDeletion' \subseteq 1..Len(dom')
  <2>1. forDeletion \subseteq 1..Len(dom) /\ marked \subseteq 1..Len(dom)
    BY <1>2 DEF IInv, Carried
  <2> QED
    BY <1>4, <1>6, <2>1
<1>12. forRevalidation' \subseteq 1..Len(dom')
  <2>1. forRevalidation \subseteq 1..Len(dom)
    BY DEF IInv
  <2>2. n # 0 => Root(d, n) \in 1..Len(d)
    <3>1. n # 0 => n \in 1..Len(dom)
      BY <1>2 DEF Carried
    <3>2. IsForest(d) /\ Len(dom) <= Len(d) /\ Len(d) \in Nat
      BY <1>3, ForestIs DEF Change, Keeps
    <3>3. n # 0 => n \in 1..Len(d)
      BY <1>6, <3>1, <3>2
    <3> QED
      BY <3>2, <3>3, RootFacts, ForestsParents
  <2> DEFINE M == IF n = 0 THEN {} ELSE Marked(d, n)
  <2>3. M \subseteq 1..Len(dom')
    BY <1>3, <2>2
  <2>4. forRevalidation' = forRevalidation \cup M
    BY <1>4
  <2> HIDE DEF M
  <2>5. 1..Len(dom) \subseteq 1..Len(dom')
    BY <1>6
  <2> QED
    BY <2>1, <2>3, <2>4, <2>5
<1>13. applied' \in 0..Len(pul') /\ Len(pul') <= given'.size /\ pul' \in Seq(AskedFor')
  <2>1. Len(pul) \in Nat /\ applied \in 0..Len(pul) /\ Len(pul) <= given.size /\ pul \in Seq(AskedFor)
    BY DEF IInv
  <2> QED
    BY <1>1, <1>4, <1>5, <2>1
<1>14. given' \in Cases /\ pc' \in {"apply", "error"}
  BY <1>1, <1>4, <1>9 DEF IInv
<1> QED
  BY <1>5, <1>6, <1>7, <1>10, <1>11, <1>12, <1>13, <1>14 DEF IInv

LEMMA CarriedLeavesAlone ==
  ASSUME IInv, NEW u \in DOMAIN pul, NEW t, NEW d, NEW marked, NEW n, NEW saved,
         Carried(u, t, d, marked, n, saved), Effect(d, marked, n, saved),
         NEW K, Alone(K), Target(u) \notin K
  PROVE  Alone(K)'
<1>1. Change(dom, d, t) /\ Change(dom, dom', t) /\ (n # 0 => Marked(d, n) \subseteq {Root(d, n)})
  BY EffectIs
<1>2. /\ t \in 1..Len(dom) /\ (t = Target(u) \/ t = ParentOf(u)) /\ n \in {0, t}
      /\ marked \subseteq 1..Len(dom) /\ \A m \in marked : m = Target(u) \/ dom[m].parent = Target(u)
  BY DEF Carried
<1>3. /\ forDeletion' = forDeletion \cup marked
      /\ forRevalidation' = forRevalidation \cup (IF n = 0 THEN {} ELSE Marked(d, n))
      /\ given' = given
  BY DEF Effect
<1>4. /\ Closed(dom, K) /\ K \subseteq 1..Len(dom) /\ \A m \in K : dom[m] = before[m]
      /\ forDeletion \cap K = {} /\ forRevalidation \cap K = {}
  BY DEF Alone, Closed
<1>5. Target(u) \in 1..Len(dom)
  <2>1. pul[u] \in AskedFor
    BY DEF IInv
  <2>2. Target(u) \in Targets
    BY <2>1 DEF AskedFor, OfKind, Target
  <2> QED
    BY <2>2, BeforeIs
<1>6. t \notin K
  <2>1. CASE t = Target(u)
    BY <2>1
  <2>2. CASE t = ParentOf(u)
    <3>1. t = dom[Target(u)].parent /\ t # 0
      BY <1>2, <2>2 DEF ParentOf
    <3> QED
      BY <1>4, <1>5, <3>1 DEF Closed
  <2> QED
    BY <1>2, <2>1, <2>2
<1>7. Closed(dom', K) /\ \A m \in K : dom'[m] = dom[m]
  BY <1>1, <1>4, <1>6 DEF Change, Within
<1>8. before' = before
  BY <1>3 DEF before
<1>9. marked \cap K = {}
  <2>1. ASSUME NEW m \in marked PROVE m \notin K
    <3>1. CASE m = Target(u)
      BY <3>1
    <3>2. CASE dom[m].parent = Target(u)
      <4>1. m \in 1..Len(dom) /\ dom[m].parent # 0
        BY <1>2, <1>5, <3>2
      <4> QED
        BY <1>4, <3>2, <4>1 DEF Closed
    <3> QED
      BY <1>2, <3>1, <3>2
  <2> QED
    BY <2>1
<1>10. n # 0 => Marked(d, n) \cap K = {}
  <2>1. SUFFICES ASSUME n # 0 PROVE Marked(d, n) \cap K = {}
    OBVIOUS
  <2>2. n = t
    BY <1>2, <2>1
  <2>3. IsForest(d) /\ Closed(d, K)
    BY <1>1, <1>4, <1>6 DEF Change, Within
  <2>4. t \in 1..Len(d)
    <3>1. Len(dom) \in Nat /\ Len(d) \in Nat /\ Len(dom) <= Len(d)
      BY <1>1, ForestIs DEF Change, Keeps, IInv
    <3> QED
      BY <1>2, <3>1
  <2>5. Root(d, n) \notin K
    BY <1>6, <2>2, <2>3, <2>4, TreeOutside
  <2> QED
    BY <1>1, <2>1, <2>5
<1>11. forDeletion' \cap K = {}
  BY <1>3, <1>4, <1>9
<1>12. forRevalidation' \cap K = {}
  BY <1>3, <1>4, <1>10
<1>13. \A m \in K : dom'[m] = before'[m]
  BY <1>4, <1>7, <1>8
<1> QED
  BY <1>7, <1>11, <1>12, <1>13 DEF Alone

-------------------------------------------------------------------------------
(***************************************************************************)
(* The other steps                                                         *)
(***************************************************************************)
Collect ==
  \/ UInsertInto \/ UInsertAsFirst \/ UInsertAsLast \/ UInsertBefore \/ UInsertAfter
  \/ UReplace \/ UReplaceValueOf \/ URename \/ UDelete \/ FunctionPut

LEMMA CollectIs ==
  ASSUME IInv, Collect
  PROVE  \E updates : updates \in Seq(AskedFor) /\ Ask(updates)
<1>1. given \in Cases /\ IsForest(before)
  BY BeforeIs DEF IInv
<1>2. /\ given.contents \subseteq Seq(ItemsToInsert) /\ <<>> \in Seq(ItemsToInsert)
      /\ given.names \subseteq Names /\ given.strings \subseteq Strings /\ given.uris \subseteq STRING
  BY <1>1, CasesAssumption
<1>3. \A updates : Ask(updates) => updates # Rejected /\ pc = "collect"
  BY DEF Ask
<1>4. pc = "collect" => dom = before
  BY DEF IInv, Start
<1>5. CASE UInsertInto \/ UInsertAsFirst \/ UInsertAsLast
  <2>1. PICK type \in {"INSERT_INTO", "INSERT_INTO_AS_FIRST", "INSERT_INTO_AS_LAST"}, t \in Targets, c \in given.contents :
          Ask(InsertChildren(dom, type, t, c))
    BY <1>5 DEF UInsertInto, UInsertAsFirst, UInsertAsLast
  <2>2. c \in Seq(ItemsToInsert) /\ dom = before /\ InsertChildren(before, type, t, c) # Rejected
    BY <1>2, <1>3, <1>4, <2>1
  <2>3. InsertChildren(before, type, t, c) \in Seq(AskedFor)
    BY <2>2, ChildrenAsked
  <2> QED
    BY <2>1, <2>2, <2>3
<1>6. CASE UInsertBefore \/ UInsertAfter
  <2>1. PICK type \in {"INSERT_BEFORE", "INSERT_AFTER"}, t \in Targets, c \in given.contents :
          Ask(InsertSiblings(dom, type, t, c))
    BY <1>6 DEF UInsertBefore, UInsertAfter
  <2>2. c \in Seq(ItemsToInsert) /\ dom = before /\ InsertSiblings(before, type, t, c) # Rejected
    BY <1>2, <1>3, <1>4, <2>1
  <2>3. InsertSiblings(before, type, t, c) \in Seq(AskedFor)
    BY <1>1, <2>2, SiblingsAsked
  <2> QED
    BY <2>1, <2>2, <2>3
<1>7. CASE UReplace
  <2>1. PICK t \in Targets, c \in given.contents \cup {<<>>} : Ask(Replace(dom, t, c))
    BY <1>7 DEF UReplace
  <2>2. c \in Seq(ItemsToInsert) /\ dom = before /\ Replace(before, t, c) # Rejected
    BY <1>2, <1>3, <1>4, <2>1
  <2>3. Replace(before, t, c) \in Seq(AskedFor)
    BY <1>1, <2>2, ReplaceAsked
  <2> QED
    BY <2>1, <2>2, <2>3
<1>8. CASE UReplaceValueOf
  <2>1. PICK t \in Targets, s \in given.strings : Ask(ReplaceValueOf(dom, t, s))
    BY <1>8 DEF UReplaceValueOf
  <2>2. s \in Strings /\ dom = before /\ ReplaceValueOf(before, t, s) # Rejected
    BY <1>2, <1>3, <1>4, <2>1
  <2>3. ReplaceValueOf(before, t, s) \in Seq(AskedFor)
    BY <1>1, <2>2, ValueAsked
  <2> QED
    BY <2>1, <2>2, <2>3
<1>9. CASE URename
  <2>1. PICK t \in Targets, name \in given.names : Ask(Rename(dom, t, name))
    BY <1>9 DEF URename
  <2>2. name \in Names /\ dom = before /\ Rename(before, t, name) # Rejected
    BY <1>2, <1>3, <1>4, <2>1
  <2>3. Rename(before, t, name) \in Seq(AskedFor)
    BY <2>2, RenameAsked
  <2> QED
    BY <2>1, <2>2, <2>3
<1>10. CASE UDelete
  <2>1. PICK t \in Targets : Ask(Delete(t))
    BY <1>10 DEF UDelete
  <2> QED
    BY <2>1, DeleteAsked
<1>11. CASE FunctionPut
  <2>1. PICK t \in Targets, uri \in given.uris : Ask(Put(dom, t, uri))
    BY <1>11 DEF FunctionPut
  <2>2. uri \in STRING /\ dom = before /\ Put(before, t, uri) # Rejected
    BY <1>2, <1>3, <1>4, <2>1
  <2>3. Put(before, t, uri) \in Seq(AskedFor)
    BY <2>2, PutAsked
  <2> QED
    BY <2>1, <2>2, <2>3
<1> QED
  BY <1>5, <1>6, <1>7, <1>8, <1>9, <1>10, <1>11 DEF Collect

LEMMA CollectKeepsIInv == ASSUME IInv, Collect PROVE IInv' /\ pc' = "collect"
<1>1. PICK updates : updates \in Seq(AskedFor) /\ Ask(updates)
  BY CollectIs
<1>2. /\ pc = "collect" /\ Len(pul) + Len(updates) <= given.size /\ pul' = pul \o updates
      /\ UNCHANGED <<dom, pc, applied, forDeletion, forRevalidation, putSet, written, given>>
  BY <1>1 DEF Ask
<1>3. before' = before /\ AskedFor' = AskedFor
  BY <1>2 DEF before, AskedFor, OfKind, Targets
<1>4. pul \in Seq(AskedFor) /\ applied \in 0..Len(pul)
  BY DEF IInv
<1>5. pul' \in Seq(AskedFor) /\ Len(pul') = Len(pul) + Len(updates)
  BY <1>1, <1>2, <1>4, ConcatProperties
<1>6. Len(updates) \in Nat /\ Len(pul) \in Nat
  BY <1>1, <1>4
<1>7. applied' \in 0..Len(pul') /\ Len(pul') <= given'.size
  BY <1>2, <1>4, <1>5, <1>6
<1>8. Start'
  BY <1>2, <1>3 DEF IInv, Start
<1>9. IsForest(dom') /\ Keeps(before', dom') /\ given' \in Cases /\ pc' = "collect"
      /\ forDeletion' \subseteq 1..Len(dom') /\ forRevalidation' \subseteq 1..Len(dom')
      /\ putSet' \subseteq Puts(dom)' /\ written' \subseteq Puts(dom)'
  BY <1>2, <1>3 DEF IInv, Puts
<1> QED
  BY <1>3, <1>5, <1>7, <1>8, <1>9 DEF IInv

\* Steps that leave the DOM as it is.
LEMMA SameDom ==
  ASSUME IInv, UNCHANGED <<given, dom, pul, forDeletion, forRevalidation>>,
         pc' \in {"apply", "write", "done", "error", "crash"}, applied' \in 0..Len(pul),
         putSet' \subseteq Puts(dom), written' \subseteq Puts(dom)
  PROVE  IInv'
<1>1. before' = before /\ AskedFor' = AskedFor /\ Puts(dom)' = Puts(dom)
  BY DEF before, AskedFor, OfKind, Targets, Puts
<1> QED
  BY <1>1 DEF IInv

LEMMA ApplyPutIs ==
  ASSUME IInv, ApplyPut
  PROVE  /\ UNCHANGED <<given, dom, pul, forDeletion, forRevalidation, written>>
         /\ pc = "apply" /\ pc' \in {"apply", "error"} /\ applied' \in 0..Len(pul)
         /\ putSet \subseteq putSet' /\ putSet' \subseteq Puts(dom)
<1>1. PICK u \in Due("PUT") : /\ AddToPutSet([uri |-> pul[u].value[1], node |-> Target(u)], TRUE)
                              /\ applied' = applied + 1
                              /\ UNCHANGED <<dom, pul, forDeletion, forRevalidation, written, given>>
  BY DEF ApplyPut
<1>2. pc = "apply" /\ applied < Len(pul) /\ pul[u].type = "PUT" /\ pul[u] \in AskedFor
  BY DueIs
<1>3. Target(u) \in Targets /\ pul[u].value \in Strings /\ Len(pul[u].value) = 1
  BY <1>2 DEF AskedFor, OfKind, Target
<1>4. pul[u].value[1] \in STRING
  <2>1. \A S : \A v \in Seq(S) : Len(v) = 1 => v[1] \in S
    OBVIOUS
  <2> QED
    BY <1>3, <2>1 DEF Strings
<1> DEFINE item == [uri |-> pul[u].value[1], node |-> Target(u)]
<1>5. Target(u) \in 1..Len(dom)
  BY <1>3, BeforeIs
<1>6. item \in Puts(dom)
  BY <1>4, <1>5 DEF Puts
<1> HIDE DEF item
<1>7. putSet \subseteq putSet' /\ putSet' \subseteq putSet \cup {item} /\ pc' \in {pc, "error"}
  <2>1. AddToPutSet(item, TRUE)
    BY <1>1 DEF item
  <2> QED
    BY <2>1 DEF AddToPutSet
<1>8. putSet' \subseteq Puts(dom)
  BY <1>6, <1>7 DEF IInv
<1>9. applied \in 0..Len(pul) /\ Len(pul) \in Nat
  BY DEF IInv
<1>10. applied' \in 0..Len(pul)
  BY <1>1, <1>2, <1>9
<1> QED
  BY <1>1, <1>2, <1>7, <1>8, <1>10

LEMMA DeletionIs ==
  ASSUME IInv, NEW n \in forDeletion, NEW r, r = 0 \/ r = dom[n].parent, dom' = Retyped(Removed(dom, n), r)
  PROVE  /\ Change(dom, dom', n)
         /\ r # 0 => /\ r \in 1..Len(dom) /\ Marked(Removed(dom, n), r) \subseteq {Root(Removed(dom, n), r)}
                     /\ r \in 1..Len(Removed(dom, n))
         /\ Change(dom, Removed(dom, n), n) /\ Len(Removed(dom, n)) = Len(dom) /\ Len(dom') = Len(dom)
<1> DEFINE d == Removed(dom, n)
<1>1. n \in 1..Len(dom) /\ IsForest(dom)
  BY DEF IInv
<1>2. Change(dom, d, n) /\ Len(d) = Len(dom) /\ IsForest(d) /\ n \in 1..Len(d)
  BY <1>1, Removal DEF Change
<1> HIDE DEF d
<1>3. r # 0 => r \in 1..Len(dom) /\ r \in 1..Len(d)
  BY <1>1, <1>2, ParentIs
<1>4. dom' = Retyped(d, r)
  BY DEF d
<1>5. CASE r = 0
  <2>1. dom' = d
    BY <1>4, <1>5 DEF Retyped
  <2> QED
    BY <1>2, <1>5, <2>1 DEF d
<1>6. CASE r # 0
  <2>1. Change(d, dom', r) /\ SameShape(d, dom') /\ Marked(d, r) \subseteq {Root(d, r)}
    BY <1>2, <1>3, <1>4, <1>6, RetypedIs
  <2>2. Within(dom, d, r)
    BY <1>1, <1>2, <1>6, SameTree DEF Change
  <2>3. Change(dom, d, r)
    BY <1>2, <2>2 DEF Change
  <2>4. Change(dom, dom', r)
    BY <1>1, <2>1, <2>3, ChangeTwice
  <2>5. Within(dom, dom', n)
    BY <1>1, <1>6, <2>4, SameTree DEF Change
  <2>6. Change(dom, dom', n)
    BY <2>4, <2>5 DEF Change
  <2>7. Len(dom') = Len(dom)
    BY <1>2, <2>1 DEF SameShape
  <2> QED
    BY <1>2, <1>3, <1>6, <2>1, <2>6, <2>7 DEF d
<1> QED
  BY <1>5, <1>6

LEMMA CompleteDeletionsIs ==
  ASSUME IInv, CompleteDeletions
  PROVE  \E n \in forDeletion : \E r :
           /\ r = 0 \/ r = dom[n].parent
           /\ dom' = Retyped(Removed(dom, n), r)
           /\ forRevalidation' = forRevalidation \cup (IF r = 0 THEN {} ELSE Marked(Removed(dom, n), r))
           /\ forDeletion' = forDeletion \ {n}
           /\ pc = "apply" /\ UNCHANGED <<pul, pc, applied, putSet, written, given>>
<1>1. PICK n \in forDeletion :
        LET p == dom[n].parent
            d == Removed(dom, n)
        IN /\ dom' = Retyped(d, IF LosesContent(n) THEN p ELSE 0)
           /\ forRevalidation' = forRevalidation \cup (IF LosesContent(n) THEN Marked(d, p) ELSE {})
           /\ forDeletion' = forDeletion \ {n}
           /\ pc = "apply" /\ UNCHANGED <<pul, pc, applied, putSet, written, given>>
  BY DEF CompleteDeletions, Completing
<1>2. CASE LosesContent(n)
  <2>1. dom[n].parent # 0
    BY <1>2 DEF LosesContent
  <2>2. /\ dom' = Retyped(Removed(dom, n), dom[n].parent)
        /\ forRevalidation' = forRevalidation \cup (IF dom[n].parent = 0 THEN {} ELSE Marked(Removed(dom, n), dom[n].parent))
    BY <1>1, <1>2, <2>1
  <2> QED
    BY <1>1, <2>2
<1>3. CASE ~LosesContent(n)
  <2>1. /\ dom' = Retyped(Removed(dom, n), 0)
        /\ forRevalidation' = forRevalidation \cup (IF 0 = 0 THEN {} ELSE Marked(Removed(dom, n), 0))
    BY <1>1, <1>3
  <2> QED
    BY <1>1, <2>1
<1> QED
  BY <1>2, <1>3

LEMMA CompleteDeletionsKeeps ==
  ASSUME IInv, CompleteDeletions
  PROVE  IInv' /\ \A K : Alone(K) => Alone(K)'
<1>0. PICK n \in forDeletion : \E r :
        /\ r = 0 \/ r = dom[n].parent
        /\ dom' = Retyped(Removed(dom, n), r)
        /\ forRevalidation' = forRevalidation \cup (IF r = 0 THEN {} ELSE Marked(Removed(dom, n), r))
        /\ forDeletion' = forDeletion \ {n}
        /\ pc = "apply" /\ UNCHANGED <<pul, pc, applied, putSet, written, given>>
  BY CompleteDeletionsIs
<1>1. PICK r :
        /\ r = 0 \/ r = dom[n].parent
        /\ dom' = Retyped(Removed(dom, n), r)
        /\ forRevalidation' = forRevalidation \cup (IF r = 0 THEN {} ELSE Marked(Removed(dom, n), r))
        /\ forDeletion' = forDeletion \ {n}
        /\ pc = "apply" /\ UNCHANGED <<pul, pc, applied, putSet, written, given>>
  BY <1>0
<1> DEFINE d == Removed(dom, n)
           M == IF r = 0 THEN {} ELSE Marked(d, r)
<1>2. /\ Change(dom, dom', n) /\ Change(dom, d, n) /\ Len(d) = Len(dom) /\ Len(dom') = Len(dom)
      /\ r # 0 => r \in 1..Len(dom) /\ r \in 1..Len(d) /\ Marked(d, r) \subseteq {Root(d, r)}
  BY <1>1, DeletionIs
<1>3. forRevalidation' = forRevalidation \cup M
  BY <1>1
<1> HIDE DEF d
<1>4. IsForest(d) /\ IsForest(dom') /\ Keeps(dom, dom') /\ Len(dom) \in Nat /\ Len(dom') \in Nat /\ n \in 1..Len(dom)
  BY <1>2, ForestIs DEF Change, IInv
<1>5. M \subseteq 1..Len(dom)
  <2>1. r # 0 => Root(d, r) \in 1..Len(d)
    BY <1>2, <1>4, RootFacts, ForestsParents
  <2> QED
    BY <1>2, <2>1
<1> HIDE DEF M
<1>6. before' = before /\ AskedFor' = AskedFor
  BY <1>1 DEF before, AskedFor, OfKind, Targets
<1>7. Puts(dom)' = Puts(dom)
  BY <1>2 DEF Puts
<1>8. Keeps(before, dom')
  <2>1. Len(before) \in Nat /\ Keeps(before, dom)
    BY BeforeIs DEF IInv
  <2> QED
    BY <1>4, <2>1, KeepsTwice
<1>9. forDeletion' \subseteq 1..Len(dom') /\ forRevalidation' \subseteq 1..Len(dom')
  BY <1>1, <1>2, <1>3, <1>5 DEF IInv
<1>10. IInv'
  BY <1>1, <1>4, <1>6, <1>7, <1>8, <1>9 DEF IInv
<1>11. ASSUME NEW K, Alone(K) PROVE Alone(K)'
  <2>1. /\ Closed(dom, K) /\ K \subseteq 1..Len(dom) /\ (\A m \in K : dom[m] = before[m])
        /\ forDeletion \cap K = {} /\ forRevalidation \cap K = {} /\ n \notin K
    BY <1>11 DEF Alone, Closed
  <2>2. Closed(dom', K) /\ (\A m \in K : dom'[m] = dom[m]) /\ Closed(d, K)
    BY <1>2, <2>1 DEF Change, Within
  <2>3. r # 0 => r \notin K
    BY <1>1, <1>4, <2>1 DEF Closed
  <2>4. M \cap K = {}
    <3>1. r # 0 => Root(d, r) \notin K
      BY <1>2, <1>4, <2>2, <2>3, TreeOutside
    <3> QED
      BY <1>2, <3>1 DEF M
  <2>5. forDeletion' \cap K = {} /\ forRevalidation' \cap K = {}
    BY <1>1, <1>3, <2>1, <2>4
  <2>6. \A m \in K : dom'[m] = before'[m]
    BY <1>6, <2>1, <2>2
  <2> QED
    BY <2>2, <2>5, <2>6 DEF Alone
<1> QED
  BY <1>10, <1>11

LEMMA RevalidationIs ==
  ASSUME IInv, CompleteRevalidation
  PROVE  /\ SameShape(dom, dom')
         /\ \A m \in 1..Len(dom) : dom'[m] = dom[m] \/ Root(dom, m) \in forRevalidation
         /\ pc' \in {"write", "error"}
         /\ UNCHANGED <<pul, applied, forDeletion, forRevalidation, putSet, written, given>>
<1>1. /\ dom' = dom \/ dom' = [n \in DOMAIN dom |->
             IF dom[n].kind \in {"element", "attribute"} /\ Root(dom, n) \in forRevalidation
             THEN [dom[n] EXCEPT !.type = "typed"] ELSE dom[n]]
      /\ pc' \in {"write", "error"}
      /\ UNCHANGED <<pul, applied, forDeletion, forRevalidation, putSet, written, given>>
  BY DEF CompleteRevalidation
<1>2. IsForest(dom) /\ dom \in Seq(Nodes) /\ Len(dom) \in Nat /\ DOMAIN dom = 1..Len(dom) /\ \A n \in 1..Len(dom) : dom[n] \in Nodes
  BY ForestIs DEF IInv
<1>3. CASE dom' = dom
  BY <1>1, <1>2, <1>3 DEF SameShape
<1>4. CASE dom' = [n \in DOMAIN dom |->
             IF dom[n].kind \in {"element", "attribute"} /\ Root(dom, n) \in forRevalidation
             THEN [dom[n] EXCEPT !.type = "typed"] ELSE dom[n]]
  <2>1. PICK e : e = dom'
    OBVIOUS
  <2>2. e = [n \in 1..Len(dom) |->
             IF dom[n].kind \in {"element", "attribute"} /\ Root(dom, n) \in forRevalidation
             THEN [dom[n] EXCEPT !.type = "typed"] ELSE dom[n]]
    BY <1>2, <1>4, <2>1
  <2>3. ASSUME NEW n \in 1..Len(dom)
        PROVE  /\ e[n] \in Nodes
               /\ e[n].kind = dom[n].kind /\ e[n].uri = dom[n].uri /\ e[n].origin = dom[n].origin
               /\ e[n].parent = dom[n].parent /\ e[n].children = dom[n].children /\ e[n].attrs = dom[n].attrs
               /\ e[n] = dom[n] \/ Root(dom, n) \in forRevalidation
    <3>1. dom[n] \in Nodes
      BY <1>2
    <3>2. e[n] = dom[n] \/ (e[n] = [dom[n] EXCEPT !.type = "typed"] /\ Root(dom, n) \in forRevalidation)
      BY <2>2
    <3> QED
      BY <3>1, <3>2 DEF Nodes, TypesOfNodes
  <2>4. e \in Seq(Nodes) /\ Len(e) = Len(dom)
    <3>1. e \in [1..Len(dom) -> Nodes]
      BY <2>2, <2>3
    <3> QED
      BY <1>2, <3>1
  <2>5. SameShape(dom, e)
    BY <2>3, <2>4 DEF SameShape
  <2> QED
    BY <1>1, <2>1, <2>3, <2>5
<1> QED
  BY <1>1, <1>3, <1>4

LEMMA CompleteRevalidationKeeps ==
  ASSUME IInv, CompleteRevalidation
  PROVE  IInv' /\ \A K : Alone(K) => Alone(K)'
<1>1. /\ SameShape(dom, dom')
      /\ \A m \in 1..Len(dom) : dom'[m] = dom[m] \/ Root(dom, m) \in forRevalidation
      /\ pc' \in {"write", "error"}
      /\ UNCHANGED <<pul, applied, forDeletion, forRevalidation, putSet, written, given>>
  BY RevalidationIs
<1>2. IsForest(dom) /\ Len(dom) \in Nat /\ Len(dom') = Len(dom)
  BY <1>1, ForestIs DEF IInv, SameShape
<1>3. IsForest(dom') /\ Keeps(dom, dom') /\ Len(dom') \in Nat
  BY <1>1, <1>2, ShapeKept
<1>4. Keeps(before, dom')
  <2>1. Len(before) \in Nat /\ Keeps(before, dom)
    BY BeforeIs DEF IInv
  <2> QED
    BY <1>2, <1>3, <2>1, KeepsTwice
<1>5. before' = before /\ AskedFor' = AskedFor /\ Puts(dom)' = Puts(dom)
  BY <1>1, <1>2 DEF before, AskedFor, OfKind, Targets, Puts
<1>6. IInv'
  BY <1>1, <1>2, <1>3, <1>4, <1>5 DEF IInv
<1>7. ASSUME NEW K, Alone(K) PROVE Alone(K)'
  <2>1. /\ Closed(dom, K) /\ K \subseteq 1..Len(dom) /\ (\A m \in K : dom[m] = before[m])
        /\ forDeletion \cap K = {} /\ forRevalidation \cap K = {}
    BY <1>7 DEF Alone, Closed
  <2>2. Closed(dom', K)
    BY <1>1, <2>1, ShapeClosed
  <2>3. \A m \in K : Root(dom, m) \in K
    <3>1. \A n \in 1..Len(dom) : n \in K /\ dom[n].parent # 0 => dom[n].parent \in K
      BY <2>1 DEF Closed
    <3>2. \A n \in 1..Len(dom) : n \in K => Root(dom, n) \in K
      BY <1>2, <3>1, UpwardClosed, ForestsParents
    <3> QED
      BY <2>1, <3>2
  <2>4. \A m \in K : dom'[m] = before'[m]
    BY <1>1, <1>5, <2>1, <2>3
  <2> QED
    BY <1>1, <2>1, <2>2, <2>4 DEF Alone
<1> QED
  BY <1>6, <1>7

-------------------------------------------------------------------------------
(***************************************************************************)
(* Every step                                                              *)
(***************************************************************************)
LEMMA StepIs ==
  ASSUME IInv, [Next]_vars
  PROVE  \/ Collect \/ ApplyUpdates \/ ApplyPut \/ CarriedOut \/ Crash
         \/ CompleteDeletions \/ CompleteRevalidation \/ PutDocument \/ Complete \/ UNCHANGED vars
<1>1. CASE ApplyInsertInto \/ ApplyInsertAsLast
  BY <1>1, InsertIntoCarried
<1>2. CASE ApplyInsertAsFirst
  BY <1>2, InsertAsFirstCarried
<1>3. CASE ApplyInsertBefore
  BY <1>3, InsertBeforeCarried
<1>4. CASE ApplyInsertAfter
  BY <1>4, InsertAfterCarried
<1>5. CASE ApplyInsertAttributes
  BY <1>5, InsertAttributesCarried
<1>6. CASE ApplyReplaceValue
  BY <1>6, ReplaceValueCarried
<1>7. CASE ApplyRename
  BY <1>7, RenameCarried
<1>8. CASE ApplyReplaceNode
  BY <1>8, ReplaceNodeCarried
<1>9. CASE ApplyReplaceAttribute
  BY <1>9, ReplaceAttributeCarried
<1>10. CASE ApplyReplaceElementContent
  BY <1>10, ReplaceElementContentCarried
<1>11. CASE ApplyDelete
  BY <1>11, DeleteCarried
<1> QED
  BY <1>1, <1>2, <1>3, <1>4, <1>5, <1>6, <1>7, <1>8, <1>9, <1>10, <1>11 DEF Next, Collect

LEMMA ApplyUpdatesIs ==
  ASSUME ApplyUpdates
  PROVE  /\ UNCHANGED <<dom, pul, applied, forDeletion, forRevalidation, putSet, written, given>>
         /\ pc = "collect" /\ (pc' = "error" \/ (pc' = "apply" /\ TargetsCopied))
BY DEF ApplyUpdates

LEMMA PutDocumentIs ==
  ASSUME PutDocument
  PROVE  /\ UNCHANGED <<dom, pul, applied, forDeletion, forRevalidation, given>>
         /\ pc = "write" /\ pc' \in {"write", "error"} /\ putSet' \subseteq putSet
         /\ written' \subseteq written \cup putSet
         /\ pc' = "write" => written' \cup putSet' = written \cup putSet
<1>1. PICK p \in putSet :
        /\ putSet' = putSet \ {p}
        /\ \/ pc' = pc /\ written' = written \cup {p}
           \/ p.uri # NoURI /\ pc' = "error" /\ written' = written
        /\ UNCHANGED <<dom, pul, applied, forDeletion, forRevalidation, given>>
  BY DEF PutDocument
<1>2. pc = "write"
  BY DEF PutDocument
<1> QED
  BY <1>1, <1>2

LEMMA StartsInIInv == ASSUME Init PROVE IInv
<1>1. given \in Cases /\ dom = before
  BY DEF Init, before
<1>2. IsForest(before) /\ given.size \in Nat
  BY <1>1, CasesAssumption DEF before
<1>3. Len(before) \in Nat
  BY <1>2, ForestIs
<1>4. Keeps(before, before)
  BY <1>3 DEF Keeps
<1>5. pul = <<>> /\ <<>> \in Seq(AskedFor) /\ Len(<<>>) = 0
  BY DEF Init
<1>6. applied \in 0..Len(pul) /\ Len(pul) <= given.size
  BY <1>2, <1>5 DEF Init
<1>7. forDeletion = {} /\ forRevalidation = {} /\ putSet = {} /\ written = {} /\ pc = "collect" /\ applied = 0
  BY DEF Init
<1>8. Start
  BY <1>1, <1>7 DEF Start
<1> QED
  BY <1>1, <1>2, <1>4, <1>5, <1>6, <1>7, <1>8 DEF IInv

LEMMA IInvInductive == ASSUME IInv, [Next]_vars PROVE IInv'
<1>1. CASE Collect
  BY <1>1, CollectKeepsIInv
<1>2. CASE ApplyUpdates
  <2>1. /\ UNCHANGED <<dom, pul, applied, forDeletion, forRevalidation, putSet, written, given>>
        /\ pc' \in {"apply", "error"}
    BY <1>2, ApplyUpdatesIs
  <2>2. applied' \in 0..Len(pul) /\ putSet' \subseteq Puts(dom) /\ written' \subseteq Puts(dom)
    BY <2>1 DEF IInv
  <2> QED
    BY <2>1, <2>2, SameDom
<1>3. CASE ApplyPut
  <2>1. /\ UNCHANGED <<given, dom, pul, forDeletion, forRevalidation, written>>
        /\ pc' \in {"apply", "error"} /\ applied' \in 0..Len(pul) /\ putSet' \subseteq Puts(dom)
    BY <1>3, ApplyPutIs
  <2>2. written' \subseteq Puts(dom)
    BY <2>1 DEF IInv
  <2> QED
    BY <2>1, <2>2, SameDom
<1>4. CASE CarriedOut
  BY <1>4, CarriedKeepsIInv
<1>5. CASE Crash
  <2>1. /\ UNCHANGED <<dom, pul, applied, forDeletion, forRevalidation, putSet, written, given>>
        /\ pc' = "crash"
    BY <1>5 DEF Crash
  <2>2. applied' \in 0..Len(pul) /\ putSet' \subseteq Puts(dom) /\ written' \subseteq Puts(dom)
    BY <2>1 DEF IInv
  <2> QED
    BY <2>1, <2>2, SameDom
<1>6. CASE CompleteDeletions
  BY <1>6, CompleteDeletionsKeeps
<1>7. CASE CompleteRevalidation
  BY <1>7, CompleteRevalidationKeeps
<1>8. CASE PutDocument
  <2>1. /\ UNCHANGED <<dom, pul, applied, forDeletion, forRevalidation, given>>
        /\ pc' \in {"write", "error"} /\ putSet' \subseteq putSet /\ written' \subseteq written \cup putSet
    BY <1>8, PutDocumentIs
  <2>2. applied' \in 0..Len(pul) /\ putSet' \subseteq Puts(dom) /\ written' \subseteq Puts(dom)
    BY <2>1 DEF IInv
  <2> QED
    BY <2>1, <2>2, SameDom
<1>9. CASE Complete
  <2>1. /\ UNCHANGED <<dom, pul, applied, forDeletion, forRevalidation, putSet, written, given>>
        /\ pc' = "done"
    BY <1>9 DEF Complete
  <2>2. applied' \in 0..Len(pul) /\ putSet' \subseteq Puts(dom) /\ written' \subseteq Puts(dom)
    BY <2>1 DEF IInv
  <2> QED
    BY <2>1, <2>2, SameDom
<1>10. CASE UNCHANGED vars
  <2>1. UNCHANGED <<given, dom, pul, pc, applied, forDeletion, forRevalidation, putSet, written>>
    BY <1>10 DEF vars
  <2>2. before' = before /\ AskedFor' = AskedFor /\ Puts(dom)' = Puts(dom)
    BY <2>1 DEF before, AskedFor, OfKind, Targets, Puts
  <2>3. Start' <=> Start
    BY <2>1, <2>2 DEF Start
  <2> QED
    BY <2>1, <2>2, <2>3 DEF IInv
<1> QED
  BY <1>1, <1>2, <1>3, <1>4, <1>5, <1>6, <1>7, <1>8, <1>9, <1>10, StepIs

LEMMA AlwaysIInv == Spec => []IInv
<1>1. Init => IInv
  BY StartsInIInv
<1>2. IInv /\ [Next]_vars => IInv'
  BY IInvInductive
<1> QED
  BY <1>1, <1>2, PTL DEF Spec

LEMMA IInvIsTypeOK == ASSUME IInv PROVE TypeOK
<1>1. DOMAIN dom = 1..Len(dom)
  BY ForestIs DEF IInv
<1>2. putSet \subseteq Puts(dom) /\ written \subseteq Puts(dom)
  BY DEF IInv
<1>3. \A p \in putSet \cup written : p.node \in DOMAIN dom
  BY <1>1, <1>2 DEF Puts
<1>4. forDeletion \subseteq DOMAIN dom /\ forRevalidation \subseteq DOMAIN dom
  BY <1>1 DEF IInv
<1> QED
  BY <1>3, <1>4 DEF IInv, TypeOK

\* Whatever updates a list holds and in whatever order the marked nodes are
\* deleted, the DOM stays a forest whose parents, children and attributes
\* agree, and what is marked or to be written is in it: no apply function of
\* XercesUpdateFactory leaves a node with two parents, twice among the children
\* of one, or an attribute among the children.
THEOREM DomStaysForest == Spec => []TypeOK
<1>1. IInv => TypeOK
  BY IInvIsTypeOK
<1> QED
  BY <1>1, AlwaysIInv, PTL

LEMMA AloneStill ==
  ASSUME UNCHANGED <<given, dom, forDeletion, forRevalidation>>, NEW K, Alone(K)
  PROVE  Alone(K)'
BY DEF Alone, before

LEMMA AloneAtStart ==
  ASSUME Init, NEW K, Closed(before, K)
  PROVE  Alone(K)
BY DEF Init, Alone, before

\* What depends on the tree only, whole trees have or have not.
LEMMA WholeTrees ==
  ASSUME NEW d, IsForest(d), NEW Roots
  PROVE  Closed(d, {n \in DOMAIN d : Root(d, n) \in Roots})
<1>1. ParentsFirst(d) /\ DOMAIN d = 1..Len(d)
  BY ForestsParents, ForestIs
<1>2. ASSUME NEW n \in 1..Len(d), d[n].parent # 0
      PROVE  d[n].parent \in 1..Len(d) /\ Root(d, n) = Root(d, d[n].parent)
  BY <1>1, <1>2, ParentIs, RootIs
<1> QED
  BY <1>1, <1>2 DEF Closed

-------------------------------------------------------------------------------
(***************************************************************************)
(* A transform expression: the trees that were not copied stay alone.      *)
(***************************************************************************)
Kept == {n \in Targets : Root(before, n) \notin Copies}

CopiesInv ==
  Copies # {} =>
    /\ Alone(Kept)
    /\ pc \notin {"collect", "error", "crash"} => \A u \in DOMAIN pul : Target(u) \notin Kept

LEMMA KeptIsClosed == ASSUME IsForest(before) PROVE Closed(before, Kept)
<1> DEFINE Roots == {Root(before, n) : n \in Targets} \ Copies
<1>1. Closed(before, {n \in DOMAIN before : Root(before, n) \in Roots})
  BY WholeTrees
<1>2. Kept = {n \in DOMAIN before : Root(before, n) \in Roots}
  BY DEF Kept, Targets
<1> QED
  BY <1>1, <1>2

LEMMA CopiedAreNotKept ==
  ASSUME IInv, pc = "collect", Copies # {}, TargetsCopied
  PROVE  \A u \in DOMAIN pul : Target(u) \notin Kept
<1>1. SUFFICES ASSUME NEW u \in DOMAIN pul PROVE Root(before, Target(u)) \in Copies
  BY DEF Kept
<1>2. dom = before /\ ParentsFirst(before) /\ Targets = 1..Len(before)
  BY BeforeIs, ForestsParents DEF IInv, Start
<1>3. Target(u) \in 1..Len(before)
  <2>1. pul[u] \in AskedFor
    BY DEF IInv
  <2>2. Target(u) \in Targets
    BY <2>1 DEF AskedFor, OfKind, Target
  <2> QED
    BY <1>2, <2>2
<1>4. PICK c \in Copies : c \in Range(Ancestry(before, Target(u)))
  BY <1>2 DEF TargetsCopied, Target
<1>5. c \in 1..Len(before) /\ Root(before, c) = Root(before, Target(u))
  BY <1>2, <1>3, <1>4, RootFacts
<1>6. before[c].parent = 0
  BY CasesAssumption DEF IInv, before, Copies
<1>7. Root(before, c) = c
  BY <1>2, <1>5, <1>6, RootIs
<1> QED
  BY <1>4, <1>5, <1>7

LEMMA CopiesInductive ==
  ASSUME IInv, CopiesInv, [Next]_vars
  PROVE  CopiesInv'
<1>1. given' = given
  <2>1. Collect => given' = given
    BY CollectIs DEF Ask
  <2>2. CarriedOut => given' = given
    BY DEF CarriedOut, Effect
  <2> QED
    BY <2>1, <2>2, StepIs, ApplyUpdatesIs, ApplyPutIs, PutDocumentIs
       DEF Crash, CompleteDeletions, CompleteRevalidation, Complete, vars
<1>2. Copies' = Copies /\ Kept' = Kept
  BY <1>1 DEF Copies, Kept, Targets, before
<1>3. SUFFICES ASSUME Copies # {}
               PROVE  /\ Alone(Kept)'
                      /\ pc' \notin {"collect", "error", "crash"} => \A u \in DOMAIN pul' : Target(u)' \notin Kept
  BY <1>2 DEF CopiesInv
<1>4. /\ Alone(Kept)
      /\ pc \notin {"collect", "error", "crash"} => \A u \in DOMAIN pul : Target(u) \notin Kept
  BY <1>3 DEF CopiesInv
<1> PICK K : K = Kept
  OBVIOUS
<1>5. Kept' = K /\ Alone(K)
  BY <1>2, <1>4
<1>6. SUFFICES /\ Alone(K)'
               /\ pc' \notin {"collect", "error", "crash"} => \A u \in DOMAIN pul' : Target(u)' \notin K
  BY <1>5
<1>7. CASE Collect
  <2>1. PICK updates : Ask(updates)
    BY <1>7, CollectIs
  <2>2. UNCHANGED <<given, dom, forDeletion, forRevalidation>> /\ pc' = "collect"
    BY <2>1 DEF Ask
  <2> QED
    BY <1>5, <2>2, AloneStill
<1>8. ASSUME UNCHANGED <<dom, pul, forDeletion, forRevalidation, given>>,
             pc' \in {pc, "error", "crash"} \/ pc \in {"apply", "write"} \/ (pc = "collect" /\ TargetsCopied)
      PROVE  /\ Alone(K)'
             /\ pc' \notin {"collect", "error", "crash"} => \A u \in DOMAIN pul' : Target(u)' \notin K
  <2>1. Alone(K)'
    BY <1>5, <1>8, AloneStill
  <2>2. pul' = pul
    BY <1>8
  <2>3. pc' \notin {"collect", "error", "crash"} => \A u \in DOMAIN pul : Target(u) \notin K
    BY <1>3, <1>4, <1>8, CopiedAreNotKept
  <2> QED
    BY <2>1, <2>2, <2>3 DEF Target
<1>9. CASE ApplyUpdates
  BY <1>8, <1>9, ApplyUpdatesIs
<1>10. CASE ApplyPut
  BY <1>8, <1>10, ApplyPutIs
<1>11. CASE CarriedOut
  <2>1. PICK u \in DOMAIN pul : /\ pc = "apply"
                                /\ \E t, d, marked, n, saved : Carried(u, t, d, marked, n, saved) /\ Effect(d, marked, n, saved)
    BY <1>11 DEF CarriedOut
  <2>2. PICK t, d, marked, n, saved : Carried(u, t, d, marked, n, saved) /\ Effect(d, marked, n, saved)
    BY <2>1
  <2>3. \A v \in DOMAIN pul : Target(v) \notin K
    BY <1>4, <2>1
  <2>4. Alone(K)'
    BY <1>5, <2>2, <2>3, CarriedLeavesAlone
  <2>5. pul' = pul
    BY <2>2 DEF Effect
  <2> QED
    BY <2>3, <2>4, <2>5 DEF Target
<1>12. CASE Crash
  BY <1>8, <1>12 DEF Crash
<1>13. CASE CompleteDeletions
  <2>1. Alone(K)'
    BY <1>5, <1>13, CompleteDeletionsKeeps
  <2>2. pul' = pul /\ pc = "apply"
    BY <1>13 DEF CompleteDeletions, Completing
  <2> QED
    BY <1>4, <2>1, <2>2 DEF Target
<1>14. CASE CompleteRevalidation
  <2>1. Alone(K)'
    BY <1>5, <1>14, CompleteRevalidationKeeps
  <2>2. pul' = pul /\ pc = "apply"
    BY <1>14 DEF CompleteRevalidation, Completing
  <2> QED
    BY <1>4, <2>1, <2>2 DEF Target
<1>15. CASE PutDocument
  BY <1>8, <1>15, PutDocumentIs
<1>16. CASE Complete
  BY <1>8, <1>16 DEF Complete
<1>17. CASE UNCHANGED vars
  BY <1>8, <1>17 DEF vars
<1> QED
  BY <1>7, <1>9, <1>10, <1>11, <1>12, <1>13, <1>14, <1>15, <1>16, <1>17, StepIs

LEMMA CopiesAtStart == ASSUME Init PROVE CopiesInv
<1>1. IsForest(before)
  BY CasesAssumption DEF Init, before
<1>2. Alone(Kept)
  BY <1>1, KeptIsClosed, AloneAtStart
<1> QED
  BY <1>2 DEF Init, CopiesInv

LEMMA CopiesInvIsCopiesOnly == ASSUME CopiesInv PROVE CopiesOnly
BY DEF CopiesInv, CopiesOnly, Alone, Kept

\* The check of the targets in UDTransform and the apply functions together: a
\* transform expression leaves every node of every tree that it did not copy
\* exactly as it was, after any step of any list of updates, deletions and
\* revalidation included.
THEOREM TransformChangesCopies == Spec => []CopiesOnly
<1>1. Init => IInv /\ CopiesInv
  BY StartsInIInv, CopiesAtStart
<1>2. (IInv /\ CopiesInv) /\ [Next]_vars => (IInv /\ CopiesInv)'
  BY IInvInductive, CopiesInductive
<1>3. IInv /\ CopiesInv => CopiesOnly
  BY CopiesInvIsCopiesOnly
<1> QED
  BY <1>1, <1>2, <1>3, PTL DEF Spec

-------------------------------------------------------------------------------
(***************************************************************************)
(* The trees of the start that neither are written nor will be: they stay  *)
(* alone unless a processing instruction is renamed, as an update saves    *)
(* the tree of its target.                                                 *)
(***************************************************************************)
Unsaved == {n \in Targets : PutItem(before, n) \notin putSet \cup written}

SavedInv == PIRenamed \/ pc \in {"error", "crash"} \/ Alone(Unsaved)

LEMMA OtherItemsAreClosed ==
  ASSUME IsForest(before), NEW items
  PROVE  Closed(before, {n \in Targets : PutItem(before, n) \notin items})
<1> DEFINE S == {n \in Targets : PutItem(before, n) \notin items}
           Roots == {Root(before, n) : n \in S}
<1>1. Closed(before, {n \in DOMAIN before : Root(before, n) \in Roots})
  BY WholeTrees
<1>2. \A n, m \in Targets : Root(before, n) = Root(before, m) => PutItem(before, n) = PutItem(before, m)
  BY DEF PutItem
<1>3. S = {n \in DOMAIN before : Root(before, n) \in Roots}
  BY <1>2 DEF Targets
<1> QED
  BY <1>1, <1>3

LEMMA AloneWithin ==
  ASSUME IInv, NEW L, L \subseteq Targets, Alone(L), NEW K, K \subseteq L, Closed(before, K)
  PROVE  Alone(K)
<1>1. /\ Closed(dom, L) /\ L \subseteq 1..Len(dom) /\ (\A n \in L : dom[n] = before[n])
      /\ forDeletion \cap L = {} /\ forRevalidation \cap L = {}
  BY DEF Alone, Closed
<1>2. Targets = 1..Len(before)
  BY BeforeIs
<1>3. ASSUME NEW n \in 1..Len(dom), dom[n].parent # 0
      PROVE  n \in K <=> dom[n].parent \in K
  <2>1. n \in K \/ dom[n].parent \in K => n \in L
    BY <1>1, <1>3 DEF Closed
  <2>2. n \in L => n \in 1..Len(before) /\ before[n].parent = dom[n].parent
    BY <1>1, <1>2
  <2> QED
    BY <1>3, <2>1, <2>2 DEF Closed
<1>4. Closed(dom, K)
  BY <1>1, <1>3 DEF Closed
<1> QED
  BY <1>1, <1>4 DEF Alone

\* As long as the tree of its target is as it was, an update saves the document
\* that this tree was in the beginning.
LEMMA SavesTarget ==
  ASSUME IInv, ~PIRenamed, Alone(Unsaved), NEW u \in DOMAIN pul, NEW t, NEW d, NEW marked, NEW n, NEW saved,
         Carried(u, t, d, marked, n, saved), Effect(d, marked, n, saved), Target(u) \in Unsaved
  PROVE  PutItem(d, saved) = PutItem(before, Target(u))
<1> DEFINE x == Target(u)
           S == Unsaved
<1>1. /\ t \in 1..Len(dom) /\ (t = x \/ t = dom[x].parent) /\ saved \in {x, t}
      /\ Root(d, saved) = Root(dom, saved) /\ Keeps(dom, d)
  BY DEF Carried, ParentOf, Change
<1>2. /\ IsForest(dom) /\ ParentsFirst(dom) /\ ParentsFirst(before) /\ Closed(before, S)
      /\ Targets = 1..Len(before) /\ Targets \subseteq 1..Len(dom) /\ Keeps(before, dom)
  BY BeforeIs, ForestsParents, OtherItemsAreClosed DEF IInv, Unsaved
<1>3. S \subseteq Targets /\ \A m \in S : dom[m] = before[m]
  BY DEF Unsaved, Alone
<1>4. x \in S /\ x \in 1..Len(before) /\ x \in 1..Len(dom)
  BY <1>2, <1>3
<1> HIDE DEF S
<1>5. S \subseteq 1..Len(before) /\ S \subseteq 1..Len(dom)
  BY <1>2, <1>3
<1>6. \A m \in S : dom[m].parent = before[m].parent /\ (before[m].parent # 0 => before[m].parent \in S)
  BY <1>2, <1>3, <1>5 DEF Closed
<1>7. \A m \in S : Ancestry(dom, m) = Ancestry(before, m) /\ Root(dom, m) = Root(before, m)
  BY ONLY <1>2, <1>5, <1>6, SameAncestry
<1> DEFINE r == Root(before, x)
<1>8. Root(dom, x) = r
  BY <1>4, <1>7
<1>9. Root(dom, saved) = r
  <2>1. 0 \notin 1..Len(dom)
    OBVIOUS
  <2>2. t = x \/ (t = dom[x].parent /\ dom[x].parent # 0)
    BY <1>1, <2>1
  <2>3. dom[x].parent # 0 => Root(dom, x) = Root(dom, dom[x].parent)
    BY <1>2, <1>4, RootIs
  <2> QED
    BY <1>1, <1>8, <2>2, <2>3
<1>10. r \in 1..Len(before) /\ r \in 1..Len(dom)
  BY <1>2, <1>4, RootFacts
<1> HIDE DEF r
<1>11. d[r].uri = before[r].uri
  BY <1>1, <1>2, <1>10 DEF Keeps
<1>12. Root(d, saved) = r
  BY <1>1, <1>9
<1> QED
  BY <1>11, <1>12 DEF PutItem, r

LEMMA CarriedKeepsSaved ==
  ASSUME IInv, ~PIRenamed, Alone(Unsaved), CarriedOut, pc' # "error"
  PROVE  Alone(Unsaved)'
<1>1. PICK u \in DOMAIN pul : \E t, d, marked, n, saved : Carried(u, t, d, marked, n, saved) /\ Effect(d, marked, n, saved)
  BY DEF CarriedOut
<1>2. PICK t, d, marked, n, saved : Carried(u, t, d, marked, n, saved) /\ Effect(d, marked, n, saved)
  BY <1>1
<1> DEFINE item == PutItem(d, saved)
<1>3. PICK e : e = dom'
  OBVIOUS
<1>4. item \in Puts(e) /\ Len(e) \in Nat /\ Len(dom) \in Nat /\ Len(dom) <= Len(e)
  <2>1. Change(dom, dom', t) /\ item \in Puts(dom')
    BY <1>2, EffectIs
  <2> QED
    BY <1>3, <2>1, ForestIs DEF Change, Keeps, IInv
<1>5. putSet \subseteq Puts(e)
  BY <1>4 DEF IInv, Puts
<1>6. AddToPutSet(item, FALSE) /\ written' = written /\ given' = given
  BY <1>2 DEF Effect
<1>7. Target(u) \in Unsaved => item = PutItem(before, Target(u))
  BY <1>2, SavesTarget
<1> HIDE DEF item
<1>8. putSet \subseteq putSet' /\ item \in putSet'
  BY <1>4, <1>5, <1>6, ItemSaved
<1> PICK K : K = Unsaved'
  OBVIOUS
<1>9. before' = before /\ Targets' = Targets
  BY <1>6 DEF before, Targets
<1>10. K = {m \in Targets : PutItem(before, m) \notin putSet' \cup written}
  BY <1>6, <1>9 DEF Unsaved, PutItem
<1>11. K \subseteq Unsaved
  BY <1>8, <1>10 DEF Unsaved
<1>12. Target(u) \notin K
  BY <1>7, <1>8, <1>10, <1>11
<1>13. Closed(before, K)
  BY <1>10, BeforeIs, OtherItemsAreClosed
<1>14. Alone(K)
  BY <1>11, <1>13, AloneWithin DEF Unsaved
<1>15. Alone(K)'
  BY <1>2, <1>12, <1>14, CarriedLeavesAlone
<1> QED
  BY <1>15

LEMMA SavedInductive ==
  ASSUME IInv, SavedInv, [Next]_vars
  PROVE  SavedInv'
<1>1. CASE Collect
  <2>1. PICK updates : Ask(updates)
    BY <1>1, CollectIs
  <2>2. UNCHANGED <<given, dom, forDeletion, forRevalidation, putSet, written>> /\ pc = "collect"
    BY <2>1 DEF Ask
  <2>3. Closed(before, Unsaved)
    BY BeforeIs, OtherItemsAreClosed DEF Unsaved
  <2>4. Alone(Unsaved)
    BY <2>2, <2>3 DEF IInv, Start, Alone
  <2>5. PICK K : K = Unsaved
    OBVIOUS
  <2>6. Unsaved' = K
    BY <2>2, <2>5 DEF Unsaved, Targets, PutItem, before
  <2>7. Alone(K)'
    BY <2>2, <2>4, <2>5, AloneStill
  <2> QED
    BY <2>6, <2>7 DEF SavedInv
\* The steps that leave the list as it is.
<1>2. ASSUME pul' = pul, given' = given, pc \in {"error", "crash"} => pc' \in {"error", "crash"},
             pc' \notin {"error", "crash"} /\ ~PIRenamed /\ Alone(Unsaved) => Alone(Unsaved)'
      PROVE  SavedInv'
  <2>1. PIRenamed' <=> PIRenamed
    BY <1>2 DEF PIRenamed, Updates, before
  <2> QED
    BY <1>2, <2>1 DEF SavedInv
<1>3. ASSUME UNCHANGED <<dom, given, forDeletion, forRevalidation>>, Alone(Unsaved),
             putSet \cup written \subseteq putSet' \cup written'
      PROVE  Alone(Unsaved)'
  <2>1. PICK K : K = Unsaved'
    OBVIOUS
  <2>2. PICK items : items = putSet' \cup written'
    OBVIOUS
  <2>3. K = {m \in Targets : PutItem(before, m) \notin items}
    BY <1>3, <2>1, <2>2 DEF Unsaved, PutItem, before, Targets
  <2>4. K \subseteq Unsaved /\ Unsaved \subseteq Targets
    BY <1>3, <2>2, <2>3 DEF Unsaved
  <2>5. Closed(before, K)
    BY <2>3, BeforeIs, OtherItemsAreClosed
  <2>6. Alone(K)
    BY <1>3, <2>4, <2>5, AloneWithin
  <2>7. Alone(K)'
    BY <1>3, <2>6, AloneStill
  <2> QED
    BY <2>1, <2>7
<1>4. ASSUME UNCHANGED <<putSet, written, given>>, Alone(Unsaved), \A K : Alone(K) => Alone(K)'
      PROVE  Alone(Unsaved)'
  <2>1. PICK K : K = Unsaved
    OBVIOUS
  <2>2. Unsaved' = K
    BY <1>4, <2>1 DEF Unsaved, Targets, PutItem, before
  <2>3. Alone(K)'
    BY <1>4, <2>1
  <2> QED
    BY <2>2, <2>3
<1>5. CASE ApplyUpdates
  <2>1. UNCHANGED <<dom, pul, applied, forDeletion, forRevalidation, putSet, written, given>> /\ pc = "collect"
    BY <1>5, ApplyUpdatesIs
  <2> QED
    BY <1>2, <1>3, <2>1
<1>6. CASE ApplyPut
  <2>1. /\ UNCHANGED <<given, dom, pul, forDeletion, forRevalidation, written>> /\ pc = "apply"
        /\ putSet \subseteq putSet'
    BY <1>6, ApplyPutIs
  <2> QED
    BY <1>2, <1>3, <2>1
<1>7. CASE CarriedOut
  <2>1. pc = "apply" /\ pul' = pul /\ given' = given
    BY <1>7 DEF CarriedOut, Effect
  <2> QED
    BY <1>2, <1>7, <2>1, CarriedKeepsSaved
<1>8. CASE Crash
  BY <1>8 DEF Crash, SavedInv
<1>9. CASE CompleteDeletions
  <2>1. UNCHANGED <<pul, pc, putSet, written, given>>
    BY <1>9 DEF CompleteDeletions
  <2>2. \A K : Alone(K) => Alone(K)'
    BY <1>9, CompleteDeletionsKeeps
  <2> QED
    BY <1>2, <1>4, <2>1, <2>2
<1>10. CASE CompleteRevalidation
  <2>1. UNCHANGED <<pul, putSet, written, given>> /\ pc = "apply"
    BY <1>10 DEF CompleteRevalidation, Completing
  <2>2. \A K : Alone(K) => Alone(K)'
    BY <1>10, CompleteRevalidationKeeps
  <2> QED
    BY <1>2, <1>4, <2>1, <2>2
<1>11. CASE PutDocument
  <2>1. /\ UNCHANGED <<dom, pul, applied, forDeletion, forRevalidation, given>>
        /\ pc = "write" /\ pc' \in {"write", "error"}
        /\ pc' = "write" => written' \cup putSet' = written \cup putSet
    BY <1>11, PutDocumentIs
  <2>2. pc' \notin {"error", "crash"} => putSet \cup written \subseteq putSet' \cup written'
    BY <2>1
  <2> QED
    BY <1>2, <1>3, <2>1, <2>2
<1>12. CASE Complete
  <2>1. UNCHANGED <<dom, pul, applied, forDeletion, forRevalidation, putSet, written, given>> /\ pc = "write"
    BY <1>12 DEF Complete
  <2> QED
    BY <1>2, <1>3, <2>1
<1>13. CASE UNCHANGED vars
  <2>1. UNCHANGED <<given, dom, pul, pc, applied, forDeletion, forRevalidation, putSet, written>>
    BY <1>13 DEF vars
  <2> QED
    BY <1>2, <1>3, <2>1
<1> QED
  BY <1>1, <1>5, <1>6, <1>7, <1>8, <1>9, <1>10, <1>11, <1>12, <1>13, StepIs

LEMMA SavedAtStart == ASSUME Init PROVE SavedInv
<1>1. IsForest(before)
  BY CasesAssumption DEF Init, before
<1>2. Alone(Unsaved)
  BY <1>1, OtherItemsAreClosed, AloneAtStart DEF Unsaved
<1> QED
  BY <1>2 DEF SavedInv

LEMMA SavedInvIsDocumentsSaved == ASSUME IInv, SavedInv PROVE DocumentsSaved
<1>1. SUFFICES ASSUME Finished, ~PIRenamed, NEW n \in Unsaved PROVE ~Touched(n)
  BY DEF DocumentsSaved, AllDocumentsSaved, Unsaved
<1>2. Alone(Unsaved) /\ n \in 1..Len(before)
  BY <1>1, BeforeIs DEF SavedInv, Finished, Unsaved
<1>3. dom[n] = before[n] /\ Closed(before, Unsaved) /\ IsForest(before)
  BY <1>2, BeforeIs, OtherItemsAreClosed DEF Alone, Unsaved
<1>4. ASSUME NEW a \in before[n].attrs PROVE dom[a] = before[a]
  <2>1. a \in 1..Len(before) /\ before[a].parent = n
    BY <1>2, <1>3, ForestIs DEF NodeOf
  <2>2. a \in Unsaved
    BY <1>2, <1>3, <2>1 DEF Closed
  <2> QED
    BY <1>2, <2>2 DEF Alone
<1>5. {<<dom[a].origin, dom[a].name>> : a \in dom[n].attrs} = {<<before[a].origin, before[a].name>> : a \in before[n].attrs}
  BY <1>3, <1>4
<1> QED
  BY <1>3, <1>5 DEF Touched

\* The addToPutSet calls of the apply functions: when an application has come
\* to the writing, each document of the start in which a name, a value, an
\* attribute or a child changed has been written or is about to be, under the
\* URI it had, whatever updates the list holds, unless one of them renames a
\* processing instruction.
THEOREM ChangedDocumentsSaved == Spec => []DocumentsSaved
<1>1. Init => IInv /\ SavedInv
  BY StartsInIInv, SavedAtStart
<1>2. (IInv /\ SavedInv) /\ [Next]_vars => (IInv /\ SavedInv)'
  BY IInvInductive, SavedInductive
<1>3. IInv /\ SavedInv => DocumentsSaved
  BY SavedInvIsDocumentsSaved
<1> QED
  BY <1>1, <1>2, <1>3, PTL DEF Spec

-------------------------------------------------------------------------------
(***************************************************************************)
(* Schema types.  removeType goes up from an element as far as there are   *)
(* elements with a type.                                                   *)
(***************************************************************************)
LEMMA InLoosened ==
  ASSUME NEW d, NEW n, NEW x
  PROVE  x \in Loosened(d, n) <=>
           \E k \in DOMAIN Ancestry(d, n) : x = Ancestry(d, n)[k] /\ \A i \in 1..k : Loosens(d, Ancestry(d, n)[i])
<1> DEFINE up == Ancestry(d, n)
<1>1. Loosened(d, n) = {up[k] : k \in {j \in DOMAIN up : \A i \in 1..j : Loosens(d, up[i])}}
  BY DEF Loosened
<1> HIDE DEF up
<1> QED
  BY <1>1 DEF up

LEMMA LoosenedIs ==
  ASSUME NEW d, ParentsFirst(d), NEW n \in 1..Len(d)
  PROVE  /\ ~Loosens(d, n) => Loosened(d, n) = {}
         /\ Loosens(d, n) => Loosened(d, n) = {n} \cup Loosened(d, d[n].parent)
<1> DEFINE up == Ancestry(d, n)
           above == Ancestry(d, d[n].parent)
<1>1. /\ up \in Seq(1..Len(d)) /\ above \in Seq(1..Len(d))
      /\ Len(up) = Len(above) + 1 /\ up[1] = n
      /\ \A k \in 1..Len(above) : up[k + 1] = above[k]
  BY AncestryOf
<1>2. \A x : x \in Loosened(d, n) <=> \E k \in DOMAIN up : x = up[k] /\ \A i \in 1..k : Loosens(d, up[i])
  BY InLoosened
<1>3. \A x : x \in Loosened(d, d[n].parent) <=>
               \E k \in DOMAIN above : x = above[k] /\ \A i \in 1..k : Loosens(d, above[i])
  BY InLoosened
<1> HIDE DEF up, above
<1>4. Len(above) \in Nat /\ DOMAIN up = 1..Len(above) + 1 /\ DOMAIN above = 1..Len(above)
  BY <1>1
<1>5. ASSUME ~Loosens(d, n) PROVE Loosened(d, n) = {}
  <2>1. ASSUME NEW k \in DOMAIN up PROVE ~\A i \in 1..k : Loosens(d, up[i])
    BY <1>1, <1>4, <1>5
  <2>2. \A x : x \notin Loosened(d, n)
    BY <1>2, <2>1
  <2> QED
    BY <2>2
<1>6. ASSUME Loosens(d, n) PROVE Loosened(d, n) = {n} \cup Loosened(d, d[n].parent)
  <2>1. ASSUME NEW x \in Loosened(d, n), x # n PROVE x \in Loosened(d, d[n].parent)
    <3>1. PICK k \in DOMAIN up : x = up[k] /\ \A i \in 1..k : Loosens(d, up[i])
      BY <1>2
    <3>2. k # 1
      BY <1>1, <2>1, <3>1
    <3>3. k - 1 \in 1..Len(above) /\ (k - 1) + 1 = k
      BY <1>4, <3>2
    <3>4. x = above[k - 1]
      BY <1>1, <3>1, <3>3
    <3>5. ASSUME NEW i \in 1..k - 1 PROVE Loosens(d, above[i])
      <4>1. i \in 1..Len(above) /\ i + 1 \in 1..k
        BY <1>4, <3>3
      <4> QED
        BY <1>1, <3>1, <4>1
    <3> QED
      BY <1>3, <1>4, <3>3, <3>4, <3>5
  <2>2. n \in Loosened(d, n)
    <3>1. 1 \in DOMAIN up /\ \A i \in 1..1 : Loosens(d, up[i])
      BY <1>1, <1>4, <1>6
    <3> QED
      BY <1>1, <1>2, <3>1
  <2>3. ASSUME NEW x \in Loosened(d, d[n].parent) PROVE x \in Loosened(d, n)
    <3>1. PICK k \in DOMAIN above : x = above[k] /\ \A i \in 1..k : Loosens(d, above[i])
      BY <1>3
    <3>2. k + 1 \in DOMAIN up /\ x = up[k + 1]
      BY <1>1, <1>4, <3>1
    <3>3. ASSUME NEW i \in 1..k + 1 PROVE Loosens(d, up[i])
      <4>1. CASE i = 1
        BY <1>1, <1>6, <4>1
      <4>2. CASE i # 1
        <5>1. i - 1 \in 1..k /\ i - 1 \in 1..Len(above) /\ (i - 1) + 1 = i
          BY <1>4, <4>2
        <5> QED
          BY <1>1, <3>1, <5>1
      <4> QED
        BY <4>1, <4>2
    <3> QED
      BY <1>2, <3>2, <3>3
  <2> QED
    BY <2>1, <2>2, <2>3
<1> QED
  BY <1>5, <1>6

LEMMA LoosenedUpwards ==
  ASSUME NEW d, ParentsFirst(d)
  PROVE  \A n \in 1..Len(d) : \A x \in Loosened(d, n) :
           /\ x \in 1..Len(d) /\ Loosens(d, x)
           /\ d[x].parent # 0 /\ Loosens(d, d[x].parent) => d[x].parent \in Loosened(d, n)
<1> DEFINE Good(n, x) == /\ x \in 1..Len(d) /\ Loosens(d, x)
                         /\ d[x].parent # 0 /\ Loosens(d, d[x].parent) => d[x].parent \in Loosened(d, n)
           G == {n \in 1..Len(d) : \A x \in Loosened(d, n) : Good(n, x)}
<1>0. Len(d) \in Nat /\ \A n \in 1..Len(d) : d[n].parent \in 0..n - 1
  BY DEF ParentsFirst
<1>1. ASSUME NEW n \in 1..Len(d), \A k \in 1..n - 1 : k \in G PROVE n \in G
  <2> DEFINE p == d[n].parent
  <2>1. p \in 0..n - 1
    BY <1>0
  <2>2. CASE ~Loosens(d, n)
    BY <2>2, LoosenedIs
  <2>3. CASE Loosens(d, n)
    <3>1. Loosened(d, n) = {n} \cup Loosened(d, p)
      BY <2>3, LoosenedIs
    <3>2. p = 0 => Loosened(d, p) = {}
      <4>1. Ancestry(d, 0) = <<>>
        BY AncestryIs
      <4>2. \A x : x \notin Loosened(d, 0)
        BY <4>1, InLoosened
      <4> QED
        BY <4>2
    <3>3. p # 0 => p \in G /\ p \in 1..Len(d)
      BY <1>0, <1>1, <2>1
    <3>4. p # 0 /\ Loosens(d, p) => p \in Loosened(d, p)
      BY <3>3, LoosenedIs
    <3>5. Good(n, n)
      BY <2>3, <3>1, <3>4
    <3>6. ASSUME NEW x \in Loosened(d, p) PROVE Good(n, x)
      <4>1. p # 0
        BY <3>2, <3>6
      <4>2. Good(p, x)
        BY <3>3, <3>6, <4>1
      <4> QED
        BY <3>1, <4>2
    <3> HIDE DEF Good
    <3> QED
      BY <3>1, <3>5, <3>6
  <2> QED
    BY <2>2, <2>3
<1> HIDE DEF G
<1>2. \A n \in 1..Len(d) : n \in G
  BY <1>0, <1>1, Upwards
<1> QED
  BY <1>2 DEF G

LEMMA TypedAroundIs ==
  ASSUME IsForest(before), NEW x \in 1..Len(before)
  PROVE  /\ TypedAround(x) \subseteq 1..Len(before)
         /\ ~Loosens(before, x) => TypedAround(x) = {}
         /\ TypedAround(x) \subseteq {x} \cup TypedAround(before[x].parent)
         /\ TypedAround(0) = {}
<1> DEFINE above == Range(Ancestry(before, x))
           p == before[x].parent
<1>1. ParentsFirst(before)
  BY ForestsParents
<1>2. above \subseteq 1..Len(before) /\ x \in above
  BY <1>1, RootFacts
<1>3. above = {x} \cup Range(Ancestry(before, p)) /\ Range(Ancestry(before, 0)) = {}
  BY <1>1, AboveIs
<1>4. TypedAround(x) = {a \in above : \A b \in above : a \in Range(Ancestry(before, b)) => Loosens(before, b)}
  BY DEF TypedAround
<1>5. ~Loosens(before, x) => TypedAround(x) = {}
  BY <1>2, <1>4
<1>6. ASSUME NEW a \in TypedAround(x), a # x PROVE a \in TypedAround(p)
  <2>1. a \in Range(Ancestry(before, p))
    BY <1>3, <1>4, <1>6
  <2>2. \A b \in Range(Ancestry(before, p)) : a \in Range(Ancestry(before, b)) => Loosens(before, b)
    BY <1>3, <1>4
  <2> QED
    BY <2>1, <2>2 DEF TypedAround
<1>7. TypedAround(0) = {}
  BY <1>3 DEF TypedAround
<1> QED
  BY <1>2, <1>4, <1>5, <1>6, <1>7

\* Only types change, of the elements up to one without a type and of the
\* attribute itself.
LEMMA TypesRemoved ==
  ASSUME NEW d, IsForest(d), NEW n \in 1..Len(d)
  PROVE  LET e == RemoveType(d, n)
             o == ElementOf(d, n)
         IN \A m \in 1..Len(d) :
              /\ e[m].name = d[m].name /\ e[m].value = d[m].value
              /\ IsElement(d, m) =>
                   e[m].type = IF o # 0 /\ m \in Loosened(d, o) THEN "any" ELSE d[m].type
              /\ e[m].type = "typed" => d[m].type = "typed"
<1> DEFINE e == RemoveType(d, n)
           o == ElementOf(d, n)
           loosened == IF o = 0 THEN {} ELSE Loosened(d, o)
<1>0. DOMAIN d = 1..Len(d) /\ \A m \in 1..Len(d) : d[m] \in Nodes
  BY ForestIs
<1>1. e = [m \in 1..Len(d) |->
             IF m \in loosened THEN [d[m] EXCEPT !.type = "any"]
             ELSE IF m = n /\ IsAttribute(d, n) THEN [d[m] EXCEPT !.type = "untyped"]
             ELSE d[m]]
  BY <1>0 DEF RemoveType
<1> HIDE DEF e
<1>2. ASSUME NEW m \in 1..Len(d)
      PROVE  /\ e[m].name = d[m].name /\ e[m].value = d[m].value
             /\ IsElement(d, m) => e[m].type = IF m \in loosened THEN "any" ELSE d[m].type
             /\ e[m].type = "typed" => d[m].type = "typed"
  <2> HIDE DEF loosened, o
  <2>1. d[m] \in Nodes
    BY <1>0
  <2>2. CASE m \in loosened
    <3>1. e[m] = [d[m] EXCEPT !.type = "any"]
      BY <1>1, <2>2
    <3> QED
      BY <2>1, <2>2, <3>1 DEF Nodes
  <2>3. CASE m \notin loosened /\ m = n /\ IsAttribute(d, n)
    <3>1. e[m] = [d[m] EXCEPT !.type = "untyped"]
      BY <1>1, <2>3
    <3>2. ~IsElement(d, m)
      BY <2>3 DEF IsAttribute, IsElement
    <3> QED
      BY <2>1, <3>1, <3>2 DEF Nodes
  <2>4. CASE m \notin loosened /\ ~(m = n /\ IsAttribute(d, n))
    <3>1. e[m] = d[m]
      BY <1>1, <2>4
    <3> QED
      BY <2>4, <3>1
  <2> QED
    BY <2>2, <2>3, <2>4
<1> QED
  BY <1>2 DEF e

LEMMA ContentRetyped ==
  ASSUME NEW d, NEW e, IsForest(d), SameShape(d, e),
         \A m \in 1..Len(d) : e[m].name = d[m].name /\ e[m].value = d[m].value
  PROVE  \A m \in 1..Len(d) : Content(e, m) = Content(d, m)
<1>1. \A m \in 1..Len(d) : Looks(d, e, m)
  BY DEF Looks, SameShape
<1> QED
  BY <1>1, SameInside DEF SameShape

\* Where parents are only given up, a node whose root is again what it was has
\* had that root all the time.
LEMMA RootsPart ==
  ASSUME NEW b, NEW d, NEW e, ParentsFirst(b), ParentsFirst(d), ParentsFirst(e),
         Len(b) <= Len(d), Len(d) <= Len(e),
         \A m \in 1..Len(b) : d[m].parent \in {0, b[m].parent} /\ e[m].parent \in {0, d[m].parent}
  PROVE  \A x \in 1..Len(b) : Root(e, x) = Root(b, x) => Root(d, x) = Root(b, x)
<1> DEFINE G == {x \in 1..Len(b) : Root(e, x) = Root(b, x) => Root(d, x) = Root(b, x)}
<1>0. /\ Len(b) \in Nat /\ Len(d) \in Nat /\ Len(e) \in Nat
      /\ \A n \in 1..Len(b) : n \in 1..Len(d) /\ n \in 1..Len(e) /\ b[n].parent \in 0..n - 1
  BY DEF ParentsFirst
<1>1. ASSUME NEW x \in 1..Len(b), \A k \in 1..x - 1 : k \in G PROVE x \in G
  <2>1. Root(b, x) = IF b[x].parent = 0 THEN x ELSE Root(b, b[x].parent)
    BY RootIs
  <2>2. Root(d, x) = IF d[x].parent = 0 THEN x ELSE Root(d, d[x].parent)
    BY <1>0, RootIs
  <2>3. Root(e, x) = IF e[x].parent = 0 THEN x ELSE Root(e, e[x].parent)
    BY <1>0, RootIs
  <2>4. CASE e[x].parent = 0
    <3>1. Root(b, x) = x => b[x].parent = 0
      BY RootFacts
    <3> QED
      BY <2>1, <2>2, <2>3, <2>4, <3>1
  <2>5. CASE e[x].parent # 0
    <3>1. e[x].parent = b[x].parent /\ d[x].parent = b[x].parent
      BY <2>5
    <3>2. b[x].parent \in 1..x - 1
      BY <1>0, <2>5, <3>1
    <3>3. b[x].parent \in G
      BY <1>1, <3>2
    <3> QED
      BY <2>1, <2>2, <2>3, <2>5, <3>1, <3>3
  <2> QED
    BY <2>4, <2>5
<1> HIDE DEF G
<1>2. \A x \in 1..Len(b) : x \in G
  BY <1>0, <1>1, Upwards
<1> QED
  BY <1>2 DEF G

(***************************************************************************)
(* What holds of every step up to the end of the deletions.                *)
(***************************************************************************)
LostIn(d, e) == \A a \in TypedAround(e) : d[a].type # "typed"

\* An element is taken out of its tree by a deletion only, which loosens the
\* parent it had; what has no type does not get one, and what has one keeps one
\* until that is loosened.
LooseAt(d, marked, e) ==
  /\ d[e].parent \in {0, before[e].parent}
  /\ IsElement(before, e) =>
       /\ d[e].type = "untyped" <=> before[e].type = "untyped"
       /\ d[e].parent # before[e].parent => LostIn(d, before[e].parent)
       /\ Content(d, e) # Content(before, e) =>
            LostIn(d, e) /\ (Root(d, e) = Root(before, e) => Root(before, e) \in marked)

Loose(d, marked) == \A e \in Targets : LooseAt(d, marked, e)

\* The elements with a type from x upwards, once removeType went through x.
LEMMA LostUpwards ==
  ASSUME IInv, NEW marked, Loose(dom, marked),
         NEW d, IsForest(d), Keeps(dom, d), NEW e, SameShape(d, e), NEW o \in 1..Len(d),
         \A m \in 1..Len(d) : m \in Loosened(d, o) => e[m].type = "any",
         \A m \in 1..Len(dom) : d[m].type = dom[m].type,
         \A m \in 1..Len(dom) : e[m].type = "typed" => dom[m].type = "typed",
         \A m \in 1..Len(dom) :
           d[m].parent = dom[m].parent \/ (d[m].parent = 0 /\ (IsElement(dom, m) => o = dom[m].parent))
  PROVE  \A x \in Targets : (Loosens(d, x) => x \in Loosened(d, o)) => LostIn(e, x)
<1> DEFINE L == Loosened(d, o)
           G == {x \in Targets : (Loosens(d, x) => x \in L) => LostIn(e, x)}
<1>0. /\ IsForest(before) /\ Targets = 1..Len(before) /\ Len(before) \in Nat /\ Targets \subseteq 1..Len(dom)
      /\ \A m \in Targets : dom[m].kind = before[m].kind
  BY BeforeIs
<1>1. Len(dom) \in Nat /\ Len(d) \in Nat /\ \A m \in 1..Len(dom) : m \in 1..Len(d) /\ d[m].kind = dom[m].kind
  BY ForestIs DEF IInv, Keeps
<1>2. ParentsFirst(d) /\ ParentsFirst(before)
  BY <1>0, ForestsParents
<1>3. \A x \in L : /\ x \in 1..Len(d) /\ Loosens(d, x)
                   /\ d[x].parent # 0 /\ Loosens(d, d[x].parent) => d[x].parent \in L
  BY <1>2, LoosenedUpwards
<1>4. Loosens(d, o) => o \in L
  BY <1>2, LoosenedIs
<1>5. \A x \in Targets : Loosens(d, x) <=> Loosens(before, x)
  <2>1. SUFFICES ASSUME NEW x \in Targets PROVE Loosens(d, x) <=> Loosens(before, x)
    OBVIOUS
  <2>2. d[x].kind = before[x].kind /\ d[x].type = dom[x].type
    BY <1>0, <1>1
  <2>3. IsElement(before, x) => (dom[x].type = "untyped" <=> before[x].type = "untyped")
    BY DEF Loose, LooseAt
  <2> QED
    BY <2>2, <2>3 DEF Loosens, IsElement
<1>6. \A x \in 1..Len(dom) : x \in L => e[x].type = "any"
  BY <1>1
<1> HIDE DEF L
<1>7. ASSUME NEW x \in 1..Len(before), \A k \in 1..x - 1 : k \in G PROVE x \in G
  <2>1. SUFFICES ASSUME Loosens(d, x) => x \in L PROVE LostIn(e, x)
    BY <1>0
  <2> DEFINE bp == before[x].parent
  <2>2. /\ ~Loosens(before, x) => TypedAround(x) = {}
        /\ TypedAround(x) \subseteq {x} \cup TypedAround(bp) /\ TypedAround(0) = {}
    BY <1>0, TypedAroundIs
  <2>3. bp \in 0..x - 1 /\ \A k \in 1..x - 1 : k \in 1..Len(before)
    BY <1>0, <1>2 DEF ParentsFirst
  <2>4. CASE ~Loosens(before, x)
    BY <2>2, <2>4 DEF LostIn
  <2>5. CASE Loosens(before, x)
    <3>1. x \in L /\ x \in 1..Len(dom) /\ Loosens(d, x) /\ x \in Targets
      BY <1>0, <1>5, <2>1, <2>5
    <3>2. e[x].type # "typed"
      BY <1>6, <3>1
    <3>3. ASSUME NEW y \in 1..x - 1, Loosens(d, y) => y \in L PROVE LostIn(e, y)
      BY <1>7, <3>3
    <3>4. LostIn(e, bp)
      <4>1. CASE bp = 0
        BY <2>2, <4>1 DEF LostIn
      <4>2. CASE bp # 0 /\ d[x].parent = bp
        <5>1. bp \in 1..x - 1
          BY <2>3, <4>2
        <5>2. Loosens(d, bp) => bp \in L
          BY <1>3, <3>1, <4>2
        <5> QED
          BY <3>3, <5>1, <5>2
      <4>3. CASE bp # 0 /\ dom[x].parent = bp /\ d[x].parent # bp
        <5>1. IsElement(dom, x)
          BY <1>0, <1>1, <3>1 DEF Loosens, IsElement
        <5>2. o = bp
          BY <3>1, <4>3, <5>1
        <5>3. bp \in 1..x - 1
          BY <2>3, <4>3
        <5> QED
          BY <1>4, <3>3, <5>2, <5>3
      <4>4. CASE dom[x].parent # bp
        <5>1. IsElement(before, x)
          BY <2>5 DEF Loosens
        <5>2. LostIn(dom, bp)
          BY <3>1, <4>4, <5>1 DEF Loose, LooseAt
        <5>3. TypedAround(bp) \subseteq 1..Len(dom)
          <6>1. bp # 0 => TypedAround(bp) \subseteq 1..Len(before)
            BY <1>0, <2>3, TypedAroundIs
          <6> QED
            BY <1>0, <2>2, <6>1
        <5> QED
          BY <5>2, <5>3 DEF LostIn
      <4> QED
        BY <4>1, <4>2, <4>3, <4>4
    <3> QED
      BY <2>2, <3>2, <3>4 DEF LostIn
  <2> QED
    BY <2>4, <2>5
<1> HIDE DEF G
<1>8. \A x \in 1..Len(before) : x \in G
  BY <1>0, <1>7, Upwards
<1> QED
  BY <1>0, <1>8 DEF G, L

LEMMA RetypedLooks ==
  ASSUME NEW d, IsForest(d), NEW n, n = 0 \/ n \in 1..Len(d)
  PROVE  LET e == Retyped(d, n)
             o == IF n = 0 THEN 0 ELSE ElementOf(d, n)
         IN /\ SameShape(d, e)
            /\ \A m \in 1..Len(d) :
                 /\ Content(e, m) = Content(d, m)
                 /\ IsElement(d, m) =>
                      e[m].type = IF o # 0 /\ m \in Loosened(d, o) THEN "any" ELSE d[m].type
                 /\ e[m].type = "typed" => d[m].type = "typed"
            /\ o # 0 => /\ o \in 1..Len(d)
                        /\ IsElement(d, o) => Root(d, o) \in Marked(d, n)
<1>1. CASE n = 0
  <2>1. Retyped(d, n) = d
    BY <1>1 DEF Retyped
  <2>2. SameShape(d, d)
    BY ForestIs DEF SameShape
  <2> QED
    BY <1>1, <2>1, <2>2
<1>2. CASE n # 0
  <2> DEFINE e == RemoveType(d, n)
             o == ElementOf(d, n)
  <2>1. Retyped(d, n) = e
    BY <1>2 DEF Retyped
  <2>2. SameShape(d, e)
    BY <1>2, TypeRemoved
  <2>3. \A m \in 1..Len(d) :
          /\ e[m].name = d[m].name /\ e[m].value = d[m].value
          /\ IsElement(d, m) =>
               e[m].type = IF o # 0 /\ m \in Loosened(d, o) THEN "any" ELSE d[m].type
          /\ e[m].type = "typed" => d[m].type = "typed"
    BY <1>2, TypesRemoved
  <2> HIDE DEF e
  <2>4. \A m \in 1..Len(d) : Content(e, m) = Content(d, m)
    BY <2>2, <2>3, ContentRetyped
  <2>5. o # 0 => o \in 1..Len(d)
    BY <1>2, ParentIs DEF ElementOf
  <2>6. ASSUME o # 0, IsElement(d, o) PROVE Root(d, o) \in Marked(d, n)
    <3>1. CASE IsAttribute(d, n)
      <4>1. o = d[n].parent /\ d[n].kind = "attribute"
        BY <3>1 DEF ElementOf, IsAttribute
      <4>2. Root(d, n) = Root(d, o)
        BY <1>2, <2>6, <4>1, RootIs, ForestsParents
      <4> QED
        BY <2>6, <4>1, <4>2 DEF Marked
    <3>2. CASE ~IsAttribute(d, n)
      <4>1. o = n
        BY <3>2 DEF ElementOf
      <4> QED
        BY <2>6, <4>1 DEF Marked, IsElement
    <3> QED
      BY <3>1, <3>2
  <2> HIDE DEF o
  <2>7. (IF n = 0 THEN 0 ELSE o) = o
    BY <1>2
  <2> QED
    BY <1>2, <2>1, <2>2, <2>3, <2>4, <2>5, <2>6, <2>7 DEF o
<1> QED
  BY <1>1, <1>2

LEMMA LooseStep ==
  ASSUME IInv, NEW marked, Loose(dom, marked),
         NEW d, IsForest(d), Keeps(dom, d), NEW n, n = 0 \/ n \in 1..Len(d),
         NEW o, o = IF n = 0 THEN 0 ELSE ElementOf(d, n),
         \A m \in 1..Len(dom) :
           d[m].parent = dom[m].parent \/ (d[m].parent = 0 /\ (IsElement(dom, m) => o = dom[m].parent)),
         Leaves(dom, d, o)
  PROVE  Loose(Retyped(d, n), marked \cup (IF n = 0 THEN {} ELSE Marked(d, n)))
<1> DEFINE e == Retyped(d, n)
           all == marked \cup (IF n = 0 THEN {} ELSE Marked(d, n))
<1>0. /\ IsForest(before) /\ Targets = 1..Len(before) /\ Len(before) \in Nat /\ Targets \subseteq 1..Len(dom)
      /\ \A m \in Targets : dom[m].kind = before[m].kind
  BY BeforeIs
<1>1. Len(dom) \in Nat /\ Len(d) \in Nat /\ Len(dom) <= Len(d)
      /\ \A m \in 1..Len(dom) : m \in 1..Len(d) /\ d[m].kind = dom[m].kind
  BY ForestIs DEF IInv, Keeps
<1>2. /\ SameShape(d, e)
      /\ \A m \in 1..Len(d) :
           /\ Content(e, m) = Content(d, m)
           /\ IsElement(d, m) =>
                e[m].type = IF o # 0 /\ m \in Loosened(d, o) THEN "any" ELSE d[m].type
           /\ e[m].type = "typed" => d[m].type = "typed"
      /\ o # 0 => /\ o \in 1..Len(d)
                  /\ IsElement(d, o) => Root(d, o) \in Marked(d, n)
  BY RetypedLooks
<1>3. o # 0 => n # 0
  OBVIOUS
<1>4. marked \subseteq all /\ (o # 0 /\ IsElement(d, o) => Root(d, o) \in all)
  BY <1>2, <1>3
<1> HIDE DEF e, all
<1>5. \A m \in 1..Len(dom) :
        /\ d[m].type = dom[m].type
        /\ e[m].type = "typed" => dom[m].type = "typed"
        /\ IsElement(dom, m) /\ m # o => Content(e, m) = Content(dom, m)
  BY <1>1, <1>2 DEF Leaves
<1>6. IsForest(e) /\ Len(e) = Len(d) /\ \A m \in 1..Len(d) : e[m].parent = d[m].parent /\ e[m].kind = d[m].kind
  <2>1. IsForest(e)
    BY <1>2, ShapeKept
  <2> QED
    BY <1>2, <2>1 DEF SameShape
<1>7. ASSUME NEW x \in Targets, LostIn(dom, x) PROVE LostIn(e, x)
  <2>1. TypedAround(x) \subseteq 1..Len(dom)
    BY <1>0, TypedAroundIs
  <2> QED
    BY <1>5, <1>7, <2>1 DEF LostIn
<1>8. ASSUME o # 0, o \in Targets PROVE LostIn(e, o)
  <2>1. \A m \in 1..Len(d) : m \in Loosened(d, o) => e[m].type = "any"
    <3>1. \A m \in Loosened(d, o) : Loosens(d, m)
      BY <1>2, <1>8, LoosenedUpwards, ForestsParents
    <3> QED
      BY <1>2, <1>8, <3>1 DEF Loosens
  <2>2. Loosens(d, o) => o \in Loosened(d, o)
    BY <1>2, <1>8, LoosenedIs, ForestsParents
  <2>3. \A x \in Targets : (Loosens(d, x) => x \in Loosened(d, o)) => LostIn(e, x)
    BY <1>2, <1>5, <1>8, <2>1, LostUpwards
  <2> QED
    BY <1>8, <2>2, <2>3
<1>9. \A m \in Targets : e[m].parent = d[m].parent /\ dom[m].parent \in {0, before[m].parent}
                         /\ d[m].parent \in {0, dom[m].parent}
  BY <1>0, <1>1, <1>6 DEF Loose, LooseAt
<1>10. \A x \in Targets : Root(e, x) = Root(before, x) => Root(dom, x) = Root(before, x)
  <2>1. ParentsFirst(before) /\ ParentsFirst(dom) /\ ParentsFirst(e)
    BY <1>0, <1>6, ForestsParents DEF IInv
  <2>2. Len(before) <= Len(dom) /\ Len(dom) <= Len(e)
    BY <1>1, <1>6 DEF IInv, Keeps
  <2>3. \A m \in 1..Len(before) : dom[m].parent \in {0, before[m].parent} /\ e[m].parent \in {0, dom[m].parent}
    BY <1>0, <1>9
  <2> QED
    BY <1>0, <2>1, <2>2, <2>3, RootsPart
<1>11. ASSUME NEW x \in Targets PROVE LooseAt(e, all, x)
  <2>0. LooseAt(dom, marked, x) /\ x \in 1..Len(dom) /\ x \in 1..Len(d) /\ x # 0
    BY <1>0, <1>1 DEF Loose
  <2>1. e[x].parent \in {0, before[x].parent}
    BY <1>9
  <2>2. SUFFICES ASSUME IsElement(before, x)
                 PROVE  /\ e[x].type = "untyped" <=> before[x].type = "untyped"
                        /\ e[x].parent # before[x].parent => LostIn(e, before[x].parent)
                        /\ Content(e, x) # Content(before, x) =>
                             LostIn(e, x) /\ (Root(e, x) = Root(before, x) => Root(before, x) \in all)
    BY <2>1 DEF LooseAt
  <2>3. IsElement(dom, x) /\ IsElement(d, x)
    BY <1>0, <1>1, <2>0, <2>2 DEF IsElement
  <2>4. e[x].type = "untyped" <=> before[x].type = "untyped"
    <3>1. dom[x].type = "untyped" <=> before[x].type = "untyped"
      BY <2>0, <2>2 DEF LooseAt
    <3>2. o # 0 /\ x \in Loosened(d, o) => d[x].type # "untyped" /\ e[x].type = "any"
      <4>1. o # 0 /\ x \in Loosened(d, o) => Loosens(d, x)
        BY <1>2, LoosenedUpwards, ForestsParents
      <4> QED
        BY <1>2, <2>0, <2>3, <4>1 DEF Loosens
    <3>3. ~(o # 0 /\ x \in Loosened(d, o)) => e[x].type = d[x].type
      BY <1>2, <2>0, <2>3
    <3> QED
      BY <1>5, <2>0, <3>1, <3>2, <3>3
  <2>5. ASSUME e[x].parent # before[x].parent PROVE LostIn(e, before[x].parent)
    <3> DEFINE bp == before[x].parent
    <3>1. bp \in Targets \/ bp = 0
      BY <1>0, ParentIs
    <3>2. CASE bp = 0
      <4>1. TypedAround(0) = {}
        BY <1>0, TypedAroundIs
      <4> QED
        BY <3>2, <4>1 DEF LostIn
    <3>3. CASE bp # 0 /\ dom[x].parent # bp
      BY <1>7, <2>0, <2>2, <3>1, <3>3 DEF LooseAt
    <3>4. CASE bp # 0 /\ dom[x].parent = bp
      <4>1. d[x].parent # dom[x].parent
        BY <1>9, <2>5, <3>4
      <4>2. o = bp
        BY <2>0, <2>3, <3>4, <4>1
      <4> QED
        BY <1>8, <3>1, <3>4, <4>2
    <3> QED
      BY <3>2, <3>3, <3>4
  <2>6. ASSUME Content(e, x) # Content(before, x)
        PROVE  LostIn(e, x) /\ (Root(e, x) = Root(before, x) => Root(before, x) \in all)
    <3>1. CASE x = o
      <4>1. Root(d, x) \in all
        BY <1>4, <2>0, <2>3, <3>1
      <4>2. Root(e, x) = Root(d, x)
        <5> DEFINE S == 1..Len(d)
        <5>1. \A m \in S : e[m].parent = d[m].parent /\ (d[m].parent # 0 => d[m].parent \in S)
          BY <1>6, ParentIs
        <5>2. S \subseteq 1..Len(d) /\ S \subseteq 1..Len(e) /\ ParentsFirst(d) /\ ParentsFirst(e)
          BY <1>6, ForestsParents
        <5>3. x \in S
          BY <2>0
        <5> HIDE DEF S
        <5>4. \A m \in S : Ancestry(e, m) = Ancestry(d, m) /\ Root(e, m) = Root(d, m)
          BY ONLY <5>1, <5>2, SameAncestry
        <5> QED
          BY <5>3, <5>4
      <4> QED
        BY <1>8, <2>0, <3>1, <4>1, <4>2
    <3>2. CASE x # o
      <4>1. Content(dom, x) # Content(before, x)
        BY <1>5, <2>0, <2>3, <2>6, <3>2
      <4>2. LostIn(dom, x) /\ (Root(dom, x) = Root(before, x) => Root(before, x) \in marked)
        BY <2>0, <2>2, <4>1 DEF LooseAt
      <4> QED
        BY <1>4, <1>7, <1>10, <4>2
    <3> QED
      BY <3>1, <3>2
  <2> QED
    BY <2>4, <2>5, <2>6
<1> QED
  BY <1>11 DEF Loose, e, all

LooseInv == pc \in {"collect", "apply"} => Loose(dom, forRevalidation)

LEMMA LooseStill ==
  ASSUME given' = given, NEW d, dom' = d, NEW marked, forRevalidation' = marked, Loose(d, marked)
  PROVE  LooseInv'
<1>1. before' = before /\ Targets' = Targets
  BY DEF before, Targets
<1>2. ASSUME NEW x PROVE TypedAround(x)' = TypedAround(x)
  BY <1>1 DEF TypedAround
<1>3. ASSUME NEW x PROVE LostIn(dom, x)' <=> LostIn(d, x)
  BY <1>2 DEF LostIn
<1>4. ASSUME NEW x \in Targets PROVE LooseAt(dom, forRevalidation, x)'
  <2>1. LooseAt(d, marked, x)
    BY DEF Loose
  <2>2. LostIn(dom, before[x].parent)' <=> LostIn(d, before[x].parent)
    BY <1>1, <1>2 DEF LostIn
  <2> QED
    BY <1>1, <1>3, <2>1, <2>2 DEF LooseAt
<1> QED
  BY <1>1, <1>4 DEF LooseInv, Loose

LEMMA CarriedKeepsLoose ==
  ASSUME IInv, LooseInv, CarriedOut
  PROVE  LooseInv'
<1>1. PICK u \in DOMAIN pul : pc = "apply" /\ \E t, d, marked, n, saved : Carried(u, t, d, marked, n, saved) /\ Effect(d, marked, n, saved)
  BY DEF CarriedOut
<1>2. PICK t, d, marked, n, saved : Carried(u, t, d, marked, n, saved) /\ Effect(d, marked, n, saved)
  BY <1>1
<1>3. /\ Change(dom, d, t) /\ t \in 1..Len(dom) /\ n \in {0, t}
      /\ Leaves(dom, d, IF n = 0 THEN 0 ELSE ElementOf(d, n)) /\ Stands(dom, d)
  BY <1>2 DEF Carried
<1>4. /\ dom' = Retyped(d, n) /\ given' = given
      /\ forRevalidation' = forRevalidation \cup (IF n = 0 THEN {} ELSE Marked(d, n))
  BY <1>2 DEF Effect
<1>5. IsForest(d) /\ Keeps(dom, d) /\ Len(dom) \in Nat /\ Len(d) \in Nat /\ Len(dom) <= Len(d)
  BY <1>3, ForestIs DEF Change, Keeps, IInv
<1>6. n = 0 \/ n \in 1..Len(d)
  BY <1>3, <1>5
<1>7. \A m \in 1..Len(dom) : d[m].parent = dom[m].parent \/ (~IsElement(dom, m) /\ d[m].parent = 0)
  BY <1>3 DEF Stands
<1>8. Loose(dom, forRevalidation)
  BY <1>1 DEF LooseInv
<1> PICK o : o = IF n = 0 THEN 0 ELSE ElementOf(d, n)
  OBVIOUS
<1>9. \A m \in 1..Len(dom) :
        d[m].parent = dom[m].parent \/ (d[m].parent = 0 /\ (IsElement(dom, m) => o = dom[m].parent))
  BY <1>7
<1>10. Loose(Retyped(d, n), forRevalidation \cup (IF n = 0 THEN {} ELSE Marked(d, n)))
  BY <1>3, <1>5, <1>6, <1>8, <1>9, LooseStep
<1> QED
  BY <1>4, <1>10, LooseStill

LEMMA DeletionKeepsLoose ==
  ASSUME IInv, LooseInv, CompleteDeletions
  PROVE  LooseInv'
<1>1. PICK n \in forDeletion :
        LET p == dom[n].parent
            d == Removed(dom, n)
        IN /\ dom' = Retyped(d, IF LosesContent(n) THEN p ELSE 0)
           /\ forRevalidation' = forRevalidation \cup (IF LosesContent(n) THEN Marked(d, p) ELSE {})
           /\ pc = "apply" /\ given' = given
  BY DEF CompleteDeletions, Completing
<1> DEFINE p == dom[n].parent
           d == Removed(dom, n)
           r == IF LosesContent(n) THEN p ELSE 0
<1>2. n \in 1..Len(dom) /\ IsForest(dom) /\ Len(dom) \in Nat
  BY ForestIs DEF IInv
<1>3. /\ IsForest(d) /\ Keeps(dom, d) /\ Len(d) = Len(dom)
      /\ d[n].parent = 0 /\ \A m \in 1..Len(dom) : m # n => d[m].parent = dom[m].parent
  BY <1>2, Removal DEF Change
<1>4. Leaves(dom, d, PartOf(dom, n))
  BY <1>2, RemovalLeaves
<1>5. /\ dom' = Retyped(d, r) /\ given' = given /\ pc = "apply"
      /\ forRevalidation' = forRevalidation \cup (IF r = 0 THEN {} ELSE Marked(d, r))
  <2>1. LosesContent(n) => p # 0
    BY DEF LosesContent
  <2> QED
    BY <1>1, <2>1
<1> HIDE DEF d
<1>6. r # 0 => r \in 1..Len(d) /\ ElementOf(d, r) = r /\ r = p /\ LosesContent(n)
  <2>1. SUFFICES ASSUME r # 0 PROVE p \in 1..Len(d) /\ ElementOf(d, p) = p /\ r = p /\ LosesContent(n)
    OBVIOUS
  <2>2. p \in 1..Len(dom) /\ dom[p].kind \in {"document", "element"} /\ r = p /\ LosesContent(n)
    BY <1>2, <2>1, ParentIs DEF IsElement
  <2>3. d[p].kind = dom[p].kind
    BY <1>3, <2>2 DEF Keeps
  <2> QED
    BY <1>3, <2>2, <2>3 DEF ElementOf, IsAttribute
<1> PICK o : o = IF r = 0 THEN 0 ELSE ElementOf(d, r)
  OBVIOUS
<1>7. LosesContent(n) => o = p
  <2>1. LosesContent(n) => p # 0
    BY DEF LosesContent
  <2> QED
    BY <1>6, <2>1
<1>8. Leaves(dom, d, o)
  <2>1. CASE LosesContent(n)
    <3>1. PartOf(dom, n) = p
      BY <2>1 DEF PartOf, LosesContent, IsAttribute, InContent
    <3> QED
      BY <1>4, <1>7, <2>1, <3>1
  <2>2. CASE ~LosesContent(n)
    <3>1. PartOf(dom, n) = 0
      BY <2>2 DEF PartOf, LosesContent, IsAttribute, InContent
    <3>2. o = 0
      BY <2>2
    <3> QED
      BY <1>4, <3>1, <3>2
  <2> QED
    BY <2>1, <2>2
<1>9. ASSUME NEW m \in 1..Len(dom)
      PROVE  d[m].parent = dom[m].parent \/ (d[m].parent = 0 /\ (IsElement(dom, m) => o = dom[m].parent))
  <2>1. CASE m # n
    BY <1>3, <2>1
  <2>2. CASE m = n /\ p = 0
    BY <1>3, <2>2
  <2>3. CASE m = n /\ p # 0
    <3>1. IsElement(dom, m) => LosesContent(n)
      BY <2>3 DEF LosesContent, IsElement
    <3> QED
      BY <1>3, <1>7, <2>3, <3>1
  <2> QED
    BY <2>1, <2>2, <2>3
<1>10. Loose(dom, forRevalidation)
  BY <1>5 DEF LooseInv
<1>11. r = 0 \/ r \in 1..Len(d)
  BY <1>6
<1> HIDE DEF r
<1>12. Loose(Retyped(d, r), forRevalidation \cup (IF r = 0 THEN {} ELSE Marked(d, r)))
  BY <1>3, <1>8, <1>9, <1>10, <1>11, LooseStep
<1> QED
  BY <1>5, <1>12, LooseStill

LEMMA LooseInductive ==
  ASSUME IInv, LooseInv, [Next]_vars
  PROVE  LooseInv'
<1>1. ASSUME UNCHANGED <<dom, given, forRevalidation>>, pc \in {"collect", "apply"} \/ pc' \notin {"collect", "apply"}
      PROVE  LooseInv'
  BY <1>1, LooseStill DEF LooseInv
<1>2. CASE Collect
  <2>1. PICK updates : Ask(updates)
    BY <1>2, CollectIs
  <2> QED
    BY <1>1, <2>1 DEF Ask
<1>3. CASE ApplyUpdates
  <2>1. UNCHANGED <<dom, given, forRevalidation>> /\ pc = "collect"
    BY <1>3, ApplyUpdatesIs
  <2> QED
    BY <1>1, <2>1
<1>4. CASE ApplyPut
  <2>1. UNCHANGED <<dom, given, forRevalidation>> /\ pc = "apply"
    BY <1>4, ApplyPutIs
  <2> QED
    BY <1>1, <2>1
<1>5. CASE CarriedOut
  BY <1>5, CarriedKeepsLoose
<1>6. CASE CompleteDeletions
  BY <1>6, DeletionKeepsLoose
<1>7. CASE Crash
  BY <1>7 DEF Crash, LooseInv
<1>8. CASE CompleteRevalidation
  BY <1>8, RevalidationIs DEF LooseInv
<1>9. CASE PutDocument
  BY <1>9, PutDocumentIs DEF LooseInv
<1>10. CASE Complete
  BY <1>10 DEF Complete, LooseInv
<1>11. CASE UNCHANGED vars
  <2>1. UNCHANGED <<dom, given, forRevalidation, pc>>
    BY <1>11 DEF vars
  <2> QED
    BY <1>1, <2>1 DEF LooseInv
<1> QED
  BY <1>2, <1>3, <1>4, <1>5, <1>6, <1>7, <1>8, <1>9, <1>10, <1>11, StepIs

LEMMA LooseAtStart == ASSUME Init PROVE LooseInv
<1>1. dom = before
  BY DEF Init, before
<1> QED
  BY <1>1 DEF LooseInv, Loose, LooseAt

LEMMA LooseInvIsTypesLoosened == ASSUME LooseInv PROVE TypesLoosened
<1>1. SUFFICES ASSUME Completing, NEW e \in Targets, IsElement(before, e), Content(dom, e) # Content(before, e)
               PROVE  LostIn(dom, e) /\ (Root(dom, e) = Root(before, e) => Root(before, e) \in forRevalidation)
  BY DEF TypesLoosened, LostIn
<1>2. LooseAt(dom, forRevalidation, e)
  BY <1>1 DEF LooseInv, Loose, Completing
<1> QED
  BY <1>1, <1>2 DEF LooseAt

\* The calls of removeType in the apply functions and in completeDeletions:
\* when the deletions are done, an element whose name, attributes, text or
\* child elements are not what they were has lost its schema type, so have the
\* elements around it up to one that never had any, and unless it was taken out
\* of its tree, that tree is validated again, whatever updates the list holds
\* and in whatever order the marked nodes are deleted.
THEOREM ChangedElementsLoseTypes == Spec => []TypesLoosened
<1>1. Init => IInv /\ LooseInv
  BY StartsInIInv, LooseAtStart
<1>2. (IInv /\ LooseInv) /\ [Next]_vars => (IInv /\ LooseInv)'
  BY IInvInductive, LooseInductive
<1>3. IInv /\ LooseInv => TypesLoosened
  BY LooseInvIsTypesLoosened
<1> QED
  BY <1>1, <1>2, <1>3, PTL DEF Spec

-------------------------------------------------------------------------------
(***************************************************************************)
(* Names.  checkUpdates keeps, for every element, the prefixes bound in    *)
(* its scope and those that the updates bind; the two passes over the list *)
(* take in every update.                                                   *)
(***************************************************************************)
\* One pass as a sequence of maps.
Passing(g, map, replaced) ==
  g = [k \in 0..Len(pul) |-> IF k = 0 THEN map ELSE Checked(g[k - 1], ClaimsOf(pul[k], replaced))]

LEMMA SomePass ==
  ASSUME Len(pul) \in Nat, NEW map, NEW replaced
  PROVE  \E g : Passing(g, map, replaced)
<1> DEFINE n == Len(pul)
           G == {m \in 0..n : \E g : g = [k \in 0..m |-> IF k = 0 THEN map ELSE Checked(g[k - 1], ClaimsOf(pul[k], replaced))]}
<1>0. n \in Nat
  OBVIOUS
<1> HIDE DEF n
<1>1. 0 \in G
  <2> DEFINE g == [k \in 0..0 |-> map]
  <2>1. g = [k \in 0..0 |-> IF k = 0 THEN map ELSE Checked(g[k - 1], ClaimsOf(pul[k], replaced))]
    <3>1. \A k \in 0..0 : k = 0
      OBVIOUS
    <3> QED
      BY <3>1
  <2> HIDE DEF g
  <2> QED
    BY <1>0, <2>1
<1>2. ASSUME NEW m \in 1..n, m - 1 \in G PROVE m \in G
  <2>1. PICK g : g = [k \in 0..m - 1 |-> IF k = 0 THEN map ELSE Checked(g[k - 1], ClaimsOf(pul[k], replaced))]
    BY <1>2
  <2> DEFINE h == [k \in 0..m |-> IF k = m THEN Checked(g[m - 1], ClaimsOf(pul[m], replaced)) ELSE g[k]]
  <2>2. \A k \in 0..m : h[k] = IF k = m THEN Checked(g[m - 1], ClaimsOf(pul[m], replaced)) ELSE g[k]
    OBVIOUS
  <2>3. h = [k \in 0..m |-> h[k]]
    OBVIOUS
  <2> HIDE DEF h
  <2>4. \A k \in 0..m - 1 : h[k] = g[k]
    BY <2>2
  <2>5. \A k \in 0..m - 1 : g[k] = IF k = 0 THEN map ELSE Checked(g[k - 1], ClaimsOf(pul[k], replaced))
    BY <2>1
  <2>6. \A k \in 0..m : k # 0 => k - 1 \in 0..m - 1 /\ h[k - 1] = g[k - 1]
    BY <2>4
  <2>7. ASSUME NEW k \in 0..m PROVE h[k] = IF k = 0 THEN map ELSE Checked(h[k - 1], ClaimsOf(pul[k], replaced))
    <3>1. CASE k = m
      <4>1. k # 0
        BY <3>1
      <4> QED
        BY <2>2, <2>6, <3>1, <4>1
    <3>2. CASE k # m
      <4>1. k \in 0..m - 1
        BY <3>2
      <4> QED
        BY <2>4, <2>5, <2>6, <4>1
    <3> QED
      BY <3>1, <3>2
  <2>8. h = [k \in 0..m |-> IF k = 0 THEN map ELSE Checked(h[k - 1], ClaimsOf(pul[k], replaced))]
    BY <2>3, <2>7
  <2> QED
    BY <2>8
<1> HIDE DEF G
<1>3. \A j \in 0..n : j \in G
  BY <1>0, <1>1, <1>2, StepByStep
<1>4. n \in G
  BY <1>0, <1>3
<1> QED
  BY <1>4 DEF G, n, Passing

LEMMA PassIs ==
  ASSUME Len(pul) \in Nat, NEW map, NEW replaced
  PROVE  \E after :
           /\ after[0] = map /\ Pass(map, replaced) = after[Len(pul)]
           /\ \A k \in 1..Len(pul) : after[k] = Checked(after[k - 1], ClaimsOf(pul[k], replaced))
<1> DEFINE n == Len(pul)
           after == CHOOSE g : Passing(g, map, replaced)
<1>0. n \in Nat
  OBVIOUS
<1>1. \E g : Passing(g, map, replaced)
  BY SomePass
<1>2. Pass(map, replaced) = after[n]
  BY DEF Pass, Passing
<1>3. Passing(after, map, replaced)
  BY <1>1
<1> HIDE DEF after
<1>4. \A k \in 0..n : after[k] = IF k = 0 THEN map ELSE Checked(after[k - 1], ClaimsOf(pul[k], replaced))
  BY <1>3 DEF Passing
<1> HIDE DEF n
<1>5. 0 \in 0..n /\ \A k \in 1..n : k \in 0..n /\ k # 0
  BY <1>0
<1>6. after[0] = map /\ \A k \in 1..n : after[k] = Checked(after[k - 1], ClaimsOf(pul[k], replaced))
  BY <1>4, <1>5
<1> QED
  BY <1>2, <1>6 DEF n

\* The binding b is known of e, or there was a clash.
Knows(map, e, b) == map[e].clash \/ b \in map[e].namespaces
Consistent(map, e) == map[e].clash \/ ~NamespaceClash(map[e].namespaces)

\* A claim adds its bindings and forgets none.
LEMMA ClaimedIs ==
  ASSUME NEW map, NEW D, DOMAIN map = D, NEW e \in D, NEW c
  PROVE  LET after == Claimed(map, c)
         IN /\ DOMAIN after = D
            /\ \A b : Knows(map, e, b) => Knows(after, e, b)
            /\ Consistent(map, e) => Consistent(after, e)
            /\ c.element = e => \A n \in c.binds : Knows(after, e, Binding(n))
<1> DEFINE v == map[c.element]
           names == {n \in v.names : ~HasName(c.frees, n)}
           namespaces == v.namespaces \cup {Binding(n) : n \in c.binds}
           clash == v.clash \/ AttrClash(names, c.takes) \/ NamespaceClash(namespaces)
           w == [names |-> names \cup ToSet(c.takes), namespaces |-> namespaces, clash |-> clash]
<1> PICK after : after = Claimed(map, c)
  OBVIOUS
<1>1. after = [map EXCEPT ![c.element] = w]
  BY DEF Claimed
<1>2. w.namespaces = namespaces /\ w.clash = clash
  OBVIOUS
<1>3. v.clash => clash
  OBVIOUS
<1>4. v.namespaces \subseteq namespaces /\ \A n \in c.binds : Binding(n) \in namespaces
  OBVIOUS
<1>5. clash \/ ~NamespaceClash(namespaces)
  OBVIOUS
<1> HIDE DEF w, clash, namespaces, names
<1>6. DOMAIN after = D
  BY <1>1
<1>7. CASE c.element = e
  <2>1. after[e] = w /\ map[e] = v
    BY <1>1, <1>7
  <2> HIDE DEF v
  <2>2. \A b : Knows(map, e, b) => Knows(after, e, b)
    BY <1>2, <1>3, <1>4, <2>1 DEF Knows
  <2>3. Consistent(after, e)
    BY <1>2, <1>5, <2>1 DEF Consistent
  <2>4. \A n \in c.binds : Knows(after, e, Binding(n))
    BY <1>2, <1>4, <2>1 DEF Knows
  <2> QED
    BY <1>6, <2>2, <2>3, <2>4
<1>8. CASE c.element # e
  <2>1. after[e] = map[e]
    BY <1>1, <1>8
  <2> QED
    BY <1>6, <1>8, <2>1 DEF Knows, Consistent
<1> QED
  BY <1>7, <1>8

\* What a list of claims adds, in one pass: no claim is lost.
LEMMA PassKeeps ==
  ASSUME Len(pul) \in Nat, NEW map, NEW D, DOMAIN map = D, NEW e \in D, NEW replaced,
         \A u \in 1..Len(pul) : \A c, g \in Claims(pul[u]) : c = g
  PROVE  LET after == Pass(map, replaced)
         IN /\ DOMAIN after = D
            /\ \A b : Knows(map, e, b) => Knows(after, e, b)
            /\ Consistent(map, e) => Consistent(after, e)
            /\ \A u \in 1..Len(pul) : \A c \in ClaimsOf(pul[u], replaced) :
                 c.element = e => \A n \in c.binds : Knows(after, e, Binding(n))
<1> DEFINE n == Len(pul)
           Known(f, k) == \A u \in 1..k : \A c \in ClaimsOf(pul[u], replaced) :
                            c.element = e => \A m \in c.binds : Knows(f, e, Binding(m))
           Good(f) == /\ DOMAIN f = D
                      /\ \A b : Knows(map, e, b) => Knows(f, e, b)
                      /\ Consistent(map, e) => Consistent(f, e)
<1>0. n \in Nat
  OBVIOUS
<1>1. PICK after : /\ after[0] = map /\ Pass(map, replaced) = after[n]
                   /\ \A k \in 1..n : after[k] = Checked(after[k - 1], ClaimsOf(pul[k], replaced))
  BY <1>0, PassIs
<1> DEFINE G == {k \in 0..n : Good(after[k]) /\ Known(after[k], k)}
<1>2. 0 \in G
  <2>1. \A u : u \notin 1..0
    OBVIOUS
  <2>2. Known(after[0], 0)
    BY <2>1
  <2> QED
    BY <1>0, <1>1, <2>2
<1>3. ASSUME NEW k \in 1..n, k - 1 \in G PROVE k \in G
  <2> DEFINE f == after[k - 1]
             h == after[k]
             claims == ClaimsOf(pul[k], replaced)
  <2>1. Good(f) /\ Known(f, k - 1)
    BY <1>3
  <2>2. h = Checked(f, claims)
    BY <1>1
  <2>3. \A c, g \in claims : c = g
    BY DEF ClaimsOf
  <2> HIDE DEF f, h, claims
  <2>4. /\ DOMAIN h = D
        /\ \A b : Knows(f, e, b) => Knows(h, e, b)
        /\ Consistent(f, e) => Consistent(h, e)
        /\ \A c \in claims : c.element = e => \A m \in c.binds : Knows(h, e, Binding(m))
    <3>1. CASE claims = {}
      BY <2>1, <2>2, <3>1 DEF Checked
    <3>2. CASE claims # {}
      <4>1. PICK c \in claims : h = Claimed(f, c)
        BY <2>2, <3>2 DEF Checked
      <4>2. DOMAIN f = D
        BY <2>1
      <4>3. /\ DOMAIN h = D
            /\ \A b : Knows(f, e, b) => Knows(h, e, b)
            /\ Consistent(f, e) => Consistent(h, e)
            /\ c.element = e => \A m \in c.binds : Knows(h, e, Binding(m))
        BY ONLY <4>1, <4>2, e \in D, ClaimedIs, ZenonT(60)
      <4>4. \A g \in claims : g = c
        BY <2>3, <4>1
      <4> QED
        BY <4>3, <4>4
    <3> QED
      BY <3>1, <3>2
  <2>5. Good(h)
    BY <2>1, <2>4
  <2>6. \A u \in 1..k : u \in 1..k - 1 \/ u = k
    OBVIOUS
  <2>7. ASSUME NEW u \in 1..k, NEW c \in ClaimsOf(pul[u], replaced), c.element = e, NEW m \in c.binds
        PROVE  Knows(h, e, Binding(m))
    <3>1. CASE u \in 1..k - 1
      BY <2>1, <2>4, <2>7, <3>1
    <3>2. CASE u = k
      BY <2>4, <2>7, <3>2 DEF claims
    <3> QED
      BY <2>6, <3>1, <3>2
  <2>8. k \in 0..n
    OBVIOUS
  <2> QED
    BY <2>5, <2>7, <2>8 DEF h
<1> HIDE DEF G
<1>4. \A k \in 0..n : k \in G
  BY <1>0, <1>2, <1>3, StepByStep
<1>5. n \in G
  BY <1>0, <1>4
<1> QED
  BY <1>1, <1>5 DEF G

\* The element of the start that an update is about, what all of the list brings
\* to an element, and the bindings that this and its scope make.
About(u) == ElementOf(before, Target(u))
AllBrought(e) == UNION {Brought(u) : u \in {v \in DOMAIN pul : About(v) = e}}
Bound(e) == NamespacesOf(before, e) \cup {Binding(n) : n \in {m \in AllBrought(e) : m.prefix # ""}}

LEMMA OneClaim ==
  ASSUME NEW u
  PROVE  \A c, g \in Claims(u) : c = g
<1> DEFINE t == u.target
           A == u.type = "INSERT_ATTRIBUTES"
           B == u.type = "RENAME" /\ IsElement(dom, t)
           C == u.type = "RENAME" /\ IsAttribute(dom, t) /\ dom[t].parent # 0
           D == u.type = "REPLACE_ATTRIBUTE"
<1>1. \/ A /\ Claims(u) = {Claim(t, {}, NamesOf(u.value), Prefixed(NamesOf(u.value)))}
      \/ B /\ Claims(u) = {Claim(t, {}, <<>>, ToSet(u.value))}
      \/ C /\ Claims(u) = {Claim(dom[t].parent, {dom[t].name}, u.value, Prefixed(u.value))}
      \/ D /\ Claims(u) = {Claim(dom[t].parent, {dom[t].name}, NamesOf(u.value), Prefixed(NamesOf(u.value)))}
      \/ Claims(u) = {}
  BY DEF Claims, IsElement, IsAttribute
<1> QED
  BY <1>1

\* The claim of an update binds the prefixes of all the names it brings.
LEMMA ClaimsAre ==
  ASSUME IInv, dom = before, NEW u \in DOMAIN pul, NEW n \in Brought(u), n.prefix # "",
         About(u) \in Targets, IsElement(before, About(u))
  PROVE  \E c \in Claims(pul[u]) : c.element = About(u) /\ n \in c.binds
<1>0. pul[u] \in AskedFor
  <2>1. pul \in Seq(AskedFor)
    BY DEF IInv
  <2> QED
    BY ONLY <2>1, u \in DOMAIN pul
<1> PICK v : v = pul[u]
  OBVIOUS
<1> PICK t : t = Target(u)
  OBVIOUS
<1>1. v \in AskedFor /\ v.target = t
  BY <1>0 DEF Target
<1>2. v.type \in {"INSERT_ATTRIBUTES", "REPLACE_ATTRIBUTE", "RENAME"}
  BY DEF Brought
<1>3. CASE v.type = "INSERT_ATTRIBUTES"
  <2>1. IsElement(before, t) /\ v.value \in AttributeItems
    BY <1>1, <1>3 DEF AskedFor, OfKind, IsElement
  <2>2. About(u) = t
    BY <2>1 DEF About, ElementOf, IsElement, IsAttribute
  <2>3. PICK k \in DOMAIN v.value : n = v.value[k].name
    BY <1>3 DEF Brought, ItemNames
  <2>4. n \in Prefixed(NamesOf(v.value))
    BY <2>3 DEF Prefixed, NamesOf, ToSet
  <2>5. Claims(v) = {Claim(t, {}, NamesOf(v.value), Prefixed(NamesOf(v.value)))}
    BY <1>1, <1>3 DEF Claims
  <2>6. PICK c \in Claims(v) : c = Claim(t, {}, NamesOf(v.value), Prefixed(NamesOf(v.value)))
    BY ONLY <2>5
  <2>7. c.element = t /\ n \in c.binds
    BY ONLY <2>4, <2>6 DEF Claim
  <2> QED
    BY <2>2, <2>6, <2>7
<1>4. CASE v.type = "REPLACE_ATTRIBUTE"
  <2>1. IsAttribute(before, t) /\ v.value \in AttributeItems
    BY <1>1, <1>4 DEF AskedFor, OfKind, IsAttribute
  <2>2. About(u) = dom[t].parent
    BY <2>1 DEF About, ElementOf
  <2>3. PICK k \in DOMAIN v.value : n = v.value[k].name
    BY <1>4 DEF Brought, ItemNames
  <2>4. n \in Prefixed(NamesOf(v.value))
    BY <2>3 DEF Prefixed, NamesOf, ToSet
  <2>5. Claims(v) = {Claim(dom[t].parent, {dom[t].name}, NamesOf(v.value), Prefixed(NamesOf(v.value)))}
    BY <1>1, <1>4 DEF Claims
  <2>6. PICK c \in Claims(v) : c = Claim(dom[t].parent, {dom[t].name}, NamesOf(v.value), Prefixed(NamesOf(v.value)))
    BY ONLY <2>5
  <2>7. c.element = dom[t].parent /\ n \in c.binds
    BY ONLY <2>4, <2>6 DEF Claim
  <2> QED
    BY <2>2, <2>6, <2>7
<1>5. CASE v.type = "RENAME"
  <2>1. v.value \in Seq(Names) /\ Len(v.value) = 1
    BY <1>1, <1>5 DEF AskedFor
  <2>2. n = v.value[1] /\ 1 \in DOMAIN v.value
    <3>1. n = v.value[1]
      BY <1>5 DEF Brought
    <3>2. 1 \in DOMAIN v.value
      BY ONLY <2>1
    <3> QED
      BY <3>1, <3>2
  <2>3. n \in ToSet(v.value) /\ n \in Prefixed(v.value)
    BY <2>2 DEF Prefixed, ToSet
  <2>4. CASE IsAttribute(before, t)
    <3>1. About(u) = dom[t].parent
      BY <2>4 DEF About, ElementOf
    <3>2. About(u) # 0
      <4>1. Targets = 1..Len(before) /\ Len(before) \in Nat
        BY BeforeIs
      <4> QED
        BY ONLY <4>1, About(u) \in Targets
    <3>3. ~IsElement(dom, t) /\ IsAttribute(dom, t) /\ dom[t].parent # 0
      BY <2>4, <3>1, <3>2 DEF IsAttribute, IsElement
    <3>4. Claims(v) = {Claim(dom[t].parent, {dom[t].name}, v.value, Prefixed(v.value))}
      BY <1>1, <1>5, <3>3 DEF Claims
    <3>5. PICK c \in Claims(v) : c = Claim(dom[t].parent, {dom[t].name}, v.value, Prefixed(v.value))
      BY ONLY <3>4
    <3>6. c.element = dom[t].parent /\ n \in c.binds
      BY ONLY <2>3, <3>5 DEF Claim
    <3> QED
      BY <3>1, <3>5, <3>6
  <2>5. CASE ~IsAttribute(before, t)
    <3>1. About(u) = t
      BY <2>5 DEF About, ElementOf
    <3>3. IsElement(dom, t) /\ ~IsAttribute(dom, t)
      BY <2>5, <3>1
    <3>2. Claims(v) = {Claim(t, {}, <<>>, ToSet(v.value))}
      BY ONLY <1>1, <1>5, <3>3 DEF Claims
    <3>5. PICK c \in Claims(v) : c = Claim(t, {}, <<>>, ToSet(v.value))
      BY ONLY <3>2
    <3>6. c.element = t /\ n \in c.binds
      BY ONLY <2>3, <3>5 DEF Claim
    <3> QED
      BY <3>1, <3>5, <3>6
  <2> QED
    BY <2>4, <2>5
<1> QED
  BY <1>2, <1>3, <1>4, <1>5

\* What checkUpdates lets through binds no prefix of an element to two URIs.
LEMMA CheckedNames ==
  ASSUME IInv, dom = before, NamesAgree, NEW e \in Targets, IsElement(before, e)
  PROVE  ~NamespaceClash(Bound(e))
<1> DEFINE first == Pass(AttrMap0, FALSE)
           last == Pass(first, TRUE)
           D == DOMAIN dom
<1>0. pul \in Seq(AskedFor)
  BY DEF IInv
<1>1. Len(pul) \in Nat /\ DOMAIN pul = 1..Len(pul) /\ e \in D /\ ~last[e].clash
  <2>1. Len(pul) \in Nat /\ DOMAIN pul = 1..Len(pul)
    BY <1>0
  <2>2. e \in D
    BY DEF Targets
  <2> QED
    BY <2>1, <2>2 DEF NamesAgree
<1>2. \A u \in 1..Len(pul) : \A c, g \in Claims(pul[u]) : c = g
  BY OneClaim
<1>3. DOMAIN AttrMap0 = D /\ AttrMap0[e].namespaces = NamespacesOf(before, e) /\ ~AttrMap0[e].clash
  BY <1>1 DEF AttrMap0
<1>4. ~NamespaceClash(NamespacesOf(before, e))
  <2>1. SUFFICES ASSUME NEW b \in NamespacesOf(before, e), NEW c \in NamespacesOf(before, e), b.prefix = c.prefix
                 PROVE  b.uri = c.uri
    BY DEF NamespaceClash
  <2>2. ASSUME NEW x \in NamespacesOf(before, e) PROVE x.uri = BoundTo(before, e, x.prefix)
    <3>1. PICK p : x = [prefix |-> p, uri |-> BoundTo(before, e, p)]
      BY DEF NamespacesOf
    <3> QED
      BY <3>1
  <2> QED
    BY <2>1, <2>2
<1>5. Consistent(AttrMap0, e) /\ \A b \in NamespacesOf(before, e) : Knows(AttrMap0, e, b)
  BY <1>3, <1>4 DEF Consistent, Knows
<1>6. /\ DOMAIN first = D
      /\ \A b : Knows(AttrMap0, e, b) => Knows(first, e, b)
      /\ Consistent(AttrMap0, e) => Consistent(first, e)
      /\ \A u \in 1..Len(pul) : \A c \in ClaimsOf(pul[u], FALSE) :
           c.element = e => \A n \in c.binds : Knows(first, e, Binding(n))
  BY ONLY <1>1, <1>2, <1>3, PassKeeps, ZenonT(60)
<1> HIDE DEF first
<1>7. /\ DOMAIN last = D
      /\ \A b : Knows(first, e, b) => Knows(last, e, b)
      /\ Consistent(first, e) => Consistent(last, e)
      /\ \A u \in 1..Len(pul) : \A c \in ClaimsOf(pul[u], TRUE) :
           c.element = e => \A n \in c.binds : Knows(last, e, Binding(n))
  BY ONLY <1>1, <1>2, <1>6, PassKeeps, ZenonT(60)
<1> HIDE DEF last, D
<1>8. ~NamespaceClash(last[e].namespaces)
  BY <1>1, <1>5, <1>6, <1>7 DEF Consistent
<1>9. \A b \in NamespacesOf(before, e) : b \in last[e].namespaces
  BY <1>1, <1>5, <1>6, <1>7 DEF Knows
<1>10. ASSUME NEW n \in AllBrought(e), n.prefix # "" PROVE Binding(n) \in last[e].namespaces
  <2>1. PICK u \in DOMAIN pul : About(u) = e /\ n \in Brought(u)
    BY DEF AllBrought
  <2>2. PICK c \in Claims(pul[u]) : c.element = e /\ n \in c.binds
    BY <1>10, <2>1, ClaimsAre
  <2>3. c \in ClaimsOf(pul[u], FALSE) \/ c \in ClaimsOf(pul[u], TRUE)
    BY DEF ClaimsOf
  <2>4. Knows(last, e, Binding(n))
    BY <1>1, <1>6, <1>7, <2>2, <2>3
  <2> QED
    BY <1>1, <2>4 DEF Knows
<1>11. Bound(e) \subseteq last[e].namespaces
  BY <1>9, <1>10 DEF Bound
<1> QED
  BY <1>8, <1>11 DEF NamespaceClash

\* An element's own names are the nearest to say something of their prefixes.
LEMMA OwnNamesBound ==
  ASSUME NEW d, IsForest(d), NEW e \in 1..Len(d), IsElement(d, e), PrefixesAgree(d, e),
         NEW n \in NamesOn(d, e), n.prefix # ""
  PROVE  Binding(n) \in NamespacesOf(d, e)
<1> PICK p : p = n.prefix
  OBVIOUS
<1> DEFINE up == Ancestry(d, e)
           speaking == {k \in DOMAIN up : IsElement(d, up[k]) /\ SaidOf(d, up[k], p) # {}}
           nearest == CHOOSE k \in speaking : \A j \in speaking : k <= j
<1>1. PICK x \in {e} \cup d[e].attrs : n = d[x].name
  BY DEF NamesOn
<1>2. DOMAIN d = 1..Len(d) /\ \A y \in {e} \cup d[e].attrs : y \in 1..Len(d) /\ d[y] \in Nodes
  <2>1. DOMAIN d = 1..Len(d) /\ NodeOf(d, e) /\ \A y \in 1..Len(d) : d[y] \in Nodes
    BY ForestIs
  <2>2. \A y \in d[e].attrs : y \in 1..Len(d)
    BY ONLY <2>1 DEF NodeOf
  <2> QED
    BY <2>1, <2>2
<1>3. n \in Names /\ n.uri # ""
  <2>1. d[x] \in Nodes
    BY <1>2
  <2>2. n \in Names
    BY <1>1, <2>1 DEF Nodes
  <2> QED
    BY <2>2 DEF Names
<1>4. \A y \in {e} \cup d[e].attrs : d[y].name.prefix = p => d[y].name.uri = n.uri
  BY <1>1 DEF PrefixesAgree
<1>5. \A y \in SaidOf(d, e, p) : y = n.uri
  BY <1>4 DEF SaidOf
<1>6. n.uri \in SaidOf(d, e, p)
  BY <1>1, <1>3 DEF SaidOf
<1>7. up \in Seq(1..Len(d)) /\ 1 \in DOMAIN up /\ up[1] = e
  <2>1. ParentsFirst(d)
    BY ForestsParents
  <2>2. up \in Seq(1..Len(d)) /\ up[1] = e /\ Len(up) = Len(Ancestry(d, d[e].parent)) + 1
        /\ Ancestry(d, d[e].parent) \in Seq(1..Len(d))
    BY <2>1, AncestryOf
  <2> PICK s : s = up
    OBVIOUS
  <2> PICK above : above = Ancestry(d, d[e].parent)
    OBVIOUS
  <2>3. s \in Seq(1..Len(d)) /\ above \in Seq(1..Len(d)) /\ Len(s) = Len(above) + 1
    BY <2>2
  <2>4. 1 \in DOMAIN s
    BY ONLY <2>3
  <2> QED
    BY <2>2, <2>4
<1>8. BoundTo(d, e, p) = IF speaking = {} THEN "" ELSE CHOOSE u \in SaidOf(d, up[nearest], p) : TRUE
  BY DEF BoundTo
<1> HIDE DEF up
<1>9. 1 \in speaking /\ \A j \in speaking : j \in Nat /\ 1 <= j
  <2>1. 1 \in speaking
    BY <1>6, <1>7
  <2>2. \A j \in DOMAIN up : j \in Nat /\ 1 <= j
    BY ONLY <1>7
  <2> QED
    BY <2>1, <2>2
<1> HIDE DEF speaking
<1>10. nearest \in speaking /\ \A j \in speaking : nearest <= j
  BY <1>9
<1>11. nearest = 1
  <2> HIDE DEF nearest
  <2> QED
    BY ONLY <1>9, <1>10
<1>12. BoundTo(d, e, p) = CHOOSE u \in SaidOf(d, e, p) : TRUE
  BY <1>7, <1>8, <1>9, <1>11
<1>13. BoundTo(d, e, p) = n.uri
  BY <1>5, <1>6, <1>12
<1>14. p \in PrefixesIn(d)
  BY <1>1, <1>2 DEF PrefixesIn
<1> QED
  BY <1>3, <1>13, <1>14 DEF NamespacesOf, Binding

\* Names of e that have nothing but bindings from a set without a clash.
LEMMA NamesWithoutClash ==
  ASSUME NEW d, NEW e, NEW B, ~NamespaceClash(B),
         \A n \in NamesOn(d, e) : n.prefix # "" => Binding(n) \in B
  PROVE  PrefixesAgree(d, e)
<1>1. SUFFICES ASSUME NEW x \in {e} \cup d[e].attrs, NEW y \in {e} \cup d[e].attrs, x # y,
                      d[x].name.prefix = d[y].name.prefix, d[x].name.prefix # ""
               PROVE  d[x].name.uri = d[y].name.uri
  BY DEF PrefixesAgree
<1>2. Binding(d[x].name) \in B /\ Binding(d[y].name) \in B
  BY <1>1 DEF NamesOn
<1> QED
  BY <1>1, <1>2 DEF NamespaceClash, Binding

LEMMA RetypedNames ==
  ASSUME NEW d, IsForest(d), NEW n
  PROVE  SameNames(d, Retyped(d, n))
<1> DEFINE loosened == IF ElementOf(d, n) = 0 THEN {} ELSE Loosened(d, ElementOf(d, n))
<1>1. DOMAIN d = 1..Len(d) /\ \A m \in 1..Len(d) : d[m] \in Nodes
  BY ForestIs
<1> PICK e : e = Retyped(d, n)
  OBVIOUS
<1>2. CASE n = 0
  BY <1>2 DEF Retyped, SameNames
<1>3. CASE n # 0
  <2>1. e = [m \in 1..Len(d) |->
               IF m \in loosened THEN [d[m] EXCEPT !.type = "any"]
               ELSE IF m = n /\ IsAttribute(d, n) THEN [d[m] EXCEPT !.type = "untyped"]
               ELSE d[m]]
    BY <1>1, <1>3 DEF Retyped, RemoveType
  <2> HIDE DEF loosened
  <2>2. ASSUME NEW m \in 1..Len(d) PROVE e[m].name = d[m].name /\ e[m].attrs = d[m].attrs
    <3>1. e[m] \in {[d[m] EXCEPT !.type = "any"], [d[m] EXCEPT !.type = "untyped"], d[m]}
      BY <2>1
    <3>2. d[m] \in Nodes
      BY <1>1
    <3> QED
      BY <3>1, <3>2 DEF Nodes
  <2> QED
    BY <2>2 DEF SameNames
<1> QED
  BY <1>2, <1>3

(***************************************************************************)
(* Once the list is checked: the bindings of an element and its scope and  *)
(* those the list brings do not clash, and the names of the element have   *)
(* no others.                                                              *)
(***************************************************************************)
Ahead == {"apply", "write", "done"}
NamedAt(d, e) == ~NamespaceClash(Bound(e)) /\ NamesOn(d, e) \subseteq NamesOn(before, e) \cup AllBrought(e)
NamedInv == pc \in Ahead => \A e \in Targets : IsElement(before, e) => NamedAt(dom, e)

LEMMA NamedStill ==
  ASSUME UNCHANGED <<given, pul>>, NEW d, dom' = d, \A e \in Targets : IsElement(before, e) => NamedAt(d, e)
  PROVE  NamedInv'
<1>1. before' = before /\ Targets' = Targets /\ given' = given /\ pul' = pul
  BY DEF before, Targets
<1>2. \A u : About(u)' = About(u) /\ Brought(u)' = Brought(u)
  BY <1>1 DEF About, Brought, ItemNames, Target
<1>3. ASSUME NEW e PROVE AllBrought(e)' = AllBrought(e)
  BY <1>1, <1>2 DEF AllBrought
<1>4. ASSUME NEW e PROVE Bound(e)' = Bound(e)
  BY <1>1, <1>3 DEF Bound
<1>5. ASSUME NEW e \in Targets, IsElement(before, e) PROVE NamedAt(dom, e)'
  <2>1. NamedAt(d, e)
    BY <1>5
  <2> QED
    BY <1>1, <1>3, <1>4, <2>1 DEF NamedAt
<1> QED
  BY <1>1, <1>5 DEF NamedInv

\* Steps that bring no other names than those of an update to its element.
LEMMA NamedStep ==
  ASSUME IInv, NamedInv, pc \in Ahead, UNCHANGED <<given, pul>>, NEW d, dom' = d,
         \A e \in Targets : IsElement(before, e) => NamesOn(d, e) \subseteq NamesOn(dom, e) \cup AllBrought(e)
  PROVE  NamedInv'
<1>1. \A e \in Targets : IsElement(before, e) => NamedAt(d, e)
  BY DEF NamedInv, NamedAt
<1> QED
  BY <1>1, NamedStill

LEMMA SameNamesOn ==
  ASSUME IInv, NEW d, SameNames(dom, d)
  PROVE  \A e \in Targets : IsElement(before, e) => NamesOn(d, e) \subseteq NamesOn(dom, e)
<1>1. SUFFICES ASSUME NEW e \in Targets, IsElement(before, e) PROVE NamesOn(d, e) \subseteq NamesOn(dom, e)
  OBVIOUS
<1>2. e \in 1..Len(dom) /\ IsElement(dom, e) /\ IsForest(dom)
  BY <1>1, BeforeIs DEF IsElement, IInv
<1>3. Adds(dom, d, 0, {})
  BY <1>2, SameNamesAdd
<1> QED
  BY <1>2, <1>3 DEF Adds

LEMMA CarriedKeepsNamed ==
  ASSUME IInv, LooseInv, NamedInv, CarriedOut
  PROVE  NamedInv'
<1>1. PICK u \in DOMAIN pul : pc = "apply" /\ \E t, d, marked, n, saved : Carried(u, t, d, marked, n, saved) /\ Effect(d, marked, n, saved)
  BY DEF CarriedOut
<1>2. PICK t, d, marked, n, saved : Carried(u, t, d, marked, n, saved) /\ Effect(d, marked, n, saved)
  BY <1>1
<1>3. Change(dom, d, t) /\ Brings(u, d)
  BY <1>2 DEF Carried
<1>4. dom' = Retyped(d, n) /\ UNCHANGED <<given, pul>>
  BY <1>2 DEF Effect
<1>5. IsForest(d) /\ Keeps(dom, d) /\ Len(dom) \in Nat /\ Len(d) \in Nat
  BY <1>3, ForestIs DEF Change, IInv
<1>6. Target(u) \in Targets
  <2>1. pul[u] \in AskedFor
    BY DEF IInv
  <2> QED
    BY <2>1 DEF AskedFor, OfKind, Target
<1>7. SameNames(d, Retyped(d, n))
  BY <1>5, RetypedNames
<1>8. Adds(d, Retyped(d, n), ElementOf(dom, Target(u)), Brought(u))
  BY <1>5, <1>7, SameNamesAdd
<1>9. Adds(dom, Retyped(d, n), ElementOf(dom, Target(u)), Brought(u))
  BY <1>3, <1>5, <1>8, AddsTwice DEF Brings
<1>10. ASSUME NEW e \in Targets, IsElement(before, e), e = ElementOf(dom, Target(u))
       PROVE  Brought(u) \subseteq AllBrought(e)
  <2>1. dom[Target(u)].kind = before[Target(u)].kind /\ e # 0
    BY <1>6, BeforeIs
  <2>2. LooseAt(dom, forRevalidation, Target(u))
    BY <1>1, <1>6 DEF LooseInv, Loose
  <2>3. dom[Target(u)].parent \in {0, before[Target(u)].parent}
    BY <2>2 DEF LooseAt
  <2>4. About(u) = e
    BY <1>10, <2>1, <2>3 DEF About, ElementOf, IsAttribute
  <2> QED
    BY <2>4 DEF AllBrought
<1>11. ASSUME NEW e \in Targets, IsElement(before, e)
       PROVE  NamesOn(Retyped(d, n), e) \subseteq NamesOn(dom, e) \cup AllBrought(e)
  <2>1. e \in 1..Len(dom) /\ IsElement(dom, e)
    BY <1>11, BeforeIs DEF IsElement
  <2> QED
    BY <1>9, <1>10, <1>11, <2>1 DEF Adds
<1>12. pc \in Ahead
  BY <1>1 DEF Ahead
<1> QED
  BY <1>4, <1>11, <1>12, NamedStep

LEMMA DeletionKeepsNamed ==
  ASSUME IInv, NamedInv, CompleteDeletions
  PROVE  NamedInv'
<1>1. PICK n, r :
        n \in forDeletion /\ dom' = Retyped(Removed(dom, n), r) /\ UNCHANGED <<given, pul>> /\ pc = "apply"
  BY DEF CompleteDeletions, Completing
<1>2. n \in 1..Len(dom) /\ IsForest(dom) /\ Len(dom) \in Nat
  BY <1>1, ForestIs DEF IInv
<1> PICK d : d = Removed(dom, n)
  OBVIOUS
<1>3. IsForest(d) /\ Len(d) = Len(dom) /\ SameNames(dom, d)
  BY <1>2, Removal, RemovalNames DEF Change
<1>4. SameNames(d, Retyped(d, r))
  BY <1>3, RetypedNames
<1>5. SameNames(dom, Retyped(d, r))
  BY <1>2, <1>3, <1>4, SameNamesTwice
<1>6. \A e \in Targets : IsElement(before, e) => NamesOn(Retyped(d, r), e) \subseteq NamesOn(dom, e) \cup AllBrought(e)
  BY <1>5, SameNamesOn
<1>7. dom' = Retyped(d, r) /\ pc \in Ahead
  BY <1>1 DEF Ahead
<1> QED
  BY <1>1, <1>6, <1>7, NamedStep

LEMMA RevalidationKeepsNamed ==
  ASSUME IInv, NamedInv, CompleteRevalidation
  PROVE  NamedInv'
<1>1. /\ dom' = dom \/ dom' = [n \in DOMAIN dom |->
             IF dom[n].kind \in {"element", "attribute"} /\ Root(dom, n) \in forRevalidation
             THEN [dom[n] EXCEPT !.type = "typed"] ELSE dom[n]]
      /\ pc = "apply" /\ UNCHANGED <<given, pul>>
  BY DEF CompleteRevalidation, Completing
<1>2. DOMAIN dom = 1..Len(dom) /\ \A n \in 1..Len(dom) : dom[n] \in Nodes
  BY ForestIs DEF IInv
<1> PICK d : d = dom'
  OBVIOUS
<1>3. ASSUME NEW m \in 1..Len(dom) PROVE d[m].name = dom[m].name /\ d[m].attrs = dom[m].attrs
  <2>1. d[m] = dom[m] \/ d[m] = [dom[m] EXCEPT !.type = "typed"]
    BY <1>1, <1>2
  <2>2. dom[m] \in Nodes
    BY <1>2
  <2> QED
    BY <2>1, <2>2 DEF Nodes
<1>4. SameNames(dom, d)
  BY <1>3 DEF SameNames
<1>5. \A e \in Targets : IsElement(before, e) => NamesOn(d, e) \subseteq NamesOn(dom, e) \cup AllBrought(e)
  BY <1>4, SameNamesOn
<1>6. pc \in Ahead
  BY <1>1 DEF Ahead
<1> QED
  BY <1>1, <1>5, <1>6, NamedStep

LEMMA CheckedIsNamed ==
  ASSUME IInv, ApplyUpdates
  PROVE  NamedInv'
<1>1. UNCHANGED <<given, pul, dom>> /\ dom = before /\ (pc' = "error" \/ NamesAgree)
  BY DEF ApplyUpdates, IInv, Start
<1>2. CASE pc' = "error"
  BY <1>2 DEF NamedInv, Ahead
<1>3. CASE NamesAgree
  <2>1. \A e \in Targets : IsElement(before, e) => NamedAt(dom, e)
    BY <1>1, <1>3, CheckedNames DEF NamedAt
  <2> QED
    BY <1>1, <2>1, NamedStill
<1> QED
  BY <1>1, <1>2, <1>3

LEMMA NamedInductive ==
  ASSUME IInv, LooseInv, NamedInv, [Next]_vars
  PROVE  NamedInv'
<1>1. ASSUME UNCHANGED <<dom, given, pul>>, pc \in Ahead \/ pc' \notin Ahead
      PROVE  NamedInv'
  BY <1>1, NamedStill DEF NamedInv
<1>2. CASE Collect
  <2>1. pc' = "collect"
    BY <1>2, CollectKeepsIInv
  <2> QED
    BY <2>1 DEF NamedInv, Ahead
<1>3. CASE ApplyUpdates
  BY <1>3, CheckedIsNamed
<1>4. CASE ApplyPut
  <2>1. UNCHANGED <<dom, given, pul>> /\ pc \in Ahead
    BY <1>4, ApplyPutIs DEF Ahead
  <2> QED
    BY <1>1, <2>1
<1>5. CASE CarriedOut
  BY <1>5, CarriedKeepsNamed
<1>6. CASE CompleteDeletions
  BY <1>6, DeletionKeepsNamed
<1>7. CASE Crash
  BY <1>7 DEF Crash, NamedInv, Ahead
<1>8. CASE CompleteRevalidation
  BY <1>8, RevalidationKeepsNamed
<1>9. CASE PutDocument
  <2>1. UNCHANGED <<dom, given, pul>> /\ pc \in Ahead
    BY <1>9, PutDocumentIs DEF Ahead
  <2> QED
    BY <1>1, <2>1
<1>10. CASE Complete
  <2>1. UNCHANGED <<dom, given, pul>> /\ pc \in Ahead
    BY <1>10 DEF Complete, Ahead
  <2> QED
    BY <1>1, <2>1
<1>11. CASE UNCHANGED vars
  <2>1. UNCHANGED <<dom, given, pul, pc>>
    BY <1>11 DEF vars
  <2> QED
    BY <1>1, <2>1
<1> QED
  BY <1>2, <1>3, <1>4, <1>5, <1>6, <1>7, <1>8, <1>9, <1>10, <1>11, StepIs

LEMMA NamedAtStart == ASSUME Init PROVE NamedInv
BY DEF Init, NamedInv, Ahead

LEMMA NamedInvIsNamespacesAgree == ASSUME IInv, NamedInv PROVE NamespacesAgree
<1>1. SUFFICES ASSUME Finished, NEW e \in Targets, IsElement(before, e) PROVE PrefixesAgree(dom, e)
  BY DEF NamespacesAgree
<1>2. NamedAt(dom, e)
  BY <1>1 DEF NamedInv, Finished, Ahead
<1>3. IsForest(before) /\ e \in 1..Len(before) /\ PrefixesAgree(before, e)
  <2>1. given \in Cases
    BY DEF IInv
  <2>2. e \in DOMAIN before
    BY DEF Targets
  <2>3. PrefixesAgree(before, e)
    BY <1>1, <2>1, <2>2, CasesAssumption DEF before
  <2> QED
    BY <2>3, BeforeIs
<1>4. ASSUME NEW n \in NamesOn(dom, e), n.prefix # "" PROVE Binding(n) \in Bound(e)
  <2>1. CASE n \in NamesOn(before, e)
    BY <1>1, <1>3, <1>4, <2>1, OwnNamesBound DEF Bound
  <2>2. CASE n \in AllBrought(e)
    BY <1>4, <2>2 DEF Bound
  <2> QED
    BY <1>2, <2>1, <2>2 DEF NamedAt
<1> QED
  BY <1>2, <1>4, NamesWithoutClash DEF NamedAt

\* What checkUpdates compares ahead of the application (addNamespace, and
\* getNamespaces for what is in scope) is enough: when the list has been
\* applied, no element of the start has two names, its own or those of its
\* attributes, that bind one prefix to two URIs, although the updates are
\* compared in two passes and applied in the order of their kinds, and although
\* attributes push others of the same name out of their element on the way.
THEOREM PrefixesStayBound == Spec => []NamespacesAgree
<1>1. Init => IInv /\ LooseInv /\ NamedInv
  BY StartsInIInv, LooseAtStart, NamedAtStart
<1>2. (IInv /\ LooseInv /\ NamedInv) /\ [Next]_vars => (IInv /\ LooseInv /\ NamedInv)'
  BY IInvInductive, LooseInductive, NamedInductive
<1>3. IInv /\ NamedInv => NamespacesAgree
  BY NamedInvIsNamespacesAgree
<1> QED
  BY <1>1, <1>2, <1>3, PTL DEF Spec
===============================================================================
