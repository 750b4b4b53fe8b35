------------------------- MODULE StaticTyping_proofs -------------------------
(***************************************************************************)
(* Proofs about static typing: whatever the variables, the numbers of      *)
(* items they hold and the width of an unsigned number, no value escapes   *)
(* the static type of its expression, and what the optimizer concludes     *)
(* from a static type is what the evaluation finds.                        *)
(***************************************************************************)
EXTENDS StaticTyping, TLAPS, SequenceTheorems, FiniteSetTheorems

LEMMA UnsignedFits ==
  ASSUME NEW n \in Nat, Fits(n)
  PROVE  Unsigned(n) = n
BY UnlimitedAssumption DEF Unsigned, Fits

LEMMA UnsignedCounts ==
  ASSUME NEW n \in Nat
  PROVE  Unsigned(n) \in Counts
BY UnlimitedAssumption DEF Unsigned, Counts

LEMMA ProductNat == \A a, b \in Nat : a * b \in Nat /\ (a * b = 0 <=> a = 0 \/ b = 0)
OBVIOUS

LEMMA ProductMonotone ==
  ASSUME NEW a \in Nat, NEW b \in Nat, NEW c \in Nat, NEW d \in Nat, a <= b, c <= d
  PROVE  a * c <= b * d
<1>1. PICK e \in Nat : b = a + e
  OBVIOUS
<1>2. PICK f \in Nat : d = c + f
  OBVIOUS
<1>3. b * d = a * c + a * f + e * c + e * f
  BY <1>1, <1>2
<1> QED
  BY <1>3


(***************************************************************************)
(* The operations on static types.  Each is a static type again, and it is *)
(* that of the values the operation is meant for.                          *)
(***************************************************************************)
IsValue(v) == v \in Seq(AnyItem)

LEMMA Kinds ==
  ASSUME NEW v, IsValue(v)
  PROVE  /\ KindsIn(v) \subseteq ITEM
         /\ \A flags : KindsIn(v) \subseteq flags <=> \A i \in 1..Len(v) : v[i].kind \in flags
         /\ KindsIn(v) = {} <=> Len(v) = 0
<1>1. DOMAIN v = 1..Len(v) /\ Len(v) \in Nat /\ \A i \in 1..Len(v) : v[i] \in AnyItem
  BY DEF IsValue
<1>2. ASSUME NEW flags
      PROVE  KindsIn(v) \subseteq flags <=> \A i \in 1..Len(v) : v[i].kind \in flags
  BY <1>1 DEF KindsIn
<1>3. \A i \in 1..Len(v) : v[i].kind \in ITEM
  BY <1>1 DEF AnyItem
<1>4. KindsIn(v) = {} => Len(v) = 0
  <2>1. Len(v) # 0 => v[1].kind \in KindsIn(v)
    BY <1>1 DEF KindsIn
  <2> QED
    BY <2>1
<1>5. Len(v) = 0 => KindsIn(v) = {}
  BY <1>1 DEF KindsIn
<1> QED
  BY <1>2, <1>3, <1>4, <1>5

LEMMA ClearedSound ==
  /\ Cleared \in StaticTypes
  /\ \A v : IsValue(v) /\ Len(v) = 0 => HasType(v, Cleared)
<1>1. Cleared \in StaticTypes
  BY UnlimitedAssumption DEF Cleared, StaticTypes, Counts
<1>2. ASSUME NEW v, IsValue(v), Len(v) = 0 PROVE HasType(v, Cleared)
  BY <1>2, Kinds DEF HasType, Within, Cleared
<1> QED
  BY <1>1, <1>2

LEMMA UnionSound ==
  ASSUME NEW t \in StaticTypes, NEW u \in StaticTypes
  PROVE  /\ TypeUnion(t, u) \in StaticTypes
         /\ \A v : IsValue(v) /\ (HasType(v, t) \/ HasType(v, u)) => HasType(v, TypeUnion(t, u))
<1>1. TypeUnion(t, u) \in StaticTypes
  BY DEF StaticTypes, TypeUnion, StaticTypeOf, Lower, Higher
<1>2. ASSUME NEW v, IsValue(v), HasType(v, t) \/ HasType(v, u)
      PROVE  HasType(v, TypeUnion(t, u))
  BY <1>2, UnlimitedAssumption
     DEF IsValue, HasType, Within, StaticTypes, Counts, TypeUnion, StaticTypeOf, Lower, Higher
<1> QED
  BY <1>1, <1>2

LEMMA ConcatSound ==
  ASSUME NEW t \in StaticTypes, NEW u \in StaticTypes
  PROVE  /\ TypeConcat(t, u) \in StaticTypes
         /\ \A v, w : IsValue(v) /\ IsValue(w) /\ HasType(v, t) /\ HasType(w, u) /\ ConcatFits(t, u)
                        => HasType(v \o w, TypeConcat(t, u))
<1>1. /\ t.min \in Nat /\ u.min \in Nat /\ t.max \in Nat /\ u.max \in Nat
      /\ t.min + u.min \in Nat /\ t.max + u.max \in Nat
  BY UnlimitedAssumption DEF StaticTypes, Counts
<1>2. TypeConcat(t, u) \in StaticTypes
  <2>1. Unsigned(t.min + u.min) \in Counts /\ Unsigned(t.max + u.max) \in Counts
    BY <1>1, UnsignedCounts
  <2>2. UNLIMITED \in Counts
    BY UnlimitedAssumption DEF Counts
  <2> QED
    BY <2>1, <2>2 DEF TypeConcat, StaticTypes, StaticTypeOf
<1>3. ASSUME NEW v, NEW w, IsValue(v), IsValue(w), HasType(v, t), HasType(w, u), ConcatFits(t, u)
      PROVE  HasType(v \o w, TypeConcat(t, u))
  <2>1. Unsigned(t.min + u.min) = t.min + u.min
    BY <1>1, <1>3, UnsignedFits DEF ConcatFits
  <2>2. UNLIMITED \notin {t.max, u.max} => Unsigned(t.max + u.max) = t.max + u.max
    BY <1>1, <1>3, UnsignedFits DEF ConcatFits
  <2>3. /\ IsValue(v \o w) /\ Len(v \o w) = Len(v) + Len(w)
        /\ \A i \in 1..Len(v \o w) : (v \o w)[i] = IF i <= Len(v) THEN v[i] ELSE w[i - Len(v)]
    BY <1>3 DEF IsValue
  <2>4. Len(v) \in Nat /\ Len(w) \in Nat
    BY <1>3 DEF IsValue
  <2>5. Within(Len(v \o w), TypeConcat(t, u).min, TypeConcat(t, u).max)
    BY <1>1, <1>3, <2>1, <2>2, <2>3, <2>4 DEF HasType, Within, TypeConcat, StaticTypeOf
  <2>6. \A i \in 1..Len(v \o w) : (v \o w)[i].kind \in t.kinds \cup u.kinds
    <3>1. (\A i \in 1..Len(v) : v[i].kind \in t.kinds) /\ (\A i \in 1..Len(w) : w[i].kind \in u.kinds)
      BY <1>3, Kinds DEF HasType
    <3> QED
      BY <2>3, <2>4, <3>1
  <2>7. KindsIn(v \o w) \subseteq TypeConcat(t, u).kinds
    BY <2>3, <2>6, Kinds DEF TypeConcat, StaticTypeOf
  <2> QED
    BY <2>5, <2>7 DEF HasType
<1> QED
  BY <1>2, <1>3


LEMMA MultipliedSound ==
  ASSUME NEW t \in StaticTypes, NEW min \in Counts, NEW max \in Counts
  PROVE  /\ Multiplied(t, min, max) \in StaticTypes
         /\ \A v : (/\ IsValue(v) /\ KindsIn(v) \subseteq t.kinds
                    /\ ProductFits(t, min, max)
                    /\ t.min * min <= Len(v)
                    /\ UNLIMITED \in {t.max, max} \/ Len(v) <= t.max * max)
                   => HasType(v, Multiplied(t, min, max))
<1> DEFINE top == IF UNLIMITED \in {t.max, max} THEN UNLIMITED ELSE Unsigned(t.max * max)
<1>1. /\ t.min \in Nat /\ t.max \in Nat /\ min \in Nat /\ max \in Nat /\ t.kinds \in SUBSET ITEM
      /\ UNLIMITED \in Counts /\ UNLIMITED # 0
  BY UnlimitedAssumption DEF StaticTypes, Counts
<1>2. t.min * min \in Nat /\ t.max * max \in Nat
  BY <1>1, ProductNat
<1>3. Unsigned(t.min * min) \in Counts /\ Unsigned(t.max * max) \in Counts
  BY <1>2, UnsignedCounts
<1>4. Multiplied(t, min, max) = IF top = 0 THEN Cleared ELSE [kinds |-> t.kinds, min |-> Unsigned(t.min * min), max |-> top]
  BY DEF Multiplied, StaticTypeOf
<1>5. Multiplied(t, min, max) \in StaticTypes
  BY <1>1, <1>3, <1>4, ClearedSound DEF StaticTypes
<1>6. ASSUME NEW v, IsValue(v), KindsIn(v) \subseteq t.kinds, ProductFits(t, min, max),
             t.min * min <= Len(v), UNLIMITED \in {t.max, max} \/ Len(v) <= t.max * max
      PROVE  HasType(v, Multiplied(t, min, max))
  <2>1. Unsigned(t.min * min) = t.min * min
    BY <1>2, <1>6, UnsignedFits DEF ProductFits
  <2>2. UNLIMITED \notin {t.max, max} => Unsigned(t.max * max) = t.max * max
    BY <1>2, <1>6, UnsignedFits DEF ProductFits
  <2>3. Len(v) \in Nat
    BY <1>6 DEF IsValue
  <2>4. CASE top = 0
    <3>1. Len(v) = 0
      BY <1>1, <1>2, <1>6, <2>2, <2>3, <2>4
    <3> QED
      BY <1>4, <1>6, <2>4, <3>1, ClearedSound
  <2>5. CASE top # 0
    <3>1. Within(Len(v), t.min * min, top)
      BY <1>1, <1>2, <1>6, <2>2, <2>3 DEF Within
    <3> HIDE DEF top
    <3> QED
      BY <1>4, <1>6, <2>1, <2>5, <3>1 DEF HasType
  <2> QED
    BY <2>4, <2>5
<1> QED
  BY <1>5, <1>6

LEMMA WithCardinalitySound ==
  ASSUME NEW t \in StaticTypes, NEW min \in Counts, NEW max \in Counts
  PROVE  /\ WithCardinality(t, min, max) \in StaticTypes
         /\ \A v : IsValue(v) /\ KindsIn(v) \subseteq t.kinds /\ Within(Len(v), min, max)
                     => HasType(v, WithCardinality(t, min, max))
<1>1. t.kinds \in SUBSET ITEM /\ 0 # UNLIMITED
  BY UnlimitedAssumption DEF StaticTypes
<1>2. WithCardinality(t, min, max) \in StaticTypes
  BY <1>1, ClearedSound DEF WithCardinality, StaticTypeOf, StaticTypes
<1>3. ASSUME NEW v, IsValue(v), KindsIn(v) \subseteq t.kinds, Within(Len(v), min, max)
      PROVE  HasType(v, WithCardinality(t, min, max))
  <2>1. CASE max = 0
    <3>1. Len(v) = 0
      BY <1>1, <1>3, <2>1 DEF Within, IsValue
    <3> QED
      BY <1>3, <2>1, <3>1, ClearedSound DEF WithCardinality
  <2>2. CASE max # 0
    BY <1>1, <1>3, <2>2 DEF WithCardinality, StaticTypeOf, HasType
  <2> QED
    BY <2>1, <2>2
<1> QED
  BY <1>2, <1>3

LEMMA RestrictedSound ==
  ASSUME NEW t \in StaticTypes, NEW flags
  PROVE  /\ Restricted(t, flags) \in StaticTypes
         /\ \A v : IsValue(v) /\ HasType(v, t) /\ KindsIn(v) \subseteq flags
                     => HasType(v, Restricted(t, flags))
<1>1. t.kinds \in SUBSET ITEM /\ t.min \in Counts /\ t.max \in Counts /\ 0 # UNLIMITED
  BY UnlimitedAssumption DEF StaticTypes
<1>2. Restricted(t, flags) \in StaticTypes
  BY <1>1, ClearedSound DEF Restricted, StaticTypeOf, StaticTypes
<1>3. ASSUME NEW v, IsValue(v), HasType(v, t), KindsIn(v) \subseteq flags
      PROVE  HasType(v, Restricted(t, flags))
  <2>1. CASE t.kinds \cap flags = {} \/ t.max = 0
    <3>1. CASE t.kinds \cap flags = {}
      <4>1. KindsIn(v) = {}
        BY <1>3, <3>1 DEF HasType
      <4> QED
        BY <1>3, <2>1, <4>1, Kinds, ClearedSound DEF Restricted
    <3>2. CASE t.max = 0
      <4>1. Len(v) = 0
        BY <1>1, <1>3, <3>2 DEF HasType, Within, IsValue
      <4> QED
        BY <1>3, <2>1, <4>1, ClearedSound DEF Restricted
    <3> QED
      BY <2>1, <3>1, <3>2
  <2>2. CASE ~(t.kinds \cap flags = {} \/ t.max = 0)
    BY <1>3, <2>2 DEF Restricted, StaticTypeOf, HasType
  <2> QED
    BY <2>1, <2>2
<1> QED
  BY <1>2, <1>3

LEMMA IntersectSound ==
  ASSUME NEW t \in StaticTypes, NEW u \in StaticTypes
  PROVE  /\ TypeIntersect(t, u) \in StaticTypes
         /\ \A v : IsValue(v) /\ HasType(v, t) /\ HasType(v, u) => HasType(v, TypeIntersect(t, u))
<1> DEFINE both == StaticTypeOf(t.kinds, Higher(t.min, u.min), Lower(t.max, u.max))
<1>1. both \in StaticTypes
  BY DEF StaticTypes, StaticTypeOf, Lower, Higher
<1>2. ASSUME NEW v, IsValue(v), HasType(v, t), HasType(v, u) PROVE HasType(v, both)
  BY <1>2, UnlimitedAssumption
     DEF IsValue, HasType, Within, StaticTypes, Counts, StaticTypeOf, Lower, Higher
<1>3. TypeIntersect(t, u) = Restricted(both, u.kinds)
  BY DEF TypeIntersect
<1>4. \A v : HasType(v, u) => KindsIn(v) \subseteq u.kinds
  BY DEF HasType
<1> HIDE DEF both
<1>5. Restricted(both, u.kinds) \in StaticTypes
  BY <1>1, RestrictedSound
<1>6. ASSUME NEW v, IsValue(v), HasType(v, t), HasType(v, u)
      PROVE  HasType(v, Restricted(both, u.kinds))
  BY <1>1, <1>2, <1>4, <1>6, RestrictedSound
<1> QED
  BY <1>3, <1>5, <1>6


(* A conversion of the items whose kinds are in from, each to one of the   *)
(* kinds that are put in.                                                  *)
Converts(v, w, from, to) ==
  /\ Len(w) = Len(v)
  /\ \A i \in 1..Len(v) : IF v[i].kind \in from THEN w[i].kind \in to ELSE w[i].kind = v[i].kind

LEMMA SubstitutedSound ==
  ASSUME NEW t \in StaticTypes, NEW from, NEW to \in SUBSET ITEM
  PROVE  /\ Substituted(t, from, ExactlyOne(to)) \in StaticTypes
         /\ \A v, w : (/\ IsValue(v) /\ IsValue(w) /\ HasType(v, t) /\ ~ForgetsCount(t, from)
                       /\ Converts(v, w, from, to))
                      => HasType(w, Substituted(t, from, ExactlyOne(to)))
<1> DEFINE rest == Restricted(t, ITEM \ from)
<1>1. t.kinds \in SUBSET ITEM /\ t.min \in Counts /\ t.max \in Counts /\ 1 \in Counts /\ UNLIMITED > 1
  BY UnlimitedAssumption DEF StaticTypes, Counts
<1>2. ExactlyOne(to) \in StaticTypes
  BY <1>1 DEF ExactlyOne, StaticTypeOf, StaticTypes
<1>3. rest \in StaticTypes
  BY RestrictedSound
<1>4. Substituted(t, from, ExactlyOne(to)) \in StaticTypes
  <2> HIDE DEF rest
  <2>1. TypeUnion(rest, ExactlyOne(to)) \in StaticTypes
    BY <1>2, <1>3, UnionSound
  <2> USE DEF rest
  <2> QED
    BY <2>1 DEF Substituted
<1>5. ASSUME NEW v, NEW w, IsValue(v), IsValue(w), HasType(v, t), ~ForgetsCount(t, from),
             Converts(v, w, from, to)
      PROVE  HasType(w, Substituted(t, from, ExactlyOne(to)))
  <2>1. /\ Len(v) \in Nat /\ Len(w) = Len(v)
        /\ \A i \in 1..Len(v) : v[i].kind \in t.kinds
    <3>1. Len(v) \in Nat /\ Len(w) = Len(v)
      BY <1>5 DEF IsValue, Converts
    <3>2. \A i \in 1..Len(v) : v[i].kind \in t.kinds
      BY <1>5, Kinds DEF HasType
    <3> QED
      BY <3>1, <3>2
  <2>2. CASE t.kinds \cap from = {}
    <3>1. \A i \in 1..Len(w) : w[i].kind \in t.kinds
      BY <1>5, <2>1, <2>2 DEF Converts
    <3>2. KindsIn(w) \subseteq t.kinds
      BY <1>5, <3>1, Kinds
    <3> QED
      BY <1>5, <2>1, <2>2, <3>2 DEF Substituted, HasType
  <2>3. CASE t.kinds \cap from # {}
    <3> DEFINE type == TypeUnion(rest, ExactlyOne(to))
    <3>1. Substituted(t, from, ExactlyOne(to)) = type
      BY <2>3 DEF Substituted
    <3>2. type.kinds = rest.kinds \cup to /\ type.min = Lower(rest.min, 1) /\ type.max = Higher(rest.max, 1)
      BY DEF TypeUnion, ExactlyOne, StaticTypeOf
    <3>6. ASSUME KindsIn(w) \subseteq type.kinds, Within(Len(w), type.min, type.max)
          PROVE  HasType(w, Substituted(t, from, ExactlyOne(to)))
      BY <3>1, <3>6 DEF HasType
    <3> HIDE DEF type
    <3>3. CASE t.kinds \subseteq from
      <4>1. rest = Cleared
        BY <1>1, <3>3 DEF Restricted
      <4>2. t.max <= 1
        BY <1>1, <1>5, <2>3, <3>3 DEF ForgetsCount, Counts
      <4>3. Len(v) <= 1
        BY <1>1, <1>5, <2>1, <4>2 DEF HasType, Within, Counts
      <4>4. \A i \in 1..Len(w) : w[i].kind \in to
        BY <1>5, <2>1, <3>3 DEF Converts
      <4>5. KindsIn(w) \subseteq to
        BY <1>5, <4>4, Kinds
      <4>6. type.kinds = to /\ type.min = 0 /\ type.max = 1
        BY <3>2, <4>1 DEF Cleared, Lower, Higher
      <4> QED
        BY <2>1, <3>6, <4>3, <4>5, <4>6 DEF Within
    <3>4. CASE ~(t.kinds \subseteq from) /\ t.max = 0
      <4>1. Len(v) = 0
        BY <1>1, <1>5, <2>1, <3>4 DEF HasType, Within
      <4>2. KindsIn(w) = {}
        BY <1>5, <2>1, <4>1, Kinds
      <4>3. rest = Cleared
        BY <3>4 DEF Restricted
      <4>4. type.min = 0 /\ type.max = 1
        BY <3>2, <4>3 DEF Cleared, Lower, Higher
      <4> QED
        BY <2>1, <3>6, <4>1, <4>2, <4>4 DEF Within
    <3>5. CASE ~(t.kinds \subseteq from) /\ t.max # 0
      <4>1. t.kinds \cap (ITEM \ from) # {}
        BY <1>1, <3>5
      <4>2. rest = [kinds |-> t.kinds \cap (ITEM \ from), min |-> t.min, max |-> t.max]
        BY <3>5, <4>1 DEF Restricted, StaticTypeOf
      <4>3. \A i \in 1..Len(w) : w[i].kind \in (t.kinds \cap (ITEM \ from)) \cup to
        BY <1>1, <1>5, <2>1 DEF Converts
      <4>4. KindsIn(w) \subseteq type.kinds
        <5> HIDE DEF rest
        <5>1. type.kinds = (t.kinds \cap (ITEM \ from)) \cup to
          BY <3>2, <4>2
        <5>2. KindsIn(w) \subseteq (t.kinds \cap (ITEM \ from)) \cup to
          BY <1>5, <4>3, Kinds
        <5> QED
          BY <5>1, <5>2
      <4>5. Within(Len(w), Lower(t.min, 1), Higher(t.max, 1))
        BY <1>1, <1>5, <2>1 DEF HasType, Within, Lower, Higher, Counts
      <4> QED
        <5> HIDE DEF rest
        <5>1. Within(Len(w), type.min, type.max)
          BY <3>2, <4>2, <4>5
        <5> QED
          BY <3>6, <4>4, <5>1
    <3> QED
      BY <3>3, <3>4, <3>5
  <2> QED
    BY <2>2, <2>3
<1> QED
  BY <1>4, <1>5


(***************************************************************************)
(* What SequenceType::matches concludes from a static type.                *)
(***************************************************************************)
LEMMA SequenceTypeBounds ==
  ASSUME NEW s \in SequenceTypes
  PROVE  /\ LeastOf(s) \in {0, 1} /\ MostOf(s) \in {0, 1, UNLIMITED}
         /\ s.kinds \in SUBSET ITEM
         /\ TypeOfSequenceType(s) \in StaticTypes
         /\ \A v : Matches(v, s) <=> HasType(v, TypeOfSequenceType(s))
<1>1. LeastOf(s) \in {0, 1} /\ MostOf(s) \in {0, 1, UNLIMITED} /\ s.kinds \in SUBSET ITEM
  BY DEF LeastOf, MostOf, SequenceTypes
<1>2. 0 \in Counts /\ 1 \in Counts /\ UNLIMITED \in Counts
  BY UnlimitedAssumption DEF Counts
<1>3. TypeOfSequenceType(s) = [kinds |-> s.kinds, min |-> LeastOf(s), max |-> MostOf(s)]
  BY DEF TypeOfSequenceType, StaticTypeOf
<1>4. TypeOfSequenceType(s) \in StaticTypes
  BY <1>1, <1>2, <1>3 DEF StaticTypes
<1>5. \A v : Matches(v, s) <=> HasType(v, TypeOfSequenceType(s))
  BY <1>3 DEF Matches, HasType
<1> QED
  BY <1>1, <1>4, <1>5

LEMMA CardinalityMatchRight ==
  ASSUME NEW s \in SequenceTypes, NEW t \in StaticTypes, NEW n \in Nat, Within(n, t.min, t.max)
  PROVE  /\ CardinalityMatch(s, t) = "ALWAYS" => Within(n, LeastOf(s), MostOf(s))
         /\ CardinalityMatch(s, t) = "NEVER" => ~Within(n, LeastOf(s), MostOf(s))
<1>1. t.min \in 0..UNLIMITED /\ t.max \in 0..UNLIMITED
  BY DEF StaticTypes, Counts
<1>2. LeastOf(s) \in {0, 1} /\ MostOf(s) \in {0, 1, UNLIMITED}
  BY SequenceTypeBounds
<1> QED
  BY <1>1, <1>2, UnlimitedAssumption DEF CardinalityMatch, Within

LEMMA ItemMatchRight ==
  ASSUME NEW s \in SequenceTypes, NEW t \in StaticTypes, NEW v, IsValue(v), HasType(v, t)
  PROVE  /\ ItemMatch(s, t) = "ALWAYS" => KindsIn(v) \subseteq s.kinds
         /\ ItemMatch(s, t) = "NEVER" => ~Matches(v, s)
<1>1. /\ t.min \in Nat /\ t.max \in Nat /\ UNLIMITED # 0
      /\ Len(v) \in Nat /\ t.min <= Len(v) /\ (t.max = UNLIMITED \/ Len(v) <= t.max)
      /\ KindsIn(v) \subseteq t.kinds /\ (KindsIn(v) = {} <=> Len(v) = 0)
  BY Kinds, UnlimitedAssumption DEF StaticTypes, Counts, HasType, Within, IsValue
<1>2. CASE s.kinds = {}
  BY <1>1, <1>2 DEF ItemMatch, Matches
<1>3. CASE s.kinds # {} /\ t.kinds \cap s.kinds = {}
  <2>1. ItemMatch(s, t) = IF LeastOf(s) > 0 \/ t.min > 0 THEN "NEVER" ELSE "PROBABLY_NOT"
    BY <1>3 DEF ItemMatch
  <2>2. LeastOf(s) \in {0, 1}
    BY SequenceTypeBounds
  <2>3. ASSUME Matches(v, s) PROVE LeastOf(s) = 0 /\ t.min = 0
    <3>1. KindsIn(v) = {}
      BY <1>1, <1>3, <2>3 DEF Matches
    <3> QED
      BY <1>1, <2>2, <2>3, <3>1 DEF Matches, Within
  <2> QED
    BY <2>1, <2>3
<1>4. CASE s.kinds # {} /\ t.kinds \cap s.kinds # {}
  BY <1>1, <1>4 DEF ItemMatch
<1> QED
  BY <1>2, <1>3, <1>4

LEMMA MatchRight ==
  ASSUME NEW s \in SequenceTypes, NEW t \in StaticTypes, NEW v, IsValue(v), HasType(v, t)
  PROVE  /\ AlwaysMatches(s, t) => Matches(v, s)
         /\ NeverMatches(s, t) => ~Matches(v, s)
<1>1. Len(v) \in Nat /\ Within(Len(v), t.min, t.max)
  BY DEF IsValue, HasType
<1>2. /\ CardinalityMatch(s, t) = "ALWAYS" => Within(Len(v), LeastOf(s), MostOf(s))
      /\ CardinalityMatch(s, t) = "NEVER" => ~Within(Len(v), LeastOf(s), MostOf(s))
  BY <1>1, CardinalityMatchRight
<1>3. /\ ItemMatch(s, t) = "ALWAYS" => KindsIn(v) \subseteq s.kinds
      /\ ItemMatch(s, t) = "NEVER" => ~Matches(v, s)
  BY ItemMatchRight
<1> QED
  BY <1>2, <1>3 DEF AlwaysMatches, NeverMatches, Matches

(***************************************************************************)
(* Parts of values.                                                        *)
(***************************************************************************)
LEMMA ListingsAre ==
  ASSUME NEW S, NEW most \in Nat, NEW f \in Listings(S, most)
  PROVE  f \in Seq(S) /\ Len(f) <= most /\ \A x \in S : \E n \in 1..Len(f) : f[n] = x
<1>1. PICK n \in 0..most : f \in [1..n -> S]
  BY DEF Listings
<1>2. n \in Nat /\ f \in Seq(S) /\ Len(f) = n
  BY <1>1
<1>3. \A x \in S : \E m \in 1..n : f[m] = x
  BY <1>1 DEF Listings, ToSet
<1> QED
  BY <1>2, <1>3

LEMMA SelectIs ==
  ASSUME NEW v, IsValue(v), NEW kept \in SUBSET DOMAIN v, NEW w \in Select(v, kept)
  PROVE  /\ IsValue(w) /\ Len(w) <= Len(v)
         /\ \A i \in 1..Len(w) : \E j \in kept : w[i] = v[j]
         /\ \A j \in kept : \E i \in 1..Len(w) : w[i] = v[j]
<1>1. Len(v) \in Nat /\ DOMAIN v = 1..Len(v) /\ \A i \in 1..Len(v) : v[i] \in AnyItem
  BY DEF IsValue
<1>2. PICK f \in Listings(kept, Len(v)) : w = [n \in DOMAIN f |-> v[f[n]]]
  BY DEF Select
<1>3. /\ f \in Seq(kept) /\ Len(f) <= Len(v)
      /\ \A x \in kept : \E n \in 1..Len(f) : f[n] = x
  BY <1>1, ListingsAre
<1>4. DOMAIN f = 1..Len(f) /\ Len(f) \in Nat /\ \A n \in 1..Len(f) : f[n] \in kept
  BY <1>3
<1>5. w \in [1..Len(f) -> AnyItem]
  BY <1>1, <1>2, <1>4
<1>6. IsValue(w) /\ Len(w) = Len(f)
  BY <1>4, <1>5 DEF IsValue
<1>7. \A n \in 1..Len(f) : w[n] = v[f[n]]
  BY <1>2, <1>4
<1> QED
  BY <1>3, <1>4, <1>6, <1>7


(***************************************************************************)
(* The inductive invariant: the expression has a static type and a value,  *)
(* and the value has the type unless a count was lost.  An operand is a    *)
(* variable, or the expression while it is reliable.                       *)
(***************************************************************************)
Conforms(type, value, reliable) ==
  /\ type \in StaticTypes /\ IsValue(value) /\ reliable \in BOOLEAN
  /\ reliable => HasType(value, type)

Inv ==
  /\ expr = Typed(expr.type, expr.value, expr.reliable)
  /\ Conforms(expr.type, expr.value, expr.reliable)

Operand(e) == e.type \in StaticTypes /\ IsValue(e.value) /\ HasType(e.value, e.type)

LEMMA BecomesConforming ==
  ASSUME NEW type, NEW value, NEW reliable,
         Becomes(type, value, reliable), Conforms(type, value, reliable)
  PROVE  Inv'
<1>1. expr' = [type |-> type, value |-> value, reliable |-> reliable]
  BY DEF Becomes, Typed
<1>2. expr'.type = type /\ expr'.value = value /\ expr'.reliable = reliable
  BY <1>1
<1>3. expr' = Typed(expr'.type, expr'.value, expr'.reliable)
  BY <1>1, <1>2 DEF Typed
<1>4. Conforms(expr'.type, expr'.value, expr'.reliable)
  BY <1>2
<1> QED
  BY <1>3, <1>4 DEF Inv, Conforms, HasType, IsValue, Within, KindsIn, Typed

LEMMA ExprOperand ==
  ASSUME Inv, expr.reliable
  PROVE  Operand(expr)
BY DEF Inv, Conforms, Operand

LEMMA ValuesAreValues == \A v \in Values : IsValue(v)
BY ItemsAssumption, BoundsAssumption DEF Values, IsValue

LEMMA VariableOperand ==
  ASSUME NEW x \in Variables
  PROVE  Operand(x) /\ x = Typed(x.type, x.value, TRUE)
<1>1. PICK s \in Declared, v \in Values : Matches(v, s) /\ x = Variable(s, v)
  BY DEF Variables
<1>2. x = [type |-> TypeOfSequenceType(s), value |-> v, reliable |-> TRUE]
  BY <1>1 DEF Variable, Typed
<1>3. s \in SequenceTypes
  BY DeclaredAssumption
<1>4. TypeOfSequenceType(s) \in StaticTypes /\ HasType(v, TypeOfSequenceType(s))
  BY <1>1, <1>3, SequenceTypeBounds
<1>5. IsValue(v)
  BY ValuesAreValues
<1>6. x.type = TypeOfSequenceType(s) /\ x.value = v /\ x = Typed(x.type, x.value, TRUE)
  BY <1>2 DEF Typed
<1> QED
  BY <1>4, <1>5, <1>6 DEF Operand

(***************************************************************************)
(* Operators of two operands.                                              *)
(***************************************************************************)
LEMMA SequenceConforms ==
  ASSUME NEW left, NEW right, Operand(left), Operand(right), Sequence(left, right)
  PROVE  Inv'
<1>1. TypeConcat(left.type, right.type) \in StaticTypes
  BY ConcatSound DEF Operand
<1>2. IsValue(left.value \o right.value)
  BY DEF Operand, IsValue
<1>3. ConcatFits(left.type, right.type) \in BOOLEAN
  BY DEF ConcatFits
<1>4. ConcatFits(left.type, right.type)
        => HasType(left.value \o right.value, TypeConcat(left.type, right.type))
  BY ConcatSound DEF Operand
<1>5. Conforms(TypeConcat(left.type, right.type), left.value \o right.value,
               ConcatFits(left.type, right.type))
  BY <1>1, <1>2, <1>3, <1>4 DEF Conforms
<1> QED
  BY <1>5, BecomesConforming DEF Sequence

LEMMA IfConforms ==
  ASSUME NEW left, NEW right, Operand(left), Operand(right), If(left, right)
  PROVE  Inv'
<1>1. PICK v \in {left.value, right.value} : Becomes(TypeUnion(left.type, right.type), v, TRUE)
  BY DEF If
<1>2. TypeUnion(left.type, right.type) \in StaticTypes
  BY UnionSound DEF Operand
<1>3. IsValue(v) /\ HasType(v, TypeUnion(left.type, right.type))
  BY UnionSound DEF Operand
<1>4. Conforms(TypeUnion(left.type, right.type), v, TRUE)
  BY <1>2, <1>3 DEF Conforms
<1> QED
  BY <1>1, <1>4, BecomesConforming


LEMMA ModRange == \A a \in Nat, b \in Nat \ {0} : a % b \in 0..(b - 1)
OBVIOUS

LEMMA RepeatedIs ==
  ASSUME NEW v, IsValue(v), NEW n \in Nat
  PROVE  /\ IsValue(Repeated(v, n)) /\ Len(Repeated(v, n)) = n * Len(v)
         /\ KindsIn(Repeated(v, n)) \subseteq KindsIn(v)
<1> DEFINE L == Len(v)
           w == Repeated(v, n)
<1>1. L \in Nat /\ n * L \in Nat /\ (n * L = 0 <=> n = 0 \/ L = 0)
  BY ProductNat DEF IsValue
<1>2. ASSUME NEW i \in 1..(n * L)
      PROVE  ((i - 1) % L) + 1 \in 1..L
  <2> HIDE DEF L
  <2>1. L \in Nat \ {0} /\ i - 1 \in Nat
    BY <1>1
  <2>2. (i - 1) % L \in 0..(L - 1)
    BY <2>1, ModRange
  <2> QED
    BY <2>1, <2>2
<1>3. \A i \in 1..L : v[i] \in AnyItem
  BY DEF IsValue
<1>4. w = [i \in 1..(n * L) |-> v[((i - 1) % L) + 1]]
  BY DEF Repeated
<1> HIDE DEF w, L
<1>5. w \in [1..(n * L) -> AnyItem]
  BY <1>2, <1>3, <1>4
<1>6. IsValue(w) /\ Len(w) = n * L
  BY <1>1, <1>5 DEF IsValue
<1>7. \A i \in 1..L : v[i].kind \in KindsIn(v)
  BY DEF KindsIn, L, IsValue
<1>8. \A i \in 1..Len(w) : w[i].kind \in KindsIn(v)
  BY <1>2, <1>4, <1>6, <1>7
<1>9. KindsIn(w) \subseteq KindsIn(v)
  BY <1>6, <1>8, Kinds
<1> QED
  BY <1>6, <1>9 DEF w, L

(* A body that is evaluated n times.                                       *)
LEMMA RepeatedConforms ==
  ASSUME NEW t \in StaticTypes, NEW v, IsValue(v), HasType(v, t),
         NEW min \in Counts, NEW max \in Counts, NEW n \in Nat, Within(n, min, max)
  PROVE  Conforms(Multiplied(t, min, max), Repeated(v, n), ProductFits(t, min, max))
<1> DEFINE w == Repeated(v, n)
<1>1. /\ t.min \in Nat /\ t.max \in Nat /\ min \in Nat /\ max \in Nat /\ Len(v) \in Nat
  BY UnlimitedAssumption DEF StaticTypes, Counts, IsValue
<1>2. IsValue(w) /\ Len(w) = n * Len(v) /\ KindsIn(w) \subseteq t.kinds
  BY RepeatedIs DEF HasType
<1>3. Multiplied(t, min, max) \in StaticTypes
  BY MultipliedSound
<1> HIDE DEF w
<1>4. t.min * min <= Len(w)
  <2>1. t.min <= Len(v) /\ min <= n
    BY DEF HasType, Within
  <2>2. t.min * min <= Len(v) * n
    BY <1>1, <2>1, ProductMonotone
  <2>3. Len(v) * n = n * Len(v)
    BY <1>1
  <2> QED
    BY <1>2, <2>2, <2>3
<1>5. UNLIMITED \in {t.max, max} \/ Len(w) <= t.max * max
  <2>1. CASE UNLIMITED \notin {t.max, max}
    <3>1. Len(v) <= t.max /\ n <= max
      BY <2>1 DEF HasType, Within
    <3>2. Len(v) * n <= t.max * max
      BY <1>1, <3>1, ProductMonotone
    <3>3. Len(v) * n = n * Len(v)
      BY <1>1
    <3> QED
      BY <1>2, <3>2, <3>3
  <2> QED
    BY <2>1
<1>6. ProductFits(t, min, max) => HasType(w, Multiplied(t, min, max))
  BY <1>2, <1>4, <1>5, MultipliedSound
<1>7. ProductFits(t, min, max) \in BOOLEAN
  BY DEF ProductFits
<1> QED
  BY <1>2, <1>3, <1>6, <1>7 DEF Conforms, w

LEMMA TuplesAre ==
  ASSUME NEW t \in StaticTypes, NEW n \in Nat, Within(n, t.min, t.max)
  PROVE  TuplesOf(t) \in Counts /\ TuplesOf(t) # 0 /\ Within(n, t.min, TuplesOf(t))
BY UnlimitedAssumption DEF TuplesOf, StaticTypes, Counts, Within

LEMMA ReturnConforms ==
  ASSUME NEW for, NEW body, Operand(for), Operand(body), Return(for, body)
  PROVE  Inv'
<1>1. /\ for.type \in StaticTypes /\ for.type.min \in Counts /\ Len(for.value) \in Nat
      /\ Within(Len(for.value), for.type.min, for.type.max)
  BY DEF Operand, IsValue, HasType, StaticTypes
<1>2. TuplesOf(for.type) \in Counts /\ Within(Len(for.value), for.type.min, TuplesOf(for.type))
  BY <1>1, TuplesAre
<1>3. Conforms(Multiplied(body.type, for.type.min, TuplesOf(for.type)),
               Repeated(body.value, Len(for.value)),
               ProductFits(body.type, for.type.min, TuplesOf(for.type)))
  BY <1>1, <1>2, RepeatedConforms DEF Operand
<1> QED
  BY <1>3, BecomesConforming DEF Return

LEMMA MapConforms ==
  ASSUME NEW input, NEW body, Operand(input), Operand(body), Map(input, body)
  PROVE  Inv'
<1>1. /\ input.type.min \in Counts /\ input.type.max \in Counts /\ Len(input.value) \in Nat
      /\ Within(Len(input.value), input.type.min, input.type.max)
  BY DEF Operand, IsValue, HasType, StaticTypes
<1>2. Conforms(Multiplied(body.type, input.type.min, input.type.max),
               Repeated(body.value, Len(input.value)),
               ProductFits(body.type, input.type.min, input.type.max))
  BY <1>1, RepeatedConforms DEF Operand
<1> QED
  BY <1>2, BecomesConforming DEF Map


(***************************************************************************)
(* Set operators.                                                          *)
(***************************************************************************)
LEMMA UnionConforms ==
  ASSUME NEW left, NEW right, Operand(left), Operand(right), Union(left, right)
  PROVE  Inv'
<1> DEFINE t == TypeConcat(left.type, right.type)
           min == Lower(left.type.min, right.type.min)
           v == left.value \o right.value
           fits == ConcatFits(left.type, right.type)
<1>1. t \in StaticTypes /\ (fits => HasType(v, t))
  BY ConcatSound DEF Operand
<1>2. IsValue(v) /\ fits \in BOOLEAN /\ Len(v) = Len(left.value) + Len(right.value)
  BY DEF Operand, IsValue, ConcatFits
<1>3. min \in Counts /\ min <= Len(v)
  <2>1. /\ left.type.min \in Nat /\ right.type.min \in Nat
        /\ left.type.min \in Counts /\ right.type.min \in Counts
        /\ left.type.min <= Len(left.value) /\ right.type.min <= Len(right.value)
        /\ Len(left.value) \in Nat /\ Len(right.value) \in Nat
    BY UnlimitedAssumption DEF Operand, IsValue, HasType, Within, StaticTypes, Counts
  <2>2. min \in Counts
    BY <2>1 DEF Lower
  <2>3. \A a, b, p, q \in Nat : a <= p => Lower(a, b) <= p + q
    BY DEF Lower
  <2>4. min <= Len(left.value) + Len(right.value)
    BY <2>1, <2>3
  <2> QED
    BY <1>2, <2>2, <2>4
<1>4. Becomes(WithCardinality(t, min, t.max), v, fits)
  BY DEF Union
<1> HIDE DEF t, v, min, fits
<1>5. t.max \in Counts
  BY <1>1 DEF StaticTypes
<1>6. WithCardinality(t, min, t.max) \in StaticTypes
  BY <1>1, <1>3, <1>5, WithCardinalitySound
<1>7. ASSUME fits PROVE HasType(v, WithCardinality(t, min, t.max))
  <2>1. KindsIn(v) \subseteq t.kinds /\ Within(Len(v), min, t.max)
    BY <1>1, <1>3, <1>7 DEF HasType, Within
  <2> QED
    BY <1>1, <1>2, <1>3, <1>5, <2>1, WithCardinalitySound
<1>8. Conforms(WithCardinality(t, min, t.max), v, fits)
  BY <1>2, <1>6, <1>7 DEF Conforms
<1> QED
  BY <1>4, <1>8, BecomesConforming

LEMMA Injective ==
  ASSUME NEW m \in Nat, NEW n \in Nat, NEW f \in [1..m -> 1..n],
         \A i, j \in 1..m : f[i] = f[j] => i = j
  PROVE  m <= n
<1>1. f \in Injection(1..m, 1..n)
  BY DEF Injection, IsInjective
<1>2. IsFiniteSet(1..n) /\ Cardinality(1..n) = n /\ Cardinality(1..m) = m
  BY FS_Interval
<1>3. Cardinality(1..m) <= Cardinality(1..n)
  BY <1>1, <1>2, FS_Injection
<1> QED
  BY <1>2, <1>3

(* Some of the items a type admits.                                        *)
LEMMA PartSound ==
  ASSUME NEW t \in StaticTypes
  PROVE  /\ Multiplied(t, 0, 1) \in StaticTypes
         /\ \A v : IsValue(v) /\ KindsIn(v) \subseteq t.kinds /\ (t.max = UNLIMITED \/ Len(v) <= t.max)
                     => HasType(v, Multiplied(t, 0, 1))
<1>1. t.min \in Nat /\ t.max \in Nat /\ t.max <= UNLIMITED /\ 0 \in Counts /\ 1 \in Counts
  BY UnlimitedAssumption DEF StaticTypes, Counts
<1>2. t.min * 0 = 0 /\ t.max * 1 = t.max
  BY <1>1
<1>3. ProductFits(t, 0, 1)
  BY <1>1, <1>2, UnlimitedAssumption DEF ProductFits, Fits
<1>4. Multiplied(t, 0, 1) \in StaticTypes
  BY <1>1, MultipliedSound
<1>5. ASSUME NEW v, IsValue(v), KindsIn(v) \subseteq t.kinds, t.max = UNLIMITED \/ Len(v) <= t.max
      PROVE  HasType(v, Multiplied(t, 0, 1))
  <2>1. t.min * 0 <= Len(v) /\ (UNLIMITED \in {t.max, 1} \/ Len(v) <= t.max * 1)
    BY <1>2, <1>5 DEF IsValue
  <2> QED
    BY <1>1, <1>3, <1>5, <2>1, MultipliedSound
<1> QED
  BY <1>4, <1>5

LEMMA IntersectConforms ==
  ASSUME NEW left, NEW right, Operand(left), Operand(right), Intersect(left, right)
  PROVE  Inv'
<1> DEFINE l == left.value
           r == right.value
           t == TypeIntersect(left.type, right.type)
           once == NoDuplicates(l) /\ NoDuplicates(r)
<1>1. /\ IsValue(l) /\ IsValue(r) /\ l \in Seq(AnyItem) /\ r \in Seq(AnyItem)
      /\ Len(l) \in Nat /\ Len(r) \in Nat /\ Len(l) * Len(r) \in Nat
  <2>1. IsValue(l) /\ IsValue(r)
    BY DEF Operand
  <2>2. l \in Seq(AnyItem) /\ r \in Seq(AnyItem)
    BY <2>1 DEF IsValue
  <2> HIDE DEF l, r
  <2>3. Len(l) \in Nat /\ Len(r) \in Nat
    BY <2>2
  <2> QED
    BY <2>1, <2>2, <2>3, ProductNat
<1>2. PICK f \in Listings(Found(l, r), Len(l) * Len(r)) :
             InLoopOrder(f) /\ Becomes(Multiplied(t, 0, 1), [n \in DOMAIN f |-> l[f[n][1]]], once)
  BY DEF Intersect
<1> DEFINE w == [n \in DOMAIN f |-> l[f[n][1]]]
<1>3. f \in Seq(Found(l, r))
  BY <1>1, ListingsAre
<1>4. DOMAIN f = 1..Len(f) /\ Len(f) \in Nat /\ \A n \in 1..Len(f) : f[n] \in Found(l, r)
  BY <1>3
<1>5. \A n \in 1..Len(f) : /\ f[n] = <<f[n][1], f[n][2]>>
                           /\ f[n][1] \in 1..Len(l) /\ f[n][2] \in 1..Len(r)
                           /\ l[f[n][1]] = r[f[n][2]]
  BY <1>1, <1>4 DEF Found
<1>6. w \in [1..Len(f) -> AnyItem]
  BY <1>1, <1>4, <1>5
<1>7. IsValue(w) /\ Len(w) = Len(f)
  BY <1>4, <1>6 DEF IsValue
<1>8. once \in BOOLEAN
  BY DEF NoDuplicates
<1>9. left.type \in StaticTypes /\ right.type \in StaticTypes
  BY DEF Operand
<1>10. t \in StaticTypes
  BY <1>9, IntersectSound
<1>11. ASSUME once PROVE Len(f) <= Len(l) /\ Len(f) <= Len(r)
  <2>1. ASSUME NEW m \in 1..Len(f), NEW n \in 1..Len(f), f[m][1] = f[n][1] \/ f[m][2] = f[n][2]
        PROVE  m = n
    <3>1. l[f[m][1]] = l[f[n][1]] /\ r[f[m][2]] = r[f[n][2]]
      BY <1>5, <2>1
    <3>2. f[m][1] = f[n][1] /\ f[m][2] = f[n][2]
      <4> HIDE DEF l, r
      <4>0. DOMAIN l = 1..Len(l) /\ DOMAIN r = 1..Len(r)
        BY <1>1
      <4>1. /\ \A i, j \in 1..Len(l) : l[i] = l[j] => i = j
            /\ \A i, j \in 1..Len(r) : r[i] = r[j] => i = j
        BY ONLY once, <4>0 DEF NoDuplicates
      <4>2. /\ f[m][1] \in 1..Len(l) /\ f[n][1] \in 1..Len(l)
            /\ f[m][2] \in 1..Len(r) /\ f[n][2] \in 1..Len(r)
        BY <1>5
      <4> QED
        BY <3>1, <4>1, <4>2
    <3>3. f[m][1] \in Nat /\ f[m][2] \in Nat
      BY <1>1, <1>5
    <3>4. ~(m < n) /\ ~(n < m)
      BY <1>2, <1>4, <3>2, <3>3 DEF InLoopOrder
    <3> QED
      BY <1>4, <3>4
  <2> DEFINE g == [n \in 1..Len(f) |-> f[n][1]]
             h == [n \in 1..Len(f) |-> f[n][2]]
  <2>2. g \in [1..Len(f) -> 1..Len(l)] /\ h \in [1..Len(f) -> 1..Len(r)]
    BY <1>5
  <2>3. /\ \A m, n \in 1..Len(f) : g[m] = g[n] => m = n
        /\ \A m, n \in 1..Len(f) : h[m] = h[n] => m = n
    BY <2>1
  <2> HIDE DEF g, h
  <2>4. Len(f) <= Len(l)
    BY <1>1, <1>4, <2>2, <2>3, Injective
  <2>5. Len(f) <= Len(r)
    BY <1>1, <1>4, <2>2, <2>3, Injective
  <2> QED
    BY <2>4, <2>5
<1>12. KindsIn(w) \subseteq left.type.kinds /\ KindsIn(w) \subseteq right.type.kinds
  <2>1. /\ \A i \in 1..Len(l) : l[i].kind \in left.type.kinds
        /\ \A i \in 1..Len(r) : r[i].kind \in right.type.kinds
    BY Kinds DEF Operand, HasType
  <2>2. \A n \in 1..Len(w) : w[n].kind \in left.type.kinds /\ w[n].kind \in right.type.kinds
    BY <1>4, <1>5, <1>7, <2>1
  <2> HIDE DEF w
  <2> QED
    BY <1>7, <2>2, Kinds
<1> HIDE DEF w
<1>13. ASSUME once PROVE HasType(w, Multiplied(t, 0, 1))
  <2> DEFINE lt == StaticTypeOf(left.type.kinds, 0, left.type.max)
             rt == StaticTypeOf(right.type.kinds, 0, right.type.max)
  <2>1. lt \in StaticTypes /\ rt \in StaticTypes
    BY <1>9, UnlimitedAssumption DEF StaticTypes, StaticTypeOf, Counts
  <2>2. left.type.max = UNLIMITED \/ Len(w) <= left.type.max
    <3>1. left.type.max \in Nat /\ (left.type.max = UNLIMITED \/ Len(l) <= left.type.max)
      BY <1>9, UnlimitedAssumption DEF Operand, HasType, Within, StaticTypes, Counts
    <3> QED
      BY <1>1, <1>4, <1>7, <1>11, <1>13, <3>1
  <2>3. right.type.max = UNLIMITED \/ Len(w) <= right.type.max
    <3>1. right.type.max \in Nat /\ (right.type.max = UNLIMITED \/ Len(r) <= right.type.max)
      BY <1>9, UnlimitedAssumption DEF Operand, HasType, Within, StaticTypes, Counts
    <3> QED
      BY <1>1, <1>4, <1>7, <1>11, <1>13, <3>1
  <2>4. HasType(w, lt) /\ HasType(w, rt)
    BY <1>4, <1>7, <1>12, <2>2, <2>3 DEF HasType, Within, StaticTypeOf
  <2>5. TypeIntersect(lt, rt).kinds = t.kinds /\ TypeIntersect(lt, rt).max = t.max
    BY DEF TypeIntersect, Restricted, StaticTypeOf, Cleared
  <2> HIDE DEF lt, rt, t
  <2>6. HasType(w, TypeIntersect(lt, rt))
    BY <1>7, <2>1, <2>4, IntersectSound
  <2>7. KindsIn(w) \subseteq t.kinds /\ (t.max = UNLIMITED \/ Len(w) <= t.max)
    BY <2>5, <2>6 DEF HasType, Within
  <2> QED
    BY <1>7, <1>10, <2>7, PartSound
<1> HIDE DEF t, once
<1>14. Multiplied(t, 0, 1) \in StaticTypes
  BY <1>10, PartSound
<1>15. Conforms(Multiplied(t, 0, 1), w, once)
  BY <1>7, <1>8, <1>13, <1>14 DEF Conforms
<1>16. Becomes(Multiplied(t, 0, 1), w, once)
  BY <1>2 DEF w
<1> QED
  BY <1>15, <1>16, BecomesConforming


(* At least as many items are left as the left operand has more than the   *)
(* right one.                                                              *)
LEMMA ExceptLeaves ==
  ASSUME NEW l, NEW r, IsValue(l), IsValue(r), NoDuplicates(l), NEW v \in Select(l, NotFound(l, r))
  PROVE  Len(l) <= Len(v) + Len(r)
<1> DEFINE left == NotFound(l, r)
           g == [i \in 1..Len(l) |->
                   IF i \in left THEN CHOOSE n \in 1..Len(v) : v[n] = l[i]
                   ELSE Len(v) + (CHOOSE n \in 1..Len(r) : r[n] = l[i])]
<1>1. /\ Len(l) \in Nat /\ Len(r) \in Nat /\ DOMAIN l = 1..Len(l) /\ DOMAIN r = 1..Len(r)
      /\ left \in SUBSET DOMAIN l
  BY DEF IsValue, NotFound
<1>2. Len(v) \in Nat /\ \A j \in left : \E i \in 1..Len(v) : v[i] = l[j]
  BY <1>1, SelectIs DEF IsValue
<1>3. \A i \in 1..Len(l) : i \notin left => \E n \in 1..Len(r) : r[n] = l[i]
  BY <1>1 DEF NotFound, ToSet
<1> HIDE DEF left
<1>4. ASSUME NEW i \in 1..Len(l)
      PROVE  \/ g[i] \in 1..Len(v) /\ i \in left /\ v[g[i]] = l[i]
             \/ g[i] - Len(v) \in 1..Len(r) /\ i \notin left /\ r[g[i] - Len(v)] = l[i]
  <2>1. CASE i \in left
    <3>1. PICK at \in 1..Len(v) : v[at] = l[i]
      BY <1>2, <2>1
    <3>2. g[i] = CHOOSE n \in 1..Len(v) : v[n] = l[i]
      BY <2>1
    <3> QED
      BY <2>1, <3>1, <3>2
  <2>2. CASE i \notin left
    <3> DEFINE m == CHOOSE n \in 1..Len(r) : r[n] = l[i]
    <3>1. PICK n \in 1..Len(r) : r[n] = l[i]
      BY <1>3, <2>2
    <3>2. m \in 1..Len(r) /\ r[m] = l[i]
      BY <3>1
    <3>3. g[i] = Len(v) + m
      BY <2>2
    <3> HIDE DEF m, g
    <3>4. g[i] - Len(v) = m
      BY <1>1, <1>2, <3>2, <3>3
    <3> QED
      BY <2>2, <3>2, <3>4
  <2> QED
    BY <2>1, <2>2
<1>5. DOMAIN g = 1..Len(l) /\ g = [i \in 1..Len(l) |-> g[i]]
  OBVIOUS
<1>6. \A i \in 1..Len(l) : g[i] \in Int
  <2>1. ASSUME NEW i \in 1..Len(l), i \notin left PROVE g[i] \in Int
    <3> DEFINE m == CHOOSE n \in 1..Len(r) : r[n] = l[i]
    <3>1. m \in 1..Len(r)
      BY <1>3, <2>1
    <3>2. g[i] = Len(v) + m
      BY <2>1
    <3> HIDE DEF m, g
    <3> QED
      BY <1>1, <1>2, <3>1, <3>2
  <2> HIDE DEF g
  <2> QED
    BY <1>2, <1>4, <2>1
<1> HIDE DEF g
<1>7. \A i \in 1..Len(l) : g[i] \in 1..(Len(v) + Len(r))
  BY <1>1, <1>2, <1>4, <1>6
<1>8. g \in [1..Len(l) -> 1..(Len(v) + Len(r))]
  BY <1>5, <1>7
<1>9. ASSUME NEW i \in 1..Len(l), NEW j \in 1..Len(l), g[i] = g[j] PROVE i = j
  <2>1. l[i] = l[j]
    BY <1>1, <1>2, <1>4, <1>6, <1>9
  <2> QED
    BY <1>1, <2>1 DEF NoDuplicates
<1>10. Len(v) + Len(r) \in Nat
  BY <1>1, <1>2
<1> QED
  BY <1>1, <1>8, <1>9, <1>10, Injective

LEMMA ExceptConforms ==
  ASSUME NEW left, NEW right, Operand(left), Operand(right), Except(left, right)
  PROVE  Inv'
<1> DEFINE l == left.value
           r == right.value
           min == IF left.type.min > right.type.max THEN left.type.min - right.type.max ELSE 0
<1>1. PICK v \in Select(l, NotFound(l, r)) :
             Becomes(WithCardinality(left.type, min, left.type.max), v, NoDuplicates(l))
  BY DEF Except
<1>2. /\ IsValue(l) /\ IsValue(r) /\ left.type \in StaticTypes
      /\ HasType(l, left.type) /\ HasType(r, right.type)
  BY DEF Operand
<1>3. /\ left.type.min \in Nat /\ left.type.max \in Nat /\ right.type.max \in Nat
      /\ left.type.min <= UNLIMITED /\ left.type.max \in Counts
      /\ KindsIn(l) \subseteq left.type.kinds
      /\ left.type.min <= Len(l) /\ (left.type.max = UNLIMITED \/ Len(l) <= left.type.max)
      /\ right.type.max = UNLIMITED \/ Len(r) <= right.type.max
      /\ Len(l) \in Nat /\ Len(r) \in Nat
  BY UnlimitedAssumption DEF Operand, HasType, Within, StaticTypes, Counts, IsValue
<1>4. NotFound(l, r) \in SUBSET DOMAIN l
  BY DEF NotFound
<1>5. /\ IsValue(v) /\ Len(v) <= Len(l)
      /\ \A i \in 1..Len(v) : \E j \in NotFound(l, r) : v[i] = l[j]
  BY <1>2, <1>4, SelectIs
<1>6. \A i \in 1..Len(v) : v[i].kind \in left.type.kinds
  BY <1>3, <1>4, <1>5 DEF KindsIn
<1>7. KindsIn(v) \subseteq left.type.kinds
  BY <1>5, <1>6, Kinds
<1>8. min \in Counts
  BY <1>3, UnlimitedAssumption DEF Counts
<1>9. ASSUME NoDuplicates(l) PROVE Within(Len(v), min, left.type.max)
  <2>1. Len(l) <= Len(v) + Len(r) /\ Len(v) \in Nat
    BY <1>1, <1>2, <1>5, <1>9, ExceptLeaves DEF IsValue
  <2> QED
    BY <1>3, <1>5, <2>1 DEF Within
<1> HIDE DEF min
<1>10. Conforms(WithCardinality(left.type, min, left.type.max), v, NoDuplicates(l))
  <2>1. NoDuplicates(l) \in BOOLEAN
    BY DEF NoDuplicates
  <2>2. WithCardinality(left.type, min, left.type.max) \in StaticTypes
    BY <1>2, <1>3, <1>8, WithCardinalitySound
  <2>3. NoDuplicates(l) => HasType(v, WithCardinality(left.type, min, left.type.max))
    BY <1>2, <1>3, <1>5, <1>7, <1>8, <1>9, WithCardinalitySound
  <2> QED
    BY <1>5, <2>1, <2>2, <2>3 DEF Conforms
<1> QED
  BY <1>1, <1>10, BecomesConforming


(***************************************************************************)
(* Iterations, predicates and steps.                                       *)
(***************************************************************************)
LEMMA OperandIs ==
  ASSUME NEW e, Operand(e)
  PROVE  /\ IsValue(e.value) /\ Len(e.value) \in Nat /\ DOMAIN e.value = 1..Len(e.value)
         /\ e.type \in StaticTypes /\ HasType(e.value, e.type)
         /\ e.type.min \in Nat /\ e.type.max \in Nat /\ e.type.min \in Counts /\ e.type.max \in Counts
         /\ e.type.min <= Len(e.value) /\ (e.type.max = UNLIMITED \/ Len(e.value) <= e.type.max)
         /\ KindsIn(e.value) \subseteq e.type.kinds
         /\ e.type.kinds \in SUBSET ITEM
BY UnlimitedAssumption DEF Operand, IsValue, HasType, Within, StaticTypes, Counts

LEMMA Numbers == 0 \in Counts /\ 1 \in Counts /\ UNLIMITED \in Counts /\ UNLIMITED \in Nat /\ UNLIMITED > 1
BY UnlimitedAssumption DEF Counts

(* Each item of a value, when each has a type t of exactly one item.       *)
LEMMA EachSound ==
  ASSUME NEW t \in StaticTypes, t.min = 1, t.max = 1,
         NEW v, IsValue(v), KindsIn(v) \subseteq t.kinds,
         NEW min \in Counts, NEW max \in Counts, Within(Len(v), min, max)
  PROVE  HasType(v, Multiplied(t, min, max))
<1>1. min \in Nat /\ max \in Nat /\ min <= UNLIMITED /\ max <= UNLIMITED
  BY UnlimitedAssumption DEF Counts
<1>2. t.min * min = min /\ t.max * max = max
  BY <1>1
<1>3. ProductFits(t, min, max)
  BY <1>1, <1>2 DEF ProductFits, Fits
<1>4. t.min * min <= Len(v) /\ (UNLIMITED \in {t.max, max} \/ Len(v) <= t.max * max)
  BY <1>1, <1>2 DEF Within
<1> QED
  BY <1>3, <1>4, MultipliedSound

LEMMA ReturnVariableConforms ==
  ASSUME Inv, ReturnVariable
  PROVE  Inv'
<1> DEFINE t == expr.type
           v == expr.value
           each == WithCardinality(t, 1, 1)
<1>1. Operand(expr) /\ Becomes(Multiplied(each, t.min, TuplesOf(t)), v, TRUE)
  BY ExprOperand DEF ReturnVariable, Becomes
<1>2. /\ IsValue(v) /\ Len(v) \in Nat /\ t \in StaticTypes /\ t.min \in Counts
      /\ Within(Len(v), t.min, t.max) /\ KindsIn(v) \subseteq t.kinds
  BY <1>1, OperandIs DEF HasType
<1> HIDE DEF t, v
<1>3. each \in StaticTypes /\ each.min = 1 /\ each.max = 1 /\ t.kinds \subseteq each.kinds
  <2>1. each \in StaticTypes
    BY <1>2, Numbers, WithCardinalitySound
  <2>2. each = [kinds |-> IF t.kinds = {} THEN ITEM ELSE t.kinds, min |-> 1, max |-> 1]
    BY DEF WithCardinality, StaticTypeOf
  <2> QED
    BY <2>1, <2>2
<1> HIDE DEF each
<1>4. TuplesOf(t) \in Counts /\ Within(Len(v), t.min, TuplesOf(t))
  BY <1>2, TuplesAre
<1>5. KindsIn(v) \subseteq each.kinds
  BY <1>2, <1>3
<1>6. Multiplied(each, t.min, TuplesOf(t)) \in StaticTypes
  BY <1>2, <1>3, <1>4, MultipliedSound
<1>7. HasType(v, Multiplied(each, t.min, TuplesOf(t)))
  BY <1>2, <1>3, <1>4, <1>5, EachSound
<1>8. Conforms(Multiplied(each, t.min, TuplesOf(t)), v, TRUE)
  BY <1>2, <1>6, <1>7 DEF Conforms
<1> QED
  BY <1>1, <1>8, BecomesConforming

LEMMA PredicateConforms ==
  ASSUME Inv, Predicate
  PROVE  Inv'
<1> DEFINE t == expr.type
<1>1. PICK kept \in SUBSET DOMAIN expr.value : \E v \in Select(expr.value, kept) :
             Becomes(Multiplied(t, 0, 1), v, TRUE)
  BY DEF Predicate
<1>2. PICK v \in Select(expr.value, kept) : Becomes(Multiplied(t, 0, 1), v, TRUE)
  BY <1>1
<1>3. Operand(expr)
  BY <1>2, ExprOperand DEF Becomes
<1>4. /\ IsValue(expr.value) /\ Len(expr.value) \in Nat /\ t \in StaticTypes
      /\ t.max \in Nat /\ (t.max = UNLIMITED \/ Len(expr.value) <= t.max)
      /\ DOMAIN expr.value = 1..Len(expr.value) /\ KindsIn(expr.value) \subseteq t.kinds
  BY <1>3, OperandIs
<1>5. /\ IsValue(v) /\ Len(v) <= Len(expr.value)
      /\ \A i \in 1..Len(v) : \E j \in kept : v[i] = expr.value[j]
  BY <1>4, SelectIs
<1> HIDE DEF t
<1>6. \A i \in 1..Len(v) : v[i].kind \in t.kinds
  BY <1>4, <1>5 DEF KindsIn
<1>7. KindsIn(v) \subseteq t.kinds
  BY <1>5, <1>6, Kinds
<1>8. t.max = UNLIMITED \/ Len(v) <= t.max
  BY <1>4, <1>5 DEF IsValue
<1>9. Multiplied(t, 0, 1) \in StaticTypes /\ HasType(v, Multiplied(t, 0, 1))
  BY <1>4, <1>5, <1>7, <1>8, PartSound
<1>10. Conforms(Multiplied(t, 0, 1), v, TRUE)
  BY <1>5, <1>9 DEF Conforms
<1> QED
  BY <1>2, <1>10, BecomesConforming


LEMMA ListsAll ==
  ASSUME NEW S, NEW f, NEW k \in Nat, \A x \in S : \E m \in 1..k : f[m] = x,
         NEW n \in Nat, NEW h \in [1..n -> S], \A i, j \in 1..n : h[i] = h[j] => i = j
  PROVE  n <= k
<1> DEFINE g == [i \in 1..n |-> CHOOSE m \in 1..k : f[m] = h[i]]
<1>1. ASSUME NEW i \in 1..n PROVE g[i] \in 1..k /\ f[g[i]] = h[i]
  <2>1. PICK at \in 1..k : f[at] = h[i]
    OBVIOUS
  <2>2. g[i] = CHOOSE m \in 1..k : f[m] = h[i]
    OBVIOUS
  <2> QED
    BY <2>1, <2>2
<1>2. g \in [1..n -> 1..k]
  <2>1. g = [i \in 1..n |-> g[i]]
    OBVIOUS
  <2> HIDE DEF g
  <2> QED
    BY <1>1, <2>1
<1> HIDE DEF g
<1>3. ASSUME NEW i \in 1..n, NEW j \in 1..n, g[i] = g[j] PROVE i = j
  <2>1. f[g[i]] = h[i] /\ f[g[j]] = h[j]
    BY <1>1
  <2>2. h[i] = h[j]
    BY <1>3, <2>1
  <2> QED
    BY <2>2
<1> QED
  BY ONLY n \in Nat, k \in Nat, <1>2, <1>3, Injective

LEMMA SelectLists ==
  ASSUME NEW v, IsValue(v), NEW kept \in SUBSET DOMAIN v, NEW w \in Select(v, kept),
         NEW n \in Nat, NEW h \in [1..n -> kept], \A i, j \in 1..n : h[i] = h[j] => i = j
  PROVE  n <= Len(w)
<1>1. Len(v) \in Nat
  BY DEF IsValue
<1>2. PICK f \in Listings(kept, Len(v)) : w = [m \in DOMAIN f |-> v[f[m]]]
  BY DEF Select
<1>3. f \in Seq(kept) /\ \A x \in kept : \E m \in 1..Len(f) : f[m] = x
  BY <1>1, ListingsAre
<1>4. DOMAIN f = 1..Len(f) /\ Len(f) \in Nat
  BY <1>3
<1>5. Len(w) = Len(f)
  BY <1>2, <1>4
<1>6. n <= Len(f)
  <2> DEFINE k == Len(f)
  <2>1. k \in Nat /\ \A x \in kept : \E m \in 1..k : f[m] = x
    BY <1>3, <1>4
  <2> HIDE DEF k
  <2>2. n <= k
    BY <2>1, ListsAll
  <2> QED
    BY <2>2 DEF k
<1> QED
  BY <1>5, <1>6

LEMMA SelectAll ==
  ASSUME NEW v, IsValue(v), NEW w \in Select(v, DOMAIN v)
  PROVE  Len(w) = Len(v)
<1> DEFINE h == [i \in 1..Len(v) |-> i]
<1>1. Len(v) \in Nat /\ DOMAIN v = 1..Len(v)
  BY DEF IsValue
<1>2. h \in [1..Len(v) -> DOMAIN v] /\ \A i, j \in 1..Len(v) : h[i] = h[j] => i = j
  BY <1>1
<1> HIDE DEF h
<1>3. Len(v) <= Len(w)
  BY ONLY IsValue(v), w \in Select(v, DOMAIN v), Len(v) \in Nat, <1>1, <1>2, SelectLists
<1>4. Len(w) <= Len(v) /\ Len(w) \in Nat
  BY SelectIs DEF IsValue
<1> QED
  BY <1>1, <1>3, <1>4

LEMMA SelfStepConforms ==
  ASSUME Inv, NEW test \in NodeTests, NEW exact \in BOOLEAN, SelfStep(test, exact)
  PROVE  Inv'
<1> DEFINE t == expr.type
           context == WithCardinality(t, 1, 1)
           step == StepType("self", test, context)
           all(kept) == kept = DOMAIN expr.value
<1>1. PICK kept \in SUBSET DOMAIN expr.value :
        /\ kept \subseteq {i \in DOMAIN expr.value : expr.value[i].kind \in test}
        /\ \E v \in Select(expr.value, kept) : Becomes(NavType("self", test), v, all(kept))
  BY DEF SelfStep
<1>2. PICK v \in Select(expr.value, kept) : Becomes(NavType("self", test), v, all(kept))
  BY <1>1
<1>3. Operand(expr)
  BY <1>2, ExprOperand DEF Becomes
<1>4. /\ IsValue(expr.value) /\ DOMAIN expr.value = 1..Len(expr.value)
      /\ t \in StaticTypes /\ t.kinds \in SUBSET ITEM /\ KindsIn(expr.value) \subseteq t.kinds
      /\ t.min \in Counts /\ t.max \in Counts /\ Within(Len(expr.value), t.min, t.max)
  BY <1>3, OperandIs DEF HasType
<1>5. NavType("self", test) = Multiplied(step, t.min, t.max)
  BY DEF NavType
<1> HIDE DEF t
<1>6. /\ IsValue(v)
      /\ \A i \in 1..Len(v) : \E j \in kept : v[i] = expr.value[j]
  BY <1>4, SelectIs
<1>7. \A i \in 1..Len(v) : v[i].kind \in t.kinds /\ v[i].kind \in test
  BY <1>1, <1>4, <1>6 DEF KindsIn
<1>8. context.min = 1 /\ context.max = 1 /\ context \in StaticTypes /\ t.kinds \subseteq context.kinds
  <2>1. context \in StaticTypes
    BY <1>4, Numbers, WithCardinalitySound
  <2>2. context = [kinds |-> IF t.kinds = {} THEN ITEM ELSE t.kinds, min |-> 1, max |-> 1]
    BY DEF WithCardinality, StaticTypeOf
  <2> QED
    BY <2>1, <2>2
<1> HIDE DEF context
<1> DEFINE node == StaticTypeOf(test, 0, UNLIMITED)
           meet == TypeIntersect(node, context)
<1>9. node \in StaticTypes
  BY Numbers DEF NodeTests, NODE, ITEM, StaticTypeOf, StaticTypes
<1>10. meet \in StaticTypes
  <2> HIDE DEF node
  <2> QED
    BY <1>8, <1>9, IntersectSound
<1>11. step = WithCardinality(meet, 1, 1)
  BY <1>8 DEF StepType
<1>12. step \in StaticTypes
  <2> HIDE DEF meet, step
  <2> QED
    BY <1>10, <1>11, Numbers, WithCardinalitySound
<1>13. test \cap context.kinds \subseteq meet.kinds
  BY <1>8, UnlimitedAssumption DEF TypeIntersect, Restricted, StaticTypeOf, Higher, Lower, Cleared
<1>14. test \cap context.kinds \subseteq step.kinds /\ step.min = 1 /\ step.max = 1
  <2> HIDE DEF meet, step
  <2>1. step = [kinds |-> IF meet.kinds = {} THEN ITEM ELSE meet.kinds, min |-> 1, max |-> 1]
    BY <1>11 DEF WithCardinality, StaticTypeOf
  <2>2. test \subseteq ITEM
    BY DEF NodeTests, NODE, ITEM
  <2> QED
    BY <1>13, <2>1, <2>2
<1> HIDE DEF step
<1>15. Multiplied(step, t.min, t.max) \in StaticTypes
  BY <1>4, <1>12, MultipliedSound
<1>16. ASSUME all(kept) PROVE HasType(v, Multiplied(step, t.min, t.max))
  <2>1. Len(v) = Len(expr.value)
    BY <1>4, <1>16, SelectAll
  <2>2. Within(Len(v), t.min, t.max)
    BY <1>4, <2>1
  <2>3. KindsIn(v) \subseteq step.kinds
    <3>1. \A i \in 1..Len(v) : v[i].kind \in step.kinds
      BY <1>7, <1>8, <1>14
    <3> QED
      BY <1>6, <3>1, Kinds
  <2> QED
    BY <1>4, <1>6, <1>12, <1>14, <2>2, <2>3, EachSound
<1>17. Conforms(Multiplied(step, t.min, t.max), v, all(kept))
  BY <1>6, <1>15, <1>16 DEF Conforms
<1> QED
  BY <1>2, <1>5, <1>17, BecomesConforming


LEMMA AxisStepConforms ==
  ASSUME Inv, NEW axis \in Axes, axis # "self", NEW test \in NodeTests, AxisStep(axis, test)
  PROVE  Inv'
<1> DEFINE t == expr.type
           node == StaticTypeOf(test, 0, UNLIMITED)
           step == Restricted(node, KindsOnAxis(axis))
<1>1. PICK v \in Values : /\ AllIn(v, test \cap KindsOnAxis(axis))
                          /\ Becomes(NavType(axis, test), v, TRUE)
  BY DEF AxisStep
<1>2. Operand(expr)
  BY <1>1, ExprOperand DEF Becomes
<1>3. t.min \in Counts /\ t.max \in Counts
  BY <1>2, OperandIs
<1>4. NavType(axis, test) = Multiplied(step, t.min, t.max)
  BY DEF NavType, StepType
<1>5. IsValue(v) /\ Len(v) \in Nat
  BY ValuesAreValues DEF IsValue
<1>6. node \in StaticTypes
  BY Numbers DEF NodeTests, NODE, ITEM, StaticTypeOf, StaticTypes
<1>7. step \in StaticTypes
  <2> HIDE DEF node
  <2> QED
    BY <1>6, RestrictedSound
<1>8. \/ test \cap KindsOnAxis(axis) = {}
      \/ step.kinds = test \cap KindsOnAxis(axis) /\ step.min = 0 /\ step.max = UNLIMITED
  BY Numbers DEF Restricted, StaticTypeOf
<1> HIDE DEF step, t
<1>9. Multiplied(step, t.min, t.max) \in StaticTypes
  BY <1>3, <1>7, MultipliedSound
<1>10. HasType(v, Multiplied(step, t.min, t.max))
  <2>1. CASE test \cap KindsOnAxis(axis) = {}
    <3>1. KindsIn(v) = {}
      BY <1>1, <2>1 DEF AllIn
    <3>2. Len(v) = 0
      BY <1>5, <3>1, Kinds
    <3>3. Multiplied(step, t.min, t.max).min = 0
      <4>1. step.min = 0
        BY <2>1 DEF Restricted, Cleared, StaticTypeOf, step
      <4>2. t.min \in Nat /\ step.min * t.min = 0
        BY <1>3, <4>1, Numbers DEF Counts
      <4>3. Unsigned(0) = 0
        BY UnsignedFits, Numbers DEF Fits
      <4>4. Unsigned(step.min * t.min) = 0
        BY <4>2, <4>3
      <4> QED
        BY <4>4 DEF Multiplied, Cleared, StaticTypeOf
    <3>4. Multiplied(step, t.min, t.max).max \in Nat
      BY <1>9, Numbers DEF StaticTypes, Counts
    <3> QED
      BY <3>1, <3>2, <3>3, <3>4 DEF HasType, Within
  <2>2. CASE step.kinds = test \cap KindsOnAxis(axis) /\ step.min = 0 /\ step.max = UNLIMITED
    <3>1. t.min \in Nat /\ step.min * t.min = 0
      BY <1>3, <2>2, Numbers DEF Counts
    <3>2. ProductFits(step, t.min, t.max)
      BY <2>2, <3>1, Numbers DEF ProductFits, Fits
    <3>3. KindsIn(v) \subseteq step.kinds
      BY <1>1, <2>2 DEF AllIn
    <3>4. step.min * t.min <= Len(v) /\ UNLIMITED \in {step.max, t.max}
      BY <1>5, <2>2, <3>1
    <3> QED
      BY <1>3, <1>5, <1>7, <3>2, <3>3, <3>4, MultipliedSound
  <2> QED
    BY <1>8, <2>1, <2>2
<1>11. Conforms(Multiplied(step, t.min, t.max), v, TRUE)
  BY <1>5, <1>9, <1>10 DEF Conforms
<1>12. Becomes(Multiplied(step, t.min, t.max), v, TRUE)
  BY <1>1, <1>4 DEF t
<1> QED
  BY <1>11, <1>12, BecomesConforming

LEMMA NavConforms ==
  ASSUME Inv, NEW axis \in Axes, NEW test \in NodeTests, Nav(axis, test)
  PROVE  Inv'
<1>1. CASE axis = "self"
  <2>1. PICK exact \in BOOLEAN : SelfStep(test, exact)
    BY <1>1 DEF Nav
  <2> QED
    BY <2>1, SelfStepConforms
<1>2. CASE axis # "self"
  BY <1>2, AxisStepConforms DEF Nav
<1> QED
  BY <1>1, <1>2

LEMMA UniqIs ==
  ASSUME NEW v, IsValue(v), NEW w \in Uniq(v)
  PROVE  /\ IsValue(w) /\ Len(w) \in Nat /\ Len(w) <= Len(v) /\ KindsIn(w) \subseteq KindsIn(v)
         /\ Len(v) > 0 => Len(w) > 0
<1> DEFINE S == ToSet(v)
<1>1. Len(v) \in Nat /\ DOMAIN v = 1..Len(v) /\ S \subseteq AnyItem
  BY DEF IsValue, ToSet
<1>2. \A x \in S : \E i \in 1..Len(v) : x = v[i]
  BY <1>1 DEF ToSet
<1>3. \A i \in 1..Len(v) : v[i] \in S
  BY <1>1 DEF ToSet
<1>4. w \in Listings(S, Len(v))
  BY DEF Uniq
<1> HIDE DEF S
<1>5. w \in Seq(S) /\ Len(w) <= Len(v) /\ \A x \in S : \E n \in 1..Len(w) : w[n] = x
  BY <1>1, <1>4, ListingsAre
<1>6. Len(w) \in Nat /\ IsValue(w) /\ \A n \in 1..Len(w) : w[n] \in S
  BY <1>1, <1>5 DEF IsValue
<1>7. \A n \in 1..Len(w) : w[n].kind \in KindsIn(v)
  BY <1>1, <1>2, <1>6 DEF KindsIn
<1>8. KindsIn(w) \subseteq KindsIn(v)
  BY <1>6, <1>7, Kinds
<1>9. ASSUME Len(v) > 0 PROVE Len(w) > 0
  <2>1. v[1] \in S
    BY <1>1, <1>3, <1>9
  <2>2. PICK n \in 1..Len(w) : w[n] = v[1]
    BY <1>5, <2>1
  <2> QED
    BY <1>6, <2>2
<1> QED
  BY <1>5, <1>6, <1>8, <1>9

LEMMA DocumentOrderConforms ==
  ASSUME Inv, DocumentOrder
  PROVE  Inv'
<1> DEFINE t == expr.type
           type == IF t.min > 0 THEN WithCardinality(t, 1, t.max) ELSE t
<1>1. CASE ~ContainsType(t, NODE)
  BY <1>1 DEF DocumentOrder, Inv, Conforms, HasType, Within, KindsIn, IsValue, Typed
<1>2. CASE ContainsType(t, NODE)
  <2>1. PICK v \in IF AllIn(expr.value, NODE) THEN Uniq(expr.value) ELSE {expr.value} :
               Becomes(type, v, TRUE)
    BY <1>2 DEF DocumentOrder
  <2>2. Operand(expr)
    BY <2>1, ExprOperand DEF Becomes
  <2>3. /\ IsValue(expr.value) /\ Len(expr.value) \in Nat /\ t \in StaticTypes
        /\ t.min \in Nat /\ t.max \in Nat /\ t.max \in Counts
        /\ t.min <= Len(expr.value) /\ (t.max = UNLIMITED \/ Len(expr.value) <= t.max)
        /\ KindsIn(expr.value) \subseteq t.kinds
    BY <2>2, OperandIs
  <2>4. /\ IsValue(v) /\ Len(v) \in Nat /\ Len(v) <= Len(expr.value)
        /\ KindsIn(v) \subseteq KindsIn(expr.value)
        /\ Len(expr.value) > 0 => Len(v) > 0
    BY <2>1, <2>3, UniqIs
  <2> HIDE DEF t
  <2>5. CASE t.min > 0
    <3>1. Within(Len(v), 1, t.max) /\ KindsIn(v) \subseteq t.kinds
      BY <2>3, <2>4, <2>5 DEF Within
    <3>2. WithCardinality(t, 1, t.max) \in StaticTypes /\ HasType(v, WithCardinality(t, 1, t.max))
      BY <2>3, <2>4, <3>1, Numbers, WithCardinalitySound
    <3> QED
      BY <2>1, <2>4, <2>5, <3>2, BecomesConforming DEF Conforms
  <2>6. CASE ~(t.min > 0)
    <3>1. HasType(v, t)
      BY <2>3, <2>4, <2>6 DEF HasType, Within
    <3> QED
      BY <2>1, <2>3, <2>4, <2>6, <3>1, BecomesConforming DEF Conforms
  <2> QED
    BY <2>5, <2>6
<1> QED
  BY <1>1, <1>2


(***************************************************************************)
(* Conversions of items.                                                   *)
(***************************************************************************)
LEMMA CastIs ==
  ASSUME NEW item \in AnyItem, NEW kind \in ITEM
  PROVE  Cast(item, kind) \in AnyItem /\ Cast(item, kind).kind = kind
BY DEF Cast, AnyItem

LEMMA PromoteConforms ==
  ASSUME Inv, NEW p \in Promotions, Promote(p)
  PROVE  Inv'
<1> DEFINE t == expr.type
           v == expr.value
           w == [i \in DOMAIN v |-> IF v[i].kind \in p.from THEN Cast(v[i], p.to) ELSE v[i]]
           type == Substituted(t, p.from, ExactlyOne({p.to}))
           counted == ~ForgetsCount(t, p.from)
<1>1. Becomes(type, w, counted) /\ Operand(expr)
  BY ExprOperand DEF Promote, Becomes
<1>2. /\ IsValue(v) /\ Len(v) \in Nat /\ DOMAIN v = 1..Len(v) /\ t \in StaticTypes /\ HasType(v, t)
  BY <1>1, OperandIs
<1>3. p.to \in ITEM
  BY DEF Promotions, Promotion, ITEM, ANY_ATOMIC_TYPE, NUMERIC
<1>4. counted \in BOOLEAN
  BY DEF ForgetsCount
<1> HIDE DEF t, v, type, counted
<1>5. \A i \in 1..Len(v) : v[i] \in AnyItem
  BY <1>2 DEF IsValue
<1>6. \A i \in 1..Len(v) : /\ w[i] \in AnyItem
                           /\ IF v[i].kind \in p.from THEN w[i].kind = p.to ELSE w[i].kind = v[i].kind
  BY <1>2, <1>3, <1>5, CastIs
<1>7. w \in Seq(AnyItem) /\ Len(w) = Len(v)
  <2>1. w = [i \in 1..Len(v) |-> w[i]]
    BY <1>2
  <2> HIDE DEF w
  <2>2. w \in [1..Len(v) -> AnyItem]
    BY <1>6, <2>1
  <2> QED
    BY <1>2, <2>2
<1> HIDE DEF w
<1>8. IsValue(w) /\ Converts(v, w, p.from, {p.to})
  BY <1>6, <1>7 DEF IsValue, Converts
<1>9. {p.to} \in SUBSET ITEM
  BY <1>3
<1>10. type \in StaticTypes /\ (counted => HasType(w, type))
  BY <1>2, <1>8, <1>9, SubstitutedSound DEF type, counted
<1>11. Conforms(type, w, counted)
  BY <1>4, <1>8, <1>10 DEF Conforms
<1> QED
  BY <1>1, <1>11, BecomesConforming


(* Nodes become values by what their text is: those in from have one kind. *)
SchemaTyped == {"ELEMENT", "ATTRIBUTE"}
Untyped == {"DOCUMENT", "TEXT"}
Strings == {"NAMESPACE", "COMMENT", "PI"}

ByText(kind) ==
  IF kind \in Untyped THEN "UNTYPED_ATOMIC" ELSE IF kind \in Strings THEN "STRING" ELSE kind

LEMMA NotForgotten ==
  ASSUME NEW t \in StaticTypes, NEW from1, NEW from2, ~ForgetsCount(t, from2),
         NEW to \in SUBSET ITEM, ~(to \subseteq from2)
  PROVE  ~ForgetsCount(Substituted(t, from1, ExactlyOne(to)), from2)
<1>1. CASE t.kinds \cap from1 = {}
  BY <1>1 DEF Substituted
<1>2. CASE t.kinds \cap from1 # {}
  <2>1. to \subseteq Substituted(t, from1, ExactlyOne(to)).kinds
    BY <1>2 DEF Substituted, TypeUnion, ExactlyOne, StaticTypeOf
  <2> QED
    BY <2>1 DEF ForgetsCount
<1> QED
  BY <1>1, <1>2

(* The kinds that are put in, under names that the provers take as values. *)
UntypedAtomic == "UNTYPED_ATOMIC"
String == "STRING"

LEMMA PutIn == UntypedAtomic \in ITEM /\ String \in ITEM
BY DEF UntypedAtomic, String, ITEM, ANY_ATOMIC_TYPE, NUMERIC

Recast(v, from, kind) == [i \in DOMAIN v |-> IF v[i].kind \in from THEN Cast(v[i], kind) ELSE v[i]]

LEMMA RecastIs ==
  ASSUME NEW v, IsValue(v), NEW from, NEW kind \in ITEM
  PROVE  /\ IsValue(Recast(v, from, kind)) /\ Len(Recast(v, from, kind)) = Len(v)
         /\ Converts(v, Recast(v, from, kind), from, {kind})
<1> DEFINE w == Recast(v, from, kind)
<1>1. Len(v) \in Nat /\ DOMAIN v = 1..Len(v) /\ \A i \in 1..Len(v) : v[i] \in AnyItem
  BY DEF IsValue
<1>2. w = [i \in 1..Len(v) |-> IF v[i].kind \in from THEN Cast(v[i], kind) ELSE v[i]]
  BY <1>1 DEF Recast
<1> HIDE DEF w
<1>3. \A i \in 1..Len(v) : /\ w[i] \in AnyItem
                           /\ w[i].kind = IF v[i].kind \in from THEN kind ELSE v[i].kind
  BY <1>1, <1>2, CastIs
<1>4. w \in [1..Len(v) -> AnyItem]
  BY <1>2, <1>3
<1>5. IsValue(w) /\ Len(w) = Len(v)
  BY <1>1, <1>4 DEF IsValue
<1>6. Converts(v, w, from, {kind})
  BY <1>3, <1>5 DEF Converts
<1> QED
  BY <1>3, <1>5, <1>6 DEF w

LEMMA SameKinds ==
  ASSUME NEW v, NEW w, IsValue(v), IsValue(w), Len(v) = Len(w),
         \A i \in 1..Len(v) : v[i].kind = w[i].kind,
         NEW t, HasType(v, t)
  PROVE  HasType(w, t)
<1>1. \A i \in 1..Len(w) : w[i].kind \in t.kinds
  BY Kinds DEF HasType
<1>2. KindsIn(w) \subseteq t.kinds
  BY <1>1, Kinds
<1> QED
  BY <1>2 DEF HasType

LEMMA AtomizedTextSound ==
  ASSUME NEW t \in StaticTypes
  PROVE  /\ AtomizedText(t) \in StaticTypes
         /\ \A v, w : (/\ IsValue(v) /\ IsValue(w) /\ HasType(v, t)
                       /\ ~ForgetsCount(t, Untyped) /\ ~ForgetsCount(t, Strings)
                       /\ Len(w) = Len(v)
                       /\ \A i \in 1..Len(v) : w[i].kind = ByText(v[i].kind))
                      => HasType(w, AtomizedText(t))
<1> DEFINE t1 == Substituted(t, Untyped, ExactlyOne({"UNTYPED_ATOMIC"}))
           t2 == Substituted(t1, Strings, ExactlyOne({"STRING"}))
<1>1. /\ {"UNTYPED_ATOMIC"} \in SUBSET ITEM /\ {"STRING"} \in SUBSET ITEM
      /\ "UNTYPED_ATOMIC" \in ITEM /\ "STRING" \in ITEM
  BY DEF ITEM, ANY_ATOMIC_TYPE, NUMERIC
<1>2. t1 \in StaticTypes
  BY <1>1, SubstitutedSound
<1>3. t2 \in StaticTypes
  <2> HIDE DEF t1
  <2> QED
    BY <1>1, <1>2, SubstitutedSound
<1>4. AtomizedText(t) = t2
  BY DEF AtomizedText, Untyped, Strings
<1>5. ASSUME NEW v, NEW w, IsValue(v), IsValue(w), HasType(v, t),
             ~ForgetsCount(t, Untyped), ~ForgetsCount(t, Strings), Len(w) = Len(v),
             \A i \in 1..Len(v) : w[i].kind = ByText(v[i].kind)
      PROVE  HasType(w, t2)
  <2> DEFINE v1 == Recast(v, Untyped, UntypedAtomic)
             v2 == Recast(v1, Strings, String)
  <2>1. /\ IsValue(v1) /\ Len(v1) = Len(v) /\ Converts(v, v1, Untyped, {"UNTYPED_ATOMIC"})
        /\ \A i \in 1..Len(v) : v1[i].kind = IF v[i].kind \in Untyped THEN "UNTYPED_ATOMIC" ELSE v[i].kind
    <3>1. IsValue(v1) /\ Len(v1) = Len(v) /\ Converts(v, v1, Untyped, {UntypedAtomic})
      BY <1>5, PutIn, RecastIs
    <3> HIDE DEF v1
    <3> QED
      BY <3>1 DEF UntypedAtomic, Converts
  <2>2. HasType(v1, t1)
    BY <1>1, <1>5, <2>1, SubstitutedSound
  <2>3. ~ForgetsCount(t1, Strings)
    <3>1. ~({"UNTYPED_ATOMIC"} \subseteq Strings)
      BY DEF Strings
    <3> QED
      BY <1>1, <1>5, <3>1, NotForgotten
  <2> HIDE DEF v1, t1
  <2>4. /\ IsValue(v2) /\ Len(v2) = Len(v1) /\ Converts(v1, v2, Strings, {"STRING"})
        /\ \A i \in 1..Len(v1) : v2[i].kind = IF v1[i].kind \in Strings THEN "STRING" ELSE v1[i].kind
    <3>1. IsValue(v2) /\ Len(v2) = Len(v1) /\ Converts(v1, v2, Strings, {String})
      BY <2>1, PutIn, RecastIs
    <3> HIDE DEF v2
    <3> QED
      BY <3>1 DEF String, Converts
  <2>5. HasType(v2, t2)
    BY <1>1, <1>2, <2>1, <2>2, <2>3, <2>4, SubstitutedSound
  <2> HIDE DEF v2
  <2>6. \A i \in 1..Len(v2) : v2[i].kind = w[i].kind
    BY <1>5, <2>1, <2>4 DEF ByText, Untyped, Strings
  <2> HIDE DEF t2
  <2> QED
    BY <1>5, <2>1, <2>4, <2>5, <2>6, SameKinds
<1> HIDE DEF t2
<1> QED
  BY <1>3, <1>4, <1>5


LEMMA TypedValueIs ==
  ASSUME NEW v, IsValue(v), AllIn(v, NODE \cup ANY_ATOMIC_TYPE)
  PROVE  LET w == [i \in DOMAIN v |-> IF IsAtomic(v[i]) THEN v[i] ELSE TypedByText(v[i])]
         IN  /\ IsValue(w) /\ Len(w) = Len(v)
             /\ \A i \in 1..Len(v) :
                  w[i].kind = IF v[i].kind \in SchemaTyped THEN "UNTYPED_ATOMIC" ELSE ByText(v[i].kind)
<1> DEFINE w == [i \in DOMAIN v |-> IF IsAtomic(v[i]) THEN v[i] ELSE TypedByText(v[i])]
<1>1. Len(v) \in Nat /\ DOMAIN v = 1..Len(v) /\ \A i \in 1..Len(v) : v[i] \in AnyItem
  BY DEF IsValue
<1>2. \A i \in 1..Len(v) : v[i].kind \in NODE \cup ANY_ATOMIC_TYPE
  BY Kinds DEF AllIn
<1>3. "UNTYPED_ATOMIC" \in ITEM /\ "STRING" \in ITEM
  BY DEF ITEM, ANY_ATOMIC_TYPE, NUMERIC
<1>4. ASSUME NEW i \in 1..Len(v)
      PROVE  /\ w[i] \in AnyItem
             /\ w[i].kind = IF v[i].kind \in SchemaTyped THEN "UNTYPED_ATOMIC" ELSE ByText(v[i].kind)
  <2>1. w[i] = IF v[i].kind \in ANY_ATOMIC_TYPE THEN v[i] ELSE TypedByText(v[i])
    BY <1>1 DEF IsAtomic
  <2> HIDE DEF w
  <2>2. CASE v[i].kind \in ANY_ATOMIC_TYPE
    <3>1. v[i].kind \notin SchemaTyped /\ ByText(v[i].kind) = v[i].kind
      BY <2>2 DEF ByText, SchemaTyped, Untyped, Strings, ANY_ATOMIC_TYPE, NUMERIC
    <3> QED
      BY <1>1, <2>1, <2>2, <3>1
  <2>3. CASE v[i].kind \notin ANY_ATOMIC_TYPE
    <3> DEFINE kind == IF v[i].kind \in {"NAMESPACE", "COMMENT", "PI"} THEN "STRING" ELSE "UNTYPED_ATOMIC"
    <3>1. v[i].kind \in NODE
      BY <1>2, <2>3
    <3>2. w[i] = Cast(v[i], kind)
      BY <2>1, <2>3 DEF TypedByText
    <3>3. kind \in ITEM
      BY <1>3
    <3>4. w[i] \in AnyItem /\ w[i].kind = kind
      <4> HIDE DEF kind
      <4> QED
        BY <1>1, <3>2, <3>3, CastIs
    <3>5. kind = IF v[i].kind \in SchemaTyped THEN "UNTYPED_ATOMIC" ELSE ByText(v[i].kind)
      BY <3>1 DEF ByText, SchemaTyped, Untyped, Strings, NODE
    <3> QED
      BY <3>4, <3>5
  <2> QED
    BY <2>2, <2>3
<1>5. w \in Seq(AnyItem) /\ Len(w) = Len(v)
  <2>1. w = [i \in 1..Len(v) |-> w[i]]
    BY <1>1
  <2> HIDE DEF w
  <2>2. w \in [1..Len(v) -> AnyItem]
    BY <1>4, <2>1
  <2> QED
    BY <1>1, <2>2
<1> HIDE DEF w
<1>6. IsValue(w)
  BY <1>5 DEF IsValue
<1> QED
  BY <1>4, <1>5, <1>6 DEF w

LEMMA AtomizeConforms ==
  ASSUME Inv, Atomize
  PROVE  Inv'
<1> DEFINE t == expr.type
           v == expr.value
           a == Restricted(t, NODE \cup ANY_ATOMIC_TYPE)
           one == [i \in DOMAIN v |-> IF IsAtomic(v[i]) THEN v[i] ELSE TypedByText(v[i])]
           untyped == Substituted(a, SchemaTyped, ExactlyOne({"UNTYPED_ATOMIC"}))
           any == Substituted(a, SchemaTyped, ExactlyOne(ANY_ATOMIC_TYPE))
           schema == IF ContainsType(a, SchemaTyped) THEN WithCardinality(any, 0, UNLIMITED) ELSE a
<1>1. CASE ~ContainsType(t, NODE \cup {"FUNCTION"})
  BY <1>1 DEF Atomize, Inv, Conforms, HasType, Within, KindsIn, IsValue, Typed
<1>2. CASE ContainsType(t, NODE \cup {"FUNCTION"})
  <2>1. PICK doPSVI \in BOOLEAN : \E w \in TypedValues(v, doPSVI) :
               Becomes(AtomizedType(t, doPSVI), w, ~AtomizationForgets(t, doPSVI))
    BY <1>2 DEF Atomize
  <2>2. PICK w \in TypedValues(v, doPSVI) :
               Becomes(AtomizedType(t, doPSVI), w, ~AtomizationForgets(t, doPSVI))
    BY <2>1
  <2>3. Operand(expr)
    BY <2>2, ExprOperand DEF Becomes
  <2>4. IsValue(v) /\ t \in StaticTypes /\ HasType(v, t) /\ Len(v) \in Nat
    BY <2>3, OperandIs
  <2>5. AllIn(v, NODE \cup ANY_ATOMIC_TYPE)
    BY DEF Atomize
  <2>6. AtomizedType(t, doPSVI) = AtomizedText(IF doPSVI THEN schema ELSE untyped)
    BY DEF AtomizedType, SchemaTyped
  <2>7. AtomizationForgets(t, doPSVI) <=>
          \/ ForgetsCount(a, Untyped) \/ ForgetsCount(a, Strings)
          \/ ~doPSVI /\ ForgetsCount(a, SchemaTyped)
    BY DEF AtomizationForgets, Untyped, Strings, SchemaTyped
  <2> HIDE DEF t, v
  <2>8. a \in StaticTypes /\ HasType(v, a)
    BY <2>4, <2>5, RestrictedSound DEF AllIn
  <2>9. /\ {"UNTYPED_ATOMIC"} \in SUBSET ITEM /\ "UNTYPED_ATOMIC" \in ITEM /\ ANY_ATOMIC_TYPE \in SUBSET ITEM
        /\ ~(ANY_ATOMIC_TYPE \subseteq Untyped) /\ ~(ANY_ATOMIC_TYPE \subseteq Strings)
        /\ ~({"UNTYPED_ATOMIC"} \subseteq Untyped) /\ ~({"UNTYPED_ATOMIC"} \subseteq Strings)
    BY DEF ITEM, ANY_ATOMIC_TYPE, NUMERIC, Untyped, Strings
  <2> HIDE DEF a
  <2>10. untyped \in StaticTypes /\ any \in StaticTypes
    BY <2>8, <2>9, SubstitutedSound
  <2>11. schema \in StaticTypes
    <3> HIDE DEF any
    <3> QED
      BY <2>8, <2>10, Numbers, WithCardinalitySound
  <2>12. /\ IsValue(one) /\ Len(one) = Len(v)
         /\ \A i \in 1..Len(v) :
              one[i].kind = IF v[i].kind \in SchemaTyped THEN "UNTYPED_ATOMIC" ELSE ByText(v[i].kind)
    BY <2>4, <2>5, TypedValueIs
  <2> HIDE DEF one, untyped, schema
  <2>13. AtomizedType(t, doPSVI) \in StaticTypes
    BY <2>6, <2>10, <2>11, AtomizedTextSound
  <2>14. CASE ~doPSVI
    <3>1. w = one
      BY <2>2, <2>14 DEF TypedValues, one
    <3>2. ASSUME ~AtomizationForgets(t, doPSVI) PROVE HasType(w, AtomizedText(untyped))
      <4> DEFINE u == Recast(v, SchemaTyped, UntypedAtomic)
      <4>1. ~ForgetsCount(a, SchemaTyped) /\ ~ForgetsCount(a, Untyped) /\ ~ForgetsCount(a, Strings)
        BY <2>7, <2>14, <3>2
      <4>2. /\ IsValue(u) /\ Len(u) = Len(v) /\ Converts(v, u, SchemaTyped, {"UNTYPED_ATOMIC"})
            /\ \A i \in 1..Len(v) : u[i].kind = IF v[i].kind \in SchemaTyped THEN "UNTYPED_ATOMIC" ELSE v[i].kind
        <5>1. IsValue(u) /\ Len(u) = Len(v) /\ Converts(v, u, SchemaTyped, {UntypedAtomic})
          BY <2>4, PutIn, RecastIs
        <5> HIDE DEF u
        <5> QED
          BY <5>1 DEF UntypedAtomic, Converts
      <4> HIDE DEF u
      <4>3. HasType(u, untyped)
        BY <2>4, <2>8, <2>9, <4>1, <4>2, SubstitutedSound DEF untyped
      <4>4. ~ForgetsCount(untyped, Untyped) /\ ~ForgetsCount(untyped, Strings)
        BY <2>8, <2>9, <4>1, NotForgotten DEF untyped
      <4>5. \A i \in 1..Len(u) : one[i].kind = ByText(u[i].kind)
        BY <2>12, <4>2 DEF ByText, SchemaTyped, Untyped, Strings
      <4> QED
        BY <2>10, <2>12, <3>1, <4>2, <4>3, <4>4, <4>5, AtomizedTextSound
    <3>3. Conforms(AtomizedType(t, doPSVI), w, ~AtomizationForgets(t, doPSVI))
      BY <2>6, <2>12, <2>13, <2>14, <3>1, <3>2 DEF Conforms, AtomizationForgets
    <3> QED
      BY <2>2, <3>3, BecomesConforming DEF t
  <2>15. CASE doPSVI
    <3>1. ASSUME ContainsType(a, SchemaTyped)
          PROVE  /\ schema.min = 0 /\ schema.max = UNLIMITED /\ ANY_ATOMIC_TYPE \subseteq schema.kinds
                 /\ schema.kinds = any.kinds
                 /\ ~ForgetsCount(schema, Untyped) /\ ~ForgetsCount(schema, Strings)
      <4>1. ANY_ATOMIC_TYPE \subseteq any.kinds
        BY <3>1 DEF any, Substituted, ContainsType, TypeUnion, ExactlyOne, StaticTypeOf
      <4>2. any.kinds # {}
        BY <4>1 DEF ANY_ATOMIC_TYPE
      <4>3. schema = [kinds |-> any.kinds, min |-> 0, max |-> UNLIMITED]
        BY <3>1, <4>2, Numbers DEF schema, WithCardinality, StaticTypeOf
      <4> QED
        BY <2>9, <4>1, <4>3 DEF ForgetsCount
    <3>2. IsValue(w)
      BY <2>2, <2>12, ValuesAreValues DEF TypedValues, one
    <3>3. ASSUME ~AtomizationForgets(t, doPSVI) PROVE HasType(w, AtomizedText(schema))
      <4>1. ~ForgetsCount(a, Untyped) /\ ~ForgetsCount(a, Strings)
        BY <2>7, <2>15, <3>3
      <4>2. ~ForgetsCount(schema, Untyped) /\ ~ForgetsCount(schema, Strings)
        BY <3>1, <4>1 DEF schema
      <4>3. CASE KindsIn(v) \cap SchemaTyped # {}
        <5>1. AllIn(w, ANY_ATOMIC_TYPE)
          BY <2>2, <2>15, <4>3 DEF TypedValues, SchemaTyped
        <5>2. ContainsType(a, SchemaTyped)
          BY <2>8, <4>3 DEF HasType, ContainsType
        <5>3. HasType(w, schema)
          BY <3>1, <3>2, <5>1, <5>2 DEF HasType, Within, AllIn, IsValue
        <5>4. \A i \in 1..Len(w) : w[i].kind = ByText(w[i].kind)
          <6>1. \A i \in 1..Len(w) : w[i].kind \in ANY_ATOMIC_TYPE
            BY <3>2, <5>1, Kinds DEF AllIn
          <6> QED
            BY <6>1 DEF ByText, Untyped, Strings, ANY_ATOMIC_TYPE, NUMERIC
        <5> QED
          BY <2>11, <3>2, <4>2, <5>3, <5>4, AtomizedTextSound
      <4>4. CASE KindsIn(v) \cap SchemaTyped = {}
        <5>1. w = one
          BY <2>2, <4>4 DEF TypedValues, one, SchemaTyped
        <5>2. \A i \in 1..Len(v) : v[i].kind \notin SchemaTyped
          BY <2>4, <4>4 DEF KindsIn, IsValue
        <5>3. \A i \in 1..Len(v) : one[i].kind = ByText(v[i].kind)
          BY <2>12, <5>2
        <5>4. HasType(v, schema)
          <6>1. CASE ~ContainsType(a, SchemaTyped)
            BY <2>8, <6>1 DEF schema
          <6>2. CASE ContainsType(a, SchemaTyped)
            <7>1. KindsIn(v) \subseteq any.kinds
              <8>1. CASE ForgetsCount(a, SchemaTyped)
                BY <2>8, <4>4, <8>1 DEF ForgetsCount, HasType
              <8>2. CASE ~ForgetsCount(a, SchemaTyped)
                <9>1. Converts(v, v, SchemaTyped, ANY_ATOMIC_TYPE)
                  BY <5>2 DEF Converts
                <9> QED
                  BY <2>4, <2>8, <2>9, <8>2, <9>1, SubstitutedSound DEF HasType, any
              <8> QED
                BY <8>1, <8>2
            <7> QED
              BY <2>4, <3>1, <6>2, <7>1 DEF HasType, Within
          <6> QED
            BY <6>1, <6>2
        <5> QED
          BY <2>4, <2>11, <2>12, <4>2, <5>1, <5>3, <5>4, AtomizedTextSound
      <4> QED
        BY <4>3, <4>4
    <3>4. Conforms(AtomizedType(t, doPSVI), w, ~AtomizationForgets(t, doPSVI))
      BY <2>6, <2>13, <2>15, <3>2, <3>3 DEF Conforms, AtomizationForgets
    <3> QED
      BY <2>2, <3>4, BecomesConforming DEF t
  <2> QED
    BY <2>14, <2>15
<1> QED
  BY <1>1, <1>2


(***************************************************************************)
(* Type tests and the functions on sequences.                              *)
(***************************************************************************)
LEMMA UnchangedConforms ==
  ASSUME Inv, UNCHANGED expr
  PROVE  Inv'
BY DEF Inv, Conforms, HasType, Within, KindsIn, IsValue, Typed

LEMMA MeetConforms ==
  ASSUME Inv, NEW s \in SequenceTypes, Matches(expr.value, s),
         Becomes(TypeIntersect(expr.type, TypeOfSequenceType(s)), expr.value, TRUE)
  PROVE  Inv'
<1> DEFINE t == expr.type
           u == TypeOfSequenceType(s)
<1>1. IsValue(expr.value) /\ t \in StaticTypes /\ HasType(expr.value, t)
  BY ExprOperand, OperandIs DEF Becomes
<1>2. u \in StaticTypes /\ HasType(expr.value, u)
  BY SequenceTypeBounds
<1>3. Becomes(TypeIntersect(t, u), expr.value, TRUE)
  OBVIOUS
<1> HIDE DEF t, u
<1>4. TypeIntersect(t, u) \in StaticTypes /\ HasType(expr.value, TypeIntersect(t, u))
  BY <1>1, <1>2, IntersectSound
<1>5. Conforms(TypeIntersect(t, u), expr.value, TRUE)
  BY <1>1, <1>4 DEF Conforms
<1> QED
  BY <1>3, <1>5, BecomesConforming

LEMMA TreatAsConforms ==
  ASSUME Inv, NEW s \in Declared, TreatAs(s)
  PROVE  Inv'
<1>1. s \in SequenceTypes
  BY DeclaredAssumption
<1>2. CASE AlwaysMatches(s, expr.type)
  BY <1>2, UnchangedConforms DEF TreatAs
<1>3. CASE ~AlwaysMatches(s, expr.type)
  <2>1. Becomes(TypeIntersect(expr.type, TypeOfSequenceType(s)), expr.value, TRUE)
    BY <1>3 DEF TreatAs
  <2>2. /\ IsValue(expr.value) /\ expr.type \in StaticTypes /\ HasType(expr.value, expr.type)
        /\ Len(expr.value) \in Nat
    BY <2>1, ExprOperand, OperandIs DEF Becomes
  <2>3. Within(Len(expr.value), LeastOf(s), MostOf(s))
    <3>1. Within(Len(expr.value), expr.type.min, expr.type.max)
      BY <2>2 DEF HasType
    <3>2. CardinalityMatch(s, expr.type) = "ALWAYS" => Within(Len(expr.value), LeastOf(s), MostOf(s))
      BY <1>1, <2>2, <3>1, CardinalityMatchRight
    <3> QED
      BY <3>2 DEF TreatAs
  <2>4. KindsIn(expr.value) \subseteq s.kinds
    <3>1. ItemMatch(s, expr.type) = "ALWAYS" => KindsIn(expr.value) \subseteq s.kinds
      BY <1>1, <2>2, ItemMatchRight
    <3> QED
      BY <3>1 DEF TreatAs, AllIn
  <2>5. Matches(expr.value, s)
    BY <2>3, <2>4 DEF Matches
  <2> QED
    BY <1>1, <2>1, <2>5, MeetConforms
<1> QED
  BY <1>2, <1>3

LEMMA CaseVariableConforms ==
  ASSUME Inv, NEW s \in Declared, CaseVariable(s)
  PROVE  Inv'
<1>1. s \in SequenceTypes
  BY DeclaredAssumption
<1> QED
  BY <1>1, MeetConforms DEF CaseVariable

(* A part of the value, with fewer items in the type too.                  *)
LEMMA PartConforms ==
  ASSUME Inv, NEW w, IsValue(w), KindsIn(w) \subseteq KindsIn(expr.value),
         NEW min \in Counts, NEW max \in Counts, Within(Len(w), min, max),
         Becomes(WithCardinality(expr.type, min, max), w, TRUE)
  PROVE  Inv'
<1> DEFINE t == expr.type
<1>1. t \in StaticTypes /\ KindsIn(w) \subseteq t.kinds
  BY ExprOperand, OperandIs DEF Becomes
<1>2. Becomes(WithCardinality(t, min, max), w, TRUE)
  OBVIOUS
<1> HIDE DEF t
<1>3. WithCardinality(t, min, max) \in StaticTypes /\ HasType(w, WithCardinality(t, min, max))
  BY <1>1, WithCardinalitySound
<1>4. Conforms(WithCardinality(t, min, max), w, TRUE)
  BY <1>3 DEF Conforms
<1> QED
  BY <1>2, <1>4, BecomesConforming

LEMMA SubSeqIs ==
  ASSUME NEW v, IsValue(v), NEW m \in Nat \ {0}, NEW n \in Nat, n <= Len(v)
  PROVE  /\ IsValue(SubSeq(v, m, n)) /\ KindsIn(SubSeq(v, m, n)) \subseteq KindsIn(v)
         /\ Len(SubSeq(v, m, n)) = IF m <= n THEN n - m + 1 ELSE 0
<1> DEFINE w == SubSeq(v, m, n)
<1>1. v \in Seq(AnyItem) /\ Len(v) \in Nat /\ DOMAIN v = 1..Len(v)
  BY DEF IsValue
<1>2. /\ w \in Seq(AnyItem) /\ Len(w) = (IF m <= n THEN n - m + 1 ELSE 0)
      /\ \A i \in 1..(n - m + 1) : w[i] = v[m + i - 1]
  BY <1>1
<1> HIDE DEF w
<1>3. \A i \in 1..Len(w) : i \in 1..(n - m + 1) /\ m + i - 1 \in 1..Len(v)
  BY <1>1, <1>2
<1>4. \A i \in 1..Len(w) : w[i].kind \in KindsIn(v)
  BY <1>1, <1>2, <1>3 DEF KindsIn
<1>5. IsValue(w) /\ KindsIn(w) \subseteq KindsIn(v)
  BY <1>2, <1>4, Kinds DEF IsValue
<1> QED
  BY <1>2, <1>5 DEF w

LEMMA FunctionHeadConforms ==
  ASSUME Inv, FunctionHead
  PROVE  Inv'
<1> DEFINE v == expr.value
           least == Lower(expr.type.min, 1)
           most == Lower(expr.type.max, 1)
           n == Lower(Len(v), 1)
           w == SubSeq(v, 1, n)
<1>1. Becomes(WithCardinality(expr.type, least, most), w, TRUE)
  BY DEF FunctionHead
<1>2. /\ IsValue(v) /\ Len(v) \in Nat
      /\ expr.type.min \in Counts /\ expr.type.max \in Counts
      /\ expr.type.min \in Nat /\ expr.type.max \in Nat
      /\ expr.type.min <= Len(v) /\ (expr.type.max = UNLIMITED \/ Len(v) <= expr.type.max)
  BY <1>1, ExprOperand, OperandIs DEF Becomes
<1>3. least \in Counts /\ most \in Counts
  BY <1>2, Numbers DEF Lower
<1>4. n \in Nat /\ n <= Len(v) /\ n <= 1 /\ least <= n /\ n <= most
  BY <1>2, Numbers DEF Lower
<1> HIDE DEF v, n, least, most
<1>5. IsValue(w) /\ KindsIn(w) \subseteq KindsIn(v) /\ Len(w) = n
  BY <1>2, <1>4, SubSeqIs
<1> HIDE DEF w
<1>6. Within(Len(w), least, most)
  BY <1>4, <1>5 DEF Within
<1> QED
  BY <1>1, <1>3, <1>5, <1>6, PartConforms DEF v

LEMMA FunctionTailConforms ==
  ASSUME Inv, FunctionTail
  PROVE  Inv'
<1> DEFINE v == expr.value
           least == Tail1(expr.type.min)
           most == Tail1OrUnlimited(expr.type.max)
           w == SubSeq(v, 2, Len(v))
<1>1. Becomes(WithCardinality(expr.type, least, most), w, TRUE)
  BY DEF FunctionTail
<1>2. /\ IsValue(v) /\ Len(v) \in Nat
      /\ expr.type.min \in Nat /\ expr.type.max \in Nat
      /\ expr.type.min <= UNLIMITED /\ expr.type.max <= UNLIMITED
      /\ expr.type.min <= Len(v) /\ (expr.type.max = UNLIMITED \/ Len(v) <= expr.type.max)
  BY <1>1, ExprOperand, OperandIs DEF Becomes, Counts
<1>3. least \in Counts /\ most \in Counts
  BY <1>2, Numbers DEF Tail1, Tail1OrUnlimited, Counts
<1> HIDE DEF v
<1>4. IsValue(w) /\ KindsIn(w) \subseteq KindsIn(v) /\ Len(w) = IF 2 <= Len(v) THEN Len(v) - 1 ELSE 0
  BY <1>2, SubSeqIs
<1> HIDE DEF w
<1>5. Within(Len(w), least, most)
  BY <1>2, <1>4 DEF Within, Tail1, Tail1OrUnlimited
<1> HIDE DEF least, most
<1> QED
  BY <1>1, <1>3, <1>4, <1>5, PartConforms DEF v

LEMMA FunctionDropConforms ==
  ASSUME Inv, FunctionDrop
  PROVE  Inv'
<1> DEFINE v == expr.value
<1>1. PICK n \in 0..MaxItems :
             Becomes(WithCardinality(expr.type, 0, expr.type.max), SubSeq(v, n + 1, Len(v)), TRUE)
  BY DEF FunctionDrop
<1> DEFINE w == SubSeq(v, n + 1, Len(v))
<1>2. /\ IsValue(v) /\ Len(v) \in Nat /\ expr.type.max \in Counts /\ expr.type.max \in Nat
      /\ expr.type.max = UNLIMITED \/ Len(v) <= expr.type.max
  BY <1>1, ExprOperand, OperandIs DEF Becomes
<1>3. n + 1 \in Nat \ {0}
  BY BoundsAssumption
<1> HIDE DEF v
<1>4. IsValue(w) /\ KindsIn(w) \subseteq KindsIn(v) /\ Len(w) \in Nat /\ Len(w) <= Len(v)
  <2>1. /\ IsValue(w) /\ KindsIn(w) \subseteq KindsIn(v)
        /\ Len(w) = IF n + 1 <= Len(v) THEN Len(v) - (n + 1) + 1 ELSE 0
    BY <1>2, <1>3, SubSeqIs
  <2> HIDE DEF w
  <2> QED
    BY <1>2, <1>3, <2>1
<1>5. Becomes(WithCardinality(expr.type, 0, expr.type.max), w, TRUE)
  BY <1>1
<1> HIDE DEF w
<1>6. Within(Len(w), 0, expr.type.max)
  BY <1>2, <1>4 DEF Within
<1> QED
  BY <1>2, <1>4, <1>5, <1>6, Numbers, PartConforms DEF v

LEMMA FunctionDistinctValuesConforms ==
  ASSUME Inv, FunctionDistinctValues
  PROVE  Inv'
<1> DEFINE v == expr.value
           least == Lower(expr.type.min, 1)
<1>1. PICK w \in Uniq(v) : Becomes(WithCardinality(expr.type, least, expr.type.max), w, TRUE)
  BY DEF FunctionDistinctValues
<1>2. /\ IsValue(v) /\ Len(v) \in Nat
      /\ expr.type.min \in Counts /\ expr.type.max \in Counts
      /\ expr.type.min \in Nat /\ expr.type.max \in Nat
      /\ expr.type.min <= Len(v) /\ (expr.type.max = UNLIMITED \/ Len(v) <= expr.type.max)
  BY <1>1, ExprOperand, OperandIs DEF Becomes
<1>3. /\ IsValue(w) /\ Len(w) \in Nat /\ Len(w) <= Len(v) /\ KindsIn(w) \subseteq KindsIn(v)
      /\ Len(v) > 0 => Len(w) > 0
  BY <1>2, UniqIs
<1>4. least \in Counts
  BY <1>2, Numbers DEF Lower
<1> HIDE DEF v
<1>5. Within(Len(w), least, expr.type.max)
  BY <1>2, <1>3 DEF Within, Lower
<1> HIDE DEF least
<1> QED
  BY <1>1, <1>2, <1>3, <1>4, <1>5, PartConforms DEF v


(***************************************************************************)
(* The invariant.                                                          *)
(***************************************************************************)
LEMMA InvInit == Init => Inv
<1> SUFFICES ASSUME Init PROVE Inv
  OBVIOUS
<1>1. Operand(expr) /\ expr = Typed(expr.type, expr.value, TRUE)
  BY VariableOperand DEF Init
<1>2. expr.reliable = TRUE
  BY <1>1 DEF Typed
<1> QED
  BY <1>1, <1>2 DEF Inv, Conforms, Operand

LEMMA BinaryConforms ==
  ASSUME NEW left, NEW right, Operand(left), Operand(right), Binary(left, right)
  PROVE  Inv'
BY SequenceConforms, IfConforms, ReturnConforms, MapConforms, UnionConforms, IntersectConforms,
   ExceptConforms DEF Binary

LEMMA InvNext == Inv /\ [Next]_vars => Inv'
<1> SUFFICES ASSUME Inv, [Next]_vars PROVE Inv'
  OBVIOUS
<1>1. CASE UNCHANGED vars
  BY <1>1, UnchangedConforms DEF vars
<1>2. ASSUME NEW x \in Variables, Binary(expr, x) \/ Binary(x, expr) PROVE Inv'
  <2>1. expr.reliable
    BY <1>2 DEF Binary, Sequence, If, Return, Map, Union, Intersect, Except, Becomes
  <2>2. Operand(expr) /\ Operand(x)
    BY <2>1, ExprOperand, VariableOperand
  <2> QED
    BY <1>2, <2>2, BinaryConforms
<1>3. CASE ReturnVariable
  BY <1>3, ReturnVariableConforms
<1>4. CASE Predicate
  BY <1>4, PredicateConforms
<1>5. ASSUME NEW axis \in Axes, NEW test \in NodeTests, Nav(axis, test) PROVE Inv'
  BY <1>5, NavConforms
<1>6. CASE DocumentOrder
  BY <1>6, DocumentOrderConforms
<1>7. CASE Atomize
  BY <1>7, AtomizeConforms
<1>8. ASSUME NEW p \in Promotions, Promote(p) PROVE Inv'
  BY <1>8, PromoteConforms
<1>9. ASSUME NEW s \in Declared, TreatAs(s) \/ CaseVariable(s) PROVE Inv'
  BY <1>9, TreatAsConforms, CaseVariableConforms
<1>10. CASE FunctionHead
  BY <1>10, FunctionHeadConforms
<1>11. CASE FunctionTail
  BY <1>11, FunctionTailConforms
<1>12. CASE FunctionDrop
  BY <1>12, FunctionDropConforms
<1>13. CASE FunctionDistinctValues
  BY <1>13, FunctionDistinctValuesConforms
<1> QED
  BY <1>1, <1>2, <1>3, <1>4, <1>5, <1>6, <1>7, <1>8, <1>9, <1>10, <1>11, <1>12, <1>13 DEF Next

(* A value never has more items, fewer items or other kinds of item than   *)
(* the static type of its expression admits, however the expression is     *)
(* built from whatever variables, as long as no count was lost on the way, *)
(* and whatever the width of the unsigned numbers of StaticType.           *)
THEOREM SoundAlways == Spec => []Sound
<1>1. Init => Inv
  BY InvInit
<1>2. Inv /\ [Next]_vars => Inv'
  BY InvNext
<1>3. Inv => Sound
  BY DEF Inv, Conforms, Sound
<1> QED
  BY <1>1, <1>2, <1>3, PTL DEF Spec

(* A check that the optimizer leaves out would have succeeded, and a clause*)
(* that it removes, or a static error that it raises, would never have     *)
(* matched: SequenceType::matches on a static type agrees with             *)
(* SequenceType::matches on the value.                                     *)
THEOREM StaticMatchRightAlways == Spec => []StaticMatchRight
<1>1. Init => Inv
  BY InvInit
<1>2. Inv /\ [Next]_vars => Inv'
  BY InvNext
<1>3. Inv => StaticMatchRight
  <2> SUFFICES ASSUME Inv, expr.reliable, NEW s \in Declared
               PROVE  /\ AlwaysMatches(s, expr.type) => Matches(expr.value, s)
                      /\ NeverMatches(s, expr.type) => ~Matches(expr.value, s)
    BY DEF StaticMatchRight
  <2>1. expr.type \in StaticTypes /\ IsValue(expr.value) /\ HasType(expr.value, expr.type)
    BY DEF Inv, Conforms
  <2>2. s \in SequenceTypes
    BY DeclaredAssumption
  <2> QED
    BY <2>1, <2>2, MatchRight
<1> QED
  BY <1>1, <1>2, <1>3, PTL DEF Spec
=============================================================================
