----------------------------- MODULE StaticType -----------------------------
(***************************************************************************)
(* The static type of an expression (class StaticType) and the sequence    *)
(* types it is compared with (class SequenceType).  A static type is a     *)
(* union of item types with a least and a greatest number of items; an     *)
(* item type is abstracted to the kinds of item it admits, which is all    *)
(* that TypeFlags keeps of it.  The two numbers are unsigned integers, the *)
(* largest of which, UNLIMITED, stands for "no limit".                     *)
(***************************************************************************)
EXTENDS Integers, Sequences

CONSTANT UNLIMITED         \* (unsigned int)-1
ASSUME UnlimitedAssumption == UNLIMITED \in Nat /\ UNLIMITED > 1

NODE == {"DOCUMENT", "ELEMENT", "ATTRIBUTE", "TEXT", "PI", "COMMENT", "NAMESPACE"}
NUMERIC == {"DECIMAL", "FLOAT", "DOUBLE"}
ANY_ATOMIC_TYPE == NUMERIC \cup {"BOOLEAN", "STRING", "ANY_URI", "UNTYPED_ATOMIC"}
ITEM == NODE \cup ANY_ATOMIC_TYPE \cup {"FUNCTION"}

Unsigned(n) == n % (UNLIMITED + 1)
Counts == 0..UNLIMITED

StaticTypes == [kinds : SUBSET ITEM, min : Counts, max : Counts]
Cleared == [kinds |-> {}, min |-> 0, max |-> 0]
StaticTypeOf(kinds, min, max) == [kinds |-> kinds, min |-> min, max |-> max]
ExactlyOne(kinds) == StaticTypeOf(kinds, 1, 1)

Lower(m, n) == IF m < n THEN m ELSE n
Higher(m, n) == IF m > n THEN m ELSE n

ContainsType(t, flags) == t.kinds \cap flags # {}

TypeUnion(t, u) ==
  StaticTypeOf(t.kinds \cup u.kinds, Lower(t.min, u.min), Higher(t.max, u.max))

TypeConcat_NoLimit(t, u) ==
  StaticTypeOf(t.kinds \cup u.kinds, Unsigned(t.min + u.min), t.max + u.max)

TypeConcat(t, u) ==
  StaticTypeOf(t.kinds \cup u.kinds, Unsigned(t.min + u.min),
               IF UNLIMITED \in {t.max, u.max} THEN UNLIMITED ELSE Unsigned(t.max + u.max))

(* typeIntersect(flags): what is left when only the flags can remain.      *)
Restricted(t, flags) ==
  IF t.kinds \cap flags = {} \/ t.max = 0 THEN Cleared
  ELSE StaticTypeOf(t.kinds \cap flags, t.min, t.max)

TypeIntersect(t, u) ==
  Restricted(StaticTypeOf(t.kinds, Higher(t.min, u.min), Lower(t.max, u.max)), u.kinds)

(* substitute(from, to) does nothing unless typeExcept removed something.  *)
Substituted(t, from, to) ==
  IF t.kinds \cap from = {} THEN t ELSE TypeUnion(Restricted(t, ITEM \ from), to)

(* When nothing is left, typeExcept clears the type and with it the number *)
(* of items, and the type that is then put in is that of a single item.    *)
ForgetsCount(t, from) == t.kinds \cap from # {} /\ t.kinds \subseteq from /\ t.max > 1

Multiplied(t, min, max) ==
  LET top == IF UNLIMITED \in {t.max, max} THEN UNLIMITED ELSE Unsigned(t.max * max)
  IN  IF top = 0 THEN Cleared ELSE StaticTypeOf(t.kinds, Unsigned(t.min * min), top)

WithCardinality(t, min, max) ==
  IF max = 0 THEN Cleared
  ELSE StaticTypeOf(IF t.kinds = {} THEN ITEM ELSE t.kinds, min, max)

-----------------------------------------------------------------------------
(* Sequence types: kinds = {} is empty-sequence().                         *)
Indicators == {"", "?", "*", "+"}
SequenceTypes == [kinds : SUBSET ITEM, occurs : Indicators]

LeastOf(s) == IF s.kinds # {} /\ s.occurs \in {"", "+"} THEN 1 ELSE 0
MostOf(s) == IF s.kinds = {} THEN 0 ELSE IF s.occurs \in {"", "?"} THEN 1 ELSE UNLIMITED
TypeOfSequenceType(s) == StaticTypeOf(s.kinds, LeastOf(s), MostOf(s))

(* SequenceType::matches(StaticType): what is known before evaluation.  An *)
(* item type is taken to be a subtype when all its kinds pass the test.    *)
CardinalityMatch_LeastOnly(s, t) ==
  IF LeastOf(s) > t.max \/ MostOf(s) < t.min THEN "NEVER"
  ELSE IF LeastOf(s) > t.min THEN "MAYBE" ELSE "ALWAYS"

CardinalityMatch(s, t) ==
  IF LeastOf(s) > t.max \/ MostOf(s) < t.min THEN "NEVER"
  ELSE IF LeastOf(s) > t.min \/ MostOf(s) < t.max THEN "MAYBE" ELSE "ALWAYS"

ItemMatch(s, t) ==
  IF s.kinds = {}
  THEN IF t.max = 0 THEN "ALWAYS" ELSE IF t.min = 0 THEN "MAYBE" ELSE "NEVER"
  ELSE IF t.kinds \cap s.kinds = {}
       THEN IF LeastOf(s) > 0 \/ t.min > 0 THEN "NEVER" ELSE "PROBABLY_NOT"
       ELSE IF t.kinds \subseteq s.kinds THEN "ALWAYS" ELSE "MAYBE"

NeverMatches(s, t) == "NEVER" \in {CardinalityMatch(s, t), ItemMatch(s, t)}
AlwaysMatches(s, t) == CardinalityMatch(s, t) = "ALWAYS" /\ ItemMatch(s, t) = "ALWAYS"

-----------------------------------------------------------------------------
(* Values: sequences of items, each with its kind.                         *)
KindsIn(v) == {v[i].kind : i \in DOMAIN v}
Within(n, least, most) == least <= n /\ (most = UNLIMITED \/ n <= most)

(* SequenceType::matches(Result): the test that evaluation makes.          *)
Matches(v, s) == Within(Len(v), LeastOf(s), MostOf(s)) /\ KindsIn(v) \subseteq s.kinds

(* What a static type says of the value of its expression.                 *)
HasType(v, t) == Within(Len(v), t.min, t.max) /\ KindsIn(v) \subseteq t.kinds
=============================================================================
