----------------------------- MODULE StaticTyping -----------------------------
(***************************************************************************)
(* Static typing of expressions (staticTypingImpl of the AST's classes)    *)
(* beside their evaluation (createResult): an expression is built from the *)
(* inside out, one AST node at a time, with the type the optimizer gives   *)
(* it and a value it can have when it is run.  Operands that are not the   *)
(* expression so far are variables, whose declared type admits their value.*)
(*                                                                         *)
(* An evaluation that ends in a dynamic error has no value and is left     *)
(* out.  "reliable" records whether the code's arithmetic on the numbers   *)
(* of items was right at the last node: it is not where an unsigned number *)
(* wraps round, where substitute() forgets how many items there were, where*)
(* the operands of a set operator hold a node twice, and where a self step *)
(* drops its context item.  An expression that is no longer reliable is    *)
(* not continued, since nothing is claimed of it.                          *)
(***************************************************************************)
EXTENDS StaticType, SequencesExt

CONSTANTS Items,          \* the nodes and atomic values: [kind, id]
          Declared,       \* the sequence types of the variables
          MaxHeld,        \* bound: items in a variable
          MaxItems        \* bound: items in a value

AnyItem == [kind : ITEM, id : {item.id : item \in Items}]

ASSUME ItemsAssumption == Items \subseteq AnyItem
ASSUME DeclaredAssumption == Declared \subseteq SequenceTypes
ASSUME BoundsAssumption == MaxHeld \in Nat /\ MaxItems \in Nat

Values == UNION {[1..n -> Items] : n \in 0..MaxHeld}
Short(v) == Len(v) <= MaxItems

IsAtomic(item) == item.kind \in ANY_ATOMIC_TYPE
AllIn(v, flags) == KindsIn(v) \subseteq flags
NoDuplicates(v) == \A i, j \in DOMAIN v : v[i] = v[j] => i = j
Fits(n) == n <= UNLIMITED

Typed(type, value, reliable) == [type |-> type, value |-> value, reliable |-> reliable]
Variable(s, v) == Typed(TypeOfSequenceType(s), v, TRUE)

(* The variables an expression can mention.                                *)
Variables == UNION {{Variable(s, v) : v \in {w \in Values : Matches(w, s)}} : s \in Declared}

VARIABLE expr
vars == <<expr>>

Init == expr \in Variables

Becomes(type, value, reliable) ==
  /\ Short(value)
  /\ expr.reliable
  /\ expr' = Typed(type, value, reliable)

(* The lists of the members of S, of at most so many; and the part of a    *)
(* value that is kept, in its order.                                       *)
Listings(S, most) == {f \in UNION {[1..n -> S] : n \in 0..most} : ToSet(f) = S}

Ascending(f) == \A m, n \in DOMAIN f : m < n => f[m] < f[n]

Select(v, kept) ==
  {[n \in DOMAIN f |-> v[f[n]]] : f \in {g \in Listings(kept, Len(v)) : Ascending(g)}}

-----------------------------------------------------------------------------
(* Sequences and conditionals.                                             *)
ConcatFits(t, u) ==
  /\ Fits(t.min + u.min)
  /\ UNLIMITED \in {t.max, u.max} \/ Fits(t.max + u.max)

Sequence(left, right) ==
  Becomes(TypeConcat(left.type, right.type), left.value \o right.value,
          ConcatFits(left.type, right.type))

If(left, right) ==
  \E v \in {left.value, right.value} : Becomes(TypeUnion(left.type, right.type), v, TRUE)

-----------------------------------------------------------------------------
(* Iteration: a body evaluated once for each item of its input.            *)
ProductFits(t, min, max) ==
  /\ Fits(t.min * min)
  /\ UNLIMITED \in {t.max, max} \/ Fits(t.max * max)

Repeated(v, n) == [i \in 1..(n * Len(v)) |-> v[((i - 1) % Len(v)) + 1]]

(* ForTuple never lets the number of tuples have a maximum of zero.        *)
TuplesOf(t) == IF t.max = 0 THEN 1 ELSE t.max

Return(for, body) ==
  Becomes(Multiplied(body.type, for.type.min, TuplesOf(for.type)),
          Repeated(body.value, Len(for.value)),
          ProductFits(body.type, for.type.min, TuplesOf(for.type)))

(* for $x in E return $x: the variable has exactly one item.               *)
ReturnVariable ==
  Becomes(Multiplied(WithCardinality(expr.type, 1, 1), expr.type.min, TuplesOf(expr.type)),
          expr.value, TRUE)

Map(input, body) ==
  Becomes(Multiplied(body.type, input.type.min, input.type.max),
          Repeated(body.value, Len(input.value)),
          ProductFits(body.type, input.type.min, input.type.max))

Predicate ==
  \E kept \in SUBSET DOMAIN expr.value : \E v \in Select(expr.value, kept) :
    Becomes(Multiplied(expr.type, 0, 1), v, TRUE)

-----------------------------------------------------------------------------
(* Steps.  The context item has the type of the previous step's items; a   *)
(* name test (exact = FALSE) can reject a node of the right kind.          *)
Axes == {"self", "child", "parent", "attribute", "descendant-or-self"}
NodeTests == {NODE} \cup {{k} : k \in NODE}

KindsOnAxis(axis) ==
  CASE axis \in {"self", "descendant-or-self"} -> NODE
    [] axis = "child" -> {"ELEMENT", "TEXT", "PI", "COMMENT"}
    [] axis = "parent" -> {"DOCUMENT", "ELEMENT"}
    [] axis = "attribute" -> {"ATTRIBUTE"}

StepType(axis, test, context) ==
  IF axis = "self"
  THEN WithCardinality(TypeIntersect(StaticTypeOf(test, 0, UNLIMITED), context), context.min, context.max)
  ELSE Restricted(StaticTypeOf(test, 0, UNLIMITED), KindsOnAxis(axis))

NavType(axis, test) ==
  Multiplied(StepType(axis, test, WithCardinality(expr.type, 1, 1)), expr.type.min, expr.type.max)

SelfStep(test, exact) ==
  \E kept \in SUBSET DOMAIN expr.value :
    LET passes == {i \in DOMAIN expr.value : expr.value[i].kind \in test}
    IN  /\ IF exact THEN kept = passes ELSE kept \subseteq passes
        /\ \E v \in Select(expr.value, kept) :
             Becomes(NavType("self", test), v, kept = DOMAIN expr.value)

AxisStep(axis, test) ==
  \E v \in Values :
    /\ AllIn(v, test \cap KindsOnAxis(axis))
    /\ expr.value = <<>> => v = <<>>
    /\ Becomes(NavType(axis, test), v, TRUE)

Nav(axis, test) ==
  /\ AllIn(expr.value, NODE)
  /\ IF axis = "self" THEN \E exact \in BOOLEAN : SelfStep(test, exact)
     ELSE AxisStep(axis, test)

(* The nodes of a path, each once, in some order; atomic values stay.      *)
Uniq(v) == {w \in Listings(ToSet(v), Len(v)) : NoDuplicates(w)}

DocumentOrder ==
  /\ AllIn(expr.value, NODE) \/ AllIn(expr.value, ITEM \ NODE)
  /\ IF ContainsType(expr.type, NODE)
     THEN \E v \in IF AllIn(expr.value, NODE) THEN Uniq(expr.value) ELSE {expr.value} :
            Becomes(IF expr.type.min > 0 THEN WithCardinality(expr.type, 1, expr.type.max)
                    ELSE expr.type, v, TRUE)
     ELSE UNCHANGED expr

-----------------------------------------------------------------------------
(* Set operators on sequences of nodes; a union's duplicates are left for  *)
(* the document order node above it.                                       *)
NodeOperands(left, right) == AllIn(left.value, NODE) /\ AllIn(right.value, NODE)

Union(left, right) ==
  /\ NodeOperands(left, right)
  /\ LET type == TypeConcat(left.type, right.type)
     IN  Becomes(WithCardinality(type, Lower(left.type.min, right.type.min), type.max),
                 left.value \o right.value, ConcatFits(left.type, right.type))

(* A node is put out each time the inner loop finds it in the right operand. *)
Found(left, right) == {p \in (DOMAIN left) \X (DOMAIN right) : left[p[1]] = right[p[2]]}
InLoopOrder(f) ==
  \A m, n \in DOMAIN f :
    m < n => f[m][1] < f[n][1] \/ (f[m][1] = f[n][1] /\ f[m][2] < f[n][2])

Intersect(left, right) ==
  /\ NodeOperands(left, right)
  /\ \E f \in Listings(Found(left.value, right.value), Len(left.value) * Len(right.value)) :
       /\ InLoopOrder(f)
       /\ Becomes(Multiplied(TypeIntersect(left.type, right.type), 0, 1),
                  [n \in DOMAIN f |-> left.value[f[n][1]]],
                  NoDuplicates(left.value) /\ NoDuplicates(right.value))

NotFound(left, right) == {i \in DOMAIN left : left[i] \notin ToSet(right)}

Except_MinOfRight(left, right) ==
  /\ NodeOperands(left, right)
  /\ \E v \in Select(left.value, NotFound(left.value, right.value)) :
       Becomes(WithCardinality(left.type,
                               IF left.type.min > right.type.min
                               THEN left.type.min - right.type.min ELSE 0, left.type.max),
               v, NoDuplicates(left.value))

Except(left, right) ==
  /\ NodeOperands(left, right)
  /\ \E v \in Select(left.value, NotFound(left.value, right.value)) :
       Becomes(WithCardinality(left.type,
                               IF left.type.min > right.type.max
                               THEN left.type.min - right.type.max ELSE 0, left.type.max),
               v, NoDuplicates(left.value))

-----------------------------------------------------------------------------
(* Atomization and the conversions of a function's arguments.              *)
Cast(item, kind) == [kind |-> kind, id |-> item.id]

TypedByText(item) ==
  Cast(item, IF item.kind \in {"NAMESPACE", "COMMENT", "PI"} THEN "STRING" ELSE "UNTYPED_ATOMIC")

AtomizedText(type) ==
  Substituted(Substituted(type, {"DOCUMENT", "TEXT"}, ExactlyOne({"UNTYPED_ATOMIC"})),
              {"NAMESPACE", "COMMENT", "PI"}, ExactlyOne({"STRING"}))

AtomizedType(type, doPSVI) ==
  LET atomizable == Restricted(type, NODE \cup ANY_ATOMIC_TYPE)
      schemaTyped == {"ELEMENT", "ATTRIBUTE"}
  IN  IF ~doPSVI
      THEN AtomizedText(Substituted(atomizable, schemaTyped, ExactlyOne({"UNTYPED_ATOMIC"})))
      ELSE AtomizedText(IF ContainsType(atomizable, schemaTyped)
                        THEN WithCardinality(Substituted(atomizable, schemaTyped,
                                                         ExactlyOne(ANY_ATOMIC_TYPE)), 0, UNLIMITED)
                        ELSE atomizable)

(* One of the substitutions of AtomizedType empties the type.              *)
AtomizationForgets(type, doPSVI) ==
  \E from \in {{"ELEMENT", "ATTRIBUTE"}, {"DOCUMENT", "TEXT"}, {"NAMESPACE", "COMMENT", "PI"}} :
    /\ ForgetsCount(Restricted(type, NODE \cup ANY_ATOMIC_TYPE), from)
    /\ ~(doPSVI /\ from = {"ELEMENT", "ATTRIBUTE"})

(* The typed values of a value's items: any number of atomic values for an *)
(* element or attribute with a schema type, one for any other item.        *)
TypedValues(v, doPSVI) ==
  IF doPSVI /\ KindsIn(v) \cap {"ELEMENT", "ATTRIBUTE"} # {}
  THEN {w \in Values : AllIn(w, ANY_ATOMIC_TYPE)}
  ELSE {[i \in DOMAIN v |-> IF IsAtomic(v[i]) THEN v[i] ELSE TypedByText(v[i])]}

Atomize ==
  /\ AllIn(expr.value, NODE \cup ANY_ATOMIC_TYPE)
  /\ IF ContainsType(expr.type, NODE \cup {"FUNCTION"})
     THEN \E doPSVI \in BOOLEAN : \E v \in TypedValues(expr.value, doPSVI) :
            Becomes(AtomizedType(expr.type, doPSVI), v, ~AtomizationForgets(expr.type, doPSVI))
     ELSE UNCHANGED expr

(* The promotions of an atomized argument: of untyped values to the type   *)
(* of the parameter, of numbers to a wider type, of a URI to a string; a   *)
(* promotion is removed when the argument has none of the kinds it needs.  *)
Promotion(needs, from, to) == [needs |-> needs, from |-> from, to |-> to]
Promotions ==
  {Promotion({"UNTYPED_ATOMIC"}, {"UNTYPED_ATOMIC"}, to) : to \in {"DOUBLE", "STRING"}} \cup
  {Promotion({"DECIMAL", "FLOAT"}, {"DECIMAL", "FLOAT"}, "DOUBLE"),
   Promotion({"DECIMAL"}, {"DECIMAL", "FLOAT"}, "FLOAT"),
   Promotion({"ANY_URI"}, {"ANY_URI"}, "STRING")}

Promote(p) ==
  /\ AllIn(expr.value, ANY_ATOMIC_TYPE)
  /\ expr.type.kinds \subseteq ANY_ATOMIC_TYPE
  /\ ContainsType(expr.type, p.needs)
  /\ Becomes(Substituted(expr.type, p.from, ExactlyOne({p.to})),
             [i \in DOMAIN expr.value |-> IF expr.value[i].kind \in p.from
                                          THEN Cast(expr.value[i], p.to) ELSE expr.value[i]],
             ~ForgetsCount(expr.type, p.from))

-----------------------------------------------------------------------------
(* Type tests: treat as (the checks it keeps are made), and the variable of*)
(* the typeswitch clause that is chosen.                                   *)
TreatAs(s) ==
  /\ ~NeverMatches(s, expr.type)
  /\ CardinalityMatch(s, expr.type) = "ALWAYS" \/ Within(Len(expr.value), LeastOf(s), MostOf(s))
  /\ ItemMatch(s, expr.type) = "ALWAYS" \/ AllIn(expr.value, s.kinds)
  /\ IF AlwaysMatches(s, expr.type) THEN UNCHANGED expr
     ELSE Becomes(TypeIntersect(expr.type, TypeOfSequenceType(s)), expr.value, TRUE)

CaseVariable(s) ==
  /\ ~NeverMatches(s, expr.type)
  /\ Matches(expr.value, s)
  /\ Becomes(TypeIntersect(expr.type, TypeOfSequenceType(s)), expr.value, TRUE)

(* Functions whose type is worked out from their argument's.               *)
FunctionHead ==
  Becomes(WithCardinality(expr.type, Lower(expr.type.min, 1), Lower(expr.type.max, 1)),
          SubSeq(expr.value, 1, Lower(Len(expr.value), 1)), TRUE)

Tail1(n) == IF n > 0 THEN n - 1 ELSE n
Tail1OrUnlimited(n) == IF n = UNLIMITED THEN n ELSE Tail1(n)

FunctionTail ==
  Becomes(WithCardinality(expr.type, Tail1(expr.type.min), Tail1OrUnlimited(expr.type.max)),
          SubSeq(expr.value, 2, Len(expr.value)), TRUE)

FunctionDrop ==
  \E n \in 0..MaxItems :
    Becomes(WithCardinality(expr.type, 0, expr.type.max),
            SubSeq(expr.value, n + 1, Len(expr.value)), TRUE)

FunctionDistinctValues ==
  /\ expr.type.kinds \subseteq ANY_ATOMIC_TYPE
  /\ \E v \in Uniq(expr.value) :
       Becomes(WithCardinality(expr.type, Lower(expr.type.min, 1), expr.type.max), v, TRUE)

-----------------------------------------------------------------------------
Binary(left, right) ==
  \/ Sequence(left, right) \/ If(left, right)
  \/ Return(left, right) \/ Map(left, right)
  \/ Union(left, right) \/ Intersect(left, right) \/ Except(left, right)

Next ==
  \/ \E x \in Variables : Binary(expr, x) \/ Binary(x, expr)
  \/ ReturnVariable \/ Predicate
  \/ \E axis \in Axes, test \in NodeTests : Nav(axis, test)
  \/ DocumentOrder
  \/ Atomize \/ \E p \in Promotions : Promote(p)
  \/ \E s \in Declared : TreatAs(s) \/ CaseVariable(s)
  \/ FunctionHead \/ FunctionTail \/ FunctionDrop \/ FunctionDistinctValues

Spec == Init /\ [][Next]_vars
-----------------------------------------------------------------------------
(* A value never has more items, fewer items or other kinds of item than   *)
(* the static type of its expression admits, however the expression is     *)
(* built, as long as no count was lost on the way; and a static type never *)
(* has a count that an unsigned integer cannot hold.                       *)
Sound ==
  /\ expr.type \in StaticTypes
  /\ expr.reliable => HasType(expr.value, expr.type)

(* What the optimizer concludes from a static type is what the evaluation  *)
(* would find: a check that is left out would have succeeded, a static     *)
(* error or a clause that is removed would never have matched.             *)
StaticMatchRight ==
  expr.reliable =>
    \A s \in Declared : /\ AlwaysMatches(s, expr.type) => Matches(expr.value, s)
                        /\ NeverMatches(s, expr.type) => ~Matches(expr.value, s)
=============================================================================
