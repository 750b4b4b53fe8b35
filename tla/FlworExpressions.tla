-------------------------- MODULE FlworExpressions --------------------------
(***************************************************************************)
(* FLWOR expressions: what they evaluate to, and what static typing knows  *)
(* of them.  An expression is a record with an "op"; a FLWOR is a list of  *)
(* clauses, first clause first (the code links each TupleNode to the one   *)
(* before it and starts the chain with a ContextTuple), and a result.      *)
(*                                                                         *)
(* An item is a sequence of numbers: <<n>> is the integer n, and a node is *)
(* the place in the evaluation its constructor ran at, which starts with 0 *)
(* and has more parts; so two evaluations never make the same node.        *)
(***************************************************************************)
EXTENDS Integers, Sequences, FiniteSets, TLC
LOCAL INSTANCE SequencesExt

Const(items) == [op |-> "const", items |-> items]
Ref(name) == [op |-> "var", name |-> name]
New == [op |-> "new"]                    \* a direct element constructor
Dot == [op |-> "dot"]                    \* the context item
Concat(l, r) == [op |-> "concat", args |-> <<l, r>>]
And(l, r) == [op |-> "and", args |-> <<l, r>>]
Map(l, r) == [op |-> "map", args |-> <<l, r>>]
Flwor(clauses, ret) == [op |-> "flwor", clauses |-> clauses, ret |-> ret]

NoName == "no name"
For(var, pos, e) == [op |-> "for", var |-> var, pos |-> pos, expr |-> e]
Let(var, e) == [op |-> "let", var |-> var, pos |-> NoName, expr |-> e]
Where(e) == [op |-> "where", var |-> NoName, pos |-> NoName, expr |-> e]
Count(var) == [op |-> "count", var |-> var, pos |-> NoName, expr |-> Const(<<>>)]
OrderBy(e) == [op |-> "order", var |-> NoName, pos |-> NoName, expr |-> e]

Bound(c) == {c.var, c.pos} \ {NoName}
BoundIn(cs) == UNION {Bound(cs[i]) : i \in DOMAIN cs}
Before(cs, i) == SubSeq(cs, 1, i - 1)
After(cs, i) == SubSeq(cs, i + 1, Len(cs))

-----------------------------------------------------------------------------
(* Evaluation.                                                             *)

Number(n) == <<n>>
IsNode(item) == Len(item) > 1

\* XQEffectiveBooleanValue, of a single item or of nodes
Ebv(value) == value # <<>> /\ (IsNode(value[1]) \/ value[1][1] # 0)

\* descending, an empty key last; the sort is stable
InOrder(s, t) ==
  IF s.key = <<>> \/ t.key = <<>> THEN t.key = <<>> /\ (s.key # <<>> \/ s.at < t.at)
  ELSE s.key[1][1] > t.key[1][1] \/ (s.key = t.key /\ s.at < t.at)

\* a variable that is not in scope: no program has it, an optimizer might
Unbound == <<<<-1>>>>

RECURSIVE Value(_, _, _, _), Tuples(_, _, _, _)

\* What a tuple becomes, where value is what the clause evaluates to in it and
\* t the place of the tuple in the stream.
ForTuples(c, tuple, value) ==
  [p \in DOMAIN value |-> (c.var :> <<value[p]>>) @@ (c.pos :> <<Number(p)>>) @@ tuple]
LetTuples(c, tuple, value) == <<(c.var :> value) @@ tuple>>
WhereTuples(tuple, value) == IF Ebv(value) THEN <<tuple>> ELSE <<>>
CountTuples(c, tuple, t) == <<(c.var :> <<Number(t)>>) @@ tuple>>

\* order by collects its tuples, with their keys, before it returns the first
Ordered(keyed) ==
  LET sorted == SortSeq(keyed, InOrder) IN [k \in DOMAIN sorted |-> sorted[k].tuple]

\* What the clause at place i makes of the stream.  (The streams are bound by
\* quantifiers, not by LET, for TLC to evaluate them once.)
Streamed(c, i, stream, dot, at) ==
  LET ValueOf(t) == Value(c.expr, stream[t], dot, at \o <<i, t>>)
      Each(t) ==
        CASE c.op = "for" -> ForTuples(c, stream[t], ValueOf(t))
          [] c.op = "let" -> LetTuples(c, stream[t], ValueOf(t))
          [] c.op = "where" -> WhereTuples(stream[t], ValueOf(t))
          [] c.op = "count" -> CountTuples(c, stream[t], t)
          [] c.op = "order" -> <<[key |-> ValueOf(t), at |-> t, tuple |-> stream[t]]>>
      each == FlattenSeq([t \in DOMAIN stream |-> Each(t)])
  IN IF c.op = "order" THEN Ordered(each) ELSE each

The(set) == CHOOSE x \in set : TRUE

\* The tuples after the clauses, each with the variables it binds.
Tuples(cs, env, dot, at) ==
  IF cs = <<>> THEN <<env>>
  ELSE The({Streamed(cs[Len(cs)], Len(cs), stream, dot, at) :
              stream \in {Tuples(Before(cs, Len(cs)), env, dot, at)}})

Value(e, env, dot, at) ==
  LET Arg(k) == Value(e.args[k], env, dot, at \o <<k>>)
  IN CASE e.op = "const" -> [k \in DOMAIN e.items |-> Number(e.items[k])]
       [] e.op = "var" -> IF e.name \in DOMAIN env THEN env[e.name] ELSE Unbound
       [] e.op = "new" -> <<<<0>> \o at>>
       [] e.op = "dot" -> <<dot>>
       [] e.op = "concat" -> Arg(1) \o Arg(2)
       [] e.op = "and" -> <<Number(IF Ebv(Arg(1)) /\ Ebv(Arg(2)) THEN 1 ELSE 0)>>
       [] e.op = "map" ->
            The({FlattenSeq([k \in DOMAIN items |-> Value(e.args[2], env, items[k], at \o <<2, k>>)]) :
                   items \in {Arg(1)}})
       [] e.op = "flwor" ->
            The({FlattenSeq([t \in DOMAIN stream |-> Value(e.ret, stream[t], dot, at \o <<0, t>>)]) :
                   stream \in {Tuples(e.clauses, env, dot, at)}})

\* What a caller can tell of a result: the numbers, and which nodes are the
\* same node.
Observed(value) ==
  [k \in DOMAIN value |->
     IF IsNode(value[k]) THEN <<0, CHOOSE j \in 1 .. k : value[j] = value[k]
                                     /\ \A i \in 1 .. j - 1 : value[i] # value[k]>>
     ELSE value[k]]

-----------------------------------------------------------------------------
(* Static analysis.                                                        *)

Unlimited == 1000000
Plus(a, b) == IF Unlimited \in {a, b} THEN Unlimited ELSE a + b
Product(a, b) == IF Unlimited \in {a, b} THEN Unlimited ELSE a * b

Exactly(n) == [min |-> n, max |-> n]
Multiply(a, b) == [min |-> a.min * b.min, max |-> Product(a.max, b.max)]

\* a maximum of 0 would make the type of the tuples the empty sequence
ForCardinality(parent, e) ==
  LET product == Multiply(parent, e)
  IN IF product.max = 0 THEN [product EXCEPT !.max = 1] ELSE product
WhereCardinality(parent) == [parent EXCEPT !.min = 0]

RECURSIVE Card(_, _), TupleCardinality(_, _), Known(_, _)

\* mutant: a where keeps all the tuples
TupleCardinality_WhereKeeps(cs, known) ==
  IF cs = <<>> THEN Exactly(1)
  ELSE LET c == cs[Len(cs)]
           parent == TupleCardinality(Before(cs, Len(cs)), known)
       IN IF c.op = "for" THEN ForCardinality(parent, Card(c.expr, Known(Before(cs, Len(cs)), known))) ELSE parent

\* How many tuples there are after the clauses.
TupleCardinality(cs, known) ==
  IF cs = <<>> THEN Exactly(1)
  ELSE LET c == cs[Len(cs)]
           parent == TupleCardinality(Before(cs, Len(cs)), known)
       IN CASE c.op = "for" -> ForCardinality(parent, Card(c.expr, Known(Before(cs, Len(cs)), known)))
            [] c.op = "where" -> WhereCardinality(parent)
            [] OTHER -> parent

\* The cardinality of the variables after the clauses.
Known(cs, known) ==
  IF cs = <<>> THEN known
  ELSE LET c == cs[Len(cs)]
           before == Known(Before(cs, Len(cs)), known)
       IN CASE c.op \in {"for", "count"} -> (c.var :> Exactly(1)) @@ (c.pos :> Exactly(1)) @@ before
            [] c.op = "let" -> (c.var :> Card(c.expr, before)) @@ before
            [] OTHER -> before

Card(e, known) ==
  CASE e.op = "const" -> Exactly(Len(e.items))
    [] e.op = "var" -> IF e.name \in DOMAIN known THEN known[e.name] ELSE Exactly(1)
    [] e.op \in {"new", "dot", "and"} -> Exactly(1)
    [] e.op = "concat" ->
         LET l == Card(e.args[1], known)
             r == Card(e.args[2], known)
         IN [min |-> l.min + r.min, max |-> Plus(l.max, r.max)]
    [] e.op = "map" -> Multiply(Card(e.args[1], known), Card(e.args[2], known))
    [] e.op = "flwor" ->
         Multiply(TupleCardinality(e.clauses, known), Card(e.ret, Known(e.clauses, known)))

RECURSIVE FreeVars(_), UsesDot(_), IsCreative(_)

\* StaticAnalysis::isVariableUsed
FreeVars(e) ==
  CASE e.op = "var" -> {e.name}
    [] e.op \in {"concat", "and", "map"} -> FreeVars(e.args[1]) \cup FreeVars(e.args[2])
    [] e.op = "flwor" ->
         (FreeVars(e.ret) \ BoundIn(e.clauses))
           \cup UNION {FreeVars(e.clauses[i].expr) \ BoundIn(Before(e.clauses, i)) : i \in DOMAIN e.clauses}
    [] OTHER -> {}

\* StaticAnalysis::areContextFlagsUsed
UsesDot(e) ==
  CASE e.op = "dot" -> TRUE
    [] e.op \in {"concat", "and"} -> UsesDot(e.args[1]) \/ UsesDot(e.args[2])
    [] e.op = "map" -> UsesDot(e.args[1])
    [] e.op = "flwor" -> UsesDot(e.ret) \/ \E i \in DOMAIN e.clauses : UsesDot(e.clauses[i].expr)
    [] OTHER -> FALSE

\* StaticAnalysis::isCreative
IsCreative(e) ==
  CASE e.op = "new" -> TRUE
    [] e.op \in {"concat", "and", "map"} -> IsCreative(e.args[1]) \/ IsCreative(e.args[2])
    [] e.op = "flwor" -> IsCreative(e.ret) \/ \E i \in DOMAIN e.clauses : IsCreative(e.clauses[i].expr)
    [] OTHER -> FALSE

\* ASTNode::isConstant
IsConstant(e) == FreeVars(e) = {} /\ ~UsesDot(e) /\ ~IsCreative(e)
=============================================================================
