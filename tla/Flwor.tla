-------------------------------- MODULE Flwor --------------------------------
(***************************************************************************)
(* The optimization of a FLWOR expression, perhaps with another FLWOR as   *)
(* its result: static typing, which moves let, where, count and order by   *)
(* clauses towards the front; then the PartialEvaluator, which puts the    *)
(* value of a let in the place of its variable, folds constants, combines  *)
(* nested FLWORs and drops empty ones, with the typing repeated after each *)
(* of its changes; then static typing again.                               *)
(*                                                                         *)
(* level 1 is the outer FLWOR, level 2 the one in its result.              *)
(***************************************************************************)
EXTENDS FlworExpressions, SequencesExt

CONSTANTS
  Programs,   \* the FLWOR expressions a query may have
  External,   \* the values of the external variables
  Context     \* the context item

ASSUME ProgramsAssumption ==
  \A p \in Programs : p.op = "flwor" /\ FreeVars(p) \subseteq DOMAIN External

VARIABLES
  query,      \* the expression as it stands
  promised,   \* what the query as written evaluates to
  pass,       \* "static", "partial" or "final"
  pc,         \* "type", "count", "inline", "fold", "combine", "drop", "done"
  home,       \* the FLWOR that is optimized
  level,      \* the FLWOR that is typed, home or the one in its result
  round,      \* the first or the second inlining of this FLWOR
  typing,     \* the clauses whose typing is under way, innermost call last
  typed,      \* how many clauses of this FLWOR static typing has finished
  first, rest,\* the lets to inline: these in order, then those in any order
  changed     \* whether this inlining has changed something

vars == <<query, promised, pass, pc, home, level, round, typing, typed, first, rest, changed>>
control == <<pass, home, round, first, rest, changed>>

Nested(q) == q.op = "flwor" /\ q.ret.op = "flwor"
At(q, l) == IF l = 1 THEN q ELSE q.ret
WithAt(q, l, e) == IF l = 1 THEN e ELSE [q EXCEPT !.ret = e]

Clauses == At(query, level).clauses
WithClauses(cs) == WithAt(query, level, [At(query, level) EXCEPT !.clauses = cs])

Unknown == [min |-> 0, max |-> Unlimited]

\* the cardinality of what is in scope at the start of this FLWOR
KnownAt(l) ==
  LET global == [v \in DOMAIN External |-> Unknown]
  IN IF l = 1 THEN global ELSE Known(query.clauses, global)

Evaluated(q) == Observed(Value(q, External, Context, <<1>>))

-----------------------------------------------------------------------------
(* Typing: a clause moves in front of the one before it while it can, and  *)
(* both are typed again, the moved one first.                              *)

\* canPushLetBack, canPushWhereBack, canPushCountBack, canPushOrderByBack: e
\* is what the clause evaluates, cs the clauses before it.
RECURSIVE CanPushLet(_, _), CanPushWhere(_, _), CanPushCount(_), CanPushOrder(_, _)

\* mutant: the position variable is forgotten
CanPushLet_NoPosition(e, cs) ==
  /\ cs # <<>>
  /\ LET c == cs[Len(cs)]
         deeper == CanPushLet(e, Before(cs, Len(cs)))
     IN /\ c.var \notin FreeVars(e)
        /\ c.op = "for" \/ deeper

CanPushLet(e, cs) ==
  /\ cs # <<>>
  /\ LET c == cs[Len(cs)]
         deeper == CanPushLet(e, Before(cs, Len(cs)))
     IN /\ Bound(c) \cap FreeVars(e) = {}
        /\ c.op = "for" \/ deeper

CanPushWhere(e, cs) ==
  /\ cs # <<>>
  /\ LET c == cs[Len(cs)]
     IN \/ c.op \in {"for", "let"} /\ Bound(c) \cap FreeVars(e) = {}
        \/ c.op = "where" /\ CanPushWhere(e, Before(cs, Len(cs)))
        \/ c.op = "order"

CanPushCount(cs) ==
  /\ cs # <<>>
  /\ LET c == cs[Len(cs)]
     IN \/ c.op = "let"
        \/ c.op = "count" /\ CanPushCount(Before(cs, Len(cs)))

CanPushOrder(e, cs) ==
  /\ cs # <<>>
  /\ LET c == cs[Len(cs)]
     IN \/ c.op \in {"for", "let"} /\ Bound(c) \cap FreeVars(e) = {}
        \/ c.op = "where" /\ CanPushOrder(e, Before(cs, Len(cs)))

CanPush(c, cs) ==
  CASE c.op = "let" -> ~IsCreative(c.expr) /\ CanPushLet(c.expr, cs)
    [] c.op = "where" -> CanPushWhere(c.expr, cs)
    [] c.op = "count" -> CanPushCount(cs)
    [] c.op = "order" -> CanPushOrder(c.expr, cs)
    [] OTHER -> FALSE

Swapped(cs, i) == [cs EXCEPT ![i - 1] = cs[i], ![i] = cs[i - 1]]

Running(what) == pc = what /\ UNCHANGED promised
Now == typing[Len(typing)]
Calls == SubSeq(typing, 1, Len(typing) - 1)

TypeNext ==
  /\ Running("type") /\ typing = <<>> /\ typed < Len(Clauses)
  /\ typing' = <<typed + 1>>
  /\ UNCHANGED <<query, pc, level, typed, control>>

\* only with a static context, which the PartialEvaluator's typing has not
Splits == pass # "partial" /\ Clauses[Now].op = "where" /\ Clauses[Now].expr.op = "and"

Split ==
  /\ Running("type") /\ typing # <<>> /\ Splits
  /\ query' = WithClauses(Before(Clauses, Now)
                \o [k \in 1 .. 2 |-> Where(Clauses[Now].expr.args[k])] \o After(Clauses, Now))
  /\ typing' = Calls \o <<Now + 1, Now>>
  /\ UNCHANGED <<pc, level, typed, control>>

PushBack ==
  /\ Running("type") /\ typing # <<>> /\ ~Splits
  /\ CanPush(Clauses[Now], Before(Clauses, Now))
  /\ query' = WithClauses(Swapped(Clauses, Now))
  /\ typing' = Append(typing, Now - 1)
  /\ UNCHANGED <<pc, level, typed, control>>

Settle ==
  /\ Running("type") /\ typing # <<>> /\ ~Splits
  /\ ~CanPush(Clauses[Now], Before(Clauses, Now))
  /\ typing' = Calls
  /\ typed' = IF Now > typed THEN Now ELSE typed
  /\ UNCHANGED <<query, pc, level, control>>

\* the result is typed after the clauses
TypeResult ==
  /\ Running("type") /\ typing = <<>> /\ typed = Len(Clauses)
  /\ level = 1 /\ Nested(query)
  /\ level' = 2 /\ typed' = 0
  /\ UNCHANGED <<query, pc, typing, control>>

\* What follows the typing: a change by the PartialEvaluator starts the
\* optimization of this FLWOR again.
Typed ==
  /\ Running("type") /\ typing = <<>> /\ typed = Len(Clauses)
  /\ level = 2 \/ ~Nested(query)
  /\ level' = home
  /\ CASE pass = "static" -> pc' = "count" /\ pass' = "partial" /\ round' = 1
       [] pass = "final" -> pc' = "done" /\ UNCHANGED <<pass, round>>
       [] pass = "partial" -> /\ pc' = IF changed THEN "count" ELSE IF round = 1 THEN "fold" ELSE "drop"
                              /\ round' = IF changed THEN 1 ELSE round
                              /\ UNCHANGED pass
  /\ UNCHANGED <<query, home, typing, typed, first, rest, changed>>

-----------------------------------------------------------------------------
(* Inlining lets.                                                          *)

Times(a, b) == IF a = 0 \/ b = 0 THEN 0 ELSE Product(a, b)

\* CountVarUse: how often evaluating e evaluates the variable, at most.
RECURSIVE Uses(_, _, _)

\* Uses in the clauses after clause i, and in the result.
\* mutant: how often a clause is evaluated is left out
UsesAfter_Once(cs, i, ret, name, known) ==
  FoldSeq(Plus, Uses(ret, name, known),
          [k \in 1 .. Len(cs) - i |-> Uses(cs[i + k].expr, name, known)])

UsesAfter(cs, i, ret, name, known) ==
  LET Term(j, e) == Times(Uses(e, name, Known(Before(cs, j), known)),
                          TupleCardinality(Before(cs, j), known).max)
  IN FoldSeq(Plus, Term(Len(cs) + 1, ret),
             [k \in 1 .. Len(cs) - i |-> Term(i + k, cs[i + k].expr)])

Uses(e, name, known) ==
  CASE e.op = "var" -> IF e.name = name THEN 1 ELSE 0
    [] e.op \in {"concat", "and"} -> Plus(Uses(e.args[1], name, known), Uses(e.args[2], name, known))
    [] e.op = "map" -> Plus(Uses(e.args[1], name, known),
                            Times(Uses(e.args[2], name, known), Card(e.args[1], known).max))
    [] e.op = "flwor" -> UsesAfter(e.clauses, 0, e.ret, name, known)
    [] OTHER -> 0

Cheap(e) == IsConstant(e) \/ e.op \in {"var", "dot"}
Lets(which(_)) == {i \in DOMAIN Clauses : Clauses[i].op = "let" /\ which(i)}

\* findLetsToInline and countLetUsage: the uses are counted once, before any
\* let is inlined.
CountUses ==
  /\ Running("count")
  /\ first' = SetToSortSeq(Lets(LAMBDA i : Cheap(Clauses[i].expr)), <)
  /\ rest' = Lets(LAMBDA i : /\ ~Cheap(Clauses[i].expr)
                             /\ UsesAfter(Clauses, i, At(query, level).ret,
                                          Clauses[i].var, KnownAt(level)) <= 1)
  /\ pc' = "inline" /\ changed' = FALSE
  /\ UNCHANGED <<query, pass, home, level, round, typing, typed>>

\* The scope of the variable name and of the variables, and the context item,
\* that its value needs: active while name means the let, inScope while they
\* mean what they mean at the let.
Within(s, cs, name, value) ==
  [active |-> s.active /\ name \notin BoundIn(cs),
   inScope |-> s.inScope /\ BoundIn(cs) \cap FreeVars(value) = {}]
WithinMap(s, value) == [s EXCEPT !.inScope = @ /\ ~UsesDot(value)]

RECURSIVE Substitute(_, _, _, _), Met(_, _, _, _)

SubstituteClauses(cs, s, name, value) ==
  [i \in DOMAIN cs |-> [cs[i] EXCEPT !.expr =
     Substitute(@, Within(s, Before(cs, i), name, value), name, value)]]

\* VariableScopeTracker with InlineVar::optimizeVariable
Substitute(e, s, name, value) ==
  CASE e.op = "var" -> IF e.name = name /\ s.active /\ s.inScope THEN value ELSE e
    [] e.op \in {"concat", "and"} ->
         [e EXCEPT !.args = <<Substitute(@[1], s, name, value), Substitute(@[2], s, name, value)>>]
    [] e.op = "map" ->
         [e EXCEPT !.args = <<Substitute(@[1], s, name, value),
                              Substitute(@[2], WithinMap(s, value), name, value)>>]
    [] e.op = "flwor" ->
         Flwor(SubstituteClauses(e.clauses, s, name, value),
               Substitute(e.ret, Within(s, e.clauses, name, value), name, value))
    [] OTHER -> e

\* The dry run: which kinds of uses of the let there are, those its value can
\* take the place of and those where it would mean something else.
Met(e, s, name, value) ==
  CASE e.op = "var" -> IF e.name = name /\ s.active
                       THEN {IF s.inScope THEN "replaced" ELSE "captured"} ELSE {}
    [] e.op \in {"concat", "and"} -> Met(e.args[1], s, name, value) \cup Met(e.args[2], s, name, value)
    [] e.op = "map" -> Met(e.args[1], s, name, value) \cup Met(e.args[2], WithinMap(s, value), name, value)
    [] e.op = "flwor" ->
         Met(e.ret, Within(s, e.clauses, name, value), name, value)
           \cup UNION {Met(e.clauses[i].expr, Within(s, Before(e.clauses, i), name, value), name, value)
                        : i \in DOMAIN e.clauses}
    [] OTHER -> {}

AtLet == [active |-> TRUE, inScope |-> TRUE]

\* InlineVar::inlineLet for the let at i; whether it does anything, whether
\* the let goes, and the FLWOR afterwards.  The limit on the size of the
\* query is above what these expressions reach.
\* mutant: inlining counts as a change though nothing was replaced
Inlined_AlwaysDoes(f, i) ==
  LET c == f.clauses[i]
      scope == Flwor(After(f.clauses, i), f.ret)
      removed == "captured" \notin Met(scope, AtLet, c.var, c.expr)
      done == Substitute(scope, AtLet, c.var, c.expr)
  IN [does |-> c.var \in FreeVars(c.expr) => removed, removed |-> removed,
      flwor |-> Flwor((IF removed THEN Before(f.clauses, i) ELSE SubSeq(f.clauses, 1, i)) \o done.clauses,
                      done.ret)]

Inlined(f, i) ==
  LET c == f.clauses[i]
      scope == Flwor(After(f.clauses, i), f.ret)
      met == Met(scope, AtLet, c.var, c.expr)
      removed == "captured" \notin met
      done == Substitute(scope, AtLet, c.var, c.expr)
  IN [does |-> "replaced" \in met /\ (c.var \in FreeVars(c.expr) => removed),
      removed |-> removed,
      flwor |-> Flwor((IF removed THEN Before(f.clauses, i) ELSE SubSeq(f.clauses, 1, i)) \o done.clauses,
                      done.ret)]

Inline(i) ==
  LET result == Inlined(At(query, level), i)
      Moved(j) == IF result.does /\ result.removed /\ j > i THEN j - 1 ELSE j
  IN /\ query' = IF result.does THEN WithAt(query, level, result.flwor) ELSE query
     /\ changed' = (changed \/ result.does)
     /\ first' = [k \in DOMAIN SelectSeq(first, LAMBDA j : j # i) |-> Moved(SelectSeq(first, LAMBDA j : j # i)[k])]
     /\ rest' = {Moved(j) : j \in rest \ {i}}

InlineLet ==
  /\ Running("inline")
  /\ IF first # <<>> THEN Inline(Head(first)) ELSE \E i \in rest : Inline(i)
  /\ UNCHANGED <<pass, pc, home, level, round, typing, typed>>

\* inlineLets ends with the typing of the FLWOR
InlinedLets ==
  /\ Running("inline") /\ first = <<>> /\ rest = {}
  /\ pc' = "type" /\ typed' = 0
  /\ UNCHANGED <<query, level, typing, control>>

-----------------------------------------------------------------------------
(* Folding, combining and dropping.                                        *)

\* an expression that uses nothing, so has only numbers, becomes a literal
Literal(e) == LET value == Value(e, External, Context, <<1>>)
              IN Const([k \in DOMAIN value |-> value[k][1]])

RECURSIVE Folded(_)
Folded(e) ==
  CASE e.op \in {"map", "and"} /\ IsConstant(e) -> Literal(e)
    [] e.op \in {"concat", "map", "and"} /\ ~IsConstant(e) -> [e EXCEPT !.args = <<Folded(@[1]), Folded(@[2])>>]
    [] OTHER -> e

\* the expressions of the clauses are optimized, then the result
FoldClauses ==
  /\ Running("fold")
  /\ query' = WithAt(query, level,
       Flwor([i \in DOMAIN Clauses |-> [Clauses[i] EXCEPT !.expr = Folded(@)]],
             Folded(At(query, level).ret)))
  /\ IF level = 1 /\ Nested(query)
     THEN level' = 2 /\ home' = 2 /\ round' = 1 /\ pc' = "count"
     ELSE UNCHANGED <<level, home, round>> /\ pc' = "combine"
  /\ UNCHANGED <<pass, typing, typed, first, rest, changed>>

Has(op, cs) == \E i \in DOMAIN cs : cs[i].op = op

CombineNested ==
  /\ Running("combine")
  /\ query' = IF level = 1 /\ Nested(query) /\ ~Has("order", query.ret.clauses)
              THEN Flwor(query.clauses \o query.ret.clauses, query.ret.ret)
              ELSE query
  /\ pc' = "count" /\ round' = 2
  /\ UNCHANGED <<pass, home, level, typing, typed, first, rest, changed>>

DropEmpty ==
  /\ Running("drop")
  /\ LET f == At(query, level)
         kept == IF IsConstant(f) THEN Literal(f) ELSE IF f.clauses = <<>> THEN f.ret ELSE f
     IN /\ query' = WithAt(query, level, kept)
        /\ IF level = 2
           THEN /\ level' = 1 /\ home' = 1 /\ pc' = "combine"
                /\ UNCHANGED <<pass, typed>>
           ELSE /\ pass' = "final" /\ typed' = 0
                /\ pc' = IF kept.op = "flwor" THEN "type" ELSE "done"
                /\ UNCHANGED <<level, home>>
  /\ UNCHANGED <<round, typing, first, rest, changed>>

-----------------------------------------------------------------------------

Init ==
  /\ query \in Programs
  /\ promised = Evaluated(query)
  /\ pass = "static" /\ pc = "type" /\ home = 1 /\ level = 1 /\ round = 1
  /\ typing = <<>> /\ typed = 0
  /\ first = <<>> /\ rest = {} /\ changed = FALSE

Next ==
  \/ TypeNext \/ Split \/ PushBack \/ Settle \/ TypeResult \/ Typed
  \/ CountUses \/ InlineLet \/ InlinedLets
  \/ FoldClauses \/ CombineNested \/ DropEmpty

Spec == Init /\ [][Next]_vars /\ WF_vars(Next)

-----------------------------------------------------------------------------

\* Whatever the optimizer has done so far, the query evaluates to what it did
\* as it was written: the same items in the same order, and the same nodes in
\* the places that held the same node.  No clause and no inlined value has been
\* moved to where a variable it uses is not in scope; nothing checks the
\* variables again after the first typing.
ValueKept == FreeVars(query) \subseteq DOMAIN External /\ Evaluated(query) = promised

\* What typing says of the number of tuples after each clause, and of the
\* number of items of the result, holds; inlining relies on it to tell that a
\* let is used at most once.
CardinalitySound ==
  LET Fits(n, card) == card.min <= n /\ n <= card.max
      outer == IF query.op = "flwor" THEN query.clauses ELSE <<>>
      known == [v \in DOMAIN External |-> Unknown]
  IN /\ Fits(Len(Value(query, External, Context, <<1>>)), Card(query, known))
     /\ \A i \in 0 .. Len(outer) :
          Fits(Len(Tuples(SubSeq(outer, 1, i), External, Context, <<1>>)),
               TupleCardinality(SubSeq(outer, 1, i), known))

\* The optimizer comes to an end: clauses do not push each other back for ever,
\* and it does not find something to inline again and again.
Terminates == <>(pc = "done")
=============================================================================
