------------------------------- MODULE MCFlwor -------------------------------
(* Queries of two clauses of every kind, and of MaxClauses clauses, and one *)
(* more, of the kinds that move and count; in one FLWOR or two nested ones. *)
EXTENDS Flwor

CONSTANT MaxClauses

MCExternal == [ext |-> <<Number(0), Number(3)>>]
MCContext == Number(7)

Names == <<"a", "b", "c", "d">>

\* A query under construction: its clauses, the variables with one number
\* each, all its variables, and the lets with new nodes in their values.
Empty == [clauses |-> <<>>, numbers |-> {}, names |-> {}, creative |-> {}]

Add(p, c, number, creative) ==
  [clauses |-> Append(p.clauses, c),
   numbers |-> p.numbers \cup (IF number THEN Bound(c) ELSE Bound(c) \cap {c.pos}),
   names |-> p.names \cup Bound(c),
   creative |-> p.creative \cup (IF creative THEN Bound(c) ELSE {})]

FirstFor(p, v) ==
  {Add(p, For(v, NoName, Const(<<0, 1>>)), TRUE, FALSE), Add(p, For(v, "p", Ref("ext")), TRUE, FALSE)}
MoreFor(p, v) ==
  {Add(p, For(v, NoName, Concat(New, New)), FALSE, FALSE)}
  \cup {Add(p, For(v, NoName, Ref(u)), u \in p.numbers, FALSE) : u \in p.names}

FirstLet(p, v) ==
  {Add(p, Let(v, New), FALSE, TRUE)}
  \cup {Add(p, Let(v, Ref(u)), u \in p.numbers, FALSE) : u \in p.names \ p.creative}
  \cup {Add(p, Let(v, Concat(Ref(u), Const(<<5>>))), FALSE, u \in p.creative) : u \in p.names}
MoreLet(p, v) ==
  {Add(p, Let(v, Const(<<1>>)), TRUE, FALSE), Add(p, Let(v, Dot), TRUE, FALSE)}

Others(p, v) ==
  {Add(p, Where(Ref(u)), FALSE, FALSE) : u \in p.numbers}
  \cup {Add(p, Count(v), TRUE, FALSE)}
  \cup (IF Has("order", p.clauses) THEN {} ELSE {Add(p, OrderBy(Ref(u)), FALSE, FALSE) : u \in p.numbers})
MoreOthers(p, v) ==
  {Add(p, Where(And(Ref(u), Ref(w))), FALSE, FALSE) : u \in p.numbers, w \in p.numbers}

Core(p, v) == FirstFor(p, v) \cup FirstLet(p, v) \cup (IF p.clauses = <<>> THEN {} ELSE Others(p, v))
All(p, v) == Core(p, v) \cup MoreFor(p, v) \cup MoreLet(p, v)
               \cup (IF p.clauses = <<>> THEN {} ELSE MoreOthers(p, v))

Long[n \in 0 .. MaxClauses] ==
  IF n = 0 THEN {Empty} ELSE UNION {Core(p, Names[n]) : p \in Long[n - 1]}
Short == UNION {All(p, Names[2]) : p \in All(Empty, Names[1])}

\* The inner FLWOR is what follows the first k clauses; it starts with for or
\* let, and counts only if it cannot be combined with the outer one.
Cuts(cs) ==
  {k \in 1 .. Len(cs) - 1 :
     /\ cs[k + 1].op \in {"for", "let"}
     /\ Has("count", After(cs, k)) => Has("order", After(cs, k))}

Queries(p, results) ==
  {Flwor(p.clauses, r) : r \in results}
  \cup {Flwor(SubSeq(p.clauses, 1, k), Flwor(After(p.clauses, k), r)) :
          k \in Cuts(p.clauses), r \in results}

Twice(p) == {Concat(Ref(u), Ref(w)) : u \in p.names, w \in p.names}
Mapped(p) == {Map(Const(<<0, 1>>), Ref(u)) : u \in p.names}
Longer == UNION {Others(p, Names[MaxClauses + 1]) : p \in Long[MaxClauses]}

Ends(p) == {Concat(Ref(u), Ref(w)) : u \in p.names \cap {"a"}, w \in p.names \cap {"b", "c"}}

MCPrograms ==
  UNION {Queries(p, Twice(p) \cup Mapped(p) \cup {New}) : p \in Short}
  \cup UNION {Queries(p, Ends(p)) : p \in Long[MaxClauses]}
  \cup UNION {Queries(p, {Concat(Ref("a"), Ref("c"))}) :
                p \in {q \in Longer : {"a", "c"} \subseteq q.names}}
=============================================================================
