------------------------------- MODULE FullText -------------------------------
(***************************************************************************)
(* Full text selections of any shape, as FTSelection::optimize() leaves    *)
(* them, executed over one node (src/fulltext).  A selection is built from *)
(* the inside out, one FTSelection object per step; beside what its        *)
(* iterator delivers stands what it declares, as a set of matches that     *)
(* does not depend on any order of evaluation.  Where the code is known to *)
(* deliver something else the selection says so in "status".               *)
(***************************************************************************)
EXTENDS FullTextMatches

CONSTANTS
  Words,         \* the words of texts and queries
  MaxTokens,     \* bound: tokens of the text
  Operands,      \* what FTWords is written with: sequences of strings, which
                 \* are sequences of words
  Ranges,        \* ranges of "distance"
  Windows,       \* sizes of "window"
  MaxSteps       \* bound: FTSelection objects around the first FTWords

VARIABLES
  doc,        \* the tokens of the node's string value
  queryPos,   \* FTContext::queryPos: the number of the next word of the query
  sel,        \* the selection built so far
  steps

vars == <<doc, queryPos, sel, steps>>

-------------------------------------------------------------------------------
(* Tokens *)

\* DefaultTokenStream: positions count up, sentences never go back.
Texts ==
  {[i \in 1..n |-> [word |-> w[i], position |-> i - 1, sentence |-> Cardinality({j \in 2..i : b[j]})]] :
     w \in [1..MaxTokens -> Words], b \in [1..MaxTokens -> BOOLEAN], n \in 0..MaxTokens}

-------------------------------------------------------------------------------
(* Declared meaning: sets of matches, whose tokens are sets as well *)

Token(q, t) == [queryPos |-> q, position |-> t.position, sentence |-> t.sentence]

Asking(tokens) == [includes |-> tokens, excludes |-> {}]

\* A phrase is a run of tokens; words are anywhere in the text.
Runs(ws, q) ==
  {Asking({Token(q + i - 1, doc[p + i]) : i \in DOMAIN ws}) :
     p \in {p \in 0..Len(doc) - Len(ws) : ws # <<>> /\ \A i \in DOMAIN ws : doc[p + i].word = ws[i]}}

Spread(ws, q) ==
  {Asking({Token(q + i - 1, doc[f[i]]) : i \in DOMAIN ws}) :
     f \in {f \in [DOMAIN ws -> DOMAIN doc] : ws # <<>> /\ \A i \in DOMAIN ws : doc[f[i]].word = ws[i]}}

AllOf(l, r) ==
  {[includes |-> m.includes \union n.includes, excludes |-> m.excludes \union n.excludes] : m \in l, n \in r}

\* The ways to make every match of d fail, by one of its tokens each.
NoneOf(d) ==
  LET Failing(m) == {Asking({t}) : t \in m.excludes} \union {[includes |-> {}, excludes |-> {t}] : t \in m.includes}
  IN  FoldSet(LAMBDA m, ways : AllOf(ways, Failing(m)), {Asking({})}, d)

At(m) == {t.position : t \in m.includes}
UnitSet(m, unit) == {TokenUnit(t, unit) : t \in m.includes}

\* Neighbouring tokens of a match, and what is between them, as an integer.
Precedes(s, t) == s.position < t.position \/ (s.position = t.position /\ s.queryPos < t.queryPos)
Neighbours(m) ==
  {<<s, t>> \in m.includes \X m.includes :
     Precedes(s, t) /\ ~\E u \in m.includes : Precedes(s, u) /\ Precedes(u, t)}
Gap(s, t, unit) == TokenUnit(t, unit) - TokenUnit(s, unit) - (IF unit = "words" THEN 1 ELSE 0)

\* The windows of n units around all tokens of a match; what has to be
\* excluded is only what lies in the window.
Windowed(m, n, unit) ==
  {[m EXCEPT !.excludes = {t \in @ : TokenUnit(t, unit) \in f..f + n - 1}] :
     f \in IF m.includes = {} THEN {} ELSE Max(UnitSet(m, unit)) - n + 1..Min(UnitSet(m, unit))}

Holds(d) == \E m \in d : m.excludes = {}

-------------------------------------------------------------------------------
(* Selections *)

\* "losing": true matches may have been lost; "unknown": anything may be.
Statuses == <<"exact", "losing", "unknown">>
Worst(S) == Statuses[Max({CHOOSE i \in 1..3 : Statuses[i] = s : s \in S} \union {1})]
Said(status, condition) == IF condition THEN status ELSE "exact"

\* FTSelection::getType() as far as optimize() asks for it: no selection at
\* all, an FTWord, or another one.
Selection(type, it, declared, status) == [type |-> type, it |-> it, declared |-> declared, status |-> status]

SomeMatch(x, P(_)) == \E i \in DOMAIN x.it.matches : P(x.it.matches[i])
TwiceTheToken(m) == \E i, j \in DOMAIN m.includes : i < j /\ m.includes[i].position = m.includes[j].position

TypeByWords(n) == CASE n = 0 -> "none" [] n = 1 -> "word" [] n > 1 -> "other"

TypeOfWords(option, strings) ==
  LET types == [i \in DOMAIN strings |-> TypeByWords(Len(strings[i]))]
      some  == SelectSeq(types, LAMBDA t : t # "none")
      only  == IF Len(some) = 1 THEN some[1] ELSE IF some = <<>> THEN "none" ELSE "other"
  IN  CASE option = "any" -> only
        [] option = "all" -> IF \E i \in DOMAIN types : types[i] = "none" THEN "none" ELSE only
        [] OTHER -> TypeByWords(Len(FlattenSeq(strings)))

Searches(ws, q) == [i \in DOMAIN ws |-> FTStringSearchMatches(doc, ws[i], q + i - 1)]
ExecuteAllWords(ws, q) == FoldLeft(FTConjunctionMatches, Delivers(<<NothingAsked>>), Searches(ws, q))
ExecuteAnyWord(ws, q) == FoldLeft(FTDisjunctionMatches, NoMatch, Searches(ws, q))
ExecutePhrase(ws, q) ==
  FTDistanceMatches(FTOrderMatches(ExecuteAllWords(ws, q)), [type |-> "exactly", from |-> 0], "words")

WordsBefore(strings, i) == Len(FlattenSeq(SubSeq(strings, 1, i - 1)))

Execute(option, strings, q) ==
  LET phrases == [i \in DOMAIN strings |-> ExecutePhrase(strings[i], q + WordsBefore(strings, i))]
      ws      == FlattenSeq(strings)
  IN  CASE option = "any"       -> FoldLeft(FTDisjunctionMatches, NoMatch, phrases)
        [] option = "all"       -> FoldLeft(FTConjunctionMatches, Delivers(<<NothingAsked>>), phrases)
        [] option = "any word"  -> ExecuteAnyWord(ws, q)
        [] option = "all words" -> ExecuteAllWords(ws, q)
        [] option = "phrase"    -> ExecutePhrase(ws, q)

Declared(option, strings, q) ==
  LET runs == [i \in DOMAIN strings |-> Runs(strings[i], q + WordsBefore(strings, i))]
      ws   == FlattenSeq(strings)
  IN  CASE option = "any"       -> UNION Range(runs)
        [] option = "all"       -> IF runs = <<>> THEN {} ELSE FoldLeft(AllOf, {Asking({})}, runs)
        [] option = "any word"  -> UNION {Runs(<<ws[i]>>, q + i - 1) : i \in DOMAIN ws}
        [] option = "all words" -> Spread(ws, q)
        [] option = "phrase"    -> Runs(ws, q)

AnyallOptions == {"any", "any word", "all", "all words", "phrase"}

\* FTWords with an expression that is evaluated with the query.  When there
\* is no word to look for it finds a match that asks for nothing.
ComputedWords(option, strings, q) ==
  LET it == Execute(option, strings, q)
  IN  Selection("other", it, Declared(option, strings, q),
                Said("unknown", \E i \in DOMAIN it.matches : ~HasToken(it.matches[i])))

\* FTWords with a constant, replaced by FTOr, FTAnd and FTWord objects.
LiteralWords(option, strings, q) ==
  LET kept == IF option = "any" THEN SelectSeq(strings, LAMBDA s : s # <<>>) ELSE strings
      type == TypeOfWords(option, strings)
  IN  Selection(type, IF type = "none" THEN NoMatch ELSE Execute(option, kept, q), Declared(option, strings, q), "exact")

FTWords(strings, q) ==
  {ComputedWords(option, strings, q) : option \in AnyallOptions} \union {LiteralWords(option, strings, q) : option \in AnyallOptions}

\* ftnot: what is false of the argument.  All that its matches include is
\* excluded, which is right when a match asks for one thing only; without an
\* argument there is no selection, although it should always match, and the
\* crash of that is one of the things marked "unknown".
FTUnaryNot(x) ==
  Selection(IF x.type = "none" THEN "none" ELSE "other", FTUnaryNotMatches(x.it), NoneOf(x.declared),
            Said("unknown", \/ x.status # "exact" \/ x.type = "none"
                            \/ SomeMatch(x, LAMBDA m : Len(m.includes \o m.excludes) # 1)))

\* at start, at end
Edge(x, it, position) ==
  Selection(IF x.type = "none" THEN "none" ELSE "other", it, {m \in x.declared : position \in At(m)}, x.status)

AtStart(x) == Edge(x, FTContentAtStartMatches(x.it), 0)
AtEnd(x) == Edge(x, FTContentAtEndMatches(x.it), Len(doc) - 1)

\* entire content
EntireContent(x) ==
  LET it == FTDistanceMatches(x.it, [type |-> "exactly", from |-> 0], "words")
  IN  Selection(IF x.type = "none" THEN "none" ELSE "other",
                FTContentAtEndMatches(FTContentAtStartMatches(it)),
                {m \in x.declared : At(m) = 0..Len(doc) - 1 /\ Cardinality(m.includes) = Cardinality(At(m)) /\ m.includes # {}},
                Worst({x.status, Said("unknown", SomeMatch(x, Excluding))}))

\* ftand, ftor, not in.  An argument that is no selection takes the others of
\* ftand with it, is dropped from ftor and, on the right, from not in.
FTAnd(x, y) ==
  Selection(IF "none" \in {x.type, y.type} THEN "none" ELSE "other",
            FTConjunctionMatches(x.it, y.it), AllOf(x.declared, y.declared), Worst({x.status, y.status}))

FTOr_DroppedWithEither(x, y) ==
  Selection(IF "none" \in {x.type, y.type} THEN "none" ELSE "other",
            FTDisjunctionMatches(x.it, y.it), x.declared \union y.declared, Worst({x.status, y.status}))

FTOr(x, y) ==
  Selection(IF y.type = "none" THEN x.type ELSE IF x.type = "none" THEN y.type ELSE "other",
            IF y.type = "none" THEN x.it ELSE IF x.type = "none" THEN y.it ELSE FTDisjunctionMatches(x.it, y.it),
            x.declared \union y.declared, Worst({x.status, y.status}))

\* The marks of the right argument's tokens are not looked at, so that a match
\* that is not at the start counts against the left one all the same.
Misplaced(m) == \E i \in DOMAIN m.includes : ~Placed(m.includes[i], doc)

FTMildnot(x, y) ==
  Selection(IF "none" \in {x.type, y.type} THEN x.type ELSE "other",
            IF y.type = "none" THEN x.it ELSE FTMildnotMatches(x.it, y.it),
            {m \in x.declared : At(m) \cap UNION {At(n) : n \in y.declared} = {}},
            Worst({x.status, Said("unknown", y.status # "exact"), Said("losing", SomeMatch(y, Misplaced))}))

\* ordered, distance, window, same and different: a single word is left as it
\* is, and what the argument excludes is lost.
Filter(x, it, declared, status) ==
  IF x.type = "word" THEN x
  ELSE Selection(x.type, it, declared, Worst({x.status, status, Said("unknown", SomeMatch(x, Excluding))}))

FTOrder(x) ==
  Filter(x, FTOrderMatches(x.it),
         {m \in x.declared : \A s, t \in m.includes : s.queryPos < t.queryPos => s.position <= t.position}, "exact")

\* A word that occurs twice in the query can be found at one token, which is
\* farther from itself than any other.
FTDistance(x, range, unit) ==
  Filter(x, FTDistanceMatches(x.it, range, unit),
         {m \in x.declared : \A n \in Neighbours(m) : DistanceMatches(range, Gap(n[1], n[2], unit))},
         IF unit = "words" /\ SomeMatch(x, TwiceTheToken)
           THEN Worst({Said("unknown", range.type = "at least"), Said("losing", range.type = "at most")})
           ELSE "exact")

FTScopeSame(x, unit) ==
  Filter(x, FTScopeSameMatches(x.it, unit), {m \in x.declared : Cardinality(UnitSet(m, unit)) <= 1},
         Said("losing", SomeMatch(x, LAMBDA m : Len(m.includes) < 2)))

FTScopeDifferent(x, unit) ==
  Filter(x, FTScopeDifferentMatches(x.it, unit),
         {m \in x.declared : Cardinality(UnitSet(m, unit)) = Cardinality(m.includes)}, "exact")

\* The window looks for what is excluded only behind the first token.
FTWindow(x, n, unit) ==
  LET it == FTWindowMatches(x.it, n, unit)
      Stopped == Len(it.matches) < Cardinality({i \in DOMAIN x.it.matches : InWindow(x.it.matches[i], n, unit)})
  IN  IF x.type = "word" THEN x
      ELSE Selection(x.type, it, UNION {Windowed(m, n, unit) : m \in x.declared},
                     Worst({x.status, Said("losing", Stopped \/ SomeMatch(x, Excluding))}))

-------------------------------------------------------------------------------
(* Building a selection *)

Init ==
  /\ doc \in Texts
  /\ \E strings \in Operands :
       /\ sel \in FTWords(strings, 0)
       /\ queryPos = Len(FlattenSeq(strings))
  /\ steps = 0

Open == steps < MaxSteps /\ sel.status # "unknown"

Around(x) ==
  /\ Open
  /\ sel' = x
  /\ steps' = steps + 1
  /\ UNCHANGED doc

\* ftnot and a positional filter are put around the selection ...
Negate == Around(FTUnaryNot(sel)) /\ UNCHANGED queryPos
Order == Around(FTOrder(sel)) /\ UNCHANGED queryPos
Distance == \E range \in Ranges, unit \in Units : Around(FTDistance(sel, range, unit)) /\ UNCHANGED queryPos
Window == \E n \in Windows, unit \in Units : Around(FTWindow(sel, n, unit)) /\ UNCHANGED queryPos
ScopeSame == \E unit \in {"sentences", "paragraphs"} : Around(FTScopeSame(sel, unit)) /\ UNCHANGED queryPos
ScopeDifferent == \E unit \in {"sentences", "paragraphs"} : Around(FTScopeDifferent(sel, unit)) /\ UNCHANGED queryPos
ContentAtStart == Around(AtStart(sel)) /\ UNCHANGED queryPos
ContentAtEnd == Around(AtEnd(sel)) /\ UNCHANGED queryPos
ContentEntire == Around(EntireContent(sel)) /\ UNCHANGED queryPos

\* ... or it is the left argument of an operator whose right one is written
\* after it.
Combine(Operator(_, _)) ==
  Open /\ \E strings \in Operands : \E w \in FTWords(strings, queryPos) :
    /\ \E y \in {w, FTUnaryNot(w), AtStart(w)} : Around(Operator(sel, y))
    /\ queryPos' = queryPos + Len(FlattenSeq(strings))

And == Combine(FTAnd)
Or == Combine(FTOr)
MildNot == Combine(FTMildnot)

Next ==
  \/ Negate \/ Order \/ Distance \/ Window \/ ScopeSame \/ ScopeDifferent
  \/ ContentAtStart \/ ContentAtEnd \/ ContentEntire \/ And \/ Or \/ MildNot

Spec == Init /\ [][Next]_vars

\* What ftcontains comes to.  An optimize() that leaves nothing sets a null
\* selection, and the next call on it follows the null pointer.
FTContains == IF sel.type = "none" THEN "crash" ELSE BoolResult(sel.it, doc)

-------------------------------------------------------------------------------
(* Properties *)

\* What ftcontains finds is in the text as the selection declares it.
FindsOnlyWhatIsThere == sel.status # "unknown" /\ FTContains = "true" => Holds(sel.declared)

\* What is in the text as the selection declares it is found; and a selection
\* that some text satisfies is not optimized away, for that crashes.  Exception:
\* the ones nothing can satisfy do crash.
FindsWhatIsThere ==
  Holds(sel.declared) =>
    /\ sel.status = "exact" => FTContains # "false"
    /\ sel.status # "unknown" => FTContains # "crash"
==============================================================================
