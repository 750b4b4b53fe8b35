# XQilla in TLA+

XQilla is an XQuery, XPath 2 and XQuery Update engine in C++ on top of Xerces-C.
This directory holds TLA+ models of the parts of it that keep state, TLC
configurations that check them on small instances, and TLAPS proofs. Paths of
the code are relative to the repository, so `src/runtime` is the directory of
the library's sources of that name (`src/src/runtime` when the repository
itself is checked out under `src/`, as in `PROJECT.json`).

## 1. The system

A query is parsed into a tree of `ASTNode`s, resolved, typed and rewritten, and
evaluated. Evaluation is single threaded and lazy: an expression returns a
`Result`, an iterator that computes the next item when it is asked. Constructors,
copies and serialization do not go through items but through a stream of events
(`EventHandler`): start and end of documents and elements, attributes,
namespaces, text. Filters sit in that stream. At its end a sequence builder makes
nodes, of one of two data models, or a serializer writes text. Updating
expressions return no items but a pending update list, which is applied to the
Xerces DOM at the end.

| Component | State it keeps | Operations | Talks to | What makes it right |
|---|---|---|---|---|
| Lazy result buffer (`src/runtime`) | the items drawn, the read count, who refers to it | create, copy, drop, next, skip, convert | the expression's `Result`, variable stores, tuples | sharing is invisible; evaluation stays lazy; nothing is drawn twice or lost |
| Fast XDM builder (`src/fastxdm/FastXDMDocument`, `-SequenceBuilder`) | three growing arrays, a stack, waiting text | one handler for each event | constructors' filters, `toEvents`, parsers | the arrays are the tree; no write or walk leaves them |
| Fast XDM nodes (`-NodeImpl`) | a place in an array | axes, string value, order, identity | path steps, sorting | axes and order agree with the tree |
| Namespace fixup (`src/events/NSFixupFilter`) | entries for open elements, a counter | one handler for each event | in front of serializers | the output is read back as what was sent |
| No-inherit filter | prefixes of two levels, an open tag | one handler for each event | behind element constructors | children inherit nothing, and nothing else changes |
| Element constructor's filter (`src/ast/XQElementConstructor`) | names seen, content seen | attribute and namespace checks | in front of builders | no attribute after content, no name twice |
| Content filter, serializer (`src/events`) | flags, levels | one handler for each event | constructors, files | spaces between atomic values; closed tags |
| Document projection (`src/optimizer/QueryPathTreeGenerator`, `src/events/QueryPathTreeFilter`) | a tree of path nodes; a stack of open elements | a step, a use of a result; one handler for each event | optimizer, parser, builder | a query answers over the projected document as over the whole one |
| XQuery Update (`src/update`, `src/context/UpdateFactory`, `src/xerces/XercesUpdateFactory`) | the list, nodes to delete, trees to revalidate, documents to write | ten expressions, thirteen apply functions, completion | the DOM, the validator, `URIResolver`s | the tree is what the list says, whatever the kinds, order and targets of the updates |
| Xerces data model (`src/xerces`) | pointers into the DOM | axes, order, builder | Xerces-C | a query answers as over Fast XDM |
| Sequences, closures, variable stores | chains of scopes | bind, look up, capture | all expressions | a closure sees what was bound where it was made |
| Memory managers, string pool (`src/framework`) | lists of blocks, buckets | allocate, release, intern | everything | one pointer for one string; released once |
| Paths (`src/ast/XQNav`, `-Step`, `-DocumentOrder`) | what typing knows of each step; half-walked axes | typing a step, dropping the sort; `next()` of each stage | nodes and axes, optimizer | the selected nodes, once and in order, whether sorted or not |
| FLWOR (`src/ast/XQReturn`, `-Tuple`, `src/optimizer/PartialEvaluator`) | the chain of clauses, what is to be inlined | typing, moving a clause, inlining, folding, combining | evaluation | rewrites keep the value and end |
| Static typing (`StaticType`, every `staticTypingImpl`) | a type for each expression | one rule for each class | optimizer | no value escapes its type |
| Full text (`src/fulltext`) | iterators over matches, buffers | `next()`, `reset()`, `optimize()` | tokens of a node | finds what is declared; ends |
| Dates, times and durations (`src/items/impl`, `src/utils/DateUtils.cpp`) | a point in UTC or in local time, a zone; a sign and two magnitudes | parse, print, cast, add, subtract, adjust, compare | operators, the context's timezone and date | the calendar's results, through any chain of operators |
| Other functions, operators and items, MAPM | none, or per call | computation | evaluation | the standard's results |
| Contexts, document cache, module loading | tables | set, look up, parse | files, Xerces | one document for one URI |
| Debugger, APIs (simple, XQC, DOM), test runner | thin wrappers | | users | |

What is hard here is not concurrency, as nothing runs in parallel. It is laziness
(several readers at several places of a value that is still being computed, and
that must be let go of when nobody needs it), event order (what is known when an
event comes, and what has been sent already), layouts that leave out what can be
computed (parents from levels, ends from markers), names whose meaning depends
on where they stand, and updates that are checked against the tree as it was and
applied one after the other to a tree that changes under them.

`PROJECT.json` lists the components with what is modelled of each, and the
hazards at their lines.

## 2. The modules

| Module | Models | Extends |
|---|---|---|
| `LazyValue` | what a lazily evaluated value promises (abstract) | |
| `ResultBuffer` | `ResultBufferImpl`, `ResultBuffer`, `BufferedResult`, reference counts | |
| `ResultBuffer_proofs` | theorems: one owner for the stream, the buffer is a stretch of it, it implements `LazyValue`, lazily | `ResultBuffer` |
| `XDMTree` | what a stream of events means: a tree (abstract) | |
| `FastXDMDocument` | `FastXDMDocument`, `FastXDMSequenceBuilder`, the guards of the constructors' filters | |
| `FastXDMNodeImpl` | axes, string value, order, identity | `FastXDMDocument` |
| `FastXDM_proofs` | theorems: the arrays are the tree, axes and order | `FastXDMNodeImpl` |
| `FastXDMCopy` | `FastXDMDocument::toEvents` into a builder, the namespace axis | `FastXDMDocument` |
| `XercesNodeImpl` | the DOM that `XercesSequenceBuilder` makes, the axes of `src/xerces`, string value, namespaces, copies | `FastXDMNodeImpl`, `FastXDMCopy` |
| `NoInheritFilter` | the filter, between the builder's events and the builder | `FastXDMCopy` |
| `NSFixupFilter` | the filter, and a reader of its output | |
| `NSFixupFilter_proofs` | theorems: what is read back | `NSFixupFilter` |
| `XercesDOM` | the DOM calls updates use (external), namespaces in scope, `removeType` | |
| `UpdateExpressions` | `createUpdateList()` of every updating expression, as functions | `XercesDOM` |
| `UpdateFactory` | `applyUpdates()`, the apply functions, completion | `UpdateExpressions` |
| `UpdateFactory_proofs` | theorems: the DOM stays a forest, copies only, documents saved, types withdrawn, prefixes bound once | `UpdateFactory` |
| `PathProperties` | the properties of `StaticAnalysis` for axes and paths, and what each means of a document | |
| `PathResult` | what a path promises whoever pulls it (abstract) | |
| `PathSteps` | `XQNav`'s typing, the chain of `StepResult`s, `XQDocumentOrder` | `PathProperties` |
| `PathSteps_proofs` | theorems: claims, order, the promise of `PathResult` | `PathSteps` |
| `FlworExpressions` | FLWOR expressions, their evaluation, and their cardinalities as typing has them | |
| `Flwor` | typing of tuples and the passes of `PartialEvaluator` over a FLWOR | `FlworExpressions` |
| `StaticType` | `StaticType`, `SequenceType::matches` | |
| `StaticTyping` | `staticTypingImpl` and evaluation of expressions, side by side | `StaticType` |
| `StaticTyping_proofs` | theorems: no value escapes its static type | `StaticTyping` |
| `MatchEnumeration` | what a conjunction of selections promises (abstract) | |
| `FTConjunction` | `FTConjunctionMatches`, `BufferedMatches` | |
| `FTConjunction_proofs` | theorems: the odometer | `FTConjunction` |
| `FullTextMatches` | what each `AllMatches` class delivers | |
| `FullText` | the selections with `optimize()` and `execute()`, beside what they declare | `FullTextMatches` |
| `QueryPathTree` | the path nodes and the generator's steps | |
| `QueryPathTreeFilter` | collecting paths, the filter, and evaluation over both documents | `QueryPathTree` |
| `QueryPathTreeFilter_proofs` | theorems: nodes are built in place | `QueryPathTreeFilter` |
| `DateUtils` | the calendar arithmetic of `DateUtils`, `Timezone` | |
| `DateTimes` | durations; dateTime, date, time and the five incomplete dates | `DateUtils` |
| `DateArithmetic` | the operators, casts and functions one after the other, beside a clock over a calendar that is counted year by year (reference, no code) | `DateTimes` |

A module `MC...` gives small values to the constants of the module it is named
after. `MCFastXDM` takes the axes, the copies, the DOM and the no-inherit filter
together, as all are about the finished document. A definition with a comment that begins with "Mutant" or "BUG"
is a plausible slip in the definition below it, for which `PROJECT.json` names the
property that reports it; no specification uses it.

### Result buffer

A step is one call: `CreateResult`, `CopyHandle`, `DropHandle` on a variable;
`NextShared`, `NextDitch`, `NextDirect`, `NextEmpty`, `Skip`, `ToResultBuffer`,
`DropReader` on an iterator. `NextDitch` is the moment when the last iterator
over a buffer takes the expression's `Result` out of it and the buffer goes
(`BufferedResult::nextOrTail`). `Refs` counts the references as
`ReferenceCounted` does, and a step of dropping something models all that its
destructor releases. `LazyValue` says that a variable is a suffix of one fixed
sequence and each iterator walks it on its own. `Refines` shows that
`ResultBuffer` implements it under the mapping that takes a buffer, a position
and a stream to the suffix that is left.

### Fast XDM

A step is one event. `doc` has the three arrays with their capacities, the
element stack, the previous sibling and the waiting text of
`FastXDMDocument`. Indexes start at 1, and 0 is the code's `(unsigned int)-1`
and null, so that rewriting indexes to pointers in `endEvent()` changes nothing.
The guards are those of the filter of the innermost constructor: attributes and
namespaces come before content and no name twice. `XDMTree` is the tree with
parents that the event stream means, and `ImplementsTree` the refinement:
parents are computed from levels, and text that waits is already a node.

`FastXDMNodeImpl` gives, for each axis, the sequence of nodes its `nextNode()`
returns, and compares it with the tree. `FastXDMCopy` sends a node's subtree
with the namespaces in scope and builds it again. `XercesNodeImpl` gives the same
events to the other builder and walks the DOM it makes by its links, one recursive
function for each `nextNode()`; `DataModelsAgree` compares nodes, walks, texts,
namespaces and copies. `NoInheritFilter` folds the events through the filter in
front of another builder, and compares with the document that is built without
it (`NoInheritKept`). It does so for constructed elements only: a document node
never reaches this filter.

### Namespace fixup

A step is one event; the attributes and namespaces of an element come in any order,
for `toEvents()` sends attributes first and the constructors namespaces first
(`XQElementConstructor.cpp:95-106`). The output is kept as the start tags
written so far, and `NamesResolve` reads it by the rules of XML namespaces:
nearest declaration of a prefix. A made-up prefix `p_1` is the sequence
`<<"p", 1>>`. A tree is given by the names of its elements and attributes and its
namespace nodes. In a `mixed` tree an element may use a prefix for several
namespaces, which the constructors let pass, and the filter makes up prefixes; a
tree that was read from a text is not mixed. Two kinds of entries mislead the filter,
and `NamesResolve` and `DeclarationsKept` except them and the names that rely on them,
further in as well (`Misleading`). `Dropped`: a namespace node whose prefix its
element was written with for something else (its own or one the filter made up, like
`p_1`) is not declared, but has an entry. `Hidden`: an attribute that cannot keep its
prefix gets one from further out that means something else by now. `Left` is what `endElementEvent`
leaves of the entries, those up to the newest one that is not above the level.

### XQuery Update

The list is filled by the updating expressions one after the other (`UInsertInto`
and the others, through `UpdateExpressions`, which reject what the expressions
reject); `ApplyUpdates` checks it; each `Apply...` action is one apply function,
enabled for the update that is due by `ApplicationOrder`; `CompleteDeletions`
deletes one marked node, in any order, because `forDeletion_` is a set of
pointers; `CompleteRevalidation` succeeds, with types assigned or not, or fails;
`PutDocument` writes one document or fails; `Complete` ends. `pc = "crash"` is a
null pointer that the code follows. The DOM is the sequence of all nodes ever
made, with Xerces' behaviour as the code relies on it: `setAttributeNode`
displaces an attribute of the same name, `renameNode` takes an attribute out and
sets it again, a removed node has no parent. Schema types are `typed`, `any`
(`xs:anyType`) and `untyped`. Each node remembers its origin: a node of the
start or an item of an update, which is how the properties tell where things
went.

### Path steps

Typing and evaluation are one behaviour. `AddStep` types one step: `Combine` is
`XQNav::combineProperties`, `AxisProperties` what `XQStep` knows of an axis.
`Begin` drops the sort when the last claim says the nodes come in order
(`XQDocumentOrder::staticTypingImpl`). Then `asked` is the stage whose `next()`
runs: `Pull` asks the stage below, `Return` hands a node up and gives the next
stage a new axis to walk, `Receive` is the sort or the removal of duplicates,
`Exhausted` and `Sorted` the end. A document is a numbering of its nodes in
document order with the last node of each subtree, so that several documents and
attributes fit into one function; that the data model's order is such a numbering
is what the run `fast_xdm` is about. `PathResult` is a set of nodes that is
delivered, and `Refines` maps the chain to it.

### FLWOR expressions

An expression is a record of a small language: numbers, variables, the context
item, element constructors, concatenation, conjunction, map, and FLWOR with `for`
(with a position), `let`, `where`, `order by` and `count`. `Value` evaluates it,
with node identity: a constructor's node is named after the place in the
evaluation where it was made, so that two values are equal exactly when a user
could not tell them apart. A step of `Flwor` is a step of the optimizer: typing
calls clauses from the last to the first, a clause may move in front of the one
before it (`PushBack`), a `where` with a conjunction is split; `CountUses` counts
each `let`'s uses with the cardinalities of the last typing; `InlineLet` takes the
cheap ones in order and the counted ones in any order, since they are kept in a
set of pointers; `FoldClauses`, `CombineNested`, `DropEmpty` are the other passes.
Each name is bound once, no `let` is only another name of one that creates nodes,
and an inner FLWOR counts only behind an `order by` of its own: queries of other
kinds are changed in meaning by the code, which the hazards at
`LetTuple.cpp:66`, `PartialEvaluator.cpp:1429` and `:1467` describe.

### Static typing

`expr` is an expression built from the inside out, with the type the code gives
it and one value it can have. A step puts one AST node around it, with variables
as the other operands, computes the type as `staticTypingImpl` does and a value
as `createResult` can. An item type is the kinds of items it admits. `reliable` is
FALSE where the code's arithmetic is known to be wrong: an unsigned number wraps
round, `substitute()` forgets how many items there were, an operand of a set
operator holds a node twice, a self step drops its context item. Nothing is built
around such an expression.

### Full text

`FTConjunction` is the only iterator with a state of its own worth the steps: an
odometer over arguments that can be read once and are replayed from buffers. It
implements `MatchEnumeration`. The other iterators are functions from the matches
below them to their own (`FullTextMatches`). `FTContains` is the outcome: an answer, an
error, or a crash for a selection that was optimized away. `FullText` builds a selection from
words outwards and keeps, beside what the code delivers (`it`), the set of matches
that the selection declares, in the terms of the standard (`declared`). `status`
is "losing" or "unknown" where the code is known to find less or something else;
the hazards name the lines.

### Document projection

First the optimizer collects paths (`OptimizeStep`, `UseResult`): a path node is
the path that leads to it, since `appendChild` merges equal children. Then one
event after the other goes through the filter; `stack_` has its fields, `output`
is what the builder is sent. `Evaluate` runs the query's paths over the whole
document and over the projected one. `doubts` notes for a path whether one of its
steps is known to overlook nodes or to displace them, and `unforeseen` whether a
namespace declaration had an element sent that nobody asked for.

### Dates and durations

`value` is a date, a time or a dateTime as the code keeps it: a dateTime or a date
with a zone is a point in UTC, one without a zone is its local time, and a time is
its local time in both cases. `span` is a duration, a sign with months and minutes.
A step applies one operator (`AddSpan`, `SubtractSpan`, `SubtractOrigin`,
`MultiplySpan`, `HalveSpan`, `CombineSpans`), function (`AdjustToTimezone`,
`RemoveTimezone`, `CombineDateAndTime`) or cast (`Cast`, `CastSpan`), most of which
write a text and parse it. A text is the record of the fields that are printed, a
number its sign and its digits. The unit is the minute where the code counts
seconds, because no operation treats seconds differently; MAPM's exact numbers are
integers, and its divisions truncate where the code's do. Beside each value runs
what it should be, `civil`, a clock on a local time line whose days are those of the calendar at the head of the
module, and `length`, signed months and minutes. `exact` turns FALSE at an addition that the
code is known to do in the wrong place, in UTC.

## 3. What is checked

Three runs state fairness. The optimizer is one synchronous call that runs until
it returns, so `Flwor` has `WF_vars(Next)`. The call of `next()` that is under way
returns before anything else happens, so `FTConjunction` has `WF_vars(Loop)` and
`PathSteps` `WF_vars(Evaluate)`; `FTConjunction` also has `WF_vars(Call)`, because
some readers (`FTUnaryNot`, `FTMildNot`) pull until nothing comes. Everywhere else a
step is a call or an event by a user who may stop at any time, and nothing is
promised to happen.

| Run | Bounds | Properties |
|---|---|---|
| `result_buffer` | a value of 2 items, 2 variables, 2 iterators, reads up to 3 or unlimited, skips of 2 | `OneOwner`, `BufferIsStretch`: one owner for the stream, and a buffer with what was drawn. `ReadsCovered`: its limit covers the reads still owed. `Refines`, `LazyEvaluation` |
| `fast_xdm` | 7 events, arrays of one entry that grow | `LinksMatchTree`, `ImplementsTree`: the arrays are the tree. `AxesMatchTree`, `OrderIsStrict`: so are the nodes, their axes and their order. `CopyKept`: a copy is the subtree with the namespaces in scope. `DataModelsAgree`: a Xerces DOM of the same events gives the same answers, and the string value of the root is all the text that was sent. `NoInheritKept`: behind the filter the children inherit nothing, and nothing else changes |
| `ns_fixup` | depth 3 and 8 events, with prefixes and with defaults; a mixed element of up to 7 events, 5 names and 4 declarations; mixed elements to depth 3 and 6 events | `NamesResolve`, `DeclarationsKept`: output is read back as it was sent, but for what an entry misleads |
| `update` | 2 updates over five kinds of documents, 3 updates over three nodes | `ChildrenAsAsked`, `AttributesAsAsked`, `NamespacesAgree`, `TypesLoosened`, `DocumentsSaved`, `CopiesOnly` |
| `path_steps` | up to 3 steps over all axes, two documents of 6 nodes | `ClaimsHold`: what typing says of each stage is true of its nodes. `Refines`: the chain delivers what was selected, and answers |
| `flwor` | up to 4 clauses, alone or nested, sequences of up to 2 items | `ValueKept`, `CardinalitySound`, `Terminates` |
| `static_type` | any depth; numbers up to 3 that wrap round; 4 kinds of items; variables of 1 item, values of 2 | `Sound`, `StaticMatchRight` |
| `ft_conjunction` | up to 3 arguments of up to 4 matches each | `StandsAtNext`, `Refines`, `Terminates` |
| `full_text` | texts of up to 3 tokens of 2 words, two selections around word lists; unsigned numbers up to 255 | `FindsOnlyWhatIsThere`, `FindsWhatIsThere` |
| `projection` | up to 2 or 3 steps, up to 2 paths, documents of 4 or 5 nodes | `BuiltInPlace`: nodes are built once, in order, and inside the nearest ancestor that is built. `NothingLost`, `NothingInvented`: the answers are those of the whole document |
| `dates` | 3 operations; 17 literals from the year -401 to 2000 at the seams of the calendar, 5 durations, zones up to 14 hours | `FieldsShown`: what is printed is what the calendar says. `TextKeepsValue`: a text reads back as the value. `DistancesKept`: durations, differences and orders are those of the time line |
| `projection_unsafe` | as `projection` | `SafeProjection` is violated |

`TypeOK` is an invariant of `result_buffer` and `update`, where something rests on
it: the proofs, and that no node is in two places.

The bounds are chosen by what has to meet. In the result buffer that is a reader
which lags behind by one item, and another one that unwraps the buffer; a third
reader does nothing that a second one cannot do. The arrays of Fast XDM start
with one entry, so that every handler meets a full array. In trees, seven events
give nesting, siblings, attributes and two chunks of text next to each other. Two
updates meet on every pair of targets; three are needed for a name that is freed
twice. One tree has an element without a type inside of typed ones (`Skipped`), as a
wildcard that skips validation leaves it: `removeType` stops there. Every rule of `combineProperties` looks at two steps, so three steps apply
it to its own result, and six nodes hold an element with children, a sibling, an
attribute and a grandchild. A FLWOR clause passes one clause at a time, and with
four clauses, one that has moved is passed by the next. Static types are
composed one node at a time, so that a wrong rule shows as soon as its operand
has the type it mistreats; the depth is not bounded because equal states meet. In
the odometer, two arguments in front of the last one suffice for a carry into an
argument that is itself replayed. Dates need not be many but at the seams: the
literals stand before and after the missing year 0, a leap day, and the ends of 4,
100 and 400 years, on both sides of year 1, with zones that move them across, and
three operations take a value away, through a text and back. `FirstYear` and
`LastYear` end the reference calendar, `LongestSpan` keeps durations inside TLC's
integers; the model leaves a value alone that would pass them.

Every property has at least one mutant in `PROJECT.json`: a slip in a mapped
definition that TLC then reports as a violation of that property under the same
configuration.

### One violation

`projection_unsafe`: `src/context/StaticContext.hpp:291` has projection on by
default, although it changes answers. An element with a namespace declaration is
sent even if no path leads to it and without its ancestors
(`QueryPathTreeFilter.cpp:289`), so that `doc(u)/a` finds an `a` that is no child
of the document.

### Where the models step around the code

In the following cases the code does not do what the property says. The property
has an exception for exactly the case, or the inputs leave it out, and the
hazards in `PROJECT.json` give the lines.

- Fast XDM: an element is not before its own namespace nodes, nor after them.
- Xerces DOM: what follows an attribute leaves out the children of its element,
  which Fast XDM has.
- Namespace fixup: an attribute whose prefix is taken may get the newest prefix of
  its namespace although an inner declaration hides that one. A namespace node that
  contradicts its element, or has a prefix like `p_1` that the filter made up, is
  dropped, yet a later attribute and the elements inside are written as if it had
  been declared.
- Updates: after an error of revalidation or writing, the document stays changed. A
  processing instruction that is renamed is another node afterwards, and the
  other updates of the list miss it or follow a null pointer. An attribute that is
  renamed and replaced gives its name free twice.
- FLWOR: a name that is bound twice; a `let` that is another name of a creative
  `let`; `count` in a nested FLWOR.
- Static typing: unsigned numbers wrap round; `substitute()` forgets how many items
  there were; `except` and `intersect` of an operand with duplicates; a self step
  is typed as exactly one item.
- Full text: exclusions are lost by `ordered`, `distance` and `scope`; a window
  stops early; a token is compared with itself in a distance; `at start` with
  `not in`; one token in the same sentence; a selection of literals with no word
  left to look for is a null pointer that `FTContains` follows, `ftnot` of one as well.
- Projection: the namespace declaration above, after which an element around the one
  that was sent may follow it (`doc(u)/a` with `doc(u)//a`); a parent or sibling step from a
  descendant step; upward and self steps with tests that do not imply each other.
- Dates: a date with a zone is floored to a day of UTC when days are added to it, so
  that `xs:date("2000-01-01+05:30") + xs:dayTimeDuration("P1D")` is the same date;
  months are added to the point in UTC; an adjusted time stays outside its day, and
  differs from its own text. The parsers accept a month or day 00 and the times
  24:01 to 24:59, which no literal of the run uses.

## 4. What is proved

TLC checks small instances. The theorems hold for every value of the constants
under the assumptions that the modules name; TLC evaluates these assumptions in
every run. Bounds such as `MaxEvents` or `MaxSteps` are arbitrary numbers in the
proofs. Every inductive invariant below was checked by TLC before it was proved.

### Result buffer (`ResultBuffer_proofs`)

For any value, any sets of variables and iterators, and all read counts:
`TypeCorrect`, `StreamHasOneOwner` (`OneOwner`), `BufferHoldsStretch`
(`BufferIsStretch`), and on top of these `ImplementsLazyValue` (`Refines`),
`EvaluatesLazily` (`LazyEvaluation`) and `ReadsAreCovered` (`ReadsCovered`). The
source is a finite sequence of items other than the null item, read counts are
positive or unlimited, and variables and iterators have different names.

None of the first three is inductive alone. Taking the stream out of a buffer keeps
`OneOwner` only if no one else refers to the buffer, which the types of the
fields and the count tell; drawing an item keeps `BufferIsStretch` only if it is
the buffer that owns the stream. Their conjunction `IInv` is inductive. The
refinement needs `ReadsCovered` as well: a buffer with a limit has reads left
for all that its variables may still be read. Without it one variable could use up
the limit, on which the buffer lets go of its items, while another is still to be read.

### Fast XDM (`FastXDM_proofs`)

For any names, texts, capacities of the arrays and any number of events.

- `DocumentInvariance`: while events come, the stack holds the open containers with
  rising places and levels (`Stacked`), `prevNode` is the last child of the
  innermost one (`Previous`), the labels of each node are one run (`InRuns`), and no
  array is longer than its capacity (`Stores`). Levels alone do not say where the
  next node goes; the stack does, and `Stacked` ties the two together.
- `LinksMatchTreeAlways` and `ImplementsTreeAlways`: the links are those of the
  tree, and each event is a step of `XDMTree` or changes nothing. The second needs
  `TextWaits`: the last node stored is no text of the innermost container, so that no
  two texts are ever siblings side by side.
- `ShapeInvariance`: a node's level is one more than its parent's, which is an
  element or a document. It gives `OrderIsStrictAlways` and `AxesMatchTreeAlways`: the
  nodes inside a node are those up to the next one of its level or a lower one
  (`Inside`), and each walk is a recursion over places along which what is still to
  come is one of the tree's sets.

### Namespace fixup (`NSFixupFilter_proofs`)

For any trees, with any names, of any depth and size:

- `DeclaredOnceAlways`: no element of the output declares a prefix twice. Levels of
  entries never fall towards the newest (`Ordered`), so the newest entry of a prefix,
  the only one that `definePrefix` looks at, has the highest level; and each
  declaration has an entry of its element's level (`Marked`). That a prefix can be
  made up at all, since there are fewer entries than numbers, is `FreshIsNew`.
- `PlainNamesResolve` and `PlainDeclarationsKept`: `NamesResolve` and
  `DeclarationsKept` in every tree that is `Plain`, without their exceptions: none of
  its elements uses a prefix for two namespaces, and its attributes in a namespace have
  a prefix. The
  entries of an element are then what it uses (`Entered`, `FromInput`), with one
  namespace for a prefix (`OneMeaning`), and the newest entry that an element sees
  is what a reader of the output takes the prefix for (`ReadAsMeant`). The latter
  is why entries are also added where nothing is declared.

The hypothesis is needed: in a mixed tree some names and namespace nodes are not read
back, at any depth (the hazards at `NSFixupFilter.cpp:177` and `:209`). That there are
no others than the exceptions name is only model-checked.

### Updates (`UpdateFactory_proofs`)

For any documents, contents, names, strings and URIs, and lists of any length:
`DomStaysForest` (`TypeOK`), `TransformChangesCopies` (`CopiesOnly`),
`ChangedDocumentsSaved` (`DocumentsSaved`), `ChangedElementsLoseTypes`
(`TypesLoosened`) and `PrefixesStayBound` (`NamespacesAgree`). What is assumed,
`CasesAssumption`, is that the start is a forest (`IsForest`: parents, children and
attributes agree, and a node is made after its parent), that what is inserted are nodes without parents and no
documents, that a transform expression copies whole trees, and that the elements of
the start bind no prefix twice in their own names (`PrefixesAgree`), as those
that were parsed or constructed. A name with a prefix has a namespace (`Names`).

`TypeOK` is not inductive. That an apply function keeps the forest depends on what
the expressions checked when the list was filled: attributes go only into elements,
other nodes only into elements and documents, next to a node only what may stand
there. The invariant `IInv` therefore also says what each update of the list may be
(`AskedFor`) in terms of the kinds the targets had in the beginning, and that no update
changes a kind, a document URI or an origin (`Keeps`). That the DOM is as in the
beginning while updates are collected (`Start`) ties the two together.

The others rest on what all apply functions have in common, `CarriedOut`: the
DOM changes in the tree of the target only (`Change`, `Within`), the tree handed to
`addToPutSet` is the one the target was in before the update, and the content of no
other element changes than of the one that `removeType` starts from (`Leaves`). It is proved for each
of the twelve functions other than `applyPut` in turn, from what `insertBefore`, `setAttributeNode`,
`removeChild`, `renameNode` and `removeType` do to a forest (`InsertForest`,
`SetAttribute`, `Removal`, `Renaming`, `TypeRemoved`). A set of whole trees is `Alone` if
it is as it was in the beginning, with nothing in it marked for deletion or
revalidation; any step keeps it so if the target is outside (`CarriedLeavesAlone`), and
deletion and revalidation always do, since they only follow marks.

- `CopiesOnly`: the trees that were not copied are `Alone`, and the check of
  `UTransform::createResult` keeps all targets outside (`CopiesInv`).
- `DocumentsSaved`: the trees that neither have been written nor will be are `Alone`
  (`SavedInv`). An update of one of them takes it out of that set: its target is still in
  the tree of the start, so that the item saved is the one of the start
  (`SavesTarget`). With a renamed processing instruction this fails, because the node
  that the list refers to is no longer in its tree.
- `TypesLoosened`: `removeType` stops at the first untyped element, so that one call
  says nothing of the elements further up. The invariant `LooseInv` has for each
  element of the start that it stays without a type if it had none, that it is still
  below its old parent or that parent has lost its type, with all around it up to an
  untyped one, and that the same holds around an element whose content changed, whose
  tree is then marked for revalidation (`LostIn`). A walk that starts from an element
  thus reaches, step by step, either the parents of the start or an element around
  which everything was lost when something below was taken out (`LostUpwards`).
- `NamespacesAgree`: the check works on a map that is passed through the whole list,
  twice, and stands in for the elements as they will be. Each claim adds its bindings,
  none is forgotten, and an element without a clash has no prefix bound twice
  (`ClaimedIs`, `PassKeeps`). A list that is let through therefore has no clash between
  the namespaces in scope of an element and all the names that any update brings it
  (`CheckedNames`), in whatever order the updates are then applied. The invariant
  `NamedInv` adds that every name of an element or its attributes is one of the start
  or one of those: `Brings`, a part of `CarriedOut`, says so of each apply function.
  The names of the start are led back to the namespaces in scope; that an element is
  itself the nearest to speak of its own prefixes (`OwnNamesBound`) is the point where
  `PrefixesAgree` is needed. That an attribute's *name* is unique does not follow in
  this way, since names are also freed; see the hazard at `UpdateFactory.cpp:331`.

### Path steps (`PathSteps_proofs`)

For any set of documents, any steps over all axes and paths of any length.

- `PipelineInvariance`: the nodes a stage has returned are a walk over those of the
  stage below: each comes from one of them, in turn, and those from the same one
  are in the order of the axis (`Walks`). Each stage stands in the middle of one
  axis (`Stands`) and has skipped nothing (`LosesNothing`).
- `ClaimsHoldAlways` (`ClaimsHold`): a walk carries the claims of the nodes it starts
  from to those that `Combine` works out (`CombinedHolds`), whatever the documents.
- `NothingComesLateAlways`: what the stages have still to return continues the walks.
- `ImplementsPathResult`: each step of the chain is a step of `PathResult` or changes
  nothing of it. This is the safety half of `Refines`.

### Full text (`FTConjunction_proofs`)

For any numbers of arguments and matches: `OdometerInvariance`,
`StandsAtNextAlways` (`StandsAtNext`) and `ImplementsEnumeration` (`Refines`). The
invariant says which combinations have been delivered, at each point of the loop: all up
to the one that the odometer shows; while digits are turned back, those whose first
digits come before it (`TurningBack`); while a digit to turn on is searched, those up
to it, with the digits behind past their last match (`TurningOn`).

### Static typing (`StaticTyping_proofs`)

For any items, any declared types of the variables, expressions of any depth, and any
width of the unsigned numbers: `SoundAlways` (`Sound`) and `StaticMatchRightAlways`
(`StaticMatchRight`). Both are about expressions that are `reliable`, those along which
no node is one of the four of section 3 that are known to lose the count.

The invariant `Inv` says that the expression's type is a `StaticType`, with numbers that
an unsigned number holds, and that its value is a sequence of items with kinds and has
that type. It is an induction over the AST from the inside out: first a lemma for
each operation on types (`ConcatSound`, `MultipliedSound`, `SubstitutedSound`, ...), then one
for each AST class. What makes them more than case splits is counting: the products are those
of unsigned numbers that fit; a self step and `intersect` return no more nodes than their
operand has, since they return each place of it at most once (`Injective`); and `except`
leaves at least what its least number says if no node stands twice in its left operand
(`ExceptLeaves`).
`StaticMatchRightAlways` follows from `Sound` and from `MatchRight`: whatever has a type
that always, or never, matches a sequence type matches it, or does not.

### Document projection (`QueryPathTreeFilter_proofs`)

For any queries, with any tests, and any documents: `BuiltInPlaceAlways` (`BuiltInPlace`).
When a node is sent, those of its ancestors that were left out are sent first as
far as `checkAncestors()` asks for them; an element must not be sent after a node that
is inside it. That it never is rests on two facts about queries, which are parts of the
invariant `ProjectionInv`:

- A path node that asks for all attributes of descendants has a sister that asks for all
  nodes (`AsksForNodes`, from `markSubtreeResult`). An element that is left out has
  neither, and is not sent for an attribute.
- An element that is left out expects only descendants, those that its parent
  expected (`Expectations`). So `checkAncestors()` sends at most one ancestor, the
  outermost that was left out (`CheckAncestorsIs`), and it decides the same for each node
  inside that one: it is sent with the first, or for none of them (`NotLate`).

Besides, `Open` says that the stack is a line of ancestors, and `Flags` that an entry
is matched if and only if its node has been built. `WellNested` holds even after a
namespace declaration has had an element sent that no path leads to; the order and
the nearest ancestor do not, because such an element is not the outermost, and that is
the condition in `BuiltInPlace`.

### Only model-checked

- Liveness: `Terminates` in both places, and the liveness half of the refinement of
  `PathResult`. It is out of the provers' reach.
- `CopyKept`, `DataModelsAgree`, `NoInheritKept`: string values, namespaces in scope,
  copies and folds over events are defined by recursion over the data, and what they
  compute for every input needs an induction that the provers at hand do not do.
  For the same reason the value of a query (`Flwor`), what a selection declares
  (`FullText`) and what the paths of a query find (`NothingLost`, `NothingInvented`).
- Dates: the reference is a table of years.
- Updates: `ChildrenAsAsked` and `AttributesAsAsked` compare the result with sequences
  that are folded out of the whole list.

## 5. What is not modelled

- Xerces-C, its parser and its validator: modelled from their use, and marked
  external. The lexers and parsers, MAPM and the Unicode tables are generated or
  vendored.
- Most functions, operators and atomic types are computations without state whose
  reference would be the W3C's text and not another part of this code. Those that
  decide about static types are in `StaticTyping`, those on dates and durations in
  `DateArithmetic`.
- Dates: seconds and their fractions, hashes, and
  `subtractDateTimeAsYearMonthDuration`, which nothing calls. `fn:current-dateTime`
  is a constant, as it is for one evaluation.
- Of the optimizer: name resolution, inlining of functions and the fixed point over
  recursive ones, folding of constants outside FLWOR.
- Fast XDM: typed values, node tests and the order of nodes of two documents.
- Updates: `xmlns` attributes, CDATA sections, how deep an imported subtree is, the
  resolution of the URI of `fn:put`.
- Lazy results: an error in the middle of a value, after which an iterator has
  passed an item that it never returned.
- FLWOR: the size up to which an expression is inlined, and error values.
- Static typing: an item type is a set of kinds, and `isSubtypeOf` is the most
  precise one. Structure within durations, and `XQContentSequence`, are left out.
- Full text: case folding, the ignore option, tokenization, several searched
  nodes, negative numbers.
- Projection: a predicate comes as the paths in it. Variables, functions, copied nodes
  and paths from the context item are left out.
- Content filter, serializer, string pool, memory managers, variable stores: sequential
  code with one state each, for later. Debugger, APIs and test runner are wrappers.

## 6. Plan

Done, in this order: result buffer, its proofs, Fast XDM and its copies, namespace
filters, updates, path steps, FLWOR, static typing, full text, projection, the
Xerces data model, dates and durations; then the theorems of section 4.

Theorem next: `DateUtils`: the day number and the date are inverse to each other.

Modules after that: the prolog (`XQUserFunction::staticTypingOnce`,
`XQGlobalVariable::staticTypingOnce`, `XQQuery::staticTyping`: how recursive functions
are typed, in which order global variables are evaluated, and whether every circular
global is found when its cycle passes through mutually recursive functions), the
content filter and the serializer, variable stores, the string pool.
