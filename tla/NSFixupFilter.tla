---------------------------- MODULE NSFixupFilter ----------------------------
(***************************************************************************)
(* The filter in front of every serializer: it adds namespace declarations *)
(* and renames prefixes so that the names written mean what they meant in  *)
(* the tree.  A step is one event: an element, its attributes and its      *)
(* namespaces in any order (toEvents() sends attributes first, a           *)
(* constructor namespaces first), then its content.  A prefix is a         *)
(* sequence, empty when it is null, and <<"p", 1>> is the text p_1; a null *)
(* URI is "".  The prefix xml is left out.                                 *)
(***************************************************************************)
EXTENDS Integers, Sequences, FiniteSets

(***************************************************************************)
(* What a tree is made of: the names of its elements, the names of its     *)
(* attributes and its namespace nodes, records [prefix, uri]; mixed is     *)
(* whether one element may use a prefix for two namespaces; depth and size *)
(* bound the depth of the tree and the number of its events.               *)
(***************************************************************************)
CONSTANT Trees

IsText(p) == Len(p) \in Nat /\ p = [i \in 1..Len(p) |-> p[i]]

ASSUME TreesAssumption ==
  \A t \in Trees :
    /\ \A n \in t.names \union t.attributes : n.uri = "" => n.prefix = <<>>
    /\ \A n \in t.names \union t.attributes \union t.bindings : IsText(n.prefix)
    /\ t.mixed \in BOOLEAN /\ t.depth \in Nat /\ t.size \in Nat

VARIABLES
  tree,        \* what the tree is made of (constant)
  level,       \* level_
  elements,    \* elements_: the prefixes of the open elements as written
  namespaces,  \* namespaces_, the newest entry last
  phase,       \* what the tree's last event was part of
  output,      \* the open elements as written: names, decls (history)
  input,       \* the names and namespaces of the open elements as sent (history)
  count        \* the number of events (history)

vars == <<tree, level, elements, namespaces, phase, output, input, count>>

Init ==
  /\ tree \in Trees
  /\ level = 0
  /\ elements = <<>>
  /\ namespaces = <<>>
  /\ phase = "start"
  /\ output = <<>>
  /\ input = <<>>
  /\ count = 0

Newest(S) == CHOOSE i \in S : \A j \in S : j <= i
NoEntry == 0

\* findPrefix
FindPrefix(p) ==
  LET found == {i \in DOMAIN namespaces : namespaces[i].prefix = p}
  IN IF found = {} THEN NoEntry ELSE Newest(found)

\* Any entry for the URI, for an attribute one with a prefix.
FindURI(u, attr) ==
  LET found == {i \in DOMAIN namespaces :
                  namespaces[i].uri = u /\ (attr => namespaces[i].prefix # <<>>)}
  IN IF found = {} THEN NoEntry ELSE Newest(found)

\* Mutant: the first made-up prefix is taken for granted.
Fresh_First(p) == (IF p = <<>> THEN <<"ns">> ELSE p) \o <<1>>

Fresh(p) ==
  LET base == IF p = <<>> THEN <<"ns">> ELSE p
      free == {n \in 1..(Len(namespaces) + 1) : FindPrefix(base \o <<n>>) = NoEntry}
  IN base \o <<CHOOSE n \in free : \A m \in free : n <= m>>

\* A prefix is already in use, here and for something else.
Clashes(p, u, lv) ==
  LET cur == FindPrefix(p)
  IN cur # NoEntry /\ namespaces[cur].uri # u /\ namespaces[cur].level = lv

\* Mutant: a prefix that means something else here is declared again.
NewPrefix_Never(n, lv, attr, redefine) == n.prefix = <<>> /\ attr

NewPrefix(n, lv, attr, redefine) ==
  \/ n.prefix = <<>> /\ attr
  \/ Clashes(n.prefix, n.uri, lv) /\ n.uri # "" /\ redefine

\* Mutant: a prefix that is known at all is not declared again.
Undefined_Known(n, lv) == n.uri # "" /\ FindPrefix(n.prefix) = NoEntry

\* Whether a prefix that can be kept has to be declared.
Undefined(n, lv) ==
  LET cur == FindPrefix(n.prefix)
  IN IF cur = NoEntry THEN n.uri # ""
     ELSE namespaces[cur].uri # n.uri /\ namespaces[cur].level # lv

\* definePrefix: the prefix to use, and whether it has to be declared
DefinePrefix(n, lv, attr, redefine) ==
  LET reused == FindURI(n.uri, attr) IN
  IF ~NewPrefix(n, lv, attr, redefine)
    THEN [prefix |-> n.prefix, define |-> Undefined(n, lv)]
  ELSE IF reused # NoEntry
    THEN [prefix |-> namespaces[reused].prefix, define |-> FALSE]
  ELSE [prefix |-> Fresh(n.prefix), define |-> TRUE]

\* The entry that definePrefix adds, also when nothing is declared.
Remember(p, u, lv) == namespaces' = Append(namespaces, [prefix |-> p, uri |-> u, level |-> lv])

Declared(d, u) == IF d.define THEN <<[prefix |-> d.prefix, uri |-> u]>> ELSE <<>>

Depth == Len(output)
Counted == count < tree.size /\ count' = count + 1 /\ UNCHANGED tree

\* The constructors of an element let everything pass; a tree that was read
\* from a text, as long as no update has changed it, is not mixed.
Uses(k, p) == {n.uri : n \in {m \in input[k].names \union input[k].decls : m.prefix = p}}
Agrees(n) == tree.mixed \/ Uses(Depth, n.prefix) \subseteq {n.uri}

StartDocumentEvent ==
  /\ phase = "start" /\ level = 0
  /\ Counted
  /\ level' = level + 1
  /\ phase' = "content"
  /\ UNCHANGED <<elements, namespaces, output, input>>

EndDocumentEvent ==
  /\ level = 1 /\ Depth = 0
  /\ Counted
  /\ level' = level - 1
  /\ phase' = "end"
  /\ UNCHANGED <<elements, namespaces, output, input>>

StartElementEvent(n) ==
  LET lv == level + 1
      d == DefinePrefix(n, lv, FALSE, TRUE) IN
  /\ phase # "end" /\ Depth < tree.depth
  /\ Counted
  /\ level' = lv
  /\ Remember(d.prefix, n.uri, lv)
  /\ elements' = Append(elements, d.prefix)
  /\ output' = Append(output, [names |-> {[prefix |-> d.prefix, uri |-> n.uri]},
                               decls |-> Declared(d, n.uri)])
  /\ input' = Append(input, [names |-> {n}, decls |-> {}])
  /\ phase' = "tag"

\* The entries that are left when those of the levels above lv are popped.
Popped(lv) ==
  LET kept == {i \in DOMAIN namespaces : namespaces[i].level <= lv}
  IN SubSeq(namespaces, 1, IF kept = {} THEN 0 ELSE Newest(kept))

\* Mutant: the entries of the element itself stay.
Left_Own(lv) == Popped(lv + 1)

\* The entries of an element go with it.
Left(lv) == Popped(lv)

EndElementEvent ==
  /\ Depth > 0
  /\ Counted
  /\ level' = level - 1
  /\ elements' = SubSeq(elements, 1, Len(elements) - 1)
  /\ namespaces' = Left(level - 1)
  /\ output' = SubSeq(output, 1, Depth - 1)
  /\ input' = SubSeq(input, 1, Depth - 1)
  /\ phase' = IF level = 1 THEN "end" ELSE "content"

\* Texts, comments and processing instructions pass unchanged.
ContentEvent ==
  /\ phase = "tag"
  /\ Counted
  /\ phase' = "content"
  /\ UNCHANGED <<level, elements, namespaces, output, input>>

AttributeEvent(n) ==
  LET d == DefinePrefix(n, level, TRUE, TRUE) IN
  /\ phase = "tag"
  /\ Counted
  /\ IF n.uri = ""
       THEN UNCHANGED <<namespaces, output, input>>
       ELSE /\ Agrees(n)
            /\ Remember(d.prefix, n.uri, level)
            /\ output' = [output EXCEPT ![Depth] = [
                 names |-> @.names \union {[prefix |-> d.prefix, uri |-> n.uri]},
                 decls |-> @.decls \o Declared(d, n.uri)]]
            /\ input' = [input EXCEPT ![Depth] = [names |-> @.names \union {n}, decls |-> @.decls]]
  /\ UNCHANGED <<level, elements, phase>>

NamespaceEvent(n) ==
  LET d == DefinePrefix(n, level, FALSE, FALSE) IN
  /\ phase = "tag" /\ Agrees(n)
  /\ \A m \in input[Depth].decls : m.prefix # n.prefix
  /\ Counted
  /\ Remember(d.prefix, n.uri, level)
  /\ output' = [output EXCEPT ![Depth] = [names |-> @.names, decls |-> @.decls \o Declared(d, n.uri)]]
  /\ input' = [input EXCEPT ![Depth] = [names |-> @.names, decls |-> @.decls \union {n}]]
  /\ UNCHANGED <<level, elements, phase>>

Next ==
  \/ StartDocumentEvent
  \/ EndDocumentEvent
  \/ \E n \in tree.names : StartElementEvent(n)
  \/ EndElementEvent
  \/ ContentEvent
  \/ \E n \in tree.attributes : AttributeEvent(n)
  \/ \E n \in tree.bindings : NamespaceEvent(n)

Spec == Init /\ [][Next]_vars

(***************************************************************************)
(* Properties                                                              *)
(***************************************************************************)
\* What a reader of the output takes a prefix for inside element k: the
\* nearest declaration, and without one no namespace.
Resolved(k, p) ==
  LET declaring == {j \in 1..k : \E i \in DOMAIN output[j].decls : output[j].decls[i].prefix = p}
  IN IF declaring = {} THEN {""}
     ELSE {output[Newest(declaring)].decls[i].uri :
             i \in {m \in DOMAIN output[Newest(declaring)].decls :
                      output[Newest(declaring)].decls[m].prefix = p}}

\* The names and namespace nodes in S mean inside element k what they meant.
ReadBack(k, S) == \A n \in S : Resolved(k, n.prefix) = {n.uri}

\* What element k, as written or as sent, has for the prefix of n and another
\* namespace.
Others(k, n) == {m \in output[k].names \union input[k].decls : m.prefix = n.prefix /\ m.uri # n.uri}

\* Exception: a namespace node of k is not declared if a name of k was written
\* with its prefix (line 164), yet it gets an entry (line 209).
Dropped(k) == {n \in input[k].decls : Others(k, n) \intersect output[k].names # {}}

\* The names of k that cannot keep their prefix: it is taken, or there is none.
Renamed(k) ==
  {m \in input[k].names : \/ Others(k, m) # {}
                          \/ m \in tree.attributes /\ m.prefix = <<>> /\ m.uri # ""}

\* Exception: such a name gets the prefix of an entry further out, although an
\* element in between, or k itself, has it for something else (line 177).
Hidden(k) ==
  {n \in output[k].names :
     /\ \E m \in Renamed(k) : m.uri = n.uri
     /\ \E j \in 1..(k - 1) : /\ n \in output[j].names \union input[j].decls
                             /\ \E i \in (j + 1)..k : Others(i, n) # {}}

\* The entries these leave mislead the elements inside as well.
Misleading(k) == UNION {Dropped(j) \union Hidden(j) : j \in 1..k}

\* Every element and attribute is read back in the namespace it was in, unless
\* an entry misleads it: one of a namespace node that was dropped, or one of a
\* prefix that is hidden.
NamesResolve == \A k \in 1..Depth : ReadBack(k, output[k].names \ Misleading(k))

\* No element declares a prefix twice, for the output would not be XML.
DeclaredOnce ==
  \A k \in 1..Depth : \A i, j \in DOMAIN output[k].decls :
    output[k].decls[i].prefix = output[k].decls[j].prefix => i = j

\* That, and every namespace node is read back as it was sent, with the same
\* exceptions.
DeclarationsKept ==
  DeclaredOnce /\ \A k \in 1..Depth : ReadBack(k, input[k].decls \ Misleading(k))
=============================================================================
