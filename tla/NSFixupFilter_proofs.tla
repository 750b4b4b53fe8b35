------------------------- MODULE NSFixupFilter_proofs -------------------------
(***************************************************************************)
(* Proofs about the namespace fixup filter: whatever the tree, no element  *)
(* of the output declares a prefix twice; and a tree that could have been  *)
(* read from a text is written with the meaning it has.                    *)
(***************************************************************************)
EXTENDS NSFixupFilter, TLAPS, SequenceTheorems, FiniteSetTheorems, WellFoundedInduction

(***************************************************************************)
(* Types: a prefix is a sequence of letters, the made-up ones have numbers *)
(* after them.                                                             *)
(***************************************************************************)
AllNames == UNION {t.names \union t.attributes \union t.bindings : t \in Trees}
Letters == (UNION {{n.prefix[i] : i \in 1..Len(n.prefix)} : n \in AllNames}) \union {"ns"} \union Nat
Prefix == Seq(Letters)
Uri == {n.uri : n \in AllNames} \union {""}
Binding == [prefix : Prefix, uri : Uri]
Entry == [prefix : Prefix, uri : Uri, level : Nat]
Written == [names : SUBSET Binding, decls : Seq(Binding)]
Sent == [names : SUBSET AllNames, decls : SUBSET AllNames]

\* What the document adds to the level.
Base == level - Len(output)

TypeInv ==
  /\ tree \in Trees /\ level \in Nat
  /\ namespaces \in Seq(Entry) /\ output \in Seq(Written) /\ input \in Seq(Sent)
  /\ Len(input) = Len(output)
  /\ Base \in {0, 1}
  /\ phase = "tag" => Len(output) > 0

(***************************************************************************)
(* The entries belong to the open elements, outer ones first; an element   *)
(* has an entry for each declaration it makes, and makes none twice.       *)
(***************************************************************************)
Ordered(ns, out, b) ==
  /\ \A e \in 1..Len(ns) : b < ns[e].level /\ ns[e].level <= Len(out) + b
  /\ \A d, e \in 1..Len(ns) : d <= e => ns[d].level <= ns[e].level

Marked(ns, out, b) ==
  \A k \in 1..Len(out) : \A i \in 1..Len(out[k].decls) :
    \E e \in 1..Len(ns) : ns[e].prefix = out[k].decls[i].prefix /\ ns[e].level = k + b

Once(out) ==
  \A k \in 1..Len(out) : \A i, j \in 1..Len(out[k].decls) :
    out[k].decls[i].prefix = out[k].decls[j].prefix => i = j

OnceInv == Ordered(namespaces, output, Base) /\ Marked(namespaces, output, Base) /\ Once(output)

(***************************************************************************)
(* A tree that could have been read from a text: none of its elements uses *)
(* a prefix for two namespaces, and its attributes in a namespace have a   *)
(* prefix.                                                                 *)
(***************************************************************************)
Plain(t) == ~t.mixed /\ \A n \in t.attributes : n.uri # "" => n.prefix # <<>>

(***************************************************************************)
(* In a plain tree the entries of an element are its names and namespaces  *)
(* as they were sent, one namespace for each prefix; and the last entry    *)
(* for a prefix says what a reader of the output takes it for, at every    *)
(* open element.                                                           *)
(***************************************************************************)
InUse(out, inp, k) == out[k].names \union inp[k].decls

Entered(ns, out, inp, b) ==
  \A k \in 1..Len(out) : \A n \in InUse(out, inp, k) :
    \E e \in 1..Len(ns) : ns[e].prefix = n.prefix /\ ns[e].uri = n.uri /\ ns[e].level = k + b

FromInput(ns, inp, b) ==
  \A e \in 1..Len(ns) : \A k \in 1..Len(inp) : ns[e].level = k + b =>
    \E n \in inp[k].names \union inp[k].decls : n.prefix = ns[e].prefix /\ n.uri = ns[e].uri

OneMeaning(ns) ==
  \A d, e \in 1..Len(ns) : ns[d].prefix = ns[e].prefix /\ ns[d].level = ns[e].level => ns[d].uri = ns[e].uri

\* The entries for a prefix that element k sees.
Seen(ns, b, k, p) == {e \in 1..Len(ns) : ns[e].prefix = p /\ ns[e].level <= k + b}

\* What element j declares the prefix for.
DeclsOf(out, j, p) ==
  {out[j].decls[i].uri : i \in {m \in DOMAIN out[j].decls : out[j].decls[m].prefix = p}}

\* The operator Resolved, for any output.
Declaring(out, k, p) == {j \in 1..k : DeclsOf(out, j, p) # {}}
ResolvedIn(out, k, p) ==
  IF Declaring(out, k, p) = {} THEN {""} ELSE DeclsOf(out, Newest(Declaring(out, k, p)), p)

Meant(ns, b, k, p) == IF Seen(ns, b, k, p) = {} THEN "" ELSE ns[Newest(Seen(ns, b, k, p))].uri

ReadAsMeant(ns, out, b) ==
  \A k \in 1..Len(out) : \A p \in Prefix : ResolvedIn(out, k, p) = {Meant(ns, b, k, p)}

PlainHolds(ns, out, inp, b) ==
  Entered(ns, out, inp, b) /\ FromInput(ns, inp, b) /\ OneMeaning(ns) /\ ReadAsMeant(ns, out, b)

PlainInv == Plain(tree) => PlainHolds(namespaces, output, input, Base)

-----------------------------------------------------------------------------
(***************************************************************************)
(* Numbers and sequences                                                   *)
(***************************************************************************)
\* A set of numbers up to n has a smallest element.
LEMMA SmallestExists ==
  ASSUME NEW n \in Nat, NEW S, S \subseteq 1..n, S # {}
  PROVE  \E x \in S : \A y \in S : x <= y
<1> DEFINE R == {ss \in Nat \X Nat : ss[1] < ss[2]}
<1>1. IsWellFoundedOn(R, Nat)
  BY NatLessThanWellFounded DEF OpToRel
<1>2. \A k, j \in Nat : k < j => <<k, j>> \in R
  OBVIOUS
<1> HIDE DEF R
<1>3. S \subseteq Nat
  OBVIOUS
<1>4. PICK x \in S : \A y \in S : ~(<<y, x>> \in R)
  BY <1>1, <1>3, WFMin
<1>5. ASSUME NEW y \in S PROVE x <= y
  <2>1. x \in Nat /\ y \in Nat
    BY <1>3
  <2>2. ~(y < x)
    BY <1>2, <1>4, <2>1
  <2> QED BY <2>1, <2>2
<1> QED
  BY <1>5

\* And a largest one.
LEMMA NewestIs ==
  ASSUME NEW n \in Nat, NEW S, S \subseteq 1..n, S # {}
  PROVE  Newest(S) \in S /\ \A y \in S : y <= Newest(S)
<1> DEFINE T == {n + 1 - x : x \in S}
<1>1. T \subseteq 1..n /\ T # {}
  <2>1. PICK x \in S : TRUE
    OBVIOUS
  <2>2. n + 1 - x \in T
    OBVIOUS
  <2>3. ASSUME NEW y \in S PROVE n + 1 - y \in 1..n
    <3>1. y \in 1..n
      OBVIOUS
    <3> QED BY <3>1
  <2>4. \A t \in T : \E y \in S : t = n + 1 - y
    OBVIOUS
  <2> HIDE DEF T
  <2> QED BY <2>2, <2>3, <2>4
<1> HIDE DEF T
<1>2. PICK t \in T : \A y \in T : t <= y
  BY <1>1, SmallestExists
<1>3. PICK x \in S : t = n + 1 - x
  BY DEF T
<1>4. ASSUME NEW y \in S PROVE y <= x
  <2>1. n + 1 - y \in T
    BY DEF T
  <2>2. t <= n + 1 - y
    BY <1>2, <2>1
  <2> QED BY <1>3, <2>2
<1> QED
  BY <1>4 DEF Newest

\* What EndElementEvent leaves of the elements.
LEMMA FrontFacts ==
  ASSUME NEW S, NEW s \in Seq(S), Len(s) > 0
  PROVE  /\ SubSeq(s, 1, Len(s) - 1) \in Seq(S)
         /\ Len(SubSeq(s, 1, Len(s) - 1)) = Len(s) - 1
         /\ \A i \in 1..Len(s) - 1 : SubSeq(s, 1, Len(s) - 1)[i] = s[i]
<1> DEFINE n == Len(s) - 1
<1>1. n \in Nat /\ 1 \in Int /\ \A i \in 1..n : s[i] \in S
  OBVIOUS
<1> HIDE DEF n
<1>2. /\ SubSeq(s, 1, n) \in Seq(S)
      /\ Len(SubSeq(s, 1, n)) = IF 1 <= n THEN n - 1 + 1 ELSE 0
      /\ \A i \in 1..n - 1 + 1 : SubSeq(s, 1, n)[i] = s[1 + i - 1]
  BY <1>1, SubSeqProperties
<1>3. Len(SubSeq(s, 1, n)) = n
  BY <1>1, <1>2
<1>4. \A i \in 1..n : SubSeq(s, 1, n)[i] = s[i]
  BY <1>1, <1>2
<1> QED
  BY <1>2, <1>3, <1>4 DEF n

-----------------------------------------------------------------------------
(***************************************************************************)
(* Finding and making up prefixes                                          *)
(***************************************************************************)
LEMMA NamesTyped ==
  ASSUME NEW n \in AllNames
  PROVE  n.prefix \in Prefix /\ n.uri \in Uri
<1>1. IsText(n.prefix)
  BY TreesAssumption DEF AllNames
<1>2. Len(n.prefix) \in Nat /\ n.prefix = [i \in 1..Len(n.prefix) |-> n.prefix[i]]
  BY <1>1 DEF IsText
<1>3. ASSUME NEW i \in 1..Len(n.prefix) PROVE n.prefix[i] \in Letters
  <2> DEFINE own == {n.prefix[j] : j \in 1..Len(n.prefix)}
  <2>1. n.prefix[i] \in own
    OBVIOUS
  <2>2. own \subseteq UNION {{m.prefix[j] : j \in 1..Len(m.prefix)} : m \in AllNames}
    OBVIOUS
  <2> HIDE DEF own
  <2> QED BY <2>1, <2>2 DEF Letters
<1>4. n.prefix \in Seq(Letters)
  BY <1>2, <1>3
<1> QED
  BY <1>4 DEF Prefix, Uri

\* findPrefix returns the newest entry for the prefix.
LEMMA FindPrefixFacts ==
  ASSUME namespaces \in Seq(Entry), NEW p
  PROVE  \/ /\ FindPrefix(p) = NoEntry
            /\ \A e \in 1..Len(namespaces) : namespaces[e].prefix # p
         \/ /\ FindPrefix(p) \in 1..Len(namespaces)
            /\ FindPrefix(p) # NoEntry
            /\ namespaces[FindPrefix(p)].prefix = p
            /\ \A e \in 1..Len(namespaces) : namespaces[e].prefix = p => e <= FindPrefix(p)
<1> DEFINE found == {i \in DOMAIN namespaces : namespaces[i].prefix = p}
<1>1. DOMAIN namespaces = 1..Len(namespaces) /\ Len(namespaces) \in Nat
  OBVIOUS
<1>2. found \subseteq 1..Len(namespaces)
  BY <1>1
<1>3. CASE found = {}
  <2>1. FindPrefix(p) = NoEntry
    BY <1>3 DEF FindPrefix
  <2> QED BY <1>1, <1>3, <2>1
<1>4. CASE found # {}
  <2>1. FindPrefix(p) = Newest(found)
    BY <1>4 DEF FindPrefix
  <2> HIDE DEF found
  <2>2. Newest(found) \in found /\ \A y \in found : y <= Newest(found)
    BY <1>1, <1>2, <1>4, NewestIs
  <2>3. \A e \in 1..Len(namespaces) : namespaces[e].prefix = p => e \in found
    BY <1>1 DEF found
  <2>4. Newest(found) \in 1..Len(namespaces) /\ namespaces[Newest(found)].prefix = p
    BY <1>1, <2>2 DEF found
  <2>5. \A e \in 1..Len(namespaces) : namespaces[e].prefix = p => e <= Newest(found)
    BY <2>2, <2>3
  <2> QED BY <2>1, <2>4, <2>5 DEF NoEntry
<1> QED BY <1>3, <1>4

LEMMA MoreNumbers ==
  ASSUME NEW n \in Nat
  PROVE  IsFiniteSet(1..(n + 1)) /\ IsFiniteSet(1..n) /\ Cardinality(1..n) < Cardinality(1..(n + 1))
<1>1. 1 \in Int /\ n \in Int /\ n + 1 \in Int
  OBVIOUS
<1>2. IsFiniteSet(1..n) /\ Cardinality(1..n) = IF 1 > n THEN 0 ELSE n - 1 + 1
  BY ONLY <1>1, FS_Interval
<1>3. IsFiniteSet(1..(n + 1)) /\ Cardinality(1..(n + 1)) = IF 1 > n + 1 THEN 0 ELSE n + 1 - 1 + 1
  BY ONLY <1>1, FS_Interval
<1> QED
  BY <1>2, <1>3

\* There are fewer entries than numbers to try, so the loop that makes up a
\* prefix ends, and with one that no entry has.
LEMMA FreshIsNew ==
  ASSUME namespaces \in Seq(Entry), NEW p \in Prefix
  PROVE  Fresh(p) \in Prefix /\ FindPrefix(Fresh(p)) = NoEntry
<1> DEFINE base == IF p = <<>> THEN <<"ns">> ELSE p
           L == Len(namespaces)
           made == [n \in 1..(L + 1) |-> base \o <<n>>]
           free == {n \in 1..(L + 1) : FindPrefix(base \o <<n>>) = NoEntry}
           holder == [n \in 1..(L + 1) |-> CHOOSE e \in 1..L : namespaces[e].prefix = made[n]]
<1>1. L \in Nat
  OBVIOUS
<1>2. base \in Seq(Letters) /\ \A n \in Nat : <<n>> \in Seq(Letters)
  <2>1. {"ns"} \subseteq Letters /\ Nat \subseteq Letters
    BY DEF Letters
  <2>2. <<"ns">> \in Seq(Letters) /\ \A n \in Nat : <<n>> \in Seq(Letters)
    BY <2>1
  <2> QED BY <2>2 DEF Prefix
<1>3. \A n \in Nat : base \o <<n>> \in Prefix
  BY <1>2, ConcatProperties DEF Prefix
<1> HIDE DEF base
<1>4. \A m, n \in Nat : base \o <<m>> = base \o <<n>> => m = n
  <2> SUFFICES ASSUME NEW m \in Nat, NEW n \in Nat, base \o <<m>> = base \o <<n>> PROVE m = n
    OBVIOUS
  <2>1. (base \o <<m>>)[Len(base) + 1] = <<m>>[1] /\ (base \o <<n>>)[Len(base) + 1] = <<n>>[1]
    BY <1>2, ConcatProperties
  <2> QED BY <2>1
<1>5. free # {}
  <2> SUFFICES ASSUME free = {} PROVE FALSE
    OBVIOUS
  <2>1. ASSUME NEW n \in 1..(L + 1) PROVE \E e \in 1..L : namespaces[e].prefix = made[n]
    <3>1. FindPrefix(base \o <<n>>) # NoEntry
      OBVIOUS
    <3>2. FindPrefix(base \o <<n>>) \in 1..L /\ namespaces[FindPrefix(base \o <<n>>)].prefix = base \o <<n>>
      BY <3>1, FindPrefixFacts
    <3> QED BY <3>2
  <2>2. \A n \in 1..(L + 1) : holder[n] \in 1..L /\ namespaces[holder[n]].prefix = made[n]
    BY <2>1
  <2> HIDE DEF free
  <2>3. holder \in [1..(L + 1) -> 1..L]
    <3> DEFINE H(n) == CHOOSE e \in 1..L : namespaces[e].prefix = made[n]
    <3>1. \A n \in 1..(L + 1) : H(n) \in 1..L
      BY <2>1
    <3>2. holder = [n \in 1..(L + 1) |-> H(n)]
      OBVIOUS
    <3> HIDE DEF holder, H
    <3> QED BY <3>1, <3>2
  <2>4. IsFiniteSet(1..(L + 1)) /\ IsFiniteSet(1..L) /\ Cardinality(1..L) < Cardinality(1..(L + 1))
    <3> HIDE DEF L
    <3> QED BY ONLY <1>1, MoreNumbers
  <2>5. \A n \in 1..(L + 1) : made[n] = base \o <<n>>
    OBVIOUS
  <2> HIDE DEF holder, made
  <2>6. PICK x, y \in 1..(L + 1) : x # y /\ holder[x] = holder[y]
    BY <2>3, <2>4, FS_PigeonHole
  <2>7. made[x] = made[y]
    BY <2>2, <2>6
  <2>8. x \in Nat /\ y \in Nat /\ base \o <<x>> = base \o <<y>>
    BY <1>1, <2>5, <2>7
  <2> QED BY <1>4, <2>6, <2>8
<1>6. free \subseteq 1..(L + 1)
  OBVIOUS
<1>7. PICK x \in free : \A y \in free : x <= y
  <2>1. L + 1 \in Nat
    BY <1>1
  <2> HIDE DEF free, L
  <2> QED BY <1>5, <1>6, <2>1, SmallestExists
<1> DEFINE first == CHOOSE n \in free : \A m \in free : n <= m
<1>8. first \in free
  BY <1>7
<1>9. Fresh(p) = base \o <<first>>
  BY DEF Fresh, base
<1>10. first \in Nat /\ FindPrefix(base \o <<first>>) = NoEntry
  BY <1>1, <1>8
<1> QED BY <1>3, <1>9, <1>10

LEMMA EntryFacts ==
  ASSUME NEW s \in Seq(Entry), NEW e \in 1..Len(s)
  PROVE  s[e] \in Entry /\ s[e].prefix \in Prefix /\ s[e].uri \in Uri /\ s[e].level \in Nat
<1>1. s[e] \in Entry
  OBVIOUS
<1> QED BY <1>1 DEF Entry

\* The search for an entry with the namespace.
LEMMA FindURIFacts ==
  ASSUME namespaces \in Seq(Entry), NEW u, NEW attr, FindURI(u, attr) # NoEntry
  PROVE  FindURI(u, attr) \in 1..Len(namespaces)
<1> DEFINE found == {i \in DOMAIN namespaces :
                       namespaces[i].uri = u /\ (attr => namespaces[i].prefix # <<>>)}
<1>1. DOMAIN namespaces = 1..Len(namespaces) /\ Len(namespaces) \in Nat
  OBVIOUS
<1>2. found \subseteq 1..Len(namespaces)
  BY <1>1
<1>3. found # {} /\ FindURI(u, attr) = Newest(found)
  BY DEF FindURI
<1> HIDE DEF found
<1>4. Newest(found) \in found
  BY <1>1, <1>2, <1>3, NewestIs
<1> QED BY <1>2, <1>3, <1>4

\* definePrefix declares a prefix only if no entry of the level has it, which
\* needs the levels to grow: the newest entry for a prefix has the highest.
LEMMA DefineFacts ==
  ASSUME namespaces \in Seq(Entry), NEW n, n.prefix \in Prefix, NEW lv \in Nat,
         NEW attr \in BOOLEAN, NEW redefine \in BOOLEAN,
         \A e \in 1..Len(namespaces) : namespaces[e].level <= lv,
         \A d, e \in 1..Len(namespaces) : d <= e => namespaces[d].level <= namespaces[e].level
  PROVE  /\ DefinePrefix(n, lv, attr, redefine).prefix \in Prefix
         /\ DefinePrefix(n, lv, attr, redefine).define =>
              \A e \in 1..Len(namespaces) :
                ~(/\ namespaces[e].prefix = DefinePrefix(n, lv, attr, redefine).prefix
                  /\ namespaces[e].level = lv)
<1> DEFINE D == DefinePrefix(n, lv, attr, redefine)
           reused == FindURI(n.uri, attr)
<1>1. \A e \in 1..Len(namespaces) : namespaces[e].prefix \in Prefix /\ namespaces[e].level \in Nat
  BY EntryFacts
<1>2. CASE ~NewPrefix(n, lv, attr, redefine)
  <2>1. D = [prefix |-> n.prefix, define |-> Undefined(n, lv)]
    BY <1>2 DEF DefinePrefix
  <2>2. D.prefix = n.prefix /\ D.define = Undefined(n, lv)
    BY <2>1
  <2>3. ASSUME Undefined(n, lv), NEW e \in 1..Len(namespaces), namespaces[e].prefix = n.prefix
        PROVE  namespaces[e].level # lv
    <3> DEFINE cur == FindPrefix(n.prefix)
    <3>1. /\ cur \in 1..Len(namespaces) /\ cur # NoEntry /\ e <= cur
      BY <2>3, FindPrefixFacts
    <3>2. namespaces[cur].level # lv
      BY <2>3, <3>1 DEF Undefined
    <3>3. namespaces[e].level <= namespaces[cur].level /\ namespaces[cur].level <= lv
      BY <3>1
    <3> QED BY <1>1, <3>1, <3>2, <3>3
  <2> QED BY <2>2, <2>3
<1>3. CASE NewPrefix(n, lv, attr, redefine) /\ reused # NoEntry
  <2>1. D = [prefix |-> namespaces[reused].prefix, define |-> FALSE]
    BY <1>3 DEF DefinePrefix
  <2>2. reused \in 1..Len(namespaces)
    BY <1>3, FindURIFacts
  <2> QED BY <1>1, <2>1, <2>2
<1>4. CASE NewPrefix(n, lv, attr, redefine) /\ reused = NoEntry
  <2>1. D = [prefix |-> Fresh(n.prefix), define |-> TRUE]
    BY <1>4 DEF DefinePrefix
  <2>2. Fresh(n.prefix) \in Prefix /\ FindPrefix(Fresh(n.prefix)) = NoEntry
    BY FreshIsNew
  <2>3. \A e \in 1..Len(namespaces) : namespaces[e].prefix # Fresh(n.prefix)
    BY <2>2, FindPrefixFacts
  <2> QED BY <2>1, <2>2, <2>3
<1> QED BY <1>2, <1>3, <1>4

-----------------------------------------------------------------------------
(***************************************************************************)
(* What the events do to entries and output                                *)
(***************************************************************************)
\* One name of the innermost element is written: out becomes out1, with the
\* declarations ds, none or one, and an entry for the prefix.
Pair(p, u) == [prefix |-> p, uri |-> u]

Writes(out, out1, ds, p, u) ==
  /\ out1 \in Seq(Written) /\ Len(out1) = Len(out) /\ Len(out) > 0
  /\ \A k \in 1..Len(out) - 1 : out1[k] = out[k]
  /\ out1[Len(out)].decls = out[Len(out)].decls \o ds
  /\ ds \in {<<>>, <<Pair(p, u)>>}

NewEntry(out, b, p, u) == [prefix |-> p, uri |-> u, level |-> Len(out) + b]

OnceHolds(ns, out, b) == Ordered(ns, out, b) /\ Marked(ns, out, b) /\ Once(out)

\* Its declarations afterwards are those before it, and perhaps this one.
LEMMA WrittenDecls ==
  ASSUME NEW out \in Seq(Written), NEW out1, NEW ds, NEW p \in Prefix, NEW u \in Uri,
         Writes(out, out1, ds, p, u)
  PROVE  \A i \in 1..Len(out1[Len(out)].decls) :
           \/ /\ i \in 1..Len(out[Len(out)].decls)
              /\ out1[Len(out)].decls[i] = out[Len(out)].decls[i]
           \/ /\ i = Len(out[Len(out)].decls) + 1
              /\ out1[Len(out)].decls[i] = Pair(p, u)
              /\ ds # <<>>
<1> SUFFICES ASSUME NEW i \in 1..Len(out1[Len(out)].decls)
             PROVE  \/ /\ i \in 1..Len(out[Len(out)].decls)
                       /\ out1[Len(out)].decls[i] = out[Len(out)].decls[i]
                    \/ /\ i = Len(out[Len(out)].decls) + 1
                       /\ out1[Len(out)].decls[i] = Pair(p, u)
                       /\ ds # <<>>
  OBVIOUS
<1> DEFINE old == out[Len(out)].decls
<1>1. Len(out) \in 1..Len(out)
  BY DEF Writes
<1>2. out[Len(out)] \in Written
  BY <1>1, ElementOfSeq
<1>3. old \in Seq(Binding)
  BY <1>2 DEF Written
<1>4. Pair(p, u) \in Binding
  BY DEF Binding, Pair
<1>5. ds \in Seq(Binding) /\ Len(ds) <= 1 /\ (ds # <<>> => ds = <<Pair(p, u)>>)
  <2>1. ds = <<>> \/ ds = <<Pair(p, u)>>
    BY DEF Writes
  <2>2. <<Pair(p, u)>> \in Seq(Binding) /\ Len(<<Pair(p, u)>>) = 1
    BY <1>4
  <2>3. <<>> \in Seq(Binding) /\ Len(<<>>) = 0
    BY EmptySeq
  <2>4. CASE ds = <<>>
    BY <2>3, <2>4
  <2>5. CASE ds = <<Pair(p, u)>>
    BY <2>2, <2>5
  <2> QED BY <2>1, <2>4, <2>5
<1>6. out1[Len(out)].decls = old \o ds
  BY DEF Writes
<1>7. /\ Len(old \o ds) = Len(old) + Len(ds)
      /\ \A j \in 1..Len(old) + Len(ds) : (old \o ds)[j] = IF j <= Len(old) THEN old[j] ELSE ds[j - Len(old)]
  BY <1>3, <1>5, ConcatProperties
<1>8. Len(old) \in Nat /\ Len(ds) \in Nat /\ (Len(ds) > 0 => ds # <<>>)
  BY <1>3, <1>5
<1>9. i \in 1..Len(old) + Len(ds) /\ out1[Len(out)].decls[i] = IF i <= Len(old) THEN old[i] ELSE ds[i - Len(old)]
  BY <1>6, <1>7
<1>10. CASE i <= Len(old)
  BY <1>8, <1>9, <1>10
<1>11. CASE i > Len(old)
  <2>1. Len(ds) = 1 /\ i = Len(old) + 1 /\ ds # <<>>
    BY <1>5, <1>8, <1>9, <1>11
  <2>2. i - Len(old) = 1 /\ ~(i <= Len(old))
    BY <1>8, <2>1
  <2>3. out1[Len(out)].decls[i] = ds[1]
    BY <1>9, <2>2
  <2>4. ds[1] = Pair(p, u)
    BY <1>5, <2>1
  <2> QED BY <2>1, <2>3, <2>4
<1> QED BY <1>8, <1>9, <1>10, <1>11

\* Writing keeps the invariant if no entry of the level has a prefix that is
\* declared.
LEMMA WritesOnce ==
  ASSUME NEW ns \in Seq(Entry), NEW out \in Seq(Written), NEW b \in Nat, OnceHolds(ns, out, b),
         NEW out1, NEW ds, NEW p \in Prefix, NEW u \in Uri, Writes(out, out1, ds, p, u),
         ds # <<>> => \A e \in 1..Len(ns) : ~(ns[e].prefix = p /\ ns[e].level = Len(out) + b)
  PROVE  /\ Append(ns, NewEntry(out, b, p, u)) \in Seq(Entry)
         /\ OnceHolds(Append(ns, NewEntry(out, b, p, u)), out1, b)
<1>0. \A i \in 1..Len(out1[Len(out)].decls) :
        \/ /\ i \in 1..Len(out[Len(out)].decls)
           /\ out1[Len(out)].decls[i] = out[Len(out)].decls[i]
        \/ /\ i = Len(out[Len(out)].decls) + 1
           /\ out1[Len(out)].decls[i] = Pair(p, u)
           /\ ds # <<>>
  BY WrittenDecls
<1> DEFINE ns1 == Append(ns, NewEntry(out, b, p, u))
           D == Len(out)
           L == Len(ns)
<1>1. D \in Nat /\ D > 0 /\ L \in Nat /\ Len(out1) = D
  BY DEF Writes
<1>2. NewEntry(out, b, p, u) \in Entry
  BY <1>1 DEF Entry, NewEntry
<1>3. ns1 \in Seq(Entry) /\ Len(ns1) = L + 1 /\ (\A e \in 1..L : ns1[e] = ns[e]) /\ ns1[L + 1] = NewEntry(out, b, p, u)
  BY <1>2, AppendProperties
<1>4. ns1[L + 1].prefix = p /\ ns1[L + 1].level = D + b
  BY <1>3 DEF NewEntry
<1>5. \A e \in 1..L : ns[e].level \in Nat /\ b < ns[e].level /\ ns[e].level <= D + b
  BY EntryFacts DEF OnceHolds, Ordered
<1> HIDE DEF ns1
<1>6. Ordered(ns1, out1, b)
  <2>1. ASSUME NEW e \in 1..L + 1 PROVE b < ns1[e].level /\ ns1[e].level <= D + b
    <3>1. CASE e \in 1..L
      BY <1>3, <1>5, <3>1
    <3>2. CASE e = L + 1
      BY <1>1, <1>4, <3>2
    <3> QED BY <1>1, <3>1, <3>2
  <2>2. ASSUME NEW d \in 1..L + 1, NEW e \in 1..L + 1, d <= e PROVE ns1[d].level <= ns1[e].level
    <3>1. CASE e = L + 1
      BY <1>4, <2>1, <3>1
    <3>2. CASE e \in 1..L
      <4>1. d \in 1..L
        BY <1>1, <2>2, <3>2
      <4> QED BY <1>3, <2>2, <3>2, <4>1 DEF OnceHolds, Ordered
    <3> QED BY <1>1, <3>1, <3>2
  <2> QED BY <1>1, <1>3, <2>1, <2>2 DEF Ordered
<1>7. ASSUME NEW k \in 1..D, NEW i \in 1..Len(out1[k].decls)
      PROVE  \E e \in 1..L + 1 : ns1[e].prefix = out1[k].decls[i].prefix /\ ns1[e].level = k + b
  <2>1. ASSUME i \in 1..Len(out[k].decls), out1[k].decls[i] = out[k].decls[i]
        PROVE  \E e \in 1..L + 1 : ns1[e].prefix = out1[k].decls[i].prefix /\ ns1[e].level = k + b
    <3>1. PICK e \in 1..L : ns[e].prefix = out[k].decls[i].prefix /\ ns[e].level = k + b
      BY <2>1 DEF OnceHolds, Marked
    <3>2. e \in 1..L + 1 /\ ns1[e] = ns[e]
      BY <1>1, <1>3, <3>1
    <3> QED BY <2>1, <3>1, <3>2
  <2>2. CASE k # D
    <3>1. out1[k] = out[k]
      BY <1>1, <2>2 DEF Writes
    <3> QED BY <2>1, <3>1
  <2>3. CASE k = D
    <3>1. CASE i \in 1..Len(out[D].decls) /\ out1[D].decls[i] = out[D].decls[i]
      BY <2>1, <2>3, <3>1
    <3>2. CASE out1[D].decls[i] = Pair(p, u)
      <4>1. out1[k].decls[i].prefix = p
        BY <2>3, <3>2 DEF Pair
      <4>2. L + 1 \in 1..L + 1
        BY <1>1
      <4> QED BY <1>4, <2>3, <4>1, <4>2
    <3> QED BY <1>0, <2>3, <3>1, <3>2
  <2> QED BY <2>2, <2>3
<1>8. Marked(ns1, out1, b)
  BY <1>1, <1>3, <1>7 DEF Marked
<1>9. ASSUME NEW k \in 1..D, NEW i \in 1..Len(out1[k].decls), NEW j \in 1..Len(out1[k].decls),
             out1[k].decls[i].prefix = out1[k].decls[j].prefix
      PROVE  i = j
  <2>1. CASE k # D
    <3>1. out1[k] = out[k]
      <4>1. k \in 1..D - 1
        BY <1>1, <2>1
      <4> QED BY <4>1 DEF Writes
    <3>2. Once(out)
      BY DEF OnceHolds
    <3>3. out[k].decls[i].prefix = out[k].decls[j].prefix
      BY <1>9, <3>1
    <3> QED BY <1>1, <3>1, <3>2, <3>3 DEF Once
  <2>2. CASE k = D
    <3>1. ASSUME ds # <<>>, NEW m \in 1..Len(out[D].decls) PROVE out[D].decls[m].prefix # p
      <4>0. Marked(ns, out, b) /\ D \in 1..D
        BY <1>1 DEF OnceHolds
      <4>1. PICK e \in 1..L : ns[e].prefix = out[D].decls[m].prefix /\ ns[e].level = D + b
        BY <4>0 DEF Marked
      <4>2. ~(ns[e].prefix = p /\ ns[e].level = D + b)
        BY <3>1
      <4> QED BY <4>1, <4>2
    <3>2. Pair(p, u).prefix = p
      BY DEF Pair
    <3>3. \/ i \in 1..Len(out[D].decls) /\ out1[D].decls[i] = out[D].decls[i]
          \/ i = Len(out[D].decls) + 1 /\ out1[D].decls[i] = Pair(p, u) /\ ds # <<>>
      BY <1>0, <2>2
    <3>4. \/ j \in 1..Len(out[D].decls) /\ out1[D].decls[j] = out[D].decls[j]
          \/ j = Len(out[D].decls) + 1 /\ out1[D].decls[j] = Pair(p, u) /\ ds # <<>>
      BY <1>0, <2>2
    <3>5. CASE i \in 1..Len(out[D].decls) /\ j \in 1..Len(out[D].decls) /\ out1[D].decls[i] = out[D].decls[i] /\ out1[D].decls[j] = out[D].decls[j]
      BY <1>1, <1>9, <2>2, <3>5 DEF OnceHolds, Once
    <3> QED BY <1>9, <2>2, <3>1, <3>2, <3>3, <3>4, <3>5
  <2> QED BY <2>1, <2>2
<1>10. Once(out1)
  BY <1>1, <1>9 DEF Once
<1> QED BY <1>3, <1>6, <1>8, <1>10 DEF OnceHolds, ns1

\* An element that is opened has no declarations yet.
Blank == [names |-> {}, decls |-> <<>>]

LEMMA OpenFacts ==
  ASSUME NEW out \in Seq(Written)
  PROVE  /\ Append(out, Blank) \in Seq(Written)
         /\ Len(Append(out, Blank)) = Len(out) + 1
         /\ \A k \in 1..Len(out) : Append(out, Blank)[k] = out[k]
         /\ Append(out, Blank)[Len(out) + 1] = Blank
<1>1. Blank \in Written
  BY EmptySeq DEF Blank, Written
<1> QED BY <1>1, AppendProperties

LEMMA OpenOnce ==
  ASSUME NEW ns \in Seq(Entry), NEW out \in Seq(Written), NEW b \in Nat, OnceHolds(ns, out, b)
  PROVE  OnceHolds(ns, Append(out, Blank), b)
<1> DEFINE out1 == Append(out, Blank)
<1>1. /\ Len(out) \in Nat /\ Len(out1) = Len(out) + 1 /\ (\A k \in 1..Len(out) : out1[k] = out[k])
      /\ out1[Len(out) + 1].decls = <<>>
  BY OpenFacts DEF Blank
<1>2. Len(<<>>) = 0
  BY EmptySeq
<1> HIDE DEF out1
<1>3. \A e \in 1..Len(ns) : ns[e].level \in Nat
  BY EntryFacts
<1>4. Ordered(ns, out1, b)
  <2>1. ASSUME NEW e \in 1..Len(ns) PROVE b < ns[e].level /\ ns[e].level <= Len(out1) + b
    <3>1. b < ns[e].level /\ ns[e].level <= Len(out) + b
      BY DEF OnceHolds, Ordered
    <3> QED BY <1>1, <1>3, <3>1
  <2>2. \A d, e \in 1..Len(ns) : d <= e => ns[d].level <= ns[e].level
    BY DEF OnceHolds, Ordered
  <2> QED BY <2>1, <2>2 DEF Ordered
<1>5. ASSUME NEW k \in 1..Len(out1), NEW i \in 1..Len(out1[k].decls)
      PROVE  k \in 1..Len(out) /\ out1[k] = out[k]
  <2>1. k # Len(out) + 1
    <3> SUFFICES ASSUME k = Len(out) + 1 PROVE FALSE
      OBVIOUS
    <3>1. i \in 1..0
      BY <1>1, <1>2
    <3> QED BY <3>1
  <2> QED BY <1>1, <2>1
<1>6. Marked(ns, out1, b)
  <2>1. ASSUME NEW k \in 1..Len(out1), NEW i \in 1..Len(out1[k].decls)
        PROVE  \E e \in 1..Len(ns) : ns[e].prefix = out1[k].decls[i].prefix /\ ns[e].level = k + b
    <3>1. k \in 1..Len(out) /\ out1[k] = out[k]
      BY <1>5
    <3>2. \E e \in 1..Len(ns) : ns[e].prefix = out[k].decls[i].prefix /\ ns[e].level = k + b
      BY <3>1 DEF OnceHolds, Marked
    <3> QED BY <3>1, <3>2
  <2> QED BY <2>1 DEF Marked
<1>7. Once(out1)
  BY <1>5 DEF OnceHolds, Once
<1> QED BY <1>4, <1>6, <1>7 DEF OnceHolds, out1

\* ns1 is what is left of ns when the entries above a level are popped.
Cut(ns, ns1, lv) ==
  /\ ns1 \in Seq(Entry) /\ Len(ns1) <= Len(ns)
  /\ \A e \in 1..Len(ns1) : ns1[e] = ns[e]
  /\ \A e \in 1..Len(ns) : ns[e].level <= lv <=> e <= Len(ns1)

\* The loop of endElementEvent stops at the first entry of a lower level, and
\* because the levels grow there is none to be popped before it.
LEMMA PoppedIsCut ==
  ASSUME namespaces \in Seq(Entry), NEW lv \in Nat,
         \A d, e \in 1..Len(namespaces) : d <= e => namespaces[d].level <= namespaces[e].level
  PROVE  Cut(namespaces, Popped(lv), lv)
<1> DEFINE kept == {i \in DOMAIN namespaces : namespaces[i].level <= lv}
           L == Len(namespaces)
           m == IF kept = {} THEN 0 ELSE Newest(kept)
<1>1. DOMAIN namespaces = 1..L /\ L \in Nat /\ \A e \in 1..L : namespaces[e].level \in Nat
  BY EntryFacts
<1>2. m \in 0..L /\ \A e \in 1..L : namespaces[e].level <= lv <=> e <= m
  <2>1. CASE kept = {}
    BY <1>1, <2>1
  <2>2. CASE kept # {}
    <3>1. kept \subseteq 1..L
      BY <1>1
    <3>2. m = Newest(kept)
      BY <2>2
    <3> HIDE DEF m
    <3>3. Newest(kept) \in kept /\ \A y \in kept : y <= Newest(kept)
      <4> HIDE DEF kept, L
      <4> QED BY <1>1, <2>2, <3>1, NewestIs
    <3>4. m \in 1..L /\ namespaces[m].level <= lv
      BY <1>1, <3>2, <3>3
    <3>5. ASSUME NEW e \in 1..L, namespaces[e].level <= lv PROVE e <= m
      BY <1>1, <3>2, <3>3, <3>5
    <3>6. ASSUME NEW e \in 1..L, e <= m PROVE namespaces[e].level <= lv
      <4>1. namespaces[e].level <= namespaces[m].level
        BY <3>4, <3>6
      <4> QED BY <1>1, <3>4, <4>1
    <3> QED BY <3>4, <3>5, <3>6
  <2> QED BY <2>1, <2>2
<1>3. Popped(lv) = SubSeq(namespaces, 1, m)
  BY DEF Popped
<1> HIDE DEF m
<1>4. m \in Int /\ 1 \in Int /\ \A i \in 1..m : namespaces[i] \in Entry
  BY <1>1, <1>2
<1>5. /\ SubSeq(namespaces, 1, m) \in Seq(Entry)
      /\ Len(SubSeq(namespaces, 1, m)) = IF 1 <= m THEN m - 1 + 1 ELSE 0
      /\ \A i \in 1..m - 1 + 1 : SubSeq(namespaces, 1, m)[i] = namespaces[1 + i - 1]
  BY <1>4, SubSeqProperties
<1>6. Len(SubSeq(namespaces, 1, m)) = m /\ \A i \in 1..m : SubSeq(namespaces, 1, m)[i] = namespaces[i]
  BY <1>2, <1>5
<1> QED BY <1>1, <1>2, <1>3, <1>5, <1>6 DEF Cut

LEMMA CloseOnce ==
  ASSUME NEW ns \in Seq(Entry), NEW out \in Seq(Written), NEW b \in Nat, OnceHolds(ns, out, b), Len(out) > 0,
         NEW ns1, Cut(ns, ns1, Len(out) - 1 + b)
  PROVE  OnceHolds(ns1, SubSeq(out, 1, Len(out) - 1), b)
<1> DEFINE out1 == SubSeq(out, 1, Len(out) - 1)
<1>1. Len(out) \in Nat /\ Len(out1) = Len(out) - 1 /\ \A k \in 1..Len(out) - 1 : out1[k] = out[k]
  BY FrontFacts
<1> HIDE DEF out1
<1>2. /\ Len(ns1) \in Nat /\ Len(ns) \in Nat /\ Len(ns1) <= Len(ns)
      /\ \A e \in 1..Len(ns1) : ns1[e] = ns[e] /\ e \in 1..Len(ns) /\ ns[e].level <= Len(out) - 1 + b
  BY DEF Cut
<1>3. Ordered(ns1, out1, b)
  <2>1. \A e \in 1..Len(ns1) : b < ns1[e].level /\ ns1[e].level <= Len(out1) + b
    BY <1>1, <1>2 DEF OnceHolds, Ordered
  <2>2. ASSUME NEW d \in 1..Len(ns1), NEW e \in 1..Len(ns1), d <= e PROVE ns1[d].level <= ns1[e].level
    BY <1>2, <2>2 DEF OnceHolds, Ordered
  <2> QED BY <2>1, <2>2 DEF Ordered
<1>4. ASSUME NEW k \in 1..Len(out1), NEW i \in 1..Len(out1[k].decls)
      PROVE  \E e \in 1..Len(ns1) : ns1[e].prefix = out1[k].decls[i].prefix /\ ns1[e].level = k + b
  <2>1. k \in 1..Len(out) /\ out1[k] = out[k] /\ k + b <= Len(out) - 1 + b
    BY <1>1
  <2>2. PICK e \in 1..Len(ns) : ns[e].prefix = out[k].decls[i].prefix /\ ns[e].level = k + b
    BY <2>1 DEF OnceHolds, Marked
  <2>3. e \in 1..Len(ns1)
    BY <1>2, <2>1, <2>2 DEF Cut
  <2> QED BY <1>2, <2>1, <2>2, <2>3
<1>5. Marked(ns1, out1, b)
  BY <1>4 DEF Marked
<1>6. Once(out1)
  <2>1. \A k \in 1..Len(out1) : k \in 1..Len(out) /\ out1[k] = out[k]
    BY <1>1
  <2> QED BY <2>1 DEF OnceHolds, Once
<1> QED BY <1>3, <1>5, <1>6 DEF OnceHolds, out1


-----------------------------------------------------------------------------
(***************************************************************************)
(* The three events that write a name                                      *)
(***************************************************************************)
\* A name in the namespace u is written into the innermost element of out.
WritesName(out, d, u) ==
  /\ Writes(out, output', Declared(d, u), d.prefix, u)
  /\ namespaces' = Append(namespaces, NewEntry(out, Base, d.prefix, u))
  /\ Base' = Base

LEMMA PairTyped ==
  ASSUME NEW p \in Prefix, NEW u \in Uri
  PROVE  {Pair(p, u)} \in SUBSET Binding
BY DEF Pair, Binding

LEMMA DeclaredFacts ==
  ASSUME NEW d, NEW u
  PROVE  /\ Declared(d, u) \in {<<>>, <<Pair(d.prefix, u)>>}
         /\ Declared(d, u) # <<>> => d.define
  BY DEF Declared, Pair

\* The innermost element of the output is changed.
LEMMA LastChanged ==
  ASSUME NEW out \in Seq(Written), Len(out) > 0, NEW e \in Written,
         NEW out1, out1 = [out EXCEPT ![Len(out)] = e]
  PROVE  /\ out1 \in Seq(Written) /\ Len(out1) = Len(out)
         /\ \A j \in 1..Len(out) - 1 : out1[j] = out[j]
         /\ out1[Len(out)] = e
<1>1. Len(out) \in 1..Len(out) /\ Len(out) \in Nat
  OBVIOUS
<1> DEFINE n == Len(out)
<1>2. out1 = [out EXCEPT ![n] = e]
  OBVIOUS
<1>3. n \in 1..n /\ n \in Nat
  BY <1>1
<1> HIDE DEF n
<1>4. n \in 1..Len(out) /\ n = Len(out)
  BY <1>3 DEF n
<1>5. /\ out1 \in Seq(Written) /\ Len(out1) = Len(out)
      /\ \A j \in 1..Len(out) : out1[j] = IF j = n THEN e ELSE out[j]
  BY <1>2, <1>4, ExceptSeq
<1>6. out1[n] = e /\ \A j \in 1..n - 1 : out1[j] = out[j]
  BY <1>3, <1>4, <1>5
<1> QED BY <1>5, <1>6 DEF n

LEMMA NewDecls ==
  ASSUME NEW old \in Seq(Binding), NEW d, d.prefix \in Prefix, NEW u \in Uri
  PROVE  old \o Declared(d, u) \in Seq(Binding)
<1>1. Pair(d.prefix, u) \in Binding
  BY DEF Pair, Binding
<1>2. <<Pair(d.prefix, u)>> \in Seq(Binding) /\ <<>> \in Seq(Binding)
  BY <1>1
<1>3. Declared(d, u) = <<>> \/ Declared(d, u) = <<Pair(d.prefix, u)>>
  BY DeclaredFacts
<1>4. Declared(d, u) \in Seq(Binding)
  BY <1>2, <1>3
<1> QED BY <1>4, ConcatProperties

\* The levels of the entries are no higher than the current one.
LEMMA LevelFacts ==
  ASSUME TypeInv, OnceInv
  PROVE  /\ level = Len(output) + Base /\ Base \in Nat /\ level \in Nat /\ Len(output) \in Nat
         /\ \A e \in 1..Len(namespaces) : namespaces[e].level \in Nat /\ namespaces[e].level <= level
         /\ \A d, e \in 1..Len(namespaces) : d <= e => namespaces[d].level <= namespaces[e].level
<1>1. level = Len(output) + Base /\ Base \in Nat /\ level \in Nat /\ Len(output) \in Nat
  BY DEF TypeInv, Base
<1>2. Ordered(namespaces, output, Base)
  BY DEF OnceInv
<1>3. \A e \in 1..Len(namespaces) : namespaces[e].level \in Nat
  BY EntryFacts DEF TypeInv
<1> QED BY <1>1, <1>2, <1>3 DEF Ordered

LEMMA StartWrites ==
  ASSUME TypeInv, OnceInv, NEW n \in AllNames, StartElementEvent(n)
  PROVE  LET d == DefinePrefix(n, level + 1, FALSE, TRUE)
         IN /\ d.prefix \in Prefix
            /\ WritesName(Append(output, Blank), d, n.uri)
            /\ output'[Len(output) + 1].names = {Pair(d.prefix, n.uri)}
            /\ input' = Append(input, [names |-> {n}, decls |-> {}])
            /\ level' = level + 1
<1> DEFINE d == DefinePrefix(n, level + 1, FALSE, TRUE)
           out == Append(output, Blank)
           e == [names |-> {Pair(d.prefix, n.uri)}, decls |-> Declared(d, n.uri)]
<1>1. n.prefix \in Prefix /\ n.uri \in Uri
  BY NamesTyped
<1>2. level + 1 \in Nat /\ \A i \in 1..Len(namespaces) : namespaces[i].level <= level + 1
  BY LevelFacts
<1>3. d.prefix \in Prefix
  BY <1>1, <1>2, LevelFacts, DefineFacts DEF TypeInv
<1>4. output' = Append(output, e) /\ level' = level + 1 /\ input' = Append(input, [names |-> {n}, decls |-> {}])
  BY DEF StartElementEvent, Pair
<1>5. namespaces' = Append(namespaces, [prefix |-> d.prefix, uri |-> n.uri, level |-> level + 1])
  BY DEF StartElementEvent, Remember
<1> HIDE DEF d
<1>6. <<>> \in Seq(Binding) /\ {Pair(d.prefix, n.uri)} \in SUBSET Binding
  BY <1>1, <1>3 DEF Pair, Binding
<1>7. Declared(d, n.uri) \in Seq(Binding)
  <2>1. <<>> \o Declared(d, n.uri) \in Seq(Binding)
    BY <1>1, <1>3, <1>6, NewDecls
  <2>2. Declared(d, n.uri) = <<>> \/ Declared(d, n.uri) = <<Pair(d.prefix, n.uri)>>
    BY DeclaredFacts
  <2>3. Pair(d.prefix, n.uri) \in Binding
    BY <1>6
  <2>4. <<Pair(d.prefix, n.uri)>> \in Seq(Binding)
    BY <2>3
  <2> QED BY <1>6, <2>2, <2>4
<1>8. e \in Written
  BY <1>6, <1>7 DEF Written
<1>9. e.decls = Declared(d, n.uri) /\ e.names = {Pair(d.prefix, n.uri)}
  OBVIOUS
<1> HIDE DEF e
<1>10. output \in Seq(Written)
  BY DEF TypeInv
<1>11. /\ output' \in Seq(Written) /\ Len(output') = Len(output) + 1
       /\ \A k \in 1..Len(output) : output'[k] = output[k]
       /\ output'[Len(output) + 1] = e
  BY <1>4, <1>8, <1>10, AppendProperties
<1>12. /\ Len(out) = Len(output) + 1 /\ \A k \in 1..Len(output) : out[k] = output[k]
       /\ out[Len(output) + 1] = Blank
  BY <1>10, OpenFacts
<1> HIDE DEF out
<1>13. Blank.decls \o Declared(d, n.uri) = Declared(d, n.uri)
  BY <1>7, ConcatEmptySeq DEF Blank
<1>14. Writes(out, output', Declared(d, n.uri), d.prefix, n.uri)
  <2>1. Len(output) \in Nat
    BY <1>10
  <2>2. Len(out) > 0 /\ Len(output') = Len(out) /\ \A k \in 1..Len(out) - 1 : output'[k] = out[k]
    BY <1>11, <1>12, <2>1
  <2>3. output'[Len(out)].decls = out[Len(out)].decls \o Declared(d, n.uri)
    BY <1>9, <1>11, <1>12, <1>13
  <2> QED BY <1>11, <2>2, <2>3, DeclaredFacts DEF Writes
<1>15. Base' = Base
  BY <1>4, <1>11, LevelFacts DEF Base, TypeInv
<1>16. level + 1 = Len(out) + Base
  BY <1>12, LevelFacts
<1>17. namespaces' = Append(namespaces, NewEntry(out, Base, d.prefix, n.uri))
  BY <1>5, <1>16 DEF NewEntry
<1>18. WritesName(out, d, n.uri)
  BY <1>14, <1>15, <1>17 DEF WritesName
<1> QED BY <1>3, <1>4, <1>9, <1>11, <1>18 DEF d, out

\* An attribute or a namespace node is written into the open element.
LEMMA InnerWrites ==
  ASSUME TypeInv, OnceInv, Depth > 0, NEW n \in AllNames, NEW attr \in BOOLEAN, NEW redefine \in BOOLEAN,
         NEW written \in SUBSET Binding,
         LET d == DefinePrefix(n, level, attr, redefine)
         IN /\ Remember(d.prefix, n.uri, level)
            /\ output' = [output EXCEPT ![Depth] = [names |-> written, decls |-> @.decls \o Declared(d, n.uri)]]
            /\ level' = level
  PROVE  LET d == DefinePrefix(n, level, attr, redefine)
         IN /\ d.prefix \in Prefix
            /\ WritesName(output, d, n.uri)
            /\ output'[Depth].names = written
<1> DEFINE d == DefinePrefix(n, level, attr, redefine)
           old == output[Depth]
           e == [names |-> written, decls |-> old.decls \o Declared(d, n.uri)]
<1>1. n.prefix \in Prefix /\ n.uri \in Uri
  BY NamesTyped
<1>2. d.prefix \in Prefix
  BY <1>1, LevelFacts, DefineFacts DEF TypeInv
<1>3. output' = [output EXCEPT ![Depth] = e] /\ level' = level
  OBVIOUS
<1>4. namespaces' = Append(namespaces, [prefix |-> d.prefix, uri |-> n.uri, level |-> level])
  BY DEF Remember
<1> HIDE DEF d
<1>5. old.names \in SUBSET Binding /\ old.decls \in Seq(Binding)
  <2>1. old \in Written
    BY DEF TypeInv, Depth
  <2> QED BY <2>1 DEF Written
<1>6. old.decls \o Declared(d, n.uri) \in Seq(Binding)
  BY <1>1, <1>2, <1>5, NewDecls
<1>7. e \in Written
  BY <1>5, <1>6 DEF Written
<1>8. e.names = written /\ e.decls = old.decls \o Declared(d, n.uri)
  OBVIOUS
<1> HIDE DEF e
<1>9. output \in Seq(Written) /\ Len(output) > 0 /\ output' = [output EXCEPT ![Len(output)] = e]
  BY <1>3 DEF TypeInv, Depth
<1>10. /\ output' \in Seq(Written) /\ Len(output') = Len(output)
       /\ \A j \in 1..Len(output) - 1 : output'[j] = output[j]
       /\ output'[Len(output)] = e
  BY <1>7, <1>9, LastChanged
<1>11. Writes(output, output', Declared(d, n.uri), d.prefix, n.uri)
  BY <1>8, <1>9, <1>10, DeclaredFacts DEF Writes, Depth
<1>12. Base' = Base
  BY <1>3, <1>10 DEF Base
<1>13. level = Len(output) + Base
  BY LevelFacts
<1>14. namespaces' = Append(namespaces, NewEntry(output, Base, d.prefix, n.uri))
  BY <1>4, <1>13 DEF NewEntry
<1>15. WritesName(output, d, n.uri)
  BY <1>11, <1>12, <1>14 DEF WritesName
<1> QED BY <1>2, <1>8, <1>10, <1>15 DEF d, Depth

\* The invariant is kept by all of them.
LEMMA WritesNameOnce ==
  ASSUME TypeInv, OnceInv, NEW out \in Seq(Written), OnceHolds(namespaces, out, Base),
         NEW n \in AllNames, NEW attr \in BOOLEAN, NEW redefine \in BOOLEAN,
         LET d == DefinePrefix(n, Len(out) + Base, attr, redefine)
         IN d.prefix \in Prefix /\ WritesName(out, d, n.uri)
  PROVE  /\ namespaces' \in Seq(Entry) /\ output' \in Seq(Written) /\ Len(output') = Len(out)
         /\ OnceInv'
<1> DEFINE lv == Len(out) + Base
           d == DefinePrefix(n, lv, attr, redefine)
           ds == Declared(d, n.uri)
<1>1. n.prefix \in Prefix /\ n.uri \in Uri
  BY NamesTyped
<1>2. Base \in Nat /\ Len(out) \in Nat /\ lv \in Nat
  BY LevelFacts
<1>3. /\ \A i \in 1..Len(namespaces) : namespaces[i].level <= lv
      /\ \A i, j \in 1..Len(namespaces) : i <= j => namespaces[i].level <= namespaces[j].level
  BY DEF OnceHolds, Ordered
<1>4. namespaces \in Seq(Entry)
  BY DEF TypeInv
<1>5. d.define => \A i \in 1..Len(namespaces) : ~(namespaces[i].prefix = d.prefix /\ namespaces[i].level = lv)
  <2>1. attr \in BOOLEAN /\ redefine \in BOOLEAN
    OBVIOUS
  <2> HIDE DEF lv
  <2> QED BY ONLY <1>1, <1>2, <1>3, <1>4, <2>1, DefineFacts
<1>6. d.prefix \in Prefix /\ WritesName(out, d, n.uri)
  OBVIOUS
<1> HIDE DEF d
<1>7. ds # <<>> => \A i \in 1..Len(namespaces) : ~(namespaces[i].prefix = d.prefix /\ namespaces[i].level = Len(out) + Base)
  BY <1>5, DeclaredFacts
<1> HIDE DEF ds
<1>8. /\ Writes(out, output', ds, d.prefix, n.uri)
      /\ namespaces' = Append(namespaces, NewEntry(out, Base, d.prefix, n.uri))
      /\ Base' = Base
  BY <1>6 DEF WritesName, ds
<1>9. namespaces' \in Seq(Entry) /\ OnceHolds(namespaces', output', Base)
  BY <1>1, <1>2, <1>4, <1>6, <1>7, <1>8, WritesOnce
<1>10. OnceInv'
  BY <1>8, <1>9 DEF OnceInv, OnceHolds
<1>11. output' \in Seq(Written) /\ Len(output') = Len(out)
  BY <1>8 DEF Writes
<1> QED BY <1>9, <1>10, <1>11


-----------------------------------------------------------------------------
(***************************************************************************)
(* Every event keeps the invariant                                         *)
(***************************************************************************)
\* The names of the tree.
LEMMA TreeNames ==
  ASSUME TypeInv
  PROVE  tree.names \subseteq AllNames /\ tree.attributes \subseteq AllNames /\ tree.bindings \subseteq AllNames
BY DEF TypeInv, AllNames

\* Without open elements there are no entries.
LEMMA NoElements ==
  ASSUME TypeInv, OnceInv, Len(output) = 0
  PROVE  Len(namespaces) = 0
<1>1. /\ Base \in Nat /\ Len(namespaces) \in Nat
      /\ \A e \in 1..Len(namespaces) : namespaces[e].level \in Nat
  BY LevelFacts DEF TypeInv
<1>2. \A e \in 1..Len(namespaces) : Base < namespaces[e].level /\ namespaces[e].level <= 0 + Base
  BY DEF OnceInv, Ordered
<1>3. \A e \in 1..Len(namespaces) : FALSE
  BY <1>1, <1>2
<1> QED BY <1>1, <1>3

LEMMA SentOne ==
  ASSUME NEW inp \in Seq(Sent), NEW n \in AllNames, NEW inp1
  PROVE  /\ inp1 = Append(inp, [names |-> {n}, decls |-> {}]) =>
              inp1 \in Seq(Sent) /\ Len(inp1) = Len(inp) + 1
         /\ Len(inp) > 0 /\ inp1 = [inp EXCEPT ![Len(inp)] = [names |-> @.names \union {n}, decls |-> @.decls]] =>
              inp1 \in Seq(Sent) /\ Len(inp1) = Len(inp)
         /\ Len(inp) > 0 /\ inp1 = [inp EXCEPT ![Len(inp)] = [names |-> @.names, decls |-> @.decls \union {n}]] =>
              inp1 \in Seq(Sent) /\ Len(inp1) = Len(inp)
<1> DEFINE e1 == [names |-> {n}, decls |-> {}]
           e2 == [names |-> inp[Len(inp)].names \union {n}, decls |-> inp[Len(inp)].decls]
           e3 == [names |-> inp[Len(inp)].names, decls |-> inp[Len(inp)].decls \union {n}]
<1>1. e1 \in Sent
  BY DEF Sent
<1>2. ASSUME Len(inp) > 0 PROVE e2 \in Sent /\ e3 \in Sent
  <2>1. inp[Len(inp)] \in Sent
    BY <1>2
  <2> QED BY <2>1 DEF Sent
<1>3. ASSUME Len(inp) > 0, NEW e \in Sent, inp1 = [inp EXCEPT ![Len(inp)] = e]
      PROVE  inp1 \in Seq(Sent) /\ Len(inp1) = Len(inp)
  BY <1>3
<1>4. inp1 = Append(inp, e1) => inp1 \in Seq(Sent) /\ Len(inp1) = Len(inp) + 1
  BY <1>1, AppendProperties
<1>5. Len(inp) > 0 /\ inp1 = [inp EXCEPT ![Len(inp)] = e2] => inp1 \in Seq(Sent) /\ Len(inp1) = Len(inp)
  <2> HIDE DEF e2
  <2> QED BY <1>2, <1>3
<1>6. Len(inp) > 0 /\ inp1 = [inp EXCEPT ![Len(inp)] = e3] => inp1 \in Seq(Sent) /\ Len(inp1) = Len(inp)
  <2> HIDE DEF e3
  <2> QED BY <1>2, <1>3
<1> QED BY <1>4, <1>5, <1>6

LEMMA StartKeepsOnce ==
  ASSUME TypeInv, OnceInv, NEW n \in tree.names, StartElementEvent(n)
  PROVE  TypeInv' /\ OnceInv'
<1> DEFINE out == Append(output, Blank)
           d == DefinePrefix(n, level + 1, FALSE, TRUE)
<1>1. n \in AllNames
  BY TreeNames
<1>2. /\ d.prefix \in Prefix /\ WritesName(out, d, n.uri)
      /\ input' = Append(input, [names |-> {n}, decls |-> {}])
      /\ level' = level + 1
  BY <1>1, StartWrites
<1>3. out \in Seq(Written) /\ Len(out) = Len(output) + 1
  BY OpenFacts DEF TypeInv
<1>4. OnceHolds(namespaces, out, Base)
  BY OpenOnce, LevelFacts DEF TypeInv, OnceInv, OnceHolds
<1>5. level + 1 = Len(out) + Base
  BY <1>3, LevelFacts
<1>6. d = DefinePrefix(n, Len(out) + Base, FALSE, TRUE)
  BY <1>5
<1> HIDE DEF d, out
<1>7. namespaces' \in Seq(Entry) /\ output' \in Seq(Written) /\ Len(output') = Len(out) /\ OnceInv'
  BY <1>1, <1>2, <1>3, <1>4, <1>6, WritesNameOnce
<1>8. Base' = Base
  BY <1>2 DEF WritesName
<1>9. input' \in Seq(Sent) /\ Len(input') = Len(input) + 1
  BY <1>1, <1>2, SentOne DEF TypeInv
<1>10. tree' = tree
  BY DEF StartElementEvent, Counted
<1>11. Len(output') > 0
  BY <1>3, <1>7, LevelFacts
<1> QED BY <1>2, <1>3, <1>7, <1>8, <1>9, <1>10, <1>11 DEF TypeInv

LEMMA OpenElement ==
  ASSUME TypeInv, Depth > 0
  PROVE  output[Depth] \in Written /\ output[Depth].names \in SUBSET Binding
<1>1. output[Depth] \in Written
  BY DEF TypeInv, Depth
<1> QED BY <1>1 DEF Written

LEMMA InnerKeepsOnce ==
  ASSUME TypeInv, OnceInv, Depth > 0, NEW n \in AllNames, NEW attr \in BOOLEAN, NEW redefine \in BOOLEAN,
         LET d == DefinePrefix(n, level, attr, redefine)
         IN d.prefix \in Prefix /\ WritesName(output, d, n.uri),
         \/ input' = [input EXCEPT ![Depth] = [names |-> @.names \union {n}, decls |-> @.decls]]
         \/ input' = [input EXCEPT ![Depth] = [names |-> @.names, decls |-> @.decls \union {n}]],
         level' = level, tree' = tree
  PROVE  TypeInv' /\ OnceInv'
<1> DEFINE d == DefinePrefix(n, level, attr, redefine)
<1>1. OnceHolds(namespaces, output, Base) /\ output \in Seq(Written)
  BY DEF TypeInv, OnceInv, OnceHolds
<1>2. level = Len(output) + Base
  BY LevelFacts
<1>3. d = DefinePrefix(n, Len(output) + Base, attr, redefine)
  BY <1>2
<1>4. d.prefix \in Prefix /\ WritesName(output, d, n.uri)
  OBVIOUS
<1> HIDE DEF d
<1>5. namespaces' \in Seq(Entry) /\ output' \in Seq(Written) /\ Len(output') = Len(output) /\ OnceInv'
  BY <1>1, <1>3, <1>4, WritesNameOnce
<1>6. Base' = Base
  BY <1>4 DEF WritesName
<1>7. input' \in Seq(Sent) /\ Len(input') = Len(input)
  <2>1. Depth = Len(input) /\ input \in Seq(Sent) /\ Len(input) > 0
    BY DEF TypeInv, Depth
  <2>2. \/ input' = [input EXCEPT ![Len(input)] = [names |-> @.names \union {n}, decls |-> @.decls]]
        \/ input' = [input EXCEPT ![Len(input)] = [names |-> @.names, decls |-> @.decls \union {n}]]
    BY <2>1
  <2>3. /\ input' = [input EXCEPT ![Len(input)] = [names |-> @.names \union {n}, decls |-> @.decls]] =>
              input' \in Seq(Sent) /\ Len(input') = Len(input)
        /\ input' = [input EXCEPT ![Len(input)] = [names |-> @.names, decls |-> @.decls \union {n}]] =>
              input' \in Seq(Sent) /\ Len(input') = Len(input)
    <3> DEFINE new == input'
    <3> HIDE DEF new
    <3>0. n \in AllNames
      OBVIOUS
    <3>1. new = [input EXCEPT ![Len(input)] = [names |-> @.names \union {n}, decls |-> @.decls]] =>
            new \in Seq(Sent) /\ Len(new) = Len(input)
      BY ONLY <2>1, <3>0, SentOne
    <3>2. new = [input EXCEPT ![Len(input)] = [names |-> @.names, decls |-> @.decls \union {n}]] =>
            new \in Seq(Sent) /\ Len(new) = Len(input)
      BY ONLY <2>1, <3>0, SentOne
    <3> QED BY ONLY <3>1, <3>2 DEF new
  <2> QED BY <2>2, <2>3
<1> QED BY <1>5, <1>6, <1>7 DEF TypeInv, Depth

LEMMA AttributeWrites ==
  ASSUME TypeInv, OnceInv, Depth > 0, NEW n \in tree.attributes, AttributeEvent(n), n.uri # ""
  PROVE  LET d == DefinePrefix(n, level, TRUE, TRUE)
         IN /\ d.prefix \in Prefix /\ WritesName(output, d, n.uri)
            /\ output'[Depth].names = output[Depth].names \union {Pair(d.prefix, n.uri)}
            /\ n \in AllNames
<1> DEFINE d == DefinePrefix(n, level, TRUE, TRUE)
           written == output[Depth].names \union {Pair(d.prefix, n.uri)}
<1>1. n \in AllNames
  BY TreeNames
<1>2. n.prefix \in Prefix /\ n.uri \in Uri
  BY <1>1, NamesTyped
<1>3. d.prefix \in Prefix
  BY <1>2, LevelFacts, DefineFacts DEF TypeInv
<1>4. written \in SUBSET Binding
  <2>1. {Pair(d.prefix, n.uri)} \in SUBSET Binding
    BY <1>2, <1>3, PairTyped
  <2> QED BY <2>1, OpenElement
<1>5. /\ Remember(d.prefix, n.uri, level)
      /\ output' = [output EXCEPT ![Depth] = [names |-> written, decls |-> @.decls \o Declared(d, n.uri)]]
      /\ level' = level
  BY DEF AttributeEvent, Pair
<1> HIDE DEF written
<1>6. /\ d.prefix \in Prefix /\ WritesName(output, d, n.uri)
      /\ output'[Depth].names = written
  BY <1>1, <1>4, <1>5, InnerWrites
<1> QED BY <1>1, <1>6 DEF written

LEMMA NamespaceWrites ==
  ASSUME TypeInv, OnceInv, Depth > 0, NEW n \in tree.bindings, NamespaceEvent(n)
  PROVE  LET d == DefinePrefix(n, level, FALSE, FALSE)
         IN /\ d.prefix \in Prefix /\ WritesName(output, d, n.uri)
            /\ output'[Depth].names = output[Depth].names
            /\ n \in AllNames
<1> DEFINE d == DefinePrefix(n, level, FALSE, FALSE)
<1>1. n \in AllNames
  BY TreeNames
<1>3. /\ Remember(d.prefix, n.uri, level)
      /\ output' = [output EXCEPT ![Depth] = [names |-> @.names, decls |-> @.decls \o Declared(d, n.uri)]]
      /\ level' = level
  BY DEF NamespaceEvent
<1>4. output[Depth].names \in SUBSET Binding
  BY OpenElement
<1> QED BY <1>1, <1>3, <1>4, InnerWrites

LEMMA EndKeepsOnce ==
  ASSUME TypeInv, OnceInv, EndElementEvent
  PROVE  /\ TypeInv' /\ OnceInv' /\ Base' = Base /\ Len(output) > 0
         /\ Cut(namespaces, namespaces', Len(output) - 1 + Base)
         /\ output' = SubSeq(output, 1, Len(output) - 1)
         /\ input' = SubSeq(input, 1, Len(input) - 1)
<1>1. /\ Len(output) > 0 /\ level' = level - 1 /\ namespaces' = Popped(level - 1)
      /\ output' = SubSeq(output, 1, Len(output) - 1) /\ input' = SubSeq(input, 1, Len(input) - 1)
      /\ tree' = tree
  BY DEF EndElementEvent, Depth, Left, Counted, TypeInv
<1>2. output \in Seq(Written) /\ input \in Seq(Sent) /\ Len(input) = Len(output) /\ namespaces \in Seq(Entry)
  BY DEF TypeInv
<1>3. output' \in Seq(Written) /\ Len(output') = Len(output) - 1
  BY <1>1, <1>2, FrontFacts
<1>4. input' \in Seq(Sent) /\ Len(input') = Len(input) - 1
  BY <1>1, <1>2, FrontFacts
<1>5. level = Len(output) + Base /\ Base \in Nat /\ Len(output) \in Nat
  BY LevelFacts
<1>6. Base' = Base /\ level - 1 \in Nat /\ level - 1 = Len(output) - 1 + Base
  BY <1>1, <1>3, <1>5 DEF Base
<1>7. Cut(namespaces, namespaces', level - 1)
  BY <1>1, <1>2, <1>6, LevelFacts, PoppedIsCut
<1>8. Cut(namespaces, namespaces', Len(output) - 1 + Base)
  BY <1>6, <1>7
<1>9. OnceHolds(namespaces, output, Base)
  BY DEF OnceInv, OnceHolds
<1>10. OnceHolds(namespaces', SubSeq(output, 1, Len(output) - 1), Base)
  BY <1>1, <1>2, <1>5, <1>8, <1>9, CloseOnce
<1>11. OnceInv'
  BY <1>1, <1>6, <1>10 DEF OnceInv, OnceHolds
<1>12. namespaces' \in Seq(Entry)
  BY <1>7 DEF Cut
<1>13. TypeInv'
  <2>1. ~(phase' = "tag")
    BY DEF EndElementEvent
  <2> QED BY <1>1, <1>2, <1>3, <1>4, <1>6, <1>12, <2>1 DEF TypeInv
<1> QED BY <1>1, <1>6, <1>8, <1>11, <1>13

LEMMA OnceInductive ==
  ASSUME TypeInv, OnceInv, [Next]_vars
  PROVE  TypeInv' /\ OnceInv'
<1>1. ASSUME UNCHANGED <<tree, level, namespaces, output, input>>,
             phase' = phase \/ phase' = "content"
      PROVE  TypeInv' /\ OnceInv'
  <2>1. Base' = Base
    BY <1>1 DEF Base
  <2>2. TypeInv'
    BY <1>1, <2>1 DEF TypeInv
  <2>3. OnceInv'
    BY <1>1, <2>1 DEF OnceInv, Ordered, Marked, Once
  <2> QED BY <2>2, <2>3
<1>2. CASE StartDocumentEvent
  <2>1. level = 0 /\ level' = 1 /\ phase' = "content" /\ UNCHANGED <<tree, namespaces, output, input>>
    BY <1>2 DEF StartDocumentEvent, Counted
  <2>2. Len(output) = 0 /\ Base = 0 /\ Base' = 1
    BY <2>1, LevelFacts DEF Base
  <2>3. Len(namespaces) = 0
    BY <2>2, NoElements
  <2>4. TypeInv'
    BY <2>1, <2>2 DEF TypeInv
  <2>5. OnceInv'
    BY <2>1, <2>2, <2>3 DEF OnceInv, Ordered, Marked, Once
  <2> QED BY <2>4, <2>5
<1>3. CASE EndDocumentEvent
  <2>1. level = 1 /\ level' = 0 /\ Len(output) = 0 /\ phase' = "end" /\ UNCHANGED <<tree, namespaces, output, input>>
    BY <1>3 DEF EndDocumentEvent, Counted, Depth
  <2>2. Base' = 0
    <3>1. level' = 0 /\ Len(output') = 0
      BY <2>1
    <3> QED BY <3>1 DEF Base
  <2>3. Len(namespaces) = 0
    BY <2>1, NoElements
  <2>4. TypeInv'
    BY <2>1, <2>2 DEF TypeInv
  <2>5. OnceInv'
    BY <2>1, <2>2, <2>3 DEF OnceInv, Ordered, Marked, Once
  <2> QED BY <2>4, <2>5
<1>4. ASSUME NEW n \in tree.names, StartElementEvent(n) PROVE TypeInv' /\ OnceInv'
  BY <1>4, StartKeepsOnce
<1>5. CASE EndElementEvent
  BY <1>5, EndKeepsOnce
<1>6. CASE ContentEvent
  BY <1>1, <1>6 DEF ContentEvent, Counted
<1>7. ASSUME NEW n \in tree.attributes, AttributeEvent(n), Depth > 0 PROVE TypeInv' /\ OnceInv'
  <2>1. CASE n.uri = ""
    BY <1>1, <1>7, <2>1 DEF AttributeEvent, Counted
  <2>2. CASE n.uri # ""
    <3>1. /\ input' = [input EXCEPT ![Depth] = [names |-> @.names \union {n}, decls |-> @.decls]]
          /\ level' = level /\ tree' = tree
      BY <1>7, <2>2 DEF AttributeEvent, Counted
    <3>2. LET d == DefinePrefix(n, level, TRUE, TRUE)
          IN d.prefix \in Prefix /\ WritesName(output, d, n.uri) /\ n \in AllNames
      BY <1>7, <2>2, AttributeWrites
    <3> QED BY <1>7, <3>1, <3>2, InnerKeepsOnce
  <2> QED BY <2>1, <2>2
<1>8. ASSUME NEW n \in tree.bindings, NamespaceEvent(n), Depth > 0 PROVE TypeInv' /\ OnceInv'
  <2>1. /\ input' = [input EXCEPT ![Depth] = [names |-> @.names, decls |-> @.decls \union {n}]]
        /\ level' = level /\ tree' = tree
    BY <1>8 DEF NamespaceEvent, Counted
  <2>2. LET d == DefinePrefix(n, level, FALSE, FALSE)
        IN d.prefix \in Prefix /\ WritesName(output, d, n.uri) /\ n \in AllNames
    BY <1>8, NamespaceWrites
  <2> QED BY <1>8, <2>1, <2>2, InnerKeepsOnce
<1>9. ASSUME NEW n \in tree.attributes, AttributeEvent(n) PROVE Depth > 0
  BY <1>9 DEF AttributeEvent, TypeInv, Depth
<1>10. ASSUME NEW n \in tree.bindings, NamespaceEvent(n) PROVE Depth > 0
  BY <1>10 DEF NamespaceEvent, TypeInv, Depth
<1>11. ASSUME NEW n \in tree.attributes, AttributeEvent(n) PROVE TypeInv' /\ OnceInv'
  BY <1>7, <1>9, <1>11
<1>12. ASSUME NEW n \in tree.bindings, NamespaceEvent(n) PROVE TypeInv' /\ OnceInv'
  BY <1>8, <1>10, <1>12
<1>13. CASE UNCHANGED vars
  BY <1>1, <1>13 DEF vars
<1> QED
  BY <1>2, <1>3, <1>4, <1>5, <1>6, <1>11, <1>12, <1>13 DEF Next

LEMMA OnceInvariant == Spec => [](TypeInv /\ OnceInv)
<1>1. Init => TypeInv /\ OnceInv
  <2> SUFFICES ASSUME Init PROVE TypeInv /\ OnceInv
    OBVIOUS
  <2>1. /\ tree \in Trees /\ level = 0 /\ namespaces = <<>> /\ output = <<>> /\ input = <<>>
        /\ phase = "start"
    BY DEF Init
  <2>2. <<>> \in Seq(Entry) /\ <<>> \in Seq(Written) /\ <<>> \in Seq(Sent) /\ Len(<<>>) = 0
    BY EmptySeq
  <2>3. Base = 0
    <3>1. level = 0 /\ Len(output) = 0
      BY <2>1, <2>2
    <3> QED BY <3>1 DEF Base
  <2> QED BY <2>1, <2>2, <2>3 DEF TypeInv, OnceInv, Ordered, Marked, Once
<1>2. TypeInv /\ OnceInv /\ [Next]_vars => TypeInv' /\ OnceInv'
  BY OnceInductive
<1> QED BY <1>1, <1>2, PTL DEF Spec

\* No element of the output declares a prefix twice, whatever tree is written:
\* an element may use a prefix for as many namespaces as it likes, and
\* definePrefix may make up prefixes or take those it finds.
THEOREM DeclaredOnceAlways == Spec => []DeclaredOnce
<1>1. TypeInv /\ OnceInv => DeclaredOnce
  <2> SUFFICES ASSUME TypeInv, OnceInv, NEW k \in 1..Depth,
                      NEW i \in DOMAIN output[k].decls, NEW j \in DOMAIN output[k].decls,
                      output[k].decls[i].prefix = output[k].decls[j].prefix
               PROVE  i = j
    BY DEF DeclaredOnce
  <2>1. output[k] \in Written /\ k \in 1..Len(output)
    BY DEF TypeInv, Depth
  <2>2. DOMAIN output[k].decls = 1..Len(output[k].decls)
    BY <2>1 DEF Written
  <2> QED BY <2>1, <2>2 DEF OnceInv, Once
<1> QED BY <1>1, OnceInvariant, PTL


-----------------------------------------------------------------------------
(***************************************************************************)
(* What a reader takes a prefix for                                        *)
(***************************************************************************)
LEMMA ResolvedIsResolvedIn ==
  ASSUME NEW k, NEW p
  PROVE  Resolved(k, p) = ResolvedIn(output, k, p)
<1> DEFINE declaring == {j \in 1..k : \E i \in DOMAIN output[j].decls : output[j].decls[i].prefix = p}
<1>1. Declaring(output, k, p) = declaring
  BY DEF Declaring, DeclsOf
<1>2. Resolved(k, p) = IF declaring = {} THEN {""} ELSE DeclsOf(output, Newest(declaring), p)
  BY DEF Resolved, DeclsOf
<1> QED BY <1>1, <1>2 DEF ResolvedIn

LEMMA ResolvedSame ==
  ASSUME NEW out, NEW out1, NEW k \in Nat, NEW k1, NEW p,
         \A j \in 1..k : DeclsOf(out1, j, p) = DeclsOf(out, j, p),
         1..k \subseteq 1..k1, \A j \in 1..k1 : j \in 1..k \/ DeclsOf(out1, j, p) = {}
  PROVE  ResolvedIn(out1, k1, p) = ResolvedIn(out, k, p)
<1>1. Declaring(out1, k1, p) = Declaring(out, k, p)
  BY DEF Declaring
<1>2. ASSUME Declaring(out, k, p) # {}
      PROVE  Newest(Declaring(out, k, p)) \in 1..k
  <2>1. Declaring(out, k, p) \subseteq 1..k
    BY DEF Declaring
  <2>2. Newest(Declaring(out, k, p)) \in Declaring(out, k, p)
    BY <1>2, <2>1, NewestIs
  <2> QED BY <2>1, <2>2
<1>3. CASE Declaring(out, k, p) = {}
  BY <1>1, <1>3 DEF ResolvedIn
<1>4. CASE Declaring(out, k, p) # {}
  <2>1. DeclsOf(out1, Newest(Declaring(out, k, p)), p) = DeclsOf(out, Newest(Declaring(out, k, p)), p)
    BY <1>2, <1>4
  <2> QED BY <1>1, <1>4, <2>1 DEF ResolvedIn
<1> QED BY <1>3, <1>4

LEMMA ResolvedOwn ==
  ASSUME NEW out, NEW k \in Nat, k > 0, NEW p, DeclsOf(out, k, p) # {}
  PROVE  ResolvedIn(out, k, p) = DeclsOf(out, k, p)
<1> DEFINE S == Declaring(out, k, p)
<1>1. S \subseteq 1..k /\ k \in S
  BY DEF Declaring
<1> HIDE DEF S
<1>2. Newest(S) \in S /\ \A y \in S : y <= Newest(S)
  BY <1>1, NewestIs
<1>3. Newest(S) = k
  <2>1. Newest(S) \in 1..k /\ k <= Newest(S)
    BY <1>1, <1>2
  <2> QED BY <2>1
<1> QED BY <1>1, <1>3 DEF ResolvedIn, S

LEMMA MeantSame ==
  ASSUME NEW ns, NEW ns1, NEW b, NEW k, NEW k1, NEW p, Len(ns) \in Nat,
         Seen(ns1, b, k1, p) = Seen(ns, b, k, p),
         \A e \in Seen(ns, b, k, p) : ns1[e] = ns[e]
  PROVE  Meant(ns1, b, k1, p) = Meant(ns, b, k, p)
<1>1. Seen(ns, b, k, p) \subseteq 1..Len(ns)
  BY DEF Seen
<1>2. CASE Seen(ns, b, k, p) = {}
  BY <1>2 DEF Meant
<1>3. CASE Seen(ns, b, k, p) # {}
  <2>1. Newest(Seen(ns, b, k, p)) \in Seen(ns, b, k, p)
    BY <1>1, <1>3, NewestIs
  <2> QED BY <1>3, <2>1 DEF Meant
<1> QED BY <1>2, <1>3

-----------------------------------------------------------------------------
(***************************************************************************)
(* Plain trees: opening, closing and writing                               *)
(***************************************************************************)
LEMMA OpenPlain ==
  ASSUME NEW ns \in Seq(Entry), NEW out \in Seq(Written), NEW inp, NEW b \in Nat,
         OnceHolds(ns, out, b), PlainHolds(ns, out, inp, b), Len(inp) = Len(out),
         NEW inp1, Len(inp1) = Len(inp) + 1, \A k \in 1..Len(inp) : inp1[k] = inp[k],
         inp1[Len(inp) + 1].decls = {}
  PROVE  /\ Entered(ns, Append(out, Blank), inp1, b)
         /\ FromInput(ns, inp1, b) /\ OneMeaning(ns)
         /\ ReadAsMeant(ns, Append(out, Blank), b)
<1> DEFINE out1 == Append(out, Blank)
           D == Len(out)
<1>1. /\ D \in Nat /\ Len(out1) = D + 1 /\ (\A k \in 1..D : out1[k] = out[k])
      /\ out1[D + 1].decls = <<>> /\ out1[D + 1].names = {}
  BY OpenFacts DEF Blank
<1> HIDE DEF out1
<1>2. /\ Len(ns) \in Nat /\ \A e \in 1..Len(ns) : ns[e].level \in Nat /\ b < ns[e].level /\ ns[e].level <= D + b
  BY EntryFacts DEF OnceHolds, Ordered
<1>3. Entered(ns, out1, inp1, b)
  <2> SUFFICES ASSUME NEW k \in 1..D + 1, NEW n \in InUse(out1, inp1, k)
               PROVE  \E e \in 1..Len(ns) : ns[e].prefix = n.prefix /\ ns[e].uri = n.uri /\ ns[e].level = k + b
    BY <1>1 DEF Entered
  <2>1. k # D + 1
    BY <1>1 DEF InUse
  <2>2. k \in 1..D /\ n \in InUse(out, inp, k)
    BY <1>1, <2>1 DEF InUse
  <2> QED BY <2>2 DEF PlainHolds, Entered
<1>4. FromInput(ns, inp1, b)
  <2> SUFFICES ASSUME NEW e \in 1..Len(ns), NEW k \in 1..D + 1, ns[e].level = k + b
               PROVE  \E n \in inp1[k].names \union inp1[k].decls : n.prefix = ns[e].prefix /\ n.uri = ns[e].uri
    <3>1. Len(inp1) = D + 1
      OBVIOUS
    <3> QED BY <3>1 DEF FromInput
  <2>1. k \in 1..D
    BY <1>1, <1>2
  <2>2. inp1[k] = inp[k]
    BY <2>1
  <2> QED BY <2>1, <2>2 DEF PlainHolds, FromInput
<1>5. ReadAsMeant(ns, out1, b)
  <2> SUFFICES ASSUME NEW k \in 1..D + 1, NEW p \in Prefix
               PROVE  ResolvedIn(out1, k, p) = {Meant(ns, b, k, p)}
    BY <1>1 DEF ReadAsMeant
  <2>1. \A j \in 1..D : DeclsOf(out1, j, p) = DeclsOf(out, j, p)
    BY <1>1 DEF DeclsOf
  <2>2. DeclsOf(out1, D + 1, p) = {}
    BY <1>1 DEF DeclsOf
  <2>3. CASE k \in 1..D
    <3>1. ResolvedIn(out1, k, p) = ResolvedIn(out, k, p)
      BY <1>1, <2>1, <2>3, ResolvedSame
    <3> QED BY <2>3, <3>1 DEF PlainHolds, ReadAsMeant
  <2>4. CASE k = D + 1
    <3>1. ResolvedIn(out1, D + 1, p) = ResolvedIn(out, D, p)
      <4>1. 1..D \subseteq 1..D + 1 /\ \A j \in 1..D + 1 : j \in 1..D \/ DeclsOf(out1, j, p) = {}
        BY <1>1, <2>2
      <4> QED BY <2>1, <4>1, ResolvedSame
    <3>2. Seen(ns, b, D + 1, p) = Seen(ns, b, D, p)
      BY <1>1, <1>2 DEF Seen
    <3>3. Meant(ns, b, D + 1, p) = Meant(ns, b, D, p)
      BY <1>2, <3>2, MeantSame
    <3>4. ResolvedIn(out, D, p) = {Meant(ns, b, D, p)}
      <4>1. CASE D = 0
        <5>1. Declaring(out, D, p) = {}
          BY <4>1 DEF Declaring
        <5>2. Seen(ns, b, D, p) = {}
          BY <1>2, <4>1 DEF Seen
        <5> QED BY <5>1, <5>2 DEF ResolvedIn, Meant
      <4>2. CASE D > 0
        <5>1. D \in 1..D
          BY <1>1, <4>2
        <5> QED BY <5>1 DEF PlainHolds, ReadAsMeant
      <4> QED BY <1>1, <4>1, <4>2
    <3> QED BY <2>4, <3>1, <3>3, <3>4
  <2> QED BY <1>1, <2>3, <2>4
<1> QED BY <1>3, <1>4, <1>5 DEF out1, PlainHolds

LEMMA ClosePlain ==
  ASSUME NEW ns \in Seq(Entry), NEW out \in Seq(Written), NEW inp \in Seq(Sent), NEW b \in Nat, Len(out) > 0,
         OnceHolds(ns, out, b), PlainHolds(ns, out, inp, b), Len(inp) = Len(out),
         NEW ns1, Cut(ns, ns1, Len(out) - 1 + b)
  PROVE  PlainHolds(ns1, SubSeq(out, 1, Len(out) - 1), SubSeq(inp, 1, Len(inp) - 1), b)
<1> DEFINE out1 == SubSeq(out, 1, Len(out) - 1)
           inp1 == SubSeq(inp, 1, Len(inp) - 1)
           D == Len(out)
<1>1. D \in Nat /\ Len(out1) = D - 1 /\ \A k \in 1..D - 1 : out1[k] = out[k]
  BY FrontFacts
<1>2. Len(inp1) = D - 1 /\ \A k \in 1..D - 1 : inp1[k] = inp[k]
  BY FrontFacts
<1> HIDE DEF out1, inp1
<1>3. /\ Len(ns1) \in Nat /\ Len(ns) \in Nat /\ Len(ns1) <= Len(ns)
      /\ \A e \in 1..Len(ns1) : ns1[e] = ns[e] /\ e \in 1..Len(ns)
      /\ \A e \in 1..Len(ns) : ns[e].level <= D - 1 + b => e \in 1..Len(ns1)
      /\ \A e \in 1..Len(ns) : ns[e].level \in Nat
  BY EntryFacts DEF Cut
<1>4. Entered(ns1, out1, inp1, b)
  <2> SUFFICES ASSUME NEW k \in 1..D - 1, NEW n \in InUse(out1, inp1, k)
               PROVE  \E e \in 1..Len(ns1) : ns1[e].prefix = n.prefix /\ ns1[e].uri = n.uri /\ ns1[e].level = k + b
    BY <1>1 DEF Entered
  <2>1. k \in 1..D /\ n \in InUse(out, inp, k) /\ k + b <= D - 1 + b
    BY <1>1, <1>2 DEF InUse
  <2>2. PICK e \in 1..Len(ns) : ns[e].prefix = n.prefix /\ ns[e].uri = n.uri /\ ns[e].level = k + b
    BY <2>1 DEF PlainHolds, Entered
  <2>3. e \in 1..Len(ns1)
    BY <1>3, <2>1, <2>2
  <2> QED BY <1>3, <2>2, <2>3
<1>5. FromInput(ns1, inp1, b)
  <2> SUFFICES ASSUME NEW e \in 1..Len(ns1), NEW k \in 1..D - 1, ns1[e].level = k + b
               PROVE  \E n \in inp1[k].names \union inp1[k].decls : n.prefix = ns1[e].prefix /\ n.uri = ns1[e].uri
    BY <1>2 DEF FromInput
  <2>1. k \in 1..Len(inp) /\ e \in 1..Len(ns) /\ ns1[e] = ns[e] /\ inp1[k] = inp[k]
    BY <1>1, <1>2, <1>3
  <2>2. ns[e].level = k + b
    BY <2>1
  <2>3. \E n \in inp[k].names \union inp[k].decls : n.prefix = ns[e].prefix /\ n.uri = ns[e].uri
    BY <2>1, <2>2 DEF PlainHolds, FromInput
  <2> QED BY <2>1, <2>3
<1>6. OneMeaning(ns1)
  <2>1. OneMeaning(ns)
    BY DEF PlainHolds
  <2> SUFFICES ASSUME NEW d \in 1..Len(ns1), NEW e \in 1..Len(ns1),
                      ns1[d].prefix = ns1[e].prefix, ns1[d].level = ns1[e].level
               PROVE  ns1[d].uri = ns1[e].uri
    BY DEF OneMeaning
  <2>2. ns1[d] = ns[d] /\ d \in 1..Len(ns) /\ ns1[e] = ns[e] /\ e \in 1..Len(ns)
    BY <1>3
  <2> QED BY <2>1, <2>2 DEF OneMeaning
<1>7. ReadAsMeant(ns1, out1, b)
  <2> SUFFICES ASSUME NEW k \in 1..D - 1, NEW p \in Prefix
               PROVE  ResolvedIn(out1, k, p) = {Meant(ns1, b, k, p)}
    BY <1>1 DEF ReadAsMeant
  <2>1. ASSUME NEW j \in 1..k PROVE DeclsOf(out1, j, p) = DeclsOf(out, j, p)
    <3>1. out1[j] = out[j]
      BY <1>1
    <3> QED BY <3>1 DEF DeclsOf
  <2>2. ResolvedIn(out1, k, p) = ResolvedIn(out, k, p)
    BY <2>1, ResolvedSame
  <2>3. Seen(ns1, b, k, p) = Seen(ns, b, k, p)
    <3>1. \A e \in 1..Len(ns) : ns[e].level <= k + b => e \in 1..Len(ns1)
      BY <1>1, <1>3
    <3> QED BY <1>3, <3>1 DEF Seen
  <2>4. \A e \in Seen(ns, b, k, p) : ns1[e] = ns[e]
    <3>1. \A e \in Seen(ns, b, k, p) : e \in 1..Len(ns1)
      BY <2>3 DEF Seen
    <3> QED BY <1>3, <3>1
  <2>5. Meant(ns1, b, k, p) = Meant(ns, b, k, p)
    BY <1>3, <2>3, <2>4, MeantSame
  <2>6. k \in 1..D
    BY <1>1
  <2> QED BY <2>2, <2>5, <2>6 DEF PlainHolds, ReadAsMeant
<1> QED BY <1>4, <1>5, <1>6, <1>7 DEF PlainHolds, out1, inp1

\* A name is written, and the tree had it with this prefix: m is what was sent.
Received(out, inp, inp1, m, p, u) ==
  /\ Len(inp1) = Len(inp) /\ Len(inp) = Len(out)
  /\ \A k \in 1..Len(out) - 1 : inp1[k] = inp[k]
  /\ inp[Len(out)].names \union inp[Len(out)].decls \subseteq inp1[Len(out)].names \union inp1[Len(out)].decls
  /\ m \in inp1[Len(out)].names \union inp1[Len(out)].decls
  /\ inp1[Len(out)].decls \subseteq inp[Len(out)].decls \union {m}
  /\ m.prefix = p /\ m.uri = u

\* The declarations of the innermost element, when nothing is declared.
LEMMA DeclsKept ==
  ASSUME NEW out \in Seq(Written), NEW out1, NEW p, NEW u, Writes(out, out1, <<>>, p, u), NEW q
  PROVE  DeclsOf(out1, Len(out), q) = DeclsOf(out, Len(out), q)
<1>1. out[Len(out)] \in Written
  BY DEF Writes
<1>2. out[Len(out)].decls \in Seq(Binding)
  BY <1>1 DEF Written
<1>3. out1[Len(out)].decls = out[Len(out)].decls
  BY <1>2, ConcatEmptySeq DEF Writes
<1> QED
  BY <1>3 DEF DeclsOf

\* And when p is declared for u.
LEMMA DeclsAdded ==
  ASSUME NEW out \in Seq(Written), NEW out1, NEW p \in Prefix, NEW u \in Uri,
         Writes(out, out1, <<Pair(p, u)>>, p, u)
  PROVE  /\ \A q : q # p => DeclsOf(out1, Len(out), q) = DeclsOf(out, Len(out), q)
         /\ DeclsOf(out, Len(out), p) = {} => DeclsOf(out1, Len(out), p) = {u}
<1> DEFINE D == Len(out)
           ds == <<Pair(p, u)>>
           old == out[D].decls
           new == out1[D].decls
<1>1. out[D] \in Written
  BY DEF Writes
<1>2. old \in Seq(Binding) /\ Len(old) \in Nat /\ DOMAIN old = 1..Len(old)
  BY <1>1 DEF Written
<1>4. new = old \o ds
  BY DEF Writes
<1>5. Pair(p, u) \in Binding /\ Pair(p, u).prefix = p /\ Pair(p, u).uri = u
  BY PairTyped DEF Pair
<1>6. ds \in Seq(Binding) /\ Len(ds) = 1 /\ ds[1] = Pair(p, u)
  BY <1>5
<1>7. /\ new \in Seq(Binding) /\ Len(new) = Len(old) + 1
      /\ \A i \in 1..Len(old) + 1 : new[i] = IF i <= Len(old) THEN old[i] ELSE ds[i - Len(old)]
  <2> HIDE DEF old, new
  <2>1. /\ old \o ds \in Seq(Binding) /\ Len(old \o ds) = Len(old) + Len(ds)
        /\ \A i \in 1..Len(old) + Len(ds) : (old \o ds)[i] = IF i <= Len(old) THEN old[i] ELSE ds[i - Len(old)]
    BY <1>2, <1>6, ConcatProperties
  <2> QED BY <1>4, <1>6, <2>1
<1>8. DOMAIN new = 1..Len(old) + 1
  BY <1>7
<1>9. ASSUME NEW i \in 1..Len(old) PROVE i \in DOMAIN new /\ new[i] = old[i]
  <2> HIDE DEF old, new
  <2>1. i \in 1..Len(old) + 1 /\ i <= Len(old)
    BY <1>2
  <2>2. new[i] = old[i]
    BY <1>7, <2>1
  <2> QED BY <1>8, <2>1, <2>2
<1>10. Len(old) + 1 \in DOMAIN new /\ new[Len(old) + 1] = Pair(p, u)
  <2> HIDE DEF old, new
  <2>1. /\ Len(old) + 1 \in 1..Len(old) + 1 /\ ~(Len(old) + 1 <= Len(old))
        /\ Len(old) + 1 - Len(old) = 1
    BY <1>2
  <2>2. new[Len(old) + 1] = ds[Len(old) + 1 - Len(old)]
    BY <1>7, <2>1
  <2> QED BY <1>6, <1>8, <2>1, <2>2
<1>11. \A i \in DOMAIN new : i \in DOMAIN old \/ i = Len(old) + 1
  BY <1>2, <1>8
<1> HIDE DEF new, old
<1>12. ASSUME NEW q, q # p PROVE DeclsOf(out1, D, q) = DeclsOf(out, D, q)
  <2>1. DeclsOf(out1, D, q) = {new[i].uri : i \in {k \in DOMAIN new : new[k].prefix = q}}
    BY DEF DeclsOf, new
  <2>2. DeclsOf(out, D, q) = {old[i].uri : i \in {k \in DOMAIN old : old[k].prefix = q}}
    BY DEF DeclsOf, old
  <2>3. {k \in DOMAIN new : new[k].prefix = q} = {k \in DOMAIN old : old[k].prefix = q}
    BY <1>2, <1>5, <1>9, <1>10, <1>11, <1>12
  <2>4. \A i \in {k \in DOMAIN old : old[k].prefix = q} : new[i].uri = old[i].uri
    BY <1>2, <1>9
  <2> QED BY <2>1, <2>2, <2>3, <2>4
<1>13. ASSUME DeclsOf(out, D, p) = {} PROVE DeclsOf(out1, D, p) = {u}
  <2>1. DeclsOf(out1, D, p) = {new[i].uri : i \in {k \in DOMAIN new : new[k].prefix = p}}
    BY DEF DeclsOf, new
  <2>2. \A i \in DOMAIN old : old[i].prefix # p
    BY <1>13 DEF DeclsOf, old
  <2>3. {k \in DOMAIN new : new[k].prefix = p} = {Len(old) + 1}
    BY <1>2, <1>5, <1>9, <1>10, <1>11, <2>2
  <2>4. new[Len(old) + 1].uri = u
    BY <1>5, <1>10
  <2> QED BY <2>1, <2>3, <2>4
<1> QED BY <1>12, <1>13

LEMMA WritesPlain ==
  ASSUME NEW ns \in Seq(Entry), NEW out \in Seq(Written), NEW inp, NEW b \in Nat,
         OnceHolds(ns, out, b), PlainHolds(ns, out, inp, b),
         NEW out1, NEW ds, NEW p \in Prefix, NEW u \in Uri, Writes(out, out1, ds, p, u),
         NEW inp1, NEW m, Received(out, inp, inp1, m, p, u),
         out1[Len(out)].names \subseteq out[Len(out)].names \union {Pair(p, u)},
         \A e \in 1..Len(ns) : ns[e].prefix = p /\ ns[e].level = Len(out) + b => ns[e].uri = u,
         ds = <<>> => Meant(ns, b, Len(out), p) = u,
         ds # <<>> => \A e \in 1..Len(ns) : ~(ns[e].prefix = p /\ ns[e].level = Len(out) + b)
  PROVE  PlainHolds(Append(ns, NewEntry(out, b, p, u)), out1, inp1, b)
<1>0. ds = <<>> \/ ds = <<Pair(p, u)>>
  BY DEF Writes
<1>001. Writes(out, out1, ds, p, u)
  OBVIOUS
<1>01. ds = <<>> => \A q : DeclsOf(out1, Len(out), q) = DeclsOf(out, Len(out), q)
  <2> SUFFICES ASSUME ds = <<>> PROVE \A q : DeclsOf(out1, Len(out), q) = DeclsOf(out, Len(out), q)
    OBVIOUS
  <2>1. Writes(out, out1, <<>>, p, u)
    BY <1>001
  <2> QED BY <2>1, DeclsKept
<1>02. ds = <<Pair(p, u)>> =>
         /\ \A q : q # p => DeclsOf(out1, Len(out), q) = DeclsOf(out, Len(out), q)
         /\ DeclsOf(out, Len(out), p) = {} => DeclsOf(out1, Len(out), p) = {u}
  <2> SUFFICES ASSUME ds = <<Pair(p, u)>>
               PROVE  /\ \A q : q # p => DeclsOf(out1, Len(out), q) = DeclsOf(out, Len(out), q)
                      /\ DeclsOf(out, Len(out), p) = {} => DeclsOf(out1, Len(out), p) = {u}
    OBVIOUS
  <2>1. Writes(out, out1, <<Pair(p, u)>>, p, u)
    BY <1>001
  <2>2. /\ out \in Seq(Written) /\ p \in Prefix /\ u \in Uri
    OBVIOUS
  <2> QED BY ONLY <2>1, <2>2, DeclsAdded
<1> DEFINE ns1 == Append(ns, NewEntry(out, b, p, u))
           D == Len(out)
           L == Len(ns)
<1>1. D \in Nat /\ D > 0 /\ D \in 1..D /\ L \in Nat /\ Len(out1) = D /\ (\A k \in 1..D - 1 : out1[k] = out[k])
  BY DEF Writes
<1>2. NewEntry(out, b, p, u) \in Entry
  BY <1>1 DEF Entry, NewEntry
<1>3. ns1 \in Seq(Entry) /\ Len(ns1) = L + 1 /\ (\A e \in 1..L : ns1[e] = ns[e]) /\ ns1[L + 1] = NewEntry(out, b, p, u)
  BY <1>2, AppendProperties
<1>4. ns1[L + 1].prefix = p /\ ns1[L + 1].level = D + b /\ ns1[L + 1].uri = u
  BY <1>3 DEF NewEntry
<1>5. \A e \in 1..L : ns[e].level \in Nat /\ b < ns[e].level /\ ns[e].level <= D + b
  BY EntryFacts DEF OnceHolds, Ordered
<1>6. L + 1 \in 1..L + 1 /\ \A e \in 1..L + 1 : e \in 1..L \/ e = L + 1
  BY <1>1
<1> HIDE DEF ns1
<1>7. /\ Len(inp1) = D /\ Len(inp) = D /\ (\A k \in 1..D - 1 : inp1[k] = inp[k])
      /\ inp[D].names \union inp[D].decls \subseteq inp1[D].names \union inp1[D].decls
      /\ m \in inp1[D].names \union inp1[D].decls
      /\ inp1[D].decls \subseteq inp[D].decls \union {m}
      /\ m.prefix = p /\ m.uri = u
  BY DEF Received
<1>8. Entered(ns1, out1, inp1, b)
  <2> SUFFICES ASSUME NEW k \in 1..D, NEW n \in InUse(out1, inp1, k)
               PROVE  \E e \in 1..L + 1 : ns1[e].prefix = n.prefix /\ ns1[e].uri = n.uri /\ ns1[e].level = k + b
    BY <1>1, <1>3 DEF Entered
  <2>1. ASSUME n \in InUse(out, inp, k)
        PROVE  \E e \in 1..L + 1 : ns1[e].prefix = n.prefix /\ ns1[e].uri = n.uri /\ ns1[e].level = k + b
    <3>1. PICK e \in 1..L : ns[e].prefix = n.prefix /\ ns[e].uri = n.uri /\ ns[e].level = k + b
      BY <2>1 DEF PlainHolds, Entered
    <3>2. e \in 1..L + 1 /\ ns1[e] = ns[e]
      BY <1>1, <1>3, <3>1
    <3> QED BY <3>1, <3>2
  <2>2. CASE k # D
    <3>1. k \in 1..D - 1
      BY <1>1, <2>2
    <3>2. n \in InUse(out, inp, k)
      BY <1>1, <1>7, <3>1 DEF InUse
    <3> QED BY <2>1, <3>2
  <2>3. CASE k = D
    <3>1. n \in InUse(out, inp, D) \/ n = Pair(p, u) \/ n = m
      BY <1>7, <2>3 DEF InUse
    <3>2. CASE n = Pair(p, u) \/ n = m
      <4>1. n.prefix = p /\ n.uri = u
        BY <1>7, <3>2 DEF Pair
      <4> QED BY <1>4, <1>6, <2>3, <4>1
    <3> QED BY <2>1, <2>3, <3>1, <3>2
  <2> QED BY <2>2, <2>3
<1>9. FromInput(ns1, inp1, b)
  <2> SUFFICES ASSUME NEW e \in 1..L + 1, NEW k \in 1..D, ns1[e].level = k + b
               PROVE  \E n \in inp1[k].names \union inp1[k].decls : n.prefix = ns1[e].prefix /\ n.uri = ns1[e].uri
    BY <1>3, <1>7 DEF FromInput
  <2>1. CASE e = L + 1
    <3>1. k = D
      BY <1>1, <1>4, <2>1
    <3> QED BY <1>4, <1>7, <2>1, <3>1
  <2>2. CASE e \in 1..L
    <3>1. ns1[e] = ns[e] /\ ns[e].level = k + b /\ k \in 1..Len(inp)
      BY <1>3, <1>7, <2>2
    <3>2. PICK n \in inp[k].names \union inp[k].decls : n.prefix = ns[e].prefix /\ n.uri = ns[e].uri
      BY <2>2, <3>1 DEF PlainHolds, FromInput
    <3>3. n \in inp1[k].names \union inp1[k].decls
      BY <1>1, <1>7, <3>2
    <3> QED BY <3>1, <3>2, <3>3
  <2> QED BY <1>6, <2>1, <2>2
<1>10. OneMeaning(ns1)
  <2> SUFFICES ASSUME NEW d \in 1..L + 1, NEW e \in 1..L + 1,
                      ns1[d].prefix = ns1[e].prefix, ns1[d].level = ns1[e].level
               PROVE  ns1[d].uri = ns1[e].uri
    BY <1>3 DEF OneMeaning
  <2>1. CASE d \in 1..L /\ e \in 1..L
    <3>1. ns1[d] = ns[d] /\ ns1[e] = ns[e]
      BY <1>3, <2>1
    <3>2. OneMeaning(ns)
      BY DEF PlainHolds
    <3> QED BY <2>1, <3>1, <3>2 DEF OneMeaning
  <2>2. CASE d \in 1..L /\ e = L + 1
    BY <1>3, <1>4, <2>2
  <2>3. CASE d = L + 1 /\ e \in 1..L
    BY <1>3, <1>4, <2>3
  <2>4. CASE d = L + 1 /\ e = L + 1
    BY <2>4
  <2> QED BY <1>6, <2>1, <2>2, <2>3, <2>4
<1>11. ReadAsMeant(ns1, out1, b)
  <2> SUFFICES ASSUME NEW k \in 1..D, NEW q \in Prefix
               PROVE  ResolvedIn(out1, k, q) = {Meant(ns1, b, k, q)}
    BY <1>1 DEF ReadAsMeant
  <2>1. ResolvedIn(out, k, q) = {Meant(ns, b, k, q)}
    BY DEF PlainHolds, ReadAsMeant
  <2>2. \A j \in 1..D - 1 : DeclsOf(out1, j, q) = DeclsOf(out, j, q)
    BY <1>1 DEF DeclsOf
  <2>3. ASSUME \A j \in 1..k : DeclsOf(out1, j, q) = DeclsOf(out, j, q)
        PROVE  ResolvedIn(out1, k, q) = ResolvedIn(out, k, q)
    BY <1>1, <2>3, ResolvedSame
  <2>4. ASSUME ~(k = D /\ q = p) PROVE Meant(ns1, b, k, q) = Meant(ns, b, k, q)
    <3>1. Seen(ns1, b, k, q) = Seen(ns, b, k, q)
      <4>1. L + 1 \notin Seen(ns1, b, k, q)
        BY <1>1, <1>4, <2>4 DEF Seen
      <4>2. \A e \in 1..L : e \in Seen(ns1, b, k, q) <=> e \in Seen(ns, b, k, q)
        BY <1>1, <1>3 DEF Seen
      <4>3. Seen(ns1, b, k, q) \subseteq 1..L + 1 /\ Seen(ns, b, k, q) \subseteq 1..L
        BY <1>3 DEF Seen
      <4> QED BY <1>6, <4>1, <4>2, <4>3
    <3>2. \A e \in Seen(ns, b, k, q) : ns1[e] = ns[e]
      BY <1>3 DEF Seen
    <3> QED BY <1>1, <3>1, <3>2, MeantSame
  <2>5. CASE k # D
    <3>1. \A j \in 1..k : DeclsOf(out1, j, q) = DeclsOf(out, j, q)
      BY <1>1, <2>2, <2>5
    <3> QED BY <2>1, <2>3, <2>4, <2>5, <3>1
  <2>6. CASE k = D /\ q # p
    <3>1. DeclsOf(out1, D, q) = DeclsOf(out, D, q)
      BY <1>0, <1>01, <1>02, <2>6
    <3>2. \A j \in 1..k : DeclsOf(out1, j, q) = DeclsOf(out, j, q)
      BY <1>1, <2>2, <2>6, <3>1
    <3> QED BY <2>1, <2>3, <2>4, <2>6, <3>2
  <2>7. CASE k = D /\ q = p
    <3>1. Meant(ns1, b, k, q) = u
      <4>1. Seen(ns1, b, k, q) \subseteq 1..L + 1 /\ L + 1 \in Seen(ns1, b, k, q)
        BY <1>1, <1>3, <1>4, <1>6, <2>7 DEF Seen
      <4>2. Newest(Seen(ns1, b, k, q)) \in 1..L + 1 /\ L + 1 <= Newest(Seen(ns1, b, k, q))
        BY <1>1, <4>1, NewestIs
      <4>3. Newest(Seen(ns1, b, k, q)) = L + 1
        BY <1>1, <4>2
      <4> QED BY <1>4, <4>1, <4>3 DEF Meant
    <3>2. CASE ds = <<>>
      <4>1. DeclsOf(out1, D, q) = DeclsOf(out, D, q)
        BY <1>01, <3>2
      <4>2. \A j \in 1..k : DeclsOf(out1, j, q) = DeclsOf(out, j, q)
        BY <1>1, <2>2, <2>7, <4>1
      <4>3. ResolvedIn(out1, k, q) = {Meant(ns, b, k, q)}
        BY <2>1, <2>3, <4>2
      <4> QED BY <2>7, <3>1, <3>2, <4>3
    <3>3. CASE ds # <<>>
      <4>1. ASSUME DeclsOf(out, D, p) # {} PROVE FALSE
        <5>1. out[D] \in Written
          BY <1>1
        <5>2. DOMAIN out[D].decls = 1..Len(out[D].decls)
          BY <5>1 DEF Written
        <5>3. PICK i \in 1..Len(out[D].decls) : out[D].decls[i].prefix = p
          BY <4>1, <5>2 DEF DeclsOf
        <5>4. PICK e \in 1..L : ns[e].prefix = out[D].decls[i].prefix /\ ns[e].level = D + b
          BY <1>1 DEF OnceHolds, Marked
        <5> QED BY <3>3, <5>3, <5>4
      <4>2. DeclsOf(out1, D, p) = {u}
        BY <1>0, <1>02, <3>3, <4>1
      <4>3. ResolvedIn(out1, D, p) = {u}
        BY <1>1, <4>2, ResolvedOwn
      <4> QED BY <2>7, <3>1, <4>3
    <3> QED BY <3>2, <3>3
  <2> QED BY <2>5, <2>6, <2>7
<1> QED BY <1>8, <1>9, <1>10, <1>11 DEF PlainHolds, ns1


-----------------------------------------------------------------------------
(***************************************************************************)
(* Plain trees: the events                                                 *)
(***************************************************************************)
\* A name of a plain tree keeps its prefix.
LEMMA KeepsPrefix ==
  ASSUME namespaces \in Seq(Entry), NEW lv, NEW n, NEW attr \in BOOLEAN, NEW redefine \in BOOLEAN,
         attr => n.prefix # <<>>,
         \A e \in 1..Len(namespaces) :
           namespaces[e].prefix = n.prefix /\ namespaces[e].level = lv => namespaces[e].uri = n.uri
  PROVE  DefinePrefix(n, lv, attr, redefine) = [prefix |-> n.prefix, define |-> Undefined(n, lv)]
<1>1. ~Clashes(n.prefix, n.uri, lv)
  BY FindPrefixFacts DEF Clashes
<1>2. ~NewPrefix(n, lv, attr, redefine)
  BY <1>1 DEF NewPrefix
<1> QED BY <1>2 DEF DefinePrefix

\* When it is not declared, it already means what it should.
LEMMA UndeclaredIsMeant ==
  ASSUME namespaces \in Seq(Entry), NEW b, NEW k, NEW n,
         \A e \in 1..Len(namespaces) : namespaces[e].level <= k + b,
         \A e \in 1..Len(namespaces) :
           namespaces[e].prefix = n.prefix /\ namespaces[e].level = k + b => namespaces[e].uri = n.uri,
         ~Undefined(n, k + b)
  PROVE  Meant(namespaces, b, k, n.prefix) = n.uri
<1> DEFINE p == n.prefix
           S == Seen(namespaces, b, k, p)
           cur == FindPrefix(p)
<1>1. S = {e \in 1..Len(namespaces) : namespaces[e].prefix = p} /\ Len(namespaces) \in Nat
  BY DEF Seen
<1>2. CASE cur = NoEntry
  <2>1. S = {}
    BY <1>1, <1>2, FindPrefixFacts DEF NoEntry
  <2>2. n.uri = ""
    BY <1>2 DEF Undefined
  <2> QED BY <2>1, <2>2 DEF Meant
<1>3. CASE cur # NoEntry
  <2>1. cur \in S /\ \A e \in S : e <= cur
    BY <1>1, <1>3, FindPrefixFacts
  <2>2. namespaces[cur].uri = n.uri
    <3>1. namespaces[cur].uri = n.uri \/ namespaces[cur].level = k + b
      BY <1>3 DEF Undefined
    <3> QED BY <1>1, <2>1, <3>1
  <2>3. Newest(S) = cur
    <3> HIDE DEF S, cur
    <3>1. S \subseteq 1..Len(namespaces)
      BY <1>1
    <3>2. Newest(S) \in S /\ \A y \in S : y <= Newest(S)
      BY <1>1, <2>1, <3>1, NewestIs
    <3>3. \A y \in S : y \in Nat
      BY <1>1, <3>1
    <3>4. cur <= Newest(S) /\ Newest(S) <= cur
      BY <2>1, <3>2
    <3>5. cur \in Nat /\ Newest(S) \in Nat
      BY <2>1, <3>2, <3>3
    <3> QED BY <3>4, <3>5
  <2> QED BY <2>1, <2>2, <2>3 DEF Meant
<1> QED BY <1>2, <1>3

\* Nothing of the element uses the prefix for something else.
SameHere(lv, n) ==
  \A e \in 1..Len(namespaces) :
    namespaces[e].prefix = n.prefix /\ namespaces[e].level = lv => namespaces[e].uri = n.uri

LEMMA WritesNamePlain ==
  ASSUME TypeInv, OnceInv, NEW out \in Seq(Written), OnceHolds(namespaces, out, Base),
         NEW inp, PlainHolds(namespaces, out, inp, Base),
         NEW n \in AllNames, NEW attr \in BOOLEAN, NEW redefine \in BOOLEAN, attr => n.prefix # <<>>,
         SameHere(Len(out) + Base, n),
         NEW d, d = DefinePrefix(n, Len(out) + Base, attr, redefine), WritesName(out, d, n.uri),
         output'[Len(out)].names \subseteq out[Len(out)].names \union {Pair(d.prefix, n.uri)},
         NEW inp1, Received(out, inp, inp1, n, n.prefix, n.uri)
  PROVE  PlainHolds(namespaces', output', inp1, Base)
<1> DEFINE lv == Len(out) + Base
           ds == Declared(d, n.uri)
<1>1. n.prefix \in Prefix /\ n.uri \in Uri
  BY NamesTyped
<1>2. Base \in Nat /\ Len(out) \in Nat /\ lv \in Nat
  BY LevelFacts
<1>3. /\ \A i \in 1..Len(namespaces) : namespaces[i].level <= lv
      /\ \A i, j \in 1..Len(namespaces) : i <= j => namespaces[i].level <= namespaces[j].level
  BY DEF OnceHolds, Ordered
<1>4. namespaces \in Seq(Entry)
  BY DEF TypeInv
<1>5. d.prefix = n.prefix /\ d.define = Undefined(n, lv)
  <2> HIDE DEF lv
  <2>1. d = [prefix |-> n.prefix, define |-> Undefined(n, lv)]
    BY <1>4, KeepsPrefix DEF SameHere, lv
  <2> QED BY <2>1
<1>6. d.define => \A i \in 1..Len(namespaces) : ~(namespaces[i].prefix = d.prefix /\ namespaces[i].level = lv)
  <2>1. d = DefinePrefix(n, lv, attr, redefine)
    OBVIOUS
  <2> HIDE DEF lv
  <2> QED BY <1>1, <1>2, <1>3, <1>4, <2>1, DefineFacts
<1>7. ds # <<>> => \A i \in 1..Len(namespaces) : ~(namespaces[i].prefix = n.prefix /\ namespaces[i].level = lv)
  BY <1>5, <1>6, DeclaredFacts
<1>8. ds = <<>> => Meant(namespaces, Base, Len(out), n.prefix) = n.uri
  <2>1. ds = <<>> => ~Undefined(n, lv)
    BY <1>5 DEF Declared
  <2>2. ~Undefined(n, Len(out) + Base) => Meant(namespaces, Base, Len(out), n.prefix) = n.uri
    BY <1>3, <1>4, UndeclaredIsMeant DEF SameHere
  <2> QED BY <2>1, <2>2
<1>9. SameHere(lv, n)
  OBVIOUS
<1>10. /\ Writes(out, output', ds, n.prefix, n.uri)
       /\ namespaces' = Append(namespaces, NewEntry(out, Base, n.prefix, n.uri))
  BY <1>5 DEF WritesName
<1>11. output'[Len(out)].names \subseteq out[Len(out)].names \union {Pair(n.prefix, n.uri)}
  BY <1>5
<1> HIDE DEF ds
<1>12. PlainHolds(Append(namespaces, NewEntry(out, Base, n.prefix, n.uri)), output', inp1, Base)
  BY <1>1, <1>2, <1>4, <1>7, <1>8, <1>9, <1>10, <1>11, WritesPlain DEF SameHere
<1> QED BY <1>10, <1>12


\* What is sent changes in the innermost element.
LEMMA LastSent ==
  ASSUME NEW inp \in Seq(Sent), Len(inp) > 0, NEW e \in Sent,
         NEW inp1, inp1 = [inp EXCEPT ![Len(inp)] = e]
  PROVE  /\ Len(inp1) = Len(inp)
         /\ \A j \in 1..Len(inp) - 1 : inp1[j] = inp[j]
         /\ inp1[Len(inp)] = e
<1> DEFINE n == Len(inp)
<1>1. n \in 1..n /\ n \in Nat /\ inp1 = [inp EXCEPT ![n] = e]
  OBVIOUS
<1> HIDE DEF n
<1>2. n \in 1..Len(inp) /\ n = Len(inp)
  BY <1>1 DEF n
<1>3. Len(inp1) = Len(inp) /\ \A j \in 1..Len(inp) : inp1[j] = IF j = n THEN e ELSE inp[j]
  BY <1>1, <1>2, ExceptSeq
<1>4. inp1[n] = e /\ \A j \in 1..n - 1 : inp1[j] = inp[j]
  BY <1>1, <1>2, <1>3
<1> QED BY <1>3, <1>4 DEF n

LEMMA StartKeepsPlain ==
  ASSUME TypeInv, OnceInv, PlainInv, Plain(tree), NEW n \in tree.names, StartElementEvent(n)
  PROVE  PlainHolds(namespaces', output', input', Base')
<1> DEFINE out == Append(output, Blank)
           d == DefinePrefix(n, level + 1, FALSE, TRUE)
           sent == [names |-> {n}, decls |-> {}]
           nothing == [names |-> {}, decls |-> {}]
           inp == Append(input, nothing)
           inp1 == Append(input, sent)
           D == Len(output)
<1>1. n \in AllNames
  BY TreeNames
<1>2. /\ d.prefix \in Prefix /\ WritesName(out, d, n.uri)
      /\ output'[D + 1].names = {Pair(d.prefix, n.uri)}
      /\ input' = inp1
      /\ level' = level + 1
  BY <1>1, StartWrites
<1>3. out \in Seq(Written) /\ Len(out) = D + 1 /\ D \in Nat
  BY OpenFacts DEF TypeInv
<1>4. OnceHolds(namespaces, output, Base)
  BY DEF OnceInv, OnceHolds
<1>5. OnceHolds(namespaces, out, Base)
  BY <1>4, OpenOnce, LevelFacts DEF TypeInv
<1>6. nothing \in Sent /\ sent \in Sent
  BY <1>1 DEF Sent
<1>7. input \in Seq(Sent) /\ Len(input) = D
  BY DEF TypeInv
<1>8. nothing.decls = {} /\ nothing.names = {} /\ sent.decls = {} /\ sent.names = {n}
  OBVIOUS
<1> HIDE DEF nothing, sent
<1>9. Len(inp) = D + 1 /\ (\A k \in 1..D : inp[k] = input[k]) /\ inp[D + 1] = nothing
  BY <1>6, <1>7, AppendProperties
<1>10. Len(inp1) = D + 1 /\ (\A k \in 1..D : inp1[k] = input[k]) /\ inp1[D + 1] = sent
  BY <1>6, <1>7, AppendProperties
<1> HIDE DEF inp, inp1
<1>11. PlainHolds(namespaces, output, input, Base)
  BY DEF PlainInv
<1>12. PlainHolds(namespaces, out, inp, Base)
  <2>1. inp[Len(input) + 1].decls = {} /\ Len(inp) = Len(input) + 1 /\ \A k \in 1..Len(input) : inp[k] = input[k]
    BY <1>7, <1>8, <1>9
  <2>2. namespaces \in Seq(Entry) /\ output \in Seq(Written) /\ Base \in Nat
    BY LevelFacts DEF TypeInv
  <2>3. /\ Entered(namespaces, out, inp, Base)
        /\ FromInput(namespaces, inp, Base) /\ OneMeaning(namespaces)
        /\ ReadAsMeant(namespaces, out, Base)
    BY <1>4, <1>7, <1>11, <2>1, <2>2, OpenPlain
  <2> QED BY <2>3 DEF PlainHolds
<1>13. level + 1 = Len(out) + Base
  BY <1>3, LevelFacts
<1>14. d = DefinePrefix(n, Len(out) + Base, FALSE, TRUE)
  BY <1>13
<1>15. SameHere(Len(out) + Base, n)
  <2>1. \A e \in 1..Len(namespaces) : namespaces[e].level # Len(out) + Base
    BY <1>13, LevelFacts
  <2> QED BY <2>1 DEF SameHere
<1>16. Received(out, inp, inp1, n, n.prefix, n.uri)
  <2>1. Len(inp1) = Len(inp) /\ Len(inp) = Len(out) /\ \A k \in 1..Len(out) - 1 : inp1[k] = inp[k]
    BY <1>3, <1>9, <1>10
  <2>2. inp[Len(out)].names = {} /\ inp[Len(out)].decls = {} /\ inp1[Len(out)].names = {n} /\ inp1[Len(out)].decls = {}
    BY <1>3, <1>8, <1>9, <1>10
  <2> QED BY <2>1, <2>2 DEF Received
<1>17. output'[Len(out)].names \subseteq out[Len(out)].names \union {Pair(d.prefix, n.uri)}
  BY <1>2, <1>3
<1> HIDE DEF d, out
<1>18. PlainHolds(namespaces', output', inp1, Base)
  BY <1>1, <1>2, <1>3, <1>5, <1>12, <1>14, <1>15, <1>16, <1>17, WritesNamePlain
<1>19. Base' = Base
  BY <1>2 DEF WritesName
<1> QED BY <1>2, <1>18, <1>19

\* What an element of a plain tree has used a prefix for is what the entries say.
LEMMA AgreesHere ==
  ASSUME TypeInv, OnceInv, PlainInv, Plain(tree), Depth > 0, NEW n, Agrees(n)
  PROVE  SameHere(Len(output) + Base, n)
<1>1. Uses(Len(output), n.prefix) \subseteq {n.uri}
  BY DEF Agrees, Plain, Depth
<1> SUFFICES ASSUME NEW e \in 1..Len(namespaces),
                    namespaces[e].prefix = n.prefix, namespaces[e].level = Len(output) + Base
             PROVE  namespaces[e].uri = n.uri
  BY DEF SameHere
<1>2. Len(output) \in 1..Len(input)
  BY DEF TypeInv, Depth
<1>3. PICK m \in input[Len(output)].names \union input[Len(output)].decls :
        m.prefix = namespaces[e].prefix /\ m.uri = namespaces[e].uri
  BY <1>2 DEF PlainInv, PlainHolds, FromInput
<1>4. m.uri \in Uses(Len(output), n.prefix)
  BY <1>3 DEF Uses
<1> QED BY <1>1, <1>3, <1>4

LEMMA InnerKeepsPlain ==
  ASSUME TypeInv, OnceInv, PlainInv, Plain(tree), Depth > 0,
         NEW n \in AllNames, Agrees(n), NEW attr \in BOOLEAN, NEW redefine \in BOOLEAN, attr => n.prefix # <<>>,
         NEW d, d = DefinePrefix(n, level, attr, redefine), WritesName(output, d, n.uri),
         output'[Depth].names \subseteq output[Depth].names \union {Pair(d.prefix, n.uri)},
         \/ input' = [input EXCEPT ![Depth] = [names |-> @.names \union {n}, decls |-> @.decls]]
         \/ input' = [input EXCEPT ![Depth] = [names |-> @.names, decls |-> @.decls \union {n}]]
  PROVE  PlainHolds(namespaces', output', input', Base')
<1> DEFINE D == Len(output)
           own == input[D]
<1>1. output \in Seq(Written) /\ input \in Seq(Sent) /\ Len(input) = D /\ D > 0 /\ D \in Nat
  BY DEF TypeInv, Depth
<1>2. OnceHolds(namespaces, output, Base) /\ PlainHolds(namespaces, output, input, Base)
  BY DEF OnceInv, OnceHolds, PlainInv
<1>3. own \in Sent
  BY <1>1
<1>4. PICK e \in Sent :
        /\ input' = [input EXCEPT ![Len(input)] = e]
        /\ own.names \subseteq e.names /\ own.decls \subseteq e.decls
        /\ n \in e.names \union e.decls /\ e.decls \subseteq own.decls \union {n}
  <2> DEFINE e1 == [names |-> own.names \union {n}, decls |-> own.decls]
             e2 == [names |-> own.names, decls |-> own.decls \union {n}]
  <2>1. e1 \in Sent /\ e2 \in Sent
    BY <1>3 DEF Sent
  <2>2. input' = [input EXCEPT ![Len(input)] = e1] \/ input' = [input EXCEPT ![Len(input)] = e2]
    BY <1>1 DEF Depth
  <2>3. /\ e1.names = own.names \union {n} /\ e1.decls = own.decls
        /\ e2.names = own.names /\ e2.decls = own.decls \union {n}
    OBVIOUS
  <2> HIDE DEF e1, e2
  <2> QED BY <2>1, <2>2, <2>3
<1> DEFINE inp1 == [input EXCEPT ![Len(input)] = e]
<1>5. input' = inp1
  BY <1>4
<1>6. Len(inp1) = D /\ (\A j \in 1..D - 1 : inp1[j] = input[j]) /\ inp1[D] = e
  BY <1>1, LastSent
<1> HIDE DEF inp1
<1>7. Received(output, input, inp1, n, n.prefix, n.uri)
  BY <1>1, <1>4, <1>6 DEF Received
<1>8. level = Len(output) + Base
  BY LevelFacts
<1>9. d = DefinePrefix(n, Len(output) + Base, attr, redefine)
  BY <1>8
<1>10. SameHere(Len(output) + Base, n)
  BY AgreesHere
<1>11. output'[Len(output)].names \subseteq output[Len(output)].names \union {Pair(d.prefix, n.uri)}
  BY DEF Depth
<1>12. PlainHolds(namespaces', output', inp1, Base)
  BY <1>1, <1>2, <1>7, <1>9, <1>10, <1>11, WritesNamePlain
<1>13. Base' = Base
  BY DEF WritesName
<1> QED BY <1>5, <1>12, <1>13


LEMMA PlainInductive ==
  ASSUME TypeInv, OnceInv, PlainInv, [Next]_vars
  PROVE  PlainInv'
<1> SUFFICES ASSUME Plain(tree') PROVE PlainHolds(namespaces', output', input', Base')
  BY DEF PlainInv
<1>1. tree' = tree
  BY DEF Next, vars, StartDocumentEvent, EndDocumentEvent, StartElementEvent, EndElementEvent,
         ContentEvent, AttributeEvent, NamespaceEvent, Counted
<1>2. Plain(tree)
  BY <1>1
<1>3. PlainHolds(namespaces, output, input, Base)
  BY <1>2 DEF PlainInv
<1>4. ASSUME UNCHANGED <<level, namespaces, output, input>>
      PROVE  PlainHolds(namespaces', output', input', Base')
  <2>1. Base' = Base
    BY <1>4 DEF Base
  <2> QED BY <1>3, <1>4, <2>1
<1>5. ASSUME Len(output) = 0, UNCHANGED <<namespaces, output, input>>
      PROVE  PlainHolds(namespaces', output', input', Base')
  <2>1. Len(namespaces) = 0 /\ Len(input) = 0
    BY <1>5, NoElements DEF TypeInv
  <2> QED BY <1>5, <2>1 DEF PlainHolds, Entered, FromInput, OneMeaning, ReadAsMeant
<1>6. CASE StartDocumentEvent
  <2>1. Len(output) = 0
    BY <1>6, LevelFacts DEF StartDocumentEvent
  <2> QED BY <1>5, <1>6, <2>1 DEF StartDocumentEvent
<1>7. CASE EndDocumentEvent
  BY <1>5, <1>7 DEF EndDocumentEvent, Depth
<1>8. ASSUME NEW n \in tree.names, StartElementEvent(n) PROVE PlainHolds(namespaces', output', input', Base')
  BY <1>2, <1>8, StartKeepsPlain
<1>9. CASE EndElementEvent
  <2>1. /\ Base' = Base /\ Len(output) > 0
        /\ Cut(namespaces, namespaces', Len(output) - 1 + Base)
        /\ output' = SubSeq(output, 1, Len(output) - 1)
        /\ input' = SubSeq(input, 1, Len(input) - 1)
    BY <1>9, EndKeepsOnce
  <2>2. /\ namespaces \in Seq(Entry) /\ output \in Seq(Written) /\ input \in Seq(Sent) /\ Len(input) = Len(output)
        /\ Base \in Nat /\ OnceHolds(namespaces, output, Base)
    BY LevelFacts DEF TypeInv, OnceInv, OnceHolds
  <2>3. PlainHolds(namespaces', SubSeq(output, 1, Len(output) - 1), SubSeq(input, 1, Len(input) - 1), Base)
    BY <1>3, <2>1, <2>2, ClosePlain
  <2> QED BY <2>1, <2>3
<1>10. CASE ContentEvent
  BY <1>4, <1>10 DEF ContentEvent
<1>11. ASSUME NEW n \in tree.attributes, AttributeEvent(n) PROVE PlainHolds(namespaces', output', input', Base')
  <2>1. CASE n.uri = ""
    BY <1>4, <1>11, <2>1 DEF AttributeEvent
  <2>2. CASE n.uri # ""
    <3> DEFINE d == DefinePrefix(n, level, TRUE, TRUE)
    <3>1. Depth > 0
      BY <1>11 DEF AttributeEvent, TypeInv, Depth
    <3>2. /\ Agrees(n)
          /\ input' = [input EXCEPT ![Depth] = [names |-> @.names \union {n}, decls |-> @.decls]]
      BY <1>11, <2>2 DEF AttributeEvent
    <3>3. /\ WritesName(output, d, n.uri)
          /\ output'[Depth].names = output[Depth].names \union {Pair(d.prefix, n.uri)}
          /\ n \in AllNames
      BY <1>11, <2>2, <3>1, AttributeWrites
    <3>4. n.prefix # <<>>
      BY <1>2, <1>11, <2>2 DEF Plain
    <3> HIDE DEF d
    <3>5. d = DefinePrefix(n, level, TRUE, TRUE)
      BY DEF d
    <3> QED BY <1>2, <3>1, <3>2, <3>3, <3>4, <3>5, InnerKeepsPlain
  <2> QED BY <2>1, <2>2
<1>12. ASSUME NEW n \in tree.bindings, NamespaceEvent(n) PROVE PlainHolds(namespaces', output', input', Base')
  <2> DEFINE d == DefinePrefix(n, level, FALSE, FALSE)
  <2>1. Depth > 0
    BY <1>12 DEF NamespaceEvent, TypeInv, Depth
  <2>2. /\ Agrees(n)
        /\ input' = [input EXCEPT ![Depth] = [names |-> @.names, decls |-> @.decls \union {n}]]
    BY <1>12 DEF NamespaceEvent
  <2>3. /\ WritesName(output, d, n.uri)
        /\ output'[Depth].names = output[Depth].names
        /\ n \in AllNames
    BY <1>12, <2>1, NamespaceWrites
  <2> HIDE DEF d
  <2>4. d = DefinePrefix(n, level, FALSE, FALSE)
    BY DEF d
  <2> QED BY <1>2, <2>1, <2>2, <2>3, <2>4, InnerKeepsPlain
<1>13. CASE UNCHANGED vars
  BY <1>4, <1>13 DEF vars
<1> QED
  BY <1>6, <1>7, <1>8, <1>9, <1>10, <1>11, <1>12, <1>13 DEF Next

LEMMA PlainInvariant == Spec => [](TypeInv /\ OnceInv /\ PlainInv)
<1>1. Init => PlainInv
  <2> SUFFICES ASSUME Init PROVE PlainInv
    OBVIOUS
  <2>1. namespaces = <<>> /\ output = <<>> /\ input = <<>> /\ Len(<<>>) = 0
    BY EmptySeq DEF Init
  <2> QED BY <2>1 DEF PlainInv, PlainHolds, Entered, FromInput, OneMeaning, ReadAsMeant
<1>2. TypeInv /\ OnceInv /\ PlainInv /\ [Next]_vars => PlainInv'
  BY PlainInductive
<1> QED BY <1>1, <1>2, OnceInvariant, PTL DEF Spec

-----------------------------------------------------------------------------
(***************************************************************************)
(* Plain trees: the properties                                             *)
(***************************************************************************)
\* What element k uses, written or sent, is read back as it was.
LEMMA UsedIsRead ==
  ASSUME TypeInv, OnceInv, PlainInv, Plain(tree),
         NEW k \in 1..Len(output), NEW n \in InUse(output, input, k), n.prefix \in Prefix
  PROVE  Resolved(k, n.prefix) = {n.uri}
<1> DEFINE p == n.prefix
           S == Seen(namespaces, Base, k, p)
<1>1. PlainHolds(namespaces, output, input, Base)
  BY DEF PlainInv
<1>2. PICK e \in 1..Len(namespaces) :
        namespaces[e].prefix = p /\ namespaces[e].uri = n.uri /\ namespaces[e].level = k + Base
  BY <1>1 DEF PlainHolds, Entered
<1>3. Base \in Nat /\ Len(namespaces) \in Nat /\ k \in Nat
  BY LevelFacts DEF TypeInv
<1>4. S \subseteq 1..Len(namespaces) /\ e \in S
  BY <1>2, <1>3 DEF Seen
<1>5. \A y \in S : namespaces[y].prefix = p /\ namespaces[y].level <= k + Base
  BY DEF Seen
<1> HIDE DEF S
<1>6. Newest(S) \in S /\ e <= Newest(S)
  BY <1>3, <1>4, NewestIs
<1>7. namespaces[Newest(S)].prefix = p /\ namespaces[Newest(S)].level = k + Base
  <2>1. Newest(S) \in 1..Len(namespaces)
    BY <1>4, <1>6
  <2>2. namespaces[e].level <= namespaces[Newest(S)].level /\ namespaces[Newest(S)].level \in Nat
    BY <1>6, <2>1, LevelFacts
  <2> QED BY <1>2, <1>3, <1>5, <1>6, <2>2
<1>8. namespaces[Newest(S)].uri = n.uri
  BY <1>1, <1>2, <1>4, <1>6, <1>7 DEF PlainHolds, OneMeaning
<1>9. Meant(namespaces, Base, k, p) = n.uri
  BY <1>6, <1>8 DEF Meant, S
<1>10. ResolvedIn(output, k, p) = {n.uri}
  BY <1>1, <1>9 DEF PlainHolds, ReadAsMeant
<1> QED BY <1>10, ResolvedIsResolvedIn

\* Every element and attribute of a plain tree is read back in the namespace
\* it was in, without exception: the entries that definePrefix adds where nothing
\* is declared and those that endElementEvent pops leave, for every prefix and
\* every open element, just what a reader of the output makes of it.
THEOREM PlainNamesResolve ==
  Spec => [](Plain(tree) => NamesResolve /\ \A k \in 1..Depth : ReadBack(k, output[k].names))
<1>1. TypeInv /\ OnceInv /\ PlainInv /\ Plain(tree) => \A k \in 1..Depth : ReadBack(k, output[k].names)
  <2> SUFFICES ASSUME TypeInv, OnceInv, PlainInv, Plain(tree),
                      NEW k \in 1..Depth, NEW n \in output[k].names
               PROVE  Resolved(k, n.prefix) = {n.uri}
    BY DEF ReadBack
  <2>1. k \in 1..Len(output) /\ output[k] \in Written
    BY DEF Depth, TypeInv
  <2>2. n \in InUse(output, input, k)
    BY DEF InUse
  <2>3. n.prefix \in Prefix
    BY <2>1 DEF Written, Binding
  <2> QED BY <2>1, <2>2, <2>3, UsedIsRead
<1>2. (\A k \in 1..Depth : ReadBack(k, output[k].names)) => NamesResolve
  BY DEF NamesResolve, ReadBack
<1>3. TypeInv /\ OnceInv /\ PlainInv
        => (Plain(tree) => NamesResolve /\ \A k \in 1..Depth : ReadBack(k, output[k].names))
  BY <1>1, <1>2
<1> QED BY <1>3, PlainInvariant, PTL

\* And so is every namespace node of a plain tree, with no prefix declared
\* twice on the way.
THEOREM PlainDeclarationsKept ==
  Spec => [](Plain(tree) => DeclarationsKept /\ \A k \in 1..Depth : ReadBack(k, input[k].decls))
<1>1. TypeInv /\ OnceInv /\ PlainInv /\ Plain(tree) => \A k \in 1..Depth : ReadBack(k, input[k].decls)
  <2> SUFFICES ASSUME TypeInv, OnceInv, PlainInv, Plain(tree),
                      NEW k \in 1..Depth, NEW n \in input[k].decls
               PROVE  Resolved(k, n.prefix) = {n.uri}
    BY DEF ReadBack
  <2>1. k \in 1..Len(output) /\ k \in 1..Len(input)
    BY DEF Depth, TypeInv
  <2>2. n \in InUse(output, input, k)
    BY DEF InUse
  <2>3. input[k] \in Sent
    BY <2>1 DEF TypeInv
  <2>4. n \in AllNames
    BY <2>3 DEF Sent
  <2>5. n.prefix \in Prefix
    BY <2>4, NamesTyped
  <2> QED BY <2>1, <2>2, <2>5, UsedIsRead
<1>2. DeclaredOnce /\ (\A k \in 1..Depth : ReadBack(k, input[k].decls)) => DeclarationsKept
  BY DEF DeclarationsKept, ReadBack
<1>3. TypeInv /\ OnceInv /\ PlainInv /\ DeclaredOnce
        => (Plain(tree) => DeclarationsKept /\ \A k \in 1..Depth : ReadBack(k, input[k].decls))
  BY <1>1, <1>2
<1> QED BY <1>3, PlainInvariant, DeclaredOnceAlways, PTL
=============================================================================
