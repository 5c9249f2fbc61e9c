------------------------------ MODULE Vocabulary ------------------------------
(****************************************************************************)
(* What qwen_tokenizer_load makes of vocab.json and merges.txt: two open-   *)
(* addressing hash tables and the reverse table.  A key is a sequence of    *)
(* code points, a line of merges.txt too; a string of the JSON file is a    *)
(* sequence of units, each a character as it is, a short escape or \uXXXX.  *)
(****************************************************************************)
EXTENDS Integers, Sequences, SequencesExt

CONSTANT HashOf(_, _)   \* external: FNV-1a of a key modulo a capacity

NoEntry == [used |-> FALSE]

EmptyTable(capacity) ==
  [cap |-> capacity, count |-> 0, slot |-> [i \in 0..(capacity - 1) |-> NoEntry]]

\* The first slot of the key's probe sequence that is free or holds the key.
Probe(ht, key) ==
  LET at(n) == (HashOf(key, ht.cap) + n) % ht.cap
      stops(n) == ~ht.slot[at(n)].used \/ ht.slot[at(n)].key = key
  IN at(Min({n \in 0..(ht.cap - 1) : stops(n)}))

HtSet(ht, key, value) ==
  LET i == Probe(ht, key) IN
  IF ht.count * 3 >= ht.cap * 2 THEN ht
  ELSE [ht EXCEPT !.slot[i] = [used |-> TRUE, key |-> key, value |-> value],
                  !.count = IF ht.slot[i].used THEN @ ELSE @ + 1]

Has(ht, key) == ht.count > 0 /\ ht.slot[Probe(ht, key)].used
HtGet(ht, key) == ht.slot[Probe(ht, key)].value

Stored(ht) == {ht.slot[i].key : i \in {j \in 0..(ht.cap - 1) : ht.slot[j].used}}

\* The mapping the lookups see.
AsFunction(ht) == [key \in {k \in Stored(ht) : Has(ht, k)} |-> HtGet(ht, key)]

-----------------------------------------------------------------------------
(* JSON strings.                                                            *)

Plain(cp) == [unit |-> "plain", cp |-> cp]
Short(c) == [unit |-> "short", cp |-> c]     \* a backslash and the letter c
Hex(cp) == [unit |-> "hex", cp |-> cp]       \* a backslash, u, four digits

ShortEscape(c) ==
  CASE c = 110 -> 10 [] c = 114 -> 13 [] c = 116 -> 9
    [] c = 98 -> 8 [] c = 102 -> 12 [] OTHER -> c

HighHalf(u) == u.unit = "hex" /\ u.cp \in 55296..56319

\* Mutant: every \uXXXX is a character of its own.
ParseJsonStringUnpaired(units) ==
  [i \in DOMAIN units |->
     IF units[i].unit = "short" THEN ShortEscape(units[i].cp) ELSE units[i].cp]

\* A high half followed by any \uXXXX is taken as a pair.
ParseJsonString(units) ==
  LET from[i \in 1..(Len(units) + 2)] ==
        IF i > Len(units) THEN <<>>
        ELSE IF HighHalf(units[i]) /\ i < Len(units) /\ units[i + 1].unit = "hex"
        THEN <<65536 + (units[i].cp - 55296) * 1024 + units[i + 1].cp - 56320>>
               \o from[i + 2]
        ELSE <<IF units[i].unit = "short" THEN ShortEscape(units[i].cp) ELSE units[i].cp>>
               \o from[i + 1]
  IN from[1]

-----------------------------------------------------------------------------
(* The two files.                                                           *)

\* vocab.json, its entries in file order: three slots for every colon, and a
\* key without a reply from ht_set is simply not there.
LoadVocab(entries) ==
  FoldLeft(LAMBDA ht, e : HtSet(ht, ParseJsonString(e.key), e.id),
           EmptyTable(3 * Len(entries)), entries)

\* Reverse table: the slots are walked upward, a later one replaces an earlier.
IdToToken(ht) ==
  LET owners(id) == {i \in 0..(ht.cap - 1) : ht.slot[i].used /\ ht.slot[i].value = id}
      ids == {ht.slot[i].value : i \in {j \in 0..(ht.cap - 1) :
                                         ht.slot[j].used /\ ht.slot[j].value >= 0}}
  IN [id \in ids |-> ht.slot[Max(owners(id))].key]

\* A line is a rule when it is not empty, does not begin with #, and has text
\* on both sides of its first space, carriage returns at the end not counted.
Rule(line) ==
  LET spaces == {i \in DOMAIN line : line[i] = 32}
      sep == Min(spaces)
      last == Max({i \in sep..Len(line) : i = sep \/ line[i] # 13})
  IN IF line = <<>> \/ line[1] = 35 \/ spaces = {} THEN <<>>
     ELSE IF sep = 1 \/ last = sep THEN <<>>
     ELSE <<SubSeq(line, 1, sep - 1), SubSeq(line, sep + 1, last)>>

\* A rule's rank is its number among the rules.
LoadMerges(lines) ==
  LET rules == SelectSeq([i \in DOMAIN lines |-> Rule(lines[i])], LAMBDA r : r # <<>>)
  IN FoldLeft(LAMBDA ht, n : HtSet(ht, rules[n], n - 1),
              EmptyTable(3 * (Len(lines) + 1)), [n \in DOMAIN rules |-> n])

Load(entries, lines) ==
  [vocab |-> AsFunction(LoadVocab(entries)),
   string |-> IdToToken(LoadVocab(entries)),
   ranks |-> AsFunction(LoadMerges(lines))]
=============================================================================
