---------------------------- MODULE MCSequential ----------------------------
(****************************************************************************)
(* The parts of the program that run one after the other, for TLC: their    *)
(* inputs, and the promises of those that are only checked.                 *)
(****************************************************************************)
EXTENDS Sequential, Tokenizer, Vocabulary, TextSplit, Sampling, BatchGenerate,
        AudioFile, Safetensors

-----------------------------------------------------------------------------
(* Constants.                                                               *)

\* Hashes that collide.
MCHome == [t \in Token |-> t % Cap]
MCHash(key, capacity) == Len(key) % capacity

MCAbbreviation == {<<"D", "r">>, <<"d", "r">>}

-----------------------------------------------------------------------------
(* Tokenizers.                                                              *)

Ascii(s) == [i \in DOMAIN s |-> Plain(s[i])]

\* The characters of all bytes of the texts, twice with a JSON escape.
Bytes == <<32, 10, 39, 115, 114, 101, 49, 33, 195, 169, 226, 130, 172, 91, 99, 121, 93>>
ByteEntries ==
  [k \in DOMAIN Bytes |->
     LET cp == ByteToUnicode[Bytes[k]]
     IN [key |-> <<IF cp = 33 THEN Hex(cp) ELSE Plain(cp)>>, id |-> k]]

re == <<114, 101>>    \* "re" has an id, "res" none, as has the space with an s
PieceEntries == <<[key |-> Ascii(re), id |-> 50], [key |-> <<Hex(288), Plain(115)>>, id |-> 51]>>
Merges == <<<<35, 32, 118>>, <<114, 32, 101, 13>>, <<288, 32, 115>>, <<114, 101, 32, 115>>, <<>>>>

MCTokenizer == Load(ByteEntries \o PieceEntries, Merges)

\* cry is the one tag there is.
cry == <<91, 99, 114, 121, 93>>
MCTags == [tag \in {cry} |-> 90]

\* A text cut around its tags.
RECURSIVE PlainAndTags(_)
PlainAndTags(t) ==
  IF Len(t) < Len(cry) THEN <<t>>
  ELSE IF SubSeq(t, 1, Len(cry)) = cry THEN <<cry>> \o PlainAndTags(SubSeq(t, Len(cry) + 1, Len(t)))
  ELSE <<<<t[1]>>>> \o PlainAndTags(Tail(t))

\* Rules of the byte-pair merges over two letters, in file order: each side a
\* letter or the product of an earlier rule.
Products(rules) == {<<97>>, <<98>>} \cup {rules[i][1] \o rules[i][2] : i \in DOMAIN rules}
RankOf(rules) ==
  [pair \in Range(rules) |-> CHOOSE i \in DOMAIN rules : rules[i] = pair]
Words == UNION {[1..n -> {<<97>>, <<98>>}] : n \in 1..5}

\* The textbook: all occurrences of the best pair at once, from the left.
RECURSIVE MergeAll(_, _), TextbookBpe(_, _)
MergeAll(word, pair) ==
  IF Len(word) < 2 THEN word
  ELSE IF <<word[1], word[2]>> = pair
  THEN <<word[1] \o word[2]>> \o MergeAll(SubSeq(word, 3, Len(word)), pair)
  ELSE <<word[1]>> \o MergeAll(Tail(word), pair)
TextbookBpe(word, ranks) ==
  LET pairs == {<<word[i], word[i + 1]>> : i \in 1..(Len(word) - 1)} \cap DOMAIN ranks
      best == CHOOSE x \in pairs : \A y \in pairs : ranks[x] <= ranks[y]
  IN IF pairs = {} THEN word ELSE TextbookBpe(MergeAll(word, best), ranks)

\* Entries of vocab.json, with what their keys mean.
Keys == {[units |-> <<Plain(97)>>, is |-> <<97>>], [units |-> <<Hex(97)>>, is |-> <<97>>],
         [units |-> <<Short(110)>>, is |-> <<10>>],
         [units |-> <<Hex(55357), Hex(56832)>>, is |-> <<128512>>],
         [units |-> <<Plain(97), Hex(98)>>, is |-> <<97, 98>>]}
Lines == {<<97, 32, 98>>, <<97, 32, 98, 13>>, <<35, 32, 118>>, <<>>, <<98, 32, 97>>, <<97>>, <<32, 97>>}
IsRule(line) == line \in {<<97, 32, 98>>, <<97, 32, 98, 13>>, <<98, 32, 97>>}

-----------------------------------------------------------------------------
(* Voice files: a Base and a CustomVoice model of the large size and a      *)
(* CustomVoice model of the small one, an .expr file for either size, and   *)
(* two files of earlier versions.                                           *)

MCModel == {"base", "custom", "small"}
MCBase == {"base"}
MCSizeOf == [m \in MCModel |-> IF m = "small" THEN 1024 ELSE 2048]

\* Every tensor differs between the models, by deltas that wrap and that do not.
MCRank == [emb |-> 0, fc1 |-> 4, proj |-> 1, bias |-> 2, codec |-> 3, preset |-> 4, head |-> 5,
           attn |-> 6, gate |-> 7, norm |-> 0, cpgate |-> 2, cpemb |-> 1, cprest |-> 5]
MCShift == [base |-> 3, custom |-> 0, small |-> 6]
MCShipped == [m \in MCModel |-> [t \in DOMAIN MCRank |-> (MCRank[t] + MCShift[m]) % 8]]

MCDelta(n, d) == [dtype |-> d, word |-> n]
MCTuned(m) ==
  [MCShipped[m] EXCEPT !.attn = (@ + 2) % 8, !.gate = (@ + 5) % 8, !.norm = 6]
MCExpr(m, s) ==
  [size |-> s, of |-> m, tuned |-> MCTuned(m),
   recs |-> [attn |-> MCDelta(2, "lora"), gate |-> MCDelta(5, "delta"),
             norm |-> MCDelta(6, "raw"), cprest |-> MCDelta(1, "delta")]]
MCExprFile == {MCExpr("custom", 2048), MCExpr("small", 1024)}

\* Without the size of its target, half of it compressed with zlib.
MCOldRecs ==
  [t \in DOMAIN MCRank |-> MCDelta(1, IF t \in {"bias", "norm"} THEN "raw"
                               ELSE IF t \in {"attn", "gate"} THEN "zlib" ELSE "delta")]
MCOldFile ==
  {[enc |-> 2048, emb |-> "old", text |-> Nothing, codes |-> Nothing, of |-> Nothing,
    w |-> Nothing, sections |->
      <<[kind |-> "META"],
        [kind |-> "TPAD", size |-> 2048, pads |-> <<0, 0, 0, 0>>],
        [kind |-> "WOVR", size |-> 2048, recs |-> MCShipped["base"]],
        [kind |-> "WDLT", size |-> 0, recs |-> MCOldRecs]>>],
   [enc |-> 2048, emb |-> "old", text |-> "transcript", codes |-> "reference",
    of |-> Nothing, w |-> Nothing, sections |-> <<>>]}

-----------------------------------------------------------------------------
(* Inputs.                                                                  *)

TextPieces == {<<32>>, <<10>>, <<39>>, <<115>>, re, <<49>>, <<33>>, <<195, 169>>,
               <<226, 130, 172>>, <<91>>, cry}
ProsePieces == {<<" ", "w">>, <<" ">>, <<"D", "r">>, <<".">>, <<"1">>, <<"\n">>, <<"\"">>}
BatchTexts ==
  [voice : {1, 2}, seed : {7}, warmup : {0, 1}, frames : {1, 2}, prefills : {TRUE}, decodes : {TRUE}]
  \cup {[voice |-> 3, seed |-> 8, warmup |-> 0, frames |-> f, prefills |-> p, decodes |-> d] :
          f \in {0, 3}, p \in BOOLEAN, d \in BOOLEAN}
Clips == {Fmt(16, 1), Fmt(32, 2), [Fmt(16, 1) EXCEPT !.size = 18], [Fmt(16, 1) EXCEPT !.pcm = FALSE],
          [id |-> "LIST", size |-> 6], [id |-> "LIST", size |-> 5], Data(16, 16), Data(16, 8)}
Takes == [n : {0, 10, 11, 18, 30}, glitch : {0, 40, 60}]
Entries == [name : {"a", "b"}, start : {0, 3}, end : {3, 6, 9}] \cup
           {[name |-> "a", start |-> 3, end |-> 1], [name |-> Metadata, start |-> 0, end |-> 0]}
Files == [there : {TRUE}, header : {TRUE}, section : {6},
          entries : {<<x>> : x \in Entries} \cup {<<x, y>> : x, y \in {e \in Entries : e.end <= 6}}]
         \cup {[there |-> FALSE, header |-> TRUE, section |-> 0, entries |-> <<>>],
               [there |-> TRUE, header |-> FALSE, section |-> 6, entries |-> <<>>]}

\* Sides of the rules of a list of three.
Sides == UNION {[1..n -> {97, 98}] : n \in 1..4}

MCPiece ==
  [text |-> TextPieces,
   rules |-> Sides \X Sides,
   vocabulary |-> Keys \X {1, 2},
   merges |-> Lines,
   prose |-> ProsePieces,
   weights |-> 0..3,
   logits |-> {-300, -1, 0, 1, 300},
   batch |-> BatchTexts,
   blocks |-> {1, 2, 15},
   clip |-> Clips,
   length |-> {0},
   tail |-> {"quiet", "loud", "noise"},
   takes |-> Takes,
   dot |-> {<<-8, -8>>, <<7, 7>>, <<-1, 0>>, <<2, -3>>, <<0, 5>>},
   shards |-> [number : {1, 2}, file : Files]]
MCBound ==
  [text |-> 4, rules |-> 3, vocabulary |-> 4, merges |-> 4, prose |-> 5, weights |-> 4,
   logits |-> 4, batch |-> 3, blocks |-> 4, clip |-> 4, length |-> 40, tail |-> 9, takes |-> 4,
   dot |-> 6, shards |-> 2]

\* Rules build on rules; shards come numbered, in any order.
MCMayFollow(p, before, x) ==
  /\ p = "rules" => x \in (Products(before) \X Products(before)) \ Range(before)
  /\ p = "shards" => \A i \in DOMAIN before : before[i].number # x.number

-----------------------------------------------------------------------------
(* Properties.                                                              *)

\* A text is cut at the boundaries of characters into chunks that hold all of
\* it; its ids, with or without tags, decode to it again, tags left out, though
\* a merged piece has no id; and the merges are those of the textbook for every
\* word and every list of rules.
EncodingKeepsText ==
  /\ part = "text" =>
       LET t == FlattenSeq(in)
           cuts == Cuts(t)
           untagged == FlattenSeq(SelectSeq(PlainAndTags(t), LAMBDA x : x # cry))
       IN /\ cuts[Len(cuts)] = Len(t) + 1
          /\ \A k \in DOMAIN cuts : Byte(t, cuts[k]) \notin 128..191
          /\ Decode(MCTokenizer, Encode(MCTokenizer, t)) = t
          /\ Decode(MCTokenizer, EncodePara(MCTokenizer, t, MCTags)) = untagged
  /\ part = "rules" =>
       \A word \in Words : ApplyBpe(word, RankOf(in)) = TextbookBpe(word, RankOf(in))

\* The tables give every key, however its characters are written in the file,
\* the id it was given last, and every id a key it belongs to; every rule the
\* rank of its last line, comments, empty lines and half rules not counted.
VocabularyRight ==
  /\ part = "vocabulary" =>
       LET entries == [i \in DOMAIN in |-> [key |-> in[i][1].units, id |-> in[i][2]]]
           tok == Load(entries, <<>>)
           spelled == {in[i][1].is : i \in DOMAIN in}
           lastOf(key) == Max({i \in DOMAIN in : in[i][1].is = key})
       IN /\ tok.vocab = [key \in spelled |-> in[lastOf(key)][2]]
          /\ DOMAIN tok.string = Range(tok.vocab)
          /\ \A id \in DOMAIN tok.string : tok.vocab[tok.string[id]] = id
  /\ part = "merges" =>
       LET ranks == Load(<<>>, in).ranks
           rules == SelectSeq(in, IsRule)
           pair(line) == <<<<line[1]>>, <<line[3]>>>>
       IN ranks = [p \in {pair(rules[i]) : i \in DOMAIN rules} |->
                     Max({i \in DOMAIN rules : pair(rules[i]) = p}) - 1]

\* Sampling draws a candidate that top-k and top-p leave, in every frame a code
\* or, from the third on, the end.
SampleRight ==
  /\ part = "weights" /\ in # <<>> =>
       (Total(in) > 0 =>
          \A k \in 0..Len(in), p \in {0, 30, 50, 90, 100}, r \in 0..7 : CandidatesRight(in, k, p, r, 8))
  /\ part = "logits" /\ Len(in) = 4 =>
       \A frame \in {0, 1, 2, 8, 40}, prev \in {<<>>, <<0>>, <<0, 1, 0>>} :
         CodeOrEnd([t \in 0..3 |-> in[t + 1]], frame, 1, prev)

\* A long text for --batch is cut at pauses only, into chunks of about the words
\* asked for, and loses no character; its chunks are heard in their order, and
\* requests that are batched together are as if each had been alone.
BatchesRight ==
  /\ part = "prose" =>
       LET t == FlattenSeq(in)
       IN \A target \in 1..3 : KeepsText(t, target) /\ Balanced(t, target) /\ SeamsAtPauses(t, target)
  /\ part = "batch" => AsIfAlone(9, 5, in) /\ \A pause \in BOOLEAN : InSequence(5, in, pause)

\* Audio keeps its samples: through a file, through the trimming of a clip and
\* of a tail, and through the time stretch; the seed audition keeps a take that
\* is not broken when there is one.
AudioKept ==
  /\ part = "blocks" => ReadsBack(in)
  /\ part = "clip" => ReadsData(in)
  /\ part = "length" => /\ \A voiced \in 0..Len(in) : TrimKeeps(Len(in), voiced)
                        /\ \A p \in 1..4, q \in 1..4 : StretchFits(Len(in), p, q)
  /\ part = "tail" => TailKeeps(in)
  /\ part = "takes" => PicksSurvivor(in)

\* The tensors of a model directory are where its headers say, and in bounds.
ModelRead ==
  part = "shards" =>
    \A single \in {f \in Files : Len(f.entries) < 2} : TensorsRight(single, in)

=============================================================================
