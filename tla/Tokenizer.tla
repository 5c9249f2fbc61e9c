------------------------------ MODULE Tokenizer ------------------------------
(****************************************************************************)
(* The text tokenizer (qwen_tts_tokenizer.c): a byte string is cut into     *)
(* chunks by the classes of its bytes, each chunk's bytes become GPT-2      *)
(* characters, the characters are merged by rank and the pieces looked up   *)
(* in the vocabulary.  A text is a sequence of bytes, a piece a sequence of *)
(* code points, a tokenizer a record                                        *)
(*   vocab   the id of every piece of vocab.json                            *)
(*   string  the piece of every id (id_to_token)                            *)
(*   ranks   the rank of every pair of pieces of merges.txt                 *)
(* which module Vocabulary builds from the two files.                       *)
(****************************************************************************)
EXTENDS Naturals, Sequences, FiniteSets, SequencesExt

-----------------------------------------------------------------------------
(* Bytes.                                                                   *)

Letter == 65..90 \cup 97..122
Digit == 48..57
Space == {32, 9, 10, 13}
Utf8Start == 192..255
NewLine == {10, 13}

\* What the punctuation loop runs over: continuation bytes are among it.
Symbol == (1..255) \ (Letter \cup Digit \cup Space \cup Utf8Start)

CharLen(c) == IF c < 128 THEN 1 ELSE IF c < 224 THEN 2 ELSE IF c < 240 THEN 3 ELSE 4

\* The byte at a position of the C string; its end reads as NUL.
Byte(t, i) == IF i \in DOMAIN t THEN t[i] ELSE 0

-----------------------------------------------------------------------------
(* Pre-tokenization.                                                        *)

\* The first position from i on whose byte is not in the class.
PastRun(t, i, class) ==
  Min({j \in i..(Len(t) + 1) : Byte(t, j) \notin class})

\* Past the letters from i on: a multi-byte character is taken whole and only
\* if all of it is there.
PastLetters(t, i) ==
  LET past[j \in i..(Len(t) + 1)] ==
        LET c == Byte(t, j) IN
        IF c \in Letter THEN past[j + 1]
        ELSE IF c \in Utf8Start /\ j + CharLen(c) <= Len(t) + 1
             THEN past[j + CharLen(c)]
             ELSE j
  IN past[i]

PastDigits(t, i) == Min({PastRun(t, i, Digit), i + 3})

\* 's 't 'm 'd and 're 've 'll, in one case.
ContractionLen(t, i) ==
  LET a == Byte(t, i + 1)
      b == Byte(t, i + 2)
  IN IF Byte(t, i) # 39 THEN 0
     ELSE IF a \in {115, 116, 109, 100, 83, 84, 77, 68} THEN 2
     ELSE IF <<a, b>> \in {<<114, 101>>, <<118, 101>>, <<108, 108>>,
                           <<82, 69>>, <<86, 69>>, <<76, 76>>} THEN 3
     ELSE 0

\* A space goes with what follows it.
PastAttached(t, i) ==
  LET c == t[i] IN
  CASE c \in Letter \cup Utf8Start -> PastLetters(t, i)
    [] c \in Digit -> PastDigits(t, i)
    [] OTHER -> PastRun(t, i, Symbol)

PastSymbols(t, i) ==
  LET j == PastRun(t, PastRun(t, i, Symbol), NewLine)
  IN IF j = i THEN i + 1 ELSE j

\* The end of the chunk that one iteration of the loop takes at position i.
ChunkEnd(t, i) ==
  LET c == t[i]
      next == Byte(t, i + 1)
      attached == c = 32 /\ next \notin Space \cup {0}
      starts == Letter \cup Utf8Start
  IN CASE attached -> PastAttached(t, i + 1)
       [] c \in Space /\ ~attached -> PastRun(t, i, Space)
       [] ContractionLen(t, i) > 0 -> i + ContractionLen(t, i)
       [] OTHER ->
            IF c \in starts THEN PastLetters(t, i)
            ELSE IF c \notin Digit /\ next \in starts THEN PastLetters(t, i + 1)
            ELSE IF c \in Digit THEN PastDigits(t, i)
            ELSE PastSymbols(t, i)

\* The positions where chunks begin, and the end; the loop turns on the spot
\* when the chunk it takes is empty.
Cuts(t) ==
  LET cuts[i \in 1..(Len(t) + 1)] ==
        IF i > Len(t) \/ ChunkEnd(t, i) = i THEN <<i>>
        ELSE <<i>> \o cuts[ChunkEnd(t, i)]
  IN cuts[1]

PreTokenize(t) ==
  [k \in 1..(Len(Cuts(t)) - 1) |-> SubSeq(t, Cuts(t)[k], Cuts(t)[k + 1] - 1)]

-----------------------------------------------------------------------------
(* GPT-2 characters.                                                        *)

SelfMapped == 33..126 \cup 161..172 \cup 174..255

ByteToUnicode[b \in 0..255] ==
  IF b \in SelfMapped THEN b ELSE 256 + Cardinality((0..(b - 1)) \ SelfMapped)

\* The reverse table covers 512 code points and is zero where none is mapped.
UnicodeToByte[cp \in 0..511] ==
  IF \E b \in 0..255 : ByteToUnicode[b] = cp
  THEN CHOOSE b \in 0..255 : ByteToUnicode[b] = cp
  ELSE 0

Low6(n) == 128 + (n % 64)

CpToUtf8(cp) ==
  CASE cp < 128 -> <<cp>>
    [] cp \in 128..2047 -> <<192 + cp \div 64, Low6(cp)>>
    [] cp \in 2048..65535 -> <<224 + cp \div 4096, Low6(cp \div 64), Low6(cp)>>
    [] OTHER -> <<240 + cp \div 262144, Low6(cp \div 4096), Low6(cp \div 64), Low6(cp)>>

Utf8(piece) == FlattenSeq([i \in DOMAIN piece |-> CpToUtf8(piece[i])])

-----------------------------------------------------------------------------
(* Byte-pair merges.                                                        *)

\* Mutant: of equal ranks the rightmost.
BestPairLast(word, ranks) ==
  LET ranked == {i \in 1..(Len(word) - 1) : <<word[i], word[i + 1]>> \in DOMAIN ranks}
      rank(i) == ranks[<<word[i], word[i + 1]>>]
  IN IF ranked = {} THEN 0
     ELSE CHOOSE i \in ranked :
            \A j \in ranked : rank(i) < rank(j) \/ (rank(i) = rank(j) /\ i >= j)

\* The pair to merge: of the lowest rank, the leftmost of it; 0 when none.
BestPair(word, ranks) ==
  LET ranked == {i \in 1..(Len(word) - 1) : <<word[i], word[i + 1]>> \in DOMAIN ranks}
      rank(i) == ranks[<<word[i], word[i + 1]>>]
  IN IF ranked = {} THEN 0
     ELSE CHOOSE i \in ranked :
            \A j \in ranked : rank(i) < rank(j) \/ (rank(i) = rank(j) /\ i <= j)

MergeAt(word, i) ==
  SubSeq(word, 1, i - 1) \o <<word[i] \o word[i + 1]>> \o SubSeq(word, i + 2, Len(word))

ApplyBpe(word, ranks) ==
  LET after[n \in 0..Len(word)] ==
        IF n = 0 THEN word
        ELSE LET w == after[n - 1]
                 best == BestPair(w, ranks)
             IN IF best = 0 THEN w ELSE MergeAt(w, best)
  IN after[Len(word)]

-----------------------------------------------------------------------------
(* Encoding and decoding.                                                   *)

\* A piece without an id is encoded byte by byte of its UTF-8 form; a byte
\* whose character has no id is left out.
FallbackIds(tok, piece) ==
  LET single == [k \in DOMAIN Utf8(piece) |-> <<ByteToUnicode[Utf8(piece)[k]]>>]
      known == SelectSeq(single, LAMBDA s : s \in DOMAIN tok.vocab)
  IN [k \in DOMAIN known |-> tok.vocab[known[k]]]

PieceIds(tok, piece) ==
  IF piece \in DOMAIN tok.vocab THEN <<tok.vocab[piece]>> ELSE FallbackIds(tok, piece)

ChunkIds(tok, chunk) ==
  LET pieces == ApplyBpe([j \in DOMAIN chunk |-> <<ByteToUnicode[chunk[j]]>>], tok.ranks)
  IN FlattenSeq([j \in DOMAIN pieces |-> PieceIds(tok, pieces[j])])

Encode(tok, t) ==
  FlattenSeq([k \in DOMAIN PreTokenize(t) |-> ChunkIds(tok, PreTokenize(t)[k])])

\* The paralinguistic tags (byte strings that begin with a bracket) and their
\* reserved ids: `tags` is a function.
TagAt(t, i, tags) ==
  {tag \in DOMAIN tags : i + Len(tag) - 1 <= Len(t) /\ SubSeq(t, i, i + Len(tag) - 1) = tag}

\* Every tag becomes its one id, the text between tags is encoded by itself.
EncodePara(tok, t, tags) ==
  LET ids[i \in 1..(Len(t) + 1)] ==
        LET hits == {j \in i..Len(t) : TagAt(t, j, tags) # {}}
        IN IF hits = {} THEN Encode(tok, SubSeq(t, i, Len(t)))
           ELSE LET j == Min(hits)
                    tag == CHOOSE tag \in TagAt(t, j, tags) : TRUE
                IN Encode(tok, SubSeq(t, i, j - 1)) \o <<tags[tag]>> \o ids[j + Len(tag)]
  IN ids[1]

\* Ids without a string are skipped; a character above the table is copied.
Decode(tok, ids) ==
  LET known == SelectSeq(ids, LAMBDA id : id \in DOMAIN tok.string)
      chars == FlattenSeq([k \in DOMAIN known |-> tok.string[known[k]]])
  IN FlattenSeq([k \in DOMAIN chars |->
       IF chars[k] < 512 THEN <<UnicodeToByte[chars[k]]>> ELSE CpToUtf8(chars[k])])
=============================================================================
