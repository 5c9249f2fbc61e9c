------------------------------ MODULE TextSplit ------------------------------
(****************************************************************************)
(* How main.c cuts a long text for --batch: into sentences, which are then  *)
(* packed into chunks of about as many words as asked for.  A text is a     *)
(* sequence of one-character strings.                                       *)
(****************************************************************************)
EXTENDS Naturals, Sequences, FiniteSets, SequencesExt

CONSTANTS
  Abbreviation,   \* the table of qwen_is_abbrev_dot, without regard to case
  LeastWords      \* 6: no less is ever asked of a last chunk

Blank == {" ", "\t", "\n", "\r"}
Ender == {".", "!", "?", ";", "\n"}
Closer == {"\"", "'", ")", "]"}
Decimal == {"0", "1", "2", "3", "4", "5", "6", "7", "8", "9"}
Capital == {"A", "B", "C", "D", "E", "F", "G", "H", "I", "J", "K", "L", "M",
            "N", "O", "P", "Q", "R", "S", "T", "U", "V", "W", "X", "Y", "Z"}

At(t, i) == IF i \in DOMAIN t THEN t[i] ELSE ""

WordCount(t) == Cardinality({i \in DOMAIN t : t[i] \notin Blank /\ (i = 1 \/ t[i - 1] \in Blank)})

\* A carriage return does not begin a word here.
IsAbbrevDot(t, dot) ==
  LET first == 1 + Max({0} \cup {i \in 1..(dot - 1) : t[i] \in Blank \ {"\r"}})
      word == SubSeq(t, first, dot - 1)
  IN Len(word) \in 1..4 /\ (word \in Abbreviation \/ (Len(word) = 1 /\ word[1] \in Capital))

IsDecimalDot(t, dot) == At(t, dot - 1) \in Decimal /\ At(t, dot + 1) \in Decimal

IsEnd(t, i) ==
  t[i] \in Ender /\ (t[i] = "." => ~IsDecimalDot(t, i) /\ ~IsAbbrevDot(t, i))

Trim(t) ==
  LET dark == {i \in DOMAIN t : t[i] \notin Blank}
  IN IF dark = {} THEN <<>> ELSE SubSeq(t, Min(dark), Max(dark))

\* Strings are pushed trimmed, and not at all when nothing is left of them.
Push(list, t) == IF Trim(t) = <<>> THEN list ELSE Append(list, Trim(t))

SplitSentences(t) ==
  LET PastClosers(i) == Min({j \in i..(Len(t) + 1) : At(t, j) \notin Closer})
      from[i \in 1..(Len(t) + 1)] ==
        LET ends == {j \in i..Len(t) : IsEnd(t, j)}
            e == PastClosers(Min(ends) + 1)
        IN IF ends = {} THEN Push(<<>>, SubSeq(t, i, Len(t)))
           ELSE Push(<<>>, SubSeq(t, i, e - 1)) \o from[e]
  IN from[1]

Joined(a, b) == IF a = <<>> THEN b ELSE a \o <<" ">> \o b

\* One sentence more: the chunk is closed when it has the words asked for.
Pack(state, sentence, target) ==
  LET acc == Joined(state.acc, sentence)
      words == state.words + WordCount(sentence)
  IN IF words >= target
     THEN [chunks |-> Push(state.chunks, acc), acc |-> <<>>, words |-> 0]
     ELSE [chunks |-> state.chunks, acc |-> acc, words |-> words]

\* A last chunk of too few words goes to the one before it.
SplitTextForBatch(t, target, least) ==
  LET packed == FoldLeft(LAMBDA s, x : Pack(s, x, target),
                         [chunks |-> <<>>, acc |-> <<>>, words |-> 0], SplitSentences(t))
      n == Len(packed.chunks)
  IN IF packed.acc = <<>> THEN packed.chunks
     ELSE IF n > 0 /\ packed.words < least
     THEN [packed.chunks EXCEPT ![n] = Joined(@, packed.acc)]
     ELSE Push(packed.chunks, packed.acc)

Least(target) == IF target \div 3 < LeastWords THEN LeastWords ELSE target \div 3

\* --batch: together when there are several chunks and the batched path takes
\* them, else one after the other with a pause between.
RunBatch(t, target, batched) ==
  LET chunks == SplitTextForBatch(t, target, Least(target))
  IN [failed |-> chunks = <<>>, chunks |-> chunks, together |-> Len(chunks) >= 2 /\ batched]

-----------------------------------------------------------------------------
(* What the split promises.                                                 *)

Dark(t) == SelectSeq(t, LAMBDA ch : ch \notin Blank)

\* Nothing is lost, doubled or moved but blanks.
KeepsText(t, target) == Dark(FlattenSeq(RunBatch(t, target, TRUE).chunks)) = Dark(t)

\* Every chunk but the last has the words asked for, and a last one that has
\* not has at least those asked of it; no chunk could do without its last
\* sentence but for the one that took the rest.
Balanced(t, target) ==
  LET chunks == RunBatch(t, target, TRUE).chunks
      n == Len(chunks)
      longest == Max({0} \cup {WordCount(SplitSentences(t)[k]) : k \in DOMAIN SplitSentences(t)})
  IN \A k \in 1..n :
       /\ k < n => WordCount(chunks[k]) \in target..(target + longest - 1)
       /\ n > 1 => WordCount(chunks[k]) >= Min({target, Least(target)})
       /\ WordCount(chunks[k]) < target + longest + Least(target)

\* The position in t of the last character of the first k chunks.
SeamAfter(t, chunks, k) ==
  LET n == Len(Dark(FlattenSeq(SubSeq(chunks, 1, k))))
  IN CHOOSE i \in DOMAIN t : t[i] \notin Blank /\ Len(Dark(SubSeq(t, 1, i))) = n

\* The word that ends before position i, back to a blank.
WordBefore(t, i) ==
  SubSeq(t, 1 + Max({0} \cup {j \in 1..(i - 1) : t[j] \in Blank}), i - 1)

\* A seam falls where the line ends or a sentence does: not inside a number
\* and not at the stop of an abbreviation.
SeamsAtPauses(t, target) ==
  LET chunks == RunBatch(t, target, TRUE).chunks
      lineEnds(i) == \E j \in (i + 1)..Len(t) : t[j] = "\n" /\ \A h \in i + 1..j : t[h] \in Blank
      sentenceEnds(i) == \E j \in 1..i : t[j] \in Ender /\ \A h \in (j + 1)..i : t[h] \in Closer
  IN \A k \in 1..(Len(chunks) - 1) :
       LET i == SeamAfter(t, chunks, k)
       IN \/ lineEnds(i)
          \/ /\ sentenceEnds(i)
             /\ ~IsDecimalDot(t, i)
             /\ t[i] = "." => WordBefore(t, i) \notin Abbreviation
=============================================================================
