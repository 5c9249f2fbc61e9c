----------------------------- MODULE Sequential -----------------------------
(****************************************************************************)
(* The parts of the program that run one after the other.  Besides the      *)
(* lookups of the embedding cache and the steps of a voice, one behaviour   *)
(* for every part grows the part's input piece by piece up to a bound; the  *)
(* promises of the part are checked of every input.                         *)
(****************************************************************************)
EXTENDS EmbCache, VoiceFile, Kernels

CONSTANTS
  Piece,           \* the pieces of each part's input
  MayFollow(_, _, _),   \* of a part and its input so far: may the piece come next
  Bound            \* pieces of an input

\* Audio comes in int8, weights of Q4_0 in 4 bits; a length is counted.
ASSUME SequentialAssumption ==
  /\ {"length", "dot"} \subseteq DOMAIN Piece
  /\ Piece["dot"] \subseteq ((-Half)..(Half - 1)) \X (-8..7)

VARIABLES part, in

seqVars == <<part, in>>

SeqInit == /\ Init /\ VoiceInit
           /\ part \in {"cache", "voice"} \cup DOMAIN Piece
           /\ in = <<>>

Grow == /\ part \in DOMAIN Piece /\ Len(in) < Bound[part]
        /\ \E x \in Piece[part] : MayFollow(part, in, x) /\ in' = Append(in, x)
        /\ UNCHANGED <<vars, voiceVars, part>>

SeqNext == \/ part = "cache" /\ Next /\ UNCHANGED <<voiceVars, seqVars>>
           \/ part = "voice" /\ VoiceNext /\ UNCHANGED <<vars, seqVars>>
           \/ Grow

SeqSpec == SeqInit /\ [][SeqNext]_<<vars, voiceVars, seqVars>>

\* The kernels compute every row of a product and every output of a convolution
\* once, however the work falls to threads, vectors and tiles; and dot products
\* of shifted, packed numbers are exact, at the ends of the range, over the tail
\* of a vector and over an odd block.
KernelsRight ==
  /\ part = "length" =>
       /\ ColumnsOnce(Len(in))
       /\ \A nt \in 1..7, kv \in 0..5 : RowsOnce(Len(in), nt, kv)
       /\ \A rows \in 0..9 : CellsOnce(rows, Len(in))
  /\ part = "dot" => DotsExact([i \in DOMAIN in |-> in[i][1]], [i \in DOMAIN in |-> in[i][2]])
=============================================================================
