------------------------------ MODULE AudioFile ------------------------------
(****************************************************************************)
(* Audio on its way to and from WAV files: the writer and the streamed      *)
(* writer, the reader of the reference audio, the trimming of its end, the  *)
(* time stretch, and the choice among the takes of --seed-audition.         *)
(*                                                                          *)
(* A file is a sequence of chunks [id, size, ...]; the bytes of a data      *)
(* chunk are counted, not kept, with `held' of them in the file.  A reader  *)
(* that does not find the next chunk where it looks recognises nothing      *)
(* more.  Lengths of audio are in samples.                                  *)
(****************************************************************************)
EXTENDS Integers, Sequences, FiniteSets, SequencesExt

CONSTANTS
  SizeMod,      \* sizes of chunks, and byte counts, are modulo 2^32
  Rate,         \* samples a second
  Frame,        \* 1024: samples of a frame of the time stretch
  LeastFrame,   \* 16: audio shorter than this is copied
  LeastRun      \* 8: frames of noise that make a glitch

Unknown == SizeMod - 1    \* the size of a stream that has not ended

-----------------------------------------------------------------------------
(* Writing.                                                                 *)

Fmt(bits, channels) == [id |-> "fmt ", size |-> 16, pcm |-> TRUE, bits |-> bits, channels |-> channels]
Data(size, held) == [id |-> "data", size |-> size, held |-> held]

WriteWav(n) == <<Fmt(16, 1), Data((2 * n) % SizeMod, 2 * n)>>

WriteWavHeader == <<Fmt(16, 1), Data(Unknown, 0)>>

\* stream_audio_callback
Streamed(file, n) == [file EXCEPT ![2].held = @ + 2 * n]

\* Mutant: samples for bytes.
FinalizeWavHeaderSamples(file, total) ==
  [file EXCEPT ![2].size = Min({total, Unknown})]

\* The count as unsigned, twice that in 64 bits.
FinalizeWavHeader(file, total) ==
  [file EXCEPT ![2].size = Min({2 * (total % SizeMod), Unknown})]

\* --stream to a file: the blocks of the callback, and the end unless the
\* program dies before it.
StreamWav(blocks, ends) ==
  LET total == FoldLeft(LAMBDA a, b : a + b, 0, blocks)
      file == FoldLeft(Streamed, WriteWavHeader, blocks)
  IN IF ends THEN FinalizeWavHeader(file, total) ELSE file

-----------------------------------------------------------------------------
(* qwen_read_wav.                                                           *)

Fields == {"fmt ", "data"}

\* One chunk; the reader skips an unknown one by its size, without the byte
\* that follows an odd one, and reads a format as if it had sixteen.
ReadChunk(r, chunk) ==
  CASE r.done \/ r.lost -> r
    [] chunk.id = "fmt " /\ ~r.done /\ ~r.lost ->
         [r EXCEPT !.pcm = chunk.pcm, !.bits = chunk.bits, !.channels = chunk.channels,
                   !.lost = chunk.size < 16 \/ chunk.size % 2 = 1]
    [] chunk.id = "data" /\ ~r.done /\ ~r.lost ->
         [r EXCEPT !.size = chunk.size, !.held = chunk.held, !.done = TRUE]
    [] OTHER -> [r EXCEPT !.lost = chunk.size % 2 = 1]

ReadChunks(file) ==
  FoldLeft(ReadChunk, [pcm |-> FALSE, bits |-> 0, channels |-> 0, size |-> 0, held |-> 0,
                       done |-> FALSE, lost |-> FALSE], file)

\* The samples it gives, and those of them that were not in the file; -1 for
\* an error, a warning does not stop it.
ReadWav(file) ==
  LET r == ReadChunks(file)
      unit == (r.bits \div 8) * r.channels
      n == r.size \div unit
  IN IF ~r.done \/ r.size = 0 \/ ~r.pcm \/ r.bits \notin {16, 32} THEN [n |-> -1, missing |-> 0]
     ELSE [n |-> n, missing |-> n - Min({n, r.held \div unit})]

\* How much of n samples is kept when the last window that is loud enough ends
\* at voiced; none is 0.
TrimTrailingSilence(n, voiced) ==
  LET margin == Min({n, voiced + Rate \div 20})
      most == n - (n * 2) \div 5
      kept == Max({margin, most, Rate * 2})
  IN IF n < Rate * 3 \/ voiced = 0 THEN n ELSE Min({n, kept})

-----------------------------------------------------------------------------
(* The time stretch by p/q: nominal positions are multiples of half a frame *)
(* times the rate; what is chosen around them by similarity is any of the   *)
(* positions tried.                                                         *)

Size(n) == Min({Frame, n})
Hop(n) == Size(n) \div 2
Reach(n) == Size(n) \div 4
BufferCap(n, p, q) == (n * q) \div p + 2 * Size(n) + 16

\* (int)(nominal + 0.5)
Center(n, p, q, k) == (2 * k * Hop(n) * p + q) \div (2 * q)

\* Where the frame after position xs, the k-th, may be read.
NextReads(n, p, q, k, xs) ==
  LET c == Center(n, p, q, k)
      tried == {s \in (c - Reach(n))..(c + Reach(n)) : s >= 0 /\ s + Size(n) <= n}
      chosen == IF xs + Hop(n) + Size(n) > n \/ tried = {} THEN {c} ELSE tried
  IN {s \in chosen : s + Size(n) <= n}

\* Whether, after frame k read at xs and written at k hops, the loop may end.
MayStop(n, p, q, k, xs) ==
  LET c == Center(n, p, q, k + 1)
      tried == {s \in (c - Reach(n))..(c + Reach(n)) : s >= 0 /\ s + Size(n) <= n}
  IN (xs + Hop(n) + Size(n) > n \/ tried = {}) /\ c + Size(n) > n

\* Read positions the k-th frame may have, written at k hops.
Reads(n, p, q) ==
  LET last == BufferCap(n, p, q) \div Hop(n)
      at[k \in 0..last] ==
        IF k = 0 THEN {0}
        ELSE IF k * Hop(n) + Size(n) > BufferCap(n, p, q) THEN {}
        ELSE UNION {NextReads(n, p, q, k, xs) : xs \in at[k - 1]}
  IN at

\* The lengths the stretched audio may have.
TimeStretch(n, p, q) ==
  LET at == Reads(n, p, q)
  IN IF p = q \/ n < LeastFrame THEN {n}
     ELSE {Min({k * Hop(n) + Size(n), BufferCap(n, p, q)}) : k \in
            {k \in DOMAIN at : \E xs \in at[k] :
               \/ MayStop(n, p, q, k, xs)
               \/ (k + 1) * Hop(n) + Size(n) > BufferCap(n, p, q)}}

-----------------------------------------------------------------------------
(* The degenerate tail: frames of 10 ms, each quiet, loud or loud noise (of *)
(* many zero crossings and not faint, by the medians of the body).          *)

\* The longest run of noise after the first 70 % of what is loud, the first of
\* equally long ones: the frame it begins at, and 0 when it is too short.
TailStart(frames) ==
  LET loud == {i \in DOMAIN frames : frames[i] # "quiet"}
      bodyEnd == Min(loud) + ((Max(loud) - Min(loud)) * 7) \div 10
      length(i) == Min({j \in i..(Max(loud) + 1) : j > Max(loud) \/ frames[j] # "noise"}) - i
      runs == {i \in (bodyEnd + 1)..Max(loud) :
                 frames[i] = "noise" /\ (i = bodyEnd + 1 \/ frames[i - 1] # "noise")}
      best == {i \in runs : \A j \in runs : length(j) <= length(i)}
      body == {i \in loud : i <= bodyEnd}
  IN IF loud = {} THEN 0
     ELSE IF Max(loud) - Min(loud) < 6 \/ Cardinality(body) < 3 \/ runs = {} THEN 0
     ELSE IF length(Min(best)) < LeastRun THEN 0 ELSE Min(best)

\* Frames kept, and the samples of the guard after them; everything from the
\* run to the last loud frame counts, and has to be long enough.
TailTrim(frames, least) ==
  LET start == TailStart(frames)
      last == Max({i \in DOMAIN frames : frames[i] # "quiet"})
  IN IF start = 0 THEN Len(frames)
     ELSE IF last + 1 - start < least THEN Len(frames)
     ELSE Min({start + 1, Len(frames)})   \* 15 ms of guard

-----------------------------------------------------------------------------
(* --seed-audition: takes [n, glitch], glitch in hundredths.                *)

Median(lengths) ==
  CHOOSE m \in Range(lengths) :
    LET below == Cardinality({i \in DOMAIN lengths : lengths[i] < m})
        upTo == Cardinality({i \in DOMAIN lengths : lengths[i] <= m})
    IN below <= Len(lengths) \div 2 /\ Len(lengths) \div 2 < upTo

\* Shorter than 0.55 or longer than 2.5 medians, or half a glitch.
Broken(take, median) ==
  take.n * 100 < 55 * median \/ take.n * 10 > 25 * median \/ take.glitch >= 50

Abs(x) == IF x < 0 THEN -x ELSE x

\* In thousandths, times the median: ten for the glitch, one for the
\* deviation, a hundred when broken.
Cost(take, median) ==
  take.glitch * 100 * median + 1000 * Abs(take.n - median)
  + IF Broken(take, median) THEN 100000 * median ELSE 0

\* The first of the cheapest takes; failed ones, of no samples, do not count.
Audition(takes) ==
  LET got == SelectSeq(takes, LAMBDA t : t.n > 0)
      median == Median([i \in DOMAIN got |-> got[i].n])
      cost(i) == Cost(got[i], median)
  IN IF got = <<>> THEN [n |-> 0, glitch |-> 0]
     ELSE got[Min({i \in DOMAIN got : \A j \in DOMAIN got : cost(i) <= cost(j)})]

-----------------------------------------------------------------------------
(* What they promise.                                                       *)

\* A stream that ended is read back whole, or, when it is longer than the size
\* of a chunk can say, as far as that goes; one that is not longer is the file
\* that is written at once.
ReadsBack(blocks) ==
  LET n == FoldLeft(LAMBDA a, b : a + b, 0, blocks)
  IN n > 0 /\ n < SizeMod =>
       /\ ReadWav(StreamWav(blocks, TRUE)) = [n |-> Min({n, Unknown \div 2}), missing |-> 0]
       /\ 2 * n < Unknown => StreamWav(blocks, TRUE) = WriteWav(n)

\* Chunks of even size before the data change nothing.
ReadsData(file) ==
  LET data == {i \in DOMAIN file : file[i].id = "data"}
      d == Min(data)
      fmt == {i \in DOMAIN file : file[i].id = "fmt " /\ i < d}
      f == file[Max(fmt)]
  IN data # {} =>
     ((fmt # {} /\ \A i \in 1..d : file[i].size % 2 = 0 /\ file[i].size > 0)
        => /\ f.pcm /\ f.bits \in {16, 32} =>
                ReadWav(file).n = file[d].size \div (f.channels * (f.bits \div 8))
           /\ ~f.pcm => ReadWav(file).n = -1)

\* Trimming keeps three fifths, two seconds and all that is loud.
TrimKeeps(n, voiced) ==
  LET kept == TrimTrailingSilence(n, voiced)
  IN kept <= n /\ kept * 5 >= n * 3 /\ (kept < n => kept >= 2 * Rate /\ kept >= voiced)

\* The output buffer is never the reason the stretch ends, and its length is
\* the input's over the rate, up to a frame and the reach of the search.
StretchFits(n, p, q) ==
  \A total \in TimeStretch(n, p, q) :
    /\ total <= BufferCap(n, p, q)
    /\ p # q /\ n >= LeastFrame => /\ total * p >= (n - Size(n) - Reach(n)) * q
                                   /\ (total - Size(n)) * p <= (n + Reach(n)) * q

\* Only the last 30 % are ever cut, from where loud noise begins, and never
\* less than a run of it.
TailKeeps(frames) ==
  \A least \in 1..3 :
    LET kept == TailTrim(frames, least)
        loud == {i \in DOMAIN frames : frames[i] # "quiet"}
    IN kept < Len(frames) =>
         /\ (kept - Min(loud)) * 10 > (Max(loud) - Min(loud)) * 7
         /\ \A i \in kept - 1..kept + LeastRun - 2 : frames[i] = "noise"

\* A take that is not broken wins over all that are; if most takes are whole,
\* their lengths within a factor of 1.8, and without a glitch, one is chosen
\* that is as long as they are.
PicksSurvivor(takes) ==
  LET got == SelectSeq(takes, LAMBDA t : t.n > 0)
      median == Median([i \in DOMAIN got |-> got[i].n])
      pick == Audition(takes)
      clean == {i \in DOMAIN got : got[i].glitch < 50}
  IN got # <<>> =>
       /\ Broken(pick, median) => \A i \in DOMAIN got : Broken(got[i], median)
       /\ \A whole \in SUBSET clean :
            LET least == Min({got[i].n : i \in whole})
                most == Max({got[i].n : i \in whole})
            IN (2 * Cardinality(whole) > Len(got) /\ least * 100 >= 55 * most)
                 => pick.glitch < 50 /\ pick.n * 100 >= 55 * least
=============================================================================
