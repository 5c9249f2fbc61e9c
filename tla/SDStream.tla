------------------------------ MODULE SDStream ------------------------------
(***************************************************************************)
(* The streaming speech decoder: qwen_speech_decoder_decode_streaming_st   *)
(* decodes a stream chunk by chunk, keeping in qwen_sd_stream_state_t what *)
(* the causal network needs of the past, and is to produce the audio that  *)
(* decoding the whole stream at once would.                                *)
(*                                                                         *)
(* A number computed by the network is abstracted to the position it       *)
(* belongs to: a column is the frame number a if it was computed from the  *)
(* right inputs, and Wrong if a memory held anything else.  The upsampling *)
(* rates do not matter to that, so every stage has one column a frame.     *)
(***************************************************************************)
EXTENDS Integers, Sequences

CONSTANTS Window,     \* sliding window of the attention (72)
          ConvRF,     \* QWEN_SD_STREAM_CONV_RF, latent frames kept (20)
          Slack,      \* what a cache grows by beyond the need (256)
          PadCols,    \* pre-conv: kernel - 1 (2)
          TailA,      \* a tail that is zero-initialised and always read
          TailB,      \* a tail that is read once cs_warm is set
          MaxFails,   \* bound: chunks whose conv decoder fails to allocate
          MaxChunk,   \* bound: frames in a chunk
          MaxFrames,  \* bound: frames in the stream
          Zero, Wrong \* causal zero padding; a value that is not the right one

ASSUME SizesAssumption ==
    /\ Window \in Nat \ {0}
    /\ ConvRF \in Nat /\ Slack \in Nat
    /\ PadCols \in Nat /\ TailA \in Nat /\ TailB \in Nat
    /\ MaxChunk \in Nat /\ MaxFrames \in Nat
    /\ MaxFails \in Nat
    /\ Zero \notin Int /\ Wrong \notin Int /\ Zero # Wrong

\* The windowed decode re-runs the conv stack on ConvRF frames of context, and
\* qwen_tts.h calls that the receptive field.  The stack reaches back less: the
\* kernels and strides of its convolutions add up to 9.4 of the 20 frames.
ASSUME ReceptiveFieldAssumption == ConvRF >= TailA + TailB + 1

VARIABLES
    exact,   \* sd_exact_stream_enabled(), settled by the environment
    kv,      \* k_cache/v_cache with kv_base, kv_len, kv_alloc
    lat,     \* latent_cache with latent_base, latent_frames, latent_alloc
    vqPad,   \* the last two columns of the VQ output
    vqValid, \* vq_pad_valid
    tailA, carry, tailB, \* cs_*_tail, cs_up_carry
    warm,    \* cs_warm
    audio,   \* history: the columns handed to the caller
    fails,   \* counter for the bound
    lostTo   \* history: where the latest failed chunk ended

vars == <<exact, kv, lat, vqPad, vqValid, tailA, carry, tailB, warm, audio, fails, lostTo>>

Value  == Int \cup {Zero, Wrong}
Max0(i) == IF i > 0 THEN i ELSE 0
Zeros(n) == [i \in 0 .. n - 1 |-> Zero]

\* What a one-shot decode has at position a: zero padding before the start.
True(a) == IF a < 0 THEN Zero ELSE a
-----------------------------------------------------------------------------
(* The caches: absolute frame a lives at physical slot a - base.           *)

EmptyCache == [mem |-> << >>, base |-> 0, len |-> 0, alloc |-> 0]

\* Mutant: the base moves and the data stays where it was.
MakeRoomUnmoved(c, n, keep) ==
    LET from == Max0(c.len - keep)
        base == IF c.len + n - c.base > c.alloc /\ from > c.base
                THEN from ELSE c.base
        need == c.len + n - base
        alloc == IF need > c.alloc THEN need + Slack ELSE c.alloc
    IN [mem |-> [p \in 0 .. alloc - 1 |-> IF p < c.alloc THEN c.mem[p] ELSE Wrong],
        base |-> base, len |-> c.len, alloc |-> alloc]

\* Mutant: one frame too few survives the compaction.
MakeRoomShort(c, n, keep) ==
    LET from == Max0(c.len - keep + 1)
        base == IF c.len + n - c.base > c.alloc /\ from > c.base
                THEN from ELSE c.base
        need == c.len + n - base
        alloc == IF need > c.alloc THEN need + Slack ELSE c.alloc
        shift == base - c.base
    IN [mem |-> [p \in 0 .. alloc - 1 |->
                    IF p + shift < c.alloc THEN c.mem[p + shift] ELSE Wrong],
        base |-> base, len |-> c.len, alloc |-> alloc]

\* Room for n more frames: if they do not fit, drop all but the last keep
\* frames and move those to slot 0; if they still do not fit, grow.
MakeRoom(c, n, keep) ==
    LET from == Max0(c.len - keep)
        base == IF c.len + n - c.base > c.alloc /\ from > c.base /\ c.len > c.base
                THEN from ELSE c.base
        need == c.len + n - base
        alloc == IF need > c.alloc THEN need + Slack ELSE c.alloc
        shift == base - c.base
        live == c.len - base
    IN [mem |-> [p \in 0 .. alloc - 1 |->
                    IF p < live THEN c.mem[p + shift]
                    ELSE IF p < c.alloc THEN c.mem[p] ELSE Wrong],
        base |-> base, len |-> c.len, alloc |-> alloc]

\* The frames x[len], x[len + 1], ... go behind the live ones.
Put(c, n, x) ==
    LET at == c.len - c.base
    IN [mem |-> [p \in 0 .. c.alloc - 1 |->
                    IF at <= p /\ p < at + n THEN x[c.base + p] ELSE c.mem[p]],
        base |-> c.base, len |-> c.len + n, alloc |-> c.alloc]

\* A read at absolute frame a; outside the allocation there is garbage.
Get(c, a) == IF a - c.base \in 0 .. c.alloc - 1 THEN c.mem[a - c.base] ELSE Wrong
-----------------------------------------------------------------------------
(* Stages.  A stage gets columns first .. first + n - 1 as a function x of *)
(* the position, and a tail of the t columns before them.                  *)

Cols(first, n) == first .. first + n - 1

\* Column a as the stage sees it; without a tail the past is zero padding.
Seen(x, first, tail, t, useTail, a) ==
    IF a >= first THEN x[a]
    ELSE IF useTail THEN tail[a - first + t] ELSE Zero

\* A causal convolution reads the column and the t before it.
Conv(x, first, n, tail, t, useTail) ==
    [a \in Cols(first, n) |->
        IF \A b \in a - t .. a : Seen(x, first, tail, t, useTail, b) = True(b)
        THEN a ELSE Wrong]

\* Mutant: a chunk shorter than the tail replaces its end only.
SaveTailUnshifted(x, first, n, tail, t, useTail) ==
    [i \in 0 .. t - 1 |->
        IF i < t - n THEN tail[i] ELSE x[first + n - t + i]]

\* The last t columns of tail and chunk are the tail of the next chunk.
SaveTail(x, first, n, tail, t, useTail) ==
    [i \in 0 .. t - 1 |-> Seen(x, first, tail, t, useTail, first + n - t + i)]

\* The sliding-window attention of the new frames over the cache.
Attend(c, first, n, x) ==
    [a \in Cols(first, n) |->
        IF \A b \in Max0(a - Window + 1) .. a : Get(c, b) = b
        THEN x[a] ELSE Wrong]

\* A transposed convolution adds the partial sums of the column before.
Transpose(x, first, n, prev) ==
    [a \in Cols(first, n) |->
        IF (IF a = first THEN prev ELSE x[a - 1]) = True(a - 1)
        THEN x[a] ELSE Wrong]
-----------------------------------------------------------------------------
Init ==
    /\ exact \in BOOLEAN
    /\ kv = EmptyCache /\ lat = EmptyCache
    /\ vqPad = Zeros(PadCols) /\ vqValid = FALSE
    /\ tailA = Zeros(TailA) /\ carry = Zero /\ tailB = Zeros(TailB)
    /\ warm = FALSE
    /\ audio = << >>
    /\ fails = 0 /\ lostTo = 0

\* Codes to latents: VQ, pre-conv, attention over the KV cache, and the
\* latent cache.
Codes(first, n)   == [a \in Cols(first, n) |-> a]
PreConv(first, n) == Conv(Codes(first, n), first, n, vqPad, PadCols, vqValid)
KVNext(n)         == Put(MakeRoom(kv, n, Window - 1), n, PreConv(kv.len, n))
Latents(n)        == Attend(KVNext(n), kv.len, n, PreConv(kv.len, n))
LatNext(n)        == Put(MakeRoom(lat, n, ConvRF), n, Latents(n))

Front(n) ==
    /\ kv' = KVNext(n)
    /\ lat' = LatNext(n)
    /\ vqPad' = SaveTail(Codes(kv.len, n), kv.len, n, vqPad, PadCols, vqValid)
    /\ vqValid' = TRUE

\* The conv decoder on the columns first .. first + n - 1 of the latents.
Input(first, n) == [a \in Cols(first, n) |-> Get(LatNext(n), a)]
StageA(n) == Conv(Input(lat.len, n), lat.len, n, tailA, TailA, TRUE)
StageT(n) == Transpose(StageA(n), lat.len, n, carry)
StageB(n) == Conv(StageT(n), lat.len, n, tailB, TailB, warm)

SaveA(n) == tailA' = SaveTail(Input(lat.len, n), lat.len, n, tailA, TailA, TRUE)
SaveT(n) == carry' = StageA(n)[lat.len + n - 1]
SaveB(n) == tailB' = SaveTail(StageT(n), lat.len, n, tailB, TailB, TRUE)

\* The columns go out in order, each with the frame it stands for.
Emit(first, n, y) ==
    audio' = audio \o [i \in 1 .. n |-> [frame |-> first + i - 1,
                                         value |-> y[first + i - 1]]]

\* conv_decoder_forward_streaming: only the new frames, with the tails.
DecodeExact(n) ==
    /\ exact
    /\ Front(n)
    /\ SaveA(n) /\ SaveT(n) /\ SaveB(n)
    /\ warm' = TRUE
    /\ Emit(lat.len, n, StageB(n))
    /\ UNCHANGED <<exact, fails, lostTo>>

\* An allocation fails: the chunk has no audio.  The caches have moved on,
\* and so have the tails of the stages that came before the failure.
DecodeFails(n) ==
    /\ fails < MaxFails
    /\ fails' = fails + 1
    /\ Front(n)
    /\ \E done \in 0 .. (IF exact THEN 3 ELSE 0) :
        /\ IF done >= 1 THEN SaveA(n) ELSE UNCHANGED tailA
        /\ IF done >= 2 THEN SaveT(n) ELSE UNCHANGED carry
        /\ IF done >= 3 THEN SaveB(n) ELSE UNCHANGED tailB
    /\ lostTo' = lat.len + n
    /\ UNCHANGED <<exact, warm, audio>>

\* QWEN_SD_WINDOWED: the whole stack again on the new frames and at most
\* ConvRF frames of context, zero padded, and the context thrown away.
Context(n) == IF lat.len > ConvRF THEN ConvRF ELSE lat.len

DecodeWindowed(n) ==
    LET first == lat.len - Context(n)
        m == Context(n) + n
        x == [a \in Cols(first, m) |-> Get(LatNext(n), a)]
        stageA == Conv(x, first, m, tailA, TailA, FALSE)
        stageT == Transpose(stageA, first, m, IF first = 0 THEN Zero ELSE Wrong)
    IN /\ ~exact
       /\ Front(n)
       /\ Emit(lat.len, n, Conv(stageT, first, m, tailB, TailB, FALSE))
       /\ UNCHANGED <<exact, tailA, carry, tailB, warm, fails, lostTo>>

Next == \E n \in 1 .. MaxChunk :
            /\ kv.len + n <= MaxFrames
            /\ DecodeExact(n) \/ DecodeFails(n) \/ DecodeWindowed(n)

Spec == Init /\ [][Next]_vars
-----------------------------------------------------------------------------
(* Properties                                                              *)

CacheType(c) ==
    /\ c.base \in Nat /\ c.len \in Nat /\ c.alloc \in Nat
    /\ c = [mem |-> c.mem, base |-> c.base, len |-> c.len, alloc |-> c.alloc]
    /\ c.mem \in [0 .. c.alloc - 1 -> Value]

\* Every variable has its type.
TypeOK ==
    /\ CacheType(kv) /\ CacheType(lat)
    /\ vqPad \in [0 .. PadCols - 1 -> Value] /\ vqValid \in BOOLEAN
    /\ tailA \in [0 .. TailA - 1 -> Value]
    /\ tailB \in [0 .. TailB - 1 -> Value]
    /\ exact \in BOOLEAN /\ carry \in Value /\ warm \in BOOLEAN
    /\ audio \in Seq([frame : Nat, value : Value])
    /\ fails \in Nat /\ lostTo \in Nat

\* Every frame the cache still holds is in its slot, and what the next
\* chunk reads of the past is among them.
Holds(c, keep) ==
    /\ c.base <= c.len /\ c.len - c.base <= c.alloc
    /\ c.base <= Max0(c.len - keep)
    /\ \A a \in c.base .. c.len - 1 : c.mem[a - c.base] = a

\* The compaction of a cache loses nothing a later chunk reads: attention
\* goes back Window - 1 frames, the windowed conv decoder ConvRF.
CachesHold == /\ Holds(kv, Window - 1)
              /\ Holds(lat, ConvRF)
              /\ lat.len = kv.len

\* "O(window+chunk) instead of the full stream" (qwen_tts.h): a cache never
\* holds much more than what is read back and the largest chunk.
BoundedMemory ==
    /\ kv.alloc <= Window - 1 + MaxChunk + Slack
    /\ lat.alloc <= ConvRF + MaxChunk + Slack

\* The caches keep what is read back, and little else, however long the
\* stream and whatever its chunks.
CachesRight == CachesHold /\ BoundedMemory

\* "Chunked output therefore equals the one-shot decode": whatever the
\* chunks, the stream so far is what decoding it in one go gives.  That is so
\* of the windowed decode too, although comments there call it approximate: it
\* decodes again all that the stack reaches, and spoils only what it drops.
ChunkedEqualsOneShot ==
    lostTo = 0 =>
        /\ Len(audio) = kv.len
        /\ \A i \in 1 .. Len(audio) : audio[i] = [frame |-> i - 1, value |-> i - 1]

\* A chunk lost to a failed allocation is heard again for at most the reach
\* of the conv stack, and no frame comes twice or out of order.
GlitchBounded ==
    /\ \A i \in 1 .. Len(audio) : LET s == audio[i] IN
          s.value # s.frame => s.frame < lostTo + TailA + TailB + 1
    /\ \A i \in 1 .. Len(audio) - 1 : audio[i].frame < audio[i + 1].frame
=============================================================================
