------------------------- MODULE DecoderThread_proofs -------------------------
(***************************************************************************)
(* What the generation pipeline keeps for every number of frames, chunk    *)
(* size, head to trim, mode and number of requests: the decoder thread     *)
(* never outlives its state, the audio is in order and complete, and a     *)
(* callback that has aborted is not called again.                          *)
(*                                                                         *)
(* The invariant follows the frames: the main thread generates them,       *)
(* QueueInv says how far the decoder is behind, HeardInv what of the       *)
(* frames it is through with has been heard.                               *)
(***************************************************************************)
EXTENDS DecoderThread, SequenceTheorems, TLAPS

\* The decoder thread is there while the call lasts; without the overlap it
\* runs inside dt_finish.
PcInv ==
    /\ alive <=> mpc # "idle"
    /\ mpc = "idle" => dpc = "none"
    /\ mpc \notin {"idle", "join"} => ~done /\ dpc # "exit" /\ (~mode.overlap => dpc = "none")
    /\ mpc = "join" => done
    /\ aborted => Streaming
    /\ dpc = "decode" => ~aborted

\* What the decoder has taken is there; it ends with nothing left.
QueueInv ==
    /\ frames <= capacity
    /\ frames = writePos + (IF mpc = "push" THEN 1 ELSE 0)
    /\ readPos + (IF dpc \in {"chunk", "decode", "advance"} THEN avail ELSE 0) <= writePos
    /\ dpc = "decode" => avail # 0
    /\ dpc = "chunk" /\ isDone => done /\ readPos + avail = writePos
    /\ dpc = "exit" => readPos = writePos
    /\ mpc = "idle" => readPos = writePos

\* The frames the decoder is through with, and how many of k frames the trim
\* takes.
Taken == readPos + (IF dpc = "advance" THEN avail ELSE 0)
Trimmed(k) == IF k < mode.trim THEN k ELSE mode.trim

\* A sequence of frames in order, from the first r.
Behind(audio, r) ==
    /\ \A i \in 1 .. Len(audio) : audio[i] < r
    /\ \A i, j \in 1 .. Len(audio) : i < j => audio[i] < audio[j]

\* What has been heard is in order and from the taken frames; as long as no
\* chunk was lost and nobody aborted it is all of them but the trimmed head.
HeardInv ==
    /\ Behind(heard, Taken)
    /\ \A f \in lost : f < Taken /\ \A i \in 1 .. Len(heard) : heard[i] # f
    /\ lost = {} /\ ~aborted =>
          /\ mpc # "idle" => trimLeft = mode.trim - Trimmed(Taken)
          /\ Len(heard) = Taken - Trimmed(Taken)
          /\ \A i \in 1 .. Len(heard) : heard[i] = mode.trim + i - 1

IInv == TypeOK /\ PcInv /\ QueueInv /\ HeardInv /\ Complete
-----------------------------------------------------------------------------
\* The frames of the chunk that is being decoded.
LEMMA ChunkFrames ==
    ASSUME TypeOK
    PROVE  /\ Chunk \in Seq(Nat) /\ Len(Chunk) = avail
           /\ \A i \in 1 .. avail : Chunk[i] = readPos + i - 1
           /\ \A f : f \in Range(Chunk) <=> f \in Nat /\ readPos <= f /\ f < readPos + avail
<1>1. avail \in Nat /\ readPos \in Nat
  BY DEF TypeOK
<1>2. \A i \in 1 .. avail : readPos + i - 1 \in Nat
  BY <1>1
<1>3. Chunk \in [1 .. avail -> Nat]
  BY <1>2 DEF Chunk
<1>4. Chunk \in Seq(Nat) /\ Len(Chunk) = avail
  BY <1>1, <1>3, SeqDef
<1>5. \A i \in 1 .. avail : Chunk[i] = readPos + i - 1
  BY DEF Chunk
<1>6. \A f : f \in Range(Chunk) <=> f \in Nat /\ readPos <= f /\ f < readPos + avail
  <2>1. DOMAIN Chunk = 1 .. avail
    BY DEF Chunk
  <2>2. ASSUME NEW f \in Nat, readPos <= f, f < readPos + avail PROVE f \in Range(Chunk)
    <3>1. f - readPos + 1 \in 1 .. avail /\ Chunk[f - readPos + 1] = f
      BY <1>1, <1>5, <2>2
    <3>2. QED
      BY <2>1, <3>1 DEF Range
  <2>3. ASSUME NEW f \in Range(Chunk) PROVE f \in Nat /\ readPos <= f /\ f < readPos + avail
    <3>1. PICK i \in 1 .. avail : Chunk[i] = f
      BY <2>1 DEF Range
    <3>2. QED
      BY <1>1, <1>5, <3>1
  <2>4. QED
    BY <2>2, <2>3
<1>7. QED
  BY <1>4, <1>5, <1>6

\* The a frames from r on, without the first cut of them.
Kept(emit, r, cut, a) ==
    /\ Len(emit) = a - cut
    /\ \A i \in 1 .. a - cut : emit[i] = r + cut + i - 1

\* What a decoded chunk adds to what is heard.
EmitStep(cut, emit) ==
    /\ cut = (IF trimLeft < avail THEN trimLeft ELSE avail)
    /\ emit \in Seq(Nat) /\ Kept(emit, readPos, cut, avail)
    /\ trimLeft' = trimLeft - cut
    /\ heard' = heard \o emit

LEMMA EmitTaken ==
    ASSUME TypeOK, DecodeAndEmit
    PROVE  \E cut \in Nat, emit \in Seq(Nat) : EmitStep(cut, emit)
<1> DEFINE cut == IF trimLeft < avail THEN trimLeft ELSE avail
           emit == SubSeq(Chunk, cut + 1, avail)
<1>1. avail \in Nat /\ readPos \in Nat /\ trimLeft \in Nat
  BY DEF TypeOK
<1>2. cut \in Nat /\ cut <= avail
  BY <1>1
<1>3. trimLeft' = trimLeft - cut /\ heard' = heard \o emit
  BY DEF DecodeAndEmit
<1> HIDE DEF cut
<1>4. \A i \in cut + 1 .. avail : i \in 1 .. avail /\ Chunk[i] \in Nat /\ Chunk[i] = readPos + i - 1
  BY <1>1, <1>2, ChunkFrames
<1>5. /\ emit \in Seq(Nat)
      /\ Len(emit) = IF cut + 1 <= avail THEN avail - (cut + 1) + 1 ELSE 0
      /\ \A i \in 1 .. avail - (cut + 1) + 1 : emit[i] = Chunk[cut + 1 + i - 1]
  BY <1>1, <1>2, <1>4, SubSeqProperties
<1>6. Len(emit) = avail - cut
  BY <1>1, <1>2, <1>5
<1>7. ASSUME NEW i \in 1 .. avail - cut PROVE emit[i] = readPos + cut + i - 1
  BY <1>1, <1>2, <1>4, <1>5
<1>8. EmitStep(cut, emit)
  BY <1>3, <1>5, <1>6, <1>7 DEF EmitStep, Kept, cut
<1>9. QED
  BY <1>2, <1>5, <1>8
-----------------------------------------------------------------------------

\* What is heard stays in order and behind the decoder when a chunk's frames
\* from the first kept one on are appended to it.
LEMMA AppendFrames ==
    ASSUME NEW r \in Nat, NEW a \in Nat, NEW cut \in Nat, cut <= a,
           NEW h \in Seq(Nat), Behind(h, r),
           NEW e \in Seq(Nat), Kept(e, r, cut, a)
    PROVE  /\ Len(h \o e) = Len(h) + (a - cut)
           /\ \A i \in 1 .. Len(h) : (h \o e)[i] = h[i]
           /\ \A i \in 1 .. Len(h \o e) :
                 i \notin 1 .. Len(h) => (h \o e)[i] = r + cut + (i - Len(h)) - 1
           /\ Behind(h \o e, r + a)
<1> USE DEF Behind, Kept
<1> DEFINE g == h \o e
<1>1. /\ Len(h) \in Nat /\ Len(g) = Len(h) + (a - cut)
      /\ \A i \in 1 .. Len(h) + (a - cut) : g[i] = IF i <= Len(h) THEN h[i] ELSE e[i - Len(h)]
  <2>1. Len(h) \in Nat /\ Len(e) \in Nat
    BY LenProperties
  <2>2. /\ Len(g) = Len(h) + Len(e)
        /\ \A i \in 1 .. Len(h) + Len(e) : g[i] = IF i <= Len(h) THEN h[i] ELSE e[i - Len(h)]
    BY ConcatProperties
  <2>3. QED
    BY <2>1, <2>2
<1> HIDE DEF g
<1>2. \A i \in 1 .. Len(h) : g[i] = h[i]
  <2>1. \A i \in 1 .. Len(h) : i \in 1 .. Len(h) + (a - cut) /\ i <= Len(h)
    BY <1>1
  <2>2. QED
    BY <1>1, <2>1
<1>3. ASSUME NEW i \in 1 .. Len(g), i \notin 1 .. Len(h)
      PROVE  g[i] = r + cut + (i - Len(h)) - 1
  <2>1. i - Len(h) \in 1 .. a - cut /\ g[i] = e[i - Len(h)]
    BY <1>1, <1>3
  <2>2. QED
    BY <2>1
<1>4. \A i \in 1 .. Len(h) : h[i] \in Nat
  BY ElementOfSeq
<1>5. ASSUME NEW i \in 1 .. Len(g) PROVE g[i] < r + a
  <2>1. CASE i \in 1 .. Len(h)
    <3>1. g[i] = h[i] /\ h[i] \in Nat
      BY <1>2, <1>4, <2>1
    <3>2. h[i] < r
      BY <2>1
    <3>3. QED
      BY <3>1, <3>2
  <2>2. CASE i \notin 1 .. Len(h)
    <3>1. g[i] = r + cut + (i - Len(h)) - 1 /\ i - Len(h) <= a - cut
      BY <1>1, <1>3, <2>2
    <3>2. QED
      BY <1>1, <3>1
  <2>3. QED
    BY <2>1, <2>2
<1>6. ASSUME NEW i \in 1 .. Len(g), NEW j \in 1 .. Len(g), i < j PROVE g[i] < g[j]
  <2>1. CASE j \in 1 .. Len(h)
    BY <1>1, <1>2, <1>6, <2>1
  <2>2. CASE j \notin 1 .. Len(h) /\ i \in 1 .. Len(h)
    <3>1. g[j] = r + cut + (j - Len(h)) - 1 /\ j - Len(h) >= 1
      BY <1>1, <1>3, <2>2
    <3>2. g[i] \in Nat /\ g[i] < r
      BY <1>2, <1>4, <2>2
    <3>3. QED
      <4>1. PICK k \in Nat \ {0} : k = j - Len(h)
        <5>1. j \in Int /\ Len(h) \in Int
          BY <1>1
        <5>2. j - Len(h) \in Nat \ {0}
          BY <3>1, <5>1
        <5>3. QED
          BY <5>2, Zenon
      <4>2. g[j] = r + cut + k - 1
        BY <3>1, <4>1
      <4>3. QED
        BY <3>2, <4>1, <4>2
  <2>3. CASE i \notin 1 .. Len(h) /\ j \notin 1 .. Len(h)
    BY <1>1, <1>3, <1>6, <2>3
  <2>4. QED
    BY <1>1, <1>6, <2>1, <2>2, <2>3
<1>7. QED
  BY <1>1, <1>2, <1>3, <1>5, <1>6 DEF g

\* A chunk whose decode fails is lost, and the decoder is through with it.
LEMMA HeardFails == ASSUME TypeOK, QueueInv, HeardInv, DecodeFails PROVE HeardInv'
<1>1. readPos \in Nat /\ avail \in Nat /\ lost \subseteq Nat /\ heard \in Seq(Nat)
  BY DEF TypeOK
<1>2. /\ Taken' = readPos + avail /\ Taken = readPos /\ avail # 0
      /\ heard' = heard /\ lost' = lost \cup Range(Chunk)
  BY <1>1 DEF DecodeFails, Taken, QueueInv
<1>3. \A f : f \in Range(Chunk) <=> f \in Nat /\ readPos <= f /\ f < readPos + avail
  BY ChunkFrames
<1>4. readPos \in lost'
  <2>1. readPos < readPos + avail
    BY <1>1, <1>2
  <2>2. QED
    BY <1>1, <1>2, <1>3, <2>1
<1>5. \A i \in 1 .. Len(heard) : heard[i] \in Nat /\ heard[i] < readPos
  BY <1>1, <1>2, ElementOfSeq DEF HeardInv, Behind
<1>6. Behind(heard', Taken')
  <2>1. Behind(heard, readPos)
    BY <1>2 DEF HeardInv
  <2>2. QED
    BY <1>1, <1>2, <1>5, <2>1 DEF Behind
<1>7. ASSUME NEW f \in lost' PROVE f < Taken' /\ \A i \in 1 .. Len(heard') : heard'[i] # f
  <2>1. CASE f \in lost
    <3>1. f \in Nat /\ f < readPos
      BY <1>1, <1>2, <2>1 DEF HeardInv
    <3>2. QED
      BY <1>1, <1>2, <2>1, <3>1 DEF HeardInv
  <2>2. CASE f \in Range(Chunk)
    <3>1. f \in Nat /\ readPos <= f /\ f < readPos + avail
      BY <1>3, <2>2
    <3>2. QED
      BY <1>1, <1>2, <1>5, <3>1
  <2>3. QED
    BY <1>2, <2>1, <2>2
<1>8. QED
  BY <1>2, <1>4, <1>6, <1>7 DEF HeardInv

\* A chunk that is decoded is heard, but for what is trimmed of it.
LEMMA HeardDecodes == ASSUME TypeOK, PcInv, HeardInv, DecodeAndEmit PROVE HeardInv'
<1>1. PICK cut \in Nat, emit \in Seq(Nat) : EmitStep(cut, emit)
  BY EmitTaken
<1>2. /\ readPos \in Nat /\ avail \in Nat /\ trimLeft \in Nat /\ heard \in Seq(Nat)
      /\ mode.trim \in Nat /\ lost \subseteq Nat
  BY PipelineAssumption DEF TypeOK
<1>3. /\ Taken' = readPos + avail /\ Taken = readPos /\ lost' = lost /\ mode' = mode
      /\ mpc' = mpc /\ mpc # "idle" /\ ~aborted
  BY <1>2 DEF DecodeAndEmit, Taken, PcInv, mainVars
<1>4. cut <= avail /\ heard' = heard \o emit /\ Kept(emit, readPos, cut, avail)
  BY <1>1, <1>2 DEF EmitStep
<1>5. Behind(heard, readPos)
  BY <1>3 DEF HeardInv
<1>6. /\ Len(heard') = Len(heard) + (avail - cut)
      /\ \A i \in 1 .. Len(heard) : heard'[i] = heard[i]
      /\ \A i \in 1 .. Len(heard') :
            i \notin 1 .. Len(heard) => heard'[i] = readPos + cut + (i - Len(heard)) - 1
      /\ Behind(heard', readPos + avail)
  BY <1>2, <1>4, <1>5, AppendFrames
<1>7. Len(heard) \in Nat
  BY <1>2, LenProperties
<1>8. ASSUME NEW f \in lost' PROVE f < Taken' /\ \A i \in 1 .. Len(heard') : heard'[i] # f
  <2>1. f \in Nat /\ f < readPos /\ \A i \in 1 .. Len(heard) : heard[i] # f
    BY <1>2, <1>3 DEF HeardInv
  <2>2. f < Taken'
    BY <1>2, <1>3, <2>1
  <2>3. ASSUME NEW i \in 1 .. Len(heard') PROVE heard'[i] # f
    <3>1. CASE i \in 1 .. Len(heard)
      BY <1>6, <2>1, <3>1
    <3>2. CASE i \notin 1 .. Len(heard)
      <4>1. heard'[i] = readPos + cut + (i - Len(heard)) - 1 /\ i - Len(heard) >= 1
        BY <1>6, <1>7, <3>2
      <4>2. QED
        BY <1>2, <1>7, <2>1, <4>1
    <3>3. QED
      BY <3>1, <3>2
  <2>4. QED
    BY <2>2, <2>3
<1>9. PICK trim \in Nat, before \in Nat, after \in Nat :
          /\ trim = mode.trim
          /\ before = Trimmed(readPos) /\ before = (IF readPos < trim THEN readPos ELSE trim)
          /\ after = Trimmed(readPos + avail)
          /\ after = (IF readPos + avail < trim THEN readPos + avail ELSE trim)
  <2>1. PICK trim \in Nat : trim = mode.trim
    BY <1>2
  <2>2. /\ (IF readPos < trim THEN readPos ELSE trim) \in Nat
        /\ (IF readPos + avail < trim THEN readPos + avail ELSE trim) \in Nat
    BY <1>2
  <2>3. /\ Trimmed(readPos) = (IF readPos < trim THEN readPos ELSE trim)
        /\ Trimmed(readPos + avail) = (IF readPos + avail < trim THEN readPos + avail ELSE trim)
    BY <2>1 DEF Trimmed
  <2>4. QED
    BY <2>1, <2>2, <2>3
<1>10. ASSUME lost' = {}, ~aborted'
       PROVE  /\ trimLeft' = trim - after
              /\ Len(heard') = (readPos + avail) - after
              /\ \A i \in 1 .. Len(heard') : heard'[i] = trim + (i - 1)
  <2>1. /\ trimLeft = trim - before /\ Len(heard) = readPos - before
        /\ \A i \in 1 .. Len(heard) : heard[i] = trim + (i - 1)
    BY <1>3, <1>9, <1>10 DEF HeardInv
  <2>2. /\ trimLeft' = trimLeft - cut
        /\ cut = (IF trimLeft < avail THEN trimLeft ELSE avail)
    BY <1>1 DEF EmitStep
  <2>3. after = before + cut
    <3>1. /\ readPos \in Nat /\ avail \in Nat /\ trim \in Nat
          /\ before = (IF readPos < trim THEN readPos ELSE trim)
          /\ after = (IF readPos + avail < trim THEN readPos + avail ELSE trim)
          /\ cut = (IF trim - before < avail THEN trim - before ELSE avail)
      BY <1>2, <1>9, <2>1, <2>2, Zenon
    <3>2. CASE ~(readPos < trim)
      BY <3>1, <3>2
    <3>3. CASE readPos < trim /\ readPos + avail < trim
      BY <3>1, <3>3
    <3>4. CASE readPos < trim /\ ~(readPos + avail < trim)
      BY <3>1, <3>4
    <3>5. QED
      BY <3>2, <3>3, <3>4
  <2>4. trimLeft' = trim - after /\ Len(heard') = (readPos + avail) - after
    BY <1>2, <1>6, <2>1, <2>2, <2>3
  <2>5. ASSUME NEW i \in 1 .. Len(heard'), i \notin 1 .. Len(heard)
        PROVE  heard'[i] = trim + (i - 1)
    <3>1. heard'[i] = readPos + cut + (i - Len(heard)) - 1
      BY <1>6, <2>5
    <3>2. i - Len(heard) >= 1 /\ i - Len(heard) <= avail - cut
      BY <1>2, <1>6, <1>7, <2>5
    <3>3. cut = trim - before
      BY <1>2, <2>1, <2>2, <3>2
    <3>4. QED
      BY <1>2, <2>1, <3>1, <3>3
  <2>6. QED
    BY <1>6, <2>1, <2>4, <2>5
<1>11. Trimmed(Taken)' = after
  BY <1>3, <1>9 DEF Trimmed
<1>12. Behind(heard, Taken)'
  BY <1>3, <1>6
<1>13. QED
  BY <1>3, <1>8, <1>9, <1>10, <1>11, <1>12 DEF HeardInv
-----------------------------------------------------------------------------

\* Every step keeps the types.
LEMMA TypeStep == IInv /\ [Next]_vars => TypeOK'
<1> SUFFICES ASSUME IInv, [Next]_vars PROVE TypeOK'
  OBVIOUS
<1> USE PipelineAssumption DEF IInv, TypeOK, mainVars, queueVars, decVars
<1>1. ASSUME NEW m \in 0 .. MaxFrames, Start(m) PROVE TypeOK'
  <2>1. mode' \in Modes /\ mode'.trim \in Nat
    BY <1>1 DEF Start
  <2>2. capacity' \in Nat /\ requests' \in Nat
    BY <1>1 DEF Start
  <2>3. heard' \in Seq(Nat) /\ lost' \in SUBSET Nat
    BY <1>1, EmptySeq DEF Start
  <2>4. QED
    BY <1>1, <2>1, <2>2, <2>3 DEF Start
<1>2. ASSUME Frame PROVE TypeOK'
  BY <1>2 DEF Frame
<1>3. ASSUME Push PROVE TypeOK'
  BY <1>3 DEF Push, Signalled
<1>4. ASSUME SeeAbort PROVE TypeOK'
  BY <1>4 DEF SeeAbort
<1>5. ASSUME TalkerStep PROVE TypeOK'
  BY <1>5 DEF TalkerStep
<1>6. ASSUME Finish PROVE TypeOK'
  BY <1>6 DEF Finish, Signalled
<1>7. ASSUME Join PROVE TypeOK'
  <2>1. Outcome \in [ret : {0, -1}, audio : Seq(Nat)]
    BY EmptySeq DEF Outcome, NoResult
  <2>2. QED
    BY <1>7, <2>1 DEF Join
<1>8. ASSUME Look PROVE TypeOK'
  <2>1. writePos - readPos \in Nat
    BY <1>8 DEF Look, QueueInv
  <2>2. QED
    BY <1>8, <2>1 DEF Look
<1>9. ASSUME TakeChunk PROVE TypeOK'
  BY <1>9 DEF TakeChunk
<1>10. ASSUME DecodeFails PROVE TypeOK'
  <2>1. lost' \in SUBSET Nat
    BY <1>10, ChunkFrames DEF DecodeFails
  <2>2. QED
    BY <1>10, <2>1 DEF DecodeFails
<1>11. ASSUME DecodeAndEmit PROVE TypeOK'
  <2>1. PICK cut, emit : EmitStep(cut, emit)
    BY <1>11, EmitTaken
  <2>2. heard' \in Seq(Nat) /\ trimLeft' \in Nat
    BY <2>1, ConcatProperties DEF EmitStep
  <2>3. aborted' \in BOOLEAN /\ abortAt' \in Nat /\ started' \in BOOLEAN
    BY <1>11 DEF DecodeAndEmit
  <2>4. QED
    BY <1>11, <2>2, <2>3 DEF DecodeAndEmit
<1>12. ASSUME Advance PROVE TypeOK'
  BY <1>12 DEF Advance
<1>13. ASSUME SpuriousWake PROVE TypeOK'
  BY <1>13 DEF SpuriousWake
<1>14. CASE UNCHANGED vars
  BY <1>14 DEF vars
<1>15. QED
  BY <1>1, <1>2, <1>3, <1>4, <1>5, <1>6, <1>7, <1>8, <1>9, <1>10, <1>11, <1>12, <1>13, <1>14 DEF Next, MainStep, DecoderStep

\* Every step keeps the two threads together.
LEMMA PcStep == IInv /\ [Next]_vars => PcInv'
<1> SUFFICES ASSUME IInv, [Next]_vars PROVE PcInv'
  OBVIOUS
<1> USE PipelineAssumption DEF IInv, TypeOK, PcInv, QueueInv, Streaming, mainVars, queueVars, decVars
<1>1. ASSUME NEW m \in 0 .. MaxFrames, Start(m) PROVE PcInv'
  BY <1>1 DEF Start
<1>2. ASSUME Frame PROVE PcInv'
  BY <1>2 DEF Frame
<1>3. ASSUME Push PROVE PcInv'
  BY <1>3 DEF Push, Signalled
<1>4. ASSUME SeeAbort PROVE PcInv'
  BY <1>4 DEF SeeAbort
<1>5. ASSUME TalkerStep PROVE PcInv'
  BY <1>5 DEF TalkerStep
<1>6. ASSUME Finish PROVE PcInv'
  BY <1>6 DEF Finish, Signalled
<1>7. ASSUME Join PROVE PcInv'
  BY <1>7 DEF Join
<1>8. ASSUME Look PROVE PcInv'
  BY <1>8 DEF Look
<1>9. ASSUME TakeChunk PROVE PcInv'
  BY <1>9 DEF TakeChunk
<1>10. ASSUME DecodeFails PROVE PcInv'
  BY <1>10 DEF DecodeFails
<1>11. ASSUME DecodeAndEmit PROVE PcInv'
  BY <1>11 DEF DecodeAndEmit
<1>12. ASSUME Advance PROVE PcInv'
  BY <1>12 DEF Advance
<1>13. ASSUME SpuriousWake PROVE PcInv'
  BY <1>13 DEF SpuriousWake
<1>14. CASE UNCHANGED vars
  BY <1>14 DEF vars
<1>15. QED
  BY <1>1, <1>2, <1>3, <1>4, <1>5, <1>6, <1>7, <1>8, <1>9, <1>10, <1>11, <1>12, <1>13, <1>14 DEF Next, MainStep, DecoderStep

\* Every step keeps the decoder behind the generator.
LEMMA QueueStep == IInv /\ [Next]_vars => QueueInv'
<1> SUFFICES ASSUME IInv, [Next]_vars PROVE QueueInv'
  OBVIOUS
<1> USE PipelineAssumption DEF IInv, TypeOK, PcInv, QueueInv, mainVars, queueVars, decVars
<1>1. ASSUME NEW m \in 0 .. MaxFrames, Start(m) PROVE QueueInv'
  BY <1>1 DEF Start
<1>2. ASSUME Frame PROVE QueueInv'
  BY <1>2 DEF Frame
<1>3. ASSUME Push PROVE QueueInv'
  BY <1>3 DEF Push, Signalled
<1>4. ASSUME SeeAbort PROVE QueueInv'
  BY <1>4 DEF SeeAbort
<1>5. ASSUME TalkerStep PROVE QueueInv'
  BY <1>5 DEF TalkerStep
<1>6. ASSUME Finish PROVE QueueInv'
  BY <1>6 DEF Finish, Signalled
<1>7. ASSUME Join PROVE QueueInv'
  BY <1>7 DEF Join
<1>8. ASSUME Look PROVE QueueInv'
  BY <1>8 DEF Look
<1>9. ASSUME TakeChunk PROVE QueueInv'
  BY <1>9 DEF TakeChunk
<1>10. ASSUME DecodeFails PROVE QueueInv'
  BY <1>10 DEF DecodeFails
<1>11. ASSUME DecodeAndEmit PROVE QueueInv'
  BY <1>11 DEF DecodeAndEmit
<1>12. ASSUME Advance PROVE QueueInv'
  BY <1>12 DEF Advance
<1>13. ASSUME SpuriousWake PROVE QueueInv'
  BY <1>13 DEF SpuriousWake
<1>14. CASE UNCHANGED vars
  BY <1>14 DEF vars
<1>15. QED
  BY <1>1, <1>2, <1>3, <1>4, <1>5, <1>6, <1>7, <1>8, <1>9, <1>10, <1>11, <1>12, <1>13, <1>14 DEF Next, MainStep, DecoderStep

\* A chunk that is taken is to be decoded, or is skipped after an abort.
LEMMA HeardTakes == ASSUME TypeOK, HeardInv, TakeChunk PROVE HeardInv'
<1>1. /\ UNCHANGED <<heard, lost, mode, trimLeft, aborted, mpc, readPos, avail>>
      /\ dpc = "chunk" /\ (dpc' = "advance" => aborted)
  BY DEF TakeChunk, mainVars, queueVars, decVars
<1>2. /\ readPos \in Nat /\ avail \in Nat /\ heard \in Seq(Nat) /\ lost \subseteq Nat
      /\ Taken = readPos /\ Behind(heard, readPos)
  BY <1>1 DEF TypeOK, Taken, HeardInv
<1>3. CASE dpc' # "advance"
  <2>1. Taken' = Taken
    BY <1>1, <1>2, <1>3 DEF Taken
  <2>2. QED
    BY <1>1, <2>1 DEF HeardInv, Behind, Trimmed
<1>4. CASE dpc' = "advance"
  <2>1. Taken' = readPos + avail
    BY <1>1, <1>4 DEF Taken
  <2>2. ASSUME NEW i \in 1 .. Len(heard) PROVE heard[i] < readPos + avail
    <3>1. heard[i] \in Nat /\ heard[i] < readPos
      BY <1>2, ElementOfSeq DEF Behind
    <3>2. QED
      BY <1>2, <3>1
  <2>3. ASSUME NEW f \in lost PROVE f < readPos + avail
    <3>1. f \in Nat /\ f < readPos
      BY <1>2 DEF HeardInv
    <3>2. QED
      BY <1>2, <3>1
  <2>4. Behind(heard, Taken)'
    BY <1>1, <1>2, <2>1, <2>2 DEF Behind
  <2>5. QED
    BY <1>1, <1>4, <2>1, <2>3, <2>4 DEF HeardInv
<1>5. QED
  BY <1>3, <1>4

\* Every step keeps what is heard in order and complete.
LEMMA HeardStep == IInv /\ [Next]_vars => HeardInv'
<1> SUFFICES ASSUME IInv, [Next]_vars PROVE HeardInv'
  OBVIOUS
<1> USE PipelineAssumption DEF IInv, TypeOK, PcInv, QueueInv, HeardInv, Behind, Taken, Trimmed, mainVars, queueVars, decVars
<1>1. ASSUME NEW m \in 0 .. MaxFrames, Start(m) PROVE HeardInv'
  BY <1>1 DEF Start
<1>2. ASSUME Frame PROVE HeardInv'
  BY <1>2 DEF Frame
<1>3. ASSUME Push PROVE HeardInv'
  BY <1>3 DEF Push, Signalled
<1>4. ASSUME SeeAbort PROVE HeardInv'
  BY <1>4 DEF SeeAbort
<1>5. ASSUME TalkerStep PROVE HeardInv'
  BY <1>5 DEF TalkerStep
<1>6. ASSUME Finish PROVE HeardInv'
  BY <1>6 DEF Finish, Signalled
<1>7. ASSUME Join PROVE HeardInv'
  BY <1>7 DEF Join
<1>8. ASSUME Look PROVE HeardInv'
  BY <1>8 DEF Look
<1>9. ASSUME TakeChunk PROVE HeardInv'
  BY <1>9, HeardTakes
<1>10. ASSUME DecodeFails PROVE HeardInv'
  BY <1>10, HeardFails
<1>11. ASSUME DecodeAndEmit PROVE HeardInv'
  BY <1>11, HeardDecodes
<1>12. ASSUME Advance PROVE HeardInv'
  BY <1>12 DEF Advance
<1>13. ASSUME SpuriousWake PROVE HeardInv'
  BY <1>13 DEF SpuriousWake
<1>14. CASE UNCHANGED vars
  BY <1>14 DEF vars
<1>15. QED
  BY <1>1, <1>2, <1>3, <1>4, <1>5, <1>6, <1>7, <1>8, <1>9, <1>10, <1>11, <1>12, <1>13, <1>14 DEF Next, MainStep, DecoderStep

\* Every step keeps what a call returns.
LEMMA CompleteStep == IInv /\ [Next]_vars => Complete'
<1> SUFFICES ASSUME IInv, [Next]_vars PROVE Complete'
  OBVIOUS
<1> USE PipelineAssumption DEF IInv, TypeOK, PcInv, QueueInv, Complete, Streaming, mainVars, queueVars, decVars
<1>1. ASSUME NEW m \in 0 .. MaxFrames, Start(m) PROVE Complete'
  BY <1>1 DEF Start
<1>2. ASSUME Frame PROVE Complete'
  BY <1>2 DEF Frame
<1>3. ASSUME Push PROVE Complete'
  BY <1>3 DEF Push, Signalled
<1>4. ASSUME SeeAbort PROVE Complete'
  BY <1>4 DEF SeeAbort
<1>5. ASSUME TalkerStep PROVE Complete'
  BY <1>5 DEF TalkerStep
<1>6. ASSUME Finish PROVE Complete'
  BY <1>6 DEF Finish, Signalled
<1>7. ASSUME Join PROVE Complete'
  <2>1. /\ result' = Outcome /\ mode' = mode /\ frames' = frames /\ failed' = failed
        /\ heard' = heard /\ lost' = lost /\ aborted' = aborted
        /\ readPos = frames /\ Taken = frames
    BY <1>7 DEF Join, Taken
  <2>2. result'.ret = IF failed' THEN -1 ELSE 0
    BY <2>1 DEF Outcome, NoResult
  <2>3. lost = {} /\ ~aborted =>
            heard = [i \in 1 .. frames - Trimmed(frames) |-> mode.trim + i - 1]
    <3>1. SUFFICES ASSUME lost = {}, ~aborted
                   PROVE  heard = [i \in 1 .. frames - Trimmed(frames) |-> mode.trim + i - 1]
      OBVIOUS
    <3>2. /\ Len(heard) = frames - Trimmed(frames)
          /\ \A i \in 1 .. Len(heard) : heard[i] = mode.trim + i - 1
      BY <2>1, <3>1 DEF HeardInv
    <3>3. heard \in [1 .. Len(heard) -> Nat]
      BY LenProperties
    <3>4. QED
      BY <3>2, <3>3
  <2>4. frames = 0 => heard = << >>
    <3>1. SUFFICES ASSUME frames = 0 PROVE heard = << >>
      OBVIOUS
    <3>2. \A i \in 1 .. Len(heard) : heard[i] \in Nat /\ heard[i] < 0
      BY <2>1, <3>1, ElementOfSeq DEF HeardInv, Behind
    <3>3. Len(heard) = 0
      BY <3>2, LenProperties
    <3>4. QED
      BY <3>3, EmptySeq
  <2>5. result'.audio = (IF failed' \/ Streaming' THEN << >> ELSE heard')
    BY <2>1, <2>4 DEF Outcome, NoResult
  <2>6. QED
    BY <2>1, <2>2, <2>3, <2>5 DEF Trimmed
<1>8. ASSUME Look PROVE Complete'
  BY <1>8 DEF Look
<1>9. ASSUME TakeChunk PROVE Complete'
  BY <1>9 DEF TakeChunk
<1>10. ASSUME DecodeFails PROVE Complete'
  BY <1>10 DEF DecodeFails
<1>11. ASSUME DecodeAndEmit PROVE Complete'
  BY <1>11 DEF DecodeAndEmit
<1>12. ASSUME Advance PROVE Complete'
  BY <1>12 DEF Advance
<1>13. ASSUME SpuriousWake PROVE Complete'
  BY <1>13 DEF SpuriousWake
<1>14. CASE UNCHANGED vars
  BY <1>14 DEF vars
<1>15. QED
  BY <1>1, <1>2, <1>3, <1>4, <1>5, <1>6, <1>7, <1>8, <1>9, <1>10, <1>11, <1>12, <1>13, <1>14 DEF Next, MainStep, DecoderStep
-----------------------------------------------------------------------------
\* The invariant holds at first, when no request has come ...
LEMMA InitInvariant == Init => IInv
<1> SUFFICES ASSUME Init PROVE IInv
  OBVIOUS
<1> USE DEF Init
<1>1. mode \in Modes /\ mode.trim \in Nat
  BY PipelineAssumption
<1>2. heard \in Seq(Nat) /\ Len(heard) = 0 /\ << >> \in Seq(Nat)
  BY EmptySeq
<1>3. TypeOK
  BY <1>1, <1>2 DEF TypeOK, NoResult
<1>4. PcInv /\ QueueInv /\ Complete
  BY DEF PcInv, QueueInv, Complete, Streaming
<1>5. HeardInv
  <2>1. Taken = 0 /\ Trimmed(Taken) = 0
    BY <1>1 DEF Taken, Trimmed
  <2>2. QED
    BY <1>2, <2>1 DEF HeardInv, Behind
<1>6. QED
  BY <1>3, <1>4, <1>5 DEF IInv

\* ... and every step keeps it.
THEOREM Invariance == Spec => []IInv
<1>1. IInv /\ [Next]_vars => IInv'
  BY TypeStep, PcStep, QueueStep, HeardStep, CompleteStep DEF IInv
<1>2. QED
  BY InitInvariant, <1>1, PTL DEF Spec

\* Every variable has its type.
THEOREM TypeCorrect == Spec => []TypeOK
<1>1. IInv => TypeOK
  BY DEF IInv
<1>2. QED
  BY Invariance, <1>1, PTL

\* The decoder thread runs only inside a call of qwen_tts_generate: it is
\* joined, or has returned, before dt_state and sd_stream are freed.
THEOREM DecoderInsideCall == Spec => []NoUseAfterFree
<1>1. IInv => NoUseAfterFree
  BY DEF IInv, TypeOK, PcInv, NoUseAfterFree, Running
<1>2. QED
  BY Invariance, <1>1, PTL

\* The order and the completeness of what has been heard, from the invariant.
LEMMA HeardInOrder == IInv => InOrder
<1> SUFFICES ASSUME IInv PROVE InOrder
  OBVIOUS
<1>1. /\ heard \in Seq(Nat) /\ Len(heard) \in Nat /\ DOMAIN heard = 1 .. Len(heard)
      /\ readPos \in Nat /\ mode.trim \in Nat
  BY PipelineAssumption, LenProperties DEF IInv, TypeOK
<1>2. \A i \in 1 .. Len(heard) - 1 : heard[i] < heard[i + 1]
  BY <1>1 DEF IInv, HeardInv, Behind
<1>3. Range(heard) \cap lost = {}
  BY <1>1 DEF IInv, HeardInv, Range
<1>4. ASSUME ~aborted, lost = {}, dpc # "advance"
      PROVE  Range(heard) = {f \in Consumed : f >= mode.trim}
  <2>1. PICK trim \in Nat : trim = mode.trim
    BY <1>1
  <2>2. Taken = readPos
    BY <1>1, <1>4 DEF Taken
  <2>3. /\ Len(heard) = readPos - (IF readPos < trim THEN readPos ELSE trim)
        /\ \A i \in 1 .. Len(heard) : heard[i] = trim + (i - 1)
    BY <1>4, <2>1, <2>2 DEF IInv, HeardInv, Trimmed
  <2>4. ASSUME NEW f \in Range(heard) PROVE f \in Consumed /\ f >= trim
    <3>1. PICK i \in 1 .. Len(heard) : heard[i] = f
      BY <1>1 DEF Range
    <3>2. QED
      BY <1>1, <2>3, <3>1 DEF Consumed
  <2>5. ASSUME NEW f \in Consumed, f >= trim PROVE f \in Range(heard)
    <3>1. f \in Nat /\ f < readPos
      BY <1>1 DEF Consumed
    <3>2. (f - trim) + 1 \in 1 .. Len(heard)
      BY <1>1, <2>3, <2>5, <3>1
    <3>3. heard[(f - trim) + 1] = f
      BY <2>3, <2>5, <3>1, <3>2
    <3>4. QED
      BY <1>1, <3>2, <3>3 DEF Range
  <2>6. QED
    BY <2>1, <2>4, <2>5
<1>5. QED
  BY <1>2, <1>3, <1>4 DEF InOrder

\* What is heard is in order and complete while the two threads run, and it
\* is what the call returns.
THEOREM AudioIsRight == Spec => []AudioRight
<1>1. IInv => AudioRight
  BY HeardInOrder DEF IInv, AudioRight
<1>2. QED
  BY Invariance, <1>1, PTL

\* No step of a request changes what is heard after an abort.
LEMMA SilentStep ==
    ASSUME IInv, [Next]_vars, aborted, requests' = requests
    PROVE  aborted' /\ heard' = heard
<1>1. dpc # "decode" /\ requests \in Nat
  BY DEF IInv, PcInv, TypeOK
<1>2. ~DecodeAndEmit
  BY <1>1 DEF DecodeAndEmit
<1>3. \A m \in 0 .. MaxFrames : ~Start(m)
  BY <1>1 DEF Start
<1>4. CASE MainStep
  BY <1>4 DEF MainStep, Frame, Push, SeeAbort, TalkerStep, Finish, Join, decVars
<1>5. CASE Look \/ TakeChunk \/ DecodeFails \/ Advance \/ SpuriousWake
  BY <1>5 DEF Look, TakeChunk, DecodeFails, Advance, SpuriousWake, decVars
<1>6. CASE UNCHANGED vars
  BY <1>6 DEF vars, decVars
<1>7. QED
  BY <1>2, <1>3, <1>4, <1>5, <1>6 DEF Next, DecoderStep

\* Once the callback has aborted it is not called again in that request.
THEOREM AbortIsSilent == Spec => SilentAfterAbort
<1>1. IInv /\ [Next]_vars => [aborted /\ requests' = requests => aborted' /\ heard' = heard]_vars
  BY SilentStep
<1>2. QED
  BY Invariance, <1>1, PTL DEF Spec, SilentAfterAbort
=============================================================================
