--------------------------- MODULE DecoderThread ---------------------------
(***************************************************************************)
(* The generation pipeline of qwen_tts_generate: the main thread samples   *)
(* one codec frame after another and pushes it to a decoder thread, which  *)
(* decodes chunks of frames and hands the audio to a callback (streaming)  *)
(* or appends it to a buffer (dt_* and decoder_thread_fn in qwen_tts.c).   *)
(*                                                                         *)
(* What a thread does while it holds dt->mutex is one step.  Frames are    *)
(* numbered from 0, audio is the sequence of the frames it stands for      *)
(* (SDStream is about what decoding a chunk computes).                     *)
(***************************************************************************)
EXTENDS Integers, Sequences, SequencesExt

CONSTANTS MaxFrames,   \* largest max_frames of a request
          Modes,       \* what a call may run as:
                       \* chunk: dt->chunk_frames
                       \* trim: dt->trim_head_left at the start, in frames
                       \* stream: ctx->stream; callback: ctx->audio_cb is set
                       \* overlap: ~dt_no_overlap
          MaxRequests  \* bound: calls of qwen_tts_generate on the context

ASSUME PipelineAssumption ==
    /\ MaxFrames \in Nat /\ MaxRequests \in Nat
    /\ Modes \subseteq [chunk : Nat \ {0}, trim : Nat, stream : BOOLEAN,
                        callback : BOOLEAN, overlap : BOOLEAN]

VARIABLES
    mpc,        \* where the main thread is
    dpc,        \* where the decoder thread is
    requests,   \* counter for the bound
    mode,       \* of this request
    capacity,   \* dt->capacity = max_frames of this request
    frames,     \* ctx->codec_frames
    failed,     \* a talker step of this request failed
    writePos, readPos, done,   \* dt's shared state
    aborted,    \* dt->cb_aborted
    started,    \* dt->first_chunk_ms # 0
    trimLeft,   \* dt->trim_head_left
    avail, isDone, \* locals of decoder_thread_fn
    alive,      \* dt_state, its buffers and sd_stream exist
    heard,      \* history: frames that reached the callback or the buffer
    lost,       \* history: frames whose decode failed
    abortAt,    \* history: frames when the callback aborted
    result      \* what the last call returned

mainVars  == <<mpc, requests, mode, capacity, frames, failed, alive, result>>
queueVars == <<writePos, done>>
decVars   == <<readPos, aborted, started, trimLeft, avail, isDone, heard, lost, abortAt>>
vars == <<mainVars, queueVars, decVars, dpc>>

NoResult == [ret |-> 0, audio |-> << >>]
Streaming == mode.stream /\ mode.callback

Init ==
    /\ mpc = "idle" /\ dpc = "none"
    /\ requests = 0 /\ mode \in Modes /\ capacity = 0 /\ frames = 0 /\ failed = FALSE
    /\ writePos = 0 /\ readPos = 0 /\ done = FALSE
    /\ aborted = FALSE /\ started = FALSE /\ trimLeft = 0
    /\ avail = 0 /\ isDone = FALSE
    /\ alive = FALSE
    /\ heard = << >> /\ lost = {} /\ abortAt = 0
    /\ result = NoResult

\* pthread_cond_signal(&dt->cond): only the decoder waits there.
Signalled == IF dpc = "waiting" THEN "woken" ELSE dpc
-----------------------------------------------------------------------------
(* The main thread                                                         *)

\* qwen_sd_stream_init, dt_init, pthread_create.  max_frames is what the
\* request asks for, cut to what the RoPE cache leaves after the prefill.
Start(n) ==
    /\ mpc = "idle" /\ requests < MaxRequests
    /\ requests' = requests + 1
    /\ mode' \in Modes
    /\ capacity' = n
    /\ frames' = 0 /\ failed' = FALSE
    /\ writePos' = 0 /\ readPos' = 0 /\ done' = FALSE
    /\ aborted' = FALSE /\ started' = FALSE /\ trimLeft' = mode'.trim
    /\ avail' = 0 /\ isDone' = FALSE
    /\ alive' = TRUE
    /\ heard' = << >> /\ lost' = {} /\ abortAt' = 0
    /\ mpc' = "frame"
    /\ dpc' = IF mode'.overlap THEN "look" ELSE "none"
    /\ UNCHANGED result

\* The head of the loop: the frames are used up, or EOS is sampled, which
\* is suppressed for the first two frames; otherwise a frame is there.
Frame ==
    /\ mpc = "frame"
    /\ \/ /\ frames = capacity \/ frames >= 2
          /\ mpc' = "finish"
          /\ UNCHANGED frames
       \/ /\ frames < capacity
          /\ frames' = frames + 1
          /\ mpc' = "push"
    /\ UNCHANGED <<requests, mode, capacity, failed, alive, result, queueVars, decVars, dpc>>

\* dt_push_frames(&dt_state, codes, 1)
Push ==
    /\ mpc = "push"
    /\ IF writePos + 1 > capacity
       THEN UNCHANGED <<writePos, dpc>>
       ELSE writePos' = writePos + 1 /\ dpc' = Signalled
    /\ mpc' = "abort?"
    /\ UNCHANGED <<requests, mode, capacity, frames, failed, alive, result, done, decVars>>

\* "Check if streaming callback was aborted by decoder thread"
SeeAbort ==
    /\ mpc = "abort?"
    /\ mpc' = IF Streaming /\ aborted THEN "finish" ELSE "step"
    /\ UNCHANGED <<requests, mode, capacity, frames, failed, alive, result, queueVars, decVars, dpc>>

\* qwen_talker_step on the embedding of the frame; it can fail.
TalkerStep ==
    /\ mpc = "step"
    /\ \E ok \in BOOLEAN : /\ failed' = ~ok
                           /\ mpc' = IF ok THEN "frame" ELSE "finish"
    /\ UNCHANGED <<requests, mode, capacity, frames, alive, result, queueVars, decVars, dpc>>

\* Mutant: done is set and nobody is told.
FinishSilently ==
    /\ mpc = "finish"
    /\ done' = TRUE
    /\ dpc' = IF mode.overlap THEN dpc ELSE "look"
    /\ mpc' = "join"
    /\ UNCHANGED <<requests, mode, capacity, frames, failed, alive, result, writePos, decVars>>

\* dt_finish; without the overlap decoder_thread_fn is called right here.
Finish ==
    /\ mpc = "finish"
    /\ done' = TRUE
    /\ dpc' = IF mode.overlap THEN Signalled ELSE "look"
    /\ mpc' = "join"
    /\ UNCHANGED <<requests, mode, capacity, frames, failed, alive, result, writePos, decVars>>

\* What qwen_tts_generate returns and who owns the audio then.
Outcome ==
    IF failed THEN [ret |-> -1, audio |-> << >>]
    ELSE IF frames = 0 \/ Streaming THEN NoResult
    ELSE [ret |-> 0, audio |-> heard]

\* Mutant: the early return of a failed talker step, without the join.
JoinUnlessFailed ==
    /\ mpc = "join" /\ (dpc = "exit" \/ failed)
    /\ alive' = FALSE
    /\ result' = Outcome
    /\ mpc' = "idle"
    /\ UNCHANGED <<requests, mode, capacity, frames, failed, queueVars, decVars, dpc>>

\* pthread_join, qwen_sd_stream_free, dt_free.
Join ==
    /\ mpc = "join" /\ dpc = "exit"
    /\ alive' = FALSE
    /\ result' = Outcome
    /\ mpc' = "idle"
    /\ dpc' = "none"
    /\ UNCHANGED <<requests, mode, capacity, frames, failed, queueVars, decVars>>
-----------------------------------------------------------------------------
(* decoder_thread_fn                                                       *)

\* "Ramped chunking": a small first chunk when streaming.
Target == IF ~started /\ mode.stream /\ mode.chunk > 2 THEN 2 ELSE mode.chunk

\* Under the mutex, first or back from cond_wait.
Look ==
    /\ dpc \in {"look", "woken"}
    /\ IF writePos - readPos < Target /\ ~done
       THEN dpc' = "waiting" /\ UNCHANGED <<avail, isDone>>
       ELSE /\ avail' = writePos - readPos
            /\ isDone' = done
            /\ dpc' = "chunk"
    /\ UNCHANGED <<mainVars, queueVars, readPos, aborted, started, trimLeft, heard, lost, abortAt>>

\* Mutant: the decoder does not look whether the callback has aborted.
TakeChunkAlways ==
    /\ dpc = "chunk"
    /\ dpc' = IF avail <= 0
              THEN IF isDone THEN "exit" ELSE "look"
              ELSE "decode"
    /\ UNCHANGED <<mainVars, queueVars, decVars>>

\* With the mutex released: nothing left, nothing to do, or a chunk, which
\* is skipped once the callback has aborted.
TakeChunk ==
    /\ dpc = "chunk"
    /\ dpc' = IF avail <= 0
              THEN IF isDone THEN "exit" ELSE "look"
              ELSE IF aborted THEN "advance" ELSE "decode"
    /\ UNCHANGED <<mainVars, queueVars, decVars>>

\* The chunk codes[readPos .. readPos + avail - 1] as audio.
Chunk == [i \in 1 .. avail |-> readPos + i - 1]

\* The decode of the chunk fails: its frames are skipped, silently.
DecodeFails ==
    /\ dpc = "decode"
    /\ lost' = lost \cup Range(Chunk)
    /\ dpc' = "advance"
    /\ UNCHANGED <<mainVars, queueVars, readPos, aborted, started, trimLeft,
                   avail, isDone, heard, abortAt>>

\* The decode succeeds: the head is trimmed; what is left, if anything, goes
\* to the callback, which may abort, or to the buffer.
DecodeAndEmit ==
    /\ dpc = "decode"
    /\ LET cut  == IF trimLeft < avail THEN trimLeft ELSE avail
           emit == SubSeq(Chunk, cut + 1, avail)
       IN /\ trimLeft' = trimLeft - cut
          /\ heard' = heard \o emit
          /\ started' = (started \/ emit # << >>)
          /\ \E ret \in IF Streaming /\ emit # << >> THEN BOOLEAN ELSE {FALSE} :
                /\ aborted' = ret
                /\ abortAt' = IF ret THEN frames ELSE abortAt
    /\ dpc' = "advance"
    /\ UNCHANGED <<mainVars, queueVars, readPos, avail, isDone, lost>>

\* Mutant: what arrived while the chunk was decoded is skipped.
AdvanceToWrite ==
    /\ dpc = "advance"
    /\ readPos' = writePos
    /\ dpc' = "look"
    /\ UNCHANGED <<mainVars, queueVars, aborted, started, trimLeft, avail,
                   isDone, heard, lost, abortAt>>

\* dt->read_pos += avail, outside the mutex: nobody else reads it.
Advance ==
    /\ dpc = "advance"
    /\ readPos' = readPos + avail
    /\ dpc' = "look"
    /\ UNCHANGED <<mainVars, queueVars, aborted, started, trimLeft, avail,
                   isDone, heard, lost, abortAt>>

\* cond_wait may return without a signal.
SpuriousWake ==
    /\ dpc = "waiting"
    /\ dpc' = "woken"
    /\ UNCHANGED <<mainVars, queueVars, decVars>>
-----------------------------------------------------------------------------
MainStep == Frame \/ Push \/ SeeAbort \/ TalkerStep \/ Finish \/ Join
DecoderStep == Look \/ TakeChunk \/ DecodeFails \/ DecodeAndEmit \/ Advance

Next == \/ \E n \in 0 .. MaxFrames : Start(n)
        \/ MainStep \/ DecoderStep
        \/ SpuriousWake

Spec == Init /\ [][Next]_vars

\* Both threads run; requests need not come, and cond_wait need not wake
\* by itself.
FairSpec == Spec /\ WF_vars(MainStep) /\ WF_vars(DecoderStep)
-----------------------------------------------------------------------------
(* Properties                                                              *)

\* Every variable has its type.
TypeOK ==
    /\ mpc \in {"idle", "frame", "push", "abort?", "step", "finish", "join"}
    /\ dpc \in {"none", "look", "waiting", "woken", "chunk", "decode", "advance", "exit"}
    /\ requests \in Nat /\ mode \in Modes /\ capacity \in Nat /\ frames \in Nat
    /\ writePos \in Nat /\ readPos \in Nat /\ trimLeft \in Nat
    /\ avail \in Nat /\ abortAt \in Nat
    /\ failed \in BOOLEAN /\ done \in BOOLEAN /\ aborted \in BOOLEAN
    /\ started \in BOOLEAN /\ isDone \in BOOLEAN /\ alive \in BOOLEAN
    /\ heard \in Seq(Nat) /\ lost \in SUBSET Nat
    /\ result \in [ret : {0, -1}, audio : Seq(Nat)]

\* The decoder thread works on dt_state, a local variable of
\* qwen_tts_generate, and on sd_stream: it never outlives them.
Running == dpc \notin {"none", "exit"}
NoUseAfterFree == Running => alive /\ mpc # "idle"

\* Frames the decoder is through with, in order.
Consumed == 0 .. readPos - 1

\* The audio is in order and complete: every frame decoded so far is heard
\* exactly once, unless it was trimmed, its decode failed, or the callback
\* had aborted.
InOrder ==
    /\ \A i \in 1 .. Len(heard) - 1 : heard[i] < heard[i + 1]
    /\ Range(heard) \cap lost = {}
    /\ ~aborted /\ lost = {} /\ dpc # "advance" =>
           Range(heard) = {f \in Consumed : f >= mode.trim}

\* What a call returns: -1 exactly when a talker step failed, and otherwise,
\* if no chunk was lost and nobody aborted, every generated frame after the
\* trimmed head has been heard, once and in order; without a callback that
\* is the audio the caller gets.
Complete ==
    mpc = "idle" /\ requests > 0 =>
        /\ result.ret = (IF failed THEN -1 ELSE 0)
        /\ lost = {} /\ ~aborted =>
              heard = [i \in 1 .. frames - (IF frames < mode.trim THEN frames ELSE mode.trim)
                         |-> mode.trim + i - 1]
        /\ result.audio = (IF failed \/ Streaming THEN << >> ELSE heard)

\* While the two threads run and when the call returns.
AudioRight == InOrder /\ Complete

\* Once the callback has aborted it is not called again.
SilentAfterAbort ==
    [][aborted /\ requests' = requests => aborted' /\ heard' = heard]_vars

\* Every call of qwen_tts_generate returns: neither thread waits for the
\* other for ever.
Returns == mpc # "idle" ~> mpc = "idle"
=============================================================================
