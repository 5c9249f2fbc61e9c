------------------------------- MODULE Forward -------------------------------
(***************************************************************************)
(* Generation by Talker and code predictor together: prefill, then frame   *)
(* after frame the codes of the code predictor and a step of the Talker,   *)
(* for one sequence (qwen_tts_generate) or for the slots of a batch        *)
(* (qwen_tts_serve_continuous), on the host or with fused steps on a       *)
(* device.  Sequences enter and leave the batch at any time; the caches'   *)
(* and the slots' memory is reused as it was left.                         *)
(* What the prefills of a batch leave in the device's cache for one        *)
(* sequence is not kept here: no slot reads it (but the single-job worker  *)
(* of the batch server does, beside them, and is not in this model).       *)
(***************************************************************************)
EXTENDS CodePredictor

CONSTANTS Token,     \* embeddings of a prompt
          First,     \* what a slot may sample as the first code of a frame
          Modes,     \* how the program runs, see below
          MaxPrompt, \* MAXPROMPT: the longest prompt of a batch
          MaxGen,    \* bound: GEN_CAP, frames of a sequence
          MaxRequests, MaxReady \* bounds: requests; capacity of the helper's queue

\* batch: slots of qwen_tts_serve_continuous, with a prefill helper or not;
\* talker, cp: host, cuda, metal, and for the code predictor of a single
\* sequence frame; prompts: what is asked for.
ASSUME ForwardAssumption ==
    /\ MaxPrompt \in Nat \ {0} /\ MaxGen \in Nat /\ MaxRequests \in Nat /\ MaxReady \in Nat \ {0}
    /\ \A m \in Modes : /\ m.batch \in BOOLEAN /\ m.helper \in BOOLEAN
                        /\ m.talker \in {"host", "cuda", "metal"}
                        /\ m.cp \in {"host", "cuda", "metal", "frame"}
                        /\ m.prompts \subseteq Seq(Token) \ {<< >>}
    /\ BatchKv >= MaxPrompt + MaxGen + 1 /\ DeviceKv >= BatchKv

\* A single sequence that runs on a device fits its cache from the first: the
\* code copies the host's cache to the device with the device's kv_max for
\* both, which is the host's only while that one has not grown.
DeviceFits == \A m \in Modes : ~m.batch /\ m.talker # "host" =>
                  \A p \in m.prompts : Len(p) + MaxGen <= DeviceKv

VARIABLES
    mode, requests,
    host, kvMax, \* kv_cache_k and kv_cache_v, kv_max of the prefill's context
    ready,       \* the helper's queue: prefilled_t
    own,         \* kv_k and kv_v of the batch
    dev,         \* the cache of the device: of the one sequence, or of the batch
    active, pos, \* by slot
    last,        \* last_hidden, by slot
    cpcodes,     \* the codes of the last frame, by slot
    frames,      \* chframes
    fed          \* history: the embeddings of a slot's sequence

forwardVars == <<mode, requests, host, kvMax, ready, own, dev, active, pos, last, cpcodes, frames, fed>>

Memory(n) == [a \in 0 .. n - 1 |-> Junk]

ForwardInit ==
    /\ mode \in Modes /\ requests = 0 /\ ready = << >>
    /\ host = Memory(Layers * DeviceKv) /\ kvMax = DeviceKv
    /\ own = IF mode.batch THEN Memory(B * Layers * BatchKv) ELSE Memory(0)
    /\ dev = IF mode.talker = "host" THEN Memory(0)
             ELSE Memory((IF mode.batch THEN B ELSE 1) * Layers * DeviceKv)
    /\ active = {} /\ pos = [b \in Slot |-> 0] /\ last = [b \in Slot |-> Wrong]
    /\ cpcodes = [b \in Slot |-> << >>] /\ frames = [b \in Slot |-> 0]
    /\ fed = [b \in Slot |-> << >>]

Fused == mode.talker # "host"
-----------------------------------------------------------------------------
(* Prefill                                                                 *)

\* qwen_talker_prefill in the context: its cache grows, loses what was there
\* (kv_len is 0), and is filled.
Prefilled(p) ==
    LET grown == Grow(host, kvMax, 0, Len(p))
    IN TalkerPrefill(grown, KvMaxFor(kvMax, Len(p)), p)

InContext(p) == host' = Prefilled(p).kv /\ kvMax' = KvMaxFor(kvMax, Len(p))

Ask(p) == p \in mode.prompts /\ requests < MaxRequests /\ requests' = requests + 1

\* Slot b starts with a prompt whose last position has a hidden state.
Seat(b, p, hidden) ==
    /\ active' = active \cup {b} /\ pos' = [pos EXCEPT ![b] = Len(p)]
    /\ last' = [last EXCEPT ![b] = hidden]
    /\ frames' = [frames EXCEPT ![b] = 0] /\ fed' = [fed EXCEPT ![b] = p]
    /\ UNCHANGED <<mode, cpcodes>>

\* qwen_tts_generate, of a single sequence: a fused step finds the prompt on
\* the device.
Start(p) ==
    /\ ~mode.batch /\ active = {} /\ Ask(p)
    /\ InContext(p)
    /\ dev' = IF Fused THEN UploadKv(dev, Prefilled(p).kv, Len(p)) ELSE dev
    /\ Seat(0, p, Prefilled(p).hidden)
    /\ UNCHANGED <<ready, own>>

\* The helper prefills in its clone and queues a snapshot; it does not queue
\* what is too long.
Help(p) ==
    /\ mode.batch /\ mode.helper /\ Len(ready) < MaxReady /\ Ask(p)
    /\ InContext(p)
    /\ ready' = IF Len(p) > MaxPrompt THEN ready
                ELSE Append(ready, [prompt |-> p, hidden |-> Prefilled(p).hidden,
                                    kv |-> Snapshot(Prefilled(p).kv, KvMaxFor(kvMax, Len(p)), Len(p))])
    /\ UNCHANGED <<mode, own, dev, active, pos, last, cpcodes, frames, fed>>

\* A slot's cache is filled from layers that are stride apart, and the
\* device's share of it uploaded.
Fill(b, from, stride, p) ==
    /\ own' = FillSlot(own, b, from, stride, Len(p))
    /\ dev' = IF Fused THEN UploadSlot(dev, b, own', Len(p)) ELSE dev

\* The scheduler admits what the helper has ready ...
Admit(b) ==
    /\ mode.batch /\ b \notin active /\ ready # << >>
    /\ LET r == Head(ready) IN Fill(b, r.kv, Len(r.prompt), r.prompt) /\ Seat(b, r.prompt, r.hidden)
    /\ ready' = Tail(ready)
    /\ UNCHANGED <<requests, host, kvMax>>

\* ... or prefills itself, in its own context.
AdmitInline(b, p) ==
    /\ mode.batch /\ ~mode.helper /\ b \notin active /\ Ask(p)
    /\ InContext(p)
    /\ IF Len(p) > MaxPrompt
       THEN UNCHANGED <<mode, own, dev, active, pos, last, cpcodes, frames, fed>>
       ELSE /\ Fill(b, Prefilled(p).kv, KvMaxFor(kvMax, Len(p)), p)
            /\ Seat(b, p, Prefilled(p).hidden)
    /\ UNCHANGED ready
-----------------------------------------------------------------------------
(* A frame                                                                 *)

\* What runs the code predictor: qwen_cp_predict, qwen_batch_cp_predict.
CpRuns == IF mode.batch THEN IF mode.cp = "host" THEN "batch" ELSE "device_batch"
          ELSE IF mode.cp \in {"host", "frame"} THEN mode.cp ELSE "device"
PredictCodes(first) == Predict(CpRuns, IF mode.batch THEN B ELSE 1, last, first)

\* What runs the Talker, over its cache: qwen_talker_step or
\* qwen_batch_talker_step_ragged.
Step(act, embeds) ==
    IF mode.batch
    THEN CASE mode.talker = "host" -> BatchTalkerStep(own, pos, act, embeds)
           [] mode.talker = "cuda" -> CudaTalkerBatchStep(dev, pos, embeds)
           [] OTHER                -> MetalTalkerBatchStep(dev, pos, embeds)
    ELSE CASE mode.talker = "host" -> TalkerStep(Grow(host, kvMax, pos[0], pos[0] + 1),
                                                 KvMaxFor(kvMax, pos[0] + 1), pos, embeds)
           [] mode.talker = "cuda" -> CudaTalkerStep(dev, pos, embeds)
           [] OTHER                -> MetalTalkerStep(dev, pos, embeds)

\* The embedding of a frame is that of its first code if all codes are right.
FrameEmbedding(b, first, codes) == IF codes = Codes(fed[b], first) THEN first ELSE "?"

\* One frame: each active slot ends (EOS, or its frames or its cache are used
\* up) or has a first code; inactive rows are computed with code 0, nothing
\* and wherever they were left, and ignored.
Frame(going, first) ==
    LET rows == IF mode.batch THEN Slot ELSE {0}
        codes == PredictCodes([b \in rows |-> IF b \in going THEN first[b] ELSE "0"])
        embeds == [b \in rows |-> IF b \in going THEN FrameEmbedding(b, first[b], codes[b]) ELSE ""]
        out == Step(going, embeds)
    IN /\ cpcodes' = [b \in Slot |-> IF b \in going THEN codes[b] ELSE cpcodes[b]]
       /\ fed' = [b \in Slot |-> IF b \in going THEN Append(fed[b], first[b]) ELSE fed[b]]
       /\ last' = [b \in Slot |-> IF b \in rows THEN out.hidden[b] ELSE last[b]]
       /\ pos' = [b \in Slot |-> IF b \in going THEN pos[b] + 1 ELSE pos[b]]
       /\ frames' = [b \in Slot |-> IF b \in going THEN frames[b] + 1 ELSE frames[b]]
       /\ own' = IF mode.batch /\ ~Fused THEN out.kv ELSE own
       /\ dev' = IF Fused THEN out.kv ELSE dev
       /\ IF mode.batch \/ Fused THEN UNCHANGED <<host, kvMax>>
          ELSE host' = out.kv /\ kvMax' = KvMaxFor(kvMax, pos[0] + 1)

UsedUp(b) == frames[b] >= MaxGen \/ (mode.batch /\ pos[b] >= BatchKv - 1)

Generate ==
    /\ active # {}
    /\ \E going \in SUBSET {b \in active : ~UsedUp(b)} :
        /\ active' = going
        /\ IF going = {}
           THEN UNCHANGED <<host, kvMax, own, dev, pos, last, cpcodes, frames, fed>>
           ELSE \E first \in [going -> First] : Frame(going, first)
    /\ UNCHANGED <<mode, requests, ready>>

ForwardNext == \/ \E p \in mode.prompts : Start(p) \/ Help(p)
               \/ \E b \in Slot : Admit(b) \/ \E p \in mode.prompts : AdmitInline(b, p)
               \/ Generate

ForwardSpec == ForwardInit /\ [][ForwardNext]_forwardVars
-----------------------------------------------------------------------------
(* Properties                                                              *)

\* A slot goes on from the hidden state of exactly the embeddings it was fed,
\* whoever shares the batch, whatever its memory held before and wherever
\* its steps run: batched and fused generation is that of one sequence alone.
HiddenRight == \A b \in active : last[b] = Hidden(Layers, fed[b])

\* Where the next step of the Talker looks for a position.
CacheAt(b, layer, p) ==
    IF mode.batch
    THEN IF Fused THEN dev[(layer * B + b) * DeviceKv + p]
         ELSE own[(b * Layers + layer) * BatchKv + p]
    ELSE IF Fused THEN dev[layer * DeviceKv + p] ELSE host[layer * kvMax + p]

\* The cache of an active slot holds, at every layer, every position of its
\* own sequence and of no other: prefill, snapshot, copy, upload and growth
\* agree with the step on where a position is.
CacheRight ==
    \A b \in active, layer \in 0 .. Layers - 1 : \A p \in 0 .. pos[b] - 1 :
        CacheAt(b, layer, p) = Cached(layer, Prefix(fed[b], p + 1))

\* What a sequence goes on from is its own.
SequenceRight == HiddenRight /\ CacheRight

\* The codes of a frame are those of the slot's own hidden state and first
\* code, each predicted by its own head from the codes before it.
CodesRight ==
    \A b \in active :
        frames[b] > 0 => cpcodes[b] = Codes(Prefix(fed[b], Len(fed[b]) - 1), Last(fed[b]))
=============================================================================
