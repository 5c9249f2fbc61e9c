---------------------------- MODULE TalkerCache ----------------------------
(***************************************************************************)
(* The KV cache of the Talker across the requests of one context: delta    *)
(* prefill in qwen_tts_generate, which keeps the positions that the new    *)
(* prompt shares with the last one, and qwen_talker_step and               *)
(* qwen_talker_prefill, which fill the cache on the host, or, for the      *)
(* fused GPU step, on the device.                                          *)
(*                                                                         *)
(* What the Talker computes at a position depends on every embedding up to *)
(* it: an entry of a cache, and a hidden state, is the sequence it was     *)
(* computed from.                                                          *)
(***************************************************************************)
EXTENDS Integers, Sequences

CONSTANTS Token,       \* embeddings
          MaxPrompt, MaxGen, \* bounds: length of a prompt, generated frames
          MaxRequests, \* bound: calls of qwen_tts_generate
          KvStart,     \* kv_max of a fresh context
          Modes        \* what a context may run as:
                       \* fused: g_cuda_talker_state or g_metal_talker_state is set
                       \* cold: the caller sets prev_prefill_len = 0 every time
                       \* steer: frames of ml_steer, 0 without steering
                       \* fails: an allocation may fail

ASSUME CacheAssumption ==
    /\ MaxPrompt \in Nat \ {0} /\ MaxGen \in Nat /\ MaxRequests \in Nat
    /\ KvStart \in Nat \ {0}
    /\ Modes \subseteq [fused : BOOLEAN, cold : BOOLEAN, steer : Nat, fails : BOOLEAN]

VARIABLES
    mode, pc, requests,
    prompt,      \* input_embeds
    fed,         \* history: the embeddings of this sequence so far
    prev,        \* prev_input_embeds[0 .. prev_prefill_len - 1]
    host, kvMax, \* kv_cache_k and kv_cache_v, kv_max
    device,      \* the cache of the fused step
    kvLen,       \* kv_len
    decX,        \* dec_x: what the host computed last
    last,        \* last_hidden
    deltaStart,  \* delta_start
    frame,
    troubled     \* history: a request has failed

reqVars == <<requests, prompt, prev, deltaStart, frame>>
cacheVars == <<mode, pc, reqVars, fed, host, kvMax, device, kvLen, decX, last, troubled>>

Position == 0 .. MaxPrompt + MaxGen - 1
Nothing == << >>
Prompt == UNION {[1 .. n -> Token] : n \in 1 .. MaxPrompt}
Prefix(s, n) == SubSeq(s, 1, n)

CacheInit ==
    /\ mode \in Modes /\ troubled = FALSE
    /\ pc = "idle" /\ requests = 0
    /\ prompt = << >> /\ fed = << >> /\ prev = << >> /\ deltaStart = 0
    /\ host = [p \in Position |-> Nothing] /\ kvMax = KvStart
    /\ device = [p \in Position |-> Nothing]
    /\ kvLen = 0 /\ decX = Nothing /\ last = Nothing /\ frame = 0
-----------------------------------------------------------------------------
\* Mutant: equal embeddings count wherever the prompts differ before.
CommonAnywhere(s, t) ==
    LET n == IF Len(s) < Len(t) THEN Len(s) ELSE Len(t)
    IN CHOOSE k \in 0 .. n : /\ k > 0 => s[k] = t[k]
                             /\ \A m \in k + 1 .. n : s[m] # t[m]

\* The length of the longest common prefix.
Common(s, t) ==
    LET n == IF Len(s) < Len(t) THEN Len(s) ELSE Len(t)
    IN CHOOSE k \in 0 .. n : /\ Prefix(s, k) = Prefix(t, k)
                             /\ k < n => s[k + 1] # t[k + 1]

\* delta_start; a full match is prefilled afresh, dec_x is needed.
DeltaStart(p) == LET k == Common(p, prev) IN IF k = Len(p) THEN 0 ELSE k

\* qwen_tts_generate up to the prefill, of a prompt.
Request(p) ==
    /\ pc = "idle" /\ requests < MaxRequests
    /\ requests' = requests + 1
    /\ prompt' = p /\ frame' = 0
    /\ LET start == IF mode.cold THEN 0 ELSE DeltaStart(p)
       IN /\ kvLen' = start /\ deltaStart' = start
          /\ fed' = Prefix(p, start)
          /\ pc' = IF start > 0 THEN "delta" ELSE "full"
    /\ UNCHANGED <<mode, prev, host, kvMax, device, decX, last, troubled>>

\* kv_cache_grow doubles kv_max until n positions fit: the one size that is
\* kv_max or a double of it and less than twice what is needed ...
Grow(n) == IF n <= kvMax THEN {kvMax}
           ELSE {m \in n .. 2 * n - 1 : \E k \in 1 .. n : m = kvMax * 2 ^ k}

\* ... and copies kv_len of them.
Grown(n) == IF n <= kvMax THEN host
            ELSE [p \in Position |-> IF p < kvLen THEN host[p] ELSE Nothing]

\* What a step at position kv_len computes for embedding e over a cache.
Entry(cache, e) == IF kvLen = 0 THEN <<e>> ELSE Append(cache[kvLen - 1], e)

\* qwen_talker_step: on the device, unless this frame is steered, or on the
\* host.  It leaves the other cache alone, and the device dec_x too.
OnDevice(steered) == mode.fused /\ ~steered

Step(e, steered) ==
    IF OnDevice(steered)
    THEN /\ device' = [device EXCEPT ![kvLen] = Entry(device, e)]
         /\ UNCHANGED <<host, kvMax, decX>>
    ELSE /\ host' = [Grown(kvLen + 1) EXCEPT ![kvLen] = Entry(host, e)]
         /\ kvMax' \in Grow(kvLen + 1)
         /\ decX' = Entry(host, e)
         /\ UNCHANGED device

StepFails(steered) == mode.fails /\ ~OnDevice(steered) /\ kvLen + 1 > kvMax

\* The request ends.
Abandon ==
    /\ pc' = "idle"
    /\ UNCHANGED <<mode, reqVars, fed, host, kvMax, device, kvLen, decX, last>>

\* The sequential prefill of what is new in the prompt.
DeltaStep ==
    /\ pc = "delta" /\ kvLen < Len(prompt)
    /\ LET e == prompt[kvLen + 1]
       IN \/ /\ Step(e, FALSE)
             /\ kvLen' = kvLen + 1 /\ fed' = Append(fed, e)
             /\ UNCHANGED <<mode, pc, reqVars, last, troubled>>
          \/ StepFails(FALSE) /\ Abandon /\ troubled' = TRUE

\* qwen_talker_prefill of the whole prompt, always on the host.
Full ==
    /\ pc = "full"
    /\ host' = [p \in Position |->
                    IF p < Len(prompt) THEN Prefix(prompt, p + 1) ELSE Grown(Len(prompt))[p]]
    /\ kvMax' \in Grow(Len(prompt))
    /\ kvLen' = Len(prompt) /\ fed' = prompt
    /\ decX' = prompt
    /\ pc' = "delta"
    /\ UNCHANGED <<mode, reqVars, device, last, troubled>>

\* It fails: the cache does not grow, or it has grown (and lost what kv_len,
\* now 0, does not cover) and a work buffer is missing.
FullFails ==
    /\ pc = "full" /\ mode.fails
    /\ \/ Len(prompt) > kvMax /\ UNCHANGED <<host, kvMax>>
       \/ host' = Grown(Len(prompt)) /\ kvMax' \in Grow(Len(prompt))
    /\ pc' = "idle" /\ troubled' = TRUE
    /\ UNCHANGED <<mode, reqVars, fed, device, kvLen, decX, last>>

\* After the prefill: the host cache goes to the device, the prompt becomes
\* prev_input_embeds, dec_x seeds the generation.
Prefilled ==
    /\ pc = "delta" /\ kvLen = Len(prompt)
    /\ device' = [p \in Position |-> IF mode.fused /\ p < kvLen THEN host[p] ELSE device[p]]
    /\ prev' = prompt /\ last' = decX
    /\ pc' = "gen"
    /\ UNCHANGED <<mode, requests, prompt, deltaStart, frame, fed, host, kvMax,
                   kvLen, decX, troubled>>

\* One generated frame, steered for the first mode.steer of them; the
\* sampled codes can be anything.
Steered == frame < mode.steer
Generate ==
    /\ pc = "gen" /\ frame < MaxGen
    /\ \E e \in Token :
          /\ Step(e, Steered)
          /\ kvLen' = kvLen + 1 /\ fed' = Append(fed, e)
          /\ last' = Entry(IF OnDevice(Steered) THEN device ELSE host, e)
    /\ frame' = frame + 1
    /\ UNCHANGED <<mode, pc, requests, prompt, prev, deltaStart, troubled>>

\* EOS, the frame limit, an abort, or a step that fails, which leaves what is
\* needed of the caches as it was.
End == pc = "gen" /\ Abandon /\ UNCHANGED troubled

CacheNext == \/ \E p \in Prompt : Request(p)
             \/ DeltaStep \/ Full \/ FullFails \/ Prefilled \/ Generate \/ End

CacheSpec == CacheInit /\ [][CacheNext]_cacheVars
-----------------------------------------------------------------------------
(* Properties                                                              *)

\* The next step reads, at every position before its own, what this sequence
\* computed there.
ReadsOwn ==
    LET cache == IF OnDevice(pc = "gen" /\ Steered) THEN device ELSE host
        steps == \/ pc = "delta" /\ kvLen < Len(prompt)
                 \/ pc = "gen" /\ frame < MaxGen
    IN steps => \A p \in 0 .. kvLen - 1 : cache[p] = Prefix(fed, p + 1)

\* As long as no request has failed a step finds no entry of an earlier
\* request, of another branch, of a buffer that was never filled; after a
\* failure that still holds of a request that is prefilled afresh.
Coherent == ~troubled \/ deltaStart = 0 => ReadsOwn

\* Generation starts from, and goes on with, the hidden state of exactly the
\* sequence fed so far: a request is "bit-identical to a cold run".
Seeded ==
    (~troubled \/ deltaStart = 0) /\ pc = "gen" =>
        last = fed /\ Prefix(fed, Len(prompt)) = prompt

\* What the next request may reuse is there: the host cache holds the
\* positions of prev_input_embeds, and they are within its bounds.
PrefixKept ==
    pc = "idle" /\ ~troubled =>
        /\ Len(prev) <= kvMax
        /\ \A p \in 0 .. Len(prev) - 1 : host[p] = Prefix(prev, p + 1)

\* A request reads and goes on from its own sequence alone, and leaves behind
\* what the next may take for its prefix.
CacheRight == Coherent /\ Seeded /\ PrefixKept
=============================================================================
