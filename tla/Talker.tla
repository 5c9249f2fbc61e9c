------------------------------- MODULE Talker -------------------------------
(***************************************************************************)
(* The Talker's forward pass: qwen_talker_prefill, qwen_talker_step and    *)
(* its batched and fused variants, each with its own order of kernels and  *)
(* its own layout of the KV cache.                                         *)
(***************************************************************************)
EXTENDS Transformer

CONSTANTS Layers,     \* num_layers
          B,          \* slots of a batch
          BatchKv,    \* kv_max of qwen_batch_t
          DeviceKv    \* kv_max of a device cache: that of a fresh context

ASSUME TalkerAssumption ==
    /\ Layers \in Nat \ {0} /\ B \in Nat \ {0}
    /\ BatchKv \in Nat \ {0} /\ DeviceKv \in Nat \ {0}

Slot == 0 .. B - 1

\* Where a step's rows and layers are in its cache.
HostEnv(kvMax, pos) ==
    [rows |-> 1, L |-> Layers, pos |-> pos, on |-> {0}, slot |-> 0, layer |-> kvMax]
BatchEnv(pos, active) ==
    [rows |-> B, L |-> Layers, pos |-> pos, on |-> active,
     slot |-> Layers * BatchKv, layer |-> BatchKv]
DeviceEnv(pos) ==
    [rows |-> 1, L |-> Layers, pos |-> pos, on |-> {0}, slot |-> 0, layer |-> DeviceKv]
DeviceBatchEnv(pos) ==
    [rows |-> B, L |-> Layers, pos |-> pos, on |-> Slot,
     slot |-> DeviceKv, layer |-> B * DeviceKv]
-----------------------------------------------------------------------------
(* The order of the kernels in a layer                                     *)

Qkv == << <<"wq", "xn", "q">>, <<"wk", "xn", "k">>, <<"wv", "xn", "v">> >>
NormRope == << <<"head_norm", "q_norm", "q">>, <<"head_norm", "k_norm", "k">>,
               <<"rope", "q">>, <<"rope", "k">> >>

\* Mutant: down reads the gate rows as if they were compact.
HostLayerCompact ==
    << <<"input_norm", "x", "xn">> >> \o Qkv \o NormRope
    \o << <<"store">>, <<"attend">>, <<"wo", "attn", "proj">>,
          <<"add", "proj">>, <<"post_norm", "x", "xn">>,
          <<"fill_gate">>, <<"swiglu_rows">>, <<"down_rows", "proj", 1>>,
          <<"add", "proj">>, <<"next_norm">> >>

\* qwen_talker_step, and batch_talker_step_impl, which runs each kernel over
\* the batch.
HostLayer ==
    << <<"input_norm", "x", "xn">> >> \o Qkv \o NormRope
    \o << <<"store">>, <<"attend">>, <<"wo", "attn", "proj">>,
          <<"add", "proj">>, <<"post_norm", "x", "xn">>,
          <<"fill_gate">>, <<"swiglu_rows">>, <<"down_rows", "proj", 2>>,
          <<"add", "proj">>, <<"next_norm">> >>

\* qwen_talker_prefill: every position at once, attention over what was just
\* computed, the gate rows made compact.
PrefillLayer ==
    << <<"input_norm", "x", "xn">> >> \o Qkv \o NormRope
    \o << <<"store">>, <<"attend_rows">>, <<"wo", "attn", "proj">>,
          <<"add", "proj">>, <<"post_norm", "x", "xn">>,
          <<"fill_gate">>, <<"swiglu_compact">>, <<"down_rows", "proj", 1>>,
          <<"add", "proj">> >>

\* The end of a device layer: SwiGLU goes to a buffer of its own.
DeviceTail ==
    << <<"store">>, <<"attend">>, <<"wo", "attn", "proj">>,
       <<"add", "proj">>, <<"post_norm", "x", "xn">>, <<"gate_up", "xn", "gu">>,
       <<"swiglu", "gu", "act">>, <<"down", "act", "proj">>, <<"add", "proj">> >>

\* talker_body and talker_body_batch
CudaLayer == << <<"input_norm", "x", "xn">> >> \o Qkv \o NormRope \o DeviceTail

\* enc_talker_batch_body
MetalBatchLayer == << <<"input_norm", "x", "xn">> >> \o Qkv \o NormRope \o DeviceTail

\* qwen_metal_talker_step, its norms fused with the rotation
MetalLayer ==
    << <<"input_norm", "x", "xn">> >> \o Qkv
    \o << <<"head_norm", "q_norm", "q">>, <<"rope", "q">>,
          <<"head_norm", "k_norm", "k">>, <<"rope", "k">> >> \o DeviceTail
-----------------------------------------------------------------------------
(* The passes: embeddings in, a cache and normed hidden states out         *)

Pass(e, program, kv, embeds) ==
    LET m == Run(e, program, Buffers(e, [r \in DOMAIN embeds |-> Embedded(embeds[r])], kv))
    IN [kv |-> m.kv, hidden |-> Finish(e, m.x)]

TalkerStep(kv, kvMax, pos, embeds) == Pass(HostEnv(kvMax, pos), HostLayer, kv, embeds)
BatchTalkerStep(kv, pos, active, embeds) == Pass(BatchEnv(pos, active), HostLayer, kv, embeds)
CudaTalkerStep(kv, pos, embeds) == Pass(DeviceEnv(pos), CudaLayer, kv, embeds)
CudaTalkerBatchStep(kv, pos, embeds) == Pass(DeviceBatchEnv(pos), CudaLayer, kv, embeds)
MetalTalkerStep(kv, pos, embeds) == Pass(DeviceEnv(pos), MetalLayer, kv, embeds)
MetalTalkerBatchStep(kv, pos, embeds) == Pass(DeviceBatchEnv(pos), MetalBatchLayer, kv, embeds)

\* The whole prompt; dec_x, of its last position, is normed by the caller.
TalkerPrefill(kv, kvMax, prompt) ==
    LET n == Len(prompt)
        e == [rows |-> n, L |-> Layers, pos |-> [r \in 0 .. n - 1 |-> r],
              on |-> 0 .. n - 1, slot |-> 0, layer |-> kvMax]
        out == Pass(e, PrefillLayer, kv, [r \in 0 .. n - 1 |-> prompt[r + 1]])
    IN [kv |-> out.kv, hidden |-> out.hidden[n - 1]]
-----------------------------------------------------------------------------
(* Moving a cache                                                          *)

\* kv_cache_grow: kv_max doubles until n positions fit ...
KvMaxFor(kvMax, n) ==
    LET doubled[k \in 0 .. n] == IF k = 0 THEN kvMax ELSE 2 * doubled[k - 1]
    IN doubled[CHOOSE k \in 0 .. n : doubled[k] >= n /\ \A j \in 0 .. k - 1 : doubled[j] < n]

\* ... and each layer's first kv_len positions move to the new stride.
Grow(kv, kvMax, kvLen, n) ==
    LET new == KvMaxFor(kvMax, n)
    IN [a \in 0 .. Layers * new - 1 |->
           IF new = kvMax THEN kv[a]
           ELSE IF a % new < kvLen THEN kv[((a \div new) * kvMax) + (a % new)] ELSE Junk]

\* Where layer l starts in a cache whose layers, from its base on, are a
\* stride apart.
At(base, stride) == [l \in 0 .. Layers - 1 |-> base + l * stride]

\* Copies, for every layer l, the first n positions of from, where layer l
\* starts at src[l], to dst[l].
CopyLayers(to, dst, from, src, n) ==
    [a \in DOMAIN to |->
        IF \E l \in DOMAIN dst : a \in dst[l] .. dst[l] + n - 1
        THEN LET l == CHOOSE l \in DOMAIN dst :
                          /\ a \in dst[l] .. dst[l] + n - 1
                          /\ \A k \in l + 1 .. Layers - 1 : a \notin dst[k] .. dst[k] + n - 1
                 s == src[l] + a - dst[l]
             IN IF s \in DOMAIN from THEN from[s] ELSE Junk
        ELSE to[a]]

\* What the prefill helper keeps of a context's cache: pl positions a layer.
Snapshot(kv, kvMax, pl) ==
    CopyLayers([a \in 0 .. Layers * pl - 1 |-> Junk], At(0, pl), kv, At(0, kvMax), pl)

\* Slot b of the batch's cache, and of the device's.
SlotAt(b) == At(b * Layers * BatchKv, BatchKv)
DeviceSlotAt(b) == At(b * DeviceKv, B * DeviceKv)

\* Into slot b of the batch's cache, from a snapshot or a context's cache
\* (whose layers are stride apart).
FillSlot(kv, b, from, stride, pl) == CopyLayers(kv, SlotAt(b), from, At(0, stride), pl)

\* qwen_*_talker_batch_upload_slot: slot b of the batch's cache to the device.
UploadSlot(dev, b, kv, pl) == CopyLayers(dev, DeviceSlotAt(b), kv, SlotAt(b), pl)

\* qwen_*_talker_upload_kv: a context's cache to the single-stream device,
\* with the device's kv_max on both sides.
UploadKv(dev, kv, pl) == CopyLayers(dev, At(0, DeviceKv), kv, At(0, DeviceKv), pl)
=============================================================================
