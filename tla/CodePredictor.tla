---------------------------- MODULE CodePredictor ----------------------------
(***************************************************************************)
(* The code predictor: from the Talker's hidden state and the first code   *)
(* of a frame, the codes of the other codebooks, one pass of a small       *)
(* transformer each.  On the host for one sequence (qwen_cp_predict) or a  *)
(* batch (qwen_batch_cp_predict), with its layers on a device, or the      *)
(* whole frame on a device (qwen_metal_cp_frame).                          *)
(***************************************************************************)
EXTENDS Talker

CONSTANTS CpLayers,   \* cp_num_layers
          Groups      \* codebooks to predict: 15

ASSUME CpAssumption == CpLayers \in Nat \ {0} /\ Groups \in Nat \ {0}

\* Its KV caches have 64 positions for Groups + 1 passes; here just enough.
CpKv == Groups + 1

\* Code g of the frame that follows a sequence of the Talker and starts with
\* code first.  Group 0 is first itself; -1 is not a code, but the hidden
\* state of that sequence.
Code(g, fed, first) == [group |-> g, fed |-> IF g = 0 THEN << >> ELSE fed, first |-> first]
BadCode == [group |-> -2, fed |-> << >>, first |-> ""]
HiddenInput(v) == IF v = Hidden(Layers, v.seq) THEN [group |-> -1, fed |-> v.seq, first |-> ""]
                  ELSE BadCode

\* The codes of a frame, and the inputs of the passes up to head h.
Codes(fed, first) == [g \in 1 .. Groups |-> Code(g, fed, first)]
PassInputs(fed, first, h) ==
    << [group |-> -1, fed |-> fed, first |-> ""] >>
    \o [i \in 1 .. h + 1 |-> Code(i - 1, fed, first)]

\* The row of a code in an embedding table: 0 is the Talker's own,
\* g > 0 is cp_codec_emb[g - 1].
Lookup(table, code) == IF code.group = table THEN code ELSE BadCode

\* lm_head[h]: the most likely code h + 1, after the inputs so far.
LmHead(h, v) ==
    IF /\ v.at = "hid" /\ v.layer = CpLayers /\ Len(v.seq) = h + 2
       /\ v.seq = PassInputs(v.seq[1].fed, v.seq[2].first, h)
    THEN Code(h + 1, v.seq[1].fed, v.seq[2].first) ELSE BadCode
-----------------------------------------------------------------------------
(* One pass                                                                *)

CpHostEnv(pos) == [rows |-> 1, L |-> CpLayers, pos |-> pos, on |-> {0}, slot |-> 0, layer |-> CpKv]
CpBatchEnv(pos) == [rows |-> B, L |-> CpLayers, pos |-> pos, on |-> Slot,
                    slot |-> CpLayers * CpKv, layer |-> CpKv]
CpDeviceBatchEnv(pos) == [rows |-> B, L |-> CpLayers, pos |-> pos, on |-> Slot,
                          slot |-> CpKv, layer |-> B * CpKv]

\* Mutant: no norm for the next layer.
CpLayerStale ==
    Qkv \o NormRope
    \o << <<"store">>, <<"attend">>, <<"wo", "attn", "xn">>, <<"add", "xn">>,
          <<"post_norm", "x", "xn">>, <<"fill_gate">>, <<"swiglu_rows">>,
          <<"down_rows", "xn", 2>>, <<"add", "xn">> >>

\* cp_layer_body: x_norm and proj are one buffer, cp_dec_ffn_out.
CpLayer ==
    Qkv \o NormRope
    \o << <<"store">>, <<"attend">>, <<"wo", "attn", "xn">>, <<"add", "xn">>,
          <<"post_norm", "x", "xn">>, <<"fill_gate">>, <<"swiglu_rows">>,
          <<"down_rows", "xn", 2>>, <<"add", "xn">>, <<"next_norm">> >>

\* batch_cp_layer
BatchCpLayer ==
    Qkv \o NormRope
    \o << <<"store">>, <<"attend">>, <<"wo", "attn", "proj">>, <<"add", "proj">>,
          <<"post_norm", "x", "xn">>, <<"fill_gate">>, <<"swiglu_rows">>,
          <<"down_rows", "proj", 2>>, <<"add", "proj">>, <<"next_norm">> >>

\* cp_body, cp_body_batch, enc_cp_batch_body and the body of
\* qwen_metal_cp_step
DeviceCpLayer == << <<"input_norm", "x", "xn">> >> \o Qkv \o NormRope \o DeviceTail

\* enc_cp_layers
FrameCpLayer == MetalLayer

\* The host norms the input once, before the first layer.
FirstNorm(e, m) == Exec(e, 0, m, <<"input_norm", "x", "xn">>)

\* What runs the passes, by where: on the host or fused on a device, for one
\* row or a batch, or frame, all passes of one row at once on a device.
CpEnv(where, pos) ==
    CASE where = "batch"        -> CpBatchEnv(pos)
      [] where = "device_batch" -> CpDeviceBatchEnv(pos)
      [] OTHER                  -> CpHostEnv(pos)
CpProgram(where) ==
    CASE where = "host"  -> CpLayer
      [] where = "batch" -> BatchCpLayer
      [] where = "frame" -> FrameCpLayer
      [] OTHER           -> DeviceCpLayer

\* cp_transformer_step, batch_cp_transformer_step and what they call.
CpStep(where, kv, pos, inputs) ==
    LET e == CpEnv(where, pos)
        m == Buffers(e, inputs, kv)
    IN Run(e, CpProgram(where), IF where \in {"host", "batch"} THEN FirstNorm(e, m) ELSE m)
-----------------------------------------------------------------------------
(* A frame                                                                 *)

\* The input of pass p of a row: the hidden state, the first code by the
\* Talker's embedding, then the code predicted last.
PassInput(p, hidden, first, codes) ==
    IF p = 0 THEN HiddenInput(hidden)
    ELSE IF p = 1 THEN Lookup(0, Code(0, << >>, first))
    ELSE Lookup(p - 1, codes[p - 1])

\* Pass p over rows of hidden states and first codes, from cache and codes s;
\* each but the first is followed by a norm and a head.
CpPass(where, rows, hidden, first, s, p) ==
    LET inputs == [r \in 0 .. rows - 1 |->
                      Embedded(PassInput(p, hidden[r], first[r], s.codes[r]))]
        heads(m) ==
            LET normed == Finish([L |-> CpLayers], m.x)
            IN [kv |-> m.kv,
                codes |-> [r \in 0 .. rows - 1 |->
                              IF p = 0 THEN << >>
                              ELSE Append(s.codes[r], LmHead(p - 1, normed[r]))]]
    IN After(CpStep(where, s.kv, [r \in 0 .. rows - 1 |-> p], inputs), heads)

\* All passes of a frame.  What an earlier frame left in the cache is Junk.
Predict(where, rows, hidden, first) ==
    LET start == [kv |-> [a \in 0 .. rows * CpLayers * CpKv - 1 |-> Junk],
                  codes |-> [r \in 0 .. rows - 1 |-> << >>]]
        passes[p \in 0 .. Groups + 1] ==
            IF p = 0 THEN start
            ELSE After(passes[p - 1], LAMBDA s : CpPass(where, rows, hidden, first, s, p - 1))
    IN passes[Groups + 1].codes
=============================================================================
