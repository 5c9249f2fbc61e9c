----------------------------- MODULE Transformer -----------------------------
(***************************************************************************)
(* The layers of the Talker and of the code predictor as programs over     *)
(* symbolic values: which kernel reads which buffer, in which order, and   *)
(* where a position's keys and values go in a flat cache.                  *)
(*                                                                         *)
(* A value says what it was computed from.  Below the first attention that *)
(* is one embedding; the attention of layer 0 makes it the embeddings of   *)
(* every position so far.  A kernel that is given anything but its proper  *)
(* argument yields Wrong.  Numbers, weights, heads and precisions are      *)
(* abstracted, so bf16 and f32 copies of a value are equal.                *)
(***************************************************************************)
EXTENDS Integers, Sequences, SequencesExt

\* at: the point of the layer; pos: the position it is rotated to, or -1.
Value(at, layer, seq, pos) == [at |-> at, layer |-> layer, seq |-> seq, pos |-> pos]
Wrong == Value("wrong", 0, << >>, -1)
Embedded(e) == Value("x", 0, <<e>>, -1)

Prefix(s, n) == SubSeq(s, 1, n)
Own(layer, s) == IF layer = 0 THEN <<Last(s)>> ELSE s

\* What the cache must hold of the last position of s, and the hidden state
\* after it.
Cached(layer, s) == [k |-> Value("kr", layer, Own(layer, s), Len(s) - 1),
                     v |-> Value("v", layer, Own(layer, s), -1)]
Hidden(L, s) == Value("hid", L, s, -1)
Junk == [k |-> Wrong, v |-> Wrong]

\* What each kernel takes and gives.
Kernel == [input_norm |-> <<"x", "xn">>,
           wq |-> <<"xn", "q">>, wk |-> <<"xn", "k">>, wv |-> <<"xn", "v">>,
           q_norm |-> <<"q", "qn">>, k_norm |-> <<"k", "kn">>,
           wo |-> <<"attn", "o">>, post_norm |-> <<"y", "yn">>,
           gate_up |-> <<"yn", "gu">>, swiglu |-> <<"gu", "act">>,
           down |-> <<"act", "ffn">>, final_norm |-> <<"x", "hid">>]

\* A kernel with the weights of a layer.
Apply(name, layer, v) ==
    IF v.at = Kernel[name][1] /\ v.layer = layer
    THEN [v EXCEPT !.at = Kernel[name][2]] ELSE Wrong

\* The residual stream: x + attention, then that + FFN, the next layer's x.
Add(x, o) ==
    LET same == o.layer = x.layer /\ o.seq # << >>
    IN IF x.at = "x" /\ o.at = "o" /\ same /\ x.seq = Own(x.layer, o.seq)
       THEN Value("y", x.layer, o.seq, -1)
       ELSE IF x.at = "y" /\ o.at = "ffn" /\ same /\ x.seq = o.seq
       THEN Value("x", x.layer + 1, x.seq, -1) ELSE Wrong

Rope(v, pos) ==
    IF v.at = "qn" THEN [v EXCEPT !.at = "qr", !.pos = pos]
    ELSE IF v.at = "kn" THEN [v EXCEPT !.at = "kr", !.pos = pos] ELSE Wrong

\* Causal attention of query q over the first n positions of kv.
Attend(q, kv, n) ==
    LET s == [j \in 1 .. n |-> Last(kv[j - 1].k.seq)]
    IN IF /\ q.at = "qr" /\ \A j \in 0 .. n - 1 : kv[j].k.at = "kr"
          /\ q = Value("qr", q.layer, Own(q.layer, s), n - 1)
          /\ \A j \in 0 .. n - 1 : kv[j] = Cached(q.layer, Prefix(s, j + 1))
       THEN Value("attn", q.layer, s, -1) ELSE Wrong
-----------------------------------------------------------------------------
(* Running a program                                                       *)

\* A step works on rows: the sequences of a batch, or the positions of a
\* prefill.  It has L layers, rows' positions, the rows that are active, and
\* the strides of its cache.
Address(e, r, layer, p) == r * e.slot + layer * e.layer + p

\* The buffers of a step, of rows x.  gate is one array of half rows, two for
\* each row.
Buffers(e, x, kv) ==
    LET none == [r \in 0 .. e.rows - 1 |-> Wrong]
    IN [x |-> x, xn |-> none, q |-> none, k |-> none, v |-> none, attn |-> none,
        proj |-> none, gu |-> none, act |-> none,
        gate |-> [i \in 0 .. 2 * e.rows - 1 |-> Wrong], kv |-> kv]

\* The steps of a layer, on buffers m.  Some are for active rows only.
ForActive(e, f(_), old) == [r \in 0 .. e.rows - 1 |-> IF r \in e.on THEN f(r) ELSE old[r]]

HeadNorm(e, layer, m, name, b) ==
    [m EXCEPT ![b] = ForActive(e, LAMBDA r : Apply(name, layer, m[b][r]), @)]
RopeRows(e, m, b) == [m EXCEPT ![b] = ForActive(e, LAMBDA r : Rope(m[b][r], e.pos[r]), @)]

\* Each row's key and value, at its position.
Store(e, layer, m) ==
    LET at(r) == Address(e, r, layer, e.pos[r])
    IN [m EXCEPT !.kv =
           [a \in DOMAIN @ |->
               IF \E r \in e.on : at(r) = a
               THEN LET r == CHOOSE r \in e.on : at(r) = a IN [k |-> m.k[r], v |-> m.v[r]]
               ELSE @[a]]]

\* Over the cache, or, in a prefill, over the rows themselves.
AttendCache(e, layer, m) ==
    [m EXCEPT !.attn =
        ForActive(e, LAMBDA r : Attend(m.q[r], [j \in 0 .. e.pos[r] |-> m.kv[Address(e, r, layer, j)]],
                                       e.pos[r] + 1), @)]
AttendRows(e, m) ==
    [m EXCEPT !.attn =
        ForActive(e, LAMBDA r : Attend(m.q[r], [j \in 0 .. e.pos[r] |-> [k |-> m.k[j], v |-> m.v[j]]],
                                       e.pos[r] + 1), @)]

AddTo(e, m, b) == [m EXCEPT !.x = [r \in DOMAIN @ |-> Add(@[r], m[b][r])]]

\* gate_up fills both halves of a row; SwiGLU of a row, in place, leaves its
\* result in the first half, and a prefill then moves it to half r (a stride of
\* 1, not 2); down reads half rows at a stride.
GateUp(layer, m) == [m EXCEPT !.gate = [j \in DOMAIN @ |-> Apply("gate_up", layer, m.xn[j \div 2])]]

Half(layer, gate, r, stride) ==
    LET a == Apply("swiglu", layer, gate[2 * r])
    IN [[gate EXCEPT ![2 * r] = a, ![2 * r + 1] = Wrong] EXCEPT ![stride * r] = a]

Swiglu(e, layer, m, stride) ==
    LET done[i \in 0 .. e.rows] ==
            IF i = 0 THEN m.gate ELSE Half(layer, done[i - 1], i - 1, stride)
    IN [m EXCEPT !.gate = done[e.rows]]

Down(layer, m, b, stride) ==
    [m EXCEPT ![b] = [r \in DOMAIN @ |-> Apply("down", layer, m.gate[stride * r])]]

\* The input norm of the next layer, if there is one.
NextNorm(e, layer, m) ==
    IF layer + 1 < e.L
    THEN [m EXCEPT !.xn = [r \in DOMAIN @ |-> Apply("input_norm", layer + 1, m.x[r])]]
    ELSE m

\* Any other kernel, from a buffer to a buffer.
Project(layer, m, name, from, to) ==
    [m EXCEPT ![to] = [r \in DOMAIN @ |-> Apply(name, layer, m[from][r])]]

Exec(e, layer, m, i) ==
    CASE i[1] = "head_norm"      -> HeadNorm(e, layer, m, i[2], i[3])
      [] i[1] = "rope"           -> RopeRows(e, m, i[2])
      [] i[1] = "store"          -> Store(e, layer, m)
      [] i[1] = "attend"         -> AttendCache(e, layer, m)
      [] i[1] = "attend_rows"    -> AttendRows(e, m)
      [] i[1] = "add"            -> AddTo(e, m, i[2])
      [] i[1] = "fill_gate"      -> GateUp(layer, m)
      [] i[1] = "swiglu_rows"    -> Swiglu(e, layer, m, 2)
      [] i[1] = "swiglu_compact" -> Swiglu(e, layer, m, 1)
      [] i[1] = "down_rows"      -> Down(layer, m, i[2], i[3])
      [] i[1] = "next_norm"      -> NextNorm(e, layer, m)
      [] OTHER                   -> Project(layer, m, i[1], i[2], i[3])

\* f(m).  This form makes TLC evaluate m first and the result once.
After(m, f(_)) == CHOOSE w \in {f(v) : v \in {m}} : w = w

RunLayer(e, program, m, layer) ==
    LET run[i \in 0 .. Len(program)] ==
            IF i = 0 THEN m ELSE After(run[i - 1], LAMBDA v : Exec(e, layer, v, program[i]))
    IN run[Len(program)]
Run(e, program, m) ==
    LET run[l \in 0 .. e.L] ==
            IF l = 0 THEN m ELSE After(run[l - 1], LAMBDA v : RunLayer(e, program, v, l - 1))
    IN run[e.L]

\* The final norm of every row.
Finish(e, b) == [r \in DOMAIN b |-> Apply("final_norm", e.L, b[r])]
=============================================================================
