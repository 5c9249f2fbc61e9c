---------------------------- MODULE WorkerContext ----------------------------
(***************************************************************************)
(* Who owns what in the worker contexts of the server:                     *)
(* qwen_tts_clone_for_worker copies the base context bitwise and gives the *)
(* copy its own of every buffer that a synthesis changes; requests replace *)
(* buffers in place; qwen_tts_free_clone and qwen_tts_unload free them.    *)
(*                                                                         *)
(* Buffers that are treated alike are one field.  An object is named after *)
(* the context and field it was allocated for, and numbered.               *)
(***************************************************************************)
EXTENDS Integers, FiniteSets

CONSTANTS Clone,         \* worker contexts 1 .. n - 1
          Base,          \* worker context 0
          SteerAtStart,  \* the server was started with --ml-steer or --emotion
          InstructAtStart, \* ... with --instruct
          MaxRequests,   \* bound: requests of a context
          Null

Ctx == Clone \cup {Base}

\* Weights: what is shared (mapped or quantized weights, RoPE tables,
\* codebooks, the voice).  Work: KV caches, step buffers, the embedding cache.
\* Lazy: prefill buffers, logits, codec_codes, prev_tokens, prev_input_embeds.
Field == {"weights", "work", "swiglu_tmp", "lazy", "tokenizer", "instruct", "ml_steer"}
Owned == Field \ {"weights"}

\* The names of objects; NULL is the name of none.
Objects == Ctx \X (Field \cup {"span"}) \X Nat

ASSUME ContextAssumption ==
    /\ IsFiniteSet(Clone) /\ Base \notin Clone /\ MaxRequests \in Nat
    /\ SteerAtStart \in BOOLEAN /\ InstructAtStart \in BOOLEAN
    /\ Null \notin Objects

VARIABLES
    phase,    \* of qwen_tts_serve_ex
    pc,       \* per context
    field,    \* field[c][f]: the object context c has there
    saved,    \* saved_ml of synth_one_span
    live,     \* objects allocated and not freed
    requests

vars == <<phase, pc, field, saved, live, requests>>

Object(c, f) == <<c, f, requests[c]>>

Init ==
    /\ phase = "start"
    /\ pc = [c \in Ctx |-> IF c = Base THEN "idle" ELSE "none"]
    /\ requests = [c \in Ctx |-> 0]
    /\ live = {<<Base, f, 0>> : f \in {"weights", "work", "swiglu_tmp"}
                    \cup (IF SteerAtStart THEN {"ml_steer"} ELSE {})
                    \cup (IF InstructAtStart THEN {"instruct"} ELSE {})}
    /\ field = [c \in Ctx |-> [f \in Field |->
                    IF c = Base /\ <<c, f, 0>> \in live THEN <<c, f, 0>> ELSE Null]]
    /\ saved = [c \in Ctx |-> Null]
-----------------------------------------------------------------------------
\* The buffers a clone gets of its own ...
Fresh == {"work", "swiglu_tmp"}

\* ... and those that it starts without.
Detached == {"lazy", "tokenizer", "instruct"}

\* qwen_tts_clone_for_worker
CloneForWorker(c) ==
    /\ phase = "start" /\ pc[c] = "none"
    /\ field' = [field EXCEPT ![c] = [f \in Field |->
                    CASE f \in Fresh    -> Object(c, f)
                      [] f \in Detached -> Null
                      [] OTHER          -> field[Base][f]]]
    /\ live' = live \cup {Object(c, f) : f \in Fresh}
    /\ pc' = [pc EXCEPT ![c] = "idle"]
    /\ UNCHANGED <<phase, saved, requests>>

\* The workers start; there are fewer of them when a clone could not be made.
Serve ==
    /\ phase = "start"
    /\ phase' = "serving"
    /\ UNCHANGED <<pc, field, saved, live, requests>>

\* What reset_request_state frees.
Dropped(c) == {field[c]["instruct"], field[c]["ml_steer"]}

\* reset_request_state and parse_tts_request: the request brings an
\* instruction, an emotion, both or none; or it has no text and ends here.
Parse(c) ==
    /\ phase = "serving" /\ pc[c] = "idle" /\ requests[c] < MaxRequests
    /\ requests' = [requests EXCEPT ![c] = @ + 1]
    /\ \E new \in SUBSET {"instruct", "ml_steer"}, ok \in BOOLEAN :
          /\ ~ok => new = {}
          /\ field' = [field EXCEPT
                ![c]["instruct"] = IF "instruct" \in new THEN Object(c, "instruct")' ELSE Null,
                ![c]["ml_steer"] = IF "ml_steer" \in new THEN Object(c, "ml_steer")' ELSE Null]
          /\ live' = (live \ Dropped(c)) \cup {Object(c, f)' : f \in new}
          /\ pc' = [pc EXCEPT ![c] = IF ok THEN "span" ELSE "idle"]
    /\ UNCHANGED <<phase, saved>>

SpanSteer(c) == <<c, "span", requests[c]>>

\* What synth_one_span keeps to put back.
Saved(c) == field[c]["ml_steer"]

\* synth_one_span and the synthesis it calls: the steering of the span, if it
\* has one, takes the place of the request's; the tokenizer and the lazy
\* buffers are made when they are missing.
Span(c) ==
    /\ pc[c] = "span"
    /\ \E mood \in BOOLEAN :
          LET made == {f \in {"tokenizer", "lazy"} : field[c][f] = Null}
          IN /\ field' = [field EXCEPT ![c] = [f \in Field |->
                    CASE f \in made                  -> Object(c, f)
                      [] f = "ml_steer" /\ mood      -> SpanSteer(c)
                      [] OTHER                       -> field[c][f]]]
             /\ live' = live \cup {Object(c, f) : f \in made}
                             \cup (IF mood THEN {SpanSteer(c)} ELSE {})
    /\ saved' = [saved EXCEPT ![c] = Saved(c)]
    /\ pc' = [pc EXCEPT ![c] = "synth"]
    /\ UNCHANGED <<phase, requests>>

\* Mutant: the span's steering is freed and stays in place.
SpanDoneFreed(c) ==
    /\ pc[c] = "synth"
    /\ live' = live \ {SpanSteer(c)}
    /\ \E l \in {"span", "idle"} : pc' = [pc EXCEPT ![c] = l]
    /\ UNCHANGED <<phase, field, saved, requests>>

\* The steering of before is put back and the span's is freed; another span
\* follows or the request ends.
SpanDone(c) ==
    /\ pc[c] = "synth"
    /\ live' = live \ {SpanSteer(c)}
    /\ field' = [field EXCEPT ![c]["ml_steer"] = saved[c]]
    /\ \E l \in {"span", "idle"} : pc' = [pc EXCEPT ![c] = l]
    /\ UNCHANGED <<phase, saved, requests>>

\* The workers are joined once their requests have ended.
Join ==
    /\ phase = "serving" /\ \A c \in Ctx : pc[c] \in {"idle", "none"}
    /\ phase' = "joined"
    /\ UNCHANGED <<pc, field, saved, live, requests>>

\* qwen_tts_free_clone frees what the clone owns; its ml_steer is not freed.
FreeClone(c) ==
    /\ phase = "joined" /\ c \in Clone /\ pc[c] = "idle"
    /\ live' = live \ {field[c][f] : f \in Owned \ {"ml_steer"}}
    /\ pc' = [pc EXCEPT ![c] = "freed"]
    /\ UNCHANGED <<phase, field, saved, requests>>

\* qwen_tts_unload of the base, with the weights; neither ml_steer nor
\* swiglu_tmp is freed.
Unload ==
    /\ phase = "joined" /\ \A c \in Clone : pc[c] \in {"freed", "none"}
    /\ live' = live \ {field[Base][f] : f \in Field \ {"ml_steer", "swiglu_tmp"}}
    /\ pc' = [pc EXCEPT ![Base] = "freed"] /\ phase' = "done"
    /\ UNCHANGED <<field, saved, requests>>

Next == \/ Serve \/ Join \/ Unload
        \/ \E c \in Clone : CloneForWorker(c) \/ FreeClone(c)
        \/ \E c \in Ctx : Parse(c) \/ Span(c) \/ SpanDone(c)

Spec == Init /\ [][Next]_vars
-----------------------------------------------------------------------------
(* Properties                                                              *)

InUse == {c \in Ctx : pc[c] \notin {"none", "freed"}}

\* Every variable has its type; a field holds an object made for that field
\* (or, for ml_steer, for a span).
TypeOK ==
    /\ phase \in {"start", "serving", "joined", "done"}
    /\ pc \in [Ctx -> {"none", "idle", "span", "synth", "freed"}]
    /\ requests \in [Ctx -> 0 .. MaxRequests]
    /\ \A c \in Ctx : DOMAIN field[c] = Field
    /\ \A c \in Ctx, f \in Field :
          \/ field[c][f] = Null
          \/ field[c][f][2] = f
          \/ f = "ml_steer" /\ field[c][f][2] = "span"
    /\ \A o \in live : o[1] \in Ctx /\ o[2] \in Field \cup {"span"}

\* A context in use never points to a buffer that was freed, by itself or by
\* another that shared it: what it reads is there, what it frees it frees once.
NoDangling == \A c \in InUse, f \in Field : field[c][f] \in live \cup {Null}

\* "owns FRESH copies of every buffer that the generation path mutates": two
\* contexts that run side by side have no buffer in common but the weights.
Separate ==
    \A c, d \in InUse, f \in Owned :
        c # d /\ field[c][f] # Null => field[c][f] # field[d][f]

\* Nothing that was allocated is lost on the way: every live object is still
\* somebody's, or the last steering of a context that is gone, or swiglu_tmp
\* of the base.
NothingLost ==
    \A o \in live :
        \/ \E c \in InUse : o \in {field[c][f] : f \in Field} \cup {saved[c]}
        \/ \E c \in Ctx : pc[c] = "freed" /\ o = field[c]["ml_steer"]
        \/ pc[Base] = "freed" /\ o = field[Base]["swiglu_tmp"]

\* The buffers of the contexts are nobody else's, and somebody's.
BuffersOwned == Separate /\ NothingLost

\* No buffer is used or freed after it was freed, two contexts that run side by
\* side own none in common, and none is lost.
BuffersSound == NoDangling /\ BuffersOwned
=============================================================================
