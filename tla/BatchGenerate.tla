---------------------------- MODULE BatchGenerate ----------------------------
(****************************************************************************)
(* The two generators of qwen_tts.c that take all their texts at once:      *)
(* qwen_tts_generate_batch, the chunks of one text into one audio, and      *)
(* qwen_tts_generate_batch_multi, requests into an audio each.  Both work   *)
(* off groups of at most GroupMax texts, first a prefill of each by the     *)
(* single-stream path, then frame after frame of the group.                 *)
(*                                                                          *)
(* Random numbers: the thread's generator is a seed and the draws made      *)
(* since; a code is the draw it came from, or NoDraw.  A text is a record   *)
(*   voice, seed  speaker and language of a request, and its seed           *)
(*   warmup       frames that are greedy                                    *)
(*   frames       frames until it ends; the end is drawn too                *)
(*   prefills, decodes   whether its prefill and its decoding succeed       *)
(****************************************************************************)
EXTENDS Naturals, Sequences, FiniteSets, SequencesExt

CONSTANTS
  GroupMax,    \* GMAX
  GenCap       \* GEN_CAP, frames of a text

NoDraw == [greedy |-> TRUE]
Pause == [pause |-> TRUE]

Seeded(seed) == [seed |-> seed, n |-> 0]
Drawn(g) == [g EXCEPT !.n = @ + 1]

\* The groups, each a sequence of texts.
Groups(texts) ==
  [g \in 1..((Len(texts) + GroupMax - 1) \div GroupMax) |->
     SubSeq(texts, (g - 1) * GroupMax + 1, Min({g * GroupMax, Len(texts)}))]

-----------------------------------------------------------------------------
(* One frame of a group: st has thread, the thread's generator; rng, that   *)
(* of each slot; active; codes.  `own' says that slots have their own.      *)

\* Mutant: the slot's generator is set for the draw and not saved after it.
SampledUnsaved(st, text, b, frame, own) ==
  LET g == IF own THEN st.rng[b] ELSE st.thread
      greedy == frame <= text.warmup
      ends == frame > text.frames \/ Len(st.codes[b]) >= GenCap
  IN IF ~st.active[b] THEN st
     ELSE [st EXCEPT !.thread = IF greedy THEN g ELSE Drawn(g),
                     !.active[b] = ~ends,
                     !.codes[b] = IF ends THEN @ ELSE Append(@, IF greedy THEN NoDraw ELSE g)]

Sampled(st, text, b, frame, own) ==
  LET g == IF own THEN st.rng[b] ELSE st.thread
      greedy == frame <= text.warmup
      after == IF greedy THEN g ELSE Drawn(g)
      ends == frame > text.frames \/ Len(st.codes[b]) >= GenCap
      code == IF greedy THEN NoDraw ELSE g
  IN IF ~st.active[b] THEN st
     ELSE [st EXCEPT !.thread = after,
                     !.rng[b] = IF own THEN after ELSE @,
                     !.active[b] = ~ends,
                     !.codes[b] = IF ends THEN @ ELSE Append(@, code)]

\* Phase 2: until every text of the group has ended, or GenCap frames.
Frames(st, group, own) ==
  LET slots == [b \in DOMAIN group |-> b]
      frame(s, f) == FoldLeft(LAMBDA x, b : Sampled(x, group[b], b, f, own), s, slots)
  IN FoldLeft(frame, st, [f \in 1..GenCap |-> f])

\* A prefill seeds the thread's generator from the context, whoever's it is.
Begun(group, seed) ==
  [thread |-> Seeded(seed),
   rng |-> [b \in DOMAIN group |-> Seeded(group[b].seed)],
   active |-> [b \in DOMAIN group |-> TRUE],
   codes |-> [b \in DOMAIN group |-> <<>>]]

-----------------------------------------------------------------------------
(* Requests.                                                                *)

\* r: the context's voice, the voice each text was prefilled with, the outputs
\* and whether all went well.  The first failed prefill is the last.
Prefilled(r, group) ==
  LET last == Min({Len(group)} \cup {b \in DOMAIN group : ~group[b].prefills})
  IN [r EXCEPT !.with = @ \o [b \in 1..last |-> group[b].voice],
               !.voice = group[last].voice,
               !.ok = \A b \in DOMAIN group : group[b].prefills]

\* The voice is put back before a failure is looked at.
MultiGroup(r, group, seed) ==
  LET p == [Prefilled(r, group) EXCEPT !.voice = r.voice]
      st == Frames(Begun(group, seed), group, TRUE)
      heard == [b \in DOMAIN group |-> IF group[b].decodes THEN st.codes[b] ELSE <<>>]
  IN IF ~r.ok THEN r
     ELSE [p EXCEPT !.out = IF p.ok THEN @ \o heard ELSE @]

GenerateBatchMulti(voice, seed, texts) ==
  FoldLeft(LAMBDA r, group : MultiGroup(r, group, seed),
           [voice |-> voice, with |-> <<>>, out |-> <<>>, ok |-> TRUE], Groups(texts))

-----------------------------------------------------------------------------
(* Chunks of one text.                                                      *)

\* Decoding: a pause before a chunk when there is audio already.
Heard(audio, text, codes, pause) ==
  LET paused == IF audio # <<>> /\ pause THEN Append(audio, Pause) ELSE audio
  IN IF codes = <<>> THEN audio
     ELSE IF text.decodes THEN Append(paused, [of |-> text, codes |-> codes]) ELSE paused

BatchGroup(r, group, seed, pause) ==
  LET st == Frames(Begun(group, seed), group, FALSE)
      slots == [b \in DOMAIN group |-> b]
  IN IF ~r.ok \/ \E b \in DOMAIN group : ~group[b].prefills
     THEN [ok |-> FALSE, audio |-> <<>>]
     ELSE [ok |-> TRUE,
           audio |-> FoldLeft(LAMBDA a, b : Heard(a, group[b], st.codes[b], pause),
                              r.audio, slots)]

GenerateBatch(seed, texts, pause) ==
  FoldLeft(LAMBDA r, group : BatchGroup(r, group, seed, pause),
           [ok |-> TRUE, audio |-> <<>>], Groups(texts))

-----------------------------------------------------------------------------
(* What they promise.                                                       *)

\* A request by itself.
Single(text) ==
  [f \in 1..Min({text.frames, GenCap}) |->
     IF f <= text.warmup THEN NoDraw ELSE [seed |-> text.seed, n |-> f - 1 - text.warmup]]

\* Every request gives the codes it gives by itself, under its own voice.
AsIfAlone(voice, seed, texts) ==
  LET r == GenerateBatchMulti(voice, seed, texts)
  IN /\ r.ok => \A i \in DOMAIN texts : r.out[i] \in {<<>>, Single(texts[i])}
     /\ r.ok => \A i \in DOMAIN texts : texts[i].decodes => r.out[i] = Single(texts[i])
     /\ \A i \in DOMAIN r.with : r.with[i] = texts[i].voice
     /\ r.voice = voice

\* The chunks that could be decoded are heard whole, once and in their order,
\* with at least a pause between two and none before the first.
InSequence(seed, texts, pause) ==
  LET r == GenerateBatch(seed, texts, pause)
      sound == SelectSeq(texts, LAMBDA x : x.decodes /\ x.frames > 0)
      heard == SelectSeq(r.audio, LAMBDA a : a # Pause)
  IN r.ok =>
       /\ [k \in DOMAIN heard |-> heard[k].of] = sound
       /\ \A k \in DOMAIN heard : Len(heard[k].codes) = Len(Single(sound[k]))
       /\ \A k \in DOMAIN r.audio :
            (r.audio[k] # Pause) => k = 1 \/ pause = (r.audio[k - 1] = Pause)
       /\ r.audio # <<>> => r.audio[1] # Pause
=============================================================================
