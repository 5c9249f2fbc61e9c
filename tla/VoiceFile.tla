------------------------------ MODULE VoiceFile ------------------------------
(****************************************************************************)
(* The voice block of main.c: a process loads a model, takes a voice from   *)
(* reference audio, a .bin or a .qvoice file, may save it again, applies    *)
(* the emotion recipe or an .expr file, and generates.  What a file brings  *)
(* is a voice and weights that override the model's; what is derived from   *)
(* weights (the fused gate and up rows, quantized copies, copies resident   *)
(* on a GPU, the embeddings of the tts tokens) has to follow.               *)
(*                                                                          *)
(* A tensor is one value of Word, its bf16 bits: 2^16 is cut to Width.  The *)
(* names stand for the tensors the code treats alike.  A .qvoice file is a  *)
(* header and a sequence of sections; a reader that meets another section   *)
(* than it wants, or one of another size, has eaten four bytes of it or     *)
(* stopped inside it and recognises nothing after.                          *)
(****************************************************************************)
EXTENDS Integers, Sequences, FiniteSets

CONSTANTS
  Model,       \* model directories
  BaseModel,   \* those with a speaker encoder
  SizeOf,      \* hidden size of each: 1024 or 2048
  Shipped,     \* the weights of each
  ExprFile,    \* .expr files: [size, of, recs]; recs a function on tensors
  OldFile,     \* .qvoice files of earlier versions of the program
  Width,       \* values of a word
  GpuWith,     \* bound: the precisions a GPU is used with
  Steering,    \* bound: what --ml-steer may bring at the start
  MaxRuns,     \* bound: processes
  Nothing

Large == 2048

\* Talker: text embedding, the two layers of the text projection and its
\* biases, the two parts of the codec table, codec head, projections of a layer,
\* its gate and up rows, its norms.  Code predictor: its gate and up rows, its
\* embeddings and what projects them, the rest of it.
Tensor == {"emb", "fc1", "proj", "bias", "codec", "preset", "head", "attn", "gate",
           "norm", "cpgate", "cpemb", "cprest"}
F32 == {"bias", "norm"}
Projected == {"fc1", "proj", "bias", "codec"}                     \* in section WOVR
Remembered == {"emb", "fc1", "proj", "codec", "preset", "head"}   \* orig_* pointers
LayerProj == {"attn", "gate"}                                     \* voice strength
ExprTarget == Tensor \ {"bias", "cpgate", "cpemb", "cprest"}

\* The tensors as long as the model is wide; text embedding, first layer of the
\* projection and layers of the code predictor are the same in every model.
Resized == {"proj", "codec", "preset", "head", "attn", "gate", "cpemb"}

Word == 0..(Width - 1)
Add(a, d) == (a + d) % Width
Sub(a, b) == (a - b + Width) % Width
Lerp(a, b, s) == a + s * (b - a)     \* strengths 0 and 1

\* An .expr file is made on a model from its tuned weights: it records deltas,
\* norms as they are, of what differs among the tensors it may touch.  What a
\* low-rank record adds to a word, rounded, is here the delta of the word.
ExprOf(e) ==
  /\ e.of \in Model /\ e.tuned \in [Tensor -> Word]
  /\ \A t \in Tensor :
       IF t \notin DOMAIN e.recs \cap ExprTarget THEN e.tuned[t] = Shipped[e.of][t]
       ELSE IF t \in F32 THEN e.recs[t].dtype = "raw" /\ e.recs[t].word = e.tuned[t]
       ELSE /\ e.recs[t].dtype \in {"delta", "lora"}
            /\ e.recs[t].word = Sub(e.tuned[t], Shipped[e.of][t])

\* Whatever wrote it, a section brings words.
InWords(s) ==
  /\ s.kind = "WOVR" => \A t \in Projected : s.recs[t] \in Word
  /\ s.kind \in {"WDLT", "WFULL"} => \A t \in Tensor : s.recs[t].word \in Word

ASSUME VoiceFileAssumption ==
  /\ Width \in Nat \ {0} /\ BaseModel \subseteq Model
  /\ SizeOf \in [Model -> Nat \ {0}] /\ Shipped \in [Model -> [Tensor -> Word]]
  /\ \A e \in ExprFile : ExprOf(e)
  /\ \A f \in OldFile :
       LET sections == {f.sections[i] : i \in DOMAIN f.sections}
       IN f.sections \in Seq(sections) /\ \A s \in sections : InWords(s)

\* embed_one_text_token_compute for pad, bos and eos.
Pads(w) == <<w.emb, w.fc1, w.proj, w.bias>>

VARIABLES
  phase,    \* "off" | "loaded" | "voiced" | "saved" | "ready"
  c,        \* the context
  file,     \* the .qvoice file on disk, written over by the next
  runs
voiceVars == <<phase, c, file, runs>>

-----------------------------------------------------------------------------
(* The context and what it derives from its weights.                        *)

Copies(x) == [attn |-> x.w.attn, gate |-> x.fused, cpgate |-> x.cpfused]
Weights(x) == [attn |-> x.w.attn, gate |-> x.w.gate, cpgate |-> x.w.cpgate]

\* What the steps of a generation multiply with.
Used(x) == IF x.gpu # Nothing THEN x.gpu ELSE IF x.q # Nothing THEN x.q ELSE Copies(x)

Rebuilt(x) == [x EXCEPT !.fused = x.w.gate]
RebuiltCp(x) == [x EXCEPT !.cpfused = x.w.cpgate]

\* After an override only int8 is quantized again.
Requantized(x) == IF x.prec = "int8" THEN [x EXCEPT !.q = Copies(x)] ELSE x

\* `from' is history: the .qvoice file the voice came from, and how it was
\* loaded.  No other way to a voice touches a weight.
NoFile == [f |-> Nothing, icl |-> TRUE, skip |-> TRUE, strength |-> 1]

Opened(m, prec) ==
  LET w == Shipped[m]
      x == [m |-> m, prec |-> prec, w |-> w, fused |-> w.gate, cpfused |-> w.cpgate,
            q |-> Nothing, gpu |-> Nothing, pads |-> Pads(w), tpad |-> FALSE,
            emb |-> Nothing, codes |-> Nothing, text |-> Nothing, icl |-> FALSE,
            steer |-> Nothing, from |-> NoFile, exprs |-> <<>>]
  IN IF prec = "bf16" THEN x ELSE [x EXCEPT !.q = Copies(x)]

\* --backend cuda with the fused talker uploads before any voice is read.
Resident(x) == [x EXCEPT !.gpu = Used(x)]

-----------------------------------------------------------------------------
(* Loading a .qvoice file: r is [x: the context, rest: the sections left].  *)

Is(r, kind) == r.rest # <<>> /\ Head(r.rest).kind = kind
Past(r) == [r EXCEPT !.rest = Tail(@)]
Lost(r) == [r EXCEPT !.rest = <<>>]

Header(x, f) ==
  [x EXCEPT !.emb = f.emb,
            !.text = IF f.text # Nothing THEN f.text ELSE @,
            !.codes = IF f.codes # Nothing THEN f.codes ELSE @,
            !.icl = @ \/ f.codes # Nothing]

ReadMeta(r) == IF Is(r, "META") THEN Past(r) ELSE Lost(r)

ReadTpad(r) ==
  IF Is(r, "TPAD") /\ Head(r.rest).size = SizeOf[r.x.m]
  THEN [Past(r) EXCEPT !.x.pads = Head(r.rest).pads, !.x.tpad = TRUE]
  ELSE Lost(r)

\* The overriding projection; the pads follow unless the file brought them.
ReadWovr(r, skip) ==
  LET s == Head(r.rest)
      w == [t \in Tensor |-> IF t \in Projected THEN s.recs[t] ELSE r.x.w[t]]
  IN IF ~Is(r, "WOVR") THEN Lost(r)
     ELSE IF s.size # SizeOf[r.x.m] THEN Lost(r)
     ELSE IF skip THEN Past(r)
     ELSE [Past(r) EXCEPT !.x.w = w, !.x.pads = IF r.x.tpad THEN @ ELSE Pads(w)]

\* One record of the weight section over the value it replaces.
Overriding(rec, old, t, strength) ==
  CASE rec.dtype = "delta" ->
         IF t \in LayerProj THEN Lerp(old, Add(old, rec.word), strength)
         ELSE Add(old, rec.word)
    [] rec.dtype = "zlib" -> old
    [] OTHER -> rec.word

\* Mutant: deltas on what the section before has put there.
SwappedInPlace(x, recs, orig, strength) ==
  [x EXCEPT !.w = [t \in Tensor |-> Overriding(recs[t], x.w[t], t, strength)]]

\* Deltas are against the model's own tensors, not what WOVR put there.
Swapped(x, recs, orig, strength) ==
  LET base(t) == IF t \in Remembered THEN orig[t] ELSE x.w[t]
  IN [x EXCEPT !.w = [t \in Tensor |->
       IF recs[t].dtype = "zlib" THEN x.w[t]
       ELSE Overriding(recs[t], base(t), t, strength)]]

\* Deltas for a CustomVoice model; a file from before the size field has no
\* size to check.
Refused(x, s) ==
  s.kind = "WDLT" /\ s.size # 0 /\ (x.m \in BaseModel \/ s.size # SizeOf[x.m])

\* Mutant: quantized before the fused rows are made again.
SettledLate(x, loaded) ==
  LET y == RebuiltCp(Rebuilt(IF loaded THEN Requantized(x) ELSE x))
  IN [y EXCEPT !.pads = IF loaded THEN Pads(y.w) ELSE @]

\* Everything derived is made anew from the new weights, in this order; all
\* of it, whether or not a record was applied, but for pads and int8.
Settled(x, loaded) ==
  LET y == RebuiltCp(Rebuilt(x))
      z == [y EXCEPT !.pads = IF loaded THEN Pads(y.w) ELSE @]
  IN IF loaded THEN Requantized(z) ELSE z

ReadSwap(r, iclOnly, orig, strength) ==
  LET s == Head(r.rest)
      some == \E t \in Tensor : s.recs[t].dtype # "zlib"
  IN IF ~(Is(r, "WDLT") \/ Is(r, "WFULL")) THEN Lost(r)
     ELSE IF iclOnly THEN Past(r)
     ELSE [Past(r) EXCEPT !.x = Settled(Swapped(r.x, s.recs, orig, strength), some)]

BeforeSwap(x, f, skip) ==
  ReadWovr(ReadTpad(ReadMeta([x |-> Header(x, f), rest |-> f.sections])), skip)

\* Nothing when the program stops with an error.
LoadVoice(x, f, iclOnly, skip, strength) ==
  LET r == BeforeSwap(x, f, skip)
  IN IF f.enc # SizeOf[x.m] THEN Nothing
     ELSE IF ~iclOnly /\ r.rest # <<>> /\ Refused(r.x, Head(r.rest)) THEN Nothing
     ELSE ReadSwap(r, iclOnly, x.w, strength).x

-----------------------------------------------------------------------------
(* Saving.                                                                  *)

\* write_tensor_impl: a delta to the target's tensor where that is as long.
Record(x, t, target) ==
  IF target \in Model /\ t \notin F32 /\ (t \in Resized => SizeOf[target] = SizeOf[x.m])
  THEN [dtype |-> "delta", word |-> Sub(x.w[t], Shipped[target][t])]
  ELSE [dtype |-> "raw", word |-> x.w[t]]

\* --target-cv: deltas when its file opens, else everything as it is.  The size
\* is that of the model saved from, not of the target.
SwapSection(x, target) ==
  [kind |-> IF target \in Model THEN "WDLT" ELSE "WFULL", size |-> SizeOf[x.m],
   recs |-> [t \in Tensor |-> Record(x, t, target)]]

Sections(x, target) ==
  <<[kind |-> "META"],
    [kind |-> "TPAD", size |-> SizeOf[x.m], pads |-> x.pads],
    [kind |-> "WOVR", size |-> SizeOf[x.m], recs |-> [t \in Projected |-> x.w[t]]]>>
  \o IF target = Nothing THEN <<>> ELSE <<SwapSection(x, target)>>

\* The text is the one on the command line.  `of' and `w' are history: the
\* target and the weights at the time of saving.
Saved(x, target, text) ==
  [enc |-> SizeOf[x.m], emb |-> x.emb, text |-> text, codes |-> x.codes,
   sections |-> Sections(x, target), of |-> target, w |-> x.w]

-----------------------------------------------------------------------------
(* .expr files and the emotion recipe.                                      *)

Doubled(rec, old, weight) == Lerp(old, Add(old, rec.word), weight)

ExprWord(e, x, t, weight) ==
  LET rec == e.recs[t]
      old == x.w[t]
  IN IF t \notin DOMAIN e.recs \cap ExprTarget THEN old
     ELSE IF t \in F32 THEN IF rec.dtype = "raw" THEN rec.word ELSE old
     ELSE IF rec.dtype \in {"delta", "lora"} THEN Doubled(rec, old, weight)
     ELSE old

ExprHits(e) ==
  {t \in DOMAIN e.recs \cap ExprTarget : (e.recs[t].dtype = "raw") <=> (t \in F32)}

\* apply_expr_file: the tts embeddings and the int4 copies stay as they are.
Expressed(x, e, weight) ==
  LET y == Rebuilt([x EXCEPT !.w = [t \in Tensor |-> ExprWord(e, x, t, weight)],
                             !.exprs = Append(@, [e |-> e, weight |-> weight])])
  IN IF ExprHits(e) # {} THEN Requantized(y) ELSE y

Fits(x, e) == e.size = SizeOf[x.m] /\ ExprHits(e) # {}

\* Mutant: the router does not look whether --expr is given.
EmotedAlways(x, pack, given, sounds) ==
  LET y == IF (x.emb # Nothing \/ sounds) /\ Fits(x, pack) THEN Expressed(x, pack, 1) ELSE x
  IN IF SizeOf[x.m] < Large THEN x ELSE [y EXCEPT !.steer = "emotion"]

\* --emotion on the large model: a clone, or a text with sounds in it, gets the
\* language's .expr file unless one is given, everybody the steering vector.
Emoted(x, pack, given, sounds) ==
  LET y == IF (x.emb # Nothing \/ sounds) /\ given = Nothing /\ Fits(x, pack)
           THEN Expressed(x, pack, 1) ELSE x
  IN IF SizeOf[x.m] < Large THEN x ELSE [y EXCEPT !.steer = "emotion"]

-----------------------------------------------------------------------------
(* The program.                                                             *)

VoiceInit ==
  /\ phase = "off" /\ c = Nothing
  /\ file = Nothing
  /\ runs = 0

Start(m, prec, gpu, steer) ==
  LET x == [Opened(m, prec) EXCEPT !.steer = steer]
  IN /\ phase = "off" /\ runs < MaxRuns /\ (gpu => prec \in GpuWith)
     /\ phase' = "loaded"
     /\ c' = IF gpu THEN Resident(x) ELSE x
     /\ runs' = runs + 1
     /\ UNCHANGED file

Stop ==
  /\ phase' = "off" /\ c' = Nothing
  /\ UNCHANGED <<file, runs>>

\* A preset voice.
NoVoice ==
  /\ phase = "loaded"
  /\ phase' = "voiced"
  /\ UNCHANGED <<c, file, runs>>

\* --ref-audio, with a transcript or for its speaker embedding alone; the
\* audio is encoded for a .qvoice file.
Extract(text) ==
  /\ phase = "loaded" /\ c.m \in BaseModel
  /\ phase' = "voiced"
  /\ c' = [c EXCEPT !.emb = "speaker", !.text = text, !.icl = text # Nothing,
                    !.codes = IF text = Nothing THEN Nothing ELSE "reference"]
  /\ UNCHANGED <<file, runs>>

LoadBin ==
  /\ phase = "loaded"
  /\ phase' = "voiced"
  /\ c' = [c EXCEPT !.emb = "speaker"]
  /\ UNCHANGED <<file, runs>>

LoadQvoice(f, iclOnly, skip, strength) ==
  LET x == LoadVoice(c, f, iclOnly, skip, strength)
  IN /\ phase = "loaded"
     /\ IF x = Nothing THEN Stop
        ELSE /\ phase' = "voiced"
             /\ c' = [x EXCEPT !.from = [f |-> f, icl |-> iclOnly, skip |-> skip, strength |-> strength]]
             /\ UNCHANGED <<file, runs>>

\* --save-voice; the transcript of a loaded voice is not on the command line.
Save(target) ==
  /\ phase = "voiced" /\ c.emb # Nothing
  /\ phase' = "saved"
  /\ file' = Saved(c, target, IF c.from = NoFile THEN c.text ELSE Nothing)
  /\ UNCHANGED <<c, runs>>

\* --emotion, then --expr, which the small model ignores; a file that does not
\* fit ends the program.
Express(emotion, pack, given, sounds, weight) ==
  LET x == IF emotion THEN Emoted(c, pack, given, sounds) ELSE c
  IN /\ phase \in {"voiced", "saved"}
     /\ IF given = Nothing \/ SizeOf[c.m] < Large
        THEN phase' = "ready" /\ c' = x /\ UNCHANGED <<file, runs>>
        ELSE IF Fits(c, given)
        THEN phase' = "ready" /\ c' = Expressed(x, given, weight) /\ UNCHANGED <<file, runs>>
        ELSE Stop

Exit == phase = "ready" /\ Stop

VoiceNext ==
  \/ \E m \in Model, prec \in {"bf16", "int8", "int4"}, gpu \in BOOLEAN, s \in Steering :
        Start(m, prec, gpu, s)
  \/ NoVoice
  \/ \E text \in {Nothing, "transcript"} : Extract(text)
  \/ LoadBin
  \/ \E f \in ({file} \ {Nothing}) \cup OldFile, iclOnly \in BOOLEAN, skip \in BOOLEAN, s \in {0, 1} :
        LoadQvoice(f, iclOnly, skip, s)
  \/ \E target \in Model \cup {Nothing, "missing"} : Save(target)
  \/ \E emotion, sounds \in BOOLEAN, pack \in ExprFile, given \in ExprFile \cup {Nothing},
        weight \in {0, 1} : Express(emotion, pack, given, sounds, weight)
  \/ Exit

VoiceSpec == VoiceInit /\ [][VoiceNext]_voiceVars

-----------------------------------------------------------------------------
(* Properties.                                                              *)

\* The weights a saved file promises for a load in this way.
Swaps(how) == Len(how.f.sections) = 4 /\ ~how.icl

Promised(how, t) ==
  LET f == how.f
      own == Shipped[c.m][t]
  IN IF Swaps(how)
     THEN IF how.strength = 0 /\ t \in LayerProj /\ f.sections[4].recs[t].dtype = "delta"
          THEN own ELSE f.w[t]
     ELSE IF t \in Projected /\ ~how.skip THEN f.w[t] ELSE own

\* A delta taken to another model than the one it is added to.  A file names no
\* target, and nothing but the size of the model it was saved from is compared,
\* so the target may be of any size.
Misplaced(how, t) ==
  Swaps(how) /\ how.f.of \in Model \ {c.m} /\ how.f.sections[4].recs[t].dtype = "delta"

\* A file this program saved gives back what it was saved from, whichever
\* sections it has: the voice; with its weights every one that is not a delta
\* to another model, although the section before has already replaced some of
\* what the deltas are taken from; without them the projection alone; and the
\* embeddings of the tts tokens that belong to the result.
Restored ==
  phase \in {"voiced", "saved"} =>
     LET f == c.from.f IN
     f \notin OldFile \cup {Nothing} =>
        /\ c.emb = f.emb /\ c.codes = f.codes
        /\ \A t \in Tensor : c.w[t] = Promised(c.from, t) \/ Misplaced(c.from, t)
        /\ c.pads = IF Swaps(c.from) THEN Pads(c.w) ELSE f.sections[2].pads

\* What a generation multiplies with are the weights of the context, after
\* whatever overrides: fused rows, then quantized copies, are made again in
\* that order.  Not int4, and not what a GPU took at the start.
Fresh ==
  (phase = "ready" /\ c.prec # "int4" /\ c.gpu = Nothing) => Used(c) = Weights(c)

\* What a voice may have replaced without its section of weights.
Grafted == IF c.from.skip THEN {} ELSE Projected

\* However emotion, sounds and --expr are combined, an .expr file is applied
\* once, and at full weight on the model it was made from, under a preset or a
\* voice that leaves the weights, it gives the tuned weights bit for bit.
ExprExact ==
  (phase = "ready" /\ c.exprs # <<>>) =>
     /\ Len(c.exprs) = 1
     /\ c.exprs[1].weight = 1 /\ c.exprs[1].e.of = c.m /\ c.from.icl
        => \A t \in Tensor : c.w[t] = c.exprs[1].e.tuned[t] \/ t \in Grafted

-----------------------------------------------------------------------------
(* The inductive invariant.                                                 *)

CtxField == {"m", "prec", "w", "fused", "cpfused", "q", "gpu", "pads", "tpad", "emb",
             "codes", "text", "icl", "steer", "from", "exprs"}

\* What was derived follows the weights, where it has to.
Derived(x) ==
  (x.prec # "int4" /\ x.gpu = Nothing) =>
     /\ x.fused = x.w.gate /\ x.cpfused = x.w.cpgate
     /\ x.q = IF x.prec = "bf16" THEN Nothing ELSE Copies(x)

\* A context in every phase, fresh from its model, and before emotion and
\* .expr files, which leave a voice no way to be saved.
Context(x) == DOMAIN x = CtxField /\ x.m \in Model /\ x.prec \in {"bf16", "int8", "int4"}
              /\ Derived(x)
Bare(x) == x.w = Shipped[x.m] /\ x.tpad = FALSE /\ x.codes = Nothing /\ x.from = NoFile

\* A file is one that Save wrote, for some model and target.
IsSaved(f) ==
  /\ f.w \in [Tensor -> Word] /\ f.of \in Model \cup {Nothing, "missing"}
  /\ \E m \in Model :
       /\ f.enc = SizeOf[m]
       /\ f.sections = Sections([m |-> m, pads |-> f.sections[2].pads, w |-> f.w], f.of)

\* Where a voice came from, and that the tensors it did not bring are the
\* model's.
Origin(x) ==
  /\ x.from.f \notin OldFile \cup {Nothing} => IsSaved(x.from.f)
  /\ x.from.icl => \A t \in Tensor :
       (t \in Projected /\ ~x.from.skip) \/ x.w[t] = Shipped[x.m][t]

VoiceInvariant ==
  /\ phase \in {"off", "loaded", "voiced", "saved", "ready"}
  /\ file # Nothing => IsSaved(file)
  /\ phase # "off" => Context(c)
  /\ phase = "loaded" => Bare(c)
  /\ phase \in {"loaded", "voiced", "saved"} =>
       c.exprs = << >> /\ c.w \in [Tensor -> Word] /\ Origin(c)
  /\ Restored /\ ExprExact

=============================================================================
