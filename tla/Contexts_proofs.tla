--------------------------- MODULE Contexts_proofs ---------------------------
(***************************************************************************)
(* Of the contexts of a server (MCContexts):                               *)
(*                                                                         *)
(* who owns their buffers (WorkerContext), for every number of contexts    *)
(* and requests, when the server is started without a steering of its own: *)
(* nothing is used after it was freed, shared or lost.  With one the       *)
(* clones share the base's ml_steer and it is not so (the run              *)
(* worker_context_steer);                                                  *)
(*                                                                         *)
(* what one request leaves of its settings to the next (RequestState).     *)
(***************************************************************************)
EXTENDS MCContexts, SequenceTheorems, TLAPS

\* What the variables hold.
Typed ==
    /\ phase \in {"start", "serving", "joined", "done"}
    /\ pc \in [Ctx -> {"none", "idle", "span", "synth", "freed"}]
    /\ requests \in [Ctx -> 0 .. MaxRequests]
    /\ field \in [Ctx -> [Field -> Objects \cup {Null}]]
    /\ saved \in [Ctx -> Objects \cup {Null}]
    /\ live \subseteq Objects

\* Where the contexts are in each phase; the base outlives the clones, and
\* has no steering that a clone could share.
PhaseInv ==
    /\ pc[Base] # "none"
    /\ phase = "start" =>
          field[Base]["ml_steer"] = Null /\ \A c \in Ctx : pc[c] \in {"none", "idle"}
    /\ phase = "serving" => \A c \in Ctx : pc[c] # "freed"
    /\ phase = "joined" => pc[Base] = "idle" /\ \A c \in Ctx : pc[c] \in {"none", "idle", "freed"}
    /\ phase = "done" => \A c \in Ctx : pc[c] \in {"none", "freed"}

\* Object o is NULL, or was made for field f of context c.
MadeFor(o, c, f) == o # Null => \E k \in 0 .. MaxRequests : o = <<c, f, k>>

\* A field holds what was made for it in its own context, the weights those of
\* the base, and ml_steer during a synthesis the span's steering or what is
\* put back after it.
OwnInv ==
    /\ field[Base]["weights"] = <<Base, "weights", 0>>
    /\ \A c \in Ctx : field[c]["weights"] \in {Null, <<Base, "weights", 0>>}
    /\ \A c \in Ctx, f \in Owned \ {"ml_steer"} : MadeFor(field[c][f], c, f)
    /\ \A c \in Ctx : pc[c] # "synth" => MadeFor(field[c]["ml_steer"], c, "ml_steer")
    /\ \A c \in Ctx : pc[c] = "synth" =>
          /\ MadeFor(saved[c], c, "ml_steer") /\ saved[c] \in live \cup {Null}
          /\ field[c]["ml_steer"] \in {saved[c], SpanSteer(c)}

\* Context c, in use, can still reach object o ...
Reaches(c, o) == c \in InUse /\ (\/ \E f \in Field : o = field[c][f]
                                 \/ pc[c] = "synth" /\ o = saved[c])

\* ... or it is what qwen_tts_free_clone and qwen_tts_unload leave.
LeftOver(o) ==
    \/ \E c \in Ctx : pc[c] = "freed" /\ o = field[c]["ml_steer"]
    \/ pc[Base] = "freed" /\ o = field[Base]["swiglu_tmp"]

HeldInv == \A o \in live : (\E c \in Ctx : Reaches(c, o)) \/ LeftOver(o)

IInv == Typed /\ PhaseInv /\ OwnInv /\ NoDangling /\ HeldInv
-----------------------------------------------------------------------------
(* Objects and their names.                                                *)

LEMMA Constants ==
    /\ MaxRequests \in Nat /\ Null \notin Objects /\ Base \in Ctx /\ Base \notin Clone
    /\ Clone \subseteq Ctx
BY ContextAssumption DEF Ctx

LEMMA NamesDiffer ==
    ASSUME NEW c, NEW f, NEW k, NEW d, NEW g, NEW l, <<c, f, k>> = <<d, g, l>>
    PROVE  c = d /\ f = g /\ k = l
OBVIOUS

LEMMA IsObject ==
    ASSUME NEW c \in Ctx, NEW f \in Field \cup {"span"}, NEW k \in 0 .. MaxRequests
    PROVE  <<c, f, k>> \in Objects /\ <<c, f, k>> # Null
BY Constants DEF Objects

\* No object was made for two contexts, or for two fields.
LEMMA MadeOnce ==
    ASSUME NEW o, NEW c, NEW f, NEW d, NEW g, o # Null, MadeFor(o, c, f), MadeFor(o, d, g)
    PROVE  c = d /\ f = g
BY NamesDiffer DEF MadeFor

LEMMA IsMade ==
    ASSUME Typed, NEW c \in Ctx, NEW f \in Field \cup {"span"}
    PROVE  /\ requests[c] \in 0 .. MaxRequests
           /\ <<c, f, requests[c]>> \in Objects /\ <<c, f, requests[c]>> # Null
           /\ MadeFor(<<c, f, requests[c]>>, c, f)
<1>1. requests[c] \in 0 .. MaxRequests
  BY DEF Typed
<1>2. QED
  BY <1>1, IsObject DEF MadeFor

\* What a field other than weights and ml_steer, and what ml_steer, was made for.
LEMMA HeldFor ==
    ASSUME IInv, NEW c \in Ctx, NEW f \in Owned
    PROVE  \/ MadeFor(field[c][f], c, f)
           \/ f = "ml_steer" /\ pc[c] = "synth" /\ field[c][f] = SpanSteer(c)
BY DEF IInv, OwnInv

\* Two fields never hold the same object, but for the weights.
LEMMA Apart ==
    ASSUME IInv, NEW c \in Ctx, NEW d \in Ctx, NEW f \in Owned, NEW g \in Field,
           field[c][f] # Null, field[c][f] = field[d][g]
    PROVE  c = d /\ f = g
<1>1. MadeFor(SpanSteer(c), c, "span") /\ MadeFor(SpanSteer(d), d, "span")
  BY IsMade DEF IInv, SpanSteer
<1>2. "weights" \notin Owned /\ "span" \notin Field /\ f \in Field /\ f # "weights" /\ f # "span"
  BY DEF Owned, Field
<1>3. PICK x : x \in {f, "span"} /\ MadeFor(field[c][f], c, x) /\ (x = "span" => f = "ml_steer")
  <2>1. CASE MadeFor(field[c][f], c, f)
    BY <1>2, <2>1
  <2>2. CASE f = "ml_steer" /\ field[c][f] = SpanSteer(c)
    BY <1>1, <2>2
  <2>3. QED
    BY <2>1, <2>2, HeldFor
<1>4. CASE g = "weights"
  <2>1. field[d][g] = <<Base, "weights", 0>>
    BY <1>4 DEF IInv, OwnInv
  <2>2. MadeFor(field[d][g], Base, "weights")
    BY <2>1, Constants DEF MadeFor
  <2>3. QED
    BY <1>2, <1>3, <2>2, MadeOnce
<1>5. CASE g # "weights"
  <2>1. g \in Owned /\ g # "span"
    BY <1>5 DEF Owned, Field
  <2>2. PICK y : y \in {g, "span"} /\ MadeFor(field[d][g], d, y) /\ (y = "span" => g = "ml_steer")
    BY <1>1, <2>1, HeldFor
  <2>3. c = d /\ x = y
    BY <1>3, <2>2, MadeOnce
  <2>4. QED
    BY <1>2, <1>3, <2>1, <2>2, <2>3
<1>6. QED
  BY <1>4, <1>5

\* The steering of a span of c is in no other field.
LEMMA SpanApart ==
    ASSUME IInv, NEW c \in Ctx, NEW d \in Ctx, NEW g \in Field, field[d][g] = SpanSteer(c)
    PROVE  c = d /\ g = "ml_steer" /\ pc[c] = "synth"
<1>1. SpanSteer(c) # Null /\ MadeFor(SpanSteer(c), c, "span") /\ "span" \notin Field
      /\ SpanSteer(d) # Null /\ MadeFor(SpanSteer(d), d, "span")
  BY IsMade DEF IInv, SpanSteer, Field
<1>2. CASE g = "weights"
  <2>1. MadeFor(field[d][g], Base, "weights")
    BY <1>2, Constants DEF IInv, OwnInv, MadeFor
  <2>2. QED
    BY <1>1, <2>1, MadeOnce
<1>3. CASE g # "weights"
  <2>1. g \in Owned
    BY <1>3 DEF Owned
  <2>2. ~MadeFor(field[d][g], d, g)
    BY <1>1, MadeOnce
  <2>3. g = "ml_steer" /\ pc[d] = "synth" /\ field[d][g] = SpanSteer(d)
    BY <2>1, <2>2, HeldFor
  <2>4. QED
    BY <1>1, <2>3, MadeOnce
<1>4. QED
  BY <1>2, <1>3

\* What is put back after a span is not the span's steering, of any context.
LEMMA SavedApart ==
    ASSUME IInv, NEW c \in Ctx, NEW d \in Ctx, pc[d] = "synth"
    PROVE  saved[d] # SpanSteer(c)
<1>1. SpanSteer(c) # Null /\ MadeFor(SpanSteer(c), c, "span") /\ "span" # "ml_steer"
  BY IsMade DEF IInv, SpanSteer
<1>2. MadeFor(saved[d], d, "ml_steer")
  BY DEF IInv, OwnInv
<1>3. QED
  BY <1>1, <1>2, MadeOnce
-----------------------------------------------------------------------------
(* The steps.                                                              *)

LEMMA InitInvariant == ~SteerAtStart /\ Init => IInv
<1> SUFFICES ASSUME ~SteerAtStart, Init PROVE IInv
  OBVIOUS
<1> USE DEF Init
<1>1. \A f \in Field : <<Base, f, 0>> \in Objects
  BY Constants, IsObject
<1>2. \A o \in live : \E f \in Field \ {"ml_steer"} : o = <<Base, f, 0>>
  BY DEF Field
<1>3. \A c \in Ctx, f \in Field :
         field[c][f] = IF c = Base /\ <<c, f, 0>> \in live THEN <<c, f, 0>> ELSE Null
  OBVIOUS
<1>4. Typed
  <2>1. live \subseteq Objects
    BY <1>1, <1>2
  <2>2. field \in [Ctx -> [Field -> Objects \cup {Null}]]
    BY <1>1
  <2>3. requests \in [Ctx -> 0 .. MaxRequests]
    BY Constants
  <2>4. QED
    BY <2>1, <2>2, <2>3 DEF Typed
<1>5. field[Base]["ml_steer"] = Null
  <2>1. <<Base, "ml_steer", 0>> \notin live
    BY <1>2, NamesDiffer
  <2>2. QED
    BY <1>3, <2>1, Constants DEF Field
<1>6. PhaseInv
  BY <1>5, Constants DEF PhaseInv
<1>7. \A c \in Ctx : pc[c] # "synth"
  OBVIOUS
<1>8. OwnInv
  <2>1. \A c \in Ctx, f \in Field : MadeFor(field[c][f], c, f)
    BY <1>3, Constants DEF MadeFor
  <2>2. field[Base]["weights"] = <<Base, "weights", 0>>
    BY <1>3, Constants DEF Field
  <2>3. \A c \in Ctx : field[c]["weights"] \in {Null, <<Base, "weights", 0>>}
    BY <1>3 DEF Field
  <2>4. "ml_steer" \in Field /\ Owned \subseteq Field
    BY DEF Owned, Field
  <2>5. QED
    BY <1>7, <2>1, <2>2, <2>3, <2>4 DEF OwnInv
<1>9. NoDangling
  BY <1>3 DEF NoDangling, InUse
<1>10. HeldInv
  <2>1. Base \in InUse
    BY Constants DEF InUse
  <2>2. QED
    BY <1>2, <1>3, <2>1, Constants DEF HeldInv, Reaches, InUse
<1>11. QED
  BY <1>4, <1>6, <1>8, <1>9, <1>10 DEF IInv

LEMMA CloneStep ==
    ASSUME IInv, NEW c \in Clone, CloneForWorker(c)
    PROVE  IInv'
<1>1. /\ phase = "start" /\ phase' = phase /\ pc[c] = "none" /\ c \in Ctx /\ c # Base
      /\ saved' = saved /\ requests' = requests /\ Typed
      /\ live' = live \cup {Object(c, f) : f \in Fresh}
      /\ \A d \in Ctx : pc'[d] = IF d = c THEN "idle" ELSE pc[d]
  BY Constants DEF CloneForWorker, IInv, Typed
<1>2. Base \in InUse /\ Base \in Ctx /\ pc[Base] \in {"none", "idle"} /\ pc[Base] # "none"
      /\ field[Base]["ml_steer"] = Null
      /\ field[Base]["weights"] = <<Base, "weights", 0>>
  BY <1>1, Constants DEF IInv, PhaseInv, OwnInv, InUse
<1>3. field[Base]["weights"] \in live
  <2>1. "weights" \in Field /\ <<Base, "weights", 0>> # Null
    BY Constants, IsObject DEF Field
  <2>2. QED
    BY <1>2, <2>1 DEF IInv, NoDangling
<1>4. /\ \A d \in Ctx \ {c} : field'[d] = field[d]
      /\ \A f \in Fresh : field'[c][f] = Object(c, f)
      /\ \A f \in Detached : field'[c][f] = Null
      /\ field'[c]["weights"] = field[Base]["weights"]
      /\ field'[c]["ml_steer"] = Null
  BY <1>1, <1>2 DEF CloneForWorker, Typed, Fresh, Detached, Field
<1>5. \A f \in Fresh : Object(c, f) \in Objects /\ Object(c, f) # Null /\ MadeFor(Object(c, f), c, f)
  BY <1>1, IsMade DEF Object, Fresh, Field
<1>6. Field = Fresh \cup Detached \cup {"weights", "ml_steer"}
  BY DEF Fresh, Detached, Field
<1>7. Typed'
  <2>1. field' \in [Ctx -> [Field -> Objects \cup {Null}]]
    <3>1. [f \in Field |-> CASE f \in Fresh    -> Object(c, f)
                             [] f \in Detached -> Null
                             [] OTHER          -> field[Base][f]] \in [Field -> Objects \cup {Null}]
      BY <1>1, <1>2, <1>5 DEF Typed
    <3>2. QED
      BY <1>1, <3>1 DEF CloneForWorker, Typed
  <2>2. live' \subseteq Objects
    BY <1>1, <1>5 DEF Typed
  <2>3. pc' \in [Ctx -> {"none", "idle", "span", "synth", "freed"}]
    BY <1>1 DEF CloneForWorker, Typed
  <2>4. QED
    BY <1>1, <2>1, <2>2, <2>3 DEF Typed
<1>8. PhaseInv'
  BY <1>1, <1>2, <1>4 DEF IInv, PhaseInv
<1>9. OwnInv'
  <2>1. \A f \in Owned \ {"ml_steer"} : MadeFor(field'[c][f], c, f)
    BY <1>4, <1>5, <1>6 DEF Owned, MadeFor
  <2>2. MadeFor(field'[c]["ml_steer"], c, "ml_steer") /\ pc'[c] # "synth"
    BY <1>1, <1>4 DEF MadeFor
  <2>3. \A d \in Ctx \ {c} : SpanSteer(d)' = SpanSteer(d) /\ pc'[d] = pc[d]
    BY <1>1 DEF SpanSteer
  <2>4. QED
    BY <1>1, <1>2, <1>4, <2>1, <2>2, <2>3 DEF IInv, OwnInv, MadeFor
<1>10. NoDangling'
  <2>1. \A f \in Field : field'[c][f] \in live' \cup {Null}
    BY <1>1, <1>3, <1>4, <1>6
  <2>2. \A d \in Ctx \ {c} : d \in InUse' <=> d \in InUse
    BY <1>1 DEF InUse
  <2>3. QED
    BY <1>1, <1>4, <2>1, <2>2 DEF IInv, NoDangling, InUse
<1>11. HeldInv'
  <2> SUFFICES ASSUME NEW o \in live' PROVE (\E d \in Ctx : Reaches(d, o)') \/ LeftOver(o)'
    BY DEF HeldInv
  <2>1. CASE o \in live
    <3>1. \A d \in Ctx : Reaches(d, o) => Reaches(d, o)'
      BY <1>1, <1>4 DEF Reaches, InUse
    <3>2. LeftOver(o) => LeftOver(o)'
      BY <1>1, <1>2, <1>4 DEF LeftOver
    <3>3. QED
      BY <2>1, <3>1, <3>2 DEF IInv, HeldInv
  <2>2. CASE o \in {Object(c, f) : f \in Fresh}
    BY <1>1, <1>4, <1>6, <2>2 DEF Reaches, InUse
  <2>3. QED
    BY <1>1, <2>1, <2>2
<1>12. QED
  BY <1>7, <1>8, <1>9, <1>10, <1>11 DEF IInv

LEMMA ParseStep ==
    ASSUME IInv, NEW c \in Ctx, Parse(c)
    PROVE  IInv'
<1>1. PICK new \in SUBSET {"instruct", "ml_steer"}, ok \in BOOLEAN :
         /\ field' = [field EXCEPT
                ![c]["instruct"] = IF "instruct" \in new THEN Object(c, "instruct")' ELSE Null,
                ![c]["ml_steer"] = IF "ml_steer" \in new THEN Object(c, "ml_steer")' ELSE Null]
         /\ live' = (live \ Dropped(c)) \cup {Object(c, f)' : f \in new}
         /\ pc' = [pc EXCEPT ![c] = IF ok THEN "span" ELSE "idle"]
  BY DEF Parse
<1>2. /\ phase = "serving" /\ phase' = phase /\ pc[c] = "idle" /\ saved' = saved /\ Typed
      /\ requests' = [requests EXCEPT ![c] = @ + 1] /\ requests[c] < MaxRequests
      /\ new \subseteq Field
  BY DEF Parse, IInv, Field
<1>3. /\ \A d \in Ctx \ {c} : field'[d] = field[d] /\ pc'[d] = pc[d] /\ requests'[d] = requests[d]
      /\ pc'[c] \in {"span", "idle"}
      /\ requests' \in [Ctx -> 0 .. MaxRequests]
      /\ pc' \in [Ctx -> {"none", "idle", "span", "synth", "freed"}]
  BY <1>1, <1>2, Constants DEF Typed
<1>4. \A f \in Field : /\ Object(c, f)' \in Objects /\ Object(c, f)' # Null
                       /\ MadeFor(Object(c, f)', c, f)
  <2>1. requests'[c] \in 0 .. MaxRequests
    BY <1>3
  <2>2. QED
    BY <2>1, IsObject DEF Object, MadeFor
<1>5. /\ field' \in [Ctx -> [Field -> Objects \cup {Null}]]
      /\ \A f \in Field \ {"instruct", "ml_steer"} : field'[c][f] = field[c][f]
      /\ \A f \in {"instruct", "ml_steer"} : field'[c][f] = IF f \in new THEN Object(c, f)' ELSE Null
  <2>1. "instruct" \in Field /\ "ml_steer" \in Field
    BY DEF Field
  <2> DEFINE a == IF "instruct" \in new THEN Object(c, "instruct")' ELSE Null
             b == IF "ml_steer" \in new THEN Object(c, "ml_steer")' ELSE Null
  <2>2. a \in Objects \cup {Null} /\ b \in Objects \cup {Null}
    BY <1>4, <2>1
  <2>3. field' = [field EXCEPT ![c]["instruct"] = a, ![c]["ml_steer"] = b]
    BY <1>1
  <2> HIDE DEF a, b
  <2>4. /\ field' \in [Ctx -> [Field -> Objects \cup {Null}]]
        /\ \A f \in Field \ {"instruct", "ml_steer"} : field'[c][f] = field[c][f]
        /\ field'[c]["instruct"] = a /\ field'[c]["ml_steer"] = b
    BY <1>2, <2>1, <2>2, <2>3 DEF Typed
  <2>5. QED
    BY <2>4 DEF a, b
<1>6. /\ \A f \in new : field'[c][f] = Object(c, f)' /\ field'[c][f] \in live'
      /\ live \ Dropped(c) \subseteq live'
      /\ live' \subseteq live \cup {Object(c, f)' : f \in new}
  <2>1. \A f \in new : f \in {"instruct", "ml_steer"}
    OBVIOUS
  <2>2. \A f \in new : Object(c, f)' \in live'
    BY <1>1 DEF Object
  <2>3. \A f \in new : field'[c][f] = Object(c, f)'
    BY <1>5, <2>1
  <2>4. QED
    BY <1>1, <2>2, <2>3 DEF Object
\* Nobody but c holds what reset_request_state frees.
<1>7. \A d \in Ctx, g \in Field :
         field[d][g] # Null /\ field[d][g] \in Dropped(c) => d = c /\ g \in {"instruct", "ml_steer"}
  <2>1. "instruct" \in Owned /\ "ml_steer" \in Owned
    BY DEF Owned, Field
  <2>2. QED
    BY <2>1, Apart DEF Dropped
<1>8. \A d \in Ctx : pc[d] = "synth" /\ saved[d] # Null => saved[d] \notin Dropped(c)
  <2> SUFFICES ASSUME NEW d \in Ctx, pc[d] = "synth", saved[d] # Null, saved[d] \in Dropped(c)
               PROVE  FALSE
    OBVIOUS
  <2>1. MadeFor(saved[d], d, "ml_steer") /\ d # c
    BY <1>2 DEF IInv, OwnInv
  <2>2. MadeFor(field[c]["instruct"], c, "instruct") /\ MadeFor(field[c]["ml_steer"], c, "ml_steer")
    BY <1>2 DEF IInv, OwnInv, Owned, Field
  <2>3. QED
    BY <2>1, <2>2, MadeOnce DEF Dropped
<1>9. Typed'
  <2>1. live' \subseteq Objects
    BY <1>2, <1>4, <1>6 DEF Typed
  <2>2. QED
    BY <1>2, <1>3, <1>5, <2>1 DEF Typed
<1>10. PhaseInv'
  <2>1. \A d \in Ctx : (pc'[d] = "none" <=> pc[d] = "none") /\ (pc'[d] = "freed" <=> pc[d] = "freed")
    BY <1>2, <1>3
  <2>2. QED
    BY <1>2, <2>1, Constants DEF IInv, PhaseInv
<1>11. OwnInv'
  <2>1. field'[c]["weights"] = field[c]["weights"]
    BY <1>5 DEF Field
  <2>2. \A f \in Owned : MadeFor(field'[c][f], c, f)
    <3>1. \A f \in Owned \ {"instruct", "ml_steer"} : MadeFor(field'[c][f], c, f) /\ f \in Field
      BY <1>2, <1>5 DEF IInv, OwnInv, Owned
    <3>2. \A f \in {"instruct", "ml_steer"} : MadeFor(field'[c][f], c, f)
      BY <1>4, <1>5 DEF MadeFor, Field
    <3>3. QED
      BY <3>1, <3>2
  <2>3. \A d \in Ctx \ {c} : SpanSteer(d)' = SpanSteer(d)
    BY <1>3 DEF SpanSteer
  <2>4. \A d \in Ctx : pc'[d] = "synth" => d # c /\ saved'[d] \in live' \cup {Null}
    BY <1>1, <1>2, <1>3, <1>8 DEF IInv, OwnInv
  <2>5. "ml_steer" \in Owned
    BY DEF Owned, Field
  <2>6. /\ field'[Base]["weights"] = <<Base, "weights", 0>>
        /\ \A d \in Ctx : field'[d]["weights"] \in {Null, <<Base, "weights", 0>>}
    BY <1>3, <2>1, Constants DEF IInv, OwnInv
  <2>7. QED
    BY <1>2, <1>3, <2>2, <2>3, <2>4, <2>5, <2>6 DEF IInv, OwnInv, MadeFor
<1>12. NoDangling'
  <2>1. \A d \in Ctx : d \in InUse' <=> d \in InUse
    BY <1>2, <1>3 DEF InUse
  <2>2. \A d \in InUse, g \in Field : field[d][g] \in live \cup {Null}
    BY DEF IInv, NoDangling
  <2>3. ASSUME NEW d \in InUse', NEW g \in Field PROVE field'[d][g] \in live' \cup {Null}
    <3>1. d \in InUse /\ d \in Ctx
      BY <2>1, <2>3 DEF InUse
    <3>2. CASE d = c /\ g \in {"instruct", "ml_steer"}
      BY <1>5, <1>6, <3>2
    <3>3. CASE ~(d = c /\ g \in {"instruct", "ml_steer"})
      <4>1. field'[d][g] = field[d][g]
        BY <1>3, <1>5, <3>1, <3>3
      <4>2. QED
        BY <1>6, <1>7, <2>2, <3>1, <3>3, <4>1
    <3>4. QED
      BY <3>2, <3>3
  <2>4. QED
    BY <2>3 DEF NoDangling
<1>13. HeldInv'
  <2> SUFFICES ASSUME NEW o \in live' PROVE (\E d \in Ctx : Reaches(d, o)') \/ LeftOver(o)'
    BY DEF HeldInv
  <2>1. CASE o \in live \ Dropped(c)
    <3>1. \A d \in Ctx \ {c} : Reaches(d, o) => Reaches(d, o)'
      BY <1>2, <1>3 DEF Reaches, InUse
    <3>2. Reaches(c, o) => Reaches(c, o)'
      BY <1>2, <1>3, <1>5, <2>1 DEF Reaches, InUse, Dropped
    <3>3. LeftOver(o) => LeftOver(o)'
      BY <1>2, <1>3, Constants DEF LeftOver
    <3>4. QED
      BY <2>1, <3>1, <3>2, <3>3 DEF IInv, HeldInv
  <2>2. CASE o \in {Object(c, f)' : f \in new}
    BY <1>2, <1>3, <1>6, <2>2 DEF Reaches, InUse
  <2>3. QED
    BY <1>1, <2>1, <2>2
<1>14. QED
  BY <1>9, <1>10, <1>11, <1>12, <1>13 DEF IInv

LEMMA SpanStep ==
    ASSUME IInv, NEW c \in Ctx, Span(c)
    PROVE  IInv'
<1> DEFINE made == {f \in {"tokenizer", "lazy"} : field[c][f] = Null}
<1>1. PICK mood \in BOOLEAN :
         /\ field' = [field EXCEPT ![c] = [f \in Field |->
                CASE f \in made                  -> Object(c, f)
                  [] f = "ml_steer" /\ mood      -> SpanSteer(c)
                  [] OTHER                       -> field[c][f]]]
         /\ live' = live \cup {Object(c, f) : f \in made}
                         \cup (IF mood THEN {SpanSteer(c)} ELSE {})
  BY DEF Span
<1>2. /\ phase' = phase /\ requests' = requests /\ pc[c] = "span" /\ Typed
      /\ saved' = [saved EXCEPT ![c] = field[c]["ml_steer"]]
      /\ pc' = [pc EXCEPT ![c] = "synth"]
  BY DEF Span, Saved, IInv
<1>3. /\ \A d \in Ctx \ {c} : field'[d] = field[d] /\ pc'[d] = pc[d] /\ saved'[d] = saved[d]
      /\ pc'[c] = "synth" /\ saved'[c] = field[c]["ml_steer"]
      /\ pc' \in [Ctx -> {"none", "idle", "span", "synth", "freed"}]
      /\ made \subseteq Field \ {"weights", "ml_steer"}
  BY <1>1, <1>2 DEF Typed, Field
<1>4. /\ \A f \in Field : /\ Object(c, f) \in Objects /\ Object(c, f) # Null
                          /\ MadeFor(Object(c, f), c, f)
      /\ SpanSteer(c) \in Objects
  BY <1>2, IsMade DEF Object, SpanSteer
<1> HIDE DEF made
<1>5. /\ \A f \in made : field'[c][f] = Object(c, f)
      /\ field'[c]["ml_steer"] = IF mood THEN SpanSteer(c) ELSE field[c]["ml_steer"]
      /\ \A f \in Field \ (made \cup {"ml_steer"}) : field'[c][f] = field[c][f]
      /\ field' \in [Ctx -> [Field -> Objects \cup {Null}]]
  <2> DEFINE new == [f \in Field |-> CASE f \in made             -> Object(c, f)
                                       [] f = "ml_steer" /\ mood -> SpanSteer(c)
                                       [] OTHER                  -> field[c][f]]
  <2>1. new \in [Field -> Objects \cup {Null}]
    BY <1>2, <1>3, <1>4 DEF Typed
  <2>2. /\ \A f \in made : new[f] = Object(c, f)
        /\ new["ml_steer"] = IF mood THEN SpanSteer(c) ELSE field[c]["ml_steer"]
        /\ \A f \in Field \ (made \cup {"ml_steer"}) : new[f] = field[c][f]
    BY <1>3 DEF Field
  <2>3. field' = [field EXCEPT ![c] = new]
    BY <1>1
  <2> HIDE DEF new
  <2>4. field'[c] = new /\ field' \in [Ctx -> [Field -> Objects \cup {Null}]]
    BY <1>2, <2>1, <2>3 DEF Typed
  <2>5. QED
    BY <2>2, <2>4
<1>6. Typed'
  <2>1. live' \subseteq Objects
    BY <1>1, <1>2, <1>3, <1>4 DEF Typed
  <2>2. saved' \in [Ctx -> Objects \cup {Null}]
    BY <1>2 DEF Typed, Field
  <2>3. QED
    BY <1>2, <1>3, <1>5, <2>1, <2>2 DEF Typed
<1>7. PhaseInv'
  BY <1>2, <1>3 DEF IInv, PhaseInv
<1>8. live \subseteq live' /\ (c \in InUse) /\ (\A d \in Ctx : d \in InUse' <=> d \in InUse)
  BY <1>1, <1>2, <1>3 DEF InUse
<1>9. OwnInv'
  <2>1. field'[c]["weights"] = field[c]["weights"]
    BY <1>3, <1>5 DEF Field
  <2>2. \A f \in Owned \ {"ml_steer"} : MadeFor(field'[c][f], c, f)
    <3>1. Owned \subseteq Field
      BY DEF Owned
    <3>2. \A f \in Owned \ {"ml_steer"} : MadeFor(field[c][f], c, f)
      BY DEF IInv, OwnInv
    <3>3. QED
      BY <1>3, <1>4, <1>5, <3>1, <3>2
  <2>3. \A d \in Ctx : SpanSteer(d)' = SpanSteer(d)
    BY <1>2 DEF SpanSteer
  <2>4. MadeFor(saved'[c], c, "ml_steer") /\ saved'[c] \in live' \cup {Null}
    BY <1>2, <1>3, <1>8 DEF IInv, OwnInv, NoDangling, Field
  <2>5. field'[c]["ml_steer"] \in {saved'[c], SpanSteer(c)}
    BY <1>3, <1>5
  <2>6. /\ field'[Base]["weights"] = <<Base, "weights", 0>>
        /\ \A d \in Ctx : field'[d]["weights"] \in {Null, <<Base, "weights", 0>>}
    BY <1>3, <2>1, Constants DEF IInv, OwnInv
  <2>7. QED
    BY <1>2, <1>3, <1>8, <2>2, <2>3, <2>4, <2>5, <2>6 DEF IInv, OwnInv, MadeFor
<1>10. NoDangling'
  <2>1. \A d \in InUse, g \in Field : field[d][g] \in live \cup {Null}
    BY DEF IInv, NoDangling
  <2>2. \A g \in Field : field'[c][g] \in live' \cup {Null}
    BY <1>1, <1>5, <1>8, <2>1
  <2>3. QED
    BY <1>3, <1>8, <2>1, <2>2 DEF NoDangling, InUse
<1>11. HeldInv'
  <2> SUFFICES ASSUME NEW o \in live' PROVE (\E d \in Ctx : Reaches(d, o)') \/ LeftOver(o)'
    BY DEF HeldInv
  <2>1. CASE o \in live
    <3>1. \A d \in Ctx \ {c} : Reaches(d, o) => Reaches(d, o)'
      BY <1>2, <1>3 DEF Reaches, InUse
    <3>2. Reaches(c, o) => Reaches(c, o)'
      <4>1. o # Null
        BY <1>2, <2>1, Constants DEF Typed
      <4>2. \A f \in made : field[c][f] = Null
        BY DEF made
      <4>3. QED
        BY <1>2, <1>3, <1>5, <1>8, <4>1, <4>2 DEF Reaches
    <3>3. LeftOver(o) => LeftOver(o)'
      BY <1>2, <1>3, Constants DEF LeftOver
    <3>4. QED
      BY <2>1, <3>1, <3>2, <3>3 DEF IInv, HeldInv
  <2>2. CASE o \in {Object(c, f) : f \in made}
    BY <1>3, <1>5, <1>8, <2>2 DEF Reaches
  <2>3. CASE mood /\ o = SpanSteer(c)
    BY <1>5, <1>8, <2>3 DEF Reaches, Field
  <2>4. QED
    BY <1>1, <2>1, <2>2, <2>3
<1>12. QED
  BY <1>6, <1>7, <1>9, <1>10, <1>11 DEF IInv

LEMMA SpanDoneStep ==
    ASSUME IInv, NEW c \in Ctx, SpanDone(c)
    PROVE  IInv'
<1>1. /\ pc[c] = "synth" /\ phase' = phase /\ saved' = saved /\ requests' = requests /\ Typed
      /\ live' = live \ {SpanSteer(c)}
      /\ field' = [field EXCEPT ![c]["ml_steer"] = saved[c]]
  BY DEF SpanDone, IInv
<1>2. /\ \A d \in Ctx \ {c} : field'[d] = field[d] /\ pc'[d] = pc[d]
      /\ pc'[c] \in {"span", "idle"}
      /\ pc' \in [Ctx -> {"none", "idle", "span", "synth", "freed"}]
      /\ field'[c]["ml_steer"] = saved[c]
      /\ \A f \in Field \ {"ml_steer"} : field'[c][f] = field[c][f]
      /\ field' \in [Ctx -> [Field -> Objects \cup {Null}]]
  BY <1>1 DEF SpanDone, Typed, Field
<1>3. MadeFor(saved[c], c, "ml_steer") /\ saved[c] \in live \cup {Null} /\ saved[c] # SpanSteer(c)
  BY <1>1, SavedApart DEF IInv, OwnInv
<1>4. Typed'
  BY <1>1, <1>2 DEF Typed
<1>5. PhaseInv'
  <2>1. phase = "serving"
    BY <1>1 DEF IInv, PhaseInv, Typed
  <2>2. \A d \in Ctx : (pc'[d] = "none" <=> pc[d] = "none") /\ (pc'[d] = "freed" <=> pc[d] = "freed")
    BY <1>1, <1>2
  <2>3. QED
    BY <1>1, <2>1, <2>2, Constants DEF IInv, PhaseInv
<1>6. c \in InUse /\ (\A d \in Ctx : d \in InUse' <=> d \in InUse)
  BY <1>1, <1>2 DEF InUse
<1>7. OwnInv'
  <2>1. /\ field'[Base]["weights"] = <<Base, "weights", 0>>
        /\ \A d \in Ctx : field'[d]["weights"] \in {Null, <<Base, "weights", 0>>}
    BY <1>2, Constants DEF IInv, OwnInv, Field
  <2>2. \A d \in Ctx, f \in Owned \ {"ml_steer"} : MadeFor(field'[d][f], d, f)
    BY <1>2 DEF IInv, OwnInv, Owned
  <2>3. \A d \in Ctx : SpanSteer(d)' = SpanSteer(d)
    BY <1>1 DEF SpanSteer
  <2>4. \A d \in Ctx : pc'[d] # "synth" => MadeFor(field'[d]["ml_steer"], d, "ml_steer")
    BY <1>2, <1>3 DEF IInv, OwnInv
  <2>5. ASSUME NEW d \in Ctx, pc'[d] = "synth"
        PROVE  /\ MadeFor(saved'[d], d, "ml_steer") /\ saved'[d] \in live' \cup {Null}
               /\ field'[d]["ml_steer"] \in {saved'[d], SpanSteer(d)'}
    <3>1. d # c /\ pc[d] = "synth"
      BY <1>2, <2>5
    <3>2. saved[d] # SpanSteer(c)
      BY <3>1, SavedApart
    <3>3. QED
      BY <1>1, <1>2, <2>3, <3>1, <3>2 DEF IInv, OwnInv
  <2>6. QED
    BY <2>1, <2>2, <2>4, <2>5 DEF OwnInv, MadeFor
<1>8. NoDangling'
  <2>1. \A d \in InUse, g \in Field : field[d][g] \in live \cup {Null}
    BY DEF IInv, NoDangling
  <2>2. ASSUME NEW d \in Ctx, d \in InUse, NEW g \in Field, d # c \/ g # "ml_steer"
        PROVE  field'[d][g] \in live' \cup {Null}
    <3>1. field[d][g] # SpanSteer(c)
      BY <2>2, SpanApart
    <3>2. QED
      BY <1>1, <1>2, <2>1, <2>2, <3>1
  <2>3. field'[c]["ml_steer"] \in live' \cup {Null}
    BY <1>1, <1>2, <1>3
  <2>4. QED
    BY <1>6, <2>2, <2>3 DEF NoDangling, InUse
<1>9. HeldInv'
  <2> SUFFICES ASSUME NEW o \in live' PROVE (\E d \in Ctx : Reaches(d, o)') \/ LeftOver(o)'
    BY DEF HeldInv
  <2>1. o \in live /\ o # SpanSteer(c)
    BY <1>1
  <2>2. \A d \in Ctx \ {c} : Reaches(d, o) => Reaches(d, o)'
    BY <1>1, <1>2 DEF Reaches, InUse
  <2>3. Reaches(c, o) => Reaches(c, o)'
    <3>1. field[c]["ml_steer"] \in {saved[c], SpanSteer(c)} /\ "ml_steer" \in Field
      BY <1>1 DEF IInv, OwnInv, Field
    <3>2. QED
      BY <1>1, <1>2, <1>6, <2>1, <3>1 DEF Reaches
  <2>4. LeftOver(o) => LeftOver(o)'
    BY <1>1, <1>2, Constants DEF LeftOver
  <2>5. QED
    BY <2>1, <2>2, <2>3, <2>4 DEF IInv, HeldInv
<1>10. QED
  BY <1>4, <1>5, <1>7, <1>8, <1>9 DEF IInv

LEMMA FreeStep ==
    ASSUME IInv, NEW c \in Clone, FreeClone(c)
    PROVE  IInv'
<1> DEFINE freed == {field[c][f] : f \in Owned \ {"ml_steer"}}
<1>1. /\ phase = "joined" /\ phase' = phase /\ pc[c] = "idle" /\ c \in Ctx /\ c # Base
      /\ field' = field /\ saved' = saved /\ requests' = requests /\ Typed
      /\ live' = live \ freed
      /\ \A d \in Ctx \ {c} : pc'[d] = pc[d]
      /\ pc'[c] = "freed" /\ pc' \in [Ctx -> {"none", "idle", "span", "synth", "freed"}]
  BY Constants DEF FreeClone, IInv, Typed
<1>2. \A d \in Ctx : pc[d] \in {"none", "idle", "freed"}
  BY <1>1 DEF IInv, PhaseInv
<1>3. \A d \in Ctx, g \in Field : field[d][g] # Null /\ field[d][g] \in freed => d = c
  BY <1>1, Apart
<1> HIDE DEF freed
<1>4. Base \in InUse /\ pc[Base] = "idle"
  BY <1>1, Constants DEF IInv, PhaseInv, InUse
<1>5. Typed'
  BY <1>1 DEF Typed
<1>6. PhaseInv'
  BY <1>1, <1>2, Constants DEF IInv, PhaseInv
<1>7. OwnInv'
  <2>1. \A d \in Ctx : pc'[d] # "synth" /\ pc[d] # "synth"
    BY <1>1, <1>2
  <2>2. QED
    BY <1>1, <2>1 DEF IInv, OwnInv, MadeFor
<1>8. NoDangling'
  <2>1. \A d \in Ctx : d \in InUse' => d \in InUse /\ d # c
    BY <1>1 DEF InUse
  <2>2. \A d \in InUse, g \in Field : field[d][g] \in live \cup {Null}
    BY DEF IInv, NoDangling
  <2>3. QED
    BY <1>1, <1>3, <2>1, <2>2 DEF NoDangling, InUse
<1>9. HeldInv'
  <2> SUFFICES ASSUME NEW o \in live' PROVE (\E d \in Ctx : Reaches(d, o)') \/ LeftOver(o)'
    BY DEF HeldInv
  <2>1. o \in live /\ o \notin freed /\ o # Null
    BY <1>1, Constants DEF Typed
  <2>2. \A d \in Ctx \ {c} : Reaches(d, o) => Reaches(d, o)'
    BY <1>1 DEF Reaches, InUse
  <2>3. ASSUME Reaches(c, o) PROVE (\E d \in Ctx : Reaches(d, o)') \/ LeftOver(o)'
    <3>1. PICK f \in Field : o = field[c][f]
      BY <1>1, <2>3 DEF Reaches
    <3>2. CASE f \in Owned \ {"ml_steer"}
      BY <2>1, <3>1, <3>2 DEF freed
    <3>3. CASE f = "ml_steer"
      BY <1>1, <3>1, <3>3 DEF LeftOver
    <3>4. CASE f = "weights"
      <4>1. o = field[Base]["weights"]
        BY <1>1, <2>1, <3>1, <3>4 DEF IInv, OwnInv
      <4>2. QED
        BY <1>1, <1>4, <3>4, <4>1, Constants DEF Reaches, InUse
    <3>5. QED
      BY <3>2, <3>3, <3>4 DEF Owned
  <2>4. LeftOver(o) => LeftOver(o)'
    BY <1>1, <1>4 DEF LeftOver
  <2>5. QED
    BY <1>1, <2>1, <2>2, <2>3, <2>4 DEF IInv, HeldInv
<1>10. QED
  BY <1>5, <1>6, <1>7, <1>8, <1>9 DEF IInv

LEMMA UnloadStep ==
    ASSUME IInv, Unload
    PROVE  IInv'
<1>1. /\ phase = "joined" /\ phase' = "done" /\ \A c \in Clone : pc[c] \in {"freed", "none"}
      /\ field' = field /\ saved' = saved /\ requests' = requests /\ Typed
      /\ live' = live \ {field[Base][f] : f \in Field \ {"ml_steer", "swiglu_tmp"}}
      /\ \A d \in Ctx \ {Base} : pc'[d] = pc[d]
      /\ pc'[Base] = "freed" /\ pc' \in [Ctx -> {"none", "idle", "span", "synth", "freed"}]
  BY Constants DEF Unload, IInv, Typed
<1>2. pc[Base] = "idle" /\ \A d \in Ctx : pc'[d] \in {"none", "freed"}
  BY <1>1 DEF IInv, PhaseInv, Ctx
<1>3. Typed' /\ PhaseInv'
  BY <1>1, <1>2 DEF Typed, PhaseInv
<1>4. OwnInv'
  <2>1. \A d \in Ctx : pc'[d] # "synth" /\ pc[d] # "synth"
    BY <1>1, <1>2 DEF Ctx
  <2>2. QED
    BY <1>1, <2>1 DEF IInv, OwnInv, MadeFor
<1>5. NoDangling'
  BY <1>2 DEF NoDangling, InUse
<1>6. HeldInv'
  <2> SUFFICES ASSUME NEW o \in live' PROVE LeftOver(o)'
    BY DEF HeldInv
  <2>1. o \in live
    BY <1>1
  <2>2. CASE LeftOver(o)
    BY <1>1, <1>2, <2>2 DEF LeftOver
  <2>3. CASE \E d \in Ctx : Reaches(d, o)
    <3>1. Reaches(Base, o)
      BY <1>1, <2>3 DEF Reaches, InUse, Ctx
    <3>2. PICK f \in Field : o = field[Base][f]
      BY <1>2, <3>1 DEF Reaches
    <3>3. f \in {"ml_steer", "swiglu_tmp"}
      BY <1>1, <3>2
    <3>4. QED
      BY <1>1, <3>2, <3>3, Constants DEF LeftOver
  <2>4. QED
    BY <2>1, <2>2, <2>3 DEF IInv, HeldInv
<1>7. QED
  BY <1>3, <1>4, <1>5, <1>6 DEF IInv

\* A step that moves phase alone keeps the rest.
LEMMA PhaseStep ==
    ASSUME IInv, UNCHANGED <<pc, field, saved, live, requests>>,
           Serve \/ Join \/ phase' = phase
    PROVE  IInv'
<1>1. Typed'
  BY DEF IInv, Typed, Serve, Join
<1>2. PhaseInv'
  <2>1. CASE Serve
    BY <2>1 DEF IInv, PhaseInv, Serve
  <2>2. CASE Join
    <3>1. pc[Base] = "idle" /\ \A c \in Ctx : pc[c] \in {"none", "idle", "freed"}
      BY <2>2, Constants DEF IInv, PhaseInv, Join
    <3>2. QED
      BY <2>2, <3>1 DEF IInv, PhaseInv, Join
  <2>3. CASE phase' = phase
    BY <2>3 DEF IInv, PhaseInv
  <2>4. QED
    BY <2>1, <2>2, <2>3
<1>3. OwnInv'
  BY DEF IInv, OwnInv, MadeFor, SpanSteer
<1>4. NoDangling' /\ HeldInv'
  BY DEF IInv, NoDangling, InUse, HeldInv, Reaches, LeftOver
<1>5. QED
  BY <1>1, <1>2, <1>3, <1>4 DEF IInv

LEMMA NextInvariant == IInv /\ [Next]_vars => IInv'
<1> SUFFICES ASSUME IInv, [Next]_vars PROVE IInv'
  OBVIOUS
<1>1. CASE Serve \/ Join
  BY <1>1, PhaseStep DEF Serve, Join
<1>2. CASE Unload
  BY <1>2, UnloadStep
<1>3. ASSUME NEW c \in Clone, CloneForWorker(c) PROVE IInv'
  BY <1>3, CloneStep
<1>4. ASSUME NEW c \in Clone, FreeClone(c) PROVE IInv'
  BY <1>4, FreeStep
<1>5. ASSUME NEW c \in Ctx, Parse(c) PROVE IInv'
  BY <1>5, ParseStep
<1>6. ASSUME NEW c \in Ctx, Span(c) PROVE IInv'
  BY <1>6, SpanStep
<1>7. ASSUME NEW c \in Ctx, SpanDone(c) PROVE IInv'
  BY <1>7, SpanDoneStep
<1>8. CASE UNCHANGED vars
  BY <1>8, PhaseStep DEF vars
<1>9. QED
  BY <1>1, <1>2, <1>3, <1>4, <1>5, <1>6, <1>7, <1>8 DEF Next
-----------------------------------------------------------------------------
(* What follows.                                                           *)

\* Without a steering at the start the invariant holds in every reachable state.
THEOREM Invariance == ASSUME ~SteerAtStart PROVE Spec => []IInv
<1>1. Init => IInv
  BY InitInvariant
<1>2. IInv /\ [Next]_vars => IInv'
  BY NextInvariant
<1>3. QED
  BY <1>1, <1>2, PTL DEF Spec

\* A field holds an object made for that field, whatever is cloned, parsed,
\* synthesized and freed.
THEOREM TypeCorrect == ASSUME ~SteerAtStart PROVE Spec => []TypeOK
<1>1. IInv => TypeOK
  <2> SUFFICES ASSUME IInv PROVE TypeOK
    OBVIOUS
  <2>1. \A c \in Ctx : DOMAIN field[c] = Field
    BY DEF IInv, Typed
  <2>2. ASSUME NEW c \in Ctx, NEW f \in Field
        PROVE  \/ field[c][f] = Null
               \/ field[c][f][2] = f
               \/ f = "ml_steer" /\ field[c][f][2] = "span"
    <3>1. CASE f = "weights"
      BY <3>1 DEF IInv, OwnInv
    <3>2. CASE f \in Owned
      BY <3>2, HeldFor DEF MadeFor, SpanSteer
    <3>3. QED
      BY <3>1, <3>2 DEF Owned
  <2>3. \A o \in live : o[1] \in Ctx /\ o[2] \in Field \cup {"span"}
    BY DEF IInv, Typed, Objects
  <2>4. QED
    BY <2>1, <2>2, <2>3 DEF IInv, Typed, TypeOK
<1>2. QED
  BY <1>1, Invariance, PTL

\* Without a steering at the start the buffers of the worker contexts are sound:
\* no context in use points to a freed buffer, two that run side by side share
\* nothing that a synthesis changes, and nothing is lost.
THEOREM OwnBuffers == ASSUME ~SteerAtStart PROVE Spec => []BuffersSound
<1>1. IInv => BuffersSound
  <2> SUFFICES ASSUME IInv PROVE BuffersSound
    OBVIOUS
  <2>1. Separate
    <3> SUFFICES ASSUME NEW c \in InUse, NEW d \in InUse, NEW f \in Owned,
                        c # d, field[c][f] # Null, field[c][f] = field[d][f]
                 PROVE  FALSE
      BY DEF Separate
    <3>1. c \in Ctx /\ d \in Ctx /\ f \in Field
      BY DEF InUse, Owned
    <3>2. QED
      BY <3>1, Apart
  <2>2. NothingLost
    BY DEF NothingLost, IInv, HeldInv, Reaches, LeftOver, InUse
  <2>3. QED
    BY <2>1, <2>2 DEF IInv, BuffersSound, BuffersOwned
<1>2. QED
  BY <1>1, Invariance, PTL
-----------------------------------------------------------------------------
(* The settings of one context over its requests (RequestState), for every   *)
(* set of voices, moods and span lists and any number of requests, of a      *)
(* server without a voice: with one, a request's voice stays (README).       *)

\* A server without a .qvoice.
Voiceless == Settings!RequestAssumption /\ ~VoiceClone

\* What the variables hold.
SettingsTyped ==
    /\ spc \in {"idle", "parsed", "span", "synth"}
    /\ req \in Settings!Request
    /\ todo \in Seq(Mood \cup {Null})

\* The settings are those of the request, or the defaults, ...
AsRequested ==
    spc # "idle" =>
        /\ speaker = Settings!Given(req.speaker, Ryan) /\ language = Settings!Given(req.language, English)
        /\ sampling = req.sampling /\ instruct = req.instruct /\ design = req.design

\* ... the steering that of the request between its spans and that of the span
\* in one, to be put back after it, ...
SteeringInv ==
    /\ spc \in {"parsed", "span"} => steer = Settings!SteerAfter(req)
    /\ spc = "synth" =>
          /\ todo # << >> /\ before = Settings!SteerAfter(req)
          /\ steer = IF Head(todo) # Null /\ Large
                     THEN Settings!Installed(Head(todo), before) ELSE before

\* ... and only a stream streams, while it is served.
OutputInv ==
    /\ spc \in {"idle", "parsed"} => ~stream /\ target = "none"
    /\ spc \in {"span", "synth"} => stream = (req.stream /\ req.spans = << >>)

SettingsInv == SettingsTyped /\ AsRequested /\ SteeringInv /\ OutputInv

LEMMA SettingsInit == Voiceless /\ Settings!Init => SettingsInv
<1> SUFFICES ASSUME Voiceless, Settings!Init PROVE SettingsInv
  OBVIOUS
<1> USE DEF Settings!Init
<1>1. req \in Settings!Request
  BY DEF Voiceless, Settings!RequestAssumption, Settings!Request, Settings!Plain
<1>2. QED
  BY <1>1 DEF SettingsInv, SettingsTyped, AsRequested, SteeringInv, OutputInv

LEMMA SettingsStep == Voiceless /\ SettingsInv /\ [Settings!Next]_(Settings!vars) => SettingsInv'
<1> SUFFICES ASSUME Voiceless, SettingsInv, [Settings!Next]_(Settings!vars) PROVE SettingsInv'
  OBVIOUS
<1> USE DEF SettingsInv, SettingsTyped, AsRequested, SteeringInv, OutputInv, Settings!settings, Settings!outputVars
<1>1. ASSUME NEW r \in Settings!Request, Settings!Parse(r) PROVE SettingsInv'
  <2>1. CASE r.text
    BY <1>1, <2>1 DEF Settings!Parse, Settings!VoiceAfter, Voiceless, Settings!Given
  <2>2. CASE ~r.text
    BY <1>1, <2>2 DEF Settings!Parse
  <2>3. QED
    BY <2>1, <2>2
<1>2. CASE Settings!Prepare
  <2>1. req.spans \in Seq(Mood \cup {Null}) /\ <<Null>> \in Seq(Mood \cup {Null})
    BY DEF Settings!Request, Voiceless, Settings!RequestAssumption
  <2>2. Settings!Plain \in Settings!Request
    BY DEF Voiceless, Settings!RequestAssumption, Settings!Request, Settings!Plain
  <2>3. CASE design /\ ~Large
    BY <1>2, <2>2, <2>3 DEF Settings!Prepare
  <2>4. CASE ~(design /\ ~Large)
    BY <1>2, <2>1, <2>4 DEF Settings!Prepare, Settings!SteerAfter, Settings!Installed, Settings!Given
  <2>5. QED
    BY <2>3, <2>4
<1>3. CASE Settings!Span
  BY <1>3 DEF Settings!Span, Settings!SteerAfter, Settings!Installed, Settings!Given
<1>4. CASE Settings!SpanDone
  <2>1. todo' \in Seq(Mood \cup {Null})
    <3>1. todo # << >> /\ todo' \in {Tail(todo), << >>}
      BY <1>4 DEF Settings!SpanDone
    <3>2. Tail(todo) \in Seq(Mood \cup {Null}) /\ << >> \in Seq(Mood \cup {Null})
      BY <3>1, HeadTailProperties, EmptySeq
    <3>3. QED
      BY <3>1, <3>2
  <2>2. QED
    BY <1>4, <2>1 DEF Settings!SpanDone, Settings!SteerAfter, Settings!Installed, Settings!Given
<1>5. CASE Settings!Reply
  <2>1. Settings!Plain \in Settings!Request
    BY DEF Voiceless, Settings!RequestAssumption, Settings!Request, Settings!Plain
  <2>2. QED
    BY <1>5, <2>1 DEF Settings!Reply
<1>6. CASE UNCHANGED Settings!vars
  BY <1>6 DEF Settings!vars, Settings!SteerAfter, Settings!Installed, Settings!Given
<1>7. QED
  BY <1>1, <1>2, <1>3, <1>4, <1>5, <1>6 DEF Settings!Next

\* On a server without a voice every synthesis runs with what its own request
\* says and the server's defaults, whatever the requests before it said, and
\* no callback of a stream outlives it.
THEOREM RequestsDoNotLeak == ASSUME Voiceless PROVE Settings!Spec => []SettingsApart
<1>1. Settings!Init => SettingsInv
  BY SettingsInit
<1>2. SettingsInv /\ [Settings!Next]_(Settings!vars) => SettingsInv'
  BY SettingsStep
<1>3. SettingsInv => SettingsApart
  <2> SUFFICES ASSUME SettingsInv PROVE Settings!Isolated /\ Settings!NoStaleCallback
    BY DEF SettingsApart, Settings!SettingsApart
  <2>1. Settings!NoStaleCallback
    BY DEF Settings!NoStaleCallback, SettingsInv, OutputInv
  <2>2. ASSUME spc = "synth"
        PROVE  steer = IF ~Large THEN Null
                       ELSE Settings!Installed(Head(todo), Settings!Installed(req.emotion, Null))
    <3>1. Null \notin Installable
      BY DEF Voiceless, Settings!RequestAssumption
    <3>2. Settings!SteerAfter(req) = IF Large THEN Settings!Installed(req.emotion, Null) ELSE Null
      BY <3>1 DEF Settings!SteerAfter, Settings!Installed
    <3>3. QED
      BY <2>2, <3>1, <3>2 DEF SettingsInv, SteeringInv, Settings!Installed
  <2>3. QED
    BY <2>1, <2>2 DEF Settings!Isolated, SettingsInv, AsRequested, OutputInv, Voiceless
<1>4. QED
  BY <1>1, <1>2, <1>3, PTL DEF Settings!Spec
=============================================================================
