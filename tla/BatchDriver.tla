---------------------------- MODULE BatchDriver ----------------------------
(***************************************************************************)
(* The continuous batching driver (qwen_tts_serve_continuous in            *)
(* qwen_tts.c): one scheduler thread that admits queued jobs into free     *)
(* slots, steps all slots together one frame at a time and answers a job   *)
(* when its slot ends; and, on a reentrant kernel pool, a helper thread    *)
(* that takes the jobs off the queue and prefills them ahead of time.      *)
(*                                                                         *)
(* The job queue job_queue_t and the server's flag are this module's       *)
(* environment: here jobs just arrive; BatchServer has the threads that    *)
(* put them there.  A queue's critical section is one step and its waits   *)
(* are guards (WorkerPool shows that such a monitor implements that).      *)
(***************************************************************************)
EXTENDS Integers, Sequences, FiniteSets, SequencesExt, FiniteSetsExt

CONSTANTS Job,        \* batch_job_t
          Streams,    \* those with want_stream
          B,          \* max_batch
          GenCap,     \* GEN_CAP
          MaxPrompt,  \* MAXPROMPT
          Slack,      \* kv_max = MAXPROMPT + GEN_CAP + 4
          HelperModes,\* the values use_helper may have on this build
          NoJob

ASSUME DriverAssumption ==
    /\ IsFiniteSet(Job) /\ NoJob \notin Job /\ Streams \subseteq Job
    /\ B \in Nat \ {0} /\ GenCap \in Nat \ {0, 1}
    /\ MaxPrompt \in Nat \ {0} /\ Slack \in Nat
    /\ HelperModes \subseteq BOOLEAN /\ HelperModes # {}

VARIABLES
    running,          \* sink->running()
    jq, jqShut,       \* job_queue_t
    spc, at,          \* the scheduler: where it is, b of the admission loop
    tag, frames, pos, \* per slot: job, chframes (= sframe), pos
    hpc, hjob, hlen,  \* the helper: where it is, its job, pl (0 when not ok)
    pfq, pfqShut,     \* prefill_q_t
    arrived,          \* history: the jobs that were ever queued
    reply             \* history: what went to each job's client

queueVars  == <<jq, jqShut>>
slotVars   == <<tag, frames, pos>>
helperVars == <<hpc, hjob, hlen>>
readyVars  == <<pfq, pfqShut>>
driverVars == <<running, queueVars, spc, at, slotVars, helperVars, readyVars,
                arrived, reply>>

Slot == 1 .. B
KvMax == MaxPrompt + GenCap + Slack
PfqCap == IF B < 2 THEN B ELSE 2
\* use_helper, settled before the loop.
UseHelper == hpc # "none"

Active == {b \in Slot : tag[b] # NoJob}
Final == {"audio", "error", "end"}

DriverInit ==
    /\ running = TRUE
    /\ jq = << >> /\ jqShut = FALSE
    /\ spc = "test" /\ at = 1
    /\ tag = [b \in Slot |-> NoJob]
    /\ frames = [b \in Slot |-> 0] /\ pos = [b \in Slot |-> 0]
    /\ hpc \in {IF h THEN "next" ELSE "none" : h \in HelperModes}
    /\ hjob = NoJob /\ hlen = 0
    /\ pfq = << >> /\ pfqShut = FALSE
    /\ arrived = {}
    /\ reply = [j \in Job |-> << >>]

\* sink->on_done(tag, NULL, 0): an error response, or the end of a stream
\* whose header is sent.
Failed(j) == IF j \in Streams THEN "end" ELSE "error"
Fail(j) == [reply EXCEPT ![j] = Append(@, Failed(j))]
-----------------------------------------------------------------------------
(* The environment                                                         *)

\* jq_push
Arrive(j) ==
    /\ j \notin arrived /\ ~jqShut
    /\ arrived' = arrived \cup {j}
    /\ jq' = Append(jq, j)
    /\ UNCHANGED <<running, jqShut, spc, at, slotVars, helperVars, readyVars, reply>>

\* The signal handler.
Stop ==
    /\ running
    /\ running' = FALSE
    /\ UNCHANGED <<arrived, queueVars, spc, at, slotVars, helperVars, readyVars, reply>>

\* jq_shutdown, once the accept loop has ended.
ShutJq ==
    /\ ~running /\ ~jqShut
    /\ jqShut' = TRUE
    /\ UNCHANGED <<running, arrived, jq, spc, at, slotVars, helperVars, readyVars, reply>>
-----------------------------------------------------------------------------
(* The scheduler: admission                                                *)

\* while (sink->running() || n_active > 0)
Test ==
    /\ spc = "test"
    /\ spc' = IF running \/ Active # {} THEN "admit" ELSE "drain"
    /\ at' = 1
    /\ UNCHANGED <<running, arrived, queueVars, slotVars, helperVars, readyVars, reply>>

FreeFrom == {b \in Slot : b >= at /\ tag[b] = NoJob}

\* The next free slot, if there is one and the server is not stopping: with
\* the helper a server that stops still waits for a job when it is idle.
Admit ==
    /\ spc = "admit"
    /\ IF FreeFrom = {} \/ (~running /\ (UseHelper => Active # {}))
       THEN spc' = "idle" /\ UNCHANGED at
       ELSE spc' = "pop" /\ at' = Min(FreeFrom)
    /\ UNCHANGED <<running, arrived, queueVars, slotVars, helperVars, readyVars, reply>>

\* Mutant: a job whose prefill failed is skipped.
InstallOnly(j, len) ==
    /\ IF len = 0
       THEN UNCHANGED <<slotVars, reply>>
       ELSE /\ tag' = [tag EXCEPT ![at] = j]
            /\ frames' = [frames EXCEPT ![at] = 0]
            /\ pos' = [pos EXCEPT ![at] = len]
            /\ UNCHANGED reply
    /\ spc' = "admit" /\ at' = at + 1

\* Job j, prefilled to length len, in slot `at`, or rejected.
Install(j, len) ==
    /\ IF len = 0
       THEN reply' = Fail(j) /\ UNCHANGED slotVars
       ELSE /\ tag' = [tag EXCEPT ![at] = j]
            /\ frames' = [frames EXCEPT ![at] = 0]
            /\ pos' = [pos EXCEPT ![at] = len]
            /\ UNCHANGED reply
    /\ spc' = "admit" /\ at' = at + 1

\* pfq_pop(block = idle): a prefilled job, or none ready this frame.
PopReady ==
    /\ spc = "pop" /\ UseHelper
    /\ \/ /\ pfq # << >>
          /\ Install(Head(pfq).job, Head(pfq).len)
          /\ pfq' = Tail(pfq)
       \/ /\ pfq = << >> /\ (Active = {} => pfqShut)
          /\ spc' = "idle"
          /\ UNCHANGED <<at, slotVars, reply, pfq>>
    /\ UNCHANGED <<running, arrived, queueVars, helperVars, pfqShut>>

\* sink->next_job(block = idle) and the prefill, on the scheduler's context:
\* it fails, or the prompt is longer than MAXPROMPT, when len = 0.
PopJob ==
    /\ spc = "pop" /\ ~UseHelper
    /\ \/ /\ jq # << >>
          /\ \E len \in 0 .. MaxPrompt : Install(Head(jq), len)
          /\ jq' = Tail(jq)
       \/ /\ jq = << >> /\ (Active = {} => jqShut)
          /\ IF Active = {} THEN spc' = "idle" /\ UNCHANGED at
             ELSE spc' = "admit" /\ at' = at + 1
          /\ UNCHANGED <<slotVars, reply, jq>>
    /\ UNCHANGED <<running, arrived, jqShut, helperVars, readyVars>>

\* After the admission loop: without an active slot there is no frame.
Idle ==
    /\ spc = "idle"
    /\ spc' = IF Active # {} THEN "frame" ELSE IF running THEN "test" ELSE "drain"
    /\ UNCHANGED <<running, arrived, queueVars, at, slotVars, helperVars, readyVars, reply>>
-----------------------------------------------------------------------------
(* The scheduler: one frame of all slots                                   *)

\* A slot ends at EOS, which is suppressed for two frames, when its buffers
\* are full, or at the end of its KV cache.
MayEnd == {b \in Active : frames[b] >= 2}
MustEnd == {b \in Active : frames[b] >= GenCap \/ pos[b] >= KvMax - 1}

\* qwen_batch_talker_step_ragged refuses a position beyond the KV cache, of
\* whatever slot, free ones with their last position included.
StepRefused == \E b \in Slot : pos[b] + 1 > KvMax

\* What the client of slot b hears in this frame when the slots of `ending`
\* end, `decoded` is where the speech decoder succeeds and `broken` says
\* that the step failed.
Heard(b, ending, decoded, broken) ==
    IF b \in ending
    THEN << IF tag[b] \notin Streams /\ b \in decoded THEN "audio" ELSE Failed(tag[b]) >>
    ELSE (IF tag[b] \in Streams /\ b \in decoded THEN <<"chunk">> ELSE << >>)
         \o (IF broken THEN << Failed(tag[b]) >> ELSE << >>)

\* Mutant: the slot that ends keeps its tag.
FrameKeepsTag ==
    /\ spc = "frame"
    /\ \E eos \in SUBSET MayEnd, decoded \in SUBSET Active :
        LET ending == eos \cup MustEnd
            going  == Active \ ending
        IN /\ reply' = [j \in Job |->
                 IF \E b \in Active : tag[b] = j
                 THEN reply[j] \o Heard(CHOOSE b \in Active : tag[b] = j,
                                        ending, decoded, FALSE)
                 ELSE reply[j]]
           /\ frames' = [b \in Slot |-> IF b \in going THEN frames[b] + 1 ELSE frames[b]]
           /\ pos' = [b \in Slot |-> IF b \in going THEN pos[b] + 1 ELSE pos[b]]
           /\ spc' = "test"
    /\ UNCHANGED <<running, arrived, queueVars, at, tag, helperVars, readyVars>>

\* Sampling and FINALIZE_SLOT of the slots that end; for the others the code
\* predictor, the record of the frame, its chunk when streaming, and the
\* ragged Talker step, whose failure fails them all.
Frame ==
    /\ spc = "frame"
    /\ \E eos \in SUBSET MayEnd, decoded \in SUBSET Active :
        LET ending == eos \cup MustEnd
            going  == Active \ ending
            broken == going # {} /\ StepRefused
        IN /\ reply' = [j \in Job |->
                 IF \E b \in Active : tag[b] = j
                 THEN reply[j] \o Heard(CHOOSE b \in Active : tag[b] = j,
                                        ending, decoded, broken)
                 ELSE reply[j]]
           /\ tag' = [b \in Slot |-> IF b \in ending \/ broken THEN NoJob ELSE tag[b]]
           /\ frames' = [b \in Slot |-> IF b \in going THEN frames[b] + 1 ELSE frames[b]]
           /\ pos' = [b \in Slot |-> IF b \in going /\ ~broken THEN pos[b] + 1 ELSE pos[b]]
           /\ spc' = IF broken THEN "drain" ELSE "test"
    /\ UNCHANGED <<running, arrived, queueVars, at, helperVars, readyVars>>
-----------------------------------------------------------------------------
(* The scheduler: the end                                                  *)

\* After the loop: pfq_shutdown.
Drain ==
    /\ spc = "drain"
    /\ pfqShut' = (pfqShut \/ UseHelper)
    /\ spc' = IF UseHelper THEN "join" ELSE "exit"
    /\ UNCHANGED <<running, arrived, queueVars, at, slotVars, helperVars, pfq, reply>>

\* pthread_join; what is left in the ready queue is failed.
JoinHelper ==
    /\ spc = "join" /\ hpc = "exit"
    /\ reply' = [j \in Job |-> IF \E i \in DOMAIN pfq : pfq[i].job = j
                               THEN Append(reply[j], Failed(j)) ELSE reply[j]]
    /\ pfq' = << >>
    /\ spc' = "exit"
    /\ UNCHANGED <<running, arrived, queueVars, at, slotVars, helperVars, pfqShut>>
-----------------------------------------------------------------------------
(* prefill_helper_main                                                     *)

\* Mutant: the scheduler, blocked on the ready queue, is not told.
HelperNextSilent ==
    /\ hpc = "next"
    /\ \/ /\ jq # << >>
          /\ hjob' = Head(jq) /\ jq' = Tail(jq) /\ hpc' = "prefill"
       \/ /\ jq = << >> /\ jqShut
          /\ hpc' = "exit"
          /\ UNCHANGED <<hjob, jq>>
    /\ UNCHANGED <<running, arrived, jqShut, spc, at, slotVars, hlen, readyVars, reply>>

\* sink->next_job(block = 1); at the end pfq_shutdown.
HelperNext ==
    /\ hpc = "next"
    /\ \/ /\ jq # << >>
          /\ hjob' = Head(jq) /\ jq' = Tail(jq) /\ hpc' = "prefill"
          /\ UNCHANGED pfqShut
       \/ /\ jq = << >> /\ jqShut
          /\ hpc' = "exit" /\ pfqShut' = TRUE
          /\ UNCHANGED <<hjob, jq>>
    /\ UNCHANGED <<running, arrived, jqShut, spc, at, slotVars, hlen, pfq, reply>>

\* The prefill on the helper's own context and the snapshot of its KV cache.
HelperPrefill ==
    /\ hpc = "prefill"
    /\ \E len \in 0 .. MaxPrompt : hlen' = len
    /\ hpc' = "push"
    /\ UNCHANGED <<running, arrived, queueVars, spc, at, slotVars, hjob, readyVars, reply>>

\* pfq_push: waits for room; if the queue is shut down prefilled_free.
HelperPush ==
    /\ hpc = "push"
    /\ \/ /\ pfqShut
          /\ hpc' = "exit"
          /\ UNCHANGED pfq
       \/ /\ ~pfqShut /\ Len(pfq) < PfqCap
          /\ pfq' = Append(pfq, [job |-> hjob, len |-> hlen])
          /\ hpc' = "next"
    /\ hjob' = NoJob
    /\ UNCHANGED <<running, arrived, queueVars, spc, at, slotVars, hlen, pfqShut, reply>>
-----------------------------------------------------------------------------
Scheduler == Test \/ Admit \/ PopReady \/ PopJob \/ Idle \/ Frame \/ Drain \/ JoinHelper
Helper == HelperNext \/ HelperPrefill \/ HelperPush

DriverNext == Scheduler \/ Helper \/ (\E j \in Job : Arrive(j)) \/ Stop \/ ShutJq

DriverSpec == DriverInit /\ [][DriverNext]_driverVars

\* Both threads run, and once the server stops its queue is shut down.  No
\* job need come and no signal.
DriverFairSpec ==
    DriverSpec /\ WF_driverVars(Scheduler) /\ WF_driverVars(Helper) /\ WF_driverVars(ShutJq)
-----------------------------------------------------------------------------
(* Properties                                                              *)

\* Every variable has its type; the ready queue keeps to its capacity.
DriverTypeOK ==
    /\ running \in BOOLEAN
    /\ jq \in Seq(Job) /\ jqShut \in BOOLEAN
    /\ spc \in {"test", "admit", "pop", "idle", "frame", "drain", "join", "exit"}
    /\ at \in 1 .. B + 1 /\ (spc = "pop" => at \in FreeFrom)
    /\ tag \in [Slot -> Job \cup {NoJob}]
    /\ frames \in [Slot -> Nat] /\ pos \in [Slot -> Nat]
    /\ hpc \in {"none", "next", "prefill", "push", "exit"}
    /\ hjob \in Job \cup {NoJob} /\ hlen \in 0 .. MaxPrompt
    /\ pfq \in Seq([job : Job, len : 0 .. MaxPrompt]) /\ Len(pfq) <= PfqCap
    /\ pfqShut \in BOOLEAN
    /\ arrived \subseteq Job
    /\ reply \in [Job -> Seq(Final \cup {"chunk"})]

\* The frames of a slot fit its buffers prev_tok and chcodes, its positions
\* fit its share of the KV cache, and so the Talker step is never refused:
\* the "fatal step error" that fails every active request does not happen.
FramesFit ==
    /\ \A b \in Slot : frames[b] <= GenCap
    /\ ~StepRefused

Finished(j) == reply[j] # << >> /\ Last(reply[j]) \in Final

\* A client hears at most one final reply, nothing after it, chunks only if
\* it streams, and nothing before its job arrived.
ReplyWellFormed ==
    \A j \in Job :
        /\ j \notin arrived => reply[j] = << >>
        /\ \A i \in 1 .. Len(reply[j]) :
              IF i < Len(reply[j]) THEN reply[j][i] = "chunk" ELSE TRUE
        /\ j \notin Streams => Len(reply[j]) <= 1 /\ Range(reply[j]) \subseteq {"audio", "error"}
        /\ j \in Streams => Range(reply[j]) \subseteq {"chunk", "end"}

\* The places that hold job j, counted.
Owners(j) ==
    Cardinality({i \in DOMAIN jq : jq[i] = j})
    + (IF hjob = j THEN 1 ELSE 0)
    + Cardinality({i \in DOMAIN pfq : pfq[i].job = j})
    + Cardinality({b \in Slot : tag[b] = j})

\* Jobs that nobody holds and nobody has answered.
Unaccounted == {j \in arrived : Owners(j) = 0 /\ ~Finished(j)}

\* A job has one owner until it is answered and none afterwards (on_done
\* closes its descriptor and frees it); none gets lost while the server
\* runs, and at most the one in the helper's hands when it stops.
Accounted ==
    /\ \A j \in Job : Owners(j) <= (IF j \in arrived /\ ~Finished(j) THEN 1 ELSE 0)
    /\ Cardinality(Unaccounted) <= (IF UseHelper /\ ~running THEN 1 ELSE 0)

\* The driver keeps its slots within their buffers, its promises to the
\* clients and its books on the jobs.
JobsRight == FramesFit /\ ReplyWellFormed /\ Accounted

\* While the server runs every job is answered.
Answered == \A j \in Job : j \in arrived ~> Finished(j) \/ ~running

\* A server that stops gets its driver back, and the jobs in its slots are
\* answered before: neither thread waits for the other for ever.
DriverStops == ~running ~> spc = "exit" /\ hpc \in {"none", "exit"}

=============================================================================
