----------------------------- MODULE DecoderPool -----------------------------
(****************************************************************************)
(* The second pool of threads, of qwen_tts_kernels.c: sd_pool_run gives the *)
(* speech decoder's convolutions and activations helpers of its own, so     *)
(* that it need not wait for the generator's pool.  One job is posted at a  *)
(* time; every helper takes every job, and the caller waits for all.        *)
(*                                                                          *)
(* What is done under sdp_mu is one step; a condition wait ends it.  A job  *)
(* (sd_conv_job_t, snake_job_t) is a local of the caller: a counter from    *)
(* which caller and helpers claim pieces of work.                           *)
(****************************************************************************)
EXTENDS Integers, FiniteSets

CONSTANTS
  Helpers,    \* threads the pool can have; SD_POOL_MAX_WORKERS
  Callers,    \* threads that decode
  Together,   \* may two of them decode at once?
  MaxPieces,  \* bound: panels or channels of a job
  MaxJobs,    \* bound: jobs
  None

\* What the constants are.
PoolAssumption ==
  /\ IsFiniteSet(Helpers) /\ Helpers \cap Callers = {}
  /\ None \notin Callers
  /\ Together \in BOOLEAN
  /\ MaxPieces \in Nat \ {0} /\ MaxJobs \in Nat

VARIABLES
  pc,        \* where each thread is
  started,   \* sdp_started
  gen,       \* sdp_gen
  pending,   \* sdp_pending
  ctx,       \* sdp_ctx: whose job is posted
  seen,      \* a helper's local: the generation it has taken
  job,       \* a helper's local: whose job it works on
  piece,     \* what a thread has claimed
  next, n,   \* of each caller's job: the counter and the number of pieces
  posted,    \* history: the generation each caller's job was posted as
  ran        \* history: how often each piece of it has been done
poolVars == <<started, gen, pending, ctx>>
jobVars == <<next, n, posted, ran>>
vars == <<pc, poolVars, seen, job, piece, jobVars>>

Threads == Helpers \cup Callers
Pieces == 0..(MaxPieces - 1)
NoRun == [i \in Pieces |-> 0]

HelperPC == {"none", "look", "parked", "claim", "do", "done"}
CallerPC == {"idle", "claim", "do", "wait", "parked"}

nworkers == Cardinality({h \in Helpers : pc[h] # "none"})

Init ==
  /\ pc = [t \in Threads |-> IF t \in Helpers THEN "none" ELSE "idle"]
  /\ started = FALSE /\ gen = 0 /\ pending = 0 /\ ctx = None
  /\ seen = [h \in Helpers |-> 0]
  /\ job = [h \in Helpers |-> None]
  /\ piece = [t \in Threads |-> 0]
  /\ next = [c \in Callers |-> 0] /\ n = [c \in Callers |-> 0]
  /\ posted = [c \in Callers |-> 0]
  /\ ran = [c \in Callers |-> NoRun]

Goto(t, l) == pc' = [pc EXCEPT ![t] = l]

-----------------------------------------------------------------------------
(* sd_pool_run.                                                             *)

\* A generation by itself decodes in one thread; synthesis of the workers of a
\* server is serialized.  The scheduler and the single-job worker of the batch
\* server are not.
MayCall(c) == pc[c] = "idle" /\ (Together \/ \A d \in Callers : pc[d] = "idle")

\* The first call creates helpers; those pthread_create gets.
Up == IF started THEN {{h \in Helpers : pc[h] # "none"}} ELSE SUBSET Helpers

\* Mutant: pending is set before the helpers are created.
PostBeforeStart(c, k) ==
  /\ MayCall(c) /\ gen < MaxJobs
  /\ \E up \in Up :
       pc' = [t \in Threads |-> IF t = c THEN "claim"
                                ELSE IF t \in up /\ pc[t] \in {"none", "parked"} THEN "look"
                                ELSE pc[t]]
  /\ started' = TRUE /\ gen' = gen + 1 /\ pending' = nworkers /\ ctx' = c
  /\ next' = [next EXCEPT ![c] = 0] /\ n' = [n EXCEPT ![c] = k]
  /\ posted' = [posted EXCEPT ![c] = gen + 1]
  /\ ran' = [ran EXCEPT ![c] = NoRun]
  /\ UNCHANGED <<seen, job, piece>>

\* A job of k pieces is posted and every parked helper woken.
Post(c, k) ==
  /\ MayCall(c) /\ gen < MaxJobs
  /\ \E up \in Up :
       /\ pc' = [t \in Threads |-> IF t = c THEN "claim"
                                   ELSE IF t \in up /\ pc[t] \in {"none", "parked"} THEN "look"
                                   ELSE pc[t]]
       /\ pending' = Cardinality(up)
  /\ started' = TRUE /\ gen' = gen + 1 /\ ctx' = c
  /\ next' = [next EXCEPT ![c] = 0] /\ n' = [n EXCEPT ![c] = k]
  /\ posted' = [posted EXCEPT ![c] = gen + 1]
  /\ ran' = [ran EXCEPT ![c] = NoRun]
  /\ UNCHANGED <<seen, job, piece>>

\* Mutant: the caller takes the end of its own pieces for the end of the job.
ReturnEarly(c) ==
  /\ pc[c] = "wait"
  /\ Goto(c, "idle")
  /\ UNCHANGED <<poolVars, seen, job, piece, jobVars>>

\* The wait for all helpers: it returns, or parks on sdp_done_cv.
Wait(c) ==
  /\ pc[c] = "wait"
  /\ Goto(c, IF pending > 0 THEN "parked" ELSE "idle")
  /\ UNCHANGED <<poolVars, seen, job, piece, jobVars>>

\* Both waits may end for no reason.
Spurious(t) ==
  /\ pc[t] = "parked"
  /\ Goto(t, IF t \in Callers THEN "wait" ELSE "look")
  /\ UNCHANGED <<poolVars, seen, job, piece, jobVars>>

-----------------------------------------------------------------------------
(* sd_conv1d_worker, snake_worker: the job, run by the caller and helpers.  *)

Whose(t) == IF t \in Callers THEN t ELSE job[t]

Claim(t) ==
  LET c == Whose(t)
  IN /\ pc[t] = "claim"
     /\ piece' = [piece EXCEPT ![t] = next[c]]
     /\ next' = [next EXCEPT ![c] = @ + 1]
     /\ Goto(t, IF next[c] < n[c] THEN "do" ELSE IF t \in Callers THEN "wait" ELSE "done")
     /\ UNCHANGED <<poolVars, seen, job, n, posted, ran>>

Do(t) ==
  /\ pc[t] = "do"
  /\ ran' = [ran EXCEPT ![Whose(t)][piece[t]] = @ + 1]
  /\ Goto(t, "claim")
  /\ UNCHANGED <<poolVars, seen, job, piece, next, n, posted>>

-----------------------------------------------------------------------------
(* sdp_worker_main.                                                         *)

\* Takes the job of the newest generation, or parks on sdp_cv.
Look(h) ==
  /\ pc[h] = "look"
  /\ IF gen = seen[h]
     THEN Goto(h, "parked") /\ UNCHANGED <<seen, job>>
     ELSE /\ Goto(h, "claim")
          /\ seen' = [seen EXCEPT ![h] = gen]
          /\ job' = [job EXCEPT ![h] = ctx]
  /\ UNCHANGED <<poolVars, piece, jobVars>>

\* The last to check in signals sdp_done_cv, which wakes one caller.
CheckIn(h) ==
  LET parked == {c \in Callers : pc[c] = "parked"}
  IN /\ pc[h] = "done"
     /\ pending' = pending - 1
     /\ IF pending = 1 /\ parked # {}
        THEN \E c \in parked : pc' = [pc EXCEPT ![h] = "look", ![c] = "wait"]
        ELSE Goto(h, "look")
     /\ UNCHANGED <<started, gen, ctx, seen, job, piece, jobVars>>

-----------------------------------------------------------------------------

CallerStep(c) == Wait(c) \/ Claim(c) \/ Do(c)
HelperStep(h) == Look(h) \/ Claim(h) \/ Do(h) \/ CheckIn(h)

Next ==
  \/ \E c \in Callers : CallerStep(c) \/ (\E k \in 1..MaxPieces : Post(c, k))
  \/ \E h \in Helpers : HelperStep(h)
  \/ \E t \in Threads : Spurious(t)

Spec == Init /\ [][Next]_vars

\* The scheduler runs every runnable thread.
Fairness == /\ \A c \in Callers : WF_vars(CallerStep(c))
            /\ \A h \in Helpers : WF_vars(HelperStep(h))

FairSpec == Spec /\ Fairness

-----------------------------------------------------------------------------
(* Properties.                                                              *)

\* A helper works only on the job that is posted, while its caller is still in
\* the call: the frame the job lives in, its counter and its output are there.
DecoderJobAlive ==
  \A h \in Helpers : pc[h] \in {"claim", "do"} =>
     /\ pc[job[h]] # "idle"
     /\ posted[job[h]] = seen[h]

\* sd_pool_run returns, although a helper wakes one caller only.
CallsReturn == \A c \in Callers : pc[c] # "idle" ~> pc[c] = "idle"

\* Every piece of a job is done once, and all of them before the call returns:
\* the promise of the parallel-for that the decoder does without.
PF == INSTANCE ParallelFor WITH
  Submitters <- Callers, MaxChunks <- MaxPieces,
  size <- [c \in Callers |-> IF pc[c] = "idle" THEN 0 ELSE n[c]], ran <- ran
DecoderImplementsParallelFor == PF!PFSpec
=============================================================================
