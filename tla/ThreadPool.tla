----------------------------- MODULE ThreadPool -----------------------------
(***************************************************************************)
(* The persistent pthread pool of qwen_tts_thread.c and its parallel-for   *)
(* qwen_parallel: one global job slot, workers that spin on a generation   *)
(* counter and then park on a condition variable, a submitter that takes   *)
(* part in the work and then waits for every worker to check in.           *)
(*                                                                         *)
(* Steps are the code's atomic operations and its critical sections: what  *)
(* a thread does while it holds P.mtx is one step, cond_wait ends it.      *)
(* A thread that spins is one that has not taken its next step yet.  The   *)
(* job lives in the submitter's stack frame, so the submitter names it.    *)
(***************************************************************************)
EXTENDS Naturals, FiniteSets

CONSTANTS Workers,       \* the threads the pool can hold
          Submitters,    \* application threads that call qwen_parallel
          MaxChunks,     \* largest nt of a call
          MaxCalls,      \* bound: calls of qwen_parallel
          MaxResizes,    \* bound: calls of qwen_threadpool_start that resize
          EarlyDispatch, \* may a call come before a new worker first runs?
          NoJob          \* P.job == NULL, and a free submit_mtx

ASSUME ConstantsAssumption ==
    /\ IsFiniteSet(Workers)
    /\ Workers \cap Submitters = {}
    /\ NoJob \notin Submitters
    /\ MaxChunks \in Nat \ {0}
    /\ MaxCalls \in Nat
    /\ MaxResizes \in Nat
    /\ EarlyDispatch \in BOOLEAN

VARIABLES
    pc,          \* where each thread is
    threads,     \* the workers created and not yet joined (P.threads)
    stop,        \* P.stop
    generation,  \* P.generation, bumped per dispatch and per stop
    completed,   \* P.completed, workers that checked in for the job
    sleeping,    \* P.sleeping, workers parked on P.wake
    mainSleeping,\* P.main_sleeping
    slot,        \* P.job
    submitMtx,   \* who holds P.submit_mtx
    seen,        \* worker_main's local: the generation it last handled
    job,         \* worker_main's local: the job it works on
    chunk,       \* run_chunks' local: the chunk a thread has claimed
    next, nt,    \* the two fields of each submitter's job
    ran,         \* history: ran[s][i] runs of chunk i of s's latest call
    calls, resizes, \* counters for the bounds
    want         \* qwen_threadpool_start's local, while it resizes

poolVars == <<threads, stop, want, resizes>>
jobVars  == <<chunk, next, nt, ran>>
vars == <<pc, poolVars, generation, completed, sleeping, mainSleeping, slot,
          submitMtx, seen, job, jobVars, calls>>

Chunks  == 0 .. MaxChunks - 1
NoRun   == [i \in Chunks |-> 0]
Runners == Workers \cup Submitters

\* The control points of a worker and of a submitter.
WorkerPC == {"none", "start", "spin", "park", "parked", "woken", "take",
             "loadgen", "loadjob", "claim", "run", "done", "signal"}
SubmitPC == {"idle", "inline", "lock", "post", "bump", "claim", "run",
             "check", "park", "parked", "woken", "clear"}

nworkers == Cardinality(threads)

Goto(t, l) == pc' = [pc EXCEPT ![t] = l]

\* pthread_cond_broadcast(&P.wake): every parked worker is to look again.
WakeAll(p) == [t \in Runners |->
                  IF t \in Workers /\ p[t] = "parked" THEN "woken" ELSE p[t]]

Init ==
    /\ pc = [t \in Runners |-> IF t \in Workers THEN "none" ELSE "idle"]
    /\ threads = {} /\ stop = FALSE /\ want = 0 /\ resizes = 0
    /\ generation = 0 /\ completed = 0
    /\ sleeping = 0 /\ mainSleeping = FALSE
    /\ slot = NoJob /\ submitMtx = NoJob
    /\ seen = [w \in Workers |-> 0]
    /\ job = [w \in Workers |-> NoJob]
    /\ chunk = [t \in Runners |-> 0]
    /\ next = [s \in Submitters |-> 0]
    /\ nt = [s \in Submitters |-> 0]
    /\ ran = [s \in Submitters |-> NoRun]
    /\ calls = 0
-----------------------------------------------------------------------------
(* qwen_threadpool_start and qwen_threadpool_stop.  They run on the main   *)
(* thread while no call is in flight (qwen_set_threads, qwen_init_threads).*)

Unused == \A s \in Submitters : pc[s] = "idle"

\* Mutant: the stop wakes nobody.
StopPoolSilently(n) ==
    /\ Unused /\ ~stop /\ threads # {} /\ n # nworkers
    /\ resizes < MaxResizes
    /\ stop' = TRUE
    /\ generation' = generation + 1
    /\ want' = n
    /\ UNCHANGED <<pc, threads, resizes, completed, sleeping, mainSleeping,
                   slot, submitMtx, seen, job, jobVars, calls>>

\* A start that changes the size of a running pool stops it first.
StopPool(n) ==
    /\ Unused /\ ~stop /\ threads # {} /\ n # nworkers
    /\ resizes < MaxResizes
    /\ stop' = TRUE
    /\ generation' = generation + 1
    /\ pc' = WakeAll(pc)
    /\ want' = n
    /\ UNCHANGED <<threads, resizes, completed, sleeping, mainSleeping, slot,
                   submitMtx, seen, job, jobVars, calls>>

\* The threads the loop over pthread_create got; a failure ends the loop,
\* so fewer than n may come up, and none when malloc fails.
CreateThreads(n) ==
    \E up \in SUBSET Workers :
        /\ Cardinality(up) <= n
        /\ threads' = up
        /\ pc' = [t \in Runners |-> IF t \in up THEN "start" ELSE pc[t]]
        /\ resizes' = resizes + 1

\* pthread_join of every worker, then the new pool comes up.
JoinAndStart ==
    /\ stop
    /\ \A w \in threads : pc[w] = "none"
    /\ stop' = FALSE
    /\ CreateThreads(want)
    /\ UNCHANGED <<want, generation, completed, sleeping, mainSleeping, slot,
                   submitMtx, seen, job, jobVars, calls>>

\* qwen_threadpool_start with no pool up: nothing to stop.
StartPool(n) ==
    /\ Unused /\ ~stop /\ threads = {} /\ n # 0
    /\ resizes < MaxResizes
    /\ CreateThreads(n)
    /\ UNCHANGED <<stop, want, generation, completed, sleeping, mainSleeping,
                   slot, submitMtx, seen, job, jobVars, calls>>
-----------------------------------------------------------------------------
(* run_chunks: claim the next chunk with an atomic add, run it, repeat.    *)

Claim(r, j, after) ==
    /\ pc[r] = "claim"
    /\ next' = [next EXCEPT ![j] = @ + 1]
    /\ IF next[j] < nt[j]
       THEN /\ chunk' = [chunk EXCEPT ![r] = next[j]]
            /\ Goto(r, "run")
       ELSE /\ Goto(r, after)
            /\ UNCHANGED chunk
    /\ UNCHANGED <<poolVars, generation, completed, sleeping, mainSleeping,
                   slot, submitMtx, seen, job, nt, ran, calls>>

RunChunk(r, j) ==
    /\ pc[r] = "run"
    /\ ran' = [ran EXCEPT ![j][chunk[r]] = @ + 1]
    /\ Goto(r, "claim")
    /\ UNCHANGED <<poolVars, generation, completed, sleeping, mainSleeping,
                   slot, submitMtx, seen, job, chunk, next, nt, calls>>
-----------------------------------------------------------------------------
(* qwen_parallel                                                           *)

\* nt == 1 or an empty pool: the caller runs the chunks itself.  nt == 0
\* returns at once and is not a step.
Enter(s, n) ==
    /\ pc[s] = "idle" /\ ~stop
    /\ calls < MaxCalls
    /\ EarlyDispatch \/ \A w \in Workers : pc[w] # "start"
    /\ calls' = calls + 1
    /\ nt' = [nt EXCEPT ![s] = n]
    /\ next' = [next EXCEPT ![s] = 0]
    /\ ran' = [ran EXCEPT ![s] = NoRun]
    /\ Goto(s, IF nworkers = 0 \/ n = 1 THEN "inline" ELSE "lock")
    /\ UNCHANGED <<poolVars, generation, completed, sleeping, mainSleeping,
                   slot, submitMtx, seen, job, chunk>>

Inline(s) ==
    /\ pc[s] = "inline"
    /\ IF next[s] < nt[s]
       THEN /\ ran' = [ran EXCEPT ![s][next[s]] = @ + 1]
            /\ next' = [next EXCEPT ![s] = @ + 1]
            /\ UNCHANGED pc
       ELSE /\ Goto(s, "idle")
            /\ UNCHANGED <<ran, next>>
    /\ UNCHANGED <<poolVars, generation, completed, sleeping, mainSleeping,
                   slot, submitMtx, seen, job, chunk, nt, calls>>

\* Mutant: the pool before submit_mtx was added.
LockSubmitUnguarded(s) ==
    /\ pc[s] = "lock"
    /\ submitMtx' = s
    /\ Goto(s, "post")
    /\ UNCHANGED <<poolVars, generation, completed, sleeping, mainSleeping,
                   slot, seen, job, jobVars, calls>>

LockSubmit(s) ==
    /\ pc[s] = "lock"
    /\ submitMtx = NoJob
    /\ submitMtx' = s
    /\ Goto(s, "post")
    /\ UNCHANGED <<poolVars, generation, completed, sleeping, mainSleeping,
                   slot, seen, job, jobVars, calls>>

\* P.job = &job and completed = 0, stored before the lock is taken.
Post(s) ==
    /\ pc[s] = "post"
    /\ slot' = s
    /\ completed' = 0
    /\ Goto(s, "bump")
    /\ UNCHANGED <<poolVars, generation, sleeping, mainSleeping, submitMtx,
                   seen, job, jobVars, calls>>

\* Mutant: one parked worker is not worth a broadcast.
BumpOffByOne(s) ==
    /\ pc[s] = "bump"
    /\ generation' = generation + 1
    /\ pc' = [(IF sleeping > 1 THEN WakeAll(pc) ELSE pc) EXCEPT ![s] = "claim"]
    /\ UNCHANGED <<poolVars, completed, sleeping, mainSleeping, slot,
                   submitMtx, seen, job, jobVars, calls>>

\* Under P.mtx: bump the generation, broadcast if a worker is parked.
Bump(s) ==
    /\ pc[s] = "bump"
    /\ generation' = generation + 1
    /\ pc' = [(IF sleeping > 0 THEN WakeAll(pc) ELSE pc) EXCEPT ![s] = "claim"]
    /\ UNCHANGED <<poolVars, completed, sleeping, mainSleeping, slot,
                   submitMtx, seen, job, jobVars, calls>>

\* Mutant: the submitter does not wait for the last worker.
CheckOffByOne(s) ==
    /\ pc[s] = "check"
    /\ Goto(s, IF completed + 1 >= nworkers THEN "clear" ELSE "park")
    /\ UNCHANGED <<poolVars, generation, completed, sleeping, mainSleeping,
                   slot, submitMtx, seen, job, jobVars, calls>>

\* The end of the submitter's spin on the atomic count.
Check(s) ==
    /\ pc[s] = "check"
    /\ Goto(s, IF completed = nworkers THEN "clear" ELSE "park")
    /\ UNCHANGED <<poolVars, generation, completed, sleeping, mainSleeping,
                   slot, submitMtx, seen, job, jobVars, calls>>

\* Under P.mtx, on the way into cond_wait(&P.complete) or back from it.
ParkMain(s) ==
    /\ pc[s] \in {"park", "woken"}
    /\ mainSleeping' = (completed # nworkers)
    /\ Goto(s, IF completed = nworkers THEN "clear" ELSE "parked")
    /\ UNCHANGED <<poolVars, generation, completed, sleeping, slot,
                   submitMtx, seen, job, jobVars, calls>>

\* P.job = NULL, submit_mtx released, the frame of the job is gone.
Clear(s) ==
    /\ pc[s] = "clear"
    /\ slot' = NoJob
    /\ submitMtx' = NoJob
    /\ Goto(s, "idle")
    /\ UNCHANGED <<poolVars, generation, completed, sleeping, mainSleeping,
                   seen, job, jobVars, calls>>
-----------------------------------------------------------------------------
(* worker_main                                                             *)

\* The first statement of the thread reads the generation of that moment.
Begin(w) ==
    /\ pc[w] = "start"
    /\ seen' = [seen EXCEPT ![w] = generation]
    /\ Goto(w, "spin")
    /\ UNCHANGED <<poolVars, generation, completed, sleeping, mainSleeping,
                   slot, submitMtx, job, jobVars, calls>>

\* The end of the spin: its last read of the generation decides.
EndSpin(w) ==
    /\ pc[w] = "spin"
    /\ Goto(w, IF generation = seen[w] THEN "park" ELSE "take")
    /\ UNCHANGED <<poolVars, generation, completed, sleeping, mainSleeping,
                   slot, submitMtx, seen, job, jobVars, calls>>

\* Mutant: a worker parks without counting itself.
ParkUncounted(w) ==
    /\ pc[w] = "park"
    /\ Goto(w, IF ~stop /\ generation = seen[w] THEN "parked" ELSE "take")
    /\ UNCHANGED <<poolVars, generation, completed, sleeping, mainSleeping,
                   slot, submitMtx, seen, job, jobVars, calls>>

\* Under P.mtx: announce the sleep, look again, and only then wait.
Park(w) ==
    /\ pc[w] = "park"
    /\ IF ~stop /\ generation = seen[w]
       THEN Goto(w, "parked") /\ sleeping' = sleeping + 1
       ELSE Goto(w, "take") /\ UNCHANGED sleeping
    /\ UNCHANGED <<poolVars, generation, completed, mainSleeping, slot,
                   submitMtx, seen, job, jobVars, calls>>

\* Back from cond_wait with P.mtx held: the while loop looks again.
Unpark(w) ==
    /\ pc[w] = "woken"
    /\ IF ~stop /\ generation = seen[w]
       THEN Goto(w, "parked") /\ UNCHANGED sleeping
       ELSE Goto(w, "take") /\ sleeping' = sleeping - 1
    /\ UNCHANGED <<poolVars, generation, completed, mainSleeping, slot,
                   submitMtx, seen, job, jobVars, calls>>

\* if (P.stop) break;
TakeOrExit(w) ==
    /\ pc[w] = "take"
    /\ Goto(w, IF stop THEN "none" ELSE "loadgen")
    /\ UNCHANGED <<poolVars, generation, completed, sleeping, mainSleeping,
                   slot, submitMtx, seen, job, jobVars, calls>>

LoadGeneration(w) ==
    /\ pc[w] = "loadgen"
    /\ seen' = [seen EXCEPT ![w] = generation]
    /\ Goto(w, "loadjob")
    /\ UNCHANGED <<poolVars, generation, completed, sleeping, mainSleeping,
                   slot, submitMtx, job, jobVars, calls>>

LoadJob(w) ==
    /\ pc[w] = "loadjob"
    /\ job' = [job EXCEPT ![w] = slot]
    /\ Goto(w, IF slot = NoJob THEN "done" ELSE "claim")
    /\ UNCHANGED <<poolVars, generation, completed, sleeping, mainSleeping,
                   slot, submitMtx, seen, jobVars, calls>>

\* Mutant: the count is compared before it is raised.
CheckInStale(w) ==
    /\ pc[w] = "done"
    /\ completed' = completed + 1
    /\ Goto(w, IF completed = nworkers THEN "signal" ELSE "spin")
    /\ UNCHANGED <<poolVars, generation, sleeping, mainSleeping, slot,
                   submitMtx, seen, job, jobVars, calls>>

\* The worker that brings the count to nworkers is the one to wake main.
CheckIn(w) ==
    /\ pc[w] = "done"
    /\ completed' = completed + 1
    /\ Goto(w, IF completed + 1 = nworkers THEN "signal" ELSE "spin")
    /\ UNCHANGED <<poolVars, generation, sleeping, mainSleeping, slot,
                   submitMtx, seen, job, jobVars, calls>>

\* Under P.mtx: cond_signal(&P.complete) if main has parked.  Only the
\* holder of submit_mtx can be parked there.
Signal(w) ==
    /\ pc[w] = "signal"
    /\ pc' = [t \in Runners |->
                 IF t = w THEN "spin"
                 ELSE IF t \in Submitters /\ mainSleeping /\ pc[t] = "parked"
                 THEN "woken" ELSE pc[t]]
    /\ UNCHANGED <<poolVars, generation, completed, sleeping, mainSleeping,
                   slot, submitMtx, seen, job, jobVars, calls>>

\* POSIX lets cond_wait return without a signal.
SpuriousWake(t) ==
    /\ pc[t] = "parked"
    /\ Goto(t, "woken")
    /\ UNCHANGED <<poolVars, generation, completed, sleeping, mainSleeping,
                   slot, submitMtx, seen, job, jobVars, calls>>
-----------------------------------------------------------------------------
WorkerStep(w) ==
    \/ Begin(w) \/ EndSpin(w) \/ Park(w) \/ Unpark(w) \/ TakeOrExit(w)
    \/ LoadGeneration(w) \/ LoadJob(w)
    \/ Claim(w, job[w], "done") \/ RunChunk(w, job[w])
    \/ CheckIn(w) \/ Signal(w)

CallStep(s) ==
    \/ Inline(s) \/ LockSubmit(s) \/ Post(s) \/ Bump(s)
    \/ Claim(s, s, "check") \/ RunChunk(s, s)
    \/ Check(s) \/ ParkMain(s) \/ Clear(s)

Next ==
    \/ \E n \in 0 .. Cardinality(Workers) : StopPool(n)
    \/ \E n \in 0 .. Cardinality(Workers) : StartPool(n)
    \/ JoinAndStart
    \/ \E s \in Submitters, n \in 1 .. MaxChunks : Enter(s, n)
    \/ \E s \in Submitters : CallStep(s)
    \/ \E w \in Workers : WorkerStep(w)
    \/ \E t \in Runners : SpuriousWake(t)

Spec == Init /\ [][Next]_vars

\* The scheduler runs every runnable thread.  Nothing makes a caller call,
\* a resize come or a wait return spuriously.
Fairness == /\ \A w \in Workers : WF_vars(WorkerStep(w))
            /\ \A s \in Submitters : WF_vars(CallStep(s))
            /\ WF_vars(JoinAndStart)

FairSpec == Spec /\ Fairness
-----------------------------------------------------------------------------
(* Properties                                                              *)

PcOK == /\ pc \in [Runners -> WorkerPC \cup SubmitPC]
        /\ \A w \in Workers : pc[w] \in WorkerPC
        /\ \A s \in Submitters : pc[s] \in SubmitPC

\* Every variable has its type.
TypeOK ==
    /\ PcOK
    /\ threads \in SUBSET Workers
    /\ stop \in BOOLEAN
    /\ generation \in Nat /\ completed \in Nat /\ sleeping \in Nat
    /\ mainSleeping \in BOOLEAN
    /\ slot \in Submitters \cup {NoJob}
    /\ submitMtx \in Submitters \cup {NoJob}
    /\ seen \in [Workers -> Nat]
    /\ job \in [Workers -> Submitters \cup {NoJob}]
    /\ chunk \in [Runners -> Chunks]
    /\ next \in [Submitters -> Nat]
    /\ nt \in [Submitters -> 0 .. MaxChunks]
    /\ ran \in [Submitters -> [Chunks -> Nat]]
    /\ calls \in Nat /\ resizes \in Nat
    /\ want \in 0 .. Cardinality(Workers)

\* The control points between which qwen_parallel's job may be in use.
Working == {"claim", "run", "check", "park", "parked", "woken"}

\* The job is a local variable of qwen_parallel: a worker that claims or
\* runs a chunk does it for the call in the slot, the call has not got past
\* its wait, and it is the call of the generation the worker saw, not a
\* later one that reuses the frame.
JobFrameAlive ==
    \A w \in Workers : pc[w] \in {"claim", "run"} =>
        /\ job[w] \in Submitters
        /\ slot = job[w] /\ submitMtx = job[w]
        /\ pc[job[w]] \in Working
        /\ seen[w] = generation

WorkersMayPark ==
    \A w \in Workers : pc[w] = "parked" => ~stop /\ generation = seen[w]

AnySignal == \E w \in Workers : pc[w] = "signal"

CallersMayPark ==
    \A s \in Submitters : pc[s] = "parked" =>
        mainSleeping /\ (completed # nworkers \/ AnySignal)

\* "lost-wakeup avoidance" in worker_main: a worker waits on P.wake only
\* while it has nothing to do, and the submitter waits on P.complete only
\* while a worker is yet to check in or is about to signal.
NoLostWakeup == WorkersMayPark /\ CallersMayPark

\* P.sleeping, which decides whether a dispatch pays for a broadcast, is
\* the number of workers inside cond_wait(&P.wake).
SleepingExact ==
    sleeping = Cardinality({w \in Workers : pc[w] \in {"parked", "woken"}})

\* When the wait of qwen_parallel is over, every chunk has run exactly once.
AllChunksRan ==
    \A s \in Submitters : pc[s] = "clear" =>
        \A i \in 0 .. nt[s] - 1 : ran[s][i] = 1

\* qwen_parallel implements the parallel-for of its header: a chunk never
\* runs twice and a call never returns before its chunks.
PF == INSTANCE ParallelFor
        WITH size <- [s \in Submitters |-> IF pc[s] = "idle" THEN 0 ELSE nt[s]]
ImplementsParallelFor == PF!PFSpec

\* Every call returns, whoever else calls.
CallsReturn ==
    \A s \in Submitters : pc[s] # "idle" ~> pc[s] = "idle"

\* qwen_threadpool_stop joins every worker: none sleeps through the stop.
StopJoins == stop ~> ~stop
-----------------------------------------------------------------------------
(* The inductive invariant: what keeps JobFrameAlive and AllChunksRan.     *)

Active(s)  == pc[s] \in Working
Holding    == Working \cup {"post", "bump", "clear"}
AtWork(w)  == pc[w] \in {"loadgen", "loadjob", "claim", "run", "done"}
\* w has checked in for the current generation, or came up too late for it.
Settled(w) == /\ seen[w] = generation
              /\ ~AtWork(w) /\ pc[w] # "start"
SettledSet == {w \in threads : Settled(w)}
AnyActive  == \E s \in Submitters : Active(s)

\* submit_mtx and the job slot follow the one call that is past the lock.
SlotInv ==
    /\ \A s \in Submitters : pc[s] \in Holding <=> submitMtx = s
    /\ slot # NoJob => submitMtx = slot
    /\ \A s \in Submitters : pc[s] \in (Working \cup {"bump", "clear"}) => slot = s
    /\ stop => Unused

\* No worker is behind the generation unless a dispatch or a stop is under
\* way, and one that works does so for the call in the slot.
WorkerInv ==
    \A w \in Workers :
        /\ seen[w] <= generation
        /\ pc[w] # "none" => w \in threads
        /\ AtWork(w) => AnyActive
        /\ pc[w] \in {"loadjob", "claim", "run", "done"} => seen[w] = generation
        /\ pc[w] \in {"claim", "run"} => job[w] = slot /\ slot # NoJob
        /\ pc[w] \in {"take", "loadgen"} => stop \/ seen[w] # generation
        /\ (w \in threads /\ pc[w] # "start" /\ seen[w] # generation)
              => stop \/ AnyActive
        /\ pc[w] = "none" /\ w \in threads => stop

\* A worker that has checked in once for this generation is settled, so the
\* count reaches nworkers only when all are.
CountInv ==
    /\ \A s \in Submitters : pc[s] = "bump" => completed = 0
    /\ AnyActive => completed <= Cardinality(SettledSet)
    /\ \A s \in Submitters : pc[s] = "clear" => \A w \in threads : Settled(w)

\* The job a thread claims chunks of.
JobOf(r) == IF r \in Workers THEN job[r] ELSE r

Runs(r, s, i) == pc[r] = "run" /\ JobOf(r) = s /\ chunk[r] = i

\* A chunk below next has run or is in somebody's hands.
Claimed(s, i) ==
    /\ i >= next[s] => ran[s][i] = 0
    /\ (i < next[s] /\ i < nt[s]) =>
           ran[s][i] = 1 \/ \E r \in Runners : Runs(r, s, i)

\* A chunk in a thread's hands has not run, and is in nobody else's.
InHand(q, s, i) ==
    Runs(q, s, i) => /\ i < next[s] /\ i < nt[s] /\ ran[s][i] = 0
                     /\ \A r \in Runners : Runs(r, s, i) => q = r

ClaimedInv == \A s \in Submitters, i \in Chunks : Claimed(s, i)
RunnerInv  == \A q \in Runners, s \in Submitters, i \in Chunks : InHand(q, s, i)

\* How far a call is, and that its workers stay inside it.
CallInv ==
    \A s \in Submitters :
        /\ pc[s] \in {"lock", "post", "bump"} => next[s] = 0
        /\ pc[s] \in {"check", "park", "parked", "woken", "clear"} => next[s] >= nt[s]
        /\ pc[s] # "idle" => nt[s] # 0
        /\ \A w \in Workers :
              pc[w] \in {"claim", "run"} /\ job[w] = s => Active(s)

ChunkInv == ClaimedInv /\ RunnerInv /\ CallInv

IInv == TypeOK /\ SleepingExact /\ SlotInv /\ WorkerInv /\ CountInv /\ ChunkInv
=============================================================================
