-------------------------- MODULE ThreadPool_proofs --------------------------
(***************************************************************************)
(* What the thread pool keeps for every number of workers, submitters,     *)
(* chunks, calls and resizes.  IInv is preserved step by step, one lemma   *)
(* per conjunct, one numbered step per action; NoLostWakeup goes with it.  *)
(* At the end what DecoderPool_proofs proves of the decoder's own pool is  *)
(* brought to the two pools side by side, as the run has them.             *)
(***************************************************************************)
EXTENDS MCPools, FiniteSetTheorems, TLAPS

Asleep == {w \in Workers : pc[w] \in {"parked", "woken"}}

\* The workers inside cond_wait are finitely many, now and after the step.
LEMMA AsleepFinite == IsFiniteSet(Asleep) /\ IsFiniteSet(Asleep')
<1>1. Asleep \subseteq Workers /\ Asleep' \subseteq Workers
  BY DEF Asleep
<1>2. QED
  BY <1>1, FS_Subset, ConstantsAssumption

\* A worker inside cond_wait is counted.
LEMMA CountedAsleep ==
    ASSUME SleepingExact, NEW w \in Workers, pc[w] \in {"parked", "woken"}
    PROVE  sleeping \in Nat /\ sleeping # 0
<1>1. w \in Asleep
  BY DEF Asleep
<1>2. Asleep # {} /\ sleeping = Cardinality(Asleep)
  BY <1>1 DEF SleepingExact, Asleep
<1>3. QED
  BY <1>2, AsleepFinite, FS_EmptySet, FS_CardinalityType


\* A thread moves to a control point of its own code.
LEMMA GotoType ==
    ASSUME PcOK, NEW t \in Runners, NEW l, Goto(t, l),
           t \in Workers => l \in WorkerPC, t \in Submitters => l \in SubmitPC
    PROVE  PcOK'
BY DEF PcOK, Goto, Runners

\* Claiming a chunk moves next on and, when there is one left, takes it.
LEMMA ClaimType ==
    ASSUME TypeOK, NEW r \in Runners, NEW j \in Submitters, NEW after,
           Claim(r, j, after)
    PROVE  next' \in [Submitters -> Nat] /\ chunk' \in [Runners -> Chunks]
<1>1. next' \in [Submitters -> Nat]
  <2>1. next' = [next EXCEPT ![j] = next[j] + 1]
    BY DEF Claim
  <2>2. next \in [Submitters -> Nat] /\ next[j] + 1 \in Nat
    BY DEF TypeOK
  <2>3. QED
    BY <2>1, <2>2
<1>2. chunk \in [Runners -> Chunks]
  BY DEF TypeOK
<1>3. CASE next[j] < nt[j]
  <2>1. chunk' = [chunk EXCEPT ![r] = next[j]]
    BY <1>3 DEF Claim
  <2>2. next[j] \in Chunks
    BY <1>3, ConstantsAssumption DEF TypeOK, Chunks
  <2>3. QED
    BY <2>1, <2>2, <1>1, <1>2
<1>4. CASE ~(next[j] < nt[j])
  <2>1. chunk' = chunk
    BY <1>4 DEF Claim
  <2>2. QED
    BY <2>1, <1>1, <1>2
<1>5. QED
  BY <1>3, <1>4

\* Every step keeps the types; an un-park needs the sleep count to be
\* positive, which SleepingExact gives.
LEMMA TypeStep == TypeOK /\ SleepingExact /\ WorkerInv /\ [Next]_vars => TypeOK'
<1> SUFFICES ASSUME TypeOK /\ SleepingExact /\ WorkerInv, [Next]_vars PROVE TypeOK'
  OBVIOUS
<1> USE ConstantsAssumption DEF TypeOK, poolVars, jobVars
<1>1. ASSUME NEW n \in 0 .. Cardinality(Workers), StopPool(n) PROVE TypeOK'
  <2>1. PcOK'
    BY <1>1 DEF StopPool, WakeAll, PcOK, WorkerPC, Runners
  <2>2. QED
    BY <1>1, <2>1 DEF StopPool
<1>2. ASSUME NEW n \in 0 .. Cardinality(Workers), StartPool(n) PROVE TypeOK'
  <2>1. PcOK'
    BY <1>2 DEF StartPool, CreateThreads, PcOK, WorkerPC, Runners
  <2>2. QED
    BY <1>2, <2>1 DEF StartPool, CreateThreads
<1>3. ASSUME JoinAndStart PROVE TypeOK'
  <2>1. PcOK'
    BY <1>3 DEF JoinAndStart, CreateThreads, PcOK, WorkerPC, Runners
  <2>2. threads' \in SUBSET Workers /\ resizes' \in Nat
    BY <1>3 DEF JoinAndStart, CreateThreads, TypeOK
  <2>3. QED
    BY <1>3, <2>1, <2>2 DEF JoinAndStart
<1>4. ASSUME NEW s \in Submitters, NEW n \in 1 .. MaxChunks, Enter(s, n) PROVE TypeOK'
  <2>1. PcOK'
    BY <1>4, GotoType DEF Enter, WorkerPC, SubmitPC, Runners
  <2>2. QED
    BY <1>4, <2>1 DEF Enter, NoRun
<1>5. ASSUME NEW s \in Submitters, Inline(s) PROVE TypeOK'
  <2>1. PcOK'
    BY <1>5, GotoType DEF Inline, WorkerPC, SubmitPC, Runners, PcOK
  <2>2. next[s] < nt[s] => next[s] \in Chunks
    BY DEF Chunks
  <2>3. next' \in [Submitters -> Nat] /\ ran' \in [Submitters -> [Chunks -> Nat]]
    <3>1. CASE next[s] < nt[s]
      <4>1. next' \in [Submitters -> Nat]
        BY <1>5, <3>1 DEF Inline
      <4>2. ran' \in [Submitters -> [Chunks -> Nat]]
        <5>1. ran' = [ran EXCEPT ![s][next[s]] = ran[s][next[s]] + 1]
          BY <1>5, <3>1 DEF Inline
        <5>2. next[s] \in Chunks
          BY <2>2, <3>1
        <5>3. ran[s] \in [Chunks -> Nat] /\ ran[s][next[s]] + 1 \in Nat
          BY <5>2
        <5>4. QED
          BY <5>1, <5>2, <5>3
      <4>3. QED
        BY <4>1, <4>2
    <3>2. CASE ~(next[s] < nt[s])
      BY <1>5, <3>2 DEF Inline
    <3>3. QED
      BY <3>1, <3>2
  <2>4. QED
    BY <1>5, <2>1, <2>3 DEF Inline
<1>6. ASSUME NEW s \in Submitters, LockSubmit(s) PROVE TypeOK'
  <2>1. PcOK'
    BY <1>6, GotoType DEF LockSubmit, WorkerPC, SubmitPC, Runners
  <2>2. QED
    BY <1>6, <2>1 DEF LockSubmit
<1>7. ASSUME NEW s \in Submitters, Post(s) PROVE TypeOK'
  <2>1. PcOK'
    BY <1>7, GotoType DEF Post, WorkerPC, SubmitPC, Runners
  <2>2. QED
    BY <1>7, <2>1 DEF Post
<1>8. ASSUME NEW s \in Submitters, Bump(s) PROVE TypeOK'
  <2>1. PcOK'
    BY <1>8 DEF Bump, WakeAll, PcOK, WorkerPC, SubmitPC, Runners
  <2>2. QED
    BY <1>8, <2>1 DEF Bump
<1>9. ASSUME NEW s \in Submitters, Claim(s, s, "check") PROVE TypeOK'
  <2>1. PcOK'
    BY <1>9, GotoType DEF Claim, WorkerPC, SubmitPC, Runners
  <2>4. next' \in [Submitters -> Nat] /\ chunk' \in [Runners -> Chunks]
    BY <1>9, ClaimType DEF Runners
  <2>5. QED
    BY <1>9, <2>1, <2>4 DEF Claim
<1>10. ASSUME NEW s \in Submitters, RunChunk(s, s) PROVE TypeOK'
  <2>1. PcOK'
    BY <1>10, GotoType DEF RunChunk, WorkerPC, SubmitPC, Runners
  <2>2. QED
    BY <1>10, <2>1 DEF RunChunk, WorkerInv, Runners
<1>11. ASSUME NEW s \in Submitters, Check(s) PROVE TypeOK'
  <2>1. PcOK'
    BY <1>11, GotoType DEF Check, WorkerPC, SubmitPC, Runners
  <2>2. QED
    BY <1>11, <2>1 DEF Check
<1>12. ASSUME NEW s \in Submitters, ParkMain(s) PROVE TypeOK'
  <2>1. PcOK'
    BY <1>12, GotoType DEF ParkMain, WorkerPC, SubmitPC, Runners
  <2>2. QED
    BY <1>12, <2>1 DEF ParkMain
<1>13. ASSUME NEW s \in Submitters, Clear(s) PROVE TypeOK'
  <2>1. PcOK'
    BY <1>13, GotoType DEF Clear, WorkerPC, SubmitPC, Runners
  <2>2. QED
    BY <1>13, <2>1 DEF Clear
<1>14. ASSUME NEW w \in Workers, Begin(w) PROVE TypeOK'
  <2>1. PcOK'
    BY <1>14, GotoType DEF Begin, WorkerPC, SubmitPC, Runners
  <2>2. QED
    BY <1>14, <2>1 DEF Begin
<1>15. ASSUME NEW w \in Workers, EndSpin(w) PROVE TypeOK'
  <2>1. PcOK'
    BY <1>15, GotoType DEF EndSpin, WorkerPC, SubmitPC, Runners
  <2>2. QED
    BY <1>15, <2>1 DEF EndSpin
<1>16. ASSUME NEW w \in Workers, Park(w) PROVE TypeOK'
  <2>1. PcOK'
    BY <1>16, GotoType DEF Park, WorkerPC, SubmitPC, Runners
  <2>2. QED
    BY <1>16, <2>1 DEF Park
<1>17. ASSUME NEW w \in Workers, Unpark(w) PROVE TypeOK'
  <2>1. PcOK'
    BY <1>17, GotoType DEF Unpark, WorkerPC, SubmitPC, Runners
  <2>2. QED
    BY <1>17, <2>1, CountedAsleep DEF Unpark
<1>18. ASSUME NEW w \in Workers, TakeOrExit(w) PROVE TypeOK'
  <2>1. PcOK'
    BY <1>18, GotoType DEF TakeOrExit, WorkerPC, SubmitPC, Runners
  <2>2. QED
    BY <1>18, <2>1 DEF TakeOrExit
<1>19. ASSUME NEW w \in Workers, LoadGeneration(w) PROVE TypeOK'
  <2>1. PcOK'
    BY <1>19, GotoType DEF LoadGeneration, WorkerPC, SubmitPC, Runners
  <2>2. QED
    BY <1>19, <2>1 DEF LoadGeneration
<1>20. ASSUME NEW w \in Workers, LoadJob(w) PROVE TypeOK'
  <2>1. PcOK'
    BY <1>20, GotoType DEF LoadJob, WorkerPC, SubmitPC, Runners
  <2>2. QED
    BY <1>20, <2>1 DEF LoadJob
<1>21. ASSUME NEW w \in Workers, Claim(w, job[w], "done") PROVE TypeOK'
  <2>1. PcOK'
    BY <1>21, GotoType DEF Claim, WorkerPC, SubmitPC, Runners
  <2>2. job[w] \in Submitters
    BY <1>21 DEF Claim, WorkerInv
  <2>4. next' \in [Submitters -> Nat] /\ chunk' \in [Runners -> Chunks]
    BY <1>21, <2>2, ClaimType DEF Runners
  <2>5. QED
    BY <1>21, <2>1, <2>4 DEF Claim
<1>22. ASSUME NEW w \in Workers, RunChunk(w, job[w]) PROVE TypeOK'
  <2>1. PcOK'
    BY <1>22, GotoType DEF RunChunk, WorkerPC, SubmitPC, Runners
  <2>2. QED
    BY <1>22, <2>1 DEF RunChunk, WorkerInv, Runners
<1>23. ASSUME NEW w \in Workers, CheckIn(w) PROVE TypeOK'
  <2>1. PcOK'
    BY <1>23, GotoType DEF CheckIn, WorkerPC, SubmitPC, Runners
  <2>2. QED
    BY <1>23, <2>1 DEF CheckIn
<1>24. ASSUME NEW w \in Workers, Signal(w) PROVE TypeOK'
  <2>1. PcOK'
    BY <1>24 DEF Signal, PcOK, WorkerPC, SubmitPC, Runners
  <2>2. QED
    BY <1>24, <2>1 DEF Signal
<1>25. ASSUME NEW t \in Runners, SpuriousWake(t) PROVE TypeOK'
  <2>1. PcOK'
    BY <1>25, GotoType DEF SpuriousWake, WorkerPC, SubmitPC, Runners, PcOK
  <2>2. QED
    BY <1>25, <2>1 DEF SpuriousWake
<1>26. CASE UNCHANGED vars
  BY <1>26 DEF vars, poolVars, jobVars, Unused, PcOK
<1>27. QED
  BY <1>1, <1>2, <1>3, <1>4, <1>5, <1>6, <1>7, <1>8, <1>9, <1>10, <1>11, <1>12, <1>13, <1>14, <1>15, <1>16, <1>17, <1>18, <1>19, <1>20, <1>21, <1>22, <1>23, <1>24, <1>25, <1>26 DEF Next, CallStep, WorkerStep

\* P.sleeping moves exactly with the set of workers inside cond_wait.
LEMMA SleepingStep == PcOK /\ WorkerInv /\ SleepingExact /\ [Next]_vars => SleepingExact'
<1> SUFFICES ASSUME PcOK /\ WorkerInv /\ SleepingExact, [Next]_vars PROVE SleepingExact'
  OBVIOUS
<1> USE ConstantsAssumption DEF PcOK
<1>1. ASSUME NEW n \in 0 .. Cardinality(Workers), StopPool(n) PROVE SleepingExact'
  <2>1. Asleep' = Asleep
    BY <1>1 DEF Asleep, StopPool, Goto, PcOK, Runners, WakeAll
  <2>2. QED
    BY <1>1, <2>1 DEF SleepingExact, Asleep, StopPool
<1>2. ASSUME NEW n \in 0 .. Cardinality(Workers), StartPool(n) PROVE SleepingExact'
  <2>1. Asleep' = Asleep
    BY <1>2 DEF Asleep, StartPool, Goto, PcOK, Runners, WorkerInv, CreateThreads
  <2>2. QED
    BY <1>2, <2>1 DEF SleepingExact, Asleep, StartPool
<1>3. ASSUME JoinAndStart PROVE SleepingExact'
  <2>1. Asleep' = Asleep
    BY <1>3 DEF Asleep, JoinAndStart, Goto, PcOK, Runners, WorkerInv, CreateThreads
  <2>2. QED
    BY <1>3, <2>1 DEF SleepingExact, Asleep, JoinAndStart
<1>4. ASSUME NEW s \in Submitters, NEW n \in 1 .. MaxChunks, Enter(s, n) PROVE SleepingExact'
  <2>1. Asleep' = Asleep
    BY <1>4 DEF Asleep, Enter, Goto, PcOK, Runners
  <2>2. QED
    BY <1>4, <2>1 DEF SleepingExact, Asleep, Enter
<1>5. ASSUME NEW s \in Submitters, Inline(s) PROVE SleepingExact'
  <2>1. Asleep' = Asleep
    BY <1>5 DEF Asleep, Inline, Goto, PcOK, Runners
  <2>2. QED
    BY <1>5, <2>1 DEF SleepingExact, Asleep, Inline
<1>6. ASSUME NEW s \in Submitters, LockSubmit(s) PROVE SleepingExact'
  <2>1. Asleep' = Asleep
    BY <1>6 DEF Asleep, LockSubmit, Goto, PcOK, Runners
  <2>2. QED
    BY <1>6, <2>1 DEF SleepingExact, Asleep, LockSubmit
<1>7. ASSUME NEW s \in Submitters, Post(s) PROVE SleepingExact'
  <2>1. Asleep' = Asleep
    BY <1>7 DEF Asleep, Post, Goto, PcOK, Runners
  <2>2. QED
    BY <1>7, <2>1 DEF SleepingExact, Asleep, Post
<1>8. ASSUME NEW s \in Submitters, Bump(s) PROVE SleepingExact'
  <2>1. Asleep' = Asleep
    BY <1>8 DEF Asleep, Bump, Goto, PcOK, Runners, WakeAll
  <2>2. QED
    BY <1>8, <2>1 DEF SleepingExact, Asleep, Bump
<1>9. ASSUME NEW s \in Submitters, Claim(s, s, "check") PROVE SleepingExact'
  <2>1. Asleep' = Asleep
    BY <1>9 DEF Asleep, Claim, Goto, PcOK, Runners
  <2>2. QED
    BY <1>9, <2>1 DEF SleepingExact, Asleep, Claim
<1>10. ASSUME NEW s \in Submitters, RunChunk(s, s) PROVE SleepingExact'
  <2>1. Asleep' = Asleep
    BY <1>10 DEF Asleep, RunChunk, Goto, PcOK, Runners
  <2>2. QED
    BY <1>10, <2>1 DEF SleepingExact, Asleep, RunChunk
<1>11. ASSUME NEW s \in Submitters, Check(s) PROVE SleepingExact'
  <2>1. Asleep' = Asleep
    BY <1>11 DEF Asleep, Check, Goto, PcOK, Runners
  <2>2. QED
    BY <1>11, <2>1 DEF SleepingExact, Asleep, Check
<1>12. ASSUME NEW s \in Submitters, ParkMain(s) PROVE SleepingExact'
  <2>1. Asleep' = Asleep
    BY <1>12 DEF Asleep, ParkMain, Goto, PcOK, Runners
  <2>2. QED
    BY <1>12, <2>1 DEF SleepingExact, Asleep, ParkMain
<1>13. ASSUME NEW s \in Submitters, Clear(s) PROVE SleepingExact'
  <2>1. Asleep' = Asleep
    BY <1>13 DEF Asleep, Clear, Goto, PcOK, Runners
  <2>2. QED
    BY <1>13, <2>1 DEF SleepingExact, Asleep, Clear
<1>14. ASSUME NEW w \in Workers, Begin(w) PROVE SleepingExact'
  <2>1. Asleep' = Asleep
    BY <1>14 DEF Asleep, Begin, Goto, PcOK, Runners
  <2>2. QED
    BY <1>14, <2>1 DEF SleepingExact, Asleep, Begin
<1>15. ASSUME NEW w \in Workers, EndSpin(w) PROVE SleepingExact'
  <2>1. Asleep' = Asleep
    BY <1>15 DEF Asleep, EndSpin, Goto, PcOK, Runners
  <2>2. QED
    BY <1>15, <2>1 DEF SleepingExact, Asleep, EndSpin
<1>16. ASSUME NEW w \in Workers, Park(w) PROVE SleepingExact'
  <2>1. CASE ~stop /\ generation = seen[w]
    <3>1. w \notin Asleep /\ Asleep' = Asleep \cup {w} /\ sleeping' = sleeping + 1
      BY <1>16, <2>1 DEF Park, Goto, PcOK, Runners, Asleep
    <3>2. QED
      BY <3>1, AsleepFinite, FS_AddElement DEF SleepingExact, Asleep
  <2>2. CASE ~(~stop /\ generation = seen[w])
    <3>1. Asleep' = Asleep /\ sleeping' = sleeping
      BY <1>16, <2>2 DEF Park, Goto, PcOK, Runners, Asleep
    <3>2. QED
      BY <3>1 DEF SleepingExact, Asleep
  <2>3. QED
    BY <2>1, <2>2
<1>17. ASSUME NEW w \in Workers, Unpark(w) PROVE SleepingExact'
  <2>1. CASE ~stop /\ generation = seen[w]
    <3>1. Asleep' = Asleep /\ sleeping' = sleeping
      BY <1>17, <2>1 DEF Unpark, Goto, PcOK, Runners, Asleep
    <3>2. QED
      BY <3>1 DEF SleepingExact, Asleep
  <2>2. CASE ~(~stop /\ generation = seen[w])
    <3>1. w \in Asleep /\ Asleep' = Asleep \ {w} /\ sleeping' = sleeping - 1
      BY <1>17, <2>2 DEF Unpark, Goto, PcOK, Runners, Asleep
    <3>2. QED
      BY <3>1, AsleepFinite, FS_RemoveElement DEF SleepingExact, Asleep
  <2>3. QED
    BY <2>1, <2>2
<1>18. ASSUME NEW w \in Workers, TakeOrExit(w) PROVE SleepingExact'
  <2>1. Asleep' = Asleep
    BY <1>18 DEF Asleep, TakeOrExit, Goto, PcOK, Runners
  <2>2. QED
    BY <1>18, <2>1 DEF SleepingExact, Asleep, TakeOrExit
<1>19. ASSUME NEW w \in Workers, LoadGeneration(w) PROVE SleepingExact'
  <2>1. Asleep' = Asleep
    BY <1>19 DEF Asleep, LoadGeneration, Goto, PcOK, Runners
  <2>2. QED
    BY <1>19, <2>1 DEF SleepingExact, Asleep, LoadGeneration
<1>20. ASSUME NEW w \in Workers, LoadJob(w) PROVE SleepingExact'
  <2>1. Asleep' = Asleep
    BY <1>20 DEF Asleep, LoadJob, Goto, PcOK, Runners
  <2>2. QED
    BY <1>20, <2>1 DEF SleepingExact, Asleep, LoadJob
<1>21. ASSUME NEW w \in Workers, Claim(w, job[w], "done") PROVE SleepingExact'
  <2>1. Asleep' = Asleep
    BY <1>21 DEF Asleep, Claim, Goto, PcOK, Runners
  <2>2. QED
    BY <1>21, <2>1 DEF SleepingExact, Asleep, Claim
<1>22. ASSUME NEW w \in Workers, RunChunk(w, job[w]) PROVE SleepingExact'
  <2>1. Asleep' = Asleep
    BY <1>22 DEF Asleep, RunChunk, Goto, PcOK, Runners
  <2>2. QED
    BY <1>22, <2>1 DEF SleepingExact, Asleep, RunChunk
<1>23. ASSUME NEW w \in Workers, CheckIn(w) PROVE SleepingExact'
  <2>1. Asleep' = Asleep
    BY <1>23 DEF Asleep, CheckIn, Goto, PcOK, Runners
  <2>2. QED
    BY <1>23, <2>1 DEF SleepingExact, Asleep, CheckIn
<1>24. ASSUME NEW w \in Workers, Signal(w) PROVE SleepingExact'
  <2>1. Asleep' = Asleep
    BY <1>24 DEF Asleep, Signal, Goto, PcOK, Runners
  <2>2. QED
    BY <1>24, <2>1 DEF SleepingExact, Asleep, Signal
<1>25. ASSUME NEW t \in Runners, SpuriousWake(t) PROVE SleepingExact'
  <2>1. Asleep' = Asleep
    BY <1>25 DEF Asleep, SpuriousWake, Goto, PcOK, Runners
  <2>2. QED
    BY <1>25, <2>1 DEF SleepingExact, Asleep, SpuriousWake
<1>26. CASE UNCHANGED vars
  BY <1>26 DEF vars, poolVars, jobVars, Unused, SleepingExact
<1>27. QED
  BY <1>1, <1>2, <1>3, <1>4, <1>5, <1>6, <1>7, <1>8, <1>9, <1>10, <1>11, <1>12, <1>13, <1>14, <1>15, <1>16, <1>17, <1>18, <1>19, <1>20, <1>21, <1>22, <1>23, <1>24, <1>25, <1>26 DEF Next, CallStep, WorkerStep

\* submit_mtx keeps P.job and the calls past the lock in one pair of hands.
LEMMA SlotStep == TypeOK /\ SlotInv /\ [Next]_vars => SlotInv'
<1> SUFFICES ASSUME TypeOK /\ SlotInv, [Next]_vars PROVE SlotInv'
  OBVIOUS
<1> USE ConstantsAssumption DEF TypeOK, PcOK, SlotInv, poolVars, jobVars, Working, Holding, SubmitPC, WorkerPC
<1>1. ASSUME NEW n \in 0 .. Cardinality(Workers), StopPool(n) PROVE SlotInv'
  BY <1>1 DEF StopPool, Goto, PcOK, Runners, Working, Holding, Unused, WakeAll
<1>2. ASSUME NEW n \in 0 .. Cardinality(Workers), StartPool(n) PROVE SlotInv'
  BY <1>2 DEF StartPool, Goto, PcOK, Runners, Working, Holding, Unused, CreateThreads
<1>3. ASSUME JoinAndStart PROVE SlotInv'
  BY <1>3 DEF JoinAndStart, Goto, PcOK, Runners, Working, Holding, Unused, CreateThreads
<1>4. ASSUME NEW s \in Submitters, NEW n \in 1 .. MaxChunks, Enter(s, n) PROVE SlotInv'
  BY <1>4 DEF Enter, Goto, PcOK, Runners, Working, Holding, Unused
<1>5. ASSUME NEW s \in Submitters, Inline(s) PROVE SlotInv'
  BY <1>5 DEF Inline, Goto, PcOK, Runners, Working, Holding, Unused
<1>6. ASSUME NEW s \in Submitters, LockSubmit(s) PROVE SlotInv'
  BY <1>6 DEF LockSubmit, Goto, PcOK, Runners, Working, Holding, Unused
<1>7. ASSUME NEW s \in Submitters, Post(s) PROVE SlotInv'
  BY <1>7 DEF Post, Goto, PcOK, Runners, Working, Holding, Unused
<1>8. ASSUME NEW s \in Submitters, Bump(s) PROVE SlotInv'
  BY <1>8 DEF Bump, Goto, PcOK, Runners, Working, Holding, Unused, WakeAll
<1>9. ASSUME NEW s \in Submitters, Claim(s, s, "check") PROVE SlotInv'
  BY <1>9 DEF Claim, Goto, PcOK, Runners, Working, Holding, Unused
<1>10. ASSUME NEW s \in Submitters, RunChunk(s, s) PROVE SlotInv'
  BY <1>10 DEF RunChunk, Goto, PcOK, Runners, Working, Holding, Unused
<1>11. ASSUME NEW s \in Submitters, Check(s) PROVE SlotInv'
  BY <1>11 DEF Check, Goto, PcOK, Runners, Working, Holding, Unused
<1>12. ASSUME NEW s \in Submitters, ParkMain(s) PROVE SlotInv'
  BY <1>12 DEF ParkMain, Goto, PcOK, Runners, Working, Holding, Unused
<1>13. ASSUME NEW s \in Submitters, Clear(s) PROVE SlotInv'
  BY <1>13 DEF Clear, Goto, PcOK, Runners, Working, Holding, Unused
<1>14. ASSUME NEW w \in Workers, Begin(w) PROVE SlotInv'
  BY <1>14 DEF Begin, Goto, PcOK, Runners, Working, Holding, Unused
<1>15. ASSUME NEW w \in Workers, EndSpin(w) PROVE SlotInv'
  BY <1>15 DEF EndSpin, Goto, PcOK, Runners, Working, Holding, Unused
<1>16. ASSUME NEW w \in Workers, Park(w) PROVE SlotInv'
  BY <1>16 DEF Park, Goto, PcOK, Runners, Working, Holding, Unused
<1>17. ASSUME NEW w \in Workers, Unpark(w) PROVE SlotInv'
  BY <1>17 DEF Unpark, Goto, PcOK, Runners, Working, Holding, Unused
<1>18. ASSUME NEW w \in Workers, TakeOrExit(w) PROVE SlotInv'
  BY <1>18 DEF TakeOrExit, Goto, PcOK, Runners, Working, Holding, Unused
<1>19. ASSUME NEW w \in Workers, LoadGeneration(w) PROVE SlotInv'
  BY <1>19 DEF LoadGeneration, Goto, PcOK, Runners, Working, Holding, Unused
<1>20. ASSUME NEW w \in Workers, LoadJob(w) PROVE SlotInv'
  BY <1>20 DEF LoadJob, Goto, PcOK, Runners, Working, Holding, Unused
<1>21. ASSUME NEW w \in Workers, Claim(w, job[w], "done") PROVE SlotInv'
  BY <1>21 DEF Claim, Goto, PcOK, Runners, Working, Holding, Unused
<1>22. ASSUME NEW w \in Workers, RunChunk(w, job[w]) PROVE SlotInv'
  BY <1>22 DEF RunChunk, Goto, PcOK, Runners, Working, Holding, Unused
<1>23. ASSUME NEW w \in Workers, CheckIn(w) PROVE SlotInv'
  BY <1>23 DEF CheckIn, Goto, PcOK, Runners, Working, Holding, Unused
<1>24. ASSUME NEW w \in Workers, Signal(w) PROVE SlotInv'
  BY <1>24 DEF Signal, Goto, PcOK, Runners, Working, Holding, Unused
<1>25. ASSUME NEW t \in Runners, SpuriousWake(t) PROVE SlotInv'
  BY <1>25 DEF SpuriousWake, Goto, PcOK, Runners, Working, Holding, Unused
<1>26. CASE UNCHANGED vars
  BY <1>26 DEF vars, poolVars, jobVars, Unused
<1>27. QED
  BY <1>1, <1>2, <1>3, <1>4, <1>5, <1>6, <1>7, <1>8, <1>9, <1>10, <1>11, <1>12, <1>13, <1>14, <1>15, <1>16, <1>17, <1>18, <1>19, <1>20, <1>21, <1>22, <1>23, <1>24, <1>25, <1>26 DEF Next, CallStep, WorkerStep

\* The workers of the pool and the settled ones among them are countable.
LEMMA SettledFinite ==
    ASSUME TypeOK
    PROVE  /\ IsFiniteSet(threads) /\ IsFiniteSet(SettledSet)
           /\ Cardinality(SettledSet) \in Nat /\ nworkers \in Nat
<1>1. threads \subseteq Workers /\ SettledSet \subseteq threads
  BY DEF TypeOK, SettledSet
<1>2. IsFiniteSet(threads) /\ IsFiniteSet(SettledSet)
  BY <1>1, FS_Subset, ConstantsAssumption
<1>3. QED
  BY <1>2, FS_CardinalityType DEF nworkers

\* When the count is full, every worker has checked in for this call.
LEMMA AllCheckedIn ==
    ASSUME TypeOK, CountInv, NEW s \in Submitters, Active(s),
           completed = nworkers
    PROVE  \A w \in threads : Settled(w)
<1>1. Cardinality(threads) <= Cardinality(SettledSet)
  BY DEF CountInv, nworkers, AnyActive
<1>2. SettledSet \subseteq threads /\ IsFiniteSet(threads)
  BY SettledFinite DEF SettledSet
<1>3. Cardinality(SettledSet) = Cardinality(threads)
  BY <1>1, <1>2, SettledFinite, FS_Subset DEF nworkers
<1>4. SettledSet = threads
  BY <1>2, <1>3, FS_Subset
<1>5. QED
  BY <1>4 DEF SettledSet

\* No worker falls behind the generation while no dispatch or stop runs.
LEMMA WorkerStepInv == TypeOK /\ SlotInv /\ WorkerInv /\ CountInv /\ [Next]_vars => WorkerInv'
<1> SUFFICES ASSUME TypeOK /\ SlotInv /\ WorkerInv /\ CountInv, [Next]_vars PROVE WorkerInv'
  OBVIOUS
<1> USE ConstantsAssumption DEF TypeOK, PcOK, SlotInv, WorkerInv, CountInv, AtWork, Active, AnyActive, Settled, poolVars, jobVars, Working, Holding, SubmitPC, WorkerPC
<1>1. ASSUME NEW n \in 0 .. Cardinality(Workers), StopPool(n) PROVE WorkerInv'
  BY <1>1 DEF StopPool, Goto, PcOK, Runners, Unused, WakeAll
<1>2. ASSUME NEW n \in 0 .. Cardinality(Workers), StartPool(n) PROVE WorkerInv'
  BY <1>2 DEF StartPool, Goto, PcOK, Runners, Unused, CreateThreads
<1>3. ASSUME JoinAndStart PROVE WorkerInv'
  BY <1>3 DEF JoinAndStart, Goto, PcOK, Runners, Unused, CreateThreads
<1>4. ASSUME NEW s \in Submitters, NEW n \in 1 .. MaxChunks, Enter(s, n) PROVE WorkerInv'
  BY <1>4 DEF Enter, Goto, PcOK, Runners, Unused
<1>5. ASSUME NEW s \in Submitters, Inline(s) PROVE WorkerInv'
  BY <1>5 DEF Inline, Goto, PcOK, Runners, Unused
<1>6. ASSUME NEW s \in Submitters, LockSubmit(s) PROVE WorkerInv'
  BY <1>6 DEF LockSubmit, Goto, PcOK, Runners, Unused
<1>7. ASSUME NEW s \in Submitters, Post(s) PROVE WorkerInv'
  BY <1>7 DEF Post, Goto, PcOK, Runners, Unused
<1>8. ASSUME NEW s \in Submitters, Bump(s) PROVE WorkerInv'
  BY <1>8 DEF Bump, Goto, PcOK, Runners, Unused, WakeAll
<1>9. ASSUME NEW s \in Submitters, Claim(s, s, "check") PROVE WorkerInv'
  BY <1>9 DEF Claim, Goto, PcOK, Runners, Unused
<1>10. ASSUME NEW s \in Submitters, RunChunk(s, s) PROVE WorkerInv'
  BY <1>10 DEF RunChunk, Goto, PcOK, Runners, Unused
<1>11. ASSUME NEW s \in Submitters, Check(s) PROVE WorkerInv'
  <2>1. CASE completed = nworkers
    <3>1. \A v \in threads : Settled(v)
      BY <1>11, <2>1, AllCheckedIn DEF Check
    <3>2. QED
      BY <1>11, <2>1, <3>1 DEF Check, Goto, PcOK, Runners, Unused
  <2>2. CASE completed # nworkers
    BY <1>11, <2>2 DEF Check, Goto, PcOK, Runners, Unused
  <2>3. QED
    BY <2>1, <2>2
<1>12. ASSUME NEW s \in Submitters, ParkMain(s) PROVE WorkerInv'
  <2>1. CASE completed = nworkers
    <3>1. \A v \in threads : Settled(v)
      BY <1>12, <2>1, AllCheckedIn DEF ParkMain
    <3>2. QED
      BY <1>12, <2>1, <3>1 DEF ParkMain, Goto, PcOK, Runners, Unused
  <2>2. CASE completed # nworkers
    BY <1>12, <2>2 DEF ParkMain, Goto, PcOK, Runners, Unused
  <2>3. QED
    BY <2>1, <2>2
<1>13. ASSUME NEW s \in Submitters, Clear(s) PROVE WorkerInv'
  BY <1>13 DEF Clear, Goto, PcOK, Runners, Unused
<1>14. ASSUME NEW w \in Workers, Begin(w) PROVE WorkerInv'
  BY <1>14 DEF Begin, Goto, PcOK, Runners, Unused
<1>15. ASSUME NEW w \in Workers, EndSpin(w) PROVE WorkerInv'
  BY <1>15 DEF EndSpin, Goto, PcOK, Runners, Unused
<1>16. ASSUME NEW w \in Workers, Park(w) PROVE WorkerInv'
  BY <1>16 DEF Park, Goto, PcOK, Runners, Unused
<1>17. ASSUME NEW w \in Workers, Unpark(w) PROVE WorkerInv'
  BY <1>17 DEF Unpark, Goto, PcOK, Runners, Unused
<1>18. ASSUME NEW w \in Workers, TakeOrExit(w) PROVE WorkerInv'
  BY <1>18 DEF TakeOrExit, Goto, PcOK, Runners, Unused
<1>19. ASSUME NEW w \in Workers, LoadGeneration(w) PROVE WorkerInv'
  BY <1>19 DEF LoadGeneration, Goto, PcOK, Runners, Unused
<1>20. ASSUME NEW w \in Workers, LoadJob(w) PROVE WorkerInv'
  BY <1>20 DEF LoadJob, Goto, PcOK, Runners, Unused
<1>21. ASSUME NEW w \in Workers, Claim(w, job[w], "done") PROVE WorkerInv'
  BY <1>21 DEF Claim, Goto, PcOK, Runners, Unused
<1>22. ASSUME NEW w \in Workers, RunChunk(w, job[w]) PROVE WorkerInv'
  BY <1>22 DEF RunChunk, Goto, PcOK, Runners, Unused
<1>23. ASSUME NEW w \in Workers, CheckIn(w) PROVE WorkerInv'
  BY <1>23 DEF CheckIn, Goto, PcOK, Runners, Unused
<1>24. ASSUME NEW w \in Workers, Signal(w) PROVE WorkerInv'
  BY <1>24 DEF Signal, Goto, PcOK, Runners, Unused
<1>25. ASSUME NEW t \in Runners, SpuriousWake(t) PROVE WorkerInv'
  BY <1>25 DEF SpuriousWake, Goto, PcOK, Runners, Unused
<1>26. CASE UNCHANGED vars
  BY <1>26 DEF vars, poolVars, jobVars, Unused
<1>27. QED
  BY <1>1, <1>2, <1>3, <1>4, <1>5, <1>6, <1>7, <1>8, <1>9, <1>10, <1>11, <1>12, <1>13, <1>14, <1>15, <1>16, <1>17, <1>18, <1>19, <1>20, <1>21, <1>22, <1>23, <1>24, <1>25, <1>26 DEF Next, CallStep, WorkerStep

\* SettledFinite after the step.
LEMMA SettledFiniteNext ==
    ASSUME TypeOK'
    PROVE  IsFiniteSet(SettledSet') /\ Cardinality(SettledSet') \in Nat
<1>1. SettledSet' \subseteq Workers
  BY DEF SettledSet, TypeOK
<1>2. QED
  BY <1>1, FS_Subset, FS_CardinalityType, ConstantsAssumption

\* A step that unsettles nobody does not shrink the count's bound.
LEMMA SettledGrows ==
    ASSUME TypeOK, TypeOK', threads' = threads, completed' = completed,
           \A w \in threads : Settled(w) => Settled(w)',
           completed <= Cardinality(SettledSet)
    PROVE  completed' <= Cardinality(SettledSet')
<1>1. SettledSet \subseteq SettledSet'
  BY DEF SettledSet
<1>2. IsFiniteSet(SettledSet') /\ Cardinality(SettledSet') \in Nat
  BY SettledFiniteNext
<1>3. Cardinality(SettledSet) <= Cardinality(SettledSet')
  BY <1>1, <1>2, FS_Subset
<1>4. QED
  BY <1>2, <1>3, SettledFinite DEF TypeOK


\* The completed count never runs ahead of the settled workers.
LEMMA CountStep == TypeOK /\ TypeOK' /\ SlotInv /\ WorkerInv /\ CountInv /\ [Next]_vars => CountInv'
<1> SUFFICES ASSUME TypeOK /\ TypeOK' /\ SlotInv /\ WorkerInv /\ CountInv, [Next]_vars PROVE CountInv'
  OBVIOUS
<1> USE ConstantsAssumption DEF poolVars, jobVars
<1>1. ASSUME NEW n \in 0 .. Cardinality(Workers), StopPool(n) PROVE CountInv'
  <2>1. \A s \in Submitters : pc'[s] = "idle"
    BY <1>1, ConstantsAssumption DEF StopPool, Unused, WakeAll, Runners, SlotInv, WorkerInv, TypeOK, PcOK
  <2>2. QED
    BY <2>1 DEF Active, AnyActive, Working, CountInv
<1>2. ASSUME NEW n \in 0 .. Cardinality(Workers), StartPool(n) PROVE CountInv'
  <2>1. \A s \in Submitters : pc'[s] = "idle"
    BY <1>2, ConstantsAssumption DEF StartPool, Unused, CreateThreads, Runners, SlotInv, WorkerInv, TypeOK, PcOK
  <2>2. QED
    BY <2>1 DEF Active, AnyActive, Working, CountInv
<1>3. ASSUME JoinAndStart PROVE CountInv'
  <2>1. \A s \in Submitters : pc'[s] = "idle"
    BY <1>3, ConstantsAssumption DEF JoinAndStart, Unused, CreateThreads, Runners, SlotInv, WorkerInv, TypeOK, PcOK
  <2>2. QED
    BY <2>1 DEF Active, AnyActive, Working, CountInv
<1>4. ASSUME NEW s \in Submitters, NEW n \in 1 .. MaxChunks, Enter(s, n) PROVE CountInv'
  <2>1. threads' = threads /\ completed' = completed
    BY <1>4 DEF Enter
  <2>2. \A v \in threads : Settled(v) => Settled(v)'
    BY <1>4 DEF Enter, Goto, Runners, AtWork, Settled, WorkerInv, TypeOK, PcOK
  <2>3. AnyActive' => AnyActive
    BY <1>4 DEF Enter, Goto, Runners, Active, AnyActive, Working, TypeOK, PcOK
  <2>4. AnyActive' => completed' <= Cardinality(SettledSet')
    BY <2>1, <2>2, <2>3, SettledGrows DEF CountInv
  <2>5. \A t \in Submitters : pc'[t] = "bump" => completed' = 0
    BY <1>4 DEF Enter, Goto, Runners, CountInv, TypeOK, PcOK
  <2>6. \A t \in Submitters : pc'[t] = "clear" => \A v \in threads' : Settled(v)'
    BY <1>4, <2>1, <2>2 DEF Enter, Goto, Runners, CountInv, TypeOK, PcOK
  <2>7. QED
    BY <2>4, <2>5, <2>6 DEF CountInv
<1>5. ASSUME NEW s \in Submitters, Inline(s) PROVE CountInv'
  <2>1. threads' = threads /\ completed' = completed
    BY <1>5 DEF Inline
  <2>2. \A v \in threads : Settled(v) => Settled(v)'
    BY <1>5 DEF Inline, Goto, Runners, AtWork, Settled, WorkerInv, TypeOK, PcOK
  <2>3. AnyActive' => AnyActive
    BY <1>5 DEF Inline, Goto, Runners, Active, AnyActive, Working, TypeOK, PcOK
  <2>4. AnyActive' => completed' <= Cardinality(SettledSet')
    BY <2>1, <2>2, <2>3, SettledGrows DEF CountInv
  <2>5. \A t \in Submitters : pc'[t] = "bump" => completed' = 0
    BY <1>5 DEF Inline, Goto, Runners, CountInv, TypeOK, PcOK
  <2>6. \A t \in Submitters : pc'[t] = "clear" => \A v \in threads' : Settled(v)'
    BY <1>5, <2>1, <2>2 DEF Inline, Goto, Runners, CountInv, TypeOK, PcOK
  <2>7. QED
    BY <2>4, <2>5, <2>6 DEF CountInv
<1>6. ASSUME NEW s \in Submitters, LockSubmit(s) PROVE CountInv'
  <2>1. threads' = threads /\ completed' = completed
    BY <1>6 DEF LockSubmit
  <2>2. \A v \in threads : Settled(v) => Settled(v)'
    BY <1>6 DEF LockSubmit, Goto, Runners, AtWork, Settled, WorkerInv, TypeOK, PcOK
  <2>3. AnyActive' => AnyActive
    BY <1>6 DEF LockSubmit, Goto, Runners, Active, AnyActive, Working, TypeOK, PcOK
  <2>4. AnyActive' => completed' <= Cardinality(SettledSet')
    BY <2>1, <2>2, <2>3, SettledGrows DEF CountInv
  <2>5. \A t \in Submitters : pc'[t] = "bump" => completed' = 0
    BY <1>6 DEF LockSubmit, Goto, Runners, CountInv, TypeOK, PcOK
  <2>6. \A t \in Submitters : pc'[t] = "clear" => \A v \in threads' : Settled(v)'
    BY <1>6, <2>1, <2>2 DEF LockSubmit, Goto, Runners, CountInv, TypeOK, PcOK
  <2>7. QED
    BY <2>4, <2>5, <2>6 DEF CountInv
<1>7. ASSUME NEW s \in Submitters, Post(s) PROVE CountInv'
  <2>1. ~AnyActive'
    BY <1>7 DEF Post, Goto, Runners, Active, AnyActive, Working, SlotInv, Holding, TypeOK, PcOK
  <2>2. \A t \in Submitters : pc'[t] # "clear" /\ completed' = 0
    BY <1>7 DEF Post, Goto, Runners, SlotInv, Holding, TypeOK, PcOK
  <2>3. QED
    BY <2>1, <2>2 DEF CountInv
<1>8. ASSUME NEW s \in Submitters, Bump(s) PROVE CountInv'
  <2>1. completed' = 0
    BY <1>8 DEF Bump, CountInv
  <2>2. Cardinality(SettledSet') >= 0
    BY SettledFiniteNext
  <2>3. \A t \in Submitters : pc'[t] # "clear" /\ pc'[t] # "bump"
    BY <1>8, ConstantsAssumption DEF Bump, WakeAll, Runners, SlotInv, Holding, TypeOK, PcOK
  <2>4. QED
    BY <2>1, <2>2, <2>3 DEF CountInv
<1>9. ASSUME NEW s \in Submitters, Claim(s, s, "check") PROVE CountInv'
  <2>1. threads' = threads /\ completed' = completed
    BY <1>9 DEF Claim
  <2>2. \A v \in threads : Settled(v) => Settled(v)'
    BY <1>9 DEF Claim, Goto, Runners, AtWork, Settled, WorkerInv, TypeOK, PcOK
  <2>3. AnyActive' => AnyActive
    BY <1>9 DEF Claim, Goto, Runners, Active, AnyActive, Working, TypeOK, PcOK
  <2>4. AnyActive' => completed' <= Cardinality(SettledSet')
    BY <2>1, <2>2, <2>3, SettledGrows DEF CountInv
  <2>5. \A t \in Submitters : pc'[t] = "bump" => completed' = 0
    BY <1>9 DEF Claim, Goto, Runners, CountInv, TypeOK, PcOK
  <2>6. \A t \in Submitters : pc'[t] = "clear" => \A v \in threads' : Settled(v)'
    <3>1. \A t \in Submitters : pc'[t] = "clear" => pc[t] = "clear"
      BY <1>9 DEF Claim, Goto, Runners, TypeOK, PcOK
    <3>2. QED
      BY <2>1, <2>2, <3>1 DEF CountInv
  <2>7. QED
    BY <2>4, <2>5, <2>6 DEF CountInv
<1>10. ASSUME NEW s \in Submitters, RunChunk(s, s) PROVE CountInv'
  <2>1. threads' = threads /\ completed' = completed
    BY <1>10 DEF RunChunk
  <2>2. \A v \in threads : Settled(v) => Settled(v)'
    BY <1>10 DEF RunChunk, Goto, Runners, AtWork, Settled, WorkerInv, TypeOK, PcOK
  <2>3. AnyActive' => AnyActive
    BY <1>10 DEF RunChunk, Goto, Runners, Active, AnyActive, Working, TypeOK, PcOK
  <2>4. AnyActive' => completed' <= Cardinality(SettledSet')
    BY <2>1, <2>2, <2>3, SettledGrows DEF CountInv
  <2>5. \A t \in Submitters : pc'[t] = "bump" => completed' = 0
    BY <1>10 DEF RunChunk, Goto, Runners, CountInv, TypeOK, PcOK
  <2>6. \A t \in Submitters : pc'[t] = "clear" => \A v \in threads' : Settled(v)'
    BY <1>10, <2>1, <2>2 DEF RunChunk, Goto, Runners, CountInv, TypeOK, PcOK
  <2>7. QED
    BY <2>4, <2>5, <2>6 DEF CountInv
<1>11. ASSUME NEW s \in Submitters, Check(s) PROVE CountInv'
  <2>1. threads' = threads /\ completed' = completed
    BY <1>11 DEF Check
  <2>2. \A v \in threads : Settled(v) => Settled(v)'
    BY <1>11 DEF Check, Goto, Runners, AtWork, Settled, WorkerInv, TypeOK, PcOK
  <2>3. AnyActive' => AnyActive
    BY <1>11 DEF Check, Goto, Runners, Active, AnyActive, Working, TypeOK, PcOK
  <2>4. AnyActive' => completed' <= Cardinality(SettledSet')
    BY <2>1, <2>2, <2>3, SettledGrows DEF CountInv
  <2>5. \A t \in Submitters : pc'[t] = "bump" => completed' = 0
    BY <1>11 DEF Check, Goto, Runners, CountInv, TypeOK, PcOK
  <2>6. \A t \in Submitters : pc'[t] = "clear" => \A v \in threads' : Settled(v)'
    <3>1. completed = nworkers => \A v \in threads : Settled(v)
      BY <1>11, AllCheckedIn DEF Check, Active, Working
    <3>2. QED
      BY <1>11, <2>1, <2>2, <3>1 DEF Check, Goto, Runners, CountInv, TypeOK, PcOK
  <2>7. QED
    BY <2>4, <2>5, <2>6 DEF CountInv
<1>12. ASSUME NEW s \in Submitters, ParkMain(s) PROVE CountInv'
  <2>1. threads' = threads /\ completed' = completed
    BY <1>12 DEF ParkMain
  <2>2. \A v \in threads : Settled(v) => Settled(v)'
    BY <1>12 DEF ParkMain, Goto, Runners, AtWork, Settled, WorkerInv, TypeOK, PcOK
  <2>3. AnyActive' => AnyActive
    BY <1>12 DEF ParkMain, Goto, Runners, Active, AnyActive, Working, TypeOK, PcOK
  <2>4. AnyActive' => completed' <= Cardinality(SettledSet')
    BY <2>1, <2>2, <2>3, SettledGrows DEF CountInv
  <2>5. \A t \in Submitters : pc'[t] = "bump" => completed' = 0
    BY <1>12 DEF ParkMain, Goto, Runners, CountInv, TypeOK, PcOK
  <2>6. \A t \in Submitters : pc'[t] = "clear" => \A v \in threads' : Settled(v)'
    <3>1. completed = nworkers => \A v \in threads : Settled(v)
      BY <1>12, AllCheckedIn DEF ParkMain, Active, Working
    <3>2. QED
      BY <1>12, <2>1, <2>2, <3>1 DEF ParkMain, Goto, Runners, CountInv, TypeOK, PcOK
  <2>7. QED
    BY <2>4, <2>5, <2>6 DEF CountInv
<1>13. ASSUME NEW s \in Submitters, Clear(s) PROVE CountInv'
  <2>1. threads' = threads /\ completed' = completed
    BY <1>13 DEF Clear
  <2>2. \A v \in threads : Settled(v) => Settled(v)'
    BY <1>13 DEF Clear, Goto, Runners, AtWork, Settled, WorkerInv, TypeOK, PcOK
  <2>3. AnyActive' => AnyActive
    BY <1>13 DEF Clear, Goto, Runners, Active, AnyActive, Working, TypeOK, PcOK
  <2>4. AnyActive' => completed' <= Cardinality(SettledSet')
    BY <2>1, <2>2, <2>3, SettledGrows DEF CountInv
  <2>5. \A t \in Submitters : pc'[t] = "bump" => completed' = 0
    BY <1>13 DEF Clear, Goto, Runners, CountInv, TypeOK, PcOK
  <2>6. \A t \in Submitters : pc'[t] = "clear" => \A v \in threads' : Settled(v)'
    BY <1>13, <2>1, <2>2 DEF Clear, Goto, Runners, CountInv, TypeOK, PcOK
  <2>7. QED
    BY <2>4, <2>5, <2>6 DEF CountInv
<1>14. ASSUME NEW w \in Workers, Begin(w) PROVE CountInv'
  <2>1. threads' = threads /\ completed' = completed
    BY <1>14 DEF Begin
  <2>2. \A v \in threads : Settled(v) => Settled(v)'
    BY <1>14 DEF Begin, Goto, Runners, AtWork, Settled, WorkerInv, TypeOK, PcOK
  <2>3. AnyActive' => AnyActive
    BY <1>14 DEF Begin, Goto, Runners, Active, AnyActive, Working, TypeOK, PcOK
  <2>4. AnyActive' => completed' <= Cardinality(SettledSet')
    BY <2>1, <2>2, <2>3, SettledGrows DEF CountInv
  <2>5. \A t \in Submitters : pc'[t] = "bump" => completed' = 0
    BY <1>14 DEF Begin, Goto, Runners, CountInv, TypeOK, PcOK
  <2>6. \A t \in Submitters : pc'[t] = "clear" => \A v \in threads' : Settled(v)'
    BY <1>14, <2>1, <2>2 DEF Begin, Goto, Runners, CountInv, TypeOK, PcOK
  <2>7. QED
    BY <2>4, <2>5, <2>6 DEF CountInv
<1>15. ASSUME NEW w \in Workers, EndSpin(w) PROVE CountInv'
  <2>1. threads' = threads /\ completed' = completed
    BY <1>15 DEF EndSpin
  <2>2. \A v \in threads : Settled(v) => Settled(v)'
    BY <1>15 DEF EndSpin, Goto, Runners, AtWork, Settled, WorkerInv, TypeOK, PcOK
  <2>3. AnyActive' => AnyActive
    BY <1>15 DEF EndSpin, Goto, Runners, Active, AnyActive, Working, TypeOK, PcOK
  <2>4. AnyActive' => completed' <= Cardinality(SettledSet')
    BY <2>1, <2>2, <2>3, SettledGrows DEF CountInv
  <2>5. \A t \in Submitters : pc'[t] = "bump" => completed' = 0
    BY <1>15 DEF EndSpin, Goto, Runners, CountInv, TypeOK, PcOK
  <2>6. \A t \in Submitters : pc'[t] = "clear" => \A v \in threads' : Settled(v)'
    BY <1>15, <2>1, <2>2 DEF EndSpin, Goto, Runners, CountInv, TypeOK, PcOK
  <2>7. QED
    BY <2>4, <2>5, <2>6 DEF CountInv
<1>16. ASSUME NEW w \in Workers, Park(w) PROVE CountInv'
  <2>1. threads' = threads /\ completed' = completed
    BY <1>16 DEF Park
  <2>2. \A v \in threads : Settled(v) => Settled(v)'
    BY <1>16 DEF Park, Goto, Runners, AtWork, Settled, WorkerInv, TypeOK, PcOK
  <2>3. AnyActive' => AnyActive
    BY <1>16 DEF Park, Goto, Runners, Active, AnyActive, Working, TypeOK, PcOK
  <2>4. AnyActive' => completed' <= Cardinality(SettledSet')
    BY <2>1, <2>2, <2>3, SettledGrows DEF CountInv
  <2>5. \A t \in Submitters : pc'[t] = "bump" => completed' = 0
    BY <1>16 DEF Park, Goto, Runners, CountInv, TypeOK, PcOK
  <2>6. \A t \in Submitters : pc'[t] = "clear" => \A v \in threads' : Settled(v)'
    BY <1>16, <2>1, <2>2 DEF Park, Goto, Runners, CountInv, TypeOK, PcOK
  <2>7. QED
    BY <2>4, <2>5, <2>6 DEF CountInv
<1>17. ASSUME NEW w \in Workers, Unpark(w) PROVE CountInv'
  <2>1. threads' = threads /\ completed' = completed
    BY <1>17 DEF Unpark
  <2>2. \A v \in threads : Settled(v) => Settled(v)'
    BY <1>17 DEF Unpark, Goto, Runners, AtWork, Settled, WorkerInv, TypeOK, PcOK
  <2>3. AnyActive' => AnyActive
    BY <1>17 DEF Unpark, Goto, Runners, Active, AnyActive, Working, TypeOK, PcOK
  <2>4. AnyActive' => completed' <= Cardinality(SettledSet')
    BY <2>1, <2>2, <2>3, SettledGrows DEF CountInv
  <2>5. \A t \in Submitters : pc'[t] = "bump" => completed' = 0
    BY <1>17 DEF Unpark, Goto, Runners, CountInv, TypeOK, PcOK
  <2>6. \A t \in Submitters : pc'[t] = "clear" => \A v \in threads' : Settled(v)'
    BY <1>17, <2>1, <2>2 DEF Unpark, Goto, Runners, CountInv, TypeOK, PcOK
  <2>7. QED
    BY <2>4, <2>5, <2>6 DEF CountInv
<1>18. ASSUME NEW w \in Workers, TakeOrExit(w) PROVE CountInv'
  <2>1. threads' = threads /\ completed' = completed
    BY <1>18 DEF TakeOrExit
  <2>2. \A v \in threads : Settled(v) => Settled(v)'
    BY <1>18 DEF TakeOrExit, Goto, Runners, AtWork, Settled, WorkerInv, TypeOK, PcOK
  <2>3. AnyActive' => AnyActive
    BY <1>18 DEF TakeOrExit, Goto, Runners, Active, AnyActive, Working, TypeOK, PcOK
  <2>4. AnyActive' => completed' <= Cardinality(SettledSet')
    BY <2>1, <2>2, <2>3, SettledGrows DEF CountInv
  <2>5. \A t \in Submitters : pc'[t] = "bump" => completed' = 0
    BY <1>18 DEF TakeOrExit, Goto, Runners, CountInv, TypeOK, PcOK
  <2>6. \A t \in Submitters : pc'[t] = "clear" => \A v \in threads' : Settled(v)'
    BY <1>18, <2>1, <2>2 DEF TakeOrExit, Goto, Runners, CountInv, TypeOK, PcOK
  <2>7. QED
    BY <2>4, <2>5, <2>6 DEF CountInv
<1>19. ASSUME NEW w \in Workers, LoadGeneration(w) PROVE CountInv'
  <2>1. threads' = threads /\ completed' = completed
    BY <1>19 DEF LoadGeneration
  <2>2. \A v \in threads : Settled(v) => Settled(v)'
    BY <1>19 DEF LoadGeneration, Goto, Runners, AtWork, Settled, WorkerInv, TypeOK, PcOK
  <2>3. AnyActive' => AnyActive
    BY <1>19 DEF LoadGeneration, Goto, Runners, Active, AnyActive, Working, TypeOK, PcOK
  <2>4. AnyActive' => completed' <= Cardinality(SettledSet')
    BY <2>1, <2>2, <2>3, SettledGrows DEF CountInv
  <2>5. \A t \in Submitters : pc'[t] = "bump" => completed' = 0
    BY <1>19 DEF LoadGeneration, Goto, Runners, CountInv, TypeOK, PcOK
  <2>6. \A t \in Submitters : pc'[t] = "clear" => \A v \in threads' : Settled(v)'
    BY <1>19, <2>1, <2>2 DEF LoadGeneration, Goto, Runners, CountInv, TypeOK, PcOK
  <2>7. QED
    BY <2>4, <2>5, <2>6 DEF CountInv
<1>20. ASSUME NEW w \in Workers, LoadJob(w) PROVE CountInv'
  <2>1. threads' = threads /\ completed' = completed
    BY <1>20 DEF LoadJob
  <2>2. \A v \in threads : Settled(v) => Settled(v)'
    BY <1>20 DEF LoadJob, Goto, Runners, AtWork, Settled, WorkerInv, TypeOK, PcOK
  <2>3. AnyActive' => AnyActive
    BY <1>20 DEF LoadJob, Goto, Runners, Active, AnyActive, Working, TypeOK, PcOK
  <2>4. AnyActive' => completed' <= Cardinality(SettledSet')
    BY <2>1, <2>2, <2>3, SettledGrows DEF CountInv
  <2>5. \A t \in Submitters : pc'[t] = "bump" => completed' = 0
    BY <1>20 DEF LoadJob, Goto, Runners, CountInv, TypeOK, PcOK
  <2>6. \A t \in Submitters : pc'[t] = "clear" => \A v \in threads' : Settled(v)'
    BY <1>20, <2>1, <2>2 DEF LoadJob, Goto, Runners, CountInv, TypeOK, PcOK
  <2>7. QED
    BY <2>4, <2>5, <2>6 DEF CountInv
<1>21. ASSUME NEW w \in Workers, Claim(w, job[w], "done") PROVE CountInv'
  <2>1. threads' = threads /\ completed' = completed
    BY <1>21 DEF Claim
  <2>2. \A v \in threads : Settled(v) => Settled(v)'
    BY <1>21 DEF Claim, Goto, Runners, AtWork, Settled, WorkerInv, TypeOK, PcOK
  <2>3. AnyActive' => AnyActive
    BY <1>21 DEF Claim, Goto, Runners, Active, AnyActive, Working, TypeOK, PcOK
  <2>4. AnyActive' => completed' <= Cardinality(SettledSet')
    BY <2>1, <2>2, <2>3, SettledGrows DEF CountInv
  <2>5. \A t \in Submitters : pc'[t] = "bump" => completed' = 0
    BY <1>21 DEF Claim, Goto, Runners, CountInv, TypeOK, PcOK
  <2>6. \A t \in Submitters : pc'[t] = "clear" => \A v \in threads' : Settled(v)'
    BY <1>21, <2>1, <2>2 DEF Claim, Goto, Runners, CountInv, TypeOK, PcOK
  <2>7. QED
    BY <2>4, <2>5, <2>6 DEF CountInv
<1>22. ASSUME NEW w \in Workers, RunChunk(w, job[w]) PROVE CountInv'
  <2>1. threads' = threads /\ completed' = completed
    BY <1>22 DEF RunChunk
  <2>2. \A v \in threads : Settled(v) => Settled(v)'
    BY <1>22 DEF RunChunk, Goto, Runners, AtWork, Settled, WorkerInv, TypeOK, PcOK
  <2>3. AnyActive' => AnyActive
    BY <1>22 DEF RunChunk, Goto, Runners, Active, AnyActive, Working, TypeOK, PcOK
  <2>4. AnyActive' => completed' <= Cardinality(SettledSet')
    BY <2>1, <2>2, <2>3, SettledGrows DEF CountInv
  <2>5. \A t \in Submitters : pc'[t] = "bump" => completed' = 0
    BY <1>22 DEF RunChunk, Goto, Runners, CountInv, TypeOK, PcOK
  <2>6. \A t \in Submitters : pc'[t] = "clear" => \A v \in threads' : Settled(v)'
    BY <1>22, <2>1, <2>2 DEF RunChunk, Goto, Runners, CountInv, TypeOK, PcOK
  <2>7. QED
    BY <2>4, <2>5, <2>6 DEF CountInv
<1>23. ASSUME NEW w \in Workers, CheckIn(w) PROVE CountInv'
  <2>1. threads' = threads /\ completed' = completed + 1
    BY <1>23 DEF CheckIn
  <2>2. w \in threads /\ w \notin SettledSet
    BY <1>23 DEF CheckIn, SettledSet, Settled, AtWork, WorkerInv
  <2>3. SettledSet' = SettledSet \cup {w}
    BY <1>23, <2>1, <2>2 DEF CheckIn, Goto, Runners, SettledSet, Settled, AtWork, WorkerInv, TypeOK, PcOK
  <2>4. Cardinality(SettledSet') = Cardinality(SettledSet) + 1
    BY <2>2, <2>3, SettledFinite, FS_AddElement
  <2>5. AnyActive
    BY <1>23 DEF CheckIn, WorkerInv, AtWork
  <2>6. completed' <= Cardinality(SettledSet')
    BY <2>1, <2>4, <2>5, SettledFinite DEF CountInv, TypeOK
  <2>7. \A t \in Submitters : pc'[t] # "bump" /\ pc'[t] # "clear"
    BY <1>23, <2>5, ConstantsAssumption DEF CheckIn, Goto, Runners, AnyActive, Active, Working, SlotInv, Holding, TypeOK, PcOK
  <2>8. QED
    BY <2>6, <2>7 DEF CountInv
<1>24. ASSUME NEW w \in Workers, Signal(w) PROVE CountInv'
  <2>1. threads' = threads /\ completed' = completed
    BY <1>24 DEF Signal
  <2>2. \A v \in threads : Settled(v) => Settled(v)'
    BY <1>24 DEF Signal, Goto, Runners, AtWork, Settled, WorkerInv, TypeOK, PcOK
  <2>3. AnyActive' => AnyActive
    BY <1>24 DEF Signal, Goto, Runners, Active, AnyActive, Working, TypeOK, PcOK
  <2>4. AnyActive' => completed' <= Cardinality(SettledSet')
    BY <2>1, <2>2, <2>3, SettledGrows DEF CountInv
  <2>5. \A t \in Submitters : pc'[t] = "bump" => completed' = 0
    BY <1>24 DEF Signal, Goto, Runners, CountInv, TypeOK, PcOK
  <2>6. \A t \in Submitters : pc'[t] = "clear" => \A v \in threads' : Settled(v)'
    BY <1>24, <2>1, <2>2 DEF Signal, Goto, Runners, CountInv, TypeOK, PcOK
  <2>7. QED
    BY <2>4, <2>5, <2>6 DEF CountInv
<1>25. ASSUME NEW t \in Runners, SpuriousWake(t) PROVE CountInv'
  <2>1. threads' = threads /\ completed' = completed
    BY <1>25 DEF SpuriousWake
  <2>2. \A v \in threads : Settled(v) => Settled(v)'
    BY <1>25 DEF SpuriousWake, Goto, Runners, AtWork, Settled, WorkerInv, TypeOK, PcOK
  <2>3. AnyActive' => AnyActive
    BY <1>25 DEF SpuriousWake, Goto, Runners, Active, AnyActive, Working, TypeOK, PcOK
  <2>4. AnyActive' => completed' <= Cardinality(SettledSet')
    BY <2>1, <2>2, <2>3, SettledGrows DEF CountInv
  <2>5. \A q \in Submitters : pc'[q] = "bump" => completed' = 0
    BY <1>25 DEF SpuriousWake, Goto, Runners, CountInv, TypeOK, PcOK
  <2>6. \A q \in Submitters : pc'[q] = "clear" => \A v \in threads' : Settled(v)'
    BY <1>25, <2>1, <2>2 DEF SpuriousWake, Goto, Runners, CountInv, TypeOK, PcOK
  <2>7. QED
    BY <2>4, <2>5, <2>6 DEF CountInv
<1>26. CASE UNCHANGED vars
  BY <1>26 DEF vars, poolVars, jobVars, Unused, AtWork, Active, Settled, CountInv, AnyActive, SettledSet
<1>27. QED
  BY <1>1, <1>2, <1>3, <1>4, <1>5, <1>6, <1>7, <1>8, <1>9, <1>10, <1>11, <1>12, <1>13, <1>14, <1>15, <1>16, <1>17, <1>18, <1>19, <1>20, <1>21, <1>22, <1>23, <1>24, <1>25, <1>26 DEF Next, CallStep, WorkerStep

\* Claiming hands out the chunk at next, which nobody has.
LEMMA ClaimKeeps ==
    ASSUME TypeOK, ChunkInv, NEW r \in Runners, NEW j \in Submitters,
           NEW after \in {"check", "done"}, JobOf(r) = j, Claim(r, j, after)
    PROVE  ClaimedInv' /\ RunnerInv'
<1> USE ConstantsAssumption DEF jobVars, poolVars
<1>1. /\ nt' = nt /\ ran' = ran
      /\ next[j] \in Nat /\ next'[j] = next[j] + 1
      /\ \A t \in Submitters : t # j => next'[t] = next[t]
      /\ \A t \in Submitters : next[t] \in Nat /\ nt[t] \in Nat
  BY DEF Claim, TypeOK
<1>2. \A t \in Submitters, i \in Chunks : Claimed(t, i) /\ i \in Nat
  BY DEF ChunkInv, ClaimedInv, Chunks
<1>3. \A q \in Runners, t \in Submitters, i \in Chunks : InHand(q, t, i)
  BY DEF ChunkInv, RunnerInv
<1>4. CASE next[j] < nt[j]
  <2>1. \A q \in Runners, t \in Submitters, i \in Chunks :
          Runs(q, t, i)' <=> Runs(q, t, i) \/ (q = r /\ t = j /\ i = next[j])
    BY <1>4 DEF Claim, Goto, Runs, JobOf, TypeOK, PcOK, Runners
  <2>2. ASSUME NEW t \in Submitters, NEW i \in Chunks PROVE Claimed(t, i)'
    <3>1. Claimed(t, i)
      BY <1>2
    <3>2. CASE t = j /\ i = next[j]
      BY <1>1, <1>2, <2>1, <3>2 DEF Claimed
    <3>3. CASE ~(t = j /\ i = next[j])
      BY <1>1, <1>2, <2>1, <3>1, <3>3 DEF Claimed
    <3>4. QED
      BY <3>2, <3>3
  <2>3. ASSUME NEW q \in Runners, NEW t \in Submitters, NEW i \in Chunks
        PROVE  InHand(q, t, i)'
    <3>1. CASE t = j /\ i = next[j]
      <4>1. \A p \in Runners : ~Runs(p, t, i)
        BY <1>1, <1>3, <3>1 DEF InHand
      <4>2. ran[t][i] = 0
        BY <1>1, <1>2, <3>1 DEF Claimed
      <4>3. QED
        BY <1>1, <1>4, <2>1, <3>1, <4>1, <4>2 DEF InHand
    <3>2. CASE ~(t = j /\ i = next[j])
      BY <1>1, <1>2, <1>3, <2>1, <3>2 DEF InHand
    <3>3. QED
      BY <3>1, <3>2
  <2>4. QED
    BY <2>2, <2>3 DEF ClaimedInv, RunnerInv
<1>5. CASE ~(next[j] < nt[j])
  <2>1. \A q \in Runners, t \in Submitters, i \in Chunks :
          Runs(q, t, i)' <=> Runs(q, t, i)
    BY <1>5 DEF Claim, Goto, Runs, JobOf, TypeOK, PcOK, Runners
  <2>2. ASSUME NEW t \in Submitters, NEW i \in Chunks PROVE Claimed(t, i)'
    <3>1. Claimed(t, i)
      BY <1>2
    <3>2. CASE t = j
      BY <1>1, <1>2, <1>5, <2>1, <3>1, <3>2 DEF Claimed
    <3>3. CASE t # j
      BY <1>1, <2>1, <3>1, <3>3 DEF Claimed
    <3>4. QED
      BY <3>2, <3>3
  <2>3. ASSUME NEW q \in Runners, NEW t \in Submitters, NEW i \in Chunks
        PROVE  InHand(q, t, i)'
    <3>1. InHand(q, t, i)
      BY <1>3
    <3>2. QED
      BY <1>1, <1>2, <2>1, <3>1 DEF InHand
  <2>4. QED
    BY <2>2, <2>3 DEF ClaimedInv, RunnerInv
<1>6. QED
  BY <1>4, <1>5

\* Running a chunk moves it from one thread's hands to the chunks that ran.
LEMMA RunChunkKeeps ==
    ASSUME TypeOK, ChunkInv, NEW r \in Runners, NEW j \in Submitters,
           JobOf(r) = j, RunChunk(r, j)
    PROVE  ClaimedInv' /\ RunnerInv'
<1> USE ConstantsAssumption DEF jobVars, poolVars
<1> DEFINE c == chunk[r]
<1>1. c \in Chunks /\ Runs(r, j, c)
  BY DEF RunChunk, Runs, TypeOK
<1>2. InHand(r, j, c)
  BY <1>1 DEF ChunkInv, RunnerInv
<1>3. /\ next' = next /\ nt' = nt
      /\ ran' = [ran EXCEPT ![j] = [ran[j] EXCEPT ![c] = ran[j][c] + 1]]
      /\ ran \in [Submitters -> [Chunks -> Nat]] /\ ran[j][c] = 0
      /\ ran[j] \in [Chunks -> Nat]
  BY <1>1, <1>2 DEF RunChunk, TypeOK, InHand
<1>4. /\ ran'[j][c] = 1
      /\ \A t \in Submitters, i \in Chunks : ~(t = j /\ i = c) => ran'[t][i] = ran[t][i]
  BY <1>1, <1>3
<1>5. \A q \in Runners, t \in Submitters, i \in Chunks :
          Runs(q, t, i)' <=> Runs(q, t, i) /\ q # r
  BY DEF RunChunk, Goto, Runs, JobOf, TypeOK, PcOK, Runners
<1>6. \A q \in Runners : q # r => ~Runs(q, j, c)
  BY <1>1, <1>2 DEF InHand
<1>7. ASSUME NEW t \in Submitters, NEW i \in Chunks PROVE Claimed(t, i)'
  <2>1. Claimed(t, i)
    BY DEF ChunkInv, ClaimedInv
  <2>2. CASE t = j /\ i = c
    <3>1. c < next[j] /\ next[j] \in Nat /\ c \in Nat
      BY <1>1, <1>2 DEF InHand, TypeOK, Chunks
    <3>2. QED
      BY <1>3, <1>4, <2>2, <3>1 DEF Claimed
  <2>3. CASE ~(t = j /\ i = c)
    <3>1. \A q \in Runners : Runs(q, t, i) => q # r
      BY <1>1, <2>3 DEF Runs
    <3>2. QED
      BY <1>3, <1>4, <1>5, <2>1, <2>3, <3>1 DEF Claimed
  <2>4. QED
    BY <2>2, <2>3
<1>8. ASSUME NEW q \in Runners, NEW t \in Submitters, NEW i \in Chunks
      PROVE  InHand(q, t, i)'
  <2>1. InHand(q, t, i)
    BY DEF ChunkInv, RunnerInv
  <2>2. CASE t = j /\ i = c
    BY <1>5, <1>6, <2>2 DEF InHand
  <2>3. CASE ~(t = j /\ i = c)
    BY <1>3, <1>4, <1>5, <2>1, <2>3 DEF InHand
  <2>4. QED
    BY <2>2, <2>3
<1>9. QED
  BY <1>7, <1>8 DEF ClaimedInv, RunnerInv


\* Every chunk below the claim counter has run once or is in one
\* thread's hands.
LEMMA ChunkStep == TypeOK /\ SlotInv /\ WorkerInv /\ CountInv /\ ChunkInv /\ [Next]_vars => ChunkInv'
<1> SUFFICES ASSUME TypeOK /\ SlotInv /\ WorkerInv /\ CountInv /\ ChunkInv, [Next]_vars PROVE ChunkInv'
  OBVIOUS
<1> USE ConstantsAssumption DEF poolVars, jobVars
<1>1. ASSUME NEW n \in 0 .. Cardinality(Workers), StopPool(n) PROVE ChunkInv'
  <2>1. /\ next' = next /\ nt' = nt /\ ran' = ran
        /\ \A r \in Runners, t \in Submitters, i \in Chunks : Runs(r, t, i)' <=> Runs(r, t, i)
    BY <1>1, ConstantsAssumption DEF StopPool, Goto, Runners, Runs, JobOf, WakeAll, TypeOK, PcOK, WorkerInv
  <2>2. CallInv'
    BY <1>1, <2>1, ConstantsAssumption DEF StopPool, Goto, Runners, ChunkInv, CallInv, Active, Working, TypeOK, PcOK, WorkerInv, SlotInv, Holding, WakeAll
  <2>3. QED
    BY <2>1, <2>2 DEF ChunkInv, ClaimedInv, RunnerInv, Claimed, InHand
<1>2. ASSUME NEW n \in 0 .. Cardinality(Workers), StartPool(n) PROVE ChunkInv'
  <2>1. /\ next' = next /\ nt' = nt /\ ran' = ran
        /\ \A r \in Runners, t \in Submitters, i \in Chunks : Runs(r, t, i)' <=> Runs(r, t, i)
    BY <1>2, ConstantsAssumption DEF StartPool, Goto, Runners, Runs, JobOf, CreateThreads, TypeOK, PcOK, WorkerInv
  <2>2. CallInv'
    BY <1>2, <2>1, ConstantsAssumption DEF StartPool, Goto, Runners, ChunkInv, CallInv, Active, Working, TypeOK, PcOK, WorkerInv, SlotInv, Holding, CreateThreads
  <2>3. QED
    BY <2>1, <2>2 DEF ChunkInv, ClaimedInv, RunnerInv, Claimed, InHand
<1>3. ASSUME JoinAndStart PROVE ChunkInv'
  <2>1. /\ next' = next /\ nt' = nt /\ ran' = ran
        /\ \A r \in Runners, t \in Submitters, i \in Chunks : Runs(r, t, i)' <=> Runs(r, t, i)
    BY <1>3, ConstantsAssumption DEF JoinAndStart, Goto, Runners, Runs, JobOf, CreateThreads, TypeOK, PcOK, WorkerInv
  <2>2. CallInv'
    BY <1>3, <2>1, ConstantsAssumption DEF JoinAndStart, Goto, Runners, ChunkInv, CallInv, Active, Working, TypeOK, PcOK, WorkerInv, SlotInv, Holding, CreateThreads
  <2>3. QED
    BY <2>1, <2>2 DEF ChunkInv, ClaimedInv, RunnerInv, Claimed, InHand
<1>4. ASSUME NEW s \in Submitters, NEW n \in 1 .. MaxChunks, Enter(s, n) PROVE ChunkInv'
  <2>1. \A r \in Runners, i \in Chunks : ~Runs(r, s, i)
    BY <1>4, ConstantsAssumption DEF Enter, Runs, JobOf, ChunkInv, CallInv, Active, Working, TypeOK, PcOK, Runners
  <2>2. \A r \in Runners, t \in Submitters, i \in Chunks : Runs(r, t, i)' <=> Runs(r, t, i)
    BY <1>4, ConstantsAssumption DEF Enter, Goto, Runs, JobOf, TypeOK, PcOK, Runners
  <2>3. ASSUME NEW t \in Submitters, NEW i \in Chunks
        PROVE  Claimed(t, i)' /\ \A q \in Runners : InHand(q, t, i)'
    <3>1. Claimed(t, i) /\ \A q \in Runners : InHand(q, t, i)
      BY DEF ChunkInv, ClaimedInv, RunnerInv
    <3>2. CASE t # s
      <4>1. next'[t] = next[t] /\ nt'[t] = nt[t] /\ ran'[t] = ran[t]
        BY <1>4, <3>2 DEF Enter, TypeOK
      <4>2. QED
        BY <2>2, <3>1, <4>1 DEF Claimed, InHand
    <3>3. CASE t = s
      <4>1. next'[t] = 0 /\ ran'[t][i] = 0 /\ i \in Nat
        BY <1>4, <3>3 DEF Enter, TypeOK, NoRun, Chunks
      <4>2. QED
        BY <2>1, <2>2, <3>3, <4>1 DEF Claimed, InHand
    <3>4. QED
      BY <3>2, <3>3
  <2>4. CallInv'
    BY <1>4, ConstantsAssumption DEF Enter, Goto, Runners, ChunkInv, CallInv, Active, Working, TypeOK, PcOK
  <2>5. QED
    BY <2>3, <2>4 DEF ChunkInv, ClaimedInv, RunnerInv
<1>5. ASSUME NEW s \in Submitters, Inline(s) PROVE ChunkInv'
  <2>1. \A r \in Runners, i \in Chunks : ~Runs(r, s, i)
    BY <1>5, ConstantsAssumption DEF Inline, Runs, JobOf, ChunkInv, CallInv, Active, Working, TypeOK, PcOK, Runners
  <2>2. \A r \in Runners, t \in Submitters, i \in Chunks : Runs(r, t, i)' <=> Runs(r, t, i)
    BY <1>5, ConstantsAssumption DEF Inline, Goto, Runs, JobOf, TypeOK, PcOK, Runners
  <2>3. ASSUME NEW t \in Submitters, NEW i \in Chunks
        PROVE  Claimed(t, i)' /\ \A q \in Runners : InHand(q, t, i)'
    <3>1. Claimed(t, i) /\ \A q \in Runners : InHand(q, t, i)
      BY DEF ChunkInv, ClaimedInv, RunnerInv
    <3>2. CASE t # s
      <4>1. next'[t] = next[t] /\ nt'[t] = nt[t] /\ ran'[t] = ran[t]
        BY <1>5, <3>2 DEF Inline, TypeOK
      <4>2. QED
        BY <2>2, <3>1, <4>1 DEF Claimed, InHand
    <3>3. CASE t = s
      <4>1. next[s] \in Nat /\ nt[s] \in Nat /\ i \in Nat /\ nt' = nt
        BY <1>5 DEF Inline, TypeOK, Chunks
      <4>2. CASE next[s] < nt[s]
        <5>1. /\ next'[s] = next[s] + 1
              /\ ran' = [ran EXCEPT ![s] = [ran[s] EXCEPT ![next[s]] = ran[s][next[s]] + 1]]
          BY <1>5, <4>2 DEF Inline, TypeOK
        <5>2. next[s] \in Chunks /\ ran[s] \in [Chunks -> Nat]
          <6>1. nt[s] <= MaxChunks /\ ran[s] \in [Chunks -> Nat]
            BY DEF TypeOK
          <6>2. QED
            BY <4>1, <4>2, <6>1, ConstantsAssumption DEF Chunks
        <5>3. ran[s][next[s]] = 0
          BY <4>1, <5>2 DEF ChunkInv, ClaimedInv, Claimed
        <5>4. ran'[s][i] = IF i = next[s] THEN 1 ELSE ran[s][i]
          BY <5>1, <5>2, <5>3 DEF TypeOK
        <5>5. QED
          BY <2>1, <2>2, <3>1, <3>3, <4>1, <4>2, <5>1, <5>4 DEF Claimed, InHand
      <4>3. CASE ~(next[s] < nt[s])
        <5>1. next' = next /\ ran' = ran
          BY <1>5, <4>3 DEF Inline
        <5>2. QED
          BY <2>1, <2>2, <3>1, <3>3, <4>1, <5>1 DEF Claimed, InHand
      <4>4. QED
        BY <4>2, <4>3
    <3>4. QED
      BY <3>2, <3>3
  <2>4. CallInv'
    BY <1>5, ConstantsAssumption, SMTT(30)
       DEF Inline, Goto, Runners, ChunkInv, CallInv, Active, Working, TypeOK, PcOK
  <2>5. QED
    BY <2>3, <2>4 DEF ChunkInv, ClaimedInv, RunnerInv
<1>6. ASSUME NEW s \in Submitters, LockSubmit(s) PROVE ChunkInv'
  <2>1. /\ next' = next /\ nt' = nt /\ ran' = ran
        /\ \A r \in Runners, t \in Submitters, i \in Chunks : Runs(r, t, i)' <=> Runs(r, t, i)
    BY <1>6, ConstantsAssumption DEF LockSubmit, Goto, Runners, Runs, JobOf, TypeOK, PcOK, WorkerInv
  <2>2. CallInv'
    BY <1>6, <2>1, ConstantsAssumption DEF LockSubmit, Goto, Runners, ChunkInv, CallInv, Active, Working, TypeOK, PcOK, WorkerInv, SlotInv, Holding
  <2>3. QED
    BY <2>1, <2>2 DEF ChunkInv, ClaimedInv, RunnerInv, Claimed, InHand
<1>7. ASSUME NEW s \in Submitters, Post(s) PROVE ChunkInv'
  <2>1. /\ next' = next /\ nt' = nt /\ ran' = ran
        /\ \A r \in Runners, t \in Submitters, i \in Chunks : Runs(r, t, i)' <=> Runs(r, t, i)
    BY <1>7, ConstantsAssumption DEF Post, Goto, Runners, Runs, JobOf, TypeOK, PcOK, WorkerInv
  <2>2. CallInv'
    BY <1>7, <2>1, ConstantsAssumption DEF Post, Goto, Runners, ChunkInv, CallInv, Active, Working, TypeOK, PcOK, WorkerInv, SlotInv, Holding
  <2>3. QED
    BY <2>1, <2>2 DEF ChunkInv, ClaimedInv, RunnerInv, Claimed, InHand
<1>8. ASSUME NEW s \in Submitters, Bump(s) PROVE ChunkInv'
  <2>1. /\ next' = next /\ nt' = nt /\ ran' = ran
        /\ \A r \in Runners, t \in Submitters, i \in Chunks : Runs(r, t, i)' <=> Runs(r, t, i)
    BY <1>8, ConstantsAssumption DEF Bump, Goto, Runners, Runs, JobOf, WakeAll, TypeOK, PcOK, WorkerInv
  <2>2. CallInv'
    BY <1>8, <2>1, ConstantsAssumption DEF Bump, Goto, Runners, ChunkInv, CallInv, Active, Working, TypeOK, PcOK, WorkerInv, SlotInv, Holding, WakeAll
  <2>3. QED
    BY <2>1, <2>2 DEF ChunkInv, ClaimedInv, RunnerInv, Claimed, InHand
<1>9. ASSUME NEW s \in Submitters, Claim(s, s, "check") PROVE ChunkInv'
  <2>1. s \in Submitters /\ s \in Runners /\ JobOf(s) = s
    BY <1>9, ConstantsAssumption DEF Claim, JobOf, WorkerInv, Runners, TypeOK, PcOK
  <2>2. ClaimedInv' /\ RunnerInv'
    BY <1>9, <2>1, ClaimKeeps
  <2>3. CallInv'
    BY <1>9, <2>1, ConstantsAssumption DEF Claim, Goto, Runners, ChunkInv, CallInv, Active, Working, TypeOK, PcOK, WorkerInv
  <2>4. QED
    BY <2>2, <2>3 DEF ChunkInv
<1>10. ASSUME NEW s \in Submitters, RunChunk(s, s) PROVE ChunkInv'
  <2>1. s \in Submitters /\ s \in Runners /\ JobOf(s) = s
    BY <1>10, ConstantsAssumption DEF RunChunk, JobOf, WorkerInv, Runners, TypeOK, PcOK
  <2>2. ClaimedInv' /\ RunnerInv'
    BY <1>10, <2>1, RunChunkKeeps
  <2>3. CallInv'
    BY <1>10, <2>1, ConstantsAssumption DEF RunChunk, Goto, Runners, ChunkInv, CallInv, Active, Working, TypeOK, PcOK, WorkerInv
  <2>4. QED
    BY <2>2, <2>3 DEF ChunkInv
<1>11. ASSUME NEW s \in Submitters, Check(s) PROVE ChunkInv'
  <2>1. /\ next' = next /\ nt' = nt /\ ran' = ran
        /\ \A r \in Runners, t \in Submitters, i \in Chunks : Runs(r, t, i)' <=> Runs(r, t, i)
    BY <1>11, ConstantsAssumption DEF Check, Goto, Runners, Runs, JobOf, TypeOK, PcOK, WorkerInv
  <2>2. CallInv'
    <3>1. next[s] >= nt[s] /\ nt[s] # 0
      BY <1>11 DEF Check, ChunkInv, CallInv
    <3>2. \A t \in Submitters : t # s => pc'[t] = pc[t]
      BY <1>11 DEF Check, Goto
    <3>3. \A w \in Workers : pc'[w] = pc[w] /\ job'[w] = job[w]
      BY <1>11, ConstantsAssumption DEF Check, Goto
    <3>4. completed = nworkers => \A w \in Workers : pc[w] \notin {"claim", "run"}
      BY <1>11, AllCheckedIn DEF Check, Active, Working, Settled, AtWork, WorkerInv
    <3>5. QED
      BY <1>11, <2>1, <3>1, <3>2, <3>3, <3>4 DEF Check, Goto, ChunkInv, CallInv, Active, Working, TypeOK, PcOK, WorkerInv, SlotInv, Holding
  <2>3. QED
    BY <2>1, <2>2 DEF ChunkInv, ClaimedInv, RunnerInv, Claimed, InHand
<1>12. ASSUME NEW s \in Submitters, ParkMain(s) PROVE ChunkInv'
  <2>1. /\ next' = next /\ nt' = nt /\ ran' = ran
        /\ \A r \in Runners, t \in Submitters, i \in Chunks : Runs(r, t, i)' <=> Runs(r, t, i)
    BY <1>12, ConstantsAssumption DEF ParkMain, Goto, Runners, Runs, JobOf, TypeOK, PcOK, WorkerInv
  <2>2. CallInv'
    <3>1. next[s] >= nt[s] /\ nt[s] # 0
      BY <1>12 DEF ParkMain, ChunkInv, CallInv
    <3>2. \A t \in Submitters : t # s => pc'[t] = pc[t]
      BY <1>12 DEF ParkMain, Goto
    <3>3. \A w \in Workers : pc'[w] = pc[w] /\ job'[w] = job[w]
      BY <1>12, ConstantsAssumption DEF ParkMain, Goto
    <3>4. completed = nworkers => \A w \in Workers : pc[w] \notin {"claim", "run"}
      BY <1>12, AllCheckedIn DEF ParkMain, Active, Working, Settled, AtWork, WorkerInv
    <3>5. QED
      BY <1>12, <2>1, <3>1, <3>2, <3>3, <3>4 DEF ParkMain, Goto, ChunkInv, CallInv, Active, Working, TypeOK, PcOK, WorkerInv, SlotInv, Holding
  <2>3. QED
    BY <2>1, <2>2 DEF ChunkInv, ClaimedInv, RunnerInv, Claimed, InHand
<1>13. ASSUME NEW s \in Submitters, Clear(s) PROVE ChunkInv'
  <2>1. /\ next' = next /\ nt' = nt /\ ran' = ran
        /\ \A r \in Runners, t \in Submitters, i \in Chunks : Runs(r, t, i)' <=> Runs(r, t, i)
    BY <1>13, ConstantsAssumption DEF Clear, Goto, Runners, Runs, JobOf, TypeOK, PcOK, WorkerInv
  <2>2. CallInv'
    BY <1>13, <2>1, ConstantsAssumption DEF Clear, Goto, Runners, ChunkInv, CallInv, Active, Working, TypeOK, PcOK, WorkerInv, SlotInv, Holding
  <2>3. QED
    BY <2>1, <2>2 DEF ChunkInv, ClaimedInv, RunnerInv, Claimed, InHand
<1>14. ASSUME NEW w \in Workers, Begin(w) PROVE ChunkInv'
  <2>1. /\ next' = next /\ nt' = nt /\ ran' = ran
        /\ \A r \in Runners, t \in Submitters, i \in Chunks : Runs(r, t, i)' <=> Runs(r, t, i)
    BY <1>14, ConstantsAssumption DEF Begin, Goto, Runners, Runs, JobOf, TypeOK, PcOK, WorkerInv
  <2>2. CallInv'
    BY <1>14, <2>1, ConstantsAssumption DEF Begin, Goto, Runners, ChunkInv, CallInv, Active, Working, TypeOK, PcOK, WorkerInv, SlotInv, Holding
  <2>3. QED
    BY <2>1, <2>2 DEF ChunkInv, ClaimedInv, RunnerInv, Claimed, InHand
<1>15. ASSUME NEW w \in Workers, EndSpin(w) PROVE ChunkInv'
  <2>1. /\ next' = next /\ nt' = nt /\ ran' = ran
        /\ \A r \in Runners, t \in Submitters, i \in Chunks : Runs(r, t, i)' <=> Runs(r, t, i)
    BY <1>15, ConstantsAssumption DEF EndSpin, Goto, Runners, Runs, JobOf, TypeOK, PcOK, WorkerInv
  <2>2. CallInv'
    BY <1>15, <2>1, ConstantsAssumption DEF EndSpin, Goto, Runners, ChunkInv, CallInv, Active, Working, TypeOK, PcOK, WorkerInv, SlotInv, Holding
  <2>3. QED
    BY <2>1, <2>2 DEF ChunkInv, ClaimedInv, RunnerInv, Claimed, InHand
<1>16. ASSUME NEW w \in Workers, Park(w) PROVE ChunkInv'
  <2>1. /\ next' = next /\ nt' = nt /\ ran' = ran
        /\ \A r \in Runners, t \in Submitters, i \in Chunks : Runs(r, t, i)' <=> Runs(r, t, i)
    BY <1>16, ConstantsAssumption DEF Park, Goto, Runners, Runs, JobOf, TypeOK, PcOK, WorkerInv
  <2>2. CallInv'
    BY <1>16, <2>1, ConstantsAssumption DEF Park, Goto, Runners, ChunkInv, CallInv, Active, Working, TypeOK, PcOK, WorkerInv, SlotInv, Holding
  <2>3. QED
    BY <2>1, <2>2 DEF ChunkInv, ClaimedInv, RunnerInv, Claimed, InHand
<1>17. ASSUME NEW w \in Workers, Unpark(w) PROVE ChunkInv'
  <2>1. /\ next' = next /\ nt' = nt /\ ran' = ran
        /\ \A r \in Runners, t \in Submitters, i \in Chunks : Runs(r, t, i)' <=> Runs(r, t, i)
    BY <1>17, ConstantsAssumption DEF Unpark, Goto, Runners, Runs, JobOf, TypeOK, PcOK, WorkerInv
  <2>2. CallInv'
    BY <1>17, <2>1, ConstantsAssumption DEF Unpark, Goto, Runners, ChunkInv, CallInv, Active, Working, TypeOK, PcOK, WorkerInv, SlotInv, Holding
  <2>3. QED
    BY <2>1, <2>2 DEF ChunkInv, ClaimedInv, RunnerInv, Claimed, InHand
<1>18. ASSUME NEW w \in Workers, TakeOrExit(w) PROVE ChunkInv'
  <2>1. /\ next' = next /\ nt' = nt /\ ran' = ran
        /\ \A r \in Runners, t \in Submitters, i \in Chunks : Runs(r, t, i)' <=> Runs(r, t, i)
    BY <1>18, ConstantsAssumption DEF TakeOrExit, Goto, Runners, Runs, JobOf, TypeOK, PcOK, WorkerInv
  <2>2. CallInv'
    BY <1>18, <2>1, ConstantsAssumption DEF TakeOrExit, Goto, Runners, ChunkInv, CallInv, Active, Working, TypeOK, PcOK, WorkerInv, SlotInv, Holding
  <2>3. QED
    BY <2>1, <2>2 DEF ChunkInv, ClaimedInv, RunnerInv, Claimed, InHand
<1>19. ASSUME NEW w \in Workers, LoadGeneration(w) PROVE ChunkInv'
  <2>1. /\ next' = next /\ nt' = nt /\ ran' = ran
        /\ \A r \in Runners, t \in Submitters, i \in Chunks : Runs(r, t, i)' <=> Runs(r, t, i)
    BY <1>19, ConstantsAssumption DEF LoadGeneration, Goto, Runners, Runs, JobOf, TypeOK, PcOK, WorkerInv
  <2>2. CallInv'
    BY <1>19, <2>1, ConstantsAssumption DEF LoadGeneration, Goto, Runners, ChunkInv, CallInv, Active, Working, TypeOK, PcOK, WorkerInv, SlotInv, Holding
  <2>3. QED
    BY <2>1, <2>2 DEF ChunkInv, ClaimedInv, RunnerInv, Claimed, InHand
<1>20. ASSUME NEW w \in Workers, LoadJob(w) PROVE ChunkInv'
  <2>1. /\ next' = next /\ nt' = nt /\ ran' = ran
        /\ \A r \in Runners, t \in Submitters, i \in Chunks : Runs(r, t, i)' <=> Runs(r, t, i)
    BY <1>20, ConstantsAssumption DEF LoadJob, Goto, Runners, Runs, JobOf, TypeOK, PcOK, WorkerInv
  <2>2. CallInv'
    <3>1. slot # NoJob => Active(slot)
      BY <1>20 DEF LoadJob, WorkerInv, SlotInv, AtWork, AnyActive, Active, Working
    <3>2. QED
      BY <1>20, <2>1, <3>1, ConstantsAssumption DEF LoadJob, Goto, Runners, ChunkInv, CallInv, Active, Working, TypeOK, PcOK, WorkerInv, SlotInv, Holding
  <2>3. QED
    BY <2>1, <2>2 DEF ChunkInv, ClaimedInv, RunnerInv, Claimed, InHand
<1>21. ASSUME NEW w \in Workers, Claim(w, job[w], "done") PROVE ChunkInv'
  <2>1. job[w] \in Submitters /\ w \in Runners /\ JobOf(w) = job[w]
    BY <1>21, ConstantsAssumption DEF Claim, JobOf, WorkerInv, Runners, TypeOK, PcOK
  <2>2. ClaimedInv' /\ RunnerInv'
    BY <1>21, <2>1, ClaimKeeps
  <2>3. CallInv'
    BY <1>21, <2>1, ConstantsAssumption DEF Claim, Goto, Runners, ChunkInv, CallInv, Active, Working, TypeOK, PcOK, WorkerInv
  <2>4. QED
    BY <2>2, <2>3 DEF ChunkInv
<1>22. ASSUME NEW w \in Workers, RunChunk(w, job[w]) PROVE ChunkInv'
  <2>1. job[w] \in Submitters /\ w \in Runners /\ JobOf(w) = job[w]
    BY <1>22, ConstantsAssumption DEF RunChunk, JobOf, WorkerInv, Runners, TypeOK, PcOK
  <2>2. ClaimedInv' /\ RunnerInv'
    BY <1>22, <2>1, RunChunkKeeps
  <2>3. CallInv'
    BY <1>22, <2>1, ConstantsAssumption DEF RunChunk, Goto, Runners, ChunkInv, CallInv, Active, Working, TypeOK, PcOK, WorkerInv
  <2>4. QED
    BY <2>2, <2>3 DEF ChunkInv
<1>23. ASSUME NEW w \in Workers, CheckIn(w) PROVE ChunkInv'
  <2>1. /\ next' = next /\ nt' = nt /\ ran' = ran
        /\ \A r \in Runners, t \in Submitters, i \in Chunks : Runs(r, t, i)' <=> Runs(r, t, i)
    BY <1>23, ConstantsAssumption DEF CheckIn, Goto, Runners, Runs, JobOf, TypeOK, PcOK, WorkerInv
  <2>2. CallInv'
    BY <1>23, <2>1, ConstantsAssumption DEF CheckIn, Goto, Runners, ChunkInv, CallInv, Active, Working, TypeOK, PcOK, WorkerInv, SlotInv, Holding
  <2>3. QED
    BY <2>1, <2>2 DEF ChunkInv, ClaimedInv, RunnerInv, Claimed, InHand
<1>24. ASSUME NEW w \in Workers, Signal(w) PROVE ChunkInv'
  <2>1. /\ next' = next /\ nt' = nt /\ ran' = ran
        /\ \A r \in Runners, t \in Submitters, i \in Chunks : Runs(r, t, i)' <=> Runs(r, t, i)
    BY <1>24, ConstantsAssumption DEF Signal, Goto, Runners, Runs, JobOf, TypeOK, PcOK, WorkerInv
  <2>2. CallInv'
    BY <1>24, <2>1, ConstantsAssumption DEF Signal, Goto, Runners, ChunkInv, CallInv, Active, Working, TypeOK, PcOK, WorkerInv, SlotInv, Holding
  <2>3. QED
    BY <2>1, <2>2 DEF ChunkInv, ClaimedInv, RunnerInv, Claimed, InHand
<1>25. ASSUME NEW t \in Runners, SpuriousWake(t) PROVE ChunkInv'
  <2>1. /\ next' = next /\ nt' = nt /\ ran' = ran
        /\ \A r \in Runners, q \in Submitters, i \in Chunks : Runs(r, q, i)' <=> Runs(r, q, i)
    BY <1>25, ConstantsAssumption DEF SpuriousWake, Goto, Runners, Runs, JobOf, TypeOK, PcOK, WorkerInv
  <2>2. CallInv'
    BY <1>25, <2>1, ConstantsAssumption DEF SpuriousWake, Goto, Runners, ChunkInv, CallInv, Active, Working, TypeOK, PcOK, WorkerInv, SlotInv, Holding
  <2>3. QED
    BY <2>1, <2>2 DEF ChunkInv, ClaimedInv, RunnerInv, Claimed, InHand
<1>26. CASE UNCHANGED vars
  BY <1>26 DEF vars, poolVars, jobVars, Unused, ChunkInv, ClaimedInv, RunnerInv, CallInv, Claimed, InHand, Runs, JobOf, Active
<1>27. QED
  BY <1>1, <1>2, <1>3, <1>4, <1>5, <1>6, <1>7, <1>8, <1>9, <1>10, <1>11, <1>12, <1>13, <1>14, <1>15, <1>16, <1>17, <1>18, <1>19, <1>20, <1>21, <1>22, <1>23, <1>24, <1>25, <1>26 DEF Next, CallStep, WorkerStep

\* A thread parks only after it has looked again under P.mtx, so no step
\* leaves one asleep with work to do.
LEMMA WakeupStep == TypeOK /\ SleepingExact /\ SlotInv /\ WorkerInv /\ NoLostWakeup /\ [Next]_vars => NoLostWakeup'
<1> SUFFICES ASSUME TypeOK /\ SleepingExact /\ SlotInv /\ WorkerInv /\ NoLostWakeup, [Next]_vars PROVE NoLostWakeup'
  OBVIOUS
<1> USE ConstantsAssumption DEF poolVars, jobVars
<1>1. ASSUME NEW n \in 0 .. Cardinality(Workers), StopPool(n) PROVE NoLostWakeup'
  <2>1. WorkersMayPark'
    BY <1>1, ConstantsAssumption DEF StopPool, Goto, Runners, NoLostWakeup, WorkersMayPark, WakeAll, TypeOK, PcOK
  <2>2. \A s \in Submitters : pc'[s] = "idle"
    BY <1>1, ConstantsAssumption DEF StopPool, Unused, Runners, SlotInv, WorkerInv, WakeAll, TypeOK, PcOK
  <2>3. QED
    BY <2>1, <2>2 DEF NoLostWakeup, CallersMayPark
<1>2. ASSUME NEW n \in 0 .. Cardinality(Workers), StartPool(n) PROVE NoLostWakeup'
  <2>1. WorkersMayPark'
    BY <1>2, ConstantsAssumption DEF StartPool, Goto, Runners, NoLostWakeup, WorkersMayPark, WorkerInv, CreateThreads, TypeOK, PcOK
  <2>2. \A s \in Submitters : pc'[s] = "idle"
    BY <1>2, ConstantsAssumption DEF StartPool, Unused, Runners, SlotInv, WorkerInv, CreateThreads, TypeOK, PcOK
  <2>3. QED
    BY <2>1, <2>2 DEF NoLostWakeup, CallersMayPark
<1>3. ASSUME JoinAndStart PROVE NoLostWakeup'
  <2>1. WorkersMayPark'
    BY <1>3, ConstantsAssumption DEF JoinAndStart, Goto, Runners, NoLostWakeup, WorkersMayPark, WorkerInv, CreateThreads, TypeOK, PcOK
  <2>2. \A s \in Submitters : pc'[s] = "idle"
    BY <1>3, ConstantsAssumption DEF JoinAndStart, Unused, Runners, SlotInv, WorkerInv, CreateThreads, TypeOK, PcOK
  <2>3. QED
    BY <2>1, <2>2 DEF NoLostWakeup, CallersMayPark
<1>4. ASSUME NEW s \in Submitters, NEW n \in 1 .. MaxChunks, Enter(s, n) PROVE NoLostWakeup'
  <2>1. WorkersMayPark'
    BY <1>4, ConstantsAssumption DEF Enter, Goto, Runners, NoLostWakeup, WorkersMayPark, TypeOK, PcOK
  <2>2. completed' = completed /\ mainSleeping' = mainSleeping /\ threads' = threads
    BY <1>4 DEF Enter
  <2>3. AnySignal => AnySignal'
    BY <1>4, ConstantsAssumption DEF Enter, Goto, Runners, AnySignal, TypeOK, PcOK
  <2>4. \A q \in Submitters : pc'[q] = "parked" => pc[q] = "parked"
    BY <1>4, ConstantsAssumption DEF Enter, Goto, Runners, TypeOK, PcOK
  <2>5. QED
    BY <2>1, <2>2, <2>3, <2>4 DEF NoLostWakeup, CallersMayPark, nworkers
<1>5. ASSUME NEW s \in Submitters, Inline(s) PROVE NoLostWakeup'
  <2>1. WorkersMayPark'
    BY <1>5, ConstantsAssumption DEF Inline, Goto, Runners, NoLostWakeup, WorkersMayPark, TypeOK, PcOK
  <2>2. completed' = completed /\ mainSleeping' = mainSleeping /\ threads' = threads
    BY <1>5 DEF Inline
  <2>3. AnySignal => AnySignal'
    BY <1>5, ConstantsAssumption DEF Inline, Goto, Runners, AnySignal, TypeOK, PcOK
  <2>4. \A q \in Submitters : pc'[q] = "parked" => pc[q] = "parked"
    BY <1>5, ConstantsAssumption DEF Inline, Goto, Runners, TypeOK, PcOK
  <2>5. QED
    BY <2>1, <2>2, <2>3, <2>4 DEF NoLostWakeup, CallersMayPark, nworkers
<1>6. ASSUME NEW s \in Submitters, LockSubmit(s) PROVE NoLostWakeup'
  <2>1. WorkersMayPark'
    BY <1>6, ConstantsAssumption DEF LockSubmit, Goto, Runners, NoLostWakeup, WorkersMayPark, TypeOK, PcOK
  <2>2. completed' = completed /\ mainSleeping' = mainSleeping /\ threads' = threads
    BY <1>6 DEF LockSubmit
  <2>3. AnySignal => AnySignal'
    BY <1>6, ConstantsAssumption DEF LockSubmit, Goto, Runners, AnySignal, TypeOK, PcOK
  <2>4. \A q \in Submitters : pc'[q] = "parked" => pc[q] = "parked"
    BY <1>6, ConstantsAssumption DEF LockSubmit, Goto, Runners, TypeOK, PcOK
  <2>5. QED
    BY <2>1, <2>2, <2>3, <2>4 DEF NoLostWakeup, CallersMayPark, nworkers
<1>7. ASSUME NEW s \in Submitters, Post(s) PROVE NoLostWakeup'
  <2>1. WorkersMayPark'
    BY <1>7, ConstantsAssumption DEF Post, Goto, Runners, NoLostWakeup, WorkersMayPark, TypeOK, PcOK
  <2>2. CallersMayPark'
    BY <1>7, ConstantsAssumption DEF Post, Goto, Runners, SlotInv, Holding, Working, CallersMayPark, nworkers, TypeOK, PcOK
  <2>3. QED
    BY <2>1, <2>2 DEF NoLostWakeup
<1>8. ASSUME NEW s \in Submitters, Bump(s) PROVE NoLostWakeup'
  <2>1. WorkersMayPark'
    <3>1. sleeping > 0 \/ \A w \in Workers : pc[w] # "parked"
      BY CountedAsleep
    <3>2. QED
      BY <1>8, <3>1, ConstantsAssumption DEF Bump, WakeAll, Runners, WorkersMayPark, NoLostWakeup, TypeOK, PcOK
  <2>2. completed' = completed /\ mainSleeping' = mainSleeping /\ threads' = threads
    BY <1>8 DEF Bump
  <2>3. AnySignal => AnySignal'
    BY <1>8, ConstantsAssumption DEF Bump, Goto, Runners, AnySignal, WakeAll, TypeOK, PcOK
  <2>4. \A q \in Submitters : pc'[q] = "parked" => pc[q] = "parked"
    BY <1>8, ConstantsAssumption DEF Bump, Goto, Runners, WakeAll, TypeOK, PcOK
  <2>5. QED
    BY <2>1, <2>2, <2>3, <2>4 DEF NoLostWakeup, CallersMayPark, nworkers
<1>9. ASSUME NEW s \in Submitters, Claim(s, s, "check") PROVE NoLostWakeup'
  <2>1. WorkersMayPark'
    BY <1>9, ConstantsAssumption DEF Claim, Goto, Runners, NoLostWakeup, WorkersMayPark, TypeOK, PcOK
  <2>2. completed' = completed /\ mainSleeping' = mainSleeping /\ threads' = threads
    BY <1>9 DEF Claim
  <2>3. AnySignal => AnySignal'
    BY <1>9, ConstantsAssumption DEF Claim, Goto, Runners, AnySignal, TypeOK, PcOK
  <2>4. \A q \in Submitters : pc'[q] = "parked" => pc[q] = "parked"
    BY <1>9, ConstantsAssumption DEF Claim, Goto, Runners, TypeOK, PcOK
  <2>5. QED
    BY <2>1, <2>2, <2>3, <2>4 DEF NoLostWakeup, CallersMayPark, nworkers
<1>10. ASSUME NEW s \in Submitters, RunChunk(s, s) PROVE NoLostWakeup'
  <2>1. WorkersMayPark'
    BY <1>10, ConstantsAssumption DEF RunChunk, Goto, Runners, NoLostWakeup, WorkersMayPark, TypeOK, PcOK
  <2>2. completed' = completed /\ mainSleeping' = mainSleeping /\ threads' = threads
    BY <1>10 DEF RunChunk
  <2>3. AnySignal => AnySignal'
    BY <1>10, ConstantsAssumption DEF RunChunk, Goto, Runners, AnySignal, TypeOK, PcOK
  <2>4. \A q \in Submitters : pc'[q] = "parked" => pc[q] = "parked"
    BY <1>10, ConstantsAssumption DEF RunChunk, Goto, Runners, TypeOK, PcOK
  <2>5. QED
    BY <2>1, <2>2, <2>3, <2>4 DEF NoLostWakeup, CallersMayPark, nworkers
<1>11. ASSUME NEW s \in Submitters, Check(s) PROVE NoLostWakeup'
  <2>1. WorkersMayPark'
    BY <1>11, ConstantsAssumption DEF Check, Goto, Runners, NoLostWakeup, WorkersMayPark, TypeOK, PcOK
  <2>2. completed' = completed /\ mainSleeping' = mainSleeping /\ threads' = threads
    BY <1>11 DEF Check
  <2>3. AnySignal => AnySignal'
    BY <1>11, ConstantsAssumption DEF Check, Goto, Runners, AnySignal, TypeOK, PcOK
  <2>4. \A q \in Submitters : pc'[q] = "parked" => pc[q] = "parked"
    BY <1>11, ConstantsAssumption DEF Check, Goto, Runners, TypeOK, PcOK
  <2>5. QED
    BY <2>1, <2>2, <2>3, <2>4 DEF NoLostWakeup, CallersMayPark, nworkers
<1>12. ASSUME NEW s \in Submitters, ParkMain(s) PROVE NoLostWakeup'
  <2>1. WorkersMayPark'
    BY <1>12, ConstantsAssumption DEF ParkMain, Goto, Runners, NoLostWakeup, WorkersMayPark, TypeOK, PcOK
  <2>2. CallersMayPark'
    BY <1>12, ConstantsAssumption DEF ParkMain, Goto, Runners, SlotInv, Holding, Working, CallersMayPark, nworkers, TypeOK, PcOK
  <2>3. QED
    BY <2>1, <2>2 DEF NoLostWakeup
<1>13. ASSUME NEW s \in Submitters, Clear(s) PROVE NoLostWakeup'
  <2>1. WorkersMayPark'
    BY <1>13, ConstantsAssumption DEF Clear, Goto, Runners, NoLostWakeup, WorkersMayPark, TypeOK, PcOK
  <2>2. completed' = completed /\ mainSleeping' = mainSleeping /\ threads' = threads
    BY <1>13 DEF Clear
  <2>3. AnySignal => AnySignal'
    BY <1>13, ConstantsAssumption DEF Clear, Goto, Runners, AnySignal, TypeOK, PcOK
  <2>4. \A q \in Submitters : pc'[q] = "parked" => pc[q] = "parked"
    BY <1>13, ConstantsAssumption DEF Clear, Goto, Runners, TypeOK, PcOK
  <2>5. QED
    BY <2>1, <2>2, <2>3, <2>4 DEF NoLostWakeup, CallersMayPark, nworkers
<1>14. ASSUME NEW w \in Workers, Begin(w) PROVE NoLostWakeup'
  <2>1. WorkersMayPark'
    BY <1>14, ConstantsAssumption DEF Begin, Goto, Runners, NoLostWakeup, WorkersMayPark, TypeOK, PcOK
  <2>2. completed' = completed /\ mainSleeping' = mainSleeping /\ threads' = threads
    BY <1>14 DEF Begin
  <2>3. AnySignal => AnySignal'
    BY <1>14, ConstantsAssumption DEF Begin, Goto, Runners, AnySignal, TypeOK, PcOK
  <2>4. \A s \in Submitters : pc'[s] = "parked" => pc[s] = "parked"
    BY <1>14, ConstantsAssumption DEF Begin, Goto, Runners, TypeOK, PcOK
  <2>5. QED
    BY <2>1, <2>2, <2>3, <2>4 DEF NoLostWakeup, CallersMayPark, nworkers
<1>15. ASSUME NEW w \in Workers, EndSpin(w) PROVE NoLostWakeup'
  <2>1. WorkersMayPark'
    BY <1>15, ConstantsAssumption DEF EndSpin, Goto, Runners, NoLostWakeup, WorkersMayPark, TypeOK, PcOK
  <2>2. completed' = completed /\ mainSleeping' = mainSleeping /\ threads' = threads
    BY <1>15 DEF EndSpin
  <2>3. AnySignal => AnySignal'
    BY <1>15, ConstantsAssumption DEF EndSpin, Goto, Runners, AnySignal, TypeOK, PcOK
  <2>4. \A s \in Submitters : pc'[s] = "parked" => pc[s] = "parked"
    BY <1>15, ConstantsAssumption DEF EndSpin, Goto, Runners, TypeOK, PcOK
  <2>5. QED
    BY <2>1, <2>2, <2>3, <2>4 DEF NoLostWakeup, CallersMayPark, nworkers
<1>16. ASSUME NEW w \in Workers, Park(w) PROVE NoLostWakeup'
  <2>1. WorkersMayPark'
    BY <1>16, ConstantsAssumption DEF Park, Goto, Runners, NoLostWakeup, WorkersMayPark, TypeOK, PcOK
  <2>2. completed' = completed /\ mainSleeping' = mainSleeping /\ threads' = threads
    BY <1>16 DEF Park
  <2>3. AnySignal => AnySignal'
    BY <1>16, ConstantsAssumption DEF Park, Goto, Runners, AnySignal, TypeOK, PcOK
  <2>4. \A s \in Submitters : pc'[s] = "parked" => pc[s] = "parked"
    BY <1>16, ConstantsAssumption DEF Park, Goto, Runners, TypeOK, PcOK
  <2>5. QED
    BY <2>1, <2>2, <2>3, <2>4 DEF NoLostWakeup, CallersMayPark, nworkers
<1>17. ASSUME NEW w \in Workers, Unpark(w) PROVE NoLostWakeup'
  <2>1. WorkersMayPark'
    BY <1>17, ConstantsAssumption DEF Unpark, Goto, Runners, NoLostWakeup, WorkersMayPark, TypeOK, PcOK
  <2>2. completed' = completed /\ mainSleeping' = mainSleeping /\ threads' = threads
    BY <1>17 DEF Unpark
  <2>3. AnySignal => AnySignal'
    BY <1>17, ConstantsAssumption DEF Unpark, Goto, Runners, AnySignal, TypeOK, PcOK
  <2>4. \A s \in Submitters : pc'[s] = "parked" => pc[s] = "parked"
    BY <1>17, ConstantsAssumption DEF Unpark, Goto, Runners, TypeOK, PcOK
  <2>5. QED
    BY <2>1, <2>2, <2>3, <2>4 DEF NoLostWakeup, CallersMayPark, nworkers
<1>18. ASSUME NEW w \in Workers, TakeOrExit(w) PROVE NoLostWakeup'
  <2>1. WorkersMayPark'
    BY <1>18, ConstantsAssumption DEF TakeOrExit, Goto, Runners, NoLostWakeup, WorkersMayPark, TypeOK, PcOK
  <2>2. completed' = completed /\ mainSleeping' = mainSleeping /\ threads' = threads
    BY <1>18 DEF TakeOrExit
  <2>3. AnySignal => AnySignal'
    BY <1>18, ConstantsAssumption DEF TakeOrExit, Goto, Runners, AnySignal, TypeOK, PcOK
  <2>4. \A s \in Submitters : pc'[s] = "parked" => pc[s] = "parked"
    BY <1>18, ConstantsAssumption DEF TakeOrExit, Goto, Runners, TypeOK, PcOK
  <2>5. QED
    BY <2>1, <2>2, <2>3, <2>4 DEF NoLostWakeup, CallersMayPark, nworkers
<1>19. ASSUME NEW w \in Workers, LoadGeneration(w) PROVE NoLostWakeup'
  <2>1. WorkersMayPark'
    BY <1>19, ConstantsAssumption DEF LoadGeneration, Goto, Runners, NoLostWakeup, WorkersMayPark, TypeOK, PcOK
  <2>2. completed' = completed /\ mainSleeping' = mainSleeping /\ threads' = threads
    BY <1>19 DEF LoadGeneration
  <2>3. AnySignal => AnySignal'
    BY <1>19, ConstantsAssumption DEF LoadGeneration, Goto, Runners, AnySignal, TypeOK, PcOK
  <2>4. \A s \in Submitters : pc'[s] = "parked" => pc[s] = "parked"
    BY <1>19, ConstantsAssumption DEF LoadGeneration, Goto, Runners, TypeOK, PcOK
  <2>5. QED
    BY <2>1, <2>2, <2>3, <2>4 DEF NoLostWakeup, CallersMayPark, nworkers
<1>20. ASSUME NEW w \in Workers, LoadJob(w) PROVE NoLostWakeup'
  <2>1. WorkersMayPark'
    BY <1>20, ConstantsAssumption DEF LoadJob, Goto, Runners, NoLostWakeup, WorkersMayPark, TypeOK, PcOK
  <2>2. completed' = completed /\ mainSleeping' = mainSleeping /\ threads' = threads
    BY <1>20 DEF LoadJob
  <2>3. AnySignal => AnySignal'
    BY <1>20, ConstantsAssumption DEF LoadJob, Goto, Runners, AnySignal, TypeOK, PcOK
  <2>4. \A s \in Submitters : pc'[s] = "parked" => pc[s] = "parked"
    BY <1>20, ConstantsAssumption DEF LoadJob, Goto, Runners, TypeOK, PcOK
  <2>5. QED
    BY <2>1, <2>2, <2>3, <2>4 DEF NoLostWakeup, CallersMayPark, nworkers
<1>21. ASSUME NEW w \in Workers, Claim(w, job[w], "done") PROVE NoLostWakeup'
  <2>1. WorkersMayPark'
    BY <1>21, ConstantsAssumption DEF Claim, Goto, Runners, NoLostWakeup, WorkersMayPark, TypeOK, PcOK
  <2>2. completed' = completed /\ mainSleeping' = mainSleeping /\ threads' = threads
    BY <1>21 DEF Claim
  <2>3. AnySignal => AnySignal'
    BY <1>21, ConstantsAssumption DEF Claim, Goto, Runners, AnySignal, TypeOK, PcOK
  <2>4. \A s \in Submitters : pc'[s] = "parked" => pc[s] = "parked"
    BY <1>21, ConstantsAssumption DEF Claim, Goto, Runners, TypeOK, PcOK
  <2>5. QED
    BY <2>1, <2>2, <2>3, <2>4 DEF NoLostWakeup, CallersMayPark, nworkers
<1>22. ASSUME NEW w \in Workers, RunChunk(w, job[w]) PROVE NoLostWakeup'
  <2>1. WorkersMayPark'
    BY <1>22, ConstantsAssumption DEF RunChunk, Goto, Runners, NoLostWakeup, WorkersMayPark, TypeOK, PcOK
  <2>2. completed' = completed /\ mainSleeping' = mainSleeping /\ threads' = threads
    BY <1>22 DEF RunChunk
  <2>3. AnySignal => AnySignal'
    BY <1>22, ConstantsAssumption DEF RunChunk, Goto, Runners, AnySignal, TypeOK, PcOK
  <2>4. \A s \in Submitters : pc'[s] = "parked" => pc[s] = "parked"
    BY <1>22, ConstantsAssumption DEF RunChunk, Goto, Runners, TypeOK, PcOK
  <2>5. QED
    BY <2>1, <2>2, <2>3, <2>4 DEF NoLostWakeup, CallersMayPark, nworkers
<1>23. ASSUME NEW w \in Workers, CheckIn(w) PROVE NoLostWakeup'
  <2>1. WorkersMayPark'
    BY <1>23, ConstantsAssumption DEF CheckIn, Goto, Runners, NoLostWakeup, WorkersMayPark, TypeOK, PcOK
  <2>2. completed' = completed + 1 /\ mainSleeping' = mainSleeping /\ threads' = threads
    BY <1>23 DEF CheckIn
  <2>3. completed + 1 = nworkers => AnySignal'
    BY <1>23 DEF CheckIn, Goto, Runners, AnySignal, TypeOK, PcOK
  <2>4. \A s \in Submitters : pc'[s] = "parked" => pc[s] = "parked"
    BY <1>23, ConstantsAssumption DEF CheckIn, Goto, Runners, TypeOK, PcOK
  <2>5. QED
    BY <2>1, <2>2, <2>3, <2>4 DEF NoLostWakeup, CallersMayPark, nworkers
<1>24. ASSUME NEW w \in Workers, Signal(w) PROVE NoLostWakeup'
  <2>1. WorkersMayPark'
    BY <1>24, ConstantsAssumption DEF Signal, Goto, Runners, NoLostWakeup, WorkersMayPark, TypeOK, PcOK
  <2>2. \A s \in Submitters : pc'[s] # "parked"
    BY <1>24, ConstantsAssumption DEF Signal, Runners, NoLostWakeup, CallersMayPark, TypeOK, PcOK
  <2>3. QED
    BY <2>1, <2>2 DEF NoLostWakeup, CallersMayPark
<1>25. ASSUME NEW t \in Runners, SpuriousWake(t) PROVE NoLostWakeup'
  <2>1. WorkersMayPark'
    BY <1>25, ConstantsAssumption DEF SpuriousWake, Goto, Runners, NoLostWakeup, WorkersMayPark, TypeOK, PcOK
  <2>2. completed' = completed /\ mainSleeping' = mainSleeping /\ threads' = threads
    BY <1>25 DEF SpuriousWake
  <2>3. AnySignal => AnySignal'
    BY <1>25, ConstantsAssumption DEF SpuriousWake, Goto, Runners, AnySignal, TypeOK, PcOK
  <2>4. \A s \in Submitters : pc'[s] = "parked" => pc[s] = "parked"
    BY <1>25, ConstantsAssumption DEF SpuriousWake, Goto, Runners, TypeOK, PcOK
  <2>5. QED
    BY <2>1, <2>2, <2>3, <2>4 DEF NoLostWakeup, CallersMayPark, nworkers
<1>26. CASE UNCHANGED vars
  BY <1>26 DEF vars, poolVars, jobVars, Unused, nworkers, NoLostWakeup, WorkersMayPark, CallersMayPark, AnySignal
<1>27. QED
  BY <1>1, <1>2, <1>3, <1>4, <1>5, <1>6, <1>7, <1>8, <1>9, <1>10, <1>11, <1>12, <1>13, <1>14, <1>15, <1>16, <1>17, <1>18, <1>19, <1>20, <1>21, <1>22, <1>23, <1>24, <1>25, <1>26 DEF Next, CallStep, WorkerStep

\* The initial states, before any pool is started, satisfy the invariant.
LEMMA InitInv == Init => IInv /\ NoLostWakeup
<1> SUFFICES ASSUME Init PROVE IInv /\ NoLostWakeup
  OBVIOUS
<1> USE ConstantsAssumption DEF Init, Runners
<1>1. TypeOK
  <2>1. Cardinality(Workers) \in Nat
    BY FS_CardinalityType
  <2>2. PcOK
    BY DEF PcOK, WorkerPC, SubmitPC
  <2>3. 0 \in Chunks
    BY DEF Chunks
  <2>4. ran \in [Submitters -> [Chunks -> Nat]]
    BY DEF NoRun
  <2>5. /\ seen \in [Workers -> Nat] /\ job \in [Workers -> Submitters \cup {NoJob}]
        /\ chunk \in [Runners -> Chunks] /\ next \in [Submitters -> Nat]
        /\ nt \in [Submitters -> 0 .. MaxChunks]
    BY <2>3
  <2>6. want \in 0 .. Cardinality(Workers)
    BY <2>1
  <2>7. QED
    BY <2>2, <2>4, <2>5, <2>6 DEF TypeOK
<1>2. SleepingExact
  <2>1. {w \in Workers : pc[w] \in {"parked", "woken"}} = {}
    OBVIOUS
  <2>2. QED
    BY <2>1, FS_EmptySet DEF SleepingExact
<1>3. SlotInv /\ WorkerInv
  BY DEF SlotInv, WorkerInv, Holding, Working, AtWork, Unused
<1>4. CountInv
  BY DEF CountInv, AnyActive, Active, Working
<1>5. ChunkInv
  BY DEF ChunkInv, ClaimedInv, RunnerInv, CallInv, Claimed, InHand, Runs, Chunks, NoRun
<1>6. NoLostWakeup
  BY DEF NoLostWakeup, WorkersMayPark, CallersMayPark
<1>7. QED
  BY <1>1, <1>2, <1>3, <1>4, <1>5, <1>6 DEF IInv

\* The inductive invariant holds throughout.
THEOREM Invariance == Spec => [](IInv /\ NoLostWakeup)
<1>1. IInv /\ NoLostWakeup /\ [Next]_vars => (IInv /\ NoLostWakeup)'
  BY TypeStep, SleepingStep, SlotStep, WorkerStepInv, CountStep, ChunkStep, WakeupStep
     DEF IInv, TypeOK
<1>2. QED
  BY InitInv, <1>1, PTL DEF Spec

\* Every variable of the pool keeps its type.
THEOREM TypeCorrect == Spec => []TypeOK
<1>1. IInv => TypeOK
  BY DEF IInv
<1>2. QED
  BY Invariance, <1>1, PTL

\* P.sleeping is exact, so a dispatch that skips the broadcast skips nobody.
THEOREM SleepingIsExact == Spec => []SleepingExact
<1>1. IInv => SleepingExact
  BY DEF IInv
<1>2. QED
  BY Invariance, <1>1, PTL

\* The note on lost wakeups in worker_main, on both condition variables.
THEOREM NoWakeupIsLost == Spec => []NoLostWakeup
<1>1. QED
  BY Invariance, PTL

\* No worker touches a job whose qwen_parallel has returned.
THEOREM JobFrameIsAlive == Spec => []JobFrameAlive
<1>1. IInv => JobFrameAlive
  <2> SUFFICES ASSUME IInv, NEW w \in Workers, pc[w] \in {"claim", "run"}
               PROVE  /\ job[w] \in Submitters
                      /\ slot = job[w] /\ submitMtx = job[w]
                      /\ pc[job[w]] \in Working
                      /\ seen[w] = generation
    BY DEF JobFrameAlive
  <2>1. seen[w] = generation /\ job[w] = slot /\ slot # NoJob
    BY DEF IInv, WorkerInv
  <2>2. job[w] \in Submitters /\ submitMtx = slot
    BY <2>1 DEF IInv, SlotInv, TypeOK
  <2>3. pc[job[w]] \in Working
    BY <2>2 DEF IInv, ChunkInv, CallInv, Active
  <2>4. QED
    BY <2>1, <2>2, <2>3
<1>2. QED
  BY Invariance, <1>1, PTL

\* Once a call is past its wait, all its chunks have run, each once.
LEMMA ClearMeansRan == IInv => AllChunksRan
<1> SUFFICES ASSUME IInv, NEW s \in Submitters, pc[s] = "clear",
                    NEW i \in 0 .. nt[s] - 1
             PROVE  ran[s][i] = 1
  BY DEF AllChunksRan
<1>1. next[s] >= nt[s] /\ nt[s] \in 0 .. MaxChunks /\ next[s] \in Nat
  BY DEF IInv, ChunkInv, CallInv, TypeOK
<1>2. i \in Chunks /\ i < nt[s] /\ i < next[s]
  BY <1>1, ConstantsAssumption DEF Chunks
<1>3. \A r \in Runners : ~Runs(r, s, i)
  <2>1. \A w \in Workers : pc[w] # "run" \/ job[w] # s
    BY DEF IInv, ChunkInv, CallInv, Active, Working
  <2>2. QED
    BY <2>1 DEF Runs, JobOf, Runners
<1>4. Claimed(s, i)
  BY <1>2 DEF IInv, ChunkInv, ClaimedInv
<1>5. QED
  BY <1>2, <1>3, <1>4 DEF Claimed

\* qwen_parallel gets past its wait only when every chunk has run once.
THEOREM ChunksAllRan == Spec => []AllChunksRan
<1>1. QED
  BY Invariance, ClearMeansRan, PTL

SizeOf == [s \in Submitters |-> IF pc[s] = "idle" THEN 0 ELSE nt[s]]

\* A step that starts and ends no call leaves the abstract sizes alone.
LEMMA SameSize ==
    ASSUME nt' = nt, \A s \in Submitters : pc'[s] = "idle" <=> pc[s] = "idle"
    PROVE  SizeOf' = SizeOf
BY DEF SizeOf

\* Leaving qwen_parallel with all chunks run is the abstract Return.
LEMMA ReturnStep ==
    ASSUME TypeOK, NEW s \in Submitters, ran' = ran, nt' = nt,
           pc' = [pc EXCEPT ![s] = "idle"], pc[s] # "idle", nt[s] # 0,
           \A i \in 0 .. nt[s] - 1 : ran[s][i] = 1
    PROVE  PF!Return(s)
<1>1. SizeOf[s] = nt[s] /\ SizeOf' = [SizeOf EXCEPT ![s] = 0]
  BY ConstantsAssumption DEF SizeOf, TypeOK, PcOK, Runners
<1>2. QED
  BY <1>1 DEF PF!Return, SizeOf

\* Every step of the pool is a step of the parallel-for or a stutter.
LEMMA RefinementStep == IInv /\ [Next]_vars => [PF!PFNext]_(PF!pfvars)
<1> SUFFICES ASSUME IInv, [Next]_vars PROVE [PF!PFNext]_(PF!pfvars)
  OBVIOUS
<1> USE DEF IInv, poolVars, jobVars
<1>1. ASSUME NEW n \in 0 .. Cardinality(Workers), StopPool(n) PROVE [PF!PFNext]_(PF!pfvars)
  <2>1. nt' = nt /\ ran' = ran
    BY <1>1 DEF StopPool
  <2>2. \A s \in Submitters : pc'[s] = "idle" <=> pc[s] = "idle"
    BY <1>1, ConstantsAssumption DEF StopPool, Goto, Runners, WakeAll, Unused, TypeOK, PcOK, SlotInv, WorkerInv
  <2>3. QED
    BY <2>1, <2>2, SameSize DEF PF!pfvars, SizeOf
<1>2. ASSUME NEW n \in 0 .. Cardinality(Workers), StartPool(n) PROVE [PF!PFNext]_(PF!pfvars)
  <2>1. nt' = nt /\ ran' = ran
    BY <1>2 DEF StartPool
  <2>2. \A s \in Submitters : pc'[s] = "idle" <=> pc[s] = "idle"
    BY <1>2, ConstantsAssumption DEF StartPool, Goto, Runners, CreateThreads, Unused, TypeOK, PcOK, SlotInv, WorkerInv
  <2>3. QED
    BY <2>1, <2>2, SameSize DEF PF!pfvars, SizeOf
<1>3. ASSUME JoinAndStart PROVE [PF!PFNext]_(PF!pfvars)
  <2>1. nt' = nt /\ ran' = ran
    BY <1>3 DEF JoinAndStart
  <2>2. \A s \in Submitters : pc'[s] = "idle" <=> pc[s] = "idle"
    BY <1>3, ConstantsAssumption DEF JoinAndStart, Goto, Runners, CreateThreads, Unused, TypeOK, PcOK, SlotInv, WorkerInv
  <2>3. QED
    BY <2>1, <2>2, SameSize DEF PF!pfvars, SizeOf
<1>4. ASSUME NEW s \in Submitters, NEW n \in 1 .. MaxChunks, Enter(s, n) PROVE [PF!PFNext]_(PF!pfvars)
  <2>1. /\ pc[s] = "idle" /\ pc' = [pc EXCEPT ![s] = pc'[s]] /\ pc'[s] # "idle"
        /\ nt' = [nt EXCEPT ![s] = n] /\ ran' = [ran EXCEPT ![s] = NoRun]
    BY <1>4 DEF Enter, Goto, TypeOK, PcOK, Runners
  <2>2. SizeOf[s] = 0 /\ SizeOf' = [SizeOf EXCEPT ![s] = n]
    BY <2>1, ConstantsAssumption DEF SizeOf, TypeOK, PcOK, Runners
  <2>3. PF!Call(s, n)
    BY <2>1, <2>2 DEF PF!Call, SizeOf, PF!NoRun, PF!Chunks, NoRun, Chunks
  <2>4. QED
    BY <2>3 DEF PF!PFNext
<1>5. ASSUME NEW s \in Submitters, Inline(s) PROVE [PF!PFNext]_(PF!pfvars)
  <2>1. \A r \in Runners, i \in Chunks : ~Runs(r, s, i)
    BY <1>5, ConstantsAssumption DEF Inline, Runs, JobOf, ChunkInv, CallInv, Active, Working, TypeOK, PcOK, Runners
  <2>2. next[s] \in Nat /\ nt[s] \in 0 .. MaxChunks /\ nt[s] # 0 /\ pc[s] = "inline"
    BY <1>5 DEF Inline, TypeOK, ChunkInv, CallInv
  <2>3. CASE next[s] < nt[s]
    <3>1. next[s] \in Chunks /\ Claimed(s, next[s])
      BY <2>2, <2>3, ConstantsAssumption DEF ChunkInv, ClaimedInv, Chunks
    <3>2. ran[s][next[s]] = 0
      BY <2>2, <3>1 DEF Claimed
    <3>3. ran' = [ran EXCEPT ![s][next[s]] = 1] /\ nt' = nt /\ pc' = pc
      BY <1>5, <2>3, <3>2 DEF Inline
    <3>4. SizeOf' = SizeOf /\ SizeOf[s] = nt[s]
      BY <2>2, <3>3 DEF SizeOf
    <3>5. PF!RunChunk(s, next[s])
      BY <2>3, <3>2, <3>3, <3>4 DEF PF!RunChunk, SizeOf
    <3>6. QED
      BY <3>1, <3>5 DEF PF!PFNext, PF!Chunks, Chunks
  <2>4. CASE ~(next[s] < nt[s])
    <3>1. ran' = ran /\ nt' = nt /\ pc' = [pc EXCEPT ![s] = "idle"]
      BY <1>5, <2>4 DEF Inline, Goto
    <3>2. \A i \in 0 .. nt[s] - 1 : ran[s][i] = 1
      <4>1. SUFFICES ASSUME NEW i \in 0 .. nt[s] - 1 PROVE ran[s][i] = 1
        OBVIOUS
      <4>2. i \in Chunks /\ i < nt[s] /\ i < next[s]
        BY <2>2, <2>4, ConstantsAssumption DEF Chunks
      <4>3. Claimed(s, i)
        BY <4>2 DEF ChunkInv, ClaimedInv
      <4>4. QED
        BY <2>1, <4>2, <4>3 DEF Claimed
    <3>3. PF!Return(s)
      BY <2>2, <3>1, <3>2, ReturnStep
    <3>4. QED
      BY <3>3 DEF PF!PFNext
  <2>5. QED
    BY <2>3, <2>4
<1>6. ASSUME NEW s \in Submitters, LockSubmit(s) PROVE [PF!PFNext]_(PF!pfvars)
  <2>1. nt' = nt /\ ran' = ran
    BY <1>6 DEF LockSubmit
  <2>2. \A q \in Submitters : pc'[q] = "idle" <=> pc[q] = "idle"
    BY <1>6, ConstantsAssumption DEF LockSubmit, Goto, Runners, TypeOK, PcOK, WorkerInv
  <2>3. QED
    BY <2>1, <2>2, SameSize DEF PF!pfvars, SizeOf
<1>7. ASSUME NEW s \in Submitters, Post(s) PROVE [PF!PFNext]_(PF!pfvars)
  <2>1. nt' = nt /\ ran' = ran
    BY <1>7 DEF Post
  <2>2. \A q \in Submitters : pc'[q] = "idle" <=> pc[q] = "idle"
    BY <1>7, ConstantsAssumption DEF Post, Goto, Runners, TypeOK, PcOK, WorkerInv
  <2>3. QED
    BY <2>1, <2>2, SameSize DEF PF!pfvars, SizeOf
<1>8. ASSUME NEW s \in Submitters, Bump(s) PROVE [PF!PFNext]_(PF!pfvars)
  <2>1. nt' = nt /\ ran' = ran
    BY <1>8 DEF Bump
  <2>2. \A q \in Submitters : pc'[q] = "idle" <=> pc[q] = "idle"
    BY <1>8, ConstantsAssumption DEF Bump, Goto, Runners, WakeAll, TypeOK, PcOK, WorkerInv
  <2>3. QED
    BY <2>1, <2>2, SameSize DEF PF!pfvars, SizeOf
<1>9. ASSUME NEW s \in Submitters, Claim(s, s, "check") PROVE [PF!PFNext]_(PF!pfvars)
  <2>1. nt' = nt /\ ran' = ran
    BY <1>9 DEF Claim
  <2>2. \A q \in Submitters : pc'[q] = "idle" <=> pc[q] = "idle"
    BY <1>9, ConstantsAssumption DEF Claim, Goto, Runners, TypeOK, PcOK, WorkerInv
  <2>3. QED
    BY <2>1, <2>2, SameSize DEF PF!pfvars, SizeOf
<1>10. ASSUME NEW s \in Submitters, RunChunk(s, s) PROVE [PF!PFNext]_(PF!pfvars)
  <2>1. s \in Submitters /\ s \in Runners /\ JobOf(s) = s
    BY <1>10, ConstantsAssumption DEF RunChunk, JobOf, WorkerInv, Runners, TypeOK, PcOK
  <2>2. Runs(s, s, chunk[s]) /\ chunk[s] \in Chunks
    BY <1>10, <2>1 DEF RunChunk, Runs, TypeOK
  <2>3. InHand(s, s, chunk[s])
    BY <2>1, <2>2 DEF ChunkInv, RunnerInv
  <2>4. chunk[s] < nt[s] /\ ran[s][chunk[s]] = 0
    BY <2>2, <2>3 DEF InHand
  <2>5. ran' = [ran EXCEPT ![s][chunk[s]] = 1] /\ nt' = nt
    BY <1>10, <2>4 DEF RunChunk
  <2>6. pc[s] # "idle" /\ \A t \in Submitters : pc'[t] = "idle" <=> pc[t] = "idle"
    BY <1>10, <2>1, ConstantsAssumption DEF RunChunk, Goto, Runners, ChunkInv, CallInv, Active, Working, TypeOK, PcOK
  <2>7. SizeOf' = SizeOf /\ SizeOf[s] = nt[s]
    BY <2>1, <2>5, <2>6 DEF SizeOf
  <2>8. PF!RunChunk(s, chunk[s])
    BY <2>4, <2>5, <2>7 DEF PF!RunChunk, SizeOf
  <2>9. QED
    BY <2>1, <2>2, <2>8 DEF PF!PFNext, PF!Chunks, Chunks
<1>11. ASSUME NEW s \in Submitters, Check(s) PROVE [PF!PFNext]_(PF!pfvars)
  <2>1. nt' = nt /\ ran' = ran
    BY <1>11 DEF Check
  <2>2. \A q \in Submitters : pc'[q] = "idle" <=> pc[q] = "idle"
    BY <1>11, ConstantsAssumption DEF Check, Goto, Runners, TypeOK, PcOK, WorkerInv
  <2>3. QED
    BY <2>1, <2>2, SameSize DEF PF!pfvars, SizeOf
<1>12. ASSUME NEW s \in Submitters, ParkMain(s) PROVE [PF!PFNext]_(PF!pfvars)
  <2>1. nt' = nt /\ ran' = ran
    BY <1>12 DEF ParkMain
  <2>2. \A q \in Submitters : pc'[q] = "idle" <=> pc[q] = "idle"
    BY <1>12, ConstantsAssumption DEF ParkMain, Goto, Runners, TypeOK, PcOK, WorkerInv
  <2>3. QED
    BY <2>1, <2>2, SameSize DEF PF!pfvars, SizeOf
<1>13. ASSUME NEW s \in Submitters, Clear(s) PROVE [PF!PFNext]_(PF!pfvars)
  <2>1. /\ ran' = ran /\ nt' = nt /\ pc' = [pc EXCEPT ![s] = "idle"]
        /\ pc[s] = "clear" /\ nt[s] \in 0 .. MaxChunks /\ nt[s] # 0
    BY <1>13 DEF Clear, Goto, TypeOK, ChunkInv, CallInv
  <2>2. PF!Return(s)
    BY <2>1, ClearMeansRan, ReturnStep DEF AllChunksRan, IInv
  <2>3. QED
    BY <2>2 DEF PF!PFNext
<1>14. ASSUME NEW w \in Workers, Begin(w) PROVE [PF!PFNext]_(PF!pfvars)
  <2>1. nt' = nt /\ ran' = ran
    BY <1>14 DEF Begin
  <2>2. \A s \in Submitters : pc'[s] = "idle" <=> pc[s] = "idle"
    BY <1>14, ConstantsAssumption DEF Begin, Goto, Runners, TypeOK, PcOK, WorkerInv
  <2>3. QED
    BY <2>1, <2>2, SameSize DEF PF!pfvars, SizeOf
<1>15. ASSUME NEW w \in Workers, EndSpin(w) PROVE [PF!PFNext]_(PF!pfvars)
  <2>1. nt' = nt /\ ran' = ran
    BY <1>15 DEF EndSpin
  <2>2. \A s \in Submitters : pc'[s] = "idle" <=> pc[s] = "idle"
    BY <1>15, ConstantsAssumption DEF EndSpin, Goto, Runners, TypeOK, PcOK, WorkerInv
  <2>3. QED
    BY <2>1, <2>2, SameSize DEF PF!pfvars, SizeOf
<1>16. ASSUME NEW w \in Workers, Park(w) PROVE [PF!PFNext]_(PF!pfvars)
  <2>1. nt' = nt /\ ran' = ran
    BY <1>16 DEF Park
  <2>2. \A s \in Submitters : pc'[s] = "idle" <=> pc[s] = "idle"
    BY <1>16, ConstantsAssumption DEF Park, Goto, Runners, TypeOK, PcOK, WorkerInv
  <2>3. QED
    BY <2>1, <2>2, SameSize DEF PF!pfvars, SizeOf
<1>17. ASSUME NEW w \in Workers, Unpark(w) PROVE [PF!PFNext]_(PF!pfvars)
  <2>1. nt' = nt /\ ran' = ran
    BY <1>17 DEF Unpark
  <2>2. \A s \in Submitters : pc'[s] = "idle" <=> pc[s] = "idle"
    BY <1>17, ConstantsAssumption DEF Unpark, Goto, Runners, TypeOK, PcOK, WorkerInv
  <2>3. QED
    BY <2>1, <2>2, SameSize DEF PF!pfvars, SizeOf
<1>18. ASSUME NEW w \in Workers, TakeOrExit(w) PROVE [PF!PFNext]_(PF!pfvars)
  <2>1. nt' = nt /\ ran' = ran
    BY <1>18 DEF TakeOrExit
  <2>2. \A s \in Submitters : pc'[s] = "idle" <=> pc[s] = "idle"
    BY <1>18, ConstantsAssumption DEF TakeOrExit, Goto, Runners, TypeOK, PcOK, WorkerInv
  <2>3. QED
    BY <2>1, <2>2, SameSize DEF PF!pfvars, SizeOf
<1>19. ASSUME NEW w \in Workers, LoadGeneration(w) PROVE [PF!PFNext]_(PF!pfvars)
  <2>1. nt' = nt /\ ran' = ran
    BY <1>19 DEF LoadGeneration
  <2>2. \A s \in Submitters : pc'[s] = "idle" <=> pc[s] = "idle"
    BY <1>19, ConstantsAssumption DEF LoadGeneration, Goto, Runners, TypeOK, PcOK, WorkerInv
  <2>3. QED
    BY <2>1, <2>2, SameSize DEF PF!pfvars, SizeOf
<1>20. ASSUME NEW w \in Workers, LoadJob(w) PROVE [PF!PFNext]_(PF!pfvars)
  <2>1. nt' = nt /\ ran' = ran
    BY <1>20 DEF LoadJob
  <2>2. \A s \in Submitters : pc'[s] = "idle" <=> pc[s] = "idle"
    BY <1>20, ConstantsAssumption DEF LoadJob, Goto, Runners, TypeOK, PcOK, WorkerInv
  <2>3. QED
    BY <2>1, <2>2, SameSize DEF PF!pfvars, SizeOf
<1>21. ASSUME NEW w \in Workers, Claim(w, job[w], "done") PROVE [PF!PFNext]_(PF!pfvars)
  <2>1. nt' = nt /\ ran' = ran
    BY <1>21 DEF Claim
  <2>2. \A s \in Submitters : pc'[s] = "idle" <=> pc[s] = "idle"
    BY <1>21, ConstantsAssumption DEF Claim, Goto, Runners, TypeOK, PcOK, WorkerInv
  <2>3. QED
    BY <2>1, <2>2, SameSize DEF PF!pfvars, SizeOf
<1>22. ASSUME NEW w \in Workers, RunChunk(w, job[w]) PROVE [PF!PFNext]_(PF!pfvars)
  <2>1. job[w] \in Submitters /\ w \in Runners /\ JobOf(w) = job[w]
    BY <1>22, ConstantsAssumption DEF RunChunk, JobOf, WorkerInv, Runners, TypeOK, PcOK
  <2>2. Runs(w, job[w], chunk[w]) /\ chunk[w] \in Chunks
    BY <1>22, <2>1 DEF RunChunk, Runs, TypeOK
  <2>3. InHand(w, job[w], chunk[w])
    BY <2>1, <2>2 DEF ChunkInv, RunnerInv
  <2>4. chunk[w] < nt[job[w]] /\ ran[job[w]][chunk[w]] = 0
    BY <2>2, <2>3 DEF InHand
  <2>5. ran' = [ran EXCEPT ![job[w]][chunk[w]] = 1] /\ nt' = nt
    BY <1>22, <2>4 DEF RunChunk
  <2>6. pc[job[w]] # "idle" /\ \A t \in Submitters : pc'[t] = "idle" <=> pc[t] = "idle"
    BY <1>22, <2>1, ConstantsAssumption DEF RunChunk, Goto, Runners, ChunkInv, CallInv, Active, Working, TypeOK, PcOK
  <2>7. SizeOf' = SizeOf /\ SizeOf[job[w]] = nt[job[w]]
    BY <2>1, <2>5, <2>6 DEF SizeOf
  <2>8. PF!RunChunk(job[w], chunk[w])
    BY <2>4, <2>5, <2>7 DEF PF!RunChunk, SizeOf
  <2>9. QED
    BY <2>1, <2>2, <2>8 DEF PF!PFNext, PF!Chunks, Chunks
<1>23. ASSUME NEW w \in Workers, CheckIn(w) PROVE [PF!PFNext]_(PF!pfvars)
  <2>1. nt' = nt /\ ran' = ran
    BY <1>23 DEF CheckIn
  <2>2. \A s \in Submitters : pc'[s] = "idle" <=> pc[s] = "idle"
    BY <1>23, ConstantsAssumption DEF CheckIn, Goto, Runners, TypeOK, PcOK, WorkerInv
  <2>3. QED
    BY <2>1, <2>2, SameSize DEF PF!pfvars, SizeOf
<1>24. ASSUME NEW w \in Workers, Signal(w) PROVE [PF!PFNext]_(PF!pfvars)
  <2>1. nt' = nt /\ ran' = ran
    BY <1>24 DEF Signal
  <2>2. \A s \in Submitters : pc'[s] = "idle" <=> pc[s] = "idle"
    BY <1>24, ConstantsAssumption DEF Signal, Goto, Runners, TypeOK, PcOK, WorkerInv
  <2>3. QED
    BY <2>1, <2>2, SameSize DEF PF!pfvars, SizeOf
<1>25. ASSUME NEW t \in Runners, SpuriousWake(t) PROVE [PF!PFNext]_(PF!pfvars)
  <2>1. nt' = nt /\ ran' = ran
    BY <1>25 DEF SpuriousWake
  <2>2. \A s \in Submitters : pc'[s] = "idle" <=> pc[s] = "idle"
    BY <1>25, ConstantsAssumption DEF SpuriousWake, Goto, Runners, TypeOK, PcOK, WorkerInv
  <2>3. QED
    BY <2>1, <2>2, SameSize DEF PF!pfvars, SizeOf
<1>26. CASE UNCHANGED vars
  BY <1>26, SameSize DEF vars, poolVars, jobVars, PF!pfvars, SizeOf
<1>27. QED
  BY <1>1, <1>2, <1>3, <1>4, <1>5, <1>6, <1>7, <1>8, <1>9, <1>10, <1>11, <1>12, <1>13, <1>14, <1>15, <1>16, <1>17, <1>18, <1>19, <1>20, <1>21, <1>22, <1>23, <1>24, <1>25, <1>26 DEF Next, CallStep, WorkerStep

\* The pool implements the parallel-for its header promises.
THEOREM Refinement == Spec => ImplementsParallelFor
<1>1. Init => PF!PFInit
  BY ConstantsAssumption DEF Init, PF!PFInit, PF!NoRun, NoRun, PF!Chunks, Chunks, Runners
<1>2. IInv /\ [Next]_vars => [PF!PFNext]_(PF!pfvars)
  BY RefinementStep
<1>3. QED
  BY Invariance, <1>1, <1>2, PTL DEF Spec, PF!PFSpec, ImplementsParallelFor
-----------------------------------------------------------------------------
(* The decoder's pool (DecoderPool_proofs), with the names it has beside the *)
(* generator's: each step of the one is that step of the other.              *)

DecP == INSTANCE DecoderPool_proofs WITH
    Helpers <- Workers, Callers <- Submitters, Together <- FALSE,
    MaxPieces <- MaxPieces, MaxJobs <- MaxJobs, None <- NoJob,
    pc <- dpc, started <- dstarted, gen <- dgen, pending <- dpending, ctx <- dctx,
    seen <- dseen, job <- djob, piece <- dpiece, next <- dnext, n <- dn,
    posted <- dposted, ran <- dran

\* Both count alike ...
LEMMA SameCardinality == \A S : Dec!Cardinality(S) = DecP!Cardinality(S)
  BY DEF Dec!Cardinality, DecP!Cardinality

\* ... and callers take turns.
LEMMA DecoderTurns == Dec!PoolAssumption => DecP!Turns
<1>1. \A S : Dec!IsFiniteSet(S) => DecP!IsFiniteSet(S)
  BY DEF Dec!IsFiniteSet, DecP!IsFiniteSet
<1>2. QED
  BY <1>1 DEF DecP!Turns, DecP!PoolAssumption, Dec!PoolAssumption

LEMMA SameInit == Dec!Init => DecP!Init
  BY DEF Dec!Init, DecP!Init, Dec!NoRun, DecP!NoRun, Dec!Pieces, DecP!Pieces,
         Dec!Threads, DecP!Threads

LEMMA SameStep == [Dec!Next]_(Dec!vars) => [DecP!Next]_(DecP!vars)
<1> SUFFICES ASSUME [Dec!Next]_(Dec!vars) PROVE [DecP!Next]_(DecP!vars)
  OBVIOUS
<1> USE DEF Dec!Threads, DecP!Threads, Dec!Goto, DecP!Goto, Dec!Whose, DecP!Whose,
            Dec!poolVars, DecP!poolVars, Dec!jobVars, DecP!jobVars
<1>1. ASSUME NEW c \in Submitters, NEW k \in 1 .. MaxPieces, Dec!Post(c, k) PROVE DecP!Post(c, k)
  BY <1>1, SameCardinality DEF Dec!Post, DecP!Post, Dec!MayCall, DecP!MayCall, Dec!Up, DecP!Up,
         Dec!NoRun, DecP!NoRun, Dec!Pieces, DecP!Pieces
<1>2. ASSUME NEW c \in Submitters, Dec!Wait(c) PROVE DecP!Wait(c)
  BY <1>2 DEF Dec!Wait, DecP!Wait
<1>3. ASSUME NEW t, Dec!Claim(t) PROVE DecP!Claim(t)
  BY <1>3 DEF Dec!Claim, DecP!Claim
<1>4. ASSUME NEW t, Dec!Do(t) PROVE DecP!Do(t)
  BY <1>4 DEF Dec!Do, DecP!Do
<1>5. ASSUME NEW h \in Workers, Dec!Look(h) PROVE DecP!Look(h)
  BY <1>5 DEF Dec!Look, DecP!Look
<1>6. ASSUME NEW h \in Workers, Dec!CheckIn(h) PROVE DecP!CheckIn(h)
  BY <1>6 DEF Dec!CheckIn, DecP!CheckIn
<1>7. ASSUME NEW t \in Dec!Threads, Dec!Spurious(t) PROVE DecP!Spurious(t)
  BY <1>7 DEF Dec!Spurious, DecP!Spurious
<1>8. CASE UNCHANGED Dec!vars
  BY <1>8 DEF Dec!vars, DecP!vars
<1>9. CASE Dec!Next
  BY <1>1, <1>2, <1>3, <1>4, <1>5, <1>6, <1>7, <1>9
     DEF Dec!Next, DecP!Next, Dec!CallerStep, DecP!CallerStep, Dec!HelperStep, DecP!HelperStep
<1>10. QED
  BY <1>8, <1>9

\* If callers take turns, a helper of the decoder's pool works only on a job
\* whose sd_pool_run has not returned.
THEOREM DecoderFrameOutlivesWork == ASSUME Dec!PoolAssumption PROVE Dec!Spec => []DecoderJobAlive
<1>1. DecP!Spec => []DecP!DecoderJobAlive
  BY DecoderTurns, DecP!FrameOutlivesWork
<1>2. DecP!DecoderJobAlive => DecoderJobAlive
  BY DEF DecP!DecoderJobAlive, DecoderJobAlive, Dec!DecoderJobAlive
<1>3. QED
  BY <1>1, <1>2, SameInit, SameStep, PTL DEF Dec!Spec, DecP!Spec

\* The decoder's pool does every piece of a job once, all of them before
\* sd_pool_run returns.
THEOREM DecoderRefinement == ASSUME Dec!PoolAssumption PROVE Dec!Spec => DecoderImplementsParallelFor
<1>1. DecP!Spec => DecP!DecoderImplementsParallelFor
  BY DecoderTurns, DecP!Refinement
<1>2. DecP!PF!PFInit => Dec!PF!PFInit
  BY DEF DecP!PF!PFInit, Dec!PF!PFInit, DecP!PF!NoRun, Dec!PF!NoRun, DecP!PF!Chunks, Dec!PF!Chunks
<1>3. [DecP!PF!PFNext]_(DecP!PF!pfvars) => [Dec!PF!PFNext]_(Dec!PF!pfvars)
  BY DEF DecP!PF!PFNext, Dec!PF!PFNext, DecP!PF!NoRun, Dec!PF!NoRun, DecP!PF!Chunks, Dec!PF!Chunks,
         DecP!PF!Call, Dec!PF!Call, DecP!PF!RunChunk, Dec!PF!RunChunk, DecP!PF!Return, Dec!PF!Return,
         DecP!PF!pfvars, Dec!PF!pfvars
<1>4. QED
  BY <1>1, <1>2, <1>3, SameInit, SameStep, PTL
     DEF Dec!Spec, DecP!Spec, DecP!DecoderImplementsParallelFor, DecoderImplementsParallelFor,
         Dec!DecoderImplementsParallelFor, DecP!PF!PFSpec, Dec!PF!PFSpec
=============================================================================
