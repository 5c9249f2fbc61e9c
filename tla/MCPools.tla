------------------------------- MODULE MCPools -------------------------------
(****************************************************************************)
(* The two pools of threads for TLC: the generator's (ThreadPool), and the  *)
(* decoder's own (DecoderPool).  They have nothing in common, so a          *)
(* behaviour is one of either.                                              *)
(****************************************************************************)
EXTENDS ThreadPool

CONSTANTS MaxPieces, MaxJobs  \* bounds of the decoder's pool

VARIABLES which   \* the pool at work
VARIABLES dpc, dstarted, dgen, dpending, dctx, dseen, djob, dpiece, dnext, dn, dposted, dran
decVars == <<dpc, dstarted, dgen, dpending, dctx, dseen, djob, dpiece, dnext, dn, dposted, dran>>

\* Its helpers and callers, which take turns, have the names of the other's.
Dec == INSTANCE DecoderPool WITH
  Helpers <- Workers, Callers <- Submitters, Together <- FALSE,
  MaxPieces <- MaxPieces, MaxJobs <- MaxJobs, None <- NoJob,
  pc <- dpc, started <- dstarted, gen <- dgen, pending <- dpending, ctx <- dctx,
  seen <- dseen, job <- djob, piece <- dpiece, next <- dnext, n <- dn,
  posted <- dposted, ran <- dran

ASSUME DecoderAssumption == Dec!PoolAssumption

OfGenerator(step) == which = "generator" /\ step /\ UNCHANGED <<which, decVars>>
OfDecoder(step) == which = "decoder" /\ step /\ UNCHANGED <<which, vars>>

PoolsNext == OfGenerator(Next) \/ OfDecoder(Dec!Next)

\* The fairness of both, of which one has no step to take.
PoolsFairness ==
  /\ \A w \in Workers :
       WF_<<which, vars, decVars>>(OfGenerator(WorkerStep(w)) \/ OfDecoder(Dec!HelperStep(w)))
  /\ \A s \in Submitters :
       WF_<<which, vars, decVars>>(OfGenerator(CallStep(s)) \/ OfDecoder(Dec!CallerStep(s)))
  /\ WF_<<which, vars, decVars>>(OfGenerator(JoinAndStart))

PoolsInit == Init /\ Dec!Init /\ which \in {"generator", "decoder"}

PoolsSpec == /\ PoolsInit
             /\ [][PoolsNext]_<<which, vars, decVars>>
             /\ PoolsFairness

-----------------------------------------------------------------------------
(* Properties.                                                              *)

\* Every call of qwen_parallel and of sd_pool_run returns, whoever else calls
\* and however many helpers could be created.
EveryCallReturns ==
  \A s \in Submitters :
    (pc[s] # "idle" \/ dpc[s] # "idle") ~> (pc[s] = "idle" /\ dpc[s] = "idle")

\* A helper of the decoder's pool is never at work in the frame of a call that
\* has returned, nor on a job it was not woken for.
DecoderJobAlive == Dec!DecoderJobAlive

\* The decoder's pool keeps the promise of the parallel-for it replaces.
DecoderImplementsParallelFor == Dec!DecoderImplementsParallelFor
=============================================================================
