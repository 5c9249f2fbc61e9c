---------------------------- MODULE ParallelFor ----------------------------
(***************************************************************************)
(* What qwen_parallel promises its callers (qwen_tts_thread.h): a call     *)
(* invokes fn(tid, nt, ctx) once for every tid in [0, nt) and returns only *)
(* when all of them have returned.  Which thread runs a chunk, and how the *)
(* callers of two simultaneous calls are interleaved, is left open.        *)
(***************************************************************************)
EXTENDS Naturals

CONSTANTS Submitters,  \* application threads that call qwen_parallel
          MaxChunks    \* the largest nt a caller passes

VARIABLES size,  \* size[s]: nt of the call s is in, 0 outside a call
          ran    \* ran[s][i]: how often chunk i of that call has run

pfvars == <<size, ran>>

Chunks == 0 .. MaxChunks - 1
NoRun  == [i \in Chunks |-> 0]

PFInit == /\ size = [s \in Submitters |-> 0]
          /\ ran  = [s \in Submitters |-> NoRun]

Call(s, n) == /\ size[s] = 0
              /\ size' = [size EXCEPT ![s] = n]
              /\ ran' = [ran EXCEPT ![s] = NoRun]

RunChunk(s, i) == /\ i < size[s]
                  /\ ran[s][i] = 0
                  /\ ran' = [ran EXCEPT ![s][i] = 1]
                  /\ UNCHANGED size

Return(s) == /\ size[s] # 0
             /\ \A i \in 0 .. size[s] - 1 : ran[s][i] = 1
             /\ size' = [size EXCEPT ![s] = 0]
             /\ UNCHANGED ran

PFNext == \E s \in Submitters : \/ \E n \in 1 .. MaxChunks : Call(s, n)
                                \/ \E i \in Chunks : RunChunk(s, i)
                                \/ Return(s)

PFSpec == PFInit /\ [][PFNext]_pfvars
=============================================================================
