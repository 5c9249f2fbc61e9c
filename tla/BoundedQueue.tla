---------------------------- MODULE BoundedQueue ----------------------------
(***************************************************************************)
(* What conn_queue_t (qwen_tts_server.c) promises its users: a first-in    *)
(* first-out queue of at most Cap connections that, once it is shut down,  *)
(* takes nothing more and can still be drained; and a connection in it is  *)
(* not left there.  How callers wait is the business of WorkerPool.        *)
(***************************************************************************)
EXTENDS Naturals, Sequences

CONSTANTS Item, Cap
VARIABLES queue, shut
vars == <<queue, shut>>

Init == queue = << >> /\ shut = FALSE

Put == /\ ~shut /\ Len(queue) < Cap
       /\ \E x \in Item : queue' = Append(queue, x)
       /\ UNCHANGED shut

Take == /\ queue # << >>
        /\ queue' = Tail(queue)
        /\ UNCHANGED shut

Shutdown == ~shut /\ shut' = TRUE /\ UNCHANGED queue

Next == Put \/ Take \/ Shutdown

Spec == Init /\ [][Next]_vars /\ WF_vars(Take)
=============================================================================
