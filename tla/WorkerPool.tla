----------------------------- MODULE WorkerPool -----------------------------
(***************************************************************************)
(* The --workers server (qwen_tts_serve_ex): the main thread accepts       *)
(* connections and pushes them on a bounded queue, each worker pops one,   *)
(* reads the request, synthesizes and closes it.  With one worker there is *)
(* no queue: the main thread handles each connection itself.               *)
(*                                                                         *)
(* A critical section of conn_queue_t is one step, and who sleeps on its   *)
(* condition variables is state: "parked" workers wait for not_empty, an   *)
(* acceptor at "full" waits for not_full.                                  *)
(***************************************************************************)
EXTENDS Integers, Sequences, FiniteSets, SequencesExt

CONSTANTS Worker,      \* threads of the pool
          Conn,        \* connections; each stands for one accept, not for an fd number
          Cap,         \* CONN_QUEUE_CAP
          Serialize,   \* g_serialize_synth: the kernel pool is not reentrant
          MaxSignals,  \* bound: SIGINT and SIGTERM that arrive
          NoConn

ASSUME PoolAssumption ==
    /\ IsFiniteSet(Worker) /\ Worker # {} /\ IsFiniteSet(Conn)
    /\ Cap \in Nat \ {0} /\ MaxSignals \in Nat
    /\ Serialize \in BOOLEAN
    /\ NoConn \notin Conn

VARIABLES
    inline,   \* n_workers == 1
    running,  \* server_running
    signals,  \* counter for the bound
    apc, afd, \* the main thread: where it is, client_fd
    stage,    \* of a connection
    sent,     \* what the client of a connection has sent
    reply,    \* how the server treated it
    cq, shut, \* conn_queue_t
    wpc, wfd  \* a worker: where it is, its fd

connVars == <<stage, sent, reply>>
vars == <<inline, running, signals, apc, afd, connVars, cq, shut, wpc, wfd>>

Request == {"synth", "other", "hangup"}
Parked == {w \in Worker : wpc[w] = "parked"}

\* A failed clone leaves fewer workers, at least the one on the base context;
\* without a pool, one worker is the main thread itself.
Init ==
    /\ running = TRUE /\ signals = 0
    /\ apc = "check" /\ afd = NoConn
    /\ stage = [c \in Conn |-> "new"]
    /\ sent = [c \in Conn |-> "nothing"]
    /\ reply = [c \in Conn |-> "none"]
    /\ cq = << >> /\ shut = FALSE
    /\ inline \in BOOLEAN
    /\ \E spawned \in SUBSET Worker \ {{}} :
          /\ inline => Cardinality(spawned) = 1
          /\ wpc = [w \in Worker |-> IF w \notin spawned THEN "exit"
                                     ELSE IF inline THEN "idle" ELSE "pop"]
    /\ wfd = [w \in Worker |-> NoConn]
-----------------------------------------------------------------------------
(* Clients and signals                                                     *)

\* A client connects as long as the socket listens.
Connect(c) ==
    /\ stage[c] = "new" /\ apc \notin {"join", "stopped"}
    /\ stage' = [stage EXCEPT ![c] = "backlog"]
    /\ UNCHANGED <<inline, running, signals, apc, afd, sent, reply, cq, shut, wpc, wfd>>

\* It sends its request, whole, or closes its end.
Send(c) ==
    /\ stage[c] \in {"backlog", "accepted"} /\ sent[c] = "nothing"
    /\ \E r \in Request : sent' = [sent EXCEPT ![c] = r]
    /\ UNCHANGED <<inline, running, signals, apc, afd, stage, reply, cq, shut, wpc, wfd>>

\* handle_connection gives the connection up without an answer, or is done
\* with it: the worker goes for the next one, or the main thread does.
Closed(w, how) ==
    /\ stage' = [stage EXCEPT ![wfd[w]] = "closed"]
    /\ reply' = [reply EXCEPT ![wfd[w]] = how]
    /\ wfd' = [wfd EXCEPT ![w] = NoConn]
    /\ wpc' = [wpc EXCEPT ![w] = IF inline THEN "idle" ELSE "pop"]
    /\ apc' = IF inline THEN "check" ELSE apc

\* sigint_handler runs on whichever thread the kernel picks.  There is no
\* SA_RESTART: an accept or a read it interrupts returns -1.
Interrupt ==
    /\ signals < MaxSignals
    /\ signals' = signals + 1
    /\ running' = FALSE
    /\ \/ UNCHANGED <<apc, stage, reply, wpc, wfd>>
       \/ /\ apc = "accept" /\ apc' = "check"
          /\ UNCHANGED <<stage, reply, wpc, wfd>>
       \/ \E w \in Worker :
             /\ wpc[w] = "read" /\ sent[wfd[w]] = "nothing"
             /\ Closed(w, "interrupted")
    /\ UNCHANGED <<inline, afd, sent, cq, shut>>
-----------------------------------------------------------------------------
(* The main thread                                                         *)

\* while (server_running)
CheckRunning ==
    /\ apc = "check"
    /\ apc' = IF running THEN "accept" ELSE "close"
    /\ UNCHANGED <<inline, running, signals, afd, connVars, cq, shut, wpc, wfd>>

Accept(c) ==
    /\ apc = "accept" /\ stage[c] = "backlog"
    /\ stage' = [stage EXCEPT ![c] = "accepted"]
    /\ IF inline
       THEN /\ apc' = "serve" /\ afd' = afd
            /\ \E w \in Worker : /\ wpc[w] = "idle"
                                 /\ wfd' = [wfd EXCEPT ![w] = c]
                                 /\ wpc' = [wpc EXCEPT ![w] = "read"]
       ELSE apc' = "push" /\ afd' = c /\ UNCHANGED <<wpc, wfd>>
    /\ UNCHANGED <<inline, running, signals, sent, reply, cq, shut>>

\* pthread_cond_signal(&q->not_empty)
WakeOne(pcs) ==
    IF Parked = {} THEN wpc' = pcs
    ELSE \E w \in Parked : wpc' = [pcs EXCEPT ![w] = "pop"]

\* Mutant: not_empty is not signalled.
PushSilent ==
    /\ apc = "push"
    /\ IF Len(cq) = Cap /\ ~shut
       THEN apc' = "full" /\ UNCHANGED <<afd, cq>>
       ELSE apc' = "check" /\ afd' = NoConn /\ cq' = Append(cq, afd)
    /\ UNCHANGED <<inline, running, signals, connVars, shut, wpc, wfd>>

\* cq_push: waits for room; a queue that is shut down closes the fd.
Push ==
    /\ apc = "push"
    /\ IF Len(cq) = Cap /\ ~shut
       THEN apc' = "full" /\ UNCHANGED <<afd, stage, cq, wpc>>
       ELSE /\ apc' = "check" /\ afd' = NoConn
            /\ IF shut
               THEN /\ stage' = [stage EXCEPT ![afd] = "closed"]
                    /\ UNCHANGED <<cq, wpc>>
               ELSE cq' = Append(cq, afd) /\ WakeOne(wpc) /\ UNCHANGED stage
    /\ UNCHANGED <<inline, running, signals, sent, reply, shut, wfd>>

\* close(server_fd), which resets what nobody accepted; cq_shutdown.
CloseQueue ==
    /\ apc = "close"
    /\ stage' = [c \in Conn |-> IF stage[c] = "backlog" THEN "refused" ELSE stage[c]]
    /\ apc' = IF inline THEN "stopped" ELSE "join"
    /\ shut' = TRUE
    /\ wpc' = [w \in Worker |-> IF wpc[w] = "parked" THEN "pop" ELSE wpc[w]]
    /\ UNCHANGED <<inline, running, signals, afd, sent, reply, cq, wfd>>

\* pthread_join of every worker.
JoinWorkers ==
    /\ apc = "join" /\ \A w \in Worker : wpc[w] = "exit"
    /\ apc' = "stopped"
    /\ UNCHANGED <<inline, running, signals, afd, connVars, cq, shut, wpc, wfd>>
-----------------------------------------------------------------------------
(* A worker                                                                *)

\* Mutant: the fd is read but not taken out of the queue.
PopPeek(w) ==
    /\ wpc[w] = "pop" /\ cq # << >>
    /\ wfd' = [wfd EXCEPT ![w] = Head(cq)]
    /\ wpc' = [wpc EXCEPT ![w] = "read"]
    /\ UNCHANGED <<inline, running, signals, apc, afd, connVars, cq, shut>>

\* Mutant: not_full is not signalled.
PopSilent(w) ==
    /\ wpc[w] = "pop"
    /\ IF cq = << >>
       THEN /\ wpc' = [wpc EXCEPT ![w] = IF shut THEN "exit" ELSE "parked"]
            /\ UNCHANGED <<cq, wfd>>
       ELSE /\ wfd' = [wfd EXCEPT ![w] = Head(cq)]
            /\ cq' = Tail(cq)
            /\ wpc' = [wpc EXCEPT ![w] = "read"]
    /\ UNCHANGED <<inline, running, signals, apc, afd, connVars, shut>>

\* cq_pop, first or back from the wait.
Pop(w) ==
    /\ wpc[w] = "pop"
    /\ IF cq = << >>
       THEN /\ wpc' = [wpc EXCEPT ![w] = IF shut THEN "exit" ELSE "parked"]
            /\ UNCHANGED <<apc, cq, wfd>>
       ELSE /\ wfd' = [wfd EXCEPT ![w] = Head(cq)]
            /\ cq' = Tail(cq)
            /\ wpc' = [wpc EXCEPT ![w] = "read"]
            /\ apc' = IF apc = "full" THEN "push" ELSE apc
    /\ UNCHANGED <<inline, running, signals, afd, connVars, shut>>

\* read_request and the routing of handle_connection; all but a synthesis
\* is answered at once.
Read(w) ==
    /\ wpc[w] = "read" /\ sent[wfd[w]] # "nothing"
    /\ \/ /\ sent[wfd[w]] = "hangup"
          /\ Closed(w, "none")
       \/ /\ sent[wfd[w]] = "other"
          /\ Closed(w, "answered")
       \/ /\ sent[wfd[w]] = "synth"
          /\ wpc' = [wpc EXCEPT ![w] = "lock"]
          /\ UNCHANGED <<apc, stage, reply, wfd>>
    /\ UNCHANGED <<inline, running, signals, afd, sent, cq, shut>>

\* g_synth_lock
LockSynth(w) ==
    /\ wpc[w] = "lock"
    /\ Serialize => \A v \in Worker : wpc[v] # "synth"
    /\ wpc' = [wpc EXCEPT ![w] = "synth"]
    /\ UNCHANGED <<inline, running, signals, apc, afd, connVars, cq, shut, wfd>>

\* handle_tts or handle_tts_stream, the unlock, close(client_fd).
Synth(w) ==
    /\ wpc[w] = "synth"
    /\ Closed(w, "answered")
    /\ UNCHANGED <<inline, running, signals, afd, sent, cq, shut>>

\* cond_wait may return without a signal.
SpuriousWake(w) ==
    /\ wpc[w] = "parked"
    /\ wpc' = [wpc EXCEPT ![w] = "pop"]
    /\ UNCHANGED <<inline, running, signals, apc, afd, connVars, cq, shut, wfd>>
-----------------------------------------------------------------------------
MainStep == CheckRunning \/ (\E c \in Conn : Accept(c)) \/ Push \/ CloseQueue \/ JoinWorkers
WorkerStep(w) == Pop(w) \/ Read(w) \/ LockSynth(w) \/ Synth(w)

Next == \/ \E c \in Conn : Connect(c) \/ Send(c)
        \/ Interrupt
        \/ MainStep
        \/ \E w \in Worker : WorkerStep(w) \/ SpuriousWake(w)

Spec == Init /\ [][Next]_vars

\* Every thread runs, and a client that has connected sends its request or
\* goes away (read_request has no timeout).  Nobody need connect and no
\* signal need come.  A connection takes g_synth_lock once, so that weak
\* fairness is enough for it.
FairSpec ==
    /\ Spec /\ WF_vars(MainStep)
    /\ \A w \in Worker : WF_vars(WorkerStep(w))
    /\ \A c \in Conn : WF_vars(Send(c))
-----------------------------------------------------------------------------
(* Properties                                                              *)

\* Every variable has its type; the queue is never longer than its array.
TypeOK ==
    /\ inline \in BOOLEAN /\ running \in BOOLEAN /\ signals \in 0 .. MaxSignals
    /\ apc \in {"check", "accept", "push", "full", "serve", "close", "join", "stopped"}
    /\ afd \in Conn \cup {NoConn}
    /\ stage \in [Conn -> {"new", "backlog", "accepted", "closed", "refused"}]
    /\ sent \in [Conn -> Request \cup {"nothing"}]
    /\ reply \in [Conn -> {"none", "answered", "interrupted"}]
    /\ cq \in Seq(Conn) /\ Len(cq) <= Cap /\ shut \in BOOLEAN
    /\ wpc \in [Worker -> {"idle", "pop", "parked", "read", "lock", "synth", "exit"}]
    /\ wfd \in [Worker -> Conn \cup {NoConn}]

\* Who holds the descriptor of c: a number of holders.
Holders(c) ==
    (IF afd = c THEN 1 ELSE 0)
    + Cardinality({i \in DOMAIN cq : cq[i] = c})
    + Cardinality({w \in Worker : wfd[w] = c})

\* An accepted connection is in exactly one pair of hands, and one that is
\* closed in none: no descriptor leaks, none is closed or written twice
\* (its number may by then be somebody else's connection).
OneOwner == \A c \in Conn : Holders(c) = (IF stage[c] = "accepted" THEN 1 ELSE 0)

\* "Graceful shutdown: stop accepting, drain queue, join workers": every
\* accepted connection is closed at last, shutdown or not, and answered unless
\* the client hung up or a signal broke the read.
Served ==
    \A c \in Conn :
        stage[c] = "accepted" ~>
            /\ stage[c] = "closed"
            /\ reply[c] \in {"answered", "interrupted"} \/ sent[c] = "hangup"

\* A main thread that is not inside accept when the signal arrives, or that
\* it interrupts, stops the server, all connections served.
StopsWhenNoticed == ~running /\ apc # "accept" ~> apc = "stopped"

\* Both: what was accepted is served whether or not the server stops, and it
\* stops.
Drained == Served /\ StopsWhenNoticed

\* A signal stops the server: "no SA_RESTART - let accept() return EINTR",
\* "Press Ctrl+C to stop."
SignalStops == ~running ~> apc = "stopped"

\* The queue with its two condition variables is the bounded queue its users
\* rely on: first in first out, and no connection is left in it while
\* workers sleep.
Queue == INSTANCE BoundedQueue WITH Item <- Conn, queue <- cq, shut <- shut
ImplementsBoundedQueue == Queue!Spec
=============================================================================
