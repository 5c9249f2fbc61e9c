---------------------------- MODULE BatchServer ----------------------------
(***************************************************************************)
(* The --batch-size server (qwen_tts_serve_batched): the main thread       *)
(* accepts connections, readers parse them into jobs, the driver of        *)
(* BatchDriver serves the batch jobs and one more thread, on a context of  *)
(* its own, the jobs the batch engine cannot do.                           *)
(*                                                                         *)
(* A job is named by its connection.  The driver's steps are those of      *)
(* BatchDriver; its environment is here the rest of the server.            *)
(***************************************************************************)
EXTENDS BatchDriver

CONSTANTS Reader,   \* threads of the reader pool
          Cap       \* CONN_QUEUE_CAP

ASSUME ServerAssumption ==
    /\ IsFiniteSet(Reader) /\ Reader # {}
    /\ Cap \in Nat \ {0}

VARIABLES
    apc, afd,     \* the main thread: where it is, client_fd
    stage, sent,  \* of a connection
    cq, cqShut,   \* conn_queue_t
    rpc, rfd,     \* a reader: where it is, its fd
    js, jsShut,   \* jq_single
    wpc, wjob     \* the single-job worker

connVars   == <<stage, sent>>
mainVars   == <<apc, afd>>
cqVars     == <<cq, cqShut>>
readerVars == <<rpc, rfd>>
singleVars == <<js, jsShut, wpc, wjob>>
serverVars == <<mainVars, connVars, cqVars, readerVars, singleVars>>
vars == <<driverVars, serverVars>>

\* What a client sends: a batchable synthesis, one with an instruction or a
\* designed voice, anything a reader answers itself, or nothing.
Request == {"batch", "single", "other", "hangup"}

Init ==
    /\ DriverInit
    /\ apc = "check" /\ afd = NoJob
    /\ stage = [j \in Job |-> "new"] /\ sent = [j \in Job |-> "nothing"]
    /\ cq = << >> /\ cqShut = FALSE
    /\ rpc = [r \in Reader |-> "pop"] /\ rfd = [r \in Reader |-> NoJob]
    /\ js = << >> /\ jsShut = FALSE
    /\ wpc = "pop" /\ wjob = NoJob
-----------------------------------------------------------------------------
(* Clients and the signal                                                  *)

Connect(j) ==
    /\ stage[j] = "new" /\ apc \in {"check", "accept", "push"}
    /\ stage' = [stage EXCEPT ![j] = "backlog"]
    /\ UNCHANGED <<driverVars, mainVars, sent, cqVars, readerVars, singleVars>>

Send(j) ==
    /\ stage[j] \in {"backlog", "accepted"} /\ sent[j] = "nothing"
    /\ \E q \in Request : sent' = [sent EXCEPT ![j] = q]
    /\ UNCHANGED <<driverVars, mainVars, stage, cqVars, readerVars, singleVars>>

\* A reader is done with its connection without making a job of it.
CloseAt(r) ==
    /\ stage' = [stage EXCEPT ![rfd[r]] = "closed"]
    /\ rfd' = [rfd EXCEPT ![r] = NoJob]
    /\ rpc' = [rpc EXCEPT ![r] = "pop"]

\* The signal handler runs on whichever thread: it ends the accept or the
\* read it interrupts.
Signal ==
    /\ Stop
    /\ \/ UNCHANGED <<apc, stage, readerVars>>
       \/ apc = "accept" /\ apc' = "check" /\ UNCHANGED <<stage, readerVars>>
       \/ \E r \in Reader : /\ rpc[r] = "read" /\ sent[rfd[r]] = "nothing"
                            /\ CloseAt(r)
                            /\ UNCHANGED apc
    /\ UNCHANGED <<afd, sent, cqVars, singleVars>>
-----------------------------------------------------------------------------
(* The main thread                                                         *)

CheckRunning ==
    /\ apc = "check"
    /\ apc' = IF running THEN "accept" ELSE "close"
    /\ UNCHANGED <<driverVars, afd, connVars, cqVars, readerVars, singleVars>>

Accept(j) ==
    /\ apc = "accept" /\ stage[j] = "backlog"
    /\ stage' = [stage EXCEPT ![j] = "accepted"]
    /\ apc' = "push" /\ afd' = j
    /\ UNCHANGED <<driverVars, sent, cqVars, readerVars, singleVars>>

\* cq_push; only this thread shuts the queue down, later.
Push ==
    /\ apc = "push" /\ Len(cq) < Cap
    /\ cq' = Append(cq, afd)
    /\ apc' = "check" /\ afd' = NoJob
    /\ UNCHANGED <<driverVars, connVars, cqShut, readerVars, singleVars>>

\* close(server_fd); cq_shutdown.
CloseQueue ==
    /\ apc = "close"
    /\ stage' = [j \in Job |-> IF stage[j] = "backlog" THEN "refused" ELSE stage[j]]
    /\ cqShut' = TRUE
    /\ apc' = "readers"
    /\ UNCHANGED <<driverVars, afd, sent, cq, readerVars, singleVars>>

JoinReaders ==
    /\ apc = "readers" /\ \A r \in Reader : rpc[r] = "exit"
    /\ apc' = "queues"
    /\ UNCHANGED <<driverVars, afd, connVars, cqVars, readerVars, singleVars>>

\* Mutant: jq_single is forgotten.
ShutQueuesOne ==
    /\ apc = "queues"
    /\ ShutJq
    /\ apc' = "join"
    /\ UNCHANGED <<afd, connVars, cqVars, readerVars, singleVars>>

\* jq_shutdown of both queues.
ShutQueues ==
    /\ apc = "queues"
    /\ ShutJq
    /\ jsShut' = TRUE
    /\ apc' = "join"
    /\ UNCHANGED <<afd, connVars, cqVars, readerVars, js, wpc, wjob>>

\* pthread_join of the scheduler, which has joined the helper, and of the
\* single-job worker, whose context is freed.
JoinRest ==
    /\ apc = "join" /\ spc = "exit" /\ wpc = "exit"
    /\ apc' = "stopped"
    /\ UNCHANGED <<driverVars, afd, connVars, cqVars, readerVars, singleVars>>
-----------------------------------------------------------------------------
(* A reader                                                                *)

\* cq_pop
ReaderPop(r) ==
    /\ rpc[r] = "pop"
    /\ \/ /\ cq # << >>
          /\ rfd' = [rfd EXCEPT ![r] = Head(cq)]
          /\ cq' = Tail(cq)
          /\ rpc' = [rpc EXCEPT ![r] = "read"]
       \/ /\ cq = << >> /\ cqShut
          /\ rpc' = [rpc EXCEPT ![r] = "exit"]
          /\ UNCHANGED <<rfd, cq>>
    /\ UNCHANGED <<driverVars, mainVars, connVars, cqShut, singleVars>>

\* Mutant: the body is parsed into a job and the descriptor closed too.
ReadAndClose(r) ==
    /\ rpc[r] = "read" /\ sent[rfd[r]] # "nothing"
    /\ CloseAt(r)
    /\ IF sent[rfd[r]] = "batch" THEN Arrive(rfd[r]) ELSE UNCHANGED driverVars
    /\ UNCHANGED <<mainVars, sent, cqVars, singleVars>>

\* read_request, routing, jq_push: from there on the job owns the fd.
Read(r) ==
    /\ rpc[r] = "read"
    /\ \/ /\ sent[rfd[r]] \in {"other", "hangup"}
          /\ CloseAt(r)
          /\ UNCHANGED <<driverVars, js>>
       \/ /\ sent[rfd[r]] = "batch"
          /\ Arrive(rfd[r])
          /\ rfd' = [rfd EXCEPT ![r] = NoJob] /\ rpc' = [rpc EXCEPT ![r] = "pop"]
          /\ UNCHANGED <<stage, js>>
       \/ /\ sent[rfd[r]] = "single"
          /\ js' = Append(js, rfd[r])
          /\ rfd' = [rfd EXCEPT ![r] = NoJob] /\ rpc' = [rpc EXCEPT ![r] = "pop"]
          /\ UNCHANGED <<driverVars, stage>>
    /\ UNCHANGED <<mainVars, sent, cqVars, jsShut, wpc, wjob>>
-----------------------------------------------------------------------------
(* single_worker_main                                                      *)

SinglePop ==
    /\ wpc = "pop"
    /\ \/ /\ js # << >>
          /\ wjob' = Head(js) /\ js' = Tail(js) /\ wpc' = "run"
       \/ /\ js = << >> /\ jsShut
          /\ wpc' = "exit"
          /\ UNCHANGED <<wjob, js>>
    /\ UNCHANGED <<driverVars, mainVars, connVars, cqVars, readerVars, jsShut>>

\* The synthesis, or 503 when there is no context for it; close, job_free.
SingleRun ==
    /\ wpc = "run"
    /\ stage' = [stage EXCEPT ![wjob] = "closed"]
    /\ wjob' = NoJob /\ wpc' = "pop"
    /\ UNCHANGED <<driverVars, mainVars, sent, cqVars, readerVars, js, jsShut>>
-----------------------------------------------------------------------------
MainStep == \/ CheckRunning \/ (\E j \in Job : Accept(j)) \/ Push
            \/ CloseQueue \/ JoinReaders \/ ShutQueues \/ JoinRest
ReaderStep(r) == ReaderPop(r) \/ Read(r)
SingleStep == SinglePop \/ SingleRun
SchedulerStep == Scheduler /\ UNCHANGED serverVars
HelperStep == Helper /\ UNCHANGED serverVars

Next == \/ \E j \in Job : Connect(j) \/ Send(j)
        \/ Signal
        \/ MainStep
        \/ \E r \in Reader : ReaderStep(r)
        \/ SingleStep \/ SchedulerStep \/ HelperStep

Spec == Init /\ [][Next]_vars

\* Every thread runs, and a client that has connected sends its request or
\* goes away.  Nobody need connect and no signal need come.
FairSpec ==
    /\ Spec /\ WF_vars(MainStep) /\ WF_vars(SingleStep)
    /\ WF_vars(SchedulerStep) /\ WF_vars(HelperStep)
    /\ \A r \in Reader : WF_vars(ReaderStep(r))
    /\ \A j \in Job : WF_vars(Send(j))
-----------------------------------------------------------------------------
(* Properties                                                              *)

\* Every variable of the server has its type, and so have the driver's.
TypeOK ==
    /\ DriverTypeOK
    /\ apc \in {"check", "accept", "push", "close", "readers", "queues", "join", "stopped"}
    /\ afd \in Job \cup {NoJob}
    /\ stage \in [Job -> {"new", "backlog", "accepted", "closed", "refused"}]
    /\ sent \in [Job -> Request \cup {"nothing"}]
    /\ cq \in Seq(Job) /\ Len(cq) <= Cap /\ cqShut \in BOOLEAN
    /\ rpc \in [Reader -> {"pop", "read", "exit"}]
    /\ rfd \in [Reader -> Job \cup {NoJob}]
    /\ js \in Seq(Job) /\ jsShut \in BOOLEAN
    /\ wpc \in {"pop", "run", "exit"} /\ wjob \in Job \cup {NoJob}

\* The connection is closed: by a reader or the single-job worker, or by
\* on_done.
Gone(j) == stage[j] = "closed" \/ Finished(j)

\* Who holds connection j, on its way to the driver and beyond.
Holders(j) ==
    (IF afd = j THEN 1 ELSE 0)
    + Cardinality({i \in DOMAIN cq : cq[i] = j})
    + Cardinality({r \in Reader : rfd[r] = j})
    + Cardinality({i \in DOMAIN js : js[i] = j})
    + (IF wjob = j THEN 1 ELSE 0)
    + Owners(j)

\* Through all the queues and threads an accepted connection has one owner
\* until it is closed, and none afterwards: it is closed at most once, by
\* whoever answers it.  (The driver can lose one while stopping, see
\* Accounted of BatchDriver.)
OneOwner ==
    /\ \A j \in Job \ Unaccounted :
          Holders(j) = (IF stage[j] = "accepted" /\ ~Finished(j) THEN 1 ELSE 0)
    /\ \A j \in Unaccounted : Holders(j) = 0
    /\ \A j \in Job : ~(stage[j] = "closed" /\ Finished(j))

\* When the server has stopped no thread is left to use a context that is
\* freed then, and the only connections not closed are those the scheduler
\* left in its queue or the helper dropped.
Stopped ==
    apc = "stopped" =>
        /\ spc = "exit" /\ hpc \in {"none", "exit"} /\ wpc = "exit"
        /\ \A r \in Reader : rpc[r] = "exit"
        /\ js = << >>
        /\ \A j \in Job : stage[j] = "accepted" /\ ~Finished(j) =>
                              j \in Range(jq) \cup Unaccounted

\* While the server runs and when it has stopped.
ConnectionsOwned == OneOwner /\ Stopped

\* A main thread that is not inside accept when the signal arrives, or that
\* it interrupts, stops the server.
StopsWhenNoticed == ~running /\ apc # "accept" ~> apc = "stopped"
=============================================================================
