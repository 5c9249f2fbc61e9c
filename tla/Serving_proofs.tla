---------------------------- MODULE Serving_proofs ----------------------------
(***************************************************************************)
(* What belongs to whom, in two places of the server.                      *)
(*                                                                         *)
(* Connections.  For every number of workers and connections and every     *)
(* capacity of the queue of --workers: an accepted connection has exactly  *)
(* one owner, and the queue is a bounded queue.  OneOwner counts; the      *)
(* induction is about which places hold a connection at all (Owner) and    *)
(* that no two of them hold the same (Alone).                              *)
(*                                                                         *)
(* Sequences.  For every number of layers, slots and code groups, every    *)
(* size of the caches and all prompts: the hidden state, the cached        *)
(* positions and the codes of a slot are those of the sequence it was fed, *)
(* computed anew.  The proof follows the code from the inside out: what a  *)
(* kernel makes of its buffers; a layer, as an outline of what its buffers *)
(* hold between two kernels; a pass over all layers; the caches, as cells  *)
(* of which a step writes one per row and layer; the code predictor, whose *)
(* passes are such steps; the copies between caches; and Forward.          *)
(***************************************************************************)
EXTENDS WorkerPool, Forward, FiniteSetTheorems, SequenceTheorems, WellFoundedInduction, TLAPS

Busy == {"read", "lock", "synth"}

\* The main thread has a descriptor in hand exactly while it pushes it, and
\* has shut the queue down exactly when it is past the loop.
MainInv ==
    /\ afd # NoConn <=> apc \in {"push", "full"}
    /\ shut <=> apc \in {"join", "stopped"}

\* A worker has a descriptor exactly while it handles a connection.
WorkerInv == \A w \in Worker : wfd[w] # NoConn <=> wpc[w] \in Busy

\* Without a pool the main thread serves: its one worker is busy while it
\* does, nothing is queued, and nobody is joined.
InlineInv ==
    inline =>
        /\ cq = << >>
        /\ apc \notin {"push", "full", "join"}
        /\ \A w \in Worker : wpc[w] \in Busy \cup {"idle", "exit"}
        /\ \A w, v \in Worker : wpc[w] # "exit" /\ wpc[v] # "exit" => w = v
        /\ \A w \in Worker : wpc[w] \in Busy => apc = "serve"

\* Where the descriptor of c can be.
AtMain(c) == afd = c
Queued(c) == \E i \in 1 .. Len(cq) : cq[i] = c
AtWorker(c) == \E w \in Worker : wfd[w] = c

\* An accepted connection is somewhere, any other nowhere ...
Owner == \A c \in Conn : stage[c] = "accepted" <=> AtMain(c) \/ Queued(c) \/ AtWorker(c)

\* ... and in one place.
Alone ==
    /\ \A c \in Conn : ~(AtMain(c) /\ Queued(c))
    /\ \A c \in Conn : ~(AtMain(c) /\ AtWorker(c))
    /\ \A c \in Conn : ~(Queued(c) /\ AtWorker(c))
    /\ \A i, j \in 1 .. Len(cq) : cq[i] = cq[j] => i = j
    /\ \A w, v \in Worker : wfd[w] = wfd[v] /\ wfd[w] # NoConn => w = v

IInv == TypeOK /\ MainInv /\ WorkerInv /\ InlineInv /\ Owner /\ Alone
-----------------------------------------------------------------------------
\* Every step keeps the types.
LEMMA TypeStep == IInv /\ [Next]_vars => TypeOK'
<1> SUFFICES ASSUME IInv, [Next]_vars PROVE TypeOK'
  OBVIOUS
<1> USE PoolAssumption DEF IInv, connVars, TypeOK, Request
<1>1. ASSUME NEW c \in Conn, Connect(c) PROVE TypeOK'
  BY <1>1 DEF Connect
<1>2. ASSUME NEW c \in Conn, Send(c) PROVE TypeOK'
  BY <1>2 DEF Send
<1>3. ASSUME Interrupt PROVE TypeOK'
  <2>0. signals' \in 0 .. MaxSignals /\ running' = FALSE /\ UNCHANGED <<inline, afd, sent, cq, shut>>
    BY <1>3 DEF Interrupt
  <2>1. CASE UNCHANGED <<apc, stage, reply, wpc, wfd>>
    BY <2>0, <2>1
  <2>2. CASE apc = "accept" /\ apc' = "check" /\ UNCHANGED <<stage, reply, wpc, wfd>>
    BY <2>0, <2>2
  <2>3. ASSUME NEW w \in Worker, Closed(w, "interrupted") PROVE TypeOK'
    BY <2>0, <2>3 DEF Closed
  <2>4. QED
    BY <1>3, <2>1, <2>2, <2>3 DEF Interrupt
<1>4. ASSUME CheckRunning PROVE TypeOK'
  BY <1>4 DEF CheckRunning
<1>5. ASSUME NEW c \in Conn, Accept(c) PROVE TypeOK'
  BY <1>5 DEF Accept
<1>6. ASSUME Push PROVE TypeOK'
  <2>1. wpc' \in [Worker -> {"idle", "pop", "parked", "read", "lock", "synth", "exit"}]
    BY <1>6 DEF Push, WakeOne, Parked
  <2>2. CASE Len(cq) = Cap /\ ~shut
    BY <1>6, <2>1, <2>2 DEF Push
  <2>3. CASE ~(Len(cq) = Cap /\ ~shut) /\ shut
    BY <1>6, <2>1, <2>3 DEF Push
  <2>4. CASE ~(Len(cq) = Cap /\ ~shut) /\ ~shut
    <3>1. afd \in Conn /\ cq' = Append(cq, afd)
      BY <1>6, <2>4 DEF Push, MainInv
    <3>2. cq' \in Seq(Conn) /\ Len(cq') <= Cap
      BY <2>4, <3>1, AppendProperties
    <3>3. QED
      BY <1>6, <2>1, <2>4, <3>2 DEF Push
  <2>5. QED
    BY <2>2, <2>3, <2>4
<1>7. ASSUME CloseQueue PROVE TypeOK'
  BY <1>7 DEF CloseQueue
<1>8. ASSUME JoinWorkers PROVE TypeOK'
  BY <1>8 DEF JoinWorkers
<1>9. ASSUME NEW w \in Worker, Pop(w) PROVE TypeOK'
  BY <1>9 DEF Pop
<1>10. ASSUME NEW w \in Worker, Read(w) PROVE TypeOK'
  BY <1>10 DEF Read, Closed
<1>11. ASSUME NEW w \in Worker, LockSynth(w) PROVE TypeOK'
  BY <1>11 DEF LockSynth
<1>12. ASSUME NEW w \in Worker, Synth(w) PROVE TypeOK'
  BY <1>12 DEF Synth, Closed
<1>13. ASSUME NEW w \in Worker, SpuriousWake(w) PROVE TypeOK'
  BY <1>13 DEF SpuriousWake
<1>14. CASE UNCHANGED vars
  BY <1>14 DEF vars
<1>15. QED
  BY <1>1, <1>2, <1>3, <1>4, <1>5, <1>6, <1>7, <1>8, <1>9, <1>10, <1>11, <1>12, <1>13, <1>14 DEF Next, MainStep, WorkerStep

\* Every step keeps what the main thread holds.
LEMMA MainInvStep == IInv /\ [Next]_vars => MainInv'
<1> SUFFICES ASSUME IInv, [Next]_vars PROVE MainInv'
  OBVIOUS
<1> USE PoolAssumption DEF IInv, connVars, TypeOK, MainInv, WorkerInv, InlineInv, Busy
<1>1. ASSUME NEW c \in Conn, Connect(c) PROVE MainInv'
  BY <1>1 DEF Connect
<1>2. ASSUME NEW c \in Conn, Send(c) PROVE MainInv'
  BY <1>2 DEF Send
<1>3. ASSUME Interrupt PROVE MainInv'
  BY <1>3 DEF Interrupt, Closed
<1>4. ASSUME CheckRunning PROVE MainInv'
  BY <1>4 DEF CheckRunning
<1>5. ASSUME NEW c \in Conn, Accept(c) PROVE MainInv'
  BY <1>5 DEF Accept
<1>6. ASSUME Push PROVE MainInv'
  BY <1>6 DEF Push, WakeOne, Parked
<1>7. ASSUME CloseQueue PROVE MainInv'
  BY <1>7 DEF CloseQueue
<1>8. ASSUME JoinWorkers PROVE MainInv'
  BY <1>8 DEF JoinWorkers
<1>9. ASSUME NEW w \in Worker, Pop(w) PROVE MainInv'
  BY <1>9 DEF Pop
<1>10. ASSUME NEW w \in Worker, Read(w) PROVE MainInv'
  BY <1>10 DEF Read, Closed
<1>11. ASSUME NEW w \in Worker, LockSynth(w) PROVE MainInv'
  BY <1>11 DEF LockSynth
<1>12. ASSUME NEW w \in Worker, Synth(w) PROVE MainInv'
  BY <1>12 DEF Synth, Closed
<1>13. ASSUME NEW w \in Worker, SpuriousWake(w) PROVE MainInv'
  BY <1>13 DEF SpuriousWake
<1>14. CASE UNCHANGED vars
  BY <1>14 DEF vars
<1>15. QED
  BY <1>1, <1>2, <1>3, <1>4, <1>5, <1>6, <1>7, <1>8, <1>9, <1>10, <1>11, <1>12, <1>13, <1>14 DEF Next, MainStep, WorkerStep

\* Every step keeps what the workers hold.
LEMMA WorkerInvStep == IInv /\ [Next]_vars => WorkerInv'
<1> SUFFICES ASSUME IInv, [Next]_vars PROVE WorkerInv'
  OBVIOUS
<1> USE PoolAssumption DEF IInv, connVars, TypeOK, MainInv, WorkerInv, InlineInv, Busy
<1>1. ASSUME NEW c \in Conn, Connect(c) PROVE WorkerInv'
  BY <1>1 DEF Connect
<1>2. ASSUME NEW c \in Conn, Send(c) PROVE WorkerInv'
  BY <1>2 DEF Send
<1>3. ASSUME Interrupt PROVE WorkerInv'
  BY <1>3 DEF Interrupt, Closed
<1>4. ASSUME CheckRunning PROVE WorkerInv'
  BY <1>4 DEF CheckRunning
<1>5. ASSUME NEW c \in Conn, Accept(c) PROVE WorkerInv'
  BY <1>5 DEF Accept
<1>6. ASSUME Push PROVE WorkerInv'
  BY <1>6 DEF Push, WakeOne, Parked
<1>7. ASSUME CloseQueue PROVE WorkerInv'
  BY <1>7 DEF CloseQueue
<1>8. ASSUME JoinWorkers PROVE WorkerInv'
  BY <1>8 DEF JoinWorkers
<1>9. ASSUME NEW w \in Worker, Pop(w) PROVE WorkerInv'
  BY <1>9 DEF Pop
<1>10. ASSUME NEW w \in Worker, Read(w) PROVE WorkerInv'
  BY <1>10 DEF Read, Closed
<1>11. ASSUME NEW w \in Worker, LockSynth(w) PROVE WorkerInv'
  BY <1>11 DEF LockSynth
<1>12. ASSUME NEW w \in Worker, Synth(w) PROVE WorkerInv'
  BY <1>12 DEF Synth, Closed
<1>13. ASSUME NEW w \in Worker, SpuriousWake(w) PROVE WorkerInv'
  BY <1>13 DEF SpuriousWake
<1>14. CASE UNCHANGED vars
  BY <1>14 DEF vars
<1>15. QED
  BY <1>1, <1>2, <1>3, <1>4, <1>5, <1>6, <1>7, <1>8, <1>9, <1>10, <1>11, <1>12, <1>13, <1>14 DEF Next, MainStep, WorkerStep

\* Every step keeps the server without a pool.
LEMMA InlineInvStep == IInv /\ [Next]_vars => InlineInv'
<1> SUFFICES ASSUME IInv, [Next]_vars PROVE InlineInv'
  OBVIOUS
<1> USE PoolAssumption DEF IInv, connVars, TypeOK, MainInv, WorkerInv, InlineInv, Busy
<1>1. ASSUME NEW c \in Conn, Connect(c) PROVE InlineInv'
  BY <1>1 DEF Connect
<1>2. ASSUME NEW c \in Conn, Send(c) PROVE InlineInv'
  BY <1>2 DEF Send
<1>3. ASSUME Interrupt PROVE InlineInv'
  BY <1>3 DEF Interrupt, Closed
<1>4. ASSUME CheckRunning PROVE InlineInv'
  BY <1>4 DEF CheckRunning
<1>5. ASSUME NEW c \in Conn, Accept(c) PROVE InlineInv'
  BY <1>5 DEF Accept
<1>6. ASSUME Push PROVE InlineInv'
  BY <1>6 DEF Push, WakeOne, Parked
<1>7. ASSUME CloseQueue PROVE InlineInv'
  BY <1>7 DEF CloseQueue
<1>8. ASSUME JoinWorkers PROVE InlineInv'
  BY <1>8 DEF JoinWorkers
<1>9. ASSUME NEW w \in Worker, Pop(w) PROVE InlineInv'
  BY <1>9 DEF Pop
<1>10. ASSUME NEW w \in Worker, Read(w) PROVE InlineInv'
  BY <1>10 DEF Read, Closed
<1>11. ASSUME NEW w \in Worker, LockSynth(w) PROVE InlineInv'
  BY <1>11 DEF LockSynth
<1>12. ASSUME NEW w \in Worker, Synth(w) PROVE InlineInv'
  BY <1>12 DEF Synth, Closed
<1>13. ASSUME NEW w \in Worker, SpuriousWake(w) PROVE InlineInv'
  BY <1>13 DEF SpuriousWake
<1>14. CASE UNCHANGED vars
  BY <1>14 DEF vars
<1>15. QED
  BY <1>1, <1>2, <1>3, <1>4, <1>5, <1>6, <1>7, <1>8, <1>9, <1>10, <1>11, <1>12, <1>13, <1>14 DEF Next, MainStep, WorkerStep

\* Every step keeps an owner for every accepted connection, and for no other.
LEMMA OwnerStep == IInv /\ [Next]_vars => Owner'
<1> SUFFICES ASSUME IInv, [Next]_vars PROVE Owner'
  OBVIOUS
<1> USE PoolAssumption DEF IInv, connVars, TypeOK, MainInv, WorkerInv, InlineInv, Busy, Owner, Alone, AtMain, Queued, AtWorker
<1>1. ASSUME NEW c \in Conn, Connect(c) PROVE Owner'
  BY <1>1 DEF Connect
<1>2. ASSUME NEW c \in Conn, Send(c) PROVE Owner'
  BY <1>2 DEF Send
<1>3. ASSUME Interrupt PROVE Owner'
  BY <1>3 DEF Interrupt, Closed
<1>4. ASSUME CheckRunning PROVE Owner'
  BY <1>4 DEF CheckRunning
<1>5. ASSUME NEW c \in Conn, Accept(c) PROVE Owner'
  BY <1>5 DEF Accept
<1>6. ASSUME Push PROVE Owner'
  <2>1. afd \in Conn /\ ~shut /\ wfd' = wfd
    BY <1>6 DEF Push
  <2>2. CASE Len(cq) = Cap
    BY <1>6, <2>1, <2>2 DEF Push
  <2>3. CASE Len(cq) # Cap
    <3>1. cq' = Append(cq, afd) /\ afd' = NoConn /\ stage' = stage
      BY <1>6, <2>1, <2>3 DEF Push
    <3>2. /\ Len(cq') = Len(cq) + 1 /\ cq'[Len(cq) + 1] = afd
          /\ \A i \in 1 .. Len(cq) : cq'[i] = cq[i]
      BY <2>1, <3>1, AppendProperties
    <3>3. QED
      BY <2>1, <3>1, <3>2
  <2>4. QED
    BY <2>2, <2>3
<1>7. ASSUME CloseQueue PROVE Owner'
  BY <1>7 DEF CloseQueue
<1>8. ASSUME JoinWorkers PROVE Owner'
  BY <1>8 DEF JoinWorkers
<1>9. ASSUME NEW w \in Worker, Pop(w) PROVE Owner'
  <2>1. CASE cq = << >>
    BY <1>9, <2>1 DEF Pop
  <2>2. CASE cq # << >>
    <3>1. /\ wfd' = [wfd EXCEPT ![w] = cq[1]] /\ cq' = Tail(cq) /\ wfd[w] = NoConn
          /\ stage' = stage /\ afd' = afd /\ cq[1] \in Conn
      BY <1>9, <2>2 DEF Pop
    <3>2. /\ Len(cq) \in Nat /\ Len(cq) > 0 /\ Len(cq') = Len(cq) - 1
          /\ \A i \in 1 .. Len(cq') : cq'[i] = cq[i + 1]
      BY <2>2, <3>1, HeadTailProperties, EmptySeq
    <3>3. ASSUME NEW c \in Conn, c = cq[1] PROVE stage'[c] = "accepted" /\ AtWorker(c)'
      BY <3>1, <3>2, <3>3
    <3>4. ASSUME NEW c \in Conn, c # cq[1]
          PROVE  (Queued(c)' <=> Queued(c)) /\ (AtWorker(c)' <=> AtWorker(c))
      <4>1. AtWorker(c)' <=> AtWorker(c)
        BY <3>1, <3>4
      <4>2. Queued(c)' => Queued(c)
        BY <3>2
      <4>3. ASSUME NEW i \in 1 .. Len(cq), cq[i] = c PROVE Queued(c)'
        <5>1. i - 1 \in 1 .. Len(cq') /\ cq'[i - 1] = cq[i]
          BY <3>2, <3>4, <4>3
        <5>2. QED
          BY <4>3, <5>1
      <4>4. QED
        BY <4>1, <4>2, <4>3
    <3>5. QED
      BY <3>1, <3>3, <3>4
  <2>3. QED
    BY <2>1, <2>2
<1>10. ASSUME NEW w \in Worker, Read(w) PROVE Owner'
  BY <1>10 DEF Read, Closed
<1>11. ASSUME NEW w \in Worker, LockSynth(w) PROVE Owner'
  BY <1>11 DEF LockSynth
<1>12. ASSUME NEW w \in Worker, Synth(w) PROVE Owner'
  BY <1>12 DEF Synth, Closed
<1>13. ASSUME NEW w \in Worker, SpuriousWake(w) PROVE Owner'
  BY <1>13 DEF SpuriousWake
<1>14. CASE UNCHANGED vars
  BY <1>14 DEF vars
<1>15. QED
  BY <1>1, <1>2, <1>3, <1>4, <1>5, <1>6, <1>7, <1>8, <1>9, <1>10, <1>11, <1>12, <1>13, <1>14 DEF Next, MainStep, WorkerStep

\* No step gives a connection a second owner.
LEMMA AloneStep == IInv /\ [Next]_vars => Alone'
<1> SUFFICES ASSUME IInv, [Next]_vars PROVE Alone'
  OBVIOUS
<1> USE PoolAssumption DEF IInv, connVars, TypeOK, MainInv, WorkerInv, InlineInv, Busy, Owner, Alone, AtMain, Queued, AtWorker
<1>1. ASSUME NEW c \in Conn, Connect(c) PROVE Alone'
  BY <1>1 DEF Connect
<1>2. ASSUME NEW c \in Conn, Send(c) PROVE Alone'
  BY <1>2 DEF Send
<1>3. ASSUME Interrupt PROVE Alone'
  BY <1>3, SMTT(30) DEF Interrupt, Closed
<1>4. ASSUME CheckRunning PROVE Alone'
  BY <1>4 DEF CheckRunning
<1>5. ASSUME NEW c \in Conn, Accept(c) PROVE Alone'
  BY <1>5 DEF Accept
<1>6. ASSUME Push PROVE Alone'
  <2>1. afd \in Conn /\ ~shut /\ wfd' = wfd
    BY <1>6 DEF Push
  <2>2. CASE Len(cq) = Cap
    BY <1>6, <2>1, <2>2 DEF Push
  <2>3. CASE Len(cq) # Cap
    <3>1. cq' = Append(cq, afd) /\ afd' = NoConn /\ stage' = stage
      BY <1>6, <2>1, <2>3 DEF Push
    <3>2. /\ Len(cq') = Len(cq) + 1 /\ cq'[Len(cq) + 1] = afd
          /\ \A i \in 1 .. Len(cq) : cq'[i] = cq[i]
      BY <2>1, <3>1, AppendProperties
    <3>3. QED
      BY <2>1, <3>1, <3>2
  <2>4. QED
    BY <2>2, <2>3
<1>7. ASSUME CloseQueue PROVE Alone'
  BY <1>7 DEF CloseQueue
<1>8. ASSUME JoinWorkers PROVE Alone'
  BY <1>8 DEF JoinWorkers
<1>9. ASSUME NEW w \in Worker, Pop(w) PROVE Alone'
  <2>1. CASE cq = << >>
    BY <1>9, <2>1 DEF Pop
  <2>2. CASE cq # << >>
    <3>1. /\ wfd' = [wfd EXCEPT ![w] = cq[1]] /\ cq' = Tail(cq) /\ wfd[w] = NoConn
          /\ stage' = stage /\ afd' = afd /\ cq[1] \in Conn
      BY <1>9, <2>2 DEF Pop
    <3>2. /\ Len(cq) \in Nat /\ Len(cq) > 0 /\ Len(cq') = Len(cq) - 1
          /\ \A i \in 1 .. Len(cq') : cq'[i] = cq[i + 1]
      BY <2>2, <3>1, HeadTailProperties, EmptySeq
    <3>3. QED
      BY <3>1, <3>2
  <2>3. QED
    BY <2>1, <2>2
<1>10. ASSUME NEW w \in Worker, Read(w) PROVE Alone'
  BY <1>10 DEF Read, Closed
<1>11. ASSUME NEW w \in Worker, LockSynth(w) PROVE Alone'
  BY <1>11 DEF LockSynth
<1>12. ASSUME NEW w \in Worker, Synth(w) PROVE Alone'
  BY <1>12 DEF Synth, Closed
<1>13. ASSUME NEW w \in Worker, SpuriousWake(w) PROVE Alone'
  BY <1>13 DEF SpuriousWake
<1>14. CASE UNCHANGED vars
  BY <1>14 DEF vars
<1>15. QED
  BY <1>1, <1>2, <1>3, <1>4, <1>5, <1>6, <1>7, <1>8, <1>9, <1>10, <1>11, <1>12, <1>13, <1>14 DEF Next, MainStep, WorkerStep

\* The invariant holds at first: nothing is accepted, nobody holds anything.
LEMMA InitInvariant == Init => IInv
<1> SUFFICES ASSUME Init PROVE IInv
  OBVIOUS
<1> USE PoolAssumption DEF Init
<1>1. PICK spawned \in SUBSET Worker \ {{}} :
          /\ inline => Cardinality(spawned) = 1
          /\ wpc = [w \in Worker |-> IF w \notin spawned THEN "exit"
                                     ELSE IF inline THEN "idle" ELSE "pop"]
  OBVIOUS
<1>2. TypeOK
  <2>1. wpc \in [Worker -> {"idle", "pop", "parked", "read", "lock", "synth", "exit"}]
    BY <1>1
  <2>2. cq \in Seq(Conn) /\ Len(cq) <= Cap
    BY EmptySeq
  <2>3. /\ stage \in [Conn -> {"new", "backlog", "accepted", "closed", "refused"}]
        /\ sent \in [Conn -> Request \cup {"nothing"}]
        /\ reply \in [Conn -> {"none", "answered", "interrupted"}]
        /\ wfd \in [Worker -> Conn \cup {NoConn}]
    OBVIOUS
  <2>4. signals \in 0 .. MaxSignals
    OBVIOUS
  <2>5. QED
    BY <2>1, <2>2, <2>3, <2>4 DEF TypeOK
<1>3. MainInv /\ WorkerInv
  BY <1>1 DEF MainInv, WorkerInv, Busy
<1>4. InlineInv
  <2>1. IsFiniteSet(spawned)
    BY <1>1, FS_Subset
  <2>2. ASSUME inline PROVE \A w, v \in spawned : w = v
    <3>1. \E x : spawned = {x}
      BY <1>1, <2>1, <2>2, FS_Singleton
    <3>2. QED
      BY <3>1
  <2>3. QED
    BY <1>1, <2>2 DEF InlineInv, Busy
<1>5. Owner /\ Alone
  BY DEF Owner, Alone, AtMain, Queued, AtWorker
<1>6. QED
  BY <1>2, <1>3, <1>4, <1>5 DEF IInv

\* The inductive invariant of the server.
THEOREM Invariance == Spec => []IInv
<1>1. IInv /\ [Next]_vars => IInv'
  BY TypeStep, MainInvStep, WorkerInvStep, InlineInvStep, OwnerStep, AloneStep DEF IInv
<1>2. QED
  BY InitInvariant, <1>1, PTL DEF Spec

\* Every variable has its type, and the queue is never longer than its array.
THEOREM TypeCorrect == Spec => []TypeOK
<1>1. IInv => TypeOK
  BY DEF IInv
<1>2. QED
  BY Invariance, <1>1, PTL
-----------------------------------------------------------------------------
\* A set whose elements are all equal has at most one.
LEMMA AtMostOne ==
    ASSUME NEW S, \A x, y \in S : x = y
    PROVE  /\ IsFiniteSet(S)
           /\ Cardinality(S) = IF S = {} THEN 0 ELSE 1
<1>1. CASE S = {}
  BY <1>1, FS_EmptySet
<1>2. CASE S # {}
  <2>1. PICK x : S = {x}
    BY <1>2
  <2>2. QED
    BY <1>2, <2>1, FS_Singleton
<1>3. QED
  BY <1>1, <1>2

\* In one place, or in none: that is what Holders counts.
LEMMA Counted == IInv => OneOwner
<1> SUFFICES ASSUME IInv, NEW c \in Conn
             PROVE  Holders(c) = IF stage[c] = "accepted" THEN 1 ELSE 0
  BY DEF OneOwner
<1> DEFINE I == {i \in DOMAIN cq : cq[i] = c}
           W == {w \in Worker : wfd[w] = c}
<1>1. DOMAIN cq = 1 .. Len(cq)
  BY LenProperties DEF IInv, TypeOK
<1>2. c # NoConn
  BY PoolAssumption
<1>3. (\A i, j \in I : i = j) /\ (\A w, v \in W : w = v)
  BY <1>1, <1>2 DEF IInv, Alone
<1>4. (Queued(c) <=> I # {}) /\ (AtWorker(c) <=> W # {})
  BY <1>1 DEF Queued, AtWorker
<1>5. /\ Cardinality(I) = IF Queued(c) THEN 1 ELSE 0
      /\ Cardinality(W) = IF AtWorker(c) THEN 1 ELSE 0
  <2> HIDE DEF I, W
  <2>1. QED
    BY <1>3, <1>4, AtMostOne
<1>6. Holders(c) = (IF AtMain(c) THEN 1 ELSE 0) + (IF Queued(c) THEN 1 ELSE 0)
                       + (IF AtWorker(c) THEN 1 ELSE 0)
  BY <1>5 DEF Holders, AtMain
<1>7. QED
  BY <1>6 DEF IInv, Owner, Alone

\* Every accepted connection has exactly one owner, whoever pushes, pops,
\* closes or shuts down: no descriptor is lost and none is closed twice.
THEOREM ConnectionsHaveOneOwner == Spec => []OneOwner
  BY Invariance, Counted, PTL
-----------------------------------------------------------------------------
\* A step that touches neither the queue nor its shutdown is a stutter of
\* the bounded queue; pushing, popping and shutting down are its actions.
LEMMA QueueStep == IInv /\ [Next]_vars => [Queue!Next]_(Queue!vars)
<1> SUFFICES ASSUME IInv, [Next]_vars PROVE [Queue!Next]_(Queue!vars)
  OBVIOUS
<1> USE DEF Queue!vars
<1>1. CASE Push
  <2>1. CASE cq' = cq
    BY <1>1, <2>1 DEF Push
  <2>2. CASE cq' # cq
    <3>1. ~shut /\ Len(cq) # Cap /\ cq' = Append(cq, afd) /\ shut' = shut
      BY <1>1, <2>2 DEF Push
    <3>2. afd \in Conn
      BY <1>1 DEF Push, IInv, TypeOK, MainInv
    <3>3. Len(cq) < Cap
      BY <3>1, PoolAssumption DEF IInv, TypeOK
    <3>4. Queue!Put
      BY <3>1, <3>2, <3>3 DEF Queue!Put
    <3>5. QED
      BY <3>4 DEF Queue!Next
  <2>3. QED
    BY <2>1, <2>2
<1>2. ASSUME NEW w \in Worker, Pop(w) PROVE [Queue!Next]_(Queue!vars)
  <2>1. CASE cq = << >>
    BY <1>2, <2>1 DEF Pop
  <2>2. CASE cq # << >>
    <3>1. Queue!Take
      BY <1>2, <2>2 DEF Pop, Queue!Take
    <3>2. QED
      BY <3>1 DEF Queue!Next
  <2>3. QED
    BY <2>1, <2>2
<1>3. CASE CloseQueue
  <2>1. Queue!Shutdown
    BY <1>3 DEF CloseQueue, Queue!Shutdown, IInv, MainInv
  <2>2. QED
    BY <2>1 DEF Queue!Next
<1>4. CASE UNCHANGED vars
  BY <1>4 DEF vars
<1>5. ASSUME \/ Interrupt \/ CheckRunning \/ JoinWorkers
             \/ \E c \in Conn : Connect(c) \/ Send(c) \/ Accept(c)
             \/ \E w \in Worker : Read(w) \/ LockSynth(w) \/ Synth(w) \/ SpuriousWake(w)
      PROVE  [Queue!Next]_(Queue!vars)
  BY <1>5 DEF Interrupt, CheckRunning, JoinWorkers, Connect, Send, Accept, Read,
              LockSynth, Synth, SpuriousWake
<1>6. QED
  BY <1>1, <1>2, <1>3, <1>4, <1>5 DEF Next, MainStep, WorkerStep

\* conn_queue_t is a first-in first-out queue of at most Cap connections
\* that takes nothing once it is shut down.
THEOREM QueueRefinement == Spec => Queue!Init /\ [][Queue!Next]_(Queue!vars)
<1>1. Init => Queue!Init
  BY DEF Init, Queue!Init
<1>2. QED
  BY Invariance, QueueStep, <1>1, PTL DEF Spec

-----------------------------------------------------------------------------
(* A kernel: the buffers of a layer, what they may hold, and what a kernel makes*)
(* of them                                                                 *)

\* A set of naturals that has 0, and with each number the next, has all.
LEMMA Counting ==
    ASSUME NEW G, 0 \in G, \A i \in Nat : i \in G => i + 1 \in G
    PROVE  \A i \in Nat : i \in G
<1> DEFINE Less == {p \in Nat \X Nat : p[1] < p[2]}
           Bad == {i \in Nat : i \notin G}
<1>1. IsWellFoundedOn(Less, Nat)
  BY NatLessThanWellFounded, Zenon DEF OpToRel
<1> HIDE DEF Less
<1> SUFFICES ASSUME Bad # {} PROVE FALSE
  OBVIOUS
<1>2. PICK x \in Bad : \A y \in Bad : <<y, x>> \notin Less
  BY <1>1, WFMin
<1>3. x \in Nat /\ x # 0 /\ x \notin G
  BY <1>2
<1>4. x - 1 \in Nat /\ (x - 1) + 1 = x
  BY <1>3
<1>5. x - 1 \in Bad
  BY <1>3, <1>4
<1> DEFINE p == <<x - 1, x>>
<1>6. p \in Nat \X Nat /\ p[1] < p[2]
  BY <1>3, <1>4
<1>7. p \in Less
  BY <1>6 DEF Less
<1>8. QED
  BY <1>2, <1>5, <1>7

\* Half a step of Swiglu is a recursion over the rows.
Rows(layer, gate, stride, n) ==
    LET done[i \in 0 .. n] == IF i = 0 THEN gate ELSE Half(layer, done[i - 1], i - 1, stride)
    IN done

AreRows(f, layer, gate, stride, n) ==
    f = [i \in 0 .. n |-> IF i = 0 THEN gate ELSE Half(layer, f[i - 1], i - 1, stride)]

\* That recursion defines what it says.
LEMMA RowsExist ==
    ASSUME NEW layer, NEW gate, NEW stride, NEW n \in Nat
    PROVE  AreRows(Rows(layer, gate, stride, n), layer, gate, stride, n)
<1> DEFINE Is(f, k) == f = [i \in 0 .. k |-> IF i = 0 THEN gate ELSE Half(layer, f[i - 1], i - 1, stride)]
           G == {k \in Nat : \E f : Is(f, k)}
<1>1. 0 \in G
  <2> DEFINE f == [i \in 0 .. 0 |-> gate]
  <2>1. Is(f, 0)
    OBVIOUS
  <2>2. QED
    BY <2>1
<1>2. ASSUME NEW k \in Nat, k \in G PROVE k + 1 \in G
  <2>1. PICK f : Is(f, k)
    BY <1>2
  <2> DEFINE g == [i \in 0 .. k + 1 |-> IF i = k + 1 THEN Half(layer, f[k], k, stride) ELSE f[i]]
  <2>2. ASSUME NEW i \in 0 .. k + 1
        PROVE  g[i] = IF i = 0 THEN gate ELSE Half(layer, g[i - 1], i - 1, stride)
    <3>1. CASE i = k + 1
      BY <3>1, <1>2
    <3>2. CASE i # k + 1
      <4>1. i \in 0 .. k /\ (i # 0 => i - 1 \in 0 .. k /\ i - 1 \in 0 .. k + 1)
        BY <3>2, <1>2
      <4>2. g[i] = f[i] /\ (i # 0 => g[i - 1] = f[i - 1])
        BY <4>1, <1>2
      <4>3. f[i] = IF i = 0 THEN gate ELSE Half(layer, f[i - 1], i - 1, stride)
        BY <2>1, <4>1
      <4>4. QED
        BY <4>2, <4>3
    <3>3. QED
      BY <3>1, <3>2
  <2>3. Is(g, k + 1)
    BY <2>2, Zenon
  <2> HIDE DEF g, Is
  <2>4. QED
    BY <2>3, <1>2
<1> HIDE DEF G
<1>3. \A k \in Nat : k \in G
  BY <1>1, <1>2, Counting
<1>4. \E f : Is(f, n)
  BY <1>3 DEF G
<1>5. QED
  BY <1>4, Zenon DEF AreRows, Rows

\* The buffers of a step: by row, and the rest.
RowBuffer == {"x", "xn", "q", "k", "v", "attn", "proj", "gu", "act"}
Buffer == RowBuffer \cup {"gate", "kv"}

\* The buffers of a step of n rows over the addresses D.
IsBuffers(m, n, D) ==
    /\ m = [b \in Buffer |-> m[b]]
    /\ \A b \in RowBuffer : m[b] = [r \in 0 .. n - 1 |-> m[b][r]]
    /\ m.gate = [i \in 0 .. 2 * n - 1 |-> m.gate[i]]
    /\ m.kv = [a \in D |-> m.kv[a]]

\* The right value at a point of layer l for the last position of s; of the
\* residual stream and its norm also those of the next layer.
Meant(at, l, s) ==
    IF at \in {"x", "xn", "q", "k", "v", "qn", "kn"} THEN Value(at, l, Own(l, s), -1)
    ELSE IF at \in {"qr", "kr"} THEN Value(at, l, Own(l, s), Len(s) - 1)
    ELSE IF at = "next" THEN Value("x", l + 1, s, -1)
    ELSE IF at = "nextnorm" THEN Value("xn", l + 1, s, -1)
    ELSE Value(at, l, s, -1)

\* Kernels that work within a layer.
Inner == {"input_norm", "wq", "wk", "wv", "q_norm", "k_norm", "wo", "post_norm",
          "gate_up", "swiglu", "down"}

\* A kernel within a layer makes, of the right value at the point it reads, the
\* right value at the point it writes.
LEMMA ApplyIs ==
    ASSUME NEW name \in Inner, NEW l, NEW s
    PROVE  Apply(name, l, Meant(Kernel[name][1], l, s)) = Meant(Kernel[name][2], l, s)
<1> DEFINE at == Kernel[name][1]
<1>1. at \in {"x", "xn", "q", "k", "attn", "y", "yn", "gu", "act"}
  BY DEF Inner, Kernel
<1>2. Meant(at, l, s).at = at /\ Meant(at, l, s).layer = l
  BY <1>1 DEF Meant, Value
<1>3. Apply(name, l, Meant(at, l, s)) = [Meant(at, l, s) EXCEPT !.at = Kernel[name][2]]
  BY <1>2 DEF Apply
<1>4. CASE name \in {"input_norm", "wq", "wk", "wv", "q_norm", "k_norm"}
  BY <1>3, <1>4 DEF Kernel, Meant, Value
<1>5. CASE name \in {"wo", "post_norm", "gate_up", "swiglu", "down"}
  BY <1>3, <1>5 DEF Kernel, Meant, Value
<1>6. QED
  BY <1>4, <1>5 DEF Inner

\* ... and so do the norm for the next layer,
LEMMA NextNormIs ==
    ASSUME NEW l, NEW s
    PROVE  Apply("input_norm", l + 1, Meant("next", l, s)) = Meant("nextnorm", l, s)
BY DEF Apply, Kernel, Meant, Value

\* ... the rotation,
LEMMA RopeIs ==
    ASSUME NEW l, NEW s, NEW n, n = Len(s) - 1
    PROVE  /\ Rope(Meant("qn", l, s), n) = Meant("qr", l, s)
           /\ Rope(Meant("kn", l, s), n) = Meant("kr", l, s)
<1>1. Meant("qr", l, s) = Value("qr", l, Own(l, s), n) /\ Meant("kr", l, s) = Value("kr", l, Own(l, s), n)
  BY DEF Meant
<1>2. Meant("qn", l, s) = Value("qn", l, Own(l, s), -1) /\ Meant("kn", l, s) = Value("kn", l, Own(l, s), -1)
  BY DEF Meant
<1>3. \A z : /\ Rope(Value("qn", l, z, -1), n) = Value("qr", l, z, n)
             /\ Rope(Value("kn", l, z, -1), n) = Value("kr", l, z, n)
  BY DEF Rope, Value
<1>4. QED
  BY <1>1, <1>2, <1>3

\* ... and a residual sum.
LEMMA AddIs ==
    ASSUME NEW l, NEW s, s # << >>
    PROVE  /\ Add(Meant("x", l, s), Meant("o", l, s)) = Meant("y", l, s)
           /\ Add(Meant("y", l, s), Meant("ffn", l, s)) = Meant("next", l, s)
BY DEF Add, Meant, Value

\* A prefix of a sequence: its length, its elements, its last.
LEMMA PrefixIs ==
    ASSUME NEW T, NEW s \in Seq(T), NEW n \in 1 .. Len(s)
    PROVE  /\ Prefix(s, n) \in Seq(T) /\ Len(Prefix(s, n)) = n
           /\ \A i \in 1 .. n : Prefix(s, n)[i] = s[i]
           /\ Last(Prefix(s, n)) = s[n]
<1>1. Len(s) \in Nat /\ 1 \in 1 .. Len(s) + 1 /\ n \in Nat
  BY LenProperties
<1>2. /\ SubSeq(s, 1, n) \in Seq(T)
      /\ Len(SubSeq(s, 1, n)) = n - 1 + 1
      /\ \A i \in 1 .. n - 1 + 1 : SubSeq(s, 1, n)[i] = s[1 + i - 1]
  BY <1>1, SubSeqProperties
<1>3. QED
  BY <1>1, <1>2 DEF Prefix, Last

\* The whole sequence is a prefix,
LEMMA PrefixWhole ==
    ASSUME NEW T, NEW s \in Seq(T), s # << >>
    PROVE  Prefix(s, Len(s)) = s /\ Len(s) \in Nat \ {0}
<1>1. Len(s) \in Nat \ {0}
  BY LenProperties, EmptySeq
<1>2. Prefix(s, Len(s)) \in Seq(T) /\ Len(Prefix(s, Len(s))) = Len(s)
      /\ \A i \in 1 .. Len(s) : Prefix(s, Len(s))[i] = s[i]
  BY <1>1, PrefixIs
<1>3. QED
  BY <1>1, <1>2, SeqEqual

\* ... and a prefix of a prefix one too.
LEMMA PrefixOfPrefix ==
    ASSUME NEW T, NEW s \in Seq(T), NEW n \in 1 .. Len(s), NEW k \in 1 .. n
    PROVE  Prefix(Prefix(s, n), k) = Prefix(s, k)
<1>1. Len(s) \in Nat /\ k \in 1 .. Len(s)
  BY LenProperties
<1>2. Prefix(s, n) \in Seq(T) /\ Len(Prefix(s, n)) = n /\ \A i \in 1 .. n : Prefix(s, n)[i] = s[i]
  BY PrefixIs
<1>3. Prefix(s, k) \in Seq(T) /\ Len(Prefix(s, k)) = k /\ \A i \in 1 .. k : Prefix(s, k)[i] = s[i]
  BY <1>1, PrefixIs
<1> DEFINE u == Prefix(s, n)
<1>4. u \in Seq(T) /\ k \in 1 .. Len(u)
  BY <1>2
<1>5. Prefix(u, k) \in Seq(T) /\ Len(Prefix(u, k)) = k /\ \A i \in 1 .. k : Prefix(u, k)[i] = u[i]
  BY <1>4, PrefixIs
<1>6. QED
  BY <1>2, <1>3, <1>5, SeqEqual

\* Attention over the right keys and values of the positions of s.
LEMMA AttendIs ==
    ASSUME NEW T, NEW s \in Seq(T), s # << >>, NEW l, NEW kv,
           \A j \in 0 .. Len(s) - 1 : kv[j] = Cached(l, Prefix(s, j + 1))
    PROVE  Attend(Meant("qr", l, s), kv, Len(s)) = Meant("attn", l, s)
<1> DEFINE n == Len(s)
           t == [j \in 1 .. n |-> Last(kv[j - 1].k.seq)]
           q == Meant("qr", l, s)
<1>1. n \in Nat \ {0}
  BY PrefixWhole
<1>2. \A j \in 1 .. n : Last(Own(l, Prefix(s, j))) = s[j]
  <2> SUFFICES ASSUME NEW j \in 1 .. n PROVE Last(Own(l, Prefix(s, j))) = s[j]
    OBVIOUS
  <2>1. Last(Prefix(s, j)) = s[j]
    BY PrefixIs
  <2>2. Last(<< s[j] >>) = s[j]
    BY DEF Last
  <2>3. QED
    BY <2>1, <2>2 DEF Own
<1>3. \A j \in 1 .. n : t[j] = s[j]
  <2> SUFFICES ASSUME NEW j \in 1 .. n PROVE t[j] = s[j]
    OBVIOUS
  <2>1. j - 1 \in 0 .. n - 1 /\ (j - 1) + 1 = j
    BY <1>1
  <2>2. kv[j - 1] = Cached(l, Prefix(s, j))
    BY <2>1
  <2>3. kv[j - 1].k.seq = Own(l, Prefix(s, j))
    BY <2>2 DEF Cached, Value
  <2>4. QED
    BY <2>3, <1>2
<1>4. t = s
  <2>1. s = [j \in 1 .. n |-> s[j]]
    BY LenProperties
  <2> HIDE DEF n
  <2>2. [j \in 1 .. n |-> t[j]] = [j \in 1 .. n |-> s[j]]
    BY <1>3
  <2>3. QED
    BY <2>1, <2>2
<1>5. q.at = "qr" /\ q.layer = l /\ q = Value("qr", q.layer, Own(q.layer, t), n - 1)
  BY <1>4 DEF Meant, Value
<1>6. \A j \in 0 .. n - 1 : kv[j].k.at = "kr"
  <2>1. \A u : Cached(l, u).k.at = "kr"
    BY DEF Cached, Value
  <2>2. QED
    BY <2>1
<1>7. \A j \in 0 .. n - 1 : kv[j] = Cached(q.layer, Prefix(t, j + 1))
  BY <1>4, <1>5
<1>8. Attend(q, kv, n) = Value("attn", q.layer, t, -1)
  BY <1>5, <1>6, <1>7 DEF Attend
<1>9. QED
  BY <1>4, <1>5, <1>8 DEF Meant

-----------------------------------------------------------------------------
(* A kernel in its layer: what the buffers hold before it and after it     *)

\* Layer l of a step e, over a cache K at the addresses D: the rows of A are
\* good, row r is at the last position of S[r], and no two rows write to one
\* address.
Setting(e, T, l, S, A, D) ==
    /\ e.rows \in Nat /\ e.L \in Nat /\ l \in Nat /\ l < e.L
    /\ e.on \subseteq 0 .. e.rows - 1 /\ A \subseteq e.on
    /\ \A r \in e.on : e.pos[r] \in Nat /\ Address(e, r, l, e.pos[r]) \in D
    /\ \A r, t \in e.on : Address(e, r, l, e.pos[r]) = Address(e, t, l, e.pos[t]) => r = t
    /\ \A r \in A : S[r] \in Seq(T) /\ S[r] # << >> /\ Len(S[r]) = e.pos[r] + 1

\* What attention finds: in a step the positions before, which no row
\* overwrites; in a prefill the other rows.
Reads(kind, e, l, S, A, K, D) ==
    \/ /\ kind = "step"
       /\ \A r \in A : \A p \in 0 .. e.pos[r] - 1 :
             /\ Address(e, r, l, p) \in D
             /\ K[Address(e, r, l, p)] = Cached(l, Prefix(S[r], p + 1))
             /\ \A t \in e.on : Address(e, r, l, p) # Address(e, t, l, e.pos[t])
    \/ /\ kind = "prefill"
       /\ \A r \in A : \A j \in 0 .. e.pos[r] :
             j \in A /\ S[j] = Prefix(S[r], j + 1)

\* The cache after the rows' keys and values were stored in K.
Stored(e, l, S, A, K, D, kv) ==
    /\ \A r \in A : kv[Address(e, r, l, e.pos[r])] = Cached(l, S[r])
    /\ \A a \in D : (\A r \in e.on : a # Address(e, r, l, e.pos[r])) => kv[a] = K[a]

\* A claim names, for some buffers, what good rows have there.
Spot(at, r) == IF at = "compact" THEN r ELSE 2 * r
\* What the buffer of the gates has there.
InGate(at) == IF at = "compact" THEN "act" ELSE at

\* What holds of the buffers if claim c does.
RowsHold(e, l, S, A, c, m) ==
    \A b \in RowBuffer :
        b \in DOMAIN c /\ (c[b] = "nextnorm" => l + 1 < e.L)
        => \A r \in A : m[b][r] = Meant(c[b], l, S[r])
\* ... of the buffer of the gates,
GateHolds(l, S, A, c, gate) ==
    "gate" \in DOMAIN c =>
        /\ c["gate"] \in {"gu", "act", "compact"}
        /\ \A r \in A : gate[Spot(c["gate"], r)] = Meant(InGate(c["gate"]), l, S[r])
\* ... of the cache,
KvHolds(e, l, S, A, K, D, c, kv) ==
    \/ c["kv"] = "old" /\ kv = K
    \/ c["kv"] = "new" /\ Stored(e, l, S, A, K, D, kv)
\* ... of them all.
Holds(e, l, S, A, K, D, c, m) ==
    /\ IsBuffers(m, e.rows, D)
    /\ RowsHold(e, l, S, A, c, m)
    /\ GateHolds(l, S, A, c, m.gate)
    /\ KvHolds(e, l, S, A, K, D, c, m.kv)

\* d claims nothing that c does not, but of buffer b.
But(c, d, b) == \A y \in DOMAIN d \ {b} : y \in DOMAIN c /\ d[y] = c[y]

\* A kernel that writes one buffer of rows makes the claim about it.
LEMMA RowChange ==
    ASSUME NEW e, NEW T, NEW l, NEW S, NEW A, NEW K, NEW D, Setting(e, T, l, S, A, D),
           NEW c, NEW d, NEW m, Holds(e, l, S, A, K, D, c, m),
           NEW b \in RowBuffer, NEW f, f = [r \in 0 .. e.rows - 1 |-> f[r]],
           NEW w, w = [m EXCEPT ![b] = f], But(c, d, b), "kv" \in DOMAIN d,
           b \in DOMAIN d /\ (d[b] = "nextnorm" => l + 1 < e.L)
           => \A r \in A : f[r] = Meant(d[b], l, S[r])
    PROVE  Holds(e, l, S, A, K, D, d, w)
<1>1. DOMAIN m = Buffer /\ b \in Buffer /\ IsBuffers(m, e.rows, D)
  BY DEF Holds, IsBuffers, Buffer
<1>2. w[b] = f /\ \A y \in Buffer \ {b} : w[y] = m[y]
  BY <1>1
<1>3. b # "gate" /\ b # "kv"
  BY DEF RowBuffer
<1>4. w.gate = m.gate /\ w.kv = m.kv
  BY <1>2, <1>3 DEF Buffer
<1>5. IsBuffers(w, e.rows, D)
  <2>1. w = [y \in Buffer |-> w[y]]
    BY <1>1
  <2>2. \A y \in RowBuffer : w[y] = [r \in 0 .. e.rows - 1 |-> w[y][r]]
    BY <1>1, <1>2 DEF IsBuffers, Buffer
  <2>3. QED
    BY <1>1, <1>4, <2>1, <2>2 DEF IsBuffers
<1>6. RowsHold(e, l, S, A, d, w)
  <2> SUFFICES ASSUME NEW y \in RowBuffer, y \in DOMAIN d, d[y] = "nextnorm" => l + 1 < e.L,
                      NEW r \in A
               PROVE  w[y][r] = Meant(d[y], l, S[r])
    BY DEF RowsHold
  <2>1. CASE y = b
    BY <2>1, <1>2
  <2>2. CASE y # b
    <3>1. y \in DOMAIN c /\ d[y] = c[y] /\ w[y] = m[y]
      BY <2>2, <1>2 DEF But, Buffer
    <3>2. m[y][r] = Meant(c[y], l, S[r])
      BY <3>1 DEF Holds, RowsHold
    <3>3. QED
      BY <3>1, <3>2
  <2>3. QED
    BY <2>1, <2>2
<1>7. GateHolds(l, S, A, d, w.gate)
  <2>1. "gate" \in DOMAIN d => "gate" \in DOMAIN c /\ d["gate"] = c["gate"]
    BY <1>3 DEF But
  <2>2. GateHolds(l, S, A, c, m.gate)
    BY DEF Holds
  <2>3. QED
    BY <1>4, <2>1, <2>2 DEF GateHolds
<1>8. KvHolds(e, l, S, A, K, D, d, w.kv)
  <2>1. d["kv"] = c["kv"]
    BY <1>3 DEF But
  <2>2. KvHolds(e, l, S, A, K, D, c, m.kv)
    BY DEF Holds
  <2>3. QED
    BY <1>4, <2>1, <2>2 DEF KvHolds
<1>9. QED
  BY <1>5, <1>6, <1>7, <1>8 DEF Holds

\* ... and one that writes the buffer of the gates.
LEMMA GateChange ==
    ASSUME NEW e, NEW T, NEW l, NEW S, NEW A, NEW K, NEW D, Setting(e, T, l, S, A, D),
           NEW c, NEW d, NEW m, Holds(e, l, S, A, K, D, c, m),
           NEW f, f = [r \in 0 .. 2 * e.rows - 1 |-> f[r]],
           NEW w, w = [m EXCEPT !.gate = f], But(c, d, "gate"), "kv" \in DOMAIN d,
           GateHolds(l, S, A, d, f)
    PROVE  Holds(e, l, S, A, K, D, d, w)
<1>1. DOMAIN m = Buffer /\ IsBuffers(m, e.rows, D)
  BY DEF Holds, IsBuffers
<1>2. w.gate = f /\ \A y \in Buffer \ {"gate"} : w[y] = m[y]
  BY <1>1 DEF Buffer
<1>3. \A y \in RowBuffer : y \in Buffer \ {"gate"}
  BY DEF RowBuffer, Buffer
<1>4. w.kv = m.kv
  BY <1>2 DEF Buffer
<1>5. IsBuffers(w, e.rows, D)
  <2>1. w = [y \in Buffer |-> w[y]]
    BY <1>1
  <2>2. \A y \in RowBuffer : w[y] = [r \in 0 .. e.rows - 1 |-> w[y][r]]
    <3> SUFFICES ASSUME NEW y \in RowBuffer PROVE w[y] = [r \in 0 .. e.rows - 1 |-> w[y][r]]
      OBVIOUS
    <3>1. w[y] = m[y]
      BY <1>2, <1>3
    <3>2. m[y] = [r \in 0 .. e.rows - 1 |-> m[y][r]]
      BY <1>1, Zenon DEF IsBuffers
    <3>3. QED
      BY <3>1, <3>2, Zenon
  <2>3. w.gate = [r \in 0 .. 2 * e.rows - 1 |-> w.gate[r]]
    BY <1>2, Zenon
  <2>4. w.kv = [a \in D |-> w.kv[a]]
    BY <1>1, <1>4, Zenon DEF IsBuffers
  <2>5. QED
    BY <2>1, <2>2, <2>3, <2>4, Zenon DEF IsBuffers
<1>6. RowsHold(e, l, S, A, d, w)
  <2> SUFFICES ASSUME NEW y \in RowBuffer, y \in DOMAIN d, d[y] = "nextnorm" => l + 1 < e.L,
                      NEW r \in A
               PROVE  w[y][r] = Meant(d[y], l, S[r])
    BY DEF RowsHold
  <2>1. y \in DOMAIN c /\ d[y] = c[y] /\ w[y] = m[y]
    BY <1>2, <1>3 DEF But
  <2>2. m[y][r] = Meant(c[y], l, S[r])
    BY <2>1 DEF Holds, RowsHold
  <2>3. QED
    BY <2>1, <2>2
<1>7. KvHolds(e, l, S, A, K, D, d, w.kv)
  <2>1. d["kv"] = c["kv"]
    BY DEF But
  <2>2. KvHolds(e, l, S, A, K, D, c, m.kv)
    BY DEF Holds
  <2>3. QED
    BY <1>4, <2>1, <2>2 DEF KvHolds
<1>8. QED
  BY <1>2, <1>5, <1>6, <1>7 DEF Holds

\* The kernels one by one: HeadNorm,
LEMMA HeadNormStep ==
    ASSUME NEW e, NEW T, NEW l, NEW S, NEW A, NEW K, NEW D, Setting(e, T, l, S, A, D),
           NEW c, NEW d, NEW m, Holds(e, l, S, A, K, D, c, m),
           NEW name \in Inner, NEW b \in RowBuffer,
           But(c, d, b), "kv" \in DOMAIN d, b \in DOMAIN c,
           c[b] = Kernel[name][1], d[b] = Kernel[name][2]
    PROVE  Holds(e, l, S, A, K, D, d, HeadNorm(e, l, m, name, b))
<1> DEFINE f == [r \in 0 .. e.rows - 1 |-> IF r \in e.on THEN Apply(name, l, m[b][r]) ELSE m[b][r]]
           w == [m EXCEPT ![b] = f]
<1>1. HeadNorm(e, l, m, name, b) = w
  <2>1. b \in DOMAIN m
    BY DEF Holds, IsBuffers, Buffer
  <2>2. QED
    BY <2>1 DEF HeadNorm, ForActive
<1>2. c[b] # "nextnorm"
  BY DEF Inner, Kernel
<1>3. ASSUME NEW r \in A PROVE f[r] = Meant(d[b], l, S[r])
  <2>1. r \in e.on /\ r \in 0 .. e.rows - 1
    BY DEF Setting
  <2>2. m[b][r] = Meant(c[b], l, S[r])
    BY <1>2 DEF Holds, RowsHold
  <2>3. QED
    BY <2>1, <2>2, ApplyIs
<1>4. f = [r \in 0 .. e.rows - 1 |-> f[r]]
  OBVIOUS
<1> HIDE DEF f
<1>5. Holds(e, l, S, A, K, D, d, w)
  BY <1>3, <1>4, RowChange
<1>6. QED
  BY <1>1, <1>5

\* ... RopeRows,
LEMMA RopeStep ==
    ASSUME NEW e, NEW T, NEW l, NEW S, NEW A, NEW K, NEW D, Setting(e, T, l, S, A, D),
           NEW c, NEW d, NEW m, Holds(e, l, S, A, K, D, c, m),
           NEW b \in RowBuffer,
           But(c, d, b), "kv" \in DOMAIN d, b \in DOMAIN c,
           \/ c[b] = "qn" /\ d[b] = "qr"
           \/ c[b] = "kn" /\ d[b] = "kr"
    PROVE  Holds(e, l, S, A, K, D, d, RopeRows(e, m, b))
<1> DEFINE f == [r \in 0 .. e.rows - 1 |-> IF r \in e.on THEN Rope(m[b][r], e.pos[r]) ELSE m[b][r]]
           w == [m EXCEPT ![b] = f]
<1>1. RopeRows(e, m, b) = w
  <2>1. b \in DOMAIN m
    BY DEF Holds, IsBuffers, Buffer
  <2>2. QED
    BY <2>1 DEF RopeRows, ForActive
<1>3. ASSUME NEW r \in A PROVE f[r] = Meant(d[b], l, S[r])
  <2>1. r \in e.on /\ r \in 0 .. e.rows - 1
    BY DEF Setting
  <2>2. m[b][r] = Meant(c[b], l, S[r])
    BY DEF Holds, RowsHold
  <2>3. e.pos[r] = Len(S[r]) - 1
    <3>1. e.pos[r] \in Nat /\ Len(S[r]) = e.pos[r] + 1
      BY <2>1 DEF Setting
    <3>2. QED
      BY <3>1
  <2>4. /\ Rope(Meant("qn", l, S[r]), e.pos[r]) = Meant("qr", l, S[r])
        /\ Rope(Meant("kn", l, S[r]), e.pos[r]) = Meant("kr", l, S[r])
    BY <2>3, RopeIs
  <2>5. QED
    BY <2>1, <2>2, <2>4
<1>4. f = [r \in 0 .. e.rows - 1 |-> f[r]]
  OBVIOUS
<1> HIDE DEF f
<1>5. Holds(e, l, S, A, K, D, d, w)
  BY <1>3, <1>4, RowChange
<1>6. QED
  BY <1>1, <1>5

\* ... Project,
LEMMA ProjectStep ==
    ASSUME NEW e, NEW T, NEW l, NEW S, NEW A, NEW K, NEW D, Setting(e, T, l, S, A, D),
           NEW c, NEW d, NEW m, Holds(e, l, S, A, K, D, c, m),
           NEW name \in Inner, NEW from \in RowBuffer, NEW to \in RowBuffer,
           But(c, d, to), "kv" \in DOMAIN d, from \in DOMAIN c,
           c[from] = Kernel[name][1], d[to] = Kernel[name][2]
    PROVE  Holds(e, l, S, A, K, D, d, Project(l, m, name, from, to))
<1> DEFINE f == [r \in 0 .. e.rows - 1 |-> Apply(name, l, m[from][r])]
           w == [m EXCEPT ![to] = f]
<1>1. Project(l, m, name, from, to) = w
  <2>1. to \in DOMAIN m /\ DOMAIN m[to] = 0 .. e.rows - 1
    BY DEF Holds, IsBuffers, Buffer
  <2>2. QED
    BY <2>1 DEF Project
<1>2. c[from] # "nextnorm"
  BY DEF Inner, Kernel
<1>3. ASSUME NEW r \in A PROVE f[r] = Meant(d[to], l, S[r])
  <2>1. r \in 0 .. e.rows - 1
    BY DEF Setting
  <2>2. m[from][r] = Meant(c[from], l, S[r])
    BY <1>2 DEF Holds, RowsHold
  <2>3. QED
    BY <2>1, <2>2, ApplyIs
<1>4. f = [r \in 0 .. e.rows - 1 |-> f[r]]
  OBVIOUS
<1> HIDE DEF f
<1>5. Holds(e, l, S, A, K, D, d, w)
  BY <1>3, <1>4, RowChange
<1>6. QED
  BY <1>1, <1>5

\* ... AddTo,
LEMMA AddStep ==
    ASSUME NEW e, NEW T, NEW l, NEW S, NEW A, NEW K, NEW D, Setting(e, T, l, S, A, D),
           NEW c, NEW d, NEW m, Holds(e, l, S, A, K, D, c, m),
           NEW b \in RowBuffer,
           But(c, d, "x"), "kv" \in DOMAIN d, b \in DOMAIN c, "x" \in DOMAIN c,
           \/ c["x"] = "x" /\ c[b] = "o" /\ d["x"] = "y"
           \/ c["x"] = "y" /\ c[b] = "ffn" /\ d["x"] = "next"
    PROVE  Holds(e, l, S, A, K, D, d, AddTo(e, m, b))
<1> DEFINE f == [r \in 0 .. e.rows - 1 |-> Add(m["x"][r], m[b][r])]
           w == [m EXCEPT !["x"] = f]
<1>0. "x" \in RowBuffer
  BY DEF RowBuffer
<1>1. AddTo(e, m, b) = w
  <2>1. "x" \in DOMAIN m /\ DOMAIN m["x"] = 0 .. e.rows - 1
    BY <1>0 DEF Holds, IsBuffers, Buffer
  <2>2. QED
    BY <2>1 DEF AddTo
<1>3. ASSUME NEW r \in A PROVE f[r] = Meant(d["x"], l, S[r])
  <2>1. r \in 0 .. e.rows - 1 /\ S[r] # << >>
    BY DEF Setting
  <2>2. m["x"][r] = Meant(c["x"], l, S[r]) /\ m[b][r] = Meant(c[b], l, S[r])
    BY <1>0 DEF Holds, RowsHold
  <2>3. /\ Add(Meant("x", l, S[r]), Meant("o", l, S[r])) = Meant("y", l, S[r])
        /\ Add(Meant("y", l, S[r]), Meant("ffn", l, S[r])) = Meant("next", l, S[r])
    BY <2>1, AddIs
  <2>4. QED
    BY <2>1, <2>2, <2>3
<1>4. f = [r \in 0 .. e.rows - 1 |-> f[r]]
  OBVIOUS
<1> HIDE DEF f
<1>5. Holds(e, l, S, A, K, D, d, w)
  BY <1>0, <1>3, <1>4, RowChange
<1>6. QED
  BY <1>1, <1>5

\* ... NextNorm,
LEMMA NextNormStep ==
    ASSUME NEW e, NEW T, NEW l, NEW S, NEW A, NEW K, NEW D, Setting(e, T, l, S, A, D),
           NEW c, NEW d, NEW m, Holds(e, l, S, A, K, D, c, m),
           But(c, d, "xn"), "kv" \in DOMAIN d, "x" \in DOMAIN c,
           c["x"] = "next", d["xn"] = "nextnorm"
    PROVE  Holds(e, l, S, A, K, D, d, NextNorm(e, l, m))
<1> DEFINE f == [r \in 0 .. e.rows - 1 |-> IF l + 1 < e.L THEN Apply("input_norm", l + 1, m["x"][r])
                                          ELSE m["xn"][r]]
           w == [m EXCEPT !["xn"] = f]
<1>0. "x" \in RowBuffer /\ "xn" \in RowBuffer
  BY DEF RowBuffer
<1>1. NextNorm(e, l, m) = w
  <2>1. "xn" \in DOMAIN m /\ DOMAIN m["xn"] = 0 .. e.rows - 1
        /\ m["xn"] = [r \in 0 .. e.rows - 1 |-> m["xn"][r]]
    BY <1>0 DEF Holds, IsBuffers, Buffer
  <2>2. CASE l + 1 < e.L
    BY <2>1, <2>2 DEF NextNorm
  <2>3. CASE ~(l + 1 < e.L)
    <3>1. f = m["xn"]
      BY <2>1, <2>3
    <3>2. m = [y \in Buffer |-> m[y]]
      BY DEF Holds, IsBuffers
    <3>3. w = m
      BY <2>1, <3>1, <3>2
    <3>4. QED
      BY <2>3, <3>3 DEF NextNorm
  <2>4. QED
    BY <2>2, <2>3
<1>3. ASSUME l + 1 < e.L, NEW r \in A PROVE f[r] = Meant(d["xn"], l, S[r])
  <2>1. r \in 0 .. e.rows - 1
    BY DEF Setting
  <2>2. m["x"][r] = Meant("next", l, S[r])
    BY <1>0 DEF Holds, RowsHold
  <2>3. QED
    BY <1>3, <2>1, <2>2, NextNormIs
<1>4. f = [r \in 0 .. e.rows - 1 |-> f[r]]
  OBVIOUS
<1> HIDE DEF f
<1>5. Holds(e, l, S, A, K, D, d, w)
  BY <1>0, <1>3, <1>4, RowChange
<1>6. QED
  BY <1>1, <1>5

\* ... GateUp,
LEMMA GateUpStep ==
    ASSUME NEW e, NEW T, NEW l, NEW S, NEW A, NEW K, NEW D, Setting(e, T, l, S, A, D),
           NEW c, NEW d, NEW m, Holds(e, l, S, A, K, D, c, m),
           But(c, d, "gate"), "kv" \in DOMAIN d, "xn" \in DOMAIN c,
           c["xn"] = "yn", d["gate"] = "gu"
    PROVE  Holds(e, l, S, A, K, D, d, GateUp(l, m))
<1> DEFINE f == [j \in 0 .. 2 * e.rows - 1 |-> Apply("gate_up", l, m["xn"][j \div 2])]
           w == [m EXCEPT !.gate = f]
<1>1. GateUp(l, m) = w
  <2>1. "gate" \in DOMAIN m /\ DOMAIN m["gate"] = 0 .. 2 * e.rows - 1
    BY DEF Holds, IsBuffers, Buffer
  <2>2. QED
    BY <2>1 DEF GateUp
<1>2. ASSUME NEW r \in A PROVE f[2 * r] = Meant("gu", l, S[r])
  <2>1. r \in 0 .. e.rows - 1 /\ e.rows \in Nat
    BY DEF Setting
  <2>2. 2 * r \in 0 .. 2 * e.rows - 1 /\ (2 * r) \div 2 = r
    BY <2>1
  <2>3. m["xn"][r] = Meant("yn", l, S[r])
    BY DEF Holds, RowsHold, RowBuffer
  <2>4. Apply("gate_up", l, Meant("yn", l, S[r])) = Meant("gu", l, S[r])
    <3>1. "gate_up" \in Inner /\ Kernel["gate_up"][1] = "yn" /\ Kernel["gate_up"][2] = "gu"
      BY DEF Inner, Kernel
    <3>2. QED
      BY <3>1, ApplyIs
  <2>5. QED
    BY <2>2, <2>3, <2>4
<1>3. f = [r \in 0 .. 2 * e.rows - 1 |-> f[r]]
  OBVIOUS
<1> HIDE DEF f
<1>4. GateHolds(l, S, A, d, f)
  BY <1>2 DEF GateHolds, Spot, InGate
<1>5. Holds(e, l, S, A, K, D, d, w)
  BY <1>3, <1>4, GateChange
<1>6. QED
  BY <1>1, <1>5

\* ... Down,
LEMMA DownStep ==
    ASSUME NEW e, NEW T, NEW l, NEW S, NEW A, NEW K, NEW D, Setting(e, T, l, S, A, D),
           NEW c, NEW d, NEW m, Holds(e, l, S, A, K, D, c, m),
           NEW b \in RowBuffer, NEW stride,
           But(c, d, b), "kv" \in DOMAIN d, "gate" \in DOMAIN c, d[b] = "ffn",
           \/ c["gate"] = "act" /\ stride = 2
           \/ c["gate"] = "compact" /\ stride = 1
    PROVE  Holds(e, l, S, A, K, D, d, Down(l, m, b, stride))
<1> DEFINE f == [r \in 0 .. e.rows - 1 |-> Apply("down", l, m.gate[stride * r])]
           w == [m EXCEPT ![b] = f]
<1>1. Down(l, m, b, stride) = w
  <2>1. b \in DOMAIN m /\ DOMAIN m[b] = 0 .. e.rows - 1
    BY DEF Holds, IsBuffers, Buffer
  <2>2. QED
    BY <2>1 DEF Down
<1>3. ASSUME NEW r \in A PROVE f[r] = Meant(d[b], l, S[r])
  <2>1. r \in 0 .. e.rows - 1 /\ e.rows \in Nat
    BY DEF Setting
  <2>2. stride * r = Spot(c["gate"], r)
    BY <2>1 DEF Spot
  <2>3. m.gate[stride * r] = Meant("act", l, S[r])
    BY <2>2 DEF Holds, GateHolds, InGate
  <2>4. Apply("down", l, Meant("act", l, S[r])) = Meant("ffn", l, S[r])
    <3>1. "down" \in Inner /\ Kernel["down"][1] = "act" /\ Kernel["down"][2] = "ffn"
      BY DEF Inner, Kernel
    <3>2. QED
      BY <3>1, ApplyIs
  <2>5. QED
    BY <2>1, <2>3, <2>4
<1>4. f = [r \in 0 .. e.rows - 1 |-> f[r]]
  OBVIOUS
<1> HIDE DEF f
<1>5. Holds(e, l, S, A, K, D, d, w)
  BY <1>3, <1>4, RowChange
<1>6. QED
  BY <1>1, <1>5

\* Half changes the two halves of its row, and the one it moves the result to.
HalfDone(w, n, layer, g, r, stride) ==
    /\ w = [i \in 0 .. 2 * n - 1 |-> w[i]]
    /\ w[stride * r] = Apply("swiglu", layer, g[2 * r])
    /\ \A i \in 0 .. 2 * n - 1 : i \notin {2 * r, 2 * r + 1, stride * r} => w[i] = g[i]

\* ... Swiglu, whose rows overwrite each other: one of them,
LEMMA HalfIs ==
    ASSUME NEW n \in Nat, NEW layer, NEW g, DOMAIN g = 0 .. 2 * n - 1,
           NEW r \in 0 .. n - 1, NEW stride \in {1, 2}
    PROVE  HalfDone(Half(layer, g, r, stride), n, layer, g, r, stride)
<1> DEFINE w == Half(layer, g, r, stride)
<1> DEFINE a == Apply("swiglu", layer, g[2 * r])
           u == [g EXCEPT ![2 * r] = a, ![2 * r + 1] = Wrong]
<1>1. w = [u EXCEPT ![stride * r] = a]
  BY DEF Half
<1>2. stride * r \in 0 .. 2 * n - 1 /\ 2 * r \in 0 .. 2 * n - 1 /\ 2 * r + 1 \in 0 .. 2 * n - 1
  OBVIOUS
<1> HIDE DEF a
<1>3. DOMAIN u = 0 .. 2 * n - 1
      /\ \A i \in 0 .. 2 * n - 1 : i \notin {2 * r, 2 * r + 1} => u[i] = g[i]
  OBVIOUS
<1> HIDE DEF u, w
<1>4. QED
  BY <1>1, <1>2, <1>3 DEF a, HalfDone, w

\* After n rows the first n have their result where it belongs, and the rest
\* is still what it was.
RowsDone(w, n, layer, g, stride) ==
    /\ w = [i \in 0 .. 2 * n - 1 |-> w[i]]
    /\ \A r \in 0 .. n - 1 : w[stride * r] = Apply("swiglu", layer, g[2 * r])

\* ... all of them,
LEMMA RowsAre ==
    ASSUME NEW n \in Nat, NEW layer, NEW g, g = [i \in 0 .. 2 * n - 1 |-> g[i]],
           NEW stride \in {1, 2}
    PROVE  RowsDone(Rows(layer, g, stride, n)[n], n, layer, g, stride)
<1> DEFINE f == Rows(layer, g, stride, n)
<1>1. f = [i \in 0 .. n |-> IF i = 0 THEN g ELSE Half(layer, f[i - 1], i - 1, stride)]
  <2>1. AreRows(f, layer, g, stride, n)
    BY RowsExist
  <2>2. QED
    BY <2>1, Zenon DEF AreRows
<1> HIDE DEF f
<1> DEFINE Right(i) == /\ f[i] = [j \in 0 .. 2 * n - 1 |-> f[i][j]]
                       /\ \A r \in 0 .. i - 1 : f[i][stride * r] = Apply("swiglu", layer, g[2 * r])
                       /\ \A r \in i .. n - 1 : f[i][2 * r] = g[2 * r]
           G == {i \in Nat : i <= n => Right(i)}
<1>2. 0 \in G
  <2>1. f[0] = g
    BY <1>1
  <2>2. Right(0)
    BY <2>1
  <2> HIDE DEF Right
  <2>3. QED
    BY <2>2
<1>3. ASSUME NEW i \in Nat, i \in G PROVE i + 1 \in G
  <2> HIDE DEF Right
  <2> SUFFICES ASSUME i + 1 <= n PROVE Right(i + 1)
    OBVIOUS
  <2>1. Right(i) /\ i \in 0 .. n - 1 /\ i + 1 \in 0 .. n /\ i + 1 # 0 /\ (i + 1) - 1 = i
    BY <1>3
  <2>0. /\ f[i] = [j \in 0 .. 2 * n - 1 |-> f[i][j]]
        /\ \A r \in 0 .. i - 1 : f[i][stride * r] = Apply("swiglu", layer, g[2 * r])
        /\ \A r \in i .. n - 1 : f[i][2 * r] = g[2 * r]
    BY <2>1 DEF Right
  <2>2. f[i + 1] = Half(layer, f[i], i, stride)
    BY <1>1, <2>1
  <2>3. DOMAIN f[i] = 0 .. 2 * n - 1
    BY <2>0
  <2> DEFINE w == f[i + 1]
  <2>10. HalfDone(w, n, layer, f[i], i, stride)
    BY <2>1, <2>2, <2>3, HalfIs
  <2> HIDE DEF w
  <2>4. /\ w = [j \in 0 .. 2 * n - 1 |-> w[j]]
        /\ w[stride * i] = Apply("swiglu", layer, f[i][2 * i])
        /\ \A j \in 0 .. 2 * n - 1 : j \notin {2 * i, 2 * i + 1, stride * i} => w[j] = f[i][j]
    BY <2>10, Zenon DEF HalfDone
  <2>5. f[i][2 * i] = g[2 * i]
    <3>1. i \in i .. n - 1
      BY <2>1
    <3>2. QED
      BY <2>0, <3>1, Zenon
  <2>6. ASSUME NEW r \in 0 .. i PROVE w[stride * r] = Apply("swiglu", layer, g[2 * r])
    <3>1. CASE r = i
      BY <3>1, <2>4, <2>5
    <3>2. CASE r # i
      <4>1. r \in 0 .. i - 1 /\ stride * r \in 0 .. 2 * n - 1
            /\ stride * r \notin {2 * i, 2 * i + 1, stride * i}
        <5>1. CASE stride = 1
          BY <3>2, <2>1, <5>1
        <5>2. CASE stride = 2
          BY <3>2, <2>1, <5>2
        <5>3. QED
          BY <5>1, <5>2
      <4>2. f[i][stride * r] = Apply("swiglu", layer, g[2 * r])
        BY <2>0, <4>1
      <4>3. QED
        BY <4>1, <4>2, <2>4
    <3>3. QED
      BY <3>1, <3>2
  <2>7. ASSUME NEW r \in i + 1 .. n - 1 PROVE w[2 * r] = g[2 * r]
    <3>1. r \in i .. n - 1 /\ 2 * r \in 0 .. 2 * n - 1 /\ 2 * r \notin {2 * i, 2 * i + 1, stride * i}
      BY <2>1
    <3>2. f[i][2 * r] = g[2 * r]
      BY <2>0, <3>1
    <3>3. QED
      BY <3>1, <3>2, <2>4
  <2>8. 0 .. (i + 1) - 1 = 0 .. i
    BY <2>1
  <2>9. QED
    BY <2>4, <2>6, <2>7, <2>8 DEF w, Right
<1> HIDE DEF G, Right
<1>4. \A i \in Nat : i \in G
  BY <1>2, <1>3, Counting
<1>5. Right(n)
  BY <1>4 DEF G
<1>6. QED
  BY <1>5 DEF f, Right, RowsDone

\* ... and the kernel;
LEMMA SwigluStep ==
    ASSUME NEW e, NEW T, NEW l, NEW S, NEW A, NEW K, NEW D, Setting(e, T, l, S, A, D),
           NEW c, NEW d, NEW m, Holds(e, l, S, A, K, D, c, m), NEW stride,
           But(c, d, "gate"), "kv" \in DOMAIN d, "gate" \in DOMAIN c, c["gate"] = "gu",
           \/ d["gate"] = "act" /\ stride = 2
           \/ d["gate"] = "compact" /\ stride = 1
    PROVE  Holds(e, l, S, A, K, D, d, Swiglu(e, l, m, stride))
<1> DEFINE f == Rows(l, m.gate, stride, e.rows)[e.rows]
           w == [m EXCEPT !.gate = f]
<1>0. e.rows \in Nat /\ stride \in {1, 2} /\ m.gate = [i \in 0 .. 2 * e.rows - 1 |-> m.gate[i]]
  BY DEF Setting, Holds, IsBuffers
<1>1. Swiglu(e, l, m, stride) = w
  BY Zenon DEF Swiglu, Rows
<1>2. /\ f = [i \in 0 .. 2 * e.rows - 1 |-> f[i]]
      /\ \A r \in 0 .. e.rows - 1 : f[stride * r] = Apply("swiglu", l, m.gate[2 * r])
  <2>1. RowsDone(f, e.rows, l, m.gate, stride)
    BY <1>0, RowsAre
  <2>2. QED
    BY <2>1, Zenon DEF RowsDone
<1> HIDE DEF f
<1>3. ASSUME NEW r \in A PROVE f[Spot(d["gate"], r)] = Meant("act", l, S[r])
  <2>1. r \in 0 .. e.rows - 1
    BY DEF Setting
  <2>2. stride * r = Spot(d["gate"], r)
    BY <1>0, <2>1 DEF Spot
  <2>3. m.gate[2 * r] = Meant("gu", l, S[r])
    BY DEF Holds, GateHolds, Spot, InGate
  <2>4. Apply("swiglu", l, Meant("gu", l, S[r])) = Meant("act", l, S[r])
    <3>1. "swiglu" \in Inner /\ Kernel["swiglu"][1] = "gu" /\ Kernel["swiglu"][2] = "act"
      BY DEF Inner, Kernel
    <3>2. QED
      BY <3>1, ApplyIs
  <2>5. QED
    BY <1>2, <2>1, <2>2, <2>3, <2>4
<1>4. GateHolds(l, S, A, d, f)
  BY <1>3 DEF GateHolds, InGate
<1>5. Holds(e, l, S, A, K, D, d, w)
  BY <1>2, <1>4, GateChange
<1>6. QED
  BY <1>1, <1>5

\* ... Store,
LEMMA StoreStep ==
    ASSUME NEW e, NEW T, NEW l, NEW S, NEW A, NEW K, NEW D, Setting(e, T, l, S, A, D),
           NEW c, NEW d, NEW m, Holds(e, l, S, A, K, D, c, m),
           But(c, d, "kv"), "k" \in DOMAIN c, "v" \in DOMAIN c,
           c["k"] = "kr", c["v"] = "v", c["kv"] = "old", d["kv"] = "new"
    PROVE  Holds(e, l, S, A, K, D, d, Store(e, l, m))
<1> DEFINE at(r) == Address(e, r, l, e.pos[r])
           f == [a \in D |-> IF \E r \in e.on : at(r) = a
                             THEN [k |-> m.k[CHOOSE r \in e.on : at(r) = a],
                                   v |-> m.v[CHOOSE r \in e.on : at(r) = a]]
                             ELSE m.kv[a]]
           w == [m EXCEPT !.kv = f]
<1>0. DOMAIN m = Buffer /\ IsBuffers(m, e.rows, D) /\ DOMAIN m.kv = D /\ m.kv = K
  BY DEF Holds, IsBuffers, KvHolds
<1>1. Store(e, l, m) = w
  BY <1>0 DEF Store, Buffer
<1>2. ASSUME NEW r \in A PROVE f[at(r)] = Cached(l, S[r])
  <2>1. r \in e.on /\ at(r) \in D /\ Len(S[r]) = e.pos[r] + 1 /\ e.pos[r] \in Nat
    BY DEF Setting
  <2>2. (CHOOSE t \in e.on : at(t) = at(r)) = r
    <3>1. \A t \in e.on : at(t) = at(r) => t = r
      BY <2>1 DEF Setting
    <3> HIDE DEF at
    <3>2. QED
      BY <2>1, <3>1
  <2>3. f[at(r)] = [k |-> m.k[r], v |-> m.v[r]]
    <3> HIDE DEF at
    <3>1. QED
      BY <2>1, <2>2
  <2>4. m["k"][r] = Meant("kr", l, S[r]) /\ m["v"][r] = Meant("v", l, S[r])
    BY DEF Holds, RowsHold, RowBuffer
  <2>5. QED
    BY <2>1, <2>3, <2>4 DEF Meant, Cached
<1>3. \A a \in D : (\A r \in e.on : a # at(r)) => f[a] = K[a]
  BY <1>0
<1>4. f = [a \in D |-> f[a]]
  OBVIOUS
<1> HIDE DEF f
<1>5. Stored(e, l, S, A, K, D, f)
  BY <1>2, <1>3 DEF Stored
<1>6. w.kv = f /\ \A y \in Buffer \ {"kv"} : w[y] = m[y]
  BY <1>0 DEF Buffer
<1>7. \A y \in RowBuffer \cup {"gate"} : y \in Buffer \ {"kv"}
  BY DEF RowBuffer, Buffer
<1>8. w.gate = m.gate
  BY <1>6, <1>7
<1>9. IsBuffers(w, e.rows, D)
  <2>1. w = [y \in Buffer |-> w[y]]
    BY <1>0
  <2>2. \A y \in RowBuffer : w[y] = [r \in 0 .. e.rows - 1 |-> w[y][r]]
    BY <1>0, <1>6, <1>7 DEF IsBuffers
  <2>3. w.gate = [i \in 0 .. 2 * e.rows - 1 |-> w.gate[i]] /\ w.kv = [a \in D |-> w.kv[a]]
    BY <1>0, <1>4, <1>6, <1>8 DEF IsBuffers
  <2> HIDE DEF w
  <2>4. QED
    BY <2>1, <2>2, <2>3 DEF IsBuffers
<1>10. RowsHold(e, l, S, A, d, w)
  <2> SUFFICES ASSUME NEW y \in RowBuffer, y \in DOMAIN d, d[y] = "nextnorm" => l + 1 < e.L,
                      NEW r \in A
               PROVE  w[y][r] = Meant(d[y], l, S[r])
    BY DEF RowsHold
  <2>1. y \in DOMAIN c /\ d[y] = c[y] /\ w[y] = m[y]
    BY <1>6, <1>7 DEF But, RowBuffer
  <2>2. m[y][r] = Meant(c[y], l, S[r])
    BY <2>1 DEF Holds, RowsHold
  <2>3. QED
    BY <2>1, <2>2
<1>11. GateHolds(l, S, A, d, w.gate)
  <2>1. "gate" \in DOMAIN d => "gate" \in DOMAIN c /\ d["gate"] = c["gate"]
    BY DEF But
  <2>2. GateHolds(l, S, A, c, m.gate)
    BY DEF Holds
  <2>3. QED
    BY <1>8, <2>1, <2>2 DEF GateHolds
<1>12. Holds(e, l, S, A, K, D, d, w)
  BY <1>5, <1>6, <1>9, <1>10, <1>11 DEF Holds, KvHolds
<1>13. QED
  BY <1>1, <1>12

\* ... AttendCache,
LEMMA AttendStep ==
    ASSUME NEW e, NEW T, NEW l, NEW S, NEW A, NEW K, NEW D, Setting(e, T, l, S, A, D),
           NEW c, NEW d, NEW m, Holds(e, l, S, A, K, D, c, m),
           Reads("step", e, l, S, A, K, D),
           But(c, d, "attn"), "kv" \in DOMAIN d, "q" \in DOMAIN c,
           c["q"] = "qr", c["kv"] = "new", d["attn"] = "attn"
    PROVE  Holds(e, l, S, A, K, D, d, AttendCache(e, l, m))
<1> DEFINE of(r) == Attend(m.q[r], [j \in 0 .. e.pos[r] |-> m.kv[Address(e, r, l, j)]], e.pos[r] + 1)
           f == [r \in 0 .. e.rows - 1 |-> IF r \in e.on THEN of(r) ELSE m.attn[r]]
           w == [m EXCEPT !["attn"] = f]
<1>0. "attn" \in RowBuffer /\ "q" \in RowBuffer
  BY DEF RowBuffer
<1>1. AttendCache(e, l, m) = w
  <2>1. "attn" \in DOMAIN m
    BY DEF Holds, IsBuffers, Buffer, RowBuffer
  <2>2. QED
    BY <2>1 DEF AttendCache, ForActive
<1>2. Stored(e, l, S, A, K, D, m.kv)
  BY DEF Holds, KvHolds
<1>3. ASSUME NEW r \in A PROVE f[r] = Meant("attn", l, S[r])
  <2>1. r \in e.on /\ r \in 0 .. e.rows - 1 /\ e.pos[r] \in Nat /\ Len(S[r]) = e.pos[r] + 1
        /\ S[r] \in Seq(T) /\ S[r] # << >>
    BY DEF Setting
  <2>2. m["q"][r] = Meant("qr", l, S[r])
    BY <1>0 DEF Holds, RowsHold
  <2> DEFINE kv == [j \in 0 .. e.pos[r] |-> m.kv[Address(e, r, l, j)]]
  <2>3. ASSUME NEW j \in 0 .. e.pos[r] PROVE kv[j] = Cached(l, Prefix(S[r], j + 1))
    <3>1. CASE j = e.pos[r]
      <4>1. m.kv[Address(e, r, l, j)] = Cached(l, S[r])
        BY <1>2, <3>1 DEF Stored
      <4>2. Prefix(S[r], j + 1) = S[r]
        BY <2>1, <3>1, PrefixWhole
      <4>3. QED
        BY <4>1, <4>2
    <3>2. CASE j # e.pos[r]
      <4>1. j \in 0 .. e.pos[r] - 1
        BY <2>1, <3>2
      <4>2. /\ Address(e, r, l, j) \in D
            /\ K[Address(e, r, l, j)] = Cached(l, Prefix(S[r], j + 1))
            /\ \A t \in e.on : Address(e, r, l, j) # Address(e, t, l, e.pos[t])
        BY <4>1 DEF Reads
      <4>3. QED
        BY <1>2, <4>2 DEF Stored
    <3>3. QED
      BY <3>1, <3>2
  <2>4. 0 .. Len(S[r]) - 1 = 0 .. e.pos[r]
    BY <2>1
  <2> HIDE DEF kv
  <2>5. Attend(Meant("qr", l, S[r]), kv, Len(S[r])) = Meant("attn", l, S[r])
    BY <2>1, <2>3, <2>4, AttendIs
  <2>6. f[r] = Attend(m.q[r], kv, e.pos[r] + 1)
    BY <2>1 DEF kv
  <2>7. QED
    BY <2>1, <2>2, <2>5, <2>6
<1>4. f = [r \in 0 .. e.rows - 1 |-> f[r]]
  OBVIOUS
<1> HIDE DEF f
<1>5. Holds(e, l, S, A, K, D, d, w)
  BY <1>0, <1>3, <1>4, RowChange
<1>6. QED
  BY <1>1, <1>5

\* ... AttendRows.
LEMMA AttendRowsStep ==
    ASSUME NEW e, NEW T, NEW l, NEW S, NEW A, NEW K, NEW D, Setting(e, T, l, S, A, D),
           NEW c, NEW d, NEW m, Holds(e, l, S, A, K, D, c, m),
           Reads("prefill", e, l, S, A, K, D),
           But(c, d, "attn"), "kv" \in DOMAIN d, "q" \in DOMAIN c, "k" \in DOMAIN c, "v" \in DOMAIN c,
           c["q"] = "qr", c["k"] = "kr", c["v"] = "v", d["attn"] = "attn"
    PROVE  Holds(e, l, S, A, K, D, d, AttendRows(e, m))
<1> DEFINE of(r) == Attend(m.q[r], [j \in 0 .. e.pos[r] |-> [k |-> m.k[j], v |-> m.v[j]]], e.pos[r] + 1)
           f == [r \in 0 .. e.rows - 1 |-> IF r \in e.on THEN of(r) ELSE m.attn[r]]
           w == [m EXCEPT !["attn"] = f]
<1>0. "attn" \in RowBuffer /\ "q" \in RowBuffer /\ "k" \in RowBuffer /\ "v" \in RowBuffer
  BY DEF RowBuffer
<1>1. AttendRows(e, m) = w
  <2>1. "attn" \in DOMAIN m
    BY DEF Holds, IsBuffers, Buffer, RowBuffer
  <2>2. QED
    BY <2>1 DEF AttendRows, ForActive
<1>3. ASSUME NEW r \in A PROVE f[r] = Meant("attn", l, S[r])
  <2>1. r \in e.on /\ r \in 0 .. e.rows - 1 /\ e.pos[r] \in Nat /\ Len(S[r]) = e.pos[r] + 1
        /\ S[r] \in Seq(T) /\ S[r] # << >>
    BY DEF Setting
  <2>2. m["q"][r] = Meant("qr", l, S[r])
    BY <1>0 DEF Holds, RowsHold
  <2> DEFINE kv == [j \in 0 .. e.pos[r] |-> [k |-> m.k[j], v |-> m.v[j]]]
  <2>3. ASSUME NEW j \in 0 .. e.pos[r] PROVE kv[j] = Cached(l, Prefix(S[r], j + 1))
    <3>1. j \in A /\ S[j] = Prefix(S[r], j + 1)
      BY DEF Reads
    <3>2. m["k"][j] = Meant("kr", l, S[j]) /\ m["v"][j] = Meant("v", l, S[j])
      BY <1>0, <3>1 DEF Holds, RowsHold
    <3>3. [k |-> m["k"][j], v |-> m["v"][j]] = Cached(l, S[j])
      BY <3>2 DEF Meant, Cached
    <3>4. QED
      BY <3>1, <3>3
  <2>4. 0 .. Len(S[r]) - 1 = 0 .. e.pos[r]
    BY <2>1
  <2> HIDE DEF kv
  <2>5. Attend(Meant("qr", l, S[r]), kv, Len(S[r])) = Meant("attn", l, S[r])
    BY <2>1, <2>3, <2>4, AttendIs
  <2>6. f[r] = Attend(m.q[r], kv, e.pos[r] + 1)
    BY <2>1 DEF kv
  <2>7. QED
    BY <2>1, <2>2, <2>5, <2>6
<1>4. f = [r \in 0 .. e.rows - 1 |-> f[r]]
  OBVIOUS
<1> HIDE DEF f
<1>5. Holds(e, l, S, A, K, D, d, w)
  BY <1>0, <1>3, <1>4, RowChange
<1>6. QED
  BY <1>1, <1>5

\* What instruction i makes of a claim c.
Fits(kind, c, i, d) ==
    /\ "kv" \in DOMAIN d
    /\ \/ /\ i[1] = "head_norm" /\ i[2] \in Inner /\ i[3] \in RowBuffer /\ i[3] \in DOMAIN c
          /\ But(c, d, i[3]) /\ c[i[3]] = Kernel[i[2]][1] /\ d[i[3]] = Kernel[i[2]][2]
       \/ /\ i[1] = "rope" /\ i[2] \in RowBuffer /\ i[2] \in DOMAIN c
          /\ But(c, d, i[2])
          /\ \/ c[i[2]] = "qn" /\ d[i[2]] = "qr"
             \/ c[i[2]] = "kn" /\ d[i[2]] = "kr"
       \/ /\ i[1] = "store" /\ "k" \in DOMAIN c /\ "v" \in DOMAIN c
          /\ But(c, d, "kv") /\ c["k"] = "kr" /\ c["v"] = "v" /\ c["kv"] = "old" /\ d["kv"] = "new"
       \/ /\ i[1] = "attend" /\ kind = "step" /\ "q" \in DOMAIN c
          /\ But(c, d, "attn") /\ c["q"] = "qr" /\ c["kv"] = "new" /\ d["attn"] = "attn"
       \/ /\ i[1] = "attend_rows" /\ kind = "prefill"
          /\ "q" \in DOMAIN c /\ "k" \in DOMAIN c /\ "v" \in DOMAIN c
          /\ But(c, d, "attn") /\ c["q"] = "qr" /\ c["k"] = "kr" /\ c["v"] = "v" /\ d["attn"] = "attn"
       \/ /\ i[1] = "add" /\ i[2] \in RowBuffer /\ i[2] \in DOMAIN c /\ "x" \in DOMAIN c
          /\ But(c, d, "x")
          /\ \/ c["x"] = "x" /\ c[i[2]] = "o" /\ d["x"] = "y"
             \/ c["x"] = "y" /\ c[i[2]] = "ffn" /\ d["x"] = "next"
       \/ /\ i[1] = "fill_gate" /\ "xn" \in DOMAIN c
          /\ But(c, d, "gate") /\ c["xn"] = "yn" /\ d["gate"] = "gu"
       \/ /\ i[1] = "swiglu_rows" /\ "gate" \in DOMAIN c
          /\ But(c, d, "gate") /\ c["gate"] = "gu" /\ d["gate"] = "act"
       \/ /\ i[1] = "swiglu_compact" /\ "gate" \in DOMAIN c
          /\ But(c, d, "gate") /\ c["gate"] = "gu" /\ d["gate"] = "compact"
       \/ /\ i[1] = "down_rows" /\ i[2] \in RowBuffer /\ "gate" \in DOMAIN c
          /\ But(c, d, i[2]) /\ d[i[2]] = "ffn"
          /\ \/ c["gate"] = "act" /\ i[3] = 2
             \/ c["gate"] = "compact" /\ i[3] = 1
       \/ /\ i[1] = "next_norm" /\ "x" \in DOMAIN c
          /\ But(c, d, "xn") /\ c["x"] = "next" /\ d["xn"] = "nextnorm"
       \/ /\ i[1] \in Inner /\ i[2] \in RowBuffer /\ i[3] \in RowBuffer /\ i[2] \in DOMAIN c
          /\ But(c, d, i[3]) /\ c[i[2]] = Kernel[i[1]][1] /\ d[i[3]] = Kernel[i[1]][2]

\* Whatever the kernel, it leads from claim to claim if it fits between them.
LEMMA ExecStep ==
    ASSUME NEW e, NEW T, NEW l, NEW S, NEW A, NEW K, NEW D, Setting(e, T, l, S, A, D),
           NEW kind, Reads(kind, e, l, S, A, K, D),
           NEW c, NEW d, NEW m, Holds(e, l, S, A, K, D, c, m), NEW i, Fits(kind, c, i, d)
    PROVE  Holds(e, l, S, A, K, D, d, Exec(e, l, m, i))
<1> USE DEF Fits
<1>1. CASE i[1] = "head_norm"
  <2>1. Exec(e, l, m, i) = HeadNorm(e, l, m, i[2], i[3])
    BY <1>1 DEF Exec
  <2>2. QED
    BY <1>1, <2>1, HeadNormStep DEF Inner
<1>2. CASE i[1] = "rope"
  <2>1. Exec(e, l, m, i) = RopeRows(e, m, i[2])
    BY <1>2 DEF Exec
  <2>2. QED
    BY <1>2, <2>1, RopeStep DEF Inner
<1>3. CASE i[1] = "store"
  <2>1. Exec(e, l, m, i) = Store(e, l, m)
    BY <1>3 DEF Exec
  <2>2. QED
    BY <1>3, <2>1, StoreStep DEF Inner
<1>4. CASE i[1] = "attend"
  <2>1. Exec(e, l, m, i) = AttendCache(e, l, m)
    BY <1>4 DEF Exec
  <2>2. QED
    BY <1>4, <2>1, AttendStep DEF Inner
<1>5. CASE i[1] = "attend_rows"
  <2>1. Exec(e, l, m, i) = AttendRows(e, m)
    BY <1>5 DEF Exec
  <2>2. QED
    BY <1>5, <2>1, AttendRowsStep DEF Inner
<1>6. CASE i[1] = "add"
  <2>1. Exec(e, l, m, i) = AddTo(e, m, i[2])
    BY <1>6 DEF Exec
  <2>2. QED
    BY <1>6, <2>1, AddStep DEF Inner
<1>7. CASE i[1] = "fill_gate"
  <2>1. Exec(e, l, m, i) = GateUp(l, m)
    BY <1>7 DEF Exec
  <2>2. QED
    BY <1>7, <2>1, GateUpStep DEF Inner
<1>8. CASE i[1] = "swiglu_rows"
  <2>1. Exec(e, l, m, i) = Swiglu(e, l, m, 2)
    BY <1>8 DEF Exec
  <2>2. QED
    BY <1>8, <2>1, SwigluStep DEF Inner
<1>9. CASE i[1] = "swiglu_compact"
  <2>1. Exec(e, l, m, i) = Swiglu(e, l, m, 1)
    BY <1>9 DEF Exec
  <2>2. QED
    BY <1>9, <2>1, SwigluStep DEF Inner
<1>10. CASE i[1] = "down_rows"
  <2>1. Exec(e, l, m, i) = Down(l, m, i[2], i[3])
    BY <1>10 DEF Exec
  <2>2. QED
    BY <1>10, <2>1, DownStep DEF Inner
<1>11. CASE i[1] = "next_norm"
  <2>1. Exec(e, l, m, i) = NextNorm(e, l, m)
    BY <1>11 DEF Exec
  <2>2. QED
    BY <1>11, <2>1, NextNormStep DEF Inner
<1>12. CASE i[1] \in Inner
  <2>1. Exec(e, l, m, i) = Project(l, m, i[1], i[2], i[3])
    BY <1>12 DEF Exec, Inner
  <2>2. /\ i[2] \in RowBuffer /\ i[3] \in RowBuffer /\ i[2] \in DOMAIN c
        /\ But(c, d, i[3]) /\ c[i[2]] = Kernel[i[1]][1] /\ d[i[3]] = Kernel[i[1]][2]
    BY <1>12 DEF Inner
  <2>3. QED
    BY <1>12, <2>1, <2>2, ProjectStep
<1>13. QED
  BY <1>1, <1>2, <1>3, <1>4, <1>5, <1>6, <1>7, <1>8, <1>9, <1>10, <1>11, <1>12

\* A layer as a run over the program.
LayerRun(e, program, m, layer, n) ==
    LET run[i \in 0 .. n] ==
            IF i = 0 THEN m ELSE After(run[i - 1], LAMBDA v : Exec(e, layer, v, program[i]))
    IN run

IsLayerRun(f, e, program, m, layer, n) ==
    f = [i \in 0 .. n |-> IF i = 0 THEN m ELSE Exec(e, layer, f[i - 1], program[i])]

\* That recursion defines what it says.
LEMMA LayerRunExists ==
    ASSUME NEW e, NEW program, NEW m, NEW layer, NEW n \in Nat
    PROVE  IsLayerRun(LayerRun(e, program, m, layer, n), e, program, m, layer, n)
<1> DEFINE Is(f, k) == IsLayerRun(f, e, program, m, layer, k)
           G == {k \in Nat : \E f : Is(f, k)}
<1>1. 0 \in G
  <2> DEFINE f == [i \in 0 .. 0 |-> m]
  <2>1. Is(f, 0)
    BY DEF IsLayerRun
  <2>2. QED
    BY <2>1
<1>2. ASSUME NEW k \in Nat, k \in G PROVE k + 1 \in G
  <2>1. PICK f : Is(f, k)
    BY <1>2
  <2> DEFINE g == [i \in 0 .. k + 1 |-> IF i = k + 1 THEN Exec(e, layer, f[k], program[k + 1]) ELSE f[i]]
  <2>2. ASSUME NEW i \in 0 .. k + 1
        PROVE  g[i] = IF i = 0 THEN m ELSE Exec(e, layer, g[i - 1], program[i])
    <3>1. CASE i = k + 1
      BY <3>1, <1>2
    <3>2. CASE i # k + 1
      <4>1. i \in 0 .. k /\ (i # 0 => i - 1 \in 0 .. k /\ i - 1 \in 0 .. k + 1)
        BY <3>2, <1>2
      <4>2. g[i] = f[i] /\ (i # 0 => g[i - 1] = f[i - 1])
        BY <4>1, <1>2
      <4>3. f[i] = IF i = 0 THEN m ELSE Exec(e, layer, f[i - 1], program[i])
        BY <2>1, <4>1 DEF IsLayerRun
      <4>4. QED
        BY <4>2, <4>3
    <3>3. QED
      BY <3>1, <3>2
  <2>3. Is(g, k + 1)
    BY <2>2, Zenon DEF IsLayerRun
  <2> HIDE DEF g, Is
  <2>4. QED
    BY <2>3, <1>2
<1> HIDE DEF G
<1>3. \A k \in Nat : k \in G
  BY <1>1, <1>2, Counting
<1>4. \E f : Is(f, n)
  BY <1>3 DEF G
<1>5. \A i, v : (CHOOSE w \in {Exec(e, layer, u, program[i]) : u \in {v}} : w = w) = Exec(e, layer, v, program[i])
  OBVIOUS
<1> DEFINE One(i, v) == CHOOSE w \in {Exec(e, layer, u, program[i]) : u \in {v}} : w = w
           Raw(f) == [i \in 0 .. n |-> IF i = 0 THEN m ELSE One(i, f[i - 1])]
           Made(f) == [i \in 0 .. n |-> IF i = 0 THEN m ELSE Exec(e, layer, f[i - 1], program[i])]
<1>6. \A f : Raw(f) = Made(f)
  BY <1>5
<1>7. \E f : f = Raw(f)
  <2>1. PICK f : f = Made(f)
    BY <1>4 DEF IsLayerRun
  <2> HIDE DEF Raw, Made
  <2>2. QED
    BY <2>1, <1>6
<1>8. LayerRun(e, program, m, layer, n) = CHOOSE f : f = Raw(f)
  BY DEF LayerRun, After
<1> HIDE DEF Raw, Made
<1>9. (CHOOSE f : f = Raw(f)) = Raw(CHOOSE f : f = Raw(f))
  BY <1>7, Zenon
<1>10. LayerRun(e, program, m, layer, n) = Made(LayerRun(e, program, m, layer, n))
  BY <1>6, <1>8, <1>9
<1>11. QED
  BY <1>10 DEF IsLayerRun, Made

-----------------------------------------------------------------------------
(* Layers, and the outline of what their buffers hold                      *)

\* An outline of a program: the claims before and after each instruction.
Outlines(ann, kind, program) ==
    \A i \in 1 .. Len(program) : Fits(kind, ann[i], program[i], ann[i + 1])

\* A layer leads from the first claim of an outline to the last.
LEMMA LayerHolds ==
    ASSUME NEW e, NEW T, NEW l, NEW S, NEW A, NEW K, NEW D, Setting(e, T, l, S, A, D),
           NEW kind, Reads(kind, e, l, S, A, K, D),
           NEW program, Len(program) \in Nat, NEW ann, Outlines(ann, kind, program),
           NEW m, Holds(e, l, S, A, K, D, ann[1], m)
    PROVE  Holds(e, l, S, A, K, D, ann[Len(program) + 1], RunLayer(e, program, m, l))
<1> DEFINE n == Len(program)
           f == LayerRun(e, program, m, l, n)
           Good(i) == Holds(e, l, S, A, K, D, ann[i + 1], f[i])
           G == {i \in Nat : i <= n => Good(i)}
<1>1. f = [i \in 0 .. n |-> IF i = 0 THEN m ELSE Exec(e, l, f[i - 1], program[i])]
  <2>1. IsLayerRun(f, e, program, m, l, n)
    BY LayerRunExists
  <2>2. QED
    BY <2>1, Zenon DEF IsLayerRun
<1> HIDE DEF f
<1>2. 0 \in G
  <2>1. f[0] = m
    BY <1>1
  <2>2. QED
    BY <2>1
<1>3. ASSUME NEW i \in Nat, i \in G PROVE i + 1 \in G
  <2> SUFFICES ASSUME i + 1 <= n PROVE Good(i + 1)
    OBVIOUS
  <2>1. Good(i) /\ i + 1 \in 1 .. n /\ i + 1 \in 0 .. n /\ i + 1 # 0 /\ (i + 1) - 1 = i
    BY <1>3
  <2>2. f[i + 1] = Exec(e, l, f[i], program[i + 1])
    BY <1>1, <2>1
  <2>3. Fits(kind, ann[i + 1], program[i + 1], ann[(i + 1) + 1])
    BY <2>1 DEF Outlines
  <2>4. QED
    BY <2>1, <2>2, <2>3, ExecStep
<1> HIDE DEF G
<1>4. \A i \in Nat : i \in G
  BY <1>2, <1>3, Counting
<1>5. Good(n)
  BY <1>4 DEF G
<1>6. RunLayer(e, program, m, l) = f[n]
  BY Zenon DEF RunLayer, f, LayerRun
<1>7. QED
  BY <1>5, <1>6

\* Program p leads from claim c to claim d.
Path(p, kind, c, d) ==
    /\ Len(p) \in Nat
    /\ \E ann : ann[1] = c /\ ann[Len(p) + 1] = d /\ Outlines(ann, kind, p)

\* The input of a layer, and its norm; its output, and the norm of the next.
Input == [x |-> "x", kv |-> "old"]
Normed == [x |-> "x", xn |-> "xn", kv |-> "old"]
Output == [x |-> "next", kv |-> "new"]
NormedOutput == [x |-> "next", xn |-> "nextnorm", kv |-> "new"]

\* A layer's program that leads from its input to its output; on the host the
\* code predictor's layers find their input normed and leave it so.
Sound(program, kind, entry) ==
    \/ entry = "plain" /\ (Path(program, kind, Input, Output) \/ Path(program, kind, Input, NormedOutput))
    \/ entry = "normed" /\ Path(program, kind, Normed, NormedOutput)

\* All layers of a step: what is Setting for one.
Placed(e, T, S, A, D) ==
    /\ e.rows \in Nat /\ e.L \in Nat
    /\ e.on \subseteq 0 .. e.rows - 1 /\ A \subseteq e.on
    /\ \A r \in e.on : e.pos[r] \in Nat
    /\ \A r \in e.on, l \in 0 .. e.L - 1 : Address(e, r, l, e.pos[r]) \in D
    /\ \A r, t \in e.on, l, k \in 0 .. e.L - 1 :
          Address(e, r, l, e.pos[r]) = Address(e, t, k, e.pos[t]) => r = t /\ l = k
    /\ \A r \in A : S[r] \in Seq(T) /\ S[r] # << >> /\ Len(S[r]) = e.pos[r] + 1

\* ... and Reads, of the cache before the step.
Past(kind, e, S, A, K, D) ==
    \/ /\ kind = "step"
       /\ \A r \in A, l \in 0 .. e.L - 1 : \A p \in 0 .. e.pos[r] - 1 :
             /\ Address(e, r, l, p) \in D
             /\ K[Address(e, r, l, p)] = Cached(l, Prefix(S[r], p + 1))
             /\ \A t \in e.on, k \in 0 .. e.L - 1 : Address(e, r, l, p) # Address(e, t, k, e.pos[t])
    \/ /\ kind = "prefill"
       /\ \A r \in A : \A j \in 0 .. e.pos[r] :
             j \in A /\ S[j] = Prefix(S[r], j + 1)

\* Before layer l.
Before(e, S, A, K, D, entry, l, m) ==
    /\ IsBuffers(m, e.rows, D)
    /\ \A r \in A : m["x"][r] = Meant("x", l, S[r])
    /\ entry = "normed" /\ l < e.L => \A r \in A : m["xn"][r] = Meant("xn", l, S[r])
    /\ \A r \in A, j \in 0 .. l - 1 : m.kv[Address(e, r, j, e.pos[r])] = Cached(j, S[r])
    /\ \A a \in D : (\A r \in e.on, j \in 0 .. l - 1 : a # Address(e, r, j, e.pos[r]))
                    => m.kv[a] = K[a]

\* A sound layer leads from what is before a layer to what is before the next.
LEMMA LayerAdvances ==
    ASSUME NEW e, NEW T, NEW S, NEW A, NEW K, NEW D, Placed(e, T, S, A, D),
           NEW kind, Past(kind, e, S, A, K, D),
           NEW program, NEW entry, Sound(program, kind, entry),
           NEW l \in 0 .. e.L - 1, NEW m, Before(e, S, A, K, D, entry, l, m)
    PROVE  Before(e, S, A, K, D, entry, l + 1, RunLayer(e, program, m, l))
<1> DEFINE w == RunLayer(e, program, m, l)
<1>0. l \in Nat /\ l < e.L /\ e.L \in Nat /\ l + 1 # 0
  BY DEF Placed
<1>1. Setting(e, T, l, S, A, D)
  BY <1>0 DEF Placed, Setting
<1>2. Reads(kind, e, l, S, A, m.kv, D)
  <2>1. CASE kind = "step"
    <3> SUFFICES ASSUME NEW r \in A, NEW p \in 0 .. e.pos[r] - 1
                 PROVE  /\ Address(e, r, l, p) \in D
                        /\ m.kv[Address(e, r, l, p)] = Cached(l, Prefix(S[r], p + 1))
                        /\ \A t \in e.on : Address(e, r, l, p) # Address(e, t, l, e.pos[t])
      BY <2>1 DEF Reads
    <3>1. /\ Address(e, r, l, p) \in D
          /\ K[Address(e, r, l, p)] = Cached(l, Prefix(S[r], p + 1))
          /\ \A t \in e.on, k \in 0 .. e.L - 1 : Address(e, r, l, p) # Address(e, t, k, e.pos[t])
      BY <2>1 DEF Past
    <3>2. \A t \in e.on, j \in 0 .. l - 1 : Address(e, r, l, p) # Address(e, t, j, e.pos[t])
      BY <3>1, <1>0
    <3>3. m.kv[Address(e, r, l, p)] = K[Address(e, r, l, p)]
      BY <3>1, <3>2 DEF Before
    <3>4. QED
      BY <3>1, <3>3
  <2>2. CASE kind = "prefill"
    BY <2>2 DEF Past, Reads
  <2>3. QED
    BY <2>1, <2>2 DEF Past
<1>3. PICK ann : /\ Len(program) \in Nat /\ Outlines(ann, kind, program)
                 /\ \/ /\ entry = "plain" /\ ann[1] = Input
                       /\ ann[Len(program) + 1] \in {Output, NormedOutput}
                    \/ entry = "normed" /\ ann[1] = Normed /\ ann[Len(program) + 1] = NormedOutput
  BY DEF Sound, Path
<1>4. Holds(e, l, S, A, m.kv, D, ann[1], m)
  <2>1. RowsHold(e, l, S, A, ann[1], m)
    <3>1. CASE ann[1] = Input
      BY <3>1 DEF RowsHold, Before, RowBuffer, Input
    <3>2. CASE entry = "normed" /\ ann[1] = Normed
      BY <3>2, <1>0 DEF RowsHold, Before, RowBuffer, Normed
    <3>3. QED
      BY <1>3, <3>1, <3>2
  <2>2. GateHolds(l, S, A, ann[1], m.gate)
    BY <1>3 DEF GateHolds, Input, Normed
  <2>3. KvHolds(e, l, S, A, m.kv, D, ann[1], m.kv)
    BY <1>3 DEF KvHolds, Input, Normed
  <2>4. QED
    BY <2>1, <2>2, <2>3 DEF Holds, Before
<1> DEFINE c == ann[Len(program) + 1]
<1>5. Holds(e, l, S, A, m.kv, D, c, w)
  BY <1>1, <1>2, <1>3, <1>4, LayerHolds
<1> HIDE DEF w, c
<1>6. \A s : Meant("next", l, s) = Meant("x", l + 1, s) /\ Meant("nextnorm", l, s) = Meant("xn", l + 1, s)
  BY <1>0 DEF Meant, Own
<1>7. \A r \in A : w["x"][r] = Meant("x", l + 1, S[r])
  <2>1. "x" \in RowBuffer /\ "x" \in DOMAIN c /\ c["x"] = "next"
    BY <1>3 DEF RowBuffer, c, Output, NormedOutput
  <2>2. QED
    BY <1>5, <1>6, <2>1 DEF Holds, RowsHold
<1>8. ASSUME entry = "normed", l + 1 < e.L PROVE \A r \in A : w["xn"][r] = Meant("xn", l + 1, S[r])
  <2>1. "xn" \in RowBuffer /\ "xn" \in DOMAIN c /\ c["xn"] = "nextnorm"
    BY <1>3, <1>8 DEF RowBuffer, c, NormedOutput
  <2>2. QED
    BY <1>5, <1>6, <1>8, <2>1 DEF Holds, RowsHold
<1>9. Stored(e, l, S, A, m.kv, D, w.kv)
  BY <1>3, <1>5 DEF Holds, KvHolds, c, Output, NormedOutput
<1>10. ASSUME NEW r \in A, NEW j \in 0 .. (l + 1) - 1
       PROVE  w.kv[Address(e, r, j, e.pos[r])] = Cached(j, S[r])
  <2>1. CASE j = l
    BY <2>1, <1>9 DEF Stored
  <2>2. CASE j # l
    <3>1. j \in 0 .. l - 1 /\ j \in 0 .. e.L - 1 /\ r \in e.on
      BY <2>2, <1>0 DEF Placed
    <3>2. Address(e, r, j, e.pos[r]) \in D
          /\ \A t \in e.on : Address(e, r, j, e.pos[r]) # Address(e, t, l, e.pos[t])
      BY <2>2, <3>1 DEF Placed
    <3>3. w.kv[Address(e, r, j, e.pos[r])] = m.kv[Address(e, r, j, e.pos[r])]
      BY <1>9, <3>2 DEF Stored
    <3>4. QED
      BY <3>1, <3>3 DEF Before
  <2>3. QED
    BY <2>1, <2>2
<1>11. ASSUME NEW a \in D, \A r \in e.on, j \in 0 .. (l + 1) - 1 : a # Address(e, r, j, e.pos[r])
       PROVE  w.kv[a] = K[a]
  <2>1. l \in 0 .. (l + 1) - 1 /\ \A j \in 0 .. l - 1 : j \in 0 .. (l + 1) - 1
    BY <1>0
  <2>2. w.kv[a] = m.kv[a]
    BY <1>9, <1>11, <2>1 DEF Stored
  <2>3. m.kv[a] = K[a]
    BY <1>11, <2>1 DEF Before
  <2>4. QED
    BY <2>2, <2>3
<1>12. IsBuffers(w, e.rows, D)
  BY <1>5 DEF Holds
<1>13. Before(e, S, A, K, D, entry, l + 1, w)
  BY <1>7, <1>8, <1>10, <1>11, <1>12 DEF Before
<1>14. QED
  BY <1>13 DEF w

\* The layers of a step, one after the other.
StepRun(e, program, m, n) ==
    LET run[l \in 0 .. n] ==
            IF l = 0 THEN m ELSE After(run[l - 1], LAMBDA v : RunLayer(e, program, v, l - 1))
    IN run

IsStepRun(f, e, program, m, n) ==
    f = [l \in 0 .. n |-> IF l = 0 THEN m ELSE RunLayer(e, program, f[l - 1], l - 1)]

\* That recursion defines what it says.
LEMMA StepRunExists ==
    ASSUME NEW e, NEW program, NEW m, NEW n \in Nat
    PROVE  IsStepRun(StepRun(e, program, m, n), e, program, m, n)
<1> DEFINE Is(f, k) == IsStepRun(f, e, program, m, k)
           G == {k \in Nat : \E f : Is(f, k)}
<1>1. 0 \in G
  <2> DEFINE f == [i \in 0 .. 0 |-> m]
  <2>1. Is(f, 0)
    BY DEF IsStepRun
  <2>2. QED
    BY <2>1
<1>2. ASSUME NEW k \in Nat, k \in G PROVE k + 1 \in G
  <2>1. PICK f : Is(f, k)
    BY <1>2
  <2> DEFINE g == [i \in 0 .. k + 1 |-> IF i = k + 1 THEN RunLayer(e, program, f[k], k) ELSE f[i]]
  <2>2. ASSUME NEW i \in 0 .. k + 1
        PROVE  g[i] = IF i = 0 THEN m ELSE RunLayer(e, program, g[i - 1], i - 1)
    <3>1. CASE i = k + 1
      BY <3>1, <1>2
    <3>2. CASE i # k + 1
      <4>1. i \in 0 .. k /\ (i # 0 => i - 1 \in 0 .. k /\ i - 1 \in 0 .. k + 1)
        BY <3>2, <1>2
      <4>2. g[i] = f[i] /\ (i # 0 => g[i - 1] = f[i - 1])
        BY <4>1, <1>2
      <4>3. f[i] = IF i = 0 THEN m ELSE RunLayer(e, program, f[i - 1], i - 1)
        BY <2>1, <4>1 DEF IsStepRun
      <4>4. QED
        BY <4>2, <4>3
    <3>3. QED
      BY <3>1, <3>2
  <2>3. Is(g, k + 1)
    BY <2>2, Zenon DEF IsStepRun
  <2> HIDE DEF g, Is
  <2>4. QED
    BY <2>3, <1>2
<1> HIDE DEF G
<1>3. \A k \in Nat : k \in G
  BY <1>1, <1>2, Counting
<1>4. \E f : Is(f, n)
  BY <1>3 DEF G
<1>5. \A i, v : (CHOOSE w \in {RunLayer(e, program, u, i) : u \in {v}} : w = w) = RunLayer(e, program, v, i)
  OBVIOUS
<1> DEFINE One(i, v) == CHOOSE w \in {RunLayer(e, program, u, i) : u \in {v}} : w = w
           Raw(f) == [i \in 0 .. n |-> IF i = 0 THEN m ELSE One(i - 1, f[i - 1])]
           Made(f) == [i \in 0 .. n |-> IF i = 0 THEN m ELSE RunLayer(e, program, f[i - 1], i - 1)]
<1>6. \A f : Raw(f) = Made(f)
  BY <1>5
<1>7. \E f : f = Raw(f)
  <2>1. PICK f : f = Made(f)
    BY <1>4 DEF IsStepRun
  <2> HIDE DEF Raw, Made
  <2>2. QED
    BY <2>1, <1>6
<1>8. StepRun(e, program, m, n) = CHOOSE f : f = Raw(f)
  BY DEF StepRun, After
<1> HIDE DEF Raw, Made
<1>9. (CHOOSE f : f = Raw(f)) = Raw(CHOOSE f : f = Raw(f))
  BY <1>7, Zenon
<1>10. StepRun(e, program, m, n) = Made(StepRun(e, program, m, n))
  BY <1>6, <1>8, <1>9
<1>11. QED
  BY <1>10 DEF IsStepRun, Made

\* All layers lead from what is before the first to what is after the last.
LEMMA RunAdvances ==
    ASSUME NEW e, NEW T, NEW S, NEW A, NEW K, NEW D, Placed(e, T, S, A, D),
           NEW kind, Past(kind, e, S, A, K, D),
           NEW program, NEW entry, Sound(program, kind, entry),
           NEW m, Before(e, S, A, K, D, entry, 0, m)
    PROVE  Before(e, S, A, K, D, entry, e.L, Run(e, program, m))
<1> DEFINE f == StepRun(e, program, m, e.L)
           Good(i) == Before(e, S, A, K, D, entry, i, f[i])
           G == {i \in Nat : i <= e.L => Good(i)}
<1>0. e.L \in Nat
  BY DEF Placed
<1>1. f = [l \in 0 .. e.L |-> IF l = 0 THEN m ELSE RunLayer(e, program, f[l - 1], l - 1)]
  <2>1. IsStepRun(f, e, program, m, e.L)
    BY <1>0, StepRunExists
  <2>2. QED
    BY <2>1, Zenon DEF IsStepRun
<1> HIDE DEF f
<1>2. 0 \in G
  <2>1. f[0] = m
    BY <1>0, <1>1
  <2>2. QED
    BY <2>1
<1>3. ASSUME NEW i \in Nat, i \in G PROVE i + 1 \in G
  <2> SUFFICES ASSUME i + 1 <= e.L PROVE Good(i + 1)
    OBVIOUS
  <2>1. Good(i) /\ i \in 0 .. e.L - 1 /\ i + 1 \in 0 .. e.L /\ i + 1 # 0 /\ (i + 1) - 1 = i
    BY <1>0, <1>3
  <2>2. f[i + 1] = RunLayer(e, program, f[i], i)
    BY <1>1, <2>1
  <2>3. QED
    BY <2>1, <2>2, LayerAdvances
<1> HIDE DEF G
<1>4. \A i \in Nat : i \in G
  BY <1>2, <1>3, Counting
<1>5. Good(e.L)
  BY <1>0, <1>4 DEF G
<1>6. Run(e, program, m) = f[e.L]
  BY Zenon DEF Run, f, StepRun
<1>7. QED
  BY <1>5, <1>6

-----------------------------------------------------------------------------
(* The programs of the layers are sound                                    *)

\* Paths are joined where one ends and the other begins.
LEMMA PathJoins ==
    ASSUME NEW U, NEW p \in Seq(U), NEW V, NEW q \in Seq(V), NEW kind, NEW c, NEW d, NEW f,
           Path(p, kind, c, d), Path(q, kind, d, f)
    PROVE  Path(p \o q, kind, c, f) /\ p \o q \in Seq(U \cup V)
<1> DEFINE m == Len(p)
           n == Len(q)
<1>1. p \in Seq(U \cup V) /\ q \in Seq(U \cup V) /\ m \in Nat /\ n \in Nat
  BY LenProperties
<1>2. /\ p \o q \in Seq(U \cup V) /\ Len(p \o q) = m + n
      /\ \A i \in 1 .. m + n : (p \o q)[i] = IF i <= m THEN p[i] ELSE q[i - m]
  BY <1>1, ConcatProperties
<1>3. PICK a : a[1] = c /\ a[m + 1] = d /\ Outlines(a, kind, p)
  BY DEF Path
<1>4. PICK b : b[1] = d /\ b[n + 1] = f /\ Outlines(b, kind, q)
  BY DEF Path
<1> DEFINE ann == [i \in 1 .. m + n + 1 |-> IF i <= m THEN a[i] ELSE b[i - m]]
           r == p \o q
<1>5. ann[1] = c /\ ann[m + n + 1] = f
  BY <1>1, <1>3, <1>4
<1>6. ASSUME NEW i \in 1 .. m + n PROVE Fits(kind, ann[i], r[i], ann[i + 1])
  <2>1. CASE i <= m
    <3>1. i \in 1 .. m /\ r[i] = p[i] /\ ann[i] = a[i]
      BY <1>1, <1>2, <2>1
    <3>2. ann[i + 1] = a[i + 1]
      BY <1>1, <1>3, <1>4, <2>1
    <3>3. QED
      BY <1>3, <3>1, <3>2 DEF Outlines
  <2>2. CASE ~(i <= m)
    <3>1. i - m \in 1 .. n /\ r[i] = q[i - m] /\ ann[i] = b[i - m] /\ ann[i + 1] = b[(i - m) + 1]
      BY <1>1, <1>2, <2>2
    <3>2. QED
      BY <1>4, <3>1 DEF Outlines
  <2>3. QED
    BY <2>1, <2>2
<1> HIDE DEF ann, r
<1>7. Outlines(ann, kind, r)
  BY <1>2, <1>6 DEF Outlines, r
<1>8. QED
  BY <1>1, <1>2, <1>5, <1>7 DEF Path, r

\* A path of one kernel,
LEMMA Path1 ==
    ASSUME NEW kind, NEW i1,
           NEW c0, NEW c1,
           Fits(kind, c0, i1, c1)
    PROVE  /\ Path(<< i1 >>, kind, c0, c1)
           /\ << i1 >> \in Seq({i1})
<1> DEFINE p == << i1 >>
           ann == << c0, c1 >>
<1>1. Len(p) = 1 /\ p \in Seq({i1})
  OBVIOUS
<1>2. ann[1] = c0 /\ ann[2] = c1
  OBVIOUS
<1>3. \A j \in 1 .. 1 : Fits(kind, ann[j], p[j], ann[j + 1])
  OBVIOUS
<1> HIDE DEF p, ann
<1>4. Path(p, kind, c0, c1)
  BY <1>1, <1>2, <1>3 DEF Path, Outlines
<1>5. QED
  BY <1>1, <1>4 DEF p

\* ... of three,
LEMMA Path3 ==
    ASSUME NEW kind, NEW i1, NEW i2, NEW i3,
           NEW c0, NEW c1, NEW c2, NEW c3,
           Fits(kind, c0, i1, c1), Fits(kind, c1, i2, c2),
           Fits(kind, c2, i3, c3)
    PROVE  /\ Path(<< i1, i2, i3 >>, kind, c0, c3)
           /\ << i1, i2, i3 >> \in Seq({i1, i2, i3})
<1> DEFINE p == << i1, i2, i3 >>
           ann == << c0, c1, c2, c3 >>
<1>1. Len(p) = 3 /\ p \in Seq({i1, i2, i3})
  OBVIOUS
<1>2. ann[1] = c0 /\ ann[4] = c3
  OBVIOUS
<1>3. \A j \in 1 .. 3 : Fits(kind, ann[j], p[j], ann[j + 1])
  OBVIOUS
<1> HIDE DEF p, ann
<1>4. Path(p, kind, c0, c3)
  BY <1>1, <1>2, <1>3 DEF Path, Outlines
<1>5. QED
  BY <1>1, <1>4 DEF p

\* ... of four,
LEMMA Path4 ==
    ASSUME NEW kind, NEW i1, NEW i2, NEW i3, NEW i4,
           NEW c0, NEW c1, NEW c2, NEW c3, NEW c4,
           Fits(kind, c0, i1, c1), Fits(kind, c1, i2, c2),
           Fits(kind, c2, i3, c3), Fits(kind, c3, i4, c4)
    PROVE  /\ Path(<< i1, i2, i3, i4 >>, kind, c0, c4)
           /\ << i1, i2, i3, i4 >> \in Seq({i1, i2, i3, i4})
<1> DEFINE p == << i1, i2, i3, i4 >>
           ann == << c0, c1, c2, c3, c4 >>
<1>1. Len(p) = 4 /\ p \in Seq({i1, i2, i3, i4})
  OBVIOUS
<1>2. ann[1] = c0 /\ ann[5] = c4
  OBVIOUS
<1>3. \A j \in 1 .. 4 : Fits(kind, ann[j], p[j], ann[j + 1])
  OBVIOUS
<1> HIDE DEF p, ann
<1>4. Path(p, kind, c0, c4)
  BY <1>1, <1>2, <1>3 DEF Path, Outlines
<1>5. QED
  BY <1>1, <1>4 DEF p

\* ... of nine,
LEMMA Path9 ==
    ASSUME NEW kind, NEW i1, NEW i2, NEW i3, NEW i4, NEW i5, NEW i6, NEW i7, NEW i8,
           NEW i9,
           NEW c0, NEW c1, NEW c2, NEW c3, NEW c4, NEW c5, NEW c6, NEW c7,
           NEW c8, NEW c9,
           Fits(kind, c0, i1, c1), Fits(kind, c1, i2, c2),
           Fits(kind, c2, i3, c3), Fits(kind, c3, i4, c4),
           Fits(kind, c4, i5, c5), Fits(kind, c5, i6, c6),
           Fits(kind, c6, i7, c7), Fits(kind, c7, i8, c8),
           Fits(kind, c8, i9, c9)
    PROVE  /\ Path(<< i1, i2, i3, i4, i5, i6, i7, i8, i9 >>, kind, c0, c9)
           /\ << i1, i2, i3, i4, i5, i6, i7, i8, i9 >> \in Seq({i1, i2, i3, i4, i5, i6, i7, i8, i9})
<1> DEFINE p == << i1, i2, i3, i4, i5, i6, i7, i8, i9 >>
           ann == << c0, c1, c2, c3, c4, c5, c6, c7, c8, c9 >>
<1>1. Len(p) = 9 /\ p \in Seq({i1, i2, i3, i4, i5, i6, i7, i8, i9})
  OBVIOUS
<1>2. ann[1] = c0 /\ ann[10] = c9
  OBVIOUS
<1>3. \A j \in 1 .. 9 : Fits(kind, ann[j], p[j], ann[j + 1])
  OBVIOUS
<1> HIDE DEF p, ann
<1>4. Path(p, kind, c0, c9)
  BY <1>1, <1>2, <1>3 DEF Path, Outlines
<1>5. QED
  BY <1>1, <1>4 DEF p

\* ... of ten.
LEMMA Path10 ==
    ASSUME NEW kind, NEW i1, NEW i2, NEW i3, NEW i4, NEW i5, NEW i6, NEW i7, NEW i8,
           NEW i9, NEW i10,
           NEW c0, NEW c1, NEW c2, NEW c3, NEW c4, NEW c5, NEW c6, NEW c7,
           NEW c8, NEW c9, NEW c10,
           Fits(kind, c0, i1, c1), Fits(kind, c1, i2, c2),
           Fits(kind, c2, i3, c3), Fits(kind, c3, i4, c4),
           Fits(kind, c4, i5, c5), Fits(kind, c5, i6, c6),
           Fits(kind, c6, i7, c7), Fits(kind, c7, i8, c8),
           Fits(kind, c8, i9, c9), Fits(kind, c9, i10, c10)
    PROVE  /\ Path(<< i1, i2, i3, i4, i5, i6, i7, i8, i9, i10 >>, kind, c0, c10)
           /\ << i1, i2, i3, i4, i5, i6, i7, i8, i9, i10 >> \in Seq({i1, i2, i3, i4, i5, i6, i7, i8, i9, i10})
<1> DEFINE p == << i1, i2, i3, i4, i5, i6, i7, i8, i9, i10 >>
           ann == << c0, c1, c2, c3, c4, c5, c6, c7, c8, c9, c10 >>
<1>1. Len(p) = 10 /\ p \in Seq({i1, i2, i3, i4, i5, i6, i7, i8, i9, i10})
  OBVIOUS
<1>2. ann[1] = c0 /\ ann[11] = c10
  OBVIOUS
<1>3. \A j \in 1 .. 10 : Fits(kind, ann[j], p[j], ann[j + 1])
  OBVIOUS
<1> HIDE DEF p, ann
<1>4. Path(p, kind, c0, c10)
  BY <1>1, <1>2, <1>3 DEF Path, Outlines
<1>5. QED
  BY <1>1, <1>4 DEF p

\* Between the parts of a layer.
Projected == [x |-> "x", q |-> "q", k |-> "k", v |-> "v", kv |-> "old"]
Rotated == [x |-> "x", q |-> "qr", k |-> "kr", v |-> "v", kv |-> "old"]

\* The parts of the layers, and the paths they are.
InputNorm ==
   << <<"input_norm", "x", "xn">> >>

LEMMA InputNormPath ==
    ASSUME NEW kind
    PROVE  Path(InputNorm, kind, Input, Normed) /\ \E U : InputNorm \in Seq(U)
<1> DEFINE i1 == <<"input_norm", "x", "xn">>
           c0 == Input
           c1 == Normed
<1>1. Fits(kind, c0, i1, c1)
  BY DEF Fits, But, Inner, Kernel, RowBuffer, Input, Normed
<1>2. InputNorm = << i1 >>
  BY Zenon DEF InputNorm
<1> HIDE DEF i1, c0, c1
<1>3. Path(<< i1 >>, kind, c0, c1) /\ << i1 >> \in Seq({i1})
  BY <1>1, Path1
<1>4. QED
  BY <1>2, <1>3, Zenon DEF c0, c1

\* The projections.
LEMMA QkvPath ==
    ASSUME NEW kind
    PROVE  Path(Qkv, kind, Normed, Projected) /\ \E U : Qkv \in Seq(U)
<1> DEFINE i1 == <<"wq", "xn", "q">>
           i2 == <<"wk", "xn", "k">>
           i3 == <<"wv", "xn", "v">>
           c0 == Normed
           c1 == [x |-> "x", xn |-> "xn", q |-> "q", kv |-> "old"]
           c2 == [x |-> "x", xn |-> "xn", q |-> "q", k |-> "k", kv |-> "old"]
           c3 == Projected
<1>1. Fits(kind, c0, i1, c1)
  BY DEF Fits, But, Inner, Kernel, RowBuffer, Normed
<1>2. Fits(kind, c1, i2, c2)
  BY DEF Fits, But, Inner, Kernel, RowBuffer
<1>3. Fits(kind, c2, i3, c3)
  BY DEF Fits, But, Inner, Kernel, RowBuffer, Projected
<1>4. Qkv = << i1, i2, i3 >>
  BY Zenon DEF Qkv
<1> HIDE DEF i1, i2, i3, c0, c1, c2, c3
<1>5. Path(<< i1, i2, i3 >>, kind, c0, c3) /\ << i1, i2, i3 >> \in Seq({i1, i2, i3})
  BY <1>1, <1>2, <1>3, Path3
<1>6. QED
  BY <1>4, <1>5, Zenon DEF c0, c3

\* The norms of the heads, then the rotations,
LEMMA NormRopePath ==
    ASSUME NEW kind
    PROVE  Path(NormRope, kind, Projected, Rotated) /\ \E U : NormRope \in Seq(U)
<1> DEFINE i1 == <<"head_norm", "q_norm", "q">>
           i2 == <<"head_norm", "k_norm", "k">>
           i3 == <<"rope", "q">>
           i4 == <<"rope", "k">>
           c0 == Projected
           c1 == [x |-> "x", q |-> "qn", k |-> "k", v |-> "v", kv |-> "old"]
           c2 == [x |-> "x", q |-> "qn", k |-> "kn", v |-> "v", kv |-> "old"]
           c3 == [x |-> "x", q |-> "qr", k |-> "kn", v |-> "v", kv |-> "old"]
           c4 == Rotated
<1>1. Fits(kind, c0, i1, c1)
  BY DEF Fits, But, Inner, Kernel, RowBuffer, Projected
<1>2. Fits(kind, c1, i2, c2)
  BY DEF Fits, But, Inner, Kernel, RowBuffer
<1>3. Fits(kind, c2, i3, c3)
  BY DEF Fits, But, Inner, Kernel, RowBuffer
<1>4. Fits(kind, c3, i4, c4)
  BY DEF Fits, But, Inner, Kernel, RowBuffer, Rotated
<1>5. NormRope = << i1, i2, i3, i4 >>
  BY Zenon DEF NormRope
<1> HIDE DEF i1, i2, i3, i4, c0, c1, c2, c3, c4
<1>6. Path(<< i1, i2, i3, i4 >>, kind, c0, c4) /\ << i1, i2, i3, i4 >> \in Seq({i1, i2, i3, i4})
  BY <1>1, <1>2, <1>3, <1>4, Path4
<1>7. QED
  BY <1>5, <1>6, Zenon DEF c0, c4

\* ... or one head after the other.
RopeEach ==
   << <<"head_norm", "q_norm", "q">>, <<"rope", "q">>,
      <<"head_norm", "k_norm", "k">>, <<"rope", "k">> >>

LEMMA RopeEachPath ==
    ASSUME NEW kind
    PROVE  Path(RopeEach, kind, Projected, Rotated) /\ \E U : RopeEach \in Seq(U)
<1> DEFINE i1 == <<"head_norm", "q_norm", "q">>
           i2 == <<"rope", "q">>
           i3 == <<"head_norm", "k_norm", "k">>
           i4 == <<"rope", "k">>
           c0 == Projected
           c1 == [x |-> "x", q |-> "qn", k |-> "k", v |-> "v", kv |-> "old"]
           c2 == [x |-> "x", q |-> "qr", k |-> "k", v |-> "v", kv |-> "old"]
           c3 == [x |-> "x", q |-> "qr", k |-> "kn", v |-> "v", kv |-> "old"]
           c4 == Rotated
<1>1. Fits(kind, c0, i1, c1)
  BY DEF Fits, But, Inner, Kernel, RowBuffer, Projected
<1>2. Fits(kind, c1, i2, c2)
  BY DEF Fits, But, Inner, Kernel, RowBuffer
<1>3. Fits(kind, c2, i3, c3)
  BY DEF Fits, But, Inner, Kernel, RowBuffer
<1>4. Fits(kind, c3, i4, c4)
  BY DEF Fits, But, Inner, Kernel, RowBuffer, Rotated
<1>5. RopeEach = << i1, i2, i3, i4 >>
  BY Zenon DEF RopeEach
<1> HIDE DEF i1, i2, i3, i4, c0, c1, c2, c3, c4
<1>6. Path(<< i1, i2, i3, i4 >>, kind, c0, c4) /\ << i1, i2, i3, i4 >> \in Seq({i1, i2, i3, i4})
  BY <1>1, <1>2, <1>3, <1>4, Path4
<1>7. QED
  BY <1>5, <1>6, Zenon DEF c0, c4

\* The end of a layer of qwen_talker_step,
HostTail ==
   << <<"store">>, <<"attend">>, <<"wo", "attn", "proj">>,
      <<"add", "proj">>, <<"post_norm", "x", "xn">>, <<"fill_gate">>,
      <<"swiglu_rows">>, <<"down_rows", "proj", 2>>, <<"add", "proj">>,
      <<"next_norm">> >>

LEMMA HostTailPath ==
    Path(HostTail, "step", Rotated, NormedOutput) /\ \E U : HostTail \in Seq(U)
<1> DEFINE i1 == <<"store">>
           i2 == <<"attend">>
           i3 == <<"wo", "attn", "proj">>
           i4 == <<"add", "proj">>
           i5 == <<"post_norm", "x", "xn">>
           i6 == <<"fill_gate">>
           i7 == <<"swiglu_rows">>
           i8 == <<"down_rows", "proj", 2>>
           i9 == <<"add", "proj">>
           i10 == <<"next_norm">>
           c0 == Rotated
           c1 == [x |-> "x", q |-> "qr", kv |-> "new"]
           c2 == [x |-> "x", attn |-> "attn", kv |-> "new"]
           c3 == [x |-> "x", proj |-> "o", kv |-> "new"]
           c4 == [x |-> "y", kv |-> "new"]
           c5 == [x |-> "y", xn |-> "yn", kv |-> "new"]
           c6 == [x |-> "y", gate |-> "gu", kv |-> "new"]
           c7 == [x |-> "y", gate |-> "act", kv |-> "new"]
           c8 == [x |-> "y", proj |-> "ffn", kv |-> "new"]
           c9 == [x |-> "next", kv |-> "new"]
           c10 == NormedOutput
<1>1. Fits("step", c0, i1, c1)
  BY DEF Fits, But, Inner, Kernel, RowBuffer, Rotated
<1>2. Fits("step", c1, i2, c2)
  BY DEF Fits, But, Inner, Kernel, RowBuffer
<1>3. Fits("step", c2, i3, c3)
  BY DEF Fits, But, Inner, Kernel, RowBuffer
<1>4. Fits("step", c3, i4, c4)
  BY DEF Fits, But, Inner, Kernel, RowBuffer
<1>5. Fits("step", c4, i5, c5)
  BY DEF Fits, But, Inner, Kernel, RowBuffer
<1>6. Fits("step", c5, i6, c6)
  BY DEF Fits, But, Inner, Kernel, RowBuffer
<1>7. Fits("step", c6, i7, c7)
  BY DEF Fits, But, Inner, Kernel, RowBuffer
<1>8. Fits("step", c7, i8, c8)
  BY DEF Fits, But, Inner, Kernel, RowBuffer
<1>9. Fits("step", c8, i9, c9)
  BY DEF Fits, But, Inner, Kernel, RowBuffer
<1>10. Fits("step", c9, i10, c10)
  BY DEF Fits, But, Inner, Kernel, RowBuffer, NormedOutput
<1>11. HostTail = << i1, i2, i3, i4, i5, i6, i7, i8, i9, i10 >>
  BY Zenon DEF HostTail
<1> HIDE DEF i1, i2, i3, i4, i5, i6, i7, i8, i9, i10, c0, c1, c2, c3, c4, c5,
             c6, c7, c8, c9, c10
<1>12. /\ Path(<< i1, i2, i3, i4, i5, i6, i7, i8, i9, i10 >>, "step", c0, c10)
       /\ << i1, i2, i3, i4, i5, i6, i7, i8, i9, i10 >> \in Seq({i1, i2, i3, i4, i5, i6, i7, i8, i9, i10})
  BY <1>1, <1>2, <1>3, <1>4, <1>5, <1>6, <1>7, <1>8, <1>9, <1>10, Path10
<1>13. QED
  BY <1>11, <1>12, Zenon DEF c0, c10

\* ... of qwen_talker_prefill,
PrefillTail ==
   << <<"store">>, <<"attend_rows">>, <<"wo", "attn", "proj">>,
      <<"add", "proj">>, <<"post_norm", "x", "xn">>, <<"fill_gate">>,
      <<"swiglu_compact">>, <<"down_rows", "proj", 1>>, <<"add", "proj">> >>

LEMMA PrefillTailPath ==
    Path(PrefillTail, "prefill", Rotated, Output) /\ \E U : PrefillTail \in Seq(U)
<1> DEFINE i1 == <<"store">>
           i2 == <<"attend_rows">>
           i3 == <<"wo", "attn", "proj">>
           i4 == <<"add", "proj">>
           i5 == <<"post_norm", "x", "xn">>
           i6 == <<"fill_gate">>
           i7 == <<"swiglu_compact">>
           i8 == <<"down_rows", "proj", 1>>
           i9 == <<"add", "proj">>
           c0 == Rotated
           c1 == [x |-> "x", q |-> "qr", k |-> "kr", v |-> "v", kv |-> "new"]
           c2 == [x |-> "x", attn |-> "attn", kv |-> "new"]
           c3 == [x |-> "x", proj |-> "o", kv |-> "new"]
           c4 == [x |-> "y", kv |-> "new"]
           c5 == [x |-> "y", xn |-> "yn", kv |-> "new"]
           c6 == [x |-> "y", gate |-> "gu", kv |-> "new"]
           c7 == [x |-> "y", gate |-> "compact", kv |-> "new"]
           c8 == [x |-> "y", proj |-> "ffn", kv |-> "new"]
           c9 == Output
<1>1. Fits("prefill", c0, i1, c1)
  BY DEF Fits, But, Inner, Kernel, RowBuffer, Rotated
<1>2. Fits("prefill", c1, i2, c2)
  BY DEF Fits, But, Inner, Kernel, RowBuffer
<1>3. Fits("prefill", c2, i3, c3)
  BY DEF Fits, But, Inner, Kernel, RowBuffer
<1>4. Fits("prefill", c3, i4, c4)
  BY DEF Fits, But, Inner, Kernel, RowBuffer
<1>5. Fits("prefill", c4, i5, c5)
  BY DEF Fits, But, Inner, Kernel, RowBuffer
<1>6. Fits("prefill", c5, i6, c6)
  BY DEF Fits, But, Inner, Kernel, RowBuffer
<1>7. Fits("prefill", c6, i7, c7)
  BY DEF Fits, But, Inner, Kernel, RowBuffer
<1>8. Fits("prefill", c7, i8, c8)
  BY DEF Fits, But, Inner, Kernel, RowBuffer
<1>9. Fits("prefill", c8, i9, c9)
  BY DEF Fits, But, Inner, Kernel, RowBuffer, Output
<1>10. PrefillTail = << i1, i2, i3, i4, i5, i6, i7, i8, i9 >>
  BY Zenon DEF PrefillTail
<1> HIDE DEF i1, i2, i3, i4, i5, i6, i7, i8, i9, c0, c1, c2, c3, c4, c5, c6,
             c7, c8, c9
<1>11. /\ Path(<< i1, i2, i3, i4, i5, i6, i7, i8, i9 >>, "prefill", c0, c9)
       /\ << i1, i2, i3, i4, i5, i6, i7, i8, i9 >> \in Seq({i1, i2, i3, i4, i5, i6, i7, i8, i9})
  BY <1>1, <1>2, <1>3, <1>4, <1>5, <1>6, <1>7, <1>8, <1>9, Path9
<1>12. QED
  BY <1>10, <1>11, Zenon DEF c0, c9

\* ... of cp_layer_body, whose norm and projection share a buffer,
CpTail ==
   << <<"store">>, <<"attend">>, <<"wo", "attn", "xn">>, <<"add", "xn">>,
      <<"post_norm", "x", "xn">>, <<"fill_gate">>, <<"swiglu_rows">>,
      <<"down_rows", "xn", 2>>, <<"add", "xn">>, <<"next_norm">> >>

LEMMA CpTailPath ==
    Path(CpTail, "step", Rotated, NormedOutput) /\ \E U : CpTail \in Seq(U)
<1> DEFINE i1 == <<"store">>
           i2 == <<"attend">>
           i3 == <<"wo", "attn", "xn">>
           i4 == <<"add", "xn">>
           i5 == <<"post_norm", "x", "xn">>
           i6 == <<"fill_gate">>
           i7 == <<"swiglu_rows">>
           i8 == <<"down_rows", "xn", 2>>
           i9 == <<"add", "xn">>
           i10 == <<"next_norm">>
           c0 == Rotated
           c1 == [x |-> "x", q |-> "qr", kv |-> "new"]
           c2 == [x |-> "x", attn |-> "attn", kv |-> "new"]
           c3 == [x |-> "x", xn |-> "o", kv |-> "new"]
           c4 == [x |-> "y", kv |-> "new"]
           c5 == [x |-> "y", xn |-> "yn", kv |-> "new"]
           c6 == [x |-> "y", gate |-> "gu", kv |-> "new"]
           c7 == [x |-> "y", gate |-> "act", kv |-> "new"]
           c8 == [x |-> "y", xn |-> "ffn", kv |-> "new"]
           c9 == [x |-> "next", kv |-> "new"]
           c10 == NormedOutput
<1>1. Fits("step", c0, i1, c1)
  BY DEF Fits, But, Inner, Kernel, RowBuffer, Rotated
<1>2. Fits("step", c1, i2, c2)
  BY DEF Fits, But, Inner, Kernel, RowBuffer
<1>3. Fits("step", c2, i3, c3)
  BY DEF Fits, But, Inner, Kernel, RowBuffer
<1>4. Fits("step", c3, i4, c4)
  BY DEF Fits, But, Inner, Kernel, RowBuffer
<1>5. Fits("step", c4, i5, c5)
  BY DEF Fits, But, Inner, Kernel, RowBuffer
<1>6. Fits("step", c5, i6, c6)
  BY DEF Fits, But, Inner, Kernel, RowBuffer
<1>7. Fits("step", c6, i7, c7)
  BY DEF Fits, But, Inner, Kernel, RowBuffer
<1>8. Fits("step", c7, i8, c8)
  BY DEF Fits, But, Inner, Kernel, RowBuffer
<1>9. Fits("step", c8, i9, c9)
  BY DEF Fits, But, Inner, Kernel, RowBuffer
<1>10. Fits("step", c9, i10, c10)
  BY DEF Fits, But, Inner, Kernel, RowBuffer, NormedOutput
<1>11. CpTail = << i1, i2, i3, i4, i5, i6, i7, i8, i9, i10 >>
  BY Zenon DEF CpTail
<1> HIDE DEF i1, i2, i3, i4, i5, i6, i7, i8, i9, i10, c0, c1, c2, c3, c4, c5,
             c6, c7, c8, c9, c10
<1>12. /\ Path(<< i1, i2, i3, i4, i5, i6, i7, i8, i9, i10 >>, "step", c0, c10)
       /\ << i1, i2, i3, i4, i5, i6, i7, i8, i9, i10 >> \in Seq({i1, i2, i3, i4, i5, i6, i7, i8, i9, i10})
  BY <1>1, <1>2, <1>3, <1>4, <1>5, <1>6, <1>7, <1>8, <1>9, <1>10, Path10
<1>13. QED
  BY <1>11, <1>12, Zenon DEF c0, c10

\* ... and of a layer on a device.
LEMMA DeviceTailPath ==
    Path(DeviceTail, "step", Rotated, Output) /\ \E U : DeviceTail \in Seq(U)
<1> DEFINE i1 == <<"store">>
           i2 == <<"attend">>
           i3 == <<"wo", "attn", "proj">>
           i4 == <<"add", "proj">>
           i5 == <<"post_norm", "x", "xn">>
           i6 == <<"gate_up", "xn", "gu">>
           i7 == <<"swiglu", "gu", "act">>
           i8 == <<"down", "act", "proj">>
           i9 == <<"add", "proj">>
           c0 == Rotated
           c1 == [x |-> "x", q |-> "qr", kv |-> "new"]
           c2 == [x |-> "x", attn |-> "attn", kv |-> "new"]
           c3 == [x |-> "x", proj |-> "o", kv |-> "new"]
           c4 == [x |-> "y", kv |-> "new"]
           c5 == [x |-> "y", xn |-> "yn", kv |-> "new"]
           c6 == [x |-> "y", gu |-> "gu", kv |-> "new"]
           c7 == [x |-> "y", act |-> "act", kv |-> "new"]
           c8 == [x |-> "y", proj |-> "ffn", kv |-> "new"]
           c9 == Output
<1>1. Fits("step", c0, i1, c1)
  BY DEF Fits, But, Inner, Kernel, RowBuffer, Rotated
<1>2. Fits("step", c1, i2, c2)
  BY DEF Fits, But, Inner, Kernel, RowBuffer
<1>3. Fits("step", c2, i3, c3)
  BY DEF Fits, But, Inner, Kernel, RowBuffer
<1>4. Fits("step", c3, i4, c4)
  BY DEF Fits, But, Inner, Kernel, RowBuffer
<1>5. Fits("step", c4, i5, c5)
  BY DEF Fits, But, Inner, Kernel, RowBuffer
<1>6. Fits("step", c5, i6, c6)
  BY DEF Fits, But, Inner, Kernel, RowBuffer
<1>7. Fits("step", c6, i7, c7)
  BY DEF Fits, But, Inner, Kernel, RowBuffer
<1>8. Fits("step", c7, i8, c8)
  BY DEF Fits, But, Inner, Kernel, RowBuffer
<1>9. Fits("step", c8, i9, c9)
  BY DEF Fits, But, Inner, Kernel, RowBuffer, Output
<1>10. DeviceTail = << i1, i2, i3, i4, i5, i6, i7, i8, i9 >>
  BY Zenon DEF DeviceTail
<1> HIDE DEF i1, i2, i3, i4, i5, i6, i7, i8, i9, c0, c1, c2, c3, c4, c5, c6,
             c7, c8, c9
<1>11. /\ Path(<< i1, i2, i3, i4, i5, i6, i7, i8, i9 >>, "step", c0, c9)
       /\ << i1, i2, i3, i4, i5, i6, i7, i8, i9 >> \in Seq({i1, i2, i3, i4, i5, i6, i7, i8, i9})
  BY <1>1, <1>2, <1>3, <1>4, <1>5, <1>6, <1>7, <1>8, <1>9, Path9
<1>12. QED
  BY <1>10, <1>11, Zenon DEF c0, c9

\* Each program is sound: qwen_talker_step and its batch,
LEMMA HostLayerSound == Sound(HostLayer, "step", "plain")
<1>1. HostLayer = InputNorm \o Qkv \o NormRope \o HostTail
  BY Zenon DEF HostLayer, InputNorm, HostTail
<1>2. Path(InputNorm, "step", Input, Normed) /\ \E U : InputNorm \in Seq(U)
  BY InputNormPath
<1>3. Path(InputNorm \o Qkv, "step", Input, Projected) /\ \E U : InputNorm \o Qkv \in Seq(U)
  BY <1>2, QkvPath, PathJoins
<1>4. /\ Path(InputNorm \o Qkv \o NormRope, "step", Input, Rotated)
      /\ \E U : InputNorm \o Qkv \o NormRope \in Seq(U)
  BY <1>3, NormRopePath, PathJoins
<1>5. /\ Path(InputNorm \o Qkv \o NormRope \o HostTail, "step", Input, NormedOutput)
      /\ \E U : InputNorm \o Qkv \o NormRope \o HostTail \in Seq(U)
  BY <1>4, HostTailPath, PathJoins
<1>6. QED
  BY <1>1, <1>5 DEF Sound

\* ... qwen_talker_prefill,
LEMMA PrefillLayerSound == Sound(PrefillLayer, "prefill", "plain")
<1>1. PrefillLayer = InputNorm \o Qkv \o NormRope \o PrefillTail
  BY Zenon DEF PrefillLayer, InputNorm, PrefillTail
<1>2. Path(InputNorm, "prefill", Input, Normed) /\ \E U : InputNorm \in Seq(U)
  BY InputNormPath
<1>3. Path(InputNorm \o Qkv, "prefill", Input, Projected) /\ \E U : InputNorm \o Qkv \in Seq(U)
  BY <1>2, QkvPath, PathJoins
<1>4. /\ Path(InputNorm \o Qkv \o NormRope, "prefill", Input, Rotated)
      /\ \E U : InputNorm \o Qkv \o NormRope \in Seq(U)
  BY <1>3, NormRopePath, PathJoins
<1>5. /\ Path(InputNorm \o Qkv \o NormRope \o PrefillTail, "prefill", Input, Output)
      /\ \E U : InputNorm \o Qkv \o NormRope \o PrefillTail \in Seq(U)
  BY <1>4, PrefillTailPath, PathJoins
<1>6. QED
  BY <1>1, <1>5 DEF Sound

\* ... talker_body and its batch,
LEMMA CudaLayerSound == Sound(CudaLayer, "step", "plain")
<1>1. CudaLayer = InputNorm \o Qkv \o NormRope \o DeviceTail
  BY Zenon DEF CudaLayer, InputNorm
<1>2. Path(InputNorm, "step", Input, Normed) /\ \E U : InputNorm \in Seq(U)
  BY InputNormPath
<1>3. Path(InputNorm \o Qkv, "step", Input, Projected) /\ \E U : InputNorm \o Qkv \in Seq(U)
  BY <1>2, QkvPath, PathJoins
<1>4. /\ Path(InputNorm \o Qkv \o NormRope, "step", Input, Rotated)
      /\ \E U : InputNorm \o Qkv \o NormRope \in Seq(U)
  BY <1>3, NormRopePath, PathJoins
<1>5. /\ Path(InputNorm \o Qkv \o NormRope \o DeviceTail, "step", Input, Output)
      /\ \E U : InputNorm \o Qkv \o NormRope \o DeviceTail \in Seq(U)
  BY <1>4, DeviceTailPath, PathJoins
<1>6. QED
  BY <1>1, <1>5 DEF Sound

\* ... qwen_metal_talker_step,
LEMMA MetalLayerSound == Sound(MetalLayer, "step", "plain")
<1>1. MetalLayer = InputNorm \o Qkv \o RopeEach \o DeviceTail
  BY Zenon DEF MetalLayer, InputNorm, RopeEach
<1>2. Path(InputNorm, "step", Input, Normed) /\ \E U : InputNorm \in Seq(U)
  BY InputNormPath
<1>3. Path(InputNorm \o Qkv, "step", Input, Projected) /\ \E U : InputNorm \o Qkv \in Seq(U)
  BY <1>2, QkvPath, PathJoins
<1>4. /\ Path(InputNorm \o Qkv \o RopeEach, "step", Input, Rotated)
      /\ \E U : InputNorm \o Qkv \o RopeEach \in Seq(U)
  BY <1>3, RopeEachPath, PathJoins
<1>5. /\ Path(InputNorm \o Qkv \o RopeEach \o DeviceTail, "step", Input, Output)
      /\ \E U : InputNorm \o Qkv \o RopeEach \o DeviceTail \in Seq(U)
  BY <1>4, DeviceTailPath, PathJoins
<1>6. QED
  BY <1>1, <1>5 DEF Sound

\* ... cp_layer_body,
LEMMA CpLayerSound == Sound(CpLayer, "step", "normed")
<1>1. CpLayer = Qkv \o NormRope \o CpTail
  BY Zenon DEF CpLayer, CpTail
<1>2. Path(Qkv, "step", Normed, Projected) /\ \E U : Qkv \in Seq(U)
  BY QkvPath
<1>3. Path(Qkv \o NormRope, "step", Normed, Rotated) /\ \E U : Qkv \o NormRope \in Seq(U)
  BY <1>2, NormRopePath, PathJoins
<1>4. /\ Path(Qkv \o NormRope \o CpTail, "step", Normed, NormedOutput)
      /\ \E U : Qkv \o NormRope \o CpTail \in Seq(U)
  BY <1>3, CpTailPath, PathJoins
<1>5. QED
  BY <1>1, <1>4 DEF Sound

\* ... batch_cp_layer,
LEMMA BatchCpLayerSound == Sound(BatchCpLayer, "step", "normed")
<1>1. BatchCpLayer = Qkv \o NormRope \o HostTail
  BY Zenon DEF BatchCpLayer, HostTail
<1>2. Path(Qkv, "step", Normed, Projected) /\ \E U : Qkv \in Seq(U)
  BY QkvPath
<1>3. Path(Qkv \o NormRope, "step", Normed, Rotated) /\ \E U : Qkv \o NormRope \in Seq(U)
  BY <1>2, NormRopePath, PathJoins
<1>4. /\ Path(Qkv \o NormRope \o HostTail, "step", Normed, NormedOutput)
      /\ \E U : Qkv \o NormRope \o HostTail \in Seq(U)
  BY <1>3, HostTailPath, PathJoins
<1>5. QED
  BY <1>1, <1>4 DEF Sound

\* ... and those that are the program of another.
LEMMA DeviceLayersAre ==
    MetalBatchLayer = CudaLayer /\ DeviceCpLayer = CudaLayer /\ FrameCpLayer = MetalLayer
BY Zenon DEF MetalBatchLayer, DeviceCpLayer, CudaLayer, FrameCpLayer

\* Every layer program there is computes the layer: each kernel finds in the
\* buffers what it reads, and in the cache what was stored there for its own
\* row, though the code reuses its buffers, norms one layer ahead, rotates
\* heads in place and lets rows of the gate overwrite each other.
THEOREM ProgramsAreSound ==
    /\ Sound(HostLayer, "step", "plain") /\ Sound(PrefillLayer, "prefill", "plain")
    /\ Sound(CudaLayer, "step", "plain") /\ Sound(MetalLayer, "step", "plain")
    /\ Sound(CpLayer, "step", "normed") /\ Sound(BatchCpLayer, "step", "normed")
  BY HostLayerSound, PrefillLayerSound, CudaLayerSound, MetalLayerSound, CpLayerSound,
     BatchCpLayerSound

-----------------------------------------------------------------------------
(* A pass over all layers                                                  *)

\* What a step is given: rows of inputs and a cache.
Given(e, S, A, D, x, kv) ==
    /\ x = [r \in 0 .. e.rows - 1 |-> x[r]]
    /\ \A r \in A : x[r] = Embedded(Last(S[r]))
    /\ kv = [a \in D |-> kv[a]]

\* What it leaves: the cache, and what the final norm is given.
Leaves(e, S, A, K, D, m) ==
    /\ m.x = [r \in 0 .. e.rows - 1 |-> m.x[r]]
    /\ m.kv = [a \in D |-> m.kv[a]]
    /\ \A r \in A : m.x[r] = Value("x", e.L, S[r], -1)
    /\ \A r \in A, l \in 0 .. e.L - 1 : m.kv[Address(e, r, l, e.pos[r])] = Cached(l, S[r])
    /\ \A a \in D : (\A r \in e.on, l \in 0 .. e.L - 1 : a # Address(e, r, l, e.pos[r]))
                    => m.kv[a] = K[a]

\* The buffers of a pass as it begins,
LEMMA BuffersAre ==
    ASSUME NEW e, NEW S, NEW A, NEW D, NEW x, NEW kv, Given(e, S, A, D, x, kv)
    PROVE  LET m == Buffers(e, x, kv)
           IN IsBuffers(m, e.rows, D) /\ m.kv = kv /\ m.x = x
<1> DEFINE none == [r \in 0 .. e.rows - 1 |-> Wrong]
           gate == [i \in 0 .. 2 * e.rows - 1 |-> Wrong]
           m == Buffers(e, x, kv)
<1>1. m = [x |-> x, xn |-> none, q |-> none, k |-> none, v |-> none, attn |-> none,
           proj |-> none, gu |-> none, act |-> none, gate |-> gate, kv |-> kv]
  BY Zenon DEF Buffers
<1>2. none = [r \in 0 .. e.rows - 1 |-> none[r]] /\ gate = [i \in 0 .. 2 * e.rows - 1 |-> gate[i]]
  OBVIOUS
<1> HIDE DEF m, none, gate
<1>3. /\ m = [b \in Buffer |-> m[b]] /\ m.x = x /\ m.kv = kv /\ m.gate = gate
      /\ \A b \in RowBuffer : m[b] = x \/ m[b] = none
  BY <1>1 DEF Buffer, RowBuffer
<1>4. x = [r \in 0 .. e.rows - 1 |-> x[r]] /\ kv = [a \in D |-> kv[a]]
  BY DEF Given
<1>5. \A b \in RowBuffer : m[b] = [r \in 0 .. e.rows - 1 |-> m[b][r]]
  BY <1>2, <1>3, <1>4
<1>6. QED
  BY <1>2, <1>3, <1>4, <1>5 DEF IsBuffers, m

\* ... with nothing computed.
LEMMA BuffersBefore ==
    ASSUME NEW e, NEW S, NEW A, NEW D, NEW x, NEW kv, Given(e, S, A, D, x, kv)
    PROVE  Before(e, S, A, kv, D, "plain", 0, Buffers(e, x, kv))
<1> DEFINE m == Buffers(e, x, kv)
<1>1. IsBuffers(m, e.rows, D) /\ m.kv = kv /\ m.x = x
  BY BuffersAre
<1> HIDE DEF m
<1>2. \A r \in A : m["x"][r] = Meant("x", 0, S[r])
  <2>1. \A s : Embedded(Last(s)) = Meant("x", 0, s)
    BY DEF Embedded, Meant, Own
  <2>2. QED
    BY <1>1, <2>1 DEF Given
<1>3. 0 .. 0 - 1 = {}
  OBVIOUS
<1>4. QED
  BY <1>1, <1>2, <1>3 DEF Before, m

\* The host norms the input of the first layer.
LEMMA FirstNormBefore ==
    ASSUME NEW e, NEW T, NEW S, NEW A, NEW D, NEW x, NEW kv, Given(e, S, A, D, x, kv),
           Placed(e, T, S, A, D)
    PROVE  Before(e, S, A, kv, D, "normed", 0, FirstNorm(e, Buffers(e, x, kv)))
<1> DEFINE m == Buffers(e, x, kv)
           f == [r \in 0 .. e.rows - 1 |-> Apply("input_norm", 0, x[r])]
           w == FirstNorm(e, m)
<1>1. IsBuffers(m, e.rows, D) /\ m.kv = kv /\ m.x = x
  BY BuffersAre
<1>2. Before(e, S, A, kv, D, "plain", 0, m)
  BY BuffersBefore
<1> HIDE DEF m
<1>3. DOMAIN m = Buffer /\ "xn" \in Buffer /\ "x" \in Buffer /\ "kv" \in Buffer /\ "gate" \in Buffer
  BY <1>1 DEF IsBuffers, Buffer, RowBuffer
<1>4. w = Project(0, m, "input_norm", "x", "xn")
  BY DEF FirstNorm, Exec
<1>5. w = [m EXCEPT !["xn"] = f]
  <2>1. DOMAIN m["xn"] = 0 .. e.rows - 1
    BY <1>1 DEF IsBuffers, RowBuffer
  <2>2. QED
    BY <1>1, <1>4, <2>1 DEF Project
<1> HIDE DEF w
<1>6. w["xn"] = f /\ \A b \in Buffer \ {"xn"} : w[b] = m[b]
  BY <1>3, <1>5
<1> HIDE DEF f
<1>7. w.x = m.x /\ w.kv = m.kv /\ w.gate = m.gate
  BY <1>3, <1>6
<1>8. IsBuffers(w, e.rows, D)
  <2>1. w = [b \in Buffer |-> w[b]]
    BY <1>3, <1>5
  <2>2. f = [r \in 0 .. e.rows - 1 |-> f[r]]
    BY DEF f
  <2>3. \A b \in RowBuffer : w[b] = [r \in 0 .. e.rows - 1 |-> w[b][r]]
    <3> SUFFICES ASSUME NEW b \in RowBuffer PROVE w[b] = [r \in 0 .. e.rows - 1 |-> w[b][r]]
      OBVIOUS
    <3>1. CASE b = "xn"
      BY <3>1, <2>2, <1>6
    <3>2. CASE b # "xn"
      BY <3>2, <1>1, <1>6 DEF IsBuffers, Buffer
    <3>3. QED
      BY <3>1, <3>2
  <2>4. QED
    BY <1>1, <1>7, <2>1, <2>3 DEF IsBuffers
<1>9. \A r \in A : w["xn"][r] = Meant("xn", 0, S[r])
  <2> SUFFICES ASSUME NEW r \in A PROVE w["xn"][r] = Meant("xn", 0, S[r])
    OBVIOUS
  <2>1. r \in 0 .. e.rows - 1
    BY DEF Placed
  <2>2. m["x"][r] = Meant("x", 0, S[r])
    BY <1>2 DEF Before
  <2>3. Apply("input_norm", 0, Meant("x", 0, S[r])) = Meant("xn", 0, S[r])
    BY ApplyIs DEF Inner, Kernel
  <2>4. QED
    BY <1>1, <1>6, <2>1, <2>2, <2>3 DEF f
<1>10. QED
  BY <1>2, <1>7, <1>8, <1>9 DEF Before, w, m

\* A sound program, run over all layers from the right inputs and with any cache
\* that holds the past of each row, leaves for each row the value after the last
\* layer and, in its cells, what is cached for its position; a cell of no row is
\* not written.
THEOREM RunLeaves ==
    ASSUME NEW e, NEW T, NEW S, NEW A, NEW K, NEW D, Placed(e, T, S, A, D), e.L # 0,
           NEW kind, Past(kind, e, S, A, K, D),
           NEW program, NEW entry, Sound(program, kind, entry),
           NEW m, Before(e, S, A, K, D, entry, 0, m)
    PROVE  Leaves(e, S, A, K, D, Run(e, program, m))
<1> DEFINE w == Run(e, program, m)
<1>1. Before(e, S, A, K, D, entry, e.L, w)
  BY RunAdvances
<1> HIDE DEF w
<1>2. IsBuffers(w, e.rows, D)
  BY <1>1 DEF Before
<1>3. w.x = [r \in 0 .. e.rows - 1 |-> w.x[r]] /\ w.kv = [a \in D |-> w.kv[a]]
  BY <1>2 DEF IsBuffers, RowBuffer
<1>4. \A s : Meant("x", e.L, s) = Value("x", e.L, s, -1)
  BY DEF Meant, Own
<1>5. QED
  BY <1>1, <1>3, <1>4 DEF Leaves, Before, w

\* The final norm.
LEMMA FinishIs ==
    ASSUME NEW e, NEW b, NEW r \in DOMAIN b, NEW s, b[r] = Value("x", e.L, s, -1)
    PROVE  Finish(e, b)[r] = Hidden(e.L, s)
BY DEF Finish, Apply, Kernel, Value, Hidden

\* A pass of the Talker: as Leaves, with the hidden states.
Passes(e, S, A, K, D, out) ==
    /\ out.kv = [a \in D |-> out.kv[a]]
    /\ \A r \in A : out.hidden[r] = Hidden(e.L, S[r])
    /\ \A r \in A, l \in 0 .. e.L - 1 : out.kv[Address(e, r, l, e.pos[r])] = Cached(l, S[r])
    /\ \A a \in D : (\A r \in e.on, l \in 0 .. e.L - 1 : a # Address(e, r, l, e.pos[r]))
                    => out.kv[a] = K[a]

\* A pass of the Talker.
LEMMA PassIs ==
    ASSUME NEW e, NEW T, NEW S, NEW A, NEW D, Placed(e, T, S, A, D), e.L # 0,
           NEW kv, kv = [a \in D |-> kv[a]],
           NEW kind, Past(kind, e, S, A, kv, D),
           NEW program, Sound(program, kind, "plain"),
           NEW embeds, DOMAIN embeds = 0 .. e.rows - 1, \A r \in A : embeds[r] = Last(S[r])
    PROVE  Passes(e, S, A, kv, D, Pass(e, program, kv, embeds))
<1> DEFINE x == [r \in DOMAIN embeds |-> Embedded(embeds[r])]
           m == Run(e, program, Buffers(e, x, kv))
<1>1. \A r \in A : r \in 0 .. e.rows - 1
  BY DEF Placed
<1>2. Given(e, S, A, D, x, kv)
  BY <1>1 DEF Given
<1> HIDE DEF x
<1>3. Before(e, S, A, kv, D, "plain", 0, Buffers(e, x, kv))
  BY <1>2, BuffersBefore
<1>4. Leaves(e, S, A, kv, D, m)
  BY <1>3, RunLeaves
<1> HIDE DEF m
<1>5. Pass(e, program, kv, embeds) = [kv |-> m.kv, hidden |-> Finish(e, m.x)]
  BY Zenon DEF Pass, m, x
<1>6. \A r \in A : Finish(e, m.x)[r] = Hidden(e.L, S[r])
  <2> SUFFICES ASSUME NEW r \in A PROVE Finish(e, m.x)[r] = Hidden(e.L, S[r])
    OBVIOUS
  <2>1. r \in DOMAIN m.x /\ m.x[r] = Value("x", e.L, S[r], -1)
    BY <1>1, <1>4 DEF Leaves
  <2>2. QED
    BY <2>1, FinishIs
<1>7. QED
  BY <1>4, <1>5, <1>6 DEF Leaves, Passes

-----------------------------------------------------------------------------
(* Caches: who is written where, and what a step leaves there              *)

\* Rows of k elements, one after another: each element has its own number.
LEMMA Times ==
    ASSUME NEW a \in Nat, NEW b \in Nat, NEW k \in Nat, a < b
    PROVE  a * k + k <= b * k /\ a * k \in Nat /\ b * k \in Nat
<1>1. PICK d \in Nat : b = (a + 1) + d
  <2>1. b - (a + 1) \in Nat /\ b = (a + 1) + (b - (a + 1))
    OBVIOUS
  <2>2. QED
    BY <2>1
<1>2. b * k = a * k + k + d * k
  BY <1>1
<1>3. d * k \in Nat /\ a * k \in Nat
  OBVIOUS
<1>4. QED
  BY <1>2, <1>3

\* Position p of part a, and the size of n parts, each of k positions.
Cell(a, k, p) == a * k + p
Size(n, k) == n * k

\* Each position has its own cell,
LEMMA CellUnique ==
    ASSUME NEW k \in Nat, NEW a \in Nat, NEW b \in Nat, NEW p \in 0 .. k - 1, NEW q \in 0 .. k - 1,
           Cell(a, k, p) = Cell(b, k, q)
    PROVE  a = b /\ p = q
<1>0. a * k + p = b * k + q
  BY DEF Cell
<1>1. ~(a < b)
  <2> SUFFICES ASSUME a < b PROVE FALSE
    OBVIOUS
  <2>1. a * k + k <= b * k /\ a * k \in Nat /\ b * k \in Nat
    BY Times
  <2>2. QED
    BY <1>0, <2>1
<1>2. ~(b < a)
  <2> SUFFICES ASSUME b < a PROVE FALSE
    OBVIOUS
  <2>1. b * k + k <= a * k /\ a * k \in Nat /\ b * k \in Nat
    BY Times
  <2>2. QED
    BY <1>0, <2>1
<1>3. a = b
  BY <1>1, <1>2
<1>4. a * k \in Nat
  OBVIOUS
<1>5. QED
  BY <1>0, <1>3, <1>4

\* ... within the parts.
LEMMA CellIn ==
    ASSUME NEW k \in Nat, NEW n \in Nat, NEW a \in 0 .. n - 1, NEW p \in 0 .. k - 1
    PROVE  Cell(a, k, p) \in 0 .. Size(n, k) - 1 /\ Size(n, k) \in Nat
<1>1. a * k + k <= n * k /\ a * k \in Nat /\ n * k \in Nat
  BY Times
<1>2. QED
  BY <1>1 DEF Cell, Size

\* Each row, layer and position below k has an address of its own in D.
Layout(e, k, D) ==
    /\ \A r \in 0 .. e.rows - 1, l \in 0 .. e.L - 1, p \in 0 .. k - 1 : Address(e, r, l, p) \in D
    /\ \A r, t \in 0 .. e.rows - 1, l, j \in 0 .. e.L - 1, p, q \in 0 .. k - 1 :
          Address(e, r, l, p) = Address(e, t, j, q) => r = t /\ l = j /\ p = q

\* One row.
LEMMA OneRow ==
    ASSUME NEW e, e.rows = 1, e.L \in Nat, NEW k \in Nat, e.slot = 0, e.layer = k
    PROVE  /\ Layout(e, k, 0 .. Size(e.L, k) - 1)
           /\ \A l \in 0 .. e.L - 1, p \in 0 .. k - 1 : Address(e, 0, l, p) = Cell(l, k, p)
<1>1. ASSUME NEW l \in 0 .. e.L - 1, NEW p \in 0 .. k - 1
      PROVE  Address(e, 0, l, p) = Cell(l, k, p)
  <2>1. 0 * 0 = 0 /\ l * k \in Nat
    OBVIOUS
  <2>2. QED
    BY <2>1 DEF Address, Cell
<1>2. \A r \in 0 .. e.rows - 1 : r = 0
  OBVIOUS
<1>3. \A l \in 0 .. e.L - 1, p \in 0 .. k - 1 : Cell(l, k, p) \in 0 .. Size(e.L, k) - 1
  BY CellIn
<1>4. \A l, j \in 0 .. e.L - 1, p, q \in 0 .. k - 1 : Cell(l, k, p) = Cell(j, k, q) => l = j /\ p = q
  BY CellUnique
<1>5. QED
  BY <1>1, <1>2, <1>3, <1>4 DEF Layout

\* Slot after slot, each with its layers.
LEMMA SlotRows ==
    ASSUME NEW e, e.rows \in Nat, e.L \in Nat, NEW k \in Nat, e.slot = e.L * k, e.layer = k
    PROVE  /\ Layout(e, k, 0 .. Size(Size(e.rows, e.L), k) - 1)
           /\ \A r \in 0 .. e.rows - 1, l \in 0 .. e.L - 1, p \in 0 .. k - 1 :
                 Address(e, r, l, p) = Cell(Cell(r, e.L, l), k, p)
<1> DEFINE L == e.L
           n == e.rows
<1>1. ASSUME NEW r \in 0 .. n - 1, NEW l \in 0 .. L - 1, NEW p \in 0 .. k - 1
      PROVE  Address(e, r, l, p) = Cell(Cell(r, L, l), k, p)
  <2>1. r * (L * k) = (r * L) * k
    OBVIOUS
  <2>2. r * L \in Nat
    OBVIOUS
  <2>3. (r * L + l) * k = (r * L) * k + l * k
    BY <2>2
  <2>4. QED
    BY <2>1, <2>3 DEF Address, Cell
<1>2. \A r \in 0 .. n - 1, l \in 0 .. L - 1 : Cell(r, L, l) \in 0 .. Size(n, L) - 1 /\ Size(n, L) \in Nat
  BY CellIn
<1>3. \A a \in 0 .. Size(n, L) - 1, p \in 0 .. k - 1 :
          Size(n, L) \in Nat => Cell(a, k, p) \in 0 .. Size(Size(n, L), k) - 1
  BY CellIn
<1>4. \A a, b \in Nat, p, q \in 0 .. k - 1 : Cell(a, k, p) = Cell(b, k, q) => a = b /\ p = q
  BY CellUnique
<1>5. \A r, t \in Nat, l, j \in 0 .. L - 1 : Cell(r, L, l) = Cell(t, L, j) => r = t /\ l = j
  BY CellUnique
<1>6. ASSUME NEW r \in 0 .. n - 1, NEW l \in 0 .. L - 1, NEW p \in 0 .. k - 1
      PROVE  Address(e, r, l, p) \in 0 .. Size(Size(n, L), k) - 1
  BY <1>1, <1>2, <1>3
<1>7. ASSUME NEW r \in 0 .. n - 1, NEW l \in 0 .. L - 1, NEW p \in 0 .. k - 1,
             NEW t \in 0 .. n - 1, NEW j \in 0 .. L - 1, NEW q \in 0 .. k - 1,
             Address(e, r, l, p) = Address(e, t, j, q)
      PROVE  r = t /\ l = j /\ p = q
  <2>1. Cell(Cell(r, L, l), k, p) = Cell(Cell(t, L, j), k, q) /\ Cell(r, L, l) \in Nat /\ Cell(t, L, j) \in Nat
    BY <1>1, <1>2, <1>7
  <2>2. Cell(r, L, l) = Cell(t, L, j) /\ p = q
    BY <2>1, <1>4
  <2>3. QED
    BY <2>2, <1>5
<1>8. QED
  BY <1>1, <1>6, <1>7 DEF Layout

\* Layer after layer, each with its slots.
LEMMA LayerRows ==
    ASSUME NEW e, e.rows \in Nat, e.L \in Nat, NEW k \in Nat, e.slot = k, e.layer = e.rows * k
    PROVE  /\ Layout(e, k, 0 .. Size(Size(e.L, e.rows), k) - 1)
           /\ \A r \in 0 .. e.rows - 1, l \in 0 .. e.L - 1, p \in 0 .. k - 1 :
                 Address(e, r, l, p) = Cell(Cell(l, e.rows, r), k, p)
<1> DEFINE L == e.L
           n == e.rows
<1>1. ASSUME NEW r \in 0 .. n - 1, NEW l \in 0 .. L - 1, NEW p \in 0 .. k - 1
      PROVE  Address(e, r, l, p) = Cell(Cell(l, n, r), k, p)
  <2>1. l * (n * k) = (l * n) * k
    OBVIOUS
  <2>2. l * n \in Nat
    OBVIOUS
  <2>3. (l * n + r) * k = (l * n) * k + r * k
    BY <2>2
  <2>4. r * k \in Nat /\ l * (n * k) \in Nat
    OBVIOUS
  <2>5. QED
    BY <2>1, <2>3, <2>4 DEF Address, Cell
<1>2. \A r \in 0 .. n - 1, l \in 0 .. L - 1 : Cell(l, n, r) \in 0 .. Size(L, n) - 1 /\ Size(L, n) \in Nat
  BY CellIn
<1>3. \A a \in 0 .. Size(L, n) - 1, p \in 0 .. k - 1 :
          Size(L, n) \in Nat => Cell(a, k, p) \in 0 .. Size(Size(L, n), k) - 1
  BY CellIn
<1>4. \A a, b \in Nat, p, q \in 0 .. k - 1 : Cell(a, k, p) = Cell(b, k, q) => a = b /\ p = q
  BY CellUnique
<1>5. \A l, j \in Nat, r, t \in 0 .. n - 1 : Cell(l, n, r) = Cell(j, n, t) => l = j /\ r = t
  BY CellUnique
<1>6. ASSUME NEW r \in 0 .. n - 1, NEW l \in 0 .. L - 1, NEW p \in 0 .. k - 1
      PROVE  Address(e, r, l, p) \in 0 .. Size(Size(L, n), k) - 1
  BY <1>1, <1>2, <1>3
<1>7. ASSUME NEW r \in 0 .. n - 1, NEW l \in 0 .. L - 1, NEW p \in 0 .. k - 1,
             NEW t \in 0 .. n - 1, NEW j \in 0 .. L - 1, NEW q \in 0 .. k - 1,
             Address(e, r, l, p) = Address(e, t, j, q)
      PROVE  r = t /\ l = j /\ p = q
  <2>1. Cell(Cell(l, n, r), k, p) = Cell(Cell(j, n, t), k, q) /\ Cell(l, n, r) \in Nat /\ Cell(j, n, t) \in Nat
    BY <1>1, <1>2, <1>7
  <2>2. Cell(l, n, r) = Cell(j, n, t) /\ p = q
    BY <2>1, <1>4
  <2>3. QED
    BY <2>2, <1>5
<1>8. QED
  BY <1>1, <1>6, <1>7 DEF Layout

\* A step over such a cache that holds the past of the rows A.
HoldsPast(e, S, A, kv) ==
    \A r \in A, l \in 0 .. e.L - 1 : \A p \in 0 .. e.pos[r] - 1 :
        kv[Address(e, r, l, p)] = Cached(l, Prefix(S[r], p + 1))

\* Row r is at the last position of sequence S[r].
Sequences(e, T, S, A) ==
    \A r \in A : S[r] \in Seq(T) /\ S[r] # << >> /\ Len(S[r]) = e.pos[r] + 1

\* A step over such a cache writes each row and layer to a place of its own,
LEMMA StepPlaced ==
    ASSUME NEW e, e.rows \in Nat, e.L \in Nat, NEW k \in Nat, NEW D, Layout(e, k, D),
           e.on \subseteq 0 .. e.rows - 1, \A r \in e.on : e.pos[r] \in 0 .. k - 1,
           NEW T, NEW S, NEW A, A \subseteq e.on, Sequences(e, T, S, A)
    PROVE  Placed(e, T, S, A, D)
<1>1. \A r \in e.on : e.pos[r] \in Nat
  OBVIOUS
<1>2. \A r \in e.on, l \in 0 .. e.L - 1 : Address(e, r, l, e.pos[r]) \in D
  BY DEF Layout
<1>3. \A r, t \in e.on, l, j \in 0 .. e.L - 1 :
          Address(e, r, l, e.pos[r]) = Address(e, t, j, e.pos[t]) => r = t /\ l = j
  BY DEF Layout
<1>4. QED
  BY <1>1, <1>2, <1>3 DEF Placed, Sequences

\* ... and none where attention looks for the past.
LEMMA StepPast ==
    ASSUME NEW e, e.rows \in Nat, e.L \in Nat, NEW k \in Nat, NEW D, Layout(e, k, D),
           e.on \subseteq 0 .. e.rows - 1, \A r \in e.on : e.pos[r] \in 0 .. k - 1,
           NEW S, NEW A, A \subseteq e.on, NEW kv, HoldsPast(e, S, A, kv)
    PROVE  Past("step", e, S, A, kv, D)
<1> SUFFICES ASSUME NEW r \in A, NEW l \in 0 .. e.L - 1, NEW p \in 0 .. e.pos[r] - 1
             PROVE  /\ Address(e, r, l, p) \in D
                    /\ kv[Address(e, r, l, p)] = Cached(l, Prefix(S[r], p + 1))
                    /\ \A t \in e.on, j \in 0 .. e.L - 1 : Address(e, r, l, p) # Address(e, t, j, e.pos[t])
  BY DEF Past
<1>1. r \in 0 .. e.rows - 1 /\ r \in e.on /\ p \in 0 .. k - 1 /\ p < e.pos[r]
  OBVIOUS
<1>2. Address(e, r, l, p) \in D
  BY <1>1 DEF Layout
<1>3. ASSUME NEW t \in e.on, NEW j \in 0 .. e.L - 1, Address(e, r, l, p) = Address(e, t, j, e.pos[t])
      PROVE  FALSE
  <2>1. t \in 0 .. e.rows - 1 /\ e.pos[t] \in 0 .. k - 1
    OBVIOUS
  <2>2. r = t /\ p = e.pos[t]
    BY <1>1, <1>3, <2>1 DEF Layout
  <2>3. QED
    BY <1>1, <2>2
<1>4. QED
  BY <1>2, <1>3 DEF HoldsPast

\* A pass over a cache that holds the past of the rows A: the cache then
\* holds the position of the pass as well.
Grown(e, S, A, kv) ==
    \A r \in A, l \in 0 .. e.L - 1 : \A p \in 0 .. e.pos[r] :
        kv[Address(e, r, l, p)] = Cached(l, Prefix(S[r], p + 1))

\* What is not overwritten and what is written, together.
LEMMA CacheGrows ==
    ASSUME NEW e, NEW T, NEW S, NEW A, NEW K, NEW D, NEW kv,
           Placed(e, T, S, A, D), Past("step", e, S, A, K, D),
           \A r \in A, l \in 0 .. e.L - 1 : kv[Address(e, r, l, e.pos[r])] = Cached(l, S[r]),
           \A a \in D : (\A r \in e.on, l \in 0 .. e.L - 1 : a # Address(e, r, l, e.pos[r]))
                        => kv[a] = K[a]
    PROVE  Grown(e, S, A, kv)
<1> SUFFICES ASSUME NEW r \in A, NEW l \in 0 .. e.L - 1, NEW p \in 0 .. e.pos[r]
             PROVE  kv[Address(e, r, l, p)] = Cached(l, Prefix(S[r], p + 1))
  BY DEF Grown
<1>1. e.pos[r] \in Nat /\ S[r] \in Seq(T) /\ S[r] # << >> /\ Len(S[r]) = e.pos[r] + 1
  BY DEF Placed
<1>2. CASE p = e.pos[r]
  <2>1. Prefix(S[r], p + 1) = S[r]
    BY <1>1, <1>2, PrefixWhole
  <2>2. QED
    BY <1>2, <2>1
<1>3. CASE p # e.pos[r]
  <2>1. p \in 0 .. e.pos[r] - 1
    BY <1>1, <1>3
  <2>2. /\ Address(e, r, l, p) \in D
        /\ K[Address(e, r, l, p)] = Cached(l, Prefix(S[r], p + 1))
        /\ \A t \in e.on, j \in 0 .. e.L - 1 : Address(e, r, l, p) # Address(e, t, j, e.pos[t])
    BY <2>1 DEF Past
  <2>3. QED
    BY <2>2
<1>4. QED
  BY <1>2, <1>3

\* What a step of the Talker leaves: hidden states, and a cache that has grown.
StepOut(e, S, A, D, out) ==
    /\ out.kv = [a \in D |-> out.kv[a]]
    /\ \A r \in A : out.hidden[r] = Hidden(e.L, S[r])
    /\ Grown(e, S, A, out.kv)

\* A step over a cache that holds the past.
LEMMA StepIs ==
    ASSUME NEW e, e.rows \in Nat, e.L \in Nat \ {0}, NEW k \in Nat, NEW D, Layout(e, k, D),
           e.on \subseteq 0 .. e.rows - 1, \A r \in e.on : e.pos[r] \in 0 .. k - 1,
           NEW T, NEW S, NEW A, A \subseteq e.on, Sequences(e, T, S, A),
           NEW kv, kv = [a \in D |-> kv[a]], HoldsPast(e, S, A, kv),
           NEW program, Sound(program, "step", "plain"),
           NEW embeds, DOMAIN embeds = 0 .. e.rows - 1, \A r \in A : embeds[r] = Last(S[r])
    PROVE  StepOut(e, S, A, D, Pass(e, program, kv, embeds))
<1>1. Placed(e, T, S, A, D)
  BY StepPlaced
<1>2. Past("step", e, S, A, kv, D)
  BY StepPast
<1>3. Passes(e, S, A, kv, D, Pass(e, program, kv, embeds))
  BY <1>1, <1>2, PassIs
<1> DEFINE out == Pass(e, program, kv, embeds)
<1> HIDE DEF out
<1>4. Grown(e, S, A, out.kv)
  BY <1>1, <1>2, <1>3, CacheGrows DEF Passes, out
<1>5. QED
  BY <1>3, <1>4 DEF Passes, StepOut, out

\* The Talker's steps in terms of the cells of their caches: what a cache must
\* hold of sequence s up to position n.
OneHolds(kv, k, s, n) ==
    \A l \in 0 .. Layers - 1 : \A p \in 0 .. n - 1 : kv[Cell(l, k, p)] = Cached(l, Prefix(s, p + 1))
SlotsHold(kv, S, A, n) ==
    \A b \in A : \A l \in 0 .. Layers - 1 : \A p \in 0 .. n[b] - 1 :
        kv[Cell(Cell(b, Layers, l), BatchKv, p)] = Cached(l, Prefix(S[b], p + 1))
LayersHold(kv, S, A, n) ==
    \A b \in A : \A l \in 0 .. Layers - 1 : \A p \in 0 .. n[b] - 1 :
        kv[Cell(Cell(l, B, b), DeviceKv, p)] = Cached(l, Prefix(S[b], p + 1))

\* The cells of the three.
OneCells(k) == 0 .. Size(Layers, k) - 1
SlotCells == 0 .. Size(Size(B, Layers), BatchKv) - 1
LayerCells == 0 .. Size(Size(Layers, B), DeviceKv) - 1

\* A step of one sequence, on the host or a device.
LEMMA OneRowStep ==
    ASSUME NEW program, Sound(program, "step", "plain"), NEW k \in Nat, NEW spot,
           spot[0] \in 0 .. k - 1, NEW T, NEW s \in Seq(T), Len(s) = spot[0] + 1,
           NEW kv, kv = [a \in OneCells(k) |-> kv[a]], OneHolds(kv, k, s, spot[0]),
           NEW embeds, DOMAIN embeds = {0}, embeds[0] = Last(s)
    PROVE  LET out == Pass(HostEnv(k, spot), program, kv, embeds)
           IN /\ out.kv = [a \in OneCells(k) |-> out.kv[a]]
              /\ out.hidden[0] = Hidden(Layers, s)
              /\ OneHolds(out.kv, k, s, spot[0] + 1)
<1> DEFINE e == HostEnv(k, spot)
           S == [r \in {0} |-> s]
           A == {0}
           D == OneCells(k)
           out == Pass(e, program, kv, embeds)
<1>1. /\ e.rows = 1 /\ e.L = Layers /\ e.pos = spot /\ e.on = {0} /\ e.slot = 0 /\ e.layer = k
  BY DEF HostEnv
<1> HIDE DEF e
<1>2. Layers \in Nat \ {0}
  BY TalkerAssumption
<1>3. /\ Layout(e, k, D)
      /\ \A l \in 0 .. e.L - 1, p \in 0 .. k - 1 : Address(e, 0, l, p) = Cell(l, k, p)
  BY <1>1, <1>2, OneRow DEF OneCells
<1>4. 0 .. e.rows - 1 = {0} /\ S[0] = s /\ spot[0] \in Nat /\ s # << >>
  BY <1>1, LenProperties
<1>5. Sequences(e, T, S, A)
  BY <1>1, <1>4 DEF Sequences
<1> HIDE DEF S
<1>6. HoldsPast(e, S, A, kv)
  <2>1. ASSUME NEW l \in 0 .. Layers - 1, NEW p \in 0 .. spot[0] - 1
        PROVE  kv[Address(e, 0, l, p)] = Cached(l, Prefix(s, p + 1))
    <3>1. p \in 0 .. k - 1
      OBVIOUS
    <3>2. Address(e, 0, l, p) = Cell(l, k, p)
      BY <1>1, <1>3, <3>1
    <3>3. QED
      BY <3>2 DEF OneHolds
  <2>2. \A r \in A : e.pos[r] = spot[0] /\ S[r] = s /\ r = 0
    BY <1>1, <1>4
  <2> HIDE DEF A
  <2> SUFFICES ASSUME NEW r \in A, NEW l \in 0 .. e.L - 1, NEW p \in 0 .. e.pos[r] - 1
               PROVE  kv[Address(e, r, l, p)] = Cached(l, Prefix(S[r], p + 1))
    BY Zenon DEF HoldsPast
  <2>3. r = 0 /\ S[r] = s /\ l \in 0 .. Layers - 1 /\ p \in 0 .. spot[0] - 1
    BY <1>1, <2>2
  <2>4. QED
    BY <2>1, <2>3, Zenon
<1>7. StepOut(e, S, A, D, out)
  <2>1. e.rows \in Nat /\ e.L \in Nat \ {0} /\ e.on \subseteq 0 .. e.rows - 1 /\ A \subseteq e.on
    BY <1>1, <1>2
  <2>2. \A r \in e.on : e.pos[r] \in 0 .. k - 1
    BY <1>1
  <2>3. DOMAIN embeds = 0 .. e.rows - 1
    BY <1>4
  <2>4. \A r \in A : embeds[r] = Last(S[r])
    BY <1>4
  <2>5. kv = [a \in D |-> kv[a]]
    OBVIOUS
  <2> HIDE DEF A, D
  <2>6. QED
    BY <1>3, <1>5, <1>6, <2>1, <2>2, <2>3, <2>4, <2>5, StepIs
<1> HIDE DEF out
<1>8. OneHolds(out.kv, k, s, spot[0] + 1)
  <2> SUFFICES ASSUME NEW l \in 0 .. Layers - 1, NEW p \in 0 .. (spot[0] + 1) - 1
               PROVE  out.kv[Cell(l, k, p)] = Cached(l, Prefix(s, p + 1))
    BY DEF OneHolds
  <2>1. p \in 0 .. spot[0] /\ p \in 0 .. k - 1
    OBVIOUS
  <2>2. out.kv[Address(e, 0, l, p)] = Cached(l, Prefix(s, p + 1))
    BY <1>1, <1>4, <1>7, <2>1 DEF StepOut, Grown
  <2>3. QED
    BY <1>1, <1>3, <2>1, <2>2
<1>9. QED
  BY <1>1, <1>4, <1>7, <1>8 DEF StepOut, out, e

\* What a batch's step asks of a cache, held in one of its two layouts, and of
\* the embeddings.
SlotsFed(kv, spot, live, S, T, embeds) ==
    /\ live \in SUBSET Slot /\ \A b \in live : spot[b] \in 0 .. BatchKv - 1
    /\ \A b \in live : S[b] \in Seq(T) /\ Len(S[b]) = spot[b] + 1
    /\ kv = [a \in SlotCells |-> kv[a]] /\ SlotsHold(kv, S, live, spot)
    /\ DOMAIN embeds = Slot /\ \A b \in live : embeds[b] = Last(S[b])
SlotsOut(out, spot, live, S) ==
    /\ out.kv = [a \in SlotCells |-> out.kv[a]]
    /\ \A b \in live : out.hidden[b] = Hidden(Layers, S[b])
    /\ SlotsHold(out.kv, S, live, [b \in Slot |-> spot[b] + 1])
LayersFed(kv, spot, live, S, T, embeds) ==
    /\ live \in SUBSET Slot /\ \A b \in Slot : spot[b] \in 0 .. DeviceKv - 1
    /\ \A b \in live : S[b] \in Seq(T) /\ Len(S[b]) = spot[b] + 1
    /\ kv = [a \in LayerCells |-> kv[a]] /\ LayersHold(kv, S, live, spot)
    /\ DOMAIN embeds = Slot /\ \A b \in live : embeds[b] = Last(S[b])
LayersOut(out, spot, live, S) ==
    /\ out.kv = [a \in LayerCells |-> out.kv[a]]
    /\ \A b \in live : out.hidden[b] = Hidden(Layers, S[b])
    /\ LayersHold(out.kv, S, live, [b \in Slot |-> spot[b] + 1])

\* A step of a batch on the host,
LEMMA SlotsStep ==
    ASSUME NEW live, NEW spot, NEW T, NEW S, NEW kv, NEW embeds, SlotsFed(kv, spot, live, S, T, embeds)
    PROVE  SlotsOut(BatchTalkerStep(kv, spot, live, embeds), spot, live, S)
<1> SUFFICES ASSUME live \in SUBSET Slot, \A b \in live : spot[b] \in 0 .. BatchKv - 1,
                    \A b \in live : S[b] \in Seq(T) /\ Len(S[b]) = spot[b] + 1,
                    kv = [a \in SlotCells |-> kv[a]], SlotsHold(kv, S, live, spot),
                    DOMAIN embeds = Slot, \A b \in live : embeds[b] = Last(S[b])
             PROVE  SlotsOut(BatchTalkerStep(kv, spot, live, embeds), spot, live, S)
  BY DEF SlotsFed
<1> DEFINE e == BatchEnv(spot, live)
           D == SlotCells
           n == [b \in Slot |-> spot[b] + 1]
           out == Pass(e, HostLayer, kv, embeds)
<1>1. /\ e.rows = B /\ e.L = Layers /\ e.pos = spot /\ e.on = live
      /\ e.slot = Layers * BatchKv /\ e.layer = BatchKv
  BY DEF BatchEnv
<1> HIDE DEF e
<1>2. Layers \in Nat \ {0} /\ B \in Nat /\ BatchKv \in Nat
  BY TalkerAssumption
<1>3. /\ Layout(e, BatchKv, D)
      /\ \A r \in 0 .. e.rows - 1, l \in 0 .. e.L - 1, p \in 0 .. BatchKv - 1 :
            Address(e, r, l, p) = Cell(Cell(r, e.L, l), BatchKv, p)
  BY <1>1, <1>2, SlotRows DEF SlotCells
<1>4. 0 .. e.rows - 1 = Slot
  BY <1>1 DEF Slot
<1>5. Sequences(e, T, S, live)
  <2>1. \A b \in live : spot[b] \in Nat
    OBVIOUS
  <2>2. \A b \in live : S[b] # << >>
    BY <2>1
  <2>3. QED
    BY <1>1, <2>2 DEF Sequences
<1>6. HoldsPast(e, S, live, kv)
  <2> SUFFICES ASSUME NEW b \in live, NEW l \in 0 .. e.L - 1, NEW p \in 0 .. spot[b] - 1
               PROVE  kv[Address(e, b, l, p)] = Cached(l, Prefix(S[b], p + 1))
    BY <1>1 DEF HoldsPast
  <2>1. spot[b] \in 0 .. BatchKv - 1 /\ p \in 0 .. BatchKv - 1 /\ b \in Slot
    BY <1>2
  <2>2. Address(e, b, l, p) = Cell(Cell(b, Layers, l), BatchKv, p)
    BY <1>1, <1>3, <1>4, <2>1
  <2>3. l \in 0 .. Layers - 1
    BY <1>1
  <2>4. QED
    BY <2>2, <2>3, Zenon DEF SlotsHold
<1>7. StepOut(e, S, live, D, out)
  BY <1>1, <1>2, <1>3, <1>4, <1>5, <1>6, StepIs, HostLayerSound
<1> HIDE DEF out
<1>8. SlotsHold(out.kv, S, live, n)
  <2> SUFFICES ASSUME NEW b \in live, NEW l \in 0 .. Layers - 1, NEW p \in 0 .. n[b] - 1
               PROVE  out.kv[Cell(Cell(b, Layers, l), BatchKv, p)] = Cached(l, Prefix(S[b], p + 1))
    BY DEF SlotsHold
  <2>1. spot[b] \in 0 .. BatchKv - 1 /\ p \in 0 .. spot[b] /\ p \in 0 .. BatchKv - 1 /\ b \in Slot
    BY <1>2
  <2>2. out.kv[Address(e, b, l, p)] = Cached(l, Prefix(S[b], p + 1))
    BY <1>1, <1>7, <2>1 DEF StepOut, Grown
  <2>3. QED
    BY <1>1, <1>3, <1>4, <2>1, <2>2
<1>9. QED
  BY <1>1, <1>7, <1>8 DEF StepOut, SlotsOut, out, e, BatchTalkerStep

\* ... and on a device, where the rows of empty slots are computed too.
LEMMA LayersStep ==
    ASSUME NEW program, Sound(program, "step", "plain"),
           NEW live, NEW spot, NEW T, NEW S, NEW kv, NEW embeds, LayersFed(kv, spot, live, S, T, embeds)
    PROVE  LayersOut(Pass(DeviceBatchEnv(spot), program, kv, embeds), spot, live, S)
<1> SUFFICES ASSUME live \in SUBSET Slot, \A b \in Slot : spot[b] \in 0 .. DeviceKv - 1,
                    \A b \in live : S[b] \in Seq(T) /\ Len(S[b]) = spot[b] + 1,
                    kv = [a \in LayerCells |-> kv[a]], LayersHold(kv, S, live, spot),
                    DOMAIN embeds = Slot, \A b \in live : embeds[b] = Last(S[b])
             PROVE  LayersOut(Pass(DeviceBatchEnv(spot), program, kv, embeds), spot, live, S)
  BY DEF LayersFed
<1> DEFINE e == DeviceBatchEnv(spot)
           D == LayerCells
           n == [b \in Slot |-> spot[b] + 1]
           out == Pass(e, program, kv, embeds)
<1>1. /\ e.rows = B /\ e.L = Layers /\ e.pos = spot /\ e.on = Slot
      /\ e.slot = DeviceKv /\ e.layer = B * DeviceKv
  BY DEF DeviceBatchEnv
<1> HIDE DEF e
<1>2. Layers \in Nat \ {0} /\ B \in Nat /\ DeviceKv \in Nat
  BY TalkerAssumption
<1>3. /\ Layout(e, DeviceKv, D)
      /\ \A r \in 0 .. e.rows - 1, l \in 0 .. e.L - 1, p \in 0 .. DeviceKv - 1 :
            Address(e, r, l, p) = Cell(Cell(l, e.rows, r), DeviceKv, p)
  BY <1>1, <1>2, LayerRows DEF LayerCells
<1>4. 0 .. e.rows - 1 = Slot
  BY <1>1 DEF Slot
<1>5. Sequences(e, T, S, live)
  <2>1. \A b \in live : spot[b] \in Nat
    OBVIOUS
  <2>2. \A b \in live : S[b] # << >>
    BY <2>1
  <2>3. QED
    BY <1>1, <2>2 DEF Sequences
<1>6. HoldsPast(e, S, live, kv)
  <2> SUFFICES ASSUME NEW b \in live, NEW l \in 0 .. e.L - 1, NEW p \in 0 .. spot[b] - 1
               PROVE  kv[Address(e, b, l, p)] = Cached(l, Prefix(S[b], p + 1))
    BY <1>1 DEF HoldsPast
  <2>1. spot[b] \in 0 .. DeviceKv - 1 /\ p \in 0 .. DeviceKv - 1 /\ b \in Slot
    BY <1>2
  <2>2. Address(e, b, l, p) = Cell(Cell(l, B, b), DeviceKv, p)
    BY <1>1, <1>3, <1>4, <2>1
  <2>3. l \in 0 .. Layers - 1
    BY <1>1
  <2>4. QED
    BY <2>2, <2>3, Zenon DEF LayersHold
<1>7. StepOut(e, S, live, D, out)
  BY <1>1, <1>2, <1>3, <1>4, <1>5, <1>6, StepIs
<1> HIDE DEF out
<1>8. LayersHold(out.kv, S, live, n)
  <2> SUFFICES ASSUME NEW b \in live, NEW l \in 0 .. Layers - 1, NEW p \in 0 .. n[b] - 1
               PROVE  out.kv[Cell(Cell(l, B, b), DeviceKv, p)] = Cached(l, Prefix(S[b], p + 1))
    BY DEF LayersHold
  <2>1. spot[b] \in 0 .. DeviceKv - 1 /\ p \in 0 .. spot[b] /\ p \in 0 .. DeviceKv - 1 /\ b \in Slot
    BY <1>2
  <2>2. out.kv[Address(e, b, l, p)] = Cached(l, Prefix(S[b], p + 1))
    BY <1>1, <1>7, <2>1 DEF StepOut, Grown
  <2>3. QED
    BY <1>1, <1>3, <1>4, <2>1, <2>2
<1>9. QED
  BY <1>1, <1>7, <1>8 DEF StepOut, LayersOut, out, e

-----------------------------------------------------------------------------
(* The prefill of the Talker                                               *)

\* The prefill leaves a hidden state after the prompt, and every position of
\* it in the cache.
THEOREM PrefillIs ==
    ASSUME NEW T, NEW prompt \in Seq(T), prompt # << >>, NEW k \in Nat, Len(prompt) <= k,
           NEW kv, kv = [a \in OneCells(k) |-> kv[a]]
    PROVE  LET out == TalkerPrefill(kv, k, prompt)
           IN /\ out.kv = [a \in OneCells(k) |-> out.kv[a]]
              /\ out.hidden = Hidden(Layers, prompt)
              /\ OneHolds(out.kv, k, prompt, Len(prompt))
<1> DEFINE n == Len(prompt)
           spot == [r \in 0 .. n - 1 |-> r]
           A == 0 .. n - 1
           e == [rows |-> n, L |-> Layers, pos |-> spot, on |-> A, slot |-> 0, layer |-> k]
           S == [r \in A |-> Prefix(prompt, r + 1)]
           D == OneCells(k)
           embeds == [r \in A |-> prompt[r + 1]]
           out == Pass(e, PrefillLayer, kv, embeds)
<1>1. n \in Nat \ {0} /\ n <= k /\ Prefix(prompt, n) = prompt
  BY PrefixWhole
<1>2. Layers \in Nat \ {0}
  BY TalkerAssumption
<1>3. /\ e.rows = n /\ e.L = Layers /\ e.on = A /\ e.slot = 0 /\ e.layer = k
      /\ \A r \in A : e.pos[r] = r
  OBVIOUS
<1>4. \A r \in A : r \in Nat /\ r + 1 \in 1 .. n /\ r \in 0 .. k - 1
  BY <1>1
<1>5. \A r \in A : /\ S[r] \in Seq(T) /\ Len(S[r]) = r + 1 /\ S[r] # << >>
                   /\ Last(S[r]) = prompt[r + 1]
  <2> SUFFICES ASSUME NEW r \in A
               PROVE  /\ S[r] \in Seq(T) /\ Len(S[r]) = r + 1 /\ S[r] # << >>
                      /\ Last(S[r]) = prompt[r + 1]
    OBVIOUS
  <2>1. r + 1 \in 1 .. Len(prompt) /\ r \in Nat
    BY <1>4
  <2>2. /\ Prefix(prompt, r + 1) \in Seq(T) /\ Len(Prefix(prompt, r + 1)) = r + 1
        /\ Last(Prefix(prompt, r + 1)) = prompt[r + 1]
    BY <2>1, PrefixIs
  <2>3. Prefix(prompt, r + 1) # << >>
    BY <2>1, <2>2
  <2>4. QED
    BY <2>2, <2>3
<1>6. \A r \in A, l \in 0 .. Layers - 1 : Address(e, r, l, r) = Cell(l, k, r)
  <2> SUFFICES ASSUME NEW r \in A, NEW l \in 0 .. Layers - 1 PROVE Address(e, r, l, r) = Cell(l, k, r)
    OBVIOUS
  <2>1. r \in Nat /\ r * 0 = 0 /\ l * k \in Nat
    BY <1>4
  <2>2. QED
    BY <2>1 DEF Address, Cell
<1>7. \A r \in A : \A j \in 0 .. r : j \in A /\ S[j] = Prefix(S[r], j + 1)
  <2> SUFFICES ASSUME NEW r \in A, NEW j \in 0 .. r PROVE j \in A /\ S[j] = Prefix(S[r], j + 1)
    OBVIOUS
  <2>1. r + 1 \in 1 .. Len(prompt) /\ j + 1 \in 1 .. r + 1 /\ j \in A
    BY <1>1, <1>4
  <2>2. Prefix(Prefix(prompt, r + 1), j + 1) = Prefix(prompt, j + 1)
    BY <2>1, PrefixOfPrefix
  <2>3. QED
    BY <2>1, <2>2
<1> HIDE DEF S
<1>8. Placed(e, T, S, A, D)
  <2>1. \A r \in A, l \in 0 .. Layers - 1 : Cell(l, k, r) \in D
    BY <1>2, <1>4, CellIn DEF OneCells
  <2>2. \A r, t \in A, l, j \in 0 .. Layers - 1 : Cell(l, k, r) = Cell(j, k, t) => r = t /\ l = j
    BY <1>2, <1>4, CellUnique
  <2> HIDE DEF e, A, D
  <2>3. n \in Nat /\ A \subseteq 0 .. n - 1 /\ \A r \in A : r \in Nat
    BY <1>1, <1>4 DEF A
  <2>4. QED
    BY <1>2, <1>3, <1>5, <1>6, <2>1, <2>2, <2>3 DEF Placed
<1>9. Past("prefill", e, S, A, kv, D)
  <2> HIDE DEF e, A
  <2>1. QED
    BY <1>3, <1>7 DEF Past
<1>10. Passes(e, S, A, kv, D, out)
  <2>1. DOMAIN embeds = 0 .. e.rows - 1 /\ \A r \in A : embeds[r] = Last(S[r])
    BY <1>5
  <2>2. e.L # 0 /\ kv = [a \in D |-> kv[a]]
    BY <1>2, <1>3
  <2> HIDE DEF e, A, D, embeds
  <2>3. QED
    BY <1>8, <1>9, <2>1, <2>2, PrefillLayerSound, PassIs
<1>11. TalkerPrefill(kv, k, prompt) = [kv |-> out.kv, hidden |-> out.hidden[n - 1]]
  BY Zenon DEF TalkerPrefill
<1> HIDE DEF out, e
<1>12. out.hidden[n - 1] = Hidden(Layers, prompt)
  <2>1. n - 1 \in A /\ (n - 1) + 1 = n
    BY <1>1
  <2>2. S[n - 1] = prompt
    BY <1>1, <2>1 DEF S
  <2>3. QED
    BY <1>3, <1>10, <2>1, <2>2 DEF Passes
<1>13. OneHolds(out.kv, k, prompt, n)
  <2> SUFFICES ASSUME NEW l \in 0 .. Layers - 1, NEW p \in 0 .. n - 1
               PROVE  out.kv[Cell(l, k, p)] = Cached(l, Prefix(prompt, p + 1))
    BY DEF OneHolds
  <2>1. p \in A
    OBVIOUS
  <2>2. out.kv[Address(e, p, l, p)] = Cached(l, S[p])
    BY <1>3, <1>10, <2>1 DEF Passes
  <2>3. S[p] = Prefix(prompt, p + 1)
    BY <2>1 DEF S
  <2>4. Address(e, p, l, p) = Cell(l, k, p)
    BY <1>6, <2>1
  <2>5. QED
    BY <2>2, <2>3, <2>4
<1>14. QED
  BY <1>10, <1>11, <1>12, <1>13 DEF Passes

-----------------------------------------------------------------------------
(* The code predictor                                                      *)

\* The inputs of the passes, element by element.
InputAt(past, first, i) ==
    IF i = 1 THEN [group |-> -1, fed |-> past, first |-> ""] ELSE Code(i - 2, past, first)

\* The inputs one by one.
LEMMA PassInputsAre ==
    ASSUME NEW past, NEW first, NEW h \in Int, h >= -1, NEW T,
           \A i \in 1 .. h + 2 : InputAt(past, first, i) \in T
    PROVE  /\ PassInputs(past, first, h) \in Seq(T)
           /\ Len(PassInputs(past, first, h)) = h + 2
           /\ \A i \in 1 .. h + 2 : PassInputs(past, first, h)[i] = InputAt(past, first, i)
<1> DEFINE a == [group |-> -1, fed |-> past, first |-> ""]
           q == [i \in 1 .. h + 1 |-> Code(i - 1, past, first)]
<1>1. a = InputAt(past, first, 1) /\ 1 \in 1 .. h + 2
  <2>1. 1 \in 1 .. h + 2
    OBVIOUS
  <2>2. a = InputAt(past, first, 1)
    BY Zenon DEF InputAt
  <2>3. QED
    BY <2>1, <2>2, Zenon
<1>2. \A i \in 1 .. h + 1 : Code(i - 1, past, first) = InputAt(past, first, i + 1) /\ i + 1 \in 1 .. h + 2
  <2> SUFFICES ASSUME NEW i \in 1 .. h + 1
               PROVE  Code(i - 1, past, first) = InputAt(past, first, i + 1) /\ i + 1 \in 1 .. h + 2
    BY Zenon
  <2>1. i + 1 # 1 /\ (i + 1) - 2 = i - 1 /\ i + 1 \in 1 .. h + 2
    OBVIOUS
  <2>2. QED
    BY <2>1, Zenon DEF InputAt
<1>3. a \in T /\ \A i \in 1 .. h + 1 : Code(i - 1, past, first) \in T
  BY <1>1, <1>2
<1>4. PassInputs(past, first, h) = << a >> \o q
  BY Zenon DEF PassInputs
<1>5. \A i \in 1 .. h + 1 : q[i] = InputAt(past, first, i + 1)
  BY <1>2
<1>6. q \in Seq(T) /\ Len(q) = h + 1
  <2>1. q \in [1 .. h + 1 -> T]
    BY <1>3
  <2> HIDE DEF q
  <2>2. QED
    BY <2>1, LenProperties
<1> HIDE DEF a, q
<1>7. << a >> \in Seq(T) /\ Len(<< a >>) = 1 /\ << a >>[1] = a
  BY <1>3
<1>8. /\ << a >> \o q \in Seq(T) /\ Len(<< a >> \o q) = 1 + (h + 1)
      /\ \A i \in 1 .. 1 + (h + 1) :
            (<< a >> \o q)[i] = IF i <= 1 THEN << a >>[i] ELSE q[i - 1]
  BY <1>6, <1>7, ConcatProperties
<1>9. \A i \in 1 .. h + 2 : (<< a >> \o q)[i] = InputAt(past, first, i)
  <2> SUFFICES ASSUME NEW i \in 1 .. h + 2 PROVE (<< a >> \o q)[i] = InputAt(past, first, i)
    OBVIOUS
  <2>1. i \in 1 .. 1 + (h + 1)
    OBVIOUS
  <2>2. CASE i = 1
    BY <1>1, <1>7, <1>8, <2>1, <2>2
  <2>3. CASE i # 1
    <3>1. i - 1 \in 1 .. h + 1 /\ (i - 1) + 1 = i /\ ~(i <= 1)
      BY <2>3
    <3>2. QED
      BY <1>5, <1>8, <2>1, <3>1
  <2>4. QED
    BY <2>2, <2>3
<1>10. QED
  BY <1>4, <1>8, <1>9

\* The inputs up to a pass are a prefix of all of them.
LEMMA PassInputsPrefix ==
    ASSUME NEW past, NEW first, NEW n \in Int, n >= -1, NEW h \in -1 .. n
    PROVE  Prefix(PassInputs(past, first, n), h + 2) = PassInputs(past, first, h)
<1> DEFINE T == {InputAt(past, first, i) : i \in 1 .. n + 2}
           s == PassInputs(past, first, n)
           t == PassInputs(past, first, h)
<1>1. /\ s \in Seq(T) /\ Len(s) = n + 2
      /\ \A i \in 1 .. n + 2 : s[i] = InputAt(past, first, i)
  <2>1. \A i \in 1 .. n + 2 : InputAt(past, first, i) \in T
    OBVIOUS
  <2> HIDE DEF T
  <2>2. QED
    BY <2>1, PassInputsAre
<1>2. /\ t \in Seq(T) /\ Len(t) = h + 2
      /\ \A i \in 1 .. h + 2 : t[i] = InputAt(past, first, i)
  <2>1. h \in Int /\ h >= -1 /\ \A i \in 1 .. h + 2 : i \in 1 .. n + 2
    OBVIOUS
  <2>2. \A i \in 1 .. h + 2 : InputAt(past, first, i) \in T
    BY <2>1
  <2> HIDE DEF T
  <2>3. QED
    BY <2>1, <2>2, PassInputsAre
<1> HIDE DEF s, t, T
<1>3. h + 2 \in 1 .. Len(s) /\ \A i \in 1 .. h + 2 : i \in 1 .. n + 2
  BY <1>1
<1>4. /\ Prefix(s, h + 2) \in Seq(T) /\ Len(Prefix(s, h + 2)) = h + 2
      /\ \A i \in 1 .. h + 2 : Prefix(s, h + 2)[i] = s[i]
  BY <1>1, <1>3, PrefixIs
<1>5. \A i \in 1 .. h + 2 : Prefix(s, h + 2)[i] = t[i]
  BY <1>1, <1>2, <1>3, <1>4
<1>6. QED
  BY <1>2, <1>4, <1>5, SeqEqual DEF s, t

\* The head of a pass predicts the next code from the inputs so far.
LEMMA LmHeadIs ==
    ASSUME NEW past, NEW first, NEW h \in Nat
    PROVE  LmHead(h, Hidden(CpLayers, PassInputs(past, first, h))) = Code(h + 1, past, first)
<1> DEFINE T == {InputAt(past, first, i) : i \in 1 .. h + 2}
           s == PassInputs(past, first, h)
           v == Hidden(CpLayers, s)
<1>1. Len(s) = h + 2 /\ \A i \in 1 .. h + 2 : s[i] = InputAt(past, first, i)
  <2>1. \A i \in 1 .. h + 2 : InputAt(past, first, i) \in T
    OBVIOUS
  <2> HIDE DEF T
  <2>2. h \in Int /\ h >= -1
    OBVIOUS
  <2>3. QED
    BY <2>1, <2>2, PassInputsAre
<1> HIDE DEF s
<1>2. 1 \in 1 .. h + 2 /\ 2 \in 1 .. h + 2
  OBVIOUS
<1>3. s[1].fed = past /\ s[2].first = first
  <2>1. s[1] = [group |-> -1, fed |-> past, first |-> ""]
    BY <1>1, <1>2, Zenon DEF InputAt
  <2>2. 2 # 1 /\ 2 - 2 = 0
    OBVIOUS
  <2>3. s[2] = Code(0, past, first)
    BY <1>1, <1>2, <2>2, Zenon DEF InputAt
  <2>4. Code(0, past, first).first = first
    BY DEF Code
  <2>5. s[1].fed = past
    <3>1. [group |-> -1, fed |-> past, first |-> ""].fed = past
      OBVIOUS
    <3>2. QED
      BY <2>1, <3>1, Zenon
  <2>6. QED
    BY <2>3, <2>4, <2>5
<1>4. v.at = "hid" /\ v.layer = CpLayers /\ v.seq = s
  BY DEF Hidden, Value
<1> HIDE DEF v
<1>5. LmHead(h, v) = Code(h + 1, past, first)
  BY <1>1, <1>3, <1>4 DEF LmHead, s
<1>6. QED
  BY <1>5 DEF v, s

\* The codes predicted so far, and the input of a pass of a row with the
\* right hidden state and the right codes.
SoFar(past, first, n) == [g \in 1 .. n |-> Code(g, past, first)]

\* What a pass is given, after the codes so far, is its input.
LEMMA PassInputIs ==
    ASSUME NEW past, NEW first, NEW p \in Nat
    PROVE  PassInput(p, Hidden(Layers, past), first, SoFar(past, first, p - 1)) = InputAt(past, first, p + 1)
<1>1. CASE p = 0
  <2>1. HiddenInput(Hidden(Layers, past)) = [group |-> -1, fed |-> past, first |-> ""]
    BY DEF HiddenInput, Hidden, Value
  <2>2. p + 1 = 1
    BY <1>1
  <2>3. QED
    BY <1>1, <2>1, <2>2, Zenon DEF PassInput, InputAt
<1>2. CASE p = 1
  <2>1. Lookup(0, Code(0, << >>, first)) = Code(0, past, first)
    BY DEF Lookup, Code
  <2>2. p # 0 /\ p + 1 # 1 /\ (p + 1) - 2 = 0
    BY <1>2
  <2>3. QED
    BY <1>2, <2>1, <2>2, Zenon DEF PassInput, InputAt
<1>3. CASE p # 0 /\ p # 1
  <2>1. p - 1 \in 1 .. p - 1 /\ (p + 1) - 2 = p - 1 /\ p + 1 # 1
    BY <1>3
  <2>2. SoFar(past, first, p - 1)[p - 1] = Code(p - 1, past, first)
    BY <2>1 DEF SoFar
  <2>3. Lookup(p - 1, Code(p - 1, past, first)) = Code(p - 1, past, first)
    BY DEF Lookup, Code
  <2>4. QED
    BY <1>3, <2>1, <2>2, <2>3, Zenon DEF PassInput, InputAt
<1>4. QED
  BY <1>1, <1>2, <1>3

\* Where the code predictor runs, its rows and its cache there.
Wheres == {"host", "device", "frame", "batch", "device_batch"}
RowsOf(where) == IF where \in {"batch", "device_batch"} THEN B ELSE 1
CpCells(rows) == 0 .. rows * CpLayers * CpKv - 1

\* Each of these is a layout of its cache.
LEMMA CpEnvIs ==
    ASSUME NEW where \in Wheres, NEW spot
    PROVE  LET e == CpEnv(where, spot)
           IN /\ e.rows = RowsOf(where) /\ e.L = CpLayers /\ e.pos = spot
              /\ e.on = 0 .. e.rows - 1 /\ e.rows \in Nat
              /\ Layout(e, CpKv, CpCells(RowsOf(where)))
<1>1. CpLayers \in Nat /\ B \in Nat /\ CpKv \in Nat
  BY CpAssumption, TalkerAssumption DEF CpKv
<1> DEFINE n == Size(CpLayers, CpKv)
<1>2. CASE where \in {"host", "device", "frame"}
  <2> DEFINE e == CpHostEnv(spot)
  <2>1. /\ e.rows = 1 /\ e.L = CpLayers /\ e.pos = spot /\ e.on = {0} /\ e.slot = 0 /\ e.layer = CpKv
    BY DEF CpHostEnv
  <2> HIDE DEF e
  <2>2. Layout(e, CpKv, 0 .. Size(CpLayers, CpKv) - 1)
    BY <1>1, <2>1, OneRow
  <2>3. 1 * CpLayers * CpKv = Size(CpLayers, CpKv)
    BY <1>1 DEF Size
  <2>4. RowsOf(where) = 1 /\ CpEnv(where, spot) = e
    BY <1>2 DEF RowsOf, CpEnv, e
  <2>5. 0 .. e.rows - 1 = {0} /\ e.rows \in Nat
    BY <2>1
  <2>6. Layout(e, CpKv, CpCells(RowsOf(where)))
    BY <2>2, <2>3, <2>4 DEF CpCells
  <2>7. QED
    BY <2>1, <2>4, <2>5, <2>6
<1>3. CASE where = "batch"
  <2> DEFINE e == CpBatchEnv(spot)
  <2>1. /\ e.rows = B /\ e.L = CpLayers /\ e.pos = spot /\ e.on = Slot
        /\ e.slot = CpLayers * CpKv /\ e.layer = CpKv
    BY DEF CpBatchEnv
  <2> HIDE DEF e
  <2>2. Layout(e, CpKv, 0 .. Size(Size(B, CpLayers), CpKv) - 1)
    BY <1>1, <2>1, SlotRows
  <2>3. B * CpLayers * CpKv = Size(Size(B, CpLayers), CpKv)
    BY <1>1 DEF Size
  <2>4. RowsOf(where) = B /\ CpEnv(where, spot) = e
    BY <1>3 DEF RowsOf, CpEnv, e
  <2>5. QED
    BY <1>1, <2>1, <2>2, <2>3, <2>4 DEF CpCells, Slot
<1>4. CASE where = "device_batch"
  <2> DEFINE e == CpDeviceBatchEnv(spot)
  <2>1. /\ e.rows = B /\ e.L = CpLayers /\ e.pos = spot /\ e.on = Slot
        /\ e.slot = CpKv /\ e.layer = B * CpKv
    BY DEF CpDeviceBatchEnv
  <2> HIDE DEF e
  <2>2. Layout(e, CpKv, 0 .. Size(Size(CpLayers, B), CpKv) - 1)
    BY <1>1, <2>1, LayerRows
  <2>3. B * CpLayers * CpKv = Size(Size(CpLayers, B), CpKv)
    BY <1>1 DEF Size
  <2>4. RowsOf(where) = B /\ CpEnv(where, spot) = e
    BY <1>4 DEF RowsOf, CpEnv, e
  <2>5. QED
    BY <1>1, <2>1, <2>2, <2>3, <2>4 DEF CpCells, Slot
<1>5. QED
  BY <1>2, <1>3, <1>4 DEF Wheres

\* One pass of the code predictor's layers, whatever runs them.
LEMMA CpStepLeaves ==
    ASSUME NEW where \in Wheres, NEW spot, NEW T, NEW S, NEW A, NEW D,
           D = CpCells(RowsOf(where)), A \subseteq 0 .. RowsOf(where) - 1,
           \A r \in 0 .. RowsOf(where) - 1 : spot[r] \in 0 .. CpKv - 1,
           Sequences(CpEnv(where, spot), T, S, A),
           NEW kv, HoldsPast(CpEnv(where, spot), S, A, kv),
           NEW x, Given(CpEnv(where, spot), S, A, D, x, kv)
    PROVE  LET m == CpStep(where, kv, spot, x)
           IN /\ Leaves(CpEnv(where, spot), S, A, kv, D, m)
              /\ Grown(CpEnv(where, spot), S, A, m.kv)
<1> DEFINE e == CpEnv(where, spot)
           m == CpStep(where, kv, spot, x)
<1>1. /\ e.rows = RowsOf(where) /\ e.L = CpLayers /\ e.pos = spot
      /\ e.on = 0 .. e.rows - 1 /\ e.rows \in Nat /\ Layout(e, CpKv, D)
  BY CpEnvIs
<1>2. CpLayers \in Nat \ {0} /\ CpKv \in Nat
  BY CpAssumption DEF CpKv
<1>3. /\ where = "host" => m = Run(e, CpLayer, FirstNorm(e, Buffers(e, x, kv)))
      /\ where = "batch" => m = Run(e, BatchCpLayer, FirstNorm(e, Buffers(e, x, kv)))
      /\ where \in {"device", "device_batch"} => m = Run(e, DeviceCpLayer, Buffers(e, x, kv))
      /\ where = "frame" => m = Run(e, FrameCpLayer, Buffers(e, x, kv))
  <2> DEFINE b == Buffers(e, x, kv)
  <2>1. m = Run(e, CpProgram(where), IF where \in {"host", "batch"} THEN FirstNorm(e, b) ELSE b)
    BY DEF CpStep
  <2>2. /\ where = "host" => CpProgram(where) = CpLayer
        /\ where = "batch" => CpProgram(where) = BatchCpLayer
        /\ where \in {"device", "device_batch"} => CpProgram(where) = DeviceCpLayer
        /\ where = "frame" => CpProgram(where) = FrameCpLayer
    BY DEF CpProgram
  <2> HIDE DEF b, m, e
  <2>3. QED
    BY <2>1, <2>2 DEF b
<1> HIDE DEF e, m
<1>4. Given(e, S, A, D, x, kv) /\ Sequences(e, T, S, A) /\ HoldsPast(e, S, A, kv)
  BY DEF e
<1>5. /\ e.rows \in Nat /\ e.L \in Nat /\ e.L # 0 /\ e.on \subseteq 0 .. e.rows - 1 /\ A \subseteq e.on
      /\ \A r \in e.on : e.pos[r] \in 0 .. CpKv - 1
  BY <1>1, <1>2
<1>6. Placed(e, T, S, A, D) /\ Past("step", e, S, A, kv, D)
  BY <1>1, <1>2, <1>4, <1>5, StepPlaced, StepPast
<1>7. /\ Before(e, S, A, kv, D, "plain", 0, Buffers(e, x, kv))
      /\ Before(e, S, A, kv, D, "normed", 0, FirstNorm(e, Buffers(e, x, kv)))
  BY <1>4, <1>6, BuffersBefore, FirstNormBefore
<1>8. /\ Sound(CpLayer, "step", "normed") /\ Sound(BatchCpLayer, "step", "normed")
      /\ Sound(DeviceCpLayer, "step", "plain") /\ Sound(FrameCpLayer, "step", "plain")
  BY CpLayerSound, BatchCpLayerSound, CudaLayerSound, MetalLayerSound, DeviceLayersAre
<1>9. PICK program, entry, start : /\ m = Run(e, program, start) /\ Sound(program, "step", entry)
                                   /\ Before(e, S, A, kv, D, entry, 0, start)
  BY <1>3, <1>7, <1>8 DEF Wheres
<1>10. Leaves(e, S, A, kv, D, m)
  BY <1>5, <1>6, <1>9, RunLeaves
<1>11. Grown(e, S, A, m.kv)
  <2>1. /\ \A r \in A, l \in 0 .. e.L - 1 : m.kv[Address(e, r, l, e.pos[r])] = Cached(l, S[r])
        /\ \A a \in D : (\A r \in e.on, l \in 0 .. e.L - 1 : a # Address(e, r, l, e.pos[r]))
                       => m.kv[a] = kv[a]
    BY <1>10, Zenon DEF Leaves
  <2>2. QED
    BY <1>6, <2>1, CacheGrows
<1>12. QED
  BY <1>10, <1>11 DEF e, m

\* The cell of a position of a row.
CpSpot(where, r, l, p) == Address(CpEnv(where, << >>), r, l, p)

\* After p passes for the rows A, of sequences past and first codes first: the
\* cache has their inputs, and the codes are those predicted so far.
CpState(where, past, first, A, s, p) ==
    /\ s.kv = [a \in CpCells(RowsOf(where)) |-> s.kv[a]]
    /\ \A r \in A, l \in 0 .. CpLayers - 1 : \A q \in 0 .. p - 1 :
          s.kv[CpSpot(where, r, l, q)] = Cached(l, PassInputs(past[r], first[r], q - 1))
    /\ \A r \in A : s.codes[r] = SoFar(past[r], first[r], p - 1)

\* A cell does not depend on the positions of the rows.
LEMMA SpotIs ==
    ASSUME NEW where \in Wheres, NEW spot, NEW r, NEW l, NEW p
    PROVE  Address(CpEnv(where, spot), r, l, p) = CpSpot(where, r, l, p)
<1>1. /\ CpEnv(where, spot).slot = CpEnv(where, << >>).slot
      /\ CpEnv(where, spot).layer = CpEnv(where, << >>).layer
  BY DEF Wheres, CpEnv, CpHostEnv, CpBatchEnv, CpDeviceBatchEnv
<1>2. QED
  BY <1>1, Zenon DEF Address, CpSpot

\* The next code after those so far.
LEMMA SoFarNext ==
    ASSUME NEW past, NEW first, NEW p \in Nat
    PROVE  IF p = 0 THEN << >> = SoFar(past, first, p)
           ELSE Append(SoFar(past, first, p - 1), Code(p, past, first)) = SoFar(past, first, p)
<1> DEFINE T == {Code(g, past, first) : g \in 1 .. p}
<1>1. CASE p = 0
  BY <1>1 DEF SoFar
<1>2. CASE p # 0
  <2> DEFINE a == SoFar(past, first, p - 1)
             b == SoFar(past, first, p)
             c == Code(p, past, first)
  <2>1. a = [g \in 1 .. p - 1 |-> Code(g, past, first)] /\ b = [g \in 1 .. p |-> Code(g, past, first)]
    BY DEF SoFar
  <2>2. a \in [1 .. p - 1 -> T] /\ b \in [1 .. p -> T] /\ c \in T
    BY <1>2, <2>1
  <2>3. a \in Seq(T) /\ Len(a) = p - 1 /\ b \in Seq(T) /\ Len(b) = p
    <3> HIDE DEF a, b, T
    <3>1. QED
      BY <2>2, <1>2, LenProperties
  <2>4. /\ Append(a, c) \in Seq(T) /\ Len(Append(a, c)) = p
        /\ \A i \in 1 .. p - 1 : Append(a, c)[i] = a[i]
        /\ Append(a, c)[p] = c
    <3> HIDE DEF a, b, c, T
    <3>1. QED
      BY <2>2, <2>3, <1>2, AppendProperties
  <2>5. \A i \in 1 .. p : Append(a, c)[i] = b[i]
    <3> SUFFICES ASSUME NEW i \in 1 .. p PROVE Append(a, c)[i] = b[i]
      OBVIOUS
    <3> HIDE DEF a, b
    <3>1. CASE i = p
      BY <3>1, <2>1, <2>4
    <3>2. CASE i # p
      <4>1. i \in 1 .. p - 1
        BY <3>2
      <4>2. QED
        BY <4>1, <2>1, <2>4
    <3>3. QED
      BY <3>1, <3>2
  <2> HIDE DEF a, b, c, T
  <2>6. Append(a, c) = b
    BY <2>3, <2>4, <2>5, SeqEqual
  <2>7. QED
    BY <1>2, <2>6 DEF a, b, c
<1>3. QED
  BY <1>1, <1>2

\* A pass leads from one such state to the next.
LEMMA CpPassIs ==
    ASSUME NEW where \in Wheres, NEW past, NEW first, NEW hidden,
           NEW A, A \subseteq 0 .. RowsOf(where) - 1,
           \A r \in A : hidden[r] = Hidden(Layers, past[r]),
           NEW p \in 0 .. Groups, NEW s, CpState(where, past, first, A, s, p)
    PROVE  CpState(where, past, first, A, CpPass(where, RowsOf(where), hidden, first, s, p), p + 1)
<1> DEFINE n == RowsOf(where)
           spot == [r \in 0 .. n - 1 |-> p]
           x == [r \in 0 .. n - 1 |-> Embedded(PassInput(p, hidden[r], first[r], s.codes[r]))]
           m == CpStep(where, s.kv, spot, x)
           e == CpEnv(where, spot)
           D == CpCells(n)
           T == {InputAt(past[r], first[r], i) : r \in A, i \in 1 .. Groups + 1}
           S == [r \in A |-> PassInputs(past[r], first[r], p - 1)]
           Heads(v) ==
               [kv |-> v.kv,
                codes |-> [r \in 0 .. n - 1 |->
                              IF p = 0 THEN << >>
                              ELSE Append(s.codes[r], LmHead(p - 1, Finish([L |-> CpLayers], v.x)[r]))]]
           out == CpPass(where, n, hidden, first, s, p)
<1>1. out = Heads(m)
  <2>1. out = CHOOSE w \in {Heads(v) : v \in {m}} : w = w
    BY Zenon DEF CpPass, After
  <2> HIDE DEF Heads, out, m
  <2>2. {Heads(v) : v \in {m}} = {Heads(m)}
    OBVIOUS
  <2>3. QED
    BY <2>1, <2>2
<1>2. /\ e.rows = n /\ e.L = CpLayers /\ e.pos = spot /\ e.on = 0 .. n - 1 /\ n \in Nat
      /\ Groups \in Nat /\ CpKv = Groups + 1 /\ p \in Nat /\ p <= Groups
  BY CpEnvIs, CpAssumption DEF CpKv
<1>3. \A r \in A : r \in 0 .. n - 1 /\ spot[r] = p
  OBVIOUS
<1>4. \A r \in A : /\ S[r] \in Seq(T) /\ Len(S[r]) = p + 1 /\ S[r] # << >>
                   /\ Last(S[r]) = InputAt(past[r], first[r], p + 1)
  <2> SUFFICES ASSUME NEW r \in A
               PROVE  /\ S[r] \in Seq(T) /\ Len(S[r]) = p + 1 /\ S[r] # << >>
                      /\ Last(S[r]) = InputAt(past[r], first[r], p + 1)
    OBVIOUS
  <2> DEFINE u == PassInputs(past[r], first[r], p - 1)
  <2>1. p - 1 \in Int /\ p - 1 >= -1 /\ (p - 1) + 2 = p + 1
    BY <1>2
  <2>2. \A i \in 1 .. (p - 1) + 2 : InputAt(past[r], first[r], i) \in T
    BY <1>2
  <2>3. S[r] = u
    OBVIOUS
  <2> HIDE DEF T, S
  <2>4. /\ u \in Seq(T) /\ Len(u) = (p - 1) + 2
        /\ \A i \in 1 .. (p - 1) + 2 : u[i] = InputAt(past[r], first[r], i)
    BY <2>1, <2>2, PassInputsAre
  <2> HIDE DEF u
  <2>5. p + 1 \in 1 .. p + 1 /\ p + 1 # 0
    BY <1>2
  <2>6. Last(u) = InputAt(past[r], first[r], p + 1)
    BY <2>1, <2>4, <2>5 DEF Last
  <2>7. u # << >>
    BY <2>1, <2>4, <2>5
  <2>8. QED
    BY <2>1, <2>3, <2>4, <2>6, <2>7
<1>5. \A r \in A : S[r] = PassInputs(past[r], first[r], p - 1)
  OBVIOUS
<1>6. \A r \in A : x[r] = Embedded(Last(S[r]))
  <2> SUFFICES ASSUME NEW r \in A PROVE x[r] = Embedded(Last(S[r]))
    OBVIOUS
  <2>1. x[r] = Embedded(PassInput(p, hidden[r], first[r], s.codes[r]))
    BY <1>3
  <2>2. s.codes[r] = SoFar(past[r], first[r], p - 1) /\ hidden[r] = Hidden(Layers, past[r])
    BY DEF CpState
  <2>3. PassInput(p, Hidden(Layers, past[r]), first[r], SoFar(past[r], first[r], p - 1))
            = InputAt(past[r], first[r], p + 1)
    BY <1>2, PassInputIs
  <2> HIDE DEF S, T, x
  <2>4. Last(S[r]) = InputAt(past[r], first[r], p + 1)
    BY <1>4
  <2>5. QED
    BY <2>1, <2>2, <2>3, <2>4, Zenon
<1>7. x = [r \in 0 .. n - 1 |-> x[r]]
  OBVIOUS
<1> HIDE DEF S, T, x, Heads, out
<1>8. Given(e, S, A, D, x, s.kv)
  BY <1>2, <1>6, <1>7 DEF Given, CpState
<1>9. Sequences(e, T, S, A)
  BY <1>2, <1>3, <1>4 DEF Sequences
<1>10. HoldsPast(e, S, A, s.kv)
  <2> SUFFICES ASSUME NEW r \in A, NEW l \in 0 .. e.L - 1, NEW q \in 0 .. e.pos[r] - 1
               PROVE  s.kv[Address(e, r, l, q)] = Cached(l, Prefix(S[r], q + 1))
    BY DEF HoldsPast
  <2>1. q \in 0 .. p - 1 /\ l \in 0 .. CpLayers - 1
    BY <1>2, <1>3
  <2>2. q - 1 \in -1 .. p - 1 /\ (q - 1) + 2 = q + 1 /\ p - 1 \in Int /\ p - 1 >= -1
    BY <1>2, <2>1
  <2>3. Prefix(S[r], q + 1) = PassInputs(past[r], first[r], q - 1)
    BY <1>5, <2>2, PassInputsPrefix
  <2>4. Address(e, r, l, q) = CpSpot(where, r, l, q)
    BY SpotIs
  <2>5. QED
    BY <2>1, <2>3, <2>4 DEF CpState
<1>11. \A r \in 0 .. n - 1 : spot[r] \in 0 .. CpKv - 1
  BY <1>2
<1>12. Leaves(e, S, A, s.kv, D, m) /\ Grown(e, S, A, m.kv)
  <2> HIDE DEF spot, D, n
  <2>1. QED
    BY <1>8, <1>9, <1>10, <1>11, CpStepLeaves DEF D, n
<1> HIDE DEF m
<1>13. \A r \in A : out.codes[r] = SoFar(past[r], first[r], p)
  <2> SUFFICES ASSUME NEW r \in A PROVE out.codes[r] = SoFar(past[r], first[r], p)
    OBVIOUS
  <2>1. out.codes[r] = IF p = 0 THEN << >>
                       ELSE Append(s.codes[r], LmHead(p - 1, Finish([L |-> CpLayers], m.x)[r]))
    BY <1>1, <1>3 DEF Heads
  <2>2. CASE p = 0
    BY <2>1, <2>2, SoFarNext
  <2>3. CASE p # 0
    <3>1. r \in DOMAIN m.x /\ m.x[r] = Value("x", CpLayers, S[r], -1)
      BY <1>2, <1>3, <1>12 DEF Leaves
    <3> DEFINE z == [L |-> CpLayers]
    <3>2. z.L = CpLayers
      OBVIOUS
    <3> HIDE DEF z
    <3>3. Finish(z, m.x)[r] = Hidden(CpLayers, S[r])
      BY <3>1, <3>2, FinishIs
    <3>4. p - 1 \in Nat /\ (p - 1) + 1 = p
      BY <1>2, <2>3
    <3>5. LmHead(p - 1, Hidden(CpLayers, S[r])) = Code(p, past[r], first[r])
      BY <1>5, <3>4, LmHeadIs
    <3>6. s.codes[r] = SoFar(past[r], first[r], p - 1)
      BY DEF CpState
    <3>7. out.codes[r] = Append(SoFar(past[r], first[r], p - 1), Code(p, past[r], first[r]))
      BY <2>1, <2>3, <3>3, <3>5, <3>6 DEF z
    <3>8. QED
      BY <1>2, <2>3, <3>7, SoFarNext
  <2>4. QED
    BY <2>2, <2>3
<1>14. ASSUME NEW r \in A, NEW l \in 0 .. CpLayers - 1, NEW q \in 0 .. (p + 1) - 1
       PROVE  out.kv[CpSpot(where, r, l, q)] = Cached(l, PassInputs(past[r], first[r], q - 1))
  <2>1. q \in 0 .. e.pos[r] /\ l \in 0 .. e.L - 1
    BY <1>2, <1>3
  <2>2. q - 1 \in -1 .. p - 1 /\ (q - 1) + 2 = q + 1 /\ p - 1 \in Int /\ p - 1 >= -1
    BY <1>2
  <2>3. Prefix(S[r], q + 1) = PassInputs(past[r], first[r], q - 1)
    BY <1>5, <2>2, PassInputsPrefix
  <2>4. Address(e, r, l, q) = CpSpot(where, r, l, q)
    BY SpotIs
  <2>5. m.kv[Address(e, r, l, q)] = Cached(l, Prefix(S[r], q + 1))
    BY <1>12, <2>1 DEF Grown
  <2>6. out.kv = m.kv
    BY <1>1 DEF Heads
  <2>7. QED
    BY <2>3, <2>4, <2>5, <2>6
<1>15. out.kv = [a \in D |-> out.kv[a]]
  BY <1>1, <1>12 DEF Heads, Leaves
<1>16. (p + 1) - 1 = p
  BY <1>2
<1>17. QED
  BY <1>13, <1>14, <1>15, <1>16 DEF CpState, out

\* The passes of a frame.
CpStart(rows) == [kv |-> [a \in 0 .. rows * CpLayers * CpKv - 1 |-> Junk],
                  codes |-> [r \in 0 .. rows - 1 |-> << >>]]

CpRun(where, rows, hidden, first, n) ==
    LET start == [kv |-> [a \in 0 .. rows * CpLayers * CpKv - 1 |-> Junk],
                  codes |-> [r \in 0 .. rows - 1 |-> << >>]]
        passes[p \in 0 .. n] ==
            IF p = 0 THEN start
            ELSE After(passes[p - 1], LAMBDA s : CpPass(where, rows, hidden, first, s, p - 1))
    IN passes

IsCpRun(f, where, rows, hidden, first, n) ==
    f = [p \in 0 .. n |-> IF p = 0 THEN CpStart(rows)
                          ELSE CpPass(where, rows, hidden, first, f[p - 1], p - 1)]

\* That recursion defines what it says.
LEMMA CpRunExists ==
    ASSUME NEW where, NEW rows, NEW hidden, NEW first, NEW n \in Nat
    PROVE  IsCpRun(CpRun(where, rows, hidden, first, n), where, rows, hidden, first, n)
<1> DEFINE start == CpStart(rows)
           Next1(s, p) == CpPass(where, rows, hidden, first, s, p)
           Is(f, k) == IsCpRun(f, where, rows, hidden, first, k)
           G == {k \in Nat : \E f : Is(f, k)}
<1>0. \A f, k : Is(f, k) <=> f = [p \in 0 .. k |-> IF p = 0 THEN start ELSE Next1(f[p - 1], p - 1)]
  BY Zenon DEF IsCpRun
<1>00. CpRun(where, rows, hidden, first, n) =
           CHOOSE f : f = [p \in 0 .. n |->
               IF p = 0 THEN start ELSE CHOOSE w \in {Next1(u, p - 1) : u \in {f[p - 1]}} : w = w]
  BY DEF CpRun, After, CpStart
<1> HIDE DEF start, Next1, Is
<1>1. 0 \in G
  <2> DEFINE f == [p \in 0 .. 0 |-> start]
  <2>1. f = [p \in 0 .. 0 |-> IF p = 0 THEN start ELSE Next1(f[p - 1], p - 1)]
    OBVIOUS
  <2> HIDE DEF f
  <2>2. Is(f, 0)
    BY <1>0, <2>1, Zenon
  <2>3. QED
    BY <2>2
<1>2. ASSUME NEW k \in Nat, k \in G PROVE k + 1 \in G
  <2>1. PICK f : Is(f, k)
    BY <1>2
  <2> DEFINE g == [p \in 0 .. k + 1 |-> IF p = k + 1 THEN Next1(f[k], k) ELSE f[p]]
  <2>2. ASSUME NEW p \in 0 .. k + 1
        PROVE  g[p] = IF p = 0 THEN start ELSE Next1(g[p - 1], p - 1)
    <3>1. CASE p = k + 1
      BY <3>1, <1>2
    <3>2. CASE p # k + 1
      <4>1. p \in 0 .. k /\ (p # 0 => p - 1 \in 0 .. k /\ p - 1 \in 0 .. k + 1)
        BY <3>2, <1>2
      <4>2. g[p] = f[p] /\ (p # 0 => g[p - 1] = f[p - 1])
        BY <4>1, <1>2
      <4>3. f = [q \in 0 .. k |-> IF q = 0 THEN start ELSE Next1(f[q - 1], q - 1)]
        BY <1>0, <2>1, Zenon
      <4>4. f[p] = IF p = 0 THEN start ELSE Next1(f[p - 1], p - 1)
        BY <4>1, <4>3
      <4>5. QED
        BY <4>2, <4>4
    <3>3. QED
      BY <3>1, <3>2
  <2>3. g = [p \in 0 .. k + 1 |-> IF p = 0 THEN start ELSE Next1(g[p - 1], p - 1)]
    BY <2>2, Zenon
  <2> HIDE DEF g
  <2>4. Is(g, k + 1)
    BY <1>0, <2>3, Zenon
  <2>5. QED
    BY <2>4, <1>2
<1> HIDE DEF G
<1>3. \A k \in Nat : k \in G
  BY <1>1, <1>2, Counting
<1>4. \E f : Is(f, n)
  BY <1>3 DEF G
<1> DEFINE One(s, p) == CHOOSE w \in {Next1(u, p) : u \in {s}} : w = w
           Raw(f) == [p \in 0 .. n |-> IF p = 0 THEN start ELSE One(f[p - 1], p - 1)]
           Made(f) == [p \in 0 .. n |-> IF p = 0 THEN start ELSE Next1(f[p - 1], p - 1)]
<1>5. \A s, p : One(s, p) = Next1(s, p)
  OBVIOUS
<1>6. \A f : Raw(f) = Made(f)
  BY <1>5
<1>7. \E f : f = Raw(f)
  <2>1. PICK f : f = Made(f)
    BY <1>0, <1>4, Zenon
  <2> HIDE DEF Raw, Made
  <2>2. QED
    BY <2>1, <1>6
<1>8. CpRun(where, rows, hidden, first, n) = CHOOSE f : f = Raw(f)
  BY <1>00, Zenon
<1> HIDE DEF Raw
<1>9. (CHOOSE f : f = Raw(f)) = Raw(CHOOSE f : f = Raw(f))
  BY <1>7, Zenon
<1>10. CpRun(where, rows, hidden, first, n) = Made(CpRun(where, rows, hidden, first, n))
  BY <1>6, <1>8, <1>9, Zenon
<1>11. QED
  BY <1>0, <1>10, Zenon DEF Is

\* What Predict asks: the rows A are of sequences past, each at its end.
HiddenOf(where, past, hidden, A) ==
    /\ where \in Wheres /\ A \subseteq 0 .. RowsOf(where) - 1
    /\ \A r \in A : hidden[r] = Hidden(Layers, past[r])
PredictsCodes(codes, past, first, A) == \A r \in A : codes[r] = Codes(past[r], first[r])

\* For every row the code predictor gives the codes that follow the sequence and
\* first code of that row, wherever it runs and whatever its cache held.
THEOREM PredictIs ==
    ASSUME NEW where, NEW past, NEW first, NEW hidden, NEW A, HiddenOf(where, past, hidden, A)
    PROVE  PredictsCodes(Predict(where, RowsOf(where), hidden, first), past, first, A)
<1> SUFFICES ASSUME where \in Wheres, A \subseteq 0 .. RowsOf(where) - 1,
                    \A r \in A : hidden[r] = Hidden(Layers, past[r])
             PROVE  PredictsCodes(Predict(where, RowsOf(where), hidden, first), past, first, A)
  BY DEF HiddenOf
<1> DEFINE rows == RowsOf(where)
           f == CpRun(where, rows, hidden, first, Groups + 1)
           Good(p) == CpState(where, past, first, A, f[p], p)
           G == {p \in Nat : p <= Groups + 1 => Good(p)}
<1>0. Groups \in Nat
  BY CpAssumption
<1>1. \A p \in 0 .. Groups + 1 :
          f[p] = IF p = 0 THEN CpStart(rows) ELSE CpPass(where, rows, hidden, first, f[p - 1], p - 1)
  <2>1. IsCpRun(f, where, rows, hidden, first, Groups + 1)
    BY <1>0, CpRunExists
  <2>2. f = [p \in 0 .. Groups + 1 |->
                IF p = 0 THEN CpStart(rows) ELSE CpPass(where, rows, hidden, first, f[p - 1], p - 1)]
    BY <2>1, Zenon DEF IsCpRun
  <2> HIDE DEF f
  <2>3. QED
    BY <2>2
<1>2. Predict(where, rows, hidden, first) = f[Groups + 1].codes
  BY Zenon DEF Predict, CpRun
<1> HIDE DEF f
<1>3. 0 \in G
  <2>1. f[0] = CpStart(rows)
    BY <1>0, <1>1
  <2> DEFINE s == CpStart(rows)
  <2>2. s.kv = [a \in CpCells(rows) |-> s.kv[a]]
    BY DEF CpStart, CpCells
  <2>3. ASSUME NEW r \in A PROVE s.codes[r] = SoFar(past[r], first[r], 0 - 1)
    <3>1. r \in 0 .. rows - 1
      OBVIOUS
    <3>2. s.codes[r] = << >>
      BY <3>1 DEF CpStart
    <3>3. 1 .. (0 - 1) = {}
      OBVIOUS
    <3>4. SoFar(past[r], first[r], 0 - 1) = << >>
      BY <3>3 DEF SoFar
    <3>5. QED
      BY <3>2, <3>4
  <2>4. 0 .. 0 - 1 = {}
    OBVIOUS
  <2> HIDE DEF s
  <2>5. CpState(where, past, first, A, s, 0)
    BY <2>2, <2>3, <2>4 DEF CpState
  <2>6. QED
    BY <2>1, <2>5 DEF s
<1>4. ASSUME NEW p \in Nat, p \in G PROVE p + 1 \in G
  <2> SUFFICES ASSUME p + 1 <= Groups + 1 PROVE Good(p + 1)
    OBVIOUS
  <2>1. Good(p) /\ p \in 0 .. Groups /\ p + 1 \in 0 .. Groups + 1 /\ p + 1 # 0 /\ (p + 1) - 1 = p
    BY <1>0, <1>4
  <2>2. f[p + 1] = CpPass(where, rows, hidden, first, f[p], p)
    BY <1>1, <2>1
  <2>3. QED
    BY <2>1, <2>2, CpPassIs
<1> HIDE DEF G
<1>5. \A p \in Nat : p \in G
  BY <1>3, <1>4, Counting
<1>6. Good(Groups + 1)
  BY <1>0, <1>5 DEF G
<1>7. ASSUME NEW r \in A PROVE f[Groups + 1].codes[r] = Codes(past[r], first[r])
  <2>1. (Groups + 1) - 1 = Groups
    BY <1>0
  <2>2. f[Groups + 1].codes[r] = SoFar(past[r], first[r], Groups)
    BY <1>6, <2>1 DEF CpState
  <2>3. QED
    BY <2>2 DEF SoFar, Codes
<1>8. QED
  BY <1>2, <1>7 DEF PredictsCodes

-----------------------------------------------------------------------------
(* Copies between caches                                                   *)

\* Doubling, as a function.
Doubled(size, n) ==
    LET doubled[k \in 0 .. n] == IF k = 0 THEN size ELSE 2 * doubled[k - 1] IN doubled
IsDoubled(f, size, n) == f = [k \in 0 .. n |-> IF k = 0 THEN size ELSE 2 * f[k - 1]]

\* That recursion defines what it says.
LEMMA DoubledExists ==
    ASSUME NEW size, NEW n \in Nat
    PROVE  IsDoubled(Doubled(size, n), size, n)
<1> DEFINE Is(f, k) == IsDoubled(f, size, k)
           G == {k \in Nat : \E f : Is(f, k)}
<1>1. 0 \in G
  <2> DEFINE f == [k \in 0 .. 0 |-> size]
  <2>1. Is(f, 0)
    BY DEF IsDoubled
  <2>2. QED
    BY <2>1
<1>2. ASSUME NEW k \in Nat, k \in G PROVE k + 1 \in G
  <2>1. PICK f : Is(f, k)
    BY <1>2
  <2> DEFINE g == [i \in 0 .. k + 1 |-> IF i = k + 1 THEN 2 * f[k] ELSE f[i]]
  <2>2. ASSUME NEW i \in 0 .. k + 1
        PROVE  g[i] = IF i = 0 THEN size ELSE 2 * g[i - 1]
    <3>1. CASE i = k + 1
      BY <3>1, <1>2
    <3>2. CASE i # k + 1
      <4>1. i \in 0 .. k /\ (i # 0 => i - 1 \in 0 .. k /\ i - 1 \in 0 .. k + 1)
        BY <3>2, <1>2
      <4>2. g[i] = f[i] /\ (i # 0 => g[i - 1] = f[i - 1])
        BY <4>1, <1>2
      <4>3. f[i] = IF i = 0 THEN size ELSE 2 * f[i - 1]
        BY <2>1, <4>1 DEF IsDoubled
      <4>4. QED
        BY <4>2, <4>3
    <3>3. QED
      BY <3>1, <3>2
  <2>3. Is(g, k + 1)
    BY <2>2, Zenon DEF IsDoubled
  <2> HIDE DEF g, Is
  <2>4. QED
    BY <2>3, <1>2
<1> HIDE DEF G
<1>3. \A k \in Nat : k \in G
  BY <1>1, <1>2, Counting
<1>4. \E f : Is(f, n)
  BY <1>3 DEF G
<1>5. QED
  BY <1>4, Zenon DEF IsDoubled, Doubled

\* The grown kv_max has room, and does not grow without need.
LEMMA KvMaxForIs ==
    ASSUME NEW size \in Nat \ {0}, NEW n \in Nat
    PROVE  /\ KvMaxFor(size, n) \in Nat \ {0} /\ KvMaxFor(size, n) >= n
           /\ KvMaxFor(size, n) >= size
           /\ n <= size => KvMaxFor(size, n) = size
<1> DEFINE f == Doubled(size, n)
           Fit(k) == f[k] >= n /\ \A j \in 0 .. k - 1 : f[j] < n
           c == CHOOSE k \in 0 .. n : Fit(k)
           G == {k \in Nat : k <= n => f[k] \in Nat /\ f[k] >= k + 1 /\ f[k] >= size}
           H == {k \in Nat : k <= n => (\E j \in 0 .. n : Fit(j)) \/ \A j \in 0 .. k : f[j] < n}
<1>1. \A k \in 0 .. n : f[k] = IF k = 0 THEN size ELSE 2 * f[k - 1]
  BY DoubledExists DEF IsDoubled
<1>2. KvMaxFor(size, n) = f[c]
  BY Zenon DEF KvMaxFor, Doubled
<1> HIDE DEF f
<1>3. \A k \in Nat : k \in G
  <2>1. 0 \in G
    BY <1>1
  <2>2. ASSUME NEW k \in Nat, k \in G PROVE k + 1 \in G
    BY <1>1, <2>2
  <2> HIDE DEF G
  <2>3. QED
    BY <2>1, <2>2, Counting
<1>4. \A k \in 0 .. n : f[k] \in Nat /\ f[k] >= k + 1 /\ f[k] >= size
  BY <1>3
<1> HIDE DEF G
<1>5. \A k \in Nat : k \in H
  <2>1. 0 \in H
    <3>1. 0 \in 0 .. n /\ \A j \in 0 .. 0 - 1 : f[j] < n
      OBVIOUS
    <3>2. f[0] >= n => Fit(0)
      BY <3>1
    <3>3. ~(f[0] >= n) => \A j \in 0 .. 0 : f[j] < n
      BY <1>4
    <3>4. QED
      BY <3>1, <3>2, <3>3
  <2>2. ASSUME NEW k \in Nat, k \in H PROVE k + 1 \in H
    <3> SUFFICES ASSUME k + 1 <= n, ~(\E j \in 0 .. n : Fit(j))
                 PROVE  \A j \in 0 .. k + 1 : f[j] < n
      OBVIOUS
    <3>1. \A j \in 0 .. k : f[j] < n
      BY <2>2
    <3>2. k + 1 \in 0 .. n /\ ~Fit(k + 1)
      OBVIOUS
    <3>3. \A j \in 0 .. (k + 1) - 1 : f[j] < n
      BY <3>1
    <3>4. f[k + 1] < n
      BY <1>4, <3>2, <3>3
    <3>5. QED
      BY <3>1, <3>4
  <2> HIDE DEF H
  <2>3. QED
    BY <2>1, <2>2, Counting
<1>6. \E j \in 0 .. n : Fit(j)
  <2>1. (\E j \in 0 .. n : Fit(j)) \/ \A j \in 0 .. n : f[j] < n
    BY <1>5
  <2>2. f[n] >= n + 1 /\ f[n] \in Nat /\ n \in 0 .. n
    BY <1>4
  <2>3. QED
    BY <2>1, <2>2
<1>7. c \in 0 .. n /\ Fit(c)
  <2> HIDE DEF Fit
  <2>1. QED
    BY <1>6, Zenon
<1> HIDE DEF c
<1>8. f[c] \in Nat \ {0} /\ f[c] >= n /\ f[c] >= size
  BY <1>4, <1>7
<1>9. n <= size => f[c] = size
  <2> SUFFICES ASSUME n <= size PROVE c = 0
    BY <1>1, <1>7
  <2>1. f[0] = size
    BY <1>1
  <2>2. 0 \in 0 .. c - 1 => f[0] < n
    BY <1>7
  <2>3. QED
    BY <1>7, <2>1, <2>2
<1>10. QED
  BY <1>2, <1>8, <1>9

\* A cell by its number.
LEMMA CellParts ==
    ASSUME NEW k \in Nat \ {0}, NEW a \in Nat, NEW p \in 0 .. k - 1
    PROVE  Cell(a, k, p) % k = p /\ Cell(a, k, p) \div k = a
<1> DEFINE c == Cell(a, k, p)
<1>1. c \in Nat
  <2>1. a * k \in Nat
    OBVIOUS
  <2>2. QED
    BY <2>1 DEF Cell
<1> HIDE DEF c
<1>2. c % k \in 0 .. k - 1 /\ c \div k \in Nat /\ c = ((c \div k) * k) + (c % k)
  BY <1>1
<1>3. Cell(c \div k, k, c % k) = Cell(a, k, p)
  <2>1. Cell(c \div k, k, c % k) = c
    BY <1>2, Zenon DEF Cell
  <2>2. QED
    BY <2>1 DEF c
<1>4. QED
  BY <1>2, <1>3, CellUnique DEF c

\* A growing cache keeps every position at its new place.
LEMMA GrowIs ==
    ASSUME NEW size \in Nat \ {0}, NEW kv, kv = [a \in OneCells(size) |-> kv[a]], NEW n \in Nat,
           NEW kvLen \in Nat, kvLen <= size, NEW s, OneHolds(kv, size, s, kvLen)
    PROVE  LET w == Grow(kv, size, kvLen, n)
           IN /\ w = [a \in OneCells(KvMaxFor(size, n)) |-> w[a]]
              /\ OneHolds(w, KvMaxFor(size, n), s, kvLen)
<1> DEFINE new == KvMaxFor(size, n)
           w == Grow(kv, size, kvLen, n)
<1>1. new \in Nat \ {0} /\ new >= size
  BY KvMaxForIs
<1>2. w = [a \in OneCells(new) |->
              IF new = size THEN kv[a]
              ELSE IF a % new < kvLen THEN kv[((a \div new) * size) + (a % new)] ELSE Junk]
  BY Zenon DEF Grow, OneCells, Size
<1> HIDE DEF new, w
<1>3. ASSUME NEW l \in 0 .. Layers - 1, NEW p \in 0 .. kvLen - 1
      PROVE  w[Cell(l, new, p)] = Cached(l, Prefix(s, p + 1))
  <2>1. Layers \in Nat /\ l \in Nat /\ p \in 0 .. new - 1
    BY <1>1, TalkerAssumption
  <2>2. Cell(l, new, p) \in OneCells(new)
    BY <1>1, <2>1, CellIn DEF OneCells
  <2>3. Cell(l, new, p) % new = p /\ Cell(l, new, p) \div new = l
    BY <1>1, <2>1, CellParts
  <2>4. (l * size) + p = Cell(l, size, p)
    BY DEF Cell
  <2>5. w[Cell(l, new, p)] = kv[Cell(l, size, p)]
    <3> DEFINE a == Cell(l, new, p)
    <3>1. w[a] = IF new = size THEN kv[a]
                 ELSE IF a % new < kvLen THEN kv[((a \div new) * size) + (a % new)] ELSE Junk
      BY <1>2, <2>2
    <3>2. a % new = p /\ a \div new = l
      BY <2>3
    <3> HIDE DEF a
    <3>3. p < kvLen
      OBVIOUS
    <3>4. CASE new = size
      BY <3>1, <3>4 DEF a
    <3>5. CASE new # size
      <4>1. w[a] = kv[(l * size) + p]
        BY <3>1, <3>2, <3>3, <3>5
      <4>2. QED
        BY <4>1, <2>4 DEF a
    <3>6. QED
      BY <3>4, <3>5
  <2>6. QED
    BY <2>5 DEF OneHolds
<1>4. QED
  BY <1>2, <1>3 DEF OneHolds, new, w

\* No two layers of a copy meet.
Apart(dst, n) ==
    \A l, j \in 0 .. Layers - 1, p, q \in 0 .. n - 1 : dst[l] + p = dst[j] + q => l = j /\ p = q

Starts(dst) == dst = [l \in 0 .. Layers - 1 |-> dst[l]] /\ \A l \in 0 .. Layers - 1 : dst[l] \in Nat

\* What a copy does.
Copied(w, to, dst, from, src, n) ==
    /\ w = [a \in DOMAIN to |-> w[a]]
    /\ \A l \in 0 .. Layers - 1, p \in 0 .. n - 1 :
          dst[l] + p \in DOMAIN to /\ src[l] + p \in DOMAIN from
          => w[dst[l] + p] = from[src[l] + p]
    /\ \A a \in DOMAIN to :
          (\A l \in 0 .. Layers - 1, p \in 0 .. n - 1 : a # dst[l] + p) => w[a] = to[a]

\* A copy is what Copied says.
LEMMA CopyIs ==
    ASSUME NEW to, NEW dst, Starts(dst), NEW from, NEW src, Starts(src), NEW n \in Nat, Apart(dst, n)
    PROVE  Copied(CopyLayers(to, dst, from, src, n), to, dst, from, src, n)
<1> DEFINE w == CopyLayers(to, dst, from, src, n)
           In(a, l) == a \in dst[l] .. dst[l] + n - 1
           Which(a) == CHOOSE l \in DOMAIN dst : In(a, l) /\ \A k \in l + 1 .. Layers - 1 : ~In(a, k)
           Source(a) == src[Which(a)] + a - dst[Which(a)]
<1>0. Layers \in Nat /\ DOMAIN dst = 0 .. Layers - 1
  BY TalkerAssumption DEF Starts
<1>1. \A a \in DOMAIN to :
         w[a] = IF \E l \in DOMAIN dst : In(a, l)
                THEN IF Source(a) \in DOMAIN from THEN from[Source(a)] ELSE Junk
                ELSE to[a]
  BY DEF CopyLayers
<1>2. w = [a \in DOMAIN to |-> w[a]]
  BY DEF CopyLayers
<1> HIDE DEF w
<1>3. ASSUME NEW l \in 0 .. Layers - 1, NEW p \in 0 .. n - 1,
             dst[l] + p \in DOMAIN to, src[l] + p \in DOMAIN from
      PROVE  w[dst[l] + p] = from[src[l] + p]
  <2> DEFINE a == dst[l] + p
  <2>1. dst[l] \in Nat /\ src[l] \in Nat /\ l \in DOMAIN dst
    BY <1>0 DEF Starts
  <2>2. In(a, l)
    BY <2>1
  <2>3. \A j \in 0 .. Layers - 1 : In(a, j) => j = l
    <3> SUFFICES ASSUME NEW j \in 0 .. Layers - 1, In(a, j) PROVE j = l
      OBVIOUS
    <3>1. dst[j] \in Nat
      BY DEF Starts
    <3>2. a - dst[j] \in 0 .. n - 1 /\ dst[j] + (a - dst[j]) = dst[l] + p
      BY <2>1, <3>1
    <3>3. QED
      BY <3>2 DEF Apart
  <2> HIDE DEF In
  <2>4. \A k \in l + 1 .. Layers - 1 : ~In(a, k)
    <3> SUFFICES ASSUME NEW k \in l + 1 .. Layers - 1, In(a, k) PROVE FALSE
      OBVIOUS
    <3>1. k \in 0 .. Layers - 1 /\ k # l
      BY <1>0
    <3>2. QED
      BY <2>3, <3>1
  <2>5. Which(a) \in DOMAIN dst /\ In(a, Which(a))
    <3>1. \E k \in DOMAIN dst : In(a, k) /\ \A j \in k + 1 .. Layers - 1 : ~In(a, j)
      BY <2>1, <2>2, <2>4
    <3>2. QED
      BY <3>1, Zenon
  <2>6. Which(a) = l
    BY <1>0, <2>3, <2>5
  <2> HIDE DEF Which
  <2>7. Source(a) = src[l] + p
    BY <2>1, <2>6
  <2>8. QED
    BY <1>1, <1>3, <2>1, <2>2, <2>7
<1>4. ASSUME NEW a \in DOMAIN to, \A l \in 0 .. Layers - 1, p \in 0 .. n - 1 : a # dst[l] + p
      PROVE  w[a] = to[a]
  <2>1. ASSUME NEW l \in DOMAIN dst, In(a, l) PROVE FALSE
    <3>1. l \in 0 .. Layers - 1 /\ dst[l] \in Nat
      BY <1>0 DEF Starts
    <3>2. a - dst[l] \in 0 .. n - 1 /\ a = dst[l] + (a - dst[l])
      BY <2>1, <3>1
    <3>3. QED
      BY <1>4, <3>1, <3>2
  <2> HIDE DEF In, Source
  <2>2. QED
    BY <1>1, <2>1
<1>5. QED
  BY <1>2, <1>3, <1>4 DEF Copied, w

\* Where the layers of the caches start.
LEMMA AtIs ==
    ASSUME NEW base \in Nat, NEW stride \in Nat
    PROVE  Starts(At(base, stride))
<1>1. Layers \in Nat /\ \A l \in 0 .. Layers - 1 : base + l * stride \in Nat
  <2>1. Layers \in Nat
    BY TalkerAssumption
  <2>2. ASSUME NEW l \in 0 .. Layers - 1 PROVE base + l * stride \in Nat
    <3>1. l \in Nat
      BY <2>1
    <3>2. l * stride \in Nat
      BY <3>1
    <3>3. QED
      BY <3>2
  <2>3. QED
    BY <2>1, <2>2
<1>2. QED
  BY <1>1 DEF Starts, At

\* Where the layers start, as cells: of one sequence,
LEMMA OneAt ==
    ASSUME NEW k \in Nat
    PROVE  \A l \in 0 .. Layers - 1, p \in Nat : At(0, k)[l] + p = Cell(l, k, p)
<1> SUFFICES ASSUME NEW l \in 0 .. Layers - 1, NEW p \in Nat PROVE At(0, k)[l] + p = Cell(l, k, p)
  OBVIOUS
<1>1. l \in Nat
  BY TalkerAssumption
<1>2. l * k \in Nat
  BY <1>1
<1>3. At(0, k)[l] = 0 + l * k
  BY DEF At
<1>4. QED
  BY <1>2, <1>3 DEF Cell

\* ... of a slot of the host's batch,
LEMMA SlotAtIs ==
    ASSUME NEW b \in Slot
    PROVE  /\ \A l \in 0 .. Layers - 1, p \in Nat :
                 SlotAt(b)[l] + p = Cell(Cell(b, Layers, l), BatchKv, p)
           /\ Starts(SlotAt(b))
<1>1. Layers \in Nat /\ B \in Nat /\ BatchKv \in Nat /\ b \in Nat
  BY TalkerAssumption DEF Slot
<1>2. b * Layers \in Nat
  BY <1>1
<1>3. (b * Layers) * BatchKv \in Nat
  BY <1>1, <1>2
<1>4. ASSUME NEW l \in 0 .. Layers - 1, NEW p \in Nat
      PROVE  SlotAt(b)[l] + p = Cell(Cell(b, Layers, l), BatchKv, p)
  <2>1. l \in Nat
    BY <1>1
  <2>2. (b * Layers + l) * BatchKv = (b * Layers) * BatchKv + l * BatchKv
    BY <1>1, <1>2, <2>1
  <2>3. SlotAt(b)[l] = (b * Layers) * BatchKv + l * BatchKv
    BY DEF SlotAt, At
  <2>4. QED
    BY <2>2, <2>3 DEF Cell
<1>5. Starts(SlotAt(b))
  BY <1>1, <1>3, AtIs DEF SlotAt
<1>6. QED
  BY <1>4, <1>5

\* ... and of the device's.
LEMMA DeviceSlotAtIs ==
    ASSUME NEW b \in Slot
    PROVE  /\ \A l \in 0 .. Layers - 1, p \in Nat :
                 DeviceSlotAt(b)[l] + p = Cell(Cell(l, B, b), DeviceKv, p)
           /\ Starts(DeviceSlotAt(b))
<1>1. Layers \in Nat /\ B \in Nat /\ DeviceKv \in Nat /\ b \in Nat
  BY TalkerAssumption DEF Slot
<1>2. b * DeviceKv \in Nat /\ B * DeviceKv \in Nat
  BY <1>1
<1>3. ASSUME NEW l \in 0 .. Layers - 1, NEW p \in Nat
      PROVE  DeviceSlotAt(b)[l] + p = Cell(Cell(l, B, b), DeviceKv, p)
  <2>1. l \in Nat
    BY <1>1
  <2>2. l * (B * DeviceKv) = (l * B) * DeviceKv /\ l * B \in Nat
    BY <1>1, <2>1
  <2>3. (l * B + b) * DeviceKv = (l * B) * DeviceKv + b * DeviceKv
    BY <1>1, <2>2
  <2>4. DeviceSlotAt(b)[l] = b * DeviceKv + l * (B * DeviceKv)
    BY DEF DeviceSlotAt, At
  <2>5. (l * B) * DeviceKv \in Nat
    BY <1>1, <2>2
  <2>6. QED
    BY <1>2, <2>2, <2>3, <2>4, <2>5 DEF Cell
<1>4. Starts(DeviceSlotAt(b))
  BY <1>2, AtIs DEF DeviceSlotAt
<1>5. QED
  BY <1>3, <1>4

\* The cells of the three layouts.
LEMMA OneCellsAre ==
    ASSUME NEW k \in Nat
    PROVE  /\ \A l \in 0 .. Layers - 1, p \in 0 .. k - 1 : Cell(l, k, p) \in OneCells(k)
           /\ \A l, j \in 0 .. Layers - 1, p, q \in 0 .. k - 1 :
                 Cell(l, k, p) = Cell(j, k, q) => l = j /\ p = q
<1>1. Layers \in Nat
  BY TalkerAssumption
<1>2. \A l \in 0 .. Layers - 1, p \in 0 .. k - 1 : Cell(l, k, p) \in OneCells(k)
  BY <1>1, CellIn DEF OneCells
<1>3. \A l, j \in 0 .. Layers - 1, p, q \in 0 .. k - 1 :
                 Cell(l, k, p) = Cell(j, k, q) => l = j /\ p = q
  BY <1>1, CellUnique
<1>4. QED
  BY <1>2, <1>3

LEMMA SlotCellsAre ==
    /\ \A b \in Slot, l \in 0 .. Layers - 1, p \in 0 .. BatchKv - 1 :
          Cell(Cell(b, Layers, l), BatchKv, p) \in SlotCells
    /\ \A b, c \in Slot, l, j \in 0 .. Layers - 1, p, q \in 0 .. BatchKv - 1 :
          Cell(Cell(b, Layers, l), BatchKv, p) = Cell(Cell(c, Layers, j), BatchKv, q)
          => b = c /\ l = j /\ p = q
<1> DEFINE e == BatchEnv(<< >>, {})
<1>1. Layers \in Nat /\ B \in Nat /\ BatchKv \in Nat
  BY TalkerAssumption
<1>2. e.rows = B /\ e.L = Layers /\ e.slot = e.L * BatchKv /\ e.layer = BatchKv
  BY DEF BatchEnv
<1> HIDE DEF e
<1>3. /\ Layout(e, BatchKv, SlotCells)
      /\ \A r \in 0 .. e.rows - 1, l \in 0 .. e.L - 1, p \in 0 .. BatchKv - 1 :
            Address(e, r, l, p) = Cell(Cell(r, e.L, l), BatchKv, p)
  BY <1>1, <1>2, SlotRows DEF SlotCells
<1>4. QED
  BY <1>2, <1>3 DEF Layout, Slot

LEMMA LayerCellsAre ==
    /\ \A b \in Slot, l \in 0 .. Layers - 1, p \in 0 .. DeviceKv - 1 :
          Cell(Cell(l, B, b), DeviceKv, p) \in LayerCells
    /\ \A b, c \in Slot, l, j \in 0 .. Layers - 1, p, q \in 0 .. DeviceKv - 1 :
          Cell(Cell(l, B, b), DeviceKv, p) = Cell(Cell(j, B, c), DeviceKv, q)
          => b = c /\ l = j /\ p = q
<1> DEFINE e == DeviceBatchEnv(<< >>)
<1>1. Layers \in Nat /\ B \in Nat /\ DeviceKv \in Nat
  BY TalkerAssumption
<1>2. e.rows = B /\ e.L = Layers /\ e.slot = DeviceKv /\ e.layer = e.rows * DeviceKv
  BY DEF DeviceBatchEnv
<1> HIDE DEF e
<1>3. /\ Layout(e, DeviceKv, LayerCells)
      /\ \A r \in 0 .. e.rows - 1, l \in 0 .. e.L - 1, p \in 0 .. DeviceKv - 1 :
            Address(e, r, l, p) = Cell(Cell(l, e.rows, r), DeviceKv, p)
  BY <1>1, <1>2, LayerRows DEF LayerCells
<1>4. QED
  BY <1>2, <1>3 DEF Layout, Slot

\* What a copy of a sequence's first n positions leaves: them, and the rest as it
\* was.
CopiedAs(w, to, dst, n, s) ==
    /\ w = [a \in DOMAIN to |-> w[a]]
    /\ \A l \in 0 .. Layers - 1, p \in 0 .. n - 1 : w[dst[l] + p] = Cached(l, Prefix(s, p + 1))
    /\ \A a \in DOMAIN to :
          (\A l \in 0 .. Layers - 1, p \in 0 .. n - 1 : a # dst[l] + p) => w[a] = to[a]

\* A copy of a sequence's first n positions, from a cache to a cache.
LEMMA CopyHolds ==
    ASSUME NEW to, NEW dst, Starts(dst), NEW from, NEW src, Starts(src), NEW n \in Nat, Apart(dst, n),
           \A l \in 0 .. Layers - 1, p \in 0 .. n - 1 :
               dst[l] + p \in DOMAIN to /\ src[l] + p \in DOMAIN from,
           NEW s, \A l \in 0 .. Layers - 1, p \in 0 .. n - 1 :
                      from[src[l] + p] = Cached(l, Prefix(s, p + 1))
    PROVE  CopiedAs(CopyLayers(to, dst, from, src, n), to, dst, n, s)
<1> DEFINE w == CopyLayers(to, dst, from, src, n)
<1>1. Copied(w, to, dst, from, src, n)
  BY CopyIs
<1> HIDE DEF w
<1>2. CopiedAs(w, to, dst, n, s)
  BY <1>1 DEF Copied, CopiedAs
<1>3. QED
  BY <1>2 DEF w

\* The prefill helper's snapshot.
LEMMA SnapshotIs ==
    ASSUME NEW k \in Nat, NEW n \in Nat, n <= k, NEW kv, kv = [a \in OneCells(k) |-> kv[a]],
           NEW s, OneHolds(kv, k, s, n)
    PROVE  LET w == Snapshot(kv, k, n)
           IN w = [a \in OneCells(n) |-> w[a]] /\ OneHolds(w, n, s, n)
<1> DEFINE to == [a \in 0 .. Layers * n - 1 |-> Junk]
           dst == At(0, n)
           src == At(0, k)
           w == CopyLayers(to, dst, kv, src, n)
<1>1. Starts(dst) /\ Starts(src)
  BY AtIs
<1>2. \A l \in 0 .. Layers - 1, p \in 0 .. n - 1 :
          dst[l] + p = Cell(l, n, p) /\ src[l] + p = Cell(l, k, p)
  <2>1. \A p \in 0 .. n - 1 : p \in Nat
    OBVIOUS
  <2>2. QED
    BY <2>1, OneAt
<1>3. DOMAIN to = OneCells(n) /\ DOMAIN kv = OneCells(k)
  BY DEF OneCells, Size
<1> HIDE DEF to, dst, src, w
<1>4. \A l \in 0 .. Layers - 1, p \in 0 .. n - 1 :
          /\ dst[l] + p \in DOMAIN to /\ src[l] + p \in DOMAIN kv
          /\ kv[src[l] + p] = Cached(l, Prefix(s, p + 1))
  <2> SUFFICES ASSUME NEW l \in 0 .. Layers - 1, NEW p \in 0 .. n - 1
               PROVE  /\ dst[l] + p \in DOMAIN to /\ src[l] + p \in DOMAIN kv
                      /\ kv[src[l] + p] = Cached(l, Prefix(s, p + 1))
    OBVIOUS
  <2>1. p \in 0 .. k - 1
    OBVIOUS
  <2>2. Cell(l, n, p) \in OneCells(n) /\ Cell(l, k, p) \in OneCells(k)
    BY <2>1, OneCellsAre
  <2>3. QED
    BY <1>2, <1>3, <2>2 DEF OneHolds
<1>5. Apart(dst, n)
  <2>1. \A l, j \in 0 .. Layers - 1, p, q \in 0 .. n - 1 :
                 Cell(l, n, p) = Cell(j, n, q) => l = j /\ p = q
    BY OneCellsAre
  <2>2. QED
    BY <1>2, <2>1 DEF Apart
<1>6. /\ w = [a \in DOMAIN to |-> w[a]]
      /\ \A l \in 0 .. Layers - 1, p \in 0 .. n - 1 : w[dst[l] + p] = Cached(l, Prefix(s, p + 1))
  <2>1. CopiedAs(w, to, dst, n, s)
    BY <1>1, <1>4, <1>5, CopyHolds DEF w
  <2>2. QED
    BY <2>1 DEF CopiedAs
<1>7. Snapshot(kv, k, n) = w
  BY Zenon DEF Snapshot, w, to, dst, src
<1>8. QED
  BY <1>2, <1>3, <1>6, <1>7 DEF OneHolds

\* The upload of a single sequence, when the host's cache has the stride of
\* the device's.
LEMMA UploadKvIs ==
    ASSUME NEW gpu, gpu = [a \in OneCells(DeviceKv) |-> gpu[a]],
           NEW kv, kv = [a \in OneCells(DeviceKv) |-> kv[a]], NEW n \in Nat, n <= DeviceKv,
           NEW s, OneHolds(kv, DeviceKv, s, n)
    PROVE  LET w == UploadKv(gpu, kv, n)
           IN w = [a \in OneCells(DeviceKv) |-> w[a]] /\ OneHolds(w, DeviceKv, s, n)
<1> DEFINE k == DeviceKv
           dst == At(0, k)
           w == CopyLayers(gpu, dst, kv, dst, n)
<1>0. k \in Nat
  BY TalkerAssumption
<1>1. Starts(dst)
  BY <1>0, AtIs
<1>2. \A l \in 0 .. Layers - 1, p \in 0 .. n - 1 : p \in 0 .. k - 1 /\ dst[l] + p = Cell(l, k, p)
  <2>1. \A p \in 0 .. n - 1 : p \in Nat /\ p \in 0 .. k - 1
    BY <1>0
  <2>2. QED
    BY <1>0, <2>1, OneAt
<1>3. DOMAIN gpu = OneCells(k) /\ DOMAIN kv = OneCells(k)
  OBVIOUS
<1> HIDE DEF dst, w
<1>4. \A l \in 0 .. Layers - 1, p \in 0 .. n - 1 :
          /\ dst[l] + p \in DOMAIN gpu /\ dst[l] + p \in DOMAIN kv
          /\ kv[dst[l] + p] = Cached(l, Prefix(s, p + 1))
  <2> SUFFICES ASSUME NEW l \in 0 .. Layers - 1, NEW p \in 0 .. n - 1
               PROVE  /\ dst[l] + p \in DOMAIN gpu /\ dst[l] + p \in DOMAIN kv
                      /\ kv[dst[l] + p] = Cached(l, Prefix(s, p + 1))
    OBVIOUS
  <2>1. Cell(l, k, p) \in OneCells(k)
    BY <1>0, <1>2, OneCellsAre
  <2>2. QED
    BY <1>2, <1>3, <2>1 DEF OneHolds
<1>5. Apart(dst, n)
  <2>1. \A l, j \in 0 .. Layers - 1, p, q \in 0 .. k - 1 :
                 Cell(l, k, p) = Cell(j, k, q) => l = j /\ p = q
    BY <1>0, OneCellsAre
  <2>2. QED
    BY <1>2, <2>1 DEF Apart
<1>6. /\ w = [a \in DOMAIN gpu |-> w[a]]
      /\ \A l \in 0 .. Layers - 1, p \in 0 .. n - 1 : w[dst[l] + p] = Cached(l, Prefix(s, p + 1))
  <2>1. CopiedAs(w, gpu, dst, n, s)
    BY <1>1, <1>4, <1>5, CopyHolds DEF w
  <2>2. QED
    BY <2>1 DEF CopiedAs
<1>7. UploadKv(gpu, kv, n) = w
  BY Zenon DEF UploadKv, w, dst
<1>8. QED
  BY <1>2, <1>3, <1>6, <1>7 DEF OneHolds

\* What filling slot b asks of the caches, and of the sequences S and lengths N
\* of the slots A, which become S2 and N2.
Filling(b, slots, from, k, n, s, A, S, N, S2, N2) ==
    /\ slots = [a \in SlotCells |-> slots[a]] /\ from = [a \in OneCells(k) |-> from[a]]
    /\ k \in Nat /\ n \in Nat /\ n <= k /\ n <= BatchKv /\ OneHolds(from, k, s, n)
    /\ b \in Slot /\ A \in SUBSET Slot /\ b \notin A
    /\ \A c \in A : N[c] \in 0 .. BatchKv
    /\ SlotsHold(slots, S, A, N)
    /\ \A c \in A : S2[c] = S[c] /\ N2[c] = N[c]
    /\ S2[b] = s /\ N2[b] = n
Filled(w, b, A, S2, N2) == w = [a \in SlotCells |-> w[a]] /\ SlotsHold(w, S2, A \cup {b}, N2)

\* Slot b of the batch's cache is filled; the other slots' stay.
LEMMA FillSlotIs ==
    ASSUME NEW b, NEW slots, NEW from, NEW k, NEW n, NEW s, NEW A, NEW S, NEW N, NEW S2, NEW N2,
           Filling(b, slots, from, k, n, s, A, S, N, S2, N2)
    PROVE  Filled(FillSlot(slots, b, from, k, n), b, A, S2, N2)
<1> SUFFICES ASSUME b \in Slot, slots = [a \in SlotCells |-> slots[a]],
                    k \in Nat, n \in Nat, n <= k, n <= BatchKv,
                    from = [a \in OneCells(k) |-> from[a]], OneHolds(from, k, s, n),
                    A \in SUBSET Slot, b \notin A,
                    \A c \in A : N[c] \in 0 .. BatchKv, SlotsHold(slots, S, A, N),
                    \A c \in A : S2[c] = S[c] /\ N2[c] = N[c], S2[b] = s, N2[b] = n
             PROVE  Filled(FillSlot(slots, b, from, k, n), b, A, S2, N2)
  BY DEF Filling
<1> DEFINE dst == SlotAt(b)
           src == At(0, k)
           w == CopyLayers(slots, dst, from, src, n)
<1>0. Layers \in Nat /\ BatchKv \in Nat
  BY TalkerAssumption
<1>1. Starts(dst) /\ Starts(src)
  BY AtIs, SlotAtIs
<1>2. \A l \in 0 .. Layers - 1, p \in 0 .. n - 1 :
          /\ p \in 0 .. k - 1 /\ p \in 0 .. BatchKv - 1
          /\ dst[l] + p = Cell(Cell(b, Layers, l), BatchKv, p) /\ src[l] + p = Cell(l, k, p)
  <2>1. \A p \in 0 .. n - 1 : p \in Nat /\ p \in 0 .. k - 1 /\ p \in 0 .. BatchKv - 1
    BY <1>0
  <2>2. QED
    BY <2>1, OneAt, SlotAtIs
<1>3. DOMAIN slots = SlotCells /\ DOMAIN from = OneCells(k)
  OBVIOUS
<1>4. FillSlot(slots, b, from, k, n) = w
  BY Zenon DEF FillSlot
<1> HIDE DEF dst, src, w
<1>5. \A l \in 0 .. Layers - 1, p \in 0 .. n - 1 :
          /\ dst[l] + p \in DOMAIN slots /\ src[l] + p \in DOMAIN from
          /\ from[src[l] + p] = Cached(l, Prefix(s, p + 1))
  <2> SUFFICES ASSUME NEW l \in 0 .. Layers - 1, NEW p \in 0 .. n - 1
               PROVE  /\ dst[l] + p \in DOMAIN slots /\ src[l] + p \in DOMAIN from
                      /\ from[src[l] + p] = Cached(l, Prefix(s, p + 1))
    OBVIOUS
  <2>1. Cell(l, k, p) \in OneCells(k)
    BY <1>2, OneCellsAre
  <2>2. Cell(Cell(b, Layers, l), BatchKv, p) \in SlotCells
    BY <1>2, SlotCellsAre
  <2>3. QED
    BY <1>2, <1>3, <2>1, <2>2 DEF OneHolds
<1>6. Apart(dst, n)
  <2> SUFFICES ASSUME NEW l \in 0 .. Layers - 1, NEW j \in 0 .. Layers - 1,
                      NEW p \in 0 .. n - 1, NEW q \in 0 .. n - 1, dst[l] + p = dst[j] + q
               PROVE  l = j /\ p = q
    BY DEF Apart
  <2>1. Cell(Cell(b, Layers, l), BatchKv, p) = Cell(Cell(b, Layers, j), BatchKv, q)
    BY <1>2
  <2>2. QED
    BY <1>2, <2>1, SlotCellsAre
<1>7. CopiedAs(w, slots, dst, n, s)
  BY <1>1, <1>5, <1>6, CopyHolds DEF w
<1>8. SlotsHold(w, S2, A \cup {b}, N2)
  <2> SUFFICES ASSUME NEW c \in A \cup {b}, NEW l \in 0 .. Layers - 1, NEW p \in 0 .. N2[c] - 1
               PROVE  w[Cell(Cell(c, Layers, l), BatchKv, p)] = Cached(l, Prefix(S2[c], p + 1))
    BY DEF SlotsHold
  <2>1. CASE c = b
    <3>1. p \in 0 .. n - 1 /\ S2[c] = s
      BY <2>1
    <3>2. QED
      BY <1>2, <1>7, <2>1, <3>1 DEF CopiedAs
  <2>2. CASE c # b
    <3>1. c \in A /\ c \in Slot /\ S2[c] = S[c] /\ N2[c] = N[c] /\ N[c] \in 0 .. BatchKv
      BY <2>2
    <3>2. p \in 0 .. N[c] - 1 /\ p \in 0 .. BatchKv - 1
      BY <1>0, <3>1
    <3> DEFINE a == Cell(Cell(c, Layers, l), BatchKv, p)
    <3>3. a \in SlotCells
      BY <3>1, <3>2, SlotCellsAre
    <3>4. ASSUME NEW j \in 0 .. Layers - 1, NEW q \in 0 .. n - 1, a = dst[j] + q PROVE FALSE
      <4>1. Cell(Cell(c, Layers, l), BatchKv, p) = Cell(Cell(b, Layers, j), BatchKv, q)
            /\ q \in 0 .. BatchKv - 1
        BY <1>2, <3>4
      <4>2. c = b
        BY <3>1, <3>2, <4>1, SlotCellsAre
      <4>3. QED
        BY <2>2, <4>2
    <3>5. slots[a] = Cached(l, Prefix(S[c], p + 1))
      BY <3>1, <3>2 DEF SlotsHold
    <3> HIDE DEF a
    <3>6. w[a] = slots[a]
      BY <1>3, <1>7, <3>3, <3>4 DEF CopiedAs
    <3>7. QED
      BY <3>1, <3>5, <3>6 DEF a
  <2>3. QED
    BY <2>1, <2>2
<1>9. w = [a \in SlotCells |-> w[a]]
  BY <1>3, <1>7 DEF CopiedAs
<1>10. QED
  BY <1>4, <1>8, <1>9 DEF Filled

\* ... and what uploading it asks.
Uploading(b, gpu, slots, n, A, S, N, S2, N2) ==
    /\ gpu = [a \in LayerCells |-> gpu[a]] /\ slots = [a \in SlotCells |-> slots[a]]
    /\ n \in Nat /\ n <= BatchKv /\ n <= DeviceKv /\ SlotsHold(slots, S2, {b}, N2)
    /\ b \in Slot /\ A \in SUBSET Slot /\ b \notin A /\ N2[b] = n
    /\ \A c \in A : N[c] \in 0 .. DeviceKv
    /\ LayersHold(gpu, S, A, N)
    /\ \A c \in A : S2[c] = S[c] /\ N2[c] = N[c]
Uploaded(w, b, A, S2, N2) == w = [a \in LayerCells |-> w[a]] /\ LayersHold(w, S2, A \cup {b}, N2)

\* ... and the same of the device's, from the batch's.
LEMMA UploadSlotIs ==
    ASSUME NEW b, NEW gpu, NEW slots, NEW n, NEW A, NEW S, NEW N, NEW S2, NEW N2,
           Uploading(b, gpu, slots, n, A, S, N, S2, N2)
    PROVE  Uploaded(UploadSlot(gpu, b, slots, n), b, A, S2, N2)
<1> SUFFICES ASSUME b \in Slot, gpu = [a \in LayerCells |-> gpu[a]],
                    n \in Nat, n <= BatchKv, n <= DeviceKv,
                    slots = [a \in SlotCells |-> slots[a]], SlotsHold(slots, S2, {b}, N2),
                    N2[b] = n, A \in SUBSET Slot, b \notin A,
                    \A c \in A : N[c] \in 0 .. DeviceKv, LayersHold(gpu, S, A, N),
                    \A c \in A : S2[c] = S[c] /\ N2[c] = N[c]
             PROVE  Uploaded(UploadSlot(gpu, b, slots, n), b, A, S2, N2)
  BY DEF Uploading
<1> DEFINE dst == DeviceSlotAt(b)
           src == SlotAt(b)
           s == S2[b]
           w == CopyLayers(gpu, dst, slots, src, n)
<1>0. Layers \in Nat /\ BatchKv \in Nat /\ DeviceKv \in Nat
  BY TalkerAssumption
<1>1. Starts(dst) /\ Starts(src)
  BY SlotAtIs, DeviceSlotAtIs
<1>2. \A l \in 0 .. Layers - 1, p \in 0 .. n - 1 :
          /\ p \in 0 .. DeviceKv - 1 /\ p \in 0 .. BatchKv - 1
          /\ dst[l] + p = Cell(Cell(l, B, b), DeviceKv, p)
          /\ src[l] + p = Cell(Cell(b, Layers, l), BatchKv, p)
  <2>1. \A p \in 0 .. n - 1 : p \in Nat /\ p \in 0 .. DeviceKv - 1 /\ p \in 0 .. BatchKv - 1
    BY <1>0
  <2>2. QED
    BY <2>1, SlotAtIs, DeviceSlotAtIs
<1>3. DOMAIN gpu = LayerCells /\ DOMAIN slots = SlotCells
  OBVIOUS
<1>4. UploadSlot(gpu, b, slots, n) = w
  BY Zenon DEF UploadSlot
<1> HIDE DEF dst, src, w
<1>5. \A l \in 0 .. Layers - 1, p \in 0 .. n - 1 :
          /\ dst[l] + p \in DOMAIN gpu /\ src[l] + p \in DOMAIN slots
          /\ slots[src[l] + p] = Cached(l, Prefix(s, p + 1))
  <2> SUFFICES ASSUME NEW l \in 0 .. Layers - 1, NEW p \in 0 .. n - 1
               PROVE  /\ dst[l] + p \in DOMAIN gpu /\ src[l] + p \in DOMAIN slots
                      /\ slots[src[l] + p] = Cached(l, Prefix(s, p + 1))
    OBVIOUS
  <2>1. Cell(Cell(l, B, b), DeviceKv, p) \in LayerCells
    BY <1>2, LayerCellsAre
  <2>2. Cell(Cell(b, Layers, l), BatchKv, p) \in SlotCells
    BY <1>2, SlotCellsAre
  <2>3. p \in 0 .. N2[b] - 1
    OBVIOUS
  <2>4. slots[Cell(Cell(b, Layers, l), BatchKv, p)] = Cached(l, Prefix(s, p + 1))
    BY <2>3 DEF SlotsHold
  <2>5. QED
    BY <1>2, <1>3, <2>1, <2>2, <2>4
<1>6. Apart(dst, n)
  <2> SUFFICES ASSUME NEW l \in 0 .. Layers - 1, NEW j \in 0 .. Layers - 1,
                      NEW p \in 0 .. n - 1, NEW q \in 0 .. n - 1, dst[l] + p = dst[j] + q
               PROVE  l = j /\ p = q
    BY DEF Apart
  <2>1. Cell(Cell(l, B, b), DeviceKv, p) = Cell(Cell(j, B, b), DeviceKv, q)
    BY <1>2
  <2>2. QED
    BY <1>2, <2>1, LayerCellsAre
<1>7. CopiedAs(w, gpu, dst, n, s)
  BY <1>1, <1>5, <1>6, CopyHolds DEF w
<1>8. LayersHold(w, S2, A \cup {b}, N2)
  <2> SUFFICES ASSUME NEW c \in A \cup {b}, NEW l \in 0 .. Layers - 1, NEW p \in 0 .. N2[c] - 1
               PROVE  w[Cell(Cell(l, B, c), DeviceKv, p)] = Cached(l, Prefix(S2[c], p + 1))
    BY DEF LayersHold
  <2>1. CASE c = b
    <3>1. p \in 0 .. n - 1 /\ S2[c] = s
      BY <2>1
    <3>2. QED
      BY <1>2, <1>7, <2>1, <3>1 DEF CopiedAs
  <2>2. CASE c # b
    <3>1. c \in A /\ c \in Slot /\ S2[c] = S[c] /\ N2[c] = N[c] /\ N[c] \in 0 .. DeviceKv
      BY <2>2
    <3>2. p \in 0 .. N[c] - 1 /\ p \in 0 .. DeviceKv - 1
      BY <1>0, <3>1
    <3> DEFINE a == Cell(Cell(l, B, c), DeviceKv, p)
    <3>3. a \in LayerCells
      BY <3>1, <3>2, LayerCellsAre
    <3>4. ASSUME NEW j \in 0 .. Layers - 1, NEW q \in 0 .. n - 1, a = dst[j] + q PROVE FALSE
      <4>1. Cell(Cell(l, B, c), DeviceKv, p) = Cell(Cell(j, B, b), DeviceKv, q)
            /\ q \in 0 .. DeviceKv - 1
        BY <1>2, <3>4
      <4>2. c = b
        BY <3>1, <3>2, <4>1, LayerCellsAre
      <4>3. QED
        BY <2>2, <4>2
    <3>5. gpu[a] = Cached(l, Prefix(S[c], p + 1))
      BY <3>1, <3>2 DEF LayersHold
    <3> HIDE DEF a
    <3>6. w[a] = gpu[a]
      BY <1>3, <1>7, <3>3, <3>4 DEF CopiedAs
    <3>7. QED
      BY <3>1, <3>5, <3>6 DEF a
  <2>3. QED
    BY <2>1, <2>2
<1>9. w = [a \in LayerCells |-> w[a]]
  BY <1>3, <1>7 DEF CopiedAs
<1>10. QED
  BY <1>4, <1>8, <1>9 DEF Uploaded

-----------------------------------------------------------------------------
(* Forward: the inductive invariant                                        *)

\* What the variables hold.
ForwardTypes ==
    /\ mode \in Modes /\ kvMax \in Nat \ {0}
    /\ active \in SUBSET Slot /\ pos \in [Slot -> Nat] /\ frames \in [Slot -> Nat]
    /\ fed \in [Slot -> Seq(Token \cup First)]
    /\ last = [b \in Slot |-> last[b]] /\ cpcodes = [b \in Slot |-> cpcodes[b]]

\* Each cache is as large as its context, batch or device made it.
Caches ==
    /\ host = [a \in OneCells(kvMax) |-> host[a]]
    /\ mode.batch => own = [a \in SlotCells |-> own[a]]
    /\ mode.batch /\ Fused => dev = [a \in LayerCells |-> dev[a]]
    /\ ~mode.batch /\ Fused => dev = [a \in OneCells(DeviceKv) |-> dev[a]]

\* What the helper queues is a prompt with its own cache and hidden state.
PrefilledRight(r) ==
    /\ r.prompt \in Seq(Token) /\ r.prompt # << >> /\ Len(r.prompt) <= MaxPrompt
    /\ r.hidden = Hidden(Layers, r.prompt)
    /\ r.kv = [a \in OneCells(Len(r.prompt)) |-> r.kv[a]]
    /\ OneHolds(r.kv, Len(r.prompt), r.prompt, Len(r.prompt))
ReadyRight ==
    /\ ready \in Seq({ready[i] : i \in 1 .. Len(ready)})
    /\ \A i \in 1 .. Len(ready) : PrefilledRight(ready[i])

\* A slot is at the end of what it was fed, and there is room for its step.
Positions ==
    /\ \A b \in active : pos[b] >= 1 /\ Len(fed[b]) = pos[b]
    /\ mode.batch => \A b \in Slot : pos[b] <= BatchKv - 1
    /\ ~mode.batch => active \subseteq {0}
    /\ ~mode.batch /\ ~Fused => \A b \in active : pos[b] <= kvMax
    /\ ~mode.batch /\ Fused => kvMax = DeviceKv /\ \A b \in active : pos[b] + MaxGen <= DeviceKv + frames[b]

\* CacheRight, by the cache's layout.
CacheHolds ==
    /\ mode.batch /\ Fused => LayersHold(dev, fed, active, pos)
    /\ mode.batch /\ ~Fused => SlotsHold(own, fed, active, pos)
    /\ ~mode.batch /\ Fused => \A b \in active : OneHolds(dev, DeviceKv, fed[b], pos[b])
    /\ ~mode.batch /\ ~Fused => \A b \in active : OneHolds(host, kvMax, fed[b], pos[b])

\* The inductive invariant: SequenceRight says nothing of what is queued, of the
\* sizes of the caches, or of how far a slot may go.
ForwardInv ==
    /\ ForwardTypes /\ Caches /\ ReadyRight /\ Positions /\ CacheHolds /\ HiddenRight /\ CodesRight

-----------------------------------------------------------------------------
(* Prefilling and admitting                                                *)

\* Memory is a function on its addresses.
LEMMA MemoryIs == ASSUME NEW n PROVE Memory(n) = [a \in 0 .. n - 1 |-> Memory(n)[a]]
  BY DEF Memory

\* Slots are numbers from 0.
LEMMA SlotIs == 0 \in Slot /\ \A b \in Slot : b \in Nat
  BY TalkerAssumption DEF Slot

\* It holds at first.
LEMMA InitForwardInv == ForwardInit => ForwardInv
<1> SUFFICES ASSUME ForwardInit PROVE ForwardInv
  OBVIOUS
<1> USE DEF ForwardInit
<1>0. Layers \in Nat /\ B \in Nat \ {0} /\ BatchKv \in Nat \ {0} /\ DeviceKv \in Nat \ {0}
  BY TalkerAssumption
<1>1. ForwardTypes
  <2>1. << >> \in Seq(Token \cup First)
    BY EmptySeq
  <2>2. QED
    BY <1>0, <2>1 DEF ForwardTypes
<1>2. Caches
  <2>1. Layers * DeviceKv = Size(Layers, DeviceKv) /\ 1 * Layers * DeviceKv = Size(Layers, DeviceKv)
    BY <1>0 DEF Size
  <2>2. /\ B * Layers * BatchKv = Size(Size(B, Layers), BatchKv)
        /\ B * Layers * DeviceKv = Size(Size(Layers, B), DeviceKv)
    BY <1>0 DEF Size
  <2>3. host = [a \in OneCells(kvMax) |-> host[a]]
    BY <2>1, MemoryIs DEF OneCells
  <2>4. mode.batch => own = [a \in SlotCells |-> own[a]]
    BY <2>2, MemoryIs DEF SlotCells
  <2>5. mode.batch /\ Fused => dev = [a \in LayerCells |-> dev[a]]
    BY <2>2, MemoryIs DEF LayerCells, Fused
  <2>6. ~mode.batch /\ Fused => dev = [a \in OneCells(DeviceKv) |-> dev[a]]
    BY <2>1, MemoryIs DEF OneCells, Fused
  <2>7. QED
    BY <2>3, <2>4, <2>5, <2>6 DEF Caches
<1>3. ReadyRight
  <2>1. Len(ready) = 0 /\ ready \in Seq({ready[i] : i \in 1 .. Len(ready)})
    BY EmptySeq
  <2>2. QED
    BY <2>1 DEF ReadyRight
<1>4. Positions /\ CacheHolds /\ HiddenRight /\ CodesRight
  BY <1>0 DEF Positions, CacheHolds, HiddenRight, CodesRight, LayersHold, SlotsHold, Slot
<1>5. QED
  BY <1>1, <1>2, <1>3, <1>4 DEF ForwardInv

\* The prefill of a prompt in a context.
LEMMA PrefilledIs ==
    ASSUME kvMax \in Nat \ {0}, host = [a \in OneCells(kvMax) |-> host[a]],
           NEW p \in Seq(Token), p # << >>
    PROVE  /\ Prefilled(p).kv = [a \in OneCells(KvMaxFor(kvMax, Len(p))) |-> Prefilled(p).kv[a]]
           /\ Prefilled(p).hidden = Hidden(Layers, p)
           /\ OneHolds(Prefilled(p).kv, KvMaxFor(kvMax, Len(p)), p, Len(p))
           /\ KvMaxFor(kvMax, Len(p)) \in Nat \ {0} /\ KvMaxFor(kvMax, Len(p)) >= Len(p)
           /\ Len(p) <= kvMax => KvMaxFor(kvMax, Len(p)) = kvMax
           /\ Len(p) \in Nat /\ Len(p) >= 1
<1> DEFINE n == Len(p)
           k == KvMaxFor(kvMax, n)
           grown == Grow(host, kvMax, 0, n)
<1>1. n \in Nat /\ n >= 1
  BY LenProperties, EmptySeq
<1>2. k \in Nat \ {0} /\ k >= n /\ (n <= kvMax => k = kvMax)
  BY <1>1, KvMaxForIs
<1>3. grown = [a \in OneCells(k) |-> grown[a]]
  <2>1. OneHolds(host, kvMax, p, 0)
    BY DEF OneHolds
  <2>2. 0 \in Nat /\ 0 <= kvMax
    OBVIOUS
  <2> HIDE DEF n
  <2>3. QED
    BY <1>1, <2>1, <2>2, GrowIs
<1> HIDE DEF grown, k
<1>4. LET out == TalkerPrefill(grown, k, p)
      IN out.kv = [a \in OneCells(k) |-> out.kv[a]]
         /\ out.hidden = Hidden(Layers, p) /\ OneHolds(out.kv, k, p, Len(p))
  BY <1>2, <1>3, PrefillIs
<1>5. Prefilled(p) = TalkerPrefill(grown, k, p)
  BY DEF Prefilled, grown, k
<1>6. QED
  BY <1>1, <1>2, <1>4, <1>5 DEF k

\* What seating slot b with prompt p leaves; what it does to the caches is
\* another matter.
Seated(b, p) ==
    /\ mode' = mode /\ active' = active \cup {b} /\ active' \in SUBSET Slot
    /\ pos' \in [Slot -> Nat] /\ frames' \in [Slot -> Nat]
    /\ fed' \in [Slot -> Seq(Token \cup First)]
    /\ last' = [c \in Slot |-> last'[c]] /\ cpcodes' = [c \in Slot |-> cpcodes'[c]]
    /\ \A c \in Slot \ {b} : pos'[c] = pos[c] /\ fed'[c] = fed[c] /\ frames'[c] = frames[c]
    /\ pos'[b] = Len(p) /\ fed'[b] = p /\ frames'[b] = 0
    /\ \A c \in active' : pos'[c] >= 1 /\ Len(fed'[c]) = pos'[c]
    /\ HiddenRight' /\ CodesRight'

\* Seating with the right hidden state.
LEMMA SeatIs ==
    ASSUME ForwardInv, NEW b \in Slot, b \notin active, NEW p \in Seq(Token), p # << >>,
           Seat(b, p, Hidden(Layers, p))
    PROVE  Seated(b, p)
<1> USE DEF Seat
<1>1. ForwardTypes /\ Positions /\ HiddenRight /\ CodesRight
  BY DEF ForwardInv
<1>2. Len(p) \in Nat /\ Len(p) >= 1 /\ p \in Seq(Token \cup First)
  <2>1. Len(p) \in Nat /\ Len(p) >= 1
    BY LenProperties, EmptySeq
  <2>2. Len(p) \in Nat /\ p \in [1 .. Len(p) -> Token]
    BY LenProperties
  <2>3. p \in [1 .. Len(p) -> Token \cup First]
    BY <2>2
  <2>4. p \in Seq(Token \cup First)
    BY <2>2, <2>3, SeqDef
  <2>5. QED
    BY <2>1, <2>4
<1>3. /\ mode' = mode /\ active' = active \cup {b} /\ active' \in SUBSET Slot
      /\ pos' \in [Slot -> Nat] /\ frames' \in [Slot -> Nat]
      /\ fed' \in [Slot -> Seq(Token \cup First)]
      /\ last' = [c \in Slot |-> last'[c]] /\ cpcodes' = [c \in Slot |-> cpcodes'[c]]
  BY <1>1, <1>2 DEF ForwardTypes
<1>4. /\ \A c \in Slot \ {b} : /\ pos'[c] = pos[c] /\ fed'[c] = fed[c] /\ frames'[c] = frames[c]
                               /\ last'[c] = last[c] /\ cpcodes'[c] = cpcodes[c]
      /\ pos'[b] = Len(p) /\ fed'[b] = p /\ frames'[b] = 0 /\ last'[b] = Hidden(Layers, p)
  BY <1>1 DEF ForwardTypes
<1>5. \A c \in active' : c = b \/ (c \in active /\ c \in Slot \ {b})
  BY <1>3
<1>6. \A c \in active' : pos'[c] >= 1 /\ Len(fed'[c]) = pos'[c]
  BY <1>1, <1>2, <1>4, <1>5 DEF Positions
<1>7. HiddenRight'
  <2> SUFFICES ASSUME NEW c \in active' PROVE last'[c] = Hidden(Layers, fed'[c])
    BY DEF HiddenRight
  <2>1. QED
    BY <1>1, <1>4, <1>5 DEF HiddenRight
<1>8. CodesRight'
  <2> SUFFICES ASSUME NEW c \in active', frames'[c] > 0
               PROVE  cpcodes'[c] = Codes(Prefix(fed'[c], Len(fed'[c]) - 1), Last(fed'[c]))
    BY DEF CodesRight
  <2>1. c \in active /\ c \in Slot \ {b}
    BY <1>4, <1>5
  <2>2. fed'[c] = fed[c] /\ frames[c] > 0 /\ cpcodes'[c] = cpcodes[c]
    BY <1>4, <2>1
  <2>3. QED
    BY <1>1, <2>1, <2>2 DEF CodesRight
<1>9. QED
  BY <1>3, <1>4, <1>6, <1>7, <1>8 DEF Seated

\* Queued prefills stay right.
LEMMA SamePrefilled == ASSUME ReadyRight, ready' = ready PROVE ReadyRight'
  BY DEF ReadyRight, PrefilledRight

\* Every prompt that is asked for is one.
LEMMA AskedIs ==
    ASSUME mode \in Modes, NEW p \in mode.prompts
    PROVE  p \in Seq(Token) /\ p # << >>
  BY ForwardAssumption

\* qwen_tts_generate starts.
LEMMA StartKeeps ==
    ASSUME DeviceFits, ForwardInv, NEW p \in mode.prompts, Start(p)
    PROVE  ForwardInv'
<1> DEFINE n == Len(p)
           k == KvMaxFor(kvMax, n)
<1>0. /\ ~mode.batch /\ active = {} /\ InContext(p)
      /\ dev' = IF Fused THEN UploadKv(dev, Prefilled(p).kv, n) ELSE dev
      /\ Seat(0, p, Prefilled(p).hidden) /\ ready' = ready /\ own' = own
  BY DEF Start
<1>1. ForwardTypes /\ Caches /\ ReadyRight /\ Positions
  BY DEF ForwardInv
<1>2. mode \in Modes /\ kvMax \in Nat \ {0} /\ host = [a \in OneCells(kvMax) |-> host[a]]
  BY <1>1 DEF ForwardTypes, Caches
<1>3. p \in Seq(Token) /\ p # << >>
  BY <1>2, AskedIs
<1>4. /\ Prefilled(p).kv = [a \in OneCells(k) |-> Prefilled(p).kv[a]]
      /\ Prefilled(p).hidden = Hidden(Layers, p)
      /\ OneHolds(Prefilled(p).kv, k, p, n)
      /\ k \in Nat \ {0} /\ k >= n /\ (n <= kvMax => k = kvMax)
      /\ n \in Nat /\ n >= 1
  BY <1>2, <1>3, PrefilledIs
<1>5. host' = Prefilled(p).kv /\ kvMax' = k
  BY <1>0 DEF InContext
<1>6. Seated(0, p)
  BY <1>0, <1>3, <1>4, SeatIs, SlotIs
<1> HIDE DEF k, n
<1>7. mode' = mode /\ (Fused' <=> Fused) /\ active' = {0} /\ pos'[0] = n /\ fed'[0] = p /\ frames'[0] = 0
  BY <1>0, <1>6 DEF Seated, Fused, n
<1>8. ForwardTypes'
  BY <1>2, <1>4, <1>5, <1>6, <1>7 DEF ForwardTypes, Seated
<1>9. ASSUME Fused
      PROVE  /\ k = DeviceKv /\ n + MaxGen <= DeviceKv
             /\ dev' = [a \in OneCells(DeviceKv) |-> dev'[a]] /\ OneHolds(dev', DeviceKv, p, n)
  <2>1. n + MaxGen <= DeviceKv
    BY <1>0, <1>2, <1>9 DEF DeviceFits, Fused, n
  <2>2. kvMax = DeviceKv
    BY <1>0, <1>1, <1>9 DEF Positions
  <2>3. n <= DeviceKv /\ k = DeviceKv
    BY <1>4, <2>1, <2>2, ForwardAssumption, TalkerAssumption
  <2>4. dev = [a \in OneCells(DeviceKv) |-> dev[a]]
    BY <1>0, <1>1, <1>9 DEF Caches
  <2>5. dev' = UploadKv(dev, Prefilled(p).kv, n)
    BY <1>0, <1>9
  <2>6. LET w == UploadKv(dev, Prefilled(p).kv, n)
        IN w = [a \in OneCells(DeviceKv) |-> w[a]] /\ OneHolds(w, DeviceKv, p, n)
    BY <1>4, <2>3, <2>4, UploadKvIs
  <2>7. QED
    BY <2>1, <2>3, <2>5, <2>6
<1>10. Caches'
  BY <1>0, <1>4, <1>5, <1>7, <1>9 DEF Caches
<1>11. ReadyRight'
  BY <1>0, <1>1, SamePrefilled
<1>12. Positions'
  <2>1. \A b \in active' : b = 0
    BY <1>7
  <2>2. ~mode'.batch
    BY <1>0, <1>7
  <2>3. \A b \in active' : pos'[b] >= 1 /\ Len(fed'[b]) = pos'[b]
    BY <1>6 DEF Seated
  <2>4. ~Fused => \A b \in active' : pos'[b] <= kvMax'
    BY <1>4, <1>5, <1>7, <2>1
  <2>5. Fused => kvMax' = DeviceKv /\ \A b \in active' : pos'[b] + MaxGen <= DeviceKv + frames'[b]
    BY <1>4, <1>5, <1>7, <1>9, <2>1, ForwardAssumption, TalkerAssumption
  <2>6. QED
    BY <1>7, <2>1, <2>2, <2>3, <2>4, <2>5 DEF Positions
<1>13. CacheHolds'
  <2>1. \A b \in active' : b = 0
    BY <1>7
  <2>2. QED
    BY <1>0, <1>4, <1>5, <1>7, <1>9, <2>1 DEF CacheHolds
<1>14. QED
  BY <1>6, <1>8, <1>10, <1>11, <1>12, <1>13 DEF ForwardInv, Seated

\* What the helper queued is right, whatever set its entries are listed from.
LEMMA SeqOwn ==
    ASSUME NEW T, NEW s \in Seq(T)
    PROVE  s \in Seq({s[i] : i \in 1 .. Len(s)})
<1>1. Len(s) \in Nat /\ s \in [1 .. Len(s) -> T]
  BY LenProperties
<1>2. s \in [1 .. Len(s) -> {s[i] : i \in 1 .. Len(s)}]
  BY <1>1
<1>3. QED
  BY <1>1, <1>2, SeqDef

\* The helper prefills.
LEMMA HelpKeeps ==
    ASSUME ForwardInv, NEW p \in mode.prompts, Help(p)
    PROVE  ForwardInv'
<1> DEFINE n == Len(p)
           k == KvMaxFor(kvMax, n)
           snap == Snapshot(Prefilled(p).kv, k, n)
           r == [prompt |-> p, hidden |-> Prefilled(p).hidden, kv |-> snap]
<1>0. /\ mode.batch /\ InContext(p)
      /\ ready' = IF n > MaxPrompt THEN ready ELSE Append(ready, r)
      /\ UNCHANGED <<mode, own, dev, active, pos, last, cpcodes, frames, fed>>
  BY DEF Help
<1>1. ForwardTypes /\ Caches /\ ReadyRight /\ Positions /\ CacheHolds /\ HiddenRight /\ CodesRight
  BY DEF ForwardInv
<1>2. mode \in Modes /\ kvMax \in Nat \ {0} /\ host = [a \in OneCells(kvMax) |-> host[a]]
  BY <1>1 DEF ForwardTypes, Caches
<1>3. p \in Seq(Token) /\ p # << >>
  BY <1>2, AskedIs
<1>4. /\ Prefilled(p).kv = [a \in OneCells(k) |-> Prefilled(p).kv[a]]
      /\ Prefilled(p).hidden = Hidden(Layers, p)
      /\ OneHolds(Prefilled(p).kv, k, p, n)
      /\ k \in Nat \ {0} /\ k >= n /\ n \in Nat /\ n >= 1
  BY <1>2, <1>3, PrefilledIs
<1>5. host' = Prefilled(p).kv /\ kvMax' = k
  BY <1>0 DEF InContext
<1>6. snap = [a \in OneCells(n) |-> snap[a]] /\ OneHolds(snap, n, p, n)
  <2>1. LET w == Snapshot(Prefilled(p).kv, k, n)
        IN w = [a \in OneCells(n) |-> w[a]] /\ OneHolds(w, n, p, n)
    <3> HIDE DEF k, n
    <3>1. QED
      BY <1>4, SnapshotIs
  <2>2. QED
    BY <2>1
<1> HIDE DEF snap
<1>7. n <= MaxPrompt => PrefilledRight(r)
  BY <1>3, <1>4, <1>6 DEF PrefilledRight
<1>8. ForwardTypes'
  BY <1>0, <1>1, <1>4, <1>5 DEF ForwardTypes
<1>9. Caches'
  BY <1>0, <1>1, <1>4, <1>5 DEF Caches, Fused
<1>10. Positions' /\ CacheHolds' /\ HiddenRight' /\ CodesRight'
  BY <1>0, <1>1 DEF Positions, CacheHolds, HiddenRight, CodesRight, Fused
<1> HIDE DEF r, k
<1>11. ReadyRight'
  <2>1. CASE n > MaxPrompt
    BY <1>0, <1>1, <2>1, SamePrefilled
  <2>2. CASE ~(n > MaxPrompt)
    <3> DEFINE R == {ready[i] : i \in 1 .. Len(ready)}
    <3>1. ready \in Seq(R) /\ \A i \in 1 .. Len(ready) : PrefilledRight(ready[i])
      BY <1>1 DEF ReadyRight
    <3>2. PrefilledRight(r)
      BY <1>4, <1>7, <2>2, ForwardAssumption
    <3>3. ready' = Append(ready, r)
      BY <1>0, <2>2
    <3>4. ready \in Seq(R \cup {r})
      BY <3>1, SeqMonotonic
    <3> HIDE DEF R
    <3>5. /\ ready' \in Seq(R \cup {r}) /\ Len(ready') = Len(ready) + 1 /\ Len(ready) \in Nat
          /\ \A i \in 1 .. Len(ready) : ready'[i] = ready[i]
          /\ ready'[Len(ready) + 1] = r
      BY <3>3, <3>4, AppendProperties, LenProperties
    <3>6. \A i \in 1 .. Len(ready') : PrefilledRight(ready'[i])
      <4> SUFFICES ASSUME NEW i \in 1 .. Len(ready') PROVE PrefilledRight(ready'[i])
        OBVIOUS
      <4>1. CASE i = Len(ready) + 1
        BY <3>2, <3>5, <4>1
      <4>2. CASE i # Len(ready) + 1
        <5>1. i \in 1 .. Len(ready)
          BY <3>5, <4>2
        <5>2. QED
          BY <3>1, <3>5, <5>1
      <4>3. QED
        BY <4>1, <4>2
    <3>7. ready' \in Seq({ready'[i] : i \in 1 .. Len(ready')})
      BY <3>5, SeqOwn
    <3>8. QED
      BY <3>6, <3>7 DEF ReadyRight, PrefilledRight
  <2>3. QED
    BY <2>1, <2>2
<1>12. QED
  BY <1>8, <1>9, <1>10, <1>11 DEF ForwardInv

\* A slot that is filled and seated holds its prompt, and the others what
\* they had.
LEMMA FillKeeps ==
    ASSUME ForwardInv, mode.batch, NEW b \in Slot, b \notin active,
           NEW p \in Seq(Token), p # << >>, Len(p) <= MaxPrompt,
           NEW from, NEW k \in Nat, Len(p) <= k,
           from = [a \in OneCells(k) |-> from[a]], OneHolds(from, k, p, Len(p)),
           Fill(b, from, k, p), Seated(b, p)
    PROVE  /\ own' = [a \in SlotCells |-> own'[a]]
           /\ Fused => dev' = [a \in LayerCells |-> dev'[a]]
           /\ Positions' /\ CacheHolds'
<1> DEFINE n == Len(p)
<1>0. own' = FillSlot(own, b, from, k, n) /\ dev' = IF Fused THEN UploadSlot(dev, b, own', n) ELSE dev
  BY DEF Fill
<1>1. ForwardTypes /\ Caches /\ Positions /\ CacheHolds
  BY DEF ForwardInv
<1>2. n \in Nat /\ n <= BatchKv - 1 /\ n <= BatchKv /\ n <= DeviceKv
      /\ BatchKv \in Nat /\ DeviceKv \in Nat /\ BatchKv <= DeviceKv
  BY LenProperties, ForwardAssumption, TalkerAssumption
<1>3. /\ mode' = mode /\ (Fused' <=> Fused) /\ active' = active \cup {b}
      /\ \A c \in active : fed'[c] = fed[c] /\ pos'[c] = pos[c] /\ frames'[c] = frames[c]
      /\ fed'[b] = p /\ pos'[b] = n
  BY <1>1 DEF Seated, Fused, ForwardTypes
<1>4. own = [a \in SlotCells |-> own[a]] /\ active \in SUBSET Slot
  BY <1>1 DEF Caches, ForwardTypes
<1>5. \A c \in Slot : pos[c] \in 0 .. BatchKv /\ pos[c] \in 0 .. DeviceKv
  BY <1>1, <1>2 DEF Positions, ForwardTypes
<1>6. \A c \in active : pos[c] \in 0 .. BatchKv /\ pos[c] \in 0 .. DeviceKv
  BY <1>4, <1>5
<1>11. n <= k /\ OneHolds(from, k, p, n)
  OBVIOUS
<1> HIDE DEF n
<1>7. Positions'
  <2>1. \A c \in Slot : pos'[c] <= BatchKv - 1
    BY <1>1, <1>2, <1>3 DEF Seated, Positions
  <2>2. \A c \in active' : pos'[c] >= 1 /\ Len(fed'[c]) = pos'[c]
    BY DEF Seated
  <2>3. QED
    BY <1>3, <2>1, <2>2 DEF Positions
<1>8. CASE ~Fused
  <2>1. SlotsHold(own, fed, active, pos)
    BY <1>1, <1>8 DEF CacheHolds
  <2>2. own' = [a \in SlotCells |-> own'[a]] /\ SlotsHold(own', fed', active \cup {b}, pos')
    <3>1. Filling(b, own, from, k, n, p, active, fed, pos, fed', pos')
      BY <1>2, <1>3, <1>4, <1>6, <1>11, <2>1 DEF Filling
    <3>2. Filled(own', b, active, fed', pos')
      BY <1>0, <3>1, FillSlotIs
    <3>3. QED
      BY <3>2 DEF Filled
  <2>3. CacheHolds'
    BY <1>3, <1>8, <2>2 DEF CacheHolds
  <2>4. QED
    BY <1>7, <1>8, <2>2, <2>3
<1>9. CASE Fused
  <2>1. LayersHold(dev, fed, active, pos) /\ dev = [a \in LayerCells |-> dev[a]]
    BY <1>1, <1>9 DEF CacheHolds, Caches
  <2>2. own' = [a \in SlotCells |-> own'[a]] /\ SlotsHold(own', fed', {b}, pos')
    <3>1. SlotsHold(own, fed, {}, pos) /\ {} \cup {b} = {b}
      BY DEF SlotsHold
    <3>2. Filling(b, own, from, k, n, p, {}, fed, pos, fed', pos')
      BY <1>2, <1>3, <1>4, <1>11, <3>1 DEF Filling
    <3>3. Filled(own', b, {}, fed', pos')
      BY <1>0, <3>2, FillSlotIs
    <3>4. QED
      BY <3>1, <3>3 DEF Filled
  <2>3. dev' = UploadSlot(dev, b, own', n)
    BY <1>0, <1>9
  <2>4. dev' = [a \in LayerCells |-> dev'[a]] /\ LayersHold(dev', fed', active \cup {b}, pos')
    <3>1. Uploading(b, dev, own', n, active, fed, pos, fed', pos')
      BY <1>2, <1>3, <1>4, <1>6, <2>1, <2>2 DEF Uploading
    <3>2. Uploaded(dev', b, active, fed', pos')
      BY <2>3, <3>1, UploadSlotIs
    <3>3. QED
      BY <3>2 DEF Uploaded
  <2>5. CacheHolds'
    BY <1>3, <1>9, <2>4 DEF CacheHolds
  <2>6. QED
    BY <1>7, <2>2, <2>4, <2>5
<1>10. QED
  BY <1>8, <1>9

\* The scheduler admits what is queued,
LEMMA AdmitKeeps ==
    ASSUME ForwardInv, NEW b \in Slot, Admit(b)
    PROVE  ForwardInv'
<1> DEFINE r == Head(ready)
<1>0. /\ mode.batch /\ b \notin active /\ ready # << >> /\ ready' = Tail(ready)
      /\ Fill(b, r.kv, Len(r.prompt), r.prompt) /\ Seat(b, r.prompt, r.hidden)
      /\ host' = host /\ kvMax' = kvMax
  BY DEF Admit
<1>1. ForwardTypes /\ Caches /\ ReadyRight
  BY DEF ForwardInv
<1> DEFINE R == {ready[i] : i \in 1 .. Len(ready)}
<1>2. ready \in Seq(R) /\ \A i \in 1 .. Len(ready) : PrefilledRight(ready[i])
  BY <1>1 DEF ReadyRight
<1> HIDE DEF R
<1>3. /\ Len(ready) \in Nat /\ Len(ready) >= 1 /\ r = ready[1]
      /\ ready' \in Seq(R) /\ Len(ready') = Len(ready) - 1
      /\ \A i \in 1 .. Len(ready') : ready'[i] = ready[i + 1]
  <2>1. Len(ready) \in Nat /\ Len(ready) # 0
    BY <1>0, <1>2, LenProperties, EmptySeq
  <2>2. /\ Tail(ready) \in Seq(R) /\ Len(Tail(ready)) = Len(ready) - 1
        /\ \A i \in 1 .. Len(Tail(ready)) : Tail(ready)[i] = ready[i + 1]
    BY <1>0, <1>2, HeadTailProperties
  <2>3. r = ready[1]
    BY <1>0, <1>2, HeadTailProperties
  <2>4. QED
    BY <1>0, <2>1, <2>2, <2>3
<1> HIDE DEF r
<1>4. PrefilledRight(r)
  BY <1>2, <1>3
<1> DEFINE p == r.prompt
<1>5. /\ p \in Seq(Token) /\ p # << >> /\ Len(p) <= MaxPrompt /\ r.hidden = Hidden(Layers, p)
      /\ r.kv = [a \in OneCells(Len(p)) |-> r.kv[a]] /\ OneHolds(r.kv, Len(p), p, Len(p))
  BY <1>4 DEF PrefilledRight
<1>6. Len(p) \in Nat /\ Len(p) <= Len(p)
  BY <1>5, LenProperties
<1>7. Seated(b, p)
  BY <1>0, <1>5, SeatIs
<1>8. /\ own' = [a \in SlotCells |-> own'[a]]
      /\ Fused => dev' = [a \in LayerCells |-> dev'[a]]
      /\ Positions' /\ CacheHolds'
  BY <1>0, <1>5, <1>6, <1>7, FillKeeps
<1>9. mode' = mode /\ (Fused' <=> Fused)
  BY <1>7 DEF Seated, Fused
<1>10. ForwardTypes'
  BY <1>0, <1>1, <1>7 DEF ForwardTypes, Seated
<1>11. Caches'
  BY <1>0, <1>1, <1>8, <1>9 DEF Caches
<1>12. ReadyRight'
  <2>1. \A i \in 1 .. Len(ready') : PrefilledRight(ready'[i])
    BY <1>2, <1>3
  <2>2. ready' \in Seq({ready'[i] : i \in 1 .. Len(ready')})
    BY <1>3, SeqOwn
  <2>3. QED
    BY <2>1, <2>2 DEF ReadyRight, PrefilledRight
<1>13. QED
  BY <1>7, <1>8, <1>10, <1>11, <1>12 DEF ForwardInv, Seated

\* ... or prefills itself.
LEMMA AdmitInlineKeeps ==
    ASSUME ForwardInv, NEW b \in Slot, NEW p \in mode.prompts, AdmitInline(b, p)
    PROVE  ForwardInv'
<1> DEFINE n == Len(p)
           k == KvMaxFor(kvMax, n)
<1>0. /\ mode.batch /\ b \notin active /\ InContext(p) /\ ready' = ready
      /\ IF n > MaxPrompt
         THEN UNCHANGED <<mode, own, dev, active, pos, last, cpcodes, frames, fed>>
         ELSE Fill(b, Prefilled(p).kv, k, p) /\ Seat(b, p, Prefilled(p).hidden)
  BY DEF AdmitInline
<1>1. ForwardTypes /\ Caches /\ ReadyRight /\ Positions /\ CacheHolds /\ HiddenRight /\ CodesRight
  BY DEF ForwardInv
<1>2. mode \in Modes /\ kvMax \in Nat \ {0} /\ host = [a \in OneCells(kvMax) |-> host[a]]
  BY <1>1 DEF ForwardTypes, Caches
<1>3. p \in Seq(Token) /\ p # << >>
  BY <1>2, AskedIs
<1>4. /\ Prefilled(p).kv = [a \in OneCells(k) |-> Prefilled(p).kv[a]]
      /\ Prefilled(p).hidden = Hidden(Layers, p)
      /\ OneHolds(Prefilled(p).kv, k, p, n)
      /\ k \in Nat \ {0} /\ k >= n /\ n \in Nat /\ n >= 1
  BY <1>2, <1>3, PrefilledIs
<1>5. host' = Prefilled(p).kv /\ kvMax' = k
  BY <1>0 DEF InContext
<1>6. ReadyRight'
  BY <1>0, <1>1, SamePrefilled
<1> HIDE DEF k
<1>7. CASE n > MaxPrompt
  <2>0. UNCHANGED <<mode, own, dev, active, pos, last, cpcodes, frames, fed>>
    BY <1>0, <1>7
  <2>1. ForwardTypes'
    BY <1>1, <1>4, <1>5, <2>0 DEF ForwardTypes
  <2>2. Caches'
    BY <1>0, <1>1, <1>4, <1>5, <2>0 DEF Caches, Fused
  <2>3. Positions' /\ CacheHolds' /\ HiddenRight' /\ CodesRight'
    BY <1>0, <1>1, <2>0 DEF Positions, CacheHolds, HiddenRight, CodesRight, Fused
  <2>4. QED
    BY <1>6, <2>1, <2>2, <2>3 DEF ForwardInv
<1>8. CASE ~(n > MaxPrompt)
  <2>1. Fill(b, Prefilled(p).kv, k, p) /\ Seat(b, p, Prefilled(p).hidden)
    BY <1>0, <1>8
  <2>2. Seated(b, p)
    BY <1>0, <1>3, <1>4, <2>1, SeatIs
  <2>3. n <= MaxPrompt /\ k \in Nat /\ n <= k
    BY <1>4, <1>8, ForwardAssumption
  <2>4. /\ own' = [a \in SlotCells |-> own'[a]]
        /\ Fused => dev' = [a \in LayerCells |-> dev'[a]]
        /\ Positions' /\ CacheHolds'
    BY <1>0, <1>3, <1>4, <2>1, <2>2, <2>3, FillKeeps
  <2>5. mode' = mode /\ (Fused' <=> Fused)
    BY <2>2 DEF Seated, Fused
  <2>6. ForwardTypes'
    BY <1>1, <1>4, <1>5, <2>2 DEF ForwardTypes, Seated
  <2>7. Caches'
    BY <1>0, <1>4, <1>5, <2>4, <2>5 DEF Caches
  <2>8. QED
    BY <1>6, <2>2, <2>4, <2>6, <2>7 DEF ForwardInv, Seated
<1>9. QED
  BY <1>7, <1>8

-----------------------------------------------------------------------------
(* Generating                                                              *)

\* One more embedding: what came before stays.
LEMMA AppendedIs ==
    ASSUME NEW T, NEW s \in Seq(T), NEW x \in T
    PROVE  LET t == Append(s, x)
           IN /\ t \in Seq(T) /\ Len(t) = Len(s) + 1 /\ Len(s) \in Nat /\ Last(t) = x
              /\ \A p \in 0 .. Len(s) - 1 : Prefix(t, p + 1) = Prefix(s, p + 1)
              /\ Prefix(t, Len(t) - 1) = s
<1> DEFINE t == Append(s, x)
<1>1. /\ t \in Seq(T) /\ Len(t) = Len(s) + 1 /\ Len(s) \in Nat
      /\ \A i \in 1 .. Len(s) : t[i] = s[i]
      /\ t[Len(s) + 1] = x
  BY AppendProperties, LenProperties
<1> HIDE DEF t
<1>2. Last(t) = x
  BY <1>1 DEF Last
<1>3. \A p \in 0 .. Len(s) - 1 : Prefix(t, p + 1) = Prefix(s, p + 1)
  BY <1>1 DEF Prefix
<1>4. Prefix(t, Len(t) - 1) = s
  <2>1. s = [i \in 1 .. Len(s) |-> s[i]]
    BY LenProperties
  <2>2. Len(t) - 1 = Len(s)
    BY <1>1
  <2>3. QED
    BY <1>1, <2>1, <2>2 DEF Prefix
<1>5. QED
  BY <1>1, <1>2, <1>3, <1>4 DEF t

\* The sequences after a frame.
Fed(going, first) == [b \in Slot |-> IF b \in going THEN Append(fed[b], first[b]) ELSE fed[b]]

\* The slots that go on, each with a first code.
GoOn(going, first) ==
    /\ going \in SUBSET active /\ going # {} /\ first \in [going -> First]
    /\ \A b \in going : ~UsedUp(b)

\* Of the slots that go on they are one longer, and end with the first code.
AllFed(going, first, S) ==
    \A b \in going :
        /\ S[b] \in Seq(Token \cup First) /\ Len(S[b]) = pos[b] + 1 /\ Last(S[b]) = first[b]
        /\ \A p \in 0 .. pos[b] - 1 : Prefix(S[b], p + 1) = Prefix(fed[b], p + 1)
        /\ Prefix(S[b], Len(S[b]) - 1) = fed[b]

LEMMA FedIs ==
    ASSUME ForwardTypes, Positions, NEW going, NEW first, GoOn(going, first)
    PROVE  /\ AllFed(going, first, Fed(going, first))
           /\ Fed(going, first) \in [Slot -> Seq(Token \cup First)]
<1> DEFINE S == Fed(going, first)
           T == Token \cup First
<1>1. \A b \in going : /\ S[b] = Append(fed[b], first[b]) /\ b \in Slot /\ b \in active
                       /\ fed[b] \in Seq(T) /\ first[b] \in T
                       /\ Len(fed[b]) = pos[b]
  BY DEF Fed, GoOn, ForwardTypes, Positions
<1>2. ASSUME NEW b \in going
      PROVE  /\ S[b] \in Seq(T) /\ Len(S[b]) = pos[b] + 1 /\ Last(S[b]) = first[b]
             /\ \A p \in 0 .. pos[b] - 1 : Prefix(S[b], p + 1) = Prefix(fed[b], p + 1)
             /\ Prefix(S[b], Len(S[b]) - 1) = fed[b]
  <2> HIDE DEF S, T
  <2> DEFINE s == fed[b]
             x == first[b]
  <2>1. s \in Seq(T) /\ x \in T /\ S[b] = Append(s, x) /\ Len(s) = pos[b]
    BY <1>1
  <2> HIDE DEF s, x
  <2>2. LET t == Append(s, x)
        IN /\ t \in Seq(T) /\ Len(t) = Len(s) + 1 /\ Len(s) \in Nat /\ Last(t) = x
           /\ \A p \in 0 .. Len(s) - 1 : Prefix(t, p + 1) = Prefix(s, p + 1)
           /\ Prefix(t, Len(t) - 1) = s
    BY <2>1, AppendedIs
  <2>3. QED
    BY <2>1, <2>2 DEF s, x
<1>3. \A b \in Slot : S[b] \in Seq(T)
  BY <1>2 DEF Fed, ForwardTypes
<1>4. QED
  BY <1>2, <1>3 DEF AllFed, Fed

\* What holds the sequences up to here holds what they become, up to here.
LEMMA HoldsBefore ==
    ASSUME NEW going, NEW first, NEW S, AllFed(going, first, S), going \subseteq active
    PROVE  /\ \A kv : SlotsHold(kv, fed, active, pos) => SlotsHold(kv, S, going, pos)
           /\ \A kv : LayersHold(kv, fed, active, pos) => LayersHold(kv, S, going, pos)
           /\ \A b \in going : \A kv, k : OneHolds(kv, k, fed[b], pos[b]) => OneHolds(kv, k, S[b], pos[b])
<1>0. \A b \in going : b \in active /\ \A p \in 0 .. pos[b] - 1 : Prefix(S[b], p + 1) = Prefix(fed[b], p + 1)
  BY DEF AllFed
<1>1. \A kv : SlotsHold(kv, fed, active, pos) => SlotsHold(kv, S, going, pos)
  BY <1>0 DEF SlotsHold
<1>2. \A kv : LayersHold(kv, fed, active, pos) => LayersHold(kv, S, going, pos)
  BY <1>0 DEF LayersHold
<1>3. \A b \in going : \A kv, k : OneHolds(kv, k, fed[b], pos[b]) => OneHolds(kv, k, S[b], pos[b])
  BY <1>0 DEF OneHolds
<1>4. QED
  BY <1>1, <1>2, <1>3

\* The parts of Frame.
FrameRows == IF mode.batch THEN Slot ELSE {0}
CodesIn(going, first) ==
    PredictCodes([b \in FrameRows |-> IF b \in going THEN first[b] ELSE "0"])
EmbedsIn(going, first) ==
    [b \in FrameRows |-> IF b \in going THEN FrameEmbedding(b, first[b], CodesIn(going, first)[b]) ELSE ""]
OutOf(going, first) == Step(going, EmbedsIn(going, first))

\* The codes of a frame are right, wherever the code predictor runs,
LEMMA CodesInAre ==
    ASSUME ForwardInv, NEW going, NEW first, GoOn(going, first)
    PROVE  \A b \in going : CodesIn(going, first)[b] = Codes(fed[b], first[b])
<1> DEFINE f == [b \in FrameRows |-> IF b \in going THEN first[b] ELSE "0"]
<1>1. ForwardTypes /\ Positions /\ HiddenRight
  BY DEF ForwardInv
<1>2. /\ going \subseteq Slot /\ \A b \in going : b \in active
      /\ ~mode.batch => going \subseteq {0}
  BY <1>1 DEF GoOn, ForwardTypes, Positions
<1>3. \A b \in going : last[b] = Hidden(Layers, fed[b]) /\ f[b] = first[b]
  BY <1>1, <1>2 DEF HiddenRight, FrameRows
<1> HIDE DEF f
<1>4. ASSUME NEW where \in Wheres, RowsOf(where) = (IF mode.batch THEN B ELSE 1),
             PredictCodes(f) = Predict(where, RowsOf(where), last, f)
      PROVE  \A b \in going : PredictCodes(f)[b] = Codes(fed[b], first[b])
  <2>1. going \subseteq 0 .. RowsOf(where) - 1
    BY <1>2, <1>4 DEF Slot
  <2>2. \A b \in going : last[b] = Hidden(Layers, fed[b])
    BY <1>3
  <2>3. HiddenOf(where, fed, last, going)
    BY <2>1, <2>2 DEF HiddenOf
  <2>4. PredictsCodes(Predict(where, RowsOf(where), last, f), fed, f, going)
    BY <2>3, PredictIs
  <2>5. QED
    BY <1>3, <1>4, <2>4 DEF PredictsCodes
<1>5. CpRuns \in Wheres /\ RowsOf(CpRuns) = (IF mode.batch THEN B ELSE 1)
  BY DEF CpRuns, RowsOf, Wheres
<1>6. \A b \in going : PredictCodes(f)[b] = Codes(fed[b], first[b])
  BY <1>4, <1>5 DEF PredictCodes
<1>7. CodesIn(going, first) = PredictCodes(f)
  BY DEF CodesIn, f
<1>8. QED
  BY <1>6, <1>7

\* ... so the Talker is given the embedding of the first code.
LEMMA EmbedsInAre ==
    ASSUME ForwardInv, NEW going, NEW first, GoOn(going, first)
    PROVE  /\ DOMAIN EmbedsIn(going, first) = FrameRows
           /\ \A b \in going : EmbedsIn(going, first)[b] = first[b]
<1>1. ForwardTypes /\ Positions
  BY DEF ForwardInv
<1>2. \A b \in going : b \in FrameRows
  BY <1>1 DEF GoOn, ForwardTypes, Positions, FrameRows
<1>3. \A b \in going : CodesIn(going, first)[b] = Codes(fed[b], first[b])
  BY CodesInAre
<1>4. QED
  BY <1>2, <1>3 DEF EmbedsIn, FrameEmbedding

\* A step over the cache the mode reads: the hidden states of the sequences
\* as they now are, in a cache that holds them.
OneOut(o, k, s) ==
    /\ o.kv = [a \in OneCells(k) |-> o.kv[a]]
    /\ o.hidden[0] = Hidden(Layers, s)
    /\ OneHolds(o.kv, k, s, pos[0] + 1)

\* What the step of the mode leaves, in the cache the mode reads.
StepHolds(going, S, o) ==
    /\ mode.batch /\ Fused => LayersOut(o, pos, going, S)
    /\ mode.batch /\ ~Fused => SlotsOut(o, pos, going, S)
    /\ ~mode.batch => going = {0} /\ 0 \in Slot
    /\ ~mode.batch /\ Fused => OneOut(o, DeviceKv, S[0])
    /\ ~mode.batch /\ ~Fused =>
          /\ KvMaxFor(kvMax, pos[0] + 1) \in Nat \ {0} /\ KvMaxFor(kvMax, pos[0] + 1) >= pos[0] + 1
          /\ OneOut(o, KvMaxFor(kvMax, pos[0] + 1), S[0])

\* It does.
LEMMA StepInHolds ==
    ASSUME ForwardInv, NEW going, NEW first, GoOn(going, first),
           NEW S, AllFed(going, first, S)
    PROVE  StepHolds(going, S, OutOf(going, first))
<1> DEFINE embeds == EmbedsIn(going, first)
           out == OutOf(going, first)
           T == Token \cup First
<1>0. BatchKv \in Nat \ {0} /\ DeviceKv \in Nat \ {0} /\ DeviceKv >= BatchKv /\ MaxGen \in Nat
  BY TalkerAssumption, ForwardAssumption
<1>1. ForwardTypes /\ Positions /\ Caches /\ CacheHolds
  BY DEF ForwardInv
<1>2. DOMAIN embeds = FrameRows /\ \A b \in going : embeds[b] = Last(S[b])
  BY EmbedsInAre DEF AllFed
<1> HIDE DEF embeds
<1>3. out = Step(going, embeds)
  BY DEF OutOf, embeds
<1> HIDE DEF out
<1>4. going \in SUBSET Slot /\ going \subseteq active /\ going # {}
  BY <1>1 DEF GoOn, ForwardTypes
<1>5. \A b \in going : S[b] \in Seq(T) /\ Len(S[b]) = pos[b] + 1
  BY DEF AllFed
<1> HIDE DEF T
<1>6. \A b \in Slot : pos[b] \in Nat /\ frames[b] \in Nat
  BY <1>1 DEF ForwardTypes
<1>7. /\ \A kv : SlotsHold(kv, fed, active, pos) => SlotsHold(kv, S, going, pos)
      /\ \A kv : LayersHold(kv, fed, active, pos) => LayersHold(kv, S, going, pos)
      /\ \A b \in going : \A kv, k : OneHolds(kv, k, fed[b], pos[b]) => OneHolds(kv, k, S[b], pos[b])
  BY <1>4, HoldsBefore
<1>8. CASE mode.batch /\ ~Fused
  <2>1. out = BatchTalkerStep(own, pos, going, embeds)
    BY <1>3, <1>8 DEF Step, Fused
  <2>2. \A b \in going : pos[b] \in 0 .. BatchKv - 1
    BY <1>0, <1>1, <1>4, <1>6, <1>8 DEF Positions
  <2>3. own = [a \in SlotCells |-> own[a]] /\ SlotsHold(own, S, going, pos) /\ DOMAIN embeds = Slot
    BY <1>1, <1>2, <1>7, <1>8 DEF Caches, CacheHolds, FrameRows
  <2>4. SlotsFed(own, pos, going, S, T, embeds)
    BY <1>2, <1>4, <1>5, <2>2, <2>3 DEF SlotsFed
  <2>5. SlotsOut(out, pos, going, S)
    BY <2>1, <2>4, SlotsStep
  <2>6. QED
    BY <1>8, <2>5 DEF StepHolds, out
<1>9. CASE mode.batch /\ Fused
  <2>1. PICK program : Sound(program, "step", "plain") /\ out = Pass(DeviceBatchEnv(pos), program, dev, embeds)
    <3>1. CASE mode.talker = "cuda"
      BY <1>3, <1>9, <3>1, CudaLayerSound DEF Step, CudaTalkerBatchStep
    <3>2. CASE mode.talker # "cuda"
      <4>1. out = Pass(DeviceBatchEnv(pos), MetalBatchLayer, dev, embeds)
        BY <1>3, <1>9, <3>2 DEF Step, MetalTalkerBatchStep, Fused
      <4>2. QED
        BY <4>1, CudaLayerSound, DeviceLayersAre
    <3>3. QED
      BY <3>1, <3>2
  <2>2. \A b \in Slot : pos[b] \in 0 .. DeviceKv - 1
    BY <1>0, <1>1, <1>6, <1>9 DEF Positions
  <2>3. dev = [a \in LayerCells |-> dev[a]] /\ LayersHold(dev, S, going, pos) /\ DOMAIN embeds = Slot
    BY <1>1, <1>2, <1>7, <1>9 DEF Caches, CacheHolds, FrameRows
  <2>4. LayersFed(dev, pos, going, S, T, embeds)
    BY <1>2, <1>4, <1>5, <2>2, <2>3 DEF LayersFed
  <2>5. LayersOut(out, pos, going, S)
    BY <2>1, <2>4, LayersStep
  <2>6. QED
    BY <1>9, <2>5 DEF StepHolds, out
<1>10. CASE ~mode.batch
  <2>1. going = {0} /\ 0 \in active /\ 0 \in Slot /\ DOMAIN embeds = {0}
    BY <1>1, <1>2, <1>4, <1>10 DEF Positions, FrameRows
  <2>2. S[0] \in Seq(T) /\ Len(S[0]) = pos[0] + 1 /\ embeds[0] = Last(S[0]) /\ pos[0] \in Nat
    BY <1>2, <1>5, <1>6, <2>1
  <2>3. CASE Fused
    <3>1. PICK program : Sound(program, "step", "plain") /\ out = Pass(DeviceEnv(pos), program, dev, embeds)
      <4>1. CASE mode.talker = "cuda"
        BY <1>3, <1>10, <2>3, <4>1, CudaLayerSound DEF Step, CudaTalkerStep
      <4>2. CASE mode.talker # "cuda"
        <5>1. out = Pass(DeviceEnv(pos), MetalLayer, dev, embeds)
          BY <1>3, <1>10, <2>3, <4>2 DEF Step, MetalTalkerStep, Fused
        <5>2. QED
          BY <5>1, MetalLayerSound
      <4>3. QED
        BY <4>1, <4>2
    <3>2. DeviceEnv(pos) = HostEnv(DeviceKv, pos)
      BY DEF DeviceEnv, HostEnv
    <3>3. pos[0] \in 0 .. DeviceKv - 1
      <4>1. pos[0] + MaxGen <= DeviceKv + frames[0] /\ frames[0] \in Nat
        BY <1>1, <1>6, <1>10, <2>1, <2>3 DEF Positions
      <4>2. ~(frames[0] >= MaxGen)
        BY <2>1 DEF GoOn, UsedUp
      <4>3. QED
        BY <1>0, <2>2, <4>1, <4>2
    <3>4. dev = [a \in OneCells(DeviceKv) |-> dev[a]] /\ OneHolds(dev, DeviceKv, S[0], pos[0])
      BY <1>1, <1>7, <1>10, <2>1, <2>3 DEF Caches, CacheHolds
    <3>5. OneOut(Pass(HostEnv(DeviceKv, pos), program, dev, embeds), DeviceKv, S[0])
      BY <1>0, <2>1, <2>2, <3>1, <3>3, <3>4, OneRowStep DEF OneOut
    <3>6. QED
      BY <1>10, <2>1, <2>3, <3>1, <3>2, <3>5 DEF StepHolds, out
  <2>4. CASE ~Fused
    <3> DEFINE k == KvMaxFor(kvMax, pos[0] + 1)
               kv == Grow(host, kvMax, pos[0], pos[0] + 1)
    <3>1. out = Pass(HostEnv(k, pos), HostLayer, kv, embeds)
      BY <1>3, <1>10, <2>4 DEF Step, TalkerStep, Fused
    <3>2. /\ kvMax \in Nat \ {0} /\ host = [a \in OneCells(kvMax) |-> host[a]]
          /\ pos[0] <= kvMax /\ OneHolds(host, kvMax, S[0], pos[0])
      BY <1>1, <1>7, <1>10, <2>1, <2>4 DEF ForwardTypes, Caches, CacheHolds, Positions
    <3>3. k \in Nat \ {0} /\ k >= pos[0] + 1 /\ pos[0] + 1 \in Nat
      BY <2>2, <3>2, KvMaxForIs
    <3>4. kv = [a \in OneCells(k) |-> kv[a]] /\ OneHolds(kv, k, S[0], pos[0])
      BY <2>2, <3>2, <3>3, GrowIs
    <3> HIDE DEF k, kv
    <3>5. pos[0] \in 0 .. k - 1 /\ k \in Nat
      BY <2>2, <3>3
    <3>6. OneOut(Pass(HostEnv(k, pos), HostLayer, kv, embeds), k, S[0])
      BY <2>1, <2>2, <3>4, <3>5, HostLayerSound, OneRowStep DEF OneOut
    <3>7. QED
      BY <1>10, <2>1, <2>4, <3>1, <3>3, <3>6 DEF StepHolds, out, k
  <2>5. QED
    BY <2>3, <2>4
<1>11. QED
  BY <1>8, <1>9, <1>10

\* What a frame leaves.
Framed(going, first, codes, out) ==
    /\ cpcodes' = [b \in Slot |-> IF b \in going THEN codes[b] ELSE cpcodes[b]]
    /\ fed' = Fed(going, first)
    /\ last' = [b \in Slot |-> IF b \in FrameRows THEN out.hidden[b] ELSE last[b]]
    /\ pos' = [b \in Slot |-> IF b \in going THEN pos[b] + 1 ELSE pos[b]]
    /\ frames' = [b \in Slot |-> IF b \in going THEN frames[b] + 1 ELSE frames[b]]
    /\ own' = IF mode.batch /\ ~Fused THEN out.kv ELSE own
    /\ dev' = IF Fused THEN out.kv ELSE dev
    /\ IF mode.batch \/ Fused THEN host' = host /\ kvMax' = kvMax
       ELSE host' = out.kv /\ kvMax' = KvMaxFor(kvMax, pos[0] + 1)

LEMMA FrameIs ==
    ASSUME NEW going, NEW first, Frame(going, first)
    PROVE  Framed(going, first, CodesIn(going, first), OutOf(going, first))
  BY Zenon DEF Frame, Framed, CodesIn, OutOf, EmbedsIn, Fed, FrameRows

\* A frame of the slots that go on.
LEMMA FrameKeeps ==
    ASSUME ForwardInv, NEW going, NEW first, GoOn(going, first), Frame(going, first),
           active' = going, mode' = mode, ready' = ready
    PROVE  ForwardInv'
<1> DEFINE codes == CodesIn(going, first)
           out == OutOf(going, first)
           S == Fed(going, first)
<1>0. BatchKv \in Nat \ {0} /\ MaxGen \in Nat /\ DeviceKv \in Nat
  BY TalkerAssumption, ForwardAssumption
<1>1. ForwardTypes /\ Caches /\ ReadyRight /\ Positions
  BY DEF ForwardInv
<1>2. Framed(going, first, codes, out)
  BY FrameIs
<1>3. \A b \in going : codes[b] = Codes(fed[b], first[b])
  BY CodesInAre
<1>4. AllFed(going, first, S) /\ S \in [Slot -> Seq(Token \cup First)]
  BY <1>1, FedIs
<1>5. StepHolds(going, S, out)
  BY <1>4, StepInHolds
<1> HIDE DEF codes, out, S
<1>6. fed' = S
  BY <1>2 DEF Framed, S
<1>7. going \in SUBSET Slot /\ going \subseteq active /\ (Fused' <=> Fused)
  BY <1>1 DEF GoOn, ForwardTypes, Fused
<1>8. /\ pos' \in [Slot -> Nat] /\ frames' \in [Slot -> Nat]
      /\ last' = [b \in Slot |-> last'[b]] /\ cpcodes' = [b \in Slot |-> cpcodes'[b]]
      /\ \A b \in going : pos'[b] = pos[b] + 1 /\ frames'[b] = frames[b] + 1 /\ cpcodes'[b] = codes[b]
      /\ \A b \in Slot \ going : pos'[b] = pos[b]
  <2>1. pos' \in [Slot -> Nat] /\ frames' \in [Slot -> Nat]
    BY <1>1, <1>2 DEF Framed, ForwardTypes
  <2>2. last' = [b \in Slot |-> last'[b]] /\ cpcodes' = [b \in Slot |-> cpcodes'[b]]
    BY <1>2 DEF Framed
  <2>3. /\ \A b \in going : pos'[b] = pos[b] + 1 /\ frames'[b] = frames[b] + 1 /\ cpcodes'[b] = codes[b]
        /\ \A b \in Slot \ going : pos'[b] = pos[b]
    BY <1>2, <1>7 DEF Framed
  <2>4. QED
    BY <2>1, <2>2, <2>3
<1>9. \A b \in going : b \in FrameRows
  BY <1>1, <1>7 DEF Positions, FrameRows
<1>10. \A b \in going : last'[b] = out.hidden[b]
  BY <1>2, <1>7, <1>9 DEF Framed
<1>11. \A b \in Slot : pos[b] \in Nat /\ frames[b] \in Nat
  BY <1>1 DEF ForwardTypes
<1>12. \A b \in going : out.hidden[b] = Hidden(Layers, S[b])
  <2>1. CASE mode.batch /\ Fused
    BY <1>5, <2>1 DEF StepHolds, LayersOut
  <2>2. CASE mode.batch /\ ~Fused
    BY <1>5, <2>2 DEF StepHolds, SlotsOut
  <2>3. CASE ~mode.batch
    BY <1>5, <2>3 DEF StepHolds, OneOut
  <2>4. QED
    BY <2>1, <2>2, <2>3
<1>13. HiddenRight'
  BY <1>6, <1>10, <1>12 DEF HiddenRight
<1>14. CodesRight'
  <2> SUFFICES ASSUME NEW b \in going
               PROVE  cpcodes'[b] = Codes(Prefix(fed'[b], Len(fed'[b]) - 1), Last(fed'[b]))
    BY DEF CodesRight
  <2>1. Prefix(S[b], Len(S[b]) - 1) = fed[b] /\ Last(S[b]) = first[b]
    BY <1>4 DEF AllFed
  <2>2. QED
    BY <1>3, <1>6, <1>8, <2>1
<1>15. \A b \in active' : pos'[b] >= 1 /\ Len(fed'[b]) = pos'[b]
  <2> SUFFICES ASSUME NEW b \in going PROVE pos'[b] >= 1 /\ Len(fed'[b]) = pos'[b]
    OBVIOUS
  <2>1. b \in Slot /\ pos[b] \in Nat /\ pos'[b] = pos[b] + 1
    BY <1>7, <1>8, <1>11
  <2>2. QED
    BY <1>4, <1>6, <2>1 DEF AllFed
<1>16. mode.batch => \A b \in Slot : pos'[b] <= BatchKv - 1
  <2> SUFFICES ASSUME mode.batch, NEW b \in Slot PROVE pos'[b] <= BatchKv - 1
    OBVIOUS
  <2>1. pos[b] <= BatchKv - 1 /\ pos[b] \in Nat
    BY <1>1, <1>11 DEF Positions
  <2>2. b \in going => ~(pos[b] >= BatchKv - 1) /\ pos'[b] = pos[b] + 1
    BY <1>8 DEF GoOn, UsedUp
  <2>3. QED
    BY <1>0, <1>8, <2>1, <2>2
<1>17. CASE mode.batch
  <2>1. host' = host /\ kvMax' = kvMax
    BY <1>2, <1>17 DEF Framed
  <2>2. ForwardTypes'
    BY <1>1, <1>4, <1>6, <1>7, <1>8, <2>1 DEF ForwardTypes
  <2>3. Positions'
    BY <1>15, <1>16, <1>17 DEF Positions
  <2>4. ReadyRight'
    BY <1>1, SamePrefilled
  <2>5. \A b \in going : [c \in Slot |-> pos[c] + 1][b] = pos'[b]
    BY <1>7, <1>8
  <2>6. CASE Fused
    <3>1. own' = own /\ dev' = out.kv
      BY <1>2, <1>17, <2>6 DEF Framed
    <3>2. /\ out.kv = [a \in LayerCells |-> out.kv[a]]
          /\ LayersHold(out.kv, S, going, [c \in Slot |-> pos[c] + 1])
      BY <1>5, <1>17, <2>6 DEF StepHolds, LayersOut
    <3>3. LayersHold(dev', fed', active', pos')
      <4> SUFFICES ASSUME NEW b \in going, NEW l \in 0 .. Layers - 1, NEW p \in 0 .. pos'[b] - 1
                   PROVE  dev'[Cell(Cell(l, B, b), DeviceKv, p)] = Cached(l, Prefix(fed'[b], p + 1))
        BY DEF LayersHold
      <4> DEFINE N == [c \in Slot |-> pos[c] + 1]
      <4>1. p \in 0 .. N[b] - 1
        BY <2>5
      <4> HIDE DEF N
      <4>2. LayersHold(out.kv, S, going, N)
        BY <3>2 DEF N
      <4>3. QED
        BY <1>6, <3>1, <4>1, <4>2 DEF LayersHold
    <3>4. Caches' /\ CacheHolds'
      BY <1>1, <1>7, <1>17, <2>1, <2>6, <3>1, <3>2, <3>3 DEF Caches, CacheHolds
    <3>5. QED
      BY <1>13, <1>14, <2>2, <2>3, <2>4, <3>4 DEF ForwardInv
  <2>7. CASE ~Fused
    <3>1. own' = out.kv
      BY <1>2, <1>17, <2>7 DEF Framed
    <3>2. /\ out.kv = [a \in SlotCells |-> out.kv[a]]
          /\ SlotsHold(out.kv, S, going, [c \in Slot |-> pos[c] + 1])
      BY <1>5, <1>17, <2>7 DEF StepHolds, SlotsOut
    <3>3. SlotsHold(own', fed', active', pos')
      <4> SUFFICES ASSUME NEW b \in going, NEW l \in 0 .. Layers - 1, NEW p \in 0 .. pos'[b] - 1
                   PROVE  own'[Cell(Cell(b, Layers, l), BatchKv, p)] = Cached(l, Prefix(fed'[b], p + 1))
        BY DEF SlotsHold
      <4> DEFINE N == [c \in Slot |-> pos[c] + 1]
      <4>1. p \in 0 .. N[b] - 1
        BY <2>5
      <4> HIDE DEF N
      <4>2. SlotsHold(out.kv, S, going, N)
        BY <3>2 DEF N
      <4>3. QED
        BY <1>6, <3>1, <4>1, <4>2 DEF SlotsHold
    <3>4. Caches' /\ CacheHolds'
      BY <1>1, <1>7, <1>17, <2>1, <2>7, <3>1, <3>2, <3>3 DEF Caches, CacheHolds
    <3>5. QED
      BY <1>13, <1>14, <2>2, <2>3, <2>4, <3>4 DEF ForwardInv
  <2>8. QED
    BY <2>6, <2>7
<1>18. CASE ~mode.batch
  <2>1. going = {0} /\ 0 \in Slot /\ pos'[0] = pos[0] + 1 /\ frames'[0] = frames[0] + 1
        /\ pos[0] \in Nat /\ frames[0] \in Nat /\ 0 \in active
    BY <1>5, <1>7, <1>8, <1>11, <1>18 DEF StepHolds
  <2>2. ReadyRight'
    BY <1>1, SamePrefilled
  <2>3. \A b \in active' : b = 0
    BY <2>1
  <2>4. CASE Fused
    <3>1. host' = host /\ kvMax' = kvMax /\ dev' = out.kv
      BY <1>2, <2>4 DEF Framed
    <3>2. out.kv = [a \in OneCells(DeviceKv) |-> out.kv[a]] /\ OneHolds(out.kv, DeviceKv, S[0], pos[0] + 1)
      BY <1>5, <1>18, <2>4 DEF StepHolds, OneOut
    <3>3. ForwardTypes'
      BY <1>1, <1>4, <1>6, <1>7, <1>8, <3>1 DEF ForwardTypes
    <3>4. Positions'
      <4>1. kvMax = DeviceKv /\ pos[0] + MaxGen <= DeviceKv + frames[0]
        BY <1>1, <1>18, <2>1, <2>4 DEF Positions
      <4>2. pos'[0] + MaxGen <= DeviceKv + frames'[0]
        BY <1>0, <2>1, <4>1
      <4>3. QED
        BY <1>7, <1>15, <1>18, <2>1, <2>3, <2>4, <3>1, <4>1, <4>2 DEF Positions
    <3>5. Caches' /\ CacheHolds'
      BY <1>1, <1>6, <1>7, <1>18, <2>1, <2>3, <2>4, <3>1, <3>2 DEF Caches, CacheHolds
    <3>6. QED
      BY <1>13, <1>14, <2>2, <3>3, <3>4, <3>5 DEF ForwardInv
  <2>5. CASE ~Fused
    <3> DEFINE k == KvMaxFor(kvMax, pos[0] + 1)
    <3>1. host' = out.kv /\ kvMax' = k
      BY <1>2, <1>18, <2>5 DEF Framed
    <3>2. /\ k \in Nat \ {0} /\ k >= pos[0] + 1
          /\ out.kv = [a \in OneCells(k) |-> out.kv[a]] /\ OneHolds(out.kv, k, S[0], pos[0] + 1)
      BY <1>5, <1>18, <2>5 DEF StepHolds, OneOut
    <3> HIDE DEF k
    <3>3. ForwardTypes'
      BY <1>1, <1>4, <1>6, <1>7, <1>8, <3>1, <3>2 DEF ForwardTypes
    <3>4. Positions'
      BY <1>7, <1>15, <1>18, <2>1, <2>3, <2>5, <3>1, <3>2 DEF Positions
    <3>5. Caches' /\ CacheHolds'
      BY <1>1, <1>6, <1>7, <1>18, <2>1, <2>3, <2>5, <3>1, <3>2 DEF Caches, CacheHolds
    <3>6. QED
      BY <1>13, <1>14, <2>2, <3>3, <3>4, <3>5 DEF ForwardInv
  <2>6. QED
    BY <2>4, <2>5
<1>19. QED
  BY <1>17, <1>18

\* All active slots end.
LEMMA EndKeeps ==
    ASSUME ForwardInv, active' = {},
           UNCHANGED <<mode, host, kvMax, ready, own, dev, pos, last, cpcodes, frames, fed>>
    PROVE  ForwardInv'
<1>1. ForwardTypes /\ Caches /\ ReadyRight /\ Positions
  BY DEF ForwardInv
<1>2. ForwardTypes' /\ Caches'
  BY <1>1 DEF ForwardTypes, Caches, Fused
<1>3. ReadyRight'
  BY <1>1, SamePrefilled
<1>4. Positions' /\ CacheHolds' /\ HiddenRight' /\ CodesRight'
  BY <1>1 DEF Positions, CacheHolds, HiddenRight, CodesRight, Fused, LayersHold, SlotsHold
<1>5. QED
  BY <1>2, <1>3, <1>4 DEF ForwardInv

\* Both.
LEMMA GenerateKeeps ==
    ASSUME ForwardInv, Generate
    PROVE  ForwardInv'
<1>1. PICK going \in SUBSET {b \in active : ~UsedUp(b)} :
          /\ active' = going
          /\ IF going = {}
             THEN UNCHANGED <<host, kvMax, own, dev, pos, last, cpcodes, frames, fed>>
             ELSE \E first \in [going -> First] : Frame(going, first)
  BY Zenon DEF Generate
<1>2. mode' = mode /\ ready' = ready
  BY DEF Generate
<1>3. CASE going = {}
  BY <1>1, <1>2, <1>3, EndKeeps
<1>4. CASE going # {}
  <2>1. PICK first \in [going -> First] : Frame(going, first)
    BY <1>1, <1>4
  <2>2. GoOn(going, first)
    BY <1>4 DEF GoOn
  <2>3. QED
    BY <1>1, <1>2, <2>1, <2>2, FrameKeeps
<1>5. QED
  BY <1>3, <1>4

\* Every step.
LEMMA ForwardStep ==
    ASSUME DeviceFits, ForwardInv, [ForwardNext]_forwardVars
    PROVE  ForwardInv'
<1>1. ASSUME NEW p \in mode.prompts, Start(p) PROVE ForwardInv'
  BY <1>1, StartKeeps
<1>2. ASSUME NEW p \in mode.prompts, Help(p) PROVE ForwardInv'
  BY <1>2, HelpKeeps
<1>3. ASSUME NEW b \in Slot, Admit(b) PROVE ForwardInv'
  BY <1>3, AdmitKeeps
<1>4. ASSUME NEW b \in Slot, NEW p \in mode.prompts, AdmitInline(b, p) PROVE ForwardInv'
  BY <1>4, AdmitInlineKeeps
<1>5. CASE Generate
  BY <1>5, GenerateKeeps
<1>6. CASE UNCHANGED forwardVars
  <2>1. ForwardTypes /\ Caches /\ ReadyRight /\ Positions /\ CacheHolds /\ HiddenRight /\ CodesRight
    BY DEF ForwardInv
  <2>2. ForwardTypes' /\ Caches'
    BY <1>6, <2>1 DEF forwardVars, ForwardTypes, Caches, Fused
  <2>3. ReadyRight'
    BY <1>6, <2>1, SamePrefilled DEF forwardVars
  <2>4. Positions' /\ CacheHolds' /\ HiddenRight' /\ CodesRight'
    BY <1>6, <2>1 DEF forwardVars, Positions, CacheHolds, HiddenRight, CodesRight, Fused
  <2>5. QED
    BY <2>2, <2>3, <2>4 DEF ForwardInv
<1>7. QED
  BY <1>1, <1>2, <1>3, <1>4, <1>5, <1>6 DEF ForwardNext

\* CacheRight, from where each layout puts a position.
LEMMA CacheHoldsRight ==
    ASSUME ForwardInv
    PROVE  SequenceRight
<1>1. ForwardTypes /\ Positions /\ CacheHolds /\ HiddenRight
  BY DEF ForwardInv
<1>2. ASSUME NEW b \in active, NEW l \in 0 .. Layers - 1, NEW p \in 0 .. pos[b] - 1
      PROVE  CacheAt(b, l, p) = Cached(l, Prefix(fed[b], p + 1))
  <2>1. CASE mode.batch /\ Fused
    BY <1>1, <2>1 DEF CacheAt, CacheHolds, LayersHold, Cell
  <2>2. CASE mode.batch /\ ~Fused
    BY <1>1, <2>2 DEF CacheAt, CacheHolds, SlotsHold, Cell
  <2>3. CASE ~mode.batch /\ Fused
    BY <1>1, <2>3 DEF CacheAt, CacheHolds, OneHolds, Cell
  <2>4. CASE ~mode.batch /\ ~Fused
    BY <1>1, <2>4 DEF CacheAt, CacheHolds, OneHolds, Cell
  <2>5. QED
    BY <2>1, <2>2, <2>3, <2>4
<1>3. QED
  BY <1>1, <1>2 DEF SequenceRight, CacheRight

\* Whatever the constants, the modes and the prompts, if what a device is given
\* fits it: the invariant holds of every behaviour of Forward.
THEOREM ForwardInvariance == ASSUME DeviceFits PROVE ForwardSpec => []ForwardInv
<1>1. ForwardInit => ForwardInv
  BY InitForwardInv
<1>2. ForwardInv /\ [ForwardNext]_forwardVars => ForwardInv'
  BY ForwardStep
<1>3. QED
  BY <1>1, <1>2, PTL DEF ForwardSpec

\* A slot goes on from the hidden state and the cached positions of exactly the
\* embeddings it was fed: whoever shares the batch, whatever its memory held, and
\* wherever prefill, steps, snapshots, growth and uploads put it.
THEOREM SequencesAreTheirOwn == ASSUME DeviceFits PROVE ForwardSpec => []SequenceRight
<1>1. ForwardSpec => []ForwardInv
  BY ForwardInvariance
<1>2. ForwardInv => SequenceRight
  BY CacheHoldsRight
<1>3. QED
  BY <1>1, <1>2, PTL

\* The codes of a frame are the code predictor's for the slot's own sequence and
\* first code, each by its own head from the codes before it, wherever it runs.
THEOREM CodesAreTheirOwn == ASSUME DeviceFits PROVE ForwardSpec => []CodesRight
<1>1. ForwardSpec => []ForwardInv
  BY ForwardInvariance
<1>2. ForwardInv => CodesRight
  BY DEF ForwardInv
<1>3. QED
  BY <1>1, <1>2, PTL
=============================================================================
