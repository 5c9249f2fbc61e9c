-------------------------- MODULE BatchServer_proofs --------------------------
(***************************************************************************)
(* What the batched server keeps for every number of jobs, slots, readers  *)
(* and frames: the driver fits its buffers, answers each job at most once  *)
(* and as it should, and never loses one while the server runs (the first  *)
(* part, about BatchDriver); and every connection has one owner from       *)
(* accept to close (the second, about BatchServer, whose steps are steps   *)
(* of the driver or leave it alone).                                       *)
(*                                                                         *)
(* The properties count owners; the induction is about which places hold a *)
(* job at all, and that no two places hold the same.                       *)
(***************************************************************************)
EXTENDS BatchServer, FiniteSetTheorems, SequenceTheorems, WellFoundedInduction, TLAPS

\* Where job j can be.
InJq(j) == \E i \in 1 .. Len(jq) : jq[i] = j
InHelper(j) == hjob = j
InPfq(j) == \E i \in 1 .. Len(pfq) : pfq[i].job = j
InSlot(j) == \E b \in Slot : tag[b] = j
Held(j) == InJq(j) \/ InHelper(j) \/ InPfq(j) \/ InSlot(j)

\* A job is in one place.
Alone ==
    /\ \A i, k \in 1 .. Len(jq) : jq[i] = jq[k] => i = k
    /\ \A i, k \in 1 .. Len(pfq) : pfq[i].job = pfq[k].job => i = k
    /\ \A b, c \in Slot : tag[b] = tag[c] /\ tag[b] # NoJob => b = c
    /\ \A j \in Job : /\ InJq(j) => ~InHelper(j) /\ ~InPfq(j) /\ ~InSlot(j)
                      /\ InHelper(j) => ~InPfq(j) /\ ~InSlot(j)
                      /\ InPfq(j) => ~InSlot(j)

\* What the client of j may have heard while j is not answered.
Open(j) == /\ \A i \in 1 .. Len(reply[j]) : reply[j][i] = "chunk"
           /\ j \notin Streams => reply[j] = << >>

\* What he has heard when it is: chunks if he streams, and one last word.
Done(j) ==
    /\ Len(reply[j]) > 0
    /\ \A i \in 1 .. Len(reply[j]) : i # Len(reply[j]) => j \in Streams /\ reply[j][i] = "chunk"
    /\ reply[j][Len(reply[j])] \in IF j \in Streams THEN {"end"} ELSE {"audio", "error"}

ReplyInv == \A j \in Job : Open(j) \/ Done(j)

\* A job that is held has arrived and is not answered.
HeldOpen == \A j \in Job : Held(j) => j \in arrived /\ Open(j)

\* One that has not arrived is nowhere and its client has heard nothing.
NotYet == \A j \in Job : j \notin arrived => reply[j] = << >>

\* The helper has a job exactly while it prefills or pushes it, and without a
\* helper there is none in its queue.
HelperInv ==
    /\ hjob \in Job <=> hpc \in {"prefill", "push"}
    /\ ~UseHelper => pfq = << >>

\* The scheduler leaves its loop, and queues are shut down, only when the
\* server stops; no slot is busy then, and the helper has been joined.
StopInv ==
    /\ jqShut \/ pfqShut => ~running
    /\ spc \in {"drain", "join", "exit"} => ~running /\ Active = {}
    /\ spc = "join" => UseHelper
    /\ spc = "exit" => hpc \in {"none", "exit"} /\ pfq = << >>

\* The job the helper drops when it finds its queue shut down is the only one
\* that nobody holds and nobody has answered.
LostInv ==
    \/ \A j \in arrived : Held(j) \/ Finished(j)
    \/ /\ UseHelper /\ ~running /\ hpc = "exit"
       /\ \E l \in arrived : \A j \in arrived : j # l => Held(j) \/ Finished(j)

\* The books on the jobs, apart from who drives.
JobInv == Alone /\ ReplyInv /\ HeldOpen /\ NotYet

DriverInv == DriverTypeOK /\ FramesFit /\ JobInv /\ HelperInv /\ StopInv /\ LostInv
-----------------------------------------------------------------------------
(* Queues, counting and the least free slot.                               *)

LEMMA Constants ==
    /\ NoJob \notin Job /\ Streams \subseteq Job /\ B \in Nat \ {0}
    /\ GenCap \in Nat /\ GenCap >= 2 /\ MaxPrompt \in Nat /\ KvMax \in Nat
    /\ KvMax >= MaxPrompt + 2 /\ PfqCap \in Nat
    /\ \A b \in Slot : b \in Nat /\ b + 1 \in 1 .. B + 1
BY DriverAssumption DEF KvMax, PfqCap, Slot

\* The least element of a set of natural numbers is one of them.
LEMMA MinIsMember ==
    ASSUME NEW S \in SUBSET Nat, S # {}
    PROVE  Min(S) \in S /\ \A y \in S : Min(S) <= y
<1> DEFINE Less == {p \in Nat \X Nat : p[1] < p[2]}
<1>1. IsWellFoundedOn(Less, Nat)
  BY NatLessThanWellFounded, Zenon DEF OpToRel
<1> HIDE DEF Less
<1>2. PICK x \in S : \A y \in S : <<y, x>> \notin Less
  BY <1>1, WFMin
<1>3. \A y \in S : x <= y
  <2> SUFFICES ASSUME NEW y \in S, y < x PROVE FALSE
    OBVIOUS
  <2> DEFINE p == <<y, x>>
  <2>1. p \in Nat \X Nat /\ p[1] = y /\ p[2] = x
    OBVIOUS
  <2>2. p \in Less
    BY <2>1 DEF Less
  <2>3. QED
    BY <1>2, <2>2
<1>4. QED
  BY <1>3 DEF Min

LEMMA Popped ==
    ASSUME NEW S, NEW s \in Seq(S), s # << >>
    PROVE  /\ Len(s) \in Nat /\ Len(s) >= 1 /\ Len(Tail(s)) = Len(s) - 1
           /\ Head(s) = s[1] /\ Head(s) \in S /\ Tail(s) \in Seq(S)
           /\ \A i \in 1 .. Len(s) - 1 : Tail(s)[i] = s[i + 1]
BY HeadTailProperties, EmptySeq

LEMMA PopJq ==
    ASSUME DriverTypeOK, Alone, jq # << >>, jq' = Tail(jq), NEW h, h = Head(jq)
    PROVE  /\ h \in Job /\ InJq(h) /\ jq' \in Seq(Job)
           /\ \A j : InJq(j)' <=> InJq(j) /\ j # h
           /\ \A i, k \in 1 .. Len(jq') : jq'[i] = jq'[k] => i = k
<1> USE DEF InJq
<1>1. /\ Len(jq) \in Nat /\ Len(jq) >= 1 /\ Len(jq') = Len(jq) - 1
      /\ h = jq[1] /\ h \in Job /\ jq' \in Seq(Job)
      /\ \A i \in 1 .. Len(jq) - 1 : jq'[i] = jq[i + 1]
  BY Popped DEF DriverTypeOK
<1>2. \A i, k \in 1 .. Len(jq) : jq[i] = jq[k] => i = k
  BY DEF Alone
<1>3. ASSUME NEW j, InJq(j)' PROVE InJq(j) /\ j # h
  BY <1>1, <1>2, <1>3
<1>4. ASSUME NEW j, InJq(j), j # h PROVE InJq(j)'
  <2>1. PICK i \in 1 .. Len(jq) : jq[i] = j
    BY <1>4
  <2>2. i - 1 \in 1 .. Len(jq') /\ jq'[i - 1] = j
    BY <1>1, <1>4, <2>1
  <2>3. QED
    BY <2>2
<1>5. QED
  BY <1>1, <1>2, <1>3, <1>4

LEMMA PopPfq ==
    ASSUME DriverTypeOK, Alone, pfq # << >>, pfq' = Tail(pfq), NEW h, h = Head(pfq)
    PROVE  /\ h.job \in Job /\ h.len \in 0 .. MaxPrompt /\ InPfq(h.job)
           /\ pfq' \in Seq([job : Job, len : 0 .. MaxPrompt]) /\ Len(pfq') <= PfqCap
           /\ \A j : InPfq(j)' <=> InPfq(j) /\ j # h.job
           /\ \A i, k \in 1 .. Len(pfq') : pfq'[i].job = pfq'[k].job => i = k
<1> USE DEF InPfq
<1>1. /\ Len(pfq) \in Nat /\ Len(pfq) >= 1 /\ Len(pfq') = Len(pfq) - 1
      /\ h = pfq[1] /\ h \in [job : Job, len : 0 .. MaxPrompt]
      /\ pfq' \in Seq([job : Job, len : 0 .. MaxPrompt])
      /\ \A i \in 1 .. Len(pfq) - 1 : pfq'[i] = pfq[i + 1]
      /\ Len(pfq) <= PfqCap
  BY Popped DEF DriverTypeOK
<1>2. \A i, k \in 1 .. Len(pfq) : pfq[i].job = pfq[k].job => i = k
  BY DEF Alone
<1>3. ASSUME NEW j, InPfq(j)' PROVE InPfq(j) /\ j # h.job
  <2>1. PICK i \in 1 .. Len(pfq') : pfq'[i].job = j
    BY <1>3
  <2>2. i + 1 \in 1 .. Len(pfq) /\ pfq[i + 1].job = j /\ i + 1 # 1
    BY <1>1, <2>1
  <2>3. QED
    BY <1>1, <1>2, <2>2
<1>4. ASSUME NEW j, InPfq(j), j # h.job PROVE InPfq(j)'
  <2>1. PICK i \in 1 .. Len(pfq) : pfq[i].job = j
    BY <1>4
  <2>2. i - 1 \in 1 .. Len(pfq') /\ pfq'[i - 1].job = j
    BY <1>1, <1>4, <2>1
  <2>3. QED
    BY <2>2
<1>5. \A i, k \in 1 .. Len(pfq') : pfq'[i].job = pfq'[k].job => i = k
  <2> SUFFICES ASSUME NEW i \in 1 .. Len(pfq'), NEW k \in 1 .. Len(pfq'), pfq'[i].job = pfq'[k].job
               PROVE  i = k
    OBVIOUS
  <2>1. /\ i + 1 \in 1 .. Len(pfq) /\ k + 1 \in 1 .. Len(pfq)
        /\ pfq[i + 1].job = pfq[k + 1].job
    BY <1>1
  <2>2. QED
    BY <1>2, <2>1
<1>6. InPfq(h.job)
  BY <1>1
<1>7. Len(pfq') <= PfqCap
  BY <1>1, Constants
<1>8. QED
  BY <1>1, <1>3, <1>4, <1>5, <1>6, <1>7

LEMMA PushJq ==
    ASSUME DriverTypeOK, Alone, NEW h \in Job, ~InJq(h), jq' = Append(jq, h)
    PROVE  /\ jq' \in Seq(Job)
           /\ \A j : InJq(j)' <=> InJq(j) \/ j = h
           /\ \A i, k \in 1 .. Len(jq') : jq'[i] = jq'[k] => i = k
<1> USE DEF InJq
<1>1. jq \in Seq(Job) /\ Len(jq) \in Nat
  BY LenProperties DEF DriverTypeOK
<1>2. /\ jq' \in Seq(Job) /\ Len(jq') = Len(jq) + 1 /\ jq'[Len(jq) + 1] = h
      /\ \A i \in 1 .. Len(jq) : jq'[i] = jq[i]
  BY <1>1, AppendProperties
<1>3. \A i, k \in 1 .. Len(jq) : jq[i] = jq[k] => i = k
  BY DEF Alone
<1>4. \A i \in 1 .. Len(jq') : i \in 1 .. Len(jq) \/ i = Len(jq) + 1
  BY <1>1, <1>2
<1>5. \A j : InJq(j)' <=> InJq(j) \/ j = h
  BY <1>1, <1>2, <1>4
<1>6. QED
  BY <1>2, <1>3, <1>4, <1>5

LEMMA PushPfq ==
    ASSUME DriverTypeOK, Alone, NEW h \in [job : Job, len : 0 .. MaxPrompt], ~InPfq(h.job),
           pfq' = Append(pfq, h), Len(pfq) < PfqCap
    PROVE  /\ pfq' \in Seq([job : Job, len : 0 .. MaxPrompt]) /\ Len(pfq') <= PfqCap
           /\ \A j : InPfq(j)' <=> InPfq(j) \/ j = h.job
           /\ \A i, k \in 1 .. Len(pfq') : pfq'[i].job = pfq'[k].job => i = k
<1> USE DEF InPfq
<1>1. pfq \in Seq([job : Job, len : 0 .. MaxPrompt]) /\ Len(pfq) \in Nat
  BY LenProperties DEF DriverTypeOK
<1>2. /\ pfq' \in Seq([job : Job, len : 0 .. MaxPrompt])
      /\ Len(pfq') = Len(pfq) + 1 /\ pfq'[Len(pfq) + 1] = h
      /\ \A i \in 1 .. Len(pfq) : pfq'[i] = pfq[i]
  BY <1>1, AppendProperties
<1>3. \A i, k \in 1 .. Len(pfq) : pfq[i].job = pfq[k].job => i = k
  BY DEF Alone
<1>4. \A i \in 1 .. Len(pfq') : i \in 1 .. Len(pfq) \/ i = Len(pfq) + 1
  BY <1>1, <1>2
<1>5. \A j : InPfq(j)' <=> InPfq(j) \/ j = h.job
  BY <1>1, <1>2, <1>4
<1>6. \A i, k \in 1 .. Len(pfq') : pfq'[i].job = pfq'[k].job => i = k
  BY <1>2, <1>3, <1>4
<1>7. QED
  BY <1>1, <1>2, <1>5, <1>6, Constants
-----------------------------------------------------------------------------
(* What a client hears.                                                    *)

LEMMA OpenIsNotFinished ==
    ASSUME DriverTypeOK, NEW j \in Job, Open(j)
    PROVE  ~Finished(j)
<1>1. reply[j] \in Seq(Final \cup {"chunk"}) /\ Len(reply[j]) \in Nat
  BY LenProperties DEF DriverTypeOK
<1>2. reply[j] # << >> => Last(reply[j]) = "chunk"
  BY <1>1, EmptySeq DEF Open, Last
<1>3. QED
  BY <1>2 DEF Finished, Final

LEMMA DoneIsFinished ==
    ASSUME DriverTypeOK, NEW j \in Job, Done(j)
    PROVE  Finished(j)
<1>1. reply[j] # << >>
  BY EmptySeq DEF Done
<1>2. QED
  BY <1>1 DEF Done, Finished, Final, Last

\* The last word to an open client answers its job ...
LEMMA LastWord ==
    ASSUME DriverTypeOK, NEW j \in Job, Open(j), NEW x,
           x \in IF j \in Streams THEN {"end"} ELSE {"audio", "error"},
           reply'[j] = Append(reply[j], x) \/ reply'[j] = reply[j] \o <<x>>
    PROVE  Done(j)' /\ reply'[j] \in Seq(Final \cup {"chunk"})
<1> DEFINE S == Final \cup {"chunk"}
<1>1. reply[j] \in Seq(S) /\ Len(reply[j]) \in Nat /\ x \in S
  BY LenProperties DEF DriverTypeOK, Final
<1>2. <<x>> \in Seq(S) /\ Len(<<x>>) = 1 /\ <<x>>[1] = x
  BY <1>1
<1> HIDE DEF S
<1>3. /\ reply'[j] \in Seq(S) /\ Len(reply'[j]) = Len(reply[j]) + 1
      /\ reply'[j][Len(reply[j]) + 1] = x
      /\ \A i \in 1 .. Len(reply[j]) : reply'[j][i] = reply[j][i]
  <2>1. CASE reply'[j] = Append(reply[j], x)
    BY <1>1, <2>1, AppendProperties
  <2>2. CASE reply'[j] = reply[j] \o <<x>>
    <3>1. /\ reply'[j] \in Seq(S) /\ Len(reply'[j]) = Len(reply[j]) + Len(<<x>>)
          /\ \A i \in 1 .. Len(reply[j]) + Len(<<x>>) :
                reply'[j][i] = IF i <= Len(reply[j]) THEN reply[j][i]
                               ELSE <<x>>[i - Len(reply[j])]
      BY <1>1, <1>2, <2>2, ConcatProperties
    <3>2. QED
      BY <1>1, <1>2, <3>1
  <2>3. QED
    BY <2>1, <2>2
<1>4. \A i \in 1 .. Len(reply'[j]) : i # Len(reply'[j]) => j \in Streams /\ reply'[j][i] = "chunk"
  <2>1. j \notin Streams => Len(reply[j]) = 0
    BY EmptySeq DEF Open
  <2>2. \A i \in 1 .. Len(reply[j]) : reply[j][i] = "chunk"
    BY DEF Open
  <2>3. QED
    BY <1>1, <1>3, <2>1, <2>2, SMTT(30)
<1>5. QED
  BY <1>1, <1>3, <1>4 DEF Done, S

\* ... a chunk to a client that streams leaves it open.
LEMMA ChunkHeard ==
    ASSUME DriverTypeOK, NEW j \in Job, Open(j), j \in Streams, reply'[j] = reply[j] \o <<"chunk">>
    PROVE  Open(j)' /\ reply'[j] \in Seq(Final \cup {"chunk"})
<1> DEFINE S == Final \cup {"chunk"}
<1>1. reply[j] \in Seq(S) /\ Len(reply[j]) \in Nat
  BY LenProperties DEF DriverTypeOK
<1>2. <<"chunk">> \in Seq(S) /\ Len(<<"chunk">>) = 1 /\ <<"chunk">>[1] = "chunk"
  OBVIOUS
<1>3. /\ reply'[j] \in Seq(S) /\ Len(reply'[j]) = Len(reply[j]) + Len(<<"chunk">>)
      /\ \A i \in 1 .. Len(reply[j]) + Len(<<"chunk">>) :
            reply'[j][i] = IF i <= Len(reply[j]) THEN reply[j][i]
                           ELSE <<"chunk">>[i - Len(reply[j])]
  BY <1>1, <1>2, ConcatProperties
<1> HIDE DEF S
<1>4. \A i \in 1 .. Len(reply'[j]) : reply'[j][i] = "chunk"
  <2>1. \A i \in 1 .. Len(reply[j]) : reply[j][i] = "chunk"
    BY DEF Open
  <2>2. Len(reply'[j]) = Len(reply[j]) + 1
    BY <1>2, <1>3
  <2>3. SUFFICES ASSUME NEW i \in 1 .. Len(reply[j]) + 1 PROVE reply'[j][i] = "chunk"
    BY <2>2
  <2>4. CASE i <= Len(reply[j])
    BY <1>1, <1>2, <1>3, <2>1, <2>4
  <2>5. CASE ~(i <= Len(reply[j]))
    <3>1. i - Len(reply[j]) = 1
      BY <1>1, <2>5
    <3>2. QED
      BY <1>1, <1>2, <1>3, <2>5, <3>1
  <2>6. QED
    BY <2>4, <2>5
<1>5. QED
  BY <1>3, <1>4 DEF Open, S

\* What is not said to a client changes nothing.
LEMMA NothingHeard ==
    ASSUME NEW j, reply'[j] = reply[j]
    PROVE  (Open(j)' <=> Open(j)) /\ (Done(j)' <=> Done(j)) /\ (Finished(j)' <=> Finished(j))
BY DEF Open, Done, Finished
-----------------------------------------------------------------------------
(* Steps that move no job.                                                 *)

LEMMA Quiet ==
    ASSUME JobInv, UNCHANGED <<jq, pfq, hjob, tag, reply, arrived>>
    PROVE  /\ JobInv' /\ Active' = Active
           /\ \A j : (Held(j)' <=> Held(j)) /\ (Finished(j)' <=> Finished(j))
<1>1. Active' = Active
  BY DEF Active
<1>2. /\ \A j : (InJq(j)' <=> InJq(j)) /\ (InHelper(j)' <=> InHelper(j))
      /\ \A j : (InPfq(j)' <=> InPfq(j)) /\ (InSlot(j)' <=> InSlot(j))
  BY DEF InJq, InHelper, InPfq, InSlot
<1>3. \A j : (Open(j)' <=> Open(j)) /\ (Done(j)' <=> Done(j)) /\ (Finished(j)' <=> Finished(j))
  BY DEF Open, Done, Finished
<1>4. Alone'
  BY <1>2 DEF JobInv, Alone
<1>5. ReplyInv' /\ HeldOpen' /\ NotYet'
  BY <1>2, <1>3 DEF JobInv, ReplyInv, HeldOpen, NotYet, Held
<1>6. QED
  BY <1>1, <1>2, <1>3, <1>4, <1>5 DEF JobInv, Held

\* A step loses no job when every job that is held is held or answered after
\* it, and the helper that has ended stays so.
LEMMA NothingLost ==
    ASSUME LostInv, arrived \subseteq arrived',
           \A k \in arrived' \ arrived : Held(k)',
           \A k \in arrived : Held(k) \/ Finished(k) => Held(k)' \/ Finished(k)',
           running' => running, hpc = "exit" => hpc' = "exit"
    PROVE  LostInv'
<1>1. CASE \A j \in arrived : Held(j) \/ Finished(j)
  <2>1. \A j \in arrived' : Held(j)' \/ Finished(j)'
    BY <1>1
  <2>2. QED
    BY <2>1 DEF LostInv
<1>2. CASE /\ UseHelper /\ ~running /\ hpc = "exit"
           /\ \E l \in arrived : \A j \in arrived : j # l => Held(j) \/ Finished(j)
  <2>1. UseHelper' /\ ~running' /\ hpc' = "exit"
    BY <1>2 DEF UseHelper
  <2>2. PICK l \in arrived : \A j \in arrived : j # l => Held(j) \/ Finished(j)
    BY <1>2
  <2>3. l \in arrived' /\ \A j \in arrived' : j # l => Held(j)' \/ Finished(j)'
    BY <2>2
  <2>4. QED
    BY <2>1, <2>3 DEF LostInv
<1>3. QED
  BY <1>1, <1>2 DEF LostInv

\* A step that moves no job keeps the invariant if it keeps the types, the
\* slots and what is said of stopping.
LEMMA QuietStep ==
    ASSUME DriverInv, UNCHANGED <<jq, pfq, hjob, tag, reply, arrived, frames, pos>>,
           running' => running, hpc = "exit" => hpc' = "exit",
           DriverTypeOK', HelperInv', StopInv'
    PROVE  DriverInv'
<1>1. JobInv' /\ \A j : (Held(j)' <=> Held(j)) /\ (Finished(j)' <=> Finished(j))
  BY Quiet DEF DriverInv
<1>2. LostInv'
  BY <1>1, NothingLost DEF DriverInv
<1>3. FramesFit'
  BY DEF DriverInv, FramesFit, StepRefused
<1>4. QED
  BY <1>1, <1>2, <1>3 DEF DriverInv

LEMMA TestStep == ASSUME DriverInv, Test PROVE DriverInv'
<1> USE DEF Test, queueVars, slotVars, helperVars, readyVars
<1>1. DriverTypeOK'
  BY Constants DEF DriverInv, DriverTypeOK, FreeFrom
<1>2. HelperInv' /\ StopInv'
  BY DEF DriverInv, HelperInv, StopInv, UseHelper, Active
<1>3. QED
  BY <1>1, <1>2, QuietStep

LEMMA AdmitStep == ASSUME DriverInv, Admit PROVE DriverInv'
<1> USE DEF Admit, queueVars, slotVars, helperVars, readyVars
<1>1. DriverTypeOK'
  <2>1. spc' = "pop" => at' \in 1 .. B + 1 /\ at' \in FreeFrom /\ at' \in FreeFrom'
    <3>1. FreeFrom \subseteq Nat
      BY DEF FreeFrom, Slot
    <3>2. SUFFICES ASSUME spc' = "pop"
                   PROVE  at' \in 1 .. B + 1 /\ at' \in FreeFrom /\ at' \in FreeFrom'
      OBVIOUS
    <3>3. FreeFrom # {} /\ at' = Min(FreeFrom)
      BY <3>2
    <3>4. at' \in FreeFrom
      BY <3>1, <3>3, MinIsMember
    <3>5. QED
      BY <3>4, Constants DEF FreeFrom, Slot
  <2>2. spc' # "pop" => at' = at
    OBVIOUS
  <2>3. spc' \in {"idle", "pop"}
    OBVIOUS
  <2>4. QED
    BY <2>1, <2>2, <2>3 DEF DriverInv, DriverTypeOK
<1>2. HelperInv' /\ StopInv'
  BY DEF DriverInv, HelperInv, StopInv, UseHelper, Active
<1>3. QED
  BY <1>1, <1>2, QuietStep

LEMMA IdleStep == ASSUME DriverInv, Idle PROVE DriverInv'
<1> USE DEF Idle, queueVars, slotVars, helperVars, readyVars
<1>1. DriverTypeOK'
  BY DEF DriverInv, DriverTypeOK, FreeFrom
<1>2. HelperInv' /\ StopInv'
  BY DEF DriverInv, HelperInv, StopInv, UseHelper, Active
<1>3. QED
  BY <1>1, <1>2, QuietStep

LEMMA DrainStep == ASSUME DriverInv, Drain PROVE DriverInv'
<1> USE DEF Drain, queueVars, slotVars, helperVars, readyVars
<1>1. DriverTypeOK'
  BY DEF DriverInv, DriverTypeOK, FreeFrom
<1>2. HelperInv' /\ StopInv'
  BY DEF DriverInv, DriverTypeOK, HelperInv, StopInv, UseHelper, Active
<1>3. QED
  BY <1>1, <1>2, QuietStep

LEMMA HelperPrefillStep == ASSUME DriverInv, HelperPrefill PROVE DriverInv'
<1> USE DEF HelperPrefill, queueVars, slotVars, helperVars, readyVars
<1>1. DriverTypeOK'
  BY DEF DriverInv, DriverTypeOK, FreeFrom
<1>2. HelperInv' /\ StopInv'
  BY DEF DriverInv, HelperInv, StopInv, UseHelper, Active
<1>3. QED
  BY <1>1, <1>2, QuietStep

LEMMA StopStep == ASSUME DriverInv, Stop \/ ShutJq PROVE DriverInv'
<1> USE DEF Stop, ShutJq, queueVars, slotVars, helperVars, readyVars
<1>1. DriverTypeOK'
  BY DEF DriverInv, DriverTypeOK, FreeFrom
<1>2. HelperInv' /\ StopInv'
  BY DEF DriverInv, HelperInv, StopInv, UseHelper, Active
<1>3. QED
  BY <1>1, <1>2, QuietStep
-----------------------------------------------------------------------------
(* Steps that move a job.                                                  *)

\* A job that changes place stays open, and no other changes.
LEMMA Moved ==
    ASSUME DriverInv, reply' = reply, arrived' = arrived, Alone',
           \A k \in Job : Held(k)' => Held(k)
    PROVE  JobInv'
<1>1. \A j : (Open(j)' <=> Open(j)) /\ (Done(j)' <=> Done(j))
  BY NothingHeard
<1>2. QED
  BY <1>1 DEF DriverInv, JobInv, ReplyInv, HeldOpen, NotYet

\* The first job of a queue goes to slot `at`, or is rejected: what it does to
\* the slots, ...
LEMMA InstallSlots ==
    ASSUME DriverInv, spc = "pop", NEW j \in Job, ~InSlot(j), NEW len \in 0 .. MaxPrompt,
           Install(j, len)
    PROVE  /\ spc' = "admit" /\ at' \in 1 .. B + 1
           /\ tag' \in [Slot -> Job \cup {NoJob}]
           /\ frames' \in [Slot -> Nat] /\ pos' \in [Slot -> Nat] /\ FramesFit'
           /\ \A b, c \in Slot : tag'[b] = tag'[c] /\ tag'[b] # NoJob => b = c
           /\ \/ /\ tag' = tag /\ \A k : InSlot(k)' <=> InSlot(k)
                 /\ reply' = [reply EXCEPT ![j] = Append(@, Failed(j))]
              \/ /\ \A k \in Job : InSlot(k)' <=> InSlot(k) \/ k = j
                 /\ reply' = reply
<1>1. at \in Slot /\ tag[at] = NoJob /\ at + 1 \in 1 .. B + 1 /\ j # NoJob
  BY Constants DEF DriverInv, DriverTypeOK, FreeFrom
<1>2. /\ tag \in [Slot -> Job \cup {NoJob}] /\ frames \in [Slot -> Nat] /\ pos \in [Slot -> Nat]
      /\ \A b, c \in Slot : tag[b] = tag[c] /\ tag[b] # NoJob => b = c
      /\ \A b \in Slot : frames[b] <= GenCap /\ ~(pos[b] + 1 > KvMax)
  BY DEF DriverInv, DriverTypeOK, FramesFit, StepRefused, JobInv, Alone
<1>3. spc' = "admit" /\ at' = at + 1
  BY DEF Install
<1>4. CASE len = 0
  <2>1. tag' = tag /\ frames' = frames /\ pos' = pos /\ reply' = Fail(j)
    BY <1>4 DEF Install, slotVars
  <2>2. \A k : InSlot(k)' <=> InSlot(k)
    BY <2>1 DEF InSlot
  <2>3. FramesFit'
    BY <1>2, <2>1 DEF FramesFit, StepRefused
  <2>4. QED
    BY <1>1, <1>2, <1>3, <2>1, <2>2, <2>3 DEF Fail
<1>5. CASE len # 0
  <2>1. /\ tag' = [tag EXCEPT ![at] = j] /\ frames' = [frames EXCEPT ![at] = 0]
        /\ pos' = [pos EXCEPT ![at] = len] /\ reply' = reply
    BY <1>5 DEF Install
  <2>2. /\ tag' \in [Slot -> Job \cup {NoJob}] /\ frames' \in [Slot -> Nat]
        /\ pos' \in [Slot -> Nat]
    BY <1>1, <1>2, <2>1, Constants
  <2>3. \A b \in Slot : tag'[b] = IF b = at THEN j ELSE tag[b]
    BY <1>1, <1>2, <2>1
  <2>4. \A b \in Slot : tag[b] # j
    BY DEF InSlot
  <2>5. \A b, c \in Slot : tag'[b] = tag'[c] /\ tag'[b] # NoJob => b = c
    BY <1>2, <2>3, <2>4
  <2>6. \A k \in Job : InSlot(k)' <=> InSlot(k) \/ k = j
    BY <1>1, <2>3, Constants DEF InSlot
  <2>7. FramesFit'
    <3>1. \A b \in Slot : frames'[b] <= GenCap
      BY <1>1, <1>2, <2>1, Constants
    <3>2. len + 1 <= KvMax
      BY Constants
    <3>3. \A b \in Slot : ~(pos'[b] + 1 > KvMax)
      BY <1>1, <1>2, <2>1, <3>2, Constants
    <3>4. QED
      BY <3>1, <3>3 DEF FramesFit, StepRefused
  <2>8. QED
    BY <1>1, <1>3, <2>1, <2>2, <2>5, <2>6, <2>7
<1>6. QED
  BY <1>4, <1>5

\* ... and to the books.
LEMMA InstallBooks ==
    ASSUME DriverInv, spc = "pop", NEW j \in Job, InJq(j) \/ InPfq(j), NEW len \in 0 .. MaxPrompt,
           Install(j, len), arrived' = arrived, hjob' = hjob, hpc' = hpc, running' = running,
           \A k \in Job : InJq(k)' <=> InJq(k) /\ k # j,
           \A k \in Job : InPfq(k)' <=> InPfq(k) /\ k # j,
           \A i, k \in 1 .. Len(jq') : jq'[i] = jq'[k] => i = k,
           \A i, k \in 1 .. Len(pfq') : pfq'[i].job = pfq'[k].job => i = k
    PROVE  JobInv' /\ LostInv' /\ reply' \in [Job -> Seq(Final \cup {"chunk"})]
<1>1. ~InSlot(j) /\ ~InHelper(j) /\ Held(j) /\ j \in arrived /\ Open(j)
  BY DEF DriverInv, JobInv, Alone, HeldOpen, Held
<1>2. \A k : InHelper(k)' <=> InHelper(k)
  BY DEF InHelper
<1>3. /\ \A b, c \in Slot : tag'[b] = tag'[c] /\ tag'[b] # NoJob => b = c
      /\ \/ /\ \A k : InSlot(k)' <=> InSlot(k)
            /\ reply' = [reply EXCEPT ![j] = Append(@, Failed(j))]
         \/ /\ \A k \in Job : InSlot(k)' <=> InSlot(k) \/ k = j
            /\ reply' = reply
  BY <1>1, InstallSlots
<1>4. Alone'
  BY <1>1, <1>2, <1>3 DEF DriverInv, JobInv, Alone
<1>5. reply \in [Job -> Seq(Final \cup {"chunk"})] /\ DriverTypeOK /\ LostInv /\ arrived \subseteq Job
  BY DEF DriverInv, DriverTypeOK
<1>6. CASE /\ \A k \in Job : InSlot(k)' <=> InSlot(k) \/ k = j
           /\ reply' = reply
  <2>1. \A k \in Job : Held(k)' <=> Held(k)
    BY <1>1, <1>2, <1>6 DEF Held
  <2>2. JobInv'
    BY <1>4, <1>6, <2>1, Moved
  <2>3. \A k : Finished(k)' <=> Finished(k)
    BY <1>6, NothingHeard
  <2>4. LostInv'
    BY <1>5, <2>1, <2>3, NothingLost
  <2>5. QED
    BY <1>5, <1>6, <2>2, <2>4
<1>7. CASE /\ \A k : InSlot(k)' <=> InSlot(k)
           /\ reply' = [reply EXCEPT ![j] = Append(@, Failed(j))]
  <2>1. \A k \in Job : Held(k)' <=> Held(k) /\ k # j
    BY <1>1, <1>2, <1>7 DEF Held
  <2>2. \A k \in Job : k # j => reply'[k] = reply[k]
    BY <1>5, <1>7
  <2>3. Done(j)' /\ reply'[j] \in Seq(Final \cup {"chunk"})
    BY <1>1, <1>5, <1>7, LastWord DEF Failed
  <2>4. reply' \in [Job -> Seq(Final \cup {"chunk"})]
    BY <1>5, <1>7, <2>3
  <2>5. \A k \in Job : k # j => /\ Open(k)' <=> Open(k)
                                /\ Done(k)' <=> Done(k)
                                /\ Finished(k)' <=> Finished(k)
    BY <2>2, NothingHeard
  <2>6. ReplyInv' /\ HeldOpen' /\ NotYet'
    BY <1>1, <2>1, <2>2, <2>3, <2>5 DEF DriverInv, JobInv, ReplyInv, HeldOpen, NotYet
  <2>7. Finished(j)'
    BY <2>3 DEF Done, Finished, Last, Final
  <2>8. LostInv'
    BY <1>5, <2>1, <2>5, <2>7, NothingLost
  <2>9. QED
    BY <1>4, <2>4, <2>6, <2>8 DEF JobInv
<1>8. QED
  BY <1>3, <1>6, <1>7

LEMMA PopReadyStep == ASSUME DriverInv, PopReady PROVE DriverInv'
<1> USE DEF PopReady, queueVars, helperVars
<1>1. CASE pfq = << >> /\ spc' = "idle" /\ UNCHANGED <<at, slotVars, reply, pfq>>
  <2> USE DEF slotVars
  <2>1. DriverTypeOK'
    BY <1>1 DEF DriverInv, DriverTypeOK, FreeFrom
  <2>2. HelperInv' /\ StopInv'
    BY <1>1 DEF DriverInv, HelperInv, StopInv, UseHelper, Active
  <2>3. QED
    BY <1>1, <2>1, <2>2, QuietStep
<1>2. CASE pfq # << >> /\ Install(Head(pfq).job, Head(pfq).len) /\ pfq' = Tail(pfq)
  <2>1. PICK h : h = Head(pfq)
    OBVIOUS
  <2>2. /\ h.job \in Job /\ h.len \in 0 .. MaxPrompt /\ InPfq(h.job)
        /\ pfq' \in Seq([job : Job, len : 0 .. MaxPrompt]) /\ Len(pfq') <= PfqCap
        /\ \A j : InPfq(j)' <=> InPfq(j) /\ j # h.job
        /\ \A i, k \in 1 .. Len(pfq') : pfq'[i].job = pfq'[k].job => i = k
    BY <1>2, <2>1, PopPfq DEF DriverInv, JobInv
  <2>3. PICK j \in Job, len \in 0 .. MaxPrompt : j = h.job /\ len = h.len
    BY <2>2
  <2>4. Install(j, len) /\ InPfq(j)
    BY <1>2, <2>1, <2>2, <2>3
  <2>5. ~InSlot(j) /\ ~InJq(j)
    BY <2>4 DEF DriverInv, JobInv, Alone
  <2>6. \A k : InJq(k)' <=> InJq(k)
    BY DEF InJq
  <2>7. /\ \A k \in Job : InPfq(k)' <=> InPfq(k) /\ k # j
        /\ \A k \in Job : InJq(k)' <=> InJq(k) /\ k # j
    BY <2>2, <2>3, <2>5, <2>6
  <2>8. \A i, k \in 1 .. Len(jq') : jq'[i] = jq'[k] => i = k
    BY DEF DriverInv, JobInv, Alone
  <2>9. JobInv' /\ LostInv' /\ reply' \in [Job -> Seq(Final \cup {"chunk"})]
    BY <2>2, <2>4, <2>7, <2>8, InstallBooks
  <2>10. /\ spc' = "admit" /\ at' \in 1 .. B + 1
         /\ tag' \in [Slot -> Job \cup {NoJob}]
         /\ frames' \in [Slot -> Nat] /\ pos' \in [Slot -> Nat] /\ FramesFit'
    BY <2>4, <2>5, InstallSlots
  <2>11. DriverTypeOK'
    BY <2>2, <2>9, <2>10 DEF DriverInv, DriverTypeOK
  <2>12. HelperInv' /\ StopInv'
    BY <2>10 DEF DriverInv, HelperInv, StopInv, UseHelper
  <2>13. QED
    BY <2>9, <2>10, <2>11, <2>12 DEF DriverInv
<1>3. QED
  BY <1>1, <1>2

LEMMA PopJobStep == ASSUME DriverInv, PopJob PROVE DriverInv'
<1> USE DEF PopJob, helperVars, readyVars
<1>1. CASE /\ jq = << >> /\ UNCHANGED <<slotVars, reply, jq>>
           /\ IF Active = {} THEN spc' = "idle" /\ UNCHANGED at
              ELSE spc' = "admit" /\ at' = at + 1
  <2> USE DEF slotVars
  <2>1. at + 1 \in 1 .. B + 1
    BY Constants DEF DriverInv, DriverTypeOK, FreeFrom
  <2>2. DriverTypeOK'
    BY <1>1, <2>1 DEF DriverInv, DriverTypeOK
  <2>3. HelperInv' /\ StopInv'
    BY <1>1 DEF DriverInv, HelperInv, StopInv, UseHelper, Active
  <2>4. QED
    BY <1>1, <2>2, <2>3, QuietStep
<1>2. CASE jq # << >> /\ (\E len \in 0 .. MaxPrompt : Install(Head(jq), len)) /\ jq' = Tail(jq)
  <2>1. PICK j : j = Head(jq)
    OBVIOUS
  <2>2. /\ j \in Job /\ InJq(j) /\ jq' \in Seq(Job)
        /\ \A k : InJq(k)' <=> InJq(k) /\ k # j
        /\ \A i, k \in 1 .. Len(jq') : jq'[i] = jq'[k] => i = k
    BY <1>2, <2>1, PopJq DEF DriverInv, JobInv
  <2>3. PICK len \in 0 .. MaxPrompt : Install(j, len)
    BY <1>2, <2>1
  <2>4. ~InSlot(j) /\ ~InPfq(j)
    BY <2>2 DEF DriverInv, JobInv, Alone
  <2>5. \A k : InPfq(k)' <=> InPfq(k)
    BY DEF InPfq
  <2>6. \A k \in Job : InPfq(k)' <=> InPfq(k) /\ k # j
    BY <2>4, <2>5
  <2>7. \A i, k \in 1 .. Len(pfq') : pfq'[i].job = pfq'[k].job => i = k
    BY DEF DriverInv, JobInv, Alone
  <2>8. JobInv' /\ LostInv' /\ reply' \in [Job -> Seq(Final \cup {"chunk"})]
    BY <2>2, <2>3, <2>6, <2>7, InstallBooks
  <2>9. /\ spc' = "admit" /\ at' \in 1 .. B + 1
        /\ tag' \in [Slot -> Job \cup {NoJob}]
        /\ frames' \in [Slot -> Nat] /\ pos' \in [Slot -> Nat] /\ FramesFit'
    BY <2>2, <2>3, <2>4, InstallSlots
  <2>10. DriverTypeOK'
    BY <2>2, <2>8, <2>9 DEF DriverInv, DriverTypeOK
  <2>11. HelperInv' /\ StopInv'
    BY <2>9 DEF DriverInv, HelperInv, StopInv, UseHelper
  <2>12. QED
    BY <2>8, <2>9, <2>10, <2>11 DEF DriverInv
<1>3. QED
  BY <1>1, <1>2

LEMMA ArriveStep == ASSUME DriverInv, NEW j \in Job, Arrive(j) PROVE DriverInv'
<1> USE DEF Arrive, slotVars, helperVars, readyVars
<1>1. j \notin arrived /\ ~Held(j) /\ reply[j] = << >>
  BY DEF DriverInv, JobInv, HeldOpen, NotYet
<1>2. /\ jq' \in Seq(Job)
      /\ \A k : InJq(k)' <=> InJq(k) \/ k = j
      /\ \A i, k \in 1 .. Len(jq') : jq'[i] = jq'[k] => i = k
  BY <1>1, PushJq DEF DriverInv, JobInv, Held
<1>3. \A k : (InHelper(k)' <=> InHelper(k)) /\ (InPfq(k)' <=> InPfq(k)) /\ (InSlot(k)' <=> InSlot(k))
  BY DEF InHelper, InPfq, InSlot
<1>4. \A k : Held(k)' <=> Held(k) \/ k = j
  BY <1>2, <1>3 DEF Held
<1>5. Alone'
  BY <1>1, <1>2, <1>3 DEF DriverInv, JobInv, Alone, Held
<1>6. \A k : (Open(k)' <=> Open(k)) /\ (Done(k)' <=> Done(k)) /\ (Finished(k)' <=> Finished(k))
  BY NothingHeard
<1>7. Open(j)
  BY <1>1, EmptySeq DEF Open
<1>8. JobInv'
  BY <1>4, <1>5, <1>6, <1>7 DEF DriverInv, JobInv, ReplyInv, HeldOpen, NotYet
<1>9. LostInv'
  BY <1>4, <1>6, NothingLost DEF DriverInv
<1>10. DriverTypeOK'
  BY <1>2 DEF DriverInv, DriverTypeOK, FreeFrom
<1>11. FramesFit' /\ HelperInv' /\ StopInv'
  BY DEF DriverInv, FramesFit, StepRefused, HelperInv, StopInv, UseHelper, Active
<1>12. QED
  BY <1>8, <1>9, <1>10, <1>11 DEF DriverInv

LEMMA HelperNextStep == ASSUME DriverInv, HelperNext PROVE DriverInv'
<1> USE DEF HelperNext, slotVars
<1>1. CASE jq = << >> /\ jqShut /\ hpc' = "exit" /\ pfqShut' = TRUE /\ UNCHANGED <<hjob, jq>>
  <2>1. DriverTypeOK'
    BY <1>1 DEF DriverInv, DriverTypeOK, FreeFrom
  <2>2. HelperInv' /\ StopInv'
    BY <1>1 DEF DriverInv, HelperInv, StopInv, UseHelper, Active
  <2>3. QED
    BY <1>1, <2>1, <2>2, QuietStep
<1>2. CASE jq # << >> /\ hjob' = Head(jq) /\ jq' = Tail(jq) /\ hpc' = "prefill" /\ UNCHANGED pfqShut
  <2>1. PICK j : j = Head(jq)
    OBVIOUS
  <2>2. /\ j \in Job /\ InJq(j) /\ jq' \in Seq(Job)
        /\ \A k : InJq(k)' <=> InJq(k) /\ k # j
        /\ \A i, k \in 1 .. Len(jq') : jq'[i] = jq'[k] => i = k
    BY <1>2, <2>1, PopJq DEF DriverInv, JobInv
  <2>3. hjob \notin Job /\ hjob' = j
    BY <1>2, <2>1 DEF DriverInv, HelperInv
  <2>4. \A k \in Job : ~InHelper(k) /\ (InHelper(k)' <=> k = j)
    BY <2>3 DEF InHelper
  <2>5. \A k : (InPfq(k)' <=> InPfq(k)) /\ (InSlot(k)' <=> InSlot(k))
    BY DEF InPfq, InSlot
  <2>6. Alone'
    BY <2>2, <2>4, <2>5 DEF DriverInv, JobInv, Alone
  <2>7. \A k \in Job : Held(k)' <=> Held(k)
    BY <2>2, <2>4, <2>5 DEF Held
  <2>8. JobInv' /\ \A k : Finished(k)' <=> Finished(k)
    BY <2>6, <2>7, Moved, NothingHeard
  <2>9. LostInv'
    BY <2>7, <2>8, NothingLost DEF DriverInv, DriverTypeOK
  <2>10. DriverTypeOK'
    BY <1>2, <2>2, <2>3 DEF DriverInv, DriverTypeOK, FreeFrom
  <2>11. FramesFit' /\ HelperInv' /\ StopInv'
    BY <1>2, <2>2, <2>3 DEF DriverInv, FramesFit, StepRefused, HelperInv, StopInv, UseHelper, Active
  <2>12. QED
    BY <2>8, <2>9, <2>10, <2>11 DEF DriverInv
<1>3. QED
  BY <1>1, <1>2

LEMMA HelperPushStep == ASSUME DriverInv, HelperPush PROVE DriverInv'
<1> USE DEF HelperPush, queueVars, slotVars
<1>1. PICK j \in Job : j = hjob
  BY DEF DriverInv, HelperInv
<1>2. /\ ~InPfq(j) /\ ~InJq(j) /\ ~InSlot(j) /\ InHelper(j) /\ j \in arrived /\ UseHelper
      /\ hlen \in 0 .. MaxPrompt /\ DriverTypeOK
  BY <1>1 DEF DriverInv, JobInv, Alone, HeldOpen, Held, InHelper, UseHelper, DriverTypeOK
<1>3. \A k : (InJq(k)' <=> InJq(k)) /\ (InSlot(k)' <=> InSlot(k))
  BY DEF InJq, InSlot
<1>4. \A k \in Job : ~InHelper(k)' /\ (InHelper(k) <=> k = j)
  BY <1>1, Constants DEF InHelper
<1>5. \A k : Finished(k)' <=> Finished(k)
  BY NothingHeard
<1>6. FramesFit'
  BY DEF DriverInv, FramesFit, StepRefused
<1>7. CASE pfqShut /\ hpc' = "exit" /\ UNCHANGED pfq
  <2>1. \A k : InPfq(k)' <=> InPfq(k)
    BY <1>7 DEF InPfq
  <2>2. \A k \in Job : Held(k)' <=> Held(k) /\ k # j
    BY <1>2, <1>3, <1>4, <2>1 DEF Held
  <2>3. Alone'
    BY <1>3, <1>4, <1>7, <2>1 DEF DriverInv, JobInv, Alone
  <2>4. JobInv'
    BY <2>2, <2>3, Moved
  <2>5. \A k \in arrived : Held(k) \/ Finished(k)
    BY DEF DriverInv, LostInv
  <2>6. UseHelper' /\ ~running'
    BY <1>7 DEF DriverInv, StopInv, UseHelper
  <2>7. LostInv'
    BY <1>2, <1>5, <1>7, <2>2, <2>5, <2>6 DEF LostInv, DriverInv, DriverTypeOK
  <2>8. DriverTypeOK'
    BY <1>7 DEF DriverInv, DriverTypeOK, FreeFrom
  <2>9. HelperInv' /\ StopInv'
    BY <1>7, Constants DEF DriverInv, HelperInv, StopInv, UseHelper, Active
  <2>10. QED
    BY <1>6, <2>4, <2>7, <2>8, <2>9 DEF DriverInv
<1>8. CASE /\ ~pfqShut /\ Len(pfq) < PfqCap /\ hpc' = "next"
           /\ pfq' = Append(pfq, [job |-> hjob, len |-> hlen])
  <2>1. PICK h \in [job : Job, len : 0 .. MaxPrompt] :
             h = [job |-> hjob, len |-> hlen] /\ h.job = j
    BY <1>1, <1>2
  <2>2. /\ pfq' \in Seq([job : Job, len : 0 .. MaxPrompt]) /\ Len(pfq') <= PfqCap
        /\ \A k : InPfq(k)' <=> InPfq(k) \/ k = h.job
        /\ \A i, k \in 1 .. Len(pfq') : pfq'[i].job = pfq'[k].job => i = k
    <3>1. ~InPfq(h.job) /\ pfq' = Append(pfq, h) /\ Len(pfq) < PfqCap /\ DriverTypeOK /\ Alone
      BY <1>2, <1>8, <2>1 DEF DriverInv, JobInv
    <3>2. QED
      BY <3>1, PushPfq
  <2>3. \A k \in Job : Held(k)' <=> Held(k)
    BY <1>2, <1>3, <1>4, <2>1, <2>2 DEF Held
  <2>4. Alone'
    BY <1>2, <1>3, <1>4, <2>1, <2>2 DEF DriverInv, JobInv, Alone
  <2>5. JobInv'
    BY <2>3, <2>4, Moved
  <2>6. hpc # "exit" => LostInv'
    BY <1>5, <2>3, NothingLost DEF DriverInv, DriverTypeOK
  <2>7. DriverTypeOK'
    BY <1>8, <2>2 DEF DriverInv, DriverTypeOK, FreeFrom
  <2>8. HelperInv' /\ StopInv'
    BY <1>8, Constants DEF DriverInv, HelperInv, StopInv, UseHelper, Active
  <2>9. QED
    BY <1>6, <2>5, <2>6, <2>7, <2>8 DEF DriverInv
<1>9. QED
  BY <1>7, <1>8
-----------------------------------------------------------------------------
(* Steps that answer jobs.                                                 *)

\* A step that answers the jobs of a set N, and clears the places they were
\* in, while the other jobs stay where they are and open clients stay open.
LEMMA Answers ==
    ASSUME DriverInv, arrived' = arrived, running' = running, hpc' = hpc, Alone',
           NEW N \in SUBSET Job,
           \A k \in N : Held(k) /\ Done(k)',
           \A k \in Job : Held(k)' <=> Held(k) /\ k \notin N,
           \A k \in Job \ N : (Held(k) /\ Open(k)') \/ reply'[k] = reply[k]
    PROVE  JobInv' /\ LostInv'
<1>1. \A k \in Job : ~Held(k) /\ k \notin N =>
          /\ Open(k)' <=> Open(k)
          /\ Done(k)' <=> Done(k)
          /\ Finished(k)' <=> Finished(k)
  BY NothingHeard
<1>2. \A k \in Job : Held(k) /\ k \notin N => Open(k)'
  <2>1. \A k \in Job : Held(k) => Open(k)
    BY DEF DriverInv, JobInv, HeldOpen
  <2>2. \A k \in Job \ N : reply'[k] = reply[k] => (Open(k)' <=> Open(k))
    BY NothingHeard
  <2>3. QED
    BY <2>1, <2>2
<1>3. ReplyInv'
  BY <1>1, <1>2 DEF DriverInv, JobInv, ReplyInv
<1>4. HeldOpen'
  BY <1>2 DEF DriverInv, JobInv, HeldOpen
<1>5. NotYet'
  <2>1. \A k \in Job : k \notin arrived => ~Held(k) /\ k \notin N
    BY DEF DriverInv, JobInv, HeldOpen
  <2>2. QED
    BY <2>1 DEF DriverInv, JobInv, NotYet
<1>6. \A k \in N : Finished(k)'
  BY EmptySeq DEF Done, Finished, Last, Final
<1>7. LostInv'
  <2>1. \A k \in arrived : Held(k) \/ Finished(k) => Held(k)' \/ Finished(k)'
    BY <1>1, <1>6 DEF DriverInv, DriverTypeOK
  <2>2. QED
    BY <2>1, NothingLost DEF DriverInv
<1>8. QED
  BY <1>3, <1>4, <1>5, <1>7 DEF JobInv

LEMMA JoinHelperStep == ASSUME DriverInv, JoinHelper PROVE DriverInv'
<1> USE DEF JoinHelper, queueVars, slotVars, helperVars
<1> DEFINE N == {j \in Job : InPfq(j)}
<1>1. pfq \in Seq([job : Job, len : 0 .. MaxPrompt]) /\ DOMAIN pfq = 1 .. Len(pfq)
  BY LenProperties DEF DriverInv, DriverTypeOK
<1>2. reply \in [Job -> Seq(Final \cup {"chunk"})] /\ DriverTypeOK
  BY DEF DriverInv, DriverTypeOK
<1>3. \A k \in Job : reply'[k] = IF k \in N THEN Append(reply[k], Failed(k)) ELSE reply[k]
  BY <1>1, <1>2 DEF InPfq
<1>4. \A k \in N : Held(k) /\ Open(k)
  BY DEF Held, DriverInv, JobInv, HeldOpen
<1>5. ASSUME NEW k \in N PROVE Done(k)' /\ reply'[k] \in Seq(Final \cup {"chunk"})
  BY <1>2, <1>3, <1>4, LastWord DEF Failed
<1>6. reply' \in [Job -> Seq(Final \cup {"chunk"})]
  <2>1. \A k \in Job : reply'[k] \in Seq(Final \cup {"chunk"})
    BY <1>2, <1>3, <1>5
  <2>2. QED
    BY <2>1
<1>7. pfq' = << >> /\ Len(pfq') = 0 /\ pfq' \in Seq([job : Job, len : 0 .. MaxPrompt])
  BY EmptySeq
<1>8. /\ \A k : ~InPfq(k)'
      /\ \A k : (InJq(k)' <=> InJq(k)) /\ (InHelper(k)' <=> InHelper(k)) /\ (InSlot(k)' <=> InSlot(k))
  BY <1>7 DEF InPfq, InJq, InHelper, InSlot
<1>9. Alone'
  BY <1>7, <1>8 DEF DriverInv, JobInv, Alone
<1>10. \A k \in Job : Held(k)' <=> Held(k) /\ k \notin N
  BY <1>8 DEF Held, DriverInv, JobInv, Alone
<1>11. \A k \in Job \ N : reply'[k] = reply[k]
  BY <1>3
<1>12. \A k \in N : Held(k) /\ Done(k)'
  BY <1>4, <1>5
<1> HIDE DEF N
<1>13. N \in SUBSET Job
  BY DEF N
<1>14. JobInv' /\ LostInv'
  BY <1>9, <1>10, <1>11, <1>12, <1>13, Answers
<1>15. DriverTypeOK'
  <2>1. Len(pfq') <= PfqCap
    BY <1>7, Constants
  <2>2. QED
    BY <1>6, <1>7, <2>1 DEF DriverInv, DriverTypeOK
<1>16. FramesFit' /\ HelperInv' /\ StopInv'
  BY <1>7 DEF DriverInv, FramesFit, StepRefused, HelperInv, StopInv, UseHelper, Active
<1>17. QED
  BY <1>14, <1>15, <1>16 DEF DriverInv

\* The step of one frame is never refused; what it says to whom.
LEMMA FrameSays ==
    ASSUME DriverInv, Frame
    PROVE  \E ending \in SUBSET Active, decoded \in SUBSET Active :
             /\ \A b \in Active \ ending : frames[b] + 1 <= GenCap /\ pos[b] + 1 < KvMax
             /\ \A b \in Active : reply'[tag[b]] = reply[tag[b]] \o Heard(b, ending, decoded, FALSE)
             /\ \A j \in Job : ~InSlot(j) => reply'[j] = reply[j]
             /\ tag' = [b \in Slot |-> IF b \in ending THEN NoJob ELSE tag[b]]
             /\ frames' = [b \in Slot |-> IF b \in Active \ ending THEN frames[b] + 1 ELSE frames[b]]
             /\ pos' = [b \in Slot |-> IF b \in Active \ ending THEN pos[b] + 1 ELSE pos[b]]
             /\ spc' = "test"
<1>1. ~StepRefused
  BY DEF DriverInv, FramesFit
<1>2. PICK eos \in SUBSET MayEnd, decoded \in SUBSET Active :
         LET ending == eos \cup MustEnd
             going  == Active \ ending
             broken == going # {} /\ StepRefused
         IN /\ reply' = [j \in Job |->
                  IF \E b \in Active : tag[b] = j
                  THEN reply[j] \o Heard(CHOOSE b \in Active : tag[b] = j,
                                         ending, decoded, broken)
                  ELSE reply[j]]
            /\ tag' = [b \in Slot |-> IF b \in ending \/ broken THEN NoJob ELSE tag[b]]
            /\ frames' = [b \in Slot |-> IF b \in going THEN frames[b] + 1 ELSE frames[b]]
            /\ pos' = [b \in Slot |-> IF b \in going /\ ~broken THEN pos[b] + 1 ELSE pos[b]]
            /\ spc' = IF broken THEN "drain" ELSE "test"
  BY DEF Frame
<1>3. PICK ending \in SUBSET Active : ending = eos \cup MustEnd
  BY DEF MayEnd, MustEnd
<1>4. /\ reply' = [j \in Job |->
            IF \E b \in Active : tag[b] = j
            THEN reply[j] \o Heard(CHOOSE b \in Active : tag[b] = j, ending, decoded, FALSE)
            ELSE reply[j]]
      /\ tag' = [b \in Slot |-> IF b \in ending THEN NoJob ELSE tag[b]]
      /\ frames' = [b \in Slot |-> IF b \in Active \ ending THEN frames[b] + 1 ELSE frames[b]]
      /\ pos' = [b \in Slot |-> IF b \in Active \ ending THEN pos[b] + 1 ELSE pos[b]]
      /\ spc' = "test"
  BY <1>1, <1>2, <1>3, Zenon
<1>5. \A b \in Active \ ending : frames[b] + 1 <= GenCap /\ pos[b] + 1 < KvMax
  <2>1. \A b \in Active : frames[b] \in Nat /\ pos[b] \in Nat
    BY DEF Active, DriverInv, DriverTypeOK
  <2>2. QED
    BY <1>3, <2>1, Constants DEF MustEnd
<1>6. \A b \in Active : tag[b] \in Job /\ \A c \in Active : tag[c] = tag[b] => c = b
  BY DEF Active, DriverInv, DriverTypeOK, JobInv, Alone
<1>7. ASSUME NEW b \in Active
      PROVE  reply'[tag[b]] = reply[tag[b]] \o Heard(b, ending, decoded, FALSE)
  <2>1. (CHOOSE c \in Active : tag[c] = tag[b]) = b
    BY <1>6
  <2>2. reply'[tag[b]] = IF \E c \in Active : tag[c] = tag[b]
                         THEN reply[tag[b]] \o Heard(CHOOSE c \in Active : tag[c] = tag[b],
                                                     ending, decoded, FALSE)
                         ELSE reply[tag[b]]
    BY <1>4, <1>6
  <2>3. QED
    BY <2>1, <2>2
<1>8. ASSUME NEW j \in Job, ~InSlot(j) PROVE reply'[j] = reply[j]
  <2>1. ~\E b \in Active : tag[b] = j
    BY <1>8 DEF InSlot, Active
  <2>2. QED
    BY <1>4, <2>1
<1>9. /\ \A b \in Active \ ending : frames[b] + 1 <= GenCap /\ pos[b] + 1 < KvMax
      /\ \A b \in Active : reply'[tag[b]] = reply[tag[b]] \o Heard(b, ending, decoded, FALSE)
      /\ \A j \in Job : ~InSlot(j) => reply'[j] = reply[j]
      /\ tag' = [b \in Slot |-> IF b \in ending THEN NoJob ELSE tag[b]]
      /\ frames' = [b \in Slot |-> IF b \in Active \ ending THEN frames[b] + 1 ELSE frames[b]]
      /\ pos' = [b \in Slot |-> IF b \in Active \ ending THEN pos[b] + 1 ELSE pos[b]]
      /\ spc' = "test"
  BY <1>4, <1>5, <1>7, <1>8
<1>10. QED
  BY <1>9, Zenon

\* A slot that ends hears its last word, another nothing or a chunk.
LEMMA HeardInSlot ==
    ASSUME DriverInv, NEW b \in Active, NEW j \in Job, tag[b] = j, NEW ending, NEW decoded,
           reply'[j] = reply[j] \o Heard(b, ending, decoded, FALSE)
    PROVE  /\ IF b \in ending THEN Done(j)' ELSE Open(j)'
           /\ reply'[j] \in Seq(Final \cup {"chunk"})
<1>1. j = tag[b]
  OBVIOUS
<1>2. b \in Slot
  BY DEF Active
<1>3. Open(j) /\ DriverTypeOK /\ reply[j] \in Seq(Final \cup {"chunk"})
  BY <1>1, <1>2 DEF DriverInv, JobInv, HeldOpen, Held, InSlot, DriverTypeOK
<1>4. CASE b \in ending
  <2>1. PICK x : x = IF tag[b] \notin Streams /\ b \in decoded THEN "audio" ELSE Failed(tag[b])
    OBVIOUS
  <2>2. x \in (IF j \in Streams THEN {"end"} ELSE {"audio", "error"}) /\ reply'[j] = reply[j] \o <<x>>
    BY <1>1, <1>4, <2>1 DEF Heard, Failed
  <2>3. Done(j)' /\ reply'[j] \in Seq(Final \cup {"chunk"})
    BY <1>3, <2>2, LastWord
  <2>4. QED
    BY <1>1, <1>4, <2>3
<1>5. CASE b \notin ending
  <2>1. << >> \o << >> = << >> /\ <<"chunk">> \o << >> = <<"chunk">> /\ reply[j] \o << >> = reply[j]
    BY <1>3, ConcatEmptySeq, EmptySeq
  <2>2. Heard(b, ending, decoded, FALSE) = IF j \in Streams /\ b \in decoded THEN <<"chunk">> ELSE << >>
    BY <1>1, <1>5, <2>1 DEF Heard
  <2>3. CASE j \in Streams /\ b \in decoded
    <3>1. reply'[j] = reply[j] \o <<"chunk">>
      BY <1>1, <2>2, <2>3
    <3>2. Open(j)' /\ reply'[j] \in Seq(Final \cup {"chunk"})
      BY <1>3, <2>3, <3>1, ChunkHeard
    <3>3. QED
      BY <1>1, <1>5, <3>2
  <2>4. CASE ~(j \in Streams /\ b \in decoded)
    <3>1. reply'[j] = reply[j]
      BY <1>1, <2>1, <2>2, <2>4
    <3>2. Open(j)' /\ reply'[j] \in Seq(Final \cup {"chunk"})
      BY <1>3, <3>1, NothingHeard
    <3>3. QED
      BY <1>1, <1>5, <3>2
  <2>5. QED
    BY <2>3, <2>4
<1>6. QED
  BY <1>4, <1>5

LEMMA FrameStep == ASSUME DriverInv, Frame PROVE DriverInv'
<1>1. PICK ending \in SUBSET Active, decoded \in SUBSET Active :
             /\ \A b \in Active \ ending : frames[b] + 1 <= GenCap /\ pos[b] + 1 < KvMax
             /\ \A b \in Active : reply'[tag[b]] = reply[tag[b]] \o Heard(b, ending, decoded, FALSE)
             /\ \A j \in Job : ~InSlot(j) => reply'[j] = reply[j]
             /\ tag' = [b \in Slot |-> IF b \in ending THEN NoJob ELSE tag[b]]
             /\ frames' = [b \in Slot |-> IF b \in Active \ ending THEN frames[b] + 1 ELSE frames[b]]
             /\ pos' = [b \in Slot |-> IF b \in Active \ ending THEN pos[b] + 1 ELSE pos[b]]
             /\ spc' = "test"
  BY FrameSays
<1>2. UNCHANGED <<running, arrived, jq, jqShut, at, hpc, hjob, hlen, pfq, pfqShut>> /\ spc = "frame"
  BY DEF Frame, queueVars, helperVars, readyVars
<1> DEFINE N == {j \in Job : \E b \in ending : tag[b] = j}
<1>3. /\ tag \in [Slot -> Job \cup {NoJob}] /\ frames \in [Slot -> Nat] /\ pos \in [Slot -> Nat]
      /\ reply \in [Job -> Seq(Final \cup {"chunk"})]
      /\ \A b, c \in Slot : tag[b] = tag[c] /\ tag[b] # NoJob => b = c
      /\ \A b \in Slot : frames[b] <= GenCap /\ ~(pos[b] + 1 > KvMax)
  BY DEF DriverInv, DriverTypeOK, FramesFit, StepRefused, JobInv, Alone
<1>4. /\ Active \subseteq Slot /\ \A b \in Active : tag[b] \in Job
      /\ \A b \in Slot : tag[b] \in Job <=> b \in Active
  BY <1>3, Constants DEF Active
<1>5. \A b \in Slot : /\ tag'[b] = IF b \in ending THEN NoJob ELSE tag[b]
                      /\ frames'[b] = IF b \in Active \ ending THEN frames[b] + 1 ELSE frames[b]
                      /\ pos'[b] = IF b \in Active \ ending THEN pos[b] + 1 ELSE pos[b]
  BY <1>1
<1>6. ASSUME NEW b \in Active, NEW j \in Job, tag[b] = j
      PROVE  /\ IF b \in ending THEN Done(j)' ELSE Open(j)'
             /\ reply'[j] \in Seq(Final \cup {"chunk"})
  <2>1. reply'[j] = reply[j] \o Heard(b, ending, decoded, FALSE)
    BY <1>1, <1>6
  <2>2. QED
    BY <1>6, <2>1, HeardInSlot
<1>7. /\ tag' \in [Slot -> Job \cup {NoJob}] /\ frames' \in [Slot -> Nat] /\ pos' \in [Slot -> Nat]
  BY <1>1, <1>3
<1>8. FramesFit'
  <2>1. \A b \in Slot : frames'[b] <= GenCap
    BY <1>1, <1>3, <1>5
  <2>2. \A b \in Slot : ~(pos'[b] + 1 > KvMax)
    BY <1>1, <1>3, <1>5, <1>4, Constants
  <2>3. QED
    BY <2>1, <2>2 DEF FramesFit, StepRefused
<1>9. \A k \in Job : InSlot(k)' <=> InSlot(k) /\ k \notin N
  <2>1. ASSUME NEW k \in Job, InSlot(k)' PROVE InSlot(k) /\ k \notin N
    <3>1. PICK b \in Slot : tag'[b] = k
      BY <2>1 DEF InSlot
    <3>2. b \notin ending /\ tag[b] = k
      BY <1>5, <3>1, Constants
    <3>3. QED
      BY <1>3, <1>4, <3>2, Constants DEF InSlot
  <2>2. ASSUME NEW k \in Job, InSlot(k), k \notin N PROVE InSlot(k)'
    <3>1. PICK b \in Slot : tag[b] = k
      BY <2>2 DEF InSlot
    <3>2. tag'[b] = k
      BY <1>5, <2>2, <3>1
    <3>3. QED
      BY <3>2 DEF InSlot
  <2>3. QED
    BY <2>1, <2>2
<1>10. \A k \in N : InSlot(k)
  BY <1>4 DEF InSlot
<1>11. \A k : (InJq(k)' <=> InJq(k)) /\ (InHelper(k)' <=> InHelper(k)) /\ (InPfq(k)' <=> InPfq(k))
  BY <1>2 DEF InJq, InHelper, InPfq
<1>12. Alone'
  <2>1. \A b, c \in Slot : tag'[b] = tag'[c] /\ tag'[b] # NoJob => b = c
    BY <1>3, <1>5
  <2>2. QED
    BY <1>2, <1>9, <1>11, <2>1 DEF DriverInv, JobInv, Alone
<1>13. \A k \in Job : Held(k)' <=> Held(k) /\ k \notin N
  BY <1>9, <1>10, <1>11 DEF Held, DriverInv, JobInv, Alone
<1>14. \A k \in N : Held(k) /\ Done(k)'
  <2>1. SUFFICES ASSUME NEW k \in N PROVE Held(k) /\ Done(k)'
    OBVIOUS
  <2>2. PICK b \in ending : tag[b] = k
    OBVIOUS
  <2>3. PICK j \in Job : j = k
    OBVIOUS
  <2>4. Done(j)'
    BY <1>6, <2>2, <2>3
  <2>5. Done(k)'
    BY <2>3, <2>4
  <2>6. QED
    BY <1>10, <2>5 DEF Held
<1>15. \A k \in Job \ N : (Held(k) /\ Open(k)') \/ reply'[k] = reply[k]
  <2>1. SUFFICES ASSUME NEW k \in Job \ N, InSlot(k) PROVE Held(k) /\ Open(k)'
    BY <1>1
  <2>2. PICK b \in Slot : tag[b] = k
    BY <2>1 DEF InSlot
  <2>3. b \in Active \ ending
    BY <1>4, <2>2
  <2>4. Open(k)'
    BY <1>6, <2>2, <2>3
  <2>5. QED
    BY <2>1, <2>4 DEF Held
<1>16. reply' \in [Job -> Seq(Final \cup {"chunk"})]
  <2>1. \A k \in Job : reply'[k] \in Seq(Final \cup {"chunk"})
    <3>1. SUFFICES ASSUME NEW k \in Job, InSlot(k) PROVE reply'[k] \in Seq(Final \cup {"chunk"})
      BY <1>1, <1>3
    <3>2. PICK b \in Slot : tag[b] = k
      BY <3>1 DEF InSlot
    <3>3. QED
      BY <1>4, <1>6, <3>2
  <2>2. reply' = [k \in Job |-> reply'[k]]
    BY DEF Frame
  <2>3. QED
    BY <2>1, <2>2
<1> HIDE DEF N
<1>17. N \in SUBSET Job
  BY DEF N
<1>18. JobInv' /\ LostInv'
  BY <1>2, <1>12, <1>13, <1>14, <1>15, <1>17, Answers
<1>19. DriverTypeOK'
  BY <1>1, <1>2, <1>7, <1>16 DEF DriverInv, DriverTypeOK
<1>20. HelperInv' /\ StopInv'
  BY <1>1, <1>2 DEF DriverInv, HelperInv, StopInv, UseHelper
<1>21. QED
  BY <1>8, <1>18, <1>19, <1>20 DEF DriverInv
-----------------------------------------------------------------------------
(* The driver's invariant and what follows from it.                        *)

LEMMA DriverInitial == DriverInit => DriverInv
<1> SUFFICES ASSUME DriverInit PROVE DriverInv
  OBVIOUS
<1> USE DEF DriverInit
<1>1. jq \in Seq(Job) /\ Len(jq) = 0 /\ pfq \in Seq([job : Job, len : 0 .. MaxPrompt]) /\ Len(pfq) = 0
  BY EmptySeq
<1>2. \A j \in Job : reply[j] = << >> /\ Len(reply[j]) = 0
  BY EmptySeq
<1>3. hpc \in {"none", "next"}
  OBVIOUS
<1>4. DriverTypeOK
  <2>1. at \in 1 .. B + 1 /\ 0 <= PfqCap
    BY Constants
  <2>2. reply \in [Job -> Seq(Final \cup {"chunk"})]
    BY EmptySeq
  <2>3. /\ tag \in [Slot -> Job \cup {NoJob}] /\ frames \in [Slot -> Nat]
        /\ pos \in [Slot -> Nat]
    OBVIOUS
  <2>4. Len(pfq) <= PfqCap /\ hlen \in 0 .. MaxPrompt /\ spc # "pop"
    BY <1>1, <2>1, Constants
  <2>5. QED
    BY <1>1, <1>3, <2>1, <2>2, <2>3, <2>4 DEF DriverTypeOK
<1>5. FramesFit
  BY Constants DEF FramesFit, StepRefused
<1>6. \A j \in Job : ~InJq(j) /\ ~InHelper(j) /\ ~InPfq(j) /\ ~InSlot(j) /\ Open(j)
  BY <1>1, <1>2, Constants DEF InJq, InHelper, InPfq, InSlot, Open
<1>7. JobInv
  BY <1>1, <1>2, <1>6 DEF JobInv, Alone, ReplyInv, HeldOpen, NotYet, Held
<1>8. HelperInv /\ StopInv /\ LostInv
  BY <1>3, Constants DEF HelperInv, StopInv, LostInv
<1>9. QED
  BY <1>4, <1>5, <1>7, <1>8 DEF DriverInv

LEMMA DriverStep == DriverInv /\ [DriverNext]_driverVars => DriverInv'
<1> SUFFICES ASSUME DriverInv, [DriverNext]_driverVars PROVE DriverInv'
  OBVIOUS
<1>1. CASE UNCHANGED driverVars
  <2> USE <1>1 DEF driverVars, queueVars, slotVars, helperVars, readyVars
  <2>1. DriverTypeOK'
    BY DEF DriverInv, DriverTypeOK, FreeFrom
  <2>2. HelperInv' /\ StopInv'
    BY DEF DriverInv, HelperInv, StopInv, UseHelper, Active
  <2>3. QED
    BY <2>1, <2>2, QuietStep
<1>2. CASE Scheduler
  BY <1>2, TestStep, AdmitStep, PopReadyStep, PopJobStep, IdleStep, FrameStep, DrainStep,
     JoinHelperStep DEF Scheduler
<1>3. CASE Helper
  BY <1>3, HelperNextStep, HelperPrefillStep, HelperPushStep DEF Helper
<1>4. ASSUME NEW j \in Job, Arrive(j) PROVE DriverInv'
  BY <1>4, ArriveStep
<1>5. CASE Stop \/ ShutJq
  BY <1>5, StopStep
<1>6. QED
  BY <1>1, <1>2, <1>3, <1>4, <1>5 DEF DriverNext

\* The invariant of the driver is inductive: in every reachable state the
\* slots fit, a job is in one place, and its client has heard what he should.
THEOREM DriverInvariance == DriverSpec => []DriverInv
<1>1. DriverInit => DriverInv
  BY DriverInitial
<1>2. DriverInv /\ [DriverNext]_driverVars => DriverInv'
  BY DriverStep
<1>3. QED
  BY <1>1, <1>2, PTL DEF DriverSpec

\* A set that has at most one member has the size that says.
LEMMA AtMostOne ==
    ASSUME NEW S, \A x, y \in S : x = y
    PROVE  /\ IsFiniteSet(S)
           /\ Cardinality(S) = IF S = {} THEN 0 ELSE 1
<1>1. CASE S = {}
  BY <1>1, FS_EmptySet
<1>2. CASE S # {}
  <2>1. PICK x : S = {x}
    BY <1>2
  <2>2. QED
    BY <1>2, <2>1, FS_Singleton
<1>3. QED
  BY <1>1, <1>2

\* Owners counts one when the job is held, none when it is not.
LEMMA OwnersCounted ==
    ASSUME DriverInv, NEW j \in Job
    PROVE  Owners(j) = IF Held(j) THEN 1 ELSE 0
<1> DEFINE Q == {i \in DOMAIN jq : jq[i] = j}
           P == {i \in DOMAIN pfq : pfq[i].job = j}
           T == {b \in Slot : tag[b] = j}
<1>1. DOMAIN jq = 1 .. Len(jq) /\ DOMAIN pfq = 1 .. Len(pfq)
  BY LenProperties DEF DriverInv, DriverTypeOK
<1>2. (\A x, y \in Q : x = y) /\ (\A x, y \in P : x = y) /\ (\A x, y \in T : x = y)
  BY <1>1, Constants DEF DriverInv, JobInv, Alone
<1>3. (Q # {} <=> InJq(j)) /\ (P # {} <=> InPfq(j)) /\ (T # {} <=> InSlot(j))
  BY <1>1 DEF InJq, InPfq, InSlot
<1>4. Owners(j) = Cardinality(Q) + (IF hjob = j THEN 1 ELSE 0) + Cardinality(P) + Cardinality(T)
  BY DEF Owners
<1> HIDE DEF Q, P, T
<1>5. /\ Cardinality(Q) = IF InJq(j) THEN 1 ELSE 0
      /\ Cardinality(P) = IF InPfq(j) THEN 1 ELSE 0
      /\ Cardinality(T) = IF InSlot(j) THEN 1 ELSE 0
  BY <1>2, <1>3, AtMostOne
<1>6. QED
  BY <1>4, <1>5 DEF InHelper, Held, DriverInv, JobInv, Alone

\* The books are right: no job has two owners, or one after its answer, and
\* at most one has neither owner nor answer.
LEMMA BooksRight == DriverInv => Accounted
<1> SUFFICES ASSUME DriverInv PROVE Accounted
  OBVIOUS
<1>1. ASSUME NEW j \in Job PROVE Owners(j) <= (IF j \in arrived /\ ~Finished(j) THEN 1 ELSE 0)
  BY OwnersCounted, OpenIsNotFinished DEF DriverInv, JobInv, HeldOpen
<1>2. \A j \in arrived : j \in Unaccounted <=> ~Held(j) /\ ~Finished(j)
  BY OwnersCounted DEF Unaccounted, DriverInv, DriverTypeOK
<1>3. \A j, k \in Unaccounted : j = k
  BY <1>2 DEF DriverInv, LostInv, Unaccounted
<1>4. (UseHelper /\ ~running) \/ Unaccounted = {}
  BY <1>2 DEF DriverInv, LostInv, Unaccounted
<1>5. Cardinality(Unaccounted) = IF Unaccounted = {} THEN 0 ELSE 1
  BY <1>3, AtMostOne
<1>6. QED
  BY <1>1, <1>4, <1>5 DEF Accounted

LEMMA RepliesRight == DriverInv => ReplyWellFormed
<1> SUFFICES ASSUME DriverInv, NEW j \in Job
             PROVE  /\ j \notin arrived => reply[j] = << >>
                    /\ \A i \in 1 .. Len(reply[j]) :
                          IF i < Len(reply[j]) THEN reply[j][i] = "chunk" ELSE TRUE
                    /\ j \notin Streams => /\ Len(reply[j]) <= 1
                                           /\ Range(reply[j]) \subseteq {"audio", "error"}
                    /\ j \in Streams => Range(reply[j]) \subseteq {"chunk", "end"}
  BY DEF ReplyWellFormed
<1>1. j \notin arrived => reply[j] = << >>
  BY DEF DriverInv, JobInv, NotYet
<1>2. Len(reply[j]) \in Nat /\ DOMAIN reply[j] = 1 .. Len(reply[j])
  BY LenProperties DEF DriverInv, DriverTypeOK
<1>3. Range(reply[j]) = {reply[j][i] : i \in 1 .. Len(reply[j])}
  BY <1>2 DEF Range
<1>4. CASE Open(j)
  <2>1. j \notin Streams => Len(reply[j]) = 0
    BY <1>4, EmptySeq DEF Open
  <2>2. \A i \in 1 .. Len(reply[j]) : reply[j][i] = "chunk"
    BY <1>4 DEF Open
  <2>3. QED
    BY <1>1, <1>2, <1>3, <2>1, <2>2
<1>5. CASE Done(j)
  <2>1. /\ Len(reply[j]) > 0
        /\ \A i \in 1 .. Len(reply[j]) : i # Len(reply[j]) => j \in Streams /\ reply[j][i] = "chunk"
        /\ reply[j][Len(reply[j])] \in IF j \in Streams THEN {"end"} ELSE {"audio", "error"}
    BY <1>5 DEF Done
  <2>2. j \notin Streams => Len(reply[j]) = 1
    <3>1. PICK n \in Nat : n = Len(reply[j])
      BY <1>2
    <3>2. /\ n > 0 /\ \A i \in 1 .. n : i # n => j \in Streams
      BY <2>1, <3>1
    <3>3. n > 1 => 1 \in 1 .. n /\ 1 # n
      OBVIOUS
    <3>4. ~(n > 1) => n = 1
      BY <3>2
    <3>5. j \notin Streams => n = 1
      BY <3>2, <3>3, <3>4
    <3>6. QED
      BY <3>1, <3>5
  <2>3. \A i \in 1 .. Len(reply[j]) : reply[j][i] \in IF j \in Streams THEN {"chunk", "end"} ELSE {"audio", "error"}
    BY <2>1
  <2>4. \A i \in 1 .. Len(reply[j]) : i < Len(reply[j]) => reply[j][i] = "chunk"
    BY <1>2, <2>1
  <2>5. QED
    BY <1>1, <1>2, <1>3, <2>2, <2>3, <2>4
<1>6. QED
  BY <1>4, <1>5 DEF DriverInv, JobInv, ReplyInv

\* For every number of jobs, slots and frames: the slots stay within their
\* buffers and the KV cache, a client hears at most one final reply and
\* nothing after it, and no job is answered twice or lost while the server
\* runs.
THEOREM DriverJobsRight == DriverSpec => []JobsRight
<1>1. DriverInv => JobsRight
  BY BooksRight, RepliesRight DEF JobsRight, DriverInv
<1>2. QED
  BY <1>1, DriverInvariance, PTL
-----------------------------------------------------------------------------
(* Where a connection can be on its way to the driver.                     *)

InMain(j) == afd = j
InCq(j) == \E i \in 1 .. Len(cq) : cq[i] = j
InReader(j) == \E r \in Reader : rfd[r] = j
InJs(j) == \E i \in 1 .. Len(js) : js[i] = j
InWorker(j) == wjob = j
Before(j) == InMain(j) \/ InCq(j) \/ InReader(j) \/ InJs(j) \/ InWorker(j)

\* It is in one of those places ...
BeforeAlone ==
    /\ \A i, k \in 1 .. Len(cq) : cq[i] = cq[k] => i = k
    /\ \A i, k \in 1 .. Len(js) : js[i] = js[k] => i = k
    /\ \A r, s \in Reader : rfd[r] = rfd[s] /\ rfd[r] # NoJob => r = s
    /\ \A j \in Job : /\ InMain(j) => ~InCq(j) /\ ~InReader(j) /\ ~InJs(j) /\ ~InWorker(j)
                      /\ InCq(j) => ~InReader(j) /\ ~InJs(j) /\ ~InWorker(j)
                      /\ InReader(j) => ~InJs(j) /\ ~InWorker(j)
                      /\ InJs(j) => ~InWorker(j)

\* ... or with the driver, exactly while it is accepted.
Accepted ==
    /\ \A j \in Job : stage[j] = "accepted" <=> Before(j) \/ j \in arrived
    /\ \A j \in arrived : ~Before(j)

\* A thread has a connection exactly while it is at work on it.
HandsInv ==
    /\ afd \in Job <=> apc = "push"
    /\ \A r \in Reader : rfd[r] \in Job <=> rpc[r] = "read"
    /\ wjob \in Job <=> wpc = "run"

\* The shutdown goes from stage to stage: a queue is shut down when those
\* that put into it have ended, and those that take from it end when it is
\* shut down and empty.
ShutdownInv ==
    /\ apc \in {"close", "readers", "queues", "join", "stopped"} => ~running
    /\ cqShut => apc \in {"readers", "queues", "join", "stopped"}
    /\ jqShut \/ jsShut => apc \in {"join", "stopped"}
    /\ \A r \in Reader : rpc[r] = "exit" => cqShut /\ cq = << >>
    /\ apc \in {"queues", "join", "stopped"} => \A r \in Reader : rpc[r] = "exit"
    /\ wpc = "exit" => jsShut /\ js = << >>
    /\ apc = "stopped" => spc = "exit" /\ wpc = "exit"

ServerInv == DriverInv /\ TypeOK /\ HandsInv /\ ShutdownInv /\ Accepted /\ BeforeAlone
-----------------------------------------------------------------------------
(* Any queue.                                                              *)

LEMMA Taken ==
    ASSUME NEW S, NEW s \in Seq(S), s # << >>,
           \A i, k \in 1 .. Len(s) : s[i] = s[k] => i = k
    PROVE  /\ Head(s) \in S /\ Tail(s) \in Seq(S)
           /\ Len(Tail(s)) \in Nat /\ Len(Tail(s)) <= Len(s)
           /\ \E i \in 1 .. Len(s) : s[i] = Head(s)
           /\ \A x : (\E i \in 1 .. Len(Tail(s)) : Tail(s)[i] = x)
                        <=> (\E i \in 1 .. Len(s) : s[i] = x) /\ x # Head(s)
           /\ \A i, k \in 1 .. Len(Tail(s)) : Tail(s)[i] = Tail(s)[k] => i = k
<1>1. PICK t, h : t = Tail(s) /\ h = Head(s)
  OBVIOUS
<1>2. /\ Len(s) \in Nat /\ Len(s) >= 1 /\ Len(t) = Len(s) - 1
      /\ h = s[1] /\ h \in S /\ t \in Seq(S)
      /\ \A i \in 1 .. Len(s) - 1 : t[i] = s[i + 1]
  BY <1>1, Popped
<1>3. ASSUME NEW x, \E i \in 1 .. Len(t) : t[i] = x
      PROVE  (\E i \in 1 .. Len(s) : s[i] = x) /\ x # h
  BY <1>2, <1>3
<1>4. ASSUME NEW x, NEW i \in 1 .. Len(s), s[i] = x, x # h
      PROVE  \E k \in 1 .. Len(t) : t[k] = x
  <2>1. i - 1 \in 1 .. Len(t) /\ t[i - 1] = x
    BY <1>2, <1>4
  <2>2. QED
    BY <2>1
<1>5. \A i, k \in 1 .. Len(t) : t[i] = t[k] => i = k
  BY <1>2
<1>6. /\ h \in S /\ t \in Seq(S) /\ Len(t) \in Nat /\ Len(t) <= Len(s)
      /\ \E i \in 1 .. Len(s) : s[i] = h
  BY <1>2
<1>7. QED
  BY <1>1, <1>3, <1>4, <1>5, <1>6

LEMMA Put ==
    ASSUME NEW S, NEW s \in Seq(S), NEW h \in S, NEW t, t = Append(s, h),
           ~\E i \in 1 .. Len(s) : s[i] = h,
           \A i, k \in 1 .. Len(s) : s[i] = s[k] => i = k
    PROVE  /\ t \in Seq(S) /\ Len(t) = Len(s) + 1
           /\ \A x : (\E i \in 1 .. Len(t) : t[i] = x)
                        <=> (\E i \in 1 .. Len(s) : s[i] = x) \/ x = h
           /\ \A i, k \in 1 .. Len(t) : t[i] = t[k] => i = k
<1>1. Len(s) \in Nat
  BY LenProperties
<1>2. /\ t \in Seq(S) /\ Len(t) = Len(s) + 1 /\ t[Len(s) + 1] = h
      /\ \A i \in 1 .. Len(s) : t[i] = s[i]
  BY AppendProperties
<1>3. \A i \in 1 .. Len(t) : i \in 1 .. Len(s) \/ i = Len(s) + 1
  BY <1>1, <1>2
<1>4. \A x : (\E i \in 1 .. Len(t) : t[i] = x) <=> (\E i \in 1 .. Len(s) : s[i] = x) \/ x = h
  BY <1>1, <1>2, <1>3
<1>5. \A i, k \in 1 .. Len(t) : t[i] = t[k] => i = k
  BY <1>2, <1>3
<1>6. QED
  BY <1>2, <1>4, <1>5
-----------------------------------------------------------------------------
(* The steps of the server.                                                *)

\* A step of the server is one of the driver or leaves the driver alone.
LEMMA ServerStep == ServerInv /\ [Next]_vars => DriverInv'
<1> SUFFICES ASSUME ServerInv, [Next]_vars PROVE [DriverNext]_driverVars
  BY DriverStep DEF ServerInv
<1>1. ASSUME NEW r \in Reader, Read(r) PROVE [DriverNext]_driverVars
  <2>1. rfd[r] \in Job
    BY <1>1 DEF Read, ServerInv, HandsInv
  <2>2. QED
    BY <1>1, <2>1 DEF Read, DriverNext
<1>2. CASE UNCHANGED vars
  BY <1>2 DEF vars
<1>3. CASE Signal \/ ShutQueues
  BY <1>3 DEF Signal, ShutQueues, DriverNext
<1>4. CASE SchedulerStep \/ HelperStep
  BY <1>4 DEF SchedulerStep, HelperStep, DriverNext
<1>5. CASE \E j \in Job : Connect(j) \/ Send(j) \/ Accept(j)
  BY <1>5 DEF Connect, Send, Accept
<1>6. CASE CheckRunning \/ Push \/ CloseQueue \/ JoinReaders \/ JoinRest \/ SingleStep
  BY <1>6 DEF CheckRunning, Push, CloseQueue, JoinReaders, JoinRest, SingleStep, SinglePop, SingleRun
<1>7. ASSUME NEW r \in Reader, ReaderPop(r) PROVE [DriverNext]_driverVars
  BY <1>7 DEF ReaderPop
<1>8. QED
  BY <1>1, <1>2, <1>3, <1>4, <1>5, <1>6, <1>7 DEF Next, MainStep, ReaderStep

\* A step that moves no connection and accepts and closes none.
LEMMA QuietServer ==
    ASSUME ServerInv, DriverInv', UNCHANGED <<afd, cq, rfd, js, wjob, arrived>>,
           \A j \in Job : stage'[j] = "accepted" <=> stage[j] = "accepted",
           TypeOK', HandsInv', ShutdownInv'
    PROVE  ServerInv'
<1>1. \A j : Before(j)' <=> Before(j)
  BY DEF Before, InMain, InCq, InReader, InJs, InWorker
<1>2. BeforeAlone'
  BY DEF ServerInv, BeforeAlone, InMain, InCq, InReader, InJs, InWorker
<1>3. Accepted'
  BY <1>1 DEF ServerInv, Accepted
<1>4. QED
  BY <1>2, <1>3 DEF ServerInv

\* A step that moves one from one place to another.
LEMMA MovedServer ==
    ASSUME ServerInv, DriverInv', UNCHANGED <<arrived, stage>>,
           \A j \in Job : Before(j)' <=> Before(j),
           BeforeAlone', TypeOK', HandsInv', ShutdownInv'
    PROVE  ServerInv'
BY DEF ServerInv, Accepted, DriverInv, DriverTypeOK

LEMMA ConnectStep == ASSUME ServerInv, DriverInv', NEW j \in Job, Connect(j) \/ Send(j) PROVE ServerInv'
<1> USE DEF Connect, Send, driverVars, queueVars, mainVars, cqVars, readerVars, singleVars
<1>1. TypeOK'
  BY DEF ServerInv, TypeOK, DriverInv
<1>2. \A k \in Job : stage'[k] = "accepted" <=> stage[k] = "accepted"
  BY DEF ServerInv, TypeOK
<1>3. HandsInv' /\ ShutdownInv'
  BY DEF ServerInv, HandsInv, ShutdownInv
<1>4. QED
  BY <1>1, <1>2, <1>3, QuietServer

LEMMA CheckStep ==
    ASSUME ServerInv, DriverInv', CheckRunning \/ JoinReaders \/ JoinRest PROVE ServerInv'
<1> USE DEF CheckRunning, JoinReaders, JoinRest, driverVars, queueVars, connVars, cqVars,
        readerVars, singleVars
<1>1. TypeOK'
  BY DEF ServerInv, TypeOK, DriverInv
<1>2. HandsInv' /\ ShutdownInv'
  BY DEF ServerInv, HandsInv, ShutdownInv
<1>3. QED
  BY <1>1, <1>2, QuietServer

LEMMA ShutQueuesStep == ASSUME ServerInv, DriverInv', ShutQueues PROVE ServerInv'
<1> USE DEF ShutQueues, ShutJq, connVars, cqVars, readerVars
<1>1. TypeOK'
  BY DEF ServerInv, TypeOK, DriverInv
<1>2. HandsInv' /\ ShutdownInv'
  BY DEF ServerInv, HandsInv, ShutdownInv
<1>3. QED
  BY <1>1, <1>2, QuietServer

LEMMA CloseQueueStep == ASSUME ServerInv, DriverInv', CloseQueue PROVE ServerInv'
<1> USE DEF CloseQueue, driverVars, queueVars, readerVars, singleVars
<1>1. \A k \in Job : stage'[k] = IF stage[k] = "backlog" THEN "refused" ELSE stage[k]
  OBVIOUS
<1>2. TypeOK'
  <2>1. stage' \in [Job -> {"new", "backlog", "accepted", "closed", "refused"}]
    BY <1>1 DEF ServerInv, TypeOK
  <2>2. QED
    BY <2>1 DEF ServerInv, TypeOK, DriverInv
<1>3. HandsInv' /\ ShutdownInv'
  BY DEF ServerInv, HandsInv, ShutdownInv
<1>4. QED
  BY <1>1, <1>2, <1>3, QuietServer

\* The driver's threads accept nothing, stop no server and do not come back.
LEMMA ThreadStep ==
    ASSUME ServerInv, DriverInv', SchedulerStep \/ HelperStep PROVE ServerInv'
<1>1. /\ arrived' = arrived /\ running' = running /\ jqShut' = jqShut
      /\ spc = "exit" => spc' = "exit"
  <2>1. CASE Scheduler
    BY <2>1 DEF Scheduler, Test, Admit, PopReady, PopJob, Install, Idle, Frame, Drain, JoinHelper,
         queueVars
  <2>2. CASE Helper
    BY <2>2 DEF Helper, HelperNext, HelperPrefill, HelperPush, queueVars
  <2>3. QED
    BY <2>1, <2>2 DEF SchedulerStep, HelperStep
<1>2. UNCHANGED <<apc, afd, stage, sent, cq, cqShut, rpc, rfd, js, jsShut, wpc, wjob>>
  BY DEF SchedulerStep, HelperStep, serverVars, mainVars, connVars, cqVars, readerVars, singleVars
<1>3. TypeOK'
  BY <1>2 DEF ServerInv, TypeOK, DriverInv
<1>4. HandsInv' /\ ShutdownInv'
  BY <1>1, <1>2 DEF ServerInv, HandsInv, ShutdownInv
<1>5. QED
  BY <1>1, <1>2, <1>3, <1>4, QuietServer

LEMMA AcceptStep == ASSUME ServerInv, DriverInv', NEW j \in Job, Accept(j) PROVE ServerInv'
<1> USE DEF Accept, driverVars, queueVars, cqVars, readerVars, singleVars
<1>1. TypeOK'
  BY DEF ServerInv, TypeOK, DriverInv
<1>2. HandsInv' /\ ShutdownInv'
  BY DEF ServerInv, HandsInv, ShutdownInv
<1>3. afd \notin Job /\ ~Before(j) /\ j \notin arrived
  BY DEF ServerInv, HandsInv, Accepted
<1>4. \A k \in Job : /\ ~InMain(k) /\ (InMain(k)' <=> k = j)
                     /\ InCq(k)' <=> InCq(k)
                     /\ InReader(k)' <=> InReader(k)
                     /\ InJs(k)' <=> InJs(k)
                     /\ InWorker(k)' <=> InWorker(k)
  BY <1>3 DEF InMain, InCq, InReader, InJs, InWorker
<1>5. BeforeAlone'
  BY <1>3, <1>4 DEF ServerInv, BeforeAlone, Before
<1>6. \A k \in Job : Before(k)' <=> Before(k) \/ k = j
  BY <1>4 DEF Before
<1>7. \A k \in Job : stage'[k] = "accepted" <=> stage[k] = "accepted" \/ k = j
  BY DEF ServerInv, TypeOK
<1>8. Accepted'
  BY <1>3, <1>6, <1>7 DEF ServerInv, Accepted, DriverInv, DriverTypeOK
<1>9. QED
  BY <1>1, <1>2, <1>5, <1>8 DEF ServerInv

LEMMA PushStep == ASSUME ServerInv, DriverInv', Push PROVE ServerInv'
<1> USE DEF Push, driverVars, queueVars, connVars, readerVars, singleVars
<1>1. PICK j \in Job : j = afd
  BY DEF ServerInv, HandsInv
<1>2. /\ InMain(j) /\ ~InCq(j) /\ ~InReader(j) /\ ~InJs(j) /\ ~InWorker(j)
  BY <1>1 DEF InMain, ServerInv, BeforeAlone
<1>3. /\ cq' \in Seq(Job) /\ Len(cq') = Len(cq) + 1
      /\ \A k : InCq(k)' <=> InCq(k) \/ k = j
      /\ \A i, k \in 1 .. Len(cq') : cq'[i] = cq'[k] => i = k
  <2>1. /\ cq \in Seq(Job) /\ cq' = Append(cq, j)
        /\ ~\E i \in 1 .. Len(cq) : cq[i] = j
        /\ \A i, k \in 1 .. Len(cq) : cq[i] = cq[k] => i = k
    BY <1>1, <1>2 DEF ServerInv, TypeOK, InCq, BeforeAlone
  <2>2. QED
    BY <2>1, Put DEF InCq
<1>4. \A k \in Job : /\ ~InMain(k)' /\ (InMain(k) <=> k = j)
                     /\ InReader(k)' <=> InReader(k)
                     /\ InJs(k)' <=> InJs(k)
                     /\ InWorker(k)' <=> InWorker(k)
  BY <1>1, Constants DEF InMain, InReader, InJs, InWorker
<1>5. BeforeAlone'
  BY <1>2, <1>3, <1>4 DEF ServerInv, BeforeAlone
<1>6. \A k \in Job : Before(k)' <=> Before(k)
  BY <1>2, <1>3, <1>4 DEF Before
<1>7. Len(cq') <= Cap
  BY <1>3, LenProperties, ServerAssumption DEF ServerInv, TypeOK
<1>8. TypeOK'
  BY <1>3, <1>7 DEF ServerInv, TypeOK, DriverInv
<1>9. HandsInv' /\ ShutdownInv'
  BY Constants DEF ServerInv, HandsInv, ShutdownInv
<1>10. QED
  BY <1>5, <1>6, <1>8, <1>9, MovedServer

LEMMA ReaderPopStep == ASSUME ServerInv, DriverInv', NEW r \in Reader, ReaderPop(r) PROVE ServerInv'
<1> USE DEF ReaderPop, driverVars, queueVars, mainVars, connVars, singleVars
<1>1. rfd[r] \notin Job /\ rfd[r] = NoJob /\ rpc[r] = "pop"
  BY DEF ServerInv, HandsInv, TypeOK
<1>2. CASE cq = << >> /\ cqShut /\ rpc' = [rpc EXCEPT ![r] = "exit"] /\ UNCHANGED <<rfd, cq>>
  <2>1. TypeOK'
    BY <1>2 DEF ServerInv, TypeOK, DriverInv
  <2>2. HandsInv' /\ ShutdownInv'
    BY <1>1, <1>2 DEF ServerInv, TypeOK, HandsInv, ShutdownInv
  <2>3. QED
    BY <1>2, <2>1, <2>2, QuietServer
<1>3. CASE /\ cq # << >> /\ rfd' = [rfd EXCEPT ![r] = Head(cq)] /\ cq' = Tail(cq)
           /\ rpc' = [rpc EXCEPT ![r] = "read"]
  <2>1. PICK j : j = Head(cq)
    OBVIOUS
  <2>2. /\ j \in Job /\ cq' \in Seq(Job) /\ Len(cq') <= Len(cq) /\ Len(cq') \in Nat
        /\ InCq(j)
        /\ \A k : InCq(k)' <=> InCq(k) /\ k # j
        /\ \A i, k \in 1 .. Len(cq') : cq'[i] = cq'[k] => i = k
    <3>1. cq \in Seq(Job) /\ \A i, k \in 1 .. Len(cq) : cq[i] = cq[k] => i = k
      BY DEF ServerInv, TypeOK, BeforeAlone
    <3>2. cq # << >> /\ cq' = Tail(cq) /\ j = Head(cq)
      BY <1>3, <2>1
    <3>3. /\ j \in Job /\ cq' \in Seq(Job) /\ Len(cq') \in Nat /\ Len(cq') <= Len(cq)
          /\ \E i \in 1 .. Len(cq) : cq[i] = j
          /\ \A x : (\E i \in 1 .. Len(cq') : cq'[i] = x)
                       <=> (\E i \in 1 .. Len(cq) : cq[i] = x) /\ x # j
          /\ \A i, k \in 1 .. Len(cq') : cq'[i] = cq'[k] => i = k
      <4>1. /\ Head(cq) \in Job /\ Tail(cq) \in Seq(Job)
            /\ Len(Tail(cq)) \in Nat /\ Len(Tail(cq)) <= Len(cq)
            /\ \E i \in 1 .. Len(cq) : cq[i] = Head(cq)
            /\ \A x : (\E i \in 1 .. Len(Tail(cq)) : Tail(cq)[i] = x)
                         <=> (\E i \in 1 .. Len(cq) : cq[i] = x) /\ x # Head(cq)
            /\ \A i, k \in 1 .. Len(Tail(cq)) : Tail(cq)[i] = Tail(cq)[k] => i = k
        BY ONLY <3>1, <3>2, Taken
      <4>2. QED
        BY <3>2, <4>1
    <3>4. QED
      BY <3>3 DEF InCq
  <2>3. \A s \in Reader : rfd'[s] = IF s = r THEN j ELSE rfd[s]
    BY <1>3, <2>1 DEF ServerInv, TypeOK
  <2>4. ~InMain(j) /\ ~InReader(j) /\ ~InJs(j) /\ ~InWorker(j)
    BY <2>2 DEF ServerInv, BeforeAlone
  <2>5. \A k \in Job : /\ InReader(k)' <=> InReader(k) \/ k = j
                       /\ InMain(k)' <=> InMain(k)
                       /\ InJs(k)' <=> InJs(k)
                       /\ InWorker(k)' <=> InWorker(k)
    BY <1>1, <2>3, Constants DEF InReader, InMain, InJs, InWorker
  <2>6. \A s, t \in Reader : rfd'[s] = rfd'[t] /\ rfd'[s] # NoJob => s = t
    BY <2>3, <2>4 DEF InReader, ServerInv, BeforeAlone
  <2>7. BeforeAlone'
    BY <2>2, <2>4, <2>5, <2>6 DEF ServerInv, BeforeAlone
  <2>8. \A k \in Job : Before(k)' <=> Before(k)
    BY <2>2, <2>5 DEF Before
  <2>9. Len(cq') <= Cap
    BY <2>2, LenProperties, ServerAssumption DEF ServerInv, TypeOK
  <2>10. TypeOK'
    BY <1>3, <2>1, <2>2, <2>9 DEF ServerInv, TypeOK, DriverInv
  <2>11. \A s \in Reader : rfd'[s] \in Job <=> rpc'[s] = "read"
    BY <1>3, <2>2, <2>3 DEF ServerInv, TypeOK, HandsInv
  <2>12. HandsInv'
    BY <2>11 DEF ServerInv, HandsInv
  <2>13. \A s \in Reader : rpc'[s] # "exit"
    BY <1>3 DEF ServerInv, TypeOK, ShutdownInv
  <2>14. ShutdownInv'
    BY <1>1, <2>13 DEF ServerInv, ShutdownInv
  <2>15. QED
    BY <2>7, <2>8, <2>10, <2>12, <2>14, MovedServer
<1>4. QED
  BY <1>2, <1>3

\* A reader gives up its connection j, whatever becomes of j: it is in no
\* place before the driver unless js has it now.
LEMMA GivesUp ==
    ASSUME ServerInv, NEW r \in Reader, rpc[r] = "read", NEW j \in Job, j = rfd[r],
           rfd' = [rfd EXCEPT ![r] = NoJob], rpc' = [rpc EXCEPT ![r] = "pop"],
           UNCHANGED <<afd, cq, wjob>>
    PROVE  /\ ~InMain(j) /\ ~InCq(j) /\ ~InJs(j) /\ ~InWorker(j) /\ InReader(j)
           /\ \A k \in Job : /\ InReader(k)' <=> InReader(k) /\ k # j
                             /\ InMain(k)' <=> InMain(k)
                             /\ InCq(k)' <=> InCq(k)
                             /\ InWorker(k)' <=> InWorker(k)
           /\ \A s, t \in Reader : rfd'[s] = rfd'[t] /\ rfd'[s] # NoJob => s = t
           /\ \A s \in Reader : rfd'[s] \in Job <=> rpc'[s] = "read"
           /\ \A s \in Reader : rpc'[s] = "exit" <=> rpc[s] = "exit"
           /\ rfd' \in [Reader -> Job \cup {NoJob}] /\ rpc' \in [Reader -> {"pop", "read", "exit"}]
<1>1. \A s \in Reader : rfd'[s] = IF s = r THEN NoJob ELSE rfd[s]
  BY DEF ServerInv, TypeOK
<1>2. \A s \in Reader : rpc'[s] = IF s = r THEN "pop" ELSE rpc[s]
  BY DEF ServerInv, TypeOK
<1>3. InReader(j)
  BY DEF InReader
<1>4. ~InMain(j) /\ ~InCq(j) /\ ~InJs(j) /\ ~InWorker(j)
  BY <1>3 DEF ServerInv, BeforeAlone
<1>5. \A s, t \in Reader : rfd[s] = rfd[t] /\ rfd[s] # NoJob => s = t
  BY DEF ServerInv, BeforeAlone
<1>6. \A k \in Job : InReader(k)' <=> InReader(k) /\ k # j
  BY <1>1, <1>5, Constants DEF InReader
<1>7. \A k \in Job : /\ InMain(k)' <=> InMain(k)
                     /\ InCq(k)' <=> InCq(k)
                     /\ InWorker(k)' <=> InWorker(k)
  BY DEF InMain, InCq, InWorker
<1>8. \A s, t \in Reader : rfd'[s] = rfd'[t] /\ rfd'[s] # NoJob => s = t
  BY <1>1, <1>5
<1>9. /\ \A s \in Reader : rfd'[s] \in Job <=> rpc'[s] = "read"
      /\ \A s \in Reader : rpc'[s] = "exit" <=> rpc[s] = "exit"
  BY <1>1, <1>2, Constants DEF ServerInv, HandsInv
<1>10. rfd' \in [Reader -> Job \cup {NoJob}] /\ rpc' \in [Reader -> {"pop", "read", "exit"}]
  BY DEF ServerInv, TypeOK
<1>11. QED
  BY <1>3, <1>4, <1>6, <1>7, <1>8, <1>9, <1>10

\* Closing it, at the end of a request or after an interrupted read.
LEMMA CloseAtStep ==
    ASSUME ServerInv, DriverInv', NEW r \in Reader, rpc[r] = "read", CloseAt(r),
           UNCHANGED <<arrived, spc, jqShut, apc, afd, sent, cq, cqShut, js, jsShut, wpc, wjob>>,
           running' => running
    PROVE  ServerInv'
<1>1. PICK j \in Job : j = rfd[r]
  BY DEF ServerInv, HandsInv
<1>2. /\ stage' = [stage EXCEPT ![j] = "closed"]
      /\ rfd' = [rfd EXCEPT ![r] = NoJob] /\ rpc' = [rpc EXCEPT ![r] = "pop"]
  BY <1>1 DEF CloseAt
<1>3. /\ ~InMain(j) /\ ~InCq(j) /\ ~InJs(j) /\ ~InWorker(j) /\ InReader(j)
      /\ \A k \in Job : /\ InReader(k)' <=> InReader(k) /\ k # j
                        /\ InMain(k)' <=> InMain(k)
                        /\ InCq(k)' <=> InCq(k)
                        /\ InWorker(k)' <=> InWorker(k)
      /\ \A s, t \in Reader : rfd'[s] = rfd'[t] /\ rfd'[s] # NoJob => s = t
      /\ \A s \in Reader : rfd'[s] \in Job <=> rpc'[s] = "read"
      /\ \A s \in Reader : rpc'[s] = "exit" <=> rpc[s] = "exit"
      /\ rfd' \in [Reader -> Job \cup {NoJob}] /\ rpc' \in [Reader -> {"pop", "read", "exit"}]
  BY <1>1, <1>2, GivesUp
<1>4. \A k \in Job : InJs(k)' <=> InJs(k)
  BY DEF InJs
<1>5. BeforeAlone'
  BY <1>3, <1>4 DEF ServerInv, BeforeAlone
<1>6. \A k \in Job : stage'[k] = IF k = j THEN "closed" ELSE stage[k]
  BY <1>2 DEF ServerInv, TypeOK
<1>7. \A k \in Job : Before(k)' <=> Before(k) /\ k # j
  BY <1>3, <1>4 DEF Before
<1>8. j \notin arrived
  BY <1>3 DEF ServerInv, Accepted, Before
<1>9. Accepted'
  BY <1>6, <1>7, <1>8 DEF ServerInv, Accepted, DriverInv, DriverTypeOK
<1>10. TypeOK'
  BY <1>2, <1>3 DEF ServerInv, TypeOK, DriverInv
<1>11. HandsInv' /\ ShutdownInv'
  BY <1>3 DEF ServerInv, HandsInv, ShutdownInv
<1>12. QED
  BY <1>5, <1>9, <1>10, <1>11 DEF ServerInv

LEMMA SignalStep == ASSUME ServerInv, DriverInv', Signal PROVE ServerInv'
<1>1. /\ running' = FALSE
      /\ UNCHANGED <<arrived, spc, jqShut, afd, sent, cq, cqShut, js, jsShut, wpc, wjob>>
  BY DEF Signal, Stop, queueVars, cqVars, singleVars
<1>2. CASE (apc' = apc \/ (apc = "accept" /\ apc' = "check")) /\ UNCHANGED <<stage, rpc, rfd>>
  <2>1. TypeOK'
    BY <1>1, <1>2 DEF ServerInv, TypeOK, DriverInv
  <2>2. HandsInv' /\ ShutdownInv'
    BY <1>1, <1>2 DEF ServerInv, HandsInv, ShutdownInv
  <2>3. QED
    BY <1>1, <1>2, <2>1, <2>2, QuietServer
<1>3. ASSUME NEW r \in Reader, rpc[r] = "read", CloseAt(r), apc' = apc PROVE ServerInv'
  BY <1>1, <1>3, CloseAtStep
<1>4. \/ (apc' = apc \/ (apc = "accept" /\ apc' = "check")) /\ UNCHANGED <<stage, rpc, rfd>>
      \/ \E r \in Reader : rpc[r] = "read" /\ CloseAt(r) /\ apc' = apc
  <2>1. CASE UNCHANGED <<apc, stage, readerVars>>
    <3>1. apc' = apc /\ stage' = stage /\ rpc' = rpc /\ rfd' = rfd
      BY <2>1 DEF readerVars
    <3>2. QED
      BY <3>1
  <2>2. CASE apc = "accept" /\ apc' = "check" /\ UNCHANGED <<stage, readerVars>>
    BY <2>2 DEF readerVars
  <2>3. CASE \E r \in Reader : /\ rpc[r] = "read" /\ sent[rfd[r]] = "nothing"
                               /\ CloseAt(r)
                               /\ UNCHANGED apc
    BY <2>3
  <2>4. QED
    BY <2>1, <2>2, <2>3 DEF Signal
<1>5. QED
  BY <1>2, <1>3, <1>4

LEMMA ReadStep == ASSUME ServerInv, DriverInv', NEW r \in Reader, Read(r) PROVE ServerInv'
<1>1. PICK j \in Job : j = rfd[r]
  BY DEF Read, ServerInv, HandsInv
<1>2. rpc[r] = "read" /\ UNCHANGED <<apc, afd, sent, cq, cqShut, jsShut, wpc, wjob>>
  BY DEF Read, mainVars, cqVars
<1>3. CASE CloseAt(r) /\ UNCHANGED <<driverVars, js>>
  <2>1. UNCHANGED <<running, arrived, spc, jqShut>>
    BY <1>3 DEF driverVars, queueVars
  <2>2. QED
    BY <1>2, <1>3, <2>1, CloseAtStep
<1>4. CASE /\ Arrive(j) \/ (UNCHANGED driverVars /\ js' = Append(js, j))
           /\ Arrive(j) => js' = js
           /\ rfd' = [rfd EXCEPT ![r] = NoJob] /\ rpc' = [rpc EXCEPT ![r] = "pop"]
           /\ stage' = stage
  <2>1. /\ ~InMain(j) /\ ~InCq(j) /\ ~InJs(j) /\ ~InWorker(j) /\ InReader(j)
        /\ \A k \in Job : /\ InReader(k)' <=> InReader(k) /\ k # j
                          /\ InMain(k)' <=> InMain(k)
                          /\ InCq(k)' <=> InCq(k)
                          /\ InWorker(k)' <=> InWorker(k)
        /\ \A s, t \in Reader : rfd'[s] = rfd'[t] /\ rfd'[s] # NoJob => s = t
        /\ \A s \in Reader : rfd'[s] \in Job <=> rpc'[s] = "read"
        /\ \A s \in Reader : rpc'[s] = "exit" <=> rpc[s] = "exit"
        /\ rfd' \in [Reader -> Job \cup {NoJob}] /\ rpc' \in [Reader -> {"pop", "read", "exit"}]
    BY <1>1, <1>2, <1>4, GivesUp
  <2>2. UNCHANGED <<running, spc, jqShut>>
    BY <1>4 DEF Arrive, driverVars, queueVars
  <2>3. HandsInv'
    BY <1>2, <2>1 DEF ServerInv, HandsInv
  <2>4. wpc # "exit" \/ js' = js
    <3>1. wpc = "exit" => \A s \in Reader : rpc[s] = "exit"
      BY DEF ServerInv, ShutdownInv
    <3>2. QED
      BY <1>2, <3>1
  <2>5. ShutdownInv'
    BY <1>2, <2>1, <2>2, <2>4 DEF ServerInv, ShutdownInv
  <2>6. CASE Arrive(j)
    <3>1. js' = js /\ arrived' = arrived \cup {j}
      BY <1>4, <2>6 DEF Arrive
    <3>2. \A k \in Job : InJs(k)' <=> InJs(k)
      BY <3>1 DEF InJs
    <3>3. BeforeAlone'
      BY <1>2, <2>1, <3>1, <3>2 DEF ServerInv, BeforeAlone
    <3>4. \A k \in Job : Before(k)' <=> Before(k) /\ k # j
      BY <2>1, <3>2 DEF Before
    <3>5. Before(j)
      BY <2>1 DEF Before
    <3>6. Accepted'
      BY <1>4, <3>1, <3>4, <3>5 DEF ServerInv, Accepted, DriverInv, DriverTypeOK
    <3>7. TypeOK'
      BY <1>2, <1>4, <2>1, <3>1 DEF ServerInv, TypeOK, DriverInv
    <3>8. QED
      BY <2>3, <2>5, <3>3, <3>6, <3>7 DEF ServerInv
  <2>7. CASE UNCHANGED driverVars /\ js' = Append(js, j)
    <3>1. /\ js' \in Seq(Job)
          /\ \A k : InJs(k)' <=> InJs(k) \/ k = j
          /\ \A i, k \in 1 .. Len(js') : js'[i] = js'[k] => i = k
      <4>1. /\ js \in Seq(Job) /\ ~\E i \in 1 .. Len(js) : js[i] = j
            /\ \A i, k \in 1 .. Len(js) : js[i] = js[k] => i = k
        BY <2>1 DEF ServerInv, TypeOK, InJs, BeforeAlone
      <4>2. QED
        BY <2>7, <4>1, Put DEF InJs
    <3>2. BeforeAlone'
      BY <1>2, <2>1, <3>1 DEF ServerInv, BeforeAlone
    <3>3. \A k \in Job : Before(k)' <=> Before(k)
      BY <2>1, <3>1 DEF Before
    <3>4. arrived' = arrived
      BY <2>7 DEF driverVars
    <3>5. TypeOK'
      BY <1>2, <1>4, <2>1, <3>1 DEF ServerInv, TypeOK, DriverInv
    <3>6. QED
      BY <1>4, <2>3, <2>5, <3>2, <3>3, <3>4, <3>5, MovedServer
  <2>8. QED
    BY <1>4, <2>6, <2>7
<1>5. QED
  <2>1. ~(Arrive(j) /\ UNCHANGED driverVars)
    <3>1. Arrive(j) => arrived' # arrived
      BY DEF Arrive
    <3>2. QED
      BY <3>1 DEF driverVars
  <2>2. CASE sent[rfd[r]] \in {"other", "hangup"}
    BY <1>3, <2>2 DEF Read
  <2>3. CASE sent[rfd[r]] = "batch"
    BY <1>1, <1>4, <2>3 DEF Read
  <2>4. CASE sent[rfd[r]] = "single"
    BY <1>1, <1>4, <2>1, <2>4 DEF Read
  <2>5. QED
    BY <2>2, <2>3, <2>4 DEF Read

LEMMA SinglePopStep == ASSUME ServerInv, DriverInv', SinglePop PROVE ServerInv'
<1> USE DEF SinglePop, driverVars, queueVars, mainVars, connVars, cqVars, readerVars
<1>1. wjob \notin Job
  BY DEF ServerInv, HandsInv
<1>2. CASE js = << >> /\ jsShut /\ wpc' = "exit" /\ UNCHANGED <<wjob, js>>
  <2>1. TypeOK'
    BY <1>2 DEF ServerInv, TypeOK, DriverInv
  <2>2. HandsInv' /\ ShutdownInv'
    BY <1>1, <1>2 DEF ServerInv, HandsInv, ShutdownInv
  <2>3. QED
    BY <1>2, <2>1, <2>2, QuietServer
<1>3. CASE js # << >> /\ wjob' = Head(js) /\ js' = Tail(js) /\ wpc' = "run"
  <2>1. PICK j : j = Head(js)
    OBVIOUS
  <2>2. /\ j \in Job /\ js' \in Seq(Job) /\ InJs(j)
        /\ \A k : InJs(k)' <=> InJs(k) /\ k # j
        /\ \A i, k \in 1 .. Len(js') : js'[i] = js'[k] => i = k
    <3>1. js \in Seq(Job) /\ \A i, k \in 1 .. Len(js) : js[i] = js[k] => i = k
      BY DEF ServerInv, TypeOK, BeforeAlone
    <3>2. js # << >> /\ js' = Tail(js) /\ j = Head(js)
      BY <1>3, <2>1
    <3>3. /\ j \in Job /\ js' \in Seq(Job) /\ Len(js') \in Nat /\ Len(js') <= Len(js)
          /\ \E i \in 1 .. Len(js) : js[i] = j
          /\ \A x : (\E i \in 1 .. Len(js') : js'[i] = x)
                       <=> (\E i \in 1 .. Len(js) : js[i] = x) /\ x # j
          /\ \A i, k \in 1 .. Len(js') : js'[i] = js'[k] => i = k
      <4>1. /\ Head(js) \in Job /\ Tail(js) \in Seq(Job)
            /\ Len(Tail(js)) \in Nat /\ Len(Tail(js)) <= Len(js)
            /\ \E i \in 1 .. Len(js) : js[i] = Head(js)
            /\ \A x : (\E i \in 1 .. Len(Tail(js)) : Tail(js)[i] = x)
                         <=> (\E i \in 1 .. Len(js) : js[i] = x) /\ x # Head(js)
            /\ \A i, k \in 1 .. Len(Tail(js)) : Tail(js)[i] = Tail(js)[k] => i = k
        BY <3>1, <3>2, Taken
      <4>2. QED
        BY <3>2, <4>1
    <3>4. QED
      BY <3>3 DEF InJs
  <2>3. ~InMain(j) /\ ~InReader(j) /\ ~InCq(j) /\ wjob' = j
    BY <1>3, <2>1, <2>2 DEF ServerInv, BeforeAlone
  <2>4. \A k \in Job : /\ ~InWorker(k) /\ (InWorker(k)' <=> k = j)
                       /\ InReader(k)' <=> InReader(k)
                       /\ InMain(k)' <=> InMain(k)
                       /\ InCq(k)' <=> InCq(k)
    BY <1>1, <2>3 DEF InReader, InMain, InCq, InWorker
  <2>5. BeforeAlone'
    BY <2>2, <2>3, <2>4 DEF ServerInv, BeforeAlone
  <2>6. \A k \in Job : Before(k)' <=> Before(k)
    BY <2>2, <2>4 DEF Before
  <2>7. TypeOK'
    BY <1>3, <2>2, <2>3 DEF ServerInv, TypeOK, DriverInv
  <2>8. HandsInv' /\ ShutdownInv'
    BY <1>3, <2>2, <2>3 DEF ServerInv, HandsInv, ShutdownInv
  <2>9. QED
    BY <2>5, <2>6, <2>7, <2>8, MovedServer
<1>4. QED
  BY <1>2, <1>3

LEMMA SingleRunStep == ASSUME ServerInv, DriverInv', SingleRun PROVE ServerInv'
<1> USE DEF SingleRun, driverVars, queueVars, mainVars, cqVars, readerVars
<1>1. PICK j \in Job : j = wjob
  BY DEF ServerInv, HandsInv
<1>2. \A k \in Job : stage'[k] = IF k = j THEN "closed" ELSE stage[k]
  BY <1>1 DEF ServerInv, TypeOK
<1>3. \A k \in Job : /\ ~InWorker(k)' /\ (InWorker(k) <=> k = j)
                     /\ InReader(k)' <=> InReader(k)
                     /\ InMain(k)' <=> InMain(k)
                     /\ InCq(k)' <=> InCq(k)
                     /\ InJs(k)' <=> InJs(k)
  BY <1>1, Constants DEF InReader, InMain, InCq, InJs, InWorker
<1>4. BeforeAlone'
  BY <1>3 DEF ServerInv, BeforeAlone
<1>5. \A k \in Job : Before(k)' <=> Before(k) /\ k # j
  BY <1>3 DEF Before, ServerInv, BeforeAlone
<1>6. j \notin arrived
  BY <1>3 DEF ServerInv, Accepted, Before
<1>7. Accepted'
  BY <1>2, <1>5, <1>6 DEF ServerInv, Accepted, DriverInv, DriverTypeOK
<1>8. TypeOK'
  BY <1>1 DEF ServerInv, TypeOK, DriverInv
<1>9. HandsInv' /\ ShutdownInv'
  BY Constants DEF ServerInv, HandsInv, ShutdownInv
<1>10. QED
  BY <1>4, <1>7, <1>8, <1>9 DEF ServerInv
-----------------------------------------------------------------------------
(* The server's invariant and what follows from it.                        *)

LEMMA ServerInitial == Init => ServerInv
<1> SUFFICES ASSUME Init PROVE ServerInv
  OBVIOUS
<1>1. DriverInv /\ arrived = {} /\ running = TRUE /\ jqShut = FALSE
  BY DriverInitial DEF Init, DriverInit
<1>2. /\ apc = "check" /\ afd = NoJob /\ cqShut = FALSE /\ jsShut = FALSE
      /\ stage = [j \in Job |-> "new"] /\ sent = [j \in Job |-> "nothing"]
      /\ rpc = [r \in Reader |-> "pop"] /\ rfd = [r \in Reader |-> NoJob]
      /\ wpc = "pop" /\ wjob = NoJob
      /\ cq \in Seq(Job) /\ Len(cq) = 0 /\ js \in Seq(Job) /\ Len(js) = 0
  BY EmptySeq DEF Init
<1>3. TypeOK
  <2>1. Len(cq) <= Cap
    BY <1>2, ServerAssumption
  <2>2. QED
    BY <1>1, <1>2, <2>1 DEF TypeOK, DriverInv
<1>4. HandsInv /\ ShutdownInv
  BY <1>1, <1>2, Constants DEF HandsInv, ShutdownInv
<1>5. \A j \in Job : ~InMain(j) /\ ~InCq(j) /\ ~InReader(j) /\ ~InJs(j) /\ ~InWorker(j)
  BY <1>2, Constants DEF InMain, InCq, InReader, InJs, InWorker
<1>6. BeforeAlone
  BY <1>2, <1>5 DEF BeforeAlone
<1>7. Accepted
  BY <1>1, <1>2, <1>5 DEF Accepted, Before
<1>8. QED
  BY <1>1, <1>3, <1>4, <1>6, <1>7 DEF ServerInv

LEMMA ServerInductive == ServerInv /\ [Next]_vars => ServerInv'
<1> SUFFICES ASSUME ServerInv, [Next]_vars PROVE ServerInv'
  OBVIOUS
<1>1. DriverInv'
  BY ServerStep
<1>2. ASSUME NEW j \in Job, Connect(j) \/ Send(j) PROVE ServerInv'
  BY <1>1, <1>2, ConnectStep
<1>3. CASE Signal
  BY <1>1, <1>3, SignalStep
<1>4. CASE MainStep
  BY <1>1, <1>4, CheckStep, AcceptStep, PushStep, CloseQueueStep, ShutQueuesStep DEF MainStep
<1>5. ASSUME NEW r \in Reader, ReaderStep(r) PROVE ServerInv'
  BY <1>1, <1>5, ReaderPopStep, ReadStep DEF ReaderStep
<1>6. CASE SingleStep
  BY <1>1, <1>6, SinglePopStep, SingleRunStep DEF SingleStep
<1>7. CASE SchedulerStep \/ HelperStep
  BY <1>1, <1>7, ThreadStep
<1>8. CASE UNCHANGED vars
  <2> USE <1>8 DEF vars, serverVars, driverVars, queueVars, mainVars, connVars, cqVars, readerVars,
                   singleVars
  <2>1. TypeOK'
    BY <1>1 DEF ServerInv, TypeOK, DriverInv
  <2>2. HandsInv' /\ ShutdownInv'
    BY DEF ServerInv, HandsInv, ShutdownInv
  <2>3. QED
    BY <1>1, <2>1, <2>2, QuietServer
<1>9. QED
  BY <1>2, <1>3, <1>4, <1>5, <1>6, <1>7, <1>8 DEF Next

\* The invariant of the whole server is inductive.
THEOREM Invariance == Spec => []ServerInv
<1>1. Init => ServerInv
  BY ServerInitial
<1>2. ServerInv /\ [Next]_vars => ServerInv'
  BY ServerInductive
<1>3. QED
  BY <1>1, <1>2, PTL DEF Spec

\* Every variable of the server and of its driver keeps its type, and no
\* queue outgrows its array.
THEOREM TypeCorrect == Spec => []TypeOK
<1>1. ServerInv => TypeOK
  BY DEF ServerInv
<1>2. QED
  BY <1>1, Invariance, PTL

\* Holders counts one when the connection is somewhere, none when it is not.
LEMMA HoldersCounted ==
    ASSUME ServerInv, NEW j \in Job
    PROVE  Holders(j) = IF Before(j) \/ Held(j) THEN 1 ELSE 0
<1> DEFINE Q == {i \in DOMAIN cq : cq[i] = j}
           S == {i \in DOMAIN js : js[i] = j}
           R == {r \in Reader : rfd[r] = j}
<1>1. DOMAIN cq = 1 .. Len(cq) /\ DOMAIN js = 1 .. Len(js)
  BY LenProperties DEF ServerInv, TypeOK
<1>2. (\A x, y \in Q : x = y) /\ (\A x, y \in S : x = y) /\ (\A x, y \in R : x = y)
  BY <1>1, Constants DEF ServerInv, BeforeAlone
<1>3. (Q # {} <=> InCq(j)) /\ (S # {} <=> InJs(j)) /\ (R # {} <=> InReader(j))
  BY <1>1 DEF InCq, InJs, InReader
<1>4. Holders(j) = (IF afd = j THEN 1 ELSE 0) + Cardinality(Q) + Cardinality(R) + Cardinality(S)
                       + (IF wjob = j THEN 1 ELSE 0) + Owners(j)
  BY DEF Holders
<1> HIDE DEF Q, R, S
<1>5. /\ Cardinality(Q) = IF InCq(j) THEN 1 ELSE 0
      /\ Cardinality(S) = IF InJs(j) THEN 1 ELSE 0
      /\ Cardinality(R) = IF InReader(j) THEN 1 ELSE 0
  BY <1>2, <1>3, AtMostOne
<1>6. Owners(j) = IF Held(j) THEN 1 ELSE 0
  BY OwnersCounted DEF ServerInv
<1>7. Holders(j) = (IF Before(j) THEN 1 ELSE 0) + (IF Held(j) THEN 1 ELSE 0)
  BY <1>4, <1>5, <1>6 DEF Before, InMain, InWorker, ServerInv, BeforeAlone
<1>8. ~(Before(j) /\ Held(j))
  BY DEF ServerInv, DriverInv, JobInv, HeldOpen, Accepted
<1>9. QED
  BY <1>7, <1>8

LEMMA OwnerRight == ServerInv => OneOwner
<1> SUFFICES ASSUME ServerInv, NEW j \in Job
             PROVE  /\ j \notin Unaccounted =>
                          Holders(j) = (IF stage[j] = "accepted" /\ ~Finished(j) THEN 1 ELSE 0)
                    /\ j \in Unaccounted => Holders(j) = 0
                    /\ ~(stage[j] = "closed" /\ Finished(j))
  BY DEF OneOwner, Unaccounted, ServerInv, TypeOK, DriverTypeOK
<1>1. stage[j] = "accepted" <=> Before(j) \/ j \in arrived
  BY DEF ServerInv, Accepted
<1>2. j \in arrived => ~Before(j)
  BY DEF ServerInv, Accepted
<1>3. Held(j) => j \in arrived /\ ~Finished(j)
  BY OpenIsNotFinished DEF ServerInv, DriverInv, JobInv, HeldOpen
<1>4. Finished(j) => j \in arrived
  BY DEF Finished, ServerInv, DriverInv, JobInv, NotYet
<1>5. j \in Unaccounted <=> j \in arrived /\ ~Held(j) /\ ~Finished(j)
  BY OwnersCounted DEF Unaccounted, ServerInv
<1>6. QED
  BY <1>1, <1>2, <1>3, <1>4, <1>5, HoldersCounted

LEMMA StoppedRight == ServerInv => Stopped
<1> SUFFICES ASSUME ServerInv, apc = "stopped"
             PROVE  /\ spc = "exit" /\ hpc \in {"none", "exit"} /\ wpc = "exit"
                    /\ \A r \in Reader : rpc[r] = "exit"
                    /\ js = << >>
                    /\ \A j \in Job : stage[j] = "accepted" /\ ~Finished(j) =>
                                          j \in Range(jq) \cup Unaccounted
  BY DEF Stopped
<1>1. /\ spc = "exit" /\ wpc = "exit" /\ js = << >> /\ cq = << >>
      /\ \A r \in Reader : rpc[r] = "exit"
  BY ServerAssumption DEF ServerInv, ShutdownInv
<1>2. hpc \in {"none", "exit"} /\ pfq = << >> /\ Active = {}
  BY <1>1 DEF ServerInv, DriverInv, StopInv
<1>3. Len(cq) = 0 /\ Len(js) = 0 /\ Len(pfq) = 0
  BY <1>1, <1>2, EmptySeq
<1>4. \A j \in Job : ~Before(j)
  BY <1>1, <1>3 DEF Before, InMain, InCq, InReader, InJs, InWorker, ServerInv, HandsInv
<1>5. \A j \in Job : ~InHelper(j) /\ ~InPfq(j) /\ ~InSlot(j)
  BY <1>2, <1>3, Constants DEF InHelper, InPfq, InSlot, Active, ServerInv, DriverInv, HelperInv
<1>6. ASSUME NEW j \in Job, stage[j] = "accepted", ~Finished(j)
      PROVE  j \in Range(jq) \cup Unaccounted
  <2>1. j \in arrived
    BY <1>4, <1>6 DEF ServerInv, Accepted
  <2>2. CASE Held(j)
    <3>1. InJq(j) /\ DOMAIN jq = 1 .. Len(jq)
      BY <1>5, <2>2, LenProperties DEF Held, ServerInv, DriverInv, DriverTypeOK
    <3>2. j \in Range(jq)
      BY <3>1 DEF InJq, Range
    <3>3. QED
      BY <3>2
  <2>3. CASE ~Held(j)
    BY <1>6, <2>1, <2>3, OwnersCounted DEF Unaccounted, ServerInv
  <2>4. QED
    BY <2>2, <2>3
<1>7. QED
  BY <1>1, <1>2, <1>6

\* For every number of connections, readers, slots and queue places: an
\* accepted connection has one owner until it is closed and none afterwards,
\* whichever threads it passes through, and when the server has stopped no
\* thread is left and nothing is lost but what its queue and helper kept.
THEOREM ServerOwnsConnections == Spec => []ConnectionsOwned
<1>1. ServerInv => ConnectionsOwned
  BY OwnerRight, StoppedRight DEF ConnectionsOwned
<1>2. QED
  BY <1>1, Invariance, PTL

\* The server is the environment the driver was proved in: all its steps are
\* the driver's or leave the driver alone, so the driver keeps its promises.
THEOREM DriverWithinServer == Spec => []JobsRight
<1>1. ServerInv => JobsRight
  BY BooksRight, RepliesRight DEF JobsRight, ServerInv, DriverInv
<1>2. QED
  BY <1>1, Invariance, PTL
=============================================================================
