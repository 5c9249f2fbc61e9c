-------------------------- MODULE DecoderPool_proofs --------------------------
(***************************************************************************)
(* What the decoder's pool keeps for every number of helpers, callers,     *)
(* pieces and jobs, however many helpers could be created, as long as the  *)
(* callers take turns (Together = FALSE): no helper works in the frame of  *)
(* a call that has returned, and the pool is a parallel-for.               *)
(*                                                                         *)
(* The heart is PendingInv: sdp_pending counts the helpers that still owe  *)
(* a check-in for the posted generation, so that a caller that sees zero   *)
(* knows that nobody uses its job.                                         *)
(***************************************************************************)
EXTENDS DecoderPool, FiniteSetTheorems, TLAPS

\* Every variable has its type.
TypeOK ==
    /\ pc \in [Threads -> HelperPC \cup CallerPC]
    /\ \A h \in Helpers : pc[h] \in HelperPC
    /\ \A c \in Callers : pc[c] \in CallerPC
    /\ started \in BOOLEAN /\ gen \in Nat /\ pending \in Nat
    /\ ctx \in Callers \cup {None}
    /\ seen \in [Helpers -> Nat] /\ job \in [Helpers -> Callers \cup {None}]
    /\ piece \in [Threads -> Nat]
    /\ next \in [Callers -> Nat] /\ n \in [Callers -> 0 .. MaxPieces]
    /\ posted \in [Callers -> Nat] /\ ran \in [Callers -> [Pieces -> Nat]]

InCall(c) == pc[c] # "idle"
Working(h) == pc[h] \in {"claim", "do", "done"}

\* The helpers that have not checked in for the posted generation.
Owing == {h \in Helpers : pc[h] # "none" /\ (seen[h] # gen \/ Working(h))}

\* One call at a time, and it is its job that is posted.
CallInv ==
    /\ \A c, d \in Callers : InCall(c) /\ InCall(d) => c = d
    /\ \A c \in Callers : InCall(c) => ctx = c /\ posted[c] = gen /\ n[c] # 0
    /\ started \/ \A h \in Helpers : pc[h] = "none"

\* A helper has seen no generation that was not posted, and works on the
\* posted job of the call that is on.
HelperInv ==
    /\ \A h \in Helpers : seen[h] <= gen
    /\ \A h \in Helpers : Working(h) => seen[h] = gen /\ job[h] = ctx
    /\ Owing # {} => ctx \in Callers /\ InCall(ctx)

PendingInv == pending = Cardinality(Owing)

\* Thread t does piece i of the posted job.
Does(t, i) == pc[t] = "do" /\ piece[t] = i

\* Of the posted job, a piece that is claimed is done or in one thread's
\* hands, and one that is not is neither; who finds no piece left goes on.
PieceInv ==
    \A c \in Callers : InCall(c) =>
        /\ \A t \in Threads : pc[t] = "do" =>
              /\ piece[t] < next[c] /\ piece[t] < n[c]
              /\ ran[c][piece[t]] = 0
        /\ \A t, u \in Threads :
              pc[t] = "do" /\ pc[u] = "do" /\ piece[t] = piece[u] => t = u
        /\ \A i \in Pieces : i >= next[c] => ran[c][i] = 0
        /\ \A i \in Pieces :
              i < next[c] /\ i < n[c] /\ (\A t \in Threads : ~Does(t, i)) => ran[c][i] = 1
        /\ pc[c] \in {"wait", "parked"} => next[c] >= n[c]

IInv == TypeOK /\ CallInv /\ HelperInv /\ PendingInv /\ PieceInv
-----------------------------------------------------------------------------
\* The callers take turns.
Turns == PoolAssumption /\ ~Together

LEMMA OwingFinite == PoolAssumption => IsFiniteSet(Owing) /\ Cardinality(Owing) \in Nat
<1> SUFFICES ASSUME PoolAssumption PROVE IsFiniteSet(Owing) /\ Cardinality(Owing) \in Nat
  OBVIOUS
<1>1. Owing \subseteq Helpers /\ IsFiniteSet(Helpers)
  BY DEF Owing, PoolAssumption
<1>2. QED
  BY <1>1, FS_Subset, FS_CardinalityType

LEMMA BelowNext == \A a, b \in Nat : a < b + 1 /\ a # b => a < b
OBVIOUS

\* Who works, works on the posted job, whose caller is in the call.
LEMMA WorkOnPosted ==
    ASSUME Turns, IInv, NEW t \in Threads, pc[t] \in {"claim", "do"}
    PROVE  Whose(t) = ctx /\ ctx \in Callers /\ InCall(ctx)
<1>1. CASE t \in Callers
  BY <1>1 DEF IInv, CallInv, Whose, InCall
<1>2. CASE t \in Helpers
  <2>1. t \in Owing /\ job[t] = ctx
    BY <1>2 DEF IInv, HelperInv, Owing, Working
  <2>2. QED
    BY <1>2, <2>1 DEF IInv, HelperInv, Whose, Turns, PoolAssumption
<1>3. QED
  BY <1>1, <1>2 DEF Threads

\* What a look at the generation does: a helper that has seen it parks, any
\* other takes the posted job, and owes its check-in as before.
LEMMA LookCases ==
    ASSUME Turns, IInv, NEW h \in Helpers, Look(h)
    PROVE  /\ Owing' = Owing
           /\ \/ /\ gen = seen[h]
                 /\ pc' = [pc EXCEPT ![h] = "parked"]
                 /\ UNCHANGED <<seen, job>>
              \/ /\ gen # seen[h]
                 /\ pc' = [pc EXCEPT ![h] = "claim"]
                 /\ seen' = [seen EXCEPT ![h] = gen]
                 /\ job' = [job EXCEPT ![h] = ctx]
                 /\ ctx \in Callers /\ InCall(ctx)
<1> USE DEF Look, Goto, poolVars, jobVars
<1>1. pc \in [Threads -> HelperPC \cup CallerPC] /\ seen \in [Helpers -> Nat]
    /\ Helpers \subseteq Threads /\ gen' = gen
  BY DEF IInv, TypeOK, Threads
<1>2. CASE gen = seen[h]
  <2>1. pc' = [pc EXCEPT ![h] = "parked"] /\ seen' = seen /\ job' = job
    BY <1>2
  <2>2. Owing' = Owing
    BY <1>1, <1>2, <2>1 DEF Owing, Working
  <2>3. QED
    BY <1>2, <2>1, <2>2
<1>3. CASE gen # seen[h]
  <2>1. /\ pc' = [pc EXCEPT ![h] = "claim"]
        /\ seen' = [seen EXCEPT ![h] = gen] /\ job' = [job EXCEPT ![h] = ctx]
    BY <1>3
  <2>2. Owing' = Owing
    BY <1>1, <1>3, <2>1 DEF Owing, Working
  <2>3. h \in Owing
    BY <1>3 DEF Owing
  <2>4. ctx \in Callers /\ InCall(ctx)
    BY <2>3 DEF IInv, HelperInv
  <2>5. QED
    BY <1>3, <2>1, <2>2, <2>4
<1>4. QED
  BY <1>2, <1>3

\* What a check-in does: the helper owes nothing any more, and the last one
\* may wake a parked caller.
LEMMA CheckInCases ==
    ASSUME Turns, IInv, NEW h \in Helpers, CheckIn(h)
    PROVE  /\ h \in Owing /\ Owing' = Owing \ {h}
           /\ \E w \in Callers \cup {h} :
                /\ w \in Callers => pc[w] = "parked"
                /\ pc' = [t \in Threads |-> IF t = h THEN "look"
                                            ELSE IF t = w THEN "wait" ELSE pc[t]]
<1>1. /\ pc \in [Threads -> HelperPC \cup CallerPC] /\ seen \in [Helpers -> Nat]
      /\ Threads = Helpers \cup Callers /\ Helpers \cap Callers = {} /\ gen' = gen
      /\ None \notin Callers /\ seen' = seen /\ pc[h] = "done" /\ seen[h] = gen
  BY DEF IInv, TypeOK, Threads, Turns, PoolAssumption, CheckIn, HelperInv, Working
<1>2. \E w \in Callers \cup {h} :
         /\ w \in Callers => pc[w] = "parked"
         /\ \A t \in Threads : pc'[t] = IF t = h THEN "look"
                                        ELSE IF t = w THEN "wait" ELSE pc[t]
         /\ pc' = [t \in Threads |-> IF t = h THEN "look"
                                     ELSE IF t = w THEN "wait" ELSE pc[t]]
  <2>1. CASE \E c \in Callers : pc[c] = "parked" /\ pc' = [pc EXCEPT ![h] = "look", ![c] = "wait"]
    <3>1. PICK c \in Callers : pc[c] = "parked" /\ pc' = [pc EXCEPT ![h] = "look", ![c] = "wait"]
      BY <2>1
    <3>2. c # h
      BY <1>1
    <3>3. pc' = [t \in Threads |-> IF t = h THEN "look" ELSE IF t = c THEN "wait" ELSE pc[t]]
      BY <1>1, <3>1, <3>2
    <3>4. QED
      BY <3>1, <3>3
  <2>2. CASE pc' = [pc EXCEPT ![h] = "look"]
    <3>1. pc' = [t \in Threads |-> IF t = h THEN "look" ELSE IF t = h THEN "wait" ELSE pc[t]]
      BY <1>1, <2>2
    <3>2. h \notin Callers
      BY <1>1
    <3>3. QED
      BY <3>1, <3>2
  <2>3. QED
    BY <2>1, <2>2 DEF CheckIn, Goto
<1>3. h \in Owing
  BY <1>1 DEF Owing, Working
<1>4. Owing' = Owing \ {h}
  BY <1>1, <1>2 DEF Owing, Working
<1>5. QED
  BY <1>2, <1>3, <1>4

\* Every step keeps the types.
LEMMA TypeStep == Turns /\ IInv /\ [Next]_vars => TypeOK'
<1> SUFFICES ASSUME Turns /\ IInv, [Next]_vars PROVE TypeOK'
  OBVIOUS
<1> USE DEF IInv, TypeOK, Turns, PoolAssumption, Threads, HelperPC, CallerPC, poolVars, jobVars
<1>1. ASSUME NEW c \in Callers, NEW k \in 1 .. MaxPieces, Post(c, k) PROVE TypeOK'
  <2>1. PICK up \in Up : /\ pending' = Cardinality(up)
                         /\ pc' = [t \in Threads |-> IF t = c THEN "claim"
                                     ELSE IF t \in up /\ pc[t] \in {"none", "parked"} THEN "look"
                                     ELSE pc[t]]
    BY <1>1 DEF Post
  <2>2. up \subseteq Helpers /\ Cardinality(up) \in Nat
    BY FS_Subset, FS_CardinalityType DEF Up
  <2>3. QED
    BY <1>1, <2>1, <2>2 DEF Post, NoRun
<1>2. ASSUME NEW c \in Callers, Wait(c) PROVE TypeOK'
  BY <1>2 DEF Wait, Goto
<1>3. ASSUME NEW t \in Threads, Spurious(t) PROVE TypeOK'
  BY <1>3 DEF Spurious, Goto
<1>4. ASSUME NEW t \in Threads, Claim(t) PROVE TypeOK'
  <2>1. Whose(t) \in Callers
    BY <1>4, WorkOnPosted DEF Claim
  <2>2. QED
    BY <1>4, <2>1 DEF Claim, Goto
<1>5. ASSUME NEW t \in Threads, Do(t) PROVE TypeOK'
  <2>1. Whose(t) \in Callers /\ Whose(t) = ctx /\ InCall(ctx)
    BY <1>5, WorkOnPosted DEF Do
  <2>2. piece[t] \in Pieces
    BY <1>5, <2>1 DEF Do, PieceInv, Pieces
  <2>3. QED
    BY <1>5, <2>1, <2>2 DEF Do, Goto
<1>6. ASSUME NEW h \in Helpers, Look(h) PROVE TypeOK'
  <2>1. \/ /\ gen = seen[h] /\ pc' = [pc EXCEPT ![h] = "parked"]
           /\ UNCHANGED <<seen, job>>
        \/ /\ gen # seen[h] /\ pc' = [pc EXCEPT ![h] = "claim"]
           /\ seen' = [seen EXCEPT ![h] = gen]
           /\ job' = [job EXCEPT ![h] = ctx]
           /\ ctx \in Callers /\ InCall(ctx)
    BY <1>6, LookCases
  <2>2. pc[h] = "look" /\ UNCHANGED <<poolVars, piece, jobVars>>
    BY <1>6 DEF Look
  <2>3. QED
    BY <2>1, <2>2, SMTT(30)
<1>7. ASSUME NEW h \in Helpers, CheckIn(h) PROVE TypeOK'
  <2>1. PICK w \in Callers \cup {h} :
           /\ w \in Callers => pc[w] = "parked"
           /\ pc' = [t \in Threads |-> IF t = h THEN "look"
                                       ELSE IF t = w THEN "wait" ELSE pc[t]]
    BY <1>7, CheckInCases
  <2>2. pc[h] = "done" /\ UNCHANGED <<started, gen, ctx, seen, job, piece, jobVars>>
    BY <1>7 DEF CheckIn
  <2>3. h \in Owing /\ IsFiniteSet(Owing) /\ pending = Cardinality(Owing)
    BY <1>7, CheckInCases, OwingFinite DEF PendingInv
  <2>4. pending \in Nat \ {0}
    BY <2>3, FS_EmptySet
  <2>5. pending' = pending - 1
    BY <1>7 DEF CheckIn
  <2>6. pending' \in Nat
    BY <2>4, <2>5
  <2>7. pc' \in [Threads -> HelperPC \cup CallerPC]
    BY <2>1
  <2>8. (\A g \in Helpers : pc'[g] \in HelperPC) /\ (\A c \in Callers : pc'[c] \in CallerPC)
    BY <2>1
  <2>9. QED
    BY <2>2, <2>6, <2>7, <2>8
<1>8. CASE UNCHANGED vars
  BY <1>8 DEF vars
<1>9. QED
  BY <1>1, <1>2, <1>3, <1>4, <1>5, <1>6, <1>7, <1>8 DEF Next, CallerStep, HelperStep, Threads

\* Every step keeps one call at a time.
LEMMA CallStep == Turns /\ IInv /\ [Next]_vars => CallInv'
<1> SUFFICES ASSUME Turns /\ IInv, [Next]_vars PROVE CallInv'
  OBVIOUS
<1> USE DEF IInv, TypeOK, CallInv, HelperInv, PendingInv, Turns, PoolAssumption, Threads, HelperPC, CallerPC, InCall, Working, poolVars, jobVars, Owing
<1>1. ASSUME NEW c \in Callers, NEW k \in 1 .. MaxPieces, Post(c, k) PROVE CallInv'
  BY <1>1 DEF Post, MayCall, Up, NoRun
<1>2. ASSUME NEW c \in Callers, Wait(c) PROVE CallInv'
  BY <1>2 DEF Wait, Goto
<1>3. ASSUME NEW t \in Threads, Spurious(t) PROVE CallInv'
  BY <1>3 DEF Spurious, Goto
<1>4. ASSUME NEW t \in Threads, Claim(t) PROVE CallInv'
  BY <1>4 DEF Claim, Goto, Whose
<1>5. ASSUME NEW t \in Threads, Do(t) PROVE CallInv'
  BY <1>5 DEF Do, Goto, Whose
<1>6. ASSUME NEW h \in Helpers, Look(h) PROVE CallInv'
  BY <1>6, LookCases DEF Look
<1>7. ASSUME NEW h \in Helpers, CheckIn(h) PROVE CallInv'
  <2>1. \E w \in Callers \cup {h} :
              /\ w \in Callers => pc[w] = "parked"
              /\ pc' = [t \in Threads |-> IF t = h THEN "look"
                                          ELSE IF t = w THEN "wait" ELSE pc[t]]
    BY <1>7, CheckInCases
  <2>2. pc[h] = "done"
    BY <1>7 DEF CheckIn
  <2>3. QED
    BY <1>7, <2>1, <2>2 DEF CheckIn
<1>8. CASE UNCHANGED vars
  BY <1>8 DEF vars
<1>9. QED
  BY <1>1, <1>2, <1>3, <1>4, <1>5, <1>6, <1>7, <1>8 DEF Next, CallerStep, HelperStep, Threads

\* Every step keeps the helpers on the posted job.
LEMMA HelperInvStep == Turns /\ IInv /\ [Next]_vars => HelperInv'
<1> SUFFICES ASSUME Turns /\ IInv, [Next]_vars PROVE HelperInv'
  OBVIOUS
<1> USE DEF IInv, TypeOK, CallInv, HelperInv, PendingInv, Turns, PoolAssumption, Threads, HelperPC, CallerPC, InCall, Working, poolVars, jobVars, Owing
<1>1. ASSUME NEW c \in Callers, NEW k \in 1 .. MaxPieces, Post(c, k) PROVE HelperInv'
  BY <1>1 DEF Post, MayCall, Up, NoRun
<1>2. ASSUME NEW c \in Callers, Wait(c) PROVE HelperInv'
  <2>1. Owing' = Owing
    BY <1>2 DEF Wait, Goto, Owing
  <2>2. CASE pending = 0
    <3>1. Owing = {}
      BY <2>2, OwingFinite, FS_EmptySet
    <3>2. QED
      BY <1>2, <2>1, <3>1 DEF Wait, Goto
  <2>3. CASE pending # 0
    BY <1>2, <2>1, <2>3 DEF Wait, Goto
  <2>4. QED
    BY <2>2, <2>3
<1>3. ASSUME NEW t \in Threads, Spurious(t) PROVE HelperInv'
  BY <1>3 DEF Spurious, Goto
<1>4. ASSUME NEW t \in Threads, Claim(t) PROVE HelperInv'
  BY <1>4 DEF Claim, Goto, Whose
<1>5. ASSUME NEW t \in Threads, Do(t) PROVE HelperInv'
  BY <1>5 DEF Do, Goto, Whose
<1>6. ASSUME NEW h \in Helpers, Look(h) PROVE HelperInv'
  BY <1>6, LookCases DEF Look
<1>7. ASSUME NEW h \in Helpers, CheckIn(h) PROVE HelperInv'
  <2>1. /\ Owing' = Owing \ {h}
        /\ \E w \in Callers \cup {h} :
              /\ w \in Callers => pc[w] = "parked"
              /\ pc' = [t \in Threads |-> IF t = h THEN "look"
                                          ELSE IF t = w THEN "wait" ELSE pc[t]]
    BY <1>7, CheckInCases
  <2>2. pc[h] = "done"
    BY <1>7 DEF CheckIn
  <2>3. QED
    BY <1>7, <2>1, <2>2 DEF CheckIn
<1>8. CASE UNCHANGED vars
  BY <1>8 DEF vars
<1>9. QED
  BY <1>1, <1>2, <1>3, <1>4, <1>5, <1>6, <1>7, <1>8 DEF Next, CallerStep, HelperStep, Threads

\* Every step keeps the count of the check-ins that are owed.
LEMMA PendingStep == Turns /\ IInv /\ [Next]_vars => PendingInv'
<1> SUFFICES ASSUME Turns /\ IInv, [Next]_vars PROVE PendingInv'
  OBVIOUS
<1> USE DEF IInv, TypeOK, CallInv, HelperInv, PendingInv, Turns, PoolAssumption, Threads, HelperPC, CallerPC, InCall, Working, poolVars, jobVars, Owing
<1>1. ASSUME NEW c \in Callers, NEW k \in 1 .. MaxPieces, Post(c, k) PROVE PendingInv'
  <2>1. PICK up \in Up : /\ pending' = Cardinality(up)
                         /\ pc' = [t \in Threads |-> IF t = c THEN "claim"
                                     ELSE IF t \in up /\ pc[t] \in {"none", "parked"} THEN "look"
                                     ELSE pc[t]]
    BY <1>1 DEF Post
  <2>2. Owing = {}
    BY <1>1 DEF Post, MayCall
  <2>3. up \subseteq Helpers /\ (started => up = {h \in Helpers : pc[h] # "none"})
    BY DEF Up
  <2>4. \A h \in Helpers : pc[h] \in {"none", "look", "parked"} /\ seen[h] # gen + 1
    BY <2>2 DEF Owing
  <2>5. \A h \in Helpers : h \in up <=> pc'[h] # "none"
    BY <1>1, <2>1, <2>3, <2>4
  <2>6. \A h \in Helpers : pc'[h] # "none" => seen'[h] # gen' /\ ~Working(h)'
    BY <1>1, <2>1, <2>4 DEF Post
  <2>7. Owing' = up
    BY <2>3, <2>5, <2>6 DEF Owing
  <2>8. QED
    BY <2>1, <2>7
<1>2. ASSUME NEW c \in Callers, Wait(c) PROVE PendingInv'
  <2>1. UNCHANGED <<pending, gen, seen>> /\ \A h \in Helpers : pc'[h] = pc[h]
    BY <1>2 DEF Wait, Goto
  <2>2. Owing' = Owing
    BY <2>1
  <2>3. QED
    BY <2>1, <2>2
<1>3. ASSUME NEW t \in Threads, Spurious(t) PROVE PendingInv'
  BY <1>3 DEF Spurious, Goto
<1>4. ASSUME NEW t \in Threads, Claim(t) PROVE PendingInv'
  <2>1. Owing' = Owing
    BY <1>4 DEF Claim, Goto, Owing, Whose
  <2>2. QED
    BY <1>4, <2>1 DEF Claim
<1>5. ASSUME NEW t \in Threads, Do(t) PROVE PendingInv'
  BY <1>5 DEF Do, Goto, Whose
<1>6. ASSUME NEW h \in Helpers, Look(h) PROVE PendingInv'
  BY <1>6, LookCases DEF Look
<1>7. ASSUME NEW h \in Helpers, CheckIn(h) PROVE PendingInv'
  <2>1. h \in Owing /\ Owing' = Owing \ {h}
    BY <1>7, CheckInCases
  <2>2. Cardinality(Owing \ {h}) = Cardinality(Owing) - 1
    BY <2>1, OwingFinite, FS_RemoveElement
  <2>3. QED
    BY <1>7, <2>1, <2>2 DEF CheckIn
<1>8. CASE UNCHANGED vars
  BY <1>8 DEF vars
<1>9. QED
  BY <1>1, <1>2, <1>3, <1>4, <1>5, <1>6, <1>7, <1>8 DEF Next, CallerStep, HelperStep, Threads

\* Every step keeps every piece done once, or in one thread's hands.
LEMMA PieceStep == Turns /\ IInv /\ [Next]_vars => PieceInv'
<1> SUFFICES ASSUME Turns /\ IInv, [Next]_vars PROVE PieceInv'
  OBVIOUS
<1> USE DEF IInv, TypeOK, CallInv, HelperInv, PendingInv, Turns, PoolAssumption, Threads, HelperPC, CallerPC, InCall, Working, poolVars, jobVars, PieceInv, Owing, Does
<1>1. ASSUME NEW c \in Callers, NEW k \in 1 .. MaxPieces, Post(c, k) PROVE PieceInv'
  <2>1. PICK up \in Up : pc' = [t \in Threads |-> IF t = c THEN "claim"
                                     ELSE IF t \in up /\ pc[t] \in {"none", "parked"} THEN "look"
                                     ELSE pc[t]]
    BY <1>1 DEF Post
  <2>2. \A d \in Callers : pc[d] = "idle" /\ (InCall(d)' => d = c)
    BY <1>1, <2>1 DEF Post, MayCall, Up
  <2>3. \A t \in Threads : pc'[t] # "do"
    BY <1>1, <2>1, <2>2
  <2>4. pc'[c] = "claim" /\ next'[c] = 0 /\ n'[c] = k /\ ran'[c] = NoRun
    BY <1>1, <2>1 DEF Post
  <2>5. \A i \in Pieces : ran'[c][i] = 0
    BY <2>4 DEF NoRun
  <2>6. \A i \in Pieces : i \in Nat /\ ~(i < 0)
    BY DEF Pieces
  <2>7. QED
    BY <2>2, <2>3, <2>4, <2>5, <2>6
<1>2. ASSUME NEW c \in Callers, Wait(c) PROVE PieceInv'
  BY <1>2 DEF Wait, Goto
<1>3. ASSUME NEW t \in Threads, Spurious(t) PROVE PieceInv'
  BY <1>3 DEF Spurious, Goto
<1>4. ASSUME NEW t \in Threads, Claim(t) PROVE PieceInv'
  <2>1. Whose(t) = ctx /\ ctx \in Callers /\ InCall(ctx)
    BY <1>4, WorkOnPosted DEF Claim
  <2>2. /\ piece' = [piece EXCEPT ![t] = next[ctx]]
        /\ next' = [next EXCEPT ![ctx] = @ + 1]
        /\ pc' = [pc EXCEPT ![t] = IF next[ctx] < n[ctx] THEN "do"
                                   ELSE IF t \in Callers THEN "wait" ELSE "done"]
        /\ pc[t] = "claim" /\ n' = n /\ ran' = ran
    BY <1>4, <2>1 DEF Claim, Goto
  <2>3. \A c \in Callers : InCall(c)' => c = ctx
    BY <2>1, <2>2
  <2>4. Pieces \subseteq Nat /\ n[ctx] \in Nat /\ next[ctx] \in Nat
      /\ (\A i \in Nat : i < n[ctx] => i \in Pieces)
    BY <2>1 DEF Pieces
  <2>5. next'[ctx] = next[ctx] + 1
    BY <2>1, <2>2
  <2>6. CASE next[ctx] < n[ctx]
    <3>1. pc' = [pc EXCEPT ![t] = "do"]
      BY <2>2, <2>6
    <3>2. \A u \in Threads : pc'[u] = "do" => \/ u = t /\ piece'[u] = next[ctx]
                                              \/ u # t /\ pc[u] = "do" /\ piece'[u] = piece[u]
                                                /\ piece[u] < next[ctx]
      BY <2>1, <2>2, <3>1
    <3>3. \A u \in Threads : pc[u] = "do" => u # t /\ pc'[u] = "do" /\ piece'[u] = piece[u]
      BY <2>1, <2>2, <3>1
    <3>4. pc'[t] = "do" /\ piece'[t] = next[ctx]
      BY <2>2, <3>1
    <3>5. \A u \in Threads : pc'[u] = "do" =>
             /\ piece'[u] < next'[ctx] /\ piece'[u] < n'[ctx] /\ ran'[ctx][piece'[u]] = 0
      BY <2>1, <2>2, <2>4, <2>5, <2>6, <3>2
    <3>6. \A t1, u \in Threads :
             pc'[t1] = "do" /\ pc'[u] = "do" /\ piece'[t1] = piece'[u] => t1 = u
      BY <2>1, <2>4, <3>2
    <3>7. \A i \in Pieces : i >= next'[ctx] => ran'[ctx][i] = 0
      BY <2>1, <2>2, <2>4, <2>5
    <3>8. \A i \in Pieces :
            i < next'[ctx] /\ i < n'[ctx] /\ (\A u \in Threads : ~Does(u, i)') => ran'[ctx][i] = 1
      <4>1. SUFFICES ASSUME NEW i \in Pieces, i < next'[ctx], i < n'[ctx],
                            \A u \in Threads : ~Does(u, i)'
                     PROVE  ran'[ctx][i] = 1
        OBVIOUS
      <4>2. i # next[ctx]
        BY <3>4, <4>1
      <4>3. i < next[ctx] /\ i < n[ctx]
        <5>1. n'[ctx] = n[ctx] /\ i \in Nat
          BY <2>2, <2>4
        <5>2. i < next[ctx] + 1 /\ i < n[ctx]
          BY <2>5, <4>1, <5>1
        <5>3. QED
          BY <2>4, <4>2, <5>1, <5>2, BelowNext
      <4>4. \A u \in Threads : ~Does(u, i)
        BY <3>3, <4>1
      <4>5. QED
        BY <2>1, <2>2, <4>3, <4>4
    <3>9. ~(pc'[ctx] \in {"wait", "parked"} /\ ctx = t)
      BY <3>1
    <3>10. pc'[ctx] \in {"wait", "parked"} => next'[ctx] >= n'[ctx]
      BY <2>1, <2>2, <2>4, <2>5, <3>1, <3>9
    <3>11. QED
      BY <2>3, <3>5, <3>6, <3>7, <3>8, <3>10
  <2>7. CASE ~(next[ctx] < n[ctx])
    <3>1. \A u \in Threads : (pc'[u] = "do" <=> pc[u] = "do") /\ (pc[u] = "do" => piece'[u] = piece[u])
      BY <2>2, <2>7
    <3>2. \A u \in Threads, i \in Pieces : Does(u, i)' <=> Does(u, i)
      BY <3>1
    <3>3. \A i \in Pieces : (i < n[ctx] => i < next[ctx]) /\ (i >= next'[ctx] => i >= next[ctx])
      BY <2>4, <2>5, <2>7
    <3>4. next'[ctx] >= n'[ctx] /\ next[ctx] < next'[ctx]
      BY <2>2, <2>4, <2>5, <2>7
    <3>5. \A u \in Threads : pc'[u] = "do" =>
             /\ piece'[u] < next'[ctx] /\ piece'[u] < n'[ctx] /\ ran'[ctx][piece'[u]] = 0
      BY <2>1, <2>2, <2>4, <2>5, <3>1
    <3>6. \A t1, u \in Threads :
             pc'[t1] = "do" /\ pc'[u] = "do" /\ piece'[t1] = piece'[u] => t1 = u
      BY <2>1, <3>1
    <3>7. \A i \in Pieces : i >= next'[ctx] => ran'[ctx][i] = 0
      BY <2>1, <2>2, <3>3
    <3>8. \A i \in Pieces :
            i < next'[ctx] /\ i < n'[ctx] /\ (\A u \in Threads : ~Does(u, i)') => ran'[ctx][i] = 1
      <4>1. SUFFICES ASSUME NEW i \in Pieces, i < n[ctx], \A u \in Threads : ~Does(u, i)'
                     PROVE  ran[ctx][i] = 1
        BY <2>2
      <4>2. i < next[ctx] /\ \A u \in Threads : ~Does(u, i)
        BY <3>2, <3>3, <4>1
      <4>3. QED
        BY <2>1, <4>1, <4>2
    <3>9. QED
      BY <2>3, <3>4, <3>5, <3>6, <3>7, <3>8
  <2>8. QED
    BY <2>6, <2>7
<1>5. ASSUME NEW t \in Threads, Do(t) PROVE PieceInv'
  BY <1>5 DEF Do, Goto, Whose
<1>6. ASSUME NEW h \in Helpers, Look(h) PROVE PieceInv'
  <2>1. \/ /\ gen = seen[h] /\ pc' = [pc EXCEPT ![h] = "parked"]
           /\ UNCHANGED <<seen, job>>
        \/ /\ gen # seen[h] /\ pc' = [pc EXCEPT ![h] = "claim"]
           /\ seen' = [seen EXCEPT ![h] = gen]
           /\ job' = [job EXCEPT ![h] = ctx]
           /\ ctx \in Callers /\ InCall(ctx)
    BY <1>6, LookCases
  <2>2. pc[h] = "look" /\ UNCHANGED <<poolVars, piece, jobVars>>
    BY <1>6 DEF Look
  <2>3. \A t \in Threads : (pc'[t] = "do" <=> pc[t] = "do")
    BY <2>1, <2>2
  <2>4. \A d \in Callers : pc'[d] = pc[d]
    BY <2>1, <2>2
  <2>5. QED
    BY <2>2, <2>3, <2>4
<1>7. ASSUME NEW h \in Helpers, CheckIn(h) PROVE PieceInv'
  <2>1. PICK w \in Callers \cup {h} :
           /\ w \in Callers => pc[w] = "parked"
           /\ pc' = [t \in Threads |-> IF t = h THEN "look"
                                       ELSE IF t = w THEN "wait" ELSE pc[t]]
    BY <1>7, CheckInCases
  <2>2. pc[h] = "done" /\ UNCHANGED <<started, gen, ctx, seen, job, piece, jobVars>>
    BY <1>7 DEF CheckIn
  <2>3. \A t \in Threads : (pc'[t] = "do" <=> pc[t] = "do")
    BY <2>1, <2>2
  <2>4. \A d \in Callers : (pc'[d] = "idle" <=> pc[d] = "idle")
    /\ (pc'[d] \in {"wait", "parked"} => pc[d] \in {"wait", "parked"})
    BY <2>1, <2>2
  <2>5. QED
    BY <2>2, <2>3, <2>4
<1>8. CASE UNCHANGED vars
  BY <1>8 DEF vars
<1>9. QED
  BY <1>1, <1>2, <1>3, <1>4, <1>5, <1>6, <1>7, <1>8 DEF Next, CallerStep, HelperStep, Threads

-----------------------------------------------------------------------------
LEMMA InitInvariant == Turns /\ Init => IInv
<1> SUFFICES ASSUME Turns, Init PROVE IInv
  OBVIOUS
<1> USE DEF Init, Turns, PoolAssumption, Threads
<1>1. TypeOK
  <2>1. pc \in [Threads -> HelperPC \cup CallerPC]
    BY DEF HelperPC, CallerPC
  <2>2. (\A h \in Helpers : pc[h] \in HelperPC) /\ (\A c \in Callers : pc[c] \in CallerPC)
    BY DEF HelperPC, CallerPC
  <2>3. n \in [Callers -> 0 .. MaxPieces] /\ ran \in [Callers -> [Pieces -> Nat]]
    BY DEF NoRun
  <2>4. QED
    BY <2>1, <2>2, <2>3 DEF TypeOK
<1>2. (\A h \in Helpers : pc[h] = "none") /\ (\A c \in Callers : pc[c] = "idle")
  OBVIOUS
<1>3. Owing = {}
  BY <1>2 DEF Owing
<1>4. CallInv /\ HelperInv
  BY <1>2, <1>3 DEF CallInv, HelperInv, InCall, Working
<1>5. PendingInv
  BY <1>3, FS_EmptySet DEF PendingInv
<1>6. PieceInv
  BY <1>2 DEF PieceInv, InCall
<1>7. QED
  BY <1>1, <1>4, <1>5, <1>6 DEF IInv

LEMMA NextInvariant == Turns /\ IInv /\ [Next]_vars => IInv'
BY TypeStep, CallStep, HelperInvStep, PendingStep, PieceStep DEF IInv

\* While callers take turns, the invariant holds in every reachable state.
THEOREM Invariance == ASSUME Turns PROVE Spec => []IInv
<1>1. Init => IInv
  BY InitInvariant
<1>2. IInv /\ [Next]_vars => IInv'
  BY NextInvariant
<1>3. QED
  BY <1>1, <1>2, PTL DEF Spec

\* While callers take turns, no helper works on a job whose call has returned:
\* sd_pool_run's frame, with the job and its output, outlives the work on it.
THEOREM FrameOutlivesWork == ASSUME Turns PROVE Spec => []DecoderJobAlive
<1>1. IInv => DecoderJobAlive
  <2> SUFFICES ASSUME IInv, NEW h \in Helpers, pc[h] \in {"claim", "do"}
               PROVE  pc[job[h]] # "idle" /\ posted[job[h]] = seen[h]
    BY DEF DecoderJobAlive
  <2>1. h \in Owing /\ job[h] = ctx /\ seen[h] = gen
    BY DEF IInv, HelperInv, Owing, Working
  <2>2. ctx \in Callers /\ InCall(ctx) /\ posted[ctx] = gen
    BY <2>1 DEF IInv, HelperInv, CallInv
  <2>3. QED
    BY <2>1, <2>2 DEF InCall
<1>2. QED
  BY <1>1, Invariance, PTL

-----------------------------------------------------------------------------
(* The pool is a parallel-for: posting a job begins the call, doing a piece  *)
(* runs its chunk, and the wait that finds no check-in owed returns.         *)

SizeOf == [c \in Callers |-> IF pc[c] = "idle" THEN 0 ELSE n[c]]

\* A step after which the same calls are on, with the same pieces done, is a
\* stutter of the parallel-for.
LEMMA SameCalls ==
    ASSUME \A c \in Callers : pc'[c] = "idle" <=> pc[c] = "idle", n' = n, ran' = ran
    PROVE  UNCHANGED PF!pfvars
BY DEF PF!pfvars

LEMMA PostCalls ==
    ASSUME Turns, IInv, NEW c \in Callers, NEW k \in 1 .. MaxPieces, Post(c, k)
    PROVE  PF!Call(c, k)
<1>1. PICK up \in Up : pc' = [t \in Threads |-> IF t = c THEN "claim"
                                     ELSE IF t \in up /\ pc[t] \in {"none", "parked"} THEN "look"
                                     ELSE pc[t]]
  BY DEF Post
<1>2. Callers \subseteq Threads /\ c \notin Helpers /\ up \subseteq Helpers
      /\ Helpers \cap Callers = {}
  BY DEF Threads, Up, Turns, PoolAssumption
<1>3. \A d \in Callers : pc'[d] = IF d = c THEN "claim" ELSE pc[d]
  BY <1>1, <1>2
<1>4. pc[c] = "idle" /\ n' = [n EXCEPT ![c] = k] /\ ran' = [ran EXCEPT ![c] = NoRun]
      /\ n \in [Callers -> 0 .. MaxPieces]
  BY DEF Post, MayCall, IInv, TypeOK
<1>5. SizeOf' = [SizeOf EXCEPT ![c] = k] /\ SizeOf[c] = 0
  BY <1>3, <1>4 DEF SizeOf
<1>6. PF!NoRun = NoRun
  BY DEF PF!NoRun, NoRun, PF!Chunks, Pieces
<1>7. QED
  BY <1>4, <1>5, <1>6 DEF PF!Call, SizeOf

LEMMA DoRuns ==
    ASSUME Turns, IInv, NEW t \in Threads, Do(t)
    PROVE  PF!RunChunk(Whose(t), piece[t]) /\ Whose(t) \in Callers /\ piece[t] \in PF!Chunks
<1>1. Whose(t) = ctx /\ ctx \in Callers /\ InCall(ctx)
  BY WorkOnPosted DEF Do
<1>2. piece[t] < n[ctx] /\ ran[ctx][piece[t]] = 0 /\ piece[t] \in Nat /\ n[ctx] \in 0 .. MaxPieces
  BY <1>1 DEF IInv, PieceInv, TypeOK, Do
<1>3. piece[t] \in Pieces
  BY <1>2, MaxPieces \in Nat DEF Pieces, Turns, PoolAssumption
<1>4. \A c \in Callers : pc'[c] = "idle" <=> pc[c] = "idle"
  BY DEF Do, Goto, IInv, TypeOK
<1>5. SizeOf' = SizeOf /\ SizeOf[ctx] = n[ctx]
  BY <1>1, <1>4 DEF SizeOf, InCall, Do
<1>6. ran' = [ran EXCEPT ![ctx][piece[t]] = 1]
  BY <1>1, <1>2, <1>3 DEF Do, IInv, TypeOK
<1>7. QED
  BY <1>1, <1>2, <1>3, <1>5, <1>6 DEF PF!RunChunk, PF!Chunks, Pieces, SizeOf

LEMMA WaitReturns ==
    ASSUME Turns, IInv, NEW c \in Callers, Wait(c)
    PROVE  PF!Return(c) \/ UNCHANGED PF!pfvars
<1>1. pc[c] = "wait" /\ n' = n /\ ran' = ran /\ InCall(c)
      /\ pc' = [pc EXCEPT ![c] = IF pending > 0 THEN "parked" ELSE "idle"]
      /\ pc \in [Threads -> HelperPC \cup CallerPC] /\ c \in Threads /\ Callers \subseteq Threads
  BY DEF Wait, Goto, jobVars, InCall, IInv, TypeOK, Threads
<1>2. CASE pending > 0
  BY <1>1, <1>2, SameCalls
<1>3. CASE ~(pending > 0)
  <2>1. Owing = {}
    BY <1>3, OwingFinite, FS_EmptySet DEF IInv, TypeOK, PendingInv, Turns
  <2>2. \A t \in Threads, i \in Pieces : ~Does(t, i)
    <3>1. \A h \in Helpers : pc[h] # "do"
      BY <2>1 DEF Owing, Working
    <3>2. \A d \in Callers : pc[d] # "do"
      BY <1>1 DEF IInv, CallInv, InCall
    <3>3. QED
      BY <3>1, <3>2 DEF Threads, Does
  <2>3. next[c] >= n[c] /\ n[c] \in 0 .. MaxPieces /\ n[c] # 0 /\ next[c] \in Nat /\ MaxPieces \in Nat
    BY <1>1 DEF IInv, TypeOK, PieceInv, CallInv, Turns, PoolAssumption
  <2>4. \A i \in 0 .. n[c] - 1 : i \in Pieces /\ i < n[c] /\ i < next[c]
    BY <2>3 DEF Pieces
  <2>5. \A i \in 0 .. n[c] - 1 : ran[c][i] = 1
    BY <1>1, <2>2, <2>4 DEF IInv, PieceInv
  <2>6. SizeOf' = [SizeOf EXCEPT ![c] = 0] /\ SizeOf[c] = n[c]
    BY <1>1, <1>3 DEF SizeOf
  <2>7. QED
    BY <1>1, <2>3, <2>5, <2>6 DEF PF!Return, SizeOf
<1>4. QED
  BY <1>2, <1>3

LEMMA RefinementStep == Turns /\ IInv /\ [Next]_vars => [PF!PFNext]_PF!pfvars
<1> SUFFICES ASSUME Turns, IInv, [Next]_vars PROVE PF!PFNext \/ UNCHANGED PF!pfvars
  BY DEF PF!pfvars
<1>1. ASSUME NEW c \in Callers, NEW k \in 1 .. MaxPieces, Post(c, k) PROVE PF!PFNext
  BY <1>1, PostCalls DEF PF!PFNext
<1>2. ASSUME NEW c \in Callers, Wait(c) PROVE PF!PFNext \/ UNCHANGED PF!pfvars
  BY <1>2, WaitReturns DEF PF!PFNext
<1>3. ASSUME NEW t \in Threads, Do(t) PROVE PF!PFNext
  BY <1>3, DoRuns DEF PF!PFNext
<1> USE DEF IInv, TypeOK, Threads, Turns, PoolAssumption, poolVars, jobVars
<1>4. ASSUME NEW t \in Threads, Claim(t) PROVE UNCHANGED PF!pfvars
  <2>1. \A c \in Callers : pc'[c] = "idle" <=> pc[c] = "idle"
    BY <1>4 DEF Claim, Goto
  <2>2. n' = n /\ ran' = ran
    BY <1>4 DEF Claim
  <2>3. QED
    BY <2>1, <2>2, SameCalls
<1>5. ASSUME NEW t \in Threads, Spurious(t) PROVE UNCHANGED PF!pfvars
  BY <1>5, SameCalls DEF Spurious, Goto
<1>6. ASSUME NEW h \in Helpers, Look(h) PROVE UNCHANGED PF!pfvars
  <2>1. \A c \in Callers : pc'[c] = "idle" <=> pc[c] = "idle"
    BY <1>6 DEF Look, Goto
  <2>2. n' = n /\ ran' = ran
    BY <1>6 DEF Look
  <2>3. QED
    BY <2>1, <2>2, SameCalls
<1>7. ASSUME NEW h \in Helpers, CheckIn(h) PROVE UNCHANGED PF!pfvars
  <2>1. PICK w \in Callers \cup {h} :
           /\ w \in Callers => pc[w] = "parked"
           /\ pc' = [t \in Threads |-> IF t = h THEN "look"
                                       ELSE IF t = w THEN "wait" ELSE pc[t]]
    BY <1>7, CheckInCases
  <2>2. pc[h] = "done" /\ n' = n /\ ran' = ran
    BY <1>7 DEF CheckIn
  <2>3. QED
    BY <2>1, <2>2, SameCalls
<1>8. CASE UNCHANGED vars
  BY <1>8, SameCalls DEF vars
<1>9. QED
  BY <1>1, <1>2, <1>3, <1>4, <1>5, <1>6, <1>7, <1>8 DEF Next, CallerStep, HelperStep

\* While callers take turns, sd_pool_run is a parallel-for: every piece of a
\* job is done exactly once, all of them before the call returns, whichever
\* helpers exist and however they are scheduled.
THEOREM Refinement == ASSUME Turns PROVE Spec => DecoderImplementsParallelFor
<1>1. Init => PF!PFInit
  BY DEF Init, PF!PFInit, NoRun, PF!NoRun, Pieces, PF!Chunks, Threads, Turns, PoolAssumption
<1>2. IInv /\ [Next]_vars => [PF!PFNext]_PF!pfvars
  BY RefinementStep
<1>3. QED
  BY <1>1, <1>2, Invariance, PTL DEF Spec, DecoderImplementsParallelFor, PF!PFSpec
=============================================================================
