------------------------- MODULE Sequential_proofs -------------------------
(***************************************************************************)
(* Proofs about the embedding cache, about voice files and about the       *)
(* kernels, parts that run between, and within, the steps of one thread.   *)
(*                                                                         *)
(* The embedding cache.  For every table size, hash and clock width, also  *)
(* when the clock wraps, a lookup returns the embedding it was asked for,  *)
(* and no token is in two slots.  The invariant is IInv.  Reachable is     *)
(* what makes OneSlot inductive: were the token that is inserted at the    *)
(* first empty slot of its probe already further on, that slot would not   *)
(* be empty.  Until the clock wraps the cache implements LruCache: Stamped *)
(* says that the stamps order the taken slots, and each lookup moves one   *)
(* slot to the end of that order.                                          *)
(*                                                                         *)
(* Voice files.  For every set of models, every word size and all files,   *)
(* VoiceInvariant: a context knows where its voice is from, and its        *)
(* weights and the copies derived of them are what that says.              *)
(*                                                                         *)
(* The kernels.  For every number of rows, columns and threads, and every  *)
(* size of vectors, blocks and panels: Lists says that a sequence has the  *)
(* members of a set, each once.  A loop of a kernel leaves stairs, turns   *)
(* that begin where the turn before has ended (Stairs, LoopsAre); what its *)
(* turns compute is put together by FlattenSeq, and lists the union of     *)
(* what they list when their parts are apart (FlatGrows, BoxRows,          *)
(* BoxColumns).  Sums are known by their terms (SumUnique), so that a      *)
(* shift of the terms moves the sum by as much (SumLinear).                *)
(***************************************************************************)
EXTENDS Sequential, FiniteSetTheorems, SequenceTheorems, TLAPS

\* Every slot is on the probe of every token, at one place.
LEMMA ProbeCovers ==
    ASSUME NEW t \in Token, NEW s \in Slot
    PROVE  \E i \in Slot : SlotAt(t, i) = s
<1> USE EmbCacheAssumption DEF Slot, SlotAt
<1>h. Home[t] \in 0 .. Cap - 1
  OBVIOUS
<1>1. CASE s >= Home[t]
  <2>1. s - Home[t] \in Slot /\ SlotAt(t, s - Home[t]) = s
    BY <1>h, <1>1
  <2> QED BY <2>1
<1>2. CASE s < Home[t]
  <2>1. s - Home[t] + Cap \in Slot /\ SlotAt(t, s - Home[t] + Cap) = s
    BY <1>h, <1>2
  <2> QED BY <2>1
<1> QED BY <1>h, <1>1, <1>2

\* A probe is a slot, and different probes are different slots.
LEMMA ProbeInjective ==
    ASSUME NEW t \in Token, NEW i \in Slot, NEW j \in Slot
    PROVE  /\ SlotAt(t, i) \in Slot
           /\ SlotAt(t, i) = SlotAt(t, j) => i = j
<1>1. Home[t] \in 0 .. Cap - 1
  BY EmbCacheAssumption
<1> QED BY <1>1, EmbCacheAssumption DEF Slot, SlotAt

\* The probes before the one that stops found other keys.
LEMMA Skipped ==
    ASSUME NEW t \in Token, NEW i \in Slot, IsFirst(i, Stops(t)), NEW j \in Slot, j < i
    PROVE  keys[SlotAt(t, j)] \notin {t, None}
<1> SUFFICES ASSUME keys[SlotAt(t, j)] \in {t, None} PROVE FALSE
  OBVIOUS
<1>1. j \in Stops(t)
  BY DEF Stops
<1>2. i <= j
  BY <1>1 DEF IsFirst
<1> QED BY <1>2 DEF Slot

\* A probe that stops at an empty slot, and one that never stops, have shown
\* that the token is nowhere in the table.
LEMMA AbsentAtGap ==
    ASSUME IInv, NEW t \in Token, t # None,
           NEW i \in Slot, IsFirst(i, Stops(t)), keys[SlotAt(t, i)] = None
    PROVE  \A r \in Slot : keys[r] # t
<1> SUFFICES ASSUME NEW r \in Slot, keys[r] = t PROVE FALSE
  OBVIOUS
<1>1. PICK k \in Slot : SlotAt(t, k) = r
  BY ProbeCovers
<1>2. CASE k < i
  BY <1>1, <1>2, Skipped
<1>3. CASE k >= i
  <2>1. i \in 0 .. k
    BY <1>3 DEF Slot
  <2>2. keys[SlotAt(t, i)] # None
    BY <2>1, <1>1 DEF IInv, Reachable
  <2> QED BY <2>2
<1> QED BY <1>2, <1>3 DEF Slot

LEMMA AbsentWhenFull ==
    ASSUME NEW t \in Token, Stops(t) = {}
    PROVE  \A r \in Slot : keys[r] \notin {t, None}
<1>1. \A j \in Slot : keys[SlotAt(t, j)] \notin {t, None}
  BY DEF Stops
<1> QED BY <1>1, ProbeCovers

\* Filling a slot with a token that is in no slot keeps the invariant, when
\* no empty slot comes before it on the token's probe.
LEMMA FillKeeps ==
    ASSUME IInv,
           NEW t \in Token \ Special, NEW s \in Slot, Fill(s, t),
           out' = asked',
           \A r \in Slot : keys[r] # t,
           \A i, j \in Slot : SlotAt(t, i) = s /\ j < i => keys[SlotAt(t, j)] # None
    PROVE  IInv'
<1> USE EmbCacheAssumption
<1>t. t # None
  OBVIOUS
<1>k. /\ keys' = [keys EXCEPT ![s] = t] /\ keys \in [Slot -> (Token \ Special) \cup {None}]
      /\ values' = [values EXCEPT ![s] = t] /\ values \in [Slot -> Token \cup {None}]
  BY DEF IInv, Fill
<1>1. /\ keys' \in [Slot -> (Token \ Special) \cup {None}]
      /\ values' \in [Slot -> Token \cup {None}]
  BY <1>k
<1>2. Reachable'
  <2> SUFFICES ASSUME NEW u \in Token, NEW i \in Slot, keys'[SlotAt(u, i)] = u,
                      NEW j \in 0 .. i
               PROVE  keys'[SlotAt(u, j)] # None
    BY DEF Reachable
  <2>0. j \in Slot /\ i \in Slot
    BY DEF Slot
  <2>1. SlotAt(u, i) \in Slot /\ SlotAt(u, j) \in Slot
    BY <2>0, ProbeInjective
  <2>2. CASE SlotAt(u, j) = s
    BY <2>2, <1>k, <1>t
  <2>3. CASE SlotAt(u, j) # s /\ SlotAt(u, i) = s
    <3>1. u = t
      BY <2>3, <2>1, <1>k
    <3>2. j # i
      BY <2>3
    <3>3. j < i
      BY <3>2 DEF Slot
    <3>4. keys[SlotAt(u, j)] # None
      BY <3>1, <3>3, <2>3, <2>0
    <3> QED BY <3>4, <2>3, <2>1, <1>k
  <2>4. CASE SlotAt(u, j) # s /\ SlotAt(u, i) # s
    <3>1. keys[SlotAt(u, i)] = u
      BY <2>4, <2>1, <1>k
    <3>2. keys[SlotAt(u, j)] # None
      BY <3>1 DEF IInv, Reachable
    <3> QED BY <3>2, <2>4, <2>1, <1>k
  <2> QED BY <2>2, <2>3, <2>4
<1>3. OneSlot'
  BY <1>k DEF IInv, OneSlot
<1>4. Filled'
  BY <1>k DEF IInv, Filled
<1>5. Right'
  BY DEF Right
<1> QED BY <1>1, <1>2, <1>3, <1>4, <1>5 DEF IInv

\* The invariant holds at first ...
LEMMA InitInvariant == Init => IInv
  BY EmbCacheAssumption, ProbeInjective
     DEF Init, IInv, Reachable, OneSlot, Filled, Right

\* ... and every lookup keeps it.
LEMMA NextInvariant == IInv /\ [Next]_vars => IInv'
<1> USE EmbCacheAssumption
<1> SUFFICES ASSUME IInv, [Next]_vars PROVE IInv'
  OBVIOUS
<1>0. CASE UNCHANGED vars
  BY <1>0 DEF vars, cacheVars, IInv, Reachable, OneSlot, Filled, Right, SlotAt
<1>1. CASE Next
  <2>1. PICK t \in Token : Get(t)
    BY <1>1 DEF Next
  <2>2. CASE Precomputed(t)
    BY <2>2 DEF Precomputed, Answer, cacheVars, IInv, Reachable, OneSlot, Filled,
                Right, SlotAt
  <2>3. CASE Hit(t)
    <3>1. PICK i \in Slot : /\ keys[SlotAt(t, i)] = t
                            /\ Touch(SlotAt(t, i))
                            /\ Answer(t, values[SlotAt(t, i)])
      BY <2>3 DEF Hit
    <3>2. SlotAt(t, i) \in Slot
      BY ProbeInjective
    <3>3. out' = asked'
      BY <3>1, <3>2 DEF Answer, IInv, Filled
    <3>4. keys' = keys /\ values' = values
      BY <2>3 DEF Hit
    <3> QED BY <3>3, <3>4 DEF IInv, Reachable, OneSlot, Filled, Right, SlotAt
  <2>4. CASE Insert(t)
    <3>1. PICK i \in Slot : /\ IsFirst(i, Stops(t)) /\ keys[SlotAt(t, i)] = None
                            /\ Fill(SlotAt(t, i), t)
      BY <2>4 DEF Insert
    <3>2. t \in Token \ Special /\ t # None /\ SlotAt(t, i) \in Slot
      BY <2>4, ProbeInjective DEF Insert
    <3>3. out' = asked'
      BY <2>4 DEF Insert, Answer
    <3>4. \A j \in Slot : j < i => keys[SlotAt(t, j)] \notin {t, None}
      BY <3>1, Skipped
    <3>5. \A r \in Slot : keys[r] # t
      BY <3>1, <3>2, AbsentAtGap
    <3>6. \A k, j \in Slot : SlotAt(t, k) = SlotAt(t, i) /\ j < k
                                 => keys[SlotAt(t, j)] # None
      BY <3>4, ProbeInjective
    <3> QED BY <3>1, <3>2, <3>3, <3>5, <3>6, FillKeeps
  <2>5. CASE Evict(t)
    <3>1. PICK s \in Slot : Fill(s, t)
      BY <2>5 DEF Evict
    <3>2. t \in Token \ Special /\ out' = asked'
      BY <2>5 DEF Evict, Answer
    <3>3. \A j \in Slot : keys[SlotAt(t, j)] \notin {t, None}
      BY <2>5 DEF Evict, Stops
    <3>4. \A r \in Slot : keys[r] # t
      BY <2>5, AbsentWhenFull DEF Evict
    <3> QED BY <3>1, <3>2, <3>3, <3>4, FillKeeps
  <2> QED BY <2>1, <2>2, <2>3, <2>4, <2>5 DEF Get
<1> QED BY <1>0, <1>1 DEF Next

\* The inductive invariant of the embedding cache: probing finds what is in
\* the table, and what is there belongs to its key.
THEOREM Invariance == Spec => []IInv
  BY InitInvariant, NextInvariant, PTL DEF Spec

\* A lookup returns the embedding of the token it was asked for.
THEOREM LookupIsRight == Spec => []Right
<1>1. IInv => Right
  BY DEF IInv
<1> QED BY <1>1, Invariance, PTL

\* No token is in two slots of the table.
THEOREM NoDuplicates == Spec => []OneSlot
<1>1. IInv => OneSlot
  BY DEF IInv
<1> QED BY <1>1, Invariance, PTL
-----------------------------------------------------------------------------
(* The order of use.                                                        *)

\* The slot at i of a list in the order of stamps has rank i, so that the order
\* of use is that list.
LEMMA RankIs ==
    ASSUME NEW S \in SUBSET Slot, NEW stamp, \A s \in S : stamp[s] \in Int,
           NEW n \in Nat, NEW q \in [1 .. n -> S], Sorts(q, S, stamp),
           NEW i \in 1 .. n
    PROVE  Rank(q[i], S, stamp) = i
<1> DEFINE UpToIt == {r \in S : \/ stamp[r] < stamp[q[i]]
                              \/ (stamp[r] = stamp[q[i]] /\ r <= q[i])}
           f == [k \in 1 .. i |-> q[k]]
<1>0. /\ \A k \in 1 .. n : q[k] \in S /\ stamp[q[k]] \in Int
      /\ \A s \in S : \E k \in 1 .. n : q[k] = s
      /\ \A j, k \in 1 .. n : j < k => stamp[q[j]] < stamp[q[k]]
  BY DEF Sorts
<1>1. ASSUME NEW k \in 1 .. n PROVE q[k] \in UpToIt <=> k <= i
  <2>1. CASE k < i
    BY <2>1, <1>0
  <2>2. CASE i < k
    <3>1. stamp[q[i]] < stamp[q[k]] /\ stamp[q[i]] \in Int /\ stamp[q[k]] \in Int
      BY <2>2, <1>0
    <3>2. ~ stamp[q[k]] < stamp[q[i]] /\ stamp[q[k]] # stamp[q[i]]
      BY <3>1
    <3> QED BY <2>2, <3>2
  <2>3. CASE i = k
    <3>1. q[i] \in Slot
      BY <1>0
    <3>2. q[i] <= q[i]
      BY <3>1 DEF Slot
    <3> QED BY <2>3, <3>2, <1>0
  <2> QED BY <2>1, <2>2, <2>3
<1> HIDE DEF UpToIt
<1>2. \A r \in UpToIt : \E k \in 1 .. i : q[k] = r
  BY <1>0, <1>1 DEF UpToIt
<1>3. f \in Surjection(1 .. i, UpToIt)
  <2>1. f \in [1 .. i -> UpToIt] /\ \A k \in 1 .. i : f[k] = q[k]
    BY <1>1
  <2> HIDE DEF f
  <2>2. \A r \in UpToIt : \E k \in 1 .. i : f[k] = r
    BY <1>2, <2>1
  <2> QED BY <2>1, <2>2 DEF Surjection
<1>4. f \in Injection(1 .. i, UpToIt)
  <2>1. f \in [1 .. i -> UpToIt] /\ \A k \in 1 .. i : f[k] = q[k]
    BY <1>1
  <2>2. \A j, k \in 1 .. i : q[j] = q[k] => j = k
    <3> SUFFICES ASSUME NEW j \in 1 .. i, NEW k \in 1 .. i, j < k PROVE q[j] # q[k]
      OBVIOUS
    <3>1. stamp[q[j]] < stamp[q[k]] /\ stamp[q[j]] \in Int
      BY <1>0
    <3> QED BY <3>1
  <2> HIDE DEF f
  <2>3. \A j, k \in 1 .. i : f[j] = f[k] => j = k
    BY <2>1, <2>2
  <2>4. IsInjective(f)
    BY <2>1, <2>3 DEF IsInjective
  <2> QED BY <2>1, <2>4 DEF Injection
<1> HIDE DEF f
<1>5. ExistsBijection(1 .. i, UpToIt)
  BY <1>3, <1>4 DEF ExistsBijection, Bijection
<1>6. IsFiniteSet(1 .. i) /\ Cardinality(1 .. i) = i
  BY FS_Interval
<1>7. Cardinality(UpToIt) = i
  BY <1>5, <1>6, FS_Bijection
<1> QED BY <1>7 DEF Rank, UpToIt

\* The order of use is the one list of the taken slots in the order of their
\* stamps.
LEMMA InOrderIs ==
    ASSUME NEW S \in SUBSET Slot, NEW stamp, \A s \in S : stamp[s] \in Int,
           NEW n \in Nat, NEW q \in [1 .. n -> S], Sorts(q, S, stamp)
    PROVE  InOrder(S, stamp) = q
<1>0. /\ \A k \in 1 .. n : q[k] \in S
      /\ \A s \in S : \E k \in 1 .. n : q[k] = s
  BY DEF Sorts
<1>1. \A k \in 1 .. n : Rank(q[k], S, stamp) = k
  BY RankIs
<1>2. Cardinality(S) = n
  <2>1. CASE n = 0
    <3>1. S = {}
      BY <2>1, <1>0
    <3> QED BY <3>1, <2>1, FS_EmptySet
  <2>2. CASE n > 0
    <3>1. n \in 1 .. n /\ Rank(q[n], S, stamp) = n
      BY <2>2, <1>1
    <3>2. {r \in S : stamp[r] < stamp[q[n]] \/ (stamp[r] = stamp[q[n]] /\ r <= q[n])} = S
      <4> SUFFICES ASSUME NEW r \in S
                   PROVE  stamp[r] < stamp[q[n]] \/ (stamp[r] = stamp[q[n]] /\ r <= q[n])
        OBVIOUS
      <4>1. PICK k \in 1 .. n : q[k] = r
        BY <1>0
      <4>2. CASE k = n
        <5>1. q[n] \in Slot
          BY <3>1, <1>0
        <5>2. q[n] <= q[n]
          BY <5>1 DEF Slot
        <5> QED BY <5>2, <4>1, <4>2
      <4>3. CASE k < n
        BY <4>1, <4>3, <3>1 DEF Sorts
      <4> QED BY <4>2, <4>3
    <3> QED BY <3>1, <3>2 DEF Rank
  <2> QED BY <2>1, <2>2
<1>3. ASSUME NEW i \in 1 .. n PROVE (CHOOSE s \in S : Rank(s, S, stamp) = i) = q[i]
  <2> DEFINE chosen == CHOOSE s \in S : Rank(s, S, stamp) = i
  <2>1. chosen \in S /\ Rank(chosen, S, stamp) = i
    BY <1>0, <1>1, <1>3
  <2> HIDE DEF chosen
  <2>2. PICK j \in 1 .. n : q[j] = chosen
    BY <2>1, <1>0
  <2>3. j = i
    BY <2>1, <2>2, <1>1
  <2> QED BY <2>2, <2>3 DEF chosen
<1>4. InOrder(S, stamp) = [i \in 1 .. n |-> CHOOSE s \in S : Rank(s, S, stamp) = i]
  BY <1>2 DEF InOrder
<1> QED BY <1>3, <1>4

\* A list of slots, each before the next, is no longer than the table, and
\* as long only when it has every slot.
LEMMA ListFits ==
    ASSUME NEW S \in SUBSET Slot, NEW stamp, \A s \in S : stamp[s] \in Int,
           NEW n \in Nat, NEW q \in [1 .. n -> S], Sorts(q, S, stamp)
    PROVE  n <= Cap /\ (n = Cap <=> S = Slot)
<1>1. \A i, j \in 1 .. n : q[i] = q[j] => i = j
  <2> SUFFICES ASSUME NEW i \in 1 .. n, NEW j \in 1 .. n, q[i] = q[j], i < j PROVE FALSE
    OBVIOUS
  <2>1. stamp[q[i]] < stamp[q[j]] /\ stamp[q[i]] \in Int
    BY DEF Sorts
  <2> QED BY <2>1
<1>2. q \in [1 .. n -> Slot]
  OBVIOUS
<1>3. q \in Injection(1 .. n, Slot)
  BY <1>1, <1>2 DEF Injection, IsInjective
<1>4. /\ IsFiniteSet(Slot) /\ Cardinality(Slot) = Cap
      /\ Cardinality(1 .. n) = n
  BY FS_Interval, EmbCacheAssumption DEF Slot
<1>5. n <= Cap /\ (n = Cap <=> q \in Surjection(1 .. n, Slot))
  BY <1>3, <1>4, FS_Injection
<1>6. q \in Surjection(1 .. n, Slot) <=> \A s \in Slot : \E i \in 1 .. n : q[i] = s
  BY <1>2 DEF Surjection
<1>7. (\A s \in Slot : \E i \in 1 .. n : q[i] = s) <=> S = Slot
  BY DEF Sorts
<1> QED BY <1>5, <1>6, <1>7

\* Element p of q at the end, as x.
Moved(q, n, p, x) ==
    [i \in 1 .. n |-> IF i < p THEN q[i] ELSE IF i < n THEN q[i + 1] ELSE x]

\* A slot that gets a stamp ahead of all others moves to the end of the order.
LEMMA MovedSorts ==
    ASSUME NEW S, NEW stamp \in [Slot -> Nat], S \subseteq Slot,
           NEW n \in Nat, NEW q \in [1 .. n -> S], Sorts(q, S, stamp),
           NEW p \in 1 .. n, NEW now \in Nat, \A s \in S : stamp[s] < now
    PROVE  /\ Moved(q, n, p, q[p]) \in [1 .. n -> S]
           /\ Sorts(Moved(q, n, p, q[p]), S, [stamp EXCEPT ![q[p]] = now])
<1> DEFINE r == Moved(q, n, p, q[p])
           after == [stamp EXCEPT ![q[p]] = now]
<1>0. /\ \A i \in 1 .. n : q[i] \in S /\ stamp[q[i]] \in Nat /\ stamp[q[i]] < now
      /\ \A s \in S : \E i \in 1 .. n : q[i] = s
      /\ \A i, j \in 1 .. n : i < j => stamp[q[i]] < stamp[q[j]]
  BY DEF Sorts
<1>1. \A i \in 1 .. n : r[i] = IF i < p THEN q[i] ELSE IF i < n THEN q[i + 1] ELSE q[p]
  BY DEF Moved
<1>2. r \in [1 .. n -> S]
  BY <1>0 DEF Moved
<1>3. \A i \in 1 .. n : after[q[i]] = IF i = p THEN now ELSE stamp[q[i]]
  <2> SUFFICES ASSUME NEW i \in 1 .. n, i # p PROVE q[i] # q[p]
    BY <1>0
  <2>1. i < p \/ p < i
    OBVIOUS
  <2>2. stamp[q[i]] < stamp[q[p]] \/ stamp[q[p]] < stamp[q[i]]
    BY <2>1, <1>0
  <2> QED BY <2>2, <1>0
<1> HIDE DEF r, after
<1>4. ASSUME NEW s \in S PROVE \E i \in 1 .. n : r[i] = s
  <2>1. PICK i \in 1 .. n : q[i] = s
    BY <1>0
  <2>2. CASE i < p
    BY <2>1, <2>2, <1>1
  <2>3. CASE i = p
    <3>1. n \in 1 .. n /\ r[n] = q[p]
      BY <1>1
    <3> QED BY <3>1, <2>1, <2>3
  <2>4. CASE p < i
    <3>1. i - 1 \in 1 .. n /\ ~ i - 1 < p /\ i - 1 < n /\ i - 1 + 1 = i
      BY <2>4
    <3>2. r[i - 1] = q[i]
      BY <3>1, <1>1
    <3> QED BY <3>1, <3>2, <2>1
  <2> QED BY <2>2, <2>3, <2>4
<1>5. ASSUME NEW i \in 1 .. n, NEW j \in 1 .. n, i < j
      PROVE  after[r[i]] < after[r[j]]
  <2> DEFINE a == IF i < p THEN i ELSE i + 1
             b == IF j < p THEN j ELSE j + 1
  <2>1. a \in 1 .. n /\ r[i] = q[a] /\ a # p
    BY <1>5, <1>1
  <2>2. CASE j < n \/ j < p
    <3>1. b \in 1 .. n /\ r[j] = q[b] /\ b # p /\ a < b
      BY <2>2, <1>5, <1>1
    <3>2. after[q[a]] = stamp[q[a]] /\ after[q[b]] = stamp[q[b]] /\ stamp[q[a]] < stamp[q[b]]
      BY <3>1, <2>1, <1>3, <1>0
    <3> QED BY <3>1, <3>2, <2>1
  <2>3. CASE ~(j < n \/ j < p)
    <3>1. r[j] = q[p] /\ after[q[p]] = now
      BY <2>3, <1>1, <1>3
    <3>2. after[q[a]] = stamp[q[a]] /\ stamp[q[a]] < now
      BY <2>1, <1>3, <1>0
    <3> QED BY <3>1, <3>2, <2>1
  <2> QED BY <2>2, <2>3
<1>6. DOMAIN r = 1 .. n
  BY <1>2
<1>7. Sorts(r, S, after)
  BY <1>4, <1>5, <1>6 DEF Sorts
<1> QED BY <1>2, <1>7 DEF r, after

\* What the abstract cache does to its list on a hit.
LEMMA MovedIs ==
    ASSUME NEW S, NEW n \in Nat, NEW q \in [1 .. n -> S], NEW p \in 1 .. n, NEW x \in S
    PROVE  Append(RemoveAt(q, p), x) = Moved(q, n, p, x)
<1>1. /\ q \in Seq(S) /\ Len(q) = n
  OBVIOUS
<1> DEFINE a == SubSeq(q, 1, p - 1)
           b == SubSeq(q, p + 1, n)
<1>2. /\ a \in Seq(S) /\ Len(a) = p - 1
      /\ \A i \in 1 .. p - 1 : a[i] = q[i]
  BY SubSeqProperties
<1>3. /\ b \in Seq(S) /\ Len(b) = n - p
      /\ \A i \in 1 .. n - p : b[i] = q[p + i]
  <2>1. \A i \in p + 1 .. n : q[i] \in S
    OBVIOUS
  <2>2. /\ SubSeq(q, p + 1, n) \in Seq(S)
        /\ Len(SubSeq(q, p + 1, n)) = IF p + 1 <= n THEN n - (p + 1) + 1 ELSE 0
        /\ \A i \in 1 .. n - (p + 1) + 1 : SubSeq(q, p + 1, n)[i] = q[p + 1 + i - 1]
    BY <2>1, SubSeqProperties
  <2> QED BY <2>2
<1> HIDE DEF a, b
<1> DEFINE d == a \o b
<1>4. /\ d \in Seq(S) /\ Len(d) = Len(a) + Len(b)
      /\ \A i \in 1 .. Len(a) + Len(b) : d[i] = IF i <= Len(a) THEN a[i] ELSE b[i - Len(a)]
  BY <1>2, <1>3, ConcatProperties
<1>5. Len(d) = n - 1 /\ \A i \in 1 .. n - 1 : d[i] = IF i < p THEN q[i] ELSE q[i + 1]
  BY <1>2, <1>3, <1>4
<1>6. RemoveAt(q, p) = d
  BY <1>1 DEF RemoveAt, a, b
<1> HIDE DEF d
<1> DEFINE e == Append(d, x)
           r == Moved(q, n, p, x)
<1>7. /\ e \in Seq(S) /\ Len(e) = n
      /\ \A i \in 1 .. n - 1 : e[i] = d[i]
      /\ e[n] = x
  BY <1>4, <1>5, AppendProperties
<1>8. r \in [1 .. n -> S]
  BY DEF Moved
<1>9. r \in Seq(S) /\ Len(r) = n
  BY <1>8
<1> HIDE DEF e
<1>10. \A i \in 1 .. n : e[i] = r[i]
  BY <1>5, <1>7 DEF Moved
<1> HIDE DEF r
<1>11. e = r
  BY <1>7, <1>9, <1>10, SeqEqual
<1> QED BY <1>6, <1>11 DEF e, r

\* The invariant Stamped holds at first ...
LEMMA InitStamped == Init => Stamped
<1> SUFFICES ASSUME Init PROVE Stamped
  OBVIOUS
<1> USE EmbCacheAssumption
<1>1. IInv
  BY InitInvariant
<1>2. Taken = {}
  BY DEF Init, Taken
<1>3. << >> \in [1 .. 0 -> Taken] /\ Sorts(<< >>, Taken, access)
  BY <1>2 DEF Sorts
<1>4. 0 \in 0 .. Cap
  OBVIOUS
<1>5. \E n \in 0 .. Cap : \E q \in [1 .. n -> Taken] : Sorts(q, Taken, access)
  BY <1>3, <1>4
<1> QED BY <1>1, <1>2, <1>5 DEF Init, Stamped

\* What the refinement sees of a state.
LEMMA Seen ==
    ASSUME Stamped
    PROVE  \E n \in 0 .. Cap : \E q \in [1 .. n -> Taken] :
              /\ Sorts(q, Taken, access)
              /\ ByStamp = q /\ DOMAIN q = 1 .. n
              /\ n = Cap <=> Taken = Slot
<1>1. PICK n \in 0 .. Cap : \E q \in [1 .. n -> Taken] : Sorts(q, Taken, access)
  BY DEF Stamped
<1>2. PICK q \in [1 .. n -> Taken] : Sorts(q, Taken, access)
  BY <1>1
<1>3. Taken \in SUBSET Slot /\ \A s \in Taken : access[s] \in Int
  BY DEF Stamped, Taken
<1>4. ByStamp = q
  BY <1>2, <1>3, InOrderIs DEF ByStamp
<1>5. n = Cap <=> Taken = Slot
  BY <1>2, <1>3, ListFits
<1> QED BY <1>2, <1>4, <1>5

\* A lookup that stamps slot s.
LEMMA Stamps ==
    ASSUME MaxGets < ClockMod, Stamped, IInv', NEW s \in Slot, Touch(s),
           gets < MaxGets, gets' = gets + 1, Taken' = Taken \cup {s}
    PROVE  /\ access' = [access EXCEPT ![s] = clock + 1]
           /\ \A n \in 0 .. Cap : \A q \in [1 .. n -> Taken'] :
                 Sorts(q, Taken', access') => Stamped' /\ ByStamp' = q
<1> USE EmbCacheAssumption
<1>1. /\ access \in [Slot -> Nat] /\ clock \in Nat /\ gets \in Nat /\ clock <= gets
      /\ \A r \in Taken : access[r] <= clock
      /\ Taken \subseteq Slot /\ Taken' \subseteq Slot
  BY DEF Stamped, Taken
<1>2. (clock + 1) % ClockMod = clock + 1
  BY <1>1
<1>3. clock' = clock + 1 /\ access' = [access EXCEPT ![s] = clock + 1]
  BY <1>2 DEF Touch
<1>4. access' \in [Slot -> Nat]
  BY <1>1, <1>3
<1>5. \A r \in Taken' : access'[r] <= clock'
  BY <1>1, <1>3
<1>6. ASSUME NEW n \in 0 .. Cap, NEW q \in [1 .. n -> Taken'], Sorts(q, Taken', access')
      PROVE  Stamped' /\ ByStamp' = q
  <2>1. Stamped'
    BY <1>1, <1>3, <1>4, <1>5, <1>6 DEF Stamped
  <2>2. \A r \in Taken' : access'[r] \in Int
    BY <1>1, <1>4
  <2>3. Taken' \in SUBSET Slot /\ n \in Nat
    BY <1>1
  <2>4. InOrder(Taken', access') = q
    BY <1>6, <2>2, <2>3, InOrderIs
  <2> QED BY <2>1, <2>4 DEF ByStamp
<1> QED BY <1>3, <1>6

\* A lookup that stamps the taken slot at p of the order of use.
LEMMA Moves ==
    ASSUME MaxGets < ClockMod, Stamped, IInv', NEW s \in Slot, Touch(s),
           gets < MaxGets, gets' = gets + 1, Taken' = Taken,
           NEW n \in 0 .. Cap, NEW q \in [1 .. n -> Taken], Sorts(q, Taken, access),
           NEW p \in 1 .. n, q[p] = s
    PROVE  Stamped' /\ ByStamp' = Moved(q, n, p, s)
<1>1. Taken \subseteq Slot /\ s \in Taken /\ Taken' = Taken \cup {s}
  BY DEF Taken
<1>2. /\ access' = [access EXCEPT ![s] = clock + 1]
      /\ \A k \in 0 .. Cap : \A r \in [1 .. k -> Taken'] :
            Sorts(r, Taken', access') => Stamped' /\ ByStamp' = r
  BY <1>1, Stamps
<1>3. /\ access \in [Slot -> Nat] /\ clock + 1 \in Nat
      /\ \A r \in Taken : access[r] < clock + 1
  BY <1>1 DEF Stamped
<1>4. /\ Moved(q, n, p, q[p]) \in [1 .. n -> Taken]
      /\ Sorts(Moved(q, n, p, q[p]), Taken, [access EXCEPT ![q[p]] = clock + 1])
  <2>1. n \in Nat
    BY EmbCacheAssumption
  <2> QED BY <2>1, <1>1, <1>3, MovedSorts
<1> QED BY <1>2, <1>4

\* A hit is a hit of the abstract cache, ...
LEMMA HitStep ==
    ASSUME MaxGets < ClockMod, Stamped, IInv', NEW t \in Token, Hit(t), gets < MaxGets
    PROVE  Stamped' /\ \E u \in Token \ Special : Lru!Hit(u)
<1>1. PICK i \in Slot : /\ keys[SlotAt(t, i)] = t
                        /\ Touch(SlotAt(t, i))
                        /\ gets' = gets + 1
  BY DEF Hit, Answer
<1> DEFINE s == SlotAt(t, i)
<1>2. s \in Slot /\ t \in Token \ Special /\ t # None /\ keys' = keys
  BY ProbeInjective, EmbCacheAssumption DEF Hit
<1>3. s \in Taken /\ Taken' = Taken
  BY <1>1, <1>2 DEF Taken
<1> HIDE DEF s
<1>4. PICK n \in 0 .. Cap : \E q \in [1 .. n -> Taken] :
        Sorts(q, Taken, access) /\ ByStamp = q /\ DOMAIN q = 1 .. n
  BY Seen
<1>5. PICK q \in [1 .. n -> Taken] : Sorts(q, Taken, access) /\ ByStamp = q
  BY <1>4
<1>6. PICK p \in 1 .. n : q[p] = s
  BY <1>3, <1>5 DEF Sorts
<1>7. Stamped' /\ ByStamp' = Moved(q, n, p, s)
  BY <1>1, <1>2, <1>3, <1>5, <1>6, Moves DEF s
<1>8. /\ Recent = [k \in 1 .. n |-> keys[q[k]]]
      /\ Recent' = [k \in 1 .. n |-> keys[Moved(q, n, p, s)[k]]]
  BY <1>2, <1>5, <1>7 DEF Recent, Moved
<1>9. Recent \in [1 .. n -> Token \ Special]
  BY <1>8 DEF Taken, Stamped, IInv
<1>10. Recent[p] = t
  BY <1>8, <1>6, <1>1 DEF s
<1>11. Recent' = Moved(Recent, n, p, t)
  BY <1>8, <1>6, <1>1 DEF Moved, s
<1>12. Append(RemoveAt(Recent, p), t) = Moved(Recent, n, p, t)
  <2>1. n \in Nat
    BY EmbCacheAssumption
  <2>2. t \in Token \ Special
    BY <1>2
  <2>3. \A S : \A r \in [1 .. n -> S] : \A x \in S :
           Append(RemoveAt(r, p), x) = Moved(r, n, p, x)
    BY <2>1, MovedIs
  <2> QED BY <2>2, <2>3, <1>9
<1>13. Lru!Hit(t)
  <2>1. p \in DOMAIN Recent
    BY <1>8
  <2> QED BY <2>1, <1>10, <1>11, <1>12 DEF Lru!Hit, Lru!RemoveAt, RemoveAt
<1> QED BY <1>2, <1>7, <1>13

\* ... a token put in an empty slot a miss of one that is not full, ...
LEMMA InsertStep ==
    ASSUME MaxGets < ClockMod, Stamped, IInv', NEW t \in Token, Insert(t), gets < MaxGets
    PROVE  Stamped' /\ \E u \in Token \ Special : Lru!Miss(u)
<1>1. PICK i \in Slot : /\ IsFirst(i, Stops(t)) /\ keys[SlotAt(t, i)] = None
                        /\ Fill(SlotAt(t, i), t)
                        /\ gets' = gets + 1
  BY DEF Insert, Answer
<1> DEFINE s == SlotAt(t, i)
<1>2. s \in Slot /\ t \in Token \ Special /\ t # None
  BY ProbeInjective, EmbCacheAssumption DEF Insert
<1>3. /\ keys[s] = None /\ Touch(s) /\ keys' = [keys EXCEPT ![s] = t]
      /\ keys \in [Slot -> (Token \ Special) \cup {None}]
  BY <1>1 DEF Fill, Stamped, IInv
<1> HIDE DEF s
<1>4. /\ s \notin Taken /\ Taken' = Taken \cup {s} /\ Taken \subseteq Slot
      /\ \A r \in Taken : keys'[r] = keys[r] /\ keys[r] \in Token \ Special
      /\ keys'[s] = t
  BY <1>2, <1>3 DEF Taken
<1>5. PICK n \in 0 .. Cap : \E q \in [1 .. n -> Taken] :
        Sorts(q, Taken, access) /\ ByStamp = q /\ (n = Cap <=> Taken = Slot)
  BY Seen
<1>6. PICK q \in [1 .. n -> Taken] : Sorts(q, Taken, access) /\ ByStamp = q
  BY <1>5
<1>7. n \in Nat /\ n < Cap /\ n + 1 \in 0 .. Cap
  BY <1>2, <1>4, <1>5, EmbCacheAssumption
<1>8. /\ access' = [access EXCEPT ![s] = clock + 1]
      /\ \A k \in 0 .. Cap : \A r \in [1 .. k -> Taken'] :
            Sorts(r, Taken', access') => Stamped' /\ ByStamp' = r
  BY <1>1, <1>2, <1>3, <1>4, Stamps
<1>9. /\ access \in [Slot -> Nat] /\ clock \in Nat
      /\ \A r \in Taken : access[r] <= clock
  BY DEF Stamped
<1> DEFINE r == [k \in 1 .. n + 1 |-> IF k <= n THEN q[k] ELSE s]
<1>10. r \in [1 .. n + 1 -> Taken']
  BY <1>4, <1>7
<1>11. Sorts(r, Taken', access')
  <2>1. /\ \A k \in 1 .. n : q[k] \in Taken
        /\ \A u \in Taken : \E k \in 1 .. n : q[k] = u
        /\ \A j, k \in 1 .. n : j < k => access[q[j]] < access[q[k]]
    BY <1>6 DEF Sorts
  <2>2. \A k \in 1 .. n : r[k] = q[k] /\ access'[r[k]] = access[q[k]] /\ access'[r[k]] <= clock
    BY <2>1, <1>4, <1>7, <1>8, <1>9
  <2>3. r[n + 1] = s /\ access'[r[n + 1]] = clock + 1 /\ DOMAIN r = 1 .. n + 1
    BY <1>2, <1>7, <1>8, <1>9
  <2> HIDE DEF r
  <2>4. \A u \in Taken' : \E k \in 1 .. n + 1 : r[k] = u
    BY <2>1, <2>2, <2>3, <1>4, <1>7
  <2>5. ASSUME NEW j \in 1 .. n + 1, NEW k \in 1 .. n + 1, j < k
        PROVE  access'[r[j]] < access'[r[k]]
    <3>1. j \in 1 .. n
      BY <2>5, <1>7
    <3>2. CASE k \in 1 .. n
      BY <3>1, <3>2, <2>1, <2>2, <2>5
    <3>3. CASE k = n + 1
      <4>1. access'[r[j]] <= clock /\ access'[r[j]] \in Nat
        BY <3>1, <2>1, <2>2, <1>4, <1>9
      <4> QED BY <4>1, <3>3, <2>3, <1>9
    <3> QED BY <3>2, <3>3, <1>7
  <2> QED BY <2>3, <2>4, <2>5 DEF Sorts
<1>12. Stamped' /\ ByStamp' = r
  BY <1>7, <1>8, <1>10, <1>11
<1>13. /\ Recent = [k \in 1 .. n |-> keys[q[k]]]
       /\ Recent' = [k \in 1 .. n + 1 |-> keys'[r[k]]]
  BY <1>6, <1>7, <1>10, <1>12 DEF Recent
<1>14. /\ Recent \in [1 .. n -> Token \ Special]
       /\ Recent' \in [1 .. n + 1 -> Token \ Special]
  BY <1>2, <1>4, <1>6, <1>7, <1>13
<1>15. /\ \A k \in 1 .. n : Recent'[k] = Recent[k]
       /\ Recent'[n + 1] = t
  <2>1. n + 1 \in 1 .. n + 1 /\ r[n + 1] = s
    BY <1>7
  <2>2. Recent'[n + 1] = t
    BY <2>1, <1>4, <1>13
  <2>3. ASSUME NEW k \in 1 .. n PROVE Recent'[k] = Recent[k]
    <3>1. q[k] \in Taken /\ k \in 1 .. n + 1 /\ r[k] = q[k]
      BY <1>6, <1>7
    <3>2. keys'[q[k]] = keys[q[k]]
      BY <3>1, <1>4
    <3> QED BY <3>1, <3>2, <1>13
  <2> QED BY <2>2, <2>3
<1>16. /\ Recent \in Seq(Token \ Special) /\ Len(Recent) = n
       /\ Recent' \in Seq(Token \ Special) /\ Len(Recent') = n + 1
  BY <1>7, <1>14
<1>17. Recent' = Append(Recent, t)
  <2> DEFINE e == Append(Recent, t)
  <2>1. /\ e \in Seq(Token \ Special) /\ Len(e) = n + 1
        /\ \A k \in 1 .. n : e[k] = Recent[k]
        /\ e[n + 1] = t
    BY <1>2, <1>16, AppendProperties
  <2> HIDE DEF e
  <2>2. \A k \in 1 .. n + 1 : Recent'[k] = e[k]
    BY <2>1, <1>7, <1>15
  <2>3. Recent' = e
    BY <2>1, <2>2, <1>16, SeqEqual
  <2> QED BY <2>3 DEF e
<1>18. \A k \in DOMAIN Recent : Recent[k] # t
  <2>1. IsFirst(i, Stops(t))
    BY <1>1
  <2>2. \A u \in Slot : keys[u] # t
    BY <2>1, <1>1, <1>2, AbsentAtGap DEF Stamped
  <2> QED BY <2>2, <1>4, <1>6, <1>13
<1>19. Lru!Miss(t)
  BY <1>7, <1>16, <1>17, <1>18 DEF Lru!Miss, Lru!Has, Lru!ToSet
<1> QED BY <1>2, <1>12, <1>19

\* ... and one that replaces the victim a miss of a full one: the victim is
\* the least recently used.
LEMMA EvictStep ==
    ASSUME MaxGets < ClockMod, Stamped, IInv', NEW t \in Token, Evict(t), gets < MaxGets
    PROVE  Stamped' /\ \E u \in Token \ Special : Lru!Miss(u)
<1>1. PICK s \in Slot : IsVictim(s) /\ Fill(s, t)
  BY DEF Evict
<1>2. /\ t \in Token \ Special /\ t # None /\ gets' = gets + 1 /\ Touch(s)
      /\ keys' = [keys EXCEPT ![s] = t] /\ keys \in [Slot -> (Token \ Special) \cup {None}]
  BY <1>1, EmbCacheAssumption DEF Evict, Answer, Fill, Stamped, IInv
<1>3. \A r \in Slot : keys[r] \notin {t, None}
  BY AbsentWhenFull DEF Evict
<1>4. /\ Taken = Slot /\ Taken' = Slot /\ keys'[s] = t
      /\ \A r \in Slot : r # s => keys'[r] = keys[r]
      /\ \A r \in Slot : keys[r] \in Token \ Special
  BY <1>1, <1>2, <1>3 DEF Taken
<1>5. PICK n \in 0 .. Cap : \E q \in [1 .. n -> Taken] :
        Sorts(q, Taken, access) /\ ByStamp = q /\ (n = Cap <=> Taken = Slot)
  BY Seen
<1>6. PICK q \in [1 .. n -> Taken] : Sorts(q, Taken, access) /\ ByStamp = q
  BY <1>5
<1>7. n = Cap /\ n \in Nat /\ 1 \in 1 .. n
  BY <1>4, <1>5, EmbCacheAssumption
<1>8. /\ \A k \in 1 .. n : q[k] \in Slot /\ access[q[k]] \in Nat
      /\ \A j, k \in 1 .. n : j < k => access[q[j]] < access[q[k]]
  <2>1. DOMAIN q = 1 .. n /\ \A k \in 1 .. n : q[k] \in Slot
    BY <1>4, <1>6
  <2>2. access \in [Slot -> Nat]
    BY DEF Stamped
  <2>3. \A j, k \in 1 .. n : j < k => access[q[j]] < access[q[k]]
    BY <1>6, <2>1 DEF Sorts
  <2> QED BY <2>1, <2>2, <2>3
<1>9. q[1] = s
  <2>1. PICK k \in 1 .. n : q[k] = s
    BY <1>4, <1>6 DEF Sorts
  <2>2. access[s] <= access[q[1]]
    BY <1>1, <1>7, <1>8 DEF IsVictim, Slot, Stamped
  <2>3. ~ 1 < k
    BY <2>1, <2>2, <1>7, <1>8
  <2> QED BY <2>1, <2>3
<1>10. Stamped' /\ ByStamp' = Moved(q, n, 1, s)
  BY <1>2, <1>4, <1>6, <1>7, <1>9, Moves
<1> DEFINE r == Moved(q, n, 1, s)
<1>11. \A k \in 1 .. n : r[k] = IF k < n THEN q[k + 1] ELSE s
  BY <1>7 DEF Moved
<1>12. DOMAIN r = 1 .. n
  BY DEF Moved
<1> HIDE DEF r
<1>13. /\ Recent = [k \in 1 .. n |-> keys[q[k]]]
       /\ Recent' = [k \in 1 .. n |-> keys'[r[k]]]
  BY <1>6, <1>10, <1>12 DEF Recent, r
<1>14. Recent \in [1 .. n -> Token \ Special]
  BY <1>4, <1>6, <1>13
<1>15. \A k \in 1 .. n : keys'[r[k]] = IF k < n THEN Recent[k + 1] ELSE t
  <2> SUFFICES ASSUME NEW k \in 1 .. n PROVE keys'[r[k]] = IF k < n THEN Recent[k + 1] ELSE t
    OBVIOUS
  <2>1. CASE k < n
    <3>1. k + 1 \in 1 .. n /\ 1 < k + 1 /\ r[k] = q[k + 1]
      BY <2>1, <1>7, <1>11
    <3>2. q[k + 1] \in Slot /\ q[k + 1] # s
      BY <3>1, <1>7, <1>8, <1>9
    <3> QED BY <3>1, <3>2, <2>1, <1>4, <1>13
  <2>2. CASE ~ k < n
    BY <2>2, <1>4, <1>11
  <2> QED BY <2>1, <2>2
<1>16. Recent' = Moved(Recent, n, 1, t)
  BY <1>7, <1>13, <1>15 DEF Moved
<1>17. Append(RemoveAt(Recent, 1), t) = Moved(Recent, n, 1, t)
  <2>1. \A S : \A f \in [1 .. n -> S] : \A x \in S :
           Append(RemoveAt(f, 1), x) = Moved(f, n, 1, x)
    BY <1>7, MovedIs
  <2> QED BY <2>1, <1>2, <1>14
<1>18. RemoveAt(Recent, 1) = Tail(Recent)
  <2> DEFINE S == Token \ Special
  <2>1. Recent \in Seq(S) /\ Len(Recent) = n /\ Recent # << >>
    BY <1>7, <1>14
  <2>2. Tail(Recent) = SubSeq(Recent, 2, Len(Recent)) /\ Tail(Recent) \in Seq(S)
    BY <2>1, TailIsSubSeq, HeadTailProperties
  <2>3. SubSeq(Recent, 1, 0) = << >>
    BY SubSeqEmpty
  <2>4. << >> \o Tail(Recent) = Tail(Recent)
    BY <2>2, ConcatEmptySeq
  <2> QED BY <2>2, <2>3, <2>4 DEF RemoveAt
<1>19. \A k \in DOMAIN Recent : Recent[k] # t
  BY <1>3, <1>8, <1>13
<1>20. ~ Len(Recent) < Cap
  BY <1>7, <1>14
<1>21. Lru!Miss(t)
  BY <1>16, <1>17, <1>18, <1>19, <1>20 DEF Lru!Miss, Lru!Has, Lru!ToSet
<1> QED BY <1>2, <1>10, <1>21

\* Every lookup is a step of the abstract cache or, of a precomputed token,
\* none at all.
LEMMA LruStep ==
    ASSUME MaxGets < ClockMod, Stamped, [Next]_vars
    PROVE  Stamped' /\ [Lru!Next]_Recent
<1>1. IInv'
  BY NextInvariant DEF Stamped
<1>2. CASE UNCHANGED cacheVars /\ gets' \in gets .. MaxGets
  <2>1. UNCHANGED <<keys, access, clock>>
    BY <1>2 DEF cacheVars
  <2>2. Taken' = Taken
    BY <2>1 DEF Taken
  <2>3. Stamped'
    BY <1>1, <1>2, <2>1, <2>2 DEF Stamped
  <2>4. Recent' = Recent
    BY <2>1, <2>2 DEF Recent, ByStamp
  <2> QED BY <2>3, <2>4
<1>3. CASE UNCHANGED vars
  <2>1. UNCHANGED cacheVars /\ gets' = gets
    BY <1>3 DEF vars
  <2> QED BY <2>1, <1>2 DEF Stamped
<1>4. CASE Next
  <2>1. PICK t \in Token : gets < MaxGets /\ (Precomputed(t) \/ Hit(t) \/ Insert(t) \/ Evict(t))
    BY <1>4 DEF Next, Get
  <2>2. CASE Precomputed(t)
    <3>1. UNCHANGED cacheVars /\ gets' = gets + 1
      BY <2>2 DEF Precomputed, Answer
    <3> QED BY <3>1, <2>1, <1>2, EmbCacheAssumption DEF Stamped
  <2>3. CASE Hit(t)
    BY <2>1, <2>3, <1>1, HitStep DEF Lru!Next
  <2>4. CASE Insert(t)
    BY <2>1, <2>4, <1>1, InsertStep DEF Lru!Next
  <2>5. CASE Evict(t)
    BY <2>1, <2>5, <1>1, EvictStep DEF Lru!Next
  <2> QED BY <2>1, <2>2, <2>3, <2>4, <2>5
<1> QED BY <1>3, <1>4

\* The table of embeddings implements an LRU cache of all its slots, for every
\* size and hash, as long as the 32-bit clock has not wrapped: probing never
\* shortens it, and the entry replaced is the one used least recently.
THEOREM LruRefinement == ASSUME MaxGets < ClockMod PROVE Spec => ImplementsLru
<1>1. Init => Lru!Init
  <2> SUFFICES ASSUME Init PROVE Lru!Init
    OBVIOUS
  <2>1. PICK n \in 0 .. Cap : \E q \in [1 .. n -> Taken] : ByStamp = q /\ DOMAIN q = 1 .. n
    BY InitStamped, Seen
  <2>2. Taken = {}
    BY DEF Init, Taken
  <2>3. DOMAIN ByStamp = {}
    BY <2>1, <2>2
  <2>4. Recent = << >>
    BY <2>3 DEF Recent
  <2> QED BY <2>4 DEF Lru!Init
<1>2. Stamped /\ [Next]_vars => Stamped' /\ [Lru!Next]_Recent
  BY LruStep
<1> QED BY <1>1, <1>2, InitStamped, PTL DEF Spec, ImplementsLru, Lru!Spec
-----------------------------------------------------------------------------
(* Voice files.                                                             *)

\* Words add and subtract modulo Width: a delta taken from a word gives it
\* back.
LEMMA WordArithmetic ==
    ASSUME NEW a \in Word, NEW b \in Word
    PROVE  /\ Add(a, b) \in Word /\ Sub(a, b) \in Word
           /\ Add(b, Sub(a, b)) = a
           /\ Lerp(a, b, 0) = a /\ Lerp(a, b, 1) = b
<1>1. Width \in Nat \ {0} /\ a \in 0 .. Width - 1 /\ b \in 0 .. Width - 1
  BY VoiceFileAssumption DEF Word
<1>2. (a + b) % Width \in 0 .. Width - 1 /\ (a - b + Width) % Width \in 0 .. Width - 1
  BY <1>1
<1>3. \A d \in 0 .. Width - 1 : d = (a - b + Width) % Width => (b + d) % Width = a
  <2> SUFFICES ASSUME NEW d \in 0 .. Width - 1, d = (a - b + Width) % Width
               PROVE  (b + d) % Width = a
    OBVIOUS
  <2>1. CASE a >= b
    <3>1. (a - b + Width) % Width = a - b
      BY <1>1, <2>1
    <3>2. b + d = a
      BY <3>1, <1>1
    <3>3. a % Width = a
      BY <1>1
    <3> QED BY <3>2, <3>3
  <2>2. CASE a < b
    <3>1. (a - b + Width) % Width = a - b + Width
      BY <1>1, <2>2
    <3>2. b + d = a + Width
      BY <3>1, <1>1
    <3>3. (a + Width) % Width = a
      BY <1>1
    <3> QED BY <3>2, <3>3
  <2> QED BY <1>1, <2>1, <2>2
<1>4. a + 0 * (b - a) = a /\ a + 1 * (b - a) = b
  BY <1>1
<1>5. (b + ((a - b + Width) % Width)) % Width = a
  BY <1>2, <1>3
<1>6. Lerp(a, b, 0) = a /\ Lerp(a, b, 1) = b
  BY <1>4 DEF Lerp
<1>7. Add(b, Sub(a, b)) = a
  BY <1>5 DEF Add, Sub
<1> QED BY <1>2, <1>6, <1>7 DEF Add, Sub, Word

LEMMA OpenedIs ==
    ASSUME NEW m \in Model, NEW prec \in {"bf16", "int8", "int4"}
    PROVE  LET x == Opened(m, prec) IN
           /\ Context(x) /\ Bare(x) /\ Origin(x) /\ x.exprs = << >> /\ x.w \in [Tensor -> Word]
           /\ x.gpu = Nothing
  BY VoiceFileAssumption DEF Opened, Context, CtxField, Derived, Bare, NoFile, Origin, Copies


\* What reading a section leaves of the context: all but the voice, the
\* embeddings of the tts tokens and the projection.
Around(x, y) ==
    /\ DOMAIN y = CtxField
    /\ y.m = x.m /\ y.prec = x.prec /\ y.fused = x.fused /\ y.cpfused = x.cpfused
    /\ y.q = x.q /\ y.gpu = x.gpu /\ y.from = x.from /\ y.exprs = x.exprs
    /\ y.w \in [Tensor -> Word] /\ \A t \in Tensor \ Projected : y.w[t] = x.w[t]

\* A reader in the middle of a file whose sections are in S.
Reader(r, x, S) ==
    /\ DOMAIN r = {"x", "rest"} /\ r.rest \in Seq(S) /\ Around(x, r.x)

LEMMA AroundKeeps ==
    ASSUME NEW x, NEW y, Context(x), Around(x, y)
    PROVE  Context(y)
<1>1. y.w["gate"] = x.w["gate"] /\ y.w["attn"] = x.w["attn"] /\ y.w["cpgate"] = x.w["cpgate"]
  BY DEF Around, Tensor, Projected
<1> QED BY <1>1 DEF Around, Context, Derived, Copies

LEMMA HeaderReads ==
    ASSUME NEW x, NEW f, Context(x), x.w \in [Tensor -> Word]
    PROVE  LET y == Header(x, f) IN
           /\ Around(x, y) /\ y.w = x.w /\ y.tpad = x.tpad
           /\ y.emb = f.emb /\ y.codes = IF f.codes # Nothing THEN f.codes ELSE x.codes
  BY DEF Header, Around, Context, CtxField

LEMMA PastReads ==
    ASSUME NEW r, NEW x, NEW S, Reader(r, x, S), r.rest # << >>
    PROVE  LET p == Past(r) IN Reader(p, x, S) /\ p.x = r.x /\ p.rest = Tail(r.rest)
<1>1. Tail(r.rest) \in Seq(S)
  BY DEF Reader
<1>2. DOMAIN r = {"x", "rest"}
  BY DEF Reader
<1>3. LET p == Past(r) IN DOMAIN p = {"x", "rest"} /\ p.x = r.x /\ p.rest = Tail(r.rest)
  BY <1>2 DEF Past
<1> QED BY <1>1, <1>3 DEF Reader

LEMMA LostReads ==
    ASSUME NEW r, NEW x, NEW S, Reader(r, x, S)
    PROVE  LET p == Lost(r) IN Reader(p, x, S) /\ p.x = r.x /\ p.rest = << >>
<1>1. << >> \in Seq(S)
  OBVIOUS
<1>2. DOMAIN r = {"x", "rest"}
  BY DEF Reader
<1>3. LET p == Lost(r) IN DOMAIN p = {"x", "rest"} /\ p.x = r.x /\ p.rest = << >>
  BY <1>2 DEF Lost
<1> QED BY <1>1, <1>3 DEF Reader

LEMMA MetaReads ==
    ASSUME NEW r, NEW x, NEW S, Reader(r, x, S)
    PROVE  /\ Reader(ReadMeta(r), x, S) /\ ReadMeta(r).x = r.x
           /\ Is(r, "META") => ReadMeta(r).rest = Tail(r.rest)
  BY PastReads, LostReads DEF ReadMeta, Is

LEMMA TpadReads ==
    ASSUME NEW r, NEW x, NEW S, Reader(r, x, S)
    PROVE  LET p == ReadTpad(r) IN
           /\ Reader(p, x, S) /\ p.x.w = r.x.w
           /\ Is(r, "TPAD") /\ Head(r.rest).size = SizeOf[r.x.m] =>
                /\ p.x.tpad = TRUE /\ p.x.pads = Head(r.rest).pads
                /\ p.x.emb = r.x.emb /\ p.x.codes = r.x.codes /\ p.rest = Tail(r.rest)
<1>1. CASE Is(r, "TPAD") /\ Head(r.rest).size = SizeOf[r.x.m]
  <2> DEFINE p == Past(r)
  <2> DEFINE y == ReadTpad(r)
  <2>1. Reader(p, x, S) /\ p.x = r.x /\ p.rest = Tail(r.rest)
    BY <1>1, PastReads DEF Is
  <2>2. y = [p EXCEPT !.x.pads = Head(r.rest).pads, !.x.tpad = TRUE]
    BY <1>1 DEF ReadTpad
  <2> HIDE DEF p, y
  <2>3. DOMAIN p = {"x", "rest"} /\ DOMAIN p.x = CtxField
    BY <2>1 DEF Reader, Around
  <2>4. /\ DOMAIN y = {"x", "rest"} /\ y.rest = p.rest
        /\ y.x = [p.x EXCEPT !.pads = Head(r.rest).pads, !.tpad = TRUE]
    BY <2>2, <2>3
  <2>5. /\ DOMAIN y.x = CtxField /\ y.x.pads = Head(r.rest).pads /\ y.x.tpad = TRUE
        /\ \A g \in CtxField \ {"pads", "tpad"} : y.x[g] = p.x[g]
    BY <2>3, <2>4 DEF CtxField
  <2>6. /\ y.x.m = p.x.m /\ y.x.prec = p.x.prec /\ y.x.fused = p.x.fused /\ y.x.cpfused = p.x.cpfused
        /\ y.x.q = p.x.q /\ y.x.gpu = p.x.gpu /\ y.x.from = p.x.from /\ y.x.exprs = p.x.exprs
        /\ y.x.w = p.x.w /\ y.x.emb = p.x.emb /\ y.x.codes = p.x.codes
    BY <2>5 DEF CtxField
  <2>7. Reader(y, x, S)
    BY <2>1, <2>4, <2>5, <2>6 DEF Reader, Around
  <2> QED BY <2>1, <2>4, <2>5, <2>6, <2>7 DEF y
<1>2. CASE ~(Is(r, "TPAD") /\ Head(r.rest).size = SizeOf[r.x.m])
  <2>1. ReadTpad(r) = Lost(r)
    BY <1>2 DEF ReadTpad
  <2> QED BY <1>2, <2>1, LostReads
<1> QED BY <1>1, <1>2

LEMMA WovrReads ==
    ASSUME NEW r, NEW x, NEW S, Reader(r, x, S), NEW skip \in BOOLEAN,
           \A s \in S : InWords(s)
    PROVE  LET p == ReadWovr(r, skip) IN
           /\ Reader(p, x, S)
           /\ \A t \in Tensor : (t \in Projected /\ ~skip) \/ p.x.w[t] = r.x.w[t]
           /\ Is(r, "WOVR") /\ Head(r.rest).size = SizeOf[r.x.m] =>
                /\ p.rest = Tail(r.rest) /\ p.x.emb = r.x.emb /\ p.x.codes = r.x.codes
                /\ r.x.tpad = TRUE => p.x.pads = r.x.pads
                /\ ~skip => \A t \in Projected : p.x.w[t] = Head(r.rest).recs[t]
<1>1. CASE ~(Is(r, "WOVR") /\ Head(r.rest).size = SizeOf[r.x.m])
  <2>1. ReadWovr(r, skip) = Lost(r)
    BY <1>1 DEF ReadWovr
  <2> QED BY <1>1, <2>1, LostReads
<1>2. CASE Is(r, "WOVR") /\ Head(r.rest).size = SizeOf[r.x.m] /\ skip
  <2>1. ReadWovr(r, skip) = Past(r)
    BY <1>2 DEF ReadWovr
  <2> QED BY <1>2, <2>1, PastReads DEF Is
<1>3. CASE Is(r, "WOVR") /\ Head(r.rest).size = SizeOf[r.x.m] /\ ~skip
  <2> DEFINE p == Past(r)
  <2> DEFINE y == ReadWovr(r, skip)
  <2> DEFINE recs == Head(r.rest).recs
  <2> DEFINE w == [t \in Tensor |-> IF t \in Projected THEN recs[t] ELSE r.x.w[t]]
  <2> DEFINE ps == IF r.x.tpad THEN p.x.pads ELSE Pads(w)
  <2>1. Reader(p, x, S) /\ p.x = r.x /\ p.rest = Tail(r.rest)
    BY <1>3, PastReads DEF Is
  <2>2. y = [p EXCEPT !.x.w = w, !.x.pads = ps]
    BY <1>3, <2>1 DEF ReadWovr, Reader, Around, CtxField
  <2>0. \A t \in Projected : recs[t] \in Word
    <3>1. Head(r.rest) \in S /\ Head(r.rest).kind = "WOVR"
      BY <1>3 DEF Is, Reader
    <3> QED BY <3>1 DEF InWords
  <2>3. DOMAIN p = {"x", "rest"} /\ DOMAIN p.x = CtxField /\ r.x.w \in [Tensor -> Word]
    BY <2>1 DEF Reader, Around
  <2>w. w \in [Tensor -> Word] /\ \A t \in Tensor : w[t] = IF t \in Projected THEN recs[t] ELSE r.x.w[t]
    BY <2>0, <2>3
  <2>p. r.x.tpad = TRUE => ps = r.x.pads
    BY <2>1
  <2> HIDE DEF p, y, w, ps, recs
  <2>4. /\ DOMAIN y = {"x", "rest"} /\ y.rest = p.rest
        /\ y.x = [p.x EXCEPT !.w = w, !.pads = ps]
    BY <2>2, <2>3
  <2>5. /\ DOMAIN y.x = CtxField /\ y.x.pads = ps /\ y.x.w = w
        /\ \A g \in CtxField \ {"pads", "w"} : y.x[g] = p.x[g]
    BY <2>3, <2>4 DEF CtxField
  <2>6. /\ y.x.m = p.x.m /\ y.x.prec = p.x.prec /\ y.x.fused = p.x.fused /\ y.x.cpfused = p.x.cpfused
        /\ y.x.q = p.x.q /\ y.x.gpu = p.x.gpu /\ y.x.from = p.x.from /\ y.x.exprs = p.x.exprs
        /\ y.x.emb = p.x.emb /\ y.x.codes = p.x.codes
    BY <2>5 DEF CtxField
  <2>7. Reader(y, x, S)
    <3>1. \A t \in Tensor \ Projected : w[t] = x.w[t]
      BY <2>w, <2>1 DEF Reader, Around
    <3> QED BY <2>1, <2>4, <2>5, <2>6, <2>w, <3>1 DEF Reader, Around
  <2>8. \A t \in Tensor : (t \in Projected /\ ~skip) \/ y.x.w[t] = r.x.w[t]
    BY <2>5, <2>w, <1>3
  <2>9. \A t \in Projected : y.x.w[t] = recs[t]
    BY <2>5, <2>w DEF Projected, Tensor
  <2> QED BY <2>1, <2>4, <2>5, <2>6, <2>7, <2>8, <2>9, <2>p DEF y, recs
<1> QED BY <1>1, <1>2, <1>3

\* The sections up to the weights.
LEMMA BeforeSwapReads ==
    ASSUME NEW x, Context(x), x.w \in [Tensor -> Word], NEW f, NEW S, f.sections \in Seq(S),
           \A s \in S : InWords(s), NEW skip \in BOOLEAN
    PROVE  LET r == BeforeSwap(x, f, skip) IN
           /\ Reader(r, x, S) /\ Context(r.x)
           /\ \A t \in Tensor : (t \in Projected /\ ~skip) \/ r.x.w[t] = x.w[t]
<1> DEFINE r0 == [x |-> Header(x, f), rest |-> f.sections]
           r1 == ReadMeta(r0)
           r2 == ReadTpad(r1)
           r3 == ReadWovr(r2, skip)
<1>0. Reader(r0, x, S) /\ r0.x.w = x.w
  BY HeaderReads DEF Reader
<1> HIDE DEF r0
<1>1. Reader(r1, x, S) /\ r1.x.w = x.w
  BY <1>0, MetaReads
<1> HIDE DEF r1
<1>2. Reader(r2, x, S) /\ r2.x.w = x.w
  BY <1>1, TpadReads
<1> HIDE DEF r2
<1>3. /\ Reader(r3, x, S)
      /\ \A t \in Tensor : (t \in Projected /\ ~skip) \/ r3.x.w[t] = x.w[t]
  <2>1. Reader(r2, x, S)
    BY <1>2
  <2>2. /\ Reader(ReadWovr(r2, skip), x, S)
        /\ \A t \in Tensor : (t \in Projected /\ ~skip) \/ ReadWovr(r2, skip).x.w[t] = r2.x.w[t]
    BY <2>1, WovrReads
  <2> QED BY <1>2, <2>2
<1>4. r3 = BeforeSwap(x, f, skip)
  BY DEF BeforeSwap, r2, r1, r0
<1>5. Context(r3.x)
  BY <1>3, AroundKeeps DEF Reader
<1> QED BY <1>3, <1>4, <1>5

LEMMA SwappedIs ==
    ASSUME NEW x, DOMAIN x = CtxField, x.w \in [Tensor -> Word], NEW orig \in [Tensor -> Word],
           NEW recs, \A t \in Tensor : recs[t].word \in Word, NEW strength \in {0, 1}
    PROVE  LET y == Swapped(x, recs, orig, strength) IN
           /\ DOMAIN y = CtxField /\ \A g \in CtxField \ {"w"} : y[g] = x[g]
           /\ y.w \in [Tensor -> Word]
           /\ \A t \in Tensor : y.w[t] =
                IF recs[t].dtype = "zlib" THEN x.w[t]
                ELSE Overriding(recs[t], IF t \in Remembered THEN orig[t] ELSE x.w[t], t, strength)
<1> DEFINE base(t) == IF t \in Remembered THEN orig[t] ELSE x.w[t]
           word(t) == IF recs[t].dtype = "zlib" THEN x.w[t]
                      ELSE Overriding(recs[t], base(t), t, strength)
           w == [t \in Tensor |-> word(t)]
<1>1. ASSUME NEW t \in Tensor PROVE word(t) \in Word
  <2>1. base(t) \in Word /\ x.w[t] \in Word /\ recs[t].word \in Word
    OBVIOUS
  <2> HIDE DEF base
  <2>2. Add(base(t), recs[t].word) \in Word
    BY <2>1, WordArithmetic
  <2>3. Lerp(base(t), Add(base(t), recs[t].word), strength) \in Word
    BY <2>1, <2>2, WordArithmetic
  <2> QED BY <2>1, <2>2, <2>3 DEF Overriding
<1>2. w \in [Tensor -> Word]
  BY <1>1
<1>3. Swapped(x, recs, orig, strength) = [x EXCEPT !.w = w]
  BY DEF Swapped
<1>4. \A t \in Tensor : w[t] = IF recs[t].dtype = "zlib" THEN x.w[t]
                               ELSE Overriding(recs[t], base(t), t, strength)
  OBVIOUS
<1> HIDE DEF w
<1> DEFINE y == Swapped(x, recs, orig, strength)
<1>5. DOMAIN y = CtxField /\ y.w = w /\ \A g \in CtxField \ {"w"} : y[g] = x[g]
  BY <1>3 DEF CtxField
<1> HIDE DEF y
<1> QED BY <1>2, <1>4, <1>5 DEF y

LEMMA SettledIs ==
    ASSUME NEW x, DOMAIN x = CtxField, x.m \in Model, x.prec \in {"bf16", "int8", "int4"},
           NEW loaded \in BOOLEAN,
           loaded \/ Derived(x),
           x.prec = "bf16" /\ x.gpu = Nothing => x.q = Nothing
    PROVE  LET y == Settled(x, loaded) IN
           /\ Context(y) /\ y.pads = IF loaded THEN Pads(x.w) ELSE x.pads
           /\ y.w = x.w /\ y.m = x.m /\ y.from = x.from /\ y.exprs = x.exprs
           /\ y.emb = x.emb /\ y.codes = x.codes
<1> DEFINE z == [RebuiltCp(Rebuilt(x)) EXCEPT !.pads = IF loaded THEN Pads(x.w) ELSE @]
<1>1. /\ DOMAIN z = CtxField /\ z.fused = x.w.gate /\ z.cpfused = x.w.cpgate
      /\ z.pads = IF loaded THEN Pads(x.w) ELSE x.pads
      /\ \A g \in CtxField \ {"fused", "cpfused", "pads"} : z[g] = x[g]
  BY DEF Rebuilt, RebuiltCp, CtxField
<1>2. Settled(x, loaded) = IF loaded THEN Requantized(z) ELSE z
  BY DEF Settled, Rebuilt, RebuiltCp, CtxField
<1> HIDE DEF z
<1>3. /\ z.m = x.m /\ z.prec = x.prec /\ z.w = x.w /\ z.q = x.q /\ z.gpu = x.gpu
      /\ z.from = x.from /\ z.exprs = x.exprs /\ z.emb = x.emb /\ z.codes = x.codes
  BY <1>1 DEF CtxField
<1>4. CASE ~loaded
  <2>1. Settled(x, loaded) = z
    BY <1>2, <1>4
  <2>2. Context(z)
    BY <1>1, <1>3, <1>4 DEF Context, Derived, Copies
  <2> QED BY <1>1, <1>3, <2>1, <2>2
<1>5. CASE loaded /\ z.prec = "int8"
  <2> DEFINE q == Copies(z)
             y == [z EXCEPT !.q = q]
  <2>1. Settled(x, loaded) = y
    BY <1>2, <1>5 DEF Requantized
  <2>q. q = [attn |-> x.w.attn, gate |-> x.w.gate, cpgate |-> x.w.cpgate]
    BY <1>1, <1>3 DEF Copies
  <2> HIDE DEF q
  <2>2. /\ DOMAIN y = CtxField /\ y.q = q /\ \A g \in CtxField \ {"q"} : y[g] = z[g]
    BY <1>1 DEF CtxField
  <2> HIDE DEF y
  <2>3. /\ y.m = x.m /\ y.prec = x.prec /\ y.w = x.w /\ y.gpu = x.gpu
        /\ y.fused = x.w.gate /\ y.cpfused = x.w.cpgate /\ y.pads = Pads(x.w)
        /\ y.from = x.from /\ y.exprs = x.exprs /\ y.emb = x.emb /\ y.codes = x.codes
    BY <1>1, <1>3, <1>5, <2>2 DEF CtxField
  <2>4. Context(y)
    BY <2>2, <2>3, <2>q, <1>3, <1>5 DEF Context, Derived, Copies
  <2> QED BY <1>5, <2>1, <2>3, <2>4
<1>6. CASE loaded /\ z.prec # "int8"
  <2>1. Settled(x, loaded) = z
    BY <1>2, <1>6 DEF Requantized
  <2>2. Context(z)
    BY <1>1, <1>3, <1>6 DEF Context, Derived, Copies
  <2> QED BY <1>1, <1>3, <2>1, <2>2
<1> QED BY <1>4, <1>5, <1>6

LEMMA SwapSkips ==
    ASSUME NEW r, DOMAIN r = {"x", "rest"}, NEW orig, NEW strength, NEW iclOnly \in BOOLEAN,
           iclOnly \/ (~Is(r, "WDLT") /\ ~Is(r, "WFULL"))
    PROVE  ReadSwap(r, iclOnly, orig, strength).x = r.x
  BY DEF ReadSwap, Past, Lost

LEMMA SwapReads ==
    ASSUME NEW r, NEW x, NEW S, Reader(r, x, S), Context(r.x), \A s \in S : InWords(s),
           NEW iclOnly \in BOOLEAN, NEW orig \in [Tensor -> Word], NEW strength \in {0, 1}
    PROVE  LET y == ReadSwap(r, iclOnly, orig, strength).x
               recs == Head(r.rest).recs
           IN /\ Context(y) /\ y.w \in [Tensor -> Word]
              /\ y.m = r.x.m /\ y.from = r.x.from /\ y.exprs = r.x.exprs
              /\ y.emb = r.x.emb /\ y.codes = r.x.codes
              /\ iclOnly => y = r.x
              /\ ~Is(r, "WDLT") /\ ~Is(r, "WFULL") => y = r.x
              /\ ~iclOnly /\ (Is(r, "WDLT") \/ Is(r, "WFULL"))
                   /\ (\A t \in Tensor : recs[t].dtype # "zlib") =>
                   /\ \A t \in Tensor : y.w[t] =
                        Overriding(recs[t], IF t \in Remembered THEN orig[t] ELSE r.x.w[t], t, strength)
                   /\ y.pads = Pads(y.w)
<1> DEFINE there == Is(r, "WDLT") \/ Is(r, "WFULL")
           y == ReadSwap(r, iclOnly, orig, strength).x
           recs == Head(r.rest).recs
<1>0. r.x.w \in [Tensor -> Word] /\ DOMAIN r.x = CtxField /\ DOMAIN r = {"x", "rest"}
  BY DEF Reader, Around
<1>1. CASE ~there
  <2>1. y = r.x
    BY <1>0, <1>1, SwapSkips
  <2> QED BY <1>0, <1>1, <2>1
<1>2. CASE there /\ iclOnly
  <2>1. y = r.x
    BY <1>0, <1>2 DEF ReadSwap, Past
  <2> QED BY <1>0, <1>2, <2>1
<1>3. CASE there /\ ~iclOnly
  <2> DEFINE some == \E t \in Tensor : recs[t].dtype # "zlib"
             z == Swapped(r.x, recs, orig, strength)
             p == Past(r)
  <2>1. DOMAIN p = {"x", "rest"}
    BY <1>3, PastReads DEF Is, Reader
  <2>2. y = Settled(z, some)
    <3>1. ReadSwap(r, iclOnly, orig, strength) = [p EXCEPT !.x = Settled(z, some)]
      BY <1>3 DEF ReadSwap
    <3> HIDE DEF p, z, some
    <3> QED BY <2>1, <3>1
  <2>3. \A t \in Tensor : recs[t].word \in Word
    <3>1. Head(r.rest) \in S /\ Head(r.rest).kind \in {"WDLT", "WFULL"}
      BY <1>3 DEF Is, Reader
    <3> QED BY <3>1 DEF InWords
  <2> HIDE DEF recs, y
  <2>4. /\ DOMAIN z = CtxField /\ \A g \in CtxField \ {"w"} : z[g] = r.x[g]
        /\ z.w \in [Tensor -> Word]
        /\ \A t \in Tensor : z.w[t] =
             IF recs[t].dtype = "zlib" THEN r.x.w[t]
             ELSE Overriding(recs[t], IF t \in Remembered THEN orig[t] ELSE r.x.w[t], t, strength)
    BY <1>0, <2>3, SwappedIs
  <2> HIDE DEF z
  <2>5. /\ z.m = r.x.m /\ z.prec = r.x.prec /\ z.fused = r.x.fused /\ z.cpfused = r.x.cpfused
        /\ z.q = r.x.q /\ z.gpu = r.x.gpu /\ z.from = r.x.from /\ z.exprs = r.x.exprs
        /\ z.emb = r.x.emb /\ z.codes = r.x.codes
    BY <2>4 DEF CtxField
  <2>6. z.m \in Model /\ z.prec \in {"bf16", "int8", "int4"}
        /\ (z.prec = "bf16" /\ z.gpu = Nothing => z.q = Nothing)
    BY <2>5 DEF Context, Derived
  <2>7. some \/ Derived(z)
    <3>1. CASE ~some
      <4>1. \A t \in Tensor : z.w[t] = r.x.w[t]
        BY <2>4, <3>1
      <4>2. z.w["gate"] = r.x.w["gate"] /\ z.w["attn"] = r.x.w["attn"] /\ z.w["cpgate"] = r.x.w["cpgate"]
        BY <4>1 DEF Tensor
      <4>3. Derived(r.x)
        BY DEF Context
      <4> QED BY <2>5, <4>2, <4>3 DEF Derived, Copies
    <3> QED BY <3>1
  <2>b. some \in BOOLEAN
    OBVIOUS
  <2>c. (\A t \in Tensor : recs[t].dtype # "zlib") => some
    BY DEF Tensor
  <2> HIDE DEF some
  <2>8. /\ Context(y) /\ y.pads = IF some THEN Pads(z.w) ELSE z.pads
        /\ y.w = z.w /\ y.m = z.m /\ y.from = z.from /\ y.exprs = z.exprs
        /\ y.emb = z.emb /\ y.codes = z.codes
    BY <2>2, <2>4, <2>6, <2>7, <2>b, SettledIs
  <2> QED BY <1>3, <2>4, <2>5, <2>8, <2>c DEF y, recs
<1> QED BY <1>1, <1>2, <1>3

LEMMA LoadKeeps ==
    ASSUME NEW x, Context(x), Bare(x), NEW f, NEW S, f.sections \in Seq(S), \A s \in S : InWords(s),
           NEW iclOnly \in BOOLEAN, NEW skip \in BOOLEAN, NEW strength \in {0, 1},
           LoadVoice(x, f, iclOnly, skip, strength) # Nothing
    PROVE  LET y == LoadVoice(x, f, iclOnly, skip, strength) IN
           /\ Context(y) /\ y.w \in [Tensor -> Word] /\ y.m = x.m /\ y.exprs = x.exprs
           /\ iclOnly => \A t \in Tensor : (t \in Projected /\ ~skip) \/ y.w[t] = x.w[t]
<1> DEFINE r == BeforeSwap(x, f, skip)
           y == LoadVoice(x, f, iclOnly, skip, strength)
<1>1. x.w \in [Tensor -> Word]
  BY VoiceFileAssumption DEF Bare, Context
<1>2. /\ Reader(r, x, S) /\ Context(r.x)
      /\ \A t \in Tensor : (t \in Projected /\ ~skip) \/ r.x.w[t] = x.w[t]
  BY <1>1, BeforeSwapReads
<1>3. y = ReadSwap(r, iclOnly, x.w, strength).x
  BY DEF LoadVoice
<1> HIDE DEF r, y
<1>4. /\ Context(y) /\ y.w \in [Tensor -> Word]
      /\ y.m = r.x.m /\ y.exprs = r.x.exprs /\ (iclOnly => y = r.x)
  BY <1>1, <1>2, <1>3, SwapReads
<1> QED BY <1>2, <1>4 DEF Reader, Around, y

\* The sections of a saved file, one by one.
MetaOf == [kind |-> "META"]
TpadOf(m, pads) == [kind |-> "TPAD", size |-> SizeOf[m], pads |-> pads]
WovrOf(m, w) == [kind |-> "WOVR", size |-> SizeOf[m], recs |-> [t \in Projected |-> w[t]]]
SwapOf(m, w, of) ==
    [kind |-> IF of \in Model THEN "WDLT" ELSE "WFULL", size |-> SizeOf[m],
     recs |-> [t \in Tensor |-> Record([m |-> m, w |-> w], t, of)]]

LEMMA ThreeAndOne ==
    ASSUME NEW a, NEW b, NEW d, NEW e
    PROVE  /\ <<a, b, d>> \o << >> = <<a, b, d>>
           /\ <<a, b, d>> \o <<e>> = <<a, b, d, e>>
<1> DEFINE S == {a, b, d, e}
           s == <<a, b, d>>
           t == <<e>>
           u == <<a, b, d, e>>
<1>1. s \in Seq(S) /\ t \in Seq(S) /\ u \in Seq(S)
  OBVIOUS
<1>2. /\ Len(s) = 3 /\ Len(t) = 1 /\ Len(u) = 4 /\ s[1] = a /\ s[2] = b /\ s[3] = d /\ t[1] = e
      /\ u[1] = a /\ u[2] = b /\ u[3] = d /\ u[4] = e
  OBVIOUS
<1>3. <<a, b, d>> \o << >> = <<a, b, d>>
  BY <1>1
<1> HIDE DEF s, t, u, S
<1>4. /\ s \o t \in Seq(S) /\ Len(s \o t) = Len(s) + Len(t)
      /\ \A i \in 1 .. Len(s) + Len(t) : (s \o t)[i] = IF i <= Len(s) THEN s[i] ELSE t[i - Len(s)]
  BY <1>1, ConcatProperties
<1>5. /\ (s \o t)[1] = a /\ (s \o t)[2] = b /\ (s \o t)[3] = d /\ (s \o t)[4] = e
  BY <1>2, <1>4
<1>6. s \o t = u
  <2>1. Len(s \o t) = Len(u) /\ \A i \in 1 .. Len(s \o t) : (s \o t)[i] = u[i]
    BY <1>2, <1>4, <1>5
  <2> QED BY <1>1, <1>4, <2>1, SeqEqual
<1> QED BY <1>3, <1>6 DEF s, t, u

LEMMA TailsOfFour ==
    ASSUME NEW a, NEW b, NEW d, NEW e
    PROVE  LET s == <<a, b, d, e>> IN
           /\ s # << >> /\ Head(s) = a /\ Tail(s) = <<b, d, e>> /\ Len(s) = 4 /\ s[4] = e
           /\ Tail(s) # << >> /\ Head(Tail(s)) = b /\ Tail(Tail(s)) = <<d, e>>
           /\ Tail(Tail(s)) # << >> /\ Head(Tail(Tail(s))) = d /\ Tail(Tail(Tail(s))) = <<e>>
<1>1. Tail(<<a, b, d, e>>) = <<b, d, e>>
  OBVIOUS
<1>2. Tail(<<b, d, e>>) = <<d, e>>
  OBVIOUS
<1>3. Tail(<<d, e>>) = <<e>>
  OBVIOUS
<1> QED BY <1>1, <1>2, <1>3

LEMMA TailsOfThree ==
    ASSUME NEW a, NEW b, NEW d
    PROVE  LET s == <<a, b, d>> IN
           /\ s # << >> /\ Head(s) = a /\ Tail(s) = <<b, d>> /\ Len(s) = 3
           /\ Tail(s) # << >> /\ Head(Tail(s)) = b /\ Tail(Tail(s)) = <<d>>
           /\ Tail(Tail(s)) # << >> /\ Head(Tail(Tail(s))) = d /\ Tail(Tail(Tail(s))) = << >>
<1>1. Tail(<<a, b, d>>) = <<b, d>>
  OBVIOUS
<1>2. Tail(<<b, d>>) = <<d>>
  OBVIOUS
<1>3. Tail(<<d>>) = << >>
  OBVIOUS
<1> QED BY <1>1, <1>2, <1>3

LEMMA SectionsAre ==
    ASSUME NEW m, NEW pads, NEW w, NEW of
    PROVE  LET ss == Sections([m |-> m, pads |-> pads, w |-> w], of) IN
           ss = IF of = Nothing THEN <<MetaOf, TpadOf(m, pads), WovrOf(m, w)>>
                ELSE <<MetaOf, TpadOf(m, pads), WovrOf(m, w), SwapOf(m, w, of)>>
<1> DEFINE x == [m |-> m, pads |-> pads, w |-> w]
<1>1. x.m = m /\ x.pads = pads /\ x.w = w
  OBVIOUS
<1>2. \A t \in Tensor : Record(x, t, of) = Record([m |-> m, w |-> w], t, of)
  BY DEF Record
<1>3. SwapSection(x, of) = SwapOf(m, w, of)
  BY <1>1, <1>2 DEF SwapSection, SwapOf
<1> HIDE DEF x
<1>4. Sections(x, of) =
        <<MetaOf, TpadOf(m, pads), WovrOf(m, w)>> \o (IF of = Nothing THEN << >> ELSE <<SwapOf(m, w, of)>>)
  BY <1>1, <1>3 DEF Sections, MetaOf, TpadOf, WovrOf
<1> QED BY <1>4, ThreeAndOne DEF x

LEMMA SavedIs ==
    ASSUME NEW f, IsSaved(f)
    PROVE  \E m \in Model : LET pads == f.sections[2].pads IN
             /\ f.enc = SizeOf[m]
             /\ f.sections = IF f.of = Nothing THEN <<MetaOf, TpadOf(m, pads), WovrOf(m, f.w)>>
                             ELSE <<MetaOf, TpadOf(m, pads), WovrOf(m, f.w), SwapOf(m, f.w, f.of)>>
  BY SectionsAre DEF IsSaved

\* Saving writes such a file, ...
LEMMA SaveSaves ==
    ASSUME NEW x, Context(x), x.w \in [Tensor -> Word], NEW target \in Model \cup {Nothing, "missing"},
           NEW text
    PROVE  IsSaved(Saved(x, target, text))
<1> DEFINE f == Saved(x, target, text)
<1>1. /\ f.w = x.w /\ f.of = target /\ f.enc = SizeOf[x.m] /\ f.sections = Sections(x, target)
  BY DEF Saved
<1> HIDE DEF f
<1> DEFINE y == [m |-> x.m, pads |-> x.pads, w |-> x.w]
<1>2. y.m = x.m /\ y.pads = x.pads /\ y.w = x.w
  OBVIOUS
<1>3. Sections(x, target) = Sections(y, target)
  <2> HIDE DEF y
  <2>1. \A t \in Tensor : Record(x, t, target) = Record(y, t, target)
    BY <1>2 DEF Record
  <2>2. SwapSection(x, target) = SwapSection(y, target)
    BY <1>2, <2>1 DEF SwapSection
  <2> QED BY <1>2, <2>2 DEF Sections
<1>4. f.sections[2].pads = x.pads
  <2>0. f.sections = IF target = Nothing THEN <<MetaOf, TpadOf(x.m, x.pads), WovrOf(x.m, x.w)>>
                     ELSE <<MetaOf, TpadOf(x.m, x.pads), WovrOf(x.m, x.w), SwapOf(x.m, x.w, target)>>
    BY <1>1, <1>3, SectionsAre
  <2>1. f.sections[2] = TpadOf(x.m, x.pads)
    BY <2>0
  <2> QED BY <2>1 DEF TpadOf
<1> QED BY <1>1, <1>3, <1>4 DEF IsSaved, Context, f

\* ... all of whose words are words.
LEMMA SavedInWords ==
    ASSUME NEW f, IsSaved(f)
    PROVE  \E S : f.sections \in Seq(S) /\ \A s \in S : InWords(s)
<1> DEFINE pads == f.sections[2].pads
<1>1. PICK m \in Model :
        f.sections = IF f.of = Nothing THEN <<MetaOf, TpadOf(m, pads), WovrOf(m, f.w)>>
                     ELSE <<MetaOf, TpadOf(m, pads), WovrOf(m, f.w), SwapOf(m, f.w, f.of)>>
  BY SavedIs
<1> HIDE DEF pads
<1> DEFINE S == {MetaOf, TpadOf(m, pads), WovrOf(m, f.w), SwapOf(m, f.w, f.of)}
<1>2. f.sections \in Seq(S)
  <2>1. <<MetaOf, TpadOf(m, pads), WovrOf(m, f.w)>> \in Seq(S)
    OBVIOUS
  <2>2. <<MetaOf, TpadOf(m, pads), WovrOf(m, f.w), SwapOf(m, f.w, f.of)>> \in Seq(S)
    OBVIOUS
  <2> HIDE DEF S
  <2> QED BY <1>1, <2>1, <2>2
<1>3. InWords(MetaOf) /\ InWords(TpadOf(m, pads))
  BY DEF InWords, MetaOf, TpadOf
<1>4. InWords(WovrOf(m, f.w))
  BY DEF InWords, WovrOf, IsSaved, Projected, Tensor
<1>5. InWords(SwapOf(m, f.w, f.of))
  <2>1. \A t \in Tensor : Record([m |-> m, w |-> f.w], t, f.of).word \in Word
    <3> SUFFICES ASSUME NEW t \in Tensor PROVE Record([m |-> m, w |-> f.w], t, f.of).word \in Word
      OBVIOUS
    <3>1. f.w[t] \in Word
      BY DEF IsSaved
    <3>2. f.of \in Model => Sub(f.w[t], Shipped[f.of][t]) \in Word
      BY <3>1, WordArithmetic, VoiceFileAssumption
    <3> QED BY <3>1, <3>2 DEF Record
  <2> QED BY <2>1 DEF InWords, SwapOf
<1> QED BY <1>2, <1>3, <1>4, <1>5

\* What a load of a saved file gives back.
LEMMA SavedRestores ==
    ASSUME NEW x, Context(x), Bare(x), NEW f, IsSaved(f),
           NEW iclOnly \in BOOLEAN, NEW skip \in BOOLEAN, NEW strength \in {0, 1},
           LoadVoice(x, f, iclOnly, skip, strength) # Nothing
    PROVE  LET y == LoadVoice(x, f, iclOnly, skip, strength)
               swaps == Len(f.sections) = 4 /\ ~iclOnly
               own(t) == Shipped[x.m][t]
           IN /\ y.emb = f.emb /\ y.codes = f.codes
              /\ \A t \in Tensor :
                   \/ y.w[t] =
                        IF swaps
                        THEN IF strength = 0 /\ t \in LayerProj /\ f.sections[4].recs[t].dtype = "delta"
                             THEN own(t) ELSE f.w[t]
                        ELSE IF t \in Projected /\ ~skip THEN f.w[t] ELSE own(t)
                   \/ swaps /\ f.of \in Model \ {x.m} /\ f.sections[4].recs[t].dtype = "delta"
              /\ y.pads = IF swaps THEN Pads(y.w) ELSE f.sections[2].pads
<1> DEFINE y == LoadVoice(x, f, iclOnly, skip, strength)
           r0 == [x |-> Header(x, f), rest |-> f.sections]
           r1 == ReadMeta(r0)
           r2 == ReadTpad(r1)
           r3 == ReadWovr(r2, skip)
           pads == f.sections[2].pads
<1>1. PICK m \in Model :
        /\ f.enc = SizeOf[m]
        /\ f.sections = IF f.of = Nothing THEN <<MetaOf, TpadOf(m, pads), WovrOf(m, f.w)>>
                        ELSE <<MetaOf, TpadOf(m, pads), WovrOf(m, f.w), SwapOf(m, f.w, f.of)>>
  BY SavedIs
<1>2. PICK S : f.sections \in Seq(S) /\ \A s \in S : InWords(s)
  BY SavedInWords
<1>3. x.w = Shipped[x.m] /\ x.w \in [Tensor -> Word] /\ x.m \in Model /\ x.codes = Nothing
  BY VoiceFileAssumption DEF Bare, Context
<1>4. y = ReadSwap(r3, iclOnly, x.w, strength).x /\ SizeOf[m] = SizeOf[x.m]
  BY <1>1 DEF LoadVoice, BeforeSwap
<1> HIDE DEF pads
<1> DEFINE last == IF f.of = Nothing THEN << >> ELSE <<SwapOf(m, f.w, f.of)>>
<1>5. /\ f.sections # << >> /\ Head(f.sections) = MetaOf
      /\ Tail(f.sections) # << >> /\ Head(Tail(f.sections)) = TpadOf(m, pads)
      /\ Tail(Tail(f.sections)) # << >> /\ Head(Tail(Tail(f.sections))) = WovrOf(m, f.w)
      /\ Tail(Tail(Tail(f.sections))) = last
      /\ (f.of = Nothing => Len(f.sections) = 3)
      /\ (f.of # Nothing => Len(f.sections) = 4 /\ f.sections[4] = SwapOf(m, f.w, f.of))
  <2>1. CASE f.of = Nothing
    <3>1. f.sections = <<MetaOf, TpadOf(m, pads), WovrOf(m, f.w)>>
      BY <1>1, <2>1
    <3> QED BY <2>1, <3>1, TailsOfThree
  <2>2. CASE f.of # Nothing
    <3>1. f.sections = <<MetaOf, TpadOf(m, pads), WovrOf(m, f.w), SwapOf(m, f.w, f.of)>>
      BY <1>1, <2>2
    <3> QED BY <2>2, <3>1, TailsOfFour
  <2> QED BY <2>1, <2>2
<1> HIDE DEF last
<1>6. /\ Reader(r0, x, S) /\ r0.x.w = x.w /\ r0.rest = f.sections
      /\ r0.x.emb = f.emb /\ r0.x.codes = f.codes
  BY <1>2, <1>3, HeaderReads DEF Reader
<1> HIDE DEF r0
<1>7. /\ Reader(r1, x, S) /\ r1.x.w = x.w /\ r1.rest = Tail(f.sections)
      /\ r1.x.emb = f.emb /\ r1.x.codes = f.codes
  <2>0. r0.rest # << >> /\ Head(r0.rest) = MetaOf
    BY <1>5, <1>6
  <2>1. Is(r0, "META")
    BY <2>0 DEF Is, MetaOf
  <2> QED BY <1>6, <2>1, MetaReads
<1> HIDE DEF r1
<1>8. /\ Reader(r2, x, S) /\ r2.x.w = x.w /\ r2.rest = Tail(Tail(f.sections))
      /\ r2.x.emb = f.emb /\ r2.x.codes = f.codes /\ r2.x.tpad = TRUE /\ r2.x.pads = pads
  <2>0. r1.rest # << >> /\ Head(r1.rest) = TpadOf(m, pads)
    BY <1>5, <1>7
  <2>1. Is(r1, "TPAD") /\ Head(r1.rest).size = SizeOf[m] /\ Head(r1.rest).pads = pads
    BY <2>0 DEF Is, TpadOf
  <2>2. r1.x.m = x.m
    BY <1>7 DEF Reader, Around
  <2>3. LET p == ReadTpad(r1) IN
        /\ Reader(p, x, S) /\ p.x.w = r1.x.w
        /\ p.x.tpad = TRUE /\ p.x.pads = Head(r1.rest).pads
        /\ p.x.emb = r1.x.emb /\ p.x.codes = r1.x.codes /\ p.rest = Tail(r1.rest)
    BY <1>4, <1>7, <2>1, <2>2, TpadReads
  <2> QED BY <1>7, <2>1, <2>3
<1> HIDE DEF r2
<1>9. /\ Reader(r3, x, S) /\ r3.rest = last
      /\ r3.x.emb = f.emb /\ r3.x.codes = f.codes /\ r3.x.pads = pads
      /\ \A t \in Tensor : r3.x.w[t] = IF t \in Projected /\ ~skip THEN f.w[t] ELSE x.w[t]
  <2>0. r2.rest # << >> /\ Head(r2.rest) = WovrOf(m, f.w)
    BY <1>5, <1>8
  <2>1. Is(r2, "WOVR") /\ Head(r2.rest).size = SizeOf[m] /\ \A t \in Projected : Head(r2.rest).recs[t] = f.w[t]
    BY <2>0 DEF Is, WovrOf
  <2>2. r2.x.m = x.m /\ Reader(r2, x, S)
    BY <1>8 DEF Reader, Around
  <2>3. LET p == ReadWovr(r2, skip) IN
        /\ Reader(p, x, S)
        /\ \A t \in Tensor : (t \in Projected /\ ~skip) \/ p.x.w[t] = r2.x.w[t]
        /\ p.rest = Tail(r2.rest) /\ p.x.emb = r2.x.emb /\ p.x.codes = r2.x.codes
        /\ r2.x.tpad = TRUE => p.x.pads = r2.x.pads
        /\ ~skip => \A t \in Projected : p.x.w[t] = Head(r2.rest).recs[t]
    <3>1. Is(r2, "WOVR") /\ Head(r2.rest).size = SizeOf[r2.x.m]
      BY <1>4, <2>1, <2>2
    <3>2. \A s \in S : InWords(s)
      BY <1>2
    <3>3. /\ Reader(ReadWovr(r2, skip), x, S)
          /\ \A t \in Tensor : (t \in Projected /\ ~skip) \/ ReadWovr(r2, skip).x.w[t] = r2.x.w[t]
          /\ Is(r2, "WOVR") /\ Head(r2.rest).size = SizeOf[r2.x.m] =>
               /\ ReadWovr(r2, skip).rest = Tail(r2.rest)
               /\ ReadWovr(r2, skip).x.emb = r2.x.emb /\ ReadWovr(r2, skip).x.codes = r2.x.codes
               /\ r2.x.tpad = TRUE => ReadWovr(r2, skip).x.pads = r2.x.pads
               /\ ~skip => \A t \in Projected : ReadWovr(r2, skip).x.w[t] = Head(r2.rest).recs[t]
      BY <2>2, <3>2, WovrReads, ZenonT(60)
    <3> QED BY <3>1, <3>3
  <2> QED BY <1>5, <1>8, <2>1, <2>3
<1> HIDE DEF r3
<1>a. Context(r3.x)
  BY <1>9, AroundKeeps DEF Reader
<1> HIDE DEF y
<1>b. CASE iclOnly \/ f.of = Nothing
  <2>0. DOMAIN r3 = {"x", "rest"}
    BY <1>9 DEF Reader
  <2>1. y = r3.x
    <3>1. CASE iclOnly
      BY <1>4, <2>0, <3>1 DEF ReadSwap, Past, Lost
    <3>2. CASE f.of = Nothing
      <4>1. ~Is(r3, "WDLT") /\ ~Is(r3, "WFULL")
        BY <1>9, <3>2 DEF Is, last
      <4> QED BY <1>4, <2>0, <4>1, SwapSkips
    <3> QED BY <1>b, <3>1, <3>2
  <2>2. ~(Len(f.sections) = 4 /\ ~iclOnly)
    <3>1. CASE iclOnly
      BY <3>1
    <3>2. CASE f.of = Nothing
      <4>1. Len(f.sections) = 3
        BY <1>5, <3>2
      <4> QED BY <4>1
    <3> QED BY <1>b, <3>1, <3>2
  <2> QED BY <1>3, <1>9, <2>1, <2>2 DEF y, pads
<1>c. CASE ~iclOnly /\ f.of # Nothing
  <2> DEFINE swap == SwapOf(m, f.w, f.of)
  <2>1. r3.rest # << >> /\ Head(r3.rest) = swap /\ f.sections[4] = swap /\ Len(f.sections) = 4
    BY <1>5, <1>9, <1>c DEF last
  <2>2. Is(r3, "WDLT") \/ Is(r3, "WFULL")
    BY <2>1 DEF Is, SwapOf
  <2>3. \A t \in Tensor : swap.recs[t] = Record([m |-> m, w |-> f.w], t, f.of)
    BY DEF SwapOf
  <2>4. \A t \in Tensor : swap.recs[t].dtype # "zlib"
    <3>1. ASSUME NEW t \in Tensor PROVE Record([m |-> m, w |-> f.w], t, f.of).dtype # "zlib"
      BY DEF Record
    <3> QED BY <2>3, <3>1
  <2> HIDE DEF swap
  <2>5. /\ \A t \in Tensor : y.w[t] =
             Overriding(swap.recs[t], IF t \in Remembered THEN x.w[t] ELSE r3.x.w[t], t, strength)
        /\ y.pads = Pads(y.w) /\ y.emb = r3.x.emb /\ y.codes = r3.x.codes
    <3> DEFINE read == ReadSwap(r3, iclOnly, x.w, strength).x
    <3>1. \A s \in S : InWords(s)
      BY <1>2
    <3>2. Reader(r3, x, S) /\ x.w \in [Tensor -> Word]
      BY <1>3, <1>9
    <3>3. iclOnly \in BOOLEAN /\ strength \in {0, 1}
      OBVIOUS
    <3>4. /\ read.emb = r3.x.emb /\ read.codes = r3.x.codes
          /\ ~iclOnly /\ (Is(r3, "WDLT") \/ Is(r3, "WFULL"))
               /\ (\A t \in Tensor : Head(r3.rest).recs[t].dtype # "zlib") =>
               /\ \A t \in Tensor : read.w[t] =
                    Overriding(Head(r3.rest).recs[t], IF t \in Remembered THEN x.w[t] ELSE r3.x.w[t], t, strength)
               /\ read.pads = Pads(read.w)
      BY <1>a, <3>1, <3>2, <3>3, SwapReads
    <3>5. y = read /\ Head(r3.rest) = swap
      BY <1>4, <2>1
    <3> HIDE DEF read
    <3> QED BY <1>c, <2>2, <2>4, <3>4, <3>5
  <2>6. ASSUME NEW t \in Tensor
        PROVE  \/ y.w[t] = IF strength = 0 /\ t \in LayerProj /\ swap.recs[t].dtype = "delta"
                           THEN x.w[t] ELSE f.w[t]
               \/ f.of \in Model \ {x.m} /\ swap.recs[t].dtype = "delta"
    <3> DEFINE base == IF t \in Remembered THEN x.w[t] ELSE r3.x.w[t]
    <3>1. f.w[t] \in Word /\ x.w[t] \in Word
      BY <1>3 DEF IsSaved
    <3> DEFINE long == t \in Resized => SizeOf[f.of] = SizeOf[m]
               delta == f.of \in Model /\ t \notin F32 /\ long
    <3>2. CASE f.of = x.m /\ delta
      <4>1. swap.recs[t] = [dtype |-> "delta", word |-> Sub(f.w[t], x.w[t])]
        BY <1>3, <2>3, <3>2 DEF Record
      <4>2. base = x.w[t]
        BY <1>9, <3>2 DEF Remembered, Projected, F32
      <4>3. Add(x.w[t], Sub(f.w[t], x.w[t])) = f.w[t]
        BY <3>1, WordArithmetic
      <4>4. Lerp(x.w[t], f.w[t], strength) = IF strength = 0 THEN x.w[t] ELSE f.w[t]
        BY <3>1, WordArithmetic
      <4>5. y.w[t] = Overriding(swap.recs[t], x.w[t], t, strength)
        BY <2>5, <4>2
      <4> QED BY <4>1, <4>3, <4>4, <4>5 DEF Overriding
    <3>3. CASE f.of # x.m /\ delta
      <4>1. swap.recs[t] = [dtype |-> "delta", word |-> Sub(f.w[t], Shipped[f.of][t])]
        BY <2>3, <3>3 DEF Record
      <4> QED BY <3>3, <4>1
    <3>4. CASE ~delta
      <4>1. swap.recs[t] = [dtype |-> "raw", word |-> f.w[t]]
        BY <2>3, <3>4 DEF Record
      <4> QED BY <2>5, <4>1 DEF Overriding
    <3> HIDE DEF delta
    <3> QED BY <3>2, <3>3, <3>4
  <2> QED BY <1>3, <1>9, <1>c, <2>1, <2>5, <2>6 DEF y, pads
<1> QED BY <1>b, <1>c

\* What an .expr file does to a context that none was applied to.
Applied(x, y, e, weight) ==
    /\ Context(y) /\ y.m = x.m /\ y.from = x.from
    /\ y.exprs = <<[e |-> e, weight |-> weight]>>
    /\ \A t \in Tensor : y.w[t] = ExprWord(e, x, t, weight)

LEMMA ExpressedIs ==
    ASSUME NEW x, Context(x), x.exprs = << >>, NEW e, ExprHits(e) # {}, NEW weight
    PROVE  Applied(x, Expressed(x, e, weight), e, weight)
<1> DEFINE w == [t \in Tensor |-> ExprWord(e, x, t, weight)]
           z == [x EXCEPT !.w = w, !.exprs = <<[e |-> e, weight |-> weight]>>]
           u == [z EXCEPT !.fused = w.gate]
           y == Expressed(x, e, weight)
<1>0. DOMAIN x = CtxField
  BY DEF Context
<1>1. Append(x.exprs, [e |-> e, weight |-> weight]) = <<[e |-> e, weight |-> weight]>>
  OBVIOUS
<1>2. \A t \in Tensor : w[t] = ExprWord(e, x, t, weight)
  OBVIOUS
<1>3. w["cpgate"] = x.w["cpgate"]
  BY DEF ExprWord, ExprTarget, Tensor
<1>4. y = Requantized(Rebuilt(z))
  BY <1>1 DEF Expressed
<1> HIDE DEF w
<1>5. /\ DOMAIN z = CtxField /\ z.w = w /\ z.exprs = <<[e |-> e, weight |-> weight]>>
      /\ \A g \in CtxField \ {"w", "exprs"} : z[g] = x[g]
  BY <1>0 DEF CtxField
<1>6. Rebuilt(z) = u
  BY <1>5 DEF Rebuilt
<1> HIDE DEF z
<1>7. /\ DOMAIN u = CtxField /\ u.w = w /\ u.fused = w.gate
      /\ u.exprs = <<[e |-> e, weight |-> weight]>>
      /\ \A g \in CtxField \ {"w", "exprs", "fused"} : u[g] = x[g]
  BY <1>5 DEF CtxField
<1> HIDE DEF u
<1>8. /\ u.m = x.m /\ u.prec = x.prec /\ u.gpu = x.gpu /\ u.q = x.q /\ u.cpfused = x.cpfused
      /\ u.from = x.from
  BY <1>7 DEF CtxField
<1>9. x.prec # "int4" /\ x.gpu = Nothing =>
        x.cpfused = x.w.cpgate /\ (x.prec = "bf16" => x.q = Nothing)
  BY DEF Context, Derived
<1>a. CASE x.prec = "int8"
  <2> DEFINE q == Copies(u)
  <2>1. y = [u EXCEPT !.q = q]
    BY <1>4, <1>6, <1>8, <1>a DEF Requantized
  <2>2. q = [attn |-> w.attn, gate |-> w.gate, cpgate |-> x.cpfused]
    BY <1>7, <1>8 DEF Copies
  <2> HIDE DEF q, y
  <2>3. DOMAIN y = CtxField /\ y.q = q /\ \A g \in CtxField \ {"q"} : y[g] = u[g]
    BY <1>7, <2>1 DEF CtxField
  <2>4. /\ y.m = u.m /\ y.prec = u.prec /\ y.w = u.w /\ y.fused = u.fused /\ y.cpfused = u.cpfused
        /\ y.gpu = u.gpu /\ y.from = u.from /\ y.exprs = u.exprs
    BY <2>3 DEF CtxField
  <2>5. Context(y)
    BY <1>3, <1>7, <1>8, <1>9, <1>a, <2>2, <2>3, <2>4 DEF Context, Derived, Copies
  <2> QED BY <1>2, <1>7, <1>8, <2>4, <2>5 DEF Applied, y
<1>b. CASE x.prec # "int8"
  <2>1. y = u
    BY <1>4, <1>6, <1>8, <1>b DEF Requantized
  <2>2. Context(u)
    BY <1>3, <1>7, <1>8, <1>9, <1>b DEF Context, Derived, Copies
  <2> QED BY <1>2, <1>7, <1>8, <2>1, <2>2 DEF Applied
<1> QED BY <1>a, <1>b

\* The emotion recipe sets the steering vector, and may apply a pack.
LEMMA EmotedIs ==
    ASSUME NEW x, Context(x), x.exprs = << >>, NEW pack, NEW given, NEW sounds \in BOOLEAN
    PROVE  LET y == Emoted(x, pack, given, sounds) IN
           /\ Context(y) /\ y.m = x.m /\ y.from = x.from
           /\ \/ y.exprs = << >> /\ y.w = x.w
              \/ given = Nothing /\ Applied(x, y, pack, 1)
<1> DEFINE y == Emoted(x, pack, given, sounds)
           applies == (x.emb # Nothing \/ sounds) /\ given = Nothing /\ Fits(x, pack)
           z == IF applies THEN Expressed(x, pack, 1) ELSE x
<1>1. applies => given = Nothing /\ Applied(x, Expressed(x, pack, 1), pack, 1)
  BY ExpressedIs DEF Fits
<1> HIDE DEF applies
<1>2. /\ Context(z) /\ z.m = x.m /\ z.from = x.from
      /\ \/ z.exprs = << >> /\ z.w = x.w
         \/ given = Nothing /\ Applied(x, z, pack, 1)
  BY <1>1 DEF Applied
<1>3. y = x \/ y = [z EXCEPT !.steer = "emotion"]
  BY DEF Emoted, applies
<1> HIDE DEF z, y
<1>4. CASE y = x
  BY <1>4 DEF y
<1>5. CASE y = [z EXCEPT !.steer = "emotion"]
  <2>1. DOMAIN y = CtxField /\ \A g \in CtxField \ {"steer"} : y[g] = z[g]
    BY <1>2, <1>5 DEF Context, CtxField
  <2>2. /\ y.m = z.m /\ y.prec = z.prec /\ y.w = z.w /\ y.fused = z.fused /\ y.cpfused = z.cpfused
        /\ y.q = z.q /\ y.gpu = z.gpu /\ y.from = z.from /\ y.exprs = z.exprs
    BY <2>1 DEF CtxField
  <2>3. Context(y)
    BY <1>2, <2>1, <2>2 DEF Context, Derived, Copies
  <2>4. Applied(x, z, pack, 1) => Applied(x, y, pack, 1)
    BY <2>2, <2>3 DEF Applied
  <2> QED BY <1>2, <2>2, <2>3, <2>4 DEF y
<1> QED BY <1>3, <1>4, <1>5

\* An .expr file at full weight gives the tuned weights wherever the context
\* still had those of the model it was made on.
LEMMA ExprTunes ==
    ASSUME NEW x, NEW e \in ExprFile, e.of = x.m, NEW t \in Tensor, x.w[t] = Shipped[x.m][t]
    PROVE  ExprWord(e, x, t, 1) = e.tuned[t]
<1>1. ExprOf(e) /\ Shipped \in [Model -> [Tensor -> Word]]
  BY VoiceFileAssumption
<1>2. x.w[t] \in Word /\ e.tuned[t] \in Word
  BY <1>1 DEF ExprOf
<1>3. Add(x.w[t], Sub(e.tuned[t], x.w[t])) = e.tuned[t] /\ Lerp(x.w[t], e.tuned[t], 1) = e.tuned[t]
  BY <1>2, WordArithmetic
<1> QED BY <1>1, <1>3 DEF ExprOf, ExprWord, Doubled

-----------------------------------------------------------------------------
(* The actions.                                                             *)

LEMMA VoiceStarts == VoiceInit => VoiceInvariant
  BY DEF VoiceInit, VoiceInvariant, Restored, ExprExact

\* Leaving needs nothing, and what comes next starts without a context.
LEMMA StopKeeps == VoiceInvariant /\ Stop => VoiceInvariant'
  BY DEF VoiceInvariant, Stop, Restored, ExprExact

LEMMA StartKeeps ==
    ASSUME VoiceInvariant, NEW m \in Model, NEW prec \in {"bf16", "int8", "int4"},
           NEW gpu \in BOOLEAN, NEW steer, Start(m, prec, gpu, steer)
    PROVE  VoiceInvariant'
<1> DEFINE o == Opened(m, prec)
           x == [o EXCEPT !.steer = steer]
           y == IF gpu THEN [x EXCEPT !.gpu = Used(x)] ELSE x
<1>1. /\ Context(o) /\ Bare(o) /\ Origin(o) /\ o.exprs = << >> /\ o.w \in [Tensor -> Word]
      /\ o.gpu = Nothing
  BY OpenedIs
<1>2. phase' = "loaded" /\ c' = y /\ UNCHANGED file
  BY DEF Start, Resident
<1> HIDE DEF o
<1>3. DOMAIN x = CtxField /\ \A g \in CtxField \ {"steer"} : x[g] = o[g]
  BY <1>1 DEF Context, CtxField
<1> HIDE DEF x
<1>4. DOMAIN y = CtxField /\ (\A g \in CtxField \ {"steer", "gpu"} : y[g] = o[g])
      /\ (y.gpu = Nothing \/ gpu)
  BY <1>1, <1>3 DEF CtxField
<1> HIDE DEF y
<1>5. /\ y.m = o.m /\ y.prec = o.prec /\ y.w = o.w /\ y.fused = o.fused /\ y.cpfused = o.cpfused
      /\ y.q = o.q /\ y.from = o.from /\ y.exprs = o.exprs /\ y.tpad = o.tpad /\ y.codes = o.codes
  BY <1>4 DEF CtxField
<1>6. Context(y) /\ Bare(y) /\ Origin(y)
  BY <1>1, <1>4, <1>5 DEF Context, Derived, Copies, Bare, Origin
<1> QED BY <1>1, <1>2, <1>5, <1>6 DEF VoiceInvariant, Restored, ExprExact, Bare, NoFile, Context

\* A context as it is before emotion and .expr files.
Voiced(x) == Context(x) /\ x.exprs = << >> /\ x.w \in [Tensor -> Word] /\ Origin(x)

LEMMA NoVoiceKeeps == VoiceInvariant /\ NoVoice => VoiceInvariant'
  BY DEF VoiceInvariant, NoVoice, Bare, NoFile, Restored, ExprExact

LEMMA ExtractKeeps ==
    ASSUME VoiceInvariant, NEW text, Extract(text)
    PROVE  VoiceInvariant'
<1>1. Voiced(c) /\ Bare(c) /\ file' = file /\ phase' = "voiced"
  BY DEF VoiceInvariant, Extract, Voiced
<1>2. DOMAIN c = CtxField
  BY <1>1 DEF Voiced, Context
<1>3. DOMAIN c' = CtxField /\ \A g \in CtxField \ {"emb", "text", "icl", "codes"} : c'[g] = c[g]
  BY <1>2 DEF Extract, CtxField
<1>4. /\ c'.m = c.m /\ c'.prec = c.prec /\ c'.w = c.w /\ c'.fused = c.fused /\ c'.cpfused = c.cpfused
      /\ c'.q = c.q /\ c'.gpu = c.gpu /\ c'.from = c.from /\ c'.exprs = c.exprs
  BY <1>3 DEF CtxField
<1>5. Voiced(c')
  BY <1>1, <1>3, <1>4 DEF Voiced, Context, Derived, Copies, Origin
<1>6. c'.from.f = Nothing
  BY <1>1, <1>4 DEF Bare, NoFile
<1> QED BY <1>1, <1>5, <1>6 DEF VoiceInvariant, Voiced, Restored, ExprExact

LEMMA LoadBinKeeps ==
    ASSUME VoiceInvariant, LoadBin
    PROVE  VoiceInvariant'
<1>1. Voiced(c) /\ Bare(c) /\ file' = file /\ phase' = "voiced"
  BY DEF VoiceInvariant, LoadBin, Voiced
<1>2. DOMAIN c = CtxField
  BY <1>1 DEF Voiced, Context
<1>3. DOMAIN c' = CtxField /\ \A g \in CtxField \ {"emb"} : c'[g] = c[g]
  BY <1>2 DEF LoadBin, CtxField
<1>4. /\ c'.m = c.m /\ c'.prec = c.prec /\ c'.w = c.w /\ c'.fused = c.fused /\ c'.cpfused = c.cpfused
      /\ c'.q = c.q /\ c'.gpu = c.gpu /\ c'.from = c.from /\ c'.exprs = c.exprs
  BY <1>3 DEF CtxField
<1>5. Voiced(c')
  BY <1>1, <1>3, <1>4 DEF Voiced, Context, Derived, Copies, Origin
<1>6. c'.from.f = Nothing
  BY <1>1, <1>4 DEF Bare, NoFile
<1> QED BY <1>1, <1>5, <1>6 DEF VoiceInvariant, Voiced, Restored, ExprExact

LEMMA LoadQvoiceKeeps ==
    ASSUME VoiceInvariant, NEW f \in ({file} \ {Nothing}) \cup OldFile,
           NEW iclOnly \in BOOLEAN, NEW skip \in BOOLEAN, NEW strength \in {0, 1},
           LoadQvoice(f, iclOnly, skip, strength)
    PROVE  VoiceInvariant'
<1> DEFINE x == LoadVoice(c, f, iclOnly, skip, strength)
           how == [f |-> f, icl |-> iclOnly, skip |-> skip, strength |-> strength]
<1>1. CASE x = Nothing
  BY <1>1, StopKeeps DEF LoadQvoice
<1>2. CASE x # Nothing
  <2>1. Voiced(c) /\ Bare(c) /\ phase' = "voiced" /\ c' = [x EXCEPT !.from = how] /\ file' = file
    BY <1>2 DEF VoiceInvariant, Voiced, LoadQvoice
  <2>2. f \in OldFile \/ IsSaved(f)
    BY DEF VoiceInvariant
  <2>3. PICK S : f.sections \in Seq(S) /\ \A s \in S : InWords(s)
    BY <2>2, SavedInWords, VoiceFileAssumption
  <2>4. /\ Context(x) /\ x.w \in [Tensor -> Word] /\ x.m = c.m /\ x.exprs = c.exprs
        /\ iclOnly => \A t \in Tensor : (t \in Projected /\ ~skip) \/ x.w[t] = c.w[t]
    BY <1>2, <2>1, <2>3, LoadKeeps DEF Voiced
  <2>5. IsSaved(f) =>
          /\ x.emb = f.emb /\ x.codes = f.codes
          /\ \A t \in Tensor :
               \/ x.w[t] =
                    IF Len(f.sections) = 4 /\ ~iclOnly
                    THEN IF strength = 0 /\ t \in LayerProj /\ f.sections[4].recs[t].dtype = "delta"
                         THEN Shipped[c.m][t] ELSE f.w[t]
                    ELSE IF t \in Projected /\ ~skip THEN f.w[t] ELSE Shipped[c.m][t]
               \/ /\ Len(f.sections) = 4 /\ ~iclOnly
                  /\ f.of \in Model \ {c.m} /\ f.sections[4].recs[t].dtype = "delta"
          /\ x.pads = IF Len(f.sections) = 4 /\ ~iclOnly THEN Pads(x.w) ELSE f.sections[2].pads
    BY <1>2, <2>1, SavedRestores DEF Voiced
  <2> HIDE DEF x
  <2>6. /\ DOMAIN c' = CtxField /\ c'.from = how
        /\ \A g \in CtxField \ {"from"} : c'[g] = x[g]
    BY <2>1, <2>4 DEF Context, CtxField
  <2>7. how.f = f /\ how.icl = iclOnly /\ how.skip = skip /\ how.strength = strength
    OBVIOUS
  <2> HIDE DEF how
  <2>8. /\ c'.m = x.m /\ c'.prec = x.prec /\ c'.w = x.w /\ c'.fused = x.fused /\ c'.cpfused = x.cpfused
        /\ c'.q = x.q /\ c'.gpu = x.gpu /\ c'.exprs = x.exprs
        /\ c'.emb = x.emb /\ c'.codes = x.codes /\ c'.pads = x.pads
    BY <2>6 DEF CtxField
  <2>9. Context(c')
    BY <2>4, <2>6, <2>8 DEF Context, Derived, Copies
  <2>a. Origin(c')
    <3>1. c.w = Shipped[c.m] /\ c'.m = c.m
      BY <2>1, <2>4, <2>8 DEF Bare
    <3>2. iclOnly => \A t \in Tensor : (t \in Projected /\ ~skip) \/ c'.w[t] = Shipped[c'.m][t]
      BY <2>4, <2>8, <3>1
    <3> QED BY <2>2, <2>6, <2>7, <3>2 DEF Origin
  <2>b. Restored'
    <3> SUFFICES ASSUME f \notin OldFile \cup {Nothing}
                 PROVE  /\ c'.emb = f.emb /\ c'.codes = f.codes
                        /\ \A t \in Tensor : c'.w[t] = Promised(how, t)' \/ Misplaced(how, t)'
                        /\ c'.pads = IF Swaps(how) THEN Pads(c'.w) ELSE f.sections[2].pads
      BY <2>6, <2>7 DEF Restored
    <3>1. IsSaved(f)
      BY <2>2
    <3>2. Swaps(how) <=> (Len(f.sections) = 4 /\ ~iclOnly)
      BY <2>7 DEF Swaps
    <3>3. \A t \in Tensor : Misplaced(how, t)' <=>
            /\ Len(f.sections) = 4 /\ ~iclOnly
            /\ f.of \in Model \ {c.m} /\ f.sections[4].recs[t].dtype = "delta"
      BY <2>4, <2>7, <2>8, <3>2 DEF Misplaced, Swaps
    <3>4. \A t \in Tensor : Promised(how, t)' =
            IF Len(f.sections) = 4 /\ ~iclOnly
            THEN IF strength = 0 /\ t \in LayerProj /\ f.sections[4].recs[t].dtype = "delta"
                 THEN Shipped[c.m][t] ELSE f.w[t]
            ELSE IF t \in Projected /\ ~skip THEN f.w[t] ELSE Shipped[c.m][t]
      BY <2>4, <2>7, <2>8 DEF Promised, Swaps
    <3> QED BY <2>5, <2>8, <3>1, <3>2, <3>3, <3>4
  <2> QED BY <2>1, <2>4, <2>8, <2>9, <2>a, <2>b DEF VoiceInvariant, Voiced, ExprExact
<1> QED BY <1>1, <1>2

LEMMA SaveKeeps ==
    ASSUME VoiceInvariant, NEW target \in Model \cup {Nothing, "missing"}, Save(target)
    PROVE  VoiceInvariant'
<1>1. Voiced(c) /\ Restored /\ c' = c /\ phase' = "saved" /\ phase = "voiced"
  BY DEF VoiceInvariant, Save, Voiced
<1>2. IsSaved(file')
  BY <1>1, SaveSaves DEF Save, Voiced
<1>3. Restored'
  BY <1>1 DEF Restored, Promised, Misplaced
<1> QED BY <1>1, <1>2, <1>3 DEF VoiceInvariant, Voiced, ExprExact

LEMMA ExpressKeeps ==
    ASSUME VoiceInvariant, NEW emotion \in BOOLEAN, NEW sounds \in BOOLEAN, NEW pack \in ExprFile,
           NEW given \in ExprFile \cup {Nothing}, NEW weight \in {0, 1},
           Express(emotion, pack, given, sounds, weight)
    PROVE  VoiceInvariant'
<1> DEFINE x == IF emotion THEN Emoted(c, pack, given, sounds) ELSE c
<1>1. Voiced(c)
  BY DEF VoiceInvariant, Express, Voiced
<1>2. /\ Context(x) /\ x.m = c.m /\ x.from = c.from
      /\ \/ x.exprs = << >> /\ x.w = c.w
         \/ given = Nothing /\ Applied(c, x, pack, 1)
  BY <1>1, EmotedIs DEF Voiced
<1>3. CASE Stop
  BY <1>3, StopKeeps
<1>4. CASE ~Stop
  <2>1. phase' = "ready" /\ file' = file /\ (c' = x \/ (given # Nothing /\ Fits(c, given) /\ c' = Expressed(x, given, weight)))
    BY <1>4 DEF Express
  <2> HIDE DEF x
  <2>2. Context(c') /\ c'.m = c.m /\ c'.from = c.from
        /\ \/ c'.exprs = << >>
           \/ \E e \in ExprFile, s \in {0, 1} : Applied(c, c', e, s)
    <3>1. CASE c' = x
      BY <1>2, <3>1
    <3>2. CASE given # Nothing /\ Fits(c, given) /\ c' = Expressed(x, given, weight)
      <4>1. x.exprs = << >> /\ x.w = c.w /\ ExprHits(given) # {} /\ given \in ExprFile
        BY <1>2, <3>2 DEF Fits
      <4>2. Applied(x, c', given, weight)
        BY <1>2, <3>2, <4>1, ExpressedIs
      <4>3. Applied(c, c', given, weight)
        BY <1>2, <4>1, <4>2 DEF Applied, ExprWord
      <4> QED BY <4>1, <4>3 DEF Applied
    <3> QED BY <2>1, <3>1, <3>2
  <2>3. ExprExact'
    <3> SUFFICES ASSUME c'.exprs # << >>
                 PROVE  /\ Len(c'.exprs) = 1
                        /\ c'.exprs[1].weight = 1 /\ c'.exprs[1].e.of = c'.m /\ c'.from.icl
                           => \A t \in Tensor : c'.w[t] = c'.exprs[1].e.tuned[t] \/ t \in Grafted'
      BY DEF ExprExact
    <3>1. PICK e \in ExprFile, s \in {0, 1} : Applied(c, c', e, s)
      BY <2>2
    <3>2. Len(c'.exprs) = 1 /\ c'.exprs[1].e = e /\ c'.exprs[1].weight = s
      BY <3>1 DEF Applied
    <3>3. ASSUME s = 1, e.of = c.m, c.from.icl, NEW t \in Tensor, t \notin Grafted
          PROVE  c'.w[t] = e.tuned[t]
      <4>1. c.w[t] = Shipped[c.m][t]
        BY <1>1, <3>3 DEF Voiced, Origin, Grafted
      <4> QED BY <3>1, <3>3, <4>1, ExprTunes DEF Applied
    <3>4. Grafted' = Grafted
      BY <2>2 DEF Grafted
    <3> QED BY <2>2, <3>2, <3>3, <3>4
  <2>4. Restored'
    BY <2>1 DEF Restored
  <2> QED BY <2>1, <2>2, <2>3, <2>4 DEF VoiceInvariant
<1> QED BY <1>3, <1>4

LEMMA VoiceStepKeeps == VoiceInvariant /\ [VoiceNext]_voiceVars => VoiceInvariant'
<1> SUFFICES ASSUME VoiceInvariant, [VoiceNext]_voiceVars PROVE VoiceInvariant'
  OBVIOUS
<1>1. ASSUME NEW m \in Model, NEW prec \in {"bf16", "int8", "int4"}, NEW gpu \in BOOLEAN,
             NEW s \in Steering, Start(m, prec, gpu, s)
      PROVE  VoiceInvariant'
  BY <1>1, StartKeeps
<1>2. ASSUME NEW f \in ({file} \ {Nothing}) \cup OldFile, NEW iclOnly \in BOOLEAN,
             NEW skip \in BOOLEAN, NEW s \in {0, 1}, LoadQvoice(f, iclOnly, skip, s)
      PROVE  VoiceInvariant'
  BY <1>2, LoadQvoiceKeeps
<1>3. ASSUME NEW target \in Model \cup {Nothing, "missing"}, Save(target)
      PROVE  VoiceInvariant'
  BY <1>3, SaveKeeps
<1>4. ASSUME NEW emotion \in BOOLEAN, NEW sounds \in BOOLEAN, NEW pack \in ExprFile,
             NEW given \in ExprFile \cup {Nothing}, NEW weight \in {0, 1},
             Express(emotion, pack, given, sounds, weight)
      PROVE  VoiceInvariant'
  BY <1>4, ExpressKeeps
<1>5. CASE UNCHANGED voiceVars
  BY <1>5 DEF voiceVars, VoiceInvariant, Restored, Promised, Misplaced, ExprExact, Grafted
<1>6. CASE VoiceNext
  BY <1>1, <1>2, <1>3, <1>4, <1>6, NoVoiceKeeps, ExtractKeeps, LoadBinKeeps, StopKeeps
     DEF VoiceNext, Exit
<1> QED BY <1>5, <1>6

\* The inductive invariant of the program's life with voices: at every point
\* the context's derived copies are those of its weights, what a loaded voice
\* promises is there, and a saved file says what was saved.
THEOREM VoiceInvariance == VoiceSpec => []VoiceInvariant
  BY VoiceStarts, VoiceStepKeeps, PTL DEF VoiceSpec

\* A file the program saved gives back what it was saved from, whichever way
\* it is loaded and however often it has been saved again, on every model and
\* for every word, but for tensors that were saved as deltas to another model
\* than they are added to: modular deltas to the right tensors lose nothing.
THEOREM VoicesAreRestored == VoiceSpec => []Restored
<1>1. VoiceInvariant => Restored
  BY DEF VoiceInvariant
<1> QED BY <1>1, VoiceInvariance, PTL

\* An .expr file is applied at most once, and at full weight, on the model it
\* was made on and under a voice that left the weights alone, it gives exactly
\* the tuned weights, however they are stored.
THEOREM ExprIsExact == VoiceSpec => []ExprExact
<1>1. VoiceInvariant => ExprExact
  BY DEF VoiceInvariant
<1> QED BY <1>1, VoiceInvariance, PTL

\* Whatever was loaded, saved or applied, the fused rows and the quantized
\* copies a generation multiplies with were made of the weights as they are,
\* but for int4 and for what a GPU took at the start.
THEOREM WeightsAreFresh == VoiceSpec => []Fresh
<1>1. VoiceInvariant => Fresh
  BY DEF VoiceInvariant, Context, Derived, Fresh, Used, Copies, Weights
<1> QED BY <1>1, VoiceInvariance, PTL

-----------------------------------------------------------------------------
(* The kernels: sequences built piece by piece.                            *)

\* A set of naturals that has 0, and with each number the next, has all.
LEMMA Counting ==
    ASSUME NEW G, 0 \in G, \A i \in Nat : i \in G => i + 1 \in G
    PROVE  \A i \in Nat : i \in G
<1> DEFINE Less == {p \in Nat \X Nat : p[1] < p[2]}
           Bad == {i \in Nat : i \notin G}
<1>1. IsWellFoundedOn(Less, Nat)
  BY NatLessThanWellFounded, Zenon DEF OpToRel
<1> HIDE DEF Less
<1> SUFFICES ASSUME Bad # {} PROVE FALSE
  OBVIOUS
<1>2. PICK x \in Bad : \A y \in Bad : <<y, x>> \notin Less
  BY <1>1, WFMin
<1>3. x \in Nat /\ x # 0 /\ x \notin G
  BY <1>2
<1>4. x - 1 \in Nat /\ (x - 1) + 1 = x
  BY <1>3
<1>5. x - 1 \in Bad
  BY <1>3, <1>4
<1> DEFINE p == <<x - 1, x>>
<1>6. p \in Nat \X Nat /\ p[1] < p[2]
  BY <1>3, <1>4
<1>7. p \in Less
  BY <1>6 DEF Less
<1>8. QED
  BY <1>2, <1>5, <1>7

\* f goes through n steps from z, step i by F[i].
Goes(f, z, F, n) ==
    /\ f[0] = z
    /\ \A i \in 1 .. n : f[i] = F[i][f[i - 1]]

\* The steps can be gone.
LEMMA GoesExists ==
    ASSUME NEW n \in Nat, NEW A, NEW z \in A, NEW F \in [1 .. n -> [A -> A]]
    PROVE  \E f \in [0 .. n -> A] : Goes(f, z, F, n)
<1> DEFINE G == {k \in Nat : k <= n => \E f \in [0 .. k -> A] : Goes(f, z, F, k)}
<1>1. 0 \in G
  <2> DEFINE f == [i \in 0 .. 0 |-> z]
  <2>1. f \in [0 .. 0 -> A] /\ Goes(f, z, F, 0)
    BY DEF Goes
  <2>2. QED
    BY <2>1
<1>2. ASSUME NEW k \in Nat, k \in G PROVE k + 1 \in G
  <2> SUFFICES ASSUME k + 1 <= n PROVE \E f \in [0 .. k + 1 -> A] : Goes(f, z, F, k + 1)
    OBVIOUS
  <2>1. PICK f \in [0 .. k -> A] : Goes(f, z, F, k)
    BY <1>2
  <2> DEFINE g == [i \in 0 .. k + 1 |-> IF i = k + 1 THEN F[k + 1][f[k]] ELSE f[i]]
  <2>2. g \in [0 .. k + 1 -> A]
    OBVIOUS
  <2>3. g[0] = z
    BY <2>1 DEF Goes
  <2>4. ASSUME NEW i \in 1 .. k + 1 PROVE g[i] = F[i][g[i - 1]]
    <3>1. CASE i = k + 1
      BY <3>1
    <3>2. CASE i # k + 1
      <4>1. i \in 1 .. k /\ i \in 0 .. k + 1 /\ i - 1 \in 0 .. k + 1 /\ i - 1 # k + 1
        BY <3>2
      <4>2. f[i] = F[i][f[i - 1]]
        BY <2>1, <4>1 DEF Goes
      <4>3. QED
        BY <4>1, <4>2, <3>2
    <3>3. QED
      BY <3>1, <3>2
  <2>5. Goes(g, z, F, k + 1)
    BY <2>3, <2>4 DEF Goes
  <2>6. QED
    BY <2>2, <2>5
<1> HIDE DEF G
<1>3. \A k \in Nat : k \in G
  BY <1>1, <1>2, Counting
<1>4. QED
  BY <1>3 DEF G

\* A sum is made term by term,
LEMMA SumGoes ==
    ASSUME NEW n \in Nat, NEW s \in [1 .. n -> Int]
    PROVE  \E f \in [0 .. n -> Int] : /\ f[0] = 0
                                      /\ \A i \in 1 .. n : f[i] = f[i - 1] + s[i]
                                      /\ Sum(s) = f[n]
<1> DEFINE F == [i \in 1 .. n |-> [a \in Int |-> a + s[i]]]
           Made(f) == f = [i \in 0 .. n |-> IF i = 0 THEN 0 ELSE f[i - 1] + s[i]]
           to == CHOOSE f : Made(f)
<1>1. Len(s) = n
  OBVIOUS
<1>2. F \in [1 .. n -> [Int -> Int]]
  OBVIOUS
<1>3. PICK f \in [0 .. n -> Int] : Goes(f, 0, F, n)
  <2> HIDE DEF F
  <2>1. \E f \in [0 .. n -> Int] : Goes(f, 0, F, n)
    BY <1>2, GoesExists, 0 \in Int
  <2>2. QED
    BY <2>1
<1>4. Made(f)
  <2>1. ASSUME NEW i \in 0 .. n PROVE f[i] = IF i = 0 THEN 0 ELSE f[i - 1] + s[i]
    <3>1. CASE i = 0
      BY <1>3, <3>1 DEF Goes
    <3>2. CASE i # 0
      <4>1. i \in 1 .. n /\ i - 1 \in 0 .. n
        BY <3>2
      <4>2. f[i] = F[i][f[i - 1]] /\ f[i - 1] \in Int
        BY <1>3, <4>1 DEF Goes
      <4>3. F[i][f[i - 1]] = f[i - 1] + s[i]
        BY <4>1, <4>2
      <4>4. QED
        BY <4>2, <4>3, <3>2
    <3>3. QED
      BY <3>1, <3>2
  <2>2. QED
    BY <2>1
<1>5. Made(to)
  BY <1>4, Zenon
<1>6. Sum(s) = to[n]
  BY <1>1 DEF Sum
<1> HIDE DEF to
<1>7. to = [i \in 0 .. n |-> IF i = 0 THEN 0 ELSE to[i - 1] + s[i]]
  BY <1>5, Zenon
<1>8. to[0] = 0 /\ \A i \in 1 .. n : to[i] = to[i - 1] + s[i]
  BY <1>7
<1> DEFINE K == {k \in Nat : k <= n => to[k] \in Int}
<1>9. 0 \in K
  BY <1>8
<1>10. ASSUME NEW k \in Nat, k \in K PROVE k + 1 \in K
  <2> SUFFICES ASSUME k + 1 <= n PROVE to[k + 1] \in Int
    OBVIOUS
  <2>1. k + 1 \in 1 .. n /\ (k + 1) - 1 = k /\ to[k] \in Int
    BY <1>10
  <2>2. to[k + 1] = to[k] + s[k + 1] /\ s[k + 1] \in Int
    BY <1>8, <2>1
  <2>3. QED
    BY <2>1, <2>2
<1> HIDE DEF K
<1>11. \A k \in Nat : k \in K
  BY <1>9, <1>10, Counting
<1>12. to \in [0 .. n -> Int]
  <2>1. \A k \in 0 .. n : to[k] \in Int
    BY <1>11 DEF K
  <2>2. to = [i \in 0 .. n |-> to[i]]
    BY <1>7
  <2>3. QED
    BY <2>1, <2>2
<1>13. QED
  BY <1>6, <1>8, <1>12

\* f runs through the sums of the first terms of s.
Adds(f, s, n) == f[0] = 0 /\ \A i \in 1 .. n : f[i] = f[i - 1] + s[i]

\* ... and is one of integers; f is known by its terms.
LEMMA SumUnique ==
    ASSUME NEW n \in Nat, NEW s \in [1 .. n -> Int], NEW f, Adds(f, s, n)
    PROVE  Sum(s) = f[n] /\ Sum(s) \in Int
<1>0. f[0] = 0 /\ \A i \in 1 .. n : f[i] = f[i - 1] + s[i]
  BY DEF Adds
<1>1. PICK g \in [0 .. n -> Int] : /\ g[0] = 0
                                   /\ \A i \in 1 .. n : g[i] = g[i - 1] + s[i]
                                   /\ Sum(s) = g[n]
  BY SumGoes
<1> DEFINE G == {k \in Nat : k <= n => f[k] = g[k]}
<1>2. 0 \in G
  BY <1>0, <1>1
<1>3. ASSUME NEW k \in Nat, k \in G PROVE k + 1 \in G
  <2> SUFFICES ASSUME k + 1 <= n PROVE f[k + 1] = g[k + 1]
    OBVIOUS
  <2>1. k + 1 \in 1 .. n /\ (k + 1) - 1 = k /\ f[k] = g[k]
    BY <1>3
  <2>2. f[k + 1] = f[k] + s[k + 1] /\ g[k + 1] = g[k] + s[k + 1]
    BY <1>0, <1>1, <2>1
  <2>3. QED
    BY <2>1, <2>2
<1> HIDE DEF G
<1>4. \A k \in Nat : k \in G
  BY <1>2, <1>3, Counting
<1>5. f[n] = g[n]
  BY <1>4 DEF G
<1>6. QED
  BY <1>1, <1>5

\* Term by term s is x and h times y.
Linear(s, x, y, h, n) ==
    /\ n \in Nat /\ h \in Int
    /\ {s, x, y} \subseteq [1 .. n -> Int]
    /\ \A i \in 1 .. n : s[i] = x[i] + h * y[i]

\* The sum of a term of x and h times one of y.
LEMMA SumLinear ==
    ASSUME NEW s, NEW x, NEW y, NEW h, NEW n, Linear(s, x, y, h, n)
    PROVE  /\ Sum(s) = Sum(x) + h * Sum(y)
           /\ Sum(x) \in Int /\ Sum(y) \in Int /\ Sum(s) \in Int
<1> SUFFICES ASSUME n \in Nat, h \in Int,
                    s \in [1 .. n -> Int], x \in [1 .. n -> Int], y \in [1 .. n -> Int],
                    \A i \in 1 .. n : s[i] = x[i] + h * y[i]
             PROVE  /\ Sum(s) = Sum(x) + h * Sum(y)
                    /\ Sum(x) \in Int /\ Sum(y) \in Int /\ Sum(s) \in Int
  BY Zenon DEF Linear
<1>1. PICK f \in [0 .. n -> Int] : /\ f[0] = 0
                                   /\ \A i \in 1 .. n : f[i] = f[i - 1] + x[i]
                                   /\ Sum(x) = f[n]
  BY SumGoes
<1>2. PICK g \in [0 .. n -> Int] : /\ g[0] = 0
                                   /\ \A i \in 1 .. n : g[i] = g[i - 1] + y[i]
                                   /\ Sum(y) = g[n]
  BY SumGoes
<1> DEFINE e == [i \in 0 .. n |-> f[i] + h * g[i]]
<1>3. e[0] = 0
  BY <1>1, <1>2
<1>4. ASSUME NEW i \in 1 .. n PROVE e[i] = e[i - 1] + s[i]
  <2>1. i \in 0 .. n /\ i - 1 \in 0 .. n
    OBVIOUS
  <2>2. f[i - 1] \in Int /\ g[i - 1] \in Int /\ x[i] \in Int /\ y[i] \in Int
    BY <2>1
  <2>3. f[i] = f[i - 1] + x[i] /\ g[i] = g[i - 1] + y[i] /\ s[i] = x[i] + h * y[i]
    BY <1>1, <1>2
  <2>4. \A a, b \in Int : h * (a + b) = h * a + h * b
    OBVIOUS
  <2> DEFINE P == h * g[i - 1]
             Q == h * y[i]
             R == h * g[i]
  <2>5. R = P + Q /\ P \in Int /\ Q \in Int
    <3>1. h * (g[i - 1] + y[i]) = P + Q
      BY <2>2, <2>4, Zenon
    <3>2. h * g[i] = h * (g[i - 1] + y[i])
      BY <2>3, Zenon
    <3>3. P \in Int /\ Q \in Int
      <4>1. \A a \in Int : h * a \in Int
        OBVIOUS
      <4>2. QED
        BY <2>2, <4>1, Zenon
    <3>4. QED
      BY <3>1, <3>2, <3>3, Zenon
  <2>6. e[i] = f[i] + R /\ e[i - 1] = f[i - 1] + P /\ s[i] = x[i] + Q
    BY <2>1, <2>3
  <2> HIDE DEF P, Q, R, e
  <2>7. (f[i - 1] + x[i]) + (P + Q) = (f[i - 1] + P) + (x[i] + Q)
    <3> DEFINE u == f[i - 1]
               v == x[i]
    <3>1. u \in Int /\ v \in Int /\ P \in Int /\ Q \in Int
      BY <2>2, <2>5, Zenon
    <3> HIDE DEF u, v
    <3>2. (u + v) + (P + Q) = (u + P) + (v + Q)
      BY <3>1
    <3>3. QED
      BY <3>2, Zenon DEF u, v
  <2>8. QED
    BY <2>3, <2>5, <2>6, <2>7, Zenon
<1>5. e[n] = f[n] + h * g[n] /\ f[n] \in Int /\ g[n] \in Int
  OBVIOUS
<1> HIDE DEF e
<1>6. Sum(s) = e[n] /\ Sum(s) \in Int
  <2>1. Adds(e, s, n)
    BY <1>3, <1>4, Zenon DEF Adds
  <2>2. QED
    BY <2>1, SumUnique, Zenon
<1>7. QED
  BY <1>1, <1>2, <1>5, <1>6

\* A sum over a sequence is that over its start and that over the rest.
CutInTwo(s, a, b, n, m) ==
    /\ n \in Nat /\ m \in 0 .. n /\ s \in [1 .. n -> Int]
    /\ a \in [1 .. m -> Int] /\ \A i \in 1 .. m : a[i] = s[i]
    /\ b \in [1 .. n - m -> Int] /\ \A i \in 1 .. n - m : b[i] = s[m + i]

LEMMA SumSplit ==
    ASSUME NEW s, NEW a, NEW b, NEW n, NEW m, CutInTwo(s, a, b, n, m)
    PROVE  Sum(s) = Sum(a) + Sum(b) /\ Sum(a) \in Int /\ Sum(b) \in Int
<1> SUFFICES ASSUME n \in Nat, m \in 0 .. n, s \in [1 .. n -> Int],
                    a \in [1 .. m -> Int], \A i \in 1 .. m : a[i] = s[i],
                    b \in [1 .. n - m -> Int], \A i \in 1 .. n - m : b[i] = s[m + i]
             PROVE  Sum(s) = Sum(a) + Sum(b) /\ Sum(a) \in Int /\ Sum(b) \in Int
  BY Zenon DEF CutInTwo
<1>1. PICK f \in [0 .. n -> Int] : /\ f[0] = 0
                                   /\ \A i \in 1 .. n : f[i] = f[i - 1] + s[i]
                                   /\ Sum(s) = f[n]
  BY SumGoes
<1>2. m \in Nat /\ n - m \in Nat
  OBVIOUS
<1>3. Sum(a) = f[m] /\ Sum(a) \in Int
  <2>1. \A i \in 1 .. m : f[i] = f[i - 1] + a[i]
    BY <1>1
  <2>2. Adds(f, a, m)
    BY <1>1, <2>1, Zenon DEF Adds
  <2>3. QED
    BY <1>2, <2>2, SumUnique, Zenon
<1> DEFINE g == [i \in 0 .. n - m |-> f[m + i] - f[m]]
<1>4. g[0] = 0
  BY <1>2
<1>5. ASSUME NEW i \in 1 .. n - m PROVE g[i] = g[i - 1] + b[i]
  <2>1. i \in 0 .. n - m /\ i - 1 \in 0 .. n - m /\ m + i \in 1 .. n /\ (m + i) - 1 = m + (i - 1)
        /\ m + (i - 1) \in 0 .. n /\ m + i \in 0 .. n
    OBVIOUS
  <2>2. f[m + i] = f[m + (i - 1)] + s[m + i] /\ b[i] = s[m + i]
    BY <1>1, <2>1
  <2>3. f[m + (i - 1)] \in Int /\ f[m] \in Int /\ f[m + i] \in Int /\ s[m + i] \in Int
    BY <2>1
  <2>4. QED
    BY <2>1, <2>2, <2>3
<1>6. g[n - m] = f[n] - f[m] /\ f[n] \in Int /\ f[m] \in Int
  OBVIOUS
<1> HIDE DEF g
<1>7. Sum(b) = g[n - m] /\ Sum(b) \in Int
  <2> DEFINE k == n - m
  <2>1. k \in Nat /\ b \in [1 .. k -> Int] /\ g[0] = 0
    BY <1>2, <1>4, Zenon
  <2>2. \A i \in 1 .. k : g[i] = g[i - 1] + b[i]
    BY <1>5, Zenon
  <2> HIDE DEF k
  <2>3. Adds(g, b, k)
    BY <2>1, <2>2, Zenon DEF Adds
  <2>4. Sum(b) = g[k] /\ Sum(b) \in Int
    BY <2>1, <2>3, SumUnique, Zenon
  <2>5. QED
    BY <2>4, Zenon DEF k
<1> DEFINE p == f[n]
           q == f[m]
<1>8. Sum(s) = p /\ Sum(a) = q /\ Sum(b) = p - q
  BY <1>1, <1>3, <1>6, <1>7, Zenon
<1>9. p \in Int /\ q \in Int
  BY <1>6
<1> HIDE DEF p, q
<1>10. QED
  BY <1>8, <1>9

\* f puts n sequences together.
Flattens(f, n, A, seqs) ==
    /\ f \in [0 .. n -> Seq(A)]
    /\ f[0] = <<>>
    /\ \A i \in 1 .. n : f[i] = f[i - 1] \o seqs[i]
    /\ FlattenSeq(seqs) = f[n]

\* A sequence of sequences is put together one by one.
LEMMA FlattenGoes ==
    ASSUME NEW n \in Nat, NEW A, NEW seqs \in [1 .. n -> Seq(A)]
    PROVE  \E f : Flattens(f, n, A, seqs)
<1> DEFINE F == [i \in 1 .. n |-> [a \in Seq(A) |-> a \o seqs[i]]]
           Made(f) == f = [i \in 1 .. n |-> IF i = 1 THEN seqs[i] ELSE f[i - 1] \o seqs[i]]
           flatten == CHOOSE f : Made(f)
<1>1. Len(seqs) = n
  OBVIOUS
<1>2. F \in [1 .. n -> [Seq(A) -> Seq(A)]] /\ <<>> \in Seq(A)
  OBVIOUS
<1>3. PICK f \in [0 .. n -> Seq(A)] : Goes(f, <<>>, F, n)
  <2> HIDE DEF F
  <2>1. \E f \in [0 .. n -> Seq(A)] : Goes(f, <<>>, F, n)
    BY <1>2, GoesExists
  <2>2. QED
    BY <2>1
<1>4. f[0] = <<>> /\ \A i \in 1 .. n : f[i] = f[i - 1] \o seqs[i]
  <2>1. ASSUME NEW i \in 1 .. n PROVE f[i] = f[i - 1] \o seqs[i]
    <3>1. f[i] = F[i][f[i - 1]]
      BY <1>3, Zenon DEF Goes
    <3>1a. f[i - 1] \in Seq(A)
      BY <1>3
    <3>2. F[i] = [a \in Seq(A) |-> a \o seqs[i]]
      OBVIOUS
    <3>3. QED
      BY <3>1, <3>1a, <3>2
  <2>2. f[0] = <<>>
    BY <1>3, Zenon DEF Goes
  <2>3. QED
    BY <2>1, <2>2
<1>4a. n # 0 => f[1] = seqs[1]
  <2> SUFFICES ASSUME n # 0 PROVE f[1] = seqs[1]
    OBVIOUS
  <2>1. 1 \in 1 .. n /\ seqs[1] \in Seq(A) /\ 1 - 1 = 0
    OBVIOUS
  <2>2. f[1] = <<>> \o seqs[1]
    BY <1>4, <2>1
  <2>3. QED
    BY <2>1, <2>2
<1>5. CASE n = 0
  <2>1. FlattenSeq(seqs) = seqs /\ seqs = <<>>
    BY <1>1, <1>5 DEF FlattenSeq
  <2>2. QED
    BY <1>4, <1>5, <2>1 DEF Flattens
<1>6. CASE n # 0
  <2> DEFINE h == [i \in 1 .. n |-> f[i]]
  <2>1. Made(h)
    <3>1. ASSUME NEW i \in 1 .. n PROVE h[i] = IF i = 1 THEN seqs[i] ELSE h[i - 1] \o seqs[i]
      <4>1. CASE i = 1
        <5>1. f[1] = seqs[1]
          BY <1>4a, <4>1
        <5>2. QED
          BY <5>1, <4>1
      <4>2. CASE i # 1
        <5>1. i - 1 \in 1 .. n
          BY <4>2
        <5>2. f[i] = f[i - 1] \o seqs[i]
          BY <1>4
        <5>3. h[i] = f[i] /\ h[i - 1] = f[i - 1]
          BY <5>1
        <5>4. QED
          BY <5>2, <5>3, <4>2
      <4>3. QED
        BY <4>1, <4>2
    <3>2. QED
      BY <3>1, Zenon
  <2>2. Made(flatten)
    BY <2>1, Zenon
  <2>3. FlattenSeq(seqs) = flatten[n]
    <3>1. FlattenSeq(seqs) = (CHOOSE f_1 : f_1 = [i \in 1 .. Len(seqs) |->
                                IF i = 1 THEN seqs[i] ELSE f_1[i - 1] \o seqs[i]])[Len(seqs)]
      BY <1>1, <1>6 DEF FlattenSeq
    <3>2. QED
      BY <1>1, <3>1, Zenon
  <2> HIDE DEF flatten, h
  <2>4. flatten[1] = seqs[1] /\ \A i \in 2 .. n : flatten[i] = flatten[i - 1] \o seqs[i]
    <3>1. ASSUME NEW i \in 1 .. n
          PROVE  flatten[i] = IF i = 1 THEN seqs[i] ELSE flatten[i - 1] \o seqs[i]
      BY <2>2
    <3>2. \A i \in 2 .. n : i \in 1 .. n /\ i # 1
      OBVIOUS
    <3>3. 1 \in 1 .. n
      BY <1>6
    <3> HIDE DEF Made
    <3>4. QED
      BY <3>1, <3>2, <3>3
  <2> DEFINE G == {k \in Nat : k + 1 <= n => flatten[k + 1] = f[k + 1]}
  <2>5. 0 \in G
    <3>1. flatten[1] = f[1] /\ 0 + 1 = 1
      BY <1>4a, <1>6, <2>4
    <3>2. QED
      BY <3>1
  <2>6. ASSUME NEW k \in Nat, k \in G PROVE k + 1 \in G
    <3> SUFFICES ASSUME (k + 1) + 1 <= n PROVE flatten[(k + 1) + 1] = f[(k + 1) + 1]
      OBVIOUS
    <3> DEFINE i == (k + 1) + 1
    <3>1. i \in 2 .. n /\ i \in 1 .. n /\ i - 1 = k + 1 /\ flatten[k + 1] = f[k + 1]
      BY <2>6
    <3>2. flatten[i] = flatten[i - 1] \o seqs[i] /\ f[i] = f[i - 1] \o seqs[i]
      BY <3>1, <2>4, <1>4
    <3> HIDE DEF i
    <3>3. flatten[i] = f[i]
      BY <3>1, <3>2, Zenon
    <3>4. QED
      BY <3>3 DEF i
  <2> HIDE DEF G
  <2>7. \A k \in Nat : k \in G
    BY <2>5, <2>6, Counting
  <2>8. n - 1 \in Nat /\ (n - 1) + 1 = n
    BY <1>6
  <2>9. flatten[n] = f[n]
    <3>1. n - 1 \in Nat /\ (n - 1) + 1 <= n
      BY <1>6
    <3>2. flatten[(n - 1) + 1] = f[(n - 1) + 1]
      BY <2>7, <3>1 DEF G
    <3>3. QED
      BY <2>8, <3>2
  <2>10. QED
    BY <1>4, <2>3, <2>9 DEF Flattens
<1>7. QED
  BY <1>5, <1>6

\* s lists the elements of `all', each at one place.
Lists(s, all) ==
    /\ s \in Seq(all)
    /\ \A x \in all : \E i \in 1 .. Len(s) : s[i] = x
    /\ \A i, j \in 1 .. Len(s) : s[i] = s[j] => i = j

\* Such a list has each once, by their number.
LEMMA ListsOnce ==
    ASSUME NEW all, NEW s, Lists(s, all)
    PROVE  Once(s, all)
<1>1. s \in [1 .. Len(s) -> all] /\ Len(s) \in Nat
  BY DEF Lists
<1>2. s \in Bijection(1 .. Len(s), all)
  BY <1>1 DEF Lists, Bijection, Injection, Surjection, IsInjective
<1>3. Cardinality(all) = Len(s)
  <2>1. ExistsBijection(1 .. Len(s), all)
    BY <1>2 DEF ExistsBijection
  <2>2. QED
    BY <1>1, <2>1, FS_CountingElements
<1>4. DOMAIN s = 1 .. Len(s) /\ Range(s) = all
  <2>1. DOMAIN s = 1 .. Len(s)
    BY <1>1
  <2>2. QED
    BY <1>1, <2>1 DEF Lists, Range
<1>5. QED
  BY <1>3, <1>4 DEF Once

\* A list of A and then one of the rest of B make one of B.
LEMMA ListsConcat ==
    ASSUME NEW A, NEW B, A \subseteq B, NEW s, NEW t, Lists(s, A), Lists(t, B \ A)
    PROVE  Lists(s \o t, B)
<1>1. s \in Seq(A) /\ t \in Seq(B \ A) /\ s \in Seq(B) /\ t \in Seq(B)
  <2>1. s \in [1 .. Len(s) -> A] /\ Len(s) \in Nat /\ t \in [1 .. Len(t) -> B \ A] /\ Len(t) \in Nat
    BY DEF Lists
  <2>2. s \in [1 .. Len(s) -> B] /\ t \in [1 .. Len(t) -> B]
    BY <2>1
  <2>3. QED
    BY <2>1, <2>2 DEF Lists
<1> DEFINE st == s \o t
           m == Len(s)
           n == Len(t)
<1>2. m \in Nat /\ n \in Nat /\ st \in Seq(B) /\ Len(st) = m + n
  BY <1>1, ConcatProperties
<1>3. (\A i \in 1 .. m : st[i] = s[i] /\ s[i] \in A) /\ \A i \in 1 .. n : st[m + i] = t[i] /\ t[i] \in B \ A
  BY <1>1
<1>4. \A i \in 1 .. m + n : i \in 1 .. m \/ (i - m \in 1 .. n /\ i = m + (i - m))
  BY <1>2
<1>5. \A i \in 1 .. m : i \in 1 .. m + n
  BY <1>2
<1>6. \A i \in 1 .. n : m + i \in 1 .. m + n
  BY <1>2
<1> HIDE DEF st, m, n
<1>7. ASSUME NEW x \in B PROVE \E i \in 1 .. m + n : st[i] = x
  <2>1. CASE x \in A
    <3>1. PICK i \in 1 .. m : s[i] = x
      BY <2>1, Zenon DEF Lists, m
    <3>2. st[i] = x /\ i \in 1 .. m + n
      BY <3>1, <1>3, <1>5, Zenon
    <3>3. QED
      BY <3>2, Zenon
  <2>2. CASE x \notin A
    <3>1. PICK i \in 1 .. n : t[i] = x
      BY <2>2 DEF Lists, n
    <3>2. st[m + i] = x /\ m + i \in 1 .. m + n
      BY <3>1, <1>3, <1>6
    <3>3. QED
      BY <3>2
  <2>3. QED
    BY <2>1, <2>2
<1>8. ASSUME NEW i \in 1 .. m + n, NEW j \in 1 .. m + n, st[i] = st[j] PROVE i = j
  <2>1. CASE i \in 1 .. m /\ j \in 1 .. m
    BY <2>1, <1>3, <1>8 DEF Lists, m
  <2>2. CASE i - m \in 1 .. n /\ j - m \in 1 .. n
    <3>1. st[m + (i - m)] = t[i - m] /\ st[m + (j - m)] = t[j - m]
      BY <2>2, <1>3
    <3>2. t[i - m] = t[j - m]
      BY <3>1, <1>2, <1>8
    <3>3. i - m = j - m
      BY <3>2, <2>2 DEF Lists, n
    <3>4. QED
      BY <3>3, <1>2
  <2>3. CASE i \in 1 .. m /\ j - m \in 1 .. n
    <3>1. st[m + (j - m)] = t[j - m] /\ m + (j - m) = j
      BY <2>3, <1>2, <1>3
    <3>2. st[i] \in A /\ st[j] \in B \ A
      BY <3>1, <2>3, <1>3
    <3>3. QED
      BY <3>2, <1>8
  <2>4. CASE j \in 1 .. m /\ i - m \in 1 .. n
    <3>1. st[m + (i - m)] = t[i - m] /\ m + (i - m) = i
      BY <2>4, <1>2, <1>3
    <3>2. st[j] \in A /\ st[i] \in B \ A
      BY <3>1, <2>4, <1>3
    <3>3. QED
      BY <3>2, <1>8
  <2>5. QED
    BY <2>1, <2>2, <2>3, <2>4, <1>4
<1>9. QED
  BY <1>2, <1>7, <1>8 DEF Lists, st

\* A list of a smaller set is a sequence of a larger one.
LEMMA ListsIn ==
    ASSUME NEW A, NEW B, A \subseteq B, NEW s, Lists(s, A)
    PROVE  s \in Seq(B)
<1>1. s \in [1 .. Len(s) -> A] /\ Len(s) \in Nat
  BY DEF Lists
<1>2. s \in [1 .. Len(s) -> B]
  BY <1>1
<1>3. QED
  BY <1>1, <1>2

\* A sequence of n somethings.
Indexed(s, n) == s = [k \in 1 .. n |-> s[k]]

\* Pieces that list what is new of growing sets list the last of the sets.
LEMMA FlatGrows ==
    ASSUME NEW n \in Nat, NEW A, NEW D \in [0 .. n -> SUBSET A], D[0] = {},
           NEW seqs, Indexed(seqs, n),
           \A k \in 1 .. n : D[k - 1] \subseteq D[k] /\ Lists(seqs[k], D[k] \ D[k - 1])
    PROVE  Lists(FlattenSeq(seqs), D[n])
<1>1. seqs \in [1 .. n -> Seq(A)]
  <2>1. ASSUME NEW k \in 1 .. n PROVE seqs[k] \in Seq(A)
    <3>1. D[k] \ D[k - 1] \subseteq A
      OBVIOUS
    <3>2. QED
      BY <3>1, ListsIn
  <2>2. QED
    BY <2>1 DEF Indexed
<1>2. PICK f : Flattens(f, n, A, seqs)
  BY <1>1, FlattenGoes
<1>2a. /\ f \in [0 .. n -> Seq(A)] /\ f[0] = <<>>
       /\ \A i \in 1 .. n : f[i] = f[i - 1] \o seqs[i]
       /\ FlattenSeq(seqs) = f[n]
  BY <1>2 DEF Flattens
<1> DEFINE G == {k \in Nat : k <= n => Lists(f[k], D[k])}
<1>3. 0 \in G
  BY <1>2a DEF Lists
<1>4. ASSUME NEW k \in Nat, k \in G PROVE k + 1 \in G
  <2> SUFFICES ASSUME k + 1 <= n PROVE Lists(f[k + 1], D[k + 1])
    OBVIOUS
  <2>1. k + 1 \in 1 .. n /\ (k + 1) - 1 = k /\ Lists(f[k], D[k])
    BY <1>4
  <2>2. f[k + 1] = f[k] \o seqs[k + 1]
    BY <1>2a, <2>1
  <2>3. D[k] \subseteq D[k + 1] /\ Lists(seqs[k + 1], D[k + 1] \ D[k])
    BY <2>1
  <2>4. Lists(f[k] \o seqs[k + 1], D[k + 1])
    BY <2>1, <2>3, ListsConcat
  <2>5. QED
    BY <2>2, <2>4
<1> HIDE DEF G
<1>5. \A k \in Nat : k \in G
  BY <1>3, <1>4, Counting
<1>6. QED
  BY <1>2a, <1>5 DEF G

\* F[lo], F[lo + 1], ..., F[hi - 1]
Along(F, lo, hi) == [i \in 1 .. hi - lo |-> F[lo + i - 1]]

LEMMA AlongType ==
    ASSUME NEW F, NEW lo \in Nat, NEW hi \in Nat, lo <= hi, NEW A, \A x \in Nat : F[x] \in A
    PROVE  Along(F, lo, hi) \in Seq(A) /\ Len(Along(F, lo, hi)) = hi - lo
<1>1. hi - lo \in Nat /\ \A i \in 1 .. hi - lo : lo + i - 1 \in Nat
  OBVIOUS
<1>2. Along(F, lo, hi) \in [1 .. hi - lo -> A]
  BY <1>1 DEF Along
<1>3. QED
  BY <1>1, <1>2

Consecutive(lo, mid, hi) == lo \in Nat /\ mid \in Nat /\ hi \in Nat /\ lo <= mid /\ mid <= hi

LEMMA AlongConcat ==
    ASSUME NEW F, NEW lo, NEW mid, NEW hi, Consecutive(lo, mid, hi)
    PROVE  Along(F, lo, mid) \o Along(F, mid, hi) = Along(F, lo, hi)
<1> SUFFICES ASSUME lo \in Nat, mid \in Nat, hi \in Nat, lo <= mid, mid <= hi
             PROVE  Along(F, lo, mid) \o Along(F, mid, hi) = Along(F, lo, hi)
  BY DEF Consecutive
<1> DEFINE A == {F[x] : x \in Nat}
           s == Along(F, lo, mid)
           t == Along(F, mid, hi)
           m == mid - lo
           n == hi - mid
<1>1. \A x \in Nat : F[x] \in A
  OBVIOUS
<1>2. s \in Seq(A) /\ t \in Seq(A) /\ Len(s) = m /\ Len(t) = n /\ m \in Nat /\ n \in Nat
  <2> HIDE DEF A
  <2>1. QED
    BY <1>1, AlongType, mid - lo \in Nat, hi - mid \in Nat
<1>3. s \o t = [i \in 1 .. m + n |-> IF i <= m THEN s[i] ELSE t[i - m]]
  <2> HIDE DEF s, t, A, m, n
  <2> DEFINE st == s \o t
  <2>1. st \in Seq(A) /\ Len(st) = m + n
    BY <1>2, ConcatProperties
  <2>2. st = [i \in 1 .. m + n |-> st[i]]
    <3> HIDE DEF st
    <3>1. st \in [1 .. Len(st) -> A]
      BY <2>1
    <3>2. QED
      BY <2>1, <3>1
  <2>3. ASSUME NEW i \in 1 .. m + n PROVE st[i] = IF i <= m THEN s[i] ELSE t[i - m]
    BY <1>2
  <2> HIDE DEF st
  <2>4. st = [i \in 1 .. m + n |-> IF i <= m THEN s[i] ELSE t[i - m]]
    BY <2>2, <2>3
  <2>5. QED
    BY <2>4 DEF st
<1>4. m + n = hi - lo
  OBVIOUS
<1>5. ASSUME NEW i \in 1 .. hi - lo
      PROVE  (IF i <= m THEN s[i] ELSE t[i - m]) = F[lo + i - 1]
  <2>1. CASE i <= m
    BY <2>1 DEF Along
  <2>2. CASE ~(i <= m)
    <3>1. i - m \in 1 .. n /\ mid + (i - m) - 1 = lo + i - 1
      BY <2>2
    <3>2. t[i - m] = F[mid + (i - m) - 1]
      BY <3>1 DEF Along
    <3>3. QED
      BY <3>1, <3>2, <2>2
  <2>3. QED
    BY <2>1, <2>2
<1>6. QED
  <2> HIDE DEF s, t, m, n
  <2>1. s \o t = [i \in 1 .. hi - lo |-> IF i <= m THEN s[i] ELSE t[i - m]]
    BY <1>3, <1>4
  <2>2. s \o t = [i \in 1 .. hi - lo |-> F[lo + i - 1]]
    BY <2>1, <1>5
  <2>3. QED
    BY <2>2 DEF s, t, Along

\* Stretches of F between rising bounds make all of it.
LEMMA FlatSteps ==
    ASSUME NEW n \in Nat, NEW b \in [0 .. n -> Nat], b[0] = 0, NEW F,
           NEW seqs, Indexed(seqs, n),
           \A k \in 1 .. n : b[k - 1] <= b[k] /\ seqs[k] = Along(F, b[k - 1], b[k])
    PROVE  FlattenSeq(seqs) = Along(F, 0, b[n])
<1> DEFINE A == {F[x] : x \in Nat}
<1>0. \A x \in Nat : F[x] \in A
  OBVIOUS
<1> HIDE DEF A
<1>1. seqs \in [1 .. n -> Seq(A)]
  <2>1. ASSUME NEW k \in 1 .. n PROVE seqs[k] \in Seq(A)
    <3>1. b[k - 1] \in Nat /\ b[k] \in Nat
      OBVIOUS
    <3>2. QED
      BY <3>1, <1>0, AlongType
  <2>2. QED
    BY <2>1 DEF Indexed
<1>2. PICK f : Flattens(f, n, A, seqs)
  BY <1>1, FlattenGoes
<1>2a. /\ f \in [0 .. n -> Seq(A)] /\ f[0] = <<>>
       /\ \A i \in 1 .. n : f[i] = f[i - 1] \o seqs[i]
       /\ FlattenSeq(seqs) = f[n]
  BY <1>2 DEF Flattens
<1> DEFINE G == {k \in Nat : k <= n => f[k] = Along(F, 0, b[k])}
<1>3. 0 \in G
  <2>1. Along(F, 0, 0) = <<>>
    BY DEF Along
  <2>2. QED
    BY <1>2a, <2>1
<1>4. ASSUME NEW k \in Nat, k \in G PROVE k + 1 \in G
  <2> SUFFICES ASSUME k + 1 <= n PROVE f[k + 1] = Along(F, 0, b[k + 1])
    OBVIOUS
  <2>1. k + 1 \in 1 .. n /\ (k + 1) - 1 = k /\ f[k] = Along(F, 0, b[k]) /\ k \in 0 .. n
    BY <1>4
  <2>2. f[k + 1] = f[k] \o seqs[k + 1]
    BY <1>2a, <2>1
  <2>3. b[k] \in Nat /\ b[k + 1] \in Nat /\ b[k] <= b[k + 1] /\ seqs[k + 1] = Along(F, b[k], b[k + 1])
    BY <2>1
  <2>4. Along(F, 0, b[k]) \o Along(F, b[k], b[k + 1]) = Along(F, 0, b[k + 1])
    <3>0. 0 \in Nat /\ 0 <= b[k]
      BY <2>3
    <3>1. Consecutive(0, b[k], b[k + 1])
      BY <2>3, <3>0 DEF Consecutive
    <3>2. QED
      BY <3>1, AlongConcat
  <2>5. QED
    BY <2>1, <2>2, <2>3, <2>4
<1> HIDE DEF G
<1>5. \A k \in Nat : k \in G
  BY <1>3, <1>4, Counting
<1>6. QED
  BY <1>2a, <1>5 DEF G

\* A list moved by a one-to-one map lists what it is moved to.
LEMMA ListsMoved ==
    ASSUME NEW A, NEW B, NEW s, Lists(s, A), NEW t, t = [i \in DOMAIN s |-> t[i]],
           NEW g \in [A -> B], \A x, y \in A : g[x] = g[y] => x = y,
           \A y \in B : \E x \in A : g[x] = y,
           \A i \in DOMAIN s : t[i] = g[s[i]]
    PROVE  Lists(t, B)
<1>1. s \in [1 .. Len(s) -> A] /\ Len(s) \in Nat /\ DOMAIN s = 1 .. Len(s)
  BY DEF Lists
<1>2. \A i \in 1 .. Len(s) : t[i] = g[s[i]] /\ s[i] \in A
  BY <1>1
<1>3. t \in Seq(B) /\ Len(t) = Len(s)
  <2>1. t \in [1 .. Len(s) -> B]
    BY <1>1, <1>2
  <2>2. QED
    BY <1>1, <2>1
<1>4. ASSUME NEW y \in B PROVE \E i \in 1 .. Len(s) : t[i] = y
  <2>1. PICK x \in A : g[x] = y
    OBVIOUS
  <2>2. PICK i \in 1 .. Len(s) : s[i] = x
    BY DEF Lists
  <2>3. t[i] = g[s[i]]
    BY <1>2
  <2>4. QED
    BY <2>1, <2>2, <2>3
<1>5. ASSUME NEW i \in 1 .. Len(s), NEW j \in 1 .. Len(s), t[i] = t[j] PROVE i = j
  <2>1. s[i] = s[j]
    BY <1>2, <1>5
  <2>2. QED
    BY <2>1 DEF Lists
<1>6. QED
  BY <1>3, <1>4, <1>5 DEF Lists

\* F along its domain lists its values when they differ.
LEMMA AlongLists ==
    ASSUME NEW n \in Nat, NEW B, NEW F, \A x \in 0 .. n - 1 : F[x] \in B,
           \A x, y \in 0 .. n - 1 : F[x] = F[y] => x = y,
           \A y \in B : \E x \in 0 .. n - 1 : F[x] = y
    PROVE  Lists(Along(F, 0, n), B)
<1> DEFINE s == [i \in 1 .. n |-> F[i - 1]]
<1>1. Along(F, 0, n) = s
  BY DEF Along
<1>2. \A i \in 1 .. n : i - 1 \in 0 .. n - 1
  OBVIOUS
<1>3. s \in [1 .. n -> B]
  BY <1>2
<1>4. s \in Seq(B) /\ Len(s) = n
  BY <1>3
<1>5. ASSUME NEW y \in B PROVE \E i \in 1 .. n : s[i] = y
  <2>1. PICK x \in 0 .. n - 1 : F[x] = y
    OBVIOUS
  <2>2. x + 1 \in 1 .. n /\ (x + 1) - 1 = x
    OBVIOUS
  <2>3. QED
    BY <2>1, <2>2
<1>6. ASSUME NEW i \in 1 .. n, NEW j \in 1 .. n, s[i] = s[j] PROVE i = j
  <2>1. i - 1 = j - 1
    BY <1>2, <1>6
  <2>2. QED
    BY <2>1
<1> HIDE DEF s
<1>7. QED
  BY <1>1, <1>4, <1>5, <1>6 DEF Lists

-----------------------------------------------------------------------------
(* The kernels: loops and rows.                                            *)

LEMMA Commutes ==
    ASSUME NEW p \in Nat, NEW q \in Nat
    PROVE  p * q = q * p /\ p * q \in Nat
<1>1. p * q = q * p
  OBVIOUS
<1>2. p * q \in Nat
  OBVIOUS
<1>3. QED
  BY <1>1, <1>2

LEMMA Division ==
    ASSUME NEW a \in Nat, NEW n \in Nat \ {0}
    PROVE  \E q \in Nat, r \in 0 .. n - 1 :
             /\ q = a \div n /\ r = a % n
             /\ a = n * q + r /\ n * q \in Nat /\ q * n = n * q
<1>1. PICK q, r : q = a \div n /\ r = a % n
  OBVIOUS
<1>2. a \in Int /\ n \in Int /\ n > 0
  OBVIOUS
<1>3. a = n * q + r
  BY <1>1, <1>2
<1>4. q \in Nat /\ r \in 0 .. n - 1
  BY <1>1
<1>5. n * q = q * n /\ n * q \in Nat
  BY <1>4, Commutes
<1>6. QED
  BY <1>1, <1>3, <1>4, <1>5, Zenon

LEMMA Monotone ==
    ASSUME NEW n \in Nat, NEW p \in Nat, NEW q \in Nat, p <= q
    PROVE  n * p <= n * q /\ p * n <= q * n
<1>1. q - p \in Nat /\ p + (q - p) = q
  OBVIOUS
<1>2. \A d \in Nat : n * (p + d) = n * p + n * d /\ n * d \in Nat /\ n * p \in Nat
  OBVIOUS
<1>3. n * q = n * p + n * (q - p) /\ n * (q - p) \in Nat /\ n * p \in Nat
  BY <1>1, <1>2
<1>4. n * p <= n * q
  BY <1>3
<1>5. p * n = n * p /\ q * n = n * q
  OBVIOUS
<1>6. QED
  BY <1>4, <1>5

\* Division keeps the order, and undoes a multiplication.
LEMMA DivisionMonotone ==
    ASSUME NEW n \in Nat \ {0}, NEW a \in Nat, NEW b \in Nat, a <= b
    PROVE  a \div n <= b \div n
<1> DEFINE Divided(x) == \E q \in Nat, r \in 0 .. n - 1 :
                           q = x \div n /\ x = n * q + r /\ n * q \in Nat
<1>0. Divided(a) /\ Divided(b)
  <2>1. ASSUME NEW x \in Nat PROVE Divided(x)
    BY Division
  <2> HIDE DEF Divided
  <2>2. QED
    BY <2>1
<1>1. PICK p \in Nat, cut \in 0 .. n - 1 : p = a \div n /\ a = n * p + cut /\ n * p \in Nat
  BY <1>0
<1>2. PICK q \in Nat, r \in 0 .. n - 1 : q = b \div n /\ b = n * q + r /\ n * q \in Nat
  BY <1>0
<1>3. ASSUME q + 1 <= p PROVE FALSE
  <2>1. q + 1 \in Nat
    OBVIOUS
  <2>2. n * (q + 1) <= n * p
    BY <1>3, <2>1, Monotone
  <2>3. n * (q + 1) = n * q + n
    OBVIOUS
  <2>4. QED
    BY <1>1, <1>2, <2>2, <2>3
<1>4. p <= q
  BY <1>3
<1>5. QED
  BY <1>1, <1>2, <1>4, Zenon

LEMMA DivisionExact ==
    ASSUME NEW n \in Nat \ {0}, NEW a \in Nat, NEW cut \in 0 .. n - 1,
           NEW b, b = n * a + cut
    PROVE  b \div n = a
<1>0. n * a \in Nat /\ b \in Nat
  BY Commutes
<1>1. PICK q \in Nat, r \in 0 .. n - 1 : q = b \div n /\ b = n * q + r /\ n * q \in Nat
  BY <1>0, Division, Zenon
<1>2. ASSUME q + 1 <= a PROVE FALSE
  <2>0. q + 1 \in Nat
    OBVIOUS
  <2>1. n * (q + 1) <= n * a
    BY <1>2, <2>0, Monotone
  <2>2. n * (q + 1) = n * q + n
    OBVIOUS
  <2>3. QED
    BY <1>0, <1>1, <2>1, <2>2
<1>3. ASSUME a + 1 <= q PROVE FALSE
  <2>0. a + 1 \in Nat
    OBVIOUS
  <2>1. n * (a + 1) <= n * q
    BY <1>3, <2>0, Monotone
  <2>2. n * (a + 1) = n * a + n
    OBVIOUS
  <2>3. QED
    BY <1>0, <1>1, <2>1, <2>2
<1>4. q = a
  BY <1>2, <1>3
<1>5. QED
  BY <1>1, <1>4, Zenon

\* Where turn k of the loops has come to.
EndOf(taken, k) == IF k = 0 THEN 0 ELSE taken[k][1] + taken[k][2]

\* Turns of widths W, each from where the one before ends, as far as `at'.
Stairs(taken, at, W) ==
    /\ taken \in Seq(Nat \X W)
    /\ \A k \in 1 .. Len(taken) : taken[k][1] = EndOf(taken, k - 1)
    /\ EndOf(taken, Len(taken)) = at

LEMMA LoopStairs ==
    ASSUME NEW n \in Nat, NEW W \in SUBSET (Nat \ {0}), NEW w \in W, NEW at \in 0 .. n,
           NEW taken, Stairs(taken, at, W), NEW done, done.at = at, done.taken = taken
    PROVE  /\ Loop(done, n, w).at \in 0 .. n /\ n - Loop(done, n, w).at < w
           /\ Stairs(Loop(done, n, w).taken, Loop(done, n, w).at, W)
<1> DEFINE d == (n - at) \div w
           new == [j \in 1 .. d |-> <<at + (j - 1) * w, w>>]
           m == Len(taken)
           all == taken \o new
<1>1. w \in Nat \ {0} /\ n - at \in Nat
  OBVIOUS
<1>2. d \in Nat /\ d * w \in Nat /\ d * w <= n - at /\ n - at < d * w + w
  <2>1. PICK q \in Nat, r \in 0 .. w - 1 :
           q = (n - at) \div w /\ n - at = w * q + r /\ w * q \in Nat /\ q * w = w * q
    BY <1>1, Division
  <2>2. q * w \in Nat /\ q * w <= n - at /\ n - at < q * w + w
    BY <2>1, <1>1
  <2>3. QED
    BY <2>1, <2>2
<1>3. Loop(done, n, w) = [at |-> at + d * w, taken |-> all]
  BY DEF Loop
<1> HIDE DEF d
<1>4. ASSUME NEW j \in 1 .. d
      PROVE  (j - 1) * w \in Nat /\ (j - 1) * w + w = j * w /\ new[j] = <<at + (j - 1) * w, w>>
             /\ new[j] \in Nat \X W
  <2>1. \A i \in Nat : i * w \in Nat /\ i * w + w = (i + 1) * w
    BY <1>1
  <2>2. j - 1 \in Nat /\ (j - 1) + 1 = j
    BY <1>2
  <2>3. (j - 1) * w \in Nat /\ (j - 1) * w + w = j * w
    BY <2>1, <2>2
  <2>4. at + (j - 1) * w \in Nat
    BY <2>3
  <2>5. QED
    BY <2>3, <2>4
<1>5. new \in Seq(Nat \X W) /\ Len(new) = d
  <2>1. new \in [1 .. d -> Nat \X W]
    <3>1. \A j \in 1 .. d : new[j] \in Nat \X W
      BY <1>4
    <3>2. QED
      BY <3>1
  <2>2. QED
    BY <2>1, <1>2
<1>6. taken \in Seq(Nat \X W) /\ m \in Nat
  BY DEF Stairs
<1>7. all \in Seq(Nat \X W) /\ Len(all) = m + d
  <2> HIDE DEF new
  <2>1. QED
    BY <1>5, <1>6, ConcatProperties
<1>8. (\A k \in 1 .. m : all[k] = taken[k]) /\ \A j \in 1 .. d : all[m + j] = new[j]
  <2> HIDE DEF new
  <2>1. QED
    BY <1>5, <1>6
<1> HIDE DEF all, new, m
<1>9. \A k \in 0 .. m : EndOf(all, k) = EndOf(taken, k)
  BY <1>8, <1>6 DEF EndOf
<1>10. ASSUME NEW j \in 0 .. d PROVE EndOf(all, m + j) = at + j * w
  <2>1. CASE j = 0
    <3>1. EndOf(all, m + j) = at
      BY <2>1, <1>6, <1>9 DEF Stairs, m
    <3>2. 0 * w = 0
      BY <1>1
    <3>3. QED
      BY <3>1, <3>2, <2>1
  <2>2. CASE j # 0
    <3>1. j \in 1 .. d
      BY <2>2
    <3>2. all[m + j] = <<at + (j - 1) * w, w>> /\ m + j # 0
      BY <3>1, <1>4, <1>6, <1>8
    <3>3. EndOf(all, m + j) = (at + (j - 1) * w) + w
      BY <3>2 DEF EndOf
    <3>4. (j - 1) * w \in Nat /\ (j - 1) * w + w = j * w
      BY <3>1, <1>4
    <3>5. QED
      BY <3>3, <3>4, <1>1
  <2>3. QED
    BY <2>1, <2>2
<1>11. ASSUME NEW k \in 1 .. m + d PROVE all[k][1] = EndOf(all, k - 1)
  <2>1. CASE k <= m
    <3>1. k \in 1 .. m /\ k - 1 \in 0 .. m
      BY <2>1, <1>6
    <3>2. taken[k][1] = EndOf(taken, k - 1)
      BY <3>1 DEF Stairs, m
    <3>3. QED
      BY <3>1, <3>2, <1>8, <1>9
  <2>2. CASE ~(k <= m)
    <3> DEFINE j == k - m
    <3>1. j \in 1 .. d /\ k = m + j /\ j - 1 \in 0 .. d /\ k - 1 = m + (j - 1)
      BY <2>2, <1>2, <1>6
    <3> HIDE DEF j
    <3>2. all[k] = <<at + (j - 1) * w, w>>
      BY <3>1, <1>4, <1>8
    <3>3. EndOf(all, k - 1) = at + (j - 1) * w
      BY <3>1, <1>10
    <3>4. QED
      BY <3>2, <3>3
  <2>3. QED
    BY <2>1, <2>2
<1>12. EndOf(all, m + d) = at + d * w
  BY <1>2, <1>10
<1>13. at + d * w \in 0 .. n /\ n - (at + d * w) < w
  <2> DEFINE P == d * w
  <2>1. P \in Nat /\ P <= n - at /\ n - at < P + w
    BY <1>2
  <2> HIDE DEF P
  <2>2. at + P \in 0 .. n /\ n - (at + P) < w
    BY <2>1, <1>1
  <2>3. QED
    BY <2>2 DEF P
<1>14. Stairs(all, at + d * w, W)
  BY <1>7, <1>11, <1>12 DEF Stairs
<1>15. QED
  BY <1>3, <1>13, <1>14

FromZero == [at |-> 0, taken |-> <<>>]

\* f goes through the loops.
Looped(f, n, widths) ==
    f = [i \in 0 .. Len(widths) |-> IF i = 0 THEN FromZero ELSE Loop(f[i - 1], n, widths[i])]

\* Where the loops may be.
Places(n, W) == {d \in [at : 0 .. n, taken : Seq(Nat \X W)] : Stairs(d.taken, d.at, W)}

LEMMA StartPlace == ASSUME NEW n \in Nat, NEW W PROVE FromZero \in Places(n, W)
<1>1. 0 \in 0 .. n /\ <<>> \in Seq(Nat \X W) /\ Len(<<>>) = 0
  OBVIOUS
<1>2. Stairs(<<>>, 0, W)
  BY <1>1 DEF Stairs, EndOf
<1>3. QED
  BY <1>1, <1>2 DEF FromZero, Places

LEMMA LoopPlace ==
    ASSUME NEW n \in Nat, NEW W \in SUBSET (Nat \ {0}), NEW w \in W, NEW d \in Places(n, W)
    PROVE  Loop(d, n, w) \in Places(n, W) /\ n - Loop(d, n, w).at < w
<1>1. d.at \in 0 .. n /\ Stairs(d.taken, d.at, W)
  BY DEF Places
<1> DEFINE e == Loop(d, n, w)
<1>2. e.at \in 0 .. n /\ n - e.at < w /\ Stairs(e.taken, e.at, W)
  BY <1>1, LoopStairs
<1>3. e = [at |-> e.at, taken |-> e.taken]
  BY DEF Loop
<1> HIDE DEF e
<1>4. e.taken \in Seq(Nat \X W)
  BY <1>2 DEF Stairs
<1>5. e \in Places(n, W)
  BY <1>2, <1>3, <1>4 DEF Places
<1>6. QED
  BY <1>2, <1>5 DEF e

\* The loops end, and somewhere.
LEMMA LoopsGo ==
    ASSUME NEW n \in Nat, NEW W \in SUBSET (Nat \ {0}), NEW widths \in Seq(W)
    PROVE  \E f : /\ Looped(f, n, widths)
                  /\ Loops(n, widths) = f[Len(widths)].taken
                  /\ \A i \in 0 .. Len(widths) : f[i] \in Places(n, W)
<1> DEFINE m == Len(widths)
           A == Places(n, W)
           F == [i \in 1 .. m |-> [d \in A |-> Loop(d, n, widths[i])]]
           done == CHOOSE f : Looped(f, n, widths)
<1>1. m \in Nat /\ \A i \in 1 .. m : widths[i] \in W
  OBVIOUS
<1>2. FromZero \in A
  BY StartPlace
<1>3. F \in [1 .. m -> [A -> A]]
  <2>1. ASSUME NEW i \in 1 .. m, NEW d \in A PROVE Loop(d, n, widths[i]) \in A
    BY <1>1, LoopPlace
  <2> HIDE DEF A, m
  <2>2. QED
    BY <2>1
<1> HIDE DEF A, m
<1>4. PICK f \in [0 .. m -> A] : Goes(f, FromZero, F, m)
  <2> HIDE DEF F
  <2>1. \E f \in [0 .. m -> A] : Goes(f, FromZero, F, m)
    BY <1>1, <1>2, <1>3, GoesExists
  <2>2. QED
    BY <2>1
<1>5. Looped(f, n, widths)
  <2>1. ASSUME NEW i \in 0 .. m
        PROVE  f[i] = IF i = 0 THEN FromZero ELSE Loop(f[i - 1], n, widths[i])
    <3>1. CASE i = 0
      BY <1>4, <3>1 DEF Goes
    <3>2. CASE i # 0
      <4>1. i \in 1 .. m /\ i - 1 \in 0 .. m
        BY <3>2, <1>1
      <4>2. f[i] = F[i][f[i - 1]] /\ f[i - 1] \in A
        BY <1>4, <4>1 DEF Goes
      <4>3. F[i][f[i - 1]] = Loop(f[i - 1], n, widths[i])
        BY <4>1, <4>2
      <4>4. QED
        BY <4>2, <4>3, <3>2
    <3>3. QED
      BY <3>1, <3>2
  <2>2. f = [i \in 0 .. m |-> IF i = 0 THEN FromZero ELSE Loop(f[i - 1], n, widths[i])]
    <3> HIDE DEF F
    <3>1. f = [i \in 0 .. m |-> f[i]]
      BY <1>4
    <3>2. QED
      BY <2>1, <3>1, Zenon
  <2>3. QED
    BY <2>2 DEF Looped, m
<1>6. Looped(done, n, widths)
  BY <1>5, Zenon
<1>7. Loops(n, widths) = done[m].taken
  <2>1. Loops(n, widths) =
          (CHOOSE g : g = [i \in 0 .. Len(widths) |->
                             IF i = 0 THEN [at |-> 0, taken |-> <<>>]
                             ELSE Loop(g[i - 1], n, widths[i])])[Len(widths)].taken
    BY Zenon DEF Loops
  <2>2. QED
    BY <2>1, Zenon DEF Looped, FromZero, m
<1> HIDE DEF done
<1>8. done = [i \in 0 .. m |-> IF i = 0 THEN FromZero ELSE Loop(done[i - 1], n, widths[i])]
  BY <1>6 DEF Looped, m
<1> DEFINE G == {k \in Nat : k <= m => done[k] \in A}
<1>9. 0 \in G
  <2>1. 0 \in 0 .. m
    BY <1>1
  <2>2. done[0] = FromZero
    BY <1>8, <2>1
  <2>3. QED
    BY <1>2, <2>2
<1>10. ASSUME NEW k \in Nat, k \in G PROVE k + 1 \in G
  <2> SUFFICES ASSUME k + 1 <= m PROVE done[k + 1] \in A
    OBVIOUS
  <2>1. k + 1 \in 0 .. m /\ k + 1 \in 1 .. m /\ (k + 1) - 1 = k /\ k + 1 # 0 /\ done[k] \in A
    BY <1>1, <1>10
  <2>2. done[k + 1] = Loop(done[k], n, widths[k + 1])
    BY <1>8, <2>1
  <2>3. Loop(done[k], n, widths[k + 1]) \in A
    BY <2>1, <1>1, LoopPlace DEF A
  <2>4. QED
    BY <2>2, <2>3
<1> HIDE DEF G
<1>11. \A k \in Nat : k \in G
  BY <1>9, <1>10, Counting
<1>12. \A k \in 0 .. m : done[k] \in A
  BY <1>11 DEF G
<1>13. QED
  BY <1>6, <1>7, <1>12 DEF A, m

LoopsReach(n, widths, W) ==
    \E at \in 0 .. n :
        /\ Stairs(Loops(n, widths), at, W)
        /\ Len(widths) > 0 /\ widths[Len(widths)] = 1 => at = n

LEMMA LoopsAre ==
    ASSUME NEW n \in Nat, NEW W \in SUBSET (Nat \ {0}), NEW widths \in Seq(W)
    PROVE  LoopsReach(n, widths, W)
<1> DEFINE m == Len(widths)
<1>1. PICK f : /\ Looped(f, n, widths)
               /\ Loops(n, widths) = f[m].taken
               /\ \A i \in 0 .. m : f[i] \in Places(n, W)
  BY LoopsGo
<1>2. m \in Nat /\ m \in 0 .. m /\ \A i \in 1 .. m : widths[i] \in W
  OBVIOUS
<1>3. f[m] \in Places(n, W)
  BY <1>1, <1>2
<1>4. f[m].at \in 0 .. n /\ Stairs(f[m].taken, f[m].at, W)
  BY <1>3 DEF Places
<1>5. ASSUME m > 0, widths[m] = 1 PROVE f[m].at = n
  <2>1. m \in 1 .. m /\ m - 1 \in 0 .. m /\ m # 0
    BY <1>2, <1>5
  <2>2. f[m] = Loop(f[m - 1], n, widths[m])
    <3>1. f = [i \in 0 .. m |-> IF i = 0 THEN FromZero ELSE Loop(f[i - 1], n, widths[i])]
      BY <1>1 DEF Looped
    <3> HIDE DEF m
    <3>2. QED
      BY <1>2, <2>1, <3>1
  <2>3. f[m - 1] \in Places(n, W) /\ widths[m] \in W
    BY <1>1, <1>2, <2>1
  <2>4. n - Loop(f[m - 1], n, widths[m]).at < widths[m]
    BY <2>3, LoopPlace
  <2>5. n - f[m].at < 1
    BY <2>2, <2>4, <1>5
  <2>6. QED
    BY <2>5, <1>4
<1>6. QED
  BY <1>1, <1>4, <1>5 DEF LoopsReach

\* One loop.
LEMMA LoopsOne ==
    ASSUME NEW n \in Nat, NEW w \in Nat \ {0}
    PROVE  Loops(n, <<w>>) = [j \in 1 .. n \div w |-> <<(j - 1) * w, w>>]
<1> DEFINE W == Nat \ {0}
<1>1. <<w>> \in Seq(W) /\ Len(<<w>>) = 1 /\ <<w>>[1] = w /\ W \in SUBSET (Nat \ {0})
  OBVIOUS
<1> HIDE DEF W
<1>2. PICK f : Looped(f, n, <<w>>) /\ Loops(n, <<w>>) = f[1].taken
  BY <1>1, LoopsGo
<1>3. f = [i \in 0 .. 1 |-> IF i = 0 THEN FromZero ELSE Loop(f[i - 1], n, <<w>>[i])]
  BY <1>1, <1>2 DEF Looped
<1>4. f[1] = Loop(FromZero, n, w)
  <2>1. f[0] = FromZero /\ f[1] = Loop(f[0], n, <<w>>[1])
    BY <1>3
  <2>2. QED
    BY <1>1, <2>1
<1>5. f[1].taken = <<>> \o [j \in 1 .. (n - 0) \div w |-> <<0 + (j - 1) * w, w>>]
  BY <1>4 DEF Loop, FromZero
<1>6. (n - 0) \div w = n \div w /\ n \div w \in Nat
  <2>1. n - 0 = n
    OBVIOUS
  <2>2. n \div w \in Nat
    BY Division, Zenon
  <2>3. QED
    BY <2>1, <2>2, Zenon
<1> DEFINE s == [j \in 1 .. n \div w |-> <<(j - 1) * w, w>>]
<1>7. s \in Seq(Nat \X Nat)
  <2>1. ASSUME NEW j \in 1 .. n \div w PROVE (j - 1) * w \in Nat /\ 0 + (j - 1) * w = (j - 1) * w
    <3>1. j - 1 \in Nat
      BY <1>6
    <3>2. (j - 1) * w \in Nat
      BY <3>1, Commutes
    <3>3. QED
      BY <3>2
  <2>2. s \in [1 .. n \div w -> Nat \X Nat]
    BY <2>1
  <2> HIDE DEF s
  <2>3. QED
    BY <1>6, <2>2
<1>8. [j \in 1 .. (n - 0) \div w |-> <<0 + (j - 1) * w, w>>] = s
  <2>1. ASSUME NEW j \in 1 .. n \div w PROVE 0 + (j - 1) * w = (j - 1) * w
    <3>1. j - 1 \in Nat
      BY <1>6
    <3>2. (j - 1) * w \in Nat
      BY <3>1, Commutes
    <3>3. QED
      BY <3>2
  <2>2. [j \in 1 .. n \div w |-> <<0 + (j - 1) * w, w>>] = s
    BY <2>1
  <2>3. QED
    BY <1>6, <2>2
<1> HIDE DEF s
<1>9. <<>> \o s = s
  BY <1>7
<1>10. QED
  BY <1>2, <1>5, <1>8, <1>9 DEF s

Itself == [x \in Nat |-> x]

LEMMA UptoIs ==
    ASSUME NEW lo \in Nat, NEW hi \in Nat
    PROVE  Upto(lo, hi) = Along(Itself, lo, hi)
<1>1. ASSUME NEW i \in 1 .. hi - lo PROVE lo + i - 1 = Itself[lo + i - 1]
  <2>1. lo + i - 1 \in Nat
    OBVIOUS
  <2>2. QED
    BY <2>1 DEF Itself
<1>2. QED
  BY <1>1 DEF Upto, Along

LEMMA PairParts ==
    ASSUME NEW A, NEW B, NEW x, x \in A \X B
    PROVE  x = <<x[1], x[2]>> /\ x[1] \in A /\ x[2] \in B
OBVIOUS

\* The bounds of turns rise.
LEMMA StairsRise ==
    ASSUME NEW W \in SUBSET (Nat \ {0}), NEW at, NEW taken, Stairs(taken, at, W)
    PROVE  /\ Len(taken) \in Nat /\ DOMAIN taken = 1 .. Len(taken)
           /\ \A k \in 0 .. Len(taken) : EndOf(taken, k) \in Nat
           /\ \A k \in 1 .. Len(taken) :
                /\ taken[k] = <<taken[k][1], taken[k][2]>>
                /\ taken[k][1] = EndOf(taken, k - 1) /\ taken[k][2] \in W
                /\ EndOf(taken, k) = taken[k][1] + taken[k][2]
                /\ EndOf(taken, k - 1) <= EndOf(taken, k)
<1> DEFINE m == Len(taken)
<1>1. m \in Nat /\ DOMAIN taken = 1 .. m /\ \A k \in 1 .. m : taken[k] \in Nat \X W
  BY DEF Stairs
<1>2. ASSUME NEW k \in 1 .. m
      PROVE  /\ taken[k] = <<taken[k][1], taken[k][2]>> /\ taken[k][1] \in Nat
             /\ taken[k][2] \in W /\ taken[k][2] \in Nat
             /\ taken[k][1] = EndOf(taken, k - 1)
             /\ EndOf(taken, k) = taken[k][1] + taken[k][2]
  <2>1. taken[k] \in Nat \X W
    BY <1>1
  <2>2. taken[k][1] = EndOf(taken, k - 1)
    BY DEF Stairs
  <2>3. EndOf(taken, k) = taken[k][1] + taken[k][2]
    BY DEF EndOf
  <2>4. taken[k] = <<taken[k][1], taken[k][2]>> /\ taken[k][1] \in Nat /\ taken[k][2] \in W
    BY <2>1, PairParts, Zenon
  <2>5. taken[k][2] \in Nat
    BY <2>4
  <2>6. QED
    BY <2>2, <2>3, <2>4, <2>5
<1> HIDE DEF m
<1>3. ASSUME NEW k \in 0 .. m PROVE EndOf(taken, k) \in Nat
  <2>1. CASE k = 0
    BY <2>1 DEF EndOf
  <2>2. CASE k # 0
    <3>1. k \in 1 .. m
      BY <2>2
    <3>2. QED
      BY <3>1, <1>2
  <2>3. QED
    BY <2>1, <2>2
<1>4. ASSUME NEW k \in 1 .. m PROVE EndOf(taken, k - 1) <= EndOf(taken, k)
  BY <1>2
<1>5. QED
  BY <1>1, <1>2, <1>3, <1>4 DEF m

\* What turns touch.
LEMMA StairsTouch ==
    ASSUME NEW W \in SUBSET (Nat \ {0}), NEW at, NEW taken, Stairs(taken, at, W)
    PROVE  FlattenSeq([k \in DOMAIN taken |-> Upto(taken[k][1], taken[k][1] + taken[k][2])])
             = Along(Itself, 0, at)
<1> DEFINE m == Len(taken)
           b == [k \in 0 .. m |-> EndOf(taken, k)]
           seqs == [k \in 1 .. m |-> Upto(taken[k][1], taken[k][1] + taken[k][2])]
<1>1. m \in Nat /\ DOMAIN taken = 1 .. m /\ \A k \in 0 .. m : EndOf(taken, k) \in Nat
  BY StairsRise
<1>2. \A k \in 1 .. m : /\ taken[k][1] = EndOf(taken, k - 1)
                        /\ EndOf(taken, k) = taken[k][1] + taken[k][2]
                        /\ EndOf(taken, k - 1) <= EndOf(taken, k)
  BY StairsRise
<1>3. b \in [0 .. m -> Nat]
  BY <1>1
<1>4. b[0] = 0
  BY <1>1 DEF EndOf
<1>5. ASSUME NEW k \in 1 .. m PROVE b[k - 1] <= b[k] /\ seqs[k] = Along(Itself, b[k - 1], b[k])
  <2>1. k - 1 \in 0 .. m /\ k \in 0 .. m
    BY <1>1
  <2>2. b[k - 1] = EndOf(taken, k - 1) /\ b[k] = EndOf(taken, k)
    BY <2>1
  <2>3. seqs[k] = Upto(b[k - 1], b[k])
    BY <1>2, <2>2
  <2>4. b[k - 1] \in Nat /\ b[k] \in Nat /\ b[k - 1] <= b[k]
    BY <1>1, <1>2, <2>1, <2>2
  <2> HIDE DEF b, seqs
  <2>5. QED
    BY <2>3, <2>4, UptoIs
<1>6. Indexed(seqs, m)
  BY DEF Indexed
<1>7. b[m] = at
  <2>1. m \in 0 .. m
    BY <1>1
  <2>2. b[m] = EndOf(taken, m)
    BY <2>1
  <2>3. QED
    BY <2>2 DEF Stairs
<1>8. FlattenSeq(seqs) = Along(Itself, 0, b[m])
  <2> HIDE DEF b, seqs, m
  <2>1. QED
    BY <1>1, <1>3, <1>4, <1>5, <1>6, FlatSteps
<1>9. [k \in DOMAIN taken |-> Upto(taken[k][1], taken[k][1] + taken[k][2])] = seqs
  BY <1>1
<1> HIDE DEF seqs, b
<1>10. QED
  BY <1>7, <1>8, <1>9

\* However a row is cut into loops, when the last takes single elements its
\* columns are touched once each, in their order.
LEMMA TouchedIs ==
    ASSUME NEW n \in Nat, NEW widths \in Seq(Nat \ {0}), Len(widths) > 0, widths[Len(widths)] = 1
    PROVE  Touched(n, widths) = Along(Itself, 0, n)
<1> DEFINE W == Nat \ {0}
<1>1. W \in SUBSET (Nat \ {0}) /\ widths \in Seq(W)
  OBVIOUS
<1> HIDE DEF W
<1>1a. LoopsReach(n, widths, W)
  BY <1>1, LoopsAre, Zenon
<1>2. PICK at \in 0 .. n :
        /\ Stairs(Loops(n, widths), at, W)
        /\ Len(widths) > 0 /\ widths[Len(widths)] = 1 => at = n
  BY <1>1a, Zenon DEF LoopsReach
<1>3. Stairs(Loops(n, widths), n, W)
  BY <1>2
<1>4. FlattenSeq([k \in DOMAIN Loops(n, widths) |->
                    Upto(Loops(n, widths)[k][1], Loops(n, widths)[k][1] + Loops(n, widths)[k][2])])
        = Along(Itself, 0, n)
  BY <1>1, <1>3, StairsTouch
<1>5. QED
  BY <1>4 DEF Touched

\* The sequences of widths that the kernels have.
LEMMA WidthsEnd ==
    ASSUME NEW widths \in {<<16, 4, 1>>, <<8, 4, 1>>, <<4, 1>>, <<2, 1>>, << 1 >>}
    PROVE  widths \in Seq(Nat \ {0}) /\ Len(widths) > 0 /\ widths[Len(widths)] = 1
<1>1. CASE widths = <<16, 4, 1>>
  BY <1>1
<1>2. CASE widths = <<8, 4, 1>>
  BY <1>2
<1>3. CASE widths = <<4, 1>>
  BY <1>3
<1>4. CASE widths = <<2, 1>>
  BY <1>4
<1>5. CASE widths = << 1 >>
  BY <1>5
<1>6. QED
  BY <1>1, <1>2, <1>3, <1>4, <1>5

LEMMA ColumnsAreOnce == ASSUME NEW n \in Nat PROVE ColumnsOnce(n)
<1> SUFFICES ASSUME NEW widths \in {<<16, 4, 1>>, <<8, 4, 1>>, <<4, 1>>, << 1 >>}
             PROVE  Touched(n, widths) = Upto(0, n)
  BY Zenon DEF ColumnsOnce
<1>1. widths \in {<<16, 4, 1>>, <<8, 4, 1>>, <<4, 1>>, <<2, 1>>, << 1 >>}
  BY Zenon
<1>2. widths \in Seq(Nat \ {0}) /\ Len(widths) > 0 /\ widths[Len(widths)] = 1
  BY <1>1, WidthsEnd, Zenon
<1>3. Touched(n, widths) = Along(Itself, 0, n)
  BY <1>2, TouchedIs, Zenon
<1>4. QED
  BY <1>3, UptoIs, 0 \in Nat

\* The rows of a task begin where those of the task before it end, and the
\* last task's end with the matrix.
LEMMA TasksMeet ==
    ASSUME NEW nt \in Nat \ {0}, NEW rows \in Nat
    PROVE  \E b \in [0 .. nt -> Nat] :
             /\ b[0] = 0 /\ b[nt] = rows
             /\ \A t \in 1 .. nt : /\ b[t - 1] <= b[t] /\ b[t] <= rows
                                   /\ TaskRange(t - 1, nt, rows) = <<b[t - 1], b[t]>>
<1> DEFINE b == [t \in 0 .. nt |-> (t * rows) \div nt]
<1>1. ASSUME NEW t \in 0 .. nt PROVE t * rows \in Nat /\ (t * rows) \div nt \in Nat
  <2>1. t \in Nat /\ t * rows \in Nat
    BY Commutes
  <2>2. QED
    BY <2>1, Division, Zenon
<1>2. b \in [0 .. nt -> Nat]
  BY <1>1
<1>3. 0 \in 0 .. nt /\ nt \in 0 .. nt /\ 0 * rows = 0 /\ nt * rows = nt * rows + 0 /\ 0 \in 0 .. nt - 1
  <2>1. nt * rows \in Nat
    BY Commutes
  <2>2. QED
    BY <2>1
<1>4. 0 = nt * 0 + 0
  OBVIOUS
<1>5. b[0] = 0
  <2>1. b[0] = (0 * rows) \div nt
    BY <1>3
  <2>2. 0 \div nt = 0
    BY <1>3, <1>4, DivisionExact, 0 \in Nat
  <2>3. QED
    BY <1>3, <2>1, <2>2
<1>6. b[nt] = rows
  <2>1. b[nt] = (nt * rows) \div nt
    BY <1>3
  <2>2. (nt * rows) \div nt = rows
    BY <1>3, DivisionExact
  <2>3. QED
    BY <2>1, <2>2
<1>7. ASSUME NEW s \in 0 .. nt, NEW t \in 0 .. nt, s <= t PROVE b[s] <= b[t]
  <2>1. s \in Nat /\ t \in Nat
    OBVIOUS
  <2>2. s * rows <= t * rows
    BY <2>1, <1>7, Monotone
  <2>3. (s * rows) \div nt <= (t * rows) \div nt
    BY <2>2, <1>1, DivisionMonotone
  <2>4. QED
    BY <2>3
<1>8. ASSUME NEW t \in 1 .. nt
      PROVE  /\ b[t - 1] <= b[t] /\ b[t] <= b[nt]
             /\ TaskRange(t - 1, nt, rows) = <<b[t - 1], b[t]>>
  <2>1. t - 1 \in 0 .. nt /\ t \in 0 .. nt /\ nt \in 0 .. nt /\ t - 1 <= t /\ t <= nt /\ (t - 1) + 1 = t
    OBVIOUS
  <2>2. b[t - 1] <= b[t] /\ b[t] <= b[nt]
    <3> HIDE DEF b
    <3>1. QED
      BY <2>1, <1>7
  <2>3. b[t - 1] = ((t - 1) * rows) \div nt /\ b[t] = (t * rows) \div nt
    BY <2>1
  <2>4. TaskRange(t - 1, nt, rows) = <<((t - 1) * rows) \div nt, (((t - 1) + 1) * rows) \div nt>>
    BY Zenon DEF TaskRange
  <2>5. TaskRange(t - 1, nt, rows) = <<b[t - 1], b[t]>>
    BY <2>1, <2>3, <2>4, Zenon
  <2>6. QED
    BY <2>2, <2>5, Zenon
<1> HIDE DEF b
<1>9. QED
  BY <1>2, <1>5, <1>6, <1>8

\* However many threads there are, a product computes all its rows in their order.
LEMMA MatvecIs ==
    ASSUME NEW n \in Nat, NEW nt \in Nat, NEW widths \in Seq(Nat \ {0}),
           Len(widths) > 0, widths[Len(widths)] = 1
    PROVE  Matvec(n, nt, widths) = Along(Itself, 0, n)
<1>1. CASE nt > 1 /\ n >= MinRows
  <2> DEFINE seqs == [t \in 1 .. nt |-> TaskRows(t - 1, nt, n, widths)]
  <2>1. nt \in Nat \ {0}
    BY <1>1
  <2>2. PICK b \in [0 .. nt -> Nat] :
          /\ b[0] = 0 /\ b[nt] = n
          /\ \A t \in 1 .. nt : /\ b[t - 1] <= b[t] /\ b[t] <= n
                                /\ TaskRange(t - 1, nt, n) = <<b[t - 1], b[t]>>
    BY <2>1, TasksMeet
  <2>3. ASSUME NEW t \in 1 .. nt PROVE seqs[t] = Along(Itself, b[t - 1], b[t])
    <3> DEFINE lo == b[t - 1]
               hi == b[t]
               local == Touched(hi - lo, widths)
    <3>1. lo \in Nat /\ hi \in Nat /\ lo <= hi /\ hi - lo \in Nat
      <4>1. t - 1 \in 0 .. nt /\ t \in 0 .. nt
        OBVIOUS
      <4>2. b[t - 1] \in Nat /\ b[t] \in Nat /\ b[t - 1] <= b[t]
        BY <4>1, <2>2
      <4>3. QED
        BY <4>2
    <3>2. TaskRange(t - 1, nt, n) = <<lo, hi>>
      BY <2>2
    <3>3. TaskRows(t - 1, nt, n, widths) = [i \in DOMAIN local |-> lo + local[i]]
      BY <3>2 DEF TaskRows
    <3> HIDE DEF lo, hi
    <3>4. local = Along(Itself, 0, hi - lo)
      BY <3>1, TouchedIs
    <3>5. local = [i \in 1 .. hi - lo |-> i - 1]
      <4>1. \A i \in 1 .. (hi - lo) - 0 : Itself[0 + i - 1] = i - 1
        BY <3>1 DEF Itself
      <4>2. (hi - lo) - 0 = hi - lo
        BY <3>1
      <4>3. QED
        BY <3>4, <4>1, <4>2 DEF Along
    <3> HIDE DEF local
    <3>6. [i \in DOMAIN local |-> lo + local[i]] = [i \in 1 .. hi - lo |-> Itself[lo + i - 1]]
      <4>1. \A i \in 1 .. hi - lo : lo + (i - 1) = Itself[lo + i - 1]
        BY <3>1 DEF Itself
      <4>2. QED
        BY <3>5, <4>1
    <3>7. seqs[t] = TaskRows(t - 1, nt, n, widths)
      OBVIOUS
    <3> HIDE DEF seqs
    <3>8. QED
      BY <3>3, <3>6, <3>7 DEF Along, lo, hi
  <2>4. Indexed(seqs, nt)
    BY DEF Indexed
  <2> HIDE DEF seqs
  <2>5. FlattenSeq(seqs) = Along(Itself, 0, b[nt])
    BY <2>2, <2>3, <2>4, FlatSteps
  <2>6. Matvec(n, nt, widths) = FlattenSeq(seqs)
    BY <1>1 DEF Matvec, seqs
  <2>7. QED
    BY <2>2, <2>5, <2>6
<1>2. CASE ~(nt > 1 /\ n >= MinRows)
  <2>1. Matvec(n, nt, widths) = Touched(n, widths)
    BY <1>2 DEF Matvec
  <2>2. QED
    BY <2>1, TouchedIs
<1>3. QED
  BY <1>1, <1>2

\* The rows of Q, K and V in their joint order.
Joint(q, kv) ==
    [r \in Nat |-> IF r < q THEN <<"q", r>> ELSE IF r < q + kv THEN <<"k", r - q>>
                   ELSE <<"v", r - q - kv>>]

RowsOf(matrix, from, to) == [i \in 1 .. to - from |-> <<matrix, from + i - 1>>]

\* A turn of a task that ends at hi, the turns after it being f.
Turn(q, kv, hi, f, r) ==
    IF r >= hi THEN <<>>
    ELSE IF r < q THEN RowsOf("q", r, Smaller(hi, q)) \o f[Smaller(hi, q)]
    ELSE IF r < q + kv
    THEN RowsOf("k", r - q, Smaller(hi, q + kv) - q) \o f[Smaller(hi, q + kv)]
    ELSE RowsOf("v", r - q - kv, hi - q - kv)

Turns(f, q, kv, hi) == f = [r \in 0 .. hi |-> Turn(q, kv, hi, f, r)]

LEMMA RowsOfIs ==
    ASSUME NEW q \in Nat, NEW kv \in Nat, NEW lo \in Nat, NEW hi \in Nat, lo <= hi
    PROVE  /\ hi <= q => RowsOf("q", lo, hi) = Along(Joint(q, kv), lo, hi)
           /\ q <= lo /\ hi <= q + kv => RowsOf("k", lo - q, hi - q) = Along(Joint(q, kv), lo, hi)
           /\ q + kv <= lo => RowsOf("v", lo - q - kv, hi - q - kv) = Along(Joint(q, kv), lo, hi)
<1> DEFINE J == Joint(q, kv)
<1>1. ASSUME hi <= q PROVE RowsOf("q", lo, hi) = Along(J, lo, hi)
  <2>1. ASSUME NEW i \in 1 .. hi - lo PROVE <<"q", lo + i - 1>> = J[lo + i - 1]
    <3>1. lo + i - 1 \in Nat /\ lo + i - 1 < q
      BY <1>1
    <3>2. QED
      BY <3>1 DEF Joint
  <2> HIDE DEF J
  <2>2. QED
    BY <2>1 DEF RowsOf, Along
<1>2. ASSUME q <= lo, hi <= q + kv PROVE RowsOf("k", lo - q, hi - q) = Along(J, lo, hi)
  <2>1. ASSUME NEW i \in 1 .. hi - lo PROVE <<"k", (lo - q) + i - 1>> = J[lo + i - 1]
    <3>1. lo + i - 1 \in Nat /\ ~(lo + i - 1 < q) /\ lo + i - 1 < q + kv
          /\ (lo - q) + i - 1 = (lo + i - 1) - q
      BY <1>2
    <3>2. QED
      BY <3>1 DEF Joint
  <2>2. (hi - q) - (lo - q) = hi - lo
    OBVIOUS
  <2> HIDE DEF J
  <2>3. QED
    BY <2>1, <2>2 DEF RowsOf, Along
<1>3. ASSUME q + kv <= lo PROVE RowsOf("v", lo - q - kv, hi - q - kv) = Along(J, lo, hi)
  <2>1. ASSUME NEW i \in 1 .. hi - lo PROVE <<"v", (lo - q - kv) + i - 1>> = J[lo + i - 1]
    <3>1. lo + i - 1 \in Nat /\ ~(lo + i - 1 < q) /\ ~(lo + i - 1 < q + kv)
          /\ (lo - q - kv) + i - 1 = (lo + i - 1) - q - kv
      BY <1>3
    <3>2. QED
      BY <3>1 DEF Joint
  <2>2. (hi - q - kv) - (lo - q - kv) = hi - lo
    OBVIOUS
  <2> HIDE DEF J
  <2>3. QED
    BY <2>1, <2>2 DEF RowsOf, Along
<1>4. QED
  BY <1>1, <1>2, <1>3

\* When the turns after it give the rest of the task's rows, a turn gives all
\* from its first row on.
LEMMA TurnIs ==
    ASSUME NEW q \in Nat, NEW kv \in Nat, NEW hi \in Nat, NEW r \in 0 .. hi, NEW f,
           \A e \in 0 .. hi : r < e => f[e] = Along(Joint(q, kv), e, hi)
    PROVE  Turn(q, kv, hi, f, r) = Along(Joint(q, kv), r, hi)
<1> DEFINE J == Joint(q, kv)
<1>0. r \in Nat /\ r <= hi
  OBVIOUS
<1>1. CASE r >= hi
  <2>1. r = hi
    BY <1>0, <1>1
  <2>2. Along(J, hi, hi) = <<>>
    BY DEF Along
  <2>3. QED
    BY <1>1, <2>1, <2>2 DEF Turn
<1>2. CASE r < hi /\ r < q
  <2> DEFINE e == Smaller(hi, q)
  <2>1. e \in 0 .. hi /\ e \in Nat /\ r < e /\ r <= e /\ e <= hi /\ e <= q
    BY <1>0, <1>2 DEF Smaller
  <2>2. Turn(q, kv, hi, f, r) = RowsOf("q", r, e) \o f[e]
    BY <1>0, <1>2 DEF Turn
  <2> HIDE DEF e
  <2>3. RowsOf("q", r, e) = Along(J, r, e)
    BY <1>0, <2>1, RowsOfIs
  <2>4. f[e] = Along(J, e, hi)
    BY <2>1
  <2> HIDE DEF J
  <2>5. Along(J, r, e) \o Along(J, e, hi) = Along(J, r, hi)
    <3>1. Consecutive(r, e, hi)
      BY <1>0, <2>1 DEF Consecutive
    <3>2. QED
      BY <3>1, AlongConcat, Zenon
  <2>6. QED
    BY <2>2, <2>3, <2>4, <2>5 DEF J
<1>3. CASE r < hi /\ ~(r < q) /\ r < q + kv
  <2> DEFINE e == Smaller(hi, q + kv)
  <2>1. e \in 0 .. hi /\ e \in Nat /\ r < e /\ r <= e /\ e <= hi /\ e <= q + kv /\ q <= r
    BY <1>0, <1>3 DEF Smaller
  <2>2. Turn(q, kv, hi, f, r) = RowsOf("k", r - q, e - q) \o f[e]
    <3>1. ~(r >= hi)
      BY <1>0, <1>3
    <3>2. QED
      BY <1>3, <3>1, Zenon DEF Turn
  <2> HIDE DEF e
  <2>3. RowsOf("k", r - q, e - q) = Along(J, r, e)
    BY <1>0, <2>1, RowsOfIs
  <2>4. f[e] = Along(J, e, hi)
    BY <2>1
  <2> HIDE DEF J
  <2>5. Along(J, r, e) \o Along(J, e, hi) = Along(J, r, hi)
    <3>1. Consecutive(r, e, hi)
      BY <1>0, <2>1 DEF Consecutive
    <3>2. QED
      BY <3>1, AlongConcat, Zenon
  <2>6. QED
    BY <2>2, <2>3, <2>4, <2>5 DEF J
<1>4. CASE r < hi /\ ~(r < q) /\ ~(r < q + kv)
  <2>1. Turn(q, kv, hi, f, r) = RowsOf("v", r - q - kv, hi - q - kv)
    BY <1>0, <1>4 DEF Turn
  <2>2. q + kv <= r
    BY <1>0, <1>4
  <2>3. QED
    BY <1>0, <2>1, <2>2, RowsOfIs
<1>5. QED
  BY <1>0, <1>1, <1>2, <1>3, <1>4

\* A task of the joint product computes its rows in their joint order.
LEMMA QkvTaskIs ==
    ASSUME NEW q \in Nat, NEW kv \in Nat, NEW lo \in Nat, NEW hi \in Nat, lo <= hi,
           NEW tid, NEW nt, TaskRange(tid, nt, q + 2 * kv) = <<lo, hi>>
    PROVE  QkvTask(tid, nt, q, kv) = Along(Joint(q, kv), lo, hi)
<1> DEFINE J == Joint(q, kv)
           from == CHOOSE f : Turns(f, q, kv, hi)
           range == TaskRange(tid, nt, q + 2 * kv)
<1>1. QkvTask(tid, nt, q, kv) = (CHOOSE f : Turns(f, q, kv, range[2]))[range[1]]
  BY Zenon DEF QkvTask, Turns, Turn, RowsOf
<1>2. range[1] = lo /\ range[2] = hi
  OBVIOUS
<1>3. QkvTask(tid, nt, q, kv) = from[lo]
  <2> HIDE DEF range
  <2>1. QED
    BY <1>1, <1>2, Zenon
<1> HIDE DEF J
<1>4. Turns([r \in 0 .. hi |-> Along(J, r, hi)], q, kv, hi)
  <2> DEFINE g == [r \in 0 .. hi |-> Along(J, r, hi)]
  <2>1. ASSUME NEW r \in 0 .. hi PROVE g[r] = Turn(q, kv, hi, g, r)
    <3>1. \A e \in 0 .. hi : r < e => g[e] = Along(Joint(q, kv), e, hi)
      BY DEF J
    <3>2. g[r] = Along(Joint(q, kv), r, hi)
      BY DEF J
    <3> HIDE DEF g
    <3>3. QED
      BY <3>1, <3>2, TurnIs
  <2>2. g = [r \in 0 .. hi |-> g[r]]
    OBVIOUS
  <2> HIDE DEF g
  <2>3. g = [r \in 0 .. hi |-> Turn(q, kv, hi, g, r)]
    BY <2>1, <2>2, Zenon
  <2>4. Turns(g, q, kv, hi)
    BY <2>3 DEF Turns
  <2>5. QED
    BY <2>4 DEF g
<1>5. Turns(from, q, kv, hi)
  BY <1>4, Zenon
<1> HIDE DEF from
<1>6. \A r \in 0 .. hi : from[r] = Turn(q, kv, hi, from, r)
  <2>1. from = [r \in 0 .. hi |-> Turn(q, kv, hi, from, r)]
    BY <1>5, Zenon DEF Turns
  <2>2. QED
    BY <2>1
<1> DEFINE G == {d \in Nat : \A r \in 0 .. hi : hi - r <= d => from[r] = Along(Joint(q, kv), r, hi)}
<1>7. 0 \in G
  <2>1. ASSUME NEW r \in 0 .. hi, hi - r <= 0 PROVE from[r] = Along(Joint(q, kv), r, hi)
    <3>1. \A e \in 0 .. hi : r < e => from[e] = Along(Joint(q, kv), e, hi)
      BY <2>1
    <3>2. Turn(q, kv, hi, from, r) = Along(Joint(q, kv), r, hi)
      BY <3>1, TurnIs
    <3>3. QED
      BY <3>2, <1>6
  <2>2. QED
    BY <2>1
<1>8. ASSUME NEW d \in Nat, d \in G PROVE d + 1 \in G
  <2>1. ASSUME NEW r \in 0 .. hi, hi - r <= d + 1 PROVE from[r] = Along(Joint(q, kv), r, hi)
    <3>1. ASSUME NEW e \in 0 .. hi, r < e PROVE from[e] = Along(Joint(q, kv), e, hi)
      <4>1. hi - e <= d
        BY <2>1, <3>1
      <4>2. QED
        BY <4>1, <1>8
    <3>2. Turn(q, kv, hi, from, r) = Along(Joint(q, kv), r, hi)
      BY <3>1, TurnIs
    <3>3. QED
      BY <3>2, <1>6
  <2>2. QED
    BY <2>1
<1> HIDE DEF G
<1>9. \A d \in Nat : d \in G
  BY <1>7, <1>8, Counting
<1>10. hi \in Nat /\ lo \in 0 .. hi /\ hi - lo <= hi
  OBVIOUS
<1>11. from[lo] = Along(Joint(q, kv), lo, hi)
  BY <1>9, <1>10 DEF G
<1>12. QED
  BY <1>3, <1>11

\* However many threads there are, the joint product computes all rows in their
\* joint order, also where a task begins in one matrix and ends in another.
LEMMA MatvecQkvIs ==
    ASSUME NEW q \in Nat, NEW kv \in Nat, NEW nt \in Nat
    PROVE  MatvecQkv(q, kv, nt) = Along(Joint(q, kv), 0, q + 2 * kv)
<1> DEFINE J == Joint(q, kv)
           rows == q + 2 * kv
<1>0. rows \in Nat
  OBVIOUS
<1>1. CASE nt > 1 /\ rows >= MinRows
  <2> DEFINE seqs == [t \in 1 .. nt |-> QkvTask(t - 1, nt, q, kv)]
  <2>1. nt \in Nat \ {0}
    BY <1>1
  <2> HIDE DEF rows
  <2>2. PICK b \in [0 .. nt -> Nat] :
          /\ b[0] = 0 /\ b[nt] = rows
          /\ \A t \in 1 .. nt : /\ b[t - 1] <= b[t] /\ b[t] <= rows
                                /\ TaskRange(t - 1, nt, rows) = <<b[t - 1], b[t]>>
    BY <1>0, <2>1, TasksMeet
  <2>3. ASSUME NEW t \in 1 .. nt PROVE seqs[t] = Along(J, b[t - 1], b[t])
    <3>1. t - 1 \in 0 .. nt /\ t \in 0 .. nt
      OBVIOUS
    <3>2. b[t - 1] \in Nat /\ b[t] \in Nat /\ b[t - 1] <= b[t]
      BY <3>1, <2>2
    <3>3. TaskRange(t - 1, nt, q + 2 * kv) = <<b[t - 1], b[t]>>
      BY <2>2 DEF rows
    <3>4. QkvTask(t - 1, nt, q, kv) = Along(Joint(q, kv), b[t - 1], b[t])
      BY <3>2, <3>3, QkvTaskIs
    <3>5. QED
      BY <3>4
  <2>4. Indexed(seqs, nt)
    BY DEF Indexed
  <2>5. MatvecQkv(q, kv, nt) = FlattenSeq(seqs)
    BY <1>1, Zenon DEF MatvecQkv, rows
  <2> HIDE DEF seqs, J
  <2>6. FlattenSeq(seqs) = Along(J, 0, b[nt])
    BY <2>2, <2>3, <2>4, FlatSteps
  <2>7. QED
    BY <2>2, <2>5, <2>6 DEF J, rows
<1>2. CASE ~(nt > 1 /\ rows >= MinRows)
  <2> DEFINE whole(matrix, n) == [i \in 1 .. n |-> <<matrix, i - 1>>]
  <2>1. MatvecQkv(q, kv, nt) = (whole("q", q) \o whole("k", kv)) \o whole("v", kv)
    BY <1>2, Zenon DEF MatvecQkv
  <2>2. ASSUME NEW m, NEW n \in Nat PROVE RowsOf(m, 0, n) = whole(m, n)
    <3>1. n - 0 = n /\ \A i \in 1 .. n : 0 + i - 1 = i - 1
      OBVIOUS
    <3>2. QED
      BY <3>1 DEF RowsOf
  <2> HIDE DEF whole
  <2>3. whole("q", q) = Along(J, 0, q)
    <3>1. 0 \in Nat /\ 0 <= q /\ q <= q
      OBVIOUS
    <3>2. RowsOf("q", 0, q) = Along(J, 0, q)
      BY <3>1, RowsOfIs
    <3>3. QED
      BY <3>2, <2>2
  <2>4. whole("k", kv) = Along(J, q, q + kv)
    <3>1. q + kv \in Nat /\ q <= q + kv /\ q <= q /\ q + kv <= q + kv /\ q - q = 0 /\ (q + kv) - q = kv
      OBVIOUS
    <3>2. RowsOf("k", q - q, (q + kv) - q) = Along(J, q, q + kv)
      BY <3>1, RowsOfIs
    <3>3. RowsOf("k", 0, kv) = Along(J, q, q + kv)
      BY <3>1, <3>2, Zenon
    <3>4. QED
      BY <3>3, <2>2
  <2>5. whole("v", kv) = Along(J, q + kv, rows)
    <3>1. q + kv \in Nat /\ q + kv <= rows /\ q + kv <= q + kv /\ (q + kv) - q - kv = 0
          /\ rows - q - kv = kv
      OBVIOUS
    <3> HIDE DEF rows
    <3>2. RowsOf("v", (q + kv) - q - kv, rows - q - kv) = Along(J, q + kv, rows)
      BY <1>0, <3>1, RowsOfIs
    <3>3. RowsOf("v", 0, kv) = Along(J, q + kv, rows)
      BY <3>1, <3>2, Zenon
    <3>4. QED
      BY <3>3, <2>2
  <2>6. q + kv \in Nat /\ 0 \in Nat /\ 0 <= q /\ q <= q + kv /\ 0 <= q + kv /\ q + kv <= rows
    OBVIOUS
  <2> HIDE DEF J, rows
  <2>7. Along(J, 0, q) \o Along(J, q, q + kv) = Along(J, 0, q + kv)
    <3>1. Consecutive(0, q, q + kv)
      BY <2>6 DEF Consecutive
    <3>2. QED
      BY <3>1, AlongConcat, Zenon
  <2>8. Along(J, 0, q + kv) \o Along(J, q + kv, rows) = Along(J, 0, rows)
    <3>1. Consecutive(0, q + kv, rows)
      BY <1>0, <2>6 DEF Consecutive
    <3>2. QED
      BY <3>1, AlongConcat, Zenon
  <2>9. QED
    BY <2>1, <2>3, <2>4, <2>5, <2>7, <2>8 DEF J, rows
<1>3. QED
  BY <1>1, <1>2

\* A product of any number of rows computes each once, on any number of threads.
THEOREM RowsAreComputedOnce ==
    ASSUME NEW n \in Nat, NEW nt \in Nat, NEW kv \in Nat
    PROVE  RowsOnce(n, nt, kv)
<1>1. ASSUME NEW widths \in {<<2, 1>>, <<4, 1>>} PROVE Once(Matvec(n, nt, widths), 0 .. n - 1)
  <2>1. widths \in {<<16, 4, 1>>, <<8, 4, 1>>, <<4, 1>>, <<2, 1>>, << 1 >>}
    BY <1>1, Zenon
  <2>2. widths \in Seq(Nat \ {0}) /\ Len(widths) > 0 /\ widths[Len(widths)] = 1
    BY <2>1, WidthsEnd, Zenon
  <2>3. Matvec(n, nt, widths) = Along(Itself, 0, n)
    BY <2>2, MatvecIs, Zenon
  <2>4. \A x \in 0 .. n - 1 : Itself[x] = x
    BY DEF Itself
  <2>5. Lists(Along(Itself, 0, n), 0 .. n - 1)
    BY <2>4, AlongLists
  <2>6. QED
    BY <2>3, <2>5, ListsOnce
<1>2. Once(MatvecQkv(n, kv, nt), {"q"} \X (0 .. n - 1) \cup {"k", "v"} \X (0 .. kv - 1))
  <2> DEFINE J == Joint(n, kv)
             all == {"q"} \X (0 .. n - 1) \cup {"k", "v"} \X (0 .. kv - 1)
             rows == n + 2 * kv
  <2>0. rows \in Nat
    OBVIOUS
  <2>1. MatvecQkv(n, kv, nt) = Along(J, 0, rows)
    BY MatvecQkvIs
  <2>2. ASSUME NEW r \in 0 .. rows - 1
        PROVE  /\ r < n => J[r] = <<"q", r>>
               /\ n <= r /\ r < n + kv => J[r] = <<"k", r - n>> /\ r - n \in 0 .. kv - 1
               /\ n + kv <= r => J[r] = <<"v", r - n - kv>> /\ r - n - kv \in 0 .. kv - 1
    BY DEF Joint
  <2> HIDE DEF J
  <2>3. ASSUME NEW r \in 0 .. rows - 1 PROVE J[r] \in all
    <3>1. CASE r < n
      <4>1. <<"q", r>> \in all
        BY <3>1
      <4>2. QED
        BY <2>2, <3>1, <4>1
    <3>2. CASE n <= r /\ r < n + kv
      <4>1. r - n \in 0 .. kv - 1 /\ J[r] = <<"k", r - n>>
        BY <2>2, <3>2
      <4>2. QED
        BY <4>1
    <3>3. CASE n + kv <= r
      <4>1. r - n - kv \in 0 .. kv - 1 /\ J[r] = <<"v", r - n - kv>>
        BY <2>2, <3>3
      <4>2. QED
        BY <4>1
    <3>4. QED
      BY <3>1, <3>2, <3>3
  <2> HIDE DEF all
  <2>4. ASSUME NEW r \in 0 .. rows - 1, NEW s \in 0 .. rows - 1, J[r] = J[s] PROVE r = s
    <3> DEFINE Parts(x) == /\ x < n => J[x][1] = "q" /\ J[x][2] = x
                           /\ n <= x /\ x < n + kv => J[x][1] = "k" /\ J[x][2] = x - n
                           /\ n + kv <= x => J[x][1] = "v" /\ J[x][2] = x - n - kv
    <3>1. ASSUME NEW x \in 0 .. rows - 1 PROVE Parts(x)
      <4>1. ASSUME x < n PROVE J[x][1] = "q" /\ J[x][2] = x
        BY <2>2, <4>1
      <4>2. ASSUME n <= x, x < n + kv PROVE J[x][1] = "k" /\ J[x][2] = x - n
        BY <2>2, <4>2
      <4>3. ASSUME n + kv <= x PROVE J[x][1] = "v" /\ J[x][2] = x - n - kv
        BY <2>2, <4>3
      <4>4. QED
        BY <4>1, <4>2, <4>3
    <3>2. Parts(r) /\ Parts(s)
      BY <3>1
    <3>3. J[r][1] = J[s][1] /\ J[r][2] = J[s][2]
      BY <2>4
    <3> DEFINE a == J[r][1]
               b == J[r][2]
    <3>4. /\ (r < n => a = "q" /\ b = r) /\ (n <= r /\ r < n + kv => a = "k" /\ b = r - n)
          /\ (n + kv <= r => a = "v" /\ b = r - n - kv)
      BY <3>2
    <3>5. /\ (s < n => a = "q" /\ b = s) /\ (n <= s /\ s < n + kv => a = "k" /\ b = s - n)
          /\ (n + kv <= s => a = "v" /\ b = s - n - kv)
      BY <3>2, <3>3
    <3>6. "q" # "k" /\ "q" # "v" /\ "k" # "v"
      OBVIOUS
    <3> HIDE DEF a, b
    <3>7. QED
      BY <3>4, <3>5, <3>6
  <2>5. ASSUME NEW y \in all PROVE \E r \in 0 .. rows - 1 : J[r] = y
    <3> USE DEF all
    <3>1. CASE y \in {"q"} \X (0 .. n - 1)
      <4>1. PICK r \in 0 .. n - 1 : y = <<"q", r>>
        BY <3>1
      <4>2. r \in 0 .. rows - 1 /\ r < n
        OBVIOUS
      <4>3. QED
        BY <2>2, <4>1, <4>2
    <3>2. CASE y \in {"k", "v"} \X (0 .. kv - 1)
      <4>1. PICK cut \in 0 .. kv - 1 : y = <<"k", cut>> \/ y = <<"v", cut>>
        BY <3>2
      <4>2. CASE y = <<"k", cut>>
        <5>1. n + cut \in 0 .. rows - 1 /\ n <= n + cut /\ n + cut < n + kv /\ (n + cut) - n = cut
          OBVIOUS
        <5>2. J[n + cut] = <<"k", (n + cut) - n>>
          BY <2>2, <5>1
        <5>3. QED
          BY <4>2, <5>1, <5>2
      <4>3. CASE y = <<"v", cut>>
        <5>1. n + kv + cut \in 0 .. rows - 1 /\ n + kv <= n + kv + cut /\ (n + kv + cut) - n - kv = cut
          OBVIOUS
        <5>2. J[n + kv + cut] = <<"v", (n + kv + cut) - n - kv>>
          BY <2>2, <5>1
        <5>3. QED
          BY <4>3, <5>1, <5>2
      <4>4. QED
        BY <4>1, <4>2, <4>3
    <3>3. QED
      BY <3>1, <3>2
  <2> HIDE DEF all, rows
  <2>6. Lists(Along(J, 0, rows), all)
    BY <2>0, <2>3, <2>4, <2>5, AlongLists
  <2>7. Once(MatvecQkv(n, kv, nt), all)
    BY <2>1, <2>6, ListsOnce
  <2>8. QED
    BY <2>7 DEF all
<1>3. QED
  BY <1>1, <1>2, Zenon DEF RowsOnce

-----------------------------------------------------------------------------
(* The kernels: tiles.                                                     *)

\* Lists of boxes one below the other list the box they make,
LEMMA BoxRows ==
    ASSUME NEW n \in Nat, NEW b \in [0 .. n -> Nat], NEW C, NEW seqs, Indexed(seqs, n),
           \A k \in 1 .. n : b[0] <= b[k - 1] /\ b[k - 1] <= b[k],
           \A k \in 1 .. n : Lists(seqs[k], (b[k - 1] .. b[k] - 1) \X C)
    PROVE  Lists(FlattenSeq(seqs), (b[0] .. b[n] - 1) \X C)
<1> DEFINE D == [k \in 0 .. n |-> (b[0] .. b[k] - 1) \X C]
           A == Nat \X C
<1>0. \A k \in 0 .. n : b[k] \in Nat
  OBVIOUS
<1>1. D \in [0 .. n -> SUBSET A]
  <2>1. ASSUME NEW k \in 0 .. n PROVE (b[0] .. b[k] - 1) \X C \subseteq A
    <3>1. b[0] .. b[k] - 1 \subseteq Nat
      BY <1>0
    <3>2. QED
      BY <3>1
  <2>2. QED
    BY <2>1
<1>2. D[0] = {}
  BY <1>0
<1>3. ASSUME NEW k \in 1 .. n PROVE D[k - 1] \subseteq D[k] /\ Lists(seqs[k], D[k] \ D[k - 1])
  <2>1. k - 1 \in 0 .. n /\ k \in 0 .. n
    OBVIOUS
  <2>2. /\ b[0] \in Nat /\ b[k - 1] \in Nat /\ b[k] \in Nat
        /\ b[0] <= b[k - 1] /\ b[k - 1] <= b[k]
    BY <1>0, <2>1
  <2>3. /\ b[0] .. b[k - 1] - 1 \subseteq b[0] .. b[k] - 1
        /\ (b[0] .. b[k] - 1) \ (b[0] .. b[k - 1] - 1) = b[k - 1] .. b[k] - 1
    BY <2>2
  <2>4. D[k - 1] = (b[0] .. b[k - 1] - 1) \X C /\ D[k] = (b[0] .. b[k] - 1) \X C
    BY <2>1
  <2>5. D[k - 1] \subseteq D[k] /\ D[k] \ D[k - 1] = (b[k - 1] .. b[k] - 1) \X C
    BY <2>3, <2>4
  <2>6. Lists(seqs[k], (b[k - 1] .. b[k] - 1) \X C)
    OBVIOUS
  <2> HIDE DEF D
  <2>7. QED
    BY <2>5, <2>6
<1>4. D[n] = (b[0] .. b[n] - 1) \X C
  OBVIOUS
<1> HIDE DEF D, A
<1>5. Lists(FlattenSeq(seqs), D[n])
  BY <1>1, <1>2, <1>3, FlatGrows
<1>6. QED
  BY <1>4, <1>5

\* ... and so do those side by side.
LEMMA BoxColumns ==
    ASSUME NEW n \in Nat, NEW b \in [0 .. n -> Nat], NEW R, NEW seqs, Indexed(seqs, n),
           \A k \in 1 .. n : b[0] <= b[k - 1] /\ b[k - 1] <= b[k],
           \A k \in 1 .. n : Lists(seqs[k], R \X (b[k - 1] .. b[k] - 1))
    PROVE  Lists(FlattenSeq(seqs), R \X (b[0] .. b[n] - 1))
<1> DEFINE D == [k \in 0 .. n |-> R \X (b[0] .. b[k] - 1)]
           A == R \X Nat
<1>0. \A k \in 0 .. n : b[k] \in Nat
  OBVIOUS
<1>1. D \in [0 .. n -> SUBSET A]
  <2>1. ASSUME NEW k \in 0 .. n PROVE R \X (b[0] .. b[k] - 1) \subseteq A
    <3>1. b[0] .. b[k] - 1 \subseteq Nat
      BY <1>0
    <3>2. QED
      BY <3>1
  <2>2. QED
    BY <2>1
<1>2. D[0] = {}
  BY <1>0
<1>3. ASSUME NEW k \in 1 .. n PROVE D[k - 1] \subseteq D[k] /\ Lists(seqs[k], D[k] \ D[k - 1])
  <2>1. k - 1 \in 0 .. n /\ k \in 0 .. n
    OBVIOUS
  <2>2. /\ b[0] \in Nat /\ b[k - 1] \in Nat /\ b[k] \in Nat
        /\ b[0] <= b[k - 1] /\ b[k - 1] <= b[k]
    BY <1>0, <2>1
  <2>3. /\ b[0] .. b[k - 1] - 1 \subseteq b[0] .. b[k] - 1
        /\ (b[0] .. b[k] - 1) \ (b[0] .. b[k - 1] - 1) = b[k - 1] .. b[k] - 1
    BY <2>2
  <2>4. D[k - 1] = R \X (b[0] .. b[k - 1] - 1) /\ D[k] = R \X (b[0] .. b[k] - 1)
    BY <2>1
  <2>5. D[k - 1] \subseteq D[k] /\ D[k] \ D[k - 1] = R \X (b[k - 1] .. b[k] - 1)
    BY <2>3, <2>4
  <2>6. Lists(seqs[k], R \X (b[k - 1] .. b[k] - 1))
    OBVIOUS
  <2> HIDE DEF D
  <2>7. QED
    BY <2>5, <2>6
<1>4. D[n] = R \X (b[0] .. b[n] - 1)
  OBVIOUS
<1> HIDE DEF D, A
<1>5. Lists(FlattenSeq(seqs), D[n])
  BY <1>1, <1>2, <1>3, FlatGrows
<1>6. QED
  BY <1>4, <1>5

\* A row of a tile, and a tile.
LEMMA TileRow ==
    ASSUME NEW x \in Nat, NEW t \in Nat, NEW cols \in Nat
    PROVE  Lists([j \in 1 .. cols |-> <<x, t + j - 1>>], (x .. x) \X (t .. t + cols - 1))
<1> DEFINE s == [j \in 1 .. cols |-> <<x, t + j - 1>>]
           B == (x .. x) \X (t .. t + cols - 1)
<1>1. ASSUME NEW j \in 1 .. cols PROVE s[j] \in B
  <2>1. x \in x .. x /\ t + j - 1 \in t .. t + cols - 1
    OBVIOUS
  <2>2. QED
    BY <2>1
<1>2. s \in [1 .. cols -> B]
  <2> HIDE DEF B
  <2>1. QED
    BY <1>1
<1>3. s \in Seq(B) /\ Len(s) = cols
  <2> HIDE DEF B, s
  <2>1. QED
    BY <1>2
<1>4. ASSUME NEW y \in B PROVE \E j \in 1 .. cols : s[j] = y
  <2>1. y = <<y[1], y[2]>> /\ y[1] \in x .. x /\ y[2] \in t .. t + cols - 1
    <3>1. y \in (x .. x) \X (t .. t + cols - 1)
      OBVIOUS
    <3>2. QED
      BY <3>1, PairParts
  <2>2. y[1] = x /\ y[2] - t + 1 \in 1 .. cols /\ t + (y[2] - t + 1) - 1 = y[2]
    BY <2>1
  <2>3. s[y[2] - t + 1] = <<x, y[2]>>
    BY <2>2
  <2>4. QED
    BY <2>1, <2>2, <2>3
<1>5. ASSUME NEW i \in 1 .. cols, NEW j \in 1 .. cols, s[i] = s[j] PROVE i = j
  <2>1. t + i - 1 = t + j - 1
    BY <1>5
  <2>2. QED
    BY <2>1
<1> HIDE DEF s, B
<1>6. Lists(s, B)
  BY <1>3, <1>4, <1>5 DEF Lists
<1>7. QED
  BY <1>6 DEF s, B

LEMMA TileIs ==
    ASSUME NEW m \in Nat, NEW rows \in Nat, NEW t \in Nat, NEW cols \in Nat
    PROVE  Lists(Tile(m, rows, t, cols), (m .. m + rows - 1) \X (t .. t + cols - 1))
<1> DEFINE seqs == [i \in 1 .. rows |-> [j \in 1 .. cols |-> <<m + i - 1, t + j - 1>>]]
           b == [k \in 0 .. rows |-> m + k]
           C == t .. t + cols - 1
<1>1. b \in [0 .. rows -> Nat] /\ b[0] = m /\ b[rows] = m + rows
  OBVIOUS
<1>2. ASSUME NEW k \in 1 .. rows
      PROVE  /\ b[0] <= b[k - 1] /\ b[k - 1] <= b[k]
             /\ Lists(seqs[k], (b[k - 1] .. b[k] - 1) \X C)
  <2> DEFINE x == m + k - 1
  <2>1. k - 1 \in 0 .. rows /\ k \in 0 .. rows /\ x \in Nat
    OBVIOUS
  <2>2. b[k - 1] = x /\ b[k] - 1 = x /\ b[k - 1] <= b[k] /\ b[0] <= b[k - 1]
    BY <2>1
  <2>3. seqs[k] = [j \in 1 .. cols |-> <<x, t + j - 1>>]
    OBVIOUS
  <2> HIDE DEF x, b, seqs
  <2>4. Lists(seqs[k], (x .. x) \X C)
    <3>1. x \in Nat
      BY <2>1
    <3>2. Lists([j \in 1 .. cols |-> <<x, t + j - 1>>], (x .. x) \X C)
      BY <3>1, TileRow
    <3>3. QED
      BY <2>3, <3>2
  <2>5. QED
    BY <2>2, <2>4
<1>3. Indexed(seqs, rows)
  BY DEF Indexed
<1>4. Tile(m, rows, t, cols) = FlattenSeq(seqs)
  BY DEF Tile
<1> HIDE DEF seqs, b, C
<1>5. Lists(FlattenSeq(seqs), (b[0] .. b[rows] - 1) \X C)
  BY <1>1, <1>2, <1>3, BoxRows
<1>6. QED
  BY <1>1, <1>4, <1>5 DEF C

\* Ranges of w, as many as x needs, the last one as short as x ends.
IsRanges(x, w, n, cut) ==
    /\ n \in Nat /\ cut \in [0 .. n -> Nat]
    /\ n = (x + w - 1) \div w
    /\ cut[0] = 0 /\ cut[n] = x
    /\ \A k \in 1 .. n :
         /\ cut[k - 1] = (k - 1) * w /\ cut[k - 1] < x
         /\ cut[k] = cut[k - 1] + Smaller(w, x - cut[k - 1])
         /\ cut[0] <= cut[k - 1] /\ cut[k - 1] <= cut[k] /\ cut[k] <= x

LEMMA Ranges ==
    ASSUME NEW x \in Nat, NEW w \in Nat \ {0}
    PROVE  \E n, cut : IsRanges(x, w, n, cut)
<1>1. x + w - 1 \in Nat
  OBVIOUS
<1>2. PICK n \in Nat, r \in 0 .. w - 1 :
        n = (x + w - 1) \div w /\ x + w - 1 = w * n + r /\ w * n \in Nat /\ n * w = w * n
  BY <1>1, Division, Zenon
<1>3. x <= n * w /\ n * w < x + w
  BY <1>1, <1>2
<1> DEFINE cut == [k \in 0 .. n |-> Smaller(k * w, x)]
<1>4. ASSUME NEW k \in Nat PROVE k * w \in Nat /\ (k + 1) * w = k * w + w
  <2>1. k * w \in Nat
    BY Commutes
  <2>2. (k + 1) * w = k * w + w
    OBVIOUS
  <2>3. QED
    BY <2>1, <2>2
<1>5. ASSUME NEW k \in 0 .. n PROVE Smaller(k * w, x) \in Nat
  BY <1>4 DEF Smaller
<1>6. cut \in [0 .. n -> Nat]
  BY <1>5
<1>7. cut[0] = 0
  <2>1. 0 * w = 0 /\ 0 \in 0 .. n
    OBVIOUS
  <2>2. cut[0] = Smaller(0 * w, x)
    BY <2>1
  <2>3. Smaller(0, x) = 0
    BY DEF Smaller
  <2>4. QED
    BY <2>1, <2>2, <2>3
<1>8. cut[n] = x
  <2>1. cut[n] = Smaller(n * w, x)
    OBVIOUS
  <2>2. n * w \in Nat
    BY <1>4
  <2> HIDE DEF cut
  <2>3. QED
    BY <2>1, <2>2, <1>3 DEF Smaller
<1>9. ASSUME NEW k \in 1 .. n
      PROVE  /\ cut[k - 1] = (k - 1) * w /\ cut[k - 1] < x
             /\ cut[k] = cut[k - 1] + Smaller(w, x - cut[k - 1])
             /\ 0 <= cut[k - 1] /\ cut[k - 1] <= cut[k] /\ cut[k] <= x
  <2> DEFINE p == (k - 1) * w
             q == k * w
  <2>1. k - 1 \in Nat /\ k \in Nat /\ (k - 1) + 1 = k /\ n - 1 \in Nat /\ k - 1 <= n - 1 /\ (n - 1) + 1 = n
    OBVIOUS
  <2>2. p \in Nat /\ q = p + w
    BY <2>1, <1>4
  <2>3. n * w = (n - 1) * w + w /\ (n - 1) * w \in Nat
    BY <2>1, <1>4
  <2>4. p <= (n - 1) * w
    BY <2>1, Monotone
  <2> DEFINE y == (n - 1) * w
  <2> HIDE DEF p, q
  <2>5. p < x
    <3>1. y \in Nat /\ y + w < x + w /\ p <= y
      BY <1>3, <2>3, <2>4
    <3> HIDE DEF y
    <3>2. QED
      BY <2>2, <3>1
  <2>6. cut[k - 1] = Smaller(p, x) /\ cut[k] = Smaller(q, x)
    <3>1. k - 1 \in 0 .. n /\ k \in 0 .. n
      OBVIOUS
    <3>2. QED
      BY <3>1 DEF p, q
  <2> HIDE DEF cut, y
  <2>7. cut[k - 1] = p
    BY <2>2, <2>5, <2>6 DEF Smaller
  <2>8. cut[k] = p + Smaller(w, x - p) /\ p <= cut[k] /\ cut[k] <= x
    BY <2>2, <2>5, <2>6 DEF Smaller
  <2>9. QED
    BY <2>2, <2>5, <2>7, <2>8 DEF p
<1> HIDE DEF cut
<1>10. IsRanges(x, w, n, cut)
  BY <1>2, <1>6, <1>7, <1>8, <1>9 DEF IsRanges
<1>11. QED
  BY <1>10

\* What the blocks of a panel, its fours of columns and its last columns compute.
LEMMA TilesAre ==
    ASSUME NEW rb \in Nat, NEW here \in Nat, NEW t \in Nat
    PROVE  Lists(Tiles(rb, here, t), (rb .. rb + here - 1) \X (t .. t + 4 - 1))
<1> DEFINE W == Nat \ {0}
           ms == Loops(here, <<2, 1>>)
           m == Len(ms)
           seqs == [k \in 1 .. m |-> Tile(rb + ms[k][1], ms[k][2], t, 4)]
           b == [k \in 0 .. m |-> rb + EndOf(ms, k)]
           C == t .. t + 4 - 1
<1>1. W \in SUBSET (Nat \ {0}) /\ <<2, 1>> \in Seq(W) /\ Len(<<2, 1>>) > 0 /\ <<2, 1>>[Len(<<2, 1>>)] = 1
  OBVIOUS
<1> HIDE DEF W
<1>2. Stairs(ms, here, W)
  <2>a. LoopsReach(here, <<2, 1>>, W)
    BY <1>1, LoopsAre, Zenon
  <2>1. PICK at \in 0 .. here :
          /\ Stairs(Loops(here, <<2, 1>>), at, W)
          /\ Len(<<2, 1>>) > 0 /\ <<2, 1>>[Len(<<2, 1>>)] = 1 => at = here
    BY <2>a, Zenon DEF LoopsReach
  <2>2. QED
    BY <2>1, <1>1
<1> HIDE DEF ms
<1>3. /\ m \in Nat /\ DOMAIN ms = 1 .. m
      /\ \A k \in 0 .. m : EndOf(ms, k) \in Nat
      /\ \A k \in 1 .. m : /\ ms[k][1] = EndOf(ms, k - 1) /\ ms[k][2] \in W
                           /\ EndOf(ms, k) = ms[k][1] + ms[k][2]
                           /\ EndOf(ms, k - 1) <= EndOf(ms, k)
  BY <1>1, <1>2, StairsRise
<1>4. EndOf(ms, 0) = 0 /\ EndOf(ms, m) = here
  BY <1>2 DEF Stairs, EndOf
<1> HIDE DEF m
<1>5. b \in [0 .. m -> Nat]
  BY <1>3
<1>6. b[0] = rb /\ b[m] = rb + here
  BY <1>3, <1>4
<1>7. ASSUME NEW k \in 1 .. m
      PROVE  /\ b[0] <= b[k - 1] /\ b[k - 1] <= b[k]
             /\ Lists(seqs[k], (b[k - 1] .. b[k] - 1) \X C)
  <2>1. k - 1 \in 0 .. m /\ k \in 0 .. m
    BY <1>3
  <2>2. b[k - 1] = rb + EndOf(ms, k - 1) /\ b[k] = rb + EndOf(ms, k)
    BY <2>1
  <2>3. EndOf(ms, k - 1) \in Nat /\ EndOf(ms, k) \in Nat /\ EndOf(ms, k - 1) <= EndOf(ms, k)
    BY <1>3, <2>1
  <2> DEFINE x == rb + ms[k][1]
             h == ms[k][2]
  <2>4. x = b[k - 1] /\ x + h = b[k] /\ x \in Nat /\ h \in Nat
    <3>1. ms[k][1] = EndOf(ms, k - 1) /\ EndOf(ms, k) = ms[k][1] + ms[k][2] /\ ms[k][2] \in Nat
      BY <1>3 DEF W
    <3>2. QED
      BY <2>2, <2>3, <3>1
  <2>5. seqs[k] = Tile(x, h, t, 4)
    OBVIOUS
  <2>6. b[0] <= b[k - 1] /\ b[k - 1] <= b[k]
    BY <2>2, <2>3, <1>6
  <2> HIDE DEF x, h, seqs, b
  <2>7. Lists(Tile(x, h, t, 4), (x .. x + h - 1) \X (t .. t + 4 - 1))
    BY <2>4, TileIs
  <2>8. b[k - 1] .. b[k] - 1 = x .. x + h - 1
    BY <2>4
  <2>9. QED
    BY <2>5, <2>6, <2>7, <2>8, Zenon
<1>8. Indexed(seqs, m)
  BY DEF Indexed
<1>9. Tiles(rb, here, t) = FlattenSeq(seqs)
  BY <1>3 DEF Tiles, ms
<1> HIDE DEF seqs, b, C
<1>10. Lists(FlattenSeq(seqs), (b[0] .. b[m] - 1) \X C)
  BY <1>3, <1>5, <1>7, <1>8, BoxRows
<1>11. QED
  BY <1>6, <1>9, <1>10 DEF C

LEMMA LastColumnsAre ==
    ASSUME NEW rb \in Nat, NEW here \in Nat, NEW t \in Nat, NEW rest \in Nat
    PROVE  Lists(LastColumns(rb, here, t, rest), (rb .. rb + here - 1) \X (t .. t + rest - 1))
<1> DEFINE seqs == [i \in 1 .. here |-> Tile(rb + i - 1, 1, t, rest)]
           b == [k \in 0 .. here |-> rb + k]
           C == t .. t + rest - 1
<1>1. b \in [0 .. here -> Nat] /\ b[0] = rb /\ b[here] = rb + here
  OBVIOUS
<1>2. ASSUME NEW k \in 1 .. here
      PROVE  /\ b[0] <= b[k - 1] /\ b[k - 1] <= b[k]
             /\ Lists(seqs[k], (b[k - 1] .. b[k] - 1) \X C)
  <2> DEFINE x == rb + k - 1
  <2>1. k - 1 \in 0 .. here /\ k \in 0 .. here /\ x \in Nat /\ 1 \in Nat
    OBVIOUS
  <2>2. b[k - 1] = x /\ b[k] - 1 = x + 1 - 1 /\ b[k - 1] <= b[k] /\ b[0] <= b[k - 1]
    BY <2>1
  <2>3. seqs[k] = Tile(x, 1, t, rest)
    OBVIOUS
  <2> HIDE DEF x, b, seqs
  <2>4. Lists(Tile(x, 1, t, rest), (x .. x + 1 - 1) \X C)
    BY <2>1, TileIs
  <2>5. QED
    BY <2>2, <2>3, <2>4
<1>3. Indexed(seqs, here)
  BY DEF Indexed
<1>4. LastColumns(rb, here, t, rest) = FlattenSeq(seqs)
  BY DEF LastColumns
<1> HIDE DEF seqs, b, C
<1>5. Lists(FlattenSeq(seqs), (b[0] .. b[here] - 1) \X C)
  BY <1>1, <1>2, <1>3, BoxRows
<1>6. QED
  BY <1>1, <1>4, <1>5 DEF C

\* A block of rows of a panel: the fours of its columns, and the rest of them.
LEMMA InBlockIs ==
    ASSUME NEW rb \in Nat, NEW here \in Nat, NEW t0 \in Nat, NEW cols \in Nat
    PROVE  Lists(InBlock(rb, here, t0, cols), (rb .. rb + here - 1) \X (t0 .. t0 + cols - 1))
<1> DEFINE R == rb .. rb + here - 1
           quads == Loops(cols, <<4>>)
           first == FlattenSeq([k \in DOMAIN quads |-> Tiles(rb, here, t0 + quads[k][1])])
<1>1. PICK n, rest : n = cols \div 4 /\ rest = cols % 4
  OBVIOUS
<1>1a. n \in Nat /\ rest \in 0 .. 4 - 1 /\ cols = 4 * n + rest
  BY <1>1
<1>2. quads = [j \in 1 .. n |-> <<(j - 1) * 4, 4>>]
  <2>1. 4 \in Nat \ {0}
    OBVIOUS
  <2>2. Loops(cols, <<4>>) = [j \in 1 .. cols \div 4 |-> <<(j - 1) * 4, 4>>]
    BY <2>1, LoopsOne
  <2>3. QED
    BY <1>1, <2>2
<1> HIDE DEF quads
<1> DEFINE seqs == [k \in 1 .. n |-> Tiles(rb, here, t0 + (k - 1) * 4)]
           b == [k \in 0 .. n |-> t0 + k * 4]
           at == t0 + 4 * n
<1>3. DOMAIN quads = 1 .. n /\ \A k \in 1 .. n : quads[k][1] = (k - 1) * 4
  BY <1>2
<1>4. first = FlattenSeq(seqs)
  <2>1. [k \in DOMAIN quads |-> Tiles(rb, here, t0 + quads[k][1])] = seqs
    BY <1>3
  <2>2. QED
    BY <2>1, Zenon
<1>5. b \in [0 .. n -> Nat] /\ b[0] = t0 /\ b[n] = at
  BY <1>1a
<1>6. ASSUME NEW k \in 1 .. n
      PROVE  /\ b[0] <= b[k - 1] /\ b[k - 1] <= b[k]
             /\ Lists(seqs[k], R \X (b[k - 1] .. b[k] - 1))
  <2> DEFINE t == t0 + (k - 1) * 4
  <2>1. k - 1 \in 0 .. n /\ k \in 0 .. n /\ t \in Nat
    BY <1>1a
  <2>2. b[k - 1] = t /\ b[k] = t + 4 /\ b[0] <= t
    BY <1>1a, <2>1
  <2>3. seqs[k] = Tiles(rb, here, t)
    OBVIOUS
  <2> HIDE DEF t, b, seqs
  <2>4. Lists(Tiles(rb, here, t), R \X (t .. t + 4 - 1))
    BY <2>1, TilesAre
  <2>5. b[k - 1] .. b[k] - 1 = t .. t + 4 - 1 /\ b[0] <= b[k - 1] /\ b[k - 1] <= b[k]
    BY <2>1, <2>2
  <2>6. QED
    BY <2>3, <2>4, <2>5, Zenon
<1>7. Indexed(seqs, n)
  BY DEF Indexed
<1>8. at \in Nat /\ t0 + cols - rest = at /\ rest \in Nat /\ at + rest = t0 + cols
  BY <1>1a
<1>8a. t0 <= at
  BY <1>1a
<1> HIDE DEF seqs, b, R, first
<1>9. Lists(first, R \X (t0 .. at - 1))
  <2>1. Lists(FlattenSeq(seqs), R \X (b[0] .. b[n] - 1))
    BY <1>1a, <1>5, <1>6, <1>7, BoxColumns
  <2>2. QED
    BY <1>4, <1>5, <2>1
<1> DEFINE last == LastColumns(rb, here, at, rest)
<1> HIDE DEF at, last
<1>10. Lists(last, R \X (at .. at + rest - 1))
  BY <1>8, LastColumnsAre DEF R, last
<1>11. InBlock(rb, here, t0, cols) = first \o last
  <2>1. InBlock(rb, here, t0, cols) = first \o LastColumns(rb, here, t0 + cols - (cols % 4), cols % 4)
    BY Zenon DEF InBlock, first, quads
  <2>2. t0 + cols - (cols % 4) = at
    BY <1>1, <1>8
  <2>3. LastColumns(rb, here, t0 + cols - (cols % 4), cols % 4) = last
    BY <1>1, <2>2, Zenon DEF last
  <2>4. QED
    BY <2>1, <2>3, Zenon
<1>12. /\ R \X (t0 .. at - 1) \subseteq R \X (t0 .. t0 + cols - 1)
       /\ (R \X (t0 .. t0 + cols - 1)) \ (R \X (t0 .. at - 1)) = R \X (at .. at + rest - 1)
  <2>1. /\ t0 .. at - 1 \subseteq t0 .. t0 + cols - 1
        /\ (t0 .. t0 + cols - 1) \ (t0 .. at - 1) = at .. at + rest - 1
    BY <1>8, <1>8a
  <2>2. QED
    BY <2>1
<1>13. Lists(first \o last, R \X (t0 .. t0 + cols - 1))
  BY <1>9, <1>10, <1>12, ListsConcat
<1>14. QED
  BY <1>11, <1>13 DEF R

\* The smaller of a width and of what is left.
LEMMA SmallerNat ==
    ASSUME NEW w \in Nat, NEW x \in Nat, NEW y \in Nat, y <= x
    PROVE  Smaller(w, x - y) \in Nat
BY DEF Smaller

LEMMA GemmPanelIs ==
    ASSUME NEW rows \in Nat, NEW t0 \in Nat, NEW cols \in Nat
    PROVE  Lists(GemmPanel(rows, t0, cols), (0 .. rows - 1) \X (t0 .. t0 + cols - 1))
<1> DEFINE C == t0 .. t0 + cols - 1
<1>1. RowBlock \in Nat \ {0} /\ RowBlock \in Nat
  BY KernelsAssumption
<1>2. PICK n, cut : IsRanges(rows, RowBlock, n, cut)
  BY <1>1, Ranges
<1>3. /\ n \in Nat /\ cut \in [0 .. n -> Nat]
      /\ n = (rows + RowBlock - 1) \div RowBlock
      /\ cut[0] = 0 /\ cut[n] = rows
      /\ \A k \in 1 .. n :
           /\ cut[k - 1] = (k - 1) * RowBlock /\ cut[k - 1] < rows
           /\ cut[k] = cut[k - 1] + Smaller(RowBlock, rows - cut[k - 1])
           /\ cut[0] <= cut[k - 1] /\ cut[k - 1] <= cut[k] /\ cut[k] <= rows
  BY <1>2 DEF IsRanges
<1> DEFINE block(rb) == InBlock(rb, Smaller(RowBlock, rows - rb), t0, cols)
           seqs == [k \in 1 .. n |-> block((k - 1) * RowBlock)]
<1>4. ASSUME NEW k \in 1 .. n
      PROVE  /\ cut[0] <= cut[k - 1] /\ cut[k - 1] <= cut[k]
             /\ Lists(seqs[k], (cut[k - 1] .. cut[k] - 1) \X C)
  <2> DEFINE rb == cut[k - 1]
             h == Smaller(RowBlock, rows - rb)
  <2>1. k - 1 \in 0 .. n /\ k \in 0 .. n
    BY <1>3
  <2>2a. /\ cut[k - 1] < rows /\ cut[k] = cut[k - 1] + Smaller(RowBlock, rows - cut[k - 1])
        /\ cut[0] <= cut[k - 1] /\ cut[k - 1] <= cut[k]
    BY <1>3, Zenon
  <2>2b. cut[k - 1] \in Nat /\ cut[k] \in Nat
    BY <1>3, <2>1
  <2>2. rb \in Nat /\ rb <= rows /\ cut[k] = rb + h /\ cut[0] <= rb /\ rb <= cut[k] /\ cut[k - 1] = rb
    BY <2>2a, <2>2b
  <2>3. h \in Nat
    BY <1>1, <2>2, SmallerNat
  <2>4. seqs[k] = block(rb)
    BY <1>3
  <2>5. seqs[k] = InBlock(rb, h, t0, cols)
    BY <2>4, Zenon
  <2> HIDE DEF rb, h, seqs
  <2>6. cut[k - 1] .. cut[k] - 1 = rb .. rb + h - 1
    BY <2>2, <2>3
  <2>7. Lists(InBlock(rb, h, t0, cols), (rb .. rb + h - 1) \X C)
    BY <2>2, <2>3, InBlockIs
  <2>8. cut[0] <= cut[k - 1] /\ cut[k - 1] <= cut[k]
    BY <2>2 DEF rb
  <2>9. QED
    BY <2>5, <2>6, <2>7, <2>8, Zenon
<1>5. Indexed(seqs, n)
  BY DEF Indexed
<1>6. GemmPanel(rows, t0, cols) = FlattenSeq(seqs)
  BY <1>3, Zenon DEF GemmPanel
<1> HIDE DEF seqs, C
<1>7. Lists(FlattenSeq(seqs), (cut[0] .. cut[n] - 1) \X C)
  BY <1>3, <1>4, <1>5, BoxRows
<1>8. QED
  BY <1>3, <1>6, <1>7 DEF C

\* Every output of the int8 convolution is computed once.
LEMMA Conv1dInt8Is ==
    ASSUME NEW rows \in Nat, NEW length \in Nat
    PROVE  Lists(Conv1dInt8(rows, length), (0 .. rows - 1) \X (0 .. length - 1))
<1> DEFINE R == 0 .. rows - 1
<1>1. PanelCols \in Nat \ {0} /\ PanelCols \in Nat
  BY KernelsAssumption
<1>2. PICK n, cut : IsRanges(length, PanelCols, n, cut)
  BY <1>1, Ranges
<1>3. /\ n \in Nat /\ cut \in [0 .. n -> Nat]
      /\ n = (length + PanelCols - 1) \div PanelCols
      /\ cut[0] = 0 /\ cut[n] = length
      /\ \A k \in 1 .. n :
           /\ cut[k - 1] = (k - 1) * PanelCols /\ cut[k - 1] < length
           /\ cut[k] = cut[k - 1] + Smaller(PanelCols, length - cut[k - 1])
           /\ cut[0] <= cut[k - 1] /\ cut[k - 1] <= cut[k] /\ cut[k] <= length
  BY <1>2 DEF IsRanges
<1> DEFINE panel(p) == GemmPanel(rows, p * PanelCols, Smaller(PanelCols, length - p * PanelCols))
           seqs == [p \in 1 .. n |-> panel(p - 1)]
<1>4. ASSUME NEW k \in 1 .. n
      PROVE  /\ cut[0] <= cut[k - 1] /\ cut[k - 1] <= cut[k]
             /\ Lists(seqs[k], R \X (cut[k - 1] .. cut[k] - 1))
  <2> DEFINE t == cut[k - 1]
             h == Smaller(PanelCols, length - t)
  <2>1. k - 1 \in 0 .. n /\ k \in 0 .. n
    BY <1>3
  <2>2a. /\ cut[k - 1] < length /\ cut[k] = cut[k - 1] + Smaller(PanelCols, length - cut[k - 1])
        /\ cut[0] <= cut[k - 1] /\ cut[k - 1] <= cut[k]
    BY <1>3, Zenon
  <2>2b. cut[k - 1] \in Nat /\ cut[k] \in Nat
    BY <1>3, <2>1
  <2>2. t \in Nat /\ t <= length /\ cut[k] = t + h /\ cut[0] <= t /\ t <= cut[k] /\ cut[k - 1] = t
    BY <2>2a, <2>2b
  <2>3. h \in Nat
    BY <1>1, <2>2, SmallerNat
  <2>4. t = (k - 1) * PanelCols /\ seqs[k] = panel(k - 1)
    BY <1>3
  <2>5. seqs[k] = GemmPanel(rows, t, h)
    BY <2>4, Zenon
  <2> HIDE DEF t, h, seqs
  <2>6. cut[k - 1] .. cut[k] - 1 = t .. t + h - 1
    BY <2>2, <2>3
  <2>7. Lists(GemmPanel(rows, t, h), R \X (t .. t + h - 1))
    BY <2>2, <2>3, GemmPanelIs
  <2>8. cut[0] <= cut[k - 1] /\ cut[k - 1] <= cut[k]
    BY <2>2 DEF t
  <2>9. QED
    BY <2>5, <2>6, <2>7, <2>8, Zenon
<1>5. Indexed(seqs, n)
  BY DEF Indexed
<1>6. Conv1dInt8(rows, length) = FlattenSeq(seqs)
  BY <1>3, Zenon DEF Conv1dInt8
<1> HIDE DEF seqs, R
<1>7. Lists(FlattenSeq(seqs), R \X (cut[0] .. cut[n] - 1))
  BY <1>3, <1>4, <1>5, BoxColumns
<1>8. QED
  BY <1>3, <1>6, <1>7 DEF R

\* A block of rows is never empty.
LEMMA PerBlockIs ==
    ASSUME NEW rows \in Nat, NEW nt \in Nat \ {0}
    PROVE  PerBlock(rows, nt) \in Nat \ {0} /\ PerBlock(rows, nt) \in Nat
<1> DEFINE a == rows + 2 * nt - 1
           n == 2 * nt
           share == a \div n
<1>1. a \in Nat /\ n \in Nat \ {0}
  OBVIOUS
<1> HIDE DEF a, n
<1>2. share \in Nat
  <2>1. PICK q \in Nat, r \in 0 .. n - 1 : q = a \div n
    BY <1>1, Division, Zenon
  <2>2. QED
    BY <2>1
<1> HIDE DEF share
<1>3. PerBlock(rows, nt) = IF share <= 2 THEN 2 ELSE 2 * ((share + 1) \div 2)
  BY DEF PerBlock, share, a, n
<1>4. QED
  BY <1>2, <1>3

\* A block of rows over the panels of columns, numbered from its own first row.
LEMMA PanelsAre ==
    ASSUME NEW rows \in Nat, NEW length \in Nat, NEW panels,
           panels = Loops(length + PanelCols - 1, <<PanelCols>>), NEW seqs,
           seqs = [k \in DOMAIN panels |->
                     GemmPanel(rows, panels[k][1], Smaller(PanelCols, length - panels[k][1]))]
    PROVE  Lists(FlattenSeq(seqs), (0 .. rows - 1) \X (0 .. length - 1))
<1> DEFINE R == 0 .. rows - 1
<1>1. PanelCols \in Nat \ {0} /\ PanelCols \in Nat
  BY KernelsAssumption
<1>2. PICK n, cut : IsRanges(length, PanelCols, n, cut)
  BY <1>1, Ranges
<1>3. /\ n \in Nat /\ cut \in [0 .. n -> Nat]
      /\ n = (length + PanelCols - 1) \div PanelCols
      /\ cut[0] = 0 /\ cut[n] = length
      /\ \A k \in 1 .. n :
           /\ cut[k - 1] = (k - 1) * PanelCols /\ cut[k - 1] < length
           /\ cut[k] = cut[k - 1] + Smaller(PanelCols, length - cut[k - 1])
           /\ cut[0] <= cut[k - 1] /\ cut[k - 1] <= cut[k] /\ cut[k] <= length
  BY <1>2 DEF IsRanges
<1>4. panels = [j \in 1 .. n |-> <<(j - 1) * PanelCols, PanelCols>>]
  <2>1. length + PanelCols - 1 \in Nat
    BY <1>1
  <2>2. Loops(length + PanelCols - 1, <<PanelCols>>)
          = [j \in 1 .. (length + PanelCols - 1) \div PanelCols |-> <<(j - 1) * PanelCols, PanelCols>>]
    BY <1>1, <2>1, LoopsOne
  <2>3. QED
    BY <1>3, <2>2, Zenon
<1>5. DOMAIN panels = 1 .. n /\ \A k \in 1 .. n : panels[k][1] = cut[k - 1]
  <2>1. ASSUME NEW k \in 1 .. n PROVE panels[k][1] = (k - 1) * PanelCols
    <3> DEFINE v == (k - 1) * PanelCols
    <3>1. panels[k] = <<v, PanelCols>>
      BY <1>4, Zenon
    <3> HIDE DEF v
    <3>2. panels[k][1] = v
      BY <3>1
    <3>3. QED
      BY <3>2 DEF v
  <2>2. QED
    BY <1>3, <1>4, <2>1, Zenon
<1>6. ASSUME NEW k \in 1 .. n
      PROVE  /\ cut[0] <= cut[k - 1] /\ cut[k - 1] <= cut[k]
             /\ Lists(seqs[k], R \X (cut[k - 1] .. cut[k] - 1))
  <2> DEFINE t == cut[k - 1]
             h == Smaller(PanelCols, length - t)
  <2>1. k - 1 \in 0 .. n /\ k \in 0 .. n
    BY <1>3
  <2>2. /\ cut[k - 1] < length /\ cut[k] = cut[k - 1] + Smaller(PanelCols, length - cut[k - 1])
        /\ cut[0] <= cut[k - 1] /\ cut[k - 1] <= cut[k]
    BY <1>3, Zenon
  <2>3. cut[k - 1] \in Nat /\ cut[k] \in Nat
    BY <1>3, <2>1
  <2>4. t \in Nat /\ t <= length /\ cut[k] = t + h /\ cut[0] <= t /\ t <= cut[k] /\ cut[k - 1] = t
    BY <2>2, <2>3
  <2>5. h \in Nat
    BY <1>1, <2>4, SmallerNat
  <2>6. seqs[k] = GemmPanel(rows, t, h)
    BY <1>5, Zenon
  <2> HIDE DEF t, h
  <2>7. cut[k - 1] .. cut[k] - 1 = t .. t + h - 1
    BY <2>4, <2>5
  <2>8. Lists(GemmPanel(rows, t, h), R \X (t .. t + h - 1))
    BY <2>4, <2>5, GemmPanelIs
  <2>9. QED
    BY <2>2, <2>6, <2>7, <2>8, Zenon
<1>7. Indexed(seqs, n)
  <2>1. seqs = [k \in 1 .. n |-> seqs[k]]
    BY <1>5
  <2>2. QED
    BY <2>1 DEF Indexed
<1> HIDE DEF R
<1>8. Lists(FlattenSeq(seqs), R \X (cut[0] .. cut[n] - 1))
  BY <1>3, <1>6, <1>7, BoxColumns
<1>9. QED
  BY <1>3, <1>8 DEF R

LEMMA GemmRowsIs ==
    ASSUME NEW m0 \in Nat, NEW rows \in Nat, NEW length \in Nat
    PROVE  Lists(GemmRows(m0, rows, length), (m0 .. m0 + rows - 1) \X (0 .. length - 1))
<1> DEFINE panels == Loops(length + PanelCols - 1, <<PanelCols>>)
           seqs == [k \in DOMAIN panels |->
                      GemmPanel(rows, panels[k][1], Smaller(PanelCols, length - panels[k][1]))]
           local == FlattenSeq(seqs)
           A == (0 .. rows - 1) \X (0 .. length - 1)
           B == (m0 .. m0 + rows - 1) \X (0 .. length - 1)
           t == [i \in DOMAIN local |-> <<m0 + local[i][1], local[i][2]>>]
           g == [x \in A |-> <<m0 + x[1], x[2]>>]
<1>1. Lists(local, A)
  BY PanelsAre
<1>2. GemmRows(m0, rows, length) = t
  BY Zenon DEF GemmRows
<1> HIDE DEF local, panels, seqs
<1>3. \A i \in DOMAIN local : local[i] \in A
  BY <1>1 DEF Lists
<1>4. ASSUME NEW x \in A
      PROVE  x = <<x[1], x[2]>> /\ x[1] \in 0 .. rows - 1 /\ x[2] \in 0 .. length - 1
  BY <1>4, PairParts
<1>5. g \in [A -> B]
  <2>1. ASSUME NEW x \in A PROVE <<m0 + x[1], x[2]>> \in B
    <3>1. m0 + x[1] \in m0 .. m0 + rows - 1 /\ x[2] \in 0 .. length - 1
      BY <1>4
    <3>2. QED
      BY <3>1
  <2> HIDE DEF A, B
  <2>2. QED
    BY <2>1
<1>6. ASSUME NEW x \in A, NEW y \in A, g[x] = g[y] PROVE x = y
  <2>1. g[x] = <<m0 + x[1], x[2]>> /\ g[y] = <<m0 + y[1], y[2]>>
    BY Zenon
  <2> HIDE DEF A, g
  <2> DEFINE p == m0 + x[1]
             q == m0 + y[1]
  <2>2. <<p, x[2]>> = <<q, y[2]>>
    BY <1>6, <2>1, Zenon
  <2> HIDE DEF p, q
  <2>3. p = q /\ x[2] = y[2]
    BY <2>2
  <2>4. x[1] = y[1]
    <3>1. x[1] \in Int /\ y[1] \in Int
      BY <1>4
    <3> DEFINE u == x[1]
               v == y[1]
    <3>2. u \in Int /\ v \in Int /\ m0 + u = m0 + v
      BY <2>3, <3>1 DEF p, q
    <3> HIDE DEF u, v
    <3>3. u = v
      BY <3>2
    <3>4. QED
      BY <3>3 DEF u, v
  <2>5. QED
    BY <1>4, <2>3, <2>4, Zenon
<1>7. ASSUME NEW y \in B PROVE \E x \in A : g[x] = y
  <2> DEFINE p == y[1] - m0
  <2>1. y = <<y[1], y[2]>> /\ y[1] \in m0 .. m0 + rows - 1 /\ y[2] \in 0 .. length - 1
    BY <1>7, PairParts
  <2>2. p \in 0 .. rows - 1 /\ m0 + p = y[1]
    BY <2>1
  <2> HIDE DEF p
  <2>3. <<p, y[2]>> \in A
    BY <2>1, <2>2
  <2>4. g[<<p, y[2]>>] = <<m0 + p, y[2]>>
    BY <2>3
  <2>5. QED
    BY <2>1, <2>2, <2>3, <2>4, Zenon
<1>8. ASSUME NEW i \in DOMAIN local PROVE t[i] = g[local[i]]
  BY <1>3
<1>9. t = [i \in DOMAIN local |-> t[i]]
  OBVIOUS
<1> HIDE DEF A, B, t, g
<1>10. Lists(t, B)
  BY <1>1, <1>5, <1>6, <1>7, <1>8, <1>9, ListsMoved
<1>11. QED
  BY <1>2, <1>10 DEF B

\* Every output of the transposed convolution's products is computed once.
LEMMA GemmInt8Is ==
    ASSUME NEW rows \in Nat, NEW length \in Nat, NEW nt \in Nat \ {0}
    PROVE  Lists(GemmInt8(rows, length, nt), (0 .. rows - 1) \X (0 .. length - 1))
<1> DEFINE C == 0 .. length - 1
           P == PerBlock(rows, nt)
           block(m0) == GemmRows(m0, Smaller(P, rows - m0), length)
<1>1. P \in Nat \ {0} /\ P \in Nat
  BY PerBlockIs
<1>2. PICK n, cut : IsRanges(rows, P, n, cut)
  BY <1>1, Ranges
<1> DEFINE seqs == [k \in 1 .. n |-> block((k - 1) * P)]
<1>3. /\ n \in Nat /\ cut \in [0 .. n -> Nat]
      /\ n = (rows + P - 1) \div P
      /\ cut[0] = 0 /\ cut[n] = rows
      /\ \A k \in 1 .. n :
           /\ cut[k - 1] = (k - 1) * P /\ cut[k - 1] < rows
           /\ cut[k] = cut[k - 1] + Smaller(P, rows - cut[k - 1])
           /\ cut[0] <= cut[k - 1] /\ cut[k - 1] <= cut[k] /\ cut[k] <= rows
  BY <1>2 DEF IsRanges
<1>4. GemmInt8(rows, length, nt) = FlattenSeq(seqs)
  BY <1>3, Zenon DEF GemmInt8
<1> HIDE DEF P
<1>5. ASSUME NEW k \in 1 .. n
      PROVE  /\ cut[0] <= cut[k - 1] /\ cut[k - 1] <= cut[k]
             /\ Lists(seqs[k], (cut[k - 1] .. cut[k] - 1) \X C)
  <2> DEFINE m0 == cut[k - 1]
             h == Smaller(P, rows - m0)
  <2>1. k - 1 \in 0 .. n /\ k \in 0 .. n
    BY <1>3
  <2>2. /\ cut[k - 1] < rows /\ cut[k] = cut[k - 1] + Smaller(P, rows - cut[k - 1])
        /\ cut[0] <= cut[k - 1] /\ cut[k - 1] <= cut[k]
    BY <1>3, Zenon
  <2>3. cut[k - 1] \in Nat /\ cut[k] \in Nat
    BY <1>3, <2>1
  <2>4. m0 \in Nat /\ m0 <= rows /\ cut[k] = m0 + h /\ cut[0] <= m0 /\ m0 <= cut[k] /\ cut[k - 1] = m0
    BY <2>2, <2>3
  <2>5. h \in Nat
    BY <1>1, <2>4, SmallerNat
  <2>6. m0 = (k - 1) * P
    BY <1>3, Zenon
  <2>7. seqs[k] = GemmRows(m0, h, length)
    BY <2>6, Zenon
  <2> HIDE DEF m0, h, seqs
  <2>8. cut[k - 1] .. cut[k] - 1 = m0 .. m0 + h - 1
    BY <2>4, <2>5
  <2>9. Lists(GemmRows(m0, h, length), (m0 .. m0 + h - 1) \X C)
    BY <2>4, <2>5, GemmRowsIs
  <2>10. QED
    BY <2>2, <2>7, <2>8, <2>9, Zenon
<1>6. Indexed(seqs, n)
  BY DEF Indexed
<1> HIDE DEF seqs, C
<1>7. Lists(FlattenSeq(seqs), (cut[0] .. cut[n] - 1) \X C)
  BY <1>3, <1>5, <1>6, BoxRows
<1>8. QED
  BY <1>3, <1>4, <1>7 DEF C

\* Every output of a convolution, and of its transpose, is computed once,
\* whatever the tiles and the blocks leave over.
THEOREM CellsAreComputedOnce ==
    ASSUME NEW rows \in Nat, NEW length \in Nat
    PROVE  CellsOnce(rows, length)
<1> DEFINE cells == (0 .. rows - 1) \X (0 .. length - 1)
<1>1. Once(Conv1dInt8(rows, length), cells)
  <2>1. Lists(Conv1dInt8(rows, length), cells)
    BY Conv1dInt8Is
  <2>2. QED
    BY <2>1, ListsOnce
<1>2. ASSUME NEW nt \in 1 .. 3 PROVE Once(GemmInt8(rows, length, nt), cells)
  <2>1. nt \in Nat \ {0}
    OBVIOUS
  <2>2. Lists(GemmInt8(rows, length, nt), cells)
    BY <2>1, GemmInt8Is
  <2>3. QED
    BY <2>2, ListsOnce
<1>3. QED
  BY <1>1, <1>2 DEF CellsOnce

\* What the dot products are made of: a part of a sequence, and products.
LEMMA PartIs ==
    ASSUME NEW n \in Nat, NEW s \in [1 .. n -> Int], NEW at \in Nat, NEW m \in Nat,
           at + m <= n
    PROVE  /\ Part(s, at, m) \in [1 .. m -> Int]
           /\ \A i \in 1 .. m : Part(s, at, m)[i] = s[at + i]
<1>1. s \in Seq(Int) /\ Len(s) = n
  OBVIOUS
<1>2. Part(s, at, m) = SubSeq(s, at + 1, at + m)
  BY DEF Part
<1>3. /\ SubSeq(s, at + 1, at + m) \in Seq(Int) /\ Len(SubSeq(s, at + 1, at + m)) = m
      /\ \A i \in 1 .. m : SubSeq(s, at + 1, at + m)[i] = s[at + i]
  BY <1>1
<1> DEFINE p == SubSeq(s, at + 1, at + m)
<1>4. p \in Seq(Int) /\ Len(p) = m /\ \A i \in 1 .. m : p[i] = s[at + i]
  BY <1>3, Zenon
<1>5. Part(s, at, m) = p
  BY <1>2, Zenon
<1> HIDE DEF p
<1>6. p \in [1 .. m -> Int]
  BY <1>4
<1>7. QED
  BY <1>4, <1>5, <1>6, Zenon

LEMMA TimesIs ==
    ASSUME NEW n \in Nat, NEW x \in [1 .. n -> Int], NEW w \in [1 .. n -> Int]
    PROVE  /\ Times(x, w) \in [1 .. n -> Int]
           /\ \A k \in 1 .. n : Times(x, w)[k] = x[k] * w[k]
<1>1. DOMAIN x = 1 .. n
  OBVIOUS
<1>2. Times(x, w) = [k \in 1 .. n |-> x[k] * w[k]]
  BY <1>1, Zenon DEF Times
<1>3. ASSUME NEW k \in 1 .. n PROVE x[k] * w[k] \in Int
  <2>1. x[k] \in Int /\ w[k] \in Int
    OBVIOUS
  <2>2. QED
    BY <2>1
<1>4. QED
  BY <1>2, <1>3, Zenon

LEMMA Distributes ==
    ASSUME NEW a \in Int, NEW b \in Int, NEW v \in Int
    PROVE  (a + b) * v = a * v + b * v /\ a * v \in Int /\ b * v \in Int
OBVIOUS

LEMMA Remains ==
    ASSUME NEW n \in Nat \ {0}, NEW a \in 0 .. n - 1
    PROVE  a % n = a
<1>1. a \in Nat /\ n * 0 = 0 /\ a = n * 0 + a
  OBVIOUS
<1>2. a \div n = 0
  BY <1>1, DivisionExact
<1>3. PICK q \in Nat, r \in 0 .. n - 1 :
        /\ q = a \div n /\ r = a % n
        /\ a = n * q + r /\ n * q \in Nat /\ q * n = n * q
  BY <1>1, Division, Zenon
<1>4. QED
  BY <1>1, <1>2, <1>3

\* The product of bytes moved up by Half is the product, whatever the tail.
LEMMA VnniDotIs ==
    ASSUME NEW n \in Nat, NEW x \in [1 .. n -> (-Half) .. (Half - 1)], NEW w \in [1 .. n -> Int]
    PROVE  VnniDot(x, w) = Sum(Times(x, w))
<1>1. Half \in Nat \ {0} /\ Vector \in Nat \ {0} /\ Half \in Int
  BY KernelsAssumption
<1>2. Len(x) = n /\ x \in [1 .. n -> Int]
  BY <1>1
<1> DEFINE vec == (n \div Vector) * Vector
<1>3. vec \in Nat /\ vec <= n
  <2>1. PICK q \in Nat, r \in 0 .. Vector - 1 :
          /\ q = n \div Vector /\ r = n % Vector
          /\ n = Vector * q + r /\ Vector * q \in Nat /\ q * Vector = Vector * q
    BY <1>1, Division, Zenon
  <2> DEFINE p == Vector * q
  <2>2. vec = p
    BY <2>1, Zenon
  <2>3. p \in Nat /\ n = p + r /\ r \in Nat
    BY <1>1, <2>1
  <2> HIDE DEF p, vec
  <2>4. QED
    BY <2>2, <2>3
<1> DEFINE ua == [k \in 1 .. vec |-> (x[k] + Half) % (2 * Half)]
           T == [k \in 1 .. vec |-> ua[k] * w[k]]
           S == Times(x, w)
           X1 == [k \in 1 .. vec |-> x[k] * w[k]]
           W1 == Part(w, 0, vec)
           xs == Part(x, vec, n - vec)
           ws == Part(w, vec, n - vec)
           B == Times(xs, ws)
<1>4. VnniDot(x, w) = Sum(T) - Half * Sum(W1) + Sum(B)
  BY <1>2, Zenon DEF VnniDot
<1> HIDE DEF vec
<1>5. S \in [1 .. n -> Int] /\ \A k \in 1 .. n : S[k] = x[k] * w[k]
  BY <1>2, TimesIs
<1>6. W1 \in [1 .. vec -> Int] /\ \A k \in 1 .. vec : W1[k] = w[k]
  <2>1. 0 + vec <= n /\ 0 \in Nat
    BY <1>3
  <2>2. W1 \in [1 .. vec -> Int] /\ \A k \in 1 .. vec : W1[k] = w[0 + k]
    BY <1>3, <2>1, PartIs, Zenon
  <2> HIDE DEF W1
  <2>3. QED
    BY <1>3, <2>2
<1>7. n - vec \in Nat /\ vec + (n - vec) <= n /\ vec \in 0 .. n
  BY <1>3
<1>8. xs \in [1 .. n - vec -> Int] /\ \A k \in 1 .. n - vec : xs[k] = x[vec + k]
  <2>1. x \in [1 .. n -> Int]
    BY <1>2
  <2>2. QED
    BY <1>3, <1>7, <2>1, PartIs, Zenon
<1>9. ws \in [1 .. n - vec -> Int] /\ \A k \in 1 .. n - vec : ws[k] = w[vec + k]
  BY <1>3, <1>7, PartIs, Zenon
<1> HIDE DEF xs, ws, W1
<1>10. B \in [1 .. n - vec -> Int] /\ \A k \in 1 .. n - vec : B[k] = xs[k] * ws[k]
  BY <1>7, <1>8, <1>9, TimesIs
<1> HIDE DEF B, S
<1>11. \A k \in 1 .. n - vec : B[k] = S[vec + k]
  <2>1. ASSUME NEW k \in 1 .. n - vec PROVE B[k] = S[vec + k]
    <3>1. vec + k \in 1 .. n
      BY <1>3
    <3>2. S[vec + k] = x[vec + k] * w[vec + k]
      BY <1>5, <3>1, Zenon
    <3>3. QED
      BY <1>8, <1>9, <1>10, <3>2, Zenon
  <2>2. QED
    BY <2>1
<1>12. \A k \in 1 .. vec : k \in 1 .. n
  BY <1>3
<1>13. X1 \in [1 .. vec -> Int] /\ \A k \in 1 .. vec : X1[k] = S[k]
  <2>1. ASSUME NEW k \in 1 .. vec PROVE x[k] * w[k] = S[k] /\ S[k] \in Int
    BY <1>5, <1>12, Zenon
  <2>2. QED
    BY <2>1
<1>14. ASSUME NEW k \in 1 .. vec PROVE T[k] = X1[k] + Half * W1[k] /\ T[k] \in Int
  <2> DEFINE a == x[k]
             v == w[k]
  <2>1. a \in (-Half) .. (Half - 1) /\ a \in Int /\ v \in Int
    BY <1>1, <1>12
  <2>2. T[k] = ((a + Half) % (2 * Half)) * v /\ X1[k] = a * v
    OBVIOUS
  <2>3. W1[k] = v
    BY <1>6
  <2> HIDE DEF a, v, T, X1
  <2>4. 2 * Half \in Nat \ {0} /\ a + Half \in 0 .. 2 * Half - 1
    BY <1>1, <2>1
  <2>5. (a + Half) % (2 * Half) = a + Half
    BY <2>4, Remains
  <2>6. (a + Half) * v = a * v + Half * v /\ a * v \in Int /\ Half * v \in Int
    BY <1>1, <2>1, Distributes
  <2>7. T[k] = a * v + Half * v
    BY <2>2, <2>5, <2>6, Zenon
  <2>8. a * v + Half * v \in Int
    BY <2>6
  <2>9. QED
    BY <2>2, <2>3, <2>7, <2>8, Zenon
<1>15. T \in [1 .. vec -> Int]
  <2>1. T = [k \in 1 .. vec |-> T[k]]
    OBVIOUS
  <2> HIDE DEF T
  <2>2. QED
    BY <1>14, <2>1, Zenon
<1> HIDE DEF T, X1
<1>15a. \A k \in 1 .. vec : T[k] = X1[k] + Half * W1[k]
  BY <1>14, Zenon
<1>15b. vec \in Nat /\ Half \in Int /\ X1 \in [1 .. vec -> Int] /\ W1 \in [1 .. vec -> Int]
  BY <1>1, <1>3, <1>6, <1>13, Zenon
<1>16. Sum(T) = Sum(X1) + Half * Sum(W1) /\ Sum(X1) \in Int /\ Sum(W1) \in Int /\ Sum(T) \in Int
  <2>1. Linear(T, X1, W1, Half, vec)
    BY <1>15, <1>15a, <1>15b, Zenon DEF Linear
  <2>2. QED
    BY <2>1, SumLinear
<1>17. Sum(S) = Sum(X1) + Sum(B) /\ Sum(B) \in Int
  <2>1. CutInTwo(S, X1, B, n, vec)
    BY <1>5, <1>7, <1>10, <1>11, <1>13, Zenon DEF CutInTwo
  <2>2. QED
    BY <2>1, SumSplit
<1> DEFINE h == Half * Sum(W1)
<1>18. h \in Int
  BY <1>1, <1>16
<1>19. VnniDot(x, w) = Sum(T) - h + Sum(B) /\ Sum(T) = Sum(X1) + h
  BY <1>4, <1>16
<1> HIDE DEF h
<1>20. QED
  BY <1>16, <1>17, <1>18, <1>19 DEF S

\* A weight of 4 bits, and: what was packed comes out moved up by 8.
LEMMA Nibble ==
    ASSUME NEW v \in [1 .. Q4Block -> -8 .. 7], NEW k \in 1 .. Q4Block
    PROVE  v[k] \in Int /\ v[k] + 8 \in 0 .. 15
<1> DEFINE a == v[k]
<1>1. a \in -8 .. 7
  BY Zenon
<1> HIDE DEF a
<1>2. a \in Int /\ a + 8 \in 0 .. 15
  BY <1>1
<1>3. QED
  BY <1>2, Zenon DEF a

LEMMA Unpacked ==
    ASSUME NEW v \in [1 .. Q4Block -> -8 .. 7]
    PROVE  Q4Unpack(Q4Pack(v)) = [k \in 1 .. Q4Block |-> v[k] + 8]
<1> DEFINE B == Q4Block
           qs == Q4Pack(v)
<1>1. B \in Nat \ {0} /\ B % 2 = 0
  BY KernelsAssumption
<1> DEFINE half == B \div 2
<1>2. half \in Nat /\ B = 2 * half
  BY <1>1
<1>3. qs = [i \in 1 .. half |-> (v[2 * i - 1] + 8) + 16 * (v[2 * i] + 8)]
  BY Zenon DEF Q4Pack
<1>4. \A k \in 1 .. B : v[k] + 8 \in 0 .. 15
  BY Nibble, Zenon
<1> HIDE DEF half, qs
<1>5. ASSUME NEW k \in 1 .. B
      PROVE  (IF k % 2 = 1 THEN qs[(k + 1) \div 2] % 16 ELSE qs[k \div 2] \div 16) = v[k] + 8
  <2>1. PICK q, r : q = k \div 2 /\ r = k % 2
    OBVIOUS
  <2>2. q \in Nat /\ r \in 0 .. 1 /\ k = 2 * q + r /\ k \in Nat
    BY <1>1, <2>1
  <2>3. CASE r = 1
    <3> DEFINE i == q + 1
    <3>1. (k + 1) \div 2 = i
      BY <2>2, <2>3
    <3>2. i \in 1 .. half /\ 2 * i - 1 = k /\ 2 * i \in 1 .. B
      BY <1>2, <2>2, <2>3
    <3> DEFINE lo == v[k] + 8
               hi == v[2 * i] + 8
    <3>3. qs[i] = (v[2 * i - 1] + 8) + 16 * (v[2 * i] + 8)
      BY <1>3, <3>2, Zenon
    <3>4. qs[i] = lo + 16 * hi
      BY <3>2, <3>3
    <3>5. lo \in 0 .. 15 /\ hi \in 0 .. 15
      BY <1>4, <3>2
    <3> HIDE DEF lo, hi, i
    <3>6. qs[i] % 16 = lo
      <4>1. (lo + 16 * hi) % 16 = lo
        BY <3>5
      <4>2. QED
        BY <3>4, <4>1, Zenon
    <3>7. k % 2 = 1
      BY <2>1, <2>3
    <3>8. QED
      BY <3>1, <3>6, <3>7, Zenon DEF lo
  <2>4. CASE r = 0
    <3>1. q \in 1 .. half /\ 2 * q = k /\ 2 * q - 1 \in 1 .. B
      BY <1>2, <2>2, <2>4
    <3> DEFINE lo == v[2 * q - 1] + 8
               hi == v[k] + 8
    <3>2. qs[q] = (v[2 * q - 1] + 8) + 16 * (v[2 * q] + 8)
      BY <1>3, <3>1, Zenon
    <3>3. qs[q] = lo + 16 * hi
      BY <3>1, <3>2, Zenon
    <3>4. lo \in 0 .. 15 /\ hi \in 0 .. 15
      BY <1>4, <3>1, Zenon
    <3> HIDE DEF lo, hi
    <3>5. qs[q] \div 16 = hi
      <4>1. (lo + 16 * hi) \div 16 = hi
        BY <3>4
      <4>2. QED
        BY <3>3, <4>1, Zenon
    <3>6. k % 2 # 1
      BY <2>1, <2>4
    <3>7. QED
      BY <2>1, <3>5, <3>6, Zenon DEF hi
  <2>5. QED
    BY <2>2, <2>3, <2>4
<1>6. Q4Unpack(qs) = [k \in 1 .. B |-> IF k % 2 = 1 THEN qs[(k + 1) \div 2] % 16 ELSE qs[k \div 2] \div 16]
  BY Zenon DEF Q4Unpack
<1>7. QED
  BY <1>5, <1>6, Zenon DEF qs

\* The dot product of a packed block.
LEMMA BlockDot ==
    ASSUME NEW a \in [1 .. Q4Block -> Int], NEW v \in [1 .. Q4Block -> -8 .. 7]
    PROVE  Sum(Times(a, Q4Unpack(Q4Pack(v)))) + (-8 * Sum(a)) = Sum(Times(a, v))
<1> DEFINE B == Q4Block
           u == [k \in 1 .. B |-> v[k] + 8]
           s == Times(a, u)
           t == Times(a, v)
<1>1. B \in Nat
  BY KernelsAssumption
<1>2. u \in [1 .. B -> Int] /\ v \in [1 .. B -> Int]
  <2>1. ASSUME NEW k \in 1 .. B PROVE v[k] \in Int /\ v[k] + 8 \in Int
    <3>1. v[k] \in Int /\ v[k] + 8 \in 0 .. 15
      BY Nibble, Zenon
    <3>2. QED
      BY <3>1
  <2>2. DOMAIN v = 1 .. B /\ v = [k \in 1 .. B |-> v[k]]
    BY Zenon
  <2> HIDE DEF B
  <2>3. QED
    BY <2>1, <2>2, Zenon
<1>3. s \in [1 .. B -> Int] /\ \A k \in 1 .. B : s[k] = a[k] * u[k]
  BY <1>1, <1>2, TimesIs, Zenon
<1>4. t \in [1 .. B -> Int] /\ \A k \in 1 .. B : t[k] = a[k] * v[k]
  BY <1>1, <1>2, TimesIs, Zenon
<1>5. Q4Unpack(Q4Pack(v)) = u
  BY Unpacked, Zenon
<1> HIDE DEF s, t
<1>6. \A k \in 1 .. B : s[k] = t[k] + 8 * a[k]
  <2>1. ASSUME NEW k \in 1 .. B PROVE s[k] = t[k] + 8 * a[k]
    <3> DEFINE p == a[k]
               q == v[k]
    <3>1. p \in Int /\ q \in Int
      BY <1>2
    <3>2. s[k] = p * (q + 8) /\ t[k] = p * q
      BY <1>3, <1>4, Zenon
    <3> HIDE DEF p, q
    <3>3. p * (q + 8) = p * q + 8 * p
      BY <3>1
    <3>4. QED
      BY <3>2, <3>3, Zenon DEF p
  <2>2. QED
    BY <2>1
<1>7. Linear(s, t, a, 8, B)
  <2>1. 8 \in Int
    OBVIOUS
  <2>2. QED
    BY <1>1, <1>3, <1>4, <1>6, <2>1, Zenon DEF Linear
<1>8. Sum(s) = Sum(t) + 8 * Sum(a) /\ Sum(t) \in Int /\ Sum(a) \in Int /\ Sum(s) \in Int
  BY <1>7, SumLinear
<1>9. Sum(s) + (-8 * Sum(a)) = Sum(t)
  BY <1>8
<1>10. QED
  BY <1>5, <1>9, Zenon DEF s, t

\* Block b of a sequence.
LEMMA BlockOf ==
    ASSUME NEW n \in Nat, n % Q4Block = 0, NEW b \in 1 .. n \div Q4Block
    PROVE  /\ (b - 1) * Q4Block \in Nat /\ (b - 1) * Q4Block + Q4Block <= n
           /\ Q4Block \in Nat /\ n \div Q4Block \in Nat
<1>1. Q4Block \in Nat \ {0} /\ Q4Block \in Nat
  BY KernelsAssumption
<1>2. PICK q \in Nat, r \in 0 .. Q4Block - 1 :
        /\ q = n \div Q4Block /\ r = n % Q4Block
        /\ n = Q4Block * q + r /\ Q4Block * q \in Nat /\ q * Q4Block = Q4Block * q
  BY <1>1, Division, Zenon
<1>3. b - 1 \in Nat /\ b \in Nat /\ b <= q /\ (b - 1) + 1 = b
  BY <1>2
<1> DEFINE x == (b - 1) * Q4Block
           y == b * Q4Block
           z == q * Q4Block
<1>4. x \in Nat /\ y <= z
  BY <1>1, <1>2, <1>3, Commutes, Monotone
<1>5. y = x + Q4Block
  BY <1>1, <1>3
<1>6. n = z /\ z \in Nat
  BY <1>2
<1> HIDE DEF x, y, z
<1>7. x \in Nat /\ x + Q4Block <= n
  BY <1>1, <1>4, <1>5, <1>6
<1>8. QED
  BY <1>1, <1>2, <1>7 DEF x

\* Weights are numbers, and so is a part of them.
LEMMA WeightsAreNumbers ==
    ASSUME NEW n, NEW w \in [1 .. n -> -8 .. 7]
    PROVE  w \in [1 .. n -> Int]
<1>1. \A z \in -8 .. 7 : z \in Int
  OBVIOUS
<1>2. \A k \in 1 .. n : w[k] \in -8 .. 7
  BY Zenon
<1>3. w = [k \in 1 .. n |-> w[k]]
  BY Zenon
<1>4. QED
  BY <1>1, <1>2, <1>3, Zenon

LEMMA WeightsOf ==
    ASSUME NEW n \in Nat, NEW w \in [1 .. n -> -8 .. 7], NEW at \in Nat, NEW m \in Nat,
           at + m <= n
    PROVE  Part(w, at, m) \in [1 .. m -> -8 .. 7]
<1> DEFINE v == Part(w, at, m)
<1>1. v \in [1 .. m -> Int] /\ \A i \in 1 .. m : v[i] = w[at + i]
  <2>1. w \in [1 .. n -> Int]
    BY WeightsAreNumbers, Zenon
  <2>2. QED
    BY <2>1, PartIs, Zenon
<1> HIDE DEF v
<1>2. \A i \in 1 .. m : at + i \in 1 .. n
  OBVIOUS
<1>3. \A i \in 1 .. m : v[i] \in -8 .. 7
  BY <1>1, <1>2, Zenon
<1>4. v = [i \in 1 .. m |-> v[i]]
  BY <1>1, Zenon
<1>5. QED
  BY <1>3, <1>4, Zenon DEF v

LEMMA BlocksOf == ASSUME NEW n \in Nat PROVE n \div Q4Block \in Nat
<1>1. Q4Block \in Nat \ {0}
  BY KernelsAssumption
<1>2. PICK q \in Nat, r \in 0 .. Q4Block - 1 : q = n \div Q4Block
  BY <1>1, Division, Zenon
<1>3. QED
  BY <1>2

\* The products of the blocks of a row, two blocks to a vector and an odd one.
BlocksExact(x, w, n) ==
    Q4RowDots(x, [b \in 1 .. n \div Q4Block |-> Q4Pack(Part(w, (b - 1) * Q4Block, Q4Block))])
      = [b \in 1 .. n \div Q4Block |-> Sum(Times(Part(x, (b - 1) * Q4Block, Q4Block),
                                                Part(w, (b - 1) * Q4Block, Q4Block)))]

LEMMA Q4RowDotsIs ==
    ASSUME NEW n \in Nat, n % Q4Block = 0, NEW x \in [1 .. n -> Int], NEW w \in [1 .. n -> -8 .. 7]
    PROVE  BlocksExact(x, w, n)
<1> DEFINE blocks == n \div Q4Block
           row == [b \in 1 .. blocks |-> Q4Pack(Part(w, (b - 1) * Q4Block, Q4Block))]
<1>a. blocks = n \div Q4Block
  OBVIOUS
<1>b. row = [b \in 1 .. blocks |-> Q4Pack(Part(w, (b - 1) * Q4Block, Q4Block))]
  OBVIOUS
<1> HIDE DEF blocks, row
<1> DEFINE B == Q4Block
           corr == Q4Corr(x)
           pairs == Touched(Len(row), <<2, 1>>)
           dot(b) == Sum(Times(Part(x, b * Q4Block, Q4Block), Q4Unpack(row[b + 1]))) + corr[b + 1]
<1>1. B \in Nat \ {0} /\ B \in Nat /\ Len(x) = n
  BY KernelsAssumption
<1>2. blocks \in Nat
  BY <1>a, BlocksOf
<1>3. Q4RowDots(x, row) = [i \in DOMAIN pairs |-> dot(pairs[i])]
  BY Zenon DEF Q4RowDots
<1>4. Len(row) = blocks
  <2> DEFINE f(b) == Q4Pack(Part(w, (b - 1) * Q4Block, Q4Block))
  <2>1. row = [b \in 1 .. blocks |-> f(b)]
    BY <1>b, Zenon
  <2> HIDE DEF f
  <2>2. QED
    BY <1>2, <2>1
<1>5. DOMAIN pairs = 1 .. blocks /\ \A i \in 1 .. blocks : pairs[i] = i - 1
  <2>1. <<2, 1>> \in {<<16, 4, 1>>, <<8, 4, 1>>, <<4, 1>>, <<2, 1>>, << 1 >>}
    BY Zenon
  <2>2. <<2, 1>> \in Seq(Nat \ {0}) /\ Len(<<2, 1>>) > 0 /\ <<2, 1>>[Len(<<2, 1>>)] = 1
    BY <2>1, WidthsEnd, Zenon
  <2>3. pairs = Along(Itself, 0, blocks)
    BY <1>2, <1>4, <2>2, TouchedIs, Zenon
  <2> HIDE DEF pairs
  <2>4. pairs = [i \in 1 .. blocks - 0 |-> Itself[0 + i - 1]]
    BY <2>3, Zenon DEF Along
  <2>5. ASSUME NEW i \in 1 .. blocks PROVE Itself[0 + i - 1] = i - 1
    <3>1. 0 + i - 1 = i - 1 /\ i - 1 \in Nat
      OBVIOUS
    <3>2. QED
      BY <3>1 DEF Itself
  <2>6. blocks - 0 = blocks
    BY <1>2
  <2>7. QED
    BY <2>4, <2>5, <2>6, Zenon
<1>6. \A b \in 1 .. blocks : corr[b] = -8 * Sum(Part(x, (b - 1) * Q4Block, Q4Block))
  BY <1>1, <1>a, Zenon DEF Q4Corr
<1> HIDE DEF corr, pairs
<1>7. ASSUME NEW b \in 1 .. blocks
      PROVE  dot(b - 1) = Sum(Times(Part(x, (b - 1) * Q4Block, Q4Block),
                                    Part(w, (b - 1) * Q4Block, Q4Block)))
  <2> DEFINE at == (b - 1) * Q4Block
             a == Part(x, at, Q4Block)
             v == Part(w, at, Q4Block)
  <2>1. (b - 1) + 1 = b
    OBVIOUS
  <2>2. row[b] = Q4Pack(v)
    BY <1>b, Zenon
  <2>3. corr[b] = -8 * Sum(a)
    BY <1>6, Zenon
  <2>4. dot(b - 1) = Sum(Times(a, Q4Unpack(Q4Pack(v)))) + (-8 * Sum(a))
    BY <2>1, <2>2, <2>3, Zenon
  <2>5. at \in Nat /\ at + Q4Block <= n /\ Q4Block \in Nat
    BY <1>a, BlockOf
  <2> HIDE DEF at
  <2>6. a \in [1 .. Q4Block -> Int]
    BY <2>5, PartIs, Zenon
  <2>7. v \in [1 .. Q4Block -> -8 .. 7]
    BY <2>5, WeightsOf, Zenon
  <2> HIDE DEF a, v, dot
  <2>8. Sum(Times(a, Q4Unpack(Q4Pack(v)))) + (-8 * Sum(a)) = Sum(Times(a, v))
    BY <2>6, <2>7, BlockDot, Zenon
  <2>9. QED
    BY <2>4, <2>8, Zenon DEF a, v, at
<1>8. ASSUME NEW i \in 1 .. blocks PROVE dot(pairs[i]) = dot(i - 1)
  BY <1>5, Zenon
<1> DEFINE f == [i \in 1 .. blocks |-> dot(pairs[i])]
           g == [b \in 1 .. blocks |-> Sum(Times(Part(x, (b - 1) * Q4Block, Q4Block),
                                               Part(w, (b - 1) * Q4Block, Q4Block)))]
<1>9. f = [b \in 1 .. blocks |-> f[b]] /\ g = [b \in 1 .. blocks |-> g[b]]
  BY Zenon
<1>10. ASSUME NEW b \in 1 .. blocks PROVE f[b] = g[b]
  <2> HIDE DEF dot
  <2>1. f[b] = dot(pairs[b])
    BY <1>5, Zenon
  <2>2. dot(pairs[b]) = g[b]
    BY <1>7, <1>8, Zenon
  <2>3. QED
    BY <2>1, <2>2, Zenon
<1>11. Q4RowDots(x, row) = f
  BY <1>3, <1>5, Zenon
<1> HIDE DEF f
<1>12. f = g
  <2> HIDE DEF g
  <2>1. QED
    BY <1>9, <1>10, Zenon
<1>13. QED
  BY <1>11, <1>12, Zenon DEF blocks, row, BlocksExact

\* The dot products over shifted and packed numbers are those of the numbers.
THEOREM DotsAreExact ==
    ASSUME NEW n \in Nat, NEW x \in [1 .. n -> (-Half) .. (Half - 1)],
           NEW w \in [1 .. n -> -8 .. 7]
    PROVE  DotsExact(x, w)
<1>1. Half \in Nat /\ Len(x) = n
  BY KernelsAssumption
<1>2. x \in [1 .. n -> Int]
  <2>1. \A k \in 1 .. n : x[k] \in (-Half) .. (Half - 1)
    BY Zenon
  <2>2. \A k \in 1 .. n : x[k] \in Int
    BY <1>1, <2>1
  <2>3. x = [k \in 1 .. n |-> x[k]]
    BY Zenon
  <2>4. QED
    BY <2>2, <2>3, Zenon
<1>3. w \in [1 .. n -> Int]
  BY WeightsAreNumbers, Zenon
<1>4. VnniDot(x, w) = Sum(Times(x, w))
  BY <1>3, VnniDotIs, Zenon
<1>5. ASSUME n % Q4Block = 0 PROVE BlocksExact(x, w, n)
  BY <1>2, <1>5, Q4RowDotsIs, Zenon
<1>6. QED
  BY <1>1, <1>4, <1>5, Zenon DEF DotsExact, BlocksExact

\* The input of a part is made of its pieces.
Pieces == part \in DOMAIN Piece => in \in Seq(Piece[part])

LEMMA PiecesInvariance == SeqSpec => []Pieces
<1>1. SeqInit => Pieces
  BY DEF SeqInit, Pieces
<1>2. Pieces /\ [SeqNext]_<<vars, voiceVars, seqVars>> => Pieces'
  <2> SUFFICES ASSUME Pieces, [SeqNext]_<<vars, voiceVars, seqVars>> PROVE Pieces'
    OBVIOUS
  <2>1. CASE Grow
    <3>1. PICK x \in Piece[part] : in' = Append(in, x)
      BY <2>1 DEF Grow
    <3>2. part' = part
      BY <2>1 DEF Grow
    <3>3. QED
      BY <3>1, <3>2 DEF Pieces
  <2>2. CASE UNCHANGED seqVars
    BY <2>2 DEF Pieces, seqVars
  <2>3. QED
    BY <2>1, <2>2, Zenon DEF SeqNext
<1>3. QED
  BY <1>1, <1>2, PTL DEF SeqSpec

\* The kernels compute every row and every cell once and every dot product
\* exactly, for every length, number of threads and width of a vector.
THEOREM KernelsCompute == SeqSpec => []KernelsRight
<1>1. Pieces => KernelsRight
  <2> SUFFICES ASSUME Pieces PROVE KernelsRight
    OBVIOUS
  <2>1. ASSUME part = "length"
        PROVE  /\ ColumnsOnce(Len(in))
               /\ \A nt \in 1 .. 7, kv \in 0 .. 5 : RowsOnce(Len(in), nt, kv)
               /\ \A rows \in 0 .. 9 : CellsOnce(rows, Len(in))
    <3>1. Len(in) \in Nat
      <4>1. part \in DOMAIN Piece
        BY <2>1, SequentialAssumption
      <4>2. in \in Seq(Piece[part])
        BY <4>1 DEF Pieces
      <4>3. QED
        BY <4>2
    <3>2. \A k \in 1 .. 7 : k \in Nat
      OBVIOUS
    <3>3. \A k \in 0 .. 5 : k \in Nat
      OBVIOUS
    <3>4. \A k \in 0 .. 9 : k \in Nat
      OBVIOUS
    <3>5. ColumnsOnce(Len(in))
      BY <3>1, ColumnsAreOnce, Zenon
    <3>6. ASSUME NEW nt \in 1 .. 7, NEW kv \in 0 .. 5 PROVE RowsOnce(Len(in), nt, kv)
      BY <3>1, <3>2, <3>3, RowsAreComputedOnce, Zenon
    <3>7. ASSUME NEW rows \in 0 .. 9 PROVE CellsOnce(rows, Len(in))
      BY <3>1, <3>4, CellsAreComputedOnce, Zenon
    <3>8. QED
      BY <3>5, <3>6, <3>7, Zenon
  <2>2. ASSUME part = "dot"
        PROVE  DotsExact([i \in DOMAIN in |-> in[i][1]], [i \in DOMAIN in |-> in[i][2]])
    <3> DEFINE X == (-Half) .. (Half - 1)
               W == -8 .. 7
               n == Len(in)
               x == [i \in DOMAIN in |-> in[i][1]]
               w == [i \in DOMAIN in |-> in[i][2]]
    <3>1. part \in DOMAIN Piece /\ Piece[part] \subseteq X \X W
      BY <2>2, SequentialAssumption
    <3>2. in \in Seq(Piece[part])
      BY <3>1 DEF Pieces
    <3> HIDE DEF X, W
    <3>3. n \in Nat /\ DOMAIN in = 1 .. n /\ \A i \in 1 .. n : in[i] \in X \X W
      BY <3>1, <3>2
    <3>4. ASSUME NEW i \in 1 .. n PROVE in[i][1] \in X /\ in[i][2] \in W
      BY <3>3, PairParts, Zenon
    <3> HIDE DEF n
    <3>5. x \in [1 .. n -> X] /\ w \in [1 .. n -> W]
      BY <3>3, <3>4, Zenon
    <3> HIDE DEF x, w
    <3>6. DotsExact(x, w)
      BY <3>3, <3>5, DotsAreExact, Zenon DEF X, W
    <3>7. QED
      BY <3>6, Zenon DEF x, w
  <2>3. QED
    BY <2>1, <2>2, Zenon DEF KernelsRight
<1>2. QED
  BY <1>1, PiecesInvariance, PTL
=============================================================================
