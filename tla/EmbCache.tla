------------------------------ MODULE EmbCache ------------------------------
(***************************************************************************)
(* The text embedding cache of one context (emb_cache in qwen_tts.c): a    *)
(* hash table with linear probing that is never emptied, and, once every   *)
(* slot is taken, replaces the entry with the smallest access stamp.       *)
(*                                                                         *)
(* An embedding is the token it was computed from.                         *)
(***************************************************************************)
EXTENDS Integers, Sequences, FiniteSets, SequencesExt

CONSTANTS Token,    \* token ids
          Special,  \* tts_pad, tts_bos and tts_eos, which are precomputed
          Cap,      \* EMB_CACHE_CAPACITY
          Home,     \* the hash: (tid * 2654435761u) & (cap - 1)
          ClockMod, \* the clock and the stamps count modulo this (2^32)
          MaxGets,  \* bound: lookups
          None      \* an empty slot (key -1), a buffer never written

ASSUME EmbCacheAssumption ==
    /\ Special \subseteq Token /\ None \notin Token
    /\ Cap \in Nat \ {0} /\ Home \in [Token -> 0 .. Cap - 1]
    /\ ClockMod \in Nat \ {0} /\ MaxGets \in Nat

VARIABLES
    keys, values, access, \* per slot
    count, clock,
    gets,                 \* lookups so far
    asked, out            \* the last lookup, and what it returned

cacheVars == <<keys, values, access, count, clock>>
vars == <<cacheVars, gets, asked, out>>

Slot == 0 .. Cap - 1

Init ==
    /\ keys = [s \in Slot |-> None]
    /\ values = [s \in Slot |-> None]
    /\ access = [s \in Slot |-> 0]
    /\ count = 0 /\ clock = 0
    /\ gets = 0 /\ asked = None /\ out = None

\* The slot of probe i for t.
SlotAt(t, i) == IF Home[t] + i < Cap THEN Home[t] + i ELSE Home[t] + i - Cap

\* The probes that end the search for t, with a hit or an empty slot.
Stops(t) == {i \in Slot : keys[SlotAt(t, i)] \in {t, None}}

IsFirst(i, S) == i \in S /\ \A j \in S : i <= j

\* Mutant: a hit leaves the stamp alone.
TouchNever(s) == clock' = (clock + 1) % ClockMod /\ UNCHANGED access

Touch(s) == /\ clock' = (clock + 1) % ClockMod
            /\ access' = [access EXCEPT ![s] = (clock + 1) % ClockMod]

\* Mutant: the entry is stamped and keyed, the embedding stays.
FillKeyOnly(s, t) == /\ keys' = [keys EXCEPT ![s] = t]
                     /\ Touch(s)
                     /\ UNCHANGED values

\* embed_one_text_token_compute into slot s.
Fill(s, t) == /\ keys' = [keys EXCEPT ![s] = t]
              /\ values' = [values EXCEPT ![s] = t]
              /\ Touch(s)

Answer(t, v) == gets' = gets + 1 /\ asked' = t /\ out' = v

Precomputed(t) ==
    /\ t \in Special
    /\ Answer(t, t)
    /\ UNCHANGED cacheVars

Hit(t) ==
    /\ t \notin Special
    /\ \E i \in Slot :
          /\ IsFirst(i, Stops(t)) /\ keys[SlotAt(t, i)] = t
          /\ Touch(SlotAt(t, i))
          /\ Answer(t, values[SlotAt(t, i)])
    /\ UNCHANGED <<keys, values, count>>

Insert(t) ==
    /\ t \notin Special
    /\ \E i \in Slot :
          /\ IsFirst(i, Stops(t)) /\ keys[SlotAt(t, i)] = None
          /\ Fill(SlotAt(t, i), t)
    /\ count' = count + 1
    /\ Answer(t, t)

\* The first of the slots with the smallest stamp.
IsVictim(s) == \A r \in Slot : IF r < s THEN access[s] < access[r]
                               ELSE access[s] <= access[r]

\* No probe stopped: the table is full, and t is not in it.
Evict(t) ==
    /\ t \notin Special /\ Stops(t) = {}
    /\ \E s \in Slot : IsVictim(s) /\ Fill(s, t)
    /\ Answer(t, t)
    /\ UNCHANGED count

\* embed_one_text_token
Get(t) == gets < MaxGets /\ (Precomputed(t) \/ Hit(t) \/ Insert(t) \/ Evict(t))

Next == \E t \in Token : Get(t)

Spec == Init /\ [][Next]_vars
-----------------------------------------------------------------------------
(* Properties                                                              *)

Taken == {s \in Slot : keys[s] # None}

\* Every variable has its type, count says how many slots are taken.
TypeOK ==
    /\ keys \in [Slot -> (Token \ Special) \cup {None}]
    /\ values \in [Slot -> Token \cup {None}]
    /\ access \in [Slot -> 0 .. ClockMod - 1]
    /\ clock \in 0 .. ClockMod - 1
    /\ count = Cardinality(Taken)
    /\ gets \in 0 .. MaxGets
    /\ asked \in Token \cup {None} /\ out \in Token \cup {None}

\* What a lookup returns is the embedding of the token it was asked for,
\* whatever collided, was replaced or wrapped before.
Right == out = asked

\* No token is in two slots: the second would never be found, and keep a slot
\* from those that are used.
OneSlot == \A r, s \in Slot : keys[r] = keys[s] /\ keys[r] # None => r = s

\* What linear probing without deletion rests on: no empty slot on the way
\* from the home of a key to where it is.
Reachable ==
    \A t \in Token, i \in Slot :
        keys[SlotAt(t, i)] = t => \A j \in 0 .. i : keys[SlotAt(t, j)] # None

\* What is in a slot belongs to its key.
Filled == \A s \in Slot : values[s] = keys[s]

IInv == /\ keys \in [Slot -> (Token \ Special) \cup {None}]
        /\ values \in [Slot -> Token \cup {None}]
        /\ Reachable /\ OneSlot /\ Filled /\ Right

\* The slots of S, the smallest stamp first, and of equal stamps the first slot.
Rank(s, S, stamp) ==
    Cardinality({r \in S : stamp[r] < stamp[s] \/ (stamp[r] = stamp[s] /\ r <= s)})
InOrder(S, stamp) ==
    [i \in 1 .. Cardinality(S) |-> CHOOSE s \in S : Rank(s, S, stamp) = i]

\* Until the clock wraps the table is an LRU cache of all its slots: the
\* order of the stamps is the order of use.
ByStamp == InOrder(Taken, access)
Recent == [i \in DOMAIN ByStamp |-> keys[ByStamp[i]]]
Lru == INSTANCE LruCache WITH Token <- Token \ Special, recent <- Recent
ImplementsLru == Lru!Spec

\* q lists the slots of S in the order of their stamps, which differ.
Sorts(q, S, stamp) == /\ \A s \in S : \E i \in DOMAIN q : q[i] = s
                      /\ \A i, j \in DOMAIN q : i < j => stamp[q[i]] < stamp[q[j]]

\* What the refinement rests on: the clock has not overtaken the lookups, so
\* the stamps of the taken slots are different and none is ahead of it, and
\* there is an order of use.
Stamped ==
    /\ IInv
    /\ access \in [Slot -> Nat]
    /\ clock \in Nat /\ gets \in 0 .. MaxGets /\ clock <= gets
    /\ \A s \in Taken : access[s] <= clock
    /\ \E n \in 0 .. Cap : \E q \in [1 .. n -> Taken] : Sorts(q, Taken, access)

=============================================================================
