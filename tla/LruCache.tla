------------------------------ MODULE LruCache ------------------------------
(***************************************************************************)
(* What an LRU cache of Cap entries promises (the embedding cache of       *)
(* qwen_tts.c is one): it holds the Cap tokens that were asked for most    *)
(* recently, each once.                                                    *)
(***************************************************************************)
EXTENDS Integers, Sequences, SequencesExt

CONSTANTS Token, Cap

VARIABLE recent  \* the tokens held, the least recently used first

Init == recent = << >>

Has(t) == t \in ToSet(recent)

Hit(t) == \E i \in DOMAIN recent :
             recent[i] = t /\ recent' = Append(RemoveAt(recent, i), t)

Miss(t) == /\ ~Has(t)
           /\ recent' = Append(IF Len(recent) < Cap THEN recent ELSE Tail(recent), t)

Next == \E t \in Token : Hit(t) \/ Miss(t)

Spec == Init /\ [][Next]_recent
=============================================================================
