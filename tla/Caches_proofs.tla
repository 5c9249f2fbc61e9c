---------------------------- MODULE Caches_proofs ----------------------------
(***************************************************************************)
(* What the memories that carry the past of a sequence keep, whatever the  *)
(* lengths: the caches and tails of the streaming speech decoder (the      *)
(* first part, about SDStream) and the KV cache that the Talker keeps from *)
(* one request to the next (the second, about TalkerCache).                *)
(***************************************************************************)
EXTENDS SDStream, TalkerCache, SequenceTheorems, WellFoundedInduction, TLAPS

\* Position b is out of reach of a lost chunk, after stages that reach back r
\* columns.
Clear(b, r) == lostTo = 0 \/ b >= lostTo + r

\* The pre-conv's columns of the past are right: it runs on every chunk.
PadInv ==
    /\ vqValid \/ kv.len = 0
    /\ \A i \in 0 .. PadCols - 1 : vqPad[i] = True(kv.len - PadCols + i)

\* The tails of the conv decoder are right where no lost chunk reaches.
TailInv ==
    exact =>
        /\ \A i \in 0 .. TailA - 1 : LET b == lat.len - TailA + i IN
              Clear(b, 0) => tailA[i] = True(b)
        /\ Clear(lat.len - 1, TailA) => carry = True(lat.len - 1)
        /\ \A i \in 0 .. TailB - 1 : LET b == lat.len - TailB + i IN
              Clear(b, TailA + 1) => tailB[i] = True(b)
        /\ ~warm => lostTo = lat.len

\* What was handed out.
AudioInv ==
    /\ lostTo <= lat.len
    /\ lostTo = 0 => Len(audio) = lat.len
    /\ \A i \in 1 .. Len(audio) :
          /\ audio[i].frame < lat.len
          /\ lostTo = 0 => audio[i].frame = i - 1
          /\ Clear(audio[i].frame, TailA + TailB + 1) => audio[i].value = audio[i].frame
    /\ \A i, k \in 1 .. Len(audio) : i < k => audio[i].frame < audio[k].frame

StreamInv == TypeOK /\ CachesRight /\ PadInv /\ TailInv /\ AudioInv
-----------------------------------------------------------------------------
(* The caches.                                                             *)

LEMMA Sizes ==
    /\ Window \in Nat /\ Window >= 1 /\ ConvRF \in Nat /\ Slack \in Nat
    /\ PadCols \in Nat /\ TailA \in Nat /\ TailB \in Nat /\ MaxChunk \in Nat
    /\ ConvRF >= TailA + TailB + 1
    /\ Zero \in Value /\ Wrong \in Value /\ \A i \in Int : i \in Value /\ i # Zero /\ True(i) \in Value
  BY SizesAssumption, ReceptiveFieldAssumption DEF Value, True

\* Making room keeps what is read back and leaves room; a cache that grows
\* grows to what is read back, the chunk and the slack.
LEMMA RoomMade ==
    ASSUME NEW c, CacheType(c), NEW keep \in Nat, Holds(c, keep), NEW n \in Nat, NEW r,
           r = MakeRoom(c, n, keep)
    PROVE  /\ CacheType(r) /\ Holds(r, keep) /\ r.len = c.len
           /\ r.len + n - r.base <= r.alloc
           /\ r.alloc = c.alloc \/ r.alloc <= keep + n + Slack
<1> DEFINE from == Max0(c.len - keep)
           base == IF c.len + n - c.base > c.alloc /\ from > c.base /\ c.len > c.base
                   THEN from ELSE c.base
           need == c.len + n - base
           alloc == IF need > c.alloc THEN need + Slack ELSE c.alloc
           mem == [p \in 0 .. alloc - 1 |->
                      IF p < c.len - base THEN c.mem[p + (base - c.base)]
                      ELSE IF p < c.alloc THEN c.mem[p] ELSE Wrong]
<1>1. r = [mem |-> mem, base |-> base, len |-> c.len, alloc |-> alloc]
  BY DEF MakeRoom
<1>2. /\ c.base \in Nat /\ c.len \in Nat /\ c.alloc \in Nat /\ Slack \in Nat
      /\ c.base <= c.len /\ c.len - c.base <= c.alloc /\ c.base <= from
      /\ from \in Nat /\ from <= c.len /\ c.len - from <= keep
  <2>1. c.base \in Nat /\ c.len \in Nat /\ c.alloc \in Nat /\ Slack \in Nat
    BY Sizes DEF CacheType
  <2>2. c.base <= c.len /\ c.len - c.base <= c.alloc /\ c.base <= from
    BY DEF Holds
  <2>3. from \in Nat /\ from <= c.len /\ c.len - from <= keep
    BY <2>1 DEF Max0
  <2>4. QED
    BY <2>1, <2>2, <2>3
<1>3. /\ base \in Nat /\ c.base <= base /\ base <= from /\ base <= c.len
      /\ (need > c.alloc => need <= keep + n) /\ need \in Nat
  BY <1>2
<1>4. /\ alloc \in Nat /\ c.alloc <= alloc /\ c.len + n - base <= alloc
      /\ alloc = c.alloc \/ alloc <= keep + n + Slack
  BY <1>2, <1>3
<1> HIDE DEF from, need, alloc, base
<1>5. ASSUME NEW p \in 0 .. alloc - 1 PROVE mem[p] \in Value
  <2>1. CASE p < c.len - base
    <3>1. p + (base - c.base) \in 0 .. c.alloc - 1
      BY <1>2, <1>3, <1>4, <2>1
    <3>2. QED
      BY <2>1, <3>1 DEF CacheType
  <2>2. CASE ~(p < c.len - base) /\ p < c.alloc
    BY <1>2, <1>4, <2>2 DEF CacheType
  <2>3. QED
    BY <2>1, <2>2, Sizes
<1>6. ASSUME NEW a \in base .. c.len - 1 PROVE mem[a - base] = a
  <2>1. /\ a - base \in 0 .. alloc - 1 /\ a - base < c.len - base
        /\ (a - base) + (base - c.base) = a - c.base /\ a \in c.base .. c.len - 1
    BY <1>2, <1>3, <1>4
  <2>2. mem[a - base] = c.mem[a - c.base]
    BY <2>1
  <2>3. QED
    BY <2>1, <2>2 DEF Holds
<1>7. mem \in [0 .. alloc - 1 -> Value]
  BY <1>5
<1> HIDE DEF mem
<1>8. r.mem = mem /\ r.base = base /\ r.len = c.len /\ r.alloc = alloc
  BY <1>1
<1>9. CacheType(r)
  BY <1>1, <1>2, <1>3, <1>4, <1>7, <1>8 DEF CacheType
<1>10. Holds(r, keep)
  BY <1>2, <1>3, <1>4, <1>6, <1>8 DEF Holds, from
<1>11. QED
  BY <1>4, <1>8, <1>9, <1>10

\* What a cache has after n more frames were put into it.
LEMMA Carried ==
    ASSUME NEW c, CacheType(c), NEW keep \in Nat, Holds(c, keep), NEW n \in Nat, n >= 1,
           NEW x, \A a \in Cols(c.len, n) : x[a] = a,
           NEW r, r = Put(MakeRoom(c, n, keep), n, x)
    PROVE  /\ CacheType(r) /\ Holds(r, keep) /\ r.len = c.len + n
           /\ r.alloc = c.alloc \/ r.alloc <= keep + n + Slack
           /\ \A a \in Max0(c.len - keep) .. c.len + n - 1 : Get(r, a) = a
<1>1. PICK m : m = MakeRoom(c, n, keep)
  OBVIOUS
<1>2. /\ CacheType(m) /\ Holds(m, keep) /\ m.len = c.len
      /\ m.len + n - m.base <= m.alloc
      /\ m.alloc = c.alloc \/ m.alloc <= keep + n + Slack
  BY <1>1, RoomMade
<1>3. /\ m.base \in Nat /\ m.len \in Nat /\ m.alloc \in Nat
      /\ m.base <= m.len /\ m.base <= Max0(m.len - keep)
  BY <1>2 DEF CacheType, Holds
<1> DEFINE at == m.len - m.base
           mem == [p \in 0 .. m.alloc - 1 |->
                      IF at <= p /\ p < at + n THEN x[m.base + p] ELSE m.mem[p]]
<1>4. r = [mem |-> mem, base |-> m.base, len |-> m.len + n, alloc |-> m.alloc]
  BY <1>1 DEF Put
<1>5. ASSUME NEW p \in 0 .. m.alloc - 1 PROVE mem[p] \in Value
  <2>1. CASE at <= p /\ p < at + n
    <3>1. m.base + p \in Cols(c.len, n) /\ m.base + p \in Int
      BY <1>2, <1>3, <2>1 DEF Cols
    <3>2. QED
      BY <2>1, <3>1, Sizes
  <2>2. CASE ~(at <= p /\ p < at + n)
    BY <1>2, <2>2 DEF CacheType
  <2>3. QED
    BY <2>1, <2>2
<1>6. ASSUME NEW a \in m.base .. m.len + n - 1
      PROVE  a - m.base \in 0 .. m.alloc - 1 /\ mem[a - m.base] = a
  <2>1. a - m.base \in 0 .. m.alloc - 1 /\ a \in Int /\ m.base + (a - m.base) = a
    BY <1>2, <1>3
  <2>2. CASE a >= m.len
    <3>1. at <= a - m.base /\ a - m.base < at + n /\ a \in Cols(c.len, n)
      BY <1>2, <1>3, <2>1, <2>2 DEF Cols
    <3>2. mem[a - m.base] = x[a]
      BY <2>1, <3>1
    <3>3. QED
      BY <2>1, <3>1, <3>2
  <2>3. CASE ~(a >= m.len)
    <3>1. ~(at <= a - m.base) /\ a \in m.base .. m.len - 1
      BY <1>3, <2>1, <2>3
    <3>2. mem[a - m.base] = m.mem[a - m.base]
      BY <2>1, <3>1
    <3>3. QED
      BY <1>2, <2>1, <3>1, <3>2 DEF Holds
  <2>4. QED
    BY <2>2, <2>3
<1>7. mem \in [0 .. m.alloc - 1 -> Value]
  BY <1>5
<1> HIDE DEF mem
<1>8. r.mem = mem /\ r.base = m.base /\ r.len = m.len + n /\ r.alloc = m.alloc
  BY <1>4
<1>9. CacheType(r)
  BY <1>3, <1>4, <1>7, <1>8 DEF CacheType
<1>10. m.base <= Max0(c.len + n - keep) /\ m.base <= Max0(c.len - keep) /\ Max0(c.len - keep) \in Nat
  BY <1>2, <1>3 DEF Max0
<1>11. Holds(r, keep)
  BY <1>2, <1>3, <1>6, <1>8, <1>10 DEF Holds
<1>12. ASSUME NEW a \in Max0(c.len - keep) .. c.len + n - 1 PROVE Get(r, a) = a
  <2>1. a \in m.base .. m.len + n - 1
    BY <1>2, <1>3, <1>10
  <2>2. QED
    BY <1>6, <1>8, <2>1 DEF Get
<1>13. QED
  BY <1>2, <1>8, <1>9, <1>11, <1>12
-----------------------------------------------------------------------------
(* The stages.                                                             *)

\* A column that sees the right past is right; none has another value.
LEMMA ConvRight ==
    ASSUME NEW x, NEW first \in Nat, NEW n \in Nat, NEW tail, NEW t \in Nat, NEW useTail,
           NEW a \in Cols(first, n)
    PROVE  /\ Conv(x, first, n, tail, t, useTail)[a] \in Value
           /\ (\A b \in a - t .. a : Seen(x, first, tail, t, useTail, b) = True(b))
                 => Conv(x, first, n, tail, t, useTail)[a] = a
<1>1. a \in Int
  BY DEF Cols
<1>2. QED
  BY <1>1, Sizes DEF Conv

\* Nothing but zeros comes before the start.
LEMMA Truth == \A b \in Int : (b < 0 => True(b) = Zero) /\ (b >= 0 => True(b) = b)
  BY DEF True
-----------------------------------------------------------------------------
(* Codes to latents: the front of the decoder is always right.             *)

\* The pre-conv sees the past of the stream, on every chunk.
LEMMA PadSeen ==
    ASSUME StreamInv, NEW n \in Nat,
           NEW b \in kv.len - PadCols .. kv.len + n - 1
    PROVE  Seen(Codes(kv.len, n), kv.len, vqPad, PadCols, vqValid, b) = True(b)
<1>1. kv.len \in Nat /\ PadCols \in Nat /\ b \in Int
  BY Sizes DEF StreamInv, TypeOK, CacheType
<1>2. CASE b >= kv.len
  <2>1. b \in Cols(kv.len, n) /\ b >= 0
    BY <1>1, <1>2 DEF Cols
  <2>2. Codes(kv.len, n)[b] = b
    BY <2>1 DEF Codes
  <2>3. QED
    BY <1>1, <1>2, <2>1, <2>2, Truth DEF Seen
<1>3. CASE b < kv.len /\ vqValid
  <2>1. b - kv.len + PadCols \in 0 .. PadCols - 1
        /\ kv.len - PadCols + (b - kv.len + PadCols) = b
    BY <1>1, <1>3
  <2>2. vqPad[b - kv.len + PadCols] = True(b)
    BY <2>1 DEF StreamInv, PadInv
  <2>3. QED
    BY <1>1, <1>3, <2>2 DEF Seen
<1>4. CASE b < kv.len /\ ~vqValid
  <2>1. b < 0
    BY <1>1, <1>4 DEF StreamInv, PadInv
  <2>2. QED
    BY <1>1, <1>4, <2>1, Truth DEF Seen
<1>5. QED
  BY <1>1, <1>2, <1>3, <1>4

LEMMA PreConvRight ==
    ASSUME StreamInv, NEW n \in Nat, NEW a \in Cols(kv.len, n)
    PROVE  PreConv(kv.len, n)[a] = a
<1>1. kv.len \in Nat /\ PadCols \in Nat /\ a \in Int
  BY Sizes DEF StreamInv, TypeOK, CacheType, Cols
<1>2. \A b \in a - PadCols .. a : b \in kv.len - PadCols .. kv.len + n - 1
  BY <1>1 DEF Cols
<1>3. QED
  BY <1>1, <1>2, PadSeen, ConvRight DEF PreConv

\* The KV cache after the chunk.
LEMMA KVNextRight ==
    ASSUME StreamInv, NEW n \in 1 .. MaxChunk
    PROVE  /\ CacheType(KVNext(n)) /\ Holds(KVNext(n), Window - 1)
           /\ KVNext(n).len = kv.len + n
           /\ KVNext(n).alloc <= Window - 1 + MaxChunk + Slack
           /\ \A a \in Max0(kv.len - (Window - 1)) .. kv.len + n - 1 : Get(KVNext(n), a) = a
<1>1. /\ CacheType(kv) /\ Holds(kv, Window - 1) /\ Window - 1 \in Nat /\ n \in Nat /\ n >= 1
      /\ kv.alloc <= Window - 1 + MaxChunk + Slack
  BY Sizes DEF StreamInv, TypeOK, CachesRight, CachesHold, BoundedMemory
<1>2. \A a \in Cols(kv.len, n) : PreConv(kv.len, n)[a] = a
  BY <1>1, PreConvRight
<1>3. PICK r : r = KVNext(n)
  OBVIOUS
<1>4. /\ CacheType(r) /\ Holds(r, Window - 1) /\ r.len = kv.len + n
      /\ r.alloc = kv.alloc \/ r.alloc <= (Window - 1) + n + Slack
      /\ \A a \in Max0(kv.len - (Window - 1)) .. kv.len + n - 1 : Get(r, a) = a
  BY <1>1, <1>2, <1>3, Carried DEF KVNext
<1>5. r.alloc \in Nat
  BY <1>4 DEF CacheType
<1>6. r.alloc <= Window - 1 + MaxChunk + Slack
  BY <1>1, <1>4, <1>5, Sizes
<1>7. QED
  BY <1>3, <1>4, <1>6

\* The attention finds its whole window in the cache.
LEMMA LatentsRight ==
    ASSUME StreamInv, NEW n \in 1 .. MaxChunk, NEW a \in Cols(kv.len, n)
    PROVE  Latents(n)[a] = a
<1>1. kv.len \in Nat /\ Window \in Nat /\ Window >= 1 /\ a \in Int /\ n \in Nat
  BY Sizes, SMTT(30) DEF StreamInv, TypeOK, CacheType, Cols
<1>2. ASSUME NEW b \in Max0(a - Window + 1) .. a
      PROVE  b \in Max0(kv.len - (Window - 1)) .. kv.len + n - 1
  BY <1>1 DEF Max0, Cols
<1>3. \A b \in Max0(a - Window + 1) .. a : Get(KVNext(n), b) = b
  BY <1>2, KVNextRight
<1>4. PreConv(kv.len, n)[a] = a
  BY <1>1, PreConvRight
<1>5. QED
  BY <1>3, <1>4 DEF Latents, Attend

\* The latent cache after the chunk.
LEMMA LatNextRight ==
    ASSUME StreamInv, NEW n \in 1 .. MaxChunk
    PROVE  /\ CacheType(LatNext(n)) /\ Holds(LatNext(n), ConvRF)
           /\ LatNext(n).len = lat.len + n
           /\ LatNext(n).alloc <= ConvRF + MaxChunk + Slack
           /\ \A a \in Max0(lat.len - ConvRF) .. lat.len + n - 1 : Get(LatNext(n), a) = a
<1>1. /\ CacheType(lat) /\ Holds(lat, ConvRF) /\ ConvRF \in Nat /\ n \in Nat /\ n >= 1
      /\ lat.alloc <= ConvRF + MaxChunk + Slack /\ lat.len = kv.len
  BY Sizes DEF StreamInv, TypeOK, CachesRight, CachesHold, BoundedMemory
<1>2. \A a \in Cols(lat.len, n) : Latents(n)[a] = a
  BY <1>1, LatentsRight
<1>3. PICK r : r = LatNext(n)
  OBVIOUS
<1>4. /\ CacheType(r) /\ Holds(r, ConvRF) /\ r.len = lat.len + n
      /\ r.alloc = lat.alloc \/ r.alloc <= ConvRF + n + Slack
      /\ \A a \in Max0(lat.len - ConvRF) .. lat.len + n - 1 : Get(r, a) = a
  BY <1>1, <1>2, <1>3, Carried DEF LatNext
<1>5. r.alloc \in Nat
  BY <1>4 DEF CacheType
<1>6. r.alloc <= ConvRF + MaxChunk + Slack
  BY <1>1, <1>4, <1>5, Sizes
<1>7. QED
  BY <1>3, <1>4, <1>6

\* What the front leaves.
LEMMA FrontStep ==
    ASSUME StreamInv, NEW n \in 1 .. MaxChunk, Front(n)
    PROVE  /\ CacheType(kv)' /\ CacheType(lat)' /\ CachesRight' /\ PadInv'
           /\ kv'.len = kv.len + n /\ lat'.len = lat.len + n
           /\ vqPad' \in [0 .. PadCols - 1 -> Value] /\ vqValid' = TRUE
<1>1. /\ kv' = KVNext(n) /\ lat' = LatNext(n) /\ vqValid' = TRUE
      /\ vqPad' = SaveTail(Codes(kv.len, n), kv.len, n, vqPad, PadCols, vqValid)
  BY DEF Front
<1>2. /\ CacheType(kv)' /\ CacheType(lat)'
      /\ Holds(kv, Window - 1)' /\ Holds(lat, ConvRF)'
      /\ kv'.len = kv.len + n /\ lat'.len = lat.len + n /\ lat.len = kv.len
      /\ kv'.alloc <= Window - 1 + MaxChunk + Slack /\ lat'.alloc <= ConvRF + MaxChunk + Slack
  <2>1. lat.len = kv.len
    BY DEF StreamInv, CachesRight, CachesHold
  <2>2. /\ CacheType(kv') /\ Holds(kv', Window - 1) /\ kv'.len = kv.len + n
        /\ kv'.alloc <= Window - 1 + MaxChunk + Slack
    BY <1>1, KVNextRight
  <2>3. /\ CacheType(lat') /\ Holds(lat', ConvRF) /\ lat'.len = lat.len + n
        /\ lat'.alloc <= ConvRF + MaxChunk + Slack
    BY <1>1, LatNextRight
  <2>4. QED
    BY <2>1, <2>2, <2>3 DEF CacheType, Holds
<1>3. CachesRight'
  BY <1>2 DEF CachesRight, CachesHold, BoundedMemory
<1>4. kv.len \in Nat /\ PadCols \in Nat /\ n \in Nat /\ n >= 1
  BY Sizes, SMTT(30) DEF StreamInv, TypeOK, CacheType
<1>5. ASSUME NEW i \in 0 .. PadCols - 1 PROVE vqPad'[i] = True(kv'.len - PadCols + i)
  <2>1. kv.len + n - PadCols + i \in kv.len - PadCols .. kv.len + n - 1
        /\ kv'.len - PadCols + i = kv.len + n - PadCols + i
    BY <1>2, <1>4
  <2>2. vqPad'[i] = Seen(Codes(kv.len, n), kv.len, vqPad, PadCols, vqValid, kv.len + n - PadCols + i)
    BY <1>1, <1>4 DEF SaveTail
  <2>3. QED
    BY <1>4, <2>1, <2>2, PadSeen
<1>6. PadInv'
  BY <1>1, <1>5 DEF PadInv
<1>7. vqPad' \in [0 .. PadCols - 1 -> Value]
  <2>1. \A i \in 0 .. PadCols - 1 : vqPad'[i] \in Value
    <3>1. \A i \in 0 .. PadCols - 1 : kv'.len - PadCols + i \in Int
      BY <1>2, <1>4
    <3>2. QED
      BY <1>5, <3>1, Sizes
  <2>2. vqPad' = [i \in 0 .. PadCols - 1 |-> vqPad'[i]]
    BY <1>1, <1>4 DEF SaveTail
  <2>3. QED
    BY <2>1, <2>2
<1>8. QED
  BY <1>1, <1>2, <1>3, <1>6, <1>7
-----------------------------------------------------------------------------
(* The conv decoder on the new frames, with the tails.                     *)

\* The lengths the stages work on.
LEMMA Lengths ==
    ASSUME StreamInv
    PROVE  /\ lat.len \in Nat /\ kv.len = lat.len /\ lostTo \in Nat /\ lostTo <= lat.len
           /\ TailA \in Nat /\ TailB \in Nat /\ ConvRF \in Nat
  BY Sizes DEF StreamInv, TypeOK, CacheType, CachesRight, CachesHold, AudioInv

LEMMA InputRight ==
    ASSUME StreamInv, NEW n \in 1 .. MaxChunk, NEW a \in Cols(lat.len, n)
    PROVE  Input(lat.len, n)[a] = a
<1>1. a \in Max0(lat.len - ConvRF) .. lat.len + n - 1
  BY Lengths DEF Cols, Max0
<1>2. QED
  BY <1>1, LatNextRight DEF Input

\* The first tail is right where no lost chunk reaches ...
LEMMA SeenA ==
    ASSUME StreamInv, exact, NEW n \in 1 .. MaxChunk,
           NEW b \in lat.len - TailA .. lat.len + n - 1, Clear(b, 0)
    PROVE  Seen(Input(lat.len, n), lat.len, tailA, TailA, TRUE, b) = True(b)
<1>1. lat.len \in Nat /\ TailA \in Nat /\ b \in Int /\ n \in Nat
  BY Lengths
<1>2. CASE b >= lat.len
  <2>1. b \in Cols(lat.len, n) /\ b >= 0
    BY <1>1, <1>2 DEF Cols
  <2>2. Input(lat.len, n)[b] = b
    BY <2>1, InputRight
  <2>3. QED
    BY <1>1, <1>2, <2>1, <2>2, Truth DEF Seen
<1>3. CASE b < lat.len
  <2>1. PICK i : i = b - lat.len + TailA
    OBVIOUS
  <2>2. i \in 0 .. TailA - 1 /\ lat.len - TailA + i = b
    BY <1>1, <1>3, <2>1
  <2>3. tailA[i] = True(b)
    BY <2>2 DEF StreamInv, TailInv
  <2>4. QED
    BY <1>1, <1>3, <2>1, <2>3 DEF Seen
<1>4. b >= lat.len \/ b < lat.len
  BY <1>1
<1>5. QED
  BY <1>2, <1>3, <1>4, Zenon

\* ... so is the first stage where the TailA columns before are ...
LEMMA StageARight ==
    ASSUME StreamInv, exact, NEW n \in 1 .. MaxChunk, NEW a \in Cols(lat.len, n)
    PROVE  /\ StageA(n)[a] \in Value
           /\ Clear(a, TailA) => StageA(n)[a] = a
<1>1. lat.len \in Nat /\ TailA \in Nat /\ a \in Int /\ n \in Nat /\ lostTo \in Nat
  BY Lengths DEF Cols
<1>2. ASSUME Clear(a, TailA), NEW b \in a - TailA .. a
      PROVE  b \in lat.len - TailA .. lat.len + n - 1 /\ Clear(b, 0)
  BY <1>1, <1>2 DEF Cols, Clear
<1>3. Clear(a, TailA) =>
        \A b \in a - TailA .. a : Seen(Input(lat.len, n), lat.len, tailA, TailA, TRUE, b) = True(b)
  BY <1>2, SeenA, Zenon
<1>4. /\ StageA(n)[a] \in {a, Wrong}
      /\ (\A b \in a - TailA .. a : Seen(Input(lat.len, n), lat.len, tailA, TailA, TRUE, b) = True(b))
            => StageA(n)[a] = a
  BY DEF StageA, Conv
<1>5. QED
  BY <1>1, <1>3, <1>4, Sizes, Zenon

\* ... and the second one column later.
LEMMA StageTRight ==
    ASSUME StreamInv, exact, NEW n \in 1 .. MaxChunk, NEW a \in Cols(lat.len, n)
    PROVE  /\ StageT(n)[a] \in Value
           /\ Clear(a, TailA + 1) => StageT(n)[a] = a
<1>1. lat.len \in Nat /\ TailA \in Nat /\ a \in Nat /\ n \in Nat /\ lostTo \in Nat
      /\ lat.len <= a /\ a < lat.len + n
  BY Lengths DEF Cols
<1>2. StageT(n)[a] = IF (IF a = lat.len THEN carry ELSE StageA(n)[a - 1]) = True(a - 1)
                     THEN StageA(n)[a] ELSE Wrong
  BY DEF StageT, Transpose
<1>3. StageT(n)[a] \in Value
  BY <1>2, StageARight, Sizes
<1>4. ASSUME Clear(a, TailA + 1) PROVE StageT(n)[a] = a
  <2>1. Clear(a, TailA) /\ Clear(a - 1, TailA)
    BY <1>1, <1>4 DEF Clear
  <2>2. StageA(n)[a] = a
    BY <2>1, StageARight
  <2>3. CASE a = lat.len
    BY <1>2, <2>1, <2>2, <2>3 DEF StreamInv, TailInv
  <2>4. CASE a # lat.len
    <3>1. a - 1 \in Cols(lat.len, n) /\ a - 1 >= 0
      BY <1>1, <2>4 DEF Cols
    <3>2. StageA(n)[a - 1] = True(a - 1)
      BY <1>1, <2>1, <3>1, StageARight, Truth
    <3>3. QED
      BY <1>2, <2>2, <2>4, <3>2
  <2>5. QED
    BY <2>3, <2>4
<1>5. QED
  BY <1>3, <1>4

\* The second tail, which a cold stream takes for zeros when it convolves and
\* reads when it saves.
LEMMA SeenB ==
    ASSUME StreamInv, exact, NEW n \in 1 .. MaxChunk, NEW useTail \in {warm, TRUE},
           NEW b \in lat.len - TailB .. lat.len + n - 1, Clear(b, TailA + 1)
    PROVE  Seen(StageT(n), lat.len, tailB, TailB, useTail, b) = True(b)
<1>1. /\ lat.len \in Nat /\ TailA \in Nat /\ TailB \in Nat /\ b \in Int /\ n \in Nat
      /\ lostTo \in Nat /\ lostTo <= lat.len
  BY Lengths
<1>2. CASE b >= lat.len
  <2>1. b \in Cols(lat.len, n) /\ b >= 0
    BY <1>1, <1>2 DEF Cols
  <2>2. StageT(n)[b] = b
    BY <2>1, StageTRight
  <2>3. QED
    BY <1>1, <1>2, <2>1, <2>2, Truth DEF Seen
<1>3. CASE b < lat.len /\ useTail
  <2>1. PICK i : i = b - lat.len + TailB
    OBVIOUS
  <2>2. i \in 0 .. TailB - 1 /\ lat.len - TailB + i = b
    BY <1>1, <1>3, <2>1
  <2>3. tailB[i] = True(b)
    BY <2>2 DEF StreamInv, TailInv
  <2>4. QED
    BY <1>1, <1>3, <2>1, <2>3 DEF Seen
<1>4. CASE b < lat.len /\ ~useTail
  <2>0. ~warm
    BY <1>4
  <2>1. lostTo = lat.len
    BY <2>0 DEF StreamInv, TailInv
  <2>2. b < 0
    BY <1>1, <1>4, <2>1 DEF Clear
  <2>3. QED
    BY <1>1, <1>4, <2>2, Truth DEF Seen
<1>5. QED
  BY <1>1, <1>2, <1>3, <1>4

LEMMA StageBRight ==
    ASSUME StreamInv, exact, NEW n \in 1 .. MaxChunk, NEW a \in Cols(lat.len, n)
    PROVE  /\ StageB(n)[a] \in Value
           /\ Clear(a, TailA + TailB + 1) => StageB(n)[a] = a
<1>1. /\ lat.len \in Nat /\ TailA \in Nat /\ TailB \in Nat /\ a \in Int /\ n \in Nat
      /\ lostTo \in Nat
  BY Lengths DEF Cols
<1>2. ASSUME Clear(a, TailA + TailB + 1), NEW b \in a - TailB .. a
      PROVE  b \in lat.len - TailB .. lat.len + n - 1 /\ Clear(b, TailA + 1)
  BY <1>1, <1>2 DEF Cols, Clear
<1>3. ASSUME Clear(a, TailA + TailB + 1), NEW b \in a - TailB .. a
      PROVE  Seen(StageT(n), lat.len, tailB, TailB, warm, b) = True(b)
  BY <1>2, <1>3, SeenB
<1>4. QED
  BY <1>1, <1>3, ConvRight DEF StageB

\* The tails after the chunk.
LEMMA TailsStep ==
    ASSUME StreamInv, exact, exact', NEW n \in 1 .. MaxChunk, SaveA(n), SaveT(n), SaveB(n),
           warm', lostTo' = lostTo, lat'.len = lat.len + n
    PROVE  TailInv'
<1>1. /\ lat.len \in Nat /\ TailA \in Nat /\ TailB \in Nat /\ n \in Nat /\ n >= 1
      /\ lostTo \in Nat
  BY Lengths
<1>2. ASSUME NEW i \in 0 .. TailA - 1, Clear(lat.len - TailA + i, 0)'
      PROVE  tailA'[i] = True(lat'.len - TailA + i)
  <2>1. PICK b \in Int : b = lat.len + n - TailA + i
    BY <1>1
  <2>2. b \in lat.len - TailA .. lat.len + n - 1 /\ lat'.len - TailA + i = b
    BY <1>1, <2>1
  <2>3. Clear(b, 0)
    BY <1>2, <2>2 DEF Clear
  <2>4. tailA'[i] = Seen(Input(lat.len, n), lat.len, tailA, TailA, TRUE, b)
    BY <2>1 DEF SaveA, SaveTail
  <2>5. QED
    BY <2>2, <2>3, <2>4, SeenA
<1>3. ASSUME Clear(lat.len - 1, TailA)' PROVE carry' = True(lat'.len - 1)
  <2>1. PICK a \in Nat : a = lat.len + n - 1
    BY <1>1
  <2>2. a \in Cols(lat.len, n) /\ lat'.len - 1 = a
    BY <1>1, <2>1 DEF Cols
  <2>3. Clear(a, TailA)
    BY <1>3, <2>2 DEF Clear
  <2>4. carry' = a /\ True(a) = a
    BY <2>1, <2>2, <2>3, StageARight, Truth DEF SaveT
  <2>5. QED
    BY <2>2, <2>4
<1>4. ASSUME NEW i \in 0 .. TailB - 1, Clear(lat.len - TailB + i, TailA + 1)'
      PROVE  tailB'[i] = True(lat'.len - TailB + i)
  <2>1. PICK b \in Int : b = lat.len + n - TailB + i
    BY <1>1
  <2>2. b \in lat.len - TailB .. lat.len + n - 1 /\ lat'.len - TailB + i = b
    BY <1>1, <2>1
  <2>3. Clear(b, TailA + 1)
    BY <1>4, <2>2 DEF Clear
  <2>4. tailB'[i] = Seen(StageT(n), lat.len, tailB, TailB, TRUE, b)
    BY <2>1 DEF SaveB, SaveTail
  <2>5. QED
    BY <2>2, <2>3, <2>4, SeenB
<1>5. QED
  BY <1>2, <1>3, <1>4 DEF TailInv

\* They hold values, right or wrong.
LEMMA TailTypes ==
    ASSUME StreamInv, exact, NEW n \in 1 .. MaxChunk
    PROVE  /\ SaveA(n) => tailA' \in [0 .. TailA - 1 -> Value]
           /\ SaveT(n) => carry' \in Value
           /\ SaveB(n) => tailB' \in [0 .. TailB - 1 -> Value]
<1>1. /\ lat.len \in Nat /\ TailA \in Nat /\ TailB \in Nat /\ n \in Nat /\ n >= 1
  BY Lengths
<1>2. ASSUME SaveA(n) PROVE tailA' \in [0 .. TailA - 1 -> Value]
  <2>1. ASSUME NEW i \in 0 .. TailA - 1
        PROVE  Seen(Input(lat.len, n), lat.len, tailA, TailA, TRUE, lat.len + n - TailA + i) \in Value
    <3>1. PICK b \in Int : b = lat.len + n - TailA + i
      BY <1>1
    <3>2. CASE b >= lat.len
      <4>1. b \in Cols(lat.len, n)
        BY <1>1, <3>1, <3>2 DEF Cols
      <4>2. Input(lat.len, n)[b] \in Value
        BY <4>1, InputRight, Sizes
      <4>3. QED
        BY <3>1, <3>2, <4>2 DEF Seen
    <3>3. CASE ~(b >= lat.len)
      <4>1. b - lat.len + TailA \in 0 .. TailA - 1
        BY <1>1, <3>1, <3>3
      <4>2. tailA[b - lat.len + TailA] \in Value
        BY <4>1 DEF StreamInv, TypeOK
      <4>3. QED
        BY <3>1, <3>3, <4>2 DEF Seen
    <3>4. QED
      BY <3>2, <3>3
  <2>2. QED
    BY <1>2, <2>1 DEF SaveA, SaveTail
<1>3. ASSUME SaveT(n) PROVE carry' \in Value
  <2>1. lat.len + n - 1 \in Cols(lat.len, n)
    BY <1>1 DEF Cols
  <2>2. QED
    BY <1>3, <2>1, StageARight DEF SaveT
<1>4. ASSUME SaveB(n) PROVE tailB' \in [0 .. TailB - 1 -> Value]
  <2>1. ASSUME NEW i \in 0 .. TailB - 1
        PROVE  Seen(StageT(n), lat.len, tailB, TailB, TRUE, lat.len + n - TailB + i) \in Value
    <3>1. PICK b \in Int : b = lat.len + n - TailB + i
      BY <1>1
    <3>2. CASE b >= lat.len
      <4>1. b \in Cols(lat.len, n)
        BY <1>1, <3>1, <3>2 DEF Cols
      <4>2. StageT(n)[b] \in Value
        BY <4>1, StageTRight
      <4>3. QED
        BY <3>1, <3>2, <4>2 DEF Seen
    <3>3. CASE ~(b >= lat.len)
      <4>1. b - lat.len + TailB \in 0 .. TailB - 1
        BY <1>1, <3>1, <3>3
      <4>2. tailB[b - lat.len + TailB] \in Value
        BY <4>1 DEF StreamInv, TypeOK
      <4>3. QED
        BY <3>1, <3>3, <4>2, Sizes DEF Seen
    <3>4. QED
      BY <3>2, <3>3
  <2>2. QED
    BY <1>4, <2>1 DEF SaveB, SaveTail
<1>5. QED
  BY <1>2, <1>3, <1>4
-----------------------------------------------------------------------------
(* The windowed decode: the whole stack again, zero padded, and the        *)
(* context it spoils thrown away.                                          *)

\* Where the window begins.
WindowStart == lat.len - (IF lat.len > ConvRF THEN ConvRF ELSE lat.len)

LEMMA WindowBounds ==
    ASSUME StreamInv
    PROVE  /\ WindowStart \in Nat /\ WindowStart <= lat.len /\ WindowStart = Max0(lat.len - ConvRF)
           /\ WindowStart = 0 \/ WindowStart = lat.len - ConvRF
  BY Lengths DEF WindowStart, Max0

\* A column r after the start of the window sees no padding that is not there.
Inside(b, r) == WindowStart = 0 \/ b >= WindowStart + r

\* The three stages of the window.
WinX(n) == [a \in Cols(WindowStart, Context(n) + n) |-> Get(LatNext(n), a)]
WinA(n) == Conv(WinX(n), WindowStart, Context(n) + n, tailA, TailA, FALSE)
WinT(n) == Transpose(WinA(n), WindowStart, Context(n) + n, IF WindowStart = 0 THEN Zero ELSE Wrong)
WinB(n) == Conv(WinT(n), WindowStart, Context(n) + n, tailB, TailB, FALSE)

LEMMA WinCols ==
    ASSUME StreamInv, NEW n \in 1 .. MaxChunk
    PROVE  Cols(WindowStart, Context(n) + n) = WindowStart .. lat.len + n - 1
  BY Lengths DEF Cols, Context, WindowStart

LEMMA WinARight ==
    ASSUME StreamInv, NEW n \in 1 .. MaxChunk, NEW a \in WindowStart .. lat.len + n - 1,
           Inside(a, TailA)
    PROVE  WinA(n)[a] = a
<1>1. /\ lat.len \in Nat /\ TailA \in Nat /\ a \in Int /\ n \in Nat /\ WindowStart \in Nat
  BY Lengths, WindowBounds
<1>2. ASSUME NEW b \in a - TailA .. a
      PROVE  Seen(WinX(n), WindowStart, tailA, TailA, FALSE, b) = True(b)
  <2>1. CASE b >= WindowStart
    <3>1. b \in WindowStart .. lat.len + n - 1 /\ b >= 0
      BY <1>1, <2>1
    <3>2. Get(LatNext(n), b) = b
      BY <3>1, LatNextRight, WindowBounds
    <3>3. WinX(n)[b] = b
      BY <3>1, <3>2, WinCols DEF WinX
    <3>4. QED
      BY <1>1, <2>1, <3>1, <3>3, Truth DEF Seen
  <2>2. CASE b < WindowStart
    <3>1. b < 0
      BY <1>1, <2>2 DEF Inside
    <3>2. QED
      BY <1>1, <2>2, <3>1, Truth DEF Seen
  <2>3. b >= WindowStart \/ b < WindowStart
    BY <1>1
  <2>4. QED
    BY <2>1, <2>2, <2>3, Zenon
<1>3. a \in Cols(WindowStart, Context(n) + n)
  BY WinCols
<1>4. QED
  BY <1>2, <1>3 DEF WinA, Conv

LEMMA WinTRight ==
    ASSUME StreamInv, NEW n \in 1 .. MaxChunk, NEW a \in WindowStart .. lat.len + n - 1,
           Inside(a, TailA + 1)
    PROVE  WinT(n)[a] = a
<1>1. /\ lat.len \in Nat /\ TailA \in Nat /\ a \in Nat /\ n \in Nat /\ WindowStart \in Nat
  BY Lengths, WindowBounds
<1>2. a \in Cols(WindowStart, Context(n) + n)
  BY WinCols
<1>3. WinT(n)[a] = IF (IF a = WindowStart THEN (IF WindowStart = 0 THEN Zero ELSE Wrong)
                       ELSE WinA(n)[a - 1]) = True(a - 1)
                   THEN WinA(n)[a] ELSE Wrong
  BY <1>2 DEF WinT, Transpose
<1>4. WinA(n)[a] = a
  <2>1. Inside(a, TailA)
    BY <1>1 DEF Inside
  <2>2. QED
    BY <2>1, WinARight
<1>5. CASE a = WindowStart
  <2>1. WindowStart = 0 /\ True(a - 1) = Zero
    BY <1>1, <1>5, Truth DEF Inside
  <2>2. QED
    BY <1>3, <1>4, <1>5, <2>1
<1>6. CASE a # WindowStart
  <2>1. a - 1 \in WindowStart .. lat.len + n - 1 /\ a - 1 >= 0 /\ Inside(a - 1, TailA)
    BY <1>1, <1>6 DEF Inside
  <2>2. WinA(n)[a - 1] = True(a - 1)
    BY <1>1, <2>1, WinARight, Truth
  <2>3. QED
    BY <1>3, <1>4, <1>6, <2>2
<1>7. QED
  BY <1>5, <1>6

\* The new columns are right: the window is as long as the stack reaches.
LEMMA WinBRight ==
    ASSUME StreamInv, NEW n \in 1 .. MaxChunk, NEW a \in Cols(lat.len, n)
    PROVE  WinB(n)[a] = a
<1>1. /\ lat.len \in Nat /\ TailA \in Nat /\ TailB \in Nat /\ a \in Nat /\ n \in Nat
      /\ WindowStart \in Nat /\ WindowStart <= lat.len /\ ConvRF >= TailA + TailB + 1
      /\ WindowStart = 0 \/ WindowStart = lat.len - ConvRF
      /\ lat.len <= a /\ a < lat.len + n /\ ConvRF \in Nat
  BY Lengths, WindowBounds, Sizes DEF Cols
<1>2. ASSUME NEW b \in a - TailB .. a
      PROVE  Seen(WinT(n), WindowStart, tailB, TailB, FALSE, b) = True(b)
  <2>1. CASE b >= WindowStart
    <3>1. b \in WindowStart .. lat.len + n - 1 /\ b >= 0 /\ Inside(b, TailA + 1)
      BY <1>1, <2>1 DEF Inside
    <3>2. WinT(n)[b] = b
      BY <3>1, WinTRight
    <3>3. QED
      BY <1>1, <2>1, <3>1, <3>2, Truth DEF Seen
  <2>2. CASE b < WindowStart
    <3>1. b < 0
      BY <1>1, <2>2
    <3>2. QED
      BY <1>1, <2>2, <3>1, Truth DEF Seen
  <2>3. b >= WindowStart \/ b < WindowStart
    BY <1>1
  <2>4. QED
    BY <2>1, <2>2, <2>3, Zenon
<1>3. a \in WindowStart .. lat.len + n - 1
  BY <1>1
<1>4. a \in Cols(WindowStart, Context(n) + n)
  BY <1>3, WinCols
<1>5. QED
  BY <1>2, <1>4 DEF WinB, Conv
-----------------------------------------------------------------------------
(* What is handed out.                                                     *)

\* What the audio consists of.
LEMMA Heard ==
    ASSUME StreamInv
    PROVE  /\ Len(audio) \in Nat
           /\ \A i \in 1 .. Len(audio) : /\ audio[i] \in [frame : Nat, value : Value]
                                        /\ audio[i].frame \in Nat
<1>1. audio \in Seq([frame : Nat, value : Value])
  BY DEF StreamInv, TypeOK
<1>2. \A i \in 1 .. Len(audio) : audio[i] \in [frame : Nat, value : Value]
  BY <1>1, ElementOfSeq
<1>3. QED
  BY <1>1, <1>2, LenProperties

LEMMA EmitStep ==
    ASSUME StreamInv, NEW n \in 1 .. MaxChunk, NEW y, Emit(lat.len, n, y),
           \A a \in Cols(lat.len, n) :
               y[a] \in Value /\ (Clear(a, TailA + TailB + 1) => y[a] = a),
           lat'.len = lat.len + n, lostTo' = lostTo
    PROVE  AudioInv' /\ audio' \in Seq([frame : Nat, value : Value])
<1>1. /\ lat.len \in Nat /\ lostTo \in Nat /\ lostTo <= lat.len /\ n \in Nat /\ n >= 1
  BY Lengths
<1>2. PICK len \in Nat : len = Len(audio)
  BY DEF StreamInv, TypeOK
<1> DEFINE part == [i \in 1 .. n |-> [frame |-> lat.len + i - 1, value |-> y[lat.len + i - 1]]]
<1>3. ASSUME NEW i \in 1 .. n
      PROVE  /\ lat.len + i - 1 \in Cols(lat.len, n) /\ lat.len + i - 1 \in Nat
             /\ part[i] = [frame |-> lat.len + i - 1, value |-> y[lat.len + i - 1]]
             /\ part[i] \in [frame : Nat, value : Value]
  <2>1. lat.len + i - 1 \in Cols(lat.len, n) /\ lat.len + i - 1 \in Nat
    BY <1>1 DEF Cols
  <2>2. y[lat.len + i - 1] \in Value
    BY <2>1
  <2>3. QED
    BY <2>1, <2>2
<1>4. part \in Seq([frame : Nat, value : Value]) /\ Len(part) = n
  BY <1>1, <1>3
<1>5. audio \in Seq([frame : Nat, value : Value]) /\ audio' = audio \o part
  BY DEF StreamInv, TypeOK, Emit
<1> HIDE DEF part
<1>6. /\ audio' \in Seq([frame : Nat, value : Value])
      /\ Len(audio') = len + n
      /\ \A i \in 1 .. len : audio'[i] = audio[i]
      /\ \A i \in len + 1 .. len + n : audio'[i] = part[i - len]
  <2>1. /\ audio' \in Seq([frame : Nat, value : Value])
        /\ Len(audio') = Len(audio) + Len(part)
        /\ \A i \in 1 .. Len(audio) + Len(part) :
              audio'[i] = IF i <= Len(audio) THEN audio[i] ELSE part[i - Len(audio)]
    BY <1>4, <1>5, ConcatProperties
  <2>2. \A i \in 1 .. len + n : audio'[i] = IF i <= len THEN audio[i] ELSE part[i - len]
    BY <1>2, <1>4, <2>1
  <2>3. Len(audio') = len + n
    BY <1>2, <1>4, <2>1
  <2>4. \A i \in 1 .. len : i \in 1 .. len + n /\ i <= len
    BY <1>1, <1>2
  <2>5. \A i \in len + 1 .. len + n : i \in 1 .. len + n /\ ~(i <= len)
    BY <1>1, <1>2
  <2>6. /\ \A i \in 1 .. len : audio'[i] = audio[i]
        /\ \A i \in len + 1 .. len + n : audio'[i] = part[i - len]
    BY <2>2, <2>4, <2>5
  <2>7. QED
    BY <2>1, <2>3, <2>6
<1>7. ASSUME NEW i \in 1 .. len
      PROVE  /\ audio'[i].frame = audio[i].frame /\ audio'[i].value = audio[i].value
             /\ audio[i].frame \in Nat /\ audio[i].frame < lat.len
             /\ lostTo = 0 => audio[i].frame = i - 1
             /\ Clear(audio[i].frame, TailA + TailB + 1) => audio[i].value = audio[i].frame
  <2>1. audio'[i] = audio[i] /\ audio[i].frame \in Nat
    BY <1>2, <1>6, Heard
  <2>2. QED
    BY <1>2, <2>1 DEF StreamInv, AudioInv
<1>8. ASSUME NEW i \in len + 1 .. len + n
      PROVE  /\ audio'[i].frame = lat.len + (i - len) - 1
             /\ Clear(audio'[i].frame, TailA + TailB + 1) => audio'[i].value = audio'[i].frame
  <2>1. i - len \in 1 .. n
    BY <1>1, <1>2
  <2>2. audio'[i] = [frame |-> lat.len + (i - len) - 1, value |-> y[lat.len + (i - len) - 1]]
        /\ lat.len + (i - len) - 1 \in Cols(lat.len, n)
    BY <1>3, <1>6, <2>1
  <2>3. QED
    BY <2>2
<1>9. lostTo = 0 => len = lat.len
  BY <1>2 DEF StreamInv, AudioInv
<1>10. ASSUME NEW i \in 1 .. len + n
       PROVE  /\ audio'[i].frame < lat.len + n
              /\ lostTo = 0 => audio'[i].frame = i - 1
              /\ Clear(audio'[i].frame, TailA + TailB + 1) => audio'[i].value = audio'[i].frame
  <2>1. CASE i \in 1 .. len
    BY <1>1, <1>7, <2>1
  <2>2. CASE i \in len + 1 .. len + n
    BY <1>1, <1>2, <1>8, <1>9, <2>2
  <2>3. QED
    BY <1>1, <1>2, <2>1, <2>2
<1>11. ASSUME NEW i \in 1 .. len + n, NEW k \in 1 .. len + n, i < k
       PROVE  audio'[i].frame < audio'[k].frame
  <2>1. CASE k \in 1 .. len
    <3>1. i \in 1 .. len
      BY <1>2, <1>11, <2>1
    <3>2. audio[i].frame < audio[k].frame
      BY <1>2, <1>11, <2>1, <3>1 DEF StreamInv, AudioInv
    <3>3. QED
      BY <1>7, <2>1, <3>1, <3>2
  <2>2. CASE k \in len + 1 .. len + n
    <3>1. audio'[k].frame = lat.len + (k - len) - 1
      BY <1>8, <2>2
    <3>2. CASE i \in 1 .. len
      <4>1. audio'[i].frame \in Nat /\ audio'[i].frame < lat.len
        BY <1>7, <3>2
      <4>2. PICK d \in Nat \ {0} : d = k - len
        <5>1. PICK l \in Nat : l = len
          BY <1>2
        <5>2. k \in l + 1 .. l + n
          BY <2>2, <5>1
        <5>3. k - l \in Nat \ {0}
          BY <5>2
        <5>4. QED
          BY <5>1, <5>3
      <4>3. audio'[k].frame = lat.len + d - 1
        BY <3>1, <4>2
      <4>4. QED
        BY <1>1, <1>2, <4>1, <4>2, <4>3
    <3>3. CASE i \in len + 1 .. len + n
      <4>1. audio'[i].frame = lat.len + (i - len) - 1
        BY <1>8, <3>3
      <4>2. QED
        BY <1>1, <1>2, <1>11, <3>1, <4>1
    <3>4. QED
      BY <1>1, <1>2, <3>2, <3>3
  <2>3. QED
    BY <1>1, <1>2, <2>1, <2>2
<1>12. AudioInv'
  <2>1. lostTo' <= lat'.len /\ (lostTo' = 0 => Len(audio') = lat'.len)
    BY <1>1, <1>6, <1>9 DEF AudioInv
  <2>2. \A i \in 1 .. Len(audio') :
           /\ audio'[i].frame < lat'.len
           /\ lostTo' = 0 => audio'[i].frame = i - 1
           /\ Clear(audio[i].frame, TailA + TailB + 1)' => audio'[i].value = audio'[i].frame
    BY <1>1, <1>6, <1>10 DEF Clear
  <2>3. QED
    BY <1>6, <1>11, <2>1, <2>2 DEF AudioInv
<1>13. QED
  BY <1>6, <1>12
-----------------------------------------------------------------------------
(* The steps.                                                              *)

LEMMA StreamInit == Init => StreamInv
<1> SUFFICES ASSUME Init PROVE StreamInv
  OBVIOUS
<1> USE DEF Init, EmptyCache, Zeros
<1>1. /\ CacheType(kv) /\ CacheType(lat)
  BY DEF CacheType
<1>2. TypeOK
  <2>1. \A t \in Nat : Zeros(t) \in [0 .. t - 1 -> Value]
    BY Sizes
  <2>2. audio \in Seq([frame : Nat, value : Value])
    BY EmptySeq
  <2>3. QED
    BY <1>1, <2>1, <2>2, Sizes DEF TypeOK
<1>3. CachesRight
  BY Sizes DEF CachesRight, CachesHold, BoundedMemory, Holds, Max0
<1>4. PadInv
  <2>1. \A i \in 0 .. PadCols - 1 : kv.len - PadCols + i < 0 /\ kv.len - PadCols + i \in Int
    BY Sizes
  <2>2. QED
    BY <2>1, Truth DEF PadInv
<1>5. TailInv
  <2>1. \A t \in Nat : \A i \in 0 .. t - 1 : True(lat.len - t + i) = Zero
    <3>1. \A t \in Nat : \A i \in 0 .. t - 1 : lat.len - t + i < 0 /\ lat.len - t + i \in Int
      OBVIOUS
    <3>2. QED
      BY <3>1, Truth
  <2>2. True(lat.len - 1) = Zero
    BY Truth
  <2>3. \A t \in Nat : \A i \in 0 .. t - 1 : Zeros(t)[i] = Zero
    OBVIOUS
  <2>4. QED
    BY <2>1, <2>2, <2>3, Sizes DEF TailInv
<1>6. AudioInv
  BY DEF AudioInv
<1>7. QED
  BY <1>2, <1>3, <1>4, <1>5, <1>6 DEF StreamInv

LEMMA ExactStep ==
    ASSUME StreamInv, NEW n \in 1 .. MaxChunk, DecodeExact(n)
    PROVE  StreamInv'
<1>1. /\ exact /\ exact' = exact /\ warm' = TRUE /\ lostTo' = lostTo /\ fails' = fails
      /\ Front(n) /\ SaveA(n) /\ SaveT(n) /\ SaveB(n) /\ Emit(lat.len, n, StageB(n))
  BY DEF DecodeExact
<1>2. /\ CacheType(kv)' /\ CacheType(lat)' /\ CachesRight' /\ PadInv'
      /\ kv'.len = kv.len + n /\ lat'.len = lat.len + n
      /\ vqPad' \in [0 .. PadCols - 1 -> Value] /\ vqValid' = TRUE
  BY <1>1, FrontStep
<1>3. TailInv'
  BY <1>1, <1>2, TailsStep
<1>4. AudioInv' /\ audio' \in Seq([frame : Nat, value : Value])
  <2>1. \A a \in Cols(lat.len, n) :
            StageB(n)[a] \in Value /\ (Clear(a, TailA + TailB + 1) => StageB(n)[a] = a)
    BY <1>1, StageBRight
  <2>2. QED
    BY <1>1, <1>2, <2>1, EmitStep
<1>5. TypeOK'
  BY <1>1, <1>2, <1>4, TailTypes DEF StreamInv, TypeOK
<1>6. QED
  BY <1>2, <1>3, <1>4, <1>5 DEF StreamInv

LEMMA FailsStep ==
    ASSUME StreamInv, NEW n \in 1 .. MaxChunk, DecodeFails(n)
    PROVE  StreamInv'
<1>1. /\ exact' = exact /\ warm' = warm /\ audio' = audio /\ lostTo' = lat.len + n
      /\ fails' = fails + 1 /\ Front(n)
  BY DEF DecodeFails
<1>2. /\ CacheType(kv)' /\ CacheType(lat)' /\ CachesRight' /\ PadInv'
      /\ kv'.len = kv.len + n /\ lat'.len = lat.len + n
      /\ vqPad' \in [0 .. PadCols - 1 -> Value] /\ vqValid' = TRUE
  BY <1>1, FrontStep
<1>3. /\ lat.len \in Nat /\ TailA \in Nat /\ TailB \in Nat /\ n \in Nat /\ n >= 1
  BY Lengths
<1>4. /\ tailA' \in [0 .. TailA - 1 -> Value] /\ carry' \in Value
      /\ tailB' \in [0 .. TailB - 1 -> Value]
  <2>1. CASE exact
    BY <2>1, TailTypes DEF DecodeFails, StreamInv, TypeOK
  <2>2. CASE ~exact
    <3>1. tailA' = tailA /\ carry' = carry /\ tailB' = tailB
      BY <2>2 DEF DecodeFails
    <3>2. QED
      BY <3>1 DEF StreamInv, TypeOK
  <2>3. QED
    BY <2>1, <2>2
<1>5. TypeOK'
  BY <1>1, <1>2, <1>3, <1>4 DEF StreamInv, TypeOK
<1>6. TailInv'
  <2>1. \A i \in 0 .. TailA - 1 : ~Clear(lat.len - TailA + i, 0)'
    BY <1>1, <1>2, <1>3 DEF Clear
  <2>2. ~Clear(lat.len - 1, TailA)'
    BY <1>1, <1>2, <1>3 DEF Clear
  <2>3. \A i \in 0 .. TailB - 1 : ~Clear(lat.len - TailB + i, TailA + 1)'
    BY <1>1, <1>2, <1>3, SMTT(30) DEF Clear
  <2>4. QED
    BY <1>1, <1>2, <2>1, <2>2, <2>3 DEF TailInv
<1>7. AudioInv'
  <2>1. PICK len \in Nat : len = Len(audio)
    BY DEF StreamInv, TypeOK
  <2>2. lostTo' # 0 /\ lostTo' = lat'.len
    BY <1>1, <1>2, <1>3
  <2>3. ASSUME NEW i \in 1 .. len
        PROVE  audio[i].frame < lat'.len /\ ~Clear(audio[i].frame, TailA + TailB + 1)'
    <3>1. audio[i].frame \in Nat /\ audio[i].frame < lat.len
      BY <2>1, Heard DEF StreamInv, AudioInv
    <3>2. QED
      BY <1>1, <1>2, <1>3, <2>2, <3>1 DEF Clear
  <2>4. \A i, k \in 1 .. len : i < k => audio[i].frame < audio[k].frame
    BY <2>1 DEF StreamInv, AudioInv
  <2>5. lostTo' <= lat'.len
    BY <1>1, <1>2, <1>3
  <2>6. QED
    BY <1>1, <2>1, <2>2, <2>3, <2>4, <2>5 DEF AudioInv
<1>8. QED
  BY <1>2, <1>5, <1>6, <1>7 DEF StreamInv

LEMMA WindowedStep ==
    ASSUME StreamInv, NEW n \in 1 .. MaxChunk, DecodeWindowed(n)
    PROVE  StreamInv'
<1>1. /\ ~exact /\ exact' = exact /\ warm' = warm /\ lostTo' = lostTo /\ fails' = fails
      /\ tailA' = tailA /\ carry' = carry /\ tailB' = tailB
      /\ Front(n)
  BY DEF DecodeWindowed
<1>2. Emit(lat.len, n, WinB(n))
  BY DEF DecodeWindowed, WinB, WinT, WinA, WinX, WindowStart, Context
<1>3. /\ CacheType(kv)' /\ CacheType(lat)' /\ CachesRight' /\ PadInv'
      /\ kv'.len = kv.len + n /\ lat'.len = lat.len + n
      /\ vqPad' \in [0 .. PadCols - 1 -> Value] /\ vqValid' = TRUE
  BY <1>1, FrontStep
<1>4. TailInv'
  BY <1>1 DEF TailInv
<1>5. AudioInv' /\ audio' \in Seq([frame : Nat, value : Value])
  <2>1. \A a \in Cols(lat.len, n) : a \in Int /\ WinB(n)[a] = a
    BY Lengths, WinBRight DEF Cols
  <2>2. \A a \in Cols(lat.len, n) :
            WinB(n)[a] \in Value /\ (Clear(a, TailA + TailB + 1) => WinB(n)[a] = a)
    BY <2>1, Sizes
  <2>3. QED
    BY <1>1, <1>2, <1>3, <2>2, EmitStep
<1>6. TypeOK'
  BY <1>1, <1>3, <1>5 DEF StreamInv, TypeOK
<1>7. QED
  BY <1>3, <1>4, <1>5, <1>6 DEF StreamInv

LEMMA StreamStep == StreamInv /\ [Next]_vars => StreamInv'
<1> SUFFICES ASSUME StreamInv, [Next]_vars PROVE StreamInv'
  OBVIOUS
<1>1. CASE UNCHANGED vars
  BY <1>1 DEF vars, StreamInv, TypeOK, CacheType, CachesRight, CachesHold, BoundedMemory, Holds,
              PadInv, TailInv, AudioInv, Clear
<1>2. CASE Next
  BY <1>2, ExactStep, FailsStep, WindowedStep DEF Next
<1>3. QED
  BY <1>1, <1>2

\* The caches, the pad, the tails and the audio, for every window, receptive
\* field, chunk and stream, and any number of chunks lost to an allocation.
THEOREM StreamInvariance == Spec => []StreamInv
<1>1. QED
  BY StreamInit, StreamStep, PTL DEF Spec

\* The compaction of the caches loses nothing that is read back, and a cache
\* holds little more than that, however long the stream.
THEOREM CachesKeep == Spec => []CachesRight
<1>1. StreamInv => CachesRight
  BY DEF StreamInv
<1>2. QED
  BY <1>1, StreamInvariance, PTL

\* Until a chunk is lost the chunks make up the one-shot decode, however the
\* stream is cut and in either mode.
THEOREM ChunksAreOneShot == Spec => []ChunkedEqualsOneShot
<1>1. StreamInv => ChunkedEqualsOneShot
  <2> SUFFICES ASSUME StreamInv, lostTo = 0
               PROVE  /\ Len(audio) = kv.len
                      /\ \A i \in 1 .. Len(audio) : audio[i] = [frame |-> i - 1, value |-> i - 1]
    BY DEF ChunkedEqualsOneShot
  <2>1. Len(audio) = kv.len
    BY Lengths DEF StreamInv, AudioInv
  <2>2. ASSUME NEW i \in 1 .. Len(audio)
        PROVE  audio[i] = [frame |-> i - 1, value |-> i - 1]
    <3>1. audio[i] \in [frame : Nat, value : Value]
      BY Heard
    <3>2. audio[i].frame = i - 1 /\ audio[i].value = i - 1
      BY DEF StreamInv, AudioInv, Clear
    <3>3. QED
      BY <3>1, <3>2
  <2>3. QED
    BY <2>1, <2>2
<1>2. QED
  BY <1>1, StreamInvariance, PTL

\* A lost chunk is heard for at most the reach of the conv stack behind it,
\* and frames are handed out in order, each at most once.
THEOREM GlitchesAreBounded == Spec => []GlitchBounded
<1>1. StreamInv => GlitchBounded
  <2> SUFFICES ASSUME StreamInv PROVE GlitchBounded
    OBVIOUS
  <2>1. PICK len \in Nat : len = Len(audio)
    BY DEF StreamInv, TypeOK
  <2>2. TailA \in Nat /\ TailB \in Nat /\ lostTo \in Nat
    BY Lengths
  <2>3. ASSUME NEW i \in 1 .. len, audio[i].value # audio[i].frame
        PROVE  audio[i].frame < lostTo + TailA + TailB + 1
    <3>1. audio[i].frame \in Nat
      BY <2>1, Heard
    <3>2. ~Clear(audio[i].frame, TailA + TailB + 1)
      BY <2>1, <2>3 DEF StreamInv, AudioInv
    <3>3. QED
      BY <2>2, <3>1, <3>2 DEF Clear
  <2>4. ASSUME NEW i \in 1 .. len - 1 PROVE audio[i].frame < audio[i + 1].frame
    <3>1. i \in 1 .. len /\ i + 1 \in 1 .. len /\ i < i + 1
      BY <2>1
    <3>2. QED
      BY <2>1, <3>1 DEF StreamInv, AudioInv
  <2>5. QED
    BY <2>1, <2>3, <2>4 DEF GlitchBounded
<1>2. QED
  BY <1>1, StreamInvariance, PTL
-----------------------------------------------------------------------------
(* The KV cache of the Talker (TalkerCache), for every set of embeddings,  *)
(* every prompt and any number of requests, when the fused step is used by *)
(* callers that start cold and do not steer: with a delta prefill or a     *)
(* partly steered generation on the device it is not so (README).          *)

FusedStartsCold == \A m \in Modes : m.fused => m.cold /\ m.steer = 0

Strings == Seq(Token)

\* What the variables hold.
CacheTyped ==
    /\ mode \in Modes /\ pc \in {"idle", "full", "delta", "gen"}
    /\ troubled \in BOOLEAN /\ requests \in Nat /\ frame \in Nat
    /\ prompt \in Strings /\ Len(prompt) <= MaxPrompt
    /\ prev \in Strings /\ fed \in Strings
    /\ host \in [Position -> Strings] /\ device \in [Position -> Strings]
    /\ decX \in Strings /\ last \in Strings
    /\ kvMax \in Nat \ {0} /\ kvLen \in Nat /\ deltaStart \in Nat

\* How far a request is.
PlaceInv ==
    /\ mode.cold => deltaStart = 0
    /\ pc # "idle" => prompt # << >>
    /\ pc = "full" => deltaStart = 0 /\ kvLen = 0 /\ frame = 0
    /\ pc = "delta" =>
          /\ deltaStart < Len(prompt) /\ deltaStart <= kvLen /\ kvLen <= Len(prompt)
          /\ deltaStart = 0 => kvLen = Len(prompt)
          /\ frame = 0
          /\ fed = Prefix(prompt, kvLen)
    /\ pc = "gen" =>
          /\ kvLen = Len(prompt) + frame /\ frame <= MaxGen /\ Len(fed) = kvLen
          /\ Prefix(fed, Len(prompt)) = prompt /\ prev = prompt

\* The first n entries of a cache are those of a sequence.
Cached(cache, s, n) == \A p \in 0 .. n - 1 : cache[p] = Prefix(s, p + 1)

\* The request has nothing of one that failed.
Tidy == ~troubled \/ deltaStart = 0

\* What the host's cache, and the device's in a fused generation, have.
FilledInv ==
    /\ pc = "idle" /\ ~troubled => Len(prev) <= kvMax /\ Cached(host, prev, Len(prev))
    /\ pc = "delta" /\ Tidy =>
          /\ kvLen <= kvMax /\ Cached(host, fed, kvLen)
          /\ kvLen > deltaStart => decX = fed
    /\ pc = "gen" /\ Tidy =>
          /\ last = fed
          /\ Len(prompt) <= kvMax /\ Cached(host, prompt, Len(prompt))
          /\ mode.fused => Cached(device, fed, kvLen)
          /\ ~mode.fused => Cached(host, fed, kvLen)

CacheInv == CacheTyped /\ PlaceInv /\ FilledInv
LEMMA CacheSizes ==
    /\ MaxPrompt \in Nat \ {0} /\ MaxGen \in Nat /\ KvStart \in Nat \ {0} /\ 0 \in Position
    /\ \A m \in Modes : m.fused \in BOOLEAN /\ m.cold \in BOOLEAN /\ m.steer \in Nat
  BY CacheAssumption DEF Position

LEMMA PrefixType ==
    ASSUME NEW S, NEW s \in Seq(S), NEW k \in 0 .. Len(s)
    PROVE  /\ Prefix(s, k) \in Seq(S) /\ Len(Prefix(s, k)) = k
           /\ \A i \in 1 .. k : Prefix(s, k)[i] = s[i]
<1>1. PICK len \in Nat : len = Len(s)
  BY LenProperties
<1>2. k \in Nat /\ k <= len /\ \A i \in 1 .. k : s[i] \in S
  BY <1>1, ElementOfSeq
<1>3. /\ SubSeq(s, 1, k) \in Seq(S)
      /\ Len(SubSeq(s, 1, k)) = IF 1 <= k THEN k - 1 + 1 ELSE 0
      /\ \A i \in 1 .. k - 1 + 1 : SubSeq(s, 1, k)[i] = s[1 + i - 1]
  BY <1>2, SubSeqProperties
<1>4. k - 1 + 1 = k /\ \A i \in 1 .. k : 1 + i - 1 = i
  BY <1>2
<1>5. (IF 1 <= k THEN k - 1 + 1 ELSE 0) = k
  BY <1>2
<1>6. QED
  BY <1>3, <1>4, <1>5 DEF Prefix

LEMMA PrefixWhole ==
    ASSUME NEW S, NEW s \in Seq(S)
    PROVE  Prefix(s, Len(s)) = s
  BY SubSeqFull DEF Prefix

LEMMA PrefixOfPrefix ==
    ASSUME NEW S, NEW s \in Seq(S), NEW m \in 0 .. Len(s), NEW k \in 0 .. m
    PROVE  Prefix(Prefix(s, m), k) = Prefix(s, k)
<1>1. m \in Nat /\ k \in Nat /\ k \in 0 .. Len(s)
  BY LenProperties
<1>2. PICK t \in Seq(S) : t = Prefix(s, m)
  BY PrefixType
<1>3. Len(t) = m /\ \A i \in 1 .. m : t[i] = s[i]
  BY <1>2, PrefixType
<1>4. Prefix(t, k) \in Seq(S) /\ Len(Prefix(t, k)) = k /\ \A i \in 1 .. k : Prefix(t, k)[i] = t[i]
  BY <1>3, PrefixType
<1>5. Prefix(s, k) \in Seq(S) /\ Len(Prefix(s, k)) = k /\ \A i \in 1 .. k : Prefix(s, k)[i] = s[i]
  BY <1>1, PrefixType
<1>6. \A i \in 1 .. k : i \in 1 .. m
  BY <1>1
<1>7. QED
  BY <1>2, <1>3, <1>4, <1>5, <1>6, SeqEqual

LEMMA PrefixNext ==
    ASSUME NEW S, NEW s \in Seq(S), NEW k \in Nat, k < Len(s)
    PROVE  s[k + 1] \in S /\ Append(Prefix(s, k), s[k + 1]) = Prefix(s, k + 1)
<1>1. Len(s) \in Nat /\ k \in 0 .. Len(s) /\ k + 1 \in 0 .. Len(s) /\ k + 1 \in 1 .. Len(s)
  BY LenProperties
<1>2. s[k + 1] \in S
  BY <1>1, ElementOfSeq
<1>3. PICK t \in Seq(S) : t = Prefix(s, k)
  BY <1>1, PrefixType
<1>4. Len(t) = k /\ \A i \in 1 .. k : t[i] = s[i]
  BY <1>1, <1>3, PrefixType
<1>5. /\ Append(t, s[k + 1]) \in Seq(S) /\ Len(Append(t, s[k + 1])) = Len(t) + 1
      /\ \A i \in 1 .. Len(t) : Append(t, s[k + 1])[i] = t[i]
      /\ Append(t, s[k + 1])[Len(t) + 1] = s[k + 1]
  BY <1>2, AppendProperties
<1>6. /\ Prefix(s, k + 1) \in Seq(S) /\ Len(Prefix(s, k + 1)) = k + 1
      /\ \A i \in 1 .. k + 1 : Prefix(s, k + 1)[i] = s[i]
  BY <1>1, PrefixType
<1>7. \A i \in 1 .. k + 1 : i \in 1 .. k \/ i = k + 1
  OBVIOUS
<1>8. \A i \in 1 .. k + 1 : Append(t, s[k + 1])[i] = Prefix(s, k + 1)[i]
  BY <1>4, <1>5, <1>6, <1>7
<1>9. Append(t, s[k + 1]) = Prefix(s, k + 1)
  BY <1>4, <1>5, <1>6, <1>8, SeqEqual
<1>10. QED
  BY <1>2, <1>3, <1>9

LEMMA PrefixOfAppend ==
    ASSUME NEW S, NEW s \in Seq(S), NEW e \in S
    PROVE  /\ Append(s, e) \in Seq(S) /\ Len(Append(s, e)) = Len(s) + 1
           /\ Prefix(Append(s, e), Len(s) + 1) = Append(s, e)
           /\ \A k \in 0 .. Len(s) : Prefix(Append(s, e), k) = Prefix(s, k)
<1>1. PICK t \in Seq(S) : t = Append(s, e)
  BY AppendProperties
<1>2. Len(t) = Len(s) + 1 /\ \A i \in 1 .. Len(s) : t[i] = s[i]
  BY <1>1, AppendProperties
<1>3. ASSUME NEW k \in 0 .. Len(s) PROVE Prefix(t, k) = Prefix(s, k)
  <2>1. Len(s) \in Nat /\ k \in 0 .. Len(t) /\ \A i \in 1 .. k : i \in 1 .. Len(s)
    BY <1>2, LenProperties
  <2>2. Prefix(t, k) \in Seq(S) /\ Len(Prefix(t, k)) = k /\ \A i \in 1 .. k : Prefix(t, k)[i] = t[i]
    BY <2>1, PrefixType
  <2>3. Prefix(s, k) \in Seq(S) /\ Len(Prefix(s, k)) = k /\ \A i \in 1 .. k : Prefix(s, k)[i] = s[i]
    BY PrefixType
  <2>4. QED
    BY <1>2, <2>1, <2>2, <2>3, SeqEqual
<1>4. Prefix(t, Len(t)) = t
  BY PrefixWhole
<1>5. QED
  BY <1>1, <1>2, <1>3, <1>4

\* The comparison with the last prompt: there is a longest common prefix.
LEMMA CommonPrefix ==
    ASSUME NEW S, NEW s \in Seq(S), NEW t \in Seq(S)
    PROVE  /\ Common(s, t) \in 0 .. Len(s) /\ Common(s, t) \in 0 .. Len(t)
           /\ Prefix(s, Common(s, t)) = Prefix(t, Common(s, t))
<1>1. PICK n \in Nat : n = IF Len(s) < Len(t) THEN Len(s) ELSE Len(t)
  BY LenProperties
<1>2. n <= Len(s) /\ n <= Len(t) /\ Len(s) \in Nat /\ Len(t) \in Nat
  BY <1>1, LenProperties
<1> DEFINE Agree(k) == Prefix(s, k) = Prefix(t, k) /\ (k < n => s[k + 1] # t[k + 1])
<1>3. \E k \in 0 .. n : Agree(k)
  <2> DEFINE Differ == {k \in 0 .. n : k < n => s[k + 1] # t[k + 1]}
             Less == {p \in Nat \X Nat : p[1] < p[2]}
  <2>1. n \in Differ /\ Differ \subseteq Nat
    BY <1>1
  <2>2. IsWellFoundedOn(Less, Nat)
    BY NatLessThanWellFounded, Zenon DEF OpToRel
  <2> HIDE DEF Less
  <2>3. PICK k \in Differ : \A j \in Differ : <<j, k>> \notin Less
    BY <2>1, <2>2, WFMin
  <2>4. \A j \in Differ : ~(j < k)
    <3> SUFFICES ASSUME NEW j \in Differ, j < k PROVE FALSE
      OBVIOUS
    <3> DEFINE p == <<j, k>>
    <3>1. p \in Nat \X Nat /\ p[1] = j /\ p[2] = k
      BY <2>1
    <3>2. p \in Less
      BY <3>1 DEF Less
    <3>3. QED
      BY <2>3, <3>2
  <2>5. k \in Nat /\ k <= n /\ k \in 0 .. Len(s) /\ k \in 0 .. Len(t)
    BY <1>1, <1>2, <2>3
  <2>6. \A i \in 1 .. k : s[i] = t[i]
    <3> SUFFICES ASSUME NEW i \in 1 .. k PROVE s[i] = t[i]
      OBVIOUS
    <3>1. i - 1 \in 0 .. n /\ i - 1 < k /\ i - 1 < n /\ (i - 1) + 1 = i
      BY <1>1, <2>5
    <3>2. i - 1 \notin Differ
      BY <2>4, <3>1
    <3>3. QED
      BY <3>1, <3>2
  <2>7. Prefix(s, k) = Prefix(t, k)
    <3>1. Prefix(s, k) \in Seq(S) /\ Len(Prefix(s, k)) = k /\ \A i \in 1 .. k : Prefix(s, k)[i] = s[i]
      BY <2>5, PrefixType
    <3>2. Prefix(t, k) \in Seq(S) /\ Len(Prefix(t, k)) = k /\ \A i \in 1 .. k : Prefix(t, k)[i] = t[i]
      BY <2>5, PrefixType
    <3>3. QED
      BY <2>6, <3>1, <3>2, SeqEqual
  <2>8. QED
    BY <2>3, <2>7
<1>4. Common(s, t) = CHOOSE k \in 0 .. n : Agree(k)
  BY <1>1 DEF Common
<1> HIDE DEF Agree
<1>5. Common(s, t) \in 0 .. n /\ Agree(Common(s, t))
  BY <1>3, <1>4
<1>6. Prefix(s, Common(s, t)) = Prefix(t, Common(s, t))
  BY <1>5 DEF Agree
<1>7. QED
  BY <1>2, <1>5, <1>6
-----------------------------------------------------------------------------
(* The steps of the Talker.                                                *)

\* What is in a cache up to n is there of every continuation of its sequence.
LEMMA CachedAppend ==
    ASSUME NEW cache, NEW s \in Strings, NEW e \in Token, NEW n \in Nat, n <= Len(s),
           Cached(cache, s, n)
    PROVE  Cached(cache, Append(s, e), n)
<1>1. Len(s) \in Nat
  BY LenProperties DEF Strings
<1>2. \A p \in 0 .. n - 1 : Prefix(Append(s, e), p + 1) = Prefix(s, p + 1)
  <2>1. \A p \in 0 .. n - 1 : p + 1 \in 0 .. Len(s)
    BY <1>1
  <2>2. QED
    BY <2>1, PrefixOfAppend DEF Strings
<1>3. QED
  BY <1>2 DEF Cached

\* The entry a step makes, of a cache that has all before it.
LEMMA EntryRight ==
    ASSUME CacheTyped, NEW cache \in [Position -> Strings], NEW e \in Token, kvLen \in Position
    PROVE  /\ Entry(cache, e) \in Strings
           /\ Cached(cache, fed, kvLen) /\ Len(fed) = kvLen => Entry(cache, e) = Append(fed, e)
<1>1. kvLen \in Nat /\ fed \in Strings /\ Len(fed) \in Nat
  BY LenProperties DEF CacheTyped, Strings
<1>2. CASE kvLen = 0
  <2>1. Entry(cache, e) = <<e>> /\ <<e>> = Append(<< >>, e) /\ << >> \in Seq(Token)
    BY <1>2, EmptySeq DEF Entry
  <2>2. <<e>> \in Strings
    BY <2>1, AppendProperties DEF Strings
  <2>3. Len(fed) = 0 => fed = << >>
    BY <1>1, EmptySeq DEF Strings
  <2>4. QED
    BY <1>2, <2>1, <2>2, <2>3
<1>3. CASE kvLen # 0
  <2>1. kvLen - 1 \in Position /\ kvLen - 1 \in 0 .. kvLen - 1 /\ (kvLen - 1) + 1 = kvLen
    BY <1>1, <1>3, CacheSizes DEF Position
  <2>2. Entry(cache, e) = Append(cache[kvLen - 1], e) /\ cache[kvLen - 1] \in Seq(Token)
    BY <1>3, <2>1 DEF Entry, Strings
  <2>3. Entry(cache, e) \in Strings
    BY <2>2, AppendProperties DEF Strings
  <2>4. ASSUME Cached(cache, fed, kvLen), Len(fed) = kvLen
        PROVE  Entry(cache, e) = Append(fed, e)
    <3>1. cache[kvLen - 1] = Prefix(fed, kvLen)
      BY <2>1, <2>4 DEF Cached
    <3>2. Prefix(fed, kvLen) = fed
      BY <1>1, <2>4, PrefixWhole DEF Strings
    <3>3. QED
      BY <2>2, <3>1, <3>2
  <2>5. QED
    BY <2>3, <2>4
<1>4. QED
  BY <1>2, <1>3

\* The cache grows to what is needed, if it does not suffice.
LEMMA GrowRight ==
    ASSUME CacheTyped, NEW n \in Nat, NEW m \in Grow(n)
    PROVE  m \in Nat \ {0} /\ n <= m /\ kvMax <= m
<1>1. kvMax \in Nat \ {0}
  BY DEF CacheTyped
<1>2. CASE n <= kvMax
  BY <1>1, <1>2 DEF Grow
<1>3. CASE ~(n <= kvMax)
  <2>1. m \in n .. 2 * n - 1
    BY <1>3 DEF Grow
  <2>2. QED
    BY <1>1, <1>3, <2>1
<1>4. QED
  BY <1>2, <1>3

\* ... and keeps what it holds below kv_len.
LEMMA GrownRight ==
    ASSUME CacheTyped, NEW n \in Nat
    PROVE  /\ Grown(n) \in [Position -> Strings]
           /\ \A p \in Position : p < kvLen => Grown(n)[p] = host[p]
<1>1. Nothing \in Strings
  BY EmptySeq DEF Nothing, Strings
<1>2. QED
  BY <1>1 DEF Grown, CacheTyped

\* What one step of the Talker writes, and what it leaves.
LEMMA StepWrites ==
    ASSUME CacheTyped, kvLen \in Position, NEW e \in Token, NEW steered \in BOOLEAN,
           Step(e, steered)
    PROVE  /\ host' \in [Position -> Strings] /\ device' \in [Position -> Strings]
           /\ decX' \in Strings /\ kvMax' \in Nat \ {0} /\ kvMax <= kvMax'
           /\ \A p \in Position : p < kvLen => host'[p] = host[p] /\ device'[p] = device[p]
           /\ OnDevice(steered) => device'[kvLen] = Entry(device, e) /\ host' = host
           /\ ~OnDevice(steered) => /\ host'[kvLen] = Entry(host, e) /\ decX' = Entry(host, e)
                                    /\ kvLen + 1 <= kvMax'
<1>1. /\ host \in [Position -> Strings] /\ device \in [Position -> Strings]
      /\ decX \in Strings /\ kvMax \in Nat \ {0} /\ kvLen \in Nat /\ kvLen + 1 \in Nat
  BY DEF CacheTyped
<1>2. Position \subseteq Nat
  BY DEF Position
<1>3. CASE OnDevice(steered)
  <2>1. /\ device' = [device EXCEPT ![kvLen] = Entry(device, e)]
        /\ host' = host /\ kvMax' = kvMax /\ decX' = decX
    BY <1>3 DEF Step
  <2>2. Entry(device, e) \in Strings
    BY <1>1, EntryRight
  <2>3. QED
    BY <1>1, <1>2, <1>3, <2>1, <2>2
<1>4. CASE ~OnDevice(steered)
  <2>1. /\ host' = [Grown(kvLen + 1) EXCEPT ![kvLen] = Entry(host, e)]
        /\ kvMax' \in Grow(kvLen + 1) /\ decX' = Entry(host, e) /\ device' = device
    BY <1>4 DEF Step
  <2>2. Entry(host, e) \in Strings
    BY <1>1, EntryRight
  <2>3. kvMax' \in Nat \ {0} /\ kvLen + 1 <= kvMax' /\ kvMax <= kvMax'
    BY <1>1, <2>1, GrowRight
  <2>4. /\ Grown(kvLen + 1) \in [Position -> Strings]
        /\ \A p \in Position : p < kvLen => Grown(kvLen + 1)[p] = host[p]
    BY <1>1, GrownRight
  <2>5. QED
    BY <1>1, <1>2, <1>4, <2>1, <2>2, <2>3, <2>4
<1>5. QED
  BY <1>3, <1>4

\* A step over a cache that holds the sequence fed so far makes it hold the
\* longer one.
LEMMA StepCaches ==
    ASSUME CacheTyped, kvLen \in Position, NEW e \in Token,
           NEW cache \in [Position -> Strings], NEW new,
           Cached(cache, fed, kvLen), Len(fed) = kvLen,
           \A p \in Position : p < kvLen => new[p] = cache[p], new[kvLen] = Entry(cache, e)
    PROVE  Cached(new, Append(fed, e), kvLen + 1)
<1>1. kvLen \in Nat /\ fed \in Strings
  BY DEF CacheTyped
<1>2. Cached(cache, Append(fed, e), kvLen)
  BY <1>1, CachedAppend
<1>3. new[kvLen] = Append(fed, e) /\ Prefix(Append(fed, e), kvLen + 1) = Append(fed, e)
  BY <1>1, EntryRight, PrefixOfAppend DEF Strings
<1>4. \A p \in 0 .. (kvLen + 1) - 1 : p \in Position /\ (p = kvLen \/ (p < kvLen /\ p \in 0 .. kvLen - 1))
  <2>1. PICK end \in Int : end = MaxPrompt + MaxGen - 1
    BY CacheSizes
  <2>2. kvLen <= end /\ Position = 0 .. end
    BY <2>1 DEF Position
  <2>3. \A n, m \in Int : \A p \in 0 .. (n + 1) - 1 :
            n <= m => /\ p \in 0 .. m
                      /\ p = n \/ (p < n /\ p \in 0 .. n - 1)
    OBVIOUS
  <2>4. kvLen \in Int
    BY <1>1
  <2>5. \A p \in 0 .. (kvLen + 1) - 1 :
            /\ p \in 0 .. end
            /\ p = kvLen \/ (p < kvLen /\ p \in 0 .. kvLen - 1)
    BY <2>1, <2>2, <2>3, <2>4
  <2>6. QED
    BY <2>2, <2>5
<1>5. QED
  BY <1>2, <1>3, <1>4 DEF Cached
-----------------------------------------------------------------------------
LEMMA CacheInitInv == FusedStartsCold /\ CacheInit => CacheInv
<1> SUFFICES ASSUME CacheInit PROVE CacheInv
  OBVIOUS
<1>1. << >> \in Strings /\ Len(<< >>) = 0
  BY EmptySeq DEF Strings
<1>2. CacheTyped
  BY <1>1, CacheSizes DEF CacheInit, CacheTyped, Nothing
<1>3. PlaceInv
  BY DEF CacheInit, PlaceInv
<1>4. FilledInv
  BY <1>1, CacheSizes DEF CacheInit, FilledInv, Cached
<1>5. QED
  BY <1>2, <1>3, <1>4 DEF CacheInv

\* A request: what its prompt shares with the last one is in the cache, if no
\* request has failed.
LEMMA RequestStep ==
    ASSUME FusedStartsCold, CacheInv, NEW p \in Prompt, Request(p)
    PROVE  CacheInv'
<1>1. p \in Strings /\ Len(p) \in 1 .. MaxPrompt /\ p # << >>
  <2>1. PICK n \in 1 .. MaxPrompt : p \in [1 .. n -> Token]
    BY DEF Prompt
  <2>2. n \in Nat /\ p \in Seq(Token) /\ Len(p) = n
    BY <2>1, CacheSizes
  <2>3. QED
    BY <2>1, <2>2, CacheSizes, EmptySeq DEF Strings
<1>2. PICK start \in Nat : start = IF mode.cold THEN 0 ELSE DeltaStart(p)
  BY <1>1, CommonPrefix, LenProperties DEF DeltaStart, CacheInv, CacheTyped, Strings
<1>3. /\ prompt' = p /\ frame' = 0 /\ requests' = requests + 1
      /\ kvLen' = start /\ deltaStart' = start /\ fed' = Prefix(p, start)
      /\ pc' = IF start > 0 THEN "delta" ELSE "full"
      /\ pc = "idle"
      /\ UNCHANGED <<mode, prev, host, kvMax, device, decX, last, troubled>>
  BY <1>2 DEF Request
<1>4. /\ start < Len(p) /\ start <= Len(prev) /\ Len(p) \in Nat /\ Len(prev) \in Nat
      /\ start \in 0 .. Len(p) /\ start \in 0 .. Len(prev)
      /\ Prefix(p, start) = Prefix(prev, start) \/ start = 0
      /\ mode.cold => start = 0
  <2>1. prev \in Seq(Token) /\ Len(prev) \in Nat /\ p \in Seq(Token) /\ Len(p) \in Nat
    BY <1>1, LenProperties DEF CacheInv, CacheTyped, Strings
  <2>2. /\ Common(p, prev) \in 0 .. Len(p) /\ Common(p, prev) \in 0 .. Len(prev)
        /\ Prefix(p, Common(p, prev)) = Prefix(prev, Common(p, prev))
    BY <2>1, CommonPrefix
  <2>3. CASE start = 0
    BY <1>1, <2>1, <2>3
  <2>4. CASE start # 0
    <3>1. ~mode.cold /\ start = Common(p, prev) /\ start # Len(p)
      BY <1>2, <2>4 DEF DeltaStart
    <3>2. QED
      BY <2>1, <2>2, <3>1
  <2>5. QED
    BY <2>3, <2>4
<1>5. fed' \in Strings
  BY <1>1, <1>3, <1>4, PrefixType DEF Strings
<1>6. CacheTyped'
  BY <1>1, <1>3, <1>5, CacheSizes DEF CacheInv, CacheTyped
<1>7. PlaceInv'
  BY <1>1, <1>3, <1>4 DEF PlaceInv
<1>8. ASSUME start > 0, ~troubled
      PROVE  start <= kvMax /\ Cached(host, Prefix(p, start), start)
  <2>1. Len(prev) <= kvMax /\ Cached(host, prev, Len(prev)) /\ kvMax \in Nat
        /\ prev \in Seq(Token)
    BY <1>3, <1>8 DEF CacheInv, FilledInv, CacheTyped, Strings
  <2>2. ASSUME NEW q \in 0 .. start - 1 PROVE host[q] = Prefix(Prefix(p, start), q + 1)
    <3>1. q \in 0 .. Len(prev) - 1 /\ q + 1 \in 0 .. start
      BY <1>4
    <3>2. host[q] = Prefix(prev, q + 1)
      BY <2>1, <3>1 DEF Cached
    <3>3. Prefix(prev, q + 1) = Prefix(Prefix(prev, start), q + 1)
      BY <1>4, <2>1, <3>1, PrefixOfPrefix
    <3>4. QED
      BY <1>4, <1>8, <3>2, <3>3
  <2>3. QED
    BY <1>4, <2>1, <2>2 DEF Cached
<1>9. FilledInv'
  <2>1. CASE start > 0 /\ ~troubled
    BY <1>3, <1>4, <1>8, <2>1 DEF FilledInv, Cached, Tidy
  <2>2. CASE start > 0 /\ troubled
    BY <1>3, <2>2 DEF FilledInv, Tidy
  <2>3. CASE ~(start > 0)
    BY <1>3, <2>3 DEF FilledInv
  <2>4. QED
    BY <2>1, <2>2, <2>3
<1>10. QED
  BY <1>6, <1>7, <1>9 DEF CacheInv

\* Two ways a request fails: nothing is promised after it but types.
LEMMA FailedInv ==
    ASSUME CacheTyped', pc' = "idle", troubled', mode'.cold => deltaStart' = 0
    PROVE  CacheInv'
  BY DEF CacheInv, PlaceInv, FilledInv

LEMMA DeltaStepStep ==
    ASSUME FusedStartsCold, CacheInv, DeltaStep
    PROVE  CacheInv'
<1>1. /\ CacheTyped /\ PlaceInv /\ FilledInv /\ pc = "delta" /\ kvLen < Len(prompt)
      /\ kvLen \in Nat /\ prompt \in Seq(Token) /\ Len(prompt) \in Nat /\ Len(prompt) <= MaxPrompt
      /\ mode \in Modes /\ deltaStart \in Nat
  BY LenProperties DEF CacheInv, CacheTyped, DeltaStep, Strings
<1>2. kvLen \in Position
  BY <1>1, CacheSizes DEF Position
<1>3. deltaStart # 0 /\ ~mode.fused /\ ~OnDevice(FALSE)
  BY <1>1 DEF PlaceInv, FusedStartsCold, OnDevice
<1>4. PICK e : e = prompt[kvLen + 1]
  OBVIOUS
<1>5. /\ e \in Token /\ fed = Prefix(prompt, kvLen) /\ Len(fed) = kvLen
      /\ Append(fed, e) = Prefix(prompt, kvLen + 1)
  <2>1. e \in Token /\ Append(Prefix(prompt, kvLen), e) = Prefix(prompt, kvLen + 1)
    BY <1>1, <1>4, PrefixNext
  <2>2. fed = Prefix(prompt, kvLen) /\ kvLen \in 0 .. Len(prompt)
    BY <1>1 DEF PlaceInv
  <2>3. QED
    BY <1>1, <2>1, <2>2, PrefixType
<1>6. CASE Step(e, FALSE) /\ UNCHANGED <<mode, pc, reqVars, last, troubled>>
           /\ kvLen' = kvLen + 1 /\ fed' = Append(fed, e)
  <2>1. UNCHANGED <<mode, pc, requests, prompt, prev, deltaStart, frame, last, troubled>>
    BY <1>6 DEF reqVars
  <2>2. /\ host' \in [Position -> Strings] /\ device' \in [Position -> Strings]
        /\ decX' \in Strings /\ kvMax' \in Nat \ {0} /\ kvMax <= kvMax'
        /\ \A p \in Position : p < kvLen => host'[p] = host[p]
        /\ host'[kvLen] = Entry(host, e) /\ decX' = Entry(host, e) /\ kvLen + 1 <= kvMax'
    BY <1>1, <1>2, <1>3, <1>5, <1>6, StepWrites
  <2>3. fed' \in Strings
    BY <1>1, <1>5, <1>6, AppendProperties DEF CacheTyped, Strings
  <2>4. CacheTyped'
    BY <1>1, <1>6, <2>1, <2>2, <2>3 DEF CacheTyped
  <2>5. PlaceInv'
    BY <1>1, <1>3, <1>5, <1>6, <2>1 DEF PlaceInv
  <2>6. ASSUME Tidy PROVE Cached(host', fed', kvLen + 1) /\ decX' = fed'
    <3>1. Cached(host, fed, kvLen) /\ host \in [Position -> Strings]
      BY <1>1, <2>6 DEF FilledInv, CacheTyped
    <3>2. QED
      BY <1>1, <1>2, <1>5, <1>6, <2>2, <3>1, StepCaches, EntryRight
  <2>7. FilledInv'
    BY <1>1, <1>6, <2>1, <2>2, <2>6 DEF FilledInv, Tidy, Cached
  <2>8. QED
    BY <2>4, <2>5, <2>7 DEF CacheInv
<1>7. CASE StepFails(FALSE) /\ Abandon /\ troubled' = TRUE
  <2>1. pc' = "idle" /\ UNCHANGED <<mode, requests, prompt, prev, deltaStart, frame, fed, host, kvMax, device, kvLen, decX, last>>
    BY <1>7 DEF Abandon, reqVars
  <2>2. CacheTyped'
    BY <1>1, <1>7, <2>1 DEF CacheTyped
  <2>3. mode'.cold => deltaStart' = 0
    BY <1>1, <2>1 DEF PlaceInv
  <2>4. QED
    BY <1>7, <2>1, <2>2, <2>3, FailedInv
<1>8. QED
  BY <1>4, <1>6, <1>7 DEF DeltaStep

LEMMA FullStep ==
    ASSUME FusedStartsCold, CacheInv, Full
    PROVE  CacheInv'
<1>1. /\ CacheTyped /\ PlaceInv /\ pc = "full"
      /\ prompt \in Seq(Token) /\ Len(prompt) \in Nat /\ Len(prompt) <= MaxPrompt
      /\ prompt # << >> /\ deltaStart = 0 /\ Len(prompt) # 0
  BY LenProperties, EmptySeq DEF CacheInv, CacheTyped, PlaceInv, Full, Strings
<1>2. /\ host' = [p \in Position |->
                    IF p < Len(prompt) THEN Prefix(prompt, p + 1) ELSE Grown(Len(prompt))[p]]
      /\ kvMax' \in Grow(Len(prompt)) /\ kvLen' = Len(prompt) /\ fed' = prompt /\ decX' = prompt
      /\ pc' = "delta"
      /\ UNCHANGED <<mode, requests, prompt, prev, deltaStart, frame, device, last, troubled>>
  BY DEF Full, reqVars
<1>3. kvMax' \in Nat \ {0} /\ Len(prompt) <= kvMax'
  BY <1>1, <1>2, GrowRight
<1>4. /\ \A p \in Position : p < Len(prompt) => p + 1 \in 0 .. Len(prompt)
      /\ \A p \in 0 .. Len(prompt) - 1 : p \in Position /\ p < Len(prompt)
  BY <1>1, CacheSizes DEF Position
<1>5. host' \in [Position -> Strings]
  <2>1. \A p \in Position : p < Len(prompt) => Prefix(prompt, p + 1) \in Strings
    BY <1>1, <1>4, PrefixType DEF Strings
  <2>2. Grown(Len(prompt)) \in [Position -> Strings]
    BY <1>1, GrownRight
  <2>3. QED
    BY <1>2, <2>1, <2>2
<1>6. Cached(host', prompt, Len(prompt))
  BY <1>2, <1>4 DEF Cached
<1>7. CacheTyped'
  BY <1>1, <1>2, <1>3, <1>5 DEF CacheTyped, Strings
<1>8. PlaceInv'
  BY <1>1, <1>2, PrefixWhole DEF PlaceInv
<1>9. FilledInv'
  BY <1>1, <1>2, <1>3, <1>6 DEF FilledInv, Cached
<1>10. QED
  BY <1>7, <1>8, <1>9 DEF CacheInv

LEMMA FullFailsStep ==
    ASSUME FusedStartsCold, CacheInv, FullFails
    PROVE  CacheInv'
<1>1. CacheTyped /\ PlaceInv /\ Len(prompt) \in Nat
  BY LenProperties DEF CacheInv, CacheTyped, Strings
<1>2. /\ pc' = "idle" /\ troubled' = TRUE
      /\ UNCHANGED <<mode, requests, prompt, prev, deltaStart, frame, fed, device, kvLen, decX, last>>
      /\ \/ UNCHANGED <<host, kvMax>>
         \/ host' = Grown(Len(prompt)) /\ kvMax' \in Grow(Len(prompt))
  BY DEF FullFails, reqVars
<1>3. host' \in [Position -> Strings] /\ kvMax' \in Nat \ {0}
  BY <1>1, <1>2, GrowRight, GrownRight DEF CacheTyped
<1>4. CacheTyped'
  BY <1>1, <1>2, <1>3 DEF CacheTyped
<1>5. mode'.cold => deltaStart' = 0
  BY <1>1, <1>2 DEF PlaceInv
<1>6. QED
  BY <1>2, <1>4, <1>5, FailedInv

LEMMA PrefilledStep ==
    ASSUME FusedStartsCold, CacheInv, Prefilled
    PROVE  CacheInv'
<1>1. /\ CacheTyped /\ PlaceInv /\ FilledInv /\ pc = "delta" /\ kvLen = Len(prompt)
      /\ prompt \in Seq(Token) /\ Len(prompt) \in Nat /\ Len(prompt) <= MaxPrompt
      /\ deltaStart < kvLen /\ fed = prompt /\ frame = 0
  <2>1. /\ CacheTyped /\ PlaceInv /\ FilledInv /\ pc = "delta" /\ kvLen = Len(prompt)
        /\ prompt \in Seq(Token) /\ Len(prompt) <= MaxPrompt
    BY DEF CacheInv, CacheTyped, Prefilled, Strings
  <2>2. fed = prompt /\ deltaStart < kvLen /\ frame = 0
    BY <2>1, PrefixWhole DEF PlaceInv
  <2>3. QED
    BY <2>1, <2>2, LenProperties
<1>2. /\ device' = [p \in Position |-> IF mode.fused /\ p < kvLen THEN host[p] ELSE device[p]]
      /\ prev' = prompt /\ last' = decX /\ pc' = "gen"
      /\ UNCHANGED <<mode, requests, prompt, deltaStart, frame, fed, host, kvMax, kvLen, decX, troubled>>
  BY DEF Prefilled
<1>3. CacheTyped'
  BY <1>1, <1>2 DEF CacheTyped
<1>4. PlaceInv'
  BY <1>1, <1>2, PrefixWhole, CacheSizes DEF PlaceInv
<1>5. \A p \in 0 .. kvLen - 1 : p \in Position /\ p < kvLen
  BY <1>1, CacheSizes DEF Position
<1>6. ASSUME Tidy
      PROVE  /\ last' = fed /\ Len(prompt) <= kvMax
             /\ Cached(host, prompt, Len(prompt)) /\ Cached(host, fed, kvLen)
             /\ mode.fused => Cached(device', fed, kvLen)
  <2>1. kvLen <= kvMax /\ Cached(host, fed, kvLen) /\ decX = fed
    BY <1>1, <1>6 DEF FilledInv
  <2>2. mode.fused => \A p \in 0 .. kvLen - 1 : device'[p] = host[p]
    BY <1>2, <1>5
  <2>3. QED
    BY <1>1, <1>2, <2>1, <2>2 DEF Cached
<1>7. FilledInv'
  BY <1>1, <1>2, <1>6 DEF FilledInv, Tidy, Cached
<1>8. QED
  BY <1>3, <1>4, <1>7 DEF CacheInv

\* The frame that is generated goes behind the sequence, in the cache that
\* this generation reads.
LEMMA GenerateStep ==
    ASSUME FusedStartsCold, CacheInv, Generate
    PROVE  CacheInv'
<1>1. /\ CacheTyped /\ PlaceInv /\ FilledInv /\ pc = "gen" /\ frame < MaxGen
      /\ prompt \in Seq(Token) /\ fed \in Seq(Token) /\ Len(prompt) <= MaxPrompt
      /\ kvLen = Len(prompt) + frame /\ Len(fed) = kvLen /\ mode \in Modes
      /\ Prefix(fed, Len(prompt)) = prompt
  BY DEF CacheInv, CacheTyped, PlaceInv, Generate, Strings
<1>2. /\ Len(prompt) \in Nat /\ frame \in Nat /\ kvLen \in Nat /\ Len(prompt) <= kvLen
      /\ kvLen \in Position
  <2>1. Len(prompt) \in Nat /\ frame \in Nat
    BY <1>1, LenProperties DEF CacheTyped
  <2>2. QED
    BY <1>1, <2>1, CacheSizes DEF Position
<1>3. Steered \in BOOLEAN /\ OnDevice(Steered) = mode.fused /\ mode.fused \in BOOLEAN
  <2>1. mode.fused \in BOOLEAN /\ (mode.fused => mode.steer = 0)
    BY <1>1, CacheSizes DEF FusedStartsCold
  <2>2. Steered \in BOOLEAN /\ (mode.fused => ~Steered)
    BY <1>2, <2>1 DEF Steered
  <2>3. QED
    BY <2>1, <2>2 DEF OnDevice
<1>4. PICK e \in Token : /\ Step(e, Steered) /\ kvLen' = kvLen + 1 /\ fed' = Append(fed, e)
                         /\ last' = Entry(IF OnDevice(Steered) THEN device ELSE host, e)
  BY DEF Generate
<1>5. frame' = frame + 1 /\ UNCHANGED <<mode, pc, requests, prompt, prev, deltaStart, troubled>>
  BY DEF Generate
<1>6. /\ host' \in [Position -> Strings] /\ device' \in [Position -> Strings]
      /\ decX' \in Strings /\ kvMax' \in Nat \ {0} /\ kvMax <= kvMax'
      /\ \A p \in Position : p < kvLen => host'[p] = host[p] /\ device'[p] = device[p]
      /\ mode.fused => device'[kvLen] = Entry(device, e) /\ host' = host
      /\ ~mode.fused => host'[kvLen] = Entry(host, e)
  BY <1>1, <1>2, <1>3, <1>4, StepWrites
<1>7. host \in [Position -> Strings] /\ device \in [Position -> Strings]
      /\ last' = IF mode.fused THEN Entry(device, e) ELSE Entry(host, e)
  BY <1>1, <1>3, <1>4 DEF CacheTyped
<1>8. last' \in Strings
  BY <1>1, <1>2, <1>7, EntryRight
<1>9. /\ fed' \in Seq(Token) /\ Len(fed') = kvLen + 1
      /\ Prefix(fed', Len(prompt)) = prompt
  BY <1>1, <1>2, <1>4, PrefixOfAppend
<1>10. CacheTyped'
  <2>1. kvLen' \in Nat /\ frame' \in Nat
    BY <1>1, <1>2, <1>4, <1>5 DEF CacheTyped
  <2>2. fed' \in Strings
    BY <1>9 DEF Strings
  <2>3. QED
    BY <1>1, <1>5, <1>6, <1>8, <2>1, <2>2 DEF CacheTyped
<1>11. PlaceInv'
  BY <1>1, <1>2, <1>4, <1>5, <1>9, CacheSizes DEF PlaceInv
<1>12. ASSUME Tidy
       PROVE  /\ last' = fed' /\ Len(prompt) <= kvMax' /\ Cached(host', prompt, Len(prompt))
              /\ mode.fused => Cached(device', fed', kvLen + 1)
              /\ ~mode.fused => Cached(host', fed', kvLen + 1)
  <2>1. /\ Len(prompt) <= kvMax /\ Cached(host, prompt, Len(prompt))
        /\ mode.fused => Cached(device, fed, kvLen)
        /\ ~mode.fused => Cached(host, fed, kvLen)
    BY <1>1, <1>12 DEF FilledInv
  <2>2. last' = fed'
    BY <1>1, <1>2, <1>4, <1>7, <2>1, EntryRight
  <2>3. Len(prompt) <= kvMax'
    BY <1>1, <1>2, <1>6, <2>1 DEF CacheTyped
  <2>4. Cached(host', prompt, Len(prompt))
    <3>1. \A p \in 0 .. Len(prompt) - 1 : p \in Position /\ p < kvLen
      BY <1>1, <1>2, CacheSizes DEF Position
    <3>2. QED
      BY <1>6, <2>1, <3>1 DEF Cached
  <2>5. CASE mode.fused
    <3>1. Cached(device', fed', kvLen + 1)
      BY <1>1, <1>2, <1>4, <1>6, <1>7, <2>1, <2>5, StepCaches
    <3>2. QED
      BY <2>2, <2>3, <2>4, <2>5, <3>1
  <2>6. CASE ~mode.fused
    <3>1. Cached(host', fed', kvLen + 1)
      BY <1>1, <1>2, <1>4, <1>6, <1>7, <2>1, <2>6, StepCaches
    <3>2. QED
      BY <2>2, <2>3, <2>4, <2>6, <3>1
  <2>7. QED
    BY <2>5, <2>6
<1>13. FilledInv'
  BY <1>1, <1>4, <1>5, <1>12 DEF FilledInv, Tidy, Cached
<1>14. QED
  BY <1>10, <1>11, <1>13 DEF CacheInv

\* What the next request may take for its prefix is there when one ends.
LEMMA EndStep ==
    ASSUME FusedStartsCold, CacheInv, End
    PROVE  CacheInv'
<1>1. /\ CacheTyped /\ PlaceInv /\ FilledInv /\ pc = "gen" /\ prev = prompt
  BY DEF CacheInv, PlaceInv, End
<1>2. /\ pc' = "idle"
      /\ UNCHANGED <<mode, requests, prompt, prev, deltaStart, frame, fed, host, kvMax, device, kvLen,
                     decX, last, troubled>>
  BY DEF End, Abandon, reqVars
<1>3. CacheTyped'
  BY <1>1, <1>2 DEF CacheTyped
<1>4. PlaceInv'
  BY <1>1, <1>2 DEF PlaceInv
<1>5. FilledInv'
  BY <1>1, <1>2 DEF FilledInv, Tidy, Cached
<1>6. QED
  BY <1>3, <1>4, <1>5 DEF CacheInv

LEMMA CacheStep == FusedStartsCold /\ CacheInv /\ [CacheNext]_cacheVars => CacheInv'
<1> SUFFICES ASSUME FusedStartsCold, CacheInv, [CacheNext]_cacheVars PROVE CacheInv'
  OBVIOUS
<1>1. CASE UNCHANGED cacheVars
  BY <1>1 DEF cacheVars, reqVars, CacheInv, CacheTyped, PlaceInv, FilledInv, Tidy, Cached
<1>2. CASE CacheNext
  BY <1>2, RequestStep, DeltaStepStep, FullStep, FullFailsStep, PrefilledStep, GenerateStep, EndStep
     DEF CacheNext
<1>3. QED
  BY <1>1, <1>2

\* What the caches hold of the sequence that is generated, and of the last
\* prompt between requests.
THEOREM CacheInvariance == ASSUME FusedStartsCold PROVE CacheSpec => []CacheInv
<1>1. CacheInit => CacheInv
  BY CacheInitInv
<1>2. CacheInv /\ [CacheNext]_cacheVars => CacheInv'
  BY CacheStep
<1>3. QED
  BY <1>1, <1>2, PTL DEF CacheSpec

\* A request reads and goes on from its own sequence alone, as one that starts
\* cold would, and leaves behind what the next may take for its prefix.
THEOREM DeltaIsCold == ASSUME FusedStartsCold PROVE CacheSpec => []CacheRight
<1>1. CacheInv => CacheRight
  <2> SUFFICES ASSUME CacheInv PROVE Coherent /\ Seeded /\ PrefixKept
    BY DEF CacheRight
  <2>1. CacheTyped /\ PlaceInv /\ FilledInv /\ mode \in Modes
    BY DEF CacheInv, CacheTyped
  <2>2. Seeded
    BY <2>1 DEF Seeded, PlaceInv, FilledInv, Tidy
  <2>3. PrefixKept
    BY <2>1 DEF PrefixKept, FilledInv, Cached
  <2>4. ASSUME Tidy PROVE ReadsOwn
    <3>1. mode.fused \in BOOLEAN /\ (mode.fused => mode.steer = 0) /\ frame \in Nat
      BY <2>1, CacheSizes DEF FusedStartsCold, CacheTyped
    <3>2. CASE pc = "delta" /\ kvLen < Len(prompt)
      <4>1. Cached(host, fed, kvLen)
        BY <2>1, <2>4, <3>2 DEF FilledInv
      <4>2. ~mode.fused
        <5>1. deltaStart # 0
          BY <2>1, <3>2 DEF PlaceInv, CacheTyped
        <5>2. QED
          BY <2>1, <5>1 DEF PlaceInv, FusedStartsCold
      <4>3. QED
        BY <3>2, <4>1, <4>2 DEF ReadsOwn, OnDevice, Cached
    <3>3. CASE pc = "gen"
      <4>1. (mode.fused => Cached(device, fed, kvLen)) /\ (~mode.fused => Cached(host, fed, kvLen))
        BY <2>1, <2>4, <3>3 DEF FilledInv
      <4>2. mode.fused => ~Steered
        BY <3>1 DEF Steered
      <4>3. QED
        BY <3>1, <3>3, <4>1, <4>2 DEF ReadsOwn, OnDevice, Cached
    <3>4. QED
      BY <3>2, <3>3 DEF ReadsOwn
  <2>5. QED
    BY <2>2, <2>3, <2>4 DEF Coherent, Tidy
<1>2. QED
  BY <1>1, CacheInvariance, PTL
=============================================================================
