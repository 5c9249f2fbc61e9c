----------------------------- MODULE Safetensors -----------------------------
(****************************************************************************)
(* Opening a model directory (qwen_tts_safetensors.c): one file or sorted   *)
(* shards, their tensors, and where the data of a tensor is.  A file is     *)
(*   there      whether it can be opened and mapped                         *)
(*   header     whether its JSON header parses                              *)
(*   entries    [name, start, end] in the order of the header               *)
(*   section    bytes of its data section                                   *)
(* Sizes and offsets are size_t: modulo SizeMod.                            *)
(****************************************************************************)
EXTENDS Integers, Sequences, FiniteSets, SequencesExt

CONSTANTS
  SizeTMod,       \* 2^64
  MaxTensors,     \* SAFETENSORS_MAX_TENSORS
  MaxShards       \* SAFETENSORS_MAX_SHARDS

Metadata == "__metadata__"
Failed == [ok |-> FALSE, tensors |-> <<>>, section |-> 0]

\* data_offsets; the end may be before the start.
TensorEntry(e) ==
  [name |-> e.name, offset |-> e.start % SizeTMod, size |-> (e.end - e.start) % SizeTMod]

\* What does not fit the table is not there.
ParseHeader(entries) ==
  LET named == SelectSeq(entries, LAMBDA e : e.name # Metadata)
  IN [i \in 1..Min({Len(named), MaxTensors}) |-> TensorEntry(named[i])]

\* Mutant: the sum, which overflows.
InBoundsSum(t, section) == (t.offset + t.size) % SizeTMod <= section

InBounds(t, section) == t.offset <= section /\ t.size <= section - t.offset

Open(file) ==
  LET tensors == ParseHeader(file.entries)
  IN IF file.there /\ file.header /\ \A i \in DOMAIN tensors : InBounds(tensors[i], file.section)
     THEN [ok |-> TRUE, tensors |-> tensors, section |-> file.section]
     ELSE Failed

\* The directory: model.safetensors, and the shards by name in the order the
\* directory lists them; those beyond MaxShards are not seen.
MultiOpen(single, shards) ==
  LET seen == SubSeq(shards, 1, Min({Len(shards), MaxShards}))
      sorted == SortSeq(seen, LAMBDA a, b : a.number < b.number)
      opened == [i \in DOMAIN sorted |-> Open(sorted[i].file)]
  IN IF Open(single).ok THEN <<Open(single)>>
     ELSE IF \E i \in DOMAIN opened : ~opened[i].ok THEN <<>>
     ELSE opened

\* The first of that name: the shard and its place there, or none.
MultiFind(ms, name) ==
  LET hits == {<<s, i>> \in (DOMAIN ms) \X (1..MaxTensors) :
                 i \in DOMAIN ms[s].tensors /\ ms[s].tensors[i].name = name}
  IN IF hits = {} THEN <<>>
     ELSE CHOOSE x \in hits : \A y \in hits : x[1] < y[1] \/ (x[1] = y[1] /\ x[2] <= y[2])

-----------------------------------------------------------------------------
\* Every tensor of an opened model is found, under its name and the first of
\* it by shard number, and its data lies within its file's data section.
TensorsRight(single, shards) ==
  LET ms == MultiOpen(single, shards)
      names(f) == {f.entries[i].name : i \in DOMAIN f.entries} \ {Metadata}
      used == IF Open(single).ok THEN {[number |-> 0, file |-> single]} ELSE Range(shards)
  IN ms # <<>> /\ Len(shards) <= MaxShards =>
       \A s \in used : \A name \in names(s.file) :
         Len(s.file.entries) <= MaxTensors =>
           LET at == MultiFind(ms, name)
               t == ms[at[1]].tensors[at[2]]
               first == CHOOSE x \in used : name \in names(x.file) /\
                          \A y \in used : name \in names(y.file) => x.number <= y.number
               e == SelectInSeq(first.file.entries, LAMBDA x : x.name = name)
               entry == first.file.entries[e]
           IN /\ at # <<>>
              /\ entry.start <= entry.end => t.offset = entry.start /\ t.offset + t.size = entry.end
              /\ t.offset + t.size <= ms[at[1]].section
=============================================================================
