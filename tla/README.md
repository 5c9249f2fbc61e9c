# A TLA+ model of qwen3-tts

qwen3-tts is a text-to-speech engine in C: a tokenizer and an embedding table
turn a text into a prompt, a transformer (the *Talker*) and a smaller one (the
*code predictor*) generate codec frames, a causal convolutional *speech decoder*
turns the frames into audio, and an HTTP server hands it out. Most of its lines
are arithmetic; most of what can go wrong and is hard to test is around it:
threads that hand work to each other, caches that outlive a request, state that
one request leaves to the next, and the bookkeeping that makes a chunked
computation equal to a whole one. That is what these modules are about.

Run a check with `tlc -config X.cfg M` and the proofs with `tlapm M.tla`.
`PROJECT.json` lists the runs, the source lines each definition stands for, the
hazards the properties are aimed at, a mutant for each property that TLC must
catch, and the disagreements between the code and its own comments that were
met on the way.

## 1. The system

| component | sources | state | operations | modelled in |
|---|---|---|---|---|
| Thread pool | `qwen_tts_thread.c` | one global job slot `P`: generation, next, completed, sleeping, stop; the threads | start, resize, stop, `qwen_parallel`; workers claim chunks, spin, park, check in | `ThreadPool`, `ParallelFor` |
| Streaming decoder | `qwen_tts_speech_decoder.c` | `qwen_sd_stream_state_t`: KV, latent, pre-conv pads, conv tails, `cs_warm` | decode a chunk: append, attend, compact, convolve; free | `SDStream` |
| Generation pipeline | `qwen_tts.c` | `dt_*`: queue of codes, `done`, `aborted`, output buffer | push, pop a chunk, decode, call back, finish, abort, join | `DecoderThread` |
| Talker cache | `qwen_tts_talker.c`, `qwen_tts.c` | KV cache (host, device), `kv_len`, `kv_max`, `prev_input_embeds`, `dec_x` | delta start, prefill, step, grow, upload | `TalkerCache` |
| Embedding cache | `qwen_tts.c` | 2048-slot hash table with access stamps | lookup, insert, evict | `EmbCache`, `LruCache` |
| Worker server | `qwen_tts_server.c` | `conn_queue_t`, `server_running`, `g_synth_lock` | accept, push, pop, serve, signal, shut down | `WorkerPool`, `BoundedQueue` |
| Request settings | `qwen_tts_server.c`, `qwen_tts_emotion.c`, `qwen_tts_compose.c` | the settings of one context: voice, sampling, instruction, steering, callback | reset, parse, stream set-up, spans, restore | `RequestState` |
| Worker contexts | `qwen_tts.c` | which context owns which buffer | clone, replace in place, free, unload | `WorkerContext` |
| Batching driver | `qwen_tts.c` | slots, ready queue, per-slot KV share | admit, helper prefill, frame, finalize, drain | `BatchDriver` |
| Batch server | `qwen_tts_server.c` | two job queues, connection queue, reader pool | accept, read, schedule, serve single jobs, shut down | `BatchServer` |
| Talker and code predictor forward | `qwen_tts_talker.c`, `qwen_tts_code_predictor.c` | layer buffers, positions, KV caches of a context, a batch and a device, the code predictor's own small one | prefill, step, batched step, fused step, snapshot, copy, upload | `Transformer`, `Talker`, `CodePredictor`, `Forward` |
| Batch generators | `qwen_tts.c`, `main.c` | groups of at most `GMAX` texts; the thread's random numbers and each slot's | split a long text, prefill a group, frames, decode, join the audio | `BatchGenerate`, `TextSplit` |
| Sampling | `qwen_tts_sampling.c`, `qwen_tts.c` | logits and indices of one call | mask, clip, boost of the end, penalty, top-k, top-p, draw | `Sampling` |
| Tokenizer | `qwen_tts_tokenizer.c` | two hash tables (vocabulary, merge ranks), `id_to_token` | load, cut, merge, encode, decode | `Tokenizer`, `Vocabulary` |
| Safetensors | `qwen_tts_safetensors.c` | mapped files, tensor tables | open one file or sorted shards, find, bounds | `Safetensors` |
| Audio files | `qwen_tts_audio.c`, `qwen_tts_voice_clone.c`, `main.c` | a header patched after the samples | write, stream, read, trim, stretch, find a broken tail, choose a take | `AudioFile` |
| Voice files | `main.c`, `qwen_tts_voice_clone.c` | `.qvoice` sections, weights of the context and their copies | extract, load, save, override weights, `.expr` files, emotion | `VoiceFile` |
| GPU backends | `*_metal.m`, `*_cuda*.cu`, `qwen_tts_backend.c` | device copies | upload, fused steps, device-frame code predictor | the fused steps in `Talker` and `CodePredictor`; the host's side in `TalkerCache` |
| Command line | `main.c` | options, the order of load, voice, emotion, generation | one-shot, chunked long text, seed audition | `VoiceFile`, `TextSplit`, `AudioFile` |
| Decoder's own pool | `qwen_tts_kernels.c` | `sdp_*`: generation, pending helpers, the posted job; each job's counter | `sd_pool_run`, helpers that claim panels or channels | `DecoderPool`, `ParallelFor` |
| Kernels | `qwen_tts_kernels*.c` | none | matvec, attention, norm, convolution | how work is cut into threads, vectors and tiles, and integer dot products: `Kernels`; what they read and write is symbolic in `Transformer`; the rest is arithmetic |
| lz4, tools, tests, training | `vendor/` and others | | | not part of the program's own logic |

How they meet:

- *Shared state.* Every kernel call goes through the pool's one job slot; on a
  build with `submit_mtx` several threads may submit. The speech decoder has a pool
  of its own with one job slot, for one caller at a time. A worker context shares
  weights with its base and owns everything generation changes.
- *Queues.* Acceptor → `conn_queue_t` → workers (or readers) → job queues →
  scheduler/helper → ready queue → slots. Generator → `dt` queue → decoder thread.
- *Callbacks.* The decoder thread calls `audio_cb`, which writes to the client
  and whose result aborts the generation. The driver answers through
  `sink->on_chunk` and `sink->on_done`, which close the client's connection.
- *Across requests.* One context serves request after request: Talker cache,
  embedding cache, settings.
- *Across processes.* A `.qvoice` file is saved by a process with one model and
  loaded by others, of other models and with other precisions; it may be saved again.

What is hard: a worker that parks while a job is being published; a job that
lives on the submitter's stack; a shutdown that meets connections in every
stage; a generator that leaves early while the decoder thread works on its
locals; caches kept across requests and reused by comparison; compaction of the
decoder's caches at chunk sizes that do not divide the window; an allocation
failing half way through a chunk; slots at the end of their memory; copies
derived from weights that a voice then replaces; deltas taken from a tensor that
another section has replaced first; random numbers shared by texts that are
generated together; seams where text is cut by the classes of its bytes. The
list, with lines, is under `hazards` in `PROJECT.json`.

What makes each component correct is what its properties say (section 3).

## 2. Modules and the code

Conventions. Program counters (`pc`, `apc`, `wpc`, ...) name the place in the C
function where a thread may be interrupted. What a thread does under a mutex is
one step, because nobody else can see the middle of it; so is a run of
statements on state nobody else touches. A condition wait is a place of its
own, with the mutex released, entered only from inside the critical section.
Wherever the code reads an atomic outside a lock the read is a step of its own.
Memory is sequentially consistent (the atomics of the pool use acquire/release
on `generation` and `completed`, and sequential consistency where `sleeping`
matters). A spin loop is stuttering.

### ThreadPool, ParallelFor
Every atomic access of `worker_main`, `qwen_parallel`, `qwen_threadpool_start`
and `_stop` is an action. The job, a local of `qwen_parallel`, is modelled with
its lifetime, so that a late worker touching a dead frame is a state.
`EarlyDispatch` says whether a job may be posted before a freshly created
worker has read the generation for the first time; it may, and then the call
does not return: with TRUE, TLC refutes `CallsReturn` (finding). The `pools` run and the
proofs of safety do not depend on it except where they say so: the run sets it
to FALSE, the proofs hold for both values. `ParallelFor` is what
`qwen_tts_thread.h` promises, and `ThreadPool` implements it.

### DecoderPool
`sd_pool_run` and its helpers. Unlike the first pool it is all one mutex and two
conditions: every helper takes every job, claims pieces from the job's counter and
checks in, and the caller waits for all. `Up` is the helpers `pthread_create` got, any
number. Jobs of one piece are posted as well, of none not. `Together` says whether two
threads may decode at once. A one-shot generation, and the worker server with
`g_synth_lock`, decode in one thread at a time, and then the pool implements
`ParallelFor`. The batch server on the POSIX pool does not keep to that: the scheduler
decodes while the single-job worker does, and with `Together = TRUE` TLC refutes
`DecoderJobAlive` (finding; `CallsReturn` and `DecoderImplementsParallelFor` fail too).

### SDStream
A computed number is abstracted to the frame it belongs to. A column of a
cache is that frame's number if everything it was computed from was right, and
`Wrong` otherwise; `Zero` is causal padding. The chunk decode is then index
arithmetic over the caches, as in the code: append, attend over a window,
compact when more than needed is kept, slide each tail. Reference: the same
network applied to the whole stream. The windowed decode is held to that as well. The source
calls it approximate at the seams, but it decodes 20 frames again, and its convolutions reach
back 9.4 latent frames: 3 and 1.5 for the two ConvNeXt blocks, 1.5 for the first convolution
of the decoder, and 3.4 for its four blocks with the last convolution. What zero padding spoils is dropped, and the rest is
one decode up to rounding (finding).

### DecoderThread
Main thread and decoder thread of `qwen_tts_generate`, with `dt->mutex`, the
`done` and `aborted` flags, overlap on and off, file and stream mode, failures
of a Talker step and of a decode. Frames are numbers; audio is a sequence of
them.

### TalkerCache
An entry of the cache is the sequence of embeddings it was computed from,
because that is what causal attention makes it depend on. Covers
`qwen_tts_generate`'s comparison with `prev_input_embeds`, `kv_cache_grow`, the
choice between host and fused step, steering per frame, and failures.

### EmbCache, LruCache
The hash table slot by slot, with a clock of bounded width so that its wrap is
a state that is reached. `LruCache` is what the comment at the table says.

### WorkerPool, BoundedQueue
The connection queue with its mutex and two conditions, the acceptor, the
workers, `g_synth_lock`, the signal handler. A request is of a kind (synthesis
or not); its bytes are not modelled. Clients send their request or go away,
in the end. `WorkerPool` implements `BoundedQueue`.

### RequestState
The fields of `qwen_tts_ctx_t` that a request can set and that `reset_request_state`,
`parse_tts_request`, the two handlers, the steering functions and the span
loop touch. The properties compare what a request runs with to what its body
and the server's start say.

### WorkerContext
Ownership: a buffer is a name, a context a record of pointers. Cloning copies
pointers and replaces some; frees and lazy allocations are as in the code.

### BatchDriver, BatchServer
`BatchDriver` is `qwen_tts_serve_continuous` with its helper thread and an open
environment; `BatchServer` extends it with the acceptor, reader pool, job
queues and single-job worker of `qwen_tts_serve_batched`. In both, waiting on a
queue is a guard: `WorkerPool` has shown that a monitor of this form implements
that. The driver's frame loop is one action per frame, because all slots are
stepped by one thread and nothing else can see inside; admission, the helper,
pushes to clients and finalization are actions of their own.

### Transformer, Talker, CodePredictor, Forward
A value is symbolic: which point of which layer it is at, and which embeddings
it was computed from. A kernel (`Apply`, `Add`, `Rope`, `Attend`) given anything
but its argument gives `Wrong`, and what is wrong stays wrong. A layer is a
program, a sequence of kernels with the buffers they read and write, in the
order of the code; there is one for each of the code's: `HostLayer`,
`PrefillLayer`, `CudaLayer`, `MetalLayer`, `MetalBatchLayer`, `CpLayer`,
`BatchCpLayer`, `DeviceCpLayer`, `FrameCpLayer`. A cache is a flat array and a
position's address is computed with the strides of the code, which differ
between a context (layer, position), a batch (slot, layer, position) and a
batch on a device (layer, slot, position); `Grow`, `Snapshot`, `FillSlot`,
`UploadSlot` and `UploadKv` copy between them. Memory is reused as it was left.

`Forward` is the generation loop over these passes, for one sequence
(`qwen_tts_generate`) and for slots (`qwen_tts_serve_continuous`): prefill,
helper or inline admission, then per frame the codes of the code predictor and a
step of the Talker, all rows of a batch at once, also those without a sequence.
What runs where (`Modes`) is what `main.c` can set up. The reference is
`Hidden` and `Codes`: what the definition of a causal transformer makes of the
sequence a slot was fed. Slots are filled in any order, which includes the
code's. With a device in batch mode each prefill also seeds the device's cache for a
single sequence, which no slot reads; it is left out. The single-job worker of the batch
server does read it: that worker generates on a context of its own, but over the same
device state, while the scheduler prefills (finding). It is not part of `Forward`, whose
modes are one sequence or a batch. `BatchDriver` has the
protocol of the same loop, `TalkerCache` delta prefill and steering.

### Tokenizer, Vocabulary
A text is a sequence of bytes, a piece a sequence of code points, and a string of
`vocab.json` a sequence of units: a character, a short escape or `\uXXXX`.
`Vocabulary` has the two open-addressing tables, built entry by entry with probing,
and the reading of both files, `\r`, comments and surrogate pairs included; the
hash is a constant (`HashOf`). `Tokenizer` has the cut into chunks, byte by byte
as in `pre_tokenize`, the mapping of bytes to GPT-2's characters, the
merges, and both encoders, the one that looks for `[tags]` too. References: a text
is decoded from its ids again, and the merges are those of the textbook, which
replaces all occurrences of the best pair at once.

### TextSplit
What `main.c` does to a long text for `--batch`: sentences that end outside
quotes, numbers and abbreviations, packed into chunks of about as many words as
asked for, a short last one joined to the one before.

### Sampling
What the generators do to the logits of a frame (special tokens masked, the end
suppressed at first and boosted later) and `qwen_sample`: penalty, greedy choice,
the threshold of top-k by partial selection, the nucleus of top-p,
the draw. Logits are integers, doubled, so that the boost of half a unit a frame is
one. Probabilities are integer weights out of their sum: normalizing leaves them
as they are, and no rounding is modelled.

### BatchGenerate
The two generators that take all their texts at once. The thread's random number
generator is a seed and a count of draws, and a code is the draw it came from:
that says at once whose random numbers a text has used and in which order. The
chunks of one text share the thread's, requests have one each.

### AudioFile, Safetensors
Both are about lengths. A WAV file is a sequence of chunks with the size each
claims and the bytes it holds, the streamed header patched at the end; a clip is
a number of samples, of which the trimming, the stretch and its buffer are
functions. The end of a take is a sequence of frames (quiet, loud, noise), a take of the audition
its length and its share of glitches. A safetensors file is its table of names, starts
and ends, with `size_t` arithmetic modulo `SizeTMod`.

### VoiceFile
The voice block of `main.c` as a process that is started again and again: load a
model, take a voice (from audio, from a `.bin`, from a `.qvoice`, or none), save it
or not, apply emotion and `.expr`, generate. A tensor is one value of a small word
whose addition wraps, like the bit deltas of the files; the names stand for the
tensors the code treats alike. A file is a header and sections (META, TPAD, WOVR,
WDLT or WFULL), read in the order of the code, which loses its place
when it meets a section it did not expect. What is derived from weights is kept
apart from them: fused rows, quantized copies, copies on a GPU,
the embeddings of the tts tokens. So whether each is made again after a load, and
in the right order, is a question of states. Whether a record is a delta is decided
tensor by tensor, as in `write_tensor_impl`: `Resized` are the tensors whose length
follows the hidden size of the model, the others are as long in a target of any size.

### Kernels
What a kernel writes is the sequence of rows, columns or cells it touches, computed by the
loops of the code: rows over threads, the joint rows of Q, K and V over three matrices,
vectors with tails, panels, blocks and tiles of the int8 convolution. Each is to be
touched once. Beside that the dot products over integers that shift their operands:
unsigned activations of VNNI with a signed tail, packed four-bit weights with a
correction of each block. The floats around them (scales, sums in another order) are
not modelled.

### MCPools, MCContexts
The two pools have no state in common, and neither have the two views of contexts, so
one run checks two models: a behaviour is one of either. A step is fair if it is in the
one that runs. `MaxPieces` and `MaxJobs` bound the decoder's pool, `MaxServed` the requests of
the settings; the other constants name what a request can ask for.

### Sequential, MCSequential
These parts run one after the other and share nothing with each other, so one run
checks them all: a behaviour picks a `part` and, for a pure algorithm, grows its
input piece by piece, and the promise of the part is an invariant of every input.
Part `cache` takes `EmbCache`'s steps (`Next`), part `voice` those of `VoiceFile` (`VoiceNext`).
`Sequential` is this specification with the parts that theorems are about, and takes the
pieces of the inputs as a constant; `MCSequential` adds the other parts and the pieces.

## 3. Runs

| run | what it asks | bounds |
|---|---|---|
| `pools` | both pools: the job a worker uses is alive; calls return; the pool implements `ParallelFor`; the first one: nobody sleeps through a job or a check-in, stop joins | 2 workers, 2 submitters, 2 chunks, 2 calls, 2 resizes; 2 helpers, 2 callers that take turns, 2 jobs of up to 2 pieces |
| `decoder_pool_batch` (violation) | `DecoderJobAlive` with two threads that decode at once | 2 helpers, 3 jobs |
| `sd_stream` | the caches hold the columns the next chunk reads; memory stays bounded; any chunking gives the audio of one decode; a failed chunk damages no more than the receptive field | window 4, receptive field 6, tails 2 and 3, chunks up to 5 of 12 frames, 1 failure |
| `decoder_thread` | no use of the generator's locals after its return; audio in order and complete; nothing sent after an abort; the call returns | 5 frames, 2 requests, file with and without overlap, stream |
| `worker_pool` | one owner per connection; each accepted connection is served; the server stops once it notices; the queue implements `BoundedQueue` | 2 workers, 3 connections, room for 1, 1 signal |
| `batch_driver` | frames fit a slot's buffers; a reply is chunks and one end; each job is accounted for and answered; the driver stops | 3 jobs, 1 of them a stream, 2 slots, at most 3 frames, with and without helper |
| `batch_server` | one owner per connection over all five kinds of thread; nothing left behind after stop; it stops | 2 jobs, 2 readers, room for 1 |
| `talker_cache` | a read entry is the one a cold run would have written; the first frame comes from the last position of this prompt; a kept prefix stays | 2 embeddings, prompts up to 3, 2 frames, 3 requests |
| `sequential` | a lookup returns what it was asked for and the table is an LRU cache; ids decode to the text and merges are the textbook's; the hash tables are the files; cutting a long text loses nothing; sampling stays in the nucleus; batched requests are as if alone; audio keeps its samples; a take that is not broken wins; tensors are where headers say; every row and cell is computed once; dot products of integers are exact; a saved voice comes back; no copy of a weight is stale; an `.expr` file is exact | 5 tokens, 4 slots, 7 lookups, clock of 16; texts of 4 pieces, 3 merge rules and words up to 5, 4 entries of a vocabulary or lines of merges, prose of 5 pieces, 4 weights or logits, 3 batched texts in groups of 2 of up to 2 frames, 4 chunks of a file, lengths up to 40, tails of 9 frames, 4 takes, 2 shards of 2 tensors, up to 40 rows over 7 threads, 9 by 40 cells in panels of 8 and blocks of 4, dot products of 6; 3 models, 2 processes, 3 precisions, words of 8 values |
| `contexts` | no freed buffer is used or freed again; two contexts own nothing in common; nothing is lost. A request runs with its own settings and the server's; no callback outlives its handler | a base and 2 clones, 2 requests each; 2 voices, 2 languages, 3 requests on one context |
| `worker_context_steer` (violation) | `NoDangling` with steering given at the start | |
| `forward` | a sequence is generated from its own embeddings, alone or in a batch, on the host or fused; its cache is where its steps look; its codes are its own | 2 Talker and 2 code predictor layers, 2 codes after the first, 2 slots, prompts up to 6, 2 frames, 3 requests, 8 ways to run |

Why these are enough. The protocols treat threads, connections and jobs alike,
so two of a kind and one more thing than there is room for reach every
interaction: a full and an empty queue, a slot reused, a third party waiting.
`sd_stream` has a window that chunks neither divide nor cover, chunks larger
than the window and smaller than a tail, and streams long enough for several
compactions. Part `cache` of `sequential` fills its table and evicts three times, with a hash
that collides. `talker_cache` has growth in the prompt and in the generation.
`forward` has a cache that grows in the prefill and one that grows between two
frames, prompts a batch refuses, a slot filled again after a shorter and a
longer sequence, rows without one, and, with two layers, every stride; two
code predictor passes after the first two reach every table and head relation.
The real code predictor predicts 15 codes from one sampled one; here 2, and all
slots sample the same first code (`First`), which their prompts tell apart. On a
device a single sequence stays within `DeviceKv` (beyond it: finding).
In `sequential` an input is long enough for every branch of its algorithm to
meet its neighbours: characters of two and three bytes beside every class of
byte, rules that use the product of a rule that uses a product, a table of entries that collide and repeat, a sentence
end before and after each kind of character, a group of texts and one more, a
header patched over several blocks, of more bytes than its size can say too, a tail with two loud runs, rows and columns that no width divides, the ends of the range of a quantized number. For voices, 3
models are one to save from, one to load into and one of the other size;
the shipped tensors differ between all of them, some by deltas that wrap, and two
processes are one that saves and one that loads.
`ClockMod` is above the number of lookups where the LRU order is checked; that
a wrap does no more harm than a wrong victim is proved (section 4).

Some properties are the conjunction of named parts, one per question, so that a
run reads as a list of promises: `CachesRight` is `CachesHold` and
`BoundedMemory`; `AudioRight` is `InOrder` and `Complete`; `CacheRight` of
`TalkerCache` is `Coherent`, `Seeded` and `PrefixKept`; `SettingsApart` is
`Isolated` and `NoStaleCallback`; `BuffersSound` is `NoDangling`, `Separate` and `NothingLost`;
`JobsRight` is `FramesFit`, `ReplyWellFormed` and `Accounted`; `SequenceRight` is
`HiddenRight` and `CacheRight` of `Forward`; `ConnectionsOwned` is `OneOwner` and
`Stopped` of `BatchServer`; `Drained` is `Served` and `StopsWhenNoticed` of
`WorkerPool`.

What the properties leave out, because the code does not promise or not do it
(each is a finding, or said at the property): `Fresh` does not speak of int4 copies
nor of a GPU that has its weights before the voice; `Restored` not of files of
earlier versions, nor of tensors saved as deltas to another model than they are loaded into
(`Misplaced`);
`ExprExact` not of tensors a section WOVR has replaced; `AsIfAlone` not of the
chunks of one text, which share random numbers; `EncodingKeepsText` not of texts
that end inside a character; `AudioKept` not of chunks of odd size or of
truncated files.

`CHECK_DEADLOCK FALSE` is said where the system stops: servers that have shut down,
requests that are all served, inputs of `sequential` that have reached their length.

Symmetry is not used: liveness is checked in the same runs, and the small sets
with structure (models, tokens with a hash) have none.

### Fairness
Weak fairness of every step a thread can take: the operating system runs every
runnable thread, and a mutex that is free again and again is got (each critical
section is one step, so a thread that waits for it is enabled whenever it is
free). No fairness is assumed of
clients' arrival, of signals, resizes, failures, allocation results, spurious
wakeups, or of the sampler ending a generation early: bounds such as GEN_CAP
end it. A connected client is assumed to send its request or to hang up;
the code reads without a timeout and would wait as long as it does (hazard).
`pools` assumes `EarlyDispatch = FALSE` for its liveness properties, and of the
decoder's pool that its callers take turns.
`StopsWhenNoticed` assumes that the acceptor looks at the flag: a signal that
arrives between the test and `accept` is not noticed before the next connection
(finding).

## 4. Proofs

TLAPS checks these for every value of the constants that satisfies the modules'
assumptions (finite non-empty sets, positive sizes), unless a hypothesis is named
here; it is then in the theorem's statement. In each module an inductive invariant
comes first, and the properties of the runs follow from it.

| module | about | theorems for the properties of the runs | hypotheses |
|---|---|---|---|
| `ThreadPool_proofs` | `ThreadPool`, and `DecoderPool` as `MCPools` has it | `TypeOK`, `JobFrameAlive`, `NoLostWakeup`, `ImplementsParallelFor`, `DecoderJobAlive`, `DecoderImplementsParallelFor` | callers of the decoder's pool take turns, as in `MCPools` |
| `DecoderPool_proofs` | `DecoderPool` | the last two, of the pool alone | `Turns`: `~Together` |
| `Sequential_proofs` | `EmbCache`, `VoiceFile`, `Kernels` as `Sequential` has them | `Right`, `ImplementsLru`, `Restored`, `Fresh`, `ExprExact`, `KernelsRight` | for `ImplementsLru`, fewer lookups than the clock counts |
| `Serving_proofs` | `WorkerPool`, and `Forward` with `Transformer`, `Talker`, `CodePredictor` | `OneOwner`, the safety part of `ImplementsBoundedQueue`; `SequenceRight`, `CodesRight` | for the last two `DeviceFits`: what a device is given one at a time fits its cache |
| `DecoderThread_proofs` | `DecoderThread` | `NoUseAfterFree`, `AudioRight`, `SilentAfterAbort` | |
| `BatchServer_proofs` | `BatchDriver`, `BatchServer` | `JobsRight`, `ConnectionsOwned` | |
| `Contexts_proofs` | `WorkerContext`, `RequestState` as `MCContexts` has it | `BuffersSound`, `SettingsApart` | no steering at the start; no cloned voice |
| `Caches_proofs` | `SDStream`, `TalkerCache` | `CachesRight`, `ChunkedEqualsOneShot`, `GlitchBounded`, `CacheRight` | for the last one, a fused context starts cold and does not steer |

Each hypothesis excludes what a finding is about, or the wrap of the cache's clock: without
it TLC refutes the property.

### The pools
`ThreadPool_proofs`: types; the job frame is alive whenever a worker uses it;
no wakeup is lost; `sleeping` counts exactly the parked; every chunk of a call
has run once when it returns; and refinement of `ParallelFor`. The invariant

    IInv == TypeOK /\ SleepingExact /\ SlotInv /\ WorkerInv /\ CountInv /\ ChunkInv

is needed because none of these is inductive alone. That the frame is alive
rests on the call being past its wait only when every worker is settled
(CountInv: `completed` never exceeds the number of workers that are through
with this generation, so when it reaches `nworkers` all of them are). That
rests on a worker being behind the generation only while a dispatch or a stop
is under way (WorkerInv), and this on the slot and `submit_mtx` following one
call at a time (SlotInv). ChunkInv says that a chunk below `next` has run once
or is in exactly one thread's hands, and that one at or above `next` has not
run. Nothing is assumed about `EarlyDispatch`: a worker that starts late
settles without being counted, which can only make a call wait longer.

`DecoderPool_proofs` has the same two promises of `sd_pool_run`, by a shorter way:
`sdp_pending` *is* the number of helpers that owe a check-in (PendingInv), because a
helper owes one from the post on, whether it has woken or not. With any number
`Up` of helpers that could be created. The run checks the pool inside `MCPools`; the
last lemmas of `ThreadPool_proofs` map the initial states and the steps of the composition to
those of the pool and carry both theorems over.

### The servers
`Serving_proofs`, first part: OneOwner counts owners; the induction is about which place
holds a connection at all (Owner) and that no two hold the same (Alone), with
what the main thread and a worker have in hand at each place of their code
(MainInv, WorkerInv), also when the acceptor serves itself (InlineInv). The steps
of the queue are steps of `BoundedQueue`.

`BatchServer_proofs` does the same in two parts. `DriverInv` is about the driver in any
environment that queues each job once: a job is in one of four places, nobody has
answered it while it is in one, a slot's frames and positions stay within its
share, and the one job that can be lost is that which the helper drops when its
queue is shut down (LostInv). `ServerInv` adds the hands of acceptor, readers and
single-job worker, the connection queue, and the stages of the shutdown, and
uses that every step of the server is a step of the driver or leaves it alone.

### The pipeline
`DecoderThread_proofs` follows the frames: generated by the main thread, queued,
taken by the decoder (QueueInv), heard (HeardInv). What was heard is in order and
from taken frames whatever was lost or aborted; if nothing was, it is all but the
trimmed head, so that a call that reports success has handed out everything. That
the decoder thread never runs after the return (`NoUseAfterFree`) is PcInv, which says
of each place of the main thread what the decoder can be at.

### Contexts and settings
`Contexts_proofs`: a buffer's name says for which field of which context it was made, so
that OwnInv (each context's fields hold what was made for them) gives that two contexts have
nothing in common; HeldInv says that what is alive can be reached or is
one of the two leftovers the code has. OwnInv is false when the base has a
`ml_steer` at the start (run `worker_context_steer`). SettingsInv says what the
settings are at each place of the handlers: the request's or the server's, the steering
that of the span in work, with what is to be put back beside it.

### The caches
`Sequential_proofs`, first part: a lookup returns the embedding of the token it was asked
for and no token is in two slots, whatever the hash, the table size and the
clock's width. `Reachable` (every slot before a token's own on its probe is
taken) makes `OneSlot` inductive: a token that is about to be inserted at the
first empty slot of its probe cannot sit further on.

With fewer lookups than the clock counts, the table is an LRU cache of all its slots. `Stamped`
says why: no stamp is ahead of the clock, the clock is not ahead of the lookups, so the taken
slots have different stamps and can be listed in the order of them; the slot at place i of
that list is the one of rank i, which ties the list to the mapping of the refinement. A
lookup stamps one slot with more than any other has: a hit moves it to the end of the list, an
insertion adds it, an eviction drops the head, which is the victim the code finds.

`Caches_proofs`, first part: the streaming decoder, for every window, receptive
field, kernel, chunk size and number of failures, given that the receptive field the code names
covers the two tails (`ReceptiveFieldAssumption`). A cache is right when each frame at or after its base that
the window can still ask for is at its slot; the lemma on `MakeRoom` says that compaction and
growth keep that, whatever of the old memory is moved. The tails are only right where no
failed chunk reaches (`Clear`), one tail's length further from stage to stage;
that gives the bound on glitches, and with no failure the equality with one decode.

Second part: the Talker's cache over any number of requests with prompts of any
length. `Cached` (the first n entries are the prefixes of the sequence) holds of `prev` when idle,
of `fed` from the prefill on; a delta prefill starts from the longest common prefix,
where the two are the same. With a fused step it needs `FusedStartsCold`: delta prefill and
partial steering on the device break it (findings). After a request that has failed nothing is claimed of a
delta prefill (`Tidy`), as in the property.

### Voice files
`Sequential_proofs`, second part: for every table of weights, every width of a word and
any number of runs, what a `.qvoice` brings back is what was saved, every copy the program will use
is of the weights it has, and an `.expr` file gives exactly the weights it was exported
from. `VoiceInvariant` says of each phase what the weights are (the model's own, with the sections
read so far applied), what each derived copy was last made from, and of the saved file
what is in each section and which context wrote it. That last part is needed because a
delta is of use only with the base it was taken from: addition and subtraction of words wrap,
and undo each other only then. Where the target was another model the theorem says nothing of the tensors
that were saved as deltas (`Misplaced`), and still gives all others. `VoiceFileAssumption` says of files that are not saved in the model that they are what
the exporter makes (`ExprOf`), or words of the same width.

### The kernels
`Sequential_proofs`, third part: for any number of rows, columns and threads, any widths of
vector loops that end in single elements, and any sizes of panels, blocks and vectors, each row
and each output is computed once (`RowsAreComputedOnce`, `CellsAreComputedOnce`), and dot products of shifted
and packed integers are those of the integers (`DotsAreExact`). `KernelsRight` follows for every
input of `Sequential` (`KernelsCompute`), which has to say only that int8 and 4-bit numbers are in their ranges.

The work of a kernel is a sequence of turns `<<from, width>>`. `LoopsAre`: the turns of any list of
loops are *stairs*, each begins where the one before it ended, and they end at n when the last width is 1.
Rows, columns and cells are put together from the turns by `FlattenSeq`: `FlatSteps` (intervals that meet give
the whole interval) does it for what is touched in order, `FlatGrows` (parts that are apart list their union) for
boxes of rows and columns. Tasks meet because the bounds `tid * rows / nt` rise from 0 to rows. A
task of the joint product, which may begin in one matrix and end in another, is followed from its last row
back to its first: if the turns from each later row give the rest of the task, so does the turn at this row (`TurnIs`).
The dot products rest on `SumLinear`: moved terms move the sum by so much times the sum of the weights, which
is what the kernels subtract.

### The forward passes
`Serving_proofs`, second part: whatever the layers, slots, groups, sizes of caches, modes and
prompts, a slot goes on from the hidden state and the cached positions of exactly what it was
fed, and its codes are those of its own sequence (`SequenceRight`, `CodesRight`). From the inside
out:

1. *Kernels.* What the model's functions make of the right value (`ApplyIs`, `RopeIs`, `AddIs`,
   `AttendIs`). A claim names, for some buffers, what the rows of interest have there; each
   kernel leads from one claim to another (`ExecStep`). `Swiglu`, whose rows overwrite those
   after them, is an induction over the rows (`RowsAre`).
2. *Layers.* A program is `Sound` when there is an outline, a claim before, between and after
   its kernels, that each of them respects. `ProgramsAreSound` gives the outline of each of the
   code's programs; a layer then leads from the value before it to that after it (`LayerAdvances`),
   all layers to the value after the last (`RunLeaves`), by induction over the kernels and the layers.
3. *Caches.* A pass writes one cell per row and layer; `Past` says that the cells attention reads
   are of the same sequence and not among those. That the three layouts put different positions in different
   cells is arithmetic of the strides (`CellUnique`), and gives a step of one sequence, of slots on the host,
   and on a device, where the rows of empty slots are computed too and write into their own cells
   (`OneRowStep`, `SlotsStep`, `LayersStep`). A prefill is a pass whose rows are the prefixes of one prompt (`PrefillIs`).
4. *Code predictor.* A frame is an induction over its passes, each a step over a cache that held
   anything before (`PredictIs`).
5. *Copies.* `Grow`, `Snapshot`, `FillSlot`, `UploadSlot` and `UploadKv` leave what they should of
   one sequence and all that belongs to the others.
6. *Forward.* `SequenceRight` says nothing of prefills that wait in a queue, of the sizes of the
   memories, or of how far a slot may go, so it is not inductive. `ForwardInv` adds these: each memory has the
   size and layout of its mode (`Caches`), a queued snapshot is of its own prompt (`ReadyRight`), the
   position of a slot is the length of what it was fed, and a slot that goes on has room
   (`Positions`), and the cells of the cache its steps read are right (`CacheHolds`).

The hypothesis `DeviceFits` says that a single sequence on a device fits the device's cache from
the first. The code copies the host's cache with the device's stride on both sides, which is right
only while the host's has not grown (finding; TLC refutes `SequenceRight` with a longer prompt).

The three recursions of the model (rows, kernels and layers, passes), the doubling of `kv_max`, and sums and loops of `Kernels` are
recursive functions. A function so defined is a CHOOSE; that one exists is proved each time from `Counting`,
induction on the naturals as a statement about sets.

### What is only model-checked
Liveness under fairness (the prover has no ENABLED). `ImplementsBoundedQueue` as a whole, since it has fairness.
Of the inputs of `sequential`, the pure algorithms: `EncodingKeepsText`, `VocabularyRight`, `SampleRight`,
`BatchesRight`, `AudioKept` and `ModelRead`. They are folds over
operators, or RECURSIVE (`Sampling`); a theorem about what they compute needs an induction over
the input, with an operator as its parameter, which the library's theorems leave open.
The decoder's pool when callers do not take
turns, where its promise is false.

## 5. What is not modelled

- Floating point, and with it most of the arithmetic of the kernels, the rounding of
  caches and weights, and rounding in sampling, where it can select the last
  token of the vocabulary although that is not a candidate (hazard).
- The networks of the speaker encoder and of the speech encoder: feed-forward
  arithmetic over a whole clip, without state that outlives it.
- Loading tensors into layers, and what a failed load leaves.
- Syntax: JSON, HTTP, markup, options. Wording, logs, listings of voices,
  self tests and benches.
- Paralinguistic clips pasted into the audio, gain and fades.
- The GPU amortized path of the driver, kernels on a device, the vocoder on a
  device, the choice of a backend.
- The pools of GCD and Win32. Weak memory.
- Allocation failures in the readers.
- Time: a client that never sends or never reads holds its thread (hazard).
- The 8000 positions of the speech decoder's RoPE table (hazard): within them
  positions are the frame's index, beyond them the code reads past its table.
- The vendored lz4, tools, tests and training.

## 6. Plan

Done, in the order the hazards ask for: the pool, the decoder, the pipeline, the
servers, the driver, the caches and settings, the forward passes, the parts around
them that turn text, voices and files into input and samples into files, the decoder's
own pool and the split of the kernels' work. Proved: the invariants of the pools, servers,
pipeline, contexts, caches, voice files and forward passes, and the kernels' splits and sums.

Left to model: which parts of a context a failed load leaves.

Next, proofs: of the batch generators and of the readers of files, whose folds would
be written as recursive functions as those of `Transformer` and `Kernels` are.
