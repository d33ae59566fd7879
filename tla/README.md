# VKWR in TLA+

VKWR serves RWKV-7, a recurrent language model, from one GPU. A running request has no key-value
cache but one *slot* of recurrent state, and everything in the engine turns around slots: the
scheduler hands them out, the model runner reads and writes them, an abort or an end gives them
back, and the slot manager renumbers the survivors so that the slots in use are always the lowest
(a CUDA graph is captured for the first *n* slots). Around the engine, an HTTP server and two front
ends turn text into requests and tokens into streams of text, while callers come and go and the
engine process may die. Beside it stand a cache of snapshots and a store that writes them to disk.
This directory specifies all of it in TLA+ and checks it with TLC on small instances. With TLAPS it proves the
safety of the slot manager, the scheduler and engine step, the engine process, both front ends, the
text path, the model runner, the forward pass and the stores for every size.

Paths below are relative to `src/`.

## 1. The system

| Component | State | Operations | Talks to |
|---|---|---|---|
| `StateSlotManager` (`vkwr/state/state_slot_manager.py`) | two inverse dicts, a sorted free list, slots lent as padding | `allocate`, `free`, `reserve_pad_slots`, `release_pad_slots`, `batch_condense` | called by scheduler, engine and model runner |
| `SimpleScheduler` (`vkwr/scheduler/scheduler.py`) | running list, `waiting` and `skipped_waiting`, output tokens | `add_request`, `finish_requests`, `schedule` (two phases), `update_from_output` | slot manager |
| Request queues (`vkwr/scheduler/request_queue.py`) | a deque or a heap | add, pop, peek, prepend, remove | owned by the scheduler |
| `EngineCore` (`vkwr/engine/core.py`) | `aborts_queue`, batch queue | `step`, `step_with_batch_queue`, `abort_requests`, `_batch_condense`, `_save_finished_state` | scheduler, slot manager, executor |
| Worker and model runner (`vkwr/worker/`) | per slot: recurrent state, last sampled token; static buffers; a flag read one step late | load, capture, `execute_model` on three paths, `sample_tokens`, padding | slots by number |
| CUDA graphs (`vkwr/worker/cuda_graph.py`) | captured sizes | capture, lookup, replay | model runner |
| `EngineCoreProc` (`vkwr/engine/core_proc.py`) | `input_queue`, `output_queue`, `shutdown_state` | busy loop, input thread, output thread, signal handler and callback thread | client over ZMQ |
| Clients (`vkwr/engine/core_client.py`) | sockets, output queues, reader, liveness of the process | add, abort, get_output, utility calls, process monitor, start and close | engine |
| `AsyncLLMEngine` (`vkwr/engine/async_llm.py`) | output handler task, error flag | add_request, generate, abort, shutdown | client, output processor |
| `LLMEngine`, `LLM` (`vkwr/engine/llm_engine.py`, `vkwr/entrypoints/llm.py`) | registered requests | step, generate, abort | client, output processor |
| `OutputProcessor` (`vkwr/engine/output_processor.py`) | per-request state, one-slot collectors | add, process outputs, abort | detokenizer, both front ends |
| `Detokenizer` (`vkwr/engine/detokenizer.py`) | byte buffer, text, how much of it was sent | `update`, `get_next_output_text` | output processor |
| Tokenizer (`vkwr/tokenizers/rwkv7.py`) | a trie | encode, decode | detokenizer, input processor |
| Input processor (`vkwr/engine/input_processor.py`) | none | template, tokens, truncation, budget | both front ends |
| API server (`vkwr/entrypoints/api.py`) | one handler per HTTP request | completions and chat, plain and streamed | `AsyncLLMEngine` |
| `StateCacheManager` (`vkwr/state/state_cache.py`) | LRU dict of snapshots, checkpoints | save, restore, rollback, checkpoint, evict, clear | disk store |
| `StateDiskStore` (`vkwr/state/state_disk_store.py`) | SQLite file, write queue, pending events | save, restore, clear, flush, close; a writer thread | cache |
| Forward pass (`vkwr/model_executor/models/rwkv7_varlen_v2x.py` and its layers) | weights; the states in the slots | prepare weights, choose paths, time mix, channel mix | called by the model runner |
| Configuration (`vkwr/config/`) | none | defaults, contradictions | all |
| Command line, serialization, unused buffers, placeholders of executors, other models, arithmetic of the kernels | | stateless, unreachable or numerical | |

### What is hard

* **Renumbering.** `batch_condense` changes two dicts, a list and a set of holes in a loop, and the
  caller must be able to apply its moves to GPU memory in any order. A free slot below an owned one
  makes it raise.
* **Late freeing.** A request leaves the running list in one place (abort, end of sequence, limit)
  and gives its slot back in another, at the end of the step. In between, the scheduler counts
  requests and the slot manager counts slots.
* **Who is where.** A request passes through three queues and the running list while limits on
  partial prefills hold heads back; aborts take it out of any of them at any moment.
* **Stale GPU data.** A slot still holds its last owner's state and token when it is reused,
  renumbered or used as padding; a graph replays over static buffers that hold an earlier batch.
* **Many kernels for one pass.** The shape of a batch decides which of several kernels and weight layouts each
  layer takes, and all must leave the same state in the same slot; threads of one kernel run in any order.
* **Three threads.** An ABORT is put on two queues at two moments; an idle engine clears one of
  them; signals arrive anywhere; four places answer requests.
* **Failing half-way.** `allocate` raises in the middle of `schedule`; a prompt in the middle of a
  list is refused when those before it are already running.
* **One slot, two tasks.** A collector holds one output; whatever arrives before its reader comes is
  merged into it: tokens, text, an end, an abort, an error.
* **Ends decided twice.** A stop string is found in the client while the engine goes on computing; an
  abort is done in the client and then sent.
* **What was sent stays sent.** A streamed text can not be taken back, so a tail that may become a
  stop string or half a character is held back, at an offset that a cut, a merge and the end all move.
* **Who notices a death.** The engine process may die at any moment. A send, a reader, a message
  and a monitor thread may each be first to learn of it; the synchronous front end waits without a
  time limit.
* **Pending writes.** A restore waits for the writes of its request by an event that several writes
  share; `close` gives up after ten seconds and `flush` after thirty; the process may die between two
  writes and open the same file again.
* **Boundaries.** Prompts as long as the context, chunks that end there, a budget used up, batches as
  large as the largest graph, no free slot left for padding.

`PROJECT.json` lists these at their lines, with the properties aimed at each.

### What makes each component correct

| Component | Correct means |
|---|---|
| Slot manager | dicts inverse, no slot lost or shared, used slots lowest, never raises, moves = change of the map |
| Scheduler | every request in one place, limits and budget kept, progress equals output, every request ends, and for a reason that is true |
| Engine step | slots held = running + being freed; nothing reaches a client after the end; a request computes on its own state |
| Model runner | a request's next token depends on its own tokens alone, whichever path and padding its batch takes; the default configuration starts |
| Forward pass | a request's states and logits are those it has alone, whatever the batch, chunks and kernels; the weights a path reads have been prepared |
| Engine process | one answer per request, no abort lost, a signal always ends it and never finds it asleep |
| Asynchronous output path | every token once and in order to every caller, ends that are true, nothing computed for nobody, an abort reaches what it names, nobody waits for ever |
| Synchronous front end | a call returns its own results, all of them, and returns |
| Text path | the prompt is encoded whole, the pieces of a stream add up to the text, which ends at the stop string wherever tokens split it; an answer is whole or says that it is not |
| Stores | what was confirmed is on disk, also after a restart; a restore sees the save it follows; waits end |

## 2. The modules

    SlotMap <---------- implements ---------- StateSlotManager
       ^ INSTANCE                                    ^
    SimpleScheduler                           MCStateSlotManager <-- StateSlotManager_proofs
       ^ EXTENDS
    EngineCore  <-- MCEngineCore              StateDiskStore <-- StateCacheManager
       ^ EXTENDS                                                        ^
    EngineCoreProc  <-- MCEngineCoreProc          MCStateCacheManager, StateCacheManager_proofs
         ^--- EngineCoreProc_proofs (scheduler, engine step and process)

    OutputProcessor                           VkwrConfig <-- GPUModelRunner
       ^ EXTENDS                                                  ^
    AsyncLLMEngine  <-- MCAsyncLLMEngine          MCGPUModelRunner, GPUModelRunner_proofs
         ^--- AsyncLLMEngine_proofs
    SyncLLM         <-- MCSyncLLM, SyncLLM_proofs

    RWKV7Forward <-- MCRWKV7Forward, RWKV7Forward_proofs

    RWKVTokenizer <-- IncrementalDetokenizer, InputProcessor <-- ApiServer
                                                                   ^
                                                 MCApiServer, ApiServer_proofs

Arrows point at what a module extends. The parts meet at interfaces that one module shows and another
assumes: the engine modules show that each request gets its tokens, one end and nothing after it, which
is all that `AsyncLLMEngine`, `SyncLLM` and `ApiServer` take of the engine; the runner takes any batch that
the scheduler modules allow over requests that keep their slots.

### The engine

**SlotMap** is what the slot manager promises: one function from requests to slots, `Allocate` takes
the lowest free slot, `BatchCondense` leaves the survivors on slots 0..n-1 and moves only those that
were above. It says nothing of lists or loops.

**StateSlotManager** is the class. Each method is an action; `batch_condense` is `CondenseBegin`, one
`CondenseMove` per turn of its loop, and `CondenseEnd` or `CondenseKeyError`. The free list is a set,
because every method leaves the list sorted and takes from its front. `EngineNext` has the methods
the engine calls; `Next` adds `free`, which only tests call. `ImplementsSlotMap` is the refinement:
inside the loop the abstract map is the one `batch_condense` was called with, so the whole call is
one abstract step. `MCStateSlotManager` runs `Next` and remembers whether `free` was called: until then
the class has to keep every promise (`CompactUnlessFreed`, `ImplementsUnlessFreed`), after that only some.

**SimpleScheduler** is the scheduler over `SlotMap`. `schedule` is cut where its loops turn:
`ScheduleStart`; `Phase1Schedule`, `Phase1Finish`, `Phase1Skip` for one running request each, in slot
order; `Phase1End`; `Phase2Admit`, `Phase2HoldBack`, `Phase2Blocked`, `Phase2Raise` for one turn of the
admission loop; `ScheduleEnd`. The cuts add no behaviour: one thread runs all of it and no other
touches this state (`aborts_queue`, which others do touch, is read later in the step). Tokens are
counted; the only value that matters is whether a sampled token is the end of sequence. Both policies
of the request queue are here: a queue is the sequence in which it is popped, kept by `Queue`, as it
came under "fcfs" and by `Priority` and arrival under "priority".

**EngineCore** adds the rest of the step: `Execute`, `ProcessAbortsQueue`, `Update`, `Condense`, with
`AbortLater` (another thread puts an id on `aborts_queue` at any moment) and `AbortNow` (the in-process
client aborts between two steps). GPU memory is abstracted to *whose* it is: `state_of[s]` is the
one request a slot's state has absorbed, `last_token[s]` the request it was sampled for; `Mixed` is
anything else. `min_prev_negative` is the flag by which the runner notices, one decode batch late,
that it fed a slot nobody had sampled for. `step` and `step_with_batch_queue` do the same here,
because the one executor that exists returns a finished future.

**EngineCoreProc** puts that engine in a process. `loop` is the program counter of
`run_busy_loop`/`_process_input_queue`; the input thread's `_decode_input` is split between its
two puts (`ReceiveAbort`, then `QueueAbort`), and `_process_input_queue` between the test for an empty
queue and the clearing of `aborts_queue` (`InputQueue`, then `ClearAborts`), because these are the
points where threads interleave. `Signal` may happen in any state and any number of times.

**VkwrConfig** computes from the arguments whether an engine starts and which sizes its graphs have.
**GPUModelRunner** starts with such a configuration (`CaptureForShape` per size, over dummy rows that
really run), then takes batches. A batch with a prefill chunk in it runs eagerly (`ExecuteEager`); a batch
of decodes alone replays the next larger graph, with pad rows on borrowed slots, or runs eagerly if there
is no such graph or slots are short. The static buffers keep what the last batch left in them. Token *k* of
request *r* is `<<r, k>>`, a recurrent state is "the first *n* tokens of *r*" or `Garbage`, and the
network turns the one into the other only if the next token is fed to the state before it. So a wrong
slot, a stale buffer, a pad row that hits a live slot or a state not zeroed shows as `Garbage`. The
zeroing of pad slots is `ZeroedPads`, which changes nothing: the code zeroes a copy made by indexing.

**RWKV7Forward** opens the network: `PreprocessWeights` once, then for each batch `Forward`, per layer `TimeMix`,
`ChannelMix` and `NextLayer`, and `FinalizeLastLayer`; `Admit` and `Finish` are the scheduler's, so that slots
are reused. A value in a row or a slot is `[of |-> r, n |-> k]`, "what request *r* computed alone has here after its
token *k*". `Join` is any elementwise operation, `Follow` any recurrence; operands that do not belong together give
a wrong value, which keeps its request if only that one took part in it, or `Foreign`. A batch is uniform if
all its chunks have one length; then kernels find the rows of a request by index and length, otherwise by
`query_start_loc`. Thresholds on the number of rows choose kernels and the layout in which a weight is read
(`TimeMixReads`, `ChannelMixReads`); `weights` is what was prepared. `Early` is the one place where threads of a
kernel disagree: `tmix_mix6_kernel` and `cmix_mix_kernel` read a slot's shift state for the first row of a request and
write it for the last one in the same launch. `GPUModelRunner` assumes what this module shows, that the
network adds the next tokens to the state of their own request, and leaves that race out.

### Text in, text out

**RWKVTokenizer** has the trie, the walk down it that `encode` takes, and decoding, over a vocabulary given
as sequences of bytes; `Lead` and `Cont` are the two bytes of a character, so that tokens can split
one and bytes can be no UTF-8 at all. **IncrementalDetokenizer** is `update` token by token: the byte buffer, the
window in which stop strings are searched, the cut, the tail held back from a stream. **InputProcessor**
is the template, truncation and budget of `process_input`. **ApiServer** composes the three with the handlers
of `api.py`: one request from its body to the last event, the engine sending any tokens and any
end, the collector merging what the reader is slow to take. An error before the stream has begun is an answer, one
after it an event.

**OutputProcessor** has the registration of requests by internal and external id, the one-slot
collectors with the merging of outputs, the accumulation of tokens, removal and abort. Here a token is its
position in the request's output, which is enough to see one lost, repeated or out of order, and whether
a stop string matches is a choice, possible only when new tokens come; `ApiServer` has the text.

**AsyncLLMEngine** composes it with `generate()` (`task[r]`: one generator per request), the output
handler, the reader task of `AsyncMPClient`, the monitor thread, `shutdown()` and an engine process.
Tasks share one event loop, so a step reaches from one point where a task waits to the next. A task
never waits in a send: the sockets have no high-water mark (`core_proc.py:76`), so pyzmq's send is
complete when it returns, and `add_request` and `abort` are one step each. For the same reason the
handler keeps the loop while there is something in `outputs_queue`: `handler = "running"` blocks the
other tasks. The thread of the monitor, the thread of `shutdown()` and the process interleave freely.
The engine may stop in the three ways it can: after a failed step, with ENGINE_CORE_DEAD, or killed.

**SyncLLM** is the other front end: `LLM.generate` with and without stream over `LLMEngine` over
`SyncMPClient`, one call after the other in one thread (`thread`), with the reader thread, its shutdown
socket (`woken`), the future of `call_utility`, the monitor thread, start-up and close, and the engine
process. Calls number their prompts from "req-0", so calls share external ids, which is what leftovers of an
earlier call meet. A stream that its caller abandons goes on stepping and drops what it gets ("drain", `Discard`).

### Snapshots

**StateDiskStore** is the store statement by statement where threads interleave: `save` tests `closed`,
marks the request pending, puts the write; the writer takes one operation, makes room when the file is
full, writes and commits, then takes the mark away, also when the write failed; `restore` waits and reads; `flush` and `close` wait with their time limits, which
may run out at any moment. `Restart` opens what is on disk: the table is all that survives.
**StateCacheManager** adds the cache in memory (an LRU list of one snapshot per request, `evict_oldest`
handing entries to the store), the checkpoints and the runner's `_maybe_checkpoint`, all of the engine's thread,
beside other threads that call the store. A snapshot is the position it was taken at. The size limit is
counted in rows: `high_water` is `page_count`, which deleting rows does not lower. What a call has to find or to
wait for is in its `sees`: the snapshots owed, of its request or of all, when it began. A key that is evicted or deleted while
the call waits, or whose write failed, leaves `owed` and every `sees` at once.

### History variables and mutants

`held` (slot map at the call), `relocated` (requests given another slot), `delivered` (tokens, final
outputs and reason sent, per request), `sent`, `abort_sent`, `owed` and `confirmed` (keys put on the write
queue; those reported as written), `overlap`, `crowded`, `left_out`, `orphaned`, `produced`, `raced`. They are read by
properties only.

The definitions called "Mutant of X" stand in for a plausible slip in X; each shows that a property
can fail. They are part of no specification.

## 3. The runs

Every action of every module fires in some passing run.

| Run | States | Shows |
|---|---|---|
| `slots` | 0.6 k | any order of calls on 5 slots with 5 requests, symmetric: no slot lost or shared; short of a `free` the used slots stay the lowest and the class implements `SlotMap`; it raises only on a free slot below an owned one |
| `engine_step` | 2.4 M | 3 requests, 2 slots, prompts of 2, 4 and 5 in a context of 5, 2 or 4 output tokens, aborts through `aborts_queue`: slots, queues, limits, ends and GPU slots agree through whole steps |
| `engine_inproc` | 0.4 M | aborts between steps, priority queues with the latest request first: `allocate` raises only after such an abort leaked a slot, and loses one request; if the caller keeps stepping every request ends, unless that happens first |
| `proc_threads` | 0.3 M | 2 requests, 1 slot, all interleavings of threads, signals and step, with `shutdown_timeout` 0 and not 0: one answer each, no abort lost, a signal always ends it |
| `async_streams` | 0.9 M | five scenarios of callers, kinds of output and faults: streams are exact, ends true, nothing orphaned, nobody waits for ever |
| `sync_llm` | 0.5 M | seven scenarios of up to three calls each, with aborts at any time, an abandoned stream, a refused prompt, a call without prompts, a dying engine: calls return, and what is theirs |
| `request_path` | 0.1 M | 18 requests: streamed text equals whole text, ends at its stop string, and the answer is whole or says it is not |
| `runner` | 0.4 M | 12 configurations, 3 requests: own tokens only, on every path; defaults start |
| `forward_pass` | 1.2 M | 13 configurations, 3 requests, 2 slots, 2 layers: every pass leaves each request what it has alone, except where a token shift raced, and finds the weights it reads, except with stacked r, k, v |
| `stores` | 1.0 M | two callers, two request ids, 4 calls, a restart: confirmed is written, a restore sees its save, waits end |

*Bounds of the engine.* A request is at most one of: waiting, skipped, chunked, decoding, ending, aborted; three of
them on two slots already queue behind each other, skip, relocate (freeing slot 0 while slot 1 runs)
and reuse a slot. The threshold 2 and prompts of 1 to 5 give one, two and three chunks, a last chunk
shorter than the threshold, and a budget of 3 that holds one chunk and one decode, so that chunks are
cut by the budget as well. The limits of one long and one partial prefill are reached. The context is
met by prompts exactly, one below and not at all, and by outputs that run into it. Slots alone are checked with 5,
so that several holes and several moves occur in one call. In the process runs prompts are
short and one slot is enough: their question is the order of queue operations, and the step is the one checked before. A
request is aborted by its client at most once; the input queue is bounded by that and the one
wake-up.

*Bounds of the front ends.* A scenario of `async_streams` fixes what may come together: two requests that share an external id;
two of the other output kinds; one with three tokens, so that an output is merged into one that
was merged before; one request with every fault (the engine stops, a frame cannot be decoded,
`shutdown()`); two requests while the engine may stop. Cancellations and stop strings happen in all of
them. `MaxFrames = 2` frames between engine and client allow a token and an end, or a token and the
answer to an ABORT, to be on their way together; ABORT answers are not counted. `sync_llm` has up to three calls, so that one can
find what another left, with up to two prompts and two tokens each, and a call without prompts between two
others. In one scenario a stream of two prompts with two tokens each is alone with an engine that may be killed and
a caller who aborts between its steps: a send can then be the first to find the process dead while prompts are
still to end. `MaxMessages = 2` bounds the caller's aborts only: it aborts, any id and as often as it likes, while fewer
messages are on their way. `request_path` has up to four tokens over seven (one empty, two
parts of a character, two of several characters), stop strings of one to three characters that overlap each
other and are parted by tokens and by bytes. That the walk down the trie finds the longest token is an ASSUME of
`MCApiServer`, over all byte strings up to four.

*Bounds of the runner and the stores.* Three slots, captured sizes up to 4, prompts of 1 and 2 and two output
tokens: a batch can be smaller than, equal to and larger than the largest graph, pads can be available or
not, and a slot is reused. `FallbackTop` 3 stands for the 64 sizes captured when none are configured.
The default sizes are compared with what they promise for every limit up to 600 by an ASSUME of
`MCGPUModelRunner`. In `stores` the file is full with two rows and one entry is evicted (ten in the
code), so that eviction meets pending writes; four calls are a save, a second one, a restore and a close; the
cache has one entry, two checkpoints.

*Bounds of the forward pass.* Up to three tokens per request make a batch of one or two requests uniform or
ragged, of 1 to 6 rows, in one to three passes per request. The thresholds are scaled down to lie among those
rows: `InRowsT` 3 (7 in the code), `OutRowsT` 2 (4), `NofcMaxRows` 2 (19), `Row20` 4 (20), `Row20MaxT` 2 (5); every
side of each is met. `ForwardAssumption` says, among other things, that `OutRowsT` is at most `InRowsT`, as it is in the code: otherwise time
mix would reach a branch that leaves the value residual out. Two layers tell the first and last from the others' kernels;
2 slots and 3 requests reuse a slot.

No state constraint is used anywhere. Deadlock is not checked: these systems really stop (all requests
ended, the loop left, a KeyError, the store closed, the answer sent); that nothing stops too early is
what the liveness properties say.

*Fairness.* Only of threads with something to do. `FairInprocSpec`: weak fairness of `Step`, as `LLM.generate` and
the busy loop call `step` as long as there are requests. `FairProcSpec`: the busy loop, the input thread's
second put, the callback thread. Nothing is assumed of clients or signals, nor that a sampled token is
ever the end of sequence. `FairSpec` of `AsyncLLMEngine`: every task of the event loop that can run, a
caller that takes its next output, the engine (each request it runs gets its end, which `EveryRequestEnds` and
`AllEnds` are about) and the monitor thread. Of `SyncLLM`: the caller's thread, reader, monitor, engine. Of the
stores: the writer and every caller inside a call. None has fairness of cancellation, abort, faults, shutdown, close
or time-outs.

*Exceptions.* Some properties name situations in which the code does not keep them. Each is real, and
without its exception TLC finds the run:

* `CallersEnd`: after `shutdown()` nobody tells the collectors; and if a send finds the process dead before
  the monitor thread does, `ensure_alive` sets the flag that makes the monitor return early
  (`core_client.py:269`): the reader is never cancelled and everybody else waits on.
* `CallsEnd`: `get_output` waits without limit (`core_client.py:441`). It waits for ever with its queue empty when the
  reader has ended, as it puts nothing on the queue when it is merely woken and its last word may have been
  taken by an earlier call; and, queue and socket empty, when the death was missed (`DeathMissed`, as above): an
  `abort_request` (`llm_engine.py:138`), before a stream starts or between two of its steps, finds the process dead before
  the monitor thread does, so that the reader polls on.
  The future of `call_utility` has nobody to set it once the reader has ended.
* `OwnResults`: a prompt refused in the middle of a list (`llm.py:80`), or a stream never
  started, leaves requests behind whose results the next call gets.
* `WaitsEnd`: a `save` that passed the test of `closed` before `close()` began queues its write behind the
  shutdown message, and its pending event is never set (`state_disk_store.py:89`).
* `RestoreSeesTheSave`: two operations on one request share an event; the first to finish pops it.
* `StopAtOnce`: an invalid byte blocks all text after it; the text of the last token is left out when the
  engine ends the request, whatever the reason.
* `DefaultsStart`: capture sizes named by hand, and `enforce_eager`, which still captures the sizes 1 to 64, can fail to start.
* `AloneOrRaced`: where a request's first row read what its last row had written, its values are wrong from then
  on, though still its own. In the default configuration any prefill of one request can race
  (`csrc/v2/mix/mix_ops.cu:101`), so outputs need not match those of another batching, as
  `tests/integration/test_multi_request.py:271` asserts; the varlen kernels write in a launch of their own.
* `ExitEndsRequests`: with slots leaked by aborts `allocate` raises (`scheduler.py:268`) with the request being admitted in no
  list, and those this step held back in a list of `schedule()`'s own; `finish_requests(None)` finds none of them and
  their clients hang, which `core_proc.py:144` means to avoid.
* `RaisesOnlyOnStackedRkv`: with `rkv_mode` "on" or "auto" and transposed attention weights, r, k and v of a uniform batch are
  stacked to four dimensions, which `torch.bmm` refuses (`time_mix_varlen_v2x.py:112`). The engine's default is "off".
* `EveryRequestEnds`, `OwnStateUntilRelocated`: a relocated request computes on another's state (below).

### Runs that find a counterexample

| Run | Source | What TLC shows |
|---|---|---|
| `condense_moves_state` | `vkwr/executor/uniproc_executor.py:80` | `condense` is empty, though `abstract.py:69` says the moves mean moving state: a request given another slot computes on the state and the last token it finds there |
| `full_prompt_ends` | `vkwr/scheduler/scheduler.py:141` | a prompt of exactly `max_model_len` tokens is admitted, prefilled but for one token, and then neither scheduled nor ended |

Other places where the code does less than one might read into it, modelled as they are:

* An abort of the only running request: the idle engine clears `aborts_queue` (`core_proc.py:206`), and the slot is
  never freed. The in-process client leaks in the same way (`core_client.py:636`). `RaiseMeansLeak` says that
  an abort is the *only* way to make `allocate` raise, and `engine_step` that it never happens when every abort goes
  through `aborts_queue` alone.
* A decode that finds the step's budget used up is ended with reason "length" (`scheduler.py:144`), which
  `max_num_batched_tokens = max_num_seqs` allows; the budgets of the runs leave every decode its token.
* `save()` of a cached request keeps the old snapshot (`state_cache.py:56`), a full cache drops its oldest entry
  unwritten (`state_cache.py:60`), `rollback` returns the oldest checkpoint before the target (`state_cache.py:87`), and a
  checkpoint's label is one step behind its state (`gpu_model_runner.py:545`).
* `AsyncLLMEngine.generate` passes its `priority` to nobody (`async_llm.py:121`).
* The usage of a stream counts the tokens of its last chunk only (`api.py:255`).

## 4. The proofs

Eight modules hold proofs, for every value of the constants that the named assumptions allow. Every module
has one lemma per action, one step per conjunct that the action can disturb; a last lemma puts the actions
together. Theorems carry the name of the property they state, with `Holds`, `Always` or `Correct` added.

| Module | Invariant | Proved of |
|---|---|---|
| `StateSlotManager_proofs` | `Base`, `Inv`, `HeldAbove`, `Condensing` | `TypeOK`, `Bijection`, `Partition`, `RaisesOnlyOnAGap` in any order of calls; `Compact`, `CondenseNeverRaises` and the refinement of `SlotMap` as the engine calls it; `CompactUnlessFreed` and `ImplementsUnlessFreed` |
| `EngineCoreProc_proofs` | of the engine, `CoreInv`, then with one more each | `TypeOK`, whoever drives the engine; `SlotsFollowRunning`, `OnePlace`, `ProgressMatchesOutput`, `NothingAfterTheEnd`, `RaiseMeansLeak`, `OutputEnds`, `StepLimits`, `OwnStateUntilRelocated` |
| | of the process, `ProcInv` | that the process drives the engine as `DrivenSpec` allows; `ProcTypeOK`, `AnsweredOnce`, `AbortNotLost`, `ExitEndsRequests`, `NoLostWakeup` |
| `AsyncLLMEngine_proofs` | `AbortReaches`, `AsyncInv` | `AbortReaches`, `StreamExact`, `EndIsTrue`, `NoOrphan` |
| `SyncLLM_proofs` | `SyncInv` | `OwnResults` |
| `StateCacheManager_proofs` | `StoresInv` | `StoresTypeOK`, `ConfirmedIsWritten`, `RestoreSeesTheSave` |
| `GPUModelRunner_proofs` | `RunnerInv` | `RunnerTypeOK`, `OwnTokensOnly`, `DefaultsStart` |
| `RWKV7Forward_proofs` | `ForwardInv` | `AloneOrRaced`, `RaisesOnlyOnStackedRkv` |
| `ApiServer_proofs` | `PromptInv`; `TextInv`, `CollectorInv`, `StreamInv`, `AnswerInv` | `PromptExact`; `StopAtOnce`, `StreamedIsWhole`, `AnswerIsTrue` |

**The slot manager.** `Base` (types, the two dicts inverse, the partition of the slots) holds whatever is
called, `free` included. That `batch_condense` never raises is not inductive: it depends on there being no
gap below an owned slot, which the loop itself breaks and restores. `Inv` adds `NoGap` (a slot above an
available one is available: `Compact` in a form that also makes sense inside the loop) and `ScanBound`
(during the loop everything available is above the scan, everything owned at or below it, and no hole is
below `first_hole`). Then a slot the loop reads is not available, and not in hand, because the inner `while`
skipped those; by `Partition` it is owned. With `free`, `HeldAbove` says where the scan starts and what it
passes, and if it raises anyway there was a gap when it was called. For the refinement `Condensing` follows
one call: who has moved left a hole above the scan for the lowest hole there was, the higher request the
lower hole; at the end that determines the map which `SlotMap` calls `BatchCondense`, and the list of moves.
All other steps of the loop stutter.

**The engine step.** `DrivenSpec` is the step with anything a driver may do between two steps or beside it:
add, reject or abort requests, put ids on `aborts_queue`. `Spec`, `InprocSpec` and, by
`ProcessDrivesEngine`, the process imply it, so what holds of it holds of all three. `CoreInv` has one part
for each thing a step hands on from phase to phase: `Places` (who is in which queue, once), `SlotsHeld` (no
two share a slot; who is in the batch holds one), `Batch` (what the batch says of a request is what its
counters say), `Progress` (how far it is and what was delivered). Over it: `QueuedAbortsOnly` and
`SlotsLeak` for who holds a slot, `Budget` and `LongPrefills` for the limits, `FinishedAtLimit` for the
ends, `OwnState` for the contents of the slots. `SlotsLeak` is a pigeonhole: `allocate` finds no free slot
only if somebody who has ended holds one. `OutputEnds` needs one more assumption:

    AmpleBudget == MaxNumBatchedTokens > ChunkedPrefillThreshold * (MaxNumSeqs - 1)

so that the other requests of a step can not use up the budget before a decode has its token. The defaults
(2048 tokens, chunks of 512, 64 requests) do not satisfy it, and without it the property is not true
(`scheduler.py:144`, section 3); the instance that TLC checks does satisfy it. What holds without it is
`OutputBounds`.

**The engine process.** `BetweenSteps` says that the busy loop touches requests only when no step is half
done, which makes the process a driver. `Mail` says where messages are: an ADD is in `input_queue` exactly
as long as the engine has not seen the request, an ABORT never overtakes it. `Awake` says what the callback
thread leaves behind: whenever the loop may sleep after it, the queue is not empty. `ProcInv` and `CoreInv`
together imply the five properties, for any number of clients' requests and any number of signals.

**The asynchronous front end.** `AbortReaches` is inductive alone: a step does nothing to the two dicts,
registers a request, removes finished ones, or aborts. `AsyncInv` says where things can come from.
`Readers`: until the handler ends, a registered request has a caller and no end in its collector; once it
has ended, everyone who still reads finds the error. `Flowing`: what is still to come, in `outputs_queue`
and on the socket, continues the tokens that the output processor has, with none missing or repeated, and
the end is last; `Streams`: what a caller has got and what its collector holds are all of those. `Covered`
(in `Endings`): the engine runs a request of nobody only until an ABORT that is on its way. `Reasoned` and
`Told`: which events justify which reason. `Falls` orders what happens to reader, handler and engine when
something dies.

**The synchronous front end.** `SyncInv` follows a request from the engine to the caller. `Travels` is what holds on
the way, whatever the client does: the frames still to be taken (`Coming`) end a request at most once, as the
last thing they say of it, and only after the engine has let go of it. The rest holds until a call leaves a request
behind (`orphaned`), because then a name or a frame may be another call's. `Held`: what is on its way completes the tokens
registered. `Delivered`: results and the outputs that the loop has still to come to are of the call's own prompts, their
tokens in order. `Accounted`: together (`Got`) they are the tokens registered when they were taken, and who is registered no
longer has got its end, unless aborted. A call returns when nothing is registered, so by then each of its requests has
its end. All of these speak of one request's part of a
sequence of frames or outputs; `Spreads` says once what taking from or adding to a sequence does to such a part.

**The stores.** A snapshot that is owed is in the table, in the writer's hand or on the queue (`Owing`),
ahead of the message of the flush that waits for it, and first of the operations on its request if a restore
sees it. `Closing`: once the writer has left, all that is owed is in the table. `Numbered`: no flush answers
to the number of a later call. `Singles`: where operations on a request did not overlap there is one at a
time, and its pending event is set; that is why a restore that no longer waits finds its save.

**The model runner.** `RunnerInv` says of the middle of a step what `OwnTokensOnly` says between steps. When
the batch is known (`Batched`), its requests are distinct and each row continues its request; after the
forward pass (`Computing`), the slots of the batch hold the states they should, everybody else's are
untouched. One lemma, `Executes`, covers the three paths: rows for the batch, on its slots and continuing
its states, and any others on free slots, make the step. For the replay it needs that a graph is large
enough (`BatchFits`, a pigeonhole) and that the buffers are refilled up to its size; the dummy rows may
leave anything in their slots, because a first chunk starts from zero. `DefaultShapes` computes with
`Sorted` that no default size exceeds the buffers.

**The forward pass.** `ForwardInv` follows a pass through its layers. `AttDone(l)`, `WkvDone(l)` and `FfnDone(l)`
say from `pc` and `layer` which states of layer *l* the pass has written already (the last kernel of a layer mixes
ahead for the next one: `pre_mix`); those slots hold what their requests have after the batch (`After`), the others
what they had before it (`Before`), and slots of requests outside the batch are left alone (`Others`). The rows
between two kernels are right (`RowsRight`), where right is what the request alone would have, or, once it has
raced, a value of its own. That says what a kernel must do; that each does it needs one fact about places:
a uniform kernel finds a request's rows by index and length, the others by `query_start_loc`, and in a uniform
batch both find the same (`IsRow`, over the sums of `Offsets`). Then one lemma per kernel (token shift, its racing
form, recurrence, value residual) covers all paths that use it. `RaisesOnlyOnStackedRkv` is a case
analysis over paths and prepared weights, with what `Prepared` and `Batched` say.

**Text in, text out.** Below the invariants are the facts about bytes. `encode` gives tokens that stand for the
bytes of the text: in a vocabulary that names every byte the walk down the trie always ends at a token (`WalkFinds`), and
its tokens, put together, are the source. `Follows` is the detokenizer after some tokens: its text is the decoded
part of their bytes, its buffer the rest, at most half a character or stuck before an invalid byte. `NoStops`
says that the text has no stop string beyond `min_offset`; since the search of `update` only looks behind what it
searched before, less the length of the longest stop string, one that straddles must be shown to lie in that window.
`HeldBack` keeps what was sent of a stream at the longest stop string's length from the end, so that
no cut ever takes back what was sent. `TextInv` has these until the end, whoever makes it; `StreamInv` adds that what
has been yielded and what the collector holds is the text up to `sent`, and `CollectorInv` that an end stays
in the collector until it is taken. `AnswerInv` counts the tokens: those of the chunks sent and those
held are all there are, and a plain answer is sent only from the final output.
`PromptInv` is separate and shorter: once a request is made, what it has is exact.

*Assumptions.* Each is an `ASSUME` of the module it belongs to, evaluated by TLC on the instances:
`SlotAssumption` (at least one slot; "no request" is none), `SchedulerAssumption` (what configuration and
input processing leave possible: a budget of a token per request at least, prompts not longer than the
context, `max_tokens` positive), `AsyncAssumption` and `OutputAssumption` (scenarios are well formed; the
value "none" is no reason), `SyncAssumption` (requests are finitely many numbers, as the counter behind their ids
gives; an id is new, an external one in its call; `generate` gives list calls FINAL_ONLY; "none" is not "returned"), `StoreAssumption` and `CacheAssumption` (an interval or limit is a number, a
cache holds an entry), `ConfigAssumption` and `RunnerAssumption` (limits are numbers, a batch may hold a
request; prompts are not empty), `ForwardAssumption` (the configurations that `WeightConfig` and
`RWKV7InferenceConfig` accept, their thresholds in the order of the defaults), `VocabAssumption` (the vocabulary file has every byte as a token, no token
twice and no token 0), `TemplateAssumption`, `NoneAssumption` and `CallsAssumption` (texts are characters; what
`SamplingParams.__post_init__` lets through if it accepts). `AmpleBudget` is a hypothesis of one theorem.

*Induction over data.* The library's induction theorems take an operator as a parameter, which the provers
here can not instantiate. Where a fact about a set, a queue or a text needs induction it is proved by a least
counterexample (`HasLeast`, `NatMin`, over `WFMin`): for ranks, queues, sums of tokens (`TokenSumAt`, `SumAppend`),
offsets, flattened sequences (`FlattenAppend`), and the steps of `encode` and `update`. For this the models
use recursive functions, and folds of the library that are one; each needs a lemma that such a function exists.
`Sorted` of `VkwrConfig` is defined by rank for that purpose, and not by a library sort.

*Only model-checked.* Liveness (`EveryRequestEnds`, `AllEnds`, `CallersEnd`, `CallsEnd`, `WaitsEnd`), which the prover
does not treat. Every safety property that a passing run checks is also a theorem.

## 5. Not modelled

* `stop_token_ids`, `ignore_eos`, logprobs; that `process_input` stores the inferred budget into the caller's shared
  `SamplingParams` (`input_processor.py:153`).
* A batch queue with two batches in flight: it needs an executor whose futures are not done at once,
  and the other executors raise NotImplementedError.
* `_save_finished_state`: it runs before `update_from_output` fills the set it reads, and requests
  ended by `schedule` have no run data, so it saves nothing; the cache is modelled with the calls its interface allows.
* `DPLBAsyncMPClient`, the utility calls of `AsyncMPClient`, the output thread's copying.
* A call of `LLM` made while a stream of an earlier one is open.
* That the monitor thread cancels the reader task without waking the event loop (`core_client.py:145`): the
  model lets the loop notice. `shutdown()` takes the output handler away in one step; a caller that
  arrives while the handler is being cancelled may in the code get the error as well.
* Reading the vocabulary file; the memory profiling at start; msgpack; the command line; buffers and reordering that nothing calls;
  the arithmetic of the kernels, in which `RWKV7Forward` sees only which operands meet, with their checks of dtypes
  and dimensions (it is about paths and prepared weights), and the sampler: no state
  that a step of another actor could disturb.
* The branch of `forward_from_x` with `all_logits`, which nobody takes (and which makes a tuple where a layer norm is meant,
  `rwkv7_varlen_v2x.py:285`), and the models `rwkv7` and `rwkv7_varlen`, which the engine does not load.

## 6. Plan

1. An executor with several batches in flight, to see what `step_with_batch_queue` needs from it (slot numbers taken
   when a batch is scheduled, a condense in between), once such an executor exists.
2. `GPUModelRunner` over `RWKV7Forward` instead of its own network, as a refinement; the older models.
3. Stop tokens and `ignore_eos` in `SimpleScheduler`; utility calls of the asynchronous client.
4. Proofs: that an ample budget can be replaced by what `schedule` really leaves to the decodes.
