# A TLA+ model of mini-sglang-mlx

mini-sglang-mlx serves language models on Apple Silicon. This directory holds
TLA+ modules that model its scheduler with the plain and the speculative engine,
the processes around it, and the index arithmetic of its kernels; TLC
configurations that check them on small servers; and proofs, checked by TLAPS, of
what holds for servers of any size. Paths below are relative to
`src/mini_sglang_mlx/`, those of kernels to `src/mini-sglang-mlx-kernel/`.

## 1. The system

```
 client --HTTP--> api_server --TokenizeMsg--> tokenizer workers --UserMsg--> scheduler
    ^                 |  ^                          |                          |    |
    +----- stream ----+  +------ PromptReadyMsg ----+                          |  engine
                         +------ UserReply ------- detokenizer <-DetokenizeMsg-+
```

Each box is a process (the engine is a library of the scheduler's); they talk
through ZeroMQ PUSH/PULL sockets.

| Component | State | Operations | Who talks to it |
| --- | --- | --- | --- |
| prefix cache (`kvcache/radix_manager.py`, `naive_manager.py`) | tree of nodes with key, pages, `ref_count`, `mamba_slot`, timestamp; `evictable_size`, `protected_size` | `match_prefix`, `lock_handle`, `insert_prefix`, `evict`, `evict_for_mamba` | CacheManager |
| page accounting (`scheduler/cache.py`) | `_free_slots` (pages) | `match_req`, `allocate`, `free_and_cache_finished_req`, `acquire_mamba_slot`, `_shed_cached_snapshot` | admission, `_prepare_batch`, cleanup, speculative engine |
| recurrent state pool (`kvcache/mamba_pool.py`, `attention/gdn_backend.py`) | `_free_slots`, one state per slot | `alloc`, `alloc_many`, `free`, `copy`, verify replay | CacheManager, the model's linear layers |
| admission (`scheduler/prefill.py`, `table.py`) | `pending_list`, token budget, reserved size, free table rows | `schedule_next_batch`, `try_add_one`, `_try_allocate_one` | scheduler loop |
| decoding (`scheduler/decode.py`, `core.py`) | `running_reqs`, each request's lengths | `filter_reqs`, `remove_req`, `inflight_tokens`, `complete_one` | scheduler loop, admission |
| scheduler loop (`scheduler/scheduler.py`, `io.py`) | `finished_reqs` | `normal_loop` and its parts | sockets, engine |
| engine (`engine/engine.py`, `config.py`) | sizes of the pools, page table | `forward_batch` | scheduler loop |
| speculative engines (`engine/spec_engine.py`, `dflash_engine.py`) | the draft's K/V, under the target's page numbers | `run_iter`: propose, verify, calibrate, commit, release | scheduler loop, CacheManager, state pool |
| attention and kernels (`attention/`, `csrc/`) | page table, metadata, scratch buffers | `build_*_metadata`, `store_kv`, prefill, two-stage decode, recurrence, experts | models |
| API server (`server/api_server.py`) | per-request maps and events | `listen`, `wait_for_prompt`, `wait_for_ack`, `abort_user` | HTTP, tokenizers |
| tokenizers, detokenizer (`tokenizer/`) | decode status per request | `tokenize`, `detokenize` | all the others |
| response parser (`parser/`) | withheld text per field | `feed`, `finalize` | API server |
| offline generation (`llm/llm.py`) | list of prompts | `generate` | scheduler loop |
| launch (`server/launch.py`, `args.py`) | acknowledgement queue, who binds which address | start, wait, serve, join | all processes |

What makes each of them correct, and hard:

* **Prefix cache.** It stays a radix tree under splits, inserts and evictions;
  a node is locked once per live request below it however its edge was split
  since; the two size counters, kept by increments, are the sums they stand for;
  what a locked handle refers to does not move.
* **Pages and slots.** Each has one owner at all times: a free list, the tree,
  or one request. Finished requests hand part of what they hold to the tree and
  the rest back, measured against a tree that moved since they were admitted.
* **Contents.** What attention and the recurrence read is what the tokens
  behind a request produced, through sharing, forking, reuse and overwriting.
* **Admission.** What was promised to all admitted requests can be had when they
  come for it; nobody who holds resources is forgotten; the pool never runs dry
  for good; the loop never goes round without doing anything.
* **Streams.** Every request is served in order, to its `max_tokens`-th token or
  the end-of-sequence token, exactly once.
* **Speculation.** Whatever the draft proposes, the client gets what greedy
  decoding gives; the rejected part leaves no trace in pages, lengths, recurrent
  states or the draft's cache; what an iteration needs at its peak is there.
* **Frontend.** Coroutines share maps that a listener fills and an abort empties:
  no reply and no wakeup is lost, nothing is kept for a stream that is over.
* **Launch.** The server serves when every process is ready and every address has
  its two ends and one that binds it; an interrupt ends all of them, and does not
  leave the API process waiting for processes that it ended itself.
* **Algorithms.** Tiled, split, sorted, rolled back or incremental, each computes
  what its plain definition says.

`PROJECT.json` lists the hazards, each at the line where it bites, with the
properties that watch it or why none does.

## 2. Modules

| Module | What it is |
| --- | --- |
| `RadixTree` | the tree as a value, one operator per method of the radix managers |
| `SchedulerCore` | the scheduler's state, and the part of its loop that the plain and the speculative engine share: messages, admission, slots, cleanup; the invariants of that state |
| `Scheduler` | the rest of the loop with the plain engine: `_prepare_batch`, `_forward`, `_process_last_data`; the specification; the properties of the whole |
| `Serving` | what the scheduler promises, without pages, slots, trees or chunks |
| `SpecScheduler` | the rest of the loop with `DflashEngine`: `run_iter`, `_process_spec_output`; the draft's cache; the ways an iteration can fail |
| `Generation` | what a client is promised of greedy generation, by any engine |
| `Offline` | `LLM.generate` around the plain engine's loop, with a list of `SamplingParams` or one for all prompts |
| `Frontend` | `FrontendManager`, its coroutines and listener, the tokenizer workers and the sockets between the processes; the scheduler as what `Serving` promises |
| `Launch` | how the processes come up and go down: start-up in order, sockets, acknowledgements, exceptions, Ctrl-C once or twice, open responses, the join at exit |
| `PagedAttention` | metadata of a batch, `store_kv_cache`, the prefill kernel and the two decode kernels |
| `GatedDelta` | slots of the linear-attention layers through forward, verify and commit |
| `Experts` | the mixture of experts, sorted and not |
| `Detokenizer` | `DetokenizeManager.detokenize`, byte by byte |
| `ResponseParser` | `ResponseAdapter` |
| `MCScheduler`, `MCSpec`, `MCOffline`, `MCFrontend`, `MCAlgorithms` | workloads, bounds and symmetry sets for TLC |
| `CoreProofs` | lemmas: every operator of `RadixTree` returns a tree, and what it changes; the invariant that the steps of `SchedulerCore` keep whatever the engine; sums |
| `SchedulerProofs` | the inductive invariant of the plain loop; the shape of the cache; the ownership of slots; lock counts; what a locked handle refers to; the two sizes the cache keeps |
| `PageProofs` | the ownership of pages; what pages and slots hold; the type invariant |
| `AdmissionProofs` | which list a request is in, its lengths; that there is a slot, that there are pages, that a batch is built |
| `ServingProofs` | the plain loop implements `Serving`; offline generation is that loop, and what it returns |
| `SpecProofs` | the loop with a speculative engine: types and lengths; the ownership of pages; what pages, slots and the draft's cache hold |
| `FrontendProofs` | the API server's maps, wakeups, replies and prompts |
| `AlgorithmProofs` | the server serves when all is ready; what is streamed is the message; a token gets its own experts; a linear-attention slot holds its prefix |

`SchedulerCore` extends `RadixTree`; `Scheduler` and `SpecScheduler` extend
`SchedulerCore`, each with its own engine, and implement `Serving` and
`Generation`; `Offline` extends `Scheduler`. `Frontend` composes the API server
with workers and sockets; `Launch` is what comes before: at its end every pipe of
`Frontend` leads somewhere. The algorithm modules share no state with the rest and
refine what it takes for granted: that a row of pages is what attention reads,
that a slot stands for a prefix, that tokens become text once.

### State and actions

The scheduler is one thread. `pc` says where it is; between two values of `pc`
nothing else in the process runs, so a step of the model is a stretch of code
that reads and writes the modelled state as a whole. Stretches that loop over
requests, over evicted leaves or over finished requests are one step per
iteration, so that every choice in them is a choice of an action.

| Action | Code |
| --- | --- |
| `Submit` | a `UserMsg` reaches the queue that `_recv_msg_single_rank` reads |
| `ProcessMsg` | `_process_one_msg`: drop, or clip `max_tokens` and append to the pending list |
| `StartStep`, `RunWhenIdle` | `normal_loop` after the queue is drained: make a `PrefillAdder`, or block |
| `StopAdmission`, `ContinueChunk`, `TryAllocate` | one turn of `schedule_next_batch`'s loop: out of requests, token budget or rows; go on with a chunk; match, check the budget, lock, check again |
| `AdmitWithoutSlot`, `AdmitWithFreeSlot`, `EvictForSlot`, `AdmitWithShedSlot`, `Starved` | `acquire_mamba_slot` and the rest of `_try_allocate_one` and `_add_one_req` |
| `PrepareReq`, `EvictForPages`, `EndPrepare` | `_prepare_batch` with `allocate` |
| `Forward` | `_forward`: `forward_batch`, `complete_one`, `filter_reqs` |
| `Output` | `_process_last_data`, first loop |
| `Cleanup`, `EndStep` | its second loop: `free_and_cache_finished_req` per request |

`SelectBatch`, which ends the admission loop and falls back to decoding, is part
of `StopAdmission`, `TryAllocate` and `Starved`, as it follows them at once.

`SpecScheduler` has these instead of the last five:

| Action | Code |
| --- | --- |
| `RefuseChunk`, `OutOfPages`, `OutOfColumns`, `OutOfSlots` | the places where an iteration raises; the process stops |
| `EvictForPages`, `TakePages`, `EndTake` | `_allocate_iter_slabs`, `_prepare_target_prefill_inplace` |
| `Prefill` | `_run_prefill`: target run, calibration, first token |
| `EvictForScratch`, `Verify` | `_run_decode_iter`: scratch slots, proposal, target verify, acceptance, calibration, `commit_verify`, release, `complete_many` |
| `Output`, `SpecCleanup`, `EndStep` | `_process_spec_output` |

In `Verify` the drafts are any tokens, and the target says what it would on a
plain run only if it reads the K/V and the state that belong to the tokens
before (`ReadsRight`); a mix-up of pages therefore changes the answer.

`Offline` adds what `LLM` adds: `TakePrompt`, a step per prompt, and `EndReceive`
are `offline_receive_msg` and replace the socket, `AllFinished` is the exception
that ends the loop, `SendResult` records answers. A call with a list of
`SamplingParams` gives each prompt its own; with a single one, all prompts have that
object (`[sampling_params] * len(prompts)`, `llm.py:87`). `OneParams` says which; in
the second case `ClipShared` is the `_process_one_msg` that clips: it writes the new
limit to every prompt, message and pending request that has not read it yet.

`Frontend` has a step per stretch between two awaits: `Request`, `PromptArrives`,
`PromptTimesOut`, `WakeUp`, `Consume`, `Leave`, `AbortUser` of each request,
`Listen`; `Tokenize`, `SendOn`, `Detokenize` of the workers, a step per message
sent; `Receive` and `Reply` of the scheduler. A socket is a first-in-first-out
pipe per sender, so messages of two senders arrive in any order. The server has a
response template in the model; without one the stage `prompt` is not entered.

`Launch` has a step per process start, socket set, model load, acknowledgement and
exception. Ctrl-C comes up to `Presses` = 2 times, when all children are there (in the
middle of start-up it finds some that do not exist yet), and goes to the whole process
group. It ends the wait for acknowledgements and the join. `uvicorn` takes the first
as the request to stop, and then waits without a timeout (`api_server.py:547`) until
no response is open; the second ends that wait. `response` is what it waits for: one
response, which stands for any number of them, and which is answered only while the
scheduler and the detokenizer run. The children are no daemons, so the interpreter
joins them at its exit.

`PagedAttention` has a step per block of keys, `GatedDelta` and `Experts` one per
kernel or layer call, `Detokenizer` one per call, `ResponseParser` one per event of
`feed` and one for `finalize`, which drops what is withheld and then renders what the
parser's own `finalize` yields: a chunk of text that it had held back, or none, and
the close of the last region.
A sum is the sequence of its terms, with their exponents, so that a term added
twice, left out or scaled wrongly shows. The groups of a launch run one after
another: they write disjoint elements, and a second write to one would show as a
second result. The kernels refuse more than 16 query heads per K/V head, and so
does the module's assumption.

How data is abstracted:

* **A node is the sequence of tokens from the root to its end.** Its parent is
  the longest node that is a strict prefix, its key the rest. A split adds a
  node and moves nothing, and a handle keeps its meaning, as it does in
  `_split_at`, where `self` stays the deeper end. `page` maps each cached prefix
  to the page of its last token.
* **K/V and recurrent state are the prefix they encode.** `kv[p]` is the prefix
  whose last token's K/V page `p` holds, `state[s]` the prefix slot `s` has
  folded in. `Forward` writes both from the tokens of the batch, so
  `ContextCorrect` and `StateCorrect` say that attention and recurrence read
  what they should. These two variables have no counterpart in the scheduler's
  code; they are what the kernels leave in the buffers.
* **A row of the page table is a sequence** in the request's record. Only the
  number of free rows is kept: a row's index is used for nothing else.
* **Time is left out.** Eviction and shedding take the coldest candidate in the
  code and any candidate in the model, which covers every order of access.
  `running_reqs` is a set, and a decode batch any sequence of it.
* **The sampled token is any token**; logits and sampling are not modelled.
* **The pages of a batch** are taken by the code in one call and dealt out in
  order; the model takes each request's share in turn from the same
  first-in-first-out list, which hands everyone the same pages.
* **`Slots`** is a set: `alloc` pops the newest one, the model any.
* A request that is over becomes the empty record, so finished requests that
  differ only in their past are one state.

### Constants

`Reqs`, `Slots`, `CacheType` (`"naive"`, `"radix"`, `"hybrid"`), `NumPages`,
`MaxRunning`, `Budget` (`max_extend_tokens`), `MaxPosition`, `Align` (32 in the
code: `_align_up_32`), `ExtraPerReq` (`DecodeManager.extra_per_req`, 0 without
speculation), `Workload`, `Vocab`, `Eos`, in `SpecScheduler` also `Target` (the token the
target model prefers after a sequence) with `K = ExtraPerReq`, in `Offline`
`Prompts` and `Single` (those lists of prompts that come with one `SamplingParams`).
`SliceIsView` says what an assignment to a slice of an mlx array does:
`TRUE` if it reaches the array, which the admission code takes for granted,
`FALSE` if a slice is a copy (section 5). The assumptions are those of the code:
at least two pages (`_determine_num_pages` asserts it), positive limits,
non-empty prompts and at least one token asked for.

## 3. Runs

| Run | Size | Question |
| --- | --- | --- |
| `hybrid` | hybrid cache, 4 requests, 3 slots, 7 pages, 2 rows, budget 3, `Conversation`; 20,000 states | the twelve invariants of the plain loop |
| `radix` | radix cache, 4 requests, 6 pages, 2 rows, budget 3, `Branches`; 68,000 states | lengths when edges are split under live requests, a batch whenever there is work |
| `offline` | naive cache, up to 3 prompts, with their own parameters or one object for all, 5 pages, 2 rows, budget 2, fairness; 66,000 states | `generate` returns, with the right answers, and gives back all it took |
| `serving` | hybrid cache, 3 requests, 2 slots, 7 pages, 2 rows, `Turns`, fairness; 13,000 states | implements `Serving`; everyone is served |
| `tight` | speculative, hybrid, K = 2, 3 requests, 3 slots, 10 pages, 2 rows, page table of 5 columns; 3,700 states | contents, ownership, draft and lengths up to every kind of failure |
| `answers` | speculative, radix, K = 2, 2 requests, 14 pages, fairness; 5,300 states | implements `Generation`; nothing fails; everyone is answered |
| `frontend` | 2 requests out of three kinds, a tokenizer and a detokenizer or one worker for both, bursts of 2 tokens, fairness; 218,000 states | no lost reply or wakeup, nothing left behind, everyone answered |
| `algorithms` | block 4, split 4, 2 of 4 rows, prefixes to 17; 4 slots, windows of 3 tokens, W = 2; 3 experts, 1 or 2 tokens; 2 uids, 4 tokens of 7; 5 events of a reply; a launch with 0, 1 and 2 tokenizers, exceptions anywhere, Ctrl-C once or twice, a response open or not, fairness; 236,000 states | each algorithm against its definition; the server serves only when all are ready and linked; start-up ends; what an interrupt ends |
| `align`, `slices`, `scratch`, `pages` | small servers | find the disagreements of section 5 |

The properties:

* `TypeOK`, `SpecTypeOK`: the types of the scheduler's state.
* `SlotOwnership`: `MambaStatePool.check_ownership`, at every moment and with
  live requests counted in.
* `PageOwnership`: `CacheManager.check_integrity` and the tests'
  `assert_balanced`, page by page instead of as a sum.
* `RefCountsExact`, `CountersExact`, `RadixShape`: the cache.
* `HandlePinned`: what `match_prefix` returned stays good while it is locked.
* `ContextCorrect`, `StateCorrect`: contents.
* `NobodyForgotten`: between two steps whoever holds resources is running or is
  the one chunked request at the head of the list, and rows are not lost.
* `NeverStarved`: with more slots than rows, as `EngineConfig` requires,
  `acquire_mamba_slot` never comes back empty-handed.
* `AllocationBacked`: the pages all admitted requests may still need are free or
  evictable. It implies that `allocate` and `evict` never fail.
* `ReqsWellFormed`: the assertions of `Req.__post_init__` and `_prepare_batch`,
  and that rows of the page table are long enough.
* `WorkBuildsBatch`: a step that finds work builds a batch.
* `Served`, `KeepsPromise`: liveness, and refinement of `Serving`.
* `PageOwnership`, `ContextCorrect`, `StateCorrect` again, in `tight`: with
  rejected drafts, scratch slots and pages shared by draft and target.
* `DraftInSync`: the invariant in the head of `dflash_engine.py`, also for the
  cached prefixes a later request starts from.
* `OnePending`: after an iteration a running request has one token that is not
  cached, and pages for what is cached and no more.
* `NeverFails`, `Answered`, `KeepsPromise` of `SpecScheduler`: no iteration
  raises; every request ends; the stream refines `Generation`.
* `ResultsComplete`, `Returned`: each prompt of `generate` gets its own tokens, the
  call returns, and every page and row is given back then. An answer is as long as its
  own prompt allows if the prompt has its own parameters; under a shared object, as
  long as the prompt allows that leaves the least room (section 5).
* `ListenerSafe`, `NoLostWakeup`, `NothingLost`, `Forgotten`, `AnsweredToTheEnd`:
  the API server. `PromptFirst` is the comment of `message/frontend.py`, which
  holds if the worker that sends the prompt also sends the replies; with workers
  of its own the first token may overtake the prompt, and `NothingLost` says that
  this loses nothing.
* `ReadyMeansAll`: `uvicorn` runs only when every child is in its loop, and each
  address is bound once, sent to and received from. `Settles`: start-up ends unless
  something fails; an interrupt ends every child, and the API process too if no
  response is open. If one is, nobody is left to finish it, and `uvicorn` waits until
  the client leaves or Ctrl-C is pressed again.
* `AttentionExact`: one result per query and head, the softmax over what its mask
  lets it see.
* `SlotsArePrefixes`, `ExpertsSummed`, `TextExact`.
* `StreamedToTheEnd`: when a reply ends, what was streamed is the message, but for
  blanks that were withheld when the parser still had text to give out (section 5).

Why the bounds are enough to see the interesting cases. With two rows, four
requests give two that run, one that waits and one that is cached. Prompts
share prefixes: in `Conversation` each continues the one before, which lines
snapshots up on one path (hits above and below a tombstone, adoption, a snapshot
on a locked chain); in `Branches` they part in the middle of an edge while
handles are held on both sides. Budgets of 2 and 3 cut prompts into chunks. The
pools are smaller than what the workload would cache, so that leaves go for
pages and for slots. With K = 2 a verify step accepts none, some or all drafts,
overshoots `max_tokens` by less and by as much as it may, and meets the
end-of-sequence token inside an accepted run. `tight` has a page table so short
and so few pages and slots that each way to fail happens; a state after a failure
still satisfies the invariants. Two requests in `frontend` interleave with each
other and with a shared or a second worker, and a burst of 2 gives a message with
several replies of one request. Lengths in `algorithms` lie on both sides of every
block, split and tile, and beyond the largest number of splits. In `offline`
two of the prompts under a shared object are cut short, to different limits, in every
order with one that is not and one that is dropped, with chunks that are admitted in
several rounds. Two presses are all that `Launch` tells apart: a third finds
at most a join that ends by itself.

In `serving` the pool has as many slots as rows. `EngineConfig` refuses that, but
`CacheManager` and the admission code are written for it, and
`tests/test_scheduler_loop.py:280` runs them so
(`test_a_dry_pool_with_nothing_to_reclaim_waits_for_a_slot_to_come_back`): `Starved`
happens only then, and the promise holds even so. Every action fires in a
passing run, and the mutants listed in `PROJECT.json` (a dropped guard, a
missing reset, an off-by-one, each defined before the definition it changes)
make each property fail.

`Align` is 1 in the passing runs, where the number of pages then bounds
`max_seq_len`, as it does in the code when it is a multiple of 32; `align` has
the other case.

Symmetry: requests and slots are interchangeable in `hybrid`, `tight` and
`scratch`, requests in `radix`, `slices` and `pages`; no module orders them (`SetToSeqs` takes all orders, and
`CHOOSE` is used only where one value qualifies). The action property of
`radix` mentions no request. The runs with liveness use no symmetry.

Fairness: `FairSpec` has weak fairness of `Step`, the thread's next step when it
has one: `run_forever` does nothing else, and no step waits for anything but a
message. Clients need not send anything, and nothing is assumed about what is
sampled or evicted. `FairSpecSpec` and `OfflineSpec` say the same of the
speculative loop and of `generate`, which is that loop. In `Frontend` the event
loop runs each coroutine that can go on, and the listener; each worker and the
scheduler run for ever; nothing is assumed of clients that leave and of timeouts. In
`Launch` every process goes on and a signal that was sent arrives; nothing has to fail,
no client has to leave, and the last reply of a response need not come.

Deadlock is checked where the system never stops: in the runs of the scheduler
the thread waits for messages when nothing is left to do (`RunWhenIdle`). It is
not checked in `tight`, where the process stops when an iteration fails, in
`offline`, where the call returns, in `frontend`, whose requests come to an end, and
in `algorithms`, where computations end and a server goes down or hangs.

## 4. Proofs

TLAPS checks these for every value of the constants that satisfies the
assumptions: any number of requests, pages, slots and rows, any workload, budget and
cache type. Each is `Spec => []P` for the invariant named; `WorkGetsBatch`,
`StreamsWhole` and `PromiseKept` are `Spec => P` for action properties and a refinement,
and the two about `Offline` are implications from `OfflineSpec`, those of `SpecProofs`
from `SpecSpec`.

| Theorem | Property | Beyond the assumptions of the modules |
| --- | --- | --- |
| `SchedulerProofs!Inductive` | `IInv`, on which all that is proved of this loop rests | |
| `SchedulerProofs!CacheShape` | `RadixShape` | |
| `SchedulerProofs!SlotsOwned` | `SlotOwnership` | |
| `SchedulerProofs!LocksCounted` | `RefCountsExact` | |
| `SchedulerProofs!HandlesCached` | `HandleCached`: the part of `HandlePinned` about the cache | |
| `SchedulerProofs!HandlesPinned` | `HandlePinned` | `[][RowAssigned]_vars` |
| `SchedulerProofs!CountersCounted` | `CountersExact` | |
| `PageProofs!PagesOwned` | `PageOwnership` | |
| `PageProofs!ContextExact` | `ContextCorrect` | `[][RowAssigned]_vars` |
| `PageProofs!NaiveContextExact` | `ContextCorrect` | naive cache |
| `PageProofs!StatesExact` | `StateCorrect` | |
| `PageProofs!Types` | `TypeOK` | |
| `AdmissionProofs!Remembered` | `NobodyForgotten` | |
| `AdmissionProofs!WellFormed` | `ReqsWellFormed` | |
| `AdmissionProofs!SlotsSuffice` | `NeverStarved` | hybrid cache: finitely many slots, more than rows |
| `AdmissionProofs!Integrity` | `Conserved` | |
| `AdmissionProofs!Backing` | `AllocationBacked` | |
| `AdmissionProofs!WorkGetsBatch` | `WorkBuildsBatch` | `MaxSeqLen <= NumPages`; slots as in `SlotsSuffice` |
| `ServingProofs!PromiseKept` | `KeepsPromise` of `Scheduler` | |
| `ServingProofs!OfflineIsLoop` | `OfflineSpec => Spec` | `OwnLimits` |
| `ServingProofs!GenerateCompletes` | `ResultsComplete` | `OwnLimits` |
| `SpecProofs!SpecTypes` | `SpecTypeOK` of `SpecScheduler` | |
| `SpecProofs!OnePendingToken` | `OnePending` | |
| `SpecProofs!SpecPagesOwned` | `PageOwnership` | |
| `SpecProofs!SpecStatesExact` | `StateCorrect` | |
| `SpecProofs!SpecContextExact` | `ContextCorrect` | `[][RowAssigned]_vars` |
| `SpecProofs!DraftSynced` | `DraftInSync` | `[][RowAssigned]_vars` |
| `SpecProofs!NaiveDraftSynced` | `ContextCorrect`, `DraftInSync` | naive cache |
| `FrontendProofs!ListenersMaps` | `ListenerSafe` | |
| `FrontendProofs!WakeupsKept` | `NoLostWakeup` | |
| `FrontendProofs!NothingIsLost` | `NothingLost` | |
| `FrontendProofs!OverIsForgotten` | `Forgotten` | |
| `FrontendProofs!PromptsComeFirst` | `PromptFirst` | |
| `AlgorithmProofs!ServesWhenReady` | `ReadyMeansAll` | |
| `AlgorithmProofs!StreamsWhole` | `StreamedToTheEnd` | |
| `AlgorithmProofs!SumsExperts` | `ExpertsSummed` | |
| `AlgorithmProofs!SlotsHoldPrefixes` | `SlotsArePrefixes` | |

No theorem assumes `SliceIsView`. `RowAssigned` is about one assignment, that of
`prefill.py:112-114`, at the moment it is made: the row then holds the pages that were
matched. The theorems conclude from it that rows, pages and the draft's cache are right
at all later moments, through chunks, decoding, windows, freeing, insertion and
eviction. The code on mlx satisfies it in every behaviour in which no prefix is found
in the cache, so always with `--cache-type naive`, which the two `Naive` theorems prove;
and code that assigns to the array instead of a slice of a slice satisfies it
everywhere (`AlwaysAssigned`, `SpecAssigned`). After the first hit mlx does not, and the
properties then fail, as run `slices` shows (section 5); what holds of a hit on mlx is
`HandlesCached`.

`OwnLimits` says that no prompt is cut short by an object it shares: each has
`SamplingParams` of its own, or the limit all share fits every prompt that is not
dropped. Without it `OfflineSpec` is no client of the loop, as messages change after
they were sent; what answers are then is model-checked (`offline`).

More slots than rows is what `EngineConfig` enforces. `MaxSeqLen <= NumPages` is what
`engine.py` means by its minimum; where rounding up undoes it, `WorkBuildsBatch` is
false, as run `align` shows.

**The invariant of the loop.** None of the properties is inductive. That a split,
an insert or an eviction leaves a tree needs the tree to be closed (a cached
prefix per prefix of a node) and to branch at nodes, and needs the tokens that
are inserted to have pages: `cached_len` never passes the row. That in turn
rests on how the loop's parts follow each other: the batch consists of the first
requests of the pending list while requests are admitted, of live ones when it
runs; `device_len` counts the ids, plus the token to come between `Forward` and
`Output`; a prepared request has a page per token. `IInv` is the conjunction

    Typed                      every variable has its kind, the cache is a tree
    InboxOK, PendingOK         no request is queued twice, and those queued are waiting
    AdmissionOK, SlotOK        what the admission loop has done so far
    PlacesOK                   what batch, running and finished hold
    ReqLengths, DeviceLengths, RowLengths

There is one lemma per action (`SubmitKeepsIInv` to `EndStepKeepsIInv`; those of
`SchedulerCore` are in `CoreProofs`, for both engines), with shared ones for what several actions do: `AddOneReqKeepsIInv`,
`SelectBatchKeepsLists`, `EvictKeepsIInv`, `MatchResult`, `CleanupCache`. The
modules that follow extend this one in the order of the table, and each adds
conjuncts of its own that are inductive together with `IInv` and those before.

**The tree.** `CoreProofs` defines `IsTree` and shows for each operator that
it keeps it and what it changes: `SplitIsTree`, `WalkResult`, `AddLeafResult`,
`InsertResult`, `RemoveLeafResult`, `LockResult`, `UnlockResult`; that
`MatchedIsLongest` and `SnapshotAncestorIsNode` name what their CHOOSE is meant
to. It starts from the few facts about sequences the provers need; `IsPrefix`
and `Prefixes` are those of the community modules.

**Slots.** Most steps move no slot; `NoSlotMoves` says that ownership is kept
then, even if an edge is split. The rest is one lemma per way a slot moves: from
the pool, by eviction, by shedding, into the tree or back to the pool at cleanup.

**Locks.** `LocksInv`: the count of a node is the number of requests with their
handle at or below it, among those that hold resources and the one that waits for a
slot. `SplitLocks` is the heart of it: the upper half of a split edge is above the
same handles as the lower half, because handles end at nodes and the tree branches
at nodes. As a locked node is not evicted, what a handle refers to stays cached
(`HandlesCached`). `Pinned` adds the row: its pages are those, since they were assigned
(`RowAssigned`) and as no step changes either; `HandlesFit` that a handle is a prefix of
what the request has computed.

**Sums.** The counters and the page budget are sums over sets. What a fold computes
by recursion cannot be shown by induction here, so the model states a sum as
`Total(f)`, the number of pairs of an `x` and a number from 1 to `f[x]`. Facts about sums are then facts about the cardinality of a union: a sum changes by
what an element weighs that comes, goes or changes.

**The counters.** `Counted`: `protected_size` is the sum of the edges of locked nodes,
`evictable_size` that of the others. Insert and evict add or take one edge; a split
keeps the sum (`SplitTotal`), as its halves are together as long as the edge was and
are locked alike. Lock and unlock walk a path and change the two by what the walk
passes (`LengthsOnPath`).

**Pages.** `PagesInv` says page by page that free list, tree and rows, each row
past the prefix it shares with the tree, are disjoint, without repetition, and
cover all pages. It is stated for any list, map and rows (`OwnedOnce`), so that
eviction, allocation, admission and cleanup are lemmas about those. Cleanup hands
the middle of a row to the tree and the rest back; it needs the tree to hold what
the request matched. `RowsSettled` says that a row is as long as `cached_len` except
while a batch is prepared and run.

**Contents.** `Contents`: the pages of tree and rows hold K/V of the prefix they
stand for; it takes the pages' contents as a parameter, so that the same lemmas serve the
target's K/V and the draft's. `Forward` writes only pages past the shared prefix, each of
which has one owner (`PagesInv`), and the shared ones hold what is needed because they
are the tree's (`Pinned`). `States` says the same of slots, with `ForkReady`: the snapshot
that a waiting request is to fork is there.

**Admission.** `Kept` says for every place of the thread in which list a request
is; the chunked request is the only entry of `chunked_list`, or the first of
`pending`. `RowsCounted` counts rows. `Numbers` keeps what was admitted within
`max_seq_len` and leaves a token to compute. `SlotsSuffice` is a count: were there
no slot to be had, each would be held by a live request, of which there is one fewer
than rows, or be the snapshot that must stay.

`Conserved` is the sum of `check_integrity`: free pages, both sizes of the cache and
what the rows hold past their cached prefixes are `NumPages`. `Backed` is what admission
promises: what is free or evictable covers what all live requests may still need
(`Enough`); while requests are admitted, `reserved` is no less than the share of those
that run or are in the batch (`Promised`); and the request that waits for a slot still
fits (`SlotFits`). The lock that is taken while a request is admitted makes pages
unevictable, which is why the code checks a second time, and the proof uses that
check. `Rooms` ties the need of each request to its lengths. `WorkGetsBatch`: a round
that has built no batch so far has its whole budget, and nothing is reserved if nobody
runs (`RoundBegins`); all pages are then free or evictable, and the first request
fits (`FirstFits`).

**The refinement of `Serving`.** The abstract queue is what is pending, behind those
of a batch whose first token is to come (`Ahead`); a stream is a request that has had
a token and is to have more; what is left of it is read off its lengths. That `Output`
is one abstract step needs `Batches`: a batch is of prefills, of which only the last may
be cut short, or of all streams (`OneKind`); what was admitted so far is such a batch
(`AdmittedSoFar`); who runs has had a token, unless it is the one that is being read
(`RunningStreams`). `Submit`, `ProcessMsg` and `Output` are visible, all other
steps stutter (`NextShown`).

**Offline generation.** `Asking`: the uids below `counter` have been sent, those from
it on are idle, and the prompts not taken are the rest of the argument. So
`TakePrompt` is a `Submit`, all other steps are the loop's or change
nothing of it (with `OwnLimits` there is no `ClipShared`), and `OfflineIsLoop` carries every theorem about `Spec` over. `Answers` follows a
request from its prompt to its answer: what is recorded is what its `ids` have past the
prompt, until the step that finishes it leaves it `Complete`. `Sent` says that no message
is lost, `Ended` that nothing is left to send, admit or decode when the call has
returned. Then nobody is live (`NobodyForgotten`), no handle is locked, and
`Conserved` leaves all pages available.

**The frontend.** Three invariants, one on the other:

* `Shape`: types; `Keys`, which maps have an entry for a request at which stage;
  `Wakeups`, that the event is set exactly when the list is not empty, also while a
  coroutine is still at the yields of the list before; `Holding`, that it holds
  replies at its yields only.
* `Delivery`: nothing of a request is anywhere before it comes (`Known`), only the
  detokenizer sends replies (`RepliesFromDetok`), and `Flow`: the three lists of a
  request continue each other without a gap, the numbers in the two pipes are just
  those that come next up to `told`, and those of the nearer pipe come before those
  of the farther one. A message may hold any number of tokens of any requests, so
  this needs what `AtCounts` says: if the numbers in a message rise and are an
  interval, what the listener takes out of it counts through that interval.
  `Flow` also holds of an answer that is over and was not streamed, which is whole,
  so that nothing can come behind it (`Forgotten`).
* `Prompts`: with one worker, as long as a coroutine waits for its prompt, either
  the prompt is in front of all replies for it in the pipe, or nothing of the request
  has got to the scheduler or beyond.

**Launch.** `LaunchInv`: who has started, opened, loaded and acknowledged, in this
order, and that queue and count together are the number of children that
acknowledged. As many as there are children means all of them, and with all of them
there every address has its ends, which is a case per kind of server.

**Streamed answers.** `Sending`: the deltas of a field are what is closed, followed by
the open region up to its last printed character, and the blanks behind that are what is
withheld; in front of all content nothing is sent and nothing kept. `RightJoined`
and `LeftJoined` say how stripping and joining go together, `FirstJoined` what the
first printed chunk of the content does. `SentIsWhole`: if the region closed now, the
message would be the deltas. `finalize` adds at most one more chunk, without the blanks
that were withheld, and `WholeUpToFlush` says where they are missing. What is assumed of the parser itself is in section 6.

**Experts.** Sorting by expert is undone by `inv_order`: `order` after `inv_order` keeps
the order of 0 .. n - 1, and a map of that set that keeps its order is the identity
(`StaysInPlace`), whichever of equal elements came first.

**Linear attention.** `Flattened`: the ragged offsets say where each segment of a
flattened batch lies, so the kernel appends to a slot what belongs to it (`Kernel`).
`Advance`: a window and the tokens behind it are the end of the padded sequence, so
what the convolution makes of them is what it makes of the whole; `AdvanceFirst`: it
does so too after the first of them, wherever one stops. `SlotInv` adds to the
property that running sequences have slots of their own and, between a verify run and
its commit (`Verifying`), that the scratch slots belong to no sequence and that what
is captured and the windows left behind are right for every number of drafts that may
be accepted. One lemma per action keeps it.

**The speculative loop.** `SpecInv`: as long as no iteration has failed, `Typed`,
`ListsOK` and `ReqLengths` as above, `SpecDevices` and `SpecRows`. At the places of the
thread both engines share this is `IInv`, so the steps of `SchedulerCore` are done by
its lemmas; `SharedInv` says where. What is new is a decode iteration: a request takes
columns for a token and its drafts (`Fitted`), `Verify` keeps some of them
and gives the rest of the row back, and `Output` appends what was sampled, up to the end
of sequence or of the budget. Then its row is as long as what is cached and one token
is ahead of it, whatever the drafts said (`OnePending`). `SpecTypes` also says
that the loop stops in no other way than by an iteration that failed.

Pages, slots and contents rest on the lemmas about the plain loop where both engines do
the same. New are `Takes`, by which a request gets the pages of its window, and `Ran`,
which is `Verify` for given drafts: it keeps the pages of what was accepted and returns
the others to the free list, writes the K/V of target and draft at the window only, and
leaves the slot at what was accepted. `Held` is the ownership of pages and slots with the
states of slots, `Filled` the contents of both caches. An iteration that fails leaves them
as they were (`LeftAsItWas`), so these theorems hold of a loop that has stopped as well.

**Only model-checked.** `Served`, `Answered`, `Returned`, `AnsweredToTheEnd` and
`Settles`: liveness under fairness is out of reach of the prover. Of `SpecScheduler` its
refinement of `Generation`, and `NeverFails`, which depends on how large pools and page
table are. `ResultsComplete` where a shared object was clipped. And `AttentionExact` and
`TextExact`: an online softmax over blocks and splits, and characters put together byte
by byte, are induction over data throughout, and the library's theorems on recursion and
induction cannot be instantiated.

## 5. Findings

`align`: `Engine.max_seq_len` is `_align_up_32(min(max_seq_len, num_pages))`
(`engine/engine.py:84`), which is more than `num_pages` when that is not a
multiple of 32. A request whose `max_tokens` is cut to it can need more pages
than there are. It is never admitted, all requests behind it wait, and the loop
goes round without a batch, where `tests/test_scheduler_loop.py:191` asserts
that "no batch could be built, but work remains" does not happen.

`slices`: `_try_allocate_one` assigns the matched pages to a slice of a row of the
page table (`scheduler/prefill.py:112-114`). With mlx a slice is a copy, so the row
keeps what it held. With `SliceIsView = FALSE` a request that hits the cache reads
the K/V of other pages, and `ContextCorrect` fails in a few steps. All other runs
use `TRUE`, what the code means, so that they show what else could go wrong.

`scratch`: `spec_engine.py:225-228` calls a dry pool "cache pressure, not a fatal
error". When the snapshots that hold the slots are on the locked chain of the
request that runs, `evict_for_mamba` has nothing to reclaim, and the engine raises
(`:235`). Admission sheds such a snapshot (`_shed_cached_snapshot`), verify does not.

`pages`: `scheduler.py:67-69` has `extra_per_req` account for the peak of an
iteration "when admitting new reqs". It is added for requests that run
(`decode.py:26`), not for those that are being admitted, so two requests admitted
in one batch may find too few pages for their first verify step, and the
assertion of `CacheManager.allocate` ends the loop.

Two more have no run of their own; the properties of the passing runs say how far they go:

* `generate` with one `SamplingParams` puts that object under every prompt
  (`llm/llm.py:87`), and `_process_one_msg` writes the limit of a prompt that leaves less
  room into it (`scheduler/scheduler.py:145`). `PendingReq.output_len` reads it at
  admission, so all prompts not yet admitted, those before it included, are cut to that
  limit, though the warning names one request. `ResultsComplete` bounds an answer by the
  limits of all prompts that share the object, as their own is not kept.
* `ResponseAdapter.finalize` clears what is withheld before it renders what the parser
  still gives out (`parser/response_parser.py:98`). If that has text, as when the parser
  held back what might have begun a marker, the blanks before it are not streamed, and the
  stream is not "byte-identical to the non-streamed" text (`:150`). `StreamedToTheEnd`
  makes an exception of these blanks.

Smaller observations, which no line of the repository contradicts:

* `Detokenizer.withdrawn`: when text that ends in half a character follows a CJK
  character, `find_printable_text` emits the CJK character as a guess; if the
  next token changes nothing of it but the guess at the rest gets shorter,
  `sent_offset` moves back and the character is emitted twice. `TextExact` leaves
  these requests out. Text behind the last blank is lost when a request ends
  inside a character; `TextExact` asks for all of the text only if it does not.
* The first two branches of `find_printable_text` do not apply to text that ends
  in a replacement character, which is all it is called with unless the text is
  empty.
* A chat that is not streamed leaves its list and event in the maps, and a prompt
  that comes as `wait_for_prompt` times out its prompt.
* `LLM.generate` leaves out a last token that is the end-of-sequence token even
  with `ignore_eos`.
* A dropped request gets no reply; its coroutine waits for ever.
* After one Ctrl-C with a response open, the API process stays: the scheduler and the
  tokenizers have ended, and `uvicorn` waits for a response that they were to finish.
* After a parser error the adapter passes raw text on, and white space that was
  withheld is lost.

## 6. Not modelled

* **Numerics.** Floating point, normalisation, rotary embeddings, dense layers,
  sampling with a temperature: any token may be sampled, and the target of the
  speculative engine is any function of the tokens it reads. Inside the kernels,
  fragments and the threads of a simdgroup are below the model's grain.
* **Engine start-up.** Loading weights, measuring memory, downloading, logging.
* **Around the launch.** The parsing of arguments; that ZeroMQ waits for what is still
  to be sent; keep-alive connections, which `uvicorn` closes itself.
* **Metadata of verify batches**, which is the arithmetic of prefill batches with
  lengths of K + 1; `DFlash2`, which differs in the draft's layers.
* **The transformers response parser**, external. It is assumed that the message
  it makes has no blanks before the close of a region and none before its content,
  as the adapter's comments say.
* **Failing workers.** A template that fails twice ends a worker. `Launch` has that,
  and that its children stay or go; in `Frontend` workers do not fail. Messages are
  not lost: the sockets are local.
* **Out of the assumptions.** A request with `max_tokens = 0`, which the code
  accepts, and an endless flood of requests, which would keep prefill before
  decode for ever (the requests of a run are finitely many).

What could be proved next: that `SpecScheduler` refines `Generation`, from its invariants
on contents, as what `Verify` says depends on what it reads; and its lock counts and
counters as properties of their own, with the lemmas about the steps it shares with
`Scheduler`.
