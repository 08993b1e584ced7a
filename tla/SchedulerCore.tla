---------------------------- MODULE SchedulerCore ----------------------------
(***************************************************************************)
(* The state of the scheduler process and the part of its loop that both   *)
(* the plain and the speculative engine run: receiving requests, building  *)
(* the next batch, and giving back what a finished request held.           *)
(*                                                                         *)
(* One thread runs all of it.  `pc` is where that thread is:               *)
(*   recv     normal_loop, waiting for or reading messages                 *)
(*   admit    PrefillManager.schedule_next_batch, at the next pending req  *)
(*   slot     acquire_mamba_slot for the req that just passed the budget   *)
(*   alloc    _prepare_batch                                               *)
(*   forward  _forward                                                     *)
(*   output   _process_last_data, the loop over the batch                  *)
(*   cleanup  _process_last_data, the loop over finished_reqs              *)
(***************************************************************************)
EXTENDS RadixTree

CONSTANTS
  Reqs,         \* the requests clients may send
  Slots,        \* MambaStatePool: the slots 1 .. num_slots
  CacheType,    \* "naive", "radix", or "hybrid" for the hybrid models' cache
  NumPages,     \* engine.num_pages
  MaxRunning,   \* max_running_req
  Budget,       \* max_extend_tokens
  MaxPosition,  \* the model's (or the override's) max_seq_len
  Align,        \* what max_seq_len is rounded up to a multiple of: 32
  ExtraPerReq,  \* DecodeManager.extra_per_req: 0, or K with a spec engine
  SliceIsView,  \* whether a slice of an mlx array writes through to the array
  Workload,     \* the (prompt, max_tokens, ignore_eos) a client may ask for
  Vocab,        \* the tokens the sampler returns
  Eos

Pages == 1..NumPages

ASSUME NoneAssumption == None \notin Slots
ASSUME CacheAssumption == CacheType \in {"naive", "radix", "hybrid"}
ASSUME SliceAssumption == SliceIsView \in BOOLEAN
ASSUME SizeAssumption ==
  /\ NumPages \in Nat \ {0, 1}
  /\ {MaxRunning, Budget, MaxPosition, Align} \subseteq Nat \ {0}
  /\ ExtraPerReq \in Nat
ASSUME WorkloadAssumption ==
  Workload \subseteq [prompt : Seq(Vocab) \ {<<>>}, max_tokens : Nat \ {0}, ignore_eos : BOOLEAN]

Lesser(a, b) == IF a <= b THEN a ELSE b

(* Engine.max_seq_len = _align_up_32(min(max_seq_len, num_pages)) *)
MaxSeqLen == ((Lesser(MaxPosition, NumPages) + Align - 1) \div Align) * Align

VARIABLES
  inbox,      \* UserMsgs on the queue from the tokenizer
  pending,    \* PrefillManager.pending_list
  running,    \* DecodeManager.running_reqs
  batch,      \* the reqs of the batch being built or run
  chunked_list, \* those of them whose prefill is cut short by the budget
  budget,     \* PrefillAdder.token_budget
  reserved,   \* PrefillAdder.reserved_size
  prepared,   \* how many reqs of the batch _prepare_batch has given pages
  finished,   \* Scheduler.finished_reqs
  rows,       \* TableManager._free_slots, each free row as what is left in it
  tree,       \* the prefix cache
  freePages,  \* CacheManager._free_slots
  freeSlots,  \* MambaStatePool._free_slots
  req,        \* each request's PendingReq and Req
  kv,         \* the prefix a page holds the last token's K/V of
  state,      \* the prefix a slot holds the recurrent state of
  pc

cache == <<tree, freePages, freeSlots>>
lists == <<inbox, pending, running, batch, chunked_list, finished>>
adder == <<budget, reserved, prepared>>
data  == <<kv, state>>
vars  == <<lists, adder, rows, cache, req, data, pc>>

-----------------------------------------------------------------------------
(* A request.  `stage` says which object stands for it: a message, a        *)
(* PendingReq, or a Req that holds resources ("live").  `row` is its row of *)
(* the page table, as far as it was written for it, `stale` what the row     *)
(* held before, `handle` the node of its cache_handle.                       *)
NoReq ==
  [stage |-> "new", prompt |-> <<>>, output |-> 0, ignore_eos |-> FALSE,
   ids |-> <<>>, cached |-> 0, device |-> 0, max_device |-> 0,
   chunked |-> FALSE, handle |-> Root, slot |-> None, row |-> <<>>, stale |-> <<>>]

ExtendLen(r) == req[r].device - req[r].cached
RemainLen(r) == req[r].max_device - req[r].device
CanDecode(r) == ~ req[r].chunked /\ RemainLen(r) > 0
InputLen(r) == Len(req[r].prompt)

InflightTokens == Total([r \in running |-> RemainLen(r) + ExtraPerReq])
Available(t) == t.evictable + Len(freePages)

Runnable == pending # <<>> \/ running # {}

(* The request the admission loop is at. *)
Current == pending[Len(batch) + 1]

Init ==
  /\ inbox = <<>> /\ pending = <<>> /\ running = {} /\ batch = <<>>
  /\ chunked_list = <<>> /\ finished = {}
  /\ budget = 0 /\ reserved = 0 /\ prepared = 0
  /\ rows = [i \in 1..MaxRunning |-> <<>>]
  /\ tree = EmptyTree
  /\ freePages = [i \in 1..NumPages |-> i]
  /\ freeSlots = Slots
  /\ req = [r \in Reqs |-> NoReq]
  /\ kv = [p \in Pages |-> <<>>]
  /\ state = [s \in Slots |-> <<>>]
  /\ pc = "recv"

-----------------------------------------------------------------------------
(* A client's request reaches the scheduler's queue.  The queue is read only *)
(* at "recv", so a message that arrives in the middle of a step is the same  *)
(* as one that arrives at its end.                                           *)
Submit(r) ==
  /\ pc = "recv"
  /\ req[r].stage = "new"
  /\ \E w \in Workload :
       req' = [req EXCEPT ![r].stage = "inbox", ![r].prompt = w.prompt,
                          ![r].output = w.max_tokens, ![r].ignore_eos = w.ignore_eos]
  /\ inbox' = Append(inbox, r)
  /\ UNCHANGED <<pending, running, batch, chunked_list, finished, adder, rows, cache, data, pc>>

(* Mutant: the clip is off by one. *)
MaxOutputLenPlusOne(r) == MaxSeqLen - InputLen(r) + 1

MaxOutputLen(r) == MaxSeqLen - InputLen(r)

(* _process_one_msg: a prompt that leaves no room for output is dropped,     *)
(* max_tokens is cut to the room there is.                                   *)
ProcessMsg ==
  /\ pc = "recv"
  /\ inbox # <<>>
  /\ LET r == Head(inbox)
     IN IF MaxOutputLen(r) <= 0
        THEN /\ req' = [req EXCEPT ![r] = [NoReq EXCEPT !.stage = "dropped"]]
             /\ UNCHANGED pending
        ELSE /\ req' = [req EXCEPT ![r].stage = "pending",
                                   ![r].output = Lesser(@, MaxOutputLen(r))]
             /\ pending' = Append(pending, r)
  /\ inbox' = Tail(inbox)
  /\ UNCHANGED <<running, batch, chunked_list, finished, adder, rows, cache, data, pc>>

(* normal_loop once the queue is drained: with nothing to run it blocks on   *)
(* the queue, otherwise schedule_next_batch begins.                          *)
StartStep ==
  /\ pc = "recv"
  /\ inbox = <<>>
  /\ Runnable
  /\ budget' = Budget
  /\ reserved' = InflightTokens
  /\ pc' = "admit"
  /\ UNCHANGED <<lists, prepared, rows, cache, req, data>>

-----------------------------------------------------------------------------
(* Mutant: the request whose prefill is cut short does not go back to the list. *)
StillPendingUnchunked == SubSeq(pending, Len(batch) + 1, Len(pending))

(* self.pending_list = chunked_list + self.pending_list[len(reqs):] *)
StillPending == chunked_list \o SubSeq(pending, Len(batch) + 1, Len(pending))

(* The end of schedule_next_batch and of _select_batch: the reqs admitted,   *)
(* or else all running ones, or else no batch.  A chunked req goes back to   *)
(* the head of the list.  The PrefillAdder and its two numbers end here.     *)
SelectBatch ==
  /\ pending' = StillPending
  /\ chunked_list' = <<>>
  /\ IF batch # <<>> THEN UNCHANGED batch ELSE batch' \in SetToSeqs(running)
  /\ pc' = IF batch # <<>> \/ running # {} THEN "alloc" ELSE "recv"
  /\ budget' = 0 /\ reserved' = 0

(* The loop ran out of requests, of token budget, or of table rows. *)
StopAdmission ==
  /\ pc = "admit"
  /\ \/ Len(batch) = Len(pending)
     \/ budget = 0
     \/ Len(batch) < Len(pending) /\ ~ req[Current].chunked /\ rows = <<>>
  /\ SelectBatch
  /\ UNCHANGED <<inbox, running, finished, prepared, rows, cache, req, data>>

(* Mutant: the token budget does not cut the prompt. *)
WholePrompt(remain) == remain

ChunkSize(remain) == Lesser(budget, remain)

(* _add_one_req, and schedule_next_batch's bookkeeping around it. *)
AddOneReq(r, cached, slot) ==
  LET remain == InputLen(r) - cached
      chunk == ChunkSize(remain)
  IN /\ req' = [req EXCEPT ![r].stage = "live",
                           ![r].ids = SubSeq(req[r].prompt, 1, cached + chunk),
                           ![r].cached = cached,
                           ![r].device = cached + chunk,
                           ![r].max_device = cached + chunk + req[r].output,
                           ![r].chunked = chunk < remain,
                           ![r].slot = slot]
     /\ budget' = budget - chunk
     /\ reserved' = reserved + remain + req[r].output
     /\ batch' = Append(batch, r)
     /\ chunked_list' = IF chunk < remain THEN Append(chunked_list, r) ELSE chunked_list

(* try_add_one on a request whose prefill goes on. *)
ContinueChunk ==
  /\ pc = "admit"
  /\ Len(batch) < Len(pending)
  /\ budget > 0
  /\ req[Current].chunked
  /\ AddOneReq(Current, req[Current].cached, req[Current].slot)
  /\ UNCHANGED <<inbox, pending, running, finished, prepared, rows, cache, data, pc>>

(* match_req: the tree as _walk leaves it, and the handle it returns. *)
MatchedTree(ids) == IF CacheType = "naive" THEN tree ELSE Walk(tree, ids)

MatchedHandle(ids) ==
  CASE CacheType = "naive"  -> Root
    [] CacheType = "radix"  -> Matched(tree, ids)
    [] CacheType = "hybrid" -> SnapshotAncestor(Walk(tree, ids), Matched(tree, ids))

(* Mutant: the whole prompt is looked up, and nothing may be left to extend. *)
LookupWhole(r) == req[r].prompt

(* match_req looks up all but the last token, so that one is always computed. *)
LookupIds(r) == SubSeq(req[r].prompt, 1, InputLen(r) - 1)

(* Mutant: the budget forgets what the running requests may still take. *)
DemandAlone(r, h) == InputLen(r) - Len(h) + req[r].output

(* What the request may still come to need, with what is promised already. *)
Demand(r, h) == InputLen(r) - Len(h) + req[r].output + reserved

(* Mutant: the budget is not checked again once the prefix is locked. *)
FitsBeforeLock(r, h, walked, locked) == Demand(r, h) <= Available(walked)

Fits(r, h, walked, locked) ==
  Demand(r, h) <= Available(walked) /\ Demand(r, h) <= Available(locked)

(* The prefix of the request's row: `page_entry[:] = match_indices` assigns   *)
(* to a slice of the page table.  If that slice is a copy, the row keeps what *)
(* it held; its columns start as zeros, and 0 is the first page.             *)
MatchedRow(locked, h) ==
  IF SliceIsView THEN PagesOf(locked, h)
  ELSE [i \in 1..Len(h) |-> IF i <= Len(Last(rows)) THEN Last(rows)[i] ELSE 1]

(* _try_allocate_one up to the mamba slot: match, check the budget, lock,    *)
(* check it again.  A rejection keeps the split that the match has made.     *)
TryAllocate ==
  /\ pc = "admit"
  /\ Len(batch) < Len(pending)
  /\ budget > 0
  /\ rows # <<>>
  /\ ~ req[Current].chunked
  /\ LET ids == LookupIds(Current)
         h == MatchedHandle(ids)
         walked == MatchedTree(ids)
         locked == Lock(walked, h)
     IN IF Fits(Current, h, walked, locked)
        THEN /\ tree' = locked
             /\ req' = [req EXCEPT ![Current].handle = h,
                                   ![Current].row = MatchedRow(locked, h),
                                   ![Current].stale = Last(rows)]
             /\ pc' = "slot"
             /\ UNCHANGED <<pending, batch, chunked_list, budget, reserved>>
        ELSE /\ tree' = walked
             /\ SelectBatch
             /\ UNCHANGED req
  /\ UNCHANGED <<inbox, running, finished, prepared, rows, freePages, freeSlots, data>>

-----------------------------------------------------------------------------
(* _evict_leaves takes one unlocked leaf, whichever is coldest. *)
EvictLeaf(n) ==
  /\ n \in UnlockedLeaves(tree)
  /\ tree' = RemoveLeaf(tree, n)
  /\ freePages' = freePages \o EvictedPages(tree, n)
  /\ freeSlots' = freeSlots \cup ({tree.snap[n]} \ {None})

(* The request gets its row of the table and joins the batch. *)
Admit(slot) ==
  /\ AddOneReq(Current, Len(req[Current].handle), slot)
  /\ rows' = Front(rows)
  /\ pc' = "admit"
  /\ UNCHANGED <<inbox, pending, running, finished, prepared, kv>>

AdmitWithoutSlot ==
  /\ pc = "slot"
  /\ CacheType # "hybrid"
  /\ Admit(None)
  /\ UNCHANGED <<cache, state>>

(* Mutant: a prefix hit starts from zeros. *)
ForkNothing(s) == state' = [state EXCEPT ![s] = <<>>]

(* What a slot holds once it is handed out: zeros (alloc) or, on a prefix    *)
(* hit, a copy of the snapshot of the handle's node.                         *)
ForkState(s) ==
  LET h == req[Current].handle
  IN state' = [state EXCEPT ![s] = IF h = Root THEN <<>> ELSE state[tree.snap[h]]]

(* acquire_mamba_slot with a slot in the pool. *)
AdmitWithFreeSlot ==
  /\ pc = "slot"
  /\ CacheType = "hybrid"
  /\ \E s \in freeSlots :
       /\ freeSlots' = freeSlots \ {s}
       /\ ForkState(s)
       /\ Admit(s)
  /\ UNCHANGED <<tree, freePages>>

(* evict_for_mamba(1): leaves go, with or without a snapshot, until one slot *)
(* has come back or no unlocked leaf is left.                                *)
EvictForSlot ==
  /\ pc = "slot"
  /\ CacheType = "hybrid"
  /\ freeSlots = {}
  /\ \E n \in UnlockedLeaves(tree) : EvictLeaf(n)
  /\ UNCHANGED <<lists, adder, rows, req, data, pc>>

(* Mutant: only unlocked nodes are asked for their snapshot. *)
SheddableUnlocked == {n \in SnapshotNodes(tree) : tree.ref[n] = 0}

Sheddable == SnapshotNodes(tree) \ {req[Current].handle}

(* _shed_cached_snapshot: some other node gives up its snapshot. *)
AdmitWithShedSlot ==
  /\ pc = "slot"
  /\ CacheType = "hybrid"
  /\ freeSlots = {}
  /\ UnlockedLeaves(tree) = {}
  /\ \E n \in Sheddable :
       /\ tree' = DropSnapshot(tree, n)
       /\ ForkState(tree.snap[n])
       /\ Admit(tree.snap[n])
  /\ UNCHANGED <<freePages, freeSlots>>

(* No slot to be had: unlock and wait for another round. *)
Starved ==
  /\ pc = "slot"
  /\ CacheType = "hybrid"
  /\ freeSlots = {}
  /\ UnlockedLeaves(tree) = {}
  /\ Sheddable = {}
  /\ tree' = Unlock(tree, req[Current].handle)
  /\ req' = [req EXCEPT ![Current].handle = Root, ![Current].row = <<>>,
                        ![Current].stale = <<>>]
  /\ SelectBatch
  /\ UNCHANGED <<inbox, running, finished, prepared, rows, freePages, freeSlots, data>>

-----------------------------------------------------------------------------
(* Mutant: the pages that came from the tree are freed with the duplicates. *)
DuplicatesAndShared(r, in_cache_len) == SubSeq(req[r].row, 1, in_cache_len)

(* indices[old_handle.cached_len : in_cache_len] *)
Duplicates(r, in_cache_len) == SubSeq(req[r].row, Len(req[r].handle) + 1, in_cache_len)

(* What a request leaves in its row of the page table; not kept where every   *)
(* column is written before it is read.                                      *)
LeftInRow(r) ==
  IF SliceIsView THEN <<>>
  ELSE req[r].row \o SubSeq(req[r].stale, Len(req[r].row) + 1, Len(req[r].stale))

(* table_manager.free and free_and_cache_finished_req for one finished req:  *)
(* the tree takes the pages it does not have yet and, if it has no snapshot  *)
(* there, the slot; the rest goes back to the free lists.                    *)
FreeAndCache(r) ==
  LET ids == SubSeq(req[r].ids, 1, req[r].cached)
      handle == req[r].handle
      naive == CacheType = "naive"
      in_cache_len == IF naive THEN Len(ids) ELSE Len(Matched(tree, ids))
      inserted == Insert(tree, ids, req[r].row, req[r].slot)
      kept == naive \/ KeepsSlot(tree, ids)
  IN /\ tree' = IF naive THEN tree ELSE Unlock(inserted, handle)
     /\ freePages' = freePages \o Duplicates(r, in_cache_len)
     /\ freeSlots' = IF kept THEN freeSlots ELSE freeSlots \cup ({req[r].slot} \ {None})
     /\ rows' = Append(rows, LeftInRow(r))
     /\ req' = [req EXCEPT ![r] = [NoReq EXCEPT !.stage = "done"]]

Cleanup ==
  /\ pc = "cleanup"
  /\ \E r \in finished :
       /\ FreeAndCache(r)
       /\ finished' = finished \ {r}
  /\ UNCHANGED <<inbox, pending, running, batch, chunked_list, adder, data, pc>>

EndStep ==
  /\ pc = "cleanup"
  /\ finished = {}
  /\ batch' = <<>>
  /\ pc' = "recv"
  /\ UNCHANGED <<inbox, pending, running, chunked_list, finished, adder, rows, cache, req, data>>

(* receive_msg with blocking=True calls run_when_idle and waits. *)
RunWhenIdle ==
  /\ pc = "recv"
  /\ inbox = <<>>
  /\ ~ Runnable
  /\ UNCHANGED vars

(* The part of the loop the engines share. *)
Select ==
  \/ ProcessMsg
  \/ StartStep
  \/ StopAdmission
  \/ ContinueChunk
  \/ TryAllocate
  \/ AdmitWithoutSlot
  \/ AdmitWithFreeSlot
  \/ EvictForSlot
  \/ AdmitWithShedSlot
  \/ Starved

-----------------------------------------------------------------------------
(* What must hold of the state, whichever engine runs.                      *)

Live == {r \in Reqs : req[r].stage = "live"}

(* The requests whose handle is locked. *)
Locked == Live \cup (IF pc = "slot" THEN {Current} ELSE {})

TreeTypeOK ==
  /\ tree.nodes \subseteq Seq(Vocab)
  /\ Root \in tree.nodes
  /\ DOMAIN tree.page \subseteq Seq(Vocab) /\ Range(tree.page) \subseteq Pages
  /\ tree.ref \in [tree.nodes -> Int]
  /\ tree.snap \in [tree.nodes -> Slots \cup {None}]

ReqRecord ==
  [stage : {"new", "inbox", "dropped", "pending", "live", "done"},
   prompt : Seq(Vocab), output : Nat, ignore_eos : BOOLEAN,
   ids : Seq(Vocab), cached : Nat, device : Nat, max_device : Nat,
   chunked : BOOLEAN, handle : Seq(Vocab), slot : Slots \cup {None}, row : Seq(Pages),
   stale : Seq(Pages)]

(* Every variable holds a value of its kind. *)
TypeOK ==
  /\ inbox \in Seq(Reqs) /\ pending \in Seq(Reqs)
  /\ batch \in Seq(Reqs) /\ chunked_list \in Seq(Reqs)
  /\ running \subseteq Reqs /\ finished \subseteq Reqs
  /\ budget \in Nat /\ prepared \in Nat /\ rows \in Seq(Seq(Pages))
  /\ TreeTypeOK
  /\ freePages \in Seq(Pages) /\ freeSlots \subseteq Slots
  /\ req \in [Reqs -> ReqRecord]
  /\ kv \in [Pages -> Seq(Vocab)] /\ state \in [Slots -> Seq(Vocab)]
  /\ pc \in {"recv", "admit", "slot", "alloc", "forward", "output", "cleanup"}

(* MambaStatePool.check_ownership, at every moment and with the live        *)
(* requests counted in: a slot belongs to the free list, to one snapshot or *)
(* to one request, never to two of them and never to none.                  *)
SlotOwnership ==
  /\ \A r \in Reqs : req[r].slot # None =>
       /\ req[r].slot \notin freeSlots
       /\ \A n \in tree.nodes : tree.snap[n] # req[r].slot
       /\ \A q \in Reqs \ {r} : req[q].slot # req[r].slot
  /\ \A n \in SnapshotNodes(tree) :
       /\ tree.snap[n] \notin freeSlots
       /\ \A m \in tree.nodes \ {n} : tree.snap[m] # tree.snap[n]
  /\ CacheType = "hybrid" => \A s \in Slots :
       \/ s \in freeSlots
       \/ \E n \in tree.nodes : tree.snap[n] = s
       \/ \E r \in Reqs : req[r].slot = s

(* CacheManager.check_integrity and the tests' assert_balanced, page by page: *)
(* a page is once in the free list, or once in the tree, or once in the part  *)
(* of a live row that did not come from the tree.                             *)
Owners(p) ==
  {<<"free", i>> : i \in {i \in DOMAIN freePages : freePages[i] = p}}
    \cup {<<"tree", q>> : q \in {q \in DOMAIN tree.page : tree.page[q] = p}}
    \cup UNION {{<<"row", r, i>> :
                   i \in {i \in Len(req[r].handle) + 1 .. Len(req[r].row) : req[r].row[i] = p}} :
                r \in Live}

PageOwnership == \A p \in Pages : Cardinality(Owners(p)) = 1

(* A node is locked once for every request whose handle lies at or below it, *)
(* however often the edge above the handle was split since.                  *)
RefCountsExact ==
  \A n \in tree.nodes :
    tree.ref[n] = IF n = Root THEN 1
                  ELSE Cardinality({r \in Locked : IsPrefix(n, req[r].handle)})

(* The two counters the admission budget is computed from are the lengths    *)
(* they stand for; eviction asserts on the first.                            *)
CountersExact ==
  LET inner == tree.nodes \ {Root}
  IN /\ tree.evictable = TotalLength(tree, {n \in inner : tree.ref[n] = 0})
     /\ tree.protected = TotalLength(tree, {n \in inner : tree.ref[n] > 0})

(* The tree stays a radix tree: it caches exactly the prefixes of its nodes, *)
(* and where two nodes part there is a node.                                 *)
RadixShape ==
  /\ DOMAIN tree.page = (UNION {Prefixes(n) : n \in tree.nodes}) \ {Root}
  /\ \A m, n \in tree.nodes : LongestCommonPrefix({m, n}) \in tree.nodes

(* What match_prefix returned stays good as long as its handle is locked:    *)
(* the prefix is cached, in the very pages the request's row points to.      *)
HandlePinned ==
  \A r \in Locked :
    LET h == req[r].handle
    IN /\ h \in tree.nodes
       /\ \A i \in 1..Len(h) : /\ SubSeq(h, 1, i) \in DOMAIN tree.page
                              /\ tree.page[SubSeq(h, 1, i)] = req[r].row[i]

(* Attention reads the right K/V: every position a live request has behind   *)
(* it, and every prefix in the cache, is in a page that holds exactly it.    *)
ContextCorrect ==
  /\ \A r \in Live : \A i \in 1..req[r].cached :
       kv[req[r].row[i]] = SubSeq(req[r].ids, 1, i)
  /\ \A p \in DOMAIN tree.page : kv[tree.page[p]] = p

(* The recurrence starts from the right state: a live request's slot is at   *)
(* cached_len, a snapshot at the end of its node, and what a request is      *)
(* about to fork is there.                                                   *)
StateCorrect ==
  CacheType = "hybrid" =>
    /\ \A r \in Live : state[req[r].slot] = SubSeq(req[r].ids, 1, req[r].cached)
    /\ \A n \in SnapshotNodes(tree) : state[tree.snap[n]] = n
    /\ pc = "slot" /\ req[Current].handle # Root => req[Current].handle \in SnapshotNodes(tree)

(* A request's prompt may be admitted in chunks, but only one at a time, and *)
(* it is the next to go on; whoever holds resources between two steps is     *)
(* that one or is decoding, so nobody is forgotten.                          *)
NobodyForgotten ==
  pc = "recv" =>
    /\ \A r \in Live : IF req[r].chunked THEN pending # <<>> /\ pending[1] = r
                       ELSE r \in running
    /\ \A r \in Reqs : req[r].stage = "pending" => r \in Range(pending)
    /\ Len(rows) + Cardinality(Live) = MaxRunning

(* acquire_mamba_slot never comes back empty-handed when there are more      *)
(* slots than rows, as EngineConfig requires.                                *)
NeverStarved ==
  pc = "slot" /\ CacheType = "hybrid" =>
    freeSlots # {} \/ UnlockedLeaves(tree) # {} \/ Sheddable # {}
=============================================================================
