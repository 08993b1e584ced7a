------------------------------ MODULE Scheduler ------------------------------
(***************************************************************************)
(* The scheduler's loop with the plain engine (scheduler/scheduler.py,     *)
(* _non_spec_loop_step): select a batch, give it pages, run the model on   *)
(* it, append one sampled token to every request, clean up what finished.  *)
(***************************************************************************)
EXTENDS SchedulerCore

InBatch == Range(batch)

(* allocate and the loop of _prepare_batch.  The code takes the pages of the *)
(* whole batch in one call and deals them out in order; pages leave the free *)
(* list first in, first out, so taking each request's share in turn gives    *)
(* everyone the same pages.                                                  *)
Preparing == batch[prepared + 1]

(* Mutant: the pages handed out stay in the list, the same number of others go. *)
DropFromTheEnd(n) == SubSeq(freePages, 1, Len(freePages) - n)

AfterTaking(n) == SubSeq(freePages, n + 1, Len(freePages))

PrepareReq ==
  /\ pc = "alloc"
  /\ prepared < Len(batch)
  /\ LET r == Preparing
         n == ExtendLen(r)
     IN /\ n <= Len(freePages)
        /\ req' = [req EXCEPT ![r].row = SubSeq(@, 1, req[r].cached) \o SubSeq(freePages, 1, n)]
        /\ freePages' = AfterTaking(n)
  /\ prepared' = prepared + 1
  /\ UNCHANGED <<lists, budget, reserved, rows, tree, freeSlots, data, pc>>

EvictForPages ==
  /\ pc = "alloc"
  /\ prepared < Len(batch)
  /\ ExtendLen(Preparing) > Len(freePages)
  /\ \E n \in UnlockedLeaves(tree) : EvictLeaf(n)
  /\ UNCHANGED <<lists, adder, rows, req, data, pc>>

EndPrepare ==
  /\ pc = "alloc"
  /\ prepared = Len(batch)
  /\ prepared' = 0
  /\ pc' = "forward"
  /\ UNCHANGED <<lists, budget, reserved, rows, cache, req, data>>

(* _forward: the model writes K/V for the tokens of every request that are   *)
(* not cached yet and folds them into its recurrent state, complete_one      *)
(* moves the lengths on, filter_reqs keeps what can decode.                  *)
Written(p) ==
  UNION {{r} \X {i \in req[r].cached + 1 .. req[r].device : req[r].row[i] = p} : r \in InBatch}

Forward ==
  /\ pc = "forward"
  /\ kv' = [p \in Pages |->
              IF Written(p) = {} THEN kv[p]
              ELSE LET w == CHOOSE w \in Written(p) : TRUE
                   IN SubSeq(req[w[1]].ids, 1, w[2])]
  /\ state' = [s \in Slots |->
                 IF \A r \in InBatch : req[r].slot # s THEN state[s]
                 ELSE LET r == CHOOSE r \in InBatch : req[r].slot = s
                      IN state[s] \o SubSeq(req[r].ids, req[r].cached + 1, req[r].device)]
  /\ req' = [r \in Reqs |->
               IF r \in InBatch
               THEN [req[r] EXCEPT !.cached = req[r].device, !.device = @ + 1]
               ELSE req[r]]
  /\ running' = {r \in running \cup InBatch : CanDecode(r)'}
  /\ pc' = "output"
  /\ UNCHANGED <<inbox, pending, batch, chunked_list, finished, adder, rows, cache>>

(* _process_last_data, first loop: one sampled token each, a chunk samples   *)
(* nothing; a request is finished when it may not decode on or drew Eos.     *)
(* Mutant: running out of max_tokens does not finish a request. *)
FinishesOnEosOnly(r, token) == token = Eos /\ ~ req[r].ignore_eos

(* Mutant: ignore_eos is not looked at. *)
FinishesOnAnyEos(r, token) == ~ CanDecode(r) \/ token = Eos

Finishes(r, token) == ~ CanDecode(r) \/ (token = Eos /\ ~ req[r].ignore_eos)

Sampled == {r \in InBatch : ~ req[r].chunked}

Output ==
  /\ pc = "output"
  /\ \E next \in [Sampled -> Vocab] :
       LET done == {r \in Sampled : Finishes(r, next[r])}
       IN /\ req' = [r \in Reqs |->
                       IF r \in Sampled THEN [req[r] EXCEPT !.ids = Append(@, next[r])]
                       ELSE req[r]]
          /\ finished' = finished \cup done
          /\ running' = running \ done
  /\ pc' = "cleanup"
  /\ UNCHANGED <<inbox, pending, batch, chunked_list, adder, rows, cache, data>>

-----------------------------------------------------------------------------
Step ==
  \/ Select
  \/ PrepareReq
  \/ EvictForPages
  \/ EndPrepare
  \/ Forward
  \/ Output
  \/ Cleanup
  \/ EndStep

Next == Step \/ RunWhenIdle \/ \E r \in Reqs : Submit(r)

Spec == Init /\ [][Next]_vars

(* The process runs its loop for ever; clients need not send anything. *)
FairSpec == Spec /\ WF_vars(Step)

-----------------------------------------------------------------------------
(* The pages a live request may still come to need: its last token is never  *)
(* fed back, so all but the last get one.                                    *)
StillNeeds(r) ==
  IF r \in finished THEN 0
  ELSE InputLen(r) + req[r].output - 1 - Len(req[r].row)

(* The admission budget keeps its promise: what all admitted requests may    *)
(* still need is free or can be evicted, so no allocation ever fails.        *)
AllocationBacked ==
  Total([r \in Live |-> StillNeeds(r)]) <= Available(tree)

(* The assertions of Req.__post_init__ and _prepare_batch: there is always a  *)
(* token to compute, never one past max_tokens, and a row of the page table   *)
(* has room for the sequence that its request may become.                     *)
ReqsWellFormed ==
  /\ pc = "alloc" => \A r \in InBatch : /\ req[r].cached < req[r].device
                                        /\ req[r].device <= req[r].max_device
                                        /\ req[r].device < MaxSeqLen
  /\ \A r \in Live : Len(req[r].row) <= MaxSeqLen

(* A loop iteration that finds work to do builds a batch: it never goes back *)
(* to waiting with requests left over that it did not serve.                 *)
WorkBuildsBatch == [][(pc \in {"admit", "slot"}) => (pc' # "recv")]_vars

(* Every request that arrives is served to its end, unless it is dropped. *)
Served ==
  \A r \in Reqs : req[r].stage = "inbox" ~> req[r].stage \in {"done", "dropped"}

-----------------------------------------------------------------------------
(* The scheduler does what Serving promises.  A request waits until its      *)
(* first token is sampled; while its batch runs it is in no list, and comes  *)
(* before all that are still pending.  A batch of prefills has at most one   *)
(* prompt that is cut short, its last; a batch that decodes has none that    *)
(* wait for a first token.                                                   *)
FirstTimers == {i \in 1..Len(batch) : Len(req[batch[i]].ids) = InputLen(batch[i])}

Ahead ==
  IF pc \in {"alloc", "forward", "output"} THEN SubSeq(batch, 1, Cardinality(FirstTimers)) ELSE <<>>

Over(r) == req[r].stage \in {"new", "dropped", "done"} \/ r \in finished

Queue == Ahead \o pending

Streaming == {r \in Live \ finished : Len(req[r].ids) > InputLen(r)}

Left ==
  [r \in Reqs |-> IF Over(r) \/ req[r].stage = "inbox" THEN 0
                  ELSE IF Len(req[r].ids) <= InputLen(r) THEN req[r].output
                  ELSE InputLen(r) + req[r].output - Len(req[r].ids)]

Asked ==
  [r \in Reqs |-> IF Over(r) THEN [prompt |-> <<>>, max_tokens |-> 0, ignore_eos |-> FALSE]
                  ELSE [prompt |-> req[r].prompt, max_tokens |-> req[r].output,
                        ignore_eos |-> req[r].ignore_eos]]

Promise == INSTANCE Serving WITH
  arrived <- inbox, queue <- Queue, streaming <- Streaming, left <- Left, ask <- Asked

KeepsPromise == Promise!Spec
=============================================================================
