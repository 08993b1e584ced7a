---------------------------- MODULE SpecScheduler ----------------------------
(***************************************************************************)
(* The scheduler's loop with a speculative engine (_spec_loop_step, and    *)
(* DflashEngine.run_iter).  A draft proposes K tokens behind the pending   *)
(* one, the target model looks at all of them in one run, the longest      *)
(* prefix it agrees with is kept, and what the rest was given goes back.   *)
(*                                                                         *)
(* Draft and target share the pages: `draft_kv` is the draft's cache.      *)
(* Where the code raises, the process ends: `pc` is "crashed" and          *)
(* `failure` says what was missing.                                        *)
(*   alloc    run_iter, allocating the pages of the batch                  *)
(*   forward  the models' runs, and everything up to filter_reqs           *)
(*   output   _process_spec_output, the loop over the batch                *)
(***************************************************************************)
EXTENDS SchedulerCore

CONSTANT Target(_)  \* the token the target model gives most weight to

(* What the model says is a token, whatever it reads, and not the only one.  *)
ASSUME TargetAssumption ==
  /\ \A n \in 0..MaxSeqLen : \A s \in [1..n -> Vocab] : Target(s) \in Vocab
  /\ \E t, u \in Vocab : t # u

VARIABLES
  draft_kv,  \* the prefix whose target-derived K/V the draft's page holds,
             \* <<>> where it holds a proposal's own K/V
  accepted,  \* SpecForwardOutput.accepted_tokens
  sent,      \* the tokens reported to the client so far
  told,      \* the requests whose last token was reported as such
  failure

spec_vars == <<draft_kv, accepted, sent, told, failure>>
all_vars == <<vars, spec_vars>>

K == ExtraPerReq
InBatch == Range(batch)

SpecInit ==
  /\ Init
  /\ draft_kv = [p \in Pages |-> <<>>]
  /\ accepted = [r \in Reqs |-> <<>>]
  /\ sent = [r \in Reqs |-> <<>>]
  /\ told = {}
  /\ failure = "none"

(* Mutant: the loop goes on after an error. *)
FailQuietly(what) ==
  /\ pc' = "recv"
  /\ failure' = what
  /\ UNCHANGED <<lists, adder, rows, cache, req, data, draft_kv, accepted, sent, told>>

Fail(what) ==
  /\ pc' = "crashed"
  /\ failure' = what
  /\ UNCHANGED <<lists, adder, rows, cache, req, data, draft_kv, accepted, sent, told>>

-----------------------------------------------------------------------------
(* run_iter tells a prefill batch from a decode batch; a decode batch is all *)
(* of the running requests.                                                  *)
Decoding == InBatch \subseteq running

(* The prefill of a prompt that the budget cuts short is refused. *)
RefuseChunk ==
  /\ pc = "alloc" /\ ~ Decoding
  /\ \E r \in InBatch : req[r].chunked
  /\ Fail("chunk")

Runs == pc = "alloc" /\ (Decoding \/ \A r \in InBatch : ~ req[r].chunked)

(* The pages a request gets: the whole prompt behind its prefix, or K + 1. *)
Width(r) == IF Decoding THEN K + 1 ELSE ExtendLen(r)

Outstanding ==
  Total([i \in prepared + 1 .. Len(batch) |-> Width(batch[i])])

(* The assertion of CacheManager.allocate. *)
OutOfPages ==
  /\ Runs
  /\ prepared = 0
  /\ Outstanding > Available(tree)
  /\ Fail("pages")

EvictForPages ==
  /\ Runs
  /\ Outstanding > Len(freePages)
  /\ \E n \in UnlockedLeaves(tree) : EvictLeaf(n)
  /\ Outstanding <= Available(tree)
  /\ UNCHANGED <<lists, adder, rows, req, data, pc, spec_vars>>

(* The columns that the pages are written to, one request after the other.   *)
TakePages ==
  /\ Runs
  /\ prepared < Len(batch)
  /\ Outstanding <= Len(freePages)
  /\ LET r == batch[prepared + 1]
         columns == SubSeq(req[r].row, 1, req[r].cached) \o SubSeq(freePages, 1, Width(r))
     IN /\ Len(columns) <= MaxSeqLen
        /\ req' = [req EXCEPT ![r].row = columns]
        /\ freePages' = SubSeq(freePages, Width(r) + 1, Len(freePages))
  /\ prepared' = prepared + 1
  /\ UNCHANGED <<lists, budget, reserved, rows, tree, freeSlots, data, pc, spec_vars>>

(* A row of the page table has max_seq_len columns; mlx refuses an update    *)
(* that is longer than the slice it goes to.                                 *)
OutOfColumns ==
  /\ Runs
  /\ prepared < Len(batch)
  /\ Outstanding <= Len(freePages)
  /\ req[batch[prepared + 1]].cached + Width(batch[prepared + 1]) > MaxSeqLen
  /\ Fail("columns")

EndTake ==
  /\ Runs
  /\ prepared = Len(batch)
  /\ prepared' = 0
  /\ pc' = "forward"
  /\ UNCHANGED <<lists, budget, reserved, rows, cache, req, data, spec_vars>>

-----------------------------------------------------------------------------
(* What the target model is run on, given the drafts d. *)
Fed(r, d) == req[r].ids \o d

(* It says what it would on a plain run if it reads the K/V and the state    *)
(* that belong to the tokens before, and something else if it does not.      *)
ReadsRight(r) ==
  /\ \A i \in 1..req[r].cached : kv[req[r].row[i]] = SubSeq(req[r].ids, 1, i)
  /\ CacheType = "hybrid" => state[req[r].slot] = SubSeq(req[r].ids, 1, req[r].cached)

Prediction(r, seq) ==
  IF ReadsRight(r) THEN Target(seq) ELSE CHOOSE t \in Vocab : t # Target(seq)

(* target_preds of greedy_verify, counted from 0. *)
Pred(r, d, k) == Prediction(r, SubSeq(Fed(r, d), 1, Len(req[r].ids) + k))

(* num_drafts_accepted: the drafts up to the first one the target disagrees with. *)
NumAccepted(r, d) ==
  CHOOSE n \in 0..Len(d) :
    /\ \A k \in 1..n : Pred(r, d, k - 1) = d[k]
    /\ n < Len(d) => Pred(r, d, n) # d[n + 1]

Bonus(r, d) == Pred(r, d, NumAccepted(r, d))

AcceptedTokens(r, d) == SubSeq(d, 1, NumAccepted(r, d)) \o <<Bonus(r, d)>>

(* Mutant: complete_many is told the drafts alone, without the pending token. *)
KeptDraftsOnly(r, d) == Len(req[r].ids) - 1 + NumAccepted(r, d)

(* cached_len once the run is committed: the tokens that were fed and are kept. *)
Kept(r, d) == Len(req[r].ids) + NumAccepted(r, d)

(* The positions whose K/V the run writes, and the page each goes to. *)
Written(p) ==
  UNION {{r} \X {i \in req[r].cached + 1 .. Len(req[r].row) : req[r].row[i] = p} : r \in InBatch}

WriteKV(drafts) ==
  kv' = [p \in Pages |->
           IF Written(p) = {} THEN kv[p]
           ELSE LET w == CHOOSE w \in Written(p) : TRUE
                IN SubSeq(Fed(w[1], drafts[w[1]]), 1, w[2])]

(* Mutant: only the drafts that were accepted are calibrated, not the bonus's *)
(* predecessor.                                                              *)
CalibratedShort(r, d) == Kept(r, d) - 1

Calibrated(r, d) == Kept(r, d)

(* _calibrate_draft overwrites the proposal's own K/V, as far as it is kept. *)
Calibrate(drafts) ==
  draft_kv' = [p \in Pages |->
                 IF Written(p) = {} THEN draft_kv[p]
                 ELSE LET w == CHOOSE w \in Written(p) : TRUE
                          d == drafts[w[1]]
                      IN IF w[2] <= Calibrated(w[1], d) THEN SubSeq(Fed(w[1], d), 1, w[2])
                         ELSE <<>>]

(* What a slot is moved on by: all that is fed, or after a verify what is kept. *)
Committed(r, d) == SubSeq(Fed(r, d), req[r].cached + 1, Kept(r, d))

(* Mutant: the rejected pages stay with nobody. *)
RejectedNone(r, d) == <<>>

Rejected(r, d) == SubSeq(req[r].row, Kept(r, d) + 1, Len(req[r].row))

(* _release_iter_resources: what the drafts that were rejected had been given. *)
Released(drafts) ==
  FlattenSeq([i \in 1..Len(batch) |-> Rejected(batch[i], drafts[batch[i]])])

(* The lengths and the ids move on, the row ends where the kept part does.   *)
Commit(drafts) ==
  /\ req' = [r \in Reqs |->
               IF r \notin InBatch THEN req[r]
               ELSE LET d == drafts[r]
                    IN [req[r] EXCEPT !.ids = @ \o AcceptedTokens(r, d),
                                      !.cached = Kept(r, d),
                                      !.device = Kept(r, d) + 1,
                                      !.row = SubSeq(@, 1, Kept(r, d))]]
  /\ accepted' = [r \in Reqs |-> IF r \in InBatch THEN AcceptedTokens(r, drafts[r]) ELSE accepted[r]]
  /\ running' = {r \in running \cup InBatch : CanDecode(r)'}
  /\ pc' = "output"
  /\ UNCHANGED <<inbox, pending, batch, chunked_list, finished, adder, rows, tree,
                 freeSlots, sent, told, failure>>

Committing(s, drafts) ==
  LET owner == {r \in InBatch : req[r].slot = s}
  IN IF owner = {} THEN state[s]
     ELSE LET r == CHOOSE r \in owner : TRUE IN state[s] \o Committed(r, drafts[r])

(* _run_prefill: the prompt is run and the first token comes of it. *)
Prefill ==
  /\ pc = "forward" /\ ~ Decoding
  /\ LET nothing == [r \in InBatch |-> <<>>]
     IN /\ WriteKV(nothing)
        /\ Calibrate(nothing)
        /\ state' = [s \in Slots |-> Committing(s, nothing)]
        /\ Commit(nothing)
  /\ UNCHANGED freePages

-----------------------------------------------------------------------------
Scratch == IF CacheType = "hybrid" THEN Len(batch) ELSE 0

(* The pool has too few slots to verify in: cached prefixes go. *)
EvictForScratch ==
  /\ pc = "forward" /\ Decoding
  /\ Cardinality(freeSlots) < Scratch
  /\ \E n \in UnlockedLeaves(tree) : EvictLeaf(n)
  /\ UNCHANGED <<lists, adder, rows, req, data, pc, spec_vars>>

OutOfSlots ==
  /\ pc = "forward" /\ Decoding
  /\ Cardinality(freeSlots) < Scratch
  /\ UnlockedLeaves(tree) = {}
  /\ Fail("slots")

(* Mutant: the window is replayed in place. *)
ReplayInPlace(s, into, drafts) ==
  IF \E r \in InBatch : req[r].slot = s
  THEN LET r == CHOOSE r \in InBatch : req[r].slot = s
       IN state[s] \o SubSeq(Fed(r, drafts[r]), req[r].cached + 1, Len(Fed(r, drafts[r])))
  ELSE state[s]

(* copy_batched and the verify run leave the whole window in the scratch     *)
(* slots, commit_verify replays the accepted part into the main slots.       *)
Replay(s, into, drafts) ==
  IF \E r \in InBatch : into[r] = s
  THEN LET r == CHOOSE r \in InBatch : into[r] = s
       IN state[req[r].slot] \o SubSeq(Fed(r, drafts[r]), req[r].cached + 1, Len(Fed(r, drafts[r])))
  ELSE Committing(s, drafts)

(* What the draft proposes: K tokens for each request, good or bad.          *)
Proposals == [InBatch -> [1..K -> Vocab]]

(* _run_decode_iter from the proposal on.  The scratch slots are taken from  *)
(* the pool and returned to it within the step.                              *)
Verify ==
  /\ pc = "forward" /\ Decoding
  /\ Cardinality(freeSlots) >= Scratch
  /\ \E drafts \in Proposals :
       /\ WriteKV(drafts)
       /\ Calibrate(drafts)
       /\ IF CacheType = "hybrid"
          THEN \E into \in {f \in [InBatch -> freeSlots] : IsInjective(f)} :
                 state' = [s \in Slots |-> Replay(s, into, drafts)]
          ELSE UNCHANGED state
       /\ freePages' = freePages \o Released(drafts)
       /\ Commit(drafts)

-----------------------------------------------------------------------------
Overshoot(r) ==
  IF req[r].device > req[r].max_device THEN req[r].device - req[r].max_device ELSE 0

(* Mutant: the report is not cut. *)
VisibleAll(r) == accepted[r]

(* The report is cut so that no more than max_tokens tokens are reported. *)
Visible(r) == SubSeq(accepted[r], 1, Len(accepted[r]) - Overshoot(r))

(* Mutant: a request that used up max_tokens exactly goes on. *)
OvershootOnly(r) == Overshoot(r) > 0

OutOfBudget(r) == Overshoot(r) > 0 \/ ~ CanDecode(r)

(* The tokens of the report that end the request. *)
Ends(r) ==
  {i \in 1..Len(Visible(r)) :
     \/ Visible(r)[i] = Eos /\ ~ req[r].ignore_eos
     \/ i = Len(Visible(r)) /\ OutOfBudget(r)}

Reported(r) ==
  IF Ends(r) = {} THEN Visible(r)
  ELSE SubSeq(Visible(r), 1, CHOOSE i \in Ends(r) : \A j \in Ends(r) : i <= j)

Output ==
  /\ pc = "output"
  /\ LET done == {r \in InBatch : Ends(r) # {} \/ OutOfBudget(r)}
     IN /\ sent' = [r \in Reqs |-> IF r \in InBatch THEN sent[r] \o Reported(r) ELSE sent[r]]
        /\ told' = told \cup {r \in InBatch : Ends(r) # {}}
        /\ finished' = finished \cup done
        /\ running' = running \ done
  /\ accepted' = [r \in Reqs |-> <<>>]
  /\ pc' = "cleanup"
  /\ UNCHANGED <<inbox, pending, batch, chunked_list, adder, rows, cache, req, data,
                 draft_kv, failure>>

(* The reply to a request is forgotten with the request. *)
SpecCleanup ==
  /\ Cleanup
  /\ sent' = [r \in Reqs |-> IF r \in finished \ finished' THEN <<>> ELSE sent[r]]
  /\ told' = told \ (finished \ finished')
  /\ UNCHANGED <<draft_kv, accepted, failure>>

-----------------------------------------------------------------------------
Shared == (Select \/ EndStep) /\ UNCHANGED spec_vars

SpecStep ==
  \/ Shared
  \/ RefuseChunk \/ OutOfPages \/ EvictForPages \/ TakePages \/ OutOfColumns \/ EndTake
  \/ Prefill
  \/ EvictForScratch \/ OutOfSlots \/ Verify
  \/ Output
  \/ SpecCleanup

SpecNext ==
  \/ SpecStep
  \/ (RunWhenIdle \/ \E r \in Reqs : Submit(r)) /\ UNCHANGED spec_vars

SpecSpec == SpecInit /\ [][SpecNext]_all_vars

(* The process runs its loop for ever; clients need not send anything. *)
FairSpecSpec == SpecSpec /\ WF_all_vars(SpecStep)

-----------------------------------------------------------------------------
(* The state the speculative engine adds; the process stops when it fails.   *)
SpecTypeOK ==
  /\ draft_kv \in [Pages -> Seq(Vocab)]
  /\ accepted \in [Reqs -> Seq(Vocab)] /\ sent \in [Reqs -> Seq(Vocab)]
  /\ told \subseteq Reqs
  /\ failure \in {"none", "chunk", "pages", "columns", "slots"}
  /\ pc = "crashed" <=> failure # "none"

(* The invariant of DflashEngine: the draft's cache is in sync with the      *)
(* target's up to cached_len, and so is every page of the prefix cache, which *)
(* a later request may start from.                                           *)
DraftInSync ==
  /\ \A r \in Live : \A i \in 1..req[r].cached :
       draft_kv[req[r].row[i]] = SubSeq(req[r].ids, 1, i)
  /\ \A p \in DOMAIN tree.page : draft_kv[tree.page[p]] = p

(* One pending token: a request that decodes has exactly one token that is   *)
(* not cached yet, and pages for what is cached and nothing more, however    *)
(* many drafts a run has accepted.                                           *)
OnePending ==
  pc = "recv" => \A r \in running : /\ Len(req[r].ids) = req[r].cached + 1
                                     /\ req[r].device = Len(req[r].ids)
                                     /\ Len(req[r].row) = req[r].cached

(* "bump DecodeManager.extra_per_req so the prefill scheduler accounts for    *)
(* that peak when admitting new reqs": the pages of an iteration are there.   *)
PeakReserved == failure # "pages"

(* "A dry pool is cache pressure, not a fatal error."                        *)
DryPoolSurvived == failure # "slots"

(* No iteration fails: not for pages, columns or scratch slots.              *)
NeverFails == failure = "none"

(* Every request that arrives is answered to its end, unless it is dropped.  *)
Answered ==
  \A r \in Reqs : req[r].stage = "inbox" ~> req[r].stage \in {"done", "dropped"}

-----------------------------------------------------------------------------
(* What is reported to a client is what plain greedy decoding would give it, *)
(* no more and no less, however good the drafts are.                         *)
Asking(r) == req[r].stage \in {"inbox", "pending", "live"}

Promise == INSTANCE Generation WITH
  over <- told,
  ask <- [r \in Reqs |->
            IF Asking(r)
            THEN [prompt |-> req[r].prompt, max_tokens |-> req[r].output,
                  ignore_eos |-> req[r].ignore_eos]
            ELSE [prompt |-> <<>>, max_tokens |-> 0, ignore_eos |-> FALSE]]

KeepsPromise == Promise!Spec
=============================================================================
