------------------------------ MODULE SpecProofs ------------------------------
(***************************************************************************)
(* Theorems about the scheduler with a speculative engine, for any number  *)
(* of requests, slots, pages and drafts, whatever the drafts say: first    *)
(* its types and lengths; then that a window's pages are kept or given     *)
(* back, so that each has one owner, and that slots, pages and the draft's *)
(* cache hold what they stand for behind every run.                        *)
(***************************************************************************)
EXTENDS SpecScheduler, CoreProofs

(* A request has its columns for the run that comes.                         *)
Fitted(r) ==
  Len(req[r].row) = req[r].cached + Width(r) /\ Len(req[r].row) <= MaxSeqLen

SpecDevices ==
  /\ pc \in {"admit", "slot", "alloc", "forward"} =>
       \A i \in 1..Len(batch) : req[batch[i]].device = Len(req[batch[i]].ids)
  /\ \A r \in running : /\ req[r].device = Len(req[r].ids)
                        /\ Len(req[r].ids) = req[r].cached + 1

SpecRows ==
  /\ \A r \in running : \/ Len(req[r].row) = req[r].cached
                        \/ pc \in {"alloc", "forward"} /\ r \in InBatch
  /\ pc = "alloc" => \A i \in 1..prepared : Fitted(batch[i])
  /\ pc = "forward" => \A i \in 1..Len(batch) : Fitted(batch[i])
  /\ pc \in {"forward", "output"} => \A i \in 1..Len(batch) : ~ req[batch[i]].chunked

Going == Typed /\ ListsOK /\ ReqLengths /\ SpecDevices /\ SpecRows

SpecInv == SpecTypeOK /\ (pc # "crashed" => Going)

-----------------------------------------------------------------------------
LEMMA BatchMembers ==
  ASSUME Typed
  PROVE  /\ Len(batch) \in Nat /\ InBatch = {batch[i] : i \in 1..Len(batch)}
         /\ InBatch \subseteq Reqs /\ IsFiniteSet(InBatch)
         /\ \A i \in 1..Len(batch) : batch[i] \in InBatch /\ batch[i] \in Reqs
<1>1. batch \in Seq(Reqs) /\ Len(batch) \in Nat
  BY Members DEF Typed
<1>2. InBatch = {batch[i] : i \in 1..Len(batch)}
  BY <1>1 DEF InBatch, Range
<1>3. InBatch \subseteq Reqs
  BY <1>2, Members
<1>4. IsFiniteSet(InBatch)
  <2> DEFINE f == [i \in 1..Len(batch) |-> batch[i]]
  <2>1. IsFiniteSet(1..Len(batch))
    BY <1>1, FS_Interval
  <2>2. f \in Surjection(1..Len(batch), InBatch)
    BY <1>2 DEF Surjection
  <2> QED BY <2>1, <2>2, FS_Surjection
<1> QED BY <1>1, <1>2, <1>3, <1>4

LEMMA InitSpecInv == SpecInit => SpecInv
<1> SUFFICES ASSUME SpecInit PROVE SpecInv
  OBVIOUS
<1>1. IInv
  BY InitIInv DEF SpecInit
<1>2. pc = "recv" /\ running = {}
  BY DEF SpecInit, Init
<1>3. SpecDevices /\ SpecRows
  BY <1>2 DEF SpecDevices, SpecRows
<1>4. <<>> \in Seq(Vocab)
  BY EmptySeq
<1>5. SpecTypeOK
  BY <1>2, <1>4 DEF SpecInit, SpecTypeOK
<1> QED BY <1>1, <1>3, <1>5 DEF SpecInv, Going, IInv, LengthsOK

-----------------------------------------------------------------------------
(* Between the runs the engines share the loop, and its invariant.           *)
Shares == pc \in {"recv", "admit", "slot", "cleanup"}

LEMMA SharedInv ==
  ASSUME SpecInv, Shares
  PROVE  IInv /\ Going
<1>1. Going
  BY DEF SpecInv, Shares
<1>2. DeviceLengths /\ RowLengths
  BY <1>1 DEF Going, SpecDevices, DeviceLengths, RowLengths, Shares
<1> QED BY <1>1, <1>2 DEF Going, IInv, LengthsOK

LEMMA SharedKeeps ==
  ASSUME SpecInv, Shares, IInv', pc' \in {"recv", "admit", "slot", "alloc", "cleanup"},
         running' = running, \A r \in running : req'[r] = req[r], prepared' = prepared,
         draft_kv' = draft_kv, accepted' = accepted, failure' = failure,
         sent' \in [Reqs -> Seq(Vocab)], told' \subseteq Reqs
  PROVE  SpecInv'
<1>1. Going /\ IInv
  BY SharedInv
<1>2. prepared = 0
  BY <1>1 DEF Going, ListsOK, PlacesOK, Shares
<1>3. SpecTypeOK'
  BY DEF SpecInv, SpecTypeOK, Shares
<1>4. SpecDevices'
  <2>1. \A i \in 1..Len(batch') : pc' \in {"admit", "slot", "alloc", "forward"} =>
          req'[batch'[i]].device = Len(req'[batch'[i]].ids)
    BY DEF IInv, LengthsOK, DeviceLengths
  <2>2. \A r \in running : req'[r].device = Len(req'[r].ids) /\ Len(req'[r].ids) = req'[r].cached + 1
    BY <1>1 DEF Going, SpecDevices
  <2> QED BY <2>1, <2>2 DEF SpecDevices
<1>5. SpecRows'
  <2>1. \A r \in running : Len(req'[r].row) = req'[r].cached
    BY <1>1 DEF Going, SpecRows, Shares
  <2> QED BY <1>2, <2>1 DEF SpecRows
<1> QED BY <1>3, <1>4, <1>5 DEF SpecInv, Going, IInv, LengthsOK

(* Admission touches no request that decodes.                                *)
LEMMA RunningStay ==
  ASSUME IInv, Select \/ EndStep \/ (\E r \in Reqs : Submit(r)) \/ Cleanup
  PROVE  /\ Shares /\ running' = running /\ prepared' = prepared
         /\ \A q \in running : req'[q] = req[q]
<1>1. /\ Typed /\ ListsOK /\ LengthsOK /\ req \in [Reqs -> ReqRecord] /\ running \subseteq Reqs
      /\ \A q \in running : req[q].stage = "live"
  BY DEF IInv, Typed, ListsOK, PlacesOK
<1>2. Current \notin running \/ ~ Admitting \/ ~ Len(batch) < Len(pending)
  BY <1>1, CurrentWaits
<1>3. CASE ProcessMsg
  <2>1. inbox # <<>> /\ inbox \in Seq(Reqs)
    BY <1>1, <1>3 DEF ProcessMsg, Typed
  <2>2. Head(inbox) = inbox[1] /\ 1 \in 1..Len(inbox)
    BY <2>1, HeadTailProperties, EmptySeq
  <2>3. req[Head(inbox)].stage = "inbox"
    BY <1>1, <2>2 DEF ListsOK, InboxOK
  <2>4. PICK n : req' = [req EXCEPT ![Head(inbox)] = [NoReq EXCEPT !.stage = "dropped"]]
                 \/ req' = [req EXCEPT ![Head(inbox)].stage = "pending", ![Head(inbox)].output = n]
    BY <1>3 DEF ProcessMsg
  <2>5. \A q \in running : q # Head(inbox) /\ req'[q] = req[q]
    BY <1>1, <2>3, <2>4
  <2> QED BY <1>3, <2>5 DEF ProcessMsg, adder, Shares
<1>4. CASE StartStep \/ StopAdmission \/ EvictForSlot \/ EndStep
  BY <1>4 DEF StartStep, StopAdmission, EvictForSlot, EndStep, lists, adder, Shares
<1>5. ASSUME NEW c, NEW s, Admitting, Len(batch) < Len(pending), AddOneReq(Current, c, s)
      PROVE  \A q \in running : req'[q] = req[q]
  BY <1>1, <1>2, <1>5 DEF AddOneReq
<1>6. CASE ContinueChunk
  BY <1>5, <1>6 DEF ContinueChunk, Admitting, Shares
<1>7. CASE TryAllocate
  <2>1. PICK h, row, s : req' = req \/ req' = [req EXCEPT ![Current].handle = h, ![Current].row = row,
                                                      ![Current].stale = s]
    BY <1>7 DEF TryAllocate
  <2>2. \A q \in running : req'[q] = req[q]
    BY <1>1, <1>2, <1>7, <2>1 DEF TryAllocate, Admitting
  <2> QED BY <1>7, <2>2 DEF TryAllocate, Shares
<1>8. CASE AdmitWithoutSlot \/ AdmitWithFreeSlot \/ AdmitWithShedSlot
  <2>1. PICK s : pc = "slot" /\ Admit(s)
    BY <1>8 DEF AdmitWithoutSlot, AdmitWithFreeSlot, AdmitWithShedSlot
  <2>2. Admitting /\ Len(batch) < Len(pending)
    BY <1>1, <2>1 DEF ListsOK, SlotOK, Admitting
  <2> QED BY <1>5, <2>1, <2>2 DEF Admit, Shares
<1>9. CASE Starved
  <2>1. Admitting /\ Len(batch) < Len(pending)
    BY <1>1, <1>9 DEF ListsOK, SlotOK, Admitting, Starved
  <2>2. \A q \in running : req'[q] = req[q]
    BY <1>1, <1>2, <1>9, <2>1 DEF Starved
  <2> QED BY <1>9, <2>2 DEF Starved, Shares
<1>10. ASSUME NEW r \in Reqs, Submit(r) PROVE Shares /\ running' = running /\ prepared' = prepared
                                              /\ \A q \in running : req'[q] = req[q]
  <2>1. \A q \in running : req'[q] = req[q]
    BY <1>1, <1>10 DEF Submit
  <2> QED BY <1>10, <2>1 DEF Submit, adder, Shares
<1>11. CASE Cleanup
  <2>1. PICK r \in finished : req' = [req EXCEPT ![r] = [NoReq EXCEPT !.stage = "done"]]
    BY <1>11 DEF Cleanup, FreeAndCache
  <2>2. \A q \in running : q # r
    BY <1>1, <2>1 DEF ListsOK, PlacesOK
  <2>3. \A q \in running : req'[q] = req[q]
    BY <1>1, <2>1, <2>2
  <2> QED BY <1>11, <2>3 DEF Cleanup, adder, Shares
<1> QED BY <1>3, <1>4, <1>6, <1>7, <1>8, <1>9, <1>10, <1>11 DEF Select

LEMMA SharedStep ==
  ASSUME SpecInv, IInv, Shared \/ ((RunWhenIdle \/ \E r \in Reqs : Submit(r)) /\ UNCHANGED spec_vars)
  PROVE  SpecInv'
<1>1. SpecTypeOK
  BY DEF SpecInv
<1>2. CASE RunWhenIdle /\ UNCHANGED spec_vars
  <2>1. UNCHANGED vars /\ Shares
    BY <1>2 DEF RunWhenIdle, Shares
  <2>2. IInv'
    BY <2>1, StutterKeepsIInv
  <2>3. pc' \in {"recv", "admit", "slot", "alloc", "cleanup"}
    BY <2>1 DEF Shares, vars
  <2> QED BY <1>1, <1>2, <2>1, <2>2, <2>3, SharedKeeps DEF vars, lists, adder, spec_vars, SpecTypeOK
<1>3. CASE (Select \/ EndStep \/ (\E r \in Reqs : Submit(r))) /\ UNCHANGED spec_vars
  <2>1. /\ Shares /\ running' = running /\ prepared' = prepared
        /\ \A q \in running : req'[q] = req[q]
    BY <1>3, RunningStay
  <2>2. IInv'
    BY <1>3, ProcessMsgKeepsIInv, StartStepKeepsIInv, StopAdmissionKeepsIInv,
       ContinueChunkKeepsIInv, TryAllocateKeepsIInv, AdmitWithoutSlotKeepsIInv,
       AdmitWithFreeSlotKeepsIInv, AdmitWithShedSlotKeepsIInv, StarvedKeepsIInv,
       EvictKeepsIInv, EndStepKeepsIInv, SubmitKeepsIInv DEF Select, EvictForSlot
  <2>3. pc' \in {"recv", "admit", "slot", "alloc", "cleanup"}
    BY <1>3 DEF Select, ProcessMsg, StartStep, StopAdmission, SelectBatch, ContinueChunk, TryAllocate,
       AdmitWithoutSlot, AdmitWithFreeSlot, AdmitWithShedSlot, Admit, Starved, EvictForSlot,
       EndStep, Submit
  <2> QED BY <1>1, <1>3, <2>1, <2>2, <2>3, SharedKeeps DEF spec_vars, SpecTypeOK
<1> QED BY <1>2, <1>3 DEF Shared

(* With a request its reply is forgotten.                                    *)
LEMMA CleanupStep ==
  ASSUME SpecInv, SpecCleanup
  PROVE  SpecInv'
<1>1. Cleanup /\ SpecTypeOK /\ Shares
  BY DEF SpecCleanup, SpecInv, Cleanup, Shares
<1>2. IInv /\ running \subseteq Reqs
  BY <1>1, SharedInv DEF IInv, Typed
<1>3. IInv' /\ pc' = "cleanup"
  BY <1>1, <1>2, CleanupKeepsIInv DEF Cleanup
<1>4. running' = running /\ prepared' = prepared /\ \A q \in running : req'[q] = req[q]
  BY <1>1, <1>2, RunningStay
<1>5. sent' \in [Reqs -> Seq(Vocab)] /\ told' \subseteq Reqs
  <2>1. <<>> \in Seq(Vocab)
    BY EmptySeq
  <2> QED BY <1>1, <2>1 DEF SpecCleanup, SpecTypeOK
<1> QED BY <1>1, <1>3, <1>4, <1>5, SharedKeeps DEF SpecCleanup

-----------------------------------------------------------------------------
(* A failure ends the process.                                               *)
LEMMA FailStep ==
  ASSUME SpecInv, NEW what \in {"chunk", "pages", "columns", "slots"}, Fail(what)
  PROVE  SpecInv'
<1>1. SpecTypeOK'
  BY DEF SpecInv, SpecTypeOK, Fail
<1> QED BY <1>1 DEF SpecInv, Fail

LEMMA FailSteps ==
  ASSUME SpecInv, RefuseChunk \/ OutOfPages \/ OutOfColumns \/ OutOfSlots
  PROVE  SpecInv'
BY FailStep DEF RefuseChunk, OutOfPages, OutOfColumns, OutOfSlots

(* Eviction touches the cache only.                                          *)
LEMMA EvictStep ==
  ASSUME SpecInv, EvictForPages \/ EvictForScratch
  PROVE  SpecInv'
<1>1. pc \in {"alloc", "forward"} /\ UNCHANGED <<lists, adder, rows, req, data, pc, spec_vars>>
  BY DEF EvictForPages, EvictForScratch, Runs
<1>2. Going /\ SpecTypeOK
  BY <1>1 DEF SpecInv
<1>3. PICK n : EvictLeaf(n)
  BY DEF EvictForPages, EvictForScratch
<1>4. IsTree(tree', Vocab, Pages, Slots) /\ freePages' \in Seq(Pages) /\ freeSlots' \subseteq Slots
  <2>1. /\ n \in UnlockedLeaves(tree) /\ tree' = RemoveLeaf(tree, n)
        /\ freePages' = freePages \o EvictedPages(tree, n)
        /\ freeSlots' = freeSlots \cup ({tree.snap[n]} \ {None})
    BY <1>3 DEF EvictLeaf
  <2>2. /\ IsTree(tree, Vocab, Pages, Slots) /\ freePages \in Seq(Pages) /\ freeSlots \subseteq Slots
    BY <1>2 DEF Going, Typed
  <2>3. IsTree(tree', Vocab, Pages, Slots) /\ n \in tree.nodes /\ n # Root
    BY <2>1, <2>2, RemoveLeafResult
  <2>4. EvictedPages(tree, n) \in Seq(Pages)
    BY <2>2, <2>3, EvictedPagesArePages
  <2> QED BY <2>1, <2>2, <2>3, <2>4, ConcatProperties DEF IsTree
<1>5. UNCHANGED <<inbox, pending, running, batch, chunked_list, finished, budget, reserved,
                  prepared, rows, req, kv, state, pc>>
  BY <1>1 DEF lists, adder, data
<1>6. Typed'
  BY <1>2, <1>4, <1>5 DEF Going, Typed
<1>7. ListsOK'
  BY <1>2, <1>5 DEF Going, ListsOK, InboxOK, PendingOK, AdmissionOK, Admitting, Waiting,
     SlotOK, PlacesOK, Current, InputLen
<1>8. ReqLengths' /\ SpecDevices'
  BY <1>2, <1>5 DEF Going, ReqLengths, SpecDevices, InputLen
<1>9. SpecRows'
  BY <1>2, <1>5 DEF Going, SpecRows, Fitted, Width, Decoding, InBatch, ExtendLen
<1>10. SpecTypeOK'
  BY <1>1, <1>2 DEF SpecTypeOK, spec_vars
<1> QED BY <1>6, <1>7, <1>8, <1>9, <1>10 DEF SpecInv, Going

-----------------------------------------------------------------------------
(* While a batch is run the lists of those that wait stay.                   *)
LEMMA ListsStay ==
  ASSUME Typed, ListsOK, pc \in {"alloc", "forward", "output"},
         pc' \in {"alloc", "forward", "output", "cleanup"},
         UNCHANGED <<inbox, pending, batch, chunked_list>>,
         \A q \in Reqs : req'[q].stage = req[q].stage /\ req'[q].chunked = req[q].chunked
  PROVE  InboxOK' /\ PendingOK' /\ AdmissionOK' /\ SlotOK'
<1>1. InboxOK'
  BY Members DEF ListsOK, InboxOK
<1>2. PendingOK' /\ AdmissionOK' /\ SlotOK'
  BY Members DEF ListsOK, PendingOK, AdmissionOK, SlotOK, Admitting, Waiting
<1> QED BY <1>1, <1>2

(* What a request is given is there.                                         *)
LEMMA ShareFits ==
  ASSUME Going, pc = "alloc", prepared < Len(batch)
  PROVE  /\ prepared + 1 \in 1..Len(batch) /\ batch[prepared + 1] \in InBatch
         /\ InBatch \subseteq Reqs
         /\ \A i \in 1..Len(batch) : Width(batch[i]) \in Nat
         /\ Width(batch[prepared + 1]) <= Outstanding
<1>1. PICK b \in Nat, done \in Nat : b = Len(batch) /\ done = prepared /\ done < b
  BY BatchMembers DEF Going, Typed
<1>2. /\ done + 1 \in 1..b /\ InBatch \subseteq Reqs
      /\ \A i \in 1..b : batch[i] \in Reqs /\ batch[i] \in InBatch
  BY <1>1, BatchMembers DEF Going
<1>3. ASSUME NEW i \in 1..b PROVE Width(batch[i]) \in Nat
  <2>1. req[batch[i]] \in ReqRecord
    BY <1>2 DEF Going, Typed
  <2>2. PICK c \in Nat, k \in Nat : c = req[batch[i]].cached /\ k = Len(req[batch[i]].ids) /\ c <= k
    BY <1>2, <2>1, ReqFields DEF Going, ReqLengths
  <2>3. req[batch[i]].device = k
    BY <1>1, <2>2 DEF Going, SpecDevices
  <2>4. ExtendLen(batch[i]) = k - c
    BY <2>2, <2>3 DEF ExtendLen
  <2>5. K + 1 \in Nat
    BY SizeAssumption DEF K
  <2> QED BY <2>2, <2>4, <2>5 DEF Width
<1>4. Width(batch[done + 1]) <= Outstanding
  <2> DEFINE f == [i \in done + 1 .. b |-> Width(batch[i])]
  <2> DEFINE g == [i \in {done + 1} |-> Width(batch[i])]
  <2>1. Outstanding = Total(f)
    BY <1>1 DEF Outstanding
  <2>2. /\ DOMAIN f = done + 1 .. b /\ DOMAIN g = {done + 1} /\ DOMAIN g \subseteq DOMAIN f
        /\ \A i \in done + 1 .. b : f[i] = Width(batch[i]) /\ f[i] \in Nat
        /\ g[done + 1] = Width(batch[done + 1]) /\ g[done + 1] \in Nat
    <3>1. \A i \in done + 1 .. b : i \in 1..b
      BY <1>1
    <3> QED BY <1>2, <1>3, <3>1
  <2> HIDE DEF f, g
  <2>3. Weights(f) /\ Weights(g)
    <3>1. IsFiniteSet(done + 1 .. b)
      <4>1. done + 1 \in Int /\ b \in Int
        BY <1>1
      <4> QED BY <4>1, FS_Interval
    <3>2. IsFiniteSet({done + 1})
      BY FS_Singleton
    <3> QED BY <2>2, <3>1, <3>2 DEF Weights
  <2>4. \A x \in DOMAIN g : g[x] <= f[x]
    BY <2>2
  <2>5. Total(g) <= Total(f)
    BY <2>2, <2>3, <2>4, TotalMonotone
  <2>6. Total(g) = g[done + 1]
    BY <2>2, TotalOne
  <2> QED BY <2>1, <2>2, <2>5, <2>6
<1> QED BY <1>1, <1>2, <1>3, <1>4


(* A request's row grows by the pages it is given.                           *)
LEMMA TakeFacts ==
  ASSUME Going, TakePages
  PROVE  /\ pc = "alloc" /\ prepared' = prepared + 1
         /\ prepared \in Nat /\ prepared + 1 \in 1..Len(batch) /\ batch[prepared + 1] \in Reqs
         /\ UNCHANGED <<inbox, pending, running, batch, chunked_list, finished, budget, reserved,
                        rows, tree, freeSlots, kv, state, pc, spec_vars>>
         /\ freePages' = SubSeq(freePages, Width(batch[prepared + 1]) + 1, Len(freePages))
         /\ freePages' \in Seq(Pages)
         /\ Width(batch[prepared + 1]) \in 0..Len(freePages)
         /\ LET r == batch[prepared + 1]
            IN \E row \in Seq(Pages), new \in ReqRecord :
                 /\ row = SubSeq(req[r].row, 1, req[r].cached) \o SubSeq(freePages, 1, Width(r))
                 /\ req[r].cached <= Len(req[r].row)
                 /\ Len(row) = req[r].cached + Width(r) /\ Len(row) <= MaxSeqLen
                 /\ new = [req[r] EXCEPT !.row = row] /\ req' = [req EXCEPT ![r] = new]
                 /\ new.row = row /\ new.stage = req[r].stage /\ new.chunked = req[r].chunked
                 /\ new.ids = req[r].ids /\ new.cached = req[r].cached
                 /\ new.device = req[r].device /\ new.slot = req[r].slot
                 /\ new.prompt = req[r].prompt /\ new.handle = req[r].handle
                 /\ new.max_device = req[r].max_device /\ new.output = req[r].output
                 /\ new.ignore_eos = req[r].ignore_eos /\ new.stale = req[r].stale
<1>1. /\ pc = "alloc" /\ prepared' = prepared + 1 /\ prepared < Len(batch)
      /\ Outstanding <= Len(freePages) /\ prepared \in Nat
      /\ UNCHANGED <<inbox, pending, running, batch, chunked_list, finished, budget, reserved,
                     rows, tree, freeSlots, kv, state, pc, spec_vars>>
  BY DEF TakePages, Runs, lists, data, Going, Typed
<1>2. PICK r \in Reqs : r = batch[prepared + 1] /\ prepared + 1 \in 1..Len(batch)
  BY <1>1, ShareFits
<1>3. PICK f \in Nat : f = Len(freePages) /\ freePages \in Seq(Pages)
  BY LenProperties DEF Going, Typed
<1>4. PICK n \in Nat : n = Width(r) /\ n <= f
  <2>1. Width(r) \in Nat /\ Width(r) <= Outstanding
    BY <1>1, <1>2, ShareFits
  <2>2. Outstanding \in Nat
    <3>1. \A i \in prepared + 1 .. Len(batch) : i \in 1..Len(batch)
      BY <1>1
    <3> DEFINE g == [i \in prepared + 1 .. Len(batch) |-> Width(batch[i])]
    <3>2. \A i \in 1..Len(batch) : Width(batch[i]) \in Nat
      BY <1>1, ShareFits
    <3>3. DOMAIN g = prepared + 1 .. Len(batch) /\ \A i \in DOMAIN g : g[i] \in Nat
      BY <3>1, <3>2
    <3>4. Outstanding = Total(g)
      BY DEF Outstanding
    <3> HIDE DEF g
    <3>5. IsFiniteSet(prepared + 1 .. Len(batch))
      BY <1>1, BatchMembers, FS_Interval DEF Going
    <3> QED BY <3>3, <3>4, <3>5, TotalFinite DEF Weights
  <2> QED BY <1>1, <1>3, <2>1, <2>2
<1>5. req \in [Reqs -> ReqRecord] /\ req[r] \in ReqRecord
  BY DEF Going, Typed
<1>6. PICK c \in Nat, k \in Nat : c = req[r].cached /\ k = Len(req[r].row) /\ c <= k
  BY <1>5, ReqFields DEF Going, ReqLengths
<1>7. PICK row \in Seq(Pages) :
        row = SubSeq(req[r].row, 1, req[r].cached) \o SubSeq(freePages, 1, Width(r)) /\ Len(row) = c + n
  <2>1. c \in 0..Len(req[r].row) /\ n \in 0..Len(freePages)
    BY <1>3, <1>4, <1>6
  <2> DEFINE front == SubSeq(req[r].row, 1, c)
             back == SubSeq(freePages, 1, n)
  <2>2. front \in Seq(Pages) /\ Len(front) = c /\ back \in Seq(Pages) /\ Len(back) = n
    BY <1>3, <1>5, <2>1, FirstElements, ReqFields
  <2> HIDE DEF front, back
  <2>3. front \o back \in Seq(Pages) /\ Len(front \o back) = c + n
    BY <2>2, ConcatProperties
  <2>4. front \o back = SubSeq(req[r].row, 1, req[r].cached) \o SubSeq(freePages, 1, Width(r))
    BY <1>4, <1>6 DEF front, back
  <2> QED BY <2>3, <2>4
<1>8. /\ Len(row) <= MaxSeqLen
      /\ req' = [req EXCEPT ![r].row = row]
      /\ freePages' = SubSeq(freePages, Width(r) + 1, Len(freePages))
  BY <1>2, <1>7 DEF TakePages
<1> DEFINE new == [req[r] EXCEPT !.row = row]
<1>9. /\ new \in ReqRecord /\ new.row = row /\ new.stage = req[r].stage
      /\ new.chunked = req[r].chunked /\ new.ids = req[r].ids /\ new.cached = req[r].cached
      /\ new.device = req[r].device /\ new.slot = req[r].slot
      /\ new.prompt = req[r].prompt /\ new.handle = req[r].handle
      /\ new.max_device = req[r].max_device /\ new.output = req[r].output
      /\ new.ignore_eos = req[r].ignore_eos /\ new.stale = req[r].stale
  BY <1>5 DEF ReqRecord
<1>10. req' = [req EXCEPT ![r] = new]
  BY <1>5, <1>8
<1> HIDE DEF new
<1>11. freePages' \in Seq(Pages)
  <2>1. \A i \in n + 1 .. f : freePages[i] \in Pages
    BY <1>3, <1>4, ElementOfSeq
  <2> QED BY <1>3, <1>4, <1>8, <2>1, SubSeqProperties
<1>12. \E x \in Seq(Pages), y \in ReqRecord :
         /\ x = SubSeq(req[r].row, 1, req[r].cached) \o SubSeq(freePages, 1, Width(r))
         /\ req[r].cached <= Len(req[r].row)
         /\ Len(x) = req[r].cached + Width(r) /\ Len(x) <= MaxSeqLen
         /\ y = [req[r] EXCEPT !.row = x] /\ req' = [req EXCEPT ![r] = y]
         /\ y.row = x /\ y.stage = req[r].stage
         /\ y.chunked = req[r].chunked /\ y.ids = req[r].ids /\ y.cached = req[r].cached
         /\ y.device = req[r].device /\ y.slot = req[r].slot
         /\ y.prompt = req[r].prompt /\ y.handle = req[r].handle
         /\ y.max_device = req[r].max_device /\ y.output = req[r].output
         /\ y.ignore_eos = req[r].ignore_eos /\ y.stale = req[r].stale
  <2>1. new = [req[r] EXCEPT !.row = row]
    BY DEF new
  <2> QED BY <1>4, <1>6, <1>7, <1>8, <1>9, <1>10, <2>1
<1>13. Width(r) \in 0..Len(freePages)
  BY <1>3, <1>4
<1>14. batch[prepared + 1] \in Reqs /\ Width(batch[prepared + 1]) \in 0..Len(freePages)
       /\ freePages' = SubSeq(freePages, Width(batch[prepared + 1]) + 1, Len(freePages))
  BY <1>2, <1>8, <1>13
<1> HIDE DEF Width
<1> QED BY <1>1, <1>2, <1>11, <1>12, <1>14

LEMMA TakeStep ==
  ASSUME SpecInv, TakePages
  PROVE  SpecInv'
<1>1. Going /\ SpecTypeOK
  BY DEF SpecInv, TakePages, Runs
<1>2. PICK r \in Reqs : r = batch[prepared + 1]
  BY <1>1, TakeFacts
<1>3. /\ pc = "alloc" /\ prepared' = prepared + 1
      /\ prepared \in Nat /\ prepared + 1 \in 1..Len(batch)
      /\ UNCHANGED <<inbox, pending, running, batch, chunked_list, finished, budget, reserved,
                     rows, tree, freeSlots, kv, state, pc, spec_vars>>
      /\ freePages' \in Seq(Pages)
  BY <1>1, TakeFacts
<1>4. PICK new \in ReqRecord :
        /\ req' = [req EXCEPT ![r] = new] /\ req[r].cached <= Len(req[r].row)
        /\ Len(new.row) = req[r].cached + Width(r) /\ Len(new.row) <= MaxSeqLen
        /\ new.stage = req[r].stage /\ new.chunked = req[r].chunked
        /\ new.ids = req[r].ids /\ new.cached = req[r].cached
        /\ new.device = req[r].device /\ new.slot = req[r].slot /\ new.prompt = req[r].prompt
  BY <1>1, <1>2, TakeFacts
<1>5. /\ req \in [Reqs -> ReqRecord] /\ req' \in [Reqs -> ReqRecord] /\ req'[r] = new
      /\ \A q \in Reqs \ {r} : req'[q] = req[q]
  BY <1>1, <1>4 DEF Going, Typed
<1>6. \A q \in Reqs : /\ req'[q].stage = req[q].stage /\ req'[q].chunked = req[q].chunked
                      /\ req'[q].ids = req[q].ids /\ req'[q].cached = req[q].cached
                      /\ req'[q].device = req[q].device /\ req'[q].slot = req[q].slot
                      /\ req'[q].prompt = req[q].prompt
  BY <1>4, <1>5
<1>7. Typed'
  BY <1>1, <1>3, <1>5 DEF Going, Typed
<1>8. InboxOK' /\ PendingOK' /\ AdmissionOK' /\ SlotOK'
  BY <1>1, <1>3, <1>6, ListsStay DEF Going
<1>9. Len(batch) \in Nat /\ InBatch \subseteq Reqs /\ running \subseteq Reqs
      /\ \A i \in 1..Len(batch) : batch[i] \in Reqs /\ batch[i] \in InBatch
  BY <1>1, BatchMembers DEF Going, Typed
<1>10. PlacesOK'
  <2>1. Len(batch) \in Nat /\ prepared' \in Nat /\ prepared' <= Len(batch)
    BY <1>3, <1>9
  <2> QED BY <1>1, <1>3, <1>6, <1>9, <2>1 DEF Going, ListsOK, PlacesOK
<1>11. \A i \in 1..Len(batch) : Width(batch[i]) \in Nat
  BY <1>1, <1>3, ShareFits DEF TakePages
<1>12. ReqLengths'
  <2>1. req'[r].cached <= Len(req'[r].row)
    <3>1. r = batch[prepared + 1] /\ Width(r) \in Nat /\ req[r].cached \in Nat
      BY <1>2, <1>3, <1>5, <1>11, ReqFields
    <3> QED BY <1>4, <1>5, <3>1
  <2> QED BY <1>1, <1>4, <1>5, <1>6, <2>1 DEF Going, ReqLengths, InputLen
<1>13. SpecDevices'
  BY <1>1, <1>3, <1>6, <1>9 DEF Going, SpecDevices
<1>14. \A q \in Reqs : Width(q)' = Width(q)
  BY <1>3, <1>6 DEF Width, Decoding, InBatch, ExtendLen
<1>15. Fitted(r)' /\ \A q \in Reqs \ {r} : Fitted(q) => Fitted(q)'
  BY <1>4, <1>5, <1>6, <1>14 DEF Fitted
<1>16. SpecRows'
  <2>1. \A q \in Reqs : (\E i \in 1..prepared' : q = batch[i]) => Fitted(q)'
    <3> SUFFICES ASSUME NEW q \in Reqs, NEW i \in 1..prepared', q = batch[i] PROVE Fitted(q)'
      OBVIOUS
    <3>1. i \in 1..prepared \/ i = prepared + 1
      BY <1>3
    <3>2. i \in 1..Len(batch) /\ batch[i] \in Reqs
      BY <1>3, <1>9, <3>1
    <3>3. i \in 1..prepared => Fitted(batch[i])
      BY <1>1, <1>3 DEF Going, SpecRows
    <3> QED BY <1>2, <1>15, <3>1, <3>2, <3>3
  <2>2. \A q \in running : \/ Len(req'[q].row) = req'[q].cached
                           \/ q \in InBatch'
    <3>1. InBatch' = InBatch /\ r \in InBatch
      BY <1>2, <1>3, <1>9 DEF InBatch
    <3> QED BY <1>1, <1>5, <1>9, <3>1 DEF Going, SpecRows
  <2>3. batch' = batch /\ running' = running /\ pc' = "alloc"
    BY <1>3
  <2>4. \A i \in 1..prepared' : batch[i] \in Reqs
    BY <1>3, <1>9
  <2>5. \A i \in 1..prepared' : Fitted(batch[i])'
    BY <2>1, <2>3, <2>4 DEF Fitted, Width, Decoding, InBatch, ExtendLen
  <2> QED BY <2>2, <2>3, <2>5 DEF SpecRows
<1>17. SpecTypeOK'
  BY <1>1, <1>3 DEF SpecTypeOK, spec_vars
<1> QED BY <1>7, <1>8, <1>10, <1>12, <1>13, <1>16, <1>17 DEF SpecInv, Going, ListsOK

(* The pages of the batch are there.                                         *)
LEMMA EndTakeStep ==
  ASSUME SpecInv, EndTake
  PROVE  SpecInv'
<1>1. /\ pc = "alloc" /\ prepared = Len(batch) /\ prepared' = 0 /\ pc' = "forward"
      /\ UNCHANGED <<inbox, pending, running, batch, chunked_list, finished, budget, reserved,
                     rows, tree, freePages, freeSlots, req, kv, state, spec_vars>>
      /\ (Decoding \/ \A r \in InBatch : ~ req[r].chunked)
  BY DEF EndTake, Runs, lists, cache, data
<1>2. Going /\ SpecTypeOK
  BY <1>1 DEF SpecInv
<1>3. Len(batch) \in Nat /\ \A i \in 1..Len(batch) : batch[i] \in InBatch
  BY <1>2, BatchMembers DEF Going
<1>4. Typed'
  BY <1>1, <1>2 DEF Going, Typed
<1>5. InboxOK' /\ PendingOK' /\ AdmissionOK' /\ SlotOK'
  BY <1>1, <1>2, ListsStay DEF Going
<1>6. PlacesOK'
  BY <1>1, <1>2, <1>3 DEF Going, ListsOK, PlacesOK
<1>7. ReqLengths' /\ SpecDevices'
  BY <1>1, <1>2 DEF Going, ReqLengths, SpecDevices, InputLen
<1>8. \A i \in 1..Len(batch) : ~ req[batch[i]].chunked
  BY <1>1, <1>2, <1>3 DEF Decoding, Going, ListsOK, PlacesOK
<1>9. SpecRows'
  BY <1>1, <1>2, <1>8 DEF Going, SpecRows, Fitted, Width, Decoding, InBatch, ExtendLen
<1>10. SpecTypeOK'
  BY <1>1, <1>2 DEF SpecTypeOK, spec_vars
<1> QED BY <1>4, <1>5, <1>6, <1>7, <1>9, <1>10 DEF SpecInv, Going, ListsOK

-----------------------------------------------------------------------------
(* Flattened, sequences give a sequence.                                     *)
Joined(f, seqs, n) == f = [i \in 1..n |-> IF i = 1 THEN seqs[i] ELSE f[i - 1] \o seqs[i]]

LEMMA JoinedExists ==
  ASSUME NEW seqs, NEW n \in Nat
  PROVE  \E f : Joined(f, seqs, n)
<1> SUFFICES ASSUME ~ \E f : Joined(f, seqs, n) PROVE FALSE
  OBVIOUS
<1> DEFINE N == {k \in Nat : ~ \E f : Joined(f, seqs, k)}
<1>1. N \subseteq Nat /\ N # {}
  OBVIOUS
<1>2. PICK k \in N : \A m \in N : k <= m
  <2> HIDE DEF N
  <2> QED BY <1>1, LeastNatural
<1>3. k # 0
  <2> DEFINE none == [i \in 1..0 |-> 0]
  <2>1. Joined(none, seqs, 0)
    BY DEF Joined
  <2> QED BY <1>2, <2>1
<1>4. PICK f : Joined(f, seqs, k - 1)
  <2>1. k - 1 \in Nat /\ k - 1 \notin N
    BY <1>2, <1>3
  <2> QED BY <2>1
<1> DEFINE g == [i \in 1..k |-> IF i < k THEN f[i]
                                ELSE IF i = 1 THEN seqs[i] ELSE f[i - 1] \o seqs[i]]
<1>5. \A i \in 1..k : g[i] = IF i = 1 THEN seqs[i] ELSE g[i - 1] \o seqs[i]
  <2> TAKE i \in 1..k
  <2>1. i # 1 => i - 1 \in 1..k /\ i - 1 < k /\ g[i - 1] = f[i - 1]
    BY <1>2
  <2>2. CASE i < k
    <3>1. i \in 1..k - 1 /\ g[i] = f[i]
      BY <1>2, <2>2
    <3>2. f[i] = IF i = 1 THEN seqs[i] ELSE f[i - 1] \o seqs[i]
      BY <1>4, <3>1 DEF Joined
    <3> HIDE DEF g
    <3> QED BY <2>1, <3>1, <3>2
  <2>3. CASE ~ i < k
    <3>1. g[i] = IF i = 1 THEN seqs[i] ELSE f[i - 1] \o seqs[i]
      BY <2>3
    <3> HIDE DEF g
    <3> QED BY <2>1, <3>1
  <2> QED BY <2>2, <2>3
<1>6. g = [i \in 1..k |-> g[i]]
  OBVIOUS
<1> HIDE DEF g
<1>7. Joined(g, seqs, k)
  BY <1>5, <1>6 DEF Joined
<1> QED BY <1>2, <1>7

LEMMA FlattenedIsSeq ==
  ASSUME NEW S, NEW n \in Nat, NEW seqs \in [1..n -> Seq(S)]
  PROVE  FlattenSeq(seqs) \in Seq(S)
<1>1. seqs \in Seq(Seq(S)) /\ Len(seqs) = n
  OBVIOUS
<1>2. CASE n = 0
  <2>1. FlattenSeq(seqs) = seqs /\ seqs = <<>>
    BY <1>1, <1>2, EmptySeq DEF FlattenSeq
  <2> QED BY <2>1, EmptySeq
<1>3. CASE n # 0
  <2>1. PICK f : f = [i \in 1..n |-> IF i = 1 THEN seqs[i] ELSE f[i - 1] \o seqs[i]]
                 /\ FlattenSeq(seqs) = f[n]
    <3>1. \E g : g = [i \in 1..n |-> IF i = 1 THEN seqs[i] ELSE g[i - 1] \o seqs[i]]
      BY JoinedExists DEF Joined
    <3>2. FlattenSeq(seqs) =
            (CHOOSE g : g = [i \in 1..n |-> IF i = 1 THEN seqs[i] ELSE g[i - 1] \o seqs[i]])[n]
      BY <1>1, <1>3 DEF FlattenSeq
    <3> QED BY <3>1, <3>2
  <2>2. \A i \in 1..n : f[i] = IF i = 1 THEN seqs[i] ELSE f[i - 1] \o seqs[i]
    BY <2>1
  <2> DEFINE N == {i \in 1..n : f[i] \notin Seq(S)}
  <2>3. N = {}
    <3> SUFFICES ASSUME N # {} PROVE FALSE
      OBVIOUS
    <3>1. PICK i \in N : \A m \in N : i <= m
      <4>1. N \subseteq Nat
        OBVIOUS
      <4> HIDE DEF N
      <4> QED BY <4>1, LeastNatural
    <3>2. i \in 1..n /\ f[i] \notin Seq(S)
      BY <3>1
    <3>3. i # 1 /\ i - 1 \in 1..n
      BY <2>2, <3>2
    <3>4. f[i - 1] \in Seq(S)
      BY <3>1, <3>3
    <3>5. f[i] = f[i - 1] \o seqs[i] /\ seqs[i] \in Seq(S)
      BY <2>2, <3>2, <3>3
    <3> QED BY <3>2, <3>4, <3>5, ConcatProperties
  <2>4. n \in 1..n
    BY <1>3
  <2>5. f[n] \in Seq(S)
    BY <2>3, <2>4
  <2>6. FlattenSeq(seqs) = f[n]
    BY <2>1
  <2> QED BY <2>5, <2>6
<1> QED BY <1>2, <1>3

-----------------------------------------------------------------------------
(* What is kept of the drafts d behind the ids of a request.                 *)
LEMMA Verdict ==
  ASSUME NEW r \in Reqs, req[r].ids \in Seq(Vocab), NEW d \in Seq(Vocab),
         Len(req[r].ids) + Len(d) <= MaxSeqLen
  PROVE  /\ Fed(r, d) \in Seq(Vocab) /\ Len(Fed(r, d)) = Len(req[r].ids) + Len(d)
         /\ NumAccepted(r, d) \in 0..Len(d)
         /\ AcceptedTokens(r, d) \in Seq(Vocab)
         /\ Len(AcceptedTokens(r, d)) = NumAccepted(r, d) + 1
<1>1. PICK k \in Nat, n \in Nat : k = Len(req[r].ids) /\ n = Len(d)
  BY LenProperties
<1>2. Fed(r, d) \in Seq(Vocab) /\ Len(Fed(r, d)) = k + n
  BY <1>1, ConcatProperties DEF Fed
<1>3. \A i \in 0..n : Pred(r, d, i) \in Vocab
  <2> TAKE i \in 0..n
  <2> DEFINE s == SubSeq(Fed(r, d), 1, k + i)
  <2>1. k + i \in 0..Len(Fed(r, d))
    BY <1>2
  <2>2. s \in Seq(Vocab) /\ Len(s) = k + i
    BY <1>2, <2>1, FirstElements
  <2>3. k + i \in 0..MaxSeqLen
    BY <1>1, Sizes
  <2> HIDE DEF s
  <2>4. s \in [1..(k + i) -> Vocab]
    BY <2>2, LenProperties
  <2>5. Target(s) \in Vocab /\ \E t \in Vocab : t # Target(s)
    BY <2>3, <2>4, TargetAssumption
  <2>6. Prediction(r, s) \in Vocab
    BY <2>5 DEF Prediction
  <2> QED BY <1>1, <2>6 DEF Pred, s
<1> DEFINE Right(m) == /\ \A j \in 1..m : Pred(r, d, j - 1) = d[j]
                       /\ m < Len(d) => Pred(r, d, m) # d[m + 1]
<1>4. \E m \in 0..Len(d) : Right(m)
  <2> DEFINE N == {m \in 0..n : m < n => Pred(r, d, m) # d[m + 1]}
  <2>1. N \subseteq Nat /\ N # {}
    <3>1. n \in N /\ N \subseteq 0..n
      OBVIOUS
    <3> HIDE DEF N
    <3> QED BY <3>1
  <2>2. PICK m \in N : \A j \in N : m <= j
    <3> HIDE DEF N
    <3> QED BY <2>1, LeastNatural
  <2>3. m \in 0..n /\ (m < n => Pred(r, d, m) # d[m + 1])
    BY <2>2
  <2>4. ASSUME NEW j \in 1..m PROVE Pred(r, d, j - 1) = d[j]
    <3>1. j - 1 \in 0..n /\ j - 1 < n /\ j - 1 < m /\ j - 1 + 1 = j
      BY <2>3
    <3>2. j - 1 \notin N
      BY <2>2, <2>3, <3>1
    <3> QED BY <3>1, <3>2
  <2> QED BY <1>1, <2>3, <2>4
<1>5. NumAccepted(r, d) \in 0..Len(d)
  BY <1>4 DEF NumAccepted
<1>6. Bonus(r, d) \in Vocab
  BY <1>1, <1>3, <1>5 DEF Bonus
<1>7. AcceptedTokens(r, d) \in Seq(Vocab) /\ Len(AcceptedTokens(r, d)) = NumAccepted(r, d) + 1
  <2>1. PICK a \in Nat : a = NumAccepted(r, d) /\ a \in 0..Len(d)
    BY <1>1, <1>5
  <2> DEFINE front == SubSeq(d, 1, a)
             back == <<Bonus(r, d)>>
  <2>2. front \in Seq(Vocab) /\ Len(front) = a
    BY <2>1, FirstElements
  <2>3. back \in Seq(Vocab) /\ Len(back) = 1
    BY <1>6
  <2> HIDE DEF front, back
  <2>4. front \o back \in Seq(Vocab) /\ Len(front \o back) = Len(front) + Len(back)
    BY <2>2, <2>3, ConcatProperties
  <2>5. Len(front \o back) = a + 1
    BY <2>2, <2>3, <2>4
  <2> QED BY <2>1, <2>4, <2>5 DEF AcceptedTokens, front, back
<1> QED BY <1>1, <1>2, <1>5, <1>7

-----------------------------------------------------------------------------
(* Every position that is fed to the target model has its column.            *)
Drafted(drafts) ==
  \A r \in InBatch : /\ drafts[r] \in Seq(Vocab)
                     /\ Len(req[r].ids) + Len(drafts[r]) = Len(req[r].row)

LEMMA RunFacts ==
  ASSUME Going, pc = "forward", NEW r \in InBatch
  PROVE  /\ r \in Reqs /\ req[r] \in ReqRecord /\ Fitted(r) /\ req[r].stage = "live"
         /\ ~ req[r].chunked /\ req[r].device = Len(req[r].ids)
<1>1. PICK i \in 1..Len(batch) : batch[i] = r
  BY BatchMembers DEF Going
<1>2. r \in Reqs /\ req[r] \in ReqRecord
  BY BatchMembers DEF Going, Typed
<1>3. Fitted(batch[i]) /\ ~ req[batch[i]].chunked
  BY <1>1 DEF Going, SpecRows
<1>4. req[batch[i]].stage = "live"
  BY <1>1 DEF Going, ListsOK, PlacesOK
<1>5. req[batch[i]].device = Len(req[batch[i]].ids)
  BY <1>1 DEF Going, SpecDevices
<1> QED BY <1>1, <1>2, <1>3, <1>4, <1>5

(* A prompt is run without drafts.                                           *)
LEMMA PrefillDrafted ==
  ASSUME Going, pc = "forward", ~ Decoding
  PROVE  Drafted([r \in InBatch |-> <<>>])
<1> SUFFICES ASSUME NEW r \in InBatch
             PROVE  Len(req[r].ids) + Len(<<>>) = Len(req[r].row)
  BY EmptySeq DEF Drafted
<1>1. /\ r \in Reqs /\ req[r] \in ReqRecord /\ Fitted(r) /\ req[r].device = Len(req[r].ids)
  BY RunFacts
<1>2. req[r].cached \in Nat /\ Len(req[r].ids) \in Nat
  BY <1>1, ReqFields
<1>3. Len(req[r].row) = req[r].cached + (req[r].device - req[r].cached)
  BY <1>1 DEF Fitted, Width, ExtendLen
<1>4. Len(<<>>) = 0
  BY EmptySeq
<1> QED BY <1>1, <1>2, <1>3, <1>4

(* Behind the pending token there is a column for every draft.               *)
LEMMA ProposalsDrafted ==
  ASSUME Going, pc = "forward", Decoding, NEW drafts \in Proposals
  PROVE  Drafted(drafts)
<1> SUFFICES ASSUME NEW r \in InBatch
             PROVE  /\ drafts[r] \in Seq(Vocab)
                    /\ Len(req[r].ids) + Len(drafts[r]) = Len(req[r].row)
  BY DEF Drafted
<1>1. r \in Reqs /\ req[r] \in ReqRecord /\ Fitted(r) /\ req[r].device = Len(req[r].ids)
  BY RunFacts
<1>2. Len(req[r].ids) = req[r].cached + 1
  BY DEF Decoding, Going, SpecDevices
<1>3. K \in Nat
  BY SizeAssumption DEF K
<1>4. drafts[r] \in [1..K -> Vocab]
  BY DEF Proposals
<1>5. drafts[r] \in Seq(Vocab) /\ Len(drafts[r]) = K
  <2>1. drafts[r] \in Seq(Vocab)
    BY <1>3, <1>4, SeqDef
  <2>2. DOMAIN drafts[r] = 1..K /\ DOMAIN drafts[r] = 1..Len(drafts[r]) /\ Len(drafts[r]) \in Nat
    BY <1>4, <2>1, LenProperties
  <2> QED BY <1>3, <2>1, <2>2
<1>6. Len(req[r].row) = req[r].cached + (K + 1) /\ req[r].cached \in Nat
  BY <1>1, ReqFields DEF Fitted, Width
<1> QED BY <1>2, <1>3, <1>5, <1>6

(* The run writes prefixes of what is fed.                                   *)
LEMMA WrittenTyped ==
  ASSUME Going, SpecTypeOK, pc = "forward", NEW drafts, Drafted(drafts),
         WriteKV(drafts), Calibrate(drafts)
  PROVE  kv' \in [Pages -> Seq(Vocab)] /\ draft_kv' \in [Pages -> Seq(Vocab)]
<1>1. ASSUME NEW p \in Pages, NEW w \in Written(p)
      PROVE  SubSeq(Fed(w[1], drafts[w[1]]), 1, w[2]) \in Seq(Vocab)
  <2>1. PICK r \in InBatch : w \in {r} \X {i \in req[r].cached + 1 .. Len(req[r].row) : req[r].row[i] = p}
    BY <1>1 DEF Written
  <2>2. w[1] = r /\ w[2] \in req[r].cached + 1 .. Len(req[r].row)
    BY <2>1
  <2>3. r \in Reqs /\ req[r] \in ReqRecord /\ Len(req[r].row) <= MaxSeqLen
    BY RunFacts DEF Fitted
  <2>4. drafts[r] \in Seq(Vocab) /\ Len(req[r].ids) + Len(drafts[r]) = Len(req[r].row)
    BY DEF Drafted
  <2>5. Fed(r, drafts[r]) \in Seq(Vocab) /\ Len(Fed(r, drafts[r])) = Len(req[r].row)
    BY <2>3, <2>4, Verdict, ReqFields
  <2>6. w[2] \in 0..Len(Fed(r, drafts[r]))
    BY <2>2, <2>3, <2>5, ReqFields
  <2> QED BY <2>2, <2>5, <2>6, FirstElements
<1>2. kv \in [Pages -> Seq(Vocab)] /\ draft_kv \in [Pages -> Seq(Vocab)] /\ <<>> \in Seq(Vocab)
  BY EmptySeq DEF Going, Typed, SpecTypeOK
<1>3. ASSUME NEW p \in Pages, Written(p) # {}
      PROVE  (CHOOSE w \in Written(p) : TRUE) \in Written(p)
  BY <1>3
<1>4. kv' \in [Pages -> Seq(Vocab)]
  BY <1>1, <1>2, <1>3 DEF WriteKV
<1>5. draft_kv' \in [Pages -> Seq(Vocab)]
  BY <1>1, <1>2, <1>3 DEF Calibrate
<1> QED BY <1>4, <1>5

(* A request after the run: one token is pending, the rest has its columns.  *)
LEMMA CommittedReq ==
  ASSUME Going, pc = "forward", NEW drafts, Drafted(drafts), Commit(drafts), NEW r \in InBatch
  PROVE  /\ req'[r] \in ReqRecord /\ Kept(r, drafts[r]) \in Len(req[r].ids)..Len(req[r].row)
         /\ req'[r].stage = "live" /\ ~ req'[r].chunked /\ req'[r].cached = Kept(r, drafts[r])
         /\ req'[r].device = req'[r].cached + 1 /\ Len(req'[r].ids) = req'[r].cached + 1
         /\ Len(req'[r].row) = req'[r].cached /\ req'[r].prompt = req[r].prompt
         /\ req'[r].slot = req[r].slot
         /\ accepted'[r] \in Seq(Vocab)
<1> DEFINE d == drafts[r]
<1>1. /\ r \in Reqs /\ req[r] \in ReqRecord /\ Len(req[r].row) <= MaxSeqLen
      /\ req[r].stage = "live" /\ ~ req[r].chunked
  BY RunFacts DEF Fitted
<1>2. d \in Seq(Vocab) /\ Len(req[r].ids) + Len(d) = Len(req[r].row)
  BY DEF Drafted
<1> HIDE DEF d
<1>3. PICK k \in Nat, n \in Nat : k = Len(req[r].ids) /\ n = Len(d) /\ k + n = Len(req[r].row)
  BY <1>1, <1>2, ReqFields, LenProperties
<1>4. /\ NumAccepted(r, d) \in 0..n /\ AcceptedTokens(r, d) \in Seq(Vocab)
      /\ Len(AcceptedTokens(r, d)) = NumAccepted(r, d) + 1
  BY <1>1, <1>2, <1>3, Verdict, ReqFields
<1>5. PICK a \in Nat : a = NumAccepted(r, d) /\ a <= n
  BY <1>4
<1>6. Kept(r, d) = k + a
  BY <1>3, <1>5 DEF Kept
<1> DEFINE ids == req[r].ids \o AcceptedTokens(r, d)
           row == SubSeq(req[r].row, 1, Kept(r, d))
           new == [req[r] EXCEPT !.ids = ids, !.cached = Kept(r, d), !.device = Kept(r, d) + 1,
                                 !.row = row]
<1>7. ids \in Seq(Vocab) /\ Len(ids) = k + a + 1
  <2>1. req[r].ids \in Seq(Vocab)
    BY <1>1, ReqFields
  <2>2. ids \in Seq(Vocab) /\ Len(ids) = Len(req[r].ids) + Len(AcceptedTokens(r, d))
    BY <1>4, <2>1, ConcatProperties
  <2> HIDE DEF ids
  <2>3. Len(AcceptedTokens(r, d)) = a + 1
    BY <1>4, <1>5
  <2>4. Len(ids) = k + (a + 1)
    BY <1>3, <2>2, <2>3
  <2> QED BY <2>2, <2>4
<1>8. row \in Seq(Pages) /\ Len(row) = k + a
  <2>1. k + a \in 0..Len(req[r].row) /\ req[r].row \in Seq(Pages)
    BY <1>1, <1>3, <1>5, ReqFields
  <2>2. SubSeq(req[r].row, 1, k + a) \in Seq(Pages) /\ Len(SubSeq(req[r].row, 1, k + a)) = k + a
    BY <2>1, FirstElements
  <2> QED BY <1>6, <2>2
<1>9. req'[r] = new /\ accepted'[r] = AcceptedTokens(r, d)
  BY <1>1 DEF Commit, d
<1> HIDE DEF ids, row
<1>10. /\ new \in ReqRecord /\ new.ids = ids /\ new.cached = Kept(r, d)
       /\ new.device = Kept(r, d) + 1 /\ new.row = row /\ new.stage = req[r].stage
       /\ new.chunked = req[r].chunked /\ new.prompt = req[r].prompt /\ new.slot = req[r].slot
  <2>1. Kept(r, d) \in Nat /\ Kept(r, d) + 1 \in Nat
    BY <1>6
  <2> QED BY <1>1, <1>7, <1>8, <2>1 DEF ReqRecord
<1> HIDE DEF new
<1>11. Kept(r, d) \in Len(req[r].ids)..Len(req[r].row)
  BY <1>3, <1>5, <1>6
<1>12. /\ Len(req'[r].ids) = req'[r].cached + 1 /\ Len(req'[r].row) = req'[r].cached
       /\ req'[r].device = req'[r].cached + 1
  BY <1>6, <1>7, <1>8, <1>9, <1>10
<1>13. req'[r] \in ReqRecord /\ req'[r].cached = Kept(r, d)
       /\ req'[r].stage = "live" /\ ~ req'[r].chunked /\ req'[r].prompt = req[r].prompt
       /\ req'[r].slot = req[r].slot /\ accepted'[r] \in Seq(Vocab)
  BY <1>1, <1>4, <1>9, <1>10
<1> QED BY <1>11, <1>12, <1>13 DEF d

(* The run moves the requests of the batch on by what is kept.               *)
LEMMA CommitStep ==
  ASSUME SpecInv, pc = "forward", NEW drafts, Drafted(drafts),
         WriteKV(drafts), Calibrate(drafts), Commit(drafts), freePages' \in Seq(Pages)
  PROVE  SpecInv'
<1>1. Going /\ SpecTypeOK
  BY DEF SpecInv
<1>2. /\ UNCHANGED <<inbox, pending, batch, chunked_list, finished, budget, reserved, prepared,
                     rows, tree, freeSlots, sent, told, failure>>
      /\ pc' = "output"
  BY DEF Commit, adder
<1>3. /\ Len(batch) \in Nat /\ InBatch = {batch[i] : i \in 1..Len(batch)} /\ InBatch \subseteq Reqs
      /\ IsFiniteSet(InBatch) /\ running \subseteq Reqs /\ IsFiniteSet(running)
      /\ \A i \in 1..Len(batch) : batch[i] \in InBatch
  BY <1>1, BatchMembers DEF Going, Typed
<1>4. \A r \in Reqs \ InBatch : req'[r] = req[r] /\ accepted'[r] = accepted[r]
  BY DEF Commit
<1>5. \A r \in InBatch :
         /\ req'[r] \in ReqRecord
         /\ req'[r].stage = "live" /\ ~ req'[r].chunked
         /\ req'[r].device = req'[r].cached + 1 /\ Len(req'[r].ids) = req'[r].cached + 1
         /\ Len(req'[r].row) = req'[r].cached /\ req'[r].prompt = req[r].prompt
         /\ accepted'[r] \in Seq(Vocab)
         /\ req[r].stage = "live" /\ ~ req[r].chunked
  BY <1>1, CommittedReq, RunFacts
<1>6. running' \subseteq running \cup InBatch /\ running' \subseteq Reqs /\ IsFiniteSet(running')
  <2>1. running' = {r \in running \cup InBatch : CanDecode(r)'}
    BY DEF Commit
  <2>2. IsFiniteSet(running \cup InBatch)
    BY <1>3, FS_Union
  <2>3. running' \subseteq running \cup InBatch
    BY <2>1
  <2> QED BY <1>3, <2>2, <2>3, FS_Subset
<1>7. req' \in [Reqs -> ReqRecord]
  <2>1. \A r \in Reqs : req'[r] \in ReqRecord
    BY <1>1, <1>4, <1>5 DEF Going, Typed
  <2>2. DOMAIN req' = Reqs /\ req' = [r \in Reqs |-> req'[r]]
    BY DEF Commit
  <2> QED BY <2>1, <2>2
<1>8. kv' \in [Pages -> Seq(Vocab)] /\ draft_kv' \in [Pages -> Seq(Vocab)]
  BY <1>1, WrittenTyped
<1>9. Typed'
  BY <1>1, <1>2, <1>6, <1>7, <1>8 DEF Going, Typed
<1>10. \A r \in Reqs : req'[r].stage = req[r].stage /\ (req'[r].chunked <=> req[r].chunked)
                       /\ req'[r].prompt = req[r].prompt
  BY <1>4, <1>5
<1>11. InboxOK' /\ PendingOK' /\ AdmissionOK' /\ SlotOK'
  <2>1. InboxOK'
    BY <1>1, <1>2, <1>10, Members DEF Going, ListsOK, InboxOK
  <2>2. PendingOK' /\ AdmissionOK' /\ SlotOK'
    BY <1>1, <1>2, <1>10, Members DEF Going, ListsOK, PendingOK, AdmissionOK, SlotOK, Admitting, Waiting
  <2> QED BY <2>1, <2>2
<1>12. PlacesOK'
  <2>1. \A r \in running' : req'[r].stage = "live" /\ ~ req'[r].chunked
    BY <1>1, <1>3, <1>4, <1>5, <1>6 DEF Going, ListsOK, PlacesOK
  <2>2. finished' = {} /\ prepared' = 0
    BY <1>1, <1>2 DEF Going, ListsOK, PlacesOK
  <2> QED BY <1>2, <1>3, <1>5, <2>1, <2>2 DEF PlacesOK
<1>13. ReqLengths'
  <2>1. \A r \in InBatch : req'[r].cached <= Len(req'[r].ids) /\ req'[r].cached <= Len(req'[r].row)
    BY <1>5, ReqFields
  <2> QED BY <1>1, <1>4, <1>5, <2>1 DEF Going, ReqLengths, InputLen
<1>14. SpecDevices'
  <2>1. \A r \in running' : req'[r].device = Len(req'[r].ids) /\ Len(req'[r].ids) = req'[r].cached + 1
    BY <1>1, <1>3, <1>4, <1>5, <1>6 DEF Going, SpecDevices
  <2> QED BY <1>2, <2>1 DEF SpecDevices
<1>15. SpecRows'
  <2>1. \A r \in running' : Len(req'[r].row) = req'[r].cached
    BY <1>1, <1>3, <1>4, <1>5, <1>6 DEF Going, SpecRows
  <2>2. \A i \in 1..Len(batch') : ~ req'[batch'[i]].chunked
    BY <1>2, <1>3, <1>5
  <2> QED BY <1>2, <2>1, <2>2 DEF SpecRows
<1>16. SpecTypeOK'
  <2>1. \A r \in Reqs : accepted'[r] \in Seq(Vocab)
    BY <1>1, <1>4, <1>5 DEF SpecTypeOK
  <2>2. accepted' = [r \in Reqs |-> accepted'[r]]
    BY DEF Commit
  <2>3. accepted' \in [Reqs -> Seq(Vocab)]
    BY <2>1, <2>2
  <2> QED BY <1>1, <1>2, <1>8, <2>3 DEF SpecTypeOK
<1> QED BY <1>9, <1>11, <1>12, <1>13, <1>14, <1>15, <1>16 DEF SpecInv, Going, ListsOK

LEMMA PrefillStep ==
  ASSUME SpecInv, Prefill
  PROVE  SpecInv'
<1> DEFINE nothing == [r \in InBatch |-> <<>>]
<1>1. /\ pc = "forward" /\ ~ Decoding /\ WriteKV(nothing) /\ Calibrate(nothing)
      /\ Commit(nothing) /\ freePages' = freePages
  BY DEF Prefill
<1>2. Going
  BY <1>1 DEF SpecInv
<1>3. Drafted(nothing)
  BY <1>1, <1>2, PrefillDrafted
<1>4. freePages' \in Seq(Pages)
  BY <1>1, <1>2 DEF Going, Typed
<1> HIDE DEF nothing
<1> QED BY <1>1, <1>3, <1>4, CommitStep

(* What the rejected drafts had been given is a list of pages.               *)
LEMMA ReleasedPages ==
  ASSUME Going, pc = "forward", NEW drafts, Drafted(drafts)
  PROVE  Released(drafts) \in Seq(Pages)
<1> DEFINE parts == [i \in 1..Len(batch) |-> Rejected(batch[i], drafts[batch[i]])]
<1>1. Len(batch) \in Nat /\ \A i \in 1..Len(batch) : batch[i] \in InBatch
  BY BatchMembers DEF Going
<1>2. ASSUME NEW i \in 1..Len(batch) PROVE Rejected(batch[i], drafts[batch[i]]) \in Seq(Pages)
  <2>1. PICK r \in InBatch : r = batch[i]
    BY <1>1
  <2>2. /\ r \in Reqs /\ req[r] \in ReqRecord /\ Len(req[r].row) <= MaxSeqLen
        /\ drafts[r] \in Seq(Vocab) /\ Len(req[r].ids) + Len(drafts[r]) = Len(req[r].row)
    BY RunFacts DEF Drafted, Fitted
  <2>3. NumAccepted(r, drafts[r]) \in 0..Len(drafts[r])
    BY <2>2, Verdict, ReqFields
  <2>4. Kept(r, drafts[r]) \in Nat
    BY <2>2, <2>3, ReqFields, LenProperties DEF Kept
  <2>5. req[r].row \in Seq(Pages) /\ Len(req[r].row) \in Nat
    BY <2>2, ReqFields
  <2>6. \A j \in Kept(r, drafts[r]) + 1 .. Len(req[r].row) : req[r].row[j] \in Pages
    BY <2>4, <2>5, ElementOfSeq
  <2>7. Rejected(r, drafts[r]) \in Seq(Pages)
    BY <2>4, <2>5, <2>6, SubSeqProperties DEF Rejected
  <2> QED BY <2>1, <2>7
<1>3. parts \in [1..Len(batch) -> Seq(Pages)]
  BY <1>2
<1> HIDE DEF parts
<1>4. FlattenSeq(parts) \in Seq(Pages)
  BY <1>1, <1>3, FlattenedIsSeq
<1> QED BY <1>4 DEF Released, parts

LEMMA VerifyStep ==
  ASSUME SpecInv, Verify
  PROVE  SpecInv'
<1>1. pc = "forward" /\ Decoding
  BY DEF Verify
<1>2. PICK drafts \in Proposals :
        /\ WriteKV(drafts) /\ Calibrate(drafts) /\ Commit(drafts)
        /\ freePages' = freePages \o Released(drafts)
  BY DEF Verify
<1>3. Going /\ freePages \in Seq(Pages)
  BY <1>1 DEF SpecInv, Going, Typed
<1>4. Drafted(drafts)
  BY <1>1, <1>3, ProposalsDrafted
<1>5. freePages' \in Seq(Pages)
  BY <1>1, <1>2, <1>3, <1>4, ReleasedPages, ConcatProperties
<1> QED BY <1>1, <1>2, <1>4, <1>5, CommitStep

-----------------------------------------------------------------------------
(* What is reported is a piece of what was accepted.                         *)
LEMMA ReportedTyped ==
  ASSUME SpecTypeOK, Going, NEW r \in Reqs
  PROVE  Reported(r) \in Seq(Vocab)
<1>1. accepted[r] \in Seq(Vocab) /\ Len(accepted[r]) \in Nat
  BY LenProperties DEF SpecTypeOK
<1>2. req[r].device \in Nat /\ req[r].max_device \in Nat
  BY ReqFields DEF Going, Typed
<1>3. Len(accepted[r]) - Overshoot(r) \in Int /\ Len(accepted[r]) - Overshoot(r) <= Len(accepted[r])
  BY <1>1, <1>2 DEF Overshoot
<1>4. Visible(r) \in Seq(Vocab)
  <2>1. \A i \in 1..(Len(accepted[r]) - Overshoot(r)) : accepted[r][i] \in Vocab
    BY <1>1, <1>3, ElementOfSeq
  <2> QED BY <1>1, <1>3, <2>1, SubSeqProperties DEF Visible
<1>5. CASE Ends(r) = {}
  BY <1>4, <1>5 DEF Reported
<1>6. CASE Ends(r) # {}
  <2>1. Ends(r) \subseteq 1..Len(Visible(r)) /\ Len(Visible(r)) \in Nat
    BY <1>4, LenProperties DEF Ends
  <2>2. \E i \in Ends(r) : \A j \in Ends(r) : i <= j
    <3>1. Ends(r) \subseteq Nat
      BY <2>1
    <3> QED BY <1>6, <3>1, LeastNatural
  <2>3. (CHOOSE i \in Ends(r) : \A j \in Ends(r) : i <= j) \in Ends(r)
    BY <2>2
  <2>4. PICK e : e = (CHOOSE i \in Ends(r) : \A j \in Ends(r) : i <= j) /\ e \in 0..Len(Visible(r))
    BY <2>1, <2>3
  <2>5. SubSeq(Visible(r), 1, e) \in Seq(Vocab)
    BY <1>4, <2>4, FirstElements
  <2> QED BY <1>6, <2>4, <2>5 DEF Reported
<1> QED BY <1>5, <1>6

(* The requests that are done leave the running set.                         *)
LEMMA OutputStep ==
  ASSUME SpecInv, Output
  PROVE  SpecInv'
<1> DEFINE done == {r \in InBatch : Ends(r) # {} \/ OutOfBudget(r)}
<1>1. /\ pc = "output" /\ pc' = "cleanup"
      /\ sent' = [r \in Reqs |-> IF r \in InBatch THEN sent[r] \o Reported(r) ELSE sent[r]]
      /\ told' = told \cup {r \in InBatch : Ends(r) # {}}
      /\ finished' = finished \cup done /\ running' = running \ done
      /\ accepted' = [r \in Reqs |-> <<>>]
      /\ UNCHANGED <<inbox, pending, batch, chunked_list, budget, reserved, prepared, rows,
                     tree, freePages, freeSlots, req, kv, state, draft_kv, failure>>
  BY DEF Output, adder, cache, data
<1>2. Going /\ SpecTypeOK
  BY <1>1 DEF SpecInv
<1>3. done \subseteq InBatch
  OBVIOUS
<1> HIDE DEF done
<1>4. /\ InBatch = {batch[i] : i \in 1..Len(batch)} /\ InBatch \subseteq Reqs
      /\ running \subseteq Reqs /\ IsFiniteSet(running) /\ finished = {}
  BY <1>1, <1>2, BatchMembers DEF Going, Typed, ListsOK, PlacesOK
<1>5. running' \subseteq running /\ IsFiniteSet(running') /\ finished' = done
  BY <1>1, <1>4, FS_Subset
<1>6. Typed'
  BY <1>1, <1>2, <1>3, <1>4, <1>5 DEF Going, Typed
<1>7. InboxOK' /\ PendingOK' /\ AdmissionOK' /\ SlotOK'
  BY <1>1, <1>2, ListsStay DEF Going
<1>8. PlacesOK'
  <2>1. \A r \in InBatch : req[r].stage = "live" /\ ~ req[r].chunked
    BY <1>1, <1>2, <1>4 DEF Going, ListsOK, PlacesOK, SpecRows
  <2> QED BY <1>1, <1>2, <1>3, <1>5, <2>1 DEF Going, ListsOK, PlacesOK
<1>9. ReqLengths'
  BY <1>1, <1>2 DEF Going, ReqLengths, InputLen
<1>10. SpecDevices' /\ SpecRows'
  <2>1. \A r \in running' : /\ req[r].device = Len(req[r].ids)
                            /\ Len(req[r].ids) = req[r].cached + 1
                            /\ Len(req[r].row) = req[r].cached
    BY <1>1, <1>2, <1>5 DEF Going, SpecDevices, SpecRows
  <2> QED BY <1>1, <2>1 DEF SpecDevices, SpecRows
<1>11. SpecTypeOK'
  <2>1. \A r \in Reqs : sent'[r] \in Seq(Vocab)
    <3> SUFFICES ASSUME NEW r \in Reqs PROVE sent'[r] \in Seq(Vocab)
      OBVIOUS
    <3>1. sent[r] \in Seq(Vocab) /\ Reported(r) \in Seq(Vocab)
      BY <1>2, ReportedTyped DEF SpecTypeOK
    <3>2. sent[r] \o Reported(r) \in Seq(Vocab)
      BY <3>1, ConcatProperties
    <3> QED BY <1>1, <3>1, <3>2
  <2>2. sent' = [r \in Reqs |-> sent'[r]]
    BY <1>1
  <2>3. sent' \in [Reqs -> Seq(Vocab)]
    BY <2>1, <2>2
  <2>4. accepted' \in [Reqs -> Seq(Vocab)]
    BY <1>1, EmptySeq
  <2>5. told' \subseteq Reqs
    BY <1>1, <1>2, <1>4 DEF SpecTypeOK
  <2> QED BY <1>1, <1>2, <2>3, <2>4, <2>5 DEF SpecTypeOK
<1> QED BY <1>6, <1>7, <1>8, <1>9, <1>10, <1>11 DEF SpecInv, Going, ListsOK

-----------------------------------------------------------------------------
LEMMA StutterStep ==
  ASSUME SpecInv, UNCHANGED all_vars
  PROVE  SpecInv'
<1>1. UNCHANGED <<inbox, pending, running, batch, chunked_list, finished, budget, reserved,
                  prepared, rows, tree, freePages, freeSlots, req, kv, state, pc,
                  draft_kv, accepted, sent, told, failure>>
  BY DEF all_vars, vars, spec_vars, lists, adder, cache, data
<1>2. SpecTypeOK'
  BY <1>1 DEF SpecInv, SpecTypeOK
<1>3. Going => Typed'
  BY <1>1 DEF Going, Typed
<1>4. Going => ListsOK'
  BY <1>1 DEF Going, ListsOK, InboxOK, PendingOK, AdmissionOK, Admitting, Waiting,
     SlotOK, PlacesOK, Current, InputLen
<1>5. Going => ReqLengths' /\ SpecDevices'
  BY <1>1 DEF Going, ReqLengths, SpecDevices, InputLen
<1>6. Going => SpecRows'
  BY <1>1 DEF Going, SpecRows, Fitted, Width, Decoding, InBatch, ExtendLen
<1> QED BY <1>1, <1>2, <1>3, <1>4, <1>5, <1>6 DEF SpecInv, Going

LEMMA NextKeepsSpecInv ==
  ASSUME SpecInv, [SpecNext]_all_vars
  PROVE  SpecInv'
<1>1. CASE Shared \/ ((RunWhenIdle \/ \E r \in Reqs : Submit(r)) /\ UNCHANGED spec_vars)
  <2>1. Shares
    <3>1. CASE RunWhenIdle
      BY <3>1 DEF RunWhenIdle, Shares
    <3>2. CASE \E r \in Reqs : Submit(r)
      BY <3>2 DEF Submit, Shares
    <3>3. CASE Select \/ EndStep
      BY <3>3 DEF Select, ProcessMsg, StartStep, StopAdmission, ContinueChunk, TryAllocate,
         AdmitWithoutSlot, AdmitWithFreeSlot, AdmitWithShedSlot, Admit, Starved, EvictForSlot,
         EndStep, Shares
    <3> QED BY <1>1, <3>1, <3>2, <3>3 DEF Shared
  <2> QED BY <1>1, <2>1, SharedInv, SharedStep
<1>2. CASE RefuseChunk \/ OutOfPages \/ OutOfColumns \/ OutOfSlots
  BY <1>2, FailSteps
<1>3. CASE EvictForPages \/ EvictForScratch
  BY <1>3, EvictStep
<1>4. CASE TakePages
  BY <1>4, TakeStep
<1>5. CASE EndTake
  BY <1>5, EndTakeStep
<1>6. CASE Prefill
  BY <1>6, PrefillStep
<1>7. CASE Verify
  BY <1>7, VerifyStep
<1>8. CASE Output
  BY <1>8, OutputStep
<1>9. CASE SpecCleanup
  BY <1>9, CleanupStep
<1>10. CASE UNCHANGED all_vars
  BY <1>10, StutterStep
<1> QED BY <1>1, <1>2, <1>3, <1>4, <1>5, <1>6, <1>7, <1>8, <1>9, <1>10 DEF SpecNext, SpecStep

LEMMA SpecInvariant == SpecSpec => []SpecInv
<1>1. SpecInit => SpecInv
  BY InitSpecInv
<1>2. SpecInv /\ [SpecNext]_all_vars => SpecInv'
  BY NextKeepsSpecInv
<1> QED BY <1>1, <1>2, PTL DEF SpecSpec

(* The loop with a speculative engine keeps every variable a value of its    *)
(* kind, and stops exactly when it has failed.                               *)
THEOREM SpecTypes == SpecSpec => []SpecTypeOK
<1>1. SpecInv => SpecTypeOK
  BY DEF SpecInv
<1> QED BY <1>1, SpecInvariant, PTL

(* However many drafts a run accepts, a request that decodes has one token   *)
(* that is not cached, and the pages of what is cached.                      *)
THEOREM OnePendingToken == SpecSpec => []OnePending
<1>1. SpecInv => OnePending
  BY DEF SpecInv, Going, SpecDevices, SpecRows, OnePending
<1> QED BY <1>1, SpecInvariant, PTL

-----------------------------------------------------------------------------
(* The sequence e has the elements of the sequences seqs[1..n], each once.   *)
Collects(e, seqs, n) ==
  /\ \A k \in 1..Len(e) : \E a \in 1..n : \E i \in 1..Len(seqs[a]) : e[k] = seqs[a][i]
  /\ \A a \in 1..n : \A i \in 1..Len(seqs[a]) : \E k \in 1..Len(e) : e[k] = seqs[a][i]
  /\ \A k, m \in 1..Len(e) : e[k] = e[m] => k = m

Apart(seqs, n) ==
  \A a, b \in 1..n : \A i \in 1..Len(seqs[a]), j \in 1..Len(seqs[b]) :
    seqs[a][i] = seqs[b][j] => a = b /\ i = j

(* One sequence more.                                                        *)
LEMMA CollectsMore ==
  ASSUME NEW S, NEW n \in Nat, n > 1, NEW seqs \in [1..n -> Seq(S)], Apart(seqs, n),
         NEW e \in Seq(S), Collects(e, seqs, n - 1)
  PROVE  Collects(e \o seqs[n], seqs, n)
<1> DEFINE t == seqs[n]
           c == e \o t
<1>1. t \in Seq(S) /\ n - 1 \in Nat /\ n \in 1..n /\ \A a \in 1..n : a \in 1 .. n - 1 \/ a = n
  OBVIOUS
<1>2. \A a \in 1 .. n - 1 : a \in 1..n /\ a # n
  OBVIOUS
<1>t. t = seqs[n]
  OBVIOUS
<1> HIDE DEF t
<1>3. /\ Len(e) \in Nat /\ Len(t) \in Nat
      /\ \A i \in 1..Len(e) : i \in 1..Len(c) /\ c[i] = e[i]
      /\ \A i \in 1..Len(t) : Len(e) + i \in 1..Len(c) /\ c[Len(e) + i] = t[i]
      /\ \A k \in 1..Len(c) : k \in 1..Len(e) \/ \E i \in 1..Len(t) : k = Len(e) + i
  BY <1>1, Extended
<1> HIDE DEF c
<1>4. ASSUME NEW k \in 1..Len(c)
      PROVE  \E a \in 1..n : \E i \in 1..Len(seqs[a]) : c[k] = seqs[a][i]
  <2>1. CASE k \in 1..Len(e)
    <3>1. PICK a \in 1 .. n - 1 : \E i \in 1..Len(seqs[a]) : e[k] = seqs[a][i]
      BY <2>1 DEF Collects
    <3> QED BY <1>2, <1>3, <2>1, <3>1
  <2>2. CASE \E i \in 1..Len(t) : k = Len(e) + i
    BY <1>1, <1>3, <1>t, <2>2
  <2> QED BY <1>3, <2>1, <2>2
<1>5. ASSUME NEW a \in 1..n, NEW i \in 1..Len(seqs[a])
      PROVE  \E k \in 1..Len(c) : c[k] = seqs[a][i]
  <2>1. CASE a \in 1 .. n - 1
    <3>1. PICK k \in 1..Len(e) : e[k] = seqs[a][i]
      BY <2>1 DEF Collects
    <3> QED BY <1>3, <3>1
  <2>2. CASE a = n
    BY <1>3, <1>t, <2>2
  <2> QED BY <1>1, <2>1, <2>2
<1>6. ASSUME NEW k \in 1..Len(e), NEW i \in 1..Len(t) PROVE e[k] # t[i]
  <2>1. PICK a \in 1 .. n - 1 : \E j \in 1..Len(seqs[a]) : e[k] = seqs[a][j]
    BY DEF Collects
  <2>2. PICK j \in 1..Len(seqs[a]) : e[k] = seqs[a][j]
    BY <2>1
  <2>3. a \in 1..n /\ a # n
    BY <1>2
  <2> QED BY <1>1, <1>t, <2>2, <2>3 DEF Apart
<1>7. ASSUME NEW k \in 1..Len(c), NEW m \in 1..Len(c), c[k] = c[m] PROVE k = m
  <2>1. CASE k \in 1..Len(e) /\ m \in 1..Len(e)
    BY <1>3, <1>7, <2>1 DEF Collects
  <2>2. CASE k \in 1..Len(e) /\ \E i \in 1..Len(t) : m = Len(e) + i
    BY <1>3, <1>6, <1>7, <2>2
  <2>3. CASE m \in 1..Len(e) /\ \E i \in 1..Len(t) : k = Len(e) + i
    BY <1>3, <1>6, <1>7, <2>3
  <2>4. CASE (\E i \in 1..Len(t) : k = Len(e) + i) /\ (\E i \in 1..Len(t) : m = Len(e) + i)
    <3>1. PICK i \in 1..Len(t), j \in 1..Len(t) : k = Len(e) + i /\ m = Len(e) + j
      BY <2>4
    <3>2. t[i] = t[j]
      BY <1>3, <1>7, <3>1
    <3>3. i = j
      BY <1>1, <1>t, <3>2 DEF Apart
    <3> QED BY <3>1, <3>3
  <2> QED BY <1>3, <2>1, <2>2, <2>3, <2>4
<1>8. Collects(c, seqs, n)
  BY <1>4, <1>5, <1>7 DEF Collects
<1> QED BY <1>8, <1>t DEF c

(* Flattening does not depend on what lies behind the n-th sequence.         *)
LEMMA CollectsSame ==
  ASSUME NEW e, NEW s, NEW t, NEW n, \A a \in 1..n : s[a] = t[a], Collects(e, s, n)
  PROVE  Collects(e, t, n)
<1>1. ASSUME NEW k \in 1..Len(e)
      PROVE  \E a \in 1..n : \E i \in 1..Len(t[a]) : e[k] = t[a][i]
  <2>1. PICK a \in 1..n : \E i \in 1..Len(s[a]) : e[k] = s[a][i]
    BY DEF Collects
  <2>2. s[a] = t[a]
    OBVIOUS
  <2> QED BY <2>1, <2>2
<1>2. ASSUME NEW a \in 1..n, NEW i \in 1..Len(t[a])
      PROVE  \E k \in 1..Len(e) : e[k] = t[a][i]
  <2>1. s[a] = t[a]
    OBVIOUS
  <2>2. i \in 1..Len(s[a])
    BY <2>1
  <2>3. \E k \in 1..Len(e) : e[k] = s[a][i]
    BY <2>2 DEF Collects
  <2> QED BY <2>1, <2>3
<1>3. \A k, m \in 1..Len(e) : e[k] = e[m] => k = m
  BY DEF Collects
<1> QED BY <1>1, <1>2, <1>3 DEF Collects

(* Flattening sequences that are apart collects their elements.              *)
LEMMA FlattenedOnce ==
  ASSUME NEW S, NEW n \in Nat, NEW seqs \in [1..n -> Seq(S)], Apart(seqs, n)
  PROVE  Collects(FlattenSeq(seqs), seqs, n)
<1>1. seqs \in Seq(Seq(S)) /\ Len(seqs) = n
  OBVIOUS
<1>2. CASE n = 0
  <2>1. FlattenSeq(seqs) = seqs /\ 1..n = {} /\ 1..Len(seqs) = {}
    BY <1>1, <1>2, EmptySeq DEF FlattenSeq
  <2> QED BY <2>1 DEF Collects
<1>3. CASE n # 0
  <2>1. PICK f : f = [i \in 1..n |-> IF i = 1 THEN seqs[i] ELSE f[i - 1] \o seqs[i]]
                 /\ FlattenSeq(seqs) = f[n]
    <3>1. \E g : g = [i \in 1..n |-> IF i = 1 THEN seqs[i] ELSE g[i - 1] \o seqs[i]]
      BY JoinedExists DEF Joined
    <3>2. FlattenSeq(seqs) =
            (CHOOSE g : g = [i \in 1..n |-> IF i = 1 THEN seqs[i] ELSE g[i - 1] \o seqs[i]])[n]
      BY <1>1, <1>3 DEF FlattenSeq
    <3> QED BY <3>1, <3>2
  <2>2. \A i \in 1..n : f[i] = IF i = 1 THEN seqs[i] ELSE f[i - 1] \o seqs[i]
    BY <2>1
  <2>3. FlattenSeq(seqs) = f[n]
    BY <2>1
  <2> DEFINE N == {i \in 1..n : ~ (f[i] \in Seq(S) /\ Collects(f[i], seqs, i))}
  <2>4. N = {}
    <3> SUFFICES ASSUME N # {} PROVE FALSE
      OBVIOUS
    <3>1. PICK i \in N : \A m \in N : i <= m
      <4>1. N \subseteq Nat
        OBVIOUS
      <4> HIDE DEF N
      <4> QED BY <4>1, LeastNatural
    <3>2. i \in 1..n /\ ~ (f[i] \in Seq(S) /\ Collects(f[i], seqs, i))
      BY <3>1
    <3>3. CASE i = 1
      <4>1. f[i] = seqs[1] /\ seqs[1] \in Seq(S) /\ 1..i = {1} /\ 1 \in 1..n
        BY <2>2, <3>2, <3>3
      <4>2. \A k, m \in 1..Len(seqs[1]) : seqs[1][k] = seqs[1][m] => k = m
        BY <4>1 DEF Apart
      <4>3. Collects(seqs[1], seqs, i)
        BY <4>1, <4>2 DEF Collects
      <4> QED BY <3>2, <4>1, <4>3
    <3>4. CASE i # 1
      <4>1. i \in Nat /\ i > 1 /\ i - 1 \in 1..n /\ i - 1 < i
        BY <3>2, <3>4
      <4>2. f[i - 1] \in Seq(S) /\ Collects(f[i - 1], seqs, i - 1)
        BY <3>1, <4>1
      <4>3. f[i] = f[i - 1] \o seqs[i] /\ seqs[i] \in Seq(S)
        BY <2>2, <3>2, <3>4
      <4> DEFINE part == [a \in 1..i |-> seqs[a]]
      <4>4. \A a \in 1..i : a \in 1..n /\ part[a] = seqs[a]
        BY <3>2
      <4>5. part \in [1..i -> Seq(S)]
        BY <4>4
      <4>6. \A a \in 1 .. i - 1 : a \in 1..i
        BY <4>1
      <4> HIDE DEF part
      <4>7. Apart(part, i)
        BY <4>4 DEF Apart
      <4>8. Collects(f[i - 1], part, i - 1)
        <5>1. \A a \in 1 .. i - 1 : seqs[a] = part[a]
          BY <4>4, <4>6
        <5> QED BY <4>2, <5>1, CollectsSame
      <4>9. Collects(f[i - 1] \o part[i], part, i)
        BY <4>1, <4>2, <4>5, <4>7, <4>8, CollectsMore
      <4>10. part[i] = seqs[i]
        BY <4>1, <4>4
      <4>11. Collects(f[i], part, i)
        BY <4>3, <4>9, <4>10
      <4>12. Collects(f[i], seqs, i)
        <5>1. \A a \in 1..i : part[a] = seqs[a]
          BY <4>4
        <5> QED BY <4>11, <5>1, CollectsSame
      <4> QED BY <3>2, <4>2, <4>3, <4>12, ConcatProperties
    <3> QED BY <3>3, <3>4
  <2>5. n \in 1..n
    BY <1>3
  <2>6. Collects(f[n], seqs, n)
    BY <2>4, <2>5
  <2> QED BY <2>3, <2>6
<1> QED BY <1>2, <1>3

-----------------------------------------------------------------------------
(* The rows R are cut to Q, and the pages e of what is cut go to the list.   *)
Cut(r, R, Q) == Len(Q[r]) + 1 .. Len(R[r])

CutTo(e, L, R, Q, B) ==
  /\ \A r \in L : /\ B[r] \in Nat /\ Len(Q[r]) \in Nat /\ Len(R[r]) \in Nat
                  /\ B[r] <= Len(Q[r]) /\ Len(Q[r]) <= Len(R[r])
                  /\ \A i \in 1..Len(Q[r]) : Q[r][i] = R[r][i]
  /\ \A k \in 1..Len(e) : \E r \in L : \E i \in Cut(r, R, Q) : e[k] = R[r][i]
  /\ \A r \in L : \A i \in Cut(r, R, Q) : \E k \in 1..Len(e) : e[k] = R[r][i]
  /\ \A k, m \in 1..Len(e) : e[k] = e[m] => k = m

(* Rows that are cut leave each page with one owner.                         *)
LEMMA CutOnce ==
  ASSUME NEW f \in Seq(Pages), NEW g, NEW L, NEW R, NEW Q, NEW B, OwnedOnce(f, g, L, R, B),
         NEW e \in Seq(Pages), CutTo(e, L, R, Q, B)
  PROVE  OwnedOnce(f \o e, g, L, Q, B)
<1> DEFINE c == f \o e
<1>0. /\ \A r \in L : /\ B[r] \in Nat /\ Len(Q[r]) \in Nat /\ Len(R[r]) \in Nat
                      /\ B[r] <= Len(Q[r]) /\ Len(Q[r]) <= Len(R[r])
                      /\ \A i \in 1..Len(Q[r]) : Q[r][i] = R[r][i]
      /\ \A k \in 1..Len(e) : \E r \in L : \E i \in Cut(r, R, Q) : e[k] = R[r][i]
      /\ \A r \in L : \A i \in Cut(r, R, Q) : \E k \in 1..Len(e) : e[k] = R[r][i]
      /\ \A k, m \in 1..Len(e) : e[k] = e[m] => k = m
  BY DEF CutTo
<1>1. /\ Len(f) \in Nat /\ Len(e) \in Nat
      /\ \A i \in 1..Len(f) : i \in 1..Len(c) /\ c[i] = f[i]
      /\ \A i \in 1..Len(e) : Len(f) + i \in 1..Len(c) /\ c[Len(f) + i] = e[i]
      /\ \A k \in 1..Len(c) : k \in 1..Len(f) \/ \E i \in 1..Len(e) : k = Len(f) + i
  BY Extended
<1> HIDE DEF c
<1>2. /\ FreeOnce(f) /\ TreeOnce(g) /\ RowsOnce(L, R, B)
      /\ FreeNotTree(f, g) /\ FreeNotRow(f, L, R, B) /\ TreeNotRow(g, L, R, B)
      /\ Covered(f, g, L, R, B)
  BY DEF OwnedOnce
(* What is left of a row, and what is cut.                                   *)
<1>3. ASSUME NEW r \in L
      PROVE  /\ \A i \in Own(r, Q, B) : i \in Own(r, R, B) /\ Q[r][i] = R[r][i] /\ i \notin Cut(r, R, Q)
             /\ \A i \in Cut(r, R, Q) : i \in Own(r, R, B) /\ i \notin Own(r, Q, B)
             /\ \A i \in Own(r, R, B) : i \in Own(r, Q, B) \/ i \in Cut(r, R, Q)
  <2>1. PICK b \in Nat, q \in Nat, k \in Nat :
          b = B[r] /\ q = Len(Q[r]) /\ k = Len(R[r]) /\ b <= q /\ q <= k
    BY <1>0
  <2>2. Own(r, Q, B) = b + 1 .. q /\ Own(r, R, B) = b + 1 .. k /\ Cut(r, R, Q) = q + 1 .. k
    BY <2>1 DEF Own, Cut
  <2>3. \A i \in b + 1 .. q : i \in 1..q /\ i \in b + 1 .. k /\ i \notin q + 1 .. k
    BY <2>1
  <2>4. \A i \in q + 1 .. k : i \in b + 1 .. k /\ i \notin b + 1 .. q
    BY <2>1
  <2>5. \A i \in b + 1 .. k : i \in b + 1 .. q \/ i \in q + 1 .. k
    BY <2>1
  <2> QED BY <1>0, <2>1, <2>2, <2>3, <2>4, <2>5
<1>4. ASSUME NEW k \in 1..Len(e)
      PROVE  \E r \in L : \E i \in Own(r, R, B) : i \notin Own(r, Q, B) /\ e[k] = R[r][i]
  BY <1>0, <1>3
<1>5. RowsOnce(L, Q, B)
  BY <1>2, <1>3 DEF RowsOnce
<1>6. TreeNotRow(g, L, Q, B)
  BY <1>2, <1>3 DEF TreeNotRow
<1>7. FreeNotRow(c, L, Q, B)
  <2> SUFFICES ASSUME NEW k \in 1..Len(c), NEW r \in L, NEW j \in Own(r, Q, B), c[k] = Q[r][j]
               PROVE  FALSE
    BY DEF FreeNotRow
  <2>1. j \in Own(r, R, B) /\ Q[r][j] = R[r][j]
    BY <1>3
  <2>2. CASE k \in 1..Len(f)
    BY <1>1, <1>2, <2>1, <2>2 DEF FreeNotRow
  <2>3. CASE \E i \in 1..Len(e) : k = Len(f) + i
    <3>1. PICK i \in 1..Len(e) : c[k] = e[i]
      BY <1>1, <2>3
    <3>2. PICK s \in L : \E m \in Own(s, R, B) : m \notin Own(s, Q, B) /\ e[i] = R[s][m]
      BY <1>4
    <3>3. PICK m \in Own(s, R, B) : m \notin Own(s, Q, B) /\ e[i] = R[s][m]
      BY <3>2
    <3>4. s = r /\ m = j
      BY <1>2, <2>1, <3>1, <3>3 DEF RowsOnce
    <3> QED BY <3>3, <3>4
  <2> QED BY <1>1, <2>2, <2>3
<1>8. FreeNotTree(c, g)
  <2> SUFFICES ASSUME NEW k \in 1..Len(c), NEW p \in DOMAIN g, c[k] = g[p] PROVE FALSE
    BY DEF FreeNotTree
  <2>1. CASE k \in 1..Len(f)
    BY <1>1, <1>2, <2>1 DEF FreeNotTree
  <2>2. CASE \E i \in 1..Len(e) : k = Len(f) + i
    <3>1. PICK i \in 1..Len(e) : k = Len(f) + i
      BY <2>2
    <3>2. c[k] = e[i]
      BY <1>1, <3>1
    <3>3. PICK r \in L : \E j \in Own(r, R, B) : e[i] = R[r][j]
      BY <1>4
    <3>4. PICK j \in Own(r, R, B) : e[i] = R[r][j]
      BY <3>3
    <3>5. g[p] # R[r][j]
      <4>1. \A x \in DOMAIN g, s \in L : \A v \in Own(s, R, B) : g[x] # R[s][v]
        BY <1>2 DEF TreeNotRow
      <4> HIDE DEF Own
      <4> QED BY <3>4, <4>1
    <3> QED BY <3>2, <3>4, <3>5
  <2> QED BY <1>1, <2>1, <2>2
<1>9. FreeOnce(c)
  <2> SUFFICES ASSUME NEW k \in 1..Len(c), NEW m \in 1..Len(c), c[k] = c[m] PROVE k = m
    BY DEF FreeOnce
  <2>1. \A i \in 1..Len(f), j \in 1..Len(e) : f[i] # e[j]
    BY <1>2, <1>4 DEF FreeNotRow
  <2>2. CASE k \in 1..Len(f) /\ m \in 1..Len(f)
    BY <1>1, <1>2, <2>2 DEF FreeOnce
  <2>3. CASE k \in 1..Len(f) /\ \E i \in 1..Len(e) : m = Len(f) + i
    BY <1>1, <2>1, <2>3
  <2>4. CASE m \in 1..Len(f) /\ \E i \in 1..Len(e) : k = Len(f) + i
    BY <1>1, <2>1, <2>4
  <2>5. CASE (\E i \in 1..Len(e) : k = Len(f) + i) /\ (\E i \in 1..Len(e) : m = Len(f) + i)
    <3>1. PICK i \in 1..Len(e), j \in 1..Len(e) : k = Len(f) + i /\ m = Len(f) + j
      BY <2>5
    <3>2. e[i] = e[j]
      BY <1>1, <3>1
    <3> QED BY <1>0, <3>1, <3>2
  <2> QED BY <1>1, <2>2, <2>3, <2>4, <2>5
<1>10. Covered(c, g, L, Q, B)
  <2> SUFFICES ASSUME NEW a \in Pages
               PROVE  \/ \E i \in 1..Len(c) : c[i] = a
                      \/ \E p \in DOMAIN g : g[p] = a
                      \/ \E r \in L : \E j \in Own(r, Q, B) : Q[r][j] = a
    BY DEF Covered
  <2>1. \/ \E i \in 1..Len(f) : f[i] = a
        \/ \E p \in DOMAIN g : g[p] = a
        \/ \E r \in L : \E j \in Own(r, R, B) : R[r][j] = a
    BY <1>2 DEF Covered
  <2>2. CASE \E i \in 1..Len(f) : f[i] = a
    BY <1>1, <2>2
  <2>3. CASE \E r \in L : \E j \in Own(r, R, B) : R[r][j] = a
    <3>1. PICK r \in L : \E j \in Own(r, R, B) : R[r][j] = a
      BY <2>3
    <3>2. PICK j \in Own(r, R, B) : R[r][j] = a
      BY <3>1
    <3>3. CASE j \in Own(r, Q, B)
      BY <1>3, <3>2, <3>3
    <3>4. CASE j \in Cut(r, R, Q)
      <4>1. PICK k \in 1..Len(e) : e[k] = R[r][j]
        BY <1>0, <3>2, <3>4
      <4>2. Len(f) + k \in 1..Len(c) /\ c[Len(f) + k] = a
        BY <1>1, <3>2, <4>1
      <4> QED BY <4>2
    <3> QED BY <1>3, <3>2, <3>3, <3>4
  <2> QED BY <2>1, <2>2, <2>3
<1> QED BY <1>2, <1>5, <1>6, <1>7, <1>8, <1>9, <1>10 DEF OwnedOnce, c

-----------------------------------------------------------------------------
(* The run of a batch, with or without drafts.                               *)
Ran(drafts) ==
  /\ pc = "forward" /\ Drafted(drafts)
  /\ WriteKV(drafts) /\ Calibrate(drafts) /\ Commit(drafts)
  /\ freePages' = freePages \o Released(drafts)
  /\ \/ state' = [s \in Slots |-> Committing(s, drafts)]
     \/ CacheType # "hybrid" /\ UNCHANGED state
     \/ CacheType = "hybrid" /\ \E into \in [InBatch -> freeSlots] :
          IsInjective(into) /\ state' = [s \in Slots |-> Replay(s, into, drafts)]

(* What a run does to a request of its batch.                                *)
LEMMA CommittedFields ==
  ASSUME Going, pc = "forward", NEW drafts, Drafted(drafts), Commit(drafts), NEW r \in InBatch
  PROVE  /\ req'[r].handle = req[r].handle
         /\ \A i \in 1..Kept(r, drafts[r]) : req'[r].row[i] = req[r].row[i]
         /\ \A i \in 0..Kept(r, drafts[r]) :
              SubSeq(req'[r].ids, 1, i) = SubSeq(Fed(r, drafts[r]), 1, i)
         /\ IsPrefix(req[r].ids, req'[r].ids)
         /\ \A i \in 0..Len(req[r].ids) : SubSeq(Fed(r, drafts[r]), 1, i) = SubSeq(req[r].ids, 1, i)
         /\ Fed(r, drafts[r]) \in Seq(Vocab) /\ Len(Fed(r, drafts[r])) = Len(req[r].row)
<1> DEFINE d == drafts[r]
<1>1. /\ r \in Reqs /\ req[r] \in ReqRecord /\ Len(req[r].row) <= MaxSeqLen
  BY RunFacts DEF Fitted
<1>2. d \in Seq(Vocab) /\ Len(req[r].ids) + Len(d) = Len(req[r].row)
  BY DEF Drafted
<1>3. Kept(r, d) \in Len(req[r].ids)..Len(req[r].row) /\ req'[r] \in ReqRecord
  BY CommittedReq
<1> DEFINE more == AcceptedTokens(r, d)
<1>4. /\ req'[r].handle = req[r].handle
      /\ req'[r].ids = req[r].ids \o more /\ req'[r].row = SubSeq(req[r].row, 1, Kept(r, d))
  <2>1. PICK x, y, z, w : /\ x = req[r].ids \o more /\ y = Kept(r, d) /\ z = Kept(r, d) + 1
                          /\ w = SubSeq(req[r].row, 1, Kept(r, d))
    OBVIOUS
  <2>2. req'[r] = [req[r] EXCEPT !.ids = x, !.cached = y, !.device = z, !.row = w]
    BY <1>1, <2>1 DEF Commit
  <2> QED BY <1>1, <2>1, <2>2 DEF ReqRecord
<1> HIDE DEF d
<1>5. PICK k \in Nat, n \in Nat, ids \in Seq(Vocab), row \in Seq(Pages) :
        /\ ids = req[r].ids /\ row = req[r].row
        /\ k = Len(ids) /\ n = Len(d) /\ k + n = Len(row)
  BY <1>1, <1>2, ReqFields, LenProperties
<1>6. /\ NumAccepted(r, d) \in 0..n /\ more \in Seq(Vocab) /\ Len(more) = NumAccepted(r, d) + 1
      /\ Fed(r, d) \in Seq(Vocab) /\ Len(Fed(r, d)) = Len(req[r].row)
  BY <1>1, <1>2, <1>5, Verdict
<1> HIDE DEF more
<1>7. PICK a \in Nat : a = NumAccepted(r, d) /\ a <= n /\ Kept(r, d) = k + a
  BY <1>5, <1>6 DEF Kept
<1>8. \A i \in 1..a : more[i] = d[i]
  <2>1. a \in 0..Len(d)
    BY <1>5, <1>7
  <2> DEFINE front == SubSeq(d, 1, a)
  <2>2. front \in Seq(Vocab) /\ Len(front) = a /\ \A i \in 1..a : front[i] = d[i]
    BY <1>2, <2>1, FirstElements
  <2> HIDE DEF front
  <2>3. \A i \in 1..a : (front \o <<Bonus(r, d)>>)[i] = front[i]
    BY <2>2
  <2>4. more = front \o <<Bonus(r, d)>>
    BY <1>7 DEF AcceptedTokens, front, more
  <2> QED BY <2>2, <2>3, <2>4
<1>9. \A i \in 1..Kept(r, d) : req'[r].row[i] = req[r].row[i]
  <2>1. Kept(r, d) \in 0..Len(row)
    BY <1>3, <1>5
  <2> QED BY <1>4, <1>5, <2>1, FirstElements
<1> DEFINE x == ids \o more
           y == ids \o d
<1>10. /\ x \in Seq(Vocab) /\ Len(x) = k + (a + 1)
       /\ \A i \in 1..k : x[i] = ids[i]
       /\ \A i \in 1..a + 1 : x[k + i] = more[i]
  <2>1. /\ x \in Seq(Vocab) /\ Len(x) = Len(ids) + Len(more)
        /\ \A i \in 1..Len(ids) : x[i] = ids[i]
        /\ \A i \in 1..Len(more) : x[Len(ids) + i] = more[i]
    <3>1. ids \in Seq(Vocab) /\ more \in Seq(Vocab)
      BY <1>6
    <3> QED BY <3>1, Extended
  <2>2. Len(more) = a + 1
    BY <1>6, <1>7
  <2> HIDE DEF x
  <2> QED BY <1>5, <2>1, <2>2
<1>11. /\ y \in Seq(Vocab) /\ Len(y) = k + n
       /\ \A i \in 1..k : y[i] = ids[i]
       /\ \A i \in 1..n : y[k + i] = d[i]
  <2>1. /\ y \in Seq(Vocab) /\ Len(y) = Len(ids) + Len(d)
        /\ \A i \in 1..Len(ids) : y[i] = ids[i]
        /\ \A i \in 1..Len(d) : y[Len(ids) + i] = d[i]
    BY <1>2, <1>5, Extended
  <2> HIDE DEF y
  <2> QED BY <1>5, <2>1
<1> HIDE DEF x, y
<1>12. \A i \in 1..k + a : x[i] = y[i]
  <2> SUFFICES ASSUME NEW i \in 1..k + a PROVE x[i] = y[i]
    OBVIOUS
  <2>1. CASE i <= k
    BY <1>10, <1>11, <2>1
  <2>2. CASE ~ (i <= k)
    <3>1. i - k \in 1..a /\ i - k \in 1..n /\ i - k \in 1 .. a + 1 /\ i = k + (i - k)
      BY <1>7, <2>2
    <3>2. x[k + (i - k)] = more[i - k] /\ y[k + (i - k)] = d[i - k] /\ more[i - k] = d[i - k]
      BY <1>8, <1>10, <1>11, <3>1
    <3> QED BY <3>1, <3>2
  <2> QED BY <2>1, <2>2
<1>13. ASSUME NEW i \in 0..k + a PROVE SubSeq(x, 1, i) = SubSeq(y, 1, i)
  <2>1. i \in 0..Len(x) /\ i \in 0..Len(y) /\ \A j \in 1..i : j \in 1..k + a
    BY <1>7, <1>10, <1>11
  <2> DEFINE u == SubSeq(x, 1, i)
             v == SubSeq(y, 1, i)
  <2>2. /\ u \in Seq(Vocab) /\ Len(u) = i /\ \A j \in 1..i : u[j] = x[j]
        /\ v \in Seq(Vocab) /\ Len(v) = i /\ \A j \in 1..i : v[j] = y[j]
    BY <1>10, <1>11, <2>1, FirstElements
  <2> HIDE DEF u, v
  <2>3. \A j \in 1..i : u[j] = v[j]
    BY <1>12, <2>1, <2>2
  <2>4. u = v
    BY <2>2, <2>3, SeqEqual
  <2> QED BY <2>4 DEF u, v
<1>14. ASSUME NEW s \in Seq(Vocab), Len(s) \in Nat, k <= Len(s), \A i \in 1..k : s[i] = ids[i]
       PROVE  IsPrefix(ids, s)
  <2>1. Len(ids) <= Len(s) /\ \A i \in 1..Len(ids) : ids[i] = s[i]
    BY <1>5, <1>14
  <2> QED BY <2>1, PrefixPointwise
<1>15. IsPrefix(ids, x) /\ IsPrefix(ids, y)
  <2>1. k <= Len(x) /\ k <= Len(y) /\ Len(x) \in Nat /\ Len(y) \in Nat
    BY <1>7, <1>10, <1>11
  <2> QED BY <1>10, <1>11, <1>14, <2>1
<1>16. \A i \in 0..Len(ids) : SubSeq(y, 1, i) = SubSeq(ids, 1, i)
  BY <1>11, <1>15, SameStart
<1>17. y = Fed(r, d) /\ x = req'[r].ids
  BY <1>4, <1>5 DEF Fed, x, y
<1> QED BY <1>4, <1>5, <1>6, <1>7, <1>9, <1>13, <1>15, <1>16, <1>17 DEF d

(* What a run does to the requests of the batch.                             *)
LEMMA RanFacts ==
  ASSUME Going, NEW drafts, Ran(drafts)
  PROVE  /\ pc = "forward" /\ pc' = "output" /\ tree' = tree /\ freeSlots' = freeSlots
         /\ batch' = batch /\ InBatch = {batch[i] : i \in 1..Len(batch)}
         /\ Live' = Live /\ Live \subseteq Reqs /\ InBatch \subseteq Live
         /\ \A r \in Reqs \ InBatch : req'[r] = req[r]
         /\ \A r \in Reqs : req'[r].slot = req[r].slot /\ req'[r].handle = req[r].handle
         /\ \A r \in InBatch :
              /\ ~ req'[r].chunked /\ req'[r].cached = Kept(r, drafts[r])
              /\ Len(req'[r].row) = Kept(r, drafts[r])
              /\ Kept(r, drafts[r]) \in Len(req[r].ids)..Len(req[r].row)
<1>1. pc = "forward" /\ Drafted(drafts) /\ Commit(drafts)
  BY DEF Ran
<1>2. /\ pc' = "output" /\ tree' = tree /\ freeSlots' = freeSlots /\ batch' = batch
      /\ \A r \in Reqs \ InBatch : req'[r] = req[r]
  BY <1>1 DEF Commit
<1>3. InBatch = {batch[i] : i \in 1..Len(batch)} /\ InBatch \subseteq Reqs
  BY BatchMembers DEF Going
<1>4. ASSUME NEW r \in InBatch
      PROVE  /\ r \in Live /\ req'[r].stage = "live" /\ ~ req'[r].chunked
             /\ req'[r].slot = req[r].slot /\ req'[r].handle = req[r].handle
             /\ req'[r].cached = Kept(r, drafts[r]) /\ Len(req'[r].row) = Kept(r, drafts[r])
             /\ Kept(r, drafts[r]) \in Len(req[r].ids)..Len(req[r].row)
  BY <1>1, RunFacts, CommittedReq, CommittedFields DEF Live
<1>5. Live' = Live /\ Live \subseteq Reqs
  BY <1>2, <1>3, <1>4 DEF Live
<1> QED BY <1>1, <1>2, <1>3, <1>4, <1>5

-----------------------------------------------------------------------------
(* What the rejected drafts of a request had been given.                     *)
LEMMA RejectedPart ==
  ASSUME Going, pc = "forward", NEW drafts, Drafted(drafts), NEW r \in InBatch
  PROVE  /\ Rejected(r, drafts[r]) \in Seq(Pages)
         /\ Kept(r, drafts[r]) \in Len(req[r].ids)..Len(req[r].row)
         /\ Len(Rejected(r, drafts[r])) = Len(req[r].row) - Kept(r, drafts[r])
         /\ \A i \in 1..Len(Rejected(r, drafts[r])) :
              /\ Rejected(r, drafts[r])[i] = req[r].row[Kept(r, drafts[r]) + i]
              /\ Kept(r, drafts[r]) + i \in Kept(r, drafts[r]) + 1 .. Len(req[r].row)
         /\ \A j \in Kept(r, drafts[r]) + 1 .. Len(req[r].row) :
              /\ j - Kept(r, drafts[r]) \in 1..Len(Rejected(r, drafts[r]))
              /\ Kept(r, drafts[r]) + (j - Kept(r, drafts[r])) = j
<1> DEFINE d == drafts[r]
<1>1. /\ r \in Reqs /\ req[r] \in ReqRecord /\ Len(req[r].row) <= MaxSeqLen
      /\ d \in Seq(Vocab) /\ Len(req[r].ids) + Len(d) = Len(req[r].row)
  BY RunFacts DEF Drafted, Fitted
<1> HIDE DEF d
<1>2. PICK k \in Nat, n \in Nat, row \in Seq(Pages) :
        k = Len(req[r].ids) /\ n = Len(d) /\ row = req[r].row /\ k + n = Len(row)
  BY <1>1, ReqFields, LenProperties
<1>3. NumAccepted(r, d) \in 0..n
  BY <1>1, <1>2, Verdict, ReqFields
<1>4. PICK q \in Nat, m \in Nat : q = Kept(r, d) /\ m = Len(row) /\ k <= q /\ q <= m
  BY <1>2, <1>3 DEF Kept
<1> DEFINE e == SubSeq(row, q + 1, m)
<1>5. e = Rejected(r, d)
  BY <1>2, <1>4 DEF Rejected
<1>6. \A i \in q + 1 .. m : row[i] \in Pages
  BY <1>2, <1>4, ElementOfSeq
<1>7. /\ e \in Seq(Pages) /\ Len(e) = IF q + 1 <= m THEN m - (q + 1) + 1 ELSE 0
      /\ \A i \in 1 .. m - (q + 1) + 1 : e[i] = row[q + 1 + i - 1]
  BY <1>4, <1>6, SubSeqProperties
<1> HIDE DEF e
<1>8. m - (q + 1) + 1 = m - q /\ (q + 1 <= m \/ m - q = 0)
  BY <1>4
<1>9. Len(e) = m - q
  BY <1>7, <1>8
<1>10. ASSUME NEW i \in 1..Len(e) PROVE e[i] = row[q + i] /\ q + i \in q + 1 .. m
  <2>1. i \in 1 .. m - q /\ q + 1 + i - 1 = q + i /\ q + i \in q + 1 .. m
    BY <1>4, <1>9
  <2>2. i \in 1 .. m - (q + 1) + 1
    BY <1>8, <2>1
  <2>3. e[i] = row[q + 1 + i - 1]
    BY <1>7, <2>2
  <2> QED BY <2>1, <2>3
<1>11. ASSUME NEW j \in q + 1 .. m PROVE j - q \in 1..Len(e) /\ q + (j - q) = j
  BY <1>4, <1>9
<1> QED BY <1>2, <1>4, <1>5, <1>7, <1>9, <1>10, <1>11 DEF d

(* The pages behind what is kept go to the free list, each once.             *)
LEMMA RunPages ==
  ASSUME Going, RowsSettled, HandlesFit, PagesInv, NEW drafts, Ran(drafts)
  PROVE  PagesInv'
<1> DEFINE e == Released(drafts)
           n == Len(batch)
           parts == [i \in 1..n |-> Rejected(batch[i], drafts[batch[i]])]
<1>1. /\ pc = "forward" /\ Drafted(drafts) /\ freePages' = freePages \o e
      /\ freePages \in Seq(Pages) /\ req \in [Reqs -> ReqRecord]
  BY DEF Ran, Going, Typed
<1>2. n \in Nat /\ \A i \in 1..n : batch[i] \in InBatch
  BY BatchMembers DEF Going
<1>3. /\ tree' = tree /\ Live' = Live /\ Live \subseteq Reqs /\ InBatch \subseteq Live
      /\ InBatch = {batch[i] : i \in 1..n}
      /\ \A r \in Reqs \ InBatch : req'[r] = req[r]
      /\ \A r \in Reqs : req'[r].handle = req[r].handle
      /\ \A r \in InBatch : /\ Len(req'[r].row) = Kept(r, drafts[r])
                            /\ Kept(r, drafts[r]) \in Len(req[r].ids)..Len(req[r].row)
  BY RanFacts
<1>4. \A i, j \in 1..n : batch[i] = batch[j] => i = j
  BY <1>1 DEF RowsSettled
<1>5. \A s \in Reqs : RowOf'[s] = req'[s].row /\ RowOf[s] = req[s].row /\ SharedOf[s] = Len(req[s].handle)
  BY DEF RowOf, SharedOf
<1>6. SharedOf' = SharedOf
  BY <1>3 DEF SharedOf
(* The rows before and after.                                                *)
<1>7. ASSUME NEW r \in Live
      PROVE  /\ SharedOf[r] \in Nat /\ Len(RowOf'[r]) \in Nat /\ Len(RowOf[r]) \in Nat
             /\ SharedOf[r] <= Len(RowOf'[r]) /\ Len(RowOf'[r]) <= Len(RowOf[r])
             /\ \A i \in 1..Len(RowOf'[r]) : RowOf'[r][i] = RowOf[r][i]
  <2>1. r \in Reqs /\ req[r] \in ReqRecord
    BY <1>1, <1>3
  <2>2. PICK b \in Nat, c \in Nat, k \in Nat, m \in Nat :
          /\ b = Len(req[r].handle) /\ c = req[r].cached /\ k = Len(req[r].ids)
          /\ m = Len(req[r].row) /\ b <= c /\ c <= k /\ c <= m
    BY <2>1, ReqFields DEF HandlesFit, HandleFits, Going, ReqLengths
  <2>3. CASE r \in InBatch
    <3>1. PICK q \in Nat : q = Kept(r, drafts[r]) /\ k <= q /\ q <= m /\ Len(req'[r].row) = q
      BY <1>3, <2>2, <2>3
    <3>2. \A i \in 1..q : req'[r].row[i] = req[r].row[i]
      BY <1>1, <2>3, <3>1, CommittedFields DEF Ran
    <3>3. RowOf'[r] = req'[r].row /\ RowOf[r] = req[r].row /\ SharedOf[r] = b
      BY <1>5, <2>1, <2>2
    <3>4. Len(RowOf'[r]) = q /\ Len(RowOf[r]) = m /\ b <= q
      BY <2>2, <3>1, <3>3
    <3>5. \A i \in 1..q : RowOf'[r][i] = RowOf[r][i]
      BY <3>2, <3>3
    <3> QED BY <3>1, <3>3, <3>4, <3>5
  <2>4. CASE r \notin InBatch
    <3>1. req'[r] = req[r]
      BY <1>3, <2>1, <2>4
    <3> QED BY <1>5, <2>1, <2>2, <3>1
  <2> QED BY <2>3, <2>4
<1>8. ASSUME NEW r \in Live \ InBatch PROVE Cut(r, RowOf, RowOf') = {}
  <2>1. Len(RowOf'[r]) = Len(RowOf[r]) /\ Len(RowOf[r]) \in Nat
    BY <1>3, <1>5, <1>7
  <2> QED BY <2>1 DEF Cut
<1>9. ASSUME NEW r \in InBatch, NEW a \in 1..n, batch[a] = r
      PROVE  /\ parts[a] = Rejected(r, drafts[r]) /\ parts[a] \in Seq(Pages)
             /\ \A i \in 1..Len(parts[a]) :
                  \E j \in Cut(r, RowOf, RowOf') :
                    parts[a][i] = RowOf[r][j] /\ j = Kept(r, drafts[r]) + i
             /\ \A j \in Cut(r, RowOf, RowOf') :
                  \E i \in 1..Len(parts[a]) : parts[a][i] = RowOf[r][j]
  <2>1. parts[a] = Rejected(r, drafts[r])
    BY <1>9
  <2>2. Cut(r, RowOf, RowOf') = Kept(r, drafts[r]) + 1 .. Len(req[r].row) /\ RowOf[r] = req[r].row
    BY <1>3, <1>5 DEF Cut
  <2> HIDE DEF parts
  <2>3. PICK q, x : q = Kept(r, drafts[r]) /\ x = Rejected(r, drafts[r])
    OBVIOUS
  <2>4. /\ x \in Seq(Pages)
        /\ \A i \in 1..Len(x) : x[i] = req[r].row[q + i] /\ q + i \in q + 1 .. Len(req[r].row)
        /\ \A j \in q + 1 .. Len(req[r].row) : j - q \in 1..Len(x) /\ q + (j - q) = j
    <3>1. /\ Rejected(r, drafts[r]) \in Seq(Pages)
          /\ \A i \in 1..Len(Rejected(r, drafts[r])) :
               /\ Rejected(r, drafts[r])[i] = req[r].row[Kept(r, drafts[r]) + i]
               /\ Kept(r, drafts[r]) + i \in Kept(r, drafts[r]) + 1 .. Len(req[r].row)
          /\ \A j \in Kept(r, drafts[r]) + 1 .. Len(req[r].row) :
               /\ j - Kept(r, drafts[r]) \in 1..Len(Rejected(r, drafts[r]))
               /\ Kept(r, drafts[r]) + (j - Kept(r, drafts[r])) = j
      BY <1>1, RejectedPart
    <3> QED BY <2>3, <3>1
  <2>5. Cut(r, RowOf, RowOf') = q + 1 .. Len(req[r].row) /\ parts[a] = x
    BY <2>1, <2>2, <2>3
  <2>6. \A i \in 1..Len(x) : \E j \in Cut(r, RowOf, RowOf') : x[i] = RowOf[r][j] /\ j = q + i
    BY <2>2, <2>4, <2>5
  <2>7. \A j \in Cut(r, RowOf, RowOf') : \E i \in 1..Len(x) : x[i] = RowOf[r][j]
    <3> TAKE j \in Cut(r, RowOf, RowOf')
    <3>1. j - q \in 1..Len(x) /\ q + (j - q) = j
      BY <2>4, <2>5
    <3>2. x[j - q] = req[r].row[q + (j - q)]
      BY <2>4, <3>1
    <3> QED BY <2>2, <3>1, <3>2
  <2> QED BY <2>3, <2>4, <2>5, <2>6, <2>7
<1>10. parts \in [1..n -> Seq(Pages)]
  BY <1>2, <1>9
<1>11. e = FlattenSeq(parts)
  BY DEF Released
<1> HIDE DEF parts, e
<1>12. ASSUME NEW r \in Live, NEW j \in Cut(r, RowOf, RowOf') PROVE j \in Own(r, RowOf, SharedOf)
  <2>1. PICK b \in Nat, q \in Nat, m \in Nat :
          b = SharedOf[r] /\ q = Len(RowOf'[r]) /\ m = Len(RowOf[r]) /\ b <= q
    BY <1>7
  <2>2. j \in q + 1 .. m
    BY <2>1 DEF Cut
  <2>3. j \in b + 1 .. m
    BY <2>1, <2>2
  <2> QED BY <2>1, <2>3 DEF Own
<1>13. Apart(parts, n)
  <2> SUFFICES ASSUME NEW a \in 1..n, NEW b \in 1..n, NEW i \in 1..Len(parts[a]),
                      NEW j \in 1..Len(parts[b]), parts[a][i] = parts[b][j]
               PROVE  a = b /\ i = j
    BY DEF Apart
  <2>1. PICK r \in InBatch, s \in InBatch : r = batch[a] /\ s = batch[b]
    BY <1>2
  <2>2. PICK x \in Cut(r, RowOf, RowOf') : parts[a][i] = RowOf[r][x] /\ x = Kept(r, drafts[r]) + i
    BY <1>9, <2>1
  <2>3. PICK y \in Cut(s, RowOf, RowOf') : parts[b][j] = RowOf[s][y] /\ y = Kept(s, drafts[s]) + j
    BY <1>9, <2>1
  <2>4. r \in Live /\ s \in Live
    BY <1>3
  <2>5. x \in Own(r, RowOf, SharedOf) /\ y \in Own(s, RowOf, SharedOf)
    BY <1>12, <2>4
  <2>6. RowsOnce(Live, RowOf, SharedOf)
    BY DEF PagesInv, OwnedOnce
  <2>7. r = s /\ x = y
    <3>1. RowOf[r][x] = RowOf[s][y]
      BY <2>2, <2>3
    <3>2. \A u, v \in Live : \A k \in Own(u, RowOf, SharedOf), m \in Own(v, RowOf, SharedOf) :
            RowOf[u][k] = RowOf[v][m] => u = v /\ k = m
      BY <2>6 DEF RowsOnce
    <3> QED BY <2>4, <2>5, <3>1, <3>2
  <2>8. a = b
    BY <1>4, <2>1, <2>7
  <2>9. i = j
    <3>1. Len(req[r].ids) \in Nat /\ Len(req[r].row) \in Nat
      BY <1>1, <1>3, ReqFields
    <3>2. Kept(r, drafts[r]) \in Int
      BY <1>3, <3>1
    <3>3. parts[a] \in Seq(Pages) /\ parts[b] \in Seq(Pages)
      BY <1>10
    <3>4. i \in Int /\ j \in Int
      BY <3>3, LenProperties
    <3> QED BY <2>2, <2>3, <2>7, <3>2, <3>4
  <2> QED BY <2>8, <2>9
<1>14. e \in Seq(Pages) /\ Collects(e, parts, n)
  BY <1>2, <1>10, <1>11, <1>13, FlattenedIsSeq, FlattenedOnce
<1>15. \A k \in 1..Len(e) : \E r \in Live : \E i \in Cut(r, RowOf, RowOf') : e[k] = RowOf[r][i]
  <2> TAKE k \in 1..Len(e)
  <2>1. PICK a \in 1..n : \E i \in 1..Len(parts[a]) : e[k] = parts[a][i]
    BY <1>14 DEF Collects
  <2>2. PICK i \in 1..Len(parts[a]) : e[k] = parts[a][i]
    BY <2>1
  <2>3. PICK r \in InBatch : r = batch[a]
    BY <1>2
  <2>4. \E j \in Cut(r, RowOf, RowOf') : parts[a][i] = RowOf[r][j]
    BY <1>9, <2>3
  <2> QED BY <1>3, <2>2, <2>3, <2>4
<1>16. \A r \in Live : \A i \in Cut(r, RowOf, RowOf') : \E k \in 1..Len(e) : e[k] = RowOf[r][i]
  <2> SUFFICES ASSUME NEW r \in Live, NEW i \in Cut(r, RowOf, RowOf')
               PROVE  \E k \in 1..Len(e) : e[k] = RowOf[r][i]
    OBVIOUS
  <2>1. r \in InBatch
    BY <1>8
  <2>2. PICK a \in 1..n : batch[a] = r
    BY <1>3, <2>1
  <2>3. PICK j \in 1..Len(parts[a]) : parts[a][j] = RowOf[r][i]
    BY <1>9, <2>1, <2>2
  <2> QED BY <1>14, <2>3 DEF Collects
<1>17. \A k, m \in 1..Len(e) : e[k] = e[m] => k = m
  BY <1>14 DEF Collects
<1>18. OwnedOnce(freePages \o e, tree.page, Live, RowOf', SharedOf)
  <2>1. OwnedOnce(freePages, tree.page, Live, RowOf, SharedOf)
    BY DEF PagesInv
  <2>2. PICK Q : Q = RowOf'
    OBVIOUS
  <2>3. \A r \in Live :
          /\ SharedOf[r] \in Nat /\ Len(Q[r]) \in Nat /\ Len(RowOf[r]) \in Nat
          /\ SharedOf[r] <= Len(Q[r]) /\ Len(Q[r]) <= Len(RowOf[r])
          /\ \A i \in 1..Len(Q[r]) : Q[r][i] = RowOf[r][i]
    BY <1>7, <2>2
  <2>4. \A k \in 1..Len(e) : \E r \in Live : \E i \in Cut(r, RowOf, Q) : e[k] = RowOf[r][i]
    BY <1>15, <2>2
  <2>5. \A r \in Live : \A i \in Cut(r, RowOf, Q) : \E k \in 1..Len(e) : e[k] = RowOf[r][i]
    BY <1>16, <2>2
  <2>6. OwnedOnce(freePages \o e, tree.page, Live, Q, SharedOf)
    <3>1. CutTo(e, Live, RowOf, Q, SharedOf)
      BY <1>17, <2>3, <2>4, <2>5 DEF CutTo
    <3> QED BY <1>1, <1>14, <2>1, <3>1, CutOnce
  <2> QED BY <2>2, <2>6
<1> QED BY <1>1, <1>3, <1>6, <1>18 DEF PagesInv

-----------------------------------------------------------------------------
(* A run and what the requests, the slots and the pages are for.             *)
LEMMA RunSettled ==
  ASSUME Going, NEW drafts, Ran(drafts)
  PROVE  Settled
BY DEF Going, Settled, Ran

(* A run moves no slot between requests that live on.                        *)
LEMMA RunSlots ==
  ASSUME Going, SlotOwnership, NEW drafts, Ran(drafts)
  PROVE  SlotOwnership'
<1>1. tree' = tree /\ freeSlots' = freeSlots /\ \A r \in Reqs : req'[r].slot = req[r].slot
  BY RanFacts
<1> QED BY <1>1, NoSlotMoves

LEMMA RunLocks ==
  ASSUME Going, LocksInv, NEW drafts, Ran(drafts)
  PROVE  LocksInv'
<1>1. /\ tree' = tree /\ Live' = Live /\ Live \subseteq Reqs /\ pc # "slot" /\ pc' # "slot"
      /\ \A r \in Reqs : req'[r].handle = req[r].handle
  BY RanFacts
<1>2. Locked = Live /\ Locked' = Locked
  BY <1>1 DEF Locked
<1> QED BY <1>1, <1>2, LocksStay, RunSettled

(* A request keeps what it has behind it.                                    *)
LEMMA RunKeeps ==
  ASSUME Going, HandlesFit, NEW drafts, Ran(drafts), NEW r \in InBatch
  PROVE  \E b, c, k, q \in Nat :
           /\ b = Len(req[r].handle) /\ c = req[r].cached /\ k = Len(req[r].ids)
           /\ q = Kept(r, drafts[r]) /\ b <= c /\ c <= k /\ k <= q /\ q <= Len(req[r].row)
<1>1. r \in Live /\ Kept(r, drafts[r]) \in Len(req[r].ids)..Len(req[r].row)
  BY RanFacts
<1>2. r \in Reqs /\ req[r] \in ReqRecord
  BY <1>1 DEF Live, Going, Typed
<1>3. PICK b \in Nat, c \in Nat, k \in Nat, m \in Nat :
        /\ b = Len(req[r].handle) /\ c = req[r].cached /\ k = Len(req[r].ids)
        /\ m = Len(req[r].row)
  BY <1>2, ReqFields
<1>4. b <= c /\ c <= k
  BY <1>1, <1>2, <1>3 DEF HandlesFit, HandleFits, Going, ReqLengths
<1>5. PICK q \in Nat : q = Kept(r, drafts[r]) /\ k <= q /\ q <= m
  BY <1>1, <1>3
<1> QED BY <1>3, <1>4, <1>5

LEMMA RunHandles ==
  ASSUME Going, HandlesFit, NEW drafts, Ran(drafts)
  PROVE  HandlesFit'
<1>1. /\ Live' = Live /\ Live \subseteq Reqs /\ pc' # "slot"
      /\ \A r \in Reqs \ InBatch : req'[r] = req[r]
  BY RanFacts
<1>2. ASSUME NEW r \in InBatch PROVE HandleFits(req'[r])
  <2>1. PICK b, c, k, q \in Nat :
           /\ b = Len(req[r].handle) /\ c = req[r].cached /\ k = Len(req[r].ids)
           /\ q = Kept(r, drafts[r]) /\ b <= c /\ c <= k /\ k <= q
    BY RunKeeps
  <2>2. /\ req'[r].handle = req[r].handle /\ IsPrefix(req[r].ids, req'[r].ids)
        /\ req'[r].cached = q /\ ~ req'[r].chunked /\ r \in Live
        /\ req[r] \in ReqRecord /\ req'[r] \in ReqRecord
    BY <2>1, RanFacts, RunFacts, CommittedReq, CommittedFields DEF Ran
  <2>3. IsPrefix(req[r].handle, req[r].ids)
    BY <2>2 DEF HandlesFit, HandleFits
  <2>4. /\ req[r].handle \in Seq(Vocab) /\ req[r].ids \in Seq(Vocab)
        /\ req'[r].ids \in Seq(Vocab)
    BY <2>2, ReqFields
  <2>5. IsPrefix(req[r].handle, req'[r].ids)
    BY <2>2, <2>3, <2>4, PrefixTransitive
  <2>6. Len(req'[r].handle) <= req'[r].cached
    BY <2>1, <2>2
  <2> QED BY <2>2, <2>5, <2>6 DEF HandleFits
<1>3. \A r \in Live' : HandleFits(req'[r])
  BY <1>1, <1>2 DEF HandlesFit
<1> QED BY <1>1, <1>3 DEF HandlesFit

LEMMA RunPinned ==
  ASSUME Going, HandlesFit, Pinned, NEW drafts, Ran(drafts)
  PROVE  Pinned'
<1>1. /\ Live' = Live /\ Live \subseteq Reqs /\ pc # "slot" /\ pc' # "slot" /\ tree' = tree
      /\ \A r \in Reqs \ InBatch : req'[r] = req[r]
      /\ \A r \in Reqs : req'[r].handle = req[r].handle
  BY RanFacts
<1>2. ASSUME NEW r \in InBatch, NEW i \in 1..req[r].cached PROVE req'[r].row[i] = req[r].row[i]
  <2>1. PICK b, c, k, q \in Nat :
           c = req[r].cached /\ q = Kept(r, drafts[r]) /\ c <= k /\ k <= q
    BY RunKeeps
  <2>2. i \in 1..Kept(r, drafts[r])
    BY <2>1
  <2> QED BY <2>2, CommittedFields DEF Ran
<1>3. \A r \in Live' : /\ r \in Live /\ req'[r].handle = req[r].handle
                       /\ \A i \in 1..req[r].cached : req'[r].row[i] = req[r].row[i]
  BY <1>1, <1>2
<1> QED BY <1>1, <1>3, PinnedBehind, RunSettled

(* After a run the rows hold the pages of what is kept.                      *)
LEMMA RunRows ==
  ASSUME Going, RowsSettled, NEW drafts, Ran(drafts)
  PROVE  RowsSettled'
<1>1. /\ pc = "forward" /\ pc' = "output" /\ batch' = batch
      /\ InBatch = {batch[i] : i \in 1..Len(batch)} /\ Live' = Live /\ Live \subseteq Reqs
      /\ \A r \in Reqs \ InBatch : req'[r] = req[r]
  BY RanFacts
<1>2. \A r \in InBatch : RowFull(r)'
  BY RanFacts DEF RowFull
<1>3. \A r \in Live' \ InBatch : RowFull(r)'
  BY <1>1 DEF RowsSettled, RowFull
<1> QED BY <1>1, <1>2, <1>3 DEF RowsSettled

-----------------------------------------------------------------------------
(* The position whose K/V a page gets.                                       *)
Writer(p) == CHOOSE w \in Written(p) : TRUE

(* Where a run writes: each page for one position of one request, which is   *)
(* behind nobody, nor in the prefix cache.                                   *)
LEMMA WrittenOnce ==
  ASSUME Going, HandlesFit, Pinned, PagesInv, NEW drafts, Ran(drafts)
  PROVE  /\ \A p \in DOMAIN tree.page : tree.page[p] \in Pages /\ Written(tree.page[p]) = {}
         /\ \A r \in Live : \A i \in 1..req[r].cached :
              req[r].row[i] \in Pages /\ Written(req[r].row[i]) = {}
         /\ \A r \in InBatch : \A i \in req[r].cached + 1 .. Len(req[r].row) :
              /\ req[r].row[i] \in Pages /\ Written(req[r].row[i]) # {}
              /\ Writer(req[r].row[i]) = <<r, i>>
<1>1. /\ req \in [Reqs -> ReqRecord] /\ ReqLengths /\ IsTree(tree, Vocab, Pages, Slots)
      /\ InBatch \subseteq Live /\ Live \subseteq Reqs /\ pc = "forward"
  BY RanFacts DEF Going, Typed
<1>2. RowsOnce(Live, RowOf, SharedOf) /\ TreeNotRow(tree.page, Live, RowOf, SharedOf)
  BY DEF PagesInv, OwnedOnce
<1>3. ASSUME NEW p, NEW w \in Written(p)
      PROVE  \E r \in InBatch, i \in Nat :
               /\ w = <<r, i>> /\ i > req[r].cached /\ i \in Own(r, RowOf, SharedOf)
               /\ RowOf[r][i] = p
  <2>1. PICK r \in InBatch :
          w \in {r} \X {i \in req[r].cached + 1 .. Len(req[r].row) : req[r].row[i] = p}
    BY <1>3 DEF Written
  <2>2. PICK i \in req[r].cached + 1 .. Len(req[r].row) : w = <<r, i>> /\ req[r].row[i] = p
    BY <2>1
  <2>3. PICK c \in Nat, d \in Nat, b \in Nat :
          c = req[r].cached /\ d = Len(req[r].row) /\ b = Len(req[r].handle)
    BY <1>1, ReqFields
  <2>4. b <= c
    BY <1>1, <2>3 DEF HandlesFit, HandleFits
  <2>5. i \in c + 1 .. d
    BY <2>2, <2>3
  <2>6. i \in Nat /\ i > c /\ i \in b + 1 .. d
    BY <2>4, <2>5
  <2>7. i \in Own(r, RowOf, SharedOf) /\ RowOf[r][i] = p
    BY <1>1, <2>2, <2>3, <2>6 DEF Own, RowOf, SharedOf
  <2> QED BY <2>2, <2>3, <2>6, <2>7
<1>4. ASSUME NEW p \in DOMAIN tree.page PROVE Written(tree.page[p]) = {}
  <2>1. ASSUME NEW w \in Written(tree.page[p]) PROVE FALSE
    <3>1. PICK r \in InBatch : \E i \in Own(r, RowOf, SharedOf) : RowOf[r][i] = tree.page[p]
      BY <1>3, <2>1
    <3> QED BY <1>1, <1>2, <3>1 DEF TreeNotRow
  <2> QED BY <2>1
<1>5. \A p \in DOMAIN tree.page : tree.page[p] \in Pages
  BY <1>1 DEF IsTree
<1>6. ASSUME NEW r \in Live, NEW i \in 1..req[r].cached
      PROVE  Written(req[r].row[i]) = {}
  <2>1. PICK c \in Nat, b \in Nat, e \in Nat :
          c = req[r].cached /\ b = Len(req[r].handle) /\ e = Len(req[r].row) /\ c <= e
    BY <1>1, ReqFields DEF ReqLengths
  <2>2. CASE i <= b
    <3>1. i \in 1..b /\ r \in Locked
      BY <2>1, <2>2 DEF Locked
    <3>2. PICK p \in DOMAIN tree.page : tree.page[p] = req[r].row[i]
      BY <2>1, <3>1 DEF Pinned, Points
    <3> QED BY <1>4, <3>2
  <2>3. CASE ~ (i <= b)
    <3>1. i \in b + 1 .. e /\ i <= c
      BY <2>1, <2>3
    <3>2. i \in Own(r, RowOf, SharedOf) /\ RowOf[r][i] = req[r].row[i]
      BY <1>1, <2>1, <3>1 DEF Own, RowOf, SharedOf
    <3>3. ASSUME NEW w \in Written(req[r].row[i]) PROVE FALSE
      <4>1. PICK s \in InBatch, j \in Nat :
              /\ j > req[s].cached /\ j \in Own(s, RowOf, SharedOf)
              /\ RowOf[s][j] = req[r].row[i]
        BY <1>3, <3>3
      <4>2. s = r /\ j = i
        BY <1>1, <1>2, <3>2, <4>1 DEF RowsOnce
      <4> QED BY <2>1, <3>1, <4>1, <4>2
    <3> QED BY <3>3
  <2> QED BY <2>2, <2>3
<1>7. ASSUME NEW r \in Live, NEW i \in 1..req[r].cached PROVE req[r].row[i] \in Pages
  <2>1. PICK row \in Seq(Pages), c \in Nat : row = req[r].row /\ c = req[r].cached
    BY <1>1, ReqFields
  <2>2. c <= Len(row) /\ Len(row) \in Nat
    BY <1>1, <2>1, LenProperties DEF ReqLengths
  <2>3. i \in 1..Len(row)
    BY <2>1, <2>2
  <2> QED BY <2>1, <2>3
<1>8. ASSUME NEW r \in InBatch, NEW i \in req[r].cached + 1 .. Len(req[r].row)
      PROVE  /\ req[r].row[i] \in Pages /\ Written(req[r].row[i]) # {}
             /\ Writer(req[r].row[i]) = <<r, i>>
  <2>1. PICK c \in Nat, row \in Seq(Pages) : c = req[r].cached /\ row = req[r].row
    BY <1>1, ReqFields
  <2>2. i \in c + 1 .. Len(row) /\ i \in 1..Len(row) /\ i \in Nat
    BY <2>1, LenProperties
  <2>3. row[i] \in Pages
    BY <2>1, <2>2
  <2> DEFINE p == row[i]
  <2>4. <<r, i>> \in Written(p)
    <3> DEFINE At(s) == {j \in req[s].cached + 1 .. Len(req[s].row) : req[s].row[j] = p}
    <3>1. <<r, i>> \in {r} \X At(r)
      BY <2>1
    <3> HIDE DEF At
    <3>2. <<r, i>> \in UNION {{s} \X At(s) : s \in InBatch}
      BY <3>1
    <3> QED BY <3>2 DEF Written, At
  <2>5. ASSUME NEW w \in Written(p) PROVE w = <<r, i>>
    <3>1. PICK s \in InBatch, j \in Nat :
            w = <<s, j>> /\ j \in Own(s, RowOf, SharedOf) /\ RowOf[s][j] = p
      BY <1>3, <2>5
    <3>2. PICK s2 \in InBatch, i2 \in Nat :
            <<r, i>> = <<s2, i2>> /\ i2 \in Own(s2, RowOf, SharedOf) /\ RowOf[s2][i2] = p
      BY <1>3, <2>4
    <3>3. s = s2 /\ j = i2
      BY <1>1, <1>2, <3>1, <3>2 DEF RowsOnce
    <3> QED BY <3>1, <3>2, <3>3
  <2> HIDE DEF p
  <2>6. Writer(p) = <<r, i>> /\ Written(p) # {}
    BY <2>4, <2>5 DEF Writer
  <2>7. p = req[r].row[i]
    BY <2>1 DEF p
  <2> QED BY <2>1, <2>3, <2>6, <2>7
<1> QED BY <1>4, <1>5, <1>6, <1>7, <1>8

(* A cache whose pages are written as far as the run is kept.                *)
LEMMA RunContents ==
  ASSUME NEW f, NEW g, Going, HandlesFit, Pinned, PagesInv, NEW drafts, Ran(drafts), Contents(f),
         \A p \in Pages : Written(p) = {} => g[p] = f[p],
         \A r \in InBatch : \A i \in req[r].cached + 1 .. Kept(r, drafts[r]) :
           g[req[r].row[i]] = SubSeq(Fed(r, drafts[r]), 1, i)
  PROVE  TreeHolds(tree', g) /\ \A r \in Live' : RowHolds(req'[r], g)
<1>1. /\ Live' = Live /\ Live \subseteq Reqs /\ tree' = tree
      /\ \A r \in Reqs \ InBatch : req'[r] = req[r]
  BY RanFacts
<1>2. TreeHolds(tree, f) /\ \A r \in Live : RowHolds(req[r], f)
  BY DEF Contents
<1>3. TreeHolds(tree', g)
  <2>1. \A p \in DOMAIN tree.page : g[tree.page[p]] = f[tree.page[p]]
    BY WrittenOnce
  <2> QED BY <1>1, <1>2, <2>1 DEF TreeHolds
<1>4. ASSUME NEW r \in Live, NEW i \in 1..req[r].cached
      PROVE  g[req[r].row[i]] = SubSeq(req[r].ids, 1, i)
  <2>1. g[req[r].row[i]] = f[req[r].row[i]]
    BY WrittenOnce
  <2> QED BY <1>2, <2>1 DEF RowHolds
<1>5. ASSUME NEW r \in InBatch PROVE RowHolds(req'[r], g)
  <2>1. PICK b, c, k, q \in Nat :
           /\ b = Len(req[r].handle) /\ c = req[r].cached /\ k = Len(req[r].ids)
           /\ q = Kept(r, drafts[r]) /\ b <= c /\ c <= k /\ k <= q /\ q <= Len(req[r].row)
    BY RunKeeps
  <2>2. r \in Live /\ req'[r].cached = q
    BY <2>1, RanFacts
  <2> SUFFICES ASSUME NEW i \in 1..q PROVE g[req'[r].row[i]] = SubSeq(req'[r].ids, 1, i)
    BY <2>2 DEF RowHolds
  <2>3. i \in 0..q /\ (i \in 1..c \/ i \in c + 1 .. q) /\ (i \in 1..c => i \in 0..k)
    BY <2>1
  <2>4. /\ req'[r].row[i] = req[r].row[i]
        /\ SubSeq(req'[r].ids, 1, i) = SubSeq(Fed(r, drafts[r]), 1, i)
        /\ i \in 1..c => SubSeq(Fed(r, drafts[r]), 1, i) = SubSeq(req[r].ids, 1, i)
    BY <2>1, <2>3, CommittedFields DEF Ran
  <2>5. CASE i \in 1..c
    BY <1>4, <2>1, <2>2, <2>4, <2>5
  <2>6. CASE i \in c + 1 .. q
    BY <2>1, <2>4, <2>6
  <2> QED BY <2>3, <2>5, <2>6
<1>6. ASSUME NEW r \in Live \ InBatch PROVE RowHolds(req'[r], g)
  BY <1>1, <1>4 DEF RowHolds
<1> QED BY <1>1, <1>3, <1>5, <1>6

(* Both caches hold, after a run, what they are read for.                    *)
LEMMA RunWrites ==
  ASSUME Going, HandlesFit, Pinned, PagesInv, NEW drafts, Ran(drafts)
  PROVE  /\ Contents(kv) => Contents(kv)'
         /\ Contents(draft_kv) => Contents(draft_kv)'
<1>1. /\ \A p \in Pages : Written(p) = {} => kv'[p] = kv[p]
      /\ \A p \in Pages : Written(p) # {} =>
           LET w == Writer(p)
           IN kv'[p] = SubSeq(Fed(w[1], drafts[w[1]]), 1, w[2])
  BY DEF Ran, WriteKV, Writer
<1>2. /\ \A p \in Pages : Written(p) = {} => draft_kv'[p] = draft_kv[p]
      /\ \A p \in Pages : Written(p) # {} =>
           LET w == Writer(p)
           IN w[2] <= Kept(w[1], drafts[w[1]]) =>
                draft_kv'[p] = SubSeq(Fed(w[1], drafts[w[1]]), 1, w[2])
  BY DEF Ran, Calibrate, Calibrated, Writer
<1>3. ASSUME NEW r \in InBatch, NEW i \in req[r].cached + 1 .. Kept(r, drafts[r])
      PROVE  /\ kv'[req[r].row[i]] = SubSeq(Fed(r, drafts[r]), 1, i)
             /\ draft_kv'[req[r].row[i]] = SubSeq(Fed(r, drafts[r]), 1, i)
  <2>1. PICK b, c, k, q \in Nat :
           c = req[r].cached /\ q = Kept(r, drafts[r]) /\ q <= Len(req[r].row)
    BY RunKeeps
  <2>2. Len(req[r].row) \in Nat
    BY RunFacts, ReqFields DEF Ran
  <2>3. i \in c + 1 .. Len(req[r].row) /\ i <= q
    BY <2>1, <2>2
  <2>4. /\ req[r].row[i] \in Pages /\ Written(req[r].row[i]) # {}
        /\ Writer(req[r].row[i]) = <<r, i>>
    BY <2>1, <2>3, WrittenOnce
  <2>5. kv'[req[r].row[i]] = SubSeq(Fed(r, drafts[r]), 1, i)
    <3>1. PICK w : w = <<r, i>> /\ kv'[req[r].row[i]] = SubSeq(Fed(w[1], drafts[w[1]]), 1, w[2])
      BY <1>1, <2>4
    <3> QED BY <3>1
  <2>6. draft_kv'[req[r].row[i]] = SubSeq(Fed(r, drafts[r]), 1, i)
    <3>1. PICK w : w = <<r, i>> /\ (w[2] <= Kept(w[1], drafts[w[1]]) =>
                       draft_kv'[req[r].row[i]] = SubSeq(Fed(w[1], drafts[w[1]]), 1, w[2]))
      BY <1>2, <2>4
    <3> QED BY <2>1, <2>3, <3>1
  <2> QED BY <2>5, <2>6
<1>4. PICK f, g, x, y : f = kv /\ g = kv' /\ x = draft_kv /\ y = draft_kv'
  OBVIOUS
<1>5. Contents(f) => TreeHolds(tree', g) /\ \A r \in Live' : RowHolds(req'[r], g)
  BY <1>1, <1>3, <1>4, RunContents
<1>6. Contents(x) => TreeHolds(tree', y) /\ \A r \in Live' : RowHolds(req'[r], y)
  BY <1>2, <1>3, <1>4, RunContents
<1> QED BY <1>4, <1>5, <1>6 DEF Contents

-----------------------------------------------------------------------------
(* A slot is moved on by what is kept.                                       *)
LEMMA CommittedTokens ==
  ASSUME Going, HandlesFit, NEW drafts, Ran(drafts), NEW r \in InBatch
  PROVE  /\ Committed(r, drafts[r]) \in Seq(Vocab)
         /\ SubSeq(Fed(r, drafts[r]), req[r].cached + 1, Len(Fed(r, drafts[r]))) \in Seq(Vocab)
         /\ SubSeq(req[r].ids, 1, req[r].cached) \o Committed(r, drafts[r])
              = SubSeq(req'[r].ids, 1, req'[r].cached)
<1>1. PICK b, c, k, q \in Nat :
         /\ b = Len(req[r].handle) /\ c = req[r].cached /\ k = Len(req[r].ids)
         /\ q = Kept(r, drafts[r]) /\ b <= c /\ c <= k /\ k <= q /\ q <= Len(req[r].row)
  BY RunKeeps
<1>2. PICK fed \in Seq(Vocab) : fed = Fed(r, drafts[r]) /\ Len(fed) = Len(req[r].row)
  BY CommittedFields DEF Ran
<1>3. PICK m \in Nat : m = Len(fed) /\ c <= q /\ q <= m /\ c <= m
  BY <1>1, <1>2, LenProperties
<1>4. /\ SubSeq(fed, c + 1, q) \in Seq(Vocab)
      /\ SubSeq(fed, 1, c) \o SubSeq(fed, c + 1, q) = SubSeq(fed, 1, q)
  BY <1>3, Spliced
<1>5. SubSeq(fed, c + 1, m) \in Seq(Vocab)
  BY <1>3, Spliced
<1>6. c \in 0..k /\ q \in 0..q
  BY <1>1
<1>7. SubSeq(fed, 1, c) = SubSeq(req[r].ids, 1, c) /\ SubSeq(req'[r].ids, 1, q) = SubSeq(fed, 1, q)
  BY <1>1, <1>2, <1>6, CommittedFields DEF Ran
<1>8. req'[r].cached = q
  BY <1>1, RanFacts
<1>9. Committed(r, drafts[r]) = SubSeq(fed, c + 1, q)
  BY <1>1, <1>2 DEF Committed
<1> QED BY <1>1, <1>2, <1>3, <1>4, <1>5, <1>7, <1>8, <1>9

(* The slots that are in use move on by what is kept, scratch slots or not.  *)
LEMMA SlotsMove ==
  ASSUME Going, HandlesFit, SlotOwnership, States, NEW drafts, Ran(drafts)
  PROVE  /\ state' \in [Slots -> Seq(Vocab)]
         /\ CacheType = "hybrid" =>
              \A s \in Slots \ freeSlots : state'[s] = Committing(s, drafts)
<1>1. /\ req \in [Reqs -> ReqRecord] /\ InBatch \subseteq Live /\ Live \subseteq Reqs
      /\ state \in [Slots -> Seq(Vocab)]
  BY RanFacts DEF Going, Typed, States
<1>2. ASSUME NEW s \in Slots PROVE Committing(s, drafts) \in Seq(Vocab)
  <2> DEFINE owner == {r \in InBatch : req[r].slot = s}
  <2>1. CASE owner = {}
    BY <1>1, <2>1 DEF Committing
  <2>2. CASE owner # {}
    <3>1. PICK r \in InBatch : r = CHOOSE q \in owner : TRUE
      BY <2>2
    <3>2. Committing(s, drafts) = state[s] \o Committed(r, drafts[r])
      BY <2>2, <3>1 DEF Committing
    <3>3. Committed(r, drafts[r]) \in Seq(Vocab) /\ state[s] \in Seq(Vocab)
      BY <1>1, CommittedTokens
    <3> QED BY <3>2, <3>3, ConcatProperties
  <2> QED BY <2>1, <2>2
<1>3. CASE state' = [s \in Slots |-> Committing(s, drafts)]
  BY <1>2, <1>3
<1>4. CASE CacheType # "hybrid" /\ UNCHANGED state
  BY <1>1, <1>4
<1>5. ASSUME CacheType = "hybrid", NEW into \in [InBatch -> freeSlots],
             state' = [s \in Slots |-> Replay(s, into, drafts)]
      PROVE  /\ state' \in [Slots -> Seq(Vocab)]
             /\ \A s \in Slots \ freeSlots : state'[s] = Committing(s, drafts)
  <2>1. ASSUME NEW s \in Slots \ freeSlots PROVE state'[s] = Committing(s, drafts)
    <3>1. ~ \E r \in InBatch : into[r] = s
      OBVIOUS
    <3> QED BY <1>5, <3>1 DEF Replay
  <2>2. ASSUME NEW s \in Slots PROVE Replay(s, into, drafts) \in Seq(Vocab)
    <3>1. CASE ~ \E r \in InBatch : into[r] = s
      BY <1>2, <3>1 DEF Replay
    <3>2. CASE \E r \in InBatch : into[r] = s
      <4>1. PICK r \in InBatch : r = CHOOSE q \in InBatch : into[q] = s
        BY <3>2
      <4> DEFINE t == SubSeq(Fed(r, drafts[r]), req[r].cached + 1, Len(Fed(r, drafts[r])))
      <4>2. Replay(s, into, drafts) = state[req[r].slot] \o t
        BY <3>2, <4>1 DEF Replay
      <4>3. t \in Seq(Vocab)
        BY CommittedTokens
      <4> HIDE DEF t
      <4>4. req[r].slot \in Slots
        <5>1. req[r].slot # None /\ req[r] \in ReqRecord
          BY <1>1, <1>5 DEF States, SlotHolds
        <5> QED BY <5>1, ReqFields
      <4>5. state[req[r].slot] \in Seq(Vocab)
        BY <1>1, <4>4
      <4> QED BY <4>2, <4>3, <4>5, ConcatProperties
    <3> QED BY <3>1, <3>2
  <2> QED BY <1>5, <2>1, <2>2
<1> QED BY <1>2, <1>3, <1>4, <1>5 DEF Ran

(* Each slot holds the state behind what is kept.                            *)
LEMMA RunStates ==
  ASSUME Going, HandlesFit, SlotOwnership, States, NEW drafts, Ran(drafts)
  PROVE  States'
<1>1. /\ req \in [Reqs -> ReqRecord] /\ InBatch \subseteq Live /\ Live \subseteq Reqs
      /\ Live' = Live /\ tree' = tree /\ pc' = "output" /\ IsTree(tree, Vocab, Pages, Slots)
      /\ \A r \in Reqs \ InBatch : req'[r] = req[r]
      /\ \A r \in Reqs : req'[r].slot = req[r].slot
  BY RanFacts DEF Going, Typed
<1>2. /\ state' \in [Slots -> Seq(Vocab)]
      /\ CacheType = "hybrid" => \A s \in Slots \ freeSlots : state'[s] = Committing(s, drafts)
  BY SlotsMove
<1>3. ASSUME CacheType = "hybrid", NEW r \in Live PROVE SlotHolds(req'[r], state')
  <2>1. SlotHolds(req[r], state)
    BY <1>3 DEF States
  <2>2. req[r].slot \in Slots /\ req[r].slot # None
    BY <1>1, <2>1, ReqFields DEF SlotHolds
  <2>3. req[r].slot \notin freeSlots /\ \A q \in Reqs \ {r} : req[q].slot # req[r].slot
    BY <1>1, <2>2 DEF SlotOwnership
  <2>4. PICK s \in Slots : s = req[r].slot /\ s \notin freeSlots
    BY <2>2, <2>3
  <2>5. state'[s] = Committing(s, drafts) /\ state[s] = SubSeq(req[r].ids, 1, req[r].cached)
    BY <1>2, <1>3, <2>1, <2>4 DEF SlotHolds
  <2> DEFINE owner == {q \in InBatch : req[q].slot = s}
  <2>6. CASE r \in InBatch
    <3>1. owner = {r}
      BY <1>1, <2>3, <2>4, <2>6
    <3>2. Committing(s, drafts) = state[s] \o Committed(r, drafts[r])
      BY <3>1 DEF Committing
    <3>3. state'[s] = SubSeq(req'[r].ids, 1, req'[r].cached)
      BY <2>5, <2>6, <3>2, CommittedTokens
    <3> QED BY <1>1, <2>2, <2>4, <3>3 DEF SlotHolds
  <2>7. CASE r \notin InBatch
    <3>1. owner = {}
      BY <1>1, <2>3, <2>4, <2>7
    <3>2. Committing(s, drafts) = state[s]
      BY <3>1 DEF Committing
    <3>3. req'[r] = req[r]
      BY <1>1, <2>7
    <3> QED BY <2>1, <2>4, <2>5, <3>2, <3>3 DEF SlotHolds
  <2> QED BY <2>6, <2>7
<1>4. ASSUME CacheType = "hybrid" PROVE SnapsHold(tree', state')
  <2> SUFFICES ASSUME NEW n \in SnapshotNodes(tree) PROVE state'[tree.snap[n]] = n
    BY <1>1 DEF SnapsHold
  <2>1. tree.snap[n] # None /\ tree.snap[n] \in Slots /\ n \in tree.nodes
    BY <1>1 DEF IsTree, SnapshotNodes
  <2>2. tree.snap[n] \notin freeSlots /\ \A q \in InBatch : req[q].slot # tree.snap[n]
    BY <1>1, <2>1 DEF SlotOwnership
  <2>3. Committing(tree.snap[n], drafts) = state[tree.snap[n]]
    <3>1. {q \in InBatch : req[q].slot = tree.snap[n]} = {}
      BY <2>2
    <3> QED BY <3>1 DEF Committing
  <2>4. state'[tree.snap[n]] = state[tree.snap[n]]
    BY <1>2, <1>4, <2>1, <2>2, <2>3
  <2>5. state[tree.snap[n]] = n
    BY <1>4 DEF States, SnapsHold
  <2> QED BY <2>4, <2>5
<1>5. ForkReady'
  BY <1>1 DEF ForkReady
<1> QED BY <1>1, <1>2, <1>3, <1>4, <1>5 DEF States

-----------------------------------------------------------------------------
(* A prompt's run is one without drafts, and gives nothing back.             *)
LEMMA PrefillRuns ==
  ASSUME Going, Prefill
  PROVE  \E drafts : Ran(drafts)
<1> DEFINE drafts == [r \in InBatch |-> <<>>]
           n == Len(batch)
           parts == [i \in 1..n |-> Rejected(batch[i], drafts[batch[i]])]
<1>1. /\ pc = "forward" /\ WriteKV(drafts) /\ Calibrate(drafts) /\ Commit(drafts)
      /\ state' = [s \in Slots |-> Committing(s, drafts)] /\ freePages' = freePages
  BY DEF Prefill
<1>2. Drafted(drafts)
  BY PrefillDrafted DEF Prefill
<1>3. n \in Nat /\ \A i \in 1..n : batch[i] \in InBatch
  BY BatchMembers DEF Going
<1>4. ASSUME NEW r \in InBatch PROVE drafts[r] = <<>>
  OBVIOUS
<1> HIDE DEF drafts
<1>5. ASSUME NEW i \in 1..n PROVE parts[i] \in Seq(Pages) /\ Len(parts[i]) = 0
  <2>1. PICK r \in InBatch : r = batch[i]
    BY <1>3
  <2>2. /\ Rejected(r, drafts[r]) \in Seq(Pages)
        /\ Kept(r, drafts[r]) \in Len(req[r].ids)..Len(req[r].row)
        /\ Len(Rejected(r, drafts[r])) = Len(req[r].row) - Kept(r, drafts[r])
    BY <1>1, <1>2, RejectedPart
  <2>3. Len(drafts[r]) = 0
    BY <1>4, EmptySeq
  <2>4. Len(req[r].ids) \in Nat /\ Len(req[r].row) \in Nat
    BY <1>1, RunFacts, ReqFields
  <2>5. Len(req[r].ids) + Len(drafts[r]) = Len(req[r].row)
    BY <1>2 DEF Drafted
  <2>6. Len(Rejected(r, drafts[r])) = 0
    BY <2>2, <2>3, <2>4, <2>5
  <2> QED BY <2>1, <2>2, <2>6
<1>6. parts \in [1..n -> Seq(Pages)]
  BY <1>5
<1>7. Released(drafts) = FlattenSeq(parts)
  BY DEF Released
<1> HIDE DEF parts
<1>8. Apart(parts, n)
  BY <1>5 DEF Apart
<1>9. PICK e \in Seq(Pages) : e = Released(drafts) /\ Collects(e, parts, n)
  BY <1>3, <1>6, <1>7, <1>8, FlattenedIsSeq, FlattenedOnce
<1>10. e = <<>>
  <2> SUFFICES ASSUME e # <<>> PROVE FALSE
    OBVIOUS
  <2>1. Len(e) \in Nat \ {0}
    BY EmptySeq
  <2>2. 1 \in 1..Len(e)
    BY <2>1
  <2>3. PICK a \in 1..n : \E i \in 1..Len(parts[a]) : e[1] = parts[a][i]
    BY <1>9, <2>2 DEF Collects
  <2> QED BY <1>5, <2>3
<1>11. freePages' = freePages \o Released(drafts)
  BY <1>1, <1>9, <1>10, ConcatEmptySeq DEF Going, Typed
<1>12. Ran(drafts)
  BY <1>1, <1>2, <1>11 DEF Ran
<1> QED BY <1>12

(* A verification is a run of the drafts.                                    *)
LEMMA VerifyRuns ==
  ASSUME Going, Verify
  PROVE  \E drafts : Ran(drafts)
<1>1. pc = "forward" /\ Decoding
  BY DEF Verify
<1>2. PICK drafts \in Proposals :
        /\ WriteKV(drafts) /\ Calibrate(drafts) /\ Commit(drafts)
        /\ freePages' = freePages \o Released(drafts)
        /\ IF CacheType = "hybrid"
           THEN \E into \in {f \in [InBatch -> freeSlots] : IsInjective(f)} :
                  state' = [s \in Slots |-> Replay(s, into, drafts)]
           ELSE UNCHANGED state
  BY DEF Verify
<1>3. Drafted(drafts)
  BY <1>1, ProposalsDrafted
<1>4. \/ CacheType # "hybrid" /\ UNCHANGED state
      \/ CacheType = "hybrid" /\ \E into \in [InBatch -> freeSlots] :
           IsInjective(into) /\ state' = [s \in Slots |-> Replay(s, into, drafts)]
  BY <1>2
<1>5. Ran(drafts)
  BY <1>1, <1>2, <1>3, <1>4 DEF Ran
<1> QED BY <1>5

(* A request of the batch is given its pages.                                *)
LEMMA TakePagesTakes ==
  ASSUME Going, TakePages
  PROVE  \E r, n : Takes(r, n)
<1>1. PICK r \in Reqs, n \in 0..Len(freePages) : r = batch[prepared + 1] /\ n = Width(r)
  BY TakeFacts
<1>2. /\ pc = "alloc" /\ prepared' = prepared + 1 /\ prepared \in Nat
      /\ prepared + 1 \in 1..Len(batch)
      /\ UNCHANGED <<inbox, pending, running, batch, chunked_list, finished, rows, tree, freeSlots,
                     kv, state, pc>>
      /\ freePages' = SubSeq(freePages, n + 1, Len(freePages))
  BY <1>1, TakeFacts
<1>3. PICK row \in Seq(Pages), new \in ReqRecord :
        /\ row = SubSeq(req[r].row, 1, req[r].cached) \o SubSeq(freePages, 1, n)
        /\ req[r].cached <= Len(req[r].row) /\ Len(row) = req[r].cached + n
        /\ req' = [req EXCEPT ![r] = new] /\ new.row = row
        /\ new.stage = req[r].stage /\ new.handle = req[r].handle /\ Alike(new, req[r])
  BY <1>1, TakeFacts DEF Alike
<1>4. req[r] \in ReqRecord /\ freePages \in Seq(Pages) /\ req[r].stage = "live"
  BY <1>1, <1>2 DEF Going, Typed, ListsOK, PlacesOK
<1>5. PICK c \in Nat, old \in Seq(Pages) : c = req[r].cached /\ old = req[r].row /\ c \in 0..Len(old)
  BY <1>3, <1>4, ReqFields
<1> DEFINE front == SubSeq(old, 1, c)
           back == SubSeq(freePages, 1, n)
<1>6. /\ front \in Seq(Pages) /\ Len(front) = c /\ \A i \in 1..c : front[i] = old[i]
      /\ back \in Seq(Pages) /\ Len(back) = n /\ \A i \in 1..n : back[i] = freePages[i]
  BY <1>4, <1>5, FirstElements
<1>7. row = front \o back
  BY <1>3, <1>5
<1> HIDE DEF front, back
<1>8. /\ \A i \in 1..c : row[i] = front[i]
      /\ \A i \in 1..n : row[c + i] = back[i]
  <2>1. front \in Seq(Pages) /\ back \in Seq(Pages)
    BY <1>6
  <2>2. /\ \A i \in 1..Len(front) : (front \o back)[i] = front[i]
        /\ \A i \in 1..Len(back) : (front \o back)[Len(front) + i] = back[i]
    BY <2>1, Extended
  <2> QED BY <1>6, <1>7, <2>2
<1>9. Takes(r, n)
  <2>1. /\ Len(new.row) = req[r].cached + n
        /\ \A i \in 1..req[r].cached : new.row[i] = req[r].row[i]
        /\ \A i \in 1..n : new.row[req[r].cached + i] = freePages[i]
        /\ new.stage = "live"
    BY <1>3, <1>4, <1>5, <1>6, <1>8
  <2> QED BY <1>1, <1>2, <1>3, <1>4, <2>1 DEF Takes
<1> QED BY <1>9

-----------------------------------------------------------------------------
(* The process is at work, or has failed and does nothing any more.          *)
LEMMA FailedStops ==
  ASSUME pc = "crashed", [SpecNext]_all_vars
  PROVE  UNCHANGED all_vars
<1>1. ~ Select
  BY DEF Select, ProcessMsg, StartStep, StopAdmission, ContinueChunk, TryAllocate,
     AdmitWithoutSlot, AdmitWithFreeSlot, AdmitWithShedSlot, Starved, EvictForSlot
<1>2. ~ SpecStep
  BY <1>1 DEF SpecStep, Shared, EndStep, RefuseChunk, OutOfPages, EvictForPages, TakePages,
     OutOfColumns, EndTake, Prefill, EvictForScratch, OutOfSlots, Verify, Output, SpecCleanup,
     Cleanup, Runs
<1>3. ~ RunWhenIdle /\ ~ \E r \in Reqs : Submit(r)
  BY DEF RunWhenIdle, Submit
<1> QED BY <1>2, <1>3 DEF SpecNext

LEMMA CoreSteps ==
  ASSUME SpecInv, CoreStep
  PROVE  IInv
<1>1. Shares
  <2>1. CASE Select
    BY <2>1 DEF Select, ProcessMsg, StartStep, StopAdmission, ContinueChunk, TryAllocate,
       AdmitWithoutSlot, AdmitWithFreeSlot, AdmitWithShedSlot, Starved, EvictForSlot, Shares
  <2>2. CASE Cleanup \/ EndStep \/ RunWhenIdle \/ \E r \in Reqs : Submit(r)
    BY <2>2 DEF Cleanup, EndStep, RunWhenIdle, Submit, Shares
  <2> QED BY <2>1, <2>2 DEF CoreStep
<1> QED BY <1>1, SharedInv

(* Every step is of one of six kinds, and the process was at work.           *)
LEMMA SpecKinds ==
  ASSUME SpecInv, [SpecNext]_all_vars, pc # "crashed"
  PROVE  /\ Going /\ Settled
         /\ \/ pc' = "crashed" /\ UNCHANGED <<lists, adder, rows, cache, req, data, draft_kv>>
            \/ CoreStep /\ IInv /\ draft_kv' = draft_kv /\ kv' = kv
            \/ Evicts /\ draft_kv' = draft_kv /\ kv' = kv
            \/ (EndTake \/ Output \/ UNCHANGED all_vars) /\ Idles
                 /\ draft_kv' = draft_kv /\ kv' = kv
            \/ (\E r, n : Takes(r, n)) /\ draft_kv' = draft_kv /\ kv' = kv
            \/ \E drafts : Ran(drafts)
<1>1. Going
  BY DEF SpecInv
<1>2. Settled
  BY <1>1, SharedInv DEF Going, Settled, Shares
<1>3. CASE Shared \/ ((RunWhenIdle \/ \E r \in Reqs : Submit(r)) /\ UNCHANGED spec_vars)
  <2>1. CoreStep /\ draft_kv' = draft_kv
    BY <1>3 DEF Shared, CoreStep, spec_vars
  <2>2. kv' = kv
    BY <2>1 DEF CoreStep, Select, Submit, ProcessMsg, StartStep, StopAdmission, ContinueChunk,
       TryAllocate, AdmitWithoutSlot, AdmitWithFreeSlot, EvictForSlot, AdmitWithShedSlot, Starved,
       Admit, Cleanup, EndStep, RunWhenIdle, vars, data
  <2> QED BY <1>1, <1>2, <2>1, <2>2, CoreSteps
<1>4. CASE SpecCleanup
  <2>1. CoreStep /\ draft_kv' = draft_kv /\ kv' = kv
    BY <1>4 DEF SpecCleanup, CoreStep, Cleanup, data
  <2> QED BY <1>1, <1>2, <2>1, CoreSteps
<1>5. CASE RefuseChunk \/ OutOfPages \/ OutOfColumns \/ OutOfSlots
  BY <1>1, <1>2, <1>5 DEF RefuseChunk, OutOfPages, OutOfColumns, OutOfSlots, Fail
<1>6. CASE EvictForPages \/ EvictForScratch
  BY <1>1, <1>2, <1>6 DEF EvictForPages, EvictForScratch, Evicts, spec_vars, data
<1>7. CASE TakePages
  BY <1>1, <1>2, <1>7, TakePagesTakes DEF TakePages, spec_vars, data
<1>8. CASE EndTake
  BY <1>1, <1>2, <1>8 DEF EndTake, Runs, Idles, spec_vars, data
<1>9. CASE Output
  BY <1>1, <1>2, <1>9 DEF Output, Idles, data
<1>10. CASE UNCHANGED all_vars
  BY <1>1, <1>2, <1>10 DEF all_vars, vars, spec_vars, Idles, lists, cache, data
<1>11. CASE Prefill
  BY <1>1, <1>2, <1>11, PrefillRuns
<1>12. CASE Verify
  BY <1>1, <1>2, <1>12, VerifyRuns
<1> QED BY <1>3, <1>4, <1>5, <1>6, <1>7, <1>8, <1>9, <1>10, <1>11, <1>12 DEF SpecNext, SpecStep


-----------------------------------------------------------------------------
(* What the loop holds while it is at work: slots, locks, handles, rows,     *)
(* pages and states.                                                         *)
Held == SlotOwnership /\ LocksInv /\ HandlesFit /\ RowsSettled /\ PagesInv /\ States

(* What the pages hold, in the cache of the target and in that of the draft. *)
Filled == Pinned /\ Contents(kv) /\ Contents(draft_kv)

(* Each kind of step keeps what the loop holds ...                           *)
LEMMA CoreHeld ==
  ASSUME IInv, Held, CoreStep
  PROVE  Held'
<1>1. SlotOwnership' /\ LocksInv' /\ HandlesFit'
  BY CoreSlots, CoreLocks, CoreHandles DEF Held
<1>2. RowsSettled' /\ PagesInv' /\ States'
  BY CoreRows, CorePages, CoreStates DEF Held
<1> QED BY <1>1, <1>2 DEF Held

LEMMA EvictHeld ==
  ASSUME Settled, Held, Evicts
  PROVE  Held'
<1>1. SlotOwnership' /\ LocksInv' /\ HandlesFit'
  BY EvictSlots, EvictLocks, EvictHandles DEF Held
<1>2. RowsSettled' /\ PagesInv' /\ States'
  BY EvictRows, EvictPages, EvictStates DEF Held
<1> QED BY <1>1, <1>2 DEF Held

LEMMA TakeHeld ==
  ASSUME Settled, Held, NEW r, NEW n, Takes(r, n)
  PROVE  Held'
<1>1. SlotOwnership' /\ LocksInv' /\ HandlesFit'
  BY TakeSlots, TakeLocks, TakeHandles DEF Held
<1>2. RowsSettled' /\ PagesInv' /\ States'
  BY TakeRows, TakenPages, TakenStates DEF Held
<1> QED BY <1>1, <1>2 DEF Held

LEMMA RunHeld ==
  ASSUME Going, Held, NEW drafts, Ran(drafts)
  PROVE  Held'
<1>1. SlotOwnership' /\ LocksInv' /\ HandlesFit'
  BY RunSlots, RunLocks, RunHandles DEF Held
<1>2. RowsSettled' /\ PagesInv' /\ States'
  BY RunRows, RunPages, RunStates DEF Held
<1> QED BY <1>1, <1>2 DEF Held

(* The rows when the pages are taken, and when the answers go out.           *)
LEMMA IdleRows ==
  ASSUME RowsSettled, EndTake \/ Output \/ UNCHANGED all_vars
  PROVE  RowsSettled'
<1>1. CASE EndTake
  <2>1. pc = "alloc" /\ pc' = "forward" /\ prepared = Len(batch) /\ batch' = batch /\ req' = req
    BY <1>1 DEF EndTake, Runs, lists
  <2> QED BY <2>1, TakenRows
<1>2. CASE Output
  <2>1. pc = "output" /\ pc' = "cleanup" /\ req' = req
    BY <1>2 DEF Output
  <2> QED BY <2>1 DEF RowsSettled, RowFull, Live
<1>3. CASE UNCHANGED all_vars
  BY <1>3 DEF all_vars, vars, lists, adder, RowsSettled, RowFull, Live
<1> QED BY <1>1, <1>2, <1>3

LEMMA IdleHeld ==
  ASSUME Settled, Held, Idles, EndTake \/ Output \/ UNCHANGED all_vars
  PROVE  Held'
<1>1. SlotOwnership' /\ LocksInv' /\ HandlesFit'
  BY IdleSlots, IdleLocks, IdleHandles DEF Held
<1>2. RowsSettled' /\ PagesInv' /\ States'
  BY IdleRows, IdlePages, IdleStates DEF Held
<1> QED BY <1>1, <1>2 DEF Held

(* ... so every step does, unless the process fails.                         *)
LEMMA NextKeepsHeld ==
  ASSUME SpecInv, pc # "crashed" => Held, [SpecNext]_all_vars, pc' # "crashed"
  PROVE  Held'
<1>1. pc # "crashed"
  BY FailedStops DEF all_vars, vars
<1>2. CASE CoreStep /\ IInv
  BY <1>1, <1>2, CoreHeld
<1>3. CASE Evicts
  BY <1>1, <1>3, SpecKinds, EvictHeld
<1>4. CASE (EndTake \/ Output \/ UNCHANGED all_vars) /\ Idles
  BY <1>1, <1>4, SpecKinds, IdleHeld
<1>5. CASE \E r, n : Takes(r, n)
  BY <1>1, <1>5, SpecKinds, TakeHeld
<1>6. CASE \E drafts : Ran(drafts)
  BY <1>1, <1>6, SpecKinds, RunHeld
<1> QED BY <1>1, <1>2, <1>3, <1>4, <1>5, <1>6, SpecKinds

-----------------------------------------------------------------------------
(* Likewise for what the pages hold.                                         *)
LEMMA CoreFilled ==
  ASSUME IInv, Held, Filled, RowAssigned, CoreStep, kv' = kv, draft_kv' = draft_kv
  PROVE  Filled'
<1>1. Pinned'
  BY CorePinned DEF Held, Filled
<1>2. Contents(kv)'
  <2>1. PICK f : f = kv /\ f = kv'
    OBVIOUS
  <2>2. Contents(f)'
    BY <2>1, CoreContents DEF Held, Filled, Contents
  <2> QED BY <2>1, <2>2 DEF Contents
<1>3. Contents(draft_kv)'
  <2>1. PICK f : f = draft_kv /\ f = draft_kv'
    OBVIOUS
  <2>2. Contents(f)'
    BY <2>1, CoreContents DEF Held, Filled, Contents
  <2> QED BY <2>1, <2>2 DEF Contents
<1> QED BY <1>1, <1>2, <1>3 DEF Filled

(* The steps between, which write no page.                                   *)
LEMMA QuietFilled ==
  ASSUME Settled, Held, Filled, kv' = kv, draft_kv' = draft_kv,
         Evicts \/ Idles \/ \E r, n : Takes(r, n)
  PROVE  Filled'
<1>1. Pinned'
  BY EvictPinned, IdlePinned, TakePinned DEF Held, Filled
<1>2. ASSUME NEW f, Contents(f)
      PROVE  Contents(f)'
  BY <1>2, EvictContents, IdleContents, TakenContents
<1>3. Contents(kv)'
  <2>1. PICK f : f = kv /\ f = kv'
    OBVIOUS
  <2>2. Contents(f)'
    BY <1>2, <2>1 DEF Filled, Contents
  <2> QED BY <2>1, <2>2 DEF Contents
<1>4. Contents(draft_kv)'
  <2>1. PICK f : f = draft_kv /\ f = draft_kv'
    OBVIOUS
  <2>2. Contents(f)'
    BY <1>2, <2>1 DEF Filled, Contents
  <2> QED BY <2>1, <2>2 DEF Contents
<1> QED BY <1>1, <1>3, <1>4 DEF Filled

LEMMA RunFilled ==
  ASSUME Going, Held, Filled, NEW drafts, Ran(drafts)
  PROVE  Filled'
<1>1. Pinned'
  BY RunPinned DEF Held, Filled
<1>2. Contents(kv)' /\ Contents(draft_kv)'
  BY RunWrites DEF Held, Filled
<1> QED BY <1>1, <1>2 DEF Filled

(* While the loop is at work, the pages hold what they are read for.         *)
LEMMA NextKeepsFilled ==
  ASSUME SpecInv, pc # "crashed" => Held /\ Filled, [SpecNext]_all_vars, [RowAssigned]_vars,
         pc' # "crashed"
  PROVE  Filled'
<1>0. RowAssigned
  BY DEF RowAssigned, vars
<1>1. pc # "crashed"
  BY FailedStops DEF all_vars, vars
<1>2. CASE CoreStep /\ IInv /\ draft_kv' = draft_kv /\ kv' = kv
  BY <1>0, <1>1, <1>2, CoreFilled
<1>3. CASE (Evicts \/ Idles \/ \E r, n : Takes(r, n)) /\ draft_kv' = draft_kv /\ kv' = kv
  BY <1>1, <1>3, SpecKinds, QuietFilled
<1>4. CASE \E drafts : Ran(drafts)
  BY <1>1, <1>4, SpecKinds, RunFilled
<1> QED BY <1>1, <1>2, <1>3, <1>4, SpecKinds

-----------------------------------------------------------------------------
LEMMA SpecStarts == SpecInit => Init
BY DEF SpecInit

LEMMA InitHeld == SpecInit => Held
BY SpecStarts, InitSlots, InitLocks, InitHandles, InitRows, InitPages, InitStates DEF Held

LEMMA InitFilled == SpecInit => Filled
<1> SUFFICES ASSUME SpecInit PROVE Filled
  OBVIOUS
<1>1. Contents(kv)
  BY SpecStarts, InitContents
<1>2. Contents(draft_kv)
  BY SpecStarts, InitContents
<1> QED BY <1>1, <1>2, SpecStarts, InitPinned DEF Filled

LEMMA WorkSettled == SpecInv => (pc # "crashed" => Settled)
BY SharedInv DEF SpecInv, Going, Settled, Shares

LEMMA AlwaysSettled == SpecSpec => [](pc # "crashed" => Settled)
BY WorkSettled, SpecInvariant, PTL

LEMMA AlwaysHeld == SpecSpec => [](pc # "crashed" => Held)
<1>1. SpecInit => (pc # "crashed" => Held)
  BY InitHeld
<1>2. SpecInv /\ (pc # "crashed" => Held) /\ [SpecNext]_all_vars => (pc # "crashed" => Held)'
  BY NextKeepsHeld
<1> QED BY <1>1, <1>2, SpecInvariant, PTL DEF SpecSpec

LEMMA AlwaysFilled == SpecSpec /\ [][RowAssigned]_vars => [](pc # "crashed" => Filled)
<1>1. SpecInit => (pc # "crashed" => Filled)
  BY InitFilled
<1>2. /\ SpecInv /\ (pc # "crashed" => Held) /\ (pc # "crashed" => Filled)
      /\ [SpecNext]_all_vars /\ [RowAssigned]_vars
      => (pc # "crashed" => Filled)'
  BY NextKeepsFilled
<1> QED BY <1>1, <1>2, SpecInvariant, AlwaysHeld, PTL DEF SpecSpec

(* A loop that has failed keeps what it had.                                 *)
LEMMA LeftAsItWas ==
  ASSUME SpecInv, [SpecNext]_all_vars, pc' = "crashed"
  PROVE  UNCHANGED <<lists, adder, rows, cache, req, data, draft_kv>>
<1>1. CASE pc = "crashed"
  <2>1. UNCHANGED all_vars
    BY <1>1, FailedStops
  <2> QED BY <2>1 DEF all_vars, vars, spec_vars
<1>2. CASE pc # "crashed"
  <2>1. ~ Select
    <3>1. ~ ProcessMsg /\ ~ StartStep /\ ~ ContinueChunk /\ ~ EvictForSlot
      BY <1>2 DEF ProcessMsg, StartStep, ContinueChunk, EvictForSlot
    <3>2. ~ SelectBatch
      BY DEF SelectBatch
    <3>3. ~ StopAdmission /\ ~ Starved
      BY <3>2 DEF StopAdmission, Starved
    <3>4. ~ TryAllocate
      BY <3>2 DEF TryAllocate
    <3>5. ~ AdmitWithoutSlot /\ ~ AdmitWithFreeSlot /\ ~ AdmitWithShedSlot
      BY <1>2 DEF AdmitWithoutSlot, AdmitWithFreeSlot, AdmitWithShedSlot, Admit
    <3> QED BY <3>1, <3>3, <3>4, <3>5 DEF Select
  <2>2. ~ Cleanup /\ ~ EndStep /\ ~ RunWhenIdle
    BY <1>2 DEF Cleanup, EndStep, RunWhenIdle, vars
  <2>3. ~ \E r \in Reqs : Submit(r)
    BY <1>2 DEF Submit
  <2>4. ~ CoreStep
    BY <2>1, <2>2, <2>3 DEF CoreStep
  <2>5. ~ Evicts /\ ~ EndTake /\ ~ Output /\ ~ UNCHANGED all_vars
    BY <1>2 DEF Evicts, EndTake, Output, all_vars, vars
  <2>6. (~ \E r, n : Takes(r, n)) /\ ~ \E drafts : Ran(drafts)
    BY DEF Takes, Ran, Commit
  <2> QED BY <1>2, <2>4, <2>5, <2>6, SpecKinds
<1> QED BY <1>1, <1>2

(* Speculation leaks no page and gives none to two owners: when drafts are   *)
(* rejected, their pages go from the row to the free list, so each page is   *)
(* free, in the prefix cache, or a live request's, and it is so once, even   *)
(* when the loop has failed.                                                 *)
THEOREM SpecPagesOwned == SpecSpec => []PageOwnership
<1>1. Settled /\ Held => PageOwnership
  BY OneOwner DEF Held
<1>2. SpecInit => PageOwnership
  <2>1. SpecInit => pc # "crashed"
    BY DEF SpecInit, Init
  <2> QED BY <1>1, <2>1, InitHeld, InitSpecInv, WorkSettled
<1>3. SpecInv /\ PageOwnership /\ [SpecNext]_all_vars /\ (pc # "crashed" => PageOwnership)'
      => PageOwnership'
  <2> SUFFICES ASSUME SpecInv, PageOwnership, [SpecNext]_all_vars, pc' = "crashed"
               PROVE  PageOwnership'
    OBVIOUS
  <2>1. UNCHANGED <<freePages, tree, req>>
    BY LeftAsItWas DEF cache
  <2>2. \A p : Owners(p)' = Owners(p)
    BY <2>1 DEF Owners, Live
  <2> QED BY <2>2 DEF PageOwnership
<1> QED BY <1>1, <1>2, <1>3, SpecInvariant, AlwaysSettled, AlwaysHeld, PTL DEF SpecSpec

(* The recurrence goes on from the right state, also behind a run that       *)
(* rejects drafts: a live request's slot is at cached_len, every snapshot at *)
(* the end of its node.                                                      *)
THEOREM SpecStatesExact == SpecSpec => []StateCorrect
<1>1. Held => StateCorrect
  BY StatesAreCorrect DEF Held
<1>2. SpecInit => StateCorrect
  BY <1>1, InitHeld
<1>3. SpecInv /\ StateCorrect /\ [SpecNext]_all_vars /\ (pc # "crashed" => StateCorrect)'
      => StateCorrect'
  <2> SUFFICES ASSUME SpecInv, StateCorrect, [SpecNext]_all_vars, pc' = "crashed"
               PROVE  StateCorrect'
    OBVIOUS
  <2>1. UNCHANGED <<tree, req, state>>
    BY LeftAsItWas DEF cache, data
  <2>2. Live' = Live /\ SnapshotNodes(tree)' = SnapshotNodes(tree)
    BY <2>1 DEF Live
  <2> QED BY <2>1, <2>2 DEF StateCorrect
<1> QED BY <1>1, <1>2, <1>3, SpecInvariant, AlwaysHeld, PTL DEF SpecSpec

(* A failure writes no page.                                                 *)
LEMMA ContentsLeft ==
  ASSUME SpecInv, [SpecNext]_all_vars, pc' = "crashed"
  PROVE  (Contents(kv) => Contents(kv)') /\ (Contents(draft_kv) => Contents(draft_kv)')
<1>1. UNCHANGED <<tree, req, kv, draft_kv>>
  BY LeftAsItWas DEF cache, data
<1> QED BY <1>1 DEF Contents, TreeHolds, RowHolds, Live

LEMMA AlwaysContents ==
  SpecSpec /\ [][RowAssigned]_vars => [](Contents(kv) /\ Contents(draft_kv))
<1>1. SpecInit => Contents(kv) /\ Contents(draft_kv)
  BY InitFilled DEF Filled
<1>2. /\ SpecInv /\ Contents(kv) /\ Contents(draft_kv) /\ [SpecNext]_all_vars
      /\ (pc # "crashed" => Filled)'
      => (Contents(kv) /\ Contents(draft_kv))'
  BY ContentsLeft DEF Filled
<1> QED BY <1>1, <1>2, SpecInvariant, AlwaysFilled, PTL DEF SpecSpec

(* Verification reads the right K/V in the target's cache: each position     *)
(* behind a live request, and each prefix in the prefix cache, is in a page  *)
(* that holds exactly it, and nothing that a rejected draft has written.     *)
THEOREM SpecContextExact == SpecSpec /\ [][RowAssigned]_vars => []ContextCorrect
BY AlwaysContents, ContentsAreContext, PTL

(* The draft's cache is in sync with the target's up to cached_len, and so   *)
(* is every page of the prefix cache that a later request may start from.    *)
THEOREM DraftSynced == SpecSpec /\ [][RowAssigned]_vars => []DraftInSync
<1>1. Contents(draft_kv) => DraftInSync
  BY DEF Contents, TreeHolds, RowHolds, DraftInSync
<1> QED BY <1>1, AlwaysContents, PTL

(* Rows are assigned so without a cache, and if slices write through.        *)
LEMMA SpecAssigned ==
  ASSUME SliceIsView \/ CacheType = "naive"
  PROVE  SpecSpec => [][RowAssigned]_vars
<1>1. SpecInv /\ [SpecNext]_all_vars => [RowAssigned]_vars
  <2> SUFFICES ASSUME SpecInv, [SpecNext]_all_vars, pc = "admit", pc' = "slot" PROVE RowAssigned
    BY DEF RowAssigned
  <2>1. ~ Evicts /\ ~ EndTake /\ ~ Output /\ ~ UNCHANGED all_vars
    BY DEF Evicts, EndTake, Output, Runs, all_vars, vars
  <2>2. (~ \E r, n : Takes(r, n)) /\ ~ \E drafts : Ran(drafts)
    BY DEF Takes, Ran
  <2>3. CoreStep /\ IInv
    BY <2>1, <2>2, SpecKinds
  <2> QED BY <2>3, CoreAssigns
<1> QED BY <1>1, SpecInvariant, PTL DEF SpecSpec

(* With --cache-type naive the code as it is keeps both caches so, whatever  *)
(* mlx does when a slice is assigned to.                                     *)
THEOREM NaiveDraftSynced ==
  ASSUME CacheType = "naive"
  PROVE  SpecSpec => [](ContextCorrect /\ DraftInSync)
BY SpecAssigned, SpecContextExact, DraftSynced, PTL

===============================================================================
