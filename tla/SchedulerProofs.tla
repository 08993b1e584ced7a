--------------------------- MODULE SchedulerProofs ---------------------------
(***************************************************************************)
(* Theorems about the scheduler with the plain engine, for any number of   *)
(* requests, slots and pages.                                              *)
(*                                                                         *)
(* First its inductive invariant, IInv of CoreProofs, is shown for this    *)
(* engine's steps, and with it the shape of the cache and the ownership of *)
(* slots.  Then the locks of the prefix cache: a node is locked once per   *)
(* request whose handle lies at or below it, whatever was split, inserted  *)
(* and evicted since the request took its lock, and what the handle refers *)
(* to stays where it was.                                                  *)
(***************************************************************************)
EXTENDS Scheduler, CoreProofs

-----------------------------------------------------------------------------
(* Running a batch.                                                         *)

(* A request's row grows by the pages of the tokens to compute.              *)
LEMMA PrepareReqKeepsIInv ==
  ASSUME IInv, PrepareReq
  PROVE  IInv'
<1>1. Typed /\ ListsOK /\ LengthsOK
  BY DEF IInv
<1>2. PICK b \in Nat, done \in Nat : b = Len(batch) /\ done = prepared /\ done < b
  BY <1>1, Members DEF PrepareReq, Typed
<1>3. done + 1 \in 1..b
  BY <1>2
<1>4. PICK r \in Reqs : r = batch[done + 1] /\ r = Preparing
  BY <1>1, <1>2, <1>3, Members DEF Preparing
<1>5. /\ pc = "alloc" /\ prepared' = done + 1
      /\ UNCHANGED <<inbox, pending, running, batch, chunked_list, finished, budget, rows,
                     tree, freeSlots, kv, state, pc>>
  BY <1>2 DEF PrepareReq, lists, data
<1>6. /\ req \in [Reqs -> ReqRecord] /\ req[r] \in ReqRecord
      /\ freePages \in Seq(Pages)
  BY <1>1 DEF Typed
<1>7. PICK c \in Nat, d \in Nat, k \in Nat, f \in Nat :
        /\ c = req[r].cached /\ d = req[r].device /\ k = Len(req[r].row) /\ f = Len(freePages)
        /\ c <= k /\ c <= d
  <2>1. req[r].device = Len(req[r].ids) /\ req[r].cached <= Len(req[r].ids)
        /\ req[r].cached <= Len(req[r].row)
    BY <1>1, <1>2, <1>3, <1>4, <1>5 DEF LengthsOK, DeviceLengths, ReqLengths
  <2>2. Len(freePages) \in Nat /\ Len(req[r].row) \in Nat /\ req[r].cached \in Nat
        /\ req[r].device \in Nat
    BY <1>6, ReqFields, LenProperties
  <2> QED BY <2>1, <2>2
<1>8. PICK n \in Nat : n = ExtendLen(r) /\ n = d - c /\ n <= f
  <2>1. ExtendLen(r) <= Len(freePages)
    BY <1>4 DEF PrepareReq
  <2>2. ExtendLen(r) = d - c /\ d - c \in Nat
    BY <1>7 DEF ExtendLen
  <2> QED BY <1>7, <2>1, <2>2
<1>9. PICK row \in Seq(Pages) :
        row = SubSeq(req[r].row, 1, c) \o SubSeq(freePages, 1, n) /\ Len(row) = d
  <2>1. c \in 0..Len(req[r].row) /\ n \in 0..Len(freePages)
    BY <1>7, <1>8
  <2>2. /\ SubSeq(req[r].row, 1, c) \in Seq(Pages) /\ Len(SubSeq(req[r].row, 1, c)) = c
        /\ SubSeq(freePages, 1, n) \in Seq(Pages) /\ Len(SubSeq(freePages, 1, n)) = n
    BY <1>6, <2>1, FirstElements, ReqFields
  <2> DEFINE front == SubSeq(req[r].row, 1, c)
             back == SubSeq(freePages, 1, n)
  <2> HIDE DEF front, back
  <2>3. front \o back \in Seq(Pages) /\ Len(front \o back) = c + n
    BY <2>2, ConcatProperties DEF front, back
  <2>4. c + n = d
    BY <1>8
  <2> QED BY <2>3, <2>4 DEF front, back
<1>10. freePages' = SubSeq(freePages, n + 1, f) /\ freePages' \in Seq(Pages)
  <2>1. freePages' = SubSeq(freePages, n + 1, f)
    BY <1>4, <1>7, <1>8 DEF PrepareReq, AfterTaking
  <2>2. \A i \in n + 1 .. f : freePages[i] \in Pages
    BY <1>6, <1>7, ElementOfSeq
  <2> QED BY <1>6, <2>1, <2>2, SubSeqProperties
<1> DEFINE new == [req[r] EXCEPT !.row = row]
<1>11. /\ new \in ReqRecord /\ new.stage = req[r].stage /\ new.chunked = req[r].chunked
       /\ new.ids = req[r].ids /\ new.cached = c /\ new.device = d
       /\ new.slot = req[r].slot /\ new.prompt = req[r].prompt /\ new.row = row
  BY <1>6, <1>7 DEF ReqRecord
<1>12. req' = [req EXCEPT ![r] = new]
  <2>1. req' = [req EXCEPT ![r].row = SubSeq(req[r].row, 1, req[r].cached)
                                      \o SubSeq(freePages, 1, ExtendLen(r))]
    BY <1>4, <1>6 DEF PrepareReq
  <2>2. req' = [req EXCEPT ![r].row = row]
    BY <1>7, <1>8, <1>9, <2>1
  <2> QED BY <1>6, <2>2
<1> HIDE DEF new
<1>13. /\ req'[r] = new /\ req' \in [Reqs -> ReqRecord]
       /\ \A q \in Reqs \ {r} : req'[q] = req[q]
  BY <1>6, <1>11, <1>12
<1>14. \A q \in Reqs : /\ req'[q].stage = req[q].stage /\ req'[q].chunked = req[q].chunked
                       /\ req'[q].ids = req[q].ids /\ req'[q].cached = req[q].cached
                       /\ req'[q].device = req[q].device /\ req'[q].slot = req[q].slot
                       /\ req'[q].prompt = req[q].prompt
  BY <1>7, <1>11, <1>13
<1>15. Typed'
  BY <1>1, <1>5, <1>10, <1>13 DEF Typed
<1>16. ListsOK'
  <2>1. InboxOK'
    BY <1>1, <1>5, <1>14, Members DEF ListsOK, InboxOK
  <2>2. PendingOK' /\ AdmissionOK' /\ SlotOK'
    BY <1>1, <1>5, <1>14, Members
    DEF ListsOK, PendingOK, AdmissionOK, SlotOK, Admitting, Waiting
  <2>3. prepared' <= Len(batch')
    BY <1>2, <1>5
  <2>4. PlacesOK'
    BY <1>1, <1>5, <1>14, <2>3, Members DEF ListsOK, PlacesOK, Typed
  <2> QED BY <2>1, <2>2, <2>4 DEF ListsOK
<1>17. ReqLengths'
  <2>1. req'[r].cached <= Len(req'[r].row)
    BY <1>7, <1>9, <1>11, <1>13
  <2>2. \A q \in Reqs : req'[q].cached <= Len(req'[q].row)
    BY <1>1, <1>13, <2>1 DEF LengthsOK, ReqLengths
  <2> QED BY <1>1, <1>14, <2>2 DEF LengthsOK, ReqLengths, InputLen
<1>18. DeviceLengths'
  BY <1>1, <1>5, <1>14, Members DEF LengthsOK, DeviceLengths, Typed
<1>19. RowLengths'
  <2>1. \A i \in 1..done + 1 : i \in 1..b /\ (i \in 1..done \/ i = done + 1)
    BY <1>2
  <2>2. \A i \in 1..done : Len(req[batch[i]].row) = req[batch[i]].device
    BY <1>1, <1>2, <1>5 DEF LengthsOK, RowLengths
  <2>3. Len(req'[r].row) = req'[r].device
    BY <1>9, <1>11, <1>13
  <2>4. \A i \in 1..done + 1 : Len(req'[batch[i]].row) = req'[batch[i]].device
    <3> SUFFICES ASSUME NEW i \in 1..done + 1
                 PROVE  Len(req'[batch[i]].row) = req'[batch[i]].device
      OBVIOUS
    <3>1. PICK q \in Reqs : q = batch[i]
      BY <1>1, <1>2, <2>1, Members
    <3>2. CASE q = r
      BY <2>3, <3>1, <3>2
    <3>3. CASE q # r
      BY <1>4, <1>13, <2>1, <2>2, <3>1, <3>3
    <3> QED BY <3>2, <3>3
  <2> QED BY <1>5, <2>4 DEF RowLengths
<1> QED BY <1>15, <1>16, <1>17, <1>18, <1>19 DEF IInv, LengthsOK

(* _prepare_batch is through.                                                *)
LEMMA EndPrepareKeepsIInv ==
  ASSUME IInv, EndPrepare
  PROVE  IInv'
<1>1. Typed /\ ListsOK /\ LengthsOK
  BY DEF IInv
<1>2. /\ pc = "alloc" /\ prepared = Len(batch) /\ prepared' = 0 /\ pc' = "forward"
      /\ UNCHANGED <<inbox, pending, running, batch, chunked_list, finished, budget, rows,
                     tree, freePages, freeSlots, req, kv, state>>
  BY DEF EndPrepare, lists, cache, data
<1>3. Typed'
  BY <1>1, <1>2 DEF Typed
<1>4. Len(batch) \in Nat /\ 0 <= Len(batch)
  BY <1>1, Members
<1>5. ListsOK'
  BY <1>1, <1>2, <1>4
  DEF ListsOK, InboxOK, PendingOK, AdmissionOK, SlotOK, PlacesOK, Admitting, Waiting
<1>6. LengthsOK'
  BY <1>1, <1>2 DEF LengthsOK, ReqLengths, DeviceLengths, RowLengths, InputLen
<1> QED BY <1>3, <1>5, <1>6 DEF IInv

(* The pages a batch writes hold prefixes of what its requests are.          *)
LEMMA ForwardKeepsKV ==
  ASSUME Typed, LengthsOK, Forward
  PROVE  kv' \in [Pages -> Seq(Vocab)]
<1>1. /\ pc = "forward" /\ batch \in Seq(Reqs) /\ req \in [Reqs -> ReqRecord]
      /\ kv \in [Pages -> Seq(Vocab)]
  BY DEF Forward, Typed
<1>2. ASSUME NEW p \in Pages, NEW w \in Written(p)
      PROVE  SubSeq(req[w[1]].ids, 1, w[2]) \in Seq(Vocab)
  <2>1. PICK r \in InBatch : w \in {r} \X {i \in req[r].cached + 1 .. req[r].device : req[r].row[i] = p}
    BY <1>2 DEF Written
  <2>2. w[1] = r /\ w[2] \in req[r].cached + 1 .. req[r].device
    BY <2>1
  <2>3. PICK i \in 1..Len(batch) : r = batch[i]
    BY <1>1 DEF InBatch, Range
  <2>4. r \in Reqs
    BY <2>3, Members
  <2>5. req[r].device = Len(req[r].ids)
    BY <1>1, <2>3 DEF LengthsOK, DeviceLengths
  <2>6. req[r].cached \in Nat /\ Len(req[r].ids) \in Nat /\ req[r].ids \in Seq(Vocab)
    BY <1>1, <2>4, ReqFields
  <2>7. w[2] \in 0..Len(req[r].ids)
    BY <2>2, <2>5, <2>6
  <2> QED BY <2>2, <2>6, <2>7, FirstElements
<1>3. kv' = [p \in Pages |->
              IF Written(p) = {} THEN kv[p]
              ELSE LET w == CHOOSE w \in Written(p) : TRUE
                   IN SubSeq(req[w[1]].ids, 1, w[2])]
  BY DEF Forward
<1>4. ASSUME NEW p \in Pages
      PROVE  (IF Written(p) = {} THEN kv[p]
              ELSE LET w == CHOOSE w \in Written(p) : TRUE
                   IN SubSeq(req[w[1]].ids, 1, w[2])) \in Seq(Vocab)
  <2>1. CASE Written(p) = {}
    BY <1>1, <2>1
  <2>2. CASE Written(p) # {}
    <3>1. (CHOOSE w \in Written(p) : TRUE) \in Written(p)
      BY <2>2
    <3> QED BY <1>2, <2>2, <3>1
  <2> QED BY <2>1, <2>2
<1> QED BY <1>3, <1>4

(* _forward moves cached_len and device_len of the batch on.                 *)
LEMMA ForwardKeepsIInv ==
  ASSUME IInv, Forward
  PROVE  IInv'
<1>1. Typed /\ ListsOK /\ LengthsOK
  BY DEF IInv
<1>2. /\ pc = "forward" /\ pc' = "output"
      /\ UNCHANGED <<inbox, pending, batch, chunked_list, finished, budget, prepared, rows,
                     tree, freePages, freeSlots>>
  BY DEF Forward, adder, cache
<1>3. /\ batch \in Seq(Reqs) /\ req \in [Reqs -> ReqRecord]
      /\ InBatch = {batch[i] : i \in 1..Len(batch)}
      /\ InBatch \subseteq Reqs /\ IsFiniteSet(InBatch)
  <2>1. batch \in Seq(Reqs) /\ req \in [Reqs -> ReqRecord]
    BY <1>1 DEF Typed
  <2>2. InBatch = {batch[i] : i \in 1..Len(batch)}
    BY <2>1 DEF InBatch, Range
  <2>3. InBatch \subseteq Reqs
    BY <1>1, <2>2, Members
  <2>4. IsFiniteSet(InBatch)
    <3> DEFINE f == [i \in 1..Len(batch) |-> batch[i]]
    <3>1. IsFiniteSet(1..Len(batch))
      BY <1>1, Members, FS_Interval
    <3>2. f \in Surjection(1..Len(batch), InBatch)
      BY <2>2 DEF Surjection
    <3> QED BY <3>1, <3>2, FS_Surjection
  <2> QED BY <2>1, <2>2, <2>3, <2>4
<1>4. req' = [r \in Reqs |->
               IF r \in InBatch
               THEN [req[r] EXCEPT !.cached = req[r].device, !.device = req[r].device + 1]
               ELSE req[r]]
  BY <1>3 DEF Forward
<1>5. \A r \in Reqs \ InBatch : req'[r] = req[r]
  BY <1>4
<1>6. \A r \in InBatch :
        /\ req'[r] \in ReqRecord
        /\ req'[r].cached = req[r].device /\ req'[r].device = req[r].device + 1
        /\ req'[r].stage = req[r].stage /\ req'[r].chunked = req[r].chunked
        /\ req'[r].ids = req[r].ids /\ req'[r].row = req[r].row
        /\ req'[r].slot = req[r].slot /\ req'[r].prompt = req[r].prompt
  <2> SUFFICES ASSUME NEW r \in InBatch
               PROVE  /\ req'[r] \in ReqRecord
                      /\ req'[r].cached = req[r].device /\ req'[r].device = req[r].device + 1
                      /\ req'[r].stage = req[r].stage /\ req'[r].chunked = req[r].chunked
                      /\ req'[r].ids = req[r].ids /\ req'[r].row = req[r].row
                      /\ req'[r].slot = req[r].slot /\ req'[r].prompt = req[r].prompt
    OBVIOUS
  <2>1. req[r] \in ReqRecord /\ r \in Reqs
    BY <1>3
  <2>2. PICK d \in Nat : d = req[r].device
    BY <2>1, ReqFields
  <2>3. PICK e \in Nat : e = d + 1
    OBVIOUS
  <2>4. req'[r] = [req[r] EXCEPT !.cached = d, !.device = e]
    BY <1>4, <2>1, <2>2, <2>3
  <2> QED BY <2>1, <2>2, <2>3, <2>4 DEF ReqRecord
<1>7. req' \in [Reqs -> ReqRecord]
  BY <1>3, <1>4, <1>5, <1>6
<1>8. \A q \in Reqs : /\ req'[q].stage = req[q].stage /\ req'[q].chunked = req[q].chunked
                      /\ req'[q].ids = req[q].ids /\ req'[q].slot = req[q].slot
                      /\ req'[q].prompt = req[q].prompt /\ req'[q].row = req[q].row
  BY <1>5, <1>6
<1>9. /\ running' \subseteq running \cup InBatch
      /\ \A r \in running' : ~ req'[r].chunked
  <2>1. running' = {r \in running \cup InBatch : ~ req'[r].chunked /\ RemainLen(r)' > 0}
    BY DEF Forward, CanDecode
  <2> QED BY <2>1
<1>10. running' \subseteq Reqs /\ IsFiniteSet(running')
  <2>1. running \subseteq Reqs /\ IsFiniteSet(running)
    BY <1>1 DEF Typed
  <2>2. IsFiniteSet(running \cup InBatch)
    BY <1>3, <2>1, FS_Union
  <2> QED BY <1>3, <1>9, <2>1, <2>2, FS_Subset
<1>11. Typed'
  <2>1. kv' \in [Pages -> Seq(Vocab)]
    BY <1>1, ForwardKeepsKV
  <2> QED BY <1>1, <1>2, <1>7, <1>10, <2>1 DEF Typed
<1>12. \A i \in 1..Len(batch) : batch[i] \in InBatch /\ batch[i] \in Reqs
  BY <1>3
<1>13. ListsOK'
  <2>1. InboxOK'
    BY <1>1, <1>2, <1>8, Members DEF ListsOK, InboxOK
  <2>2. PendingOK' /\ AdmissionOK' /\ SlotOK'
    BY <1>1, <1>2, <1>8, Members
    DEF ListsOK, PendingOK, AdmissionOK, SlotOK, Admitting, Waiting
  <2>3. \A i \in 1..Len(batch) : req'[batch[i]].stage = "live"
    BY <1>1, <1>2, <1>8, <1>12 DEF ListsOK, PlacesOK
  <2>4. \A r \in running' : req'[r].stage = "live" /\ ~ req'[r].chunked
    <3>1. \A r \in running : req'[r].stage = "live"
      BY <1>1, <1>8 DEF ListsOK, PlacesOK, Typed
    <3>2. \A r \in InBatch : req'[r].stage = "live"
      BY <1>3, <2>3
    <3> QED BY <1>9, <3>1, <3>2
  <2>5. PlacesOK'
    BY <1>1, <1>2, <2>3, <2>4 DEF ListsOK, PlacesOK
  <2> QED BY <2>1, <2>2, <2>5 DEF ListsOK
<1>14. \A i \in 1..Len(batch) : /\ req[batch[i]].device = Len(req[batch[i]].ids)
                                /\ req[batch[i]].device = Len(req[batch[i]].row)
  BY <1>1, <1>2 DEF LengthsOK, DeviceLengths, RowLengths
<1>15. ReqLengths'
  <2>1. \A r \in InBatch : /\ req'[r].cached = Len(req'[r].ids)
                           /\ req'[r].cached = Len(req'[r].row)
                           /\ Len(req'[r].ids) \in Nat
                           /\ req'[r].stage = "live"
    <3>1. \A r \in InBatch : req[r].stage = "live"
      BY <1>1, <1>2, <1>3 DEF ListsOK, PlacesOK
    <3>2. \A r \in InBatch : Len(req[r].ids) \in Nat
      BY <1>3, ReqFields
    <3> QED BY <1>3, <1>6, <1>14, <3>1, <3>2
  <2>2. \A r \in InBatch : /\ req'[r].cached <= Len(req'[r].ids)
                           /\ req'[r].cached <= Len(req'[r].row)
    <3> SUFFICES ASSUME NEW r \in InBatch
                 PROVE  /\ req'[r].cached <= Len(req'[r].ids)
                        /\ req'[r].cached <= Len(req'[r].row)
      OBVIOUS
    <3>1. PICK k \in Nat : k = Len(req'[r].ids)
      BY <2>1
    <3>2. k = req'[r].cached /\ k = Len(req'[r].row) /\ k <= k
      BY <2>1, <3>1
    <3> QED BY <3>1, <3>2
  <2> QED BY <1>1, <1>5, <1>8, <2>1, <2>2 DEF LengthsOK, ReqLengths, InputLen
<1>16. DeviceLengths' /\ RowLengths'
  <2>1. \A i \in 1..Len(batch) : req'[batch[i]].device = Len(req'[batch[i]].ids) + 1
    BY <1>6, <1>12, <1>14
  <2>2. \A r \in running' : \/ req'[r].device = Len(req'[r].ids)
                            \/ \E i \in 1..Len(batch) : batch[i] = r
    <3>1. \A r \in running \ InBatch : req'[r].device = Len(req'[r].ids)
      BY <1>1, <1>2, <1>5 DEF LengthsOK, DeviceLengths, Typed
    <3>2. \A r \in InBatch : \E i \in 1..Len(batch) : batch[i] = r
      BY <1>3
    <3> QED BY <1>9, <3>1, <3>2
  <2> QED BY <1>2, <2>1, <2>2 DEF DeviceLengths, RowLengths
<1> QED BY <1>11, <1>13, <1>15, <1>16 DEF IInv, LengthsOK

(* A token is appended to every sampled request, some are finished.          *)
LEMMA OutputKeepsIInv ==
  ASSUME IInv, Output
  PROVE  IInv'
<1>1. Typed /\ ListsOK /\ LengthsOK
  BY DEF IInv
<1>2. /\ pc = "output" /\ pc' = "cleanup"
      /\ UNCHANGED <<inbox, pending, batch, chunked_list, budget, prepared, rows,
                     tree, freePages, freeSlots, kv, state>>
  BY DEF Output, adder, cache, data
<1>3. PICK next \in [Sampled -> Vocab], done \in SUBSET Sampled :
        /\ req' = [r \in Reqs |->
                     IF r \in Sampled THEN [req[r] EXCEPT !.ids = Append(req[r].ids, next[r])]
                     ELSE req[r]]
        /\ finished' = finished \cup done
        /\ running' = running \ done
  BY DEF Output
<1>4. /\ batch \in Seq(Reqs) /\ req \in [Reqs -> ReqRecord]
      /\ running \subseteq Reqs /\ IsFiniteSet(running)
      /\ finished = {} /\ prepared = 0
  BY <1>1, <1>2 DEF Typed, ListsOK, PlacesOK
<1>5. /\ InBatch = {batch[i] : i \in 1..Len(batch)}
      /\ Sampled \subseteq InBatch /\ Sampled \subseteq Reqs
      /\ \A r \in Sampled : ~ req[r].chunked
      /\ \A r \in InBatch \ Sampled : req[r].chunked
  <2>1. InBatch = {batch[i] : i \in 1..Len(batch)}
    BY <1>4 DEF InBatch, Range
  <2>2. InBatch \subseteq Reqs
    BY <1>1, <2>1, Members
  <2> QED BY <2>1, <2>2 DEF Sampled
<1>6. \A r \in Reqs \ Sampled : req'[r] = req[r]
  BY <1>3
<1>7. \A r \in Sampled :
        /\ req'[r] \in ReqRecord
        /\ Len(req'[r].ids) = Len(req[r].ids) + 1
        /\ req'[r].cached = req[r].cached /\ req'[r].device = req[r].device
        /\ req'[r].stage = req[r].stage /\ req'[r].chunked = req[r].chunked
        /\ req'[r].slot = req[r].slot /\ req'[r].row = req[r].row
        /\ req'[r].prompt = req[r].prompt
  <2> SUFFICES ASSUME NEW r \in Sampled
               PROVE  /\ req'[r] \in ReqRecord
                      /\ Len(req'[r].ids) = Len(req[r].ids) + 1
                      /\ req'[r].cached = req[r].cached /\ req'[r].device = req[r].device
                      /\ req'[r].stage = req[r].stage /\ req'[r].chunked = req[r].chunked
                      /\ req'[r].slot = req[r].slot /\ req'[r].row = req[r].row
                      /\ req'[r].prompt = req[r].prompt
    OBVIOUS
  <2>1. req[r] \in ReqRecord /\ r \in Reqs /\ next[r] \in Vocab
    BY <1>4, <1>5
  <2>2. PICK ids \in Seq(Vocab) : ids = Append(req[r].ids, next[r])
                                  /\ Len(ids) = Len(req[r].ids) + 1
    <3>1. req[r].ids \in Seq(Vocab)
      BY <2>1, ReqFields
    <3>2. /\ Append(req[r].ids, next[r]) \in Seq(Vocab)
          /\ Len(Append(req[r].ids, next[r])) = Len(req[r].ids) + 1
      BY <2>1, <3>1, AppendProperties
    <3> QED BY <3>2
  <2>3. req'[r] = [req[r] EXCEPT !.ids = ids]
    BY <1>3, <2>1, <2>2
  <2> QED BY <2>1, <2>2, <2>3 DEF ReqRecord
<1>8. req' \in [Reqs -> ReqRecord]
  BY <1>3, <1>4, <1>6, <1>7
<1>9. \A q \in Reqs : /\ req'[q].stage = req[q].stage /\ req'[q].chunked = req[q].chunked
                      /\ req'[q].cached = req[q].cached /\ req'[q].device = req[q].device
                      /\ req'[q].slot = req[q].slot /\ req'[q].prompt = req[q].prompt
                      /\ req'[q].row = req[q].row
  BY <1>6, <1>7
<1>10. Typed'
  <2>1. running' \subseteq Reqs /\ finished' \subseteq Reqs /\ IsFiniteSet(running')
    BY <1>3, <1>4, <1>5, FS_Subset
  <2> QED BY <1>1, <1>2, <1>8, <2>1 DEF Typed
<1>11. ListsOK'
  <2>1. InboxOK'
    BY <1>1, <1>2, <1>9, Members DEF ListsOK, InboxOK
  <2>2. PendingOK' /\ AdmissionOK' /\ SlotOK'
    BY <1>1, <1>2, <1>9, Members
    DEF ListsOK, PendingOK, AdmissionOK, SlotOK, Admitting, Waiting
  <2>3. \A r \in running' : req'[r].stage = "live" /\ ~ req'[r].chunked
    BY <1>1, <1>3, <1>4, <1>9 DEF ListsOK, PlacesOK
  <2>4. \A r \in finished' : req'[r].stage = "live" /\ ~ req'[r].chunked /\ r \notin running'
    <3>1. \A r \in done : req[r].stage = "live" /\ ~ req[r].chunked /\ r \in Reqs
      BY <1>1, <1>2, <1>5 DEF ListsOK, PlacesOK
    <3> QED BY <1>3, <1>4, <1>9, <3>1
  <2>5. PlacesOK'
    BY <1>1, <1>2, <1>4, <2>3, <2>4 DEF ListsOK, PlacesOK
  <2> QED BY <2>1, <2>2, <2>5 DEF ListsOK
<1>12. ReqLengths'
  <2>1. \A r \in Sampled : req'[r].cached <= Len(req'[r].ids)
    <3> SUFFICES ASSUME NEW r \in Sampled PROVE req'[r].cached <= Len(req'[r].ids)
      OBVIOUS
    <3>1. PICK k \in Nat, c \in Nat : k = Len(req[r].ids) /\ c = req[r].cached
      BY <1>4, <1>5, ReqFields
    <3>2. c <= k
      BY <1>1, <1>5, <3>1 DEF LengthsOK, ReqLengths
    <3>3. c <= k + 1
      BY <3>2
    <3> QED BY <1>7, <3>1, <3>3
  <2>2. \A r \in Reqs : /\ req'[r].cached <= Len(req'[r].ids)
                        /\ req'[r].cached <= Len(req'[r].row)
    BY <1>1, <1>6, <1>9, <2>1 DEF LengthsOK, ReqLengths
  <2>3. \A r \in Reqs : req'[r].chunked => Len(req'[r].ids) <= Len(req'[r].prompt)
    BY <1>1, <1>5, <1>6, <1>9 DEF LengthsOK, ReqLengths, InputLen
  <2> QED BY <1>1, <1>9, <2>2, <2>3 DEF LengthsOK, ReqLengths, InputLen
<1>13. DeviceLengths' /\ RowLengths'
  <2> SUFFICES ASSUME NEW r \in running' PROVE req'[r].device = Len(req'[r].ids)
    BY <1>2 DEF DeviceLengths, RowLengths
  <2>1. r \in running /\ r \in Reqs /\ ~ req[r].chunked
    BY <1>1, <1>3, <1>4 DEF ListsOK, PlacesOK
  <2>2. \A q \in InBatch : req[q].device = Len(req[q].ids) + 1
    BY <1>1, <1>2, <1>5 DEF LengthsOK, DeviceLengths
  <2>3. CASE r \in Sampled
    BY <1>5, <1>7, <2>2, <2>3
  <2>4. CASE r \notin Sampled
    <3>1. r \notin InBatch
      BY <1>5, <2>1, <2>4
    <3>2. req[r].device = Len(req[r].ids)
      BY <1>1, <1>5, <2>1, <3>1 DEF LengthsOK, DeviceLengths
    <3> QED BY <1>6, <2>1, <2>4, <3>2
  <2> QED BY <2>3, <2>4
<1> QED BY <1>10, <1>11, <1>12, <1>13 DEF IInv, LengthsOK

(* Every step of the scheduler keeps the invariant.                          *)
LEMMA NextKeepsIInv == IInv /\ [Next]_vars => IInv'
<1> SUFFICES ASSUME IInv, [Next]_vars PROVE IInv'
  OBVIOUS
<1>1. CASE UNCHANGED vars
  BY <1>1, StutterKeepsIInv
<1>2. CASE RunWhenIdle
  BY <1>2, StutterKeepsIInv DEF RunWhenIdle
<1>3. ASSUME NEW r \in Reqs, Submit(r) PROVE IInv'
  BY <1>3, SubmitKeepsIInv
<1>4. CASE Select
  BY <1>4, ProcessMsgKeepsIInv, StartStepKeepsIInv, StopAdmissionKeepsIInv,
     ContinueChunkKeepsIInv, TryAllocateKeepsIInv, AdmitWithoutSlotKeepsIInv,
     AdmitWithFreeSlotKeepsIInv, AdmitWithShedSlotKeepsIInv, StarvedKeepsIInv,
     EvictKeepsIInv DEF Select, EvictForSlot
<1>5. CASE EvictForPages
  BY <1>5, EvictKeepsIInv DEF EvictForPages
<1>6. CASE PrepareReq \/ EndPrepare \/ Forward \/ Output \/ Cleanup \/ EndStep
  BY <1>6, PrepareReqKeepsIInv, EndPrepareKeepsIInv, ForwardKeepsIInv, OutputKeepsIInv,
     CleanupKeepsIInv, EndStepKeepsIInv
<1> QED BY <1>1, <1>2, <1>3, <1>4, <1>5, <1>6 DEF Next, Step

(* The inductive invariant holds in every reachable state: the lists and the *)
(* lengths stay as the loop's parts expect them of each other, and the cache *)
(* stays a radix tree.                                                       *)
THEOREM Inductive == Spec => []IInv
BY InitIInv, NextKeepsIInv, PTL DEF Spec

-----------------------------------------------------------------------------
(* The shape of the cache, as the runs check it.                            *)

(* Where two nodes part there is a node.                                     *)
LEMMA PartingNode ==
  ASSUME NEW t, NEW V, NEW P, NEW S, IsTree(t, V, P, S), NEW m \in t.nodes, NEW n \in t.nodes
  PROVE  LongestCommonPrefix({m, n}) \in t.nodes
<1> DEFINE C == CommonPrefixes({m, n})
           g == LongestCommonPrefix({m, n})
<1>1. m \in Seq(V) /\ n \in Seq(V) /\ t.nodes \subseteq Seq(V)
  BY DEF IsTree
<1>2. /\ C \subseteq Seq(V)
      /\ \A p \in Seq(V) : p \in C <=> IsPrefix(p, m) /\ IsPrefix(p, n)
  <2>1. C = {p \in Prefixes(m) \cup Prefixes(n) : IsPrefix(p, m) /\ IsPrefix(p, n)}
    BY DEF CommonPrefixes
  <2> QED BY <1>1, <2>1, PrefixesMembers
<1>3. Root \in C
  BY <1>1, <1>2, RootIsPrefix
<1>4. \A p \in C : Len(p) <= Len(m)
  BY <1>1, <1>2, PrefixPointwise
<1>5. \E p \in C : \A q \in C : Len(q) <= Len(p)
  <2>1. Len(m) \in Nat
    BY <1>1, LenProperties
  <2> QED BY <1>2, <1>3, <1>4, <2>1, LongestExists
<1>6. g \in C /\ \A q \in C : Len(q) <= Len(g)
  BY <1>5 DEF LongestCommonPrefix
<1> HIDE DEF C, g
<1>7. PICK k \in t.nodes : IsPrefix(g, k) /\ IsPrefix(k, m) /\ IsPrefix(k, n)
  BY <1>2, <1>6 DEF IsTree, Branching
<1>8. g \in Seq(V) /\ k \in Seq(V) /\ k \in C
  BY <1>1, <1>2, <1>6, <1>7
<1>9. Len(g) = Len(k)
  <2>1. Len(g) <= Len(k) /\ Len(k) <= Len(g) /\ Len(g) \in Nat /\ Len(k) \in Nat
    BY <1>6, <1>7, <1>8, PrefixPointwise, LenProperties
  <2> QED BY <2>1
<1>10. g = k
  BY <1>7, <1>8, <1>9, PrefixSameLength
<1> QED BY <1>7, <1>10 DEF g

(* A tree in the sense of IsTree has the shape the runs check.               *)
LEMMA TreeHasShape ==
  ASSUME IsTree(tree, Vocab, Pages, Slots)
  PROVE  RadixShape
<1>1. tree.nodes \subseteq Seq(Vocab) /\ DOMAIN tree.page \subseteq Seq(Vocab)
  BY DEF IsTree
<1>2. UNION {Prefixes(n) : n \in tree.nodes} \subseteq Seq(Vocab)
  BY <1>1, PrefixesMembers
<1>3. \A p \in Seq(Vocab) :
        p \in UNION {Prefixes(n) : n \in tree.nodes} <=> \E n \in tree.nodes : IsPrefix(p, n)
  <2> SUFFICES ASSUME NEW p \in Seq(Vocab)
               PROVE  p \in UNION {Prefixes(n) : n \in tree.nodes}
                        <=> \E n \in tree.nodes : IsPrefix(p, n)
    OBVIOUS
  <2>1. p \in UNION {Prefixes(n) : n \in tree.nodes} <=> \E n \in tree.nodes : p \in Prefixes(n)
    OBVIOUS
  <2>2. \A n \in tree.nodes : p \in Prefixes(n) <=> IsPrefix(p, n)
    BY <1>1, PrefixesMembers
  <2> QED BY <2>1, <2>2
<1>4. DOMAIN tree.page = (UNION {Prefixes(n) : n \in tree.nodes}) \ {Root}
  BY <1>1, <1>2, <1>3 DEF IsTree, Closed
<1>5. \A m, n \in tree.nodes : LongestCommonPrefix({m, n}) \in tree.nodes
  BY PartingNode
<1> QED BY <1>4, <1>5 DEF RadixShape

(* Splits, inserts and evictions, in whatever order requests cause them,     *)
(* leave a radix tree: what is cached is what lies on a path to a node, and  *)
(* there is a node wherever two paths part.                                  *)
THEOREM CacheShape == Spec => []RadixShape
<1>1. IInv => RadixShape
  BY TreeHasShape DEF IInv, Typed
<1> QED BY <1>1, Inductive, PTL

(* The request in turn keeps the pages it has computed and gets new ones     *)
(* from the head of the free list.                                           *)
LEMMA PrepareFacts ==
  ASSUME IInv, PrepareReq
  PROVE  /\ pc = "alloc" /\ pc' = "alloc" /\ prepared' = prepared + 1
         /\ prepared \in Nat /\ prepared + 1 \in 1..Len(batch)
         /\ UNCHANGED <<inbox, pending, running, batch, chunked_list, finished, rows,
                        tree, freeSlots, kv, state>>
         /\ \E r \in Reqs, n \in 0..Len(freePages) : \E new :
              /\ r = batch[prepared + 1] /\ req[r].stage = "live"
              /\ n = req[r].device - req[r].cached
              /\ freePages' = SubSeq(freePages, n + 1, Len(freePages))
              /\ req' = [req EXCEPT ![r] = new]
              /\ new.row \in Seq(Pages) /\ Len(new.row) = req[r].device
              /\ \A i \in 1..req[r].cached : new.row[i] = req[r].row[i]
              /\ \A i \in 1..n : new.row[req[r].cached + i] = freePages[i]
              /\ new.stage = "live" /\ new.handle = req[r].handle
              /\ Alike(new, req[r])
<1>1. Typed /\ ListsOK /\ LengthsOK /\ req \in [Reqs -> ReqRecord] /\ freePages \in Seq(Pages)
  BY DEF IInv, Typed
<1>2. PICK b \in Nat, done \in Nat : b = Len(batch) /\ done = prepared /\ done < b
  BY <1>1, Members DEF PrepareReq, Typed
<1>3. done + 1 \in 1..b
  BY <1>2
<1>4. PICK r \in Reqs : r = batch[done + 1] /\ r = Preparing
  BY <1>1, <1>2, <1>3, Members DEF Preparing
<1>5. /\ pc = "alloc" /\ prepared' = done + 1
      /\ UNCHANGED <<inbox, pending, running, batch, chunked_list, finished, rows,
                     tree, freeSlots, kv, state, pc>>
  BY <1>2 DEF PrepareReq, lists, data
<1>51. req[r].stage = "live"
  BY <1>1, <1>2, <1>3, <1>4, <1>5 DEF ListsOK, PlacesOK
<1>6. PICK c \in Nat, d \in Nat, f \in Nat :
        /\ c = req[r].cached /\ d = req[r].device /\ f = Len(freePages)
        /\ c <= Len(req[r].row) /\ c <= d
  <2>1. /\ req[r].device = Len(req[r].ids) /\ req[r].cached <= Len(req[r].ids)
        /\ req[r].cached <= Len(req[r].row)
    BY <1>1, <1>2, <1>3, <1>4, <1>5 DEF LengthsOK, DeviceLengths, ReqLengths
  <2>2. Len(freePages) \in Nat /\ req[r].cached \in Nat /\ req[r].device \in Nat
    BY <1>1, ReqFields, LenProperties
  <2> QED BY <2>1, <2>2
<1>7. PICK n \in Nat : n = ExtendLen(r) /\ n = d - c /\ n <= f
  <2>1. ExtendLen(r) <= Len(freePages)
    BY <1>4 DEF PrepareReq
  <2>2. ExtendLen(r) = d - c /\ d - c \in Nat
    BY <1>6 DEF ExtendLen
  <2> QED BY <1>6, <2>1, <2>2
<1> DEFINE front == SubSeq(req[r].row, 1, c)
           back == SubSeq(freePages, 1, n)
           row == front \o back
<1>8. /\ front \in Seq(Pages) /\ Len(front) = c /\ \A i \in 1..c : front[i] = req[r].row[i]
      /\ back \in Seq(Pages) /\ Len(back) = n /\ \A i \in 1..n : back[i] = freePages[i]
  <2>1. req[r].row \in Seq(Pages) /\ c \in 0..Len(req[r].row) /\ n \in 0..Len(freePages)
    <3>1. req[r].row \in Seq(Pages) /\ Len(req[r].row) \in Nat
      BY <1>1, ReqFields
    <3> QED BY <1>6, <1>7, <3>1
  <2> QED BY <1>1, <2>1, FirstElements
<1>9. req' = [req EXCEPT ![r].row = row] /\ freePages' = SubSeq(freePages, n + 1, f)
  <2>1. /\ req' = [req EXCEPT ![r].row = SubSeq(req[r].row, 1, req[r].cached)
                                          \o SubSeq(freePages, 1, ExtendLen(r))]
        /\ freePages' = AfterTaking(ExtendLen(r))
    BY <1>1, <1>4 DEF PrepareReq
  <2> QED BY <1>6, <1>7, <2>1 DEF AfterTaking
<1> HIDE DEF front, back
<1>10. /\ row \in Seq(Pages) /\ Len(row) = c + n
       /\ \A i \in 1..c + n : row[i] = IF i <= c THEN front[i] ELSE back[i - c]
  BY <1>8, ConcatProperties
<1> HIDE DEF row
<1>11. /\ Len(row) = d
       /\ \A i \in 1..c : row[i] = req[r].row[i]
       /\ \A i \in 1..n : row[c + i] = freePages[i]
  <2>1. c + n = d
    <3>1. n = d - c
      BY <1>7
    <3> QED BY <3>1
  <2>2. ASSUME NEW i \in 1..c PROVE row[i] = req[r].row[i]
    <3>1. i \in 1..c + n /\ i <= c
      OBVIOUS
    <3>2. row[i] = front[i]
      BY <1>10, <3>1
    <3> QED BY <1>8, <3>2
  <2>3. ASSUME NEW i \in 1..n PROVE row[c + i] = freePages[i]
    <3>1. c + i \in 1..c + n /\ ~ c + i <= c /\ c + i - c = i
      OBVIOUS
    <3>2. row[c + i] = back[c + i - c]
      BY <1>10, <3>1
    <3> QED BY <1>8, <3>1, <3>2
  <2> QED BY <1>10, <2>1, <2>2, <2>3
<1> DEFINE made == [req[r] EXCEPT !.row = row]
<1>12. req' = [req EXCEPT ![r] = made]
  BY <1>1, <1>9
<1>13. /\ made.row = row /\ made.stage = req[r].stage /\ made.handle = req[r].handle
       /\ Alike(made, req[r])
  BY <1>1 DEF ReqRecord, Alike
<1> HIDE DEF made
<1>14. PICK new :
         /\ req' = [req EXCEPT ![r] = new]
         /\ new.row \in Seq(Pages) /\ Len(new.row) = req[r].device
         /\ \A i \in 1..req[r].cached : new.row[i] = req[r].row[i]
         /\ \A i \in 1..n : new.row[req[r].cached + i] = freePages[i]
         /\ new.stage = "live" /\ new.handle = req[r].handle
         /\ Alike(new, req[r])
  BY <1>51, <1>6, <1>10, <1>11, <1>12, <1>13
<1>15. n \in 0..Len(freePages) /\ n = req[r].device - req[r].cached
  BY <1>6, <1>7
<1>16. /\ prepared \in Nat /\ prepared + 1 \in 1..Len(batch)
       /\ r = batch[prepared + 1] /\ prepared' = prepared + 1
       /\ freePages' = SubSeq(freePages, n + 1, Len(freePages))
  BY <1>2, <1>3, <1>4, <1>5, <1>6, <1>9
<1>17. /\ pc = "alloc" /\ pc' = "alloc"
       /\ UNCHANGED <<inbox, pending, running, batch, chunked_list, finished, rows,
                      tree, freeSlots, kv, state>>
  BY <1>5
<1>18. \E q \in Reqs, m \in 0..Len(freePages) : \E x :
         /\ q = batch[prepared + 1] /\ req[q].stage = "live"
         /\ m = req[q].device - req[q].cached
         /\ freePages' = SubSeq(freePages, m + 1, Len(freePages))
         /\ req' = [req EXCEPT ![q] = x]
         /\ x.row \in Seq(Pages) /\ Len(x.row) = req[q].device
         /\ \A i \in 1..req[q].cached : x.row[i] = req[q].row[i]
         /\ \A i \in 1..m : x.row[req[q].cached + i] = freePages[i]
         /\ x.stage = "live" /\ x.handle = req[q].handle
         /\ Alike(x, req[q])
  <2> n \in 0..Len(freePages)
    BY <1>15
  <2> WITNESS r \in Reqs, n \in 0..Len(freePages)
  <2> WITNESS new
  <2>1. /\ r = batch[prepared + 1] /\ req[r].stage = "live"
        /\ n = req[r].device - req[r].cached
        /\ freePages' = SubSeq(freePages, n + 1, Len(freePages))
    BY <1>51, <1>15, <1>16
  <2> QED BY <1>14, <2>1
<1> QED BY <1>16, <1>17, <1>18

(* The model has run on the batch: the lengths of its requests move on.      *)
LEMMA ForwardFacts ==
  ASSUME IInv, Forward
  PROVE  /\ pc = "forward" /\ pc' = "output"
         /\ UNCHANGED <<inbox, pending, batch, chunked_list, finished, prepared, rows,
                        tree, freePages, freeSlots>>
         /\ InBatch = {batch[i] : i \in 1..Len(batch)} /\ InBatch \subseteq Live
         /\ \A r \in Reqs \ InBatch : req'[r] = req[r]
         /\ \A r \in InBatch :
              /\ req[r].device = Len(req[r].ids) /\ req[r].device = Len(req[r].row)
              /\ req'[r].cached = req[r].device /\ req'[r].device = req[r].device + 1
              /\ req'[r].stage = "live" /\ req'[r].chunked = req[r].chunked
              /\ req'[r].ids = req[r].ids /\ req'[r].row = req[r].row
              /\ req'[r].handle = req[r].handle /\ req'[r].slot = req[r].slot
              /\ req'[r].prompt = req[r].prompt /\ req'[r].output = req[r].output
              /\ req'[r].max_device = req[r].max_device
<1>1. Typed /\ ListsOK /\ LengthsOK /\ req \in [Reqs -> ReqRecord]
  BY DEF IInv, Typed
<1>2. /\ pc = "forward" /\ pc' = "output"
      /\ UNCHANGED <<inbox, pending, batch, chunked_list, finished, prepared, rows,
                     tree, freePages, freeSlots>>
  BY DEF Forward, adder, cache
<1>3. InBatch = {batch[i] : i \in 1..Len(batch)} /\ InBatch \subseteq Reqs
  <2>1. batch \in Seq(Reqs)
    BY <1>1 DEF Typed
  <2>2. InBatch = {batch[i] : i \in 1..Len(batch)}
    BY <2>1 DEF InBatch, Range
  <2> QED BY <1>1, <2>2, Members
<1>4. \A r \in InBatch : /\ req[r].stage = "live"
                         /\ req[r].device = Len(req[r].ids) /\ req[r].device = Len(req[r].row)
  BY <1>1, <1>2, <1>3 DEF ListsOK, PlacesOK, LengthsOK, DeviceLengths, RowLengths
<1>5. req' = [r \in Reqs |->
               IF r \in InBatch
               THEN [req[r] EXCEPT !.cached = req[r].device, !.device = req[r].device + 1]
               ELSE req[r]]
  BY <1>1, <1>3 DEF Forward
<1>6. ASSUME NEW r \in InBatch
      PROVE  /\ req'[r].cached = req[r].device /\ req'[r].device = req[r].device + 1
             /\ req'[r].stage = req[r].stage /\ req'[r].chunked = req[r].chunked
             /\ req'[r].ids = req[r].ids /\ req'[r].row = req[r].row
             /\ req'[r].handle = req[r].handle /\ req'[r].slot = req[r].slot
             /\ req'[r].prompt = req[r].prompt /\ req'[r].output = req[r].output
             /\ req'[r].max_device = req[r].max_device
  <2>1. req[r] \in ReqRecord /\ r \in Reqs
    BY <1>1, <1>3
  <2>2. PICK d, e : d = req[r].device /\ e = req[r].device + 1
    OBVIOUS
  <2>3. req'[r] = [req[r] EXCEPT !.cached = d, !.device = e]
    BY <1>5, <2>1, <2>2
  <2> QED BY <2>1, <2>2, <2>3 DEF ReqRecord
<1>7. \A r \in Reqs \ InBatch : req'[r] = req[r]
  BY <1>5
<1>8. InBatch \subseteq Live
  BY <1>3, <1>4 DEF Live
<1> QED BY <1>2, <1>3, <1>4, <1>6, <1>7, <1>8

(* Every request that is not cut short gets one token.                       *)
LEMMA OutputFacts ==
  ASSUME IInv, Output
  PROVE  /\ pc = "output" /\ pc' = "cleanup" /\ finished = {}
         /\ UNCHANGED <<inbox, pending, batch, chunked_list, prepared, rows,
                        tree, freePages, freeSlots, kv, state>>
         /\ Sampled \subseteq Live
         /\ \E next \in [Sampled -> Vocab] :
              LET done == {r \in Sampled : Finishes(r, next[r])}
              IN /\ finished' = done /\ running' = running \ done
                 /\ \A r \in Sampled : req'[r].ids = Append(req[r].ids, next[r])
         /\ \A r \in Reqs \ Sampled : req'[r] = req[r]
         /\ \A r \in Reqs :
              /\ req'[r].cached = req[r].cached /\ req'[r].device = req[r].device
              /\ req'[r].stage = req[r].stage /\ req'[r].chunked = req[r].chunked
              /\ req'[r].row = req[r].row /\ req'[r].handle = req[r].handle
              /\ req'[r].slot = req[r].slot /\ req'[r].prompt = req[r].prompt
              /\ req'[r].output = req[r].output /\ req'[r].max_device = req[r].max_device
<1>1. Typed /\ ListsOK /\ LengthsOK /\ req \in [Reqs -> ReqRecord]
  BY DEF IInv, Typed
<1>2. /\ pc = "output" /\ pc' = "cleanup"
      /\ UNCHANGED <<inbox, pending, batch, chunked_list, prepared, rows,
                     tree, freePages, freeSlots, kv, state>>
  BY DEF Output, adder, cache, data
<1>3. finished = {}
  BY <1>1, <1>2 DEF ListsOK, PlacesOK
<1>4. PICK next \in [Sampled -> Vocab] :
        LET done == {r \in Sampled : Finishes(r, next[r])}
        IN /\ req' = [r \in Reqs |->
                        IF r \in Sampled THEN [req[r] EXCEPT !.ids = Append(req[r].ids, next[r])]
                        ELSE req[r]]
           /\ finished' = done /\ running' = running \ done
  <2>1. PICK next \in [Sampled -> Vocab] :
          LET done == {r \in Sampled : Finishes(r, next[r])}
          IN /\ req' = [r \in Reqs |->
                          IF r \in Sampled THEN [req[r] EXCEPT !.ids = Append(@, next[r])]
                          ELSE req[r]]
             /\ finished' = finished \cup done /\ running' = running \ done
    BY DEF Output
  <2> QED BY <1>3, <2>1
<1>5. Sampled \subseteq Live
  <2>1. batch \in Seq(Reqs)
    BY <1>1 DEF Typed
  <2>2. InBatch = {batch[i] : i \in 1..Len(batch)}
    BY <2>1 DEF InBatch, Range
  <2>3. \A i \in 1..Len(batch) : batch[i] \in Live
    BY <1>1, <1>2, Members DEF ListsOK, PlacesOK, Live
  <2>4. InBatch \subseteq Live
    BY <2>2, <2>3
  <2> QED BY <2>4 DEF Sampled
<1>6. \A r \in Reqs \ Sampled : req'[r] = req[r]
  BY <1>4
<1>7. ASSUME NEW r \in Sampled
      PROVE  /\ req'[r].ids = Append(req[r].ids, next[r])
             /\ req'[r].cached = req[r].cached /\ req'[r].device = req[r].device
             /\ req'[r].stage = req[r].stage /\ req'[r].chunked = req[r].chunked
             /\ req'[r].row = req[r].row /\ req'[r].handle = req[r].handle
             /\ req'[r].slot = req[r].slot /\ req'[r].prompt = req[r].prompt
             /\ req'[r].output = req[r].output /\ req'[r].max_device = req[r].max_device
  <2>1. r \in Reqs /\ req[r] \in ReqRecord
    BY <1>1, <1>5 DEF Live
  <2>2. PICK ids : ids = Append(req[r].ids, next[r])
    OBVIOUS
  <2>3. req'[r] = [req[r] EXCEPT !.ids = ids]
    BY <1>4, <2>1, <2>2
  <2> QED BY <2>1, <2>2, <2>3 DEF ReqRecord
<1>8. \A r \in Reqs :
        /\ req'[r].cached = req[r].cached /\ req'[r].device = req[r].device
        /\ req'[r].stage = req[r].stage /\ req'[r].chunked = req[r].chunked
        /\ req'[r].row = req[r].row /\ req'[r].handle = req[r].handle
        /\ req'[r].slot = req[r].slot /\ req'[r].prompt = req[r].prompt
        /\ req'[r].output = req[r].output /\ req'[r].max_device = req[r].max_device
  BY <1>6, <1>7
<1> QED BY <1>2, <1>3, <1>4, <1>5, <1>6, <1>7, <1>8

(* The other steps around the run of a batch.                                *)
LEMMA PrepareTakes ==
  ASSUME IInv, PrepareReq
  PROVE  \E r, n : Takes(r, n)
<1>1. PICK r \in Reqs, n \in 0..Len(freePages) : \E new :
        /\ r = batch[prepared + 1] /\ req[r].stage = "live"
        /\ n = req[r].device - req[r].cached
        /\ freePages' = SubSeq(freePages, n + 1, Len(freePages))
        /\ req' = [req EXCEPT ![r] = new] /\ Len(new.row) = req[r].device
        /\ \A i \in 1..req[r].cached : new.row[i] = req[r].row[i]
        /\ \A i \in 1..n : new.row[req[r].cached + i] = freePages[i]
        /\ new.stage = "live" /\ new.handle = req[r].handle
        /\ Alike(new, req[r])
  BY PrepareFacts
<1>2. req[r].cached + n = req[r].device
  <2>1. req[r].cached \in Nat /\ req[r].device \in Nat
    BY ReqFields DEF IInv, Typed
  <2> QED BY <1>1, <2>1
<1>3. /\ pc = "alloc" /\ pc' = "alloc" /\ prepared' = prepared + 1
      /\ prepared \in Nat /\ prepared + 1 \in 1..Len(batch)
      /\ UNCHANGED <<inbox, pending, running, batch, chunked_list, finished, rows,
                     tree, freeSlots, kv, state>>
  BY PrepareFacts
<1> QED BY <1>1, <1>2, <1>3 DEF Takes

LEMMA OtherIdles == EndPrepare \/ UNCHANGED vars => Idles
BY IdleSteps DEF EndPrepare, Idles, lists, cache, data

LEMMA EvictForPagesEvicts == EvictForPages => Evicts
BY DEF EvictForPages, Evicts

(* What there is besides the part of the loop that the engines share.        *)
LEMMA PlainSteps ==
  ASSUME [Next]_vars
  PROVE  \/ CoreStep \/ PrepareReq \/ EndPrepare \/ EvictForPages \/ Forward \/ Output
         \/ UNCHANGED vars
BY DEF Next, Step, CoreStep

(* The run of a batch and what comes of it move no slot and lock nothing.    *)
LEMMA BatchSame ==
  ASSUME IInv, Forward \/ Output
  PROVE  /\ pc # "slot" /\ pc' # "slot" /\ tree' = tree /\ freeSlots' = freeSlots
         /\ freePages' = freePages /\ Live' = Live /\ Live \subseteq Reqs
         /\ \A r \in Reqs : /\ req'[r].slot = req[r].slot /\ req'[r].row = req[r].row
                            /\ req'[r].handle = req[r].handle
<1>1. CASE Forward
  <2>1. \A r \in InBatch : r \in Live /\ r \in Reqs
    BY <1>1, ForwardFacts DEF Live
  <2>2. \A r \in Reqs : /\ req'[r].slot = req[r].slot /\ req'[r].row = req[r].row
                        /\ req'[r].handle = req[r].handle
                        /\ req'[r].stage = "live" <=> req[r].stage = "live"
    BY <1>1, <2>1, ForwardFacts DEF Live
  <2>3. Live' = Live /\ Live \subseteq Reqs
    BY <2>2 DEF Live
  <2> QED BY <1>1, <2>2, <2>3, ForwardFacts
<1>2. CASE Output
  <2>1. Live' = Live /\ Live \subseteq Reqs
    BY <1>2, OutputFacts DEF Live
  <2> QED BY <1>2, <2>1, OutputFacts
<1> QED BY <1>1, <1>2

(* Every step of the scheduler keeps the ownership of the slots.             *)
LEMMA NextKeepsSlots == IInv /\ SlotOwnership /\ [Next]_vars => SlotOwnership'
<1> SUFFICES ASSUME IInv, SlotOwnership, [Next]_vars PROVE SlotOwnership'
  OBVIOUS
<1>1. CASE PrepareReq
  BY <1>1, PrepareTakes, InvSettled, TakeSlots
<1>2. CASE Forward \/ Output
  BY <1>2, BatchSame, NoSlotMoves
<1>3. CASE EndPrepare \/ UNCHANGED vars
  BY <1>3, OtherIdles, IdleSlots
<1>4. CASE EvictForPages
  BY <1>4, EvictForPagesEvicts, InvSettled, EvictSlots
<1> QED BY <1>1, <1>2, <1>3, <1>4, CoreSlots, PlainSteps

(* MambaStatePool.check_ownership never fails: in every reachable state each *)
(* slot is in the free list, on one node of the prefix cache, or with one    *)
(* request, and in no two of these places.                                   *)
THEOREM SlotsOwned == Spec => []SlotOwnership
BY InitSlots, NextKeepsSlots, Inductive, PTL DEF Spec

(* What happens to a batch locks nothing.                                    *)
LEMMA BatchLocks ==
  ASSUME IInv, LocksInv, Forward \/ Output
  PROVE  LocksInv'
<1>1. /\ pc # "slot" /\ pc' # "slot" /\ tree' = tree /\ Live' = Live /\ Live \subseteq Reqs
      /\ \A r \in Reqs : req'[r].handle = req[r].handle
  BY BatchSame
<1>2. Locked = Live /\ Locked' = Locked
  BY <1>1 DEF Locked
<1> QED BY <1>1, <1>2, InvSettled, LocksStay

(* Every step of the scheduler keeps the count of the locks.                 *)
LEMMA NextKeepsLocks == IInv /\ LocksInv /\ [Next]_vars => LocksInv'
<1> SUFFICES ASSUME IInv, LocksInv, [Next]_vars PROVE LocksInv'
  OBVIOUS
<1>1. CASE PrepareReq
  BY <1>1, PrepareTakes, InvSettled, TakeLocks
<1>2. CASE Forward \/ Output
  BY <1>2, BatchLocks
<1>3. CASE EndPrepare \/ UNCHANGED vars
  BY <1>3, OtherIdles, InvSettled, IdleLocks
<1>4. CASE EvictForPages
  BY <1>4, EvictForPagesEvicts, InvSettled, EvictLocks
<1> QED BY <1>1, <1>2, <1>3, <1>4, CoreLocks, PlainSteps

LEMMA AlwaysLocks == Spec => []LocksInv
BY InitLocks, NextKeepsLocks, Inductive, PTL DEF Spec

(* check_integrity's account of the locks, in every reachable state: the     *)
(* ref_count of a node is the number of requests whose handle is at or below *)
(* it, so that nothing a request relies on is evicted and nothing stays      *)
(* locked once its requests are over.                                        *)
THEOREM LocksCounted == Spec => []RefCountsExact
<1>1. ASSUME IInv, LocksInv PROVE RefCountsExact
  <2>1. \A n : {r \in Locked : IsPrefix(n, Handles[r])}
               = {r \in Locked : IsPrefix(n, req[r].handle)}
    BY <1>1, LockedReqs, InvSettled DEF Handles
  <2> QED BY <1>1, <2>1 DEF RefCountsExact, LocksInv, CountsLocks
<1> QED BY <1>1, AlwaysLocks, Inductive, PTL

(* What the run of a batch makes of it.                                      *)
LEMMA BatchHandles ==
  ASSUME IInv, HandlesFit, Forward \/ Output
  PROVE  HandlesFit'
<1>1. req \in [Reqs -> ReqRecord] /\ ReqLengths
  BY DEF IInv, Typed, LengthsOK
<1>3. CASE Forward
  <2>1. ASSUME NEW r \in InBatch PROVE HandleFits(req'[r])
    <3>1. /\ r \in Live /\ r \in Reqs /\ req[r].device = Len(req[r].ids)
          /\ req'[r].cached = req[r].device /\ req'[r].ids = req[r].ids
          /\ req'[r].handle = req[r].handle /\ req'[r].chunked = req[r].chunked
          /\ req'[r].prompt = req[r].prompt
      BY <1>3, <2>1, ForwardFacts DEF Live
    <3>2. HandleFits(req[r])
      BY <3>1 DEF HandlesFit
    <3>3. Len(req[r].handle) <= Len(req[r].ids)
      BY <1>1, <3>1, <3>2, ReqFields, PrefixPointwise DEF HandleFits
    <3> QED BY <3>1, <3>2, <3>3 DEF HandleFits
  <2>2. pc' # "slot" /\ \A q \in Live' \ InBatch : q \in Live /\ req'[q] = req[q]
    BY <1>3, ForwardFacts DEF Live
  <2> QED BY <2>1, <2>2 DEF HandlesFit, HandleFits
<1>4. CASE Output
  <2>1. /\ pc' # "slot" /\ Sampled \subseteq Live
        /\ \A r \in Reqs \ Sampled : req'[r] = req[r]
    BY <1>4, OutputFacts
  <2>2. PICK next \in [Sampled -> Vocab] :
          \A r \in Sampled : req'[r].ids = Append(req[r].ids, next[r])
    BY <1>4, OutputFacts
  <2>3. \A r \in Reqs :
          /\ req'[r].cached = req[r].cached /\ req'[r].stage = req[r].stage
          /\ req'[r].chunked = req[r].chunked /\ req'[r].handle = req[r].handle
    BY <1>4, OutputFacts
  <2>4. ASSUME NEW r \in Sampled PROVE HandleFits(req'[r])
    <3>1. r \in Reqs /\ ~ req[r].chunked /\ HandleFits(req[r])
      BY <2>1 DEF Sampled, Live, HandlesFit
    <3>2. PICK ids \in Seq(Vocab), h \in Seq(Vocab), v \in Vocab :
            ids = req[r].ids /\ h = req[r].handle /\ v = next[r]
      BY <1>1, <3>1, ReqFields
    <3>3. IsPrefix(h, Append(ids, v))
      BY <3>1, <3>2, PrefixOfLonger DEF HandleFits
    <3> QED BY <2>2, <2>3, <3>1, <3>2, <3>3 DEF HandleFits
  <2>5. \A q \in Live' \ Sampled : q \in Live /\ req'[q] = req[q]
    BY <2>1, <2>3 DEF Live
  <2> QED BY <2>1, <2>4, <2>5 DEF HandlesFit, HandleFits
<1> QED BY <1>3, <1>4

LEMMA NextKeepsHandles == IInv /\ HandlesFit /\ [Next]_vars => HandlesFit'
<1> SUFFICES ASSUME IInv, HandlesFit, [Next]_vars PROVE HandlesFit'
  OBVIOUS
<1>1. CASE PrepareReq
  BY <1>1, PrepareTakes, InvSettled, TakeHandles
<1>2. CASE Forward \/ Output
  BY <1>2, BatchHandles
<1>3. CASE EndPrepare \/ UNCHANGED vars
  BY <1>3, OtherIdles, IdleHandles
<1>4. CASE EvictForPages
  BY <1>4, EvictForPagesEvicts, EvictHandles
<1> QED BY <1>1, <1>2, <1>3, <1>4, CoreHandles, PlainSteps

LEMMA AlwaysHandles == Spec => []HandlesFit
BY InitHandles, NextKeepsHandles, Inductive, PTL DEF Spec

LEMMA BatchPinned ==
  ASSUME IInv, Pinned, Forward \/ Output
  PROVE  Pinned'
<1>1. /\ pc # "slot" /\ pc' # "slot" /\ tree' = tree /\ Live' = Live /\ Live \subseteq Reqs
      /\ \A r \in Reqs : req'[r].handle = req[r].handle /\ req'[r].row = req[r].row
  BY BatchSame
<1>2. Locked = Live /\ Locked' = Locked
  BY <1>1 DEF Locked
<1> QED BY <1>1, <1>2, PinnedStay

LEMMA NextKeepsPinned ==
  ASSUME IInv, LocksInv, HandlesFit, Pinned, [Next]_vars, [RowAssigned]_vars
  PROVE  Pinned'
<1>0. RowAssigned
  BY DEF RowAssigned, vars
<1>1. CASE PrepareReq
  BY <1>1, PrepareTakes, InvSettled, TakePinned
<1>2. CASE Forward \/ Output
  BY <1>2, BatchPinned
<1>3. CASE EndPrepare \/ UNCHANGED vars
  BY <1>3, OtherIdles, IdlePinned
<1>4. CASE EvictForPages
  BY <1>4, EvictForPagesEvicts, InvSettled, EvictPinned
<1> QED BY <1>0, <1>1, <1>2, <1>3, <1>4, CorePinned, PlainSteps

LEMMA AlwaysPinned == Spec /\ [][RowAssigned]_vars => []Pinned
<1>1. Init => Pinned
  BY InitPinned
<1>2. /\ IInv /\ LocksInv /\ HandlesFit /\ Pinned
      /\ [Next]_vars /\ [RowAssigned]_vars
      => Pinned'
  BY NextKeepsPinned
<1> QED BY <1>1, <1>2, AlwaysLocks, AlwaysHandles, Inductive, PTL DEF Spec

(* Whatever slices are: without a cache no prefix is found, so no row is     *)
(* there to be assigned.                                                     *)
LEMMA AlwaysAssigned ==
  ASSUME SliceIsView \/ CacheType = "naive"
  PROVE  Spec => [][RowAssigned]_vars
<1>1. IInv /\ [Next]_vars => [RowAssigned]_vars
  <2> SUFFICES ASSUME IInv, [Next]_vars, pc = "admit", pc' = "slot" PROVE RowAssigned
    BY DEF RowAssigned
  <2>1. ~ (PrepareReq \/ EndPrepare \/ EvictForPages \/ Forward \/ Output \/ UNCHANGED vars)
    BY DEF PrepareReq, EndPrepare, EvictForPages, Forward, Output, vars
  <2> QED BY <2>1, PlainSteps, CoreAssigns
<1> QED BY <1>1, Inductive, PTL DEF Spec

(* What needs no word about slices: the cache does not let go of what a      *)
(* request has locked.                                                       *)
HandleCached ==
  \A r \in Locked :
    /\ req[r].handle \in tree.nodes /\ tree.ref[req[r].handle] > 0
    /\ \A i \in 1..Len(req[r].handle) : SubSeq(req[r].handle, 1, i) \in DOMAIN tree.page

(* The handle of a request stays a locked node of the tree, and its tokens   *)
(* stay cached, whatever is split, evicted or inserted while it is held.     *)
THEOREM HandlesCached == Spec => []HandleCached
<1>1. ASSUME IInv, LocksInv PROVE HandleCached
  <2> SUFFICES ASSUME NEW r \in Locked
               PROVE  /\ req[r].handle \in tree.nodes /\ tree.ref[req[r].handle] > 0
                      /\ \A i \in 1..Len(req[r].handle) : SubSeq(req[r].handle, 1, i) \in DOMAIN tree.page
    BY DEF HandleCached
  <2> DEFINE h == req[r].handle
  <2>1. r \in Reqs /\ h \in tree.nodes /\ IsFiniteSet(Locked)
    BY <1>1, LockedReqs, InvSettled DEF LocksInv, CountsLocks, Handles
  <2>2. h \in Seq(Vocab) /\ tree.nodes \subseteq Seq(Vocab) /\ Closed(tree, Vocab)
    BY <1>1, <2>1 DEF IInv, Typed, IsTree
  <2> HIDE DEF h
  <2>3. tree.ref[h] > 0
    <3> DEFINE users == {q \in Locked : IsPrefix(h, Handles[q])}
    <3>1. r \in users
      BY <2>1, <2>2, PrefixPointwise DEF Handles, h
    <3>2. IsFiniteSet(users)
      BY <2>1, FS_Subset
    <3>3. tree.ref[h] = IF h = Root THEN 1 ELSE Cardinality(users)
      BY <1>1, <2>1 DEF LocksInv, CountsLocks
    <3> HIDE DEF users
    <3>4. Cardinality(users) \in Nat /\ Cardinality(users) # 0
      BY <3>1, <3>2, FS_CardinalityType, FS_EmptySet
    <3> QED BY <3>3, <3>4
  <2>4. ASSUME NEW i \in 1..Len(h) PROVE SubSeq(h, 1, i) \in DOMAIN tree.page
    <3>0. i \in 0..Len(h) /\ i # 0
      BY <2>2, LenProperties
    <3>1. SubSeq(h, 1, i) \in Seq(Vocab) /\ Len(SubSeq(h, 1, i)) = i /\ i # 0
      BY <2>2, <3>0, FirstElements
    <3>2. IsPrefix(SubSeq(h, 1, i), h)
      BY <2>2, <3>0, SubSeqIsPrefix
    <3>3. SubSeq(h, 1, i) # Root
      BY <3>1 DEF Root
    <3> QED BY <2>1, <2>2, <3>1, <3>2, <3>3 DEF Closed
  <2> QED BY <2>1, <2>3, <2>4 DEF h
<1> QED BY <1>1, AlwaysLocks, Inductive, PTL

(* What match_prefix returned stays good for as long as the request holds    *)
(* its lock, whatever is split, evicted or inserted meanwhile: the handle is *)
(* in the tree, and its tokens are cached in the very pages that the row had *)
(* when the request was admitted.                                            *)
THEOREM HandlesPinned == Spec /\ [][RowAssigned]_vars => []HandlePinned
<1>1. ASSUME IInv, LocksInv, Pinned PROVE HandlePinned
  <2>1. \A r \in Locked : req[r].handle \in tree.nodes
    BY <1>1, LockedReqs, InvSettled DEF LocksInv, CountsLocks, Handles
  <2> QED BY <1>1, <2>1 DEF HandlePinned, Pinned, Points
<1> QED BY <1>1, AlwaysPinned, AlwaysLocks, Inductive, PTL

-----------------------------------------------------------------------------
(* The edges of a tree.                                                     *)

Inner(t) == t.nodes \ {Root}

(* m is the node above n.                                                    *)
Above(t, m, n) ==
  /\ m \in t.nodes /\ IsStrictPrefix(m, n)
  /\ \A k \in t.nodes : IsStrictPrefix(k, n) => Len(k) <= Len(m)

LEMMA ParentIs ==
  ASSUME NEW t, NEW V, t.nodes \subseteq Seq(V), NEW n \in Seq(V), NEW m, Above(t, m, n)
  PROVE  Parent(t, n) = m /\ Length(t, n) = Len(n) - Len(m)
<1>1. Above(t, Parent(t, n), n)
  BY DEF Parent, Above
<1> DEFINE k == Parent(t, n)
<1>2. k \in t.nodes /\ Above(t, k, n)
  BY <1>1 DEF Above
<1>3. Length(t, n) = Len(n) - Len(k)
  BY DEF Length
<1> HIDE DEF k
<1>4. /\ k \in Seq(V) /\ m \in Seq(V) /\ Len(k) <= Len(m) /\ Len(m) <= Len(k)
      /\ IsPrefix(k, n) /\ IsPrefix(m, n) /\ Len(k) \in Nat /\ Len(m) \in Nat
  BY <1>2, LenProperties DEF Above, IsStrictPrefix
<1>5. IsPrefix(k, m) /\ Len(k) = Len(m)
  BY <1>4, PrefixesNested
<1>6. k = m
  BY <1>4, <1>5, PrefixSameLength
<1> QED BY <1>3, <1>6 DEF k

LEMMA LengthFacts ==
  ASSUME NEW t, NEW V, NEW P, NEW S, IsTree(t, V, P, S), NEW n \in Inner(t)
  PROVE  /\ Above(t, Parent(t, n), n)
         /\ Len(n) \in Nat /\ Len(Parent(t, n)) \in Nat
         /\ Length(t, n) = Len(n) - Len(Parent(t, n))
         /\ Length(t, n) \in Nat \ {0}
<1> DEFINE T == {m \in t.nodes : IsStrictPrefix(m, n)}
<1>1. t.nodes \subseteq Seq(V) /\ Root \in t.nodes /\ n \in t.nodes /\ n # Root /\ n \in Seq(V)
  BY DEF IsTree, Inner
<1>2. Len(n) \in Nat /\ IsPrefix(n, n) /\ IsPrefix(Root, n)
  BY <1>1, LenProperties, RootIsPrefix
<1>3. T # {} /\ T \subseteq Seq(V) /\ \A m \in T : Len(m) <= Len(n)
  BY <1>1, <1>2 DEF IsStrictPrefix, IsPrefix
<1>4. \E m \in T : \A k \in T : Len(k) <= Len(m)
  <2> HIDE DEF T
  <2> QED BY <1>2, <1>3, LongestExists
<1>5. \E m \in t.nodes : /\ IsStrictPrefix(m, n)
                         /\ \A k \in t.nodes : IsStrictPrefix(k, n) => Len(k) <= Len(m)
  BY <1>4
<1>6. Above(t, Parent(t, n), n)
  BY <1>5 DEF Parent, Above
<1> DEFINE m == Parent(t, n)
<1>7. Length(t, n) = Len(n) - Len(m) /\ Above(t, m, n)
  BY <1>6 DEF Length
<1> HIDE DEF m
<1>8. m \in Seq(V) /\ Len(m) \in Nat /\ IsPrefix(m, n) /\ m # n
  BY <1>1, <1>7, LenProperties DEF Above, IsStrictPrefix
<1>9. Len(m) <= Len(n) /\ Len(m) # Len(n)
  BY <1>1, <1>8, PrefixSameLength DEF IsPrefix
<1> QED BY <1>2, <1>6, <1>7, <1>8, <1>9 DEF m

(* The lengths of any nodes but the root can be summed up.                   *)
LEMMA LengthsWeigh ==
  ASSUME NEW t, NEW V, NEW P, NEW S, IsTree(t, V, P, S), NEW N, N \subseteq Inner(t), IsFiniteSet(N)
  PROVE  Weights([n \in N |-> Length(t, n)]) /\ TotalLength(t, N) \in Nat
<1> DEFINE f == [n \in N |-> Length(t, n)]
<1>1. Weights(f)
  BY LengthFacts DEF Weights
<1> HIDE DEF f
<1>2. Total(f) \in Nat
  BY <1>1, TotalFinite
<1> QED BY <1>1, <1>2 DEF TotalLength, f

LEMMA LengthsUnion ==
  ASSUME NEW t, NEW V, NEW P, NEW S, IsTree(t, V, P, S), NEW M, NEW N,
         M \subseteq Inner(t), N \subseteq Inner(t), IsFiniteSet(M), IsFiniteSet(N), M \cap N = {}
  PROVE  TotalLength(t, M \cup N) = TotalLength(t, M) + TotalLength(t, N)
<1> DEFINE f == [n \in M |-> Length(t, n)]
           g == [n \in N |-> Length(t, n)]
           h == [n \in M \cup N |-> Length(t, n)]
<1>1. Weights(f) /\ Weights(g)
  BY LengthsWeigh
<1>2. /\ DOMAIN h = DOMAIN f \cup DOMAIN g /\ DOMAIN f \cap DOMAIN g = {}
      /\ \A x \in DOMAIN f : h[x] = f[x]
      /\ \A x \in DOMAIN g : h[x] = g[x]
  OBVIOUS
<1> HIDE DEF f, g, h
<1>3. Total(h) = Total(f) + Total(g)
  BY <1>1, <1>2, TotalUnion
<1> QED BY <1>3 DEF TotalLength, f, g, h

LEMMA LengthsOne ==
  ASSUME NEW t, NEW V, NEW P, NEW S, IsTree(t, V, P, S), NEW n \in Inner(t)
  PROVE  TotalLength(t, {n}) = Length(t, n)
<1> DEFINE f == [m \in {n} |-> Length(t, m)]
<1>1. DOMAIN f = {n} /\ f[n] = Length(t, n) /\ f[n] \in Nat
  BY LengthFacts
<1> HIDE DEF f
<1>2. Total(f) = Length(t, n)
  BY <1>1, TotalOne
<1> QED BY <1>2 DEF TotalLength, f

LEMMA LengthsSame ==
  ASSUME NEW t, NEW u, NEW N, \A n \in N : Length(t, n) = Length(u, n)
  PROVE  TotalLength(t, N) = TotalLength(u, N)
<1>1. [n \in N |-> Length(t, n)] = [n \in N |-> Length(u, n)]
  OBVIOUS
<1> QED BY <1>1 DEF TotalLength

(* The edges on the way to h are parts of it, and no two of them overlap.    *)
LEMMA LengthsOnPath ==
  ASSUME NEW t, NEW V, NEW P, NEW S, IsTree(t, V, P, S), NEW N, N \subseteq Inner(t),
         IsFiniteSet(N), NEW h \in Seq(V), \A n \in N : IsPrefix(n, h)
  PROVE  TotalLength(t, N) <= Len(h)
<1> DEFINE f == [n \in N |-> Length(t, n)]
           start(n) == Len(Parent(t, n))
           g == [u \in Units(f) |-> start(u[1]) + u[2]]
<1>1. Weights(f) /\ TotalLength(t, N) = Total(f) /\ Len(h) \in Nat
  BY LengthsWeigh, LenProperties DEF TotalLength
<1>2. ASSUME NEW n \in N
      PROVE  /\ n \in Seq(V) /\ Len(n) \in Nat /\ start(n) \in Nat /\ Len(n) <= Len(h)
             /\ f[n] = Len(n) - start(n) /\ Above(t, Parent(t, n), n)
  <2>1. n \in t.nodes /\ n \in Seq(V)
    BY DEF Inner, IsTree
  <2>2. Len(n) <= Len(h)
    BY <2>1, PrefixPointwise
  <2> QED BY <2>1, <2>2, LengthFacts
<1>3. ASSUME NEW u \in Units(f)
      PROVE  \E n \in N : \E i \in Nat :
               u = <<n, i>> /\ 1 <= i /\ start(n) + i <= Len(n) /\ g[u] = start(n) + i
  <2>1. PICK n \in N : \E i \in 1..f[n] : u = <<n, i>>
    BY UnitsMembers
  <2>2. PICK i \in 1..f[n] : u = <<n, i>>
    BY <2>1
  <2>3. g[u] = start(n) + i
    BY <2>2
  <2>4. PICK l \in Nat, e \in Nat : l = Len(n) /\ e = start(n) /\ f[n] = l - e
    BY <1>2
  <2>5. i \in Nat /\ 1 <= i /\ e + i <= l
    BY <2>4
  <2> QED BY <2>2, <2>3, <2>4, <2>5
<1> HIDE DEF f, g, start
<1>4. ASSUME NEW n \in N, NEW m \in N, n # m, Len(n) <= Len(m)
      PROVE  Len(n) <= start(m)
  <2>1. IsPrefix(n, m)
    BY <1>2, <1>4, PrefixesNested
  <2>2. n \in t.nodes /\ IsStrictPrefix(n, m)
    BY <1>4, <2>1 DEF Inner, IsStrictPrefix
  <2> QED BY <1>2, <2>2 DEF Above, start
<1>5. ASSUME NEW u \in Units(f), NEW v \in Units(f), g[u] = g[v] PROVE u = v
  <2>1. PICK n \in N, i \in Nat : u = <<n, i>> /\ 1 <= i /\ start(n) + i <= Len(n) /\ g[u] = start(n) + i
    BY <1>3
  <2>2. PICK m \in N, j \in Nat : v = <<m, j>> /\ 1 <= j /\ start(m) + j <= Len(m) /\ g[v] = start(m) + j
    BY <1>3
  <2>3. PICK a \in Nat, b \in Nat, c \in Nat, d \in Nat :
          a = start(n) /\ b = start(m) /\ c = Len(n) /\ d = Len(m)
    BY <1>2
  <2>4. /\ a + i <= c /\ b + j <= d /\ a + i = b + j
        /\ n # m /\ c <= d => c <= b
        /\ n # m /\ d <= c => d <= a
    BY <1>4, <1>5, <2>1, <2>2, <2>3
  <2>5. n = m
    BY <2>1, <2>2, <2>3, <2>4
  <2>6. a = b /\ i = j
    BY <2>3, <2>4, <2>5
  <2> QED BY <2>1, <2>2, <2>5, <2>6
<1>6. g \in Injection(Units(f), 1..Len(h))
  <2>1. ASSUME NEW u \in Units(f) PROVE g[u] \in 1..Len(h)
    <3>1. PICK n \in N, i \in Nat : 1 <= i /\ start(n) + i <= Len(n) /\ g[u] = start(n) + i
      BY <1>3
    <3>2. PICK a \in Nat, c \in Nat, d \in Nat : a = start(n) /\ c = Len(n) /\ d = Len(h) /\ c <= d
      BY <1>1, <1>2
    <3>3. a + i \in 1..d
      BY <3>1, <3>2
    <3> QED BY <3>1, <3>2, <3>3
  <2>2. g = [u \in Units(f) |-> g[u]]
    BY DEF g
  <2>3. g \in [Units(f) -> 1..Len(h)]
    BY <2>1, <2>2
  <2> QED BY <1>5, <2>3 DEF Injection, IsInjective
<1>7. Cardinality(Units(f)) <= Cardinality(1..Len(h)) /\ Cardinality(1..Len(h)) = Len(h)
  <2>1. IsFiniteSet(1..Len(h)) /\ Cardinality(1..Len(h)) = Len(h)
    BY <1>1, FS_Interval
  <2> QED BY <1>6, <2>1, FS_Injection
<1>8. Total(f) = Cardinality(Units(f))
  BY <1>1, TotalFinite
<1> QED BY <1>1, <1>7, <1>8

(* Only the nodes of a tree say how long its edges are.                      *)
LEMMA SameNodes ==
  ASSUME NEW t, NEW u, u.nodes = t.nodes
  PROVE  /\ \A n : Length(u, n) = Length(t, n)
         /\ \A N : TotalLength(u, N) = TotalLength(t, N)
<1>1. \A n : Length(u, n) = Length(t, n)
  BY DEF Length, Parent
<1>2. \A N : TotalLength(u, N) = TotalLength(t, N)
  BY <1>1, LengthsSame
<1> QED BY <1>1, <1>2

-----------------------------------------------------------------------------
(* The two counters of a tree.                                              *)

Open(t) == {n \in Inner(t) : t.ref[n] = 0}

Held(t) == {n \in Inner(t) : t.ref[n] > 0}

Counted(t) ==
  /\ IsFiniteSet(t.nodes)
  /\ \A n \in t.nodes : t.ref[n] \in Nat
  /\ t.evictable = TotalLength(t, Open(t))
  /\ t.protected = TotalLength(t, Held(t))

LEMMA CountedFacts ==
  ASSUME NEW t, NEW V, NEW P, NEW S, IsTree(t, V, P, S), Counted(t)
  PROVE  /\ IsFiniteSet(Open(t)) /\ Open(t) \subseteq Inner(t)
         /\ IsFiniteSet(Held(t)) /\ Held(t) \subseteq Inner(t)
         /\ Open(t) \cap Held(t) = {} /\ Open(t) \cup Held(t) = Inner(t)
         /\ t.evictable \in Nat /\ t.protected \in Nat
<1>1. /\ Open(t) \subseteq Inner(t) /\ Held(t) \subseteq Inner(t)
      /\ Open(t) \cap Held(t) = {} /\ Open(t) \cup Held(t) = Inner(t)
  BY DEF Open, Held, Counted, Inner
<1>2. IsFiniteSet(Open(t)) /\ IsFiniteSet(Held(t))
  BY <1>1, FS_Subset DEF Inner, Counted
<1>3. t.evictable \in Nat /\ t.protected \in Nat
  BY <1>1, <1>2, LengthsWeigh DEF Counted
<1> QED BY <1>1, <1>2, <1>3

(* Splitting an edge moves no other, and its halves make up the whole.       *)
LEMMA SplitLengths ==
  ASSUME NEW t, NEW V, NEW P, NEW S, IsTree(t, V, P, S),
         NEW p \in Seq(V), p \notin t.nodes,
         NEW b \in t.nodes, IsStrictPrefix(p, b),
         \A m \in t.nodes : IsStrictPrefix(p, m) => Len(b) <= Len(m),
         NEW u, u.nodes = t.nodes \cup {p}
  PROVE  /\ b # Root
         /\ \A n \in Inner(t) \ {b} : Length(u, n) = Length(t, n)
         /\ Length(u, p) + Length(u, b) = Length(t, b)
<1>1. /\ t.nodes \subseteq Seq(V) /\ Root \in t.nodes /\ b \in Seq(V)
      /\ u.nodes \subseteq Seq(V) /\ p # Root
  BY DEF IsTree
<1>2. \A s \in Seq(V) : Len(s) \in Nat
  BY LenProperties
<1>3. IsPrefix(p, b) /\ p # b /\ Len(p) < Len(b)
  <2>1. IsPrefix(p, b) /\ p # b
    BY DEF IsStrictPrefix
  <2>2. Len(p) <= Len(b)
    BY <1>1, <2>1, PrefixPointwise
  <2> QED BY <1>1, <1>2, <2>1, <2>2, PrefixSameLength
<1>4. b # Root
  <2>1. Len(Root) = 0
    BY EmptySeq DEF Root
  <2> QED BY <1>2, <1>3, <2>1
<1>5. \A k, n \in Seq(V) : IsStrictPrefix(k, n) => IsPrefix(k, n) /\ Len(k) < Len(n)
  <2> SUFFICES ASSUME NEW k \in Seq(V), NEW n \in Seq(V), IsStrictPrefix(k, n)
               PROVE  IsPrefix(k, n) /\ Len(k) < Len(n)
    OBVIOUS
  <2>1. IsPrefix(k, n) /\ k # n
    BY DEF IsStrictPrefix
  <2>2. Len(k) <= Len(n) /\ Len(k) # Len(n)
    BY <2>1, PrefixPointwise, PrefixSameLength
  <2> QED BY <1>2, <2>1, <2>2

(* A node above b is above p, or p itself. *)
<1>6. ASSUME NEW k \in t.nodes, IsStrictPrefix(k, b) PROVE Len(k) <= Len(p) /\ IsPrefix(k, p)
  <2>1. k \in Seq(V) /\ IsPrefix(k, b) /\ Len(k) < Len(b)
    BY <1>1, <1>5, <1>6
  <2>2. Len(k) <= Len(p)
    <3> SUFFICES ASSUME ~ Len(k) <= Len(p) PROVE FALSE
      OBVIOUS
    <3>1. IsPrefix(p, k)
      BY <1>1, <1>2, <1>3, <2>1, PrefixesNested
    <3>2. IsStrictPrefix(p, k)
      BY <3>1 DEF IsStrictPrefix
    <3> QED BY <1>1, <1>2, <2>1, <3>2
  <2> QED BY <1>1, <1>3, <2>1, <2>2, PrefixesNested

(* A node below p is b, or below b. *)
<1>7. ASSUME NEW n \in t.nodes, IsStrictPrefix(p, n) PROVE IsPrefix(b, n)
  <2>1. IsPrefix(p, n) /\ n \in Seq(V)
    BY <1>1, <1>7 DEF IsStrictPrefix
  <2>2. PICK k \in t.nodes : IsPrefix(p, k) /\ IsPrefix(k, b) /\ IsPrefix(k, n)
    BY <1>3, <2>1 DEF IsTree, Branching
  <2>3. IsStrictPrefix(p, k) /\ k \in Seq(V)
    BY <1>1, <2>2 DEF IsStrictPrefix
  <2>4. Len(b) <= Len(k) /\ Len(k) <= Len(b)
    BY <1>1, <2>2, <2>3, PrefixPointwise
  <2>5. k = b
    BY <1>1, <1>2, <2>2, <2>3, <2>4, PrefixSameLength
  <2> QED BY <2>2, <2>5
<1>8. ASSUME NEW n \in Inner(t) \ {b} PROVE Length(u, n) = Length(t, n)
  <2>1. PICK m \in t.nodes : Above(t, m, n) /\ Length(t, n) = Len(n) - Len(m)
    BY LengthFacts DEF Above
  <2>2. n \in t.nodes /\ n \in Seq(V)
    BY <1>1 DEF Inner
  <2>3. ASSUME IsStrictPrefix(p, n) PROVE Len(p) <= Len(m)
    <3>1. IsStrictPrefix(b, n)
      BY <1>7, <2>2, <2>3 DEF IsStrictPrefix
    <3>2. Len(b) <= Len(m)
      BY <2>1, <3>1 DEF Above
    <3> QED BY <1>1, <1>2, <1>3, <2>1, <3>2
  <2>4. Above(u, m, n)
    BY <2>1, <2>3 DEF Above
  <2> QED BY <1>1, <2>1, <2>2, <2>4, ParentIs
<1>9. Length(u, p) + Length(u, b) = Length(t, b)
  <2>1. PICK m \in t.nodes : Above(t, m, b) /\ Length(t, b) = Len(b) - Len(m)
    <3>1. b \in Inner(t)
      BY <1>4 DEF Inner
    <3> QED BY <3>1, LengthFacts DEF Above
  <2>2. Above(u, p, b)
    BY <1>2, <1>6 DEF Above
  <2>3. Length(u, b) = Len(b) - Len(p)
    BY <1>1, <2>2, ParentIs
  <2>4. IsPrefix(m, p) /\ IsStrictPrefix(m, p)
    <3>1. IsStrictPrefix(m, b)
      BY <2>1 DEF Above
    <3> QED BY <1>6, <3>1 DEF IsStrictPrefix
  <2>5. ASSUME NEW k \in u.nodes, IsStrictPrefix(k, p) PROVE Len(k) <= Len(m)
    <3>1. k \in t.nodes /\ k \in Seq(V) /\ IsPrefix(k, p) /\ Len(k) < Len(p)
      BY <1>1, <1>5, <2>5 DEF IsStrictPrefix
    <3>2. IsPrefix(k, b) /\ k # b
      BY <1>1, <1>2, <1>3, <3>1, PrefixTransitive
    <3>3. IsStrictPrefix(k, b)
      BY <3>2 DEF IsStrictPrefix
    <3> QED BY <2>1, <3>1, <3>3 DEF Above
  <2>6. Above(u, m, p)
    BY <2>1, <2>4, <2>5 DEF Above
  <2>7. Length(u, p) = Len(p) - Len(m)
    BY <1>1, <2>6, ParentIs
  <2> QED BY <1>1, <1>2, <2>1, <2>3, <2>7
<1> QED BY <1>4, <1>8, <1>9

LEMMA LengthsAdd ==
  ASSUME NEW t, NEW V, NEW P, NEW S, IsTree(t, V, P, S), NEW N, N \subseteq Inner(t),
         IsFiniteSet(N), NEW n \in Inner(t), n \notin N
  PROVE  TotalLength(t, N \cup {n}) = TotalLength(t, N) + Length(t, n)
<1>1. {n} \subseteq Inner(t) /\ N \cap {n} = {} /\ IsFiniteSet({n})
  BY FS_Singleton
<1>2. TotalLength(t, N \cup {n}) = TotalLength(t, N) + TotalLength(t, {n})
  BY <1>1, LengthsUnion
<1> QED BY <1>2, LengthsOne

(* u is t with the edge into b cut at p.                                     *)
Cuts(t, u, p, b) ==
  /\ p \notin t.nodes /\ b \in t.nodes /\ IsStrictPrefix(p, b)
  /\ \A m \in t.nodes : IsStrictPrefix(p, m) => Len(b) <= Len(m)
  /\ u.nodes = t.nodes \cup {p}

LEMMA SplitTotal ==
  ASSUME NEW t, NEW V, NEW P, NEW S, IsTree(t, V, P, S), NEW u, IsTree(u, V, P, S),
         NEW p \in Seq(V), NEW b, Cuts(t, u, p, b),
         NEW N, N \subseteq Inner(t), IsFiniteSet(N)
  PROVE  /\ b \in N => TotalLength(u, N \cup {p}) = TotalLength(t, N)
         /\ b \notin N => TotalLength(u, N) = TotalLength(t, N)
<1> DEFINE N0 == N \ {b}
<1>1. /\ b # Root
      /\ \A n \in Inner(t) \ {b} : Length(u, n) = Length(t, n)
      /\ Length(u, p) + Length(u, b) = Length(t, b)
      /\ b \in t.nodes
  BY SplitLengths DEF Cuts
<1>2. /\ N0 \subseteq Inner(t) \ {b} /\ IsFiniteSet(N0)
      /\ Inner(t) \subseteq Inner(u) /\ p \in Inner(u) \ Inner(t) /\ b \in Inner(t)
  <2>1. p # Root
    BY DEF IsTree, Cuts
  <2>2. IsFiniteSet(N0)
    BY FS_Subset
  <2> QED BY <1>1, <2>1, <2>2 DEF Inner, Cuts
<1>3. b \notin N => N0 = N
  OBVIOUS
<1>4. b \in N => N = N0 \cup {b}
  OBVIOUS
<1>5. b \notin N0
  OBVIOUS
<1> HIDE DEF N0
<1>6. TotalLength(t, N0) = TotalLength(u, N0)
  BY <1>1, <1>2, LengthsSame
<1>7. ASSUME b \in N PROVE TotalLength(u, N \cup {p}) = TotalLength(t, N)
  <2>1. TotalLength(t, N0 \cup {b}) = TotalLength(t, N0) + Length(t, b)
    BY <1>2, <1>5, LengthsAdd
  <2>2. TotalLength(u, N0 \cup {b}) = TotalLength(u, N0) + Length(u, b)
    <3>1. N0 \subseteq Inner(u) /\ b \in Inner(u)
      BY <1>2
    <3> QED BY <1>2, <1>5, <3>1, LengthsAdd
  <2>3. TotalLength(u, N \cup {p}) = TotalLength(u, N) + Length(u, p)
    <3>1. N \subseteq Inner(u) /\ p \in Inner(u) /\ p \notin N
      BY <1>2
    <3> QED BY <3>1, LengthsAdd
  <2>4. TotalLength(u, N0) \in Nat /\ Length(u, b) \in Nat /\ Length(u, p) \in Nat
    <3>1. N0 \subseteq Inner(u) /\ b \in Inner(u) /\ p \in Inner(u)
      BY <1>2
    <3>2. TotalLength(u, N0) \in Nat
      BY <1>2, <3>1, LengthsWeigh
    <3>3. Length(u, b) \in Nat \ {0} /\ Length(u, p) \in Nat \ {0}
      BY <3>1, LengthFacts
    <3> QED BY <3>2, <3>3
  <2>5. /\ TotalLength(t, N) = TotalLength(t, N0) + Length(t, b)
        /\ TotalLength(u, N) = TotalLength(u, N0) + Length(u, b)
    BY <1>4, <1>7, <2>1, <2>2
  <2> QED BY <1>1, <1>6, <2>3, <2>4, <2>5
<1> QED BY <1>3, <1>6, <1>7

(* The upper half of a split edge is open or held as the lower one is.       *)
LEMMA SplitCounted ==
  ASSUME NEW t, NEW V, NEW P, NEW S, IsTree(t, V, P, S), Counted(t),
         NEW p \in Seq(V), \E n \in t.nodes : IsPrefix(p, n)
  PROVE  Counted(Split(t, p))
<1> DEFINE u == Split(t, p)
<1>1. CASE p \in t.nodes
  <2>1. u = t
    BY <1>1 DEF Split
  <2> QED BY <2>1
<1>2. CASE p \notin t.nodes
  <2>1. /\ u.nodes = t.nodes \cup {p} /\ IsTree(u, V, P, S)
        /\ u.evictable = t.evictable /\ u.protected = t.protected
        /\ \A n \in t.nodes : u.ref[n] = t.ref[n]
        /\ \E b \in t.nodes :
             /\ IsStrictPrefix(p, b) /\ u.ref[p] = t.ref[b]
             /\ \A m \in t.nodes : IsStrictPrefix(p, m) => Len(b) <= Len(m)
    BY <1>2, SplitResult, SplitIsTree
  <2> HIDE DEF u
  <2>2. PICK b \in t.nodes :
          /\ IsStrictPrefix(p, b) /\ u.ref[p] = t.ref[b]
          /\ \A m \in t.nodes : IsStrictPrefix(p, m) => Len(b) <= Len(m)
    BY <2>1
  <2>3. b # Root /\ p # Root /\ b \in Inner(t) /\ t.ref[b] \in Nat
    <3>1. b # Root
      BY <1>2, <2>1, <2>2, SplitLengths
    <3> QED BY <1>2, <3>1 DEF IsTree, Inner, Counted
  <2>4. /\ IsFiniteSet(Open(t)) /\ Open(t) \subseteq Inner(t)
        /\ IsFiniteSet(Held(t)) /\ Held(t) \subseteq Inner(t)
    BY CountedFacts
  <2>5. /\ b \in Open(t) => Open(u) = Open(t) \cup {p}
        /\ b \notin Open(t) => Open(u) = Open(t)
    BY <1>2, <2>1, <2>2, <2>3 DEF Open, Inner
  <2>6. /\ b \in Held(t) => Held(u) = Held(t) \cup {p}
        /\ b \notin Held(t) => Held(u) = Held(t)
    BY <1>2, <2>1, <2>2, <2>3 DEF Held, Inner
  <2>7. ASSUME NEW N, N \subseteq Inner(t), IsFiniteSet(N)
        PROVE  /\ b \in N => TotalLength(u, N \cup {p}) = TotalLength(t, N)
               /\ b \notin N => TotalLength(u, N) = TotalLength(t, N)
    <3>1. Cuts(t, u, p, b)
      BY <1>2, <2>1, <2>2 DEF Cuts
    <3>2. IsTree(u, V, P, S)
      BY <2>1
    <3>3. N \subseteq Inner(t) /\ IsFiniteSet(N)
      BY <2>7
    <3> QED BY <3>1, <3>2, <3>3, SplitTotal, SMTT(60)
  <2>8. /\ TotalLength(u, Open(u)) = TotalLength(t, Open(t))
        /\ TotalLength(u, Held(u)) = TotalLength(t, Held(t))
    BY <2>4, <2>5, <2>6, <2>7
  <2>9. IsFiniteSet(u.nodes) /\ \A n \in u.nodes : u.ref[n] \in Nat
    <3>1. IsFiniteSet(t.nodes \cup {p})
      BY FS_AddElement DEF Counted
    <3> QED BY <2>1, <2>2, <2>3, <3>1 DEF Counted
  <2> QED BY <2>1, <2>8, <2>9 DEF Counted, u
<1> QED BY <1>1, <1>2

(* The fields that locking and unlocking change.                             *)
LEMMA LockFields ==
  ASSUME NEW t, NEW V, NEW P, NEW S, IsTree(t, V, P, S), NEW h
  PROVE  /\ Lock(t, h).nodes = t.nodes /\ Unlock(t, h).nodes = t.nodes
         /\ \A n \in t.nodes :
              /\ Lock(t, h).ref[n] = IF n \in Chain(t, h) THEN t.ref[n] + 1 ELSE t.ref[n]
              /\ Unlock(t, h).ref[n] = IF n \in Chain(t, h) THEN t.ref[n] - 1 ELSE t.ref[n]
         /\ Lock(t, h).evictable = t.evictable - TotalLength(t, NewlyLocked(t, h))
         /\ Lock(t, h).protected = t.protected + TotalLength(t, NewlyLocked(t, h))
         /\ Unlock(t, h).evictable = t.evictable + TotalLength(t, NewlyUnlocked(t, h))
         /\ Unlock(t, h).protected = t.protected - TotalLength(t, NewlyUnlocked(t, h))
<1> DEFINE locked == TotalLength(t, NewlyLocked(t, h))
           unlocked == TotalLength(t, NewlyUnlocked(t, h))
           up == [n \in t.nodes |-> IF n \in Chain(t, h) THEN t.ref[n] + 1 ELSE t.ref[n]]
           down == [n \in t.nodes |-> IF n \in Chain(t, h) THEN t.ref[n] - 1 ELSE t.ref[n]]
<1>1. DOMAIN t = Fields
  BY DEF IsTree
<1>2. /\ Lock(t, h) = [t EXCEPT !.ref = up, !.evictable = t.evictable - locked,
                               !.protected = t.protected + locked]
      /\ Unlock(t, h) = [t EXCEPT !.ref = down, !.evictable = t.evictable + unlocked,
                                 !.protected = t.protected - unlocked]
  BY DEF Lock, Unlock
<1>3. \A n \in t.nodes :
        /\ up[n] = IF n \in Chain(t, h) THEN t.ref[n] + 1 ELSE t.ref[n]
        /\ down[n] = IF n \in Chain(t, h) THEN t.ref[n] - 1 ELSE t.ref[n]
  OBVIOUS
<1> HIDE DEF locked, unlocked, up, down
<1>4. /\ Lock(t, h).nodes = t.nodes /\ Unlock(t, h).nodes = t.nodes
      /\ Lock(t, h).ref = up /\ Unlock(t, h).ref = down
      /\ Lock(t, h).evictable = t.evictable - locked
      /\ Lock(t, h).protected = t.protected + locked
      /\ Unlock(t, h).evictable = t.evictable + unlocked
      /\ Unlock(t, h).protected = t.protected - unlocked
  BY <1>1, <1>2 DEF Fields
<1> QED BY <1>3, <1>4 DEF locked, unlocked

(* Locking takes what was open on the way to h out of one counter into the   *)
(* other.                                                                    *)
LEMMA LockCounted ==
  ASSUME NEW t, NEW V, NEW P, NEW S, IsTree(t, V, P, S), Counted(t), NEW h
  PROVE  /\ Counted(Lock(t, h))
         /\ Lock(t, h).evictable + Lock(t, h).protected = t.evictable + t.protected
<1> DEFINE u == Lock(t, h)
           M == NewlyLocked(t, h)
<1>1. /\ u.nodes = t.nodes
      /\ \A n \in t.nodes : u.ref[n] = IF n \in Chain(t, h) THEN t.ref[n] + 1 ELSE t.ref[n]
      /\ u.evictable = t.evictable - TotalLength(t, M)
      /\ u.protected = t.protected + TotalLength(t, M)
  BY LockFields
<1>2. M = {n \in Chain(t, h) : t.ref[n] = 0}
  BY DEF NewlyLocked
<1> HIDE DEF u, M
<1>3. /\ IsFiniteSet(Open(t)) /\ Open(t) \subseteq Inner(t)
      /\ IsFiniteSet(Held(t)) /\ Held(t) \subseteq Inner(t)
      /\ Open(t) \cap Held(t) = {}
      /\ t.evictable \in Nat /\ t.protected \in Nat
      /\ t.evictable = TotalLength(t, Open(t)) /\ t.protected = TotalLength(t, Held(t))
      /\ \A n \in t.nodes : t.ref[n] \in Nat
  BY CountedFacts DEF Counted
<1>4. M \subseteq Open(t) /\ Chain(t, h) \subseteq Inner(t)
  BY <1>2 DEF Open, Chain, Inner
<1>5. Open(u) = Open(t) \ M
  BY <1>1, <1>2, <1>3, <1>4 DEF Open, Inner
<1>6. Held(u) = Held(t) \cup M
  BY <1>1, <1>2, <1>3, <1>4 DEF Held, Inner
<1>7. /\ Open(t) = Open(u) \cup M /\ Open(u) \cap M = {} /\ Held(t) \cap M = {}
      /\ IsFiniteSet(M) /\ IsFiniteSet(Open(u)) /\ M \subseteq Inner(t)
      /\ Open(u) \subseteq Inner(t)
  <2>1. IsFiniteSet(M) /\ IsFiniteSet(Open(u))
    BY <1>3, <1>4, <1>5, FS_Subset
  <2> QED BY <1>3, <1>4, <1>5, <2>1
<1>8. TotalLength(t, Open(u) \cup M) = TotalLength(t, Open(u)) + TotalLength(t, M)
  BY <1>7, LengthsUnion
<1>9. TotalLength(t, Held(t) \cup M) = TotalLength(t, Held(t)) + TotalLength(t, M)
  BY <1>3, <1>7, LengthsUnion
<1>10. TotalLength(t, Open(u)) \in Nat /\ TotalLength(t, M) \in Nat
  BY <1>7, LengthsWeigh
<1>11. u.evictable = TotalLength(t, Open(u)) /\ u.protected = TotalLength(t, Held(u))
  BY <1>1, <1>3, <1>6, <1>7, <1>8, <1>9, <1>10
<1>12. u.evictable + u.protected = t.evictable + t.protected
  BY <1>1, <1>3, <1>10
<1>13. IsFiniteSet(u.nodes) /\ \A n \in u.nodes : u.ref[n] \in Nat
  BY <1>1, <1>3 DEF Counted
<1>14. Counted(u)
  BY <1>1, <1>11, <1>13, SameNodes DEF Counted
<1> QED BY <1>12, <1>14 DEF u

(* Unlocking a handle that is locked gives back what nobody else has locked. *)
LEMMA UnlockCounted ==
  ASSUME NEW t, NEW V, NEW P, NEW S, IsTree(t, V, P, S), Counted(t), NEW h,
         \A n \in Chain(t, h) : t.ref[n] # 0
  PROVE  /\ Counted(Unlock(t, h))
         /\ Unlock(t, h).evictable + Unlock(t, h).protected = t.evictable + t.protected
         /\ t.evictable <= Unlock(t, h).evictable
<1> DEFINE u == Unlock(t, h)
           M == NewlyUnlocked(t, h)
<1>1. /\ u.nodes = t.nodes
      /\ \A n \in t.nodes : u.ref[n] = IF n \in Chain(t, h) THEN t.ref[n] - 1 ELSE t.ref[n]
      /\ u.evictable = t.evictable + TotalLength(t, M)
      /\ u.protected = t.protected - TotalLength(t, M)
  BY LockFields
<1>2. M = {n \in Chain(t, h) : t.ref[n] = 1}
  BY DEF NewlyUnlocked
<1> HIDE DEF u, M
<1>3. /\ IsFiniteSet(Open(t)) /\ Open(t) \subseteq Inner(t)
      /\ IsFiniteSet(Held(t)) /\ Held(t) \subseteq Inner(t)
      /\ Open(t) \cap Held(t) = {}
      /\ t.evictable \in Nat /\ t.protected \in Nat
      /\ t.evictable = TotalLength(t, Open(t)) /\ t.protected = TotalLength(t, Held(t))
      /\ \A n \in t.nodes : t.ref[n] \in Nat
  BY CountedFacts DEF Counted
<1>4. M \subseteq Held(t) /\ Chain(t, h) \subseteq Inner(t)
  BY <1>2 DEF Held, Chain, Inner
<1>5. Open(u) = Open(t) \cup M
  BY <1>1, <1>2, <1>3, <1>4 DEF Open, Inner
<1>6. Held(u) = Held(t) \ M
  BY <1>1, <1>2, <1>3, <1>4 DEF Held, Inner
<1>7. /\ Held(t) = Held(u) \cup M /\ Held(u) \cap M = {} /\ Open(t) \cap M = {}
      /\ IsFiniteSet(M) /\ IsFiniteSet(Held(u)) /\ M \subseteq Inner(t)
      /\ Held(u) \subseteq Inner(t)
  <2>1. IsFiniteSet(M) /\ IsFiniteSet(Held(u))
    BY <1>3, <1>4, <1>6, FS_Subset
  <2> QED BY <1>3, <1>4, <1>6, <2>1
<1>8. TotalLength(t, Held(u) \cup M) = TotalLength(t, Held(u)) + TotalLength(t, M)
  BY <1>7, LengthsUnion
<1>9. TotalLength(t, Open(t) \cup M) = TotalLength(t, Open(t)) + TotalLength(t, M)
  BY <1>3, <1>7, LengthsUnion
<1>10. TotalLength(t, Held(u)) \in Nat /\ TotalLength(t, M) \in Nat
  BY <1>7, LengthsWeigh
<1>11. u.evictable = TotalLength(t, Open(u)) /\ u.protected = TotalLength(t, Held(u))
  BY <1>1, <1>3, <1>5, <1>7, <1>8, <1>9, <1>10
<1>12. u.evictable + u.protected = t.evictable + t.protected /\ t.evictable <= u.evictable
  BY <1>1, <1>3, <1>10
<1>13. IsFiniteSet(u.nodes) /\ \A n \in u.nodes : u.ref[n] \in Nat
  BY <1>1, <1>3 DEF Counted
<1>14. Counted(u)
  BY <1>1, <1>11, <1>13, SameNodes DEF Counted
<1> QED BY <1>12, <1>14 DEF u

(* A node that comes as a leaf, or goes as one, takes its own edge with it.  *)
LEMMA LeafLengths ==
  ASSUME NEW t, NEW V, NEW P, NEW S, IsTree(t, V, P, S), NEW n \in Inner(t),
         \A m \in t.nodes : ~ IsStrictPrefix(n, m),
         NEW u, u.nodes = t.nodes \ {n}, u.nodes \subseteq Seq(V)
  PROVE  \A m \in Inner(u) : Length(u, m) = Length(t, m)
<1> SUFFICES ASSUME NEW m \in Inner(u) PROVE Length(u, m) = Length(t, m)
  OBVIOUS
<1>1. m \in Inner(t) /\ m \in Seq(V) /\ m \in t.nodes
  BY DEF Inner
<1>2. Above(t, Parent(t, m), m) /\ Length(t, m) = Len(m) - Len(Parent(t, m))
  BY <1>1, LengthFacts
<1> DEFINE k == Parent(t, m)
<1>3. Above(t, k, m) /\ Length(t, m) = Len(m) - Len(k)
  BY <1>2
<1> HIDE DEF k
<1>4. Above(u, k, m)
  BY <1>1, <1>3 DEF Above
<1>5. Length(u, m) = Len(m) - Len(k)
  BY <1>1, <1>4, ParentIs
<1> QED BY <1>3, <1>5

LEMMA RemoveLeafCounted ==
  ASSUME NEW t, NEW V, NEW P, NEW S, IsTree(t, V, P, S), Counted(t),
         NEW n \in UnlockedLeaves(t)
  PROVE  /\ Counted(RemoveLeaf(t, n))
         /\ RemoveLeaf(t, n).evictable = t.evictable - Length(t, n)
         /\ RemoveLeaf(t, n).protected = t.protected
<1> DEFINE u == RemoveLeaf(t, n)
           less == t.evictable - Length(t, n)
<1>1. /\ n \in t.nodes /\ n # Root /\ t.ref[n] = 0
      /\ \A m \in t.nodes : ~ IsStrictPrefix(n, m)
      /\ u.nodes = t.nodes \ {n}
      /\ \A m \in u.nodes : u.ref[m] = t.ref[m]
  BY RemoveLeafFields
<1>2. u.evictable = less /\ u.protected = t.protected
  <2>1. DOMAIN t = Fields
    BY DEF IsTree
  <2> HIDE DEF less
  <2>2. u = [t EXCEPT !.nodes = t.nodes \ {n},
                     !.page = Restrict(t.page, DOMAIN t.page \ Edge(t, n)),
                     !.ref = Restrict(t.ref, t.nodes \ {n}),
                     !.snap = Restrict(t.snap, t.nodes \ {n}),
                     !.evictable = less]
    BY DEF RemoveLeaf, less
  <2> HIDE DEF u
  <2> QED BY <2>1, <2>2 DEF Fields
<1>3. IsTree(u, V, P, S)
  BY RemoveLeafResult
<1>17. u.nodes \subseteq Seq(V)
  BY <1>1 DEF IsTree
<1> HIDE DEF u
<1>4. /\ IsFiniteSet(Open(t)) /\ Open(t) \subseteq Inner(t)
      /\ IsFiniteSet(Held(t)) /\ Held(t) \subseteq Inner(t)
      /\ t.evictable = TotalLength(t, Open(t)) /\ t.protected = TotalLength(t, Held(t))
      /\ \A m \in t.nodes : t.ref[m] \in Nat
  BY CountedFacts DEF Counted
<1>5. n \in Inner(t) /\ n \in Open(t)
  BY <1>1 DEF Inner, Open
<1>6. Open(u) = Open(t) \ {n}
  BY <1>1 DEF Open, Inner
<1>7. Held(u) = Held(t)
  BY <1>1 DEF Held, Inner
<1>8. \A m \in Inner(u) : Length(u, m) = Length(t, m)
  BY <1>1, <1>5, <1>17, LeafLengths
<1>9. /\ Open(u) \subseteq Inner(u) /\ Held(u) \subseteq Inner(u) /\ IsFiniteSet(Open(u))
      /\ Open(t) = Open(u) \cup {n} /\ n \notin Open(u) /\ Open(u) \subseteq Inner(t)
  <2>1. IsFiniteSet(Open(u))
    BY <1>4, <1>6, FS_Subset
  <2>2. Open(u) \subseteq Inner(u) /\ Held(u) \subseteq Inner(u)
    BY DEF Open, Held
  <2> QED BY <1>4, <1>5, <1>6, <2>1, <2>2
<1>10. TotalLength(t, Open(u) \cup {n}) = TotalLength(t, Open(u)) + Length(t, n)
  BY <1>5, <1>9, LengthsAdd
<1>11. TotalLength(u, Open(u)) = TotalLength(t, Open(u))
  BY <1>8, <1>9, LengthsSame
<1>12. TotalLength(u, Held(u)) = TotalLength(t, Held(t))
  BY <1>7, <1>8, <1>9, LengthsSame
<1>13. TotalLength(t, Open(u)) \in Nat
  BY <1>9, LengthsWeigh
<1>14. Length(t, n) \in Nat \ {0}
  BY <1>5, LengthFacts
<1>15. u.evictable = TotalLength(u, Open(u)) /\ u.protected = TotalLength(u, Held(u))
  BY <1>2, <1>4, <1>9, <1>10, <1>11, <1>12, <1>13, <1>14
<1>16. IsFiniteSet(u.nodes) /\ \A m \in u.nodes : u.ref[m] \in Nat
  <2>1. IsFiniteSet(u.nodes)
    BY <1>1, FS_Subset DEF Counted
  <2> QED BY <1>1, <1>4, <2>1
<1> QED BY <1>2, <1>15, <1>16 DEF Counted, u

(* A new leaf is open, and as long as what was not cached of its sequence.   *)
LEMMA AddLeafCounted ==
  ASSUME NEW t, NEW V, NEW P, NEW S, IsTree(t, V, P, S), Counted(t),
         NEW p \in t.nodes, NEW ids \in Seq(V), p # ids, IsPrefix(p, ids),
         \A q \in Seq(V), n \in t.nodes :
           IsPrefix(q, ids) /\ IsPrefix(q, n) => IsPrefix(q, p),
         NEW pages, NEW slot,
         IsTree(AddLeaf(t, p, ids, pages, slot), V, P, S)
  PROVE  LET u == AddLeaf(t, p, ids, pages, slot)
         IN /\ Counted(u)
            /\ u.evictable = t.evictable + Len(ids) - Len(p) /\ u.protected = t.protected
<1> DEFINE u == AddLeaf(t, p, ids, pages, slot)
           more == t.evictable + Len(ids) - Len(p)
<1>1. p \in Seq(V) /\ Len(p) \in Nat /\ Len(ids) \in Nat /\ t.nodes \subseteq Seq(V)
  BY LenProperties DEF IsTree
<1>2. ASSUME NEW n \in t.nodes PROVE ~ IsPrefix(ids, n)
  <2> SUFFICES ASSUME IsPrefix(ids, n) PROVE FALSE
    OBVIOUS
  <2>1. IsPrefix(ids, p)
    BY RootIsPrefix
  <2>2. Len(ids) = Len(p)
    BY <1>1, <2>1, PrefixPointwise
  <2> QED BY <1>1, <2>2, PrefixSameLength
<1>3. ids \notin t.nodes /\ ids # Root
  BY <1>2, RootIsPrefix DEF IsTree
<1>4. /\ u.nodes = t.nodes \cup {ids} /\ u.ref[ids] = 0
      /\ \A n \in t.nodes : u.ref[n] = t.ref[n]
  BY <1>3, AddLeafFields
<1>5. u.evictable = more /\ u.protected = t.protected
  <2>1. DOMAIN t = Fields
    BY DEF IsTree
  <2> DEFINE page == [q \in DOMAIN t.page \cup (Prefixes(ids) \ {Root}) |->
                        IF q \in DOMAIN t.page THEN t.page[q] ELSE InsertedPage(p, pages, q)]
             ref == [n \in t.nodes \cup {ids} |-> IF n = ids THEN 0 ELSE t.ref[n]]
             snap == [n \in t.nodes \cup {ids} |-> IF n = ids THEN slot ELSE t.snap[n]]
  <2>2. u = [t EXCEPT !.nodes = t.nodes \cup {ids}, !.page = page, !.ref = ref, !.snap = snap,
                      !.evictable = more]
    BY DEF AddLeaf
  <2> HIDE DEF u, more, page, ref, snap
  <2> QED BY <2>1, <2>2 DEF Fields
<1>6. IsTree(u, V, P, S)
  OBVIOUS
<1> HIDE DEF u
<1>7. /\ IsFiniteSet(Open(t)) /\ Open(t) \subseteq Inner(t)
      /\ IsFiniteSet(Held(t)) /\ Held(t) \subseteq Inner(t)
      /\ t.evictable = TotalLength(t, Open(t)) /\ t.protected = TotalLength(t, Held(t))
      /\ t.evictable \in Nat
      /\ \A m \in t.nodes : t.ref[m] \in Nat
  BY CountedFacts DEF Counted
<1>8. ids \in Inner(u) /\ Inner(t) \subseteq Inner(u) /\ ids \notin Inner(t)
  BY <1>3, <1>4 DEF Inner
<1>9. Open(u) = Open(t) \cup {ids} /\ Held(u) = Held(t)
  BY <1>3, <1>4 DEF Open, Held, Inner
<1>10. \A m \in u.nodes : ~ IsStrictPrefix(ids, m)
  BY <1>2, <1>4 DEF IsStrictPrefix
<1>11. t.nodes = u.nodes \ {ids}
  BY <1>3, <1>4
<1>12. \A m \in Inner(t) : Length(t, m) = Length(u, m)
  BY <1>1, <1>6, <1>8, <1>10, <1>11, LeafLengths
<1>13. Length(u, ids) = Len(ids) - Len(p)
  <2>1. p \in u.nodes /\ IsStrictPrefix(p, ids)
    BY <1>4 DEF IsStrictPrefix
  <2>2. ASSUME NEW k \in u.nodes, IsStrictPrefix(k, ids) PROVE Len(k) <= Len(p)
    <3>1. k \in t.nodes /\ IsPrefix(k, ids) /\ k \in Seq(V)
      BY <1>1, <1>4, <2>2 DEF IsStrictPrefix
    <3>2. IsPrefix(k, p)
      BY <3>1, RootIsPrefix
    <3> QED BY <1>1, <3>1, <3>2, PrefixPointwise
  <2>3. Above(u, p, ids)
    BY <2>1, <2>2 DEF Above
  <2>4. u.nodes \subseteq Seq(V)
    BY <1>1, <1>4
  <2> QED BY <2>3, <2>4, ParentIs
<1>14. TotalLength(u, Open(t) \cup {ids}) = TotalLength(u, Open(t)) + Length(u, ids)
  <2>1. Open(t) \subseteq Inner(u) /\ ids \notin Open(t)
    BY <1>7, <1>8
  <2> QED BY <1>6, <1>7, <1>8, <2>1, LengthsAdd
<1>15. TotalLength(t, Open(t)) = TotalLength(u, Open(t))
  BY <1>7, <1>12, LengthsSame
<1>16. TotalLength(t, Held(t)) = TotalLength(u, Held(t))
  BY <1>7, <1>12, LengthsSame
<1>17. u.evictable = TotalLength(u, Open(u)) /\ u.protected = TotalLength(u, Held(u))
  BY <1>1, <1>5, <1>7, <1>9, <1>13, <1>14, <1>15, <1>16
<1>18. IsFiniteSet(u.nodes) /\ \A m \in u.nodes : u.ref[m] \in Nat
  <2>1. IsFiniteSet(t.nodes \cup {ids})
    BY FS_AddElement DEF Counted
  <2> QED BY <1>4, <1>7, <2>1
<1> QED BY <1>5, <1>17, <1>18 DEF Counted, u

(* Insertion adds to the evictable size what it adds to the cache.           *)
LEMMA InsertCounted ==
  ASSUME NEW t, NEW V, NEW P, NEW S, IsTree(t, V, P, S), Counted(t),
         NEW ids \in Seq(V), NEW pages \in Seq(P), Len(ids) <= Len(pages),
         NEW slot \in S \cup {None}
  PROVE  LET u == Insert(t, ids, pages, slot)
         IN /\ Counted(u)
            /\ u.evictable = t.evictable + Len(ids) - Len(Matched(t, ids))
            /\ u.protected = t.protected
<1> DEFINE p == Matched(t, ids)
           w == Walk(t, ids)
           u == Insert(t, ids, pages, slot)
<1>1. /\ p \in Seq(V) /\ IsPrefix(p, ids) /\ \E n \in t.nodes : IsPrefix(p, n)
      /\ \A q \in Seq(V), n \in t.nodes : IsPrefix(q, ids) /\ IsPrefix(q, n) => IsPrefix(q, p)
  BY MatchedIsLongest
<1>2. /\ IsTree(w, V, P, S) /\ w.nodes = t.nodes \cup {p}
      /\ w.evictable = t.evictable /\ w.protected = t.protected /\ Counted(w)
  <2>1. w = Split(t, p)
    BY DEF Walk
  <2> HIDE DEF p
  <2> QED BY <1>1, <2>1, SplitResult, SplitIsTree, SplitCounted
<1>3. u = IF p # ids THEN AddLeaf(w, p, ids, pages, slot) ELSE Adopt(w, ids, slot)
  BY DEF Insert, Walk
<1>4. Len(p) \in Nat /\ Len(ids) \in Nat /\ w.evictable \in Nat
  BY <1>1, <1>2, LenProperties, CountedFacts
<1>5. IsTree(u, V, P, S)
  BY InsertResult
<1> HIDE DEF p, w, u
<1>6. CASE p # ids
  <2>1. \A q \in Seq(V), n \in w.nodes : IsPrefix(q, ids) /\ IsPrefix(q, n) => IsPrefix(q, p)
    BY <1>1, <1>2, RootIsPrefix
  <2>2. u = AddLeaf(w, p, ids, pages, slot) /\ IsTree(u, V, P, S) /\ p \in w.nodes
    BY <1>2, <1>3, <1>5, <1>6
  <2>3. /\ Counted(u)
        /\ u.evictable = w.evictable + Len(ids) - Len(p) /\ u.protected = w.protected
    BY <1>1, <1>2, <1>6, <2>1, <2>2, AddLeafCounted
  <2> QED BY <1>2, <2>3 DEF u, p
<1>7. CASE p = ids
  <2>1. DOMAIN w = Fields
    BY <1>2 DEF IsTree
  <2>2. /\ u.nodes = w.nodes /\ u.ref = w.ref
        /\ u.evictable = w.evictable /\ u.protected = w.protected
    BY <1>3, <1>7, <2>1 DEF Adopt, Fields
  <2>3. Counted(u)
    <3>1. Open(u) = Open(w) /\ Held(u) = Held(w)
      BY <2>2 DEF Open, Held, Inner
    <3>2. \A N : TotalLength(u, N) = TotalLength(w, N)
      BY <2>2, SameNodes
    <3> QED BY <1>2, <2>2, <3>1, <3>2 DEF Counted
  <2>4. u.evictable = t.evictable + Len(ids) - Len(p)
    BY <1>2, <1>4, <1>7, <2>2
  <2> QED BY <1>2, <2>2, <2>3, <2>4 DEF u, p
<1> QED BY <1>6, <1>7

-----------------------------------------------------------------------------
(* The two counters of the scheduler's tree.                                *)

LEMMA MatchCounters ==
  ASSUME Typed, Counted(tree), NEW ids \in Seq(Vocab)
  PROVE  /\ Counted(MatchedTree(ids))
         /\ MatchedTree(ids).evictable = tree.evictable
         /\ MatchedTree(ids).protected = tree.protected
<1>1. IsTree(tree, Vocab, Pages, Slots)
  BY DEF Typed
<1> DEFINE p == Matched(tree, ids)
<1>2. p \in Seq(Vocab) /\ \E n \in tree.nodes : IsPrefix(p, n)
  BY <1>1, MatchedIsLongest
<1>3. Walk(tree, ids) = Split(tree, p)
  BY DEF Walk
<1> HIDE DEF p
<1>4. /\ Counted(Split(tree, p))
      /\ Split(tree, p).evictable = tree.evictable /\ Split(tree, p).protected = tree.protected
  BY <1>1, <1>2, SplitResult, SplitCounted
<1> QED BY <1>3, <1>4 DEF MatchedTree

LEMMA TryAllocateCounters ==
  ASSUME IInv, Counted(tree), TryAllocate
  PROVE  /\ Counted(tree')
         /\ tree'.evictable + tree'.protected = tree.evictable + tree.protected
         /\ pc' # "slot" => tree'.evictable = tree.evictable
<1>1. Typed
  BY DEF IInv
<1>2. PICK r \in Reqs, h \in Seq(Vocab) : \E walked :
        /\ r = Current /\ walked = MatchedTree(LookupIds(r))
        /\ IsTree(walked, Vocab, Pages, Slots)
        /\ \/ tree' = Lock(walked, h) /\ pc' = "slot"
           \/ tree' = walked /\ SelectBatch
  BY TryAllocateFacts
<1>3. PICK walked :
        /\ walked = MatchedTree(LookupIds(r))
        /\ IsTree(walked, Vocab, Pages, Slots)
        /\ \/ tree' = Lock(walked, h) /\ pc' = "slot"
           \/ tree' = walked /\ SelectBatch
  BY <1>2
<1>4. LookupIds(r) \in Seq(Vocab)
  BY <1>1, <1>2, LookupFacts DEF IInv, TryAllocate
<1>5. /\ Counted(walked)
      /\ walked.evictable = tree.evictable /\ walked.protected = tree.protected
  BY <1>1, <1>3, <1>4, MatchCounters
<1>6. CASE tree' = Lock(walked, h) /\ pc' = "slot"
  BY <1>3, <1>5, <1>6, LockCounted
<1>7. CASE tree' = walked /\ SelectBatch
  BY <1>5, <1>7
<1> QED BY <1>3, <1>6, <1>7

(* Taking over a slot moves no page and no lock.                             *)
LEMMA AdmitCounters ==
  ASSUME IInv, Counted(tree), AdmitWithoutSlot \/ AdmitWithFreeSlot \/ AdmitWithShedSlot
  PROVE  /\ Counted(tree')
         /\ tree'.evictable = tree.evictable /\ tree'.protected = tree.protected
<1>1. tree'.nodes = tree.nodes /\ tree'.ref = tree.ref
  BY AdmitFacts
<1>2. tree'.evictable = tree.evictable /\ tree'.protected = tree.protected
  <2>1. CASE AdmitWithoutSlot \/ AdmitWithFreeSlot
    BY <2>1 DEF AdmitWithoutSlot, AdmitWithFreeSlot, cache
  <2>2. CASE AdmitWithShedSlot
    <3>1. PICK n : tree' = DropSnapshot(tree, n)
      BY <2>2 DEF AdmitWithShedSlot
    <3>2. DOMAIN tree = Fields
      BY DEF IInv, Typed, IsTree
    <3> QED BY <3>1, <3>2 DEF DropSnapshot, Fields
  <2> QED BY <2>1, <2>2
<1>3. Open(tree') = Open(tree) /\ Held(tree') = Held(tree)
  BY <1>1 DEF Open, Held, Inner
<1>4. \A N : TotalLength(tree', N) = TotalLength(tree, N)
  BY <1>1, SameNodes
<1> QED BY <1>1, <1>2, <1>3, <1>4 DEF Counted

LEMMA EvictCounters ==
  ASSUME IInv, Counted(tree), NEW n, EvictLeaf(n)
  PROVE  /\ Counted(tree')
         /\ n \in Inner(tree) /\ Length(tree, n) \in Nat \ {0}
         /\ tree'.evictable = tree.evictable - Length(tree, n)
         /\ tree'.protected = tree.protected
<1>1. IsTree(tree, Vocab, Pages, Slots) /\ n \in UnlockedLeaves(tree)
      /\ tree' = RemoveLeaf(tree, n)
  BY DEF IInv, Typed, EvictLeaf
<1>2. n \in Inner(tree)
  BY <1>1, RemoveLeafFields DEF Inner
<1>3. Length(tree, n) \in Nat \ {0}
  BY <1>1, <1>2, LengthFacts
<1> QED BY <1>1, <1>2, <1>3, RemoveLeafCounted

(* A request that holds a lock can give it back.                             *)
LEMMA GiveBackCounters ==
  ASSUME NEW t, IsTree(t, Vocab, Pages, Slots), Counted(t),
         NEW L, NEW H, CountsLocks(t, L, H), NEW r \in L, NEW h, h = H[r]
  PROVE  /\ Counted(Unlock(t, h))
         /\ Unlock(t, h).evictable + Unlock(t, h).protected = t.evictable + t.protected
         /\ t.evictable <= Unlock(t, h).evictable
<1>1. \A n \in Chain(t, h) : t.ref[n] # 0
  BY LockedNodeCounts DEF Chain
<1> QED BY <1>1, UnlockCounted

LEMMA StarvedCounters ==
  ASSUME IInv, LocksInv, Counted(tree), Starved
  PROVE  /\ Counted(tree')
         /\ tree'.evictable + tree'.protected = tree.evictable + tree.protected
         /\ tree.evictable <= tree'.evictable
<1>1. pc = "slot" /\ IsTree(tree, Vocab, Pages, Slots)
  BY DEF Starved, IInv, Typed
<1>2. PICK r \in Reqs : r = Current /\ tree' = Unlock(tree, req[r].handle)
  BY StarvedFacts
<1>3. r \in Locked /\ req[r].handle = Handles[r]
  BY <1>1, <1>2, LockedReqs, InvSettled DEF Handles
<1> QED BY <1>1, <1>2, <1>3, GiveBackCounters DEF LocksInv

LEMMA CleanupCounters ==
  ASSUME IInv, LocksInv, Counted(tree),
         NEW r \in Live, pc # "slot", NEW ids \in Seq(Vocab), Len(ids) <= Len(req[r].row),
         NEW u, u = Unlock(Insert(tree, ids, req[r].row, req[r].slot), req[r].handle)
  PROVE  /\ Counted(u)
         /\ u.evictable + u.protected
            = tree.evictable + tree.protected + Len(ids) - Len(Matched(tree, ids))
         /\ tree.evictable + Len(ids) - Len(Matched(tree, ids)) <= u.evictable
<1>1. req \in [Reqs -> ReqRecord] /\ IsTree(tree, Vocab, Pages, Slots)
  BY DEF IInv, Typed
<1>2. Locked = Live /\ r \in Reqs /\ r \in Locked /\ req[r].handle = Handles[r]
  BY LockedReqs, InvSettled DEF Handles
<1>3. PICK row \in Seq(Pages), slot \in Slots \cup {None} :
        row = req[r].row /\ slot = req[r].slot
  BY <1>1, <1>2, ReqFields
<1> DEFINE i == Insert(tree, ids, row, slot)
<1>4. IsTree(i, Vocab, Pages, Slots) /\ Len(ids) <= Len(row)
  BY <1>1, <1>3, InsertResult
<1>5. CountsLocks(i, Locked, Handles)
  BY <1>1, InsertPages DEF LocksInv
<1>6. /\ Counted(i)
      /\ i.evictable = tree.evictable + Len(ids) - Len(Matched(tree, ids))
      /\ i.protected = tree.protected
  BY <1>1, <1>4, InsertCounted
<1>7. u = Unlock(i, req[r].handle)
  BY <1>3
<1> HIDE DEF i
<1>8. /\ Counted(u)
      /\ u.evictable + u.protected = i.evictable + i.protected
      /\ i.evictable <= u.evictable
  BY <1>2, <1>4, <1>5, <1>6, <1>7, GiveBackCounters
<1>9. /\ Len(ids) \in Nat /\ Len(Matched(tree, ids)) \in Nat
      /\ tree.evictable \in Nat /\ tree.protected \in Nat
  <2>1. Matched(tree, ids) \in Seq(Vocab)
    BY <1>1, MatchedIsLongest
  <2> QED BY <1>1, <2>1, LenProperties, CountedFacts
<1> QED BY <1>6, <1>8, <1>9

LEMMA InitCounters == Init => Counted(tree)
<1> SUFFICES ASSUME Init PROVE Counted(tree)
  OBVIOUS
<1>1. /\ tree.nodes = {Root} /\ tree.ref = [n \in {Root} |-> 1]
      /\ tree.evictable = 0 /\ tree.protected = 0
  BY DEF Init, EmptyTree
<1>2. Open(tree) = {} /\ Held(tree) = {}
  BY <1>1 DEF Open, Held, Inner
<1>3. TotalLength(tree, {}) = 0
  <2> DEFINE f == [n \in {} |-> Length(tree, n)]
  <2>1. DOMAIN f = {}
    OBVIOUS
  <2> HIDE DEF f
  <2>2. Total(f) = 0
    BY <2>1, TotalEmpty
  <2> QED BY <2>2 DEF TotalLength, f
<1>4. IsFiniteSet({Root})
  BY FS_Singleton
<1> QED BY <1>1, <1>2, <1>3, <1>4 DEF Counted

LEMMA NextKeepsCounters == IInv /\ LocksInv /\ Counted(tree) /\ [Next]_vars => Counted(tree')
<1> SUFFICES ASSUME IInv, LocksInv, Counted(tree), [Next]_vars PROVE Counted(tree')
  OBVIOUS
<1>1. CASE (\E r \in Reqs : Submit(r)) \/ ProcessMsg
  BY <1>1, MessageFacts
<1>2. CASE StartStep \/ StopAdmission \/ EndPrepare \/ EndStep \/ RunWhenIdle \/ UNCHANGED vars
  <2>1. tree' = tree
    BY <1>2 DEF StartStep, StopAdmission, EndPrepare, EndStep, RunWhenIdle, vars, cache
  <2> QED BY <2>1
<1>3. CASE ContinueChunk
  BY <1>3, ContinueFacts
<1>4. CASE TryAllocate
  BY <1>4, TryAllocateCounters
<1>5. CASE Starved
  BY <1>5, StarvedCounters
<1>6. CASE AdmitWithoutSlot \/ AdmitWithFreeSlot \/ AdmitWithShedSlot
  BY <1>6, AdmitCounters
<1>7. CASE EvictForSlot \/ EvictForPages
  <2>1. PICK n : EvictLeaf(n)
    BY <1>7 DEF EvictForSlot, EvictForPages
  <2> QED BY <2>1, EvictCounters
<1>8. CASE PrepareReq \/ Forward \/ Output
  <2>1. tree' = tree
    BY <1>8, PrepareFacts, ForwardFacts, OutputFacts
  <2> QED BY <2>1
<1>9. CASE Cleanup
  <2>1. PICK r \in finished, ids \in Seq(Vocab) :
          /\ pc = "cleanup" /\ r \in Live /\ Len(ids) <= Len(req[r].row)
          /\ tree' = IF CacheType = "naive" THEN tree
                     ELSE Unlock(Insert(tree, ids, req[r].row, req[r].slot), req[r].handle)
    BY <1>9, CleanupFacts
  <2>2. CASE CacheType = "naive"
    BY <2>1, <2>2
  <2>3. CASE CacheType # "naive"
    BY <2>1, <2>3, CleanupCounters
  <2> QED BY <2>2, <2>3
<1> QED BY <1>1, <1>2, <1>3, <1>4, <1>5, <1>6, <1>7, <1>8, <1>9 DEF Next, Step, Select

LEMMA AlwaysCounters == Spec => []Counted(tree)
<1>1. IInv /\ LocksInv /\ Counted(tree) /\ [Next]_vars => Counted(tree)'
  BY NextKeepsCounters
<1> QED BY <1>1, InitCounters, AlwaysLocks, Inductive, PTL DEF Spec

(* The two numbers of size_info, which the admission budget is computed from *)
(* and eviction asserts on, are the lengths they stand for: however often    *)
(* edges were split, locked, unlocked and evicted, the evictable size is the *)
(* tokens on edges nobody has locked and the protected size those on edges   *)
(* somebody has.                                                             *)
THEOREM CountersCounted == Spec => []CountersExact
<1>1. Counted(tree) => CountersExact
  BY DEF Counted, CountersExact, Open, Held, Inner
<1> QED BY <1>1, AlwaysCounters, PTL

===============================================================================
