---------------------------- MODULE ServingProofs ----------------------------
(***************************************************************************)
(* What those who call the scheduler get.  With the plain engine it        *)
(* implements Serving: under the mapping of module Scheduler every step is *)
(* a step of that specification, or changes nothing that it talks of.      *)
(* And offline generation, which is a client of that loop, answers every   *)
(* prompt in full.                                                         *)
(***************************************************************************)
EXTENDS AdmissionProofs, Offline

(* The prompt is through, to the last token, and the first one is to come;   *)
(* or it is cut short.                                                       *)
Whole(r) == ~ req[r].chunked /\ Len(req[r].ids) = InputLen(r)
Cut(r) == req[r].chunked /\ Len(req[r].ids) < InputLen(r)

(* A batch of prefills: after the first k nobody, or one that is cut short.  *)
FirstBatch(k) ==
  /\ k \in Nat /\ k \in {Len(batch) - 1, Len(batch)}
  /\ \A i \in 1..k : Whole(batch[i])
  /\ \A i \in k + 1 .. Len(batch) : Cut(batch[i])

(* A batch that decodes: everyone who has had a token and is to have more.   *)
NextBatch ==
  /\ \A i \in 1..Len(batch) : batch[i] \in Streaming
  /\ \A r \in Streaming : InTheBatch(r)

Fresh == \A r \in Reqs : req[r].stage # "live" => req[r].ids = <<>>

RunningStreams ==
  \A r \in running : Len(req[r].ids) > InputLen(r) \/ (pc = "output" /\ InTheBatch(r))

AdmittedSoFar ==
  Admitting =>
    /\ FirstBatch(Len(batch) - Len(chunked_list))
    /\ chunked_list # <<>> => chunked_list = <<batch[Len(batch)]>>

OneKind ==
  pc \in {"alloc", "forward", "output"} =>
    batch # <<>> /\ ((\E k \in 0..Len(batch) : FirstBatch(k)) \/ NextBatch)

Batches == Fresh /\ RunningStreams /\ AdmittedSoFar /\ OneKind

-----------------------------------------------------------------------------
(* What the steps do to the texts.                                          *)

SameText(r) ==
  /\ req'[r].stage = req[r].stage /\ req'[r].prompt = req[r].prompt
  /\ req'[r].output = req[r].output /\ req'[r].ignore_eos = req[r].ignore_eos
  /\ req'[r].ids = req[r].ids /\ req'[r].chunked = req[r].chunked

(* Most steps touch what is written in a request's row, or where it comes    *)
(* from, and none of its texts.                                              *)
LEMMA TextStays ==
  ASSUME IInv,
         \/ StartStep \/ StopAdmission \/ TryAllocate \/ EvictForSlot \/ Starved
         \/ PrepareReq \/ EvictForPages \/ EndPrepare \/ Forward \/ EndStep \/ RunWhenIdle
         \/ UNCHANGED vars
  PROVE  \A r \in Reqs : SameText(r)
<1>1. Typed /\ ListsOK /\ LengthsOK /\ req \in [Reqs -> ReqRecord]
  BY DEF IInv, Typed
<1>2. CASE req' = req
  BY <1>2 DEF SameText
<1>3. CASE StartStep \/ StopAdmission \/ EvictForSlot \/ EvictForPages \/ EndPrepare \/ EndStep
           \/ RunWhenIdle \/ UNCHANGED vars
  <2>1. req' = req
    BY <1>3 DEF StartStep, StopAdmission, EvictForSlot, EvictForPages, EndPrepare, EndStep,
                RunWhenIdle, vars
  <2> QED BY <1>2, <2>1
<1>4. CASE TryAllocate \/ Starved
  <2>1. Current \in Reqs
    <3>1. CASE TryAllocate
      BY <3>1, TryAllocateFacts
    <3>2. CASE Starved
      BY <3>2, StarvedFacts
    <3> QED BY <1>4, <3>1, <3>2
  <2> DEFINE ids == LookupIds(Current)
             h == MatchedHandle(ids)
             walked == MatchedTree(ids)
             locked == Lock(walked, h)
             row == MatchedRow(locked, h)
             last == Last(rows)
  <2>2. CASE TryAllocate
    <3>1. \/ req' = req
          \/ req' = [req EXCEPT ![Current].handle = h, ![Current].row = row,
                                ![Current].stale = last]
      BY <2>2 DEF TryAllocate
    <3> HIDE DEF h, row, last
    <3>2. CASE req' = [req EXCEPT ![Current].handle = h, ![Current].row = row,
                                  ![Current].stale = last]
      <4>1. req'[Current] = [req[Current] EXCEPT !.handle = h, !.row = row, !.stale = last]
        BY <1>1, <2>1, <3>2
      <4>2. SameText(Current)
        BY <1>1, <2>1, <4>1 DEF SameText, ReqRecord
      <4>3. \A r \in Reqs \ {Current} : req'[r] = req[r]
        BY <1>1, <2>1, <3>2
      <4> QED BY <4>2, <4>3 DEF SameText
    <3> QED BY <1>2, <3>1, <3>2
  <2>3. CASE Starved
    <3>1. req' = [req EXCEPT ![Current].handle = Root, ![Current].row = <<>>,
                             ![Current].stale = <<>>]
      BY <2>3 DEF Starved
    <3>2. req'[Current] = [req[Current] EXCEPT !.handle = Root, !.row = <<>>, !.stale = <<>>]
      BY <1>1, <2>1, <3>1
    <3>3. SameText(Current)
      BY <1>1, <2>1, <3>2 DEF SameText, ReqRecord
    <3>4. \A r \in Reqs \ {Current} : req'[r] = req[r]
      BY <1>1, <2>1, <3>1
    <3> QED BY <3>3, <3>4 DEF SameText
  <2> QED BY <1>4, <2>2, <2>3
<1>5. CASE PrepareReq
  <2>1. Preparing \in Reqs
    <3>1. prepared + 1 \in 1..Len(batch)
      BY <1>5, PrepareFacts
    <3> QED BY <1>1, <3>1, Members DEF Preparing
  <2>2. PICK y : req' = [req EXCEPT ![Preparing].row = y]
    BY <1>1, <1>5, <2>1 DEF PrepareReq
  <2>3. req'[Preparing] = [req[Preparing] EXCEPT !.row = y]
    BY <1>1, <2>1, <2>2
  <2>4. SameText(Preparing)
    BY <1>1, <2>1, <2>3 DEF SameText, ReqRecord
  <2>5. \A r \in Reqs \ {Preparing} : req'[r] = req[r]
    BY <1>1, <2>1, <2>2
  <2> QED BY <2>4, <2>5 DEF SameText
<1>6. CASE Forward
  <2>1. ASSUME NEW r \in Reqs PROVE SameText(r)
    <3>1. \/ req'[r] = req[r]
          \/ \E x, y : req'[r] = [req[r] EXCEPT !.cached = x, !.device = y]
      BY <1>1, <1>6 DEF Forward
    <3>2. req[r] \in ReqRecord
      BY <1>1
    <3> QED BY <3>1, <3>2 DEF SameText, ReqRecord
  <2> QED BY <2>1
<1> QED BY <1>3, <1>4, <1>5, <1>6

(* A request that joins the batch is told apart from the others by its ids   *)
(* only: the prompt, or as much of it as the budget lets through.            *)
LEMMA JoinText ==
  ASSUME IInv, Numbers,
         ContinueChunk \/ AdmitWithoutSlot \/ AdmitWithFreeSlot \/ AdmitWithShedSlot
  PROVE  \E r \in Reqs :
           /\ r = Current /\ req[r].stage \in {"pending", "live"} /\ req'[r].stage = "live"
           /\ req[r].stage = "live" => req[r].chunked
           /\ req'[r].prompt = req[r].prompt /\ req'[r].output = req[r].output
           /\ req'[r].ignore_eos = req[r].ignore_eos
           /\ Len(req'[r].ids) <= InputLen(r) /\ Len(req'[r].ids) \in Nat
           /\ req'[r].chunked = (Len(req'[r].ids) < InputLen(r))
           /\ \A q \in Reqs \ {r} : req'[q] = req[q]
           /\ batch' = Append(batch, r)
           /\ chunked_list' = IF req'[r].chunked THEN Append(chunked_list, r) ELSE chunked_list
<1>1. req \in [Reqs -> ReqRecord]
  BY DEF IInv, Typed
<1>2. PICK r \in Reqs, total \in Nat : \E new :
        /\ r = Current
        /\ \/ pc = "admit" /\ req[r].stage = "live" /\ req[r].chunked
           \/ pc = "slot" /\ req[r].stage = "pending"
        /\ total <= InputLen(r) /\ req' = [req EXCEPT ![r] = new]
        /\ new.stage = "live" /\ Len(new.ids) = total /\ new.chunked = (total < InputLen(r))
        /\ new.prompt = req[r].prompt /\ new.output = req[r].output
        /\ batch' = Append(batch, r)
        /\ chunked_list' = IF new.chunked THEN Append(chunked_list, r) ELSE chunked_list
  BY JoinFacts
<1>3. PICK new :
        /\ r = Current
        /\ \/ pc = "admit" /\ req[r].stage = "live" /\ req[r].chunked
           \/ pc = "slot" /\ req[r].stage = "pending"
        /\ total <= InputLen(r) /\ req' = [req EXCEPT ![r] = new]
        /\ new.stage = "live" /\ Len(new.ids) = total /\ new.chunked = (total < InputLen(r))
        /\ new.prompt = req[r].prompt /\ new.output = req[r].output
        /\ batch' = Append(batch, r)
        /\ chunked_list' = IF new.chunked THEN Append(chunked_list, r) ELSE chunked_list
  BY <1>2
<1>4. req'[r] = new /\ \A q \in Reqs \ {r} : req'[q] = req[q]
  BY <1>1, <1>3
<1>5. req'[r].ignore_eos = req[r].ignore_eos
  <2>1. PICK c, s : AddOneReq(r, c, s)
    BY <1>3 DEF ContinueChunk, AdmitWithoutSlot, AdmitWithFreeSlot, AdmitWithShedSlot, Admit
  <2> DEFINE remain == InputLen(r) - c
             chunk == ChunkSize(remain)
             ids == SubSeq(req[r].prompt, 1, c + chunk)
             most == c + chunk + req[r].output
             short == chunk < remain
             upto == c + chunk
  <2>2. req' = [req EXCEPT ![r].stage = "live", ![r].ids = ids, ![r].cached = c,
                           ![r].device = upto, ![r].max_device = most, ![r].chunked = short,
                           ![r].slot = s]
    BY <2>1 DEF AddOneReq
  <2> HIDE DEF ids, most, short, upto
  <2>3. req'[r] = [req[r] EXCEPT !.stage = "live", !.ids = ids, !.cached = c, !.device = upto,
                                 !.max_device = most, !.chunked = short, !.slot = s]
    BY <1>1, <2>2
  <2>4. req[r] \in ReqRecord
    BY <1>1
  <2> QED BY <2>3, <2>4 DEF ReqRecord
<1>6. Len(req'[r].ids) = total
  BY <1>3, <1>4
<1>7. req'[r].chunked = (Len(req'[r].ids) < InputLen(r))
  BY <1>3, <1>4, <1>6, Zenon
<1> QED BY <1>3, <1>4, <1>5, <1>6, <1>7

-----------------------------------------------------------------------------
(* Every arrangement of a set has all of it.                                *)
LEMMA SetToSeqsAll ==
  ASSUME NEW T, IsFiniteSet(T), NEW s \in SetToSeqs(T)
  PROVE  /\ s \in Seq(T) /\ (s = <<>> => T = {})
         /\ \A x \in T : \E i \in 1..Len(s) : s[i] = x
<1> DEFINE n == Cardinality(T)
<1>1. n \in Nat /\ (n = 0 => T = {})
  BY FS_CardinalityType, FS_EmptySet
<1>2. s \in [1..n -> T] /\ \A i, j \in 1..n : i # j => s[i] # s[j]
  BY DEF SetToSeqs
<1>3. n = Cardinality(T)
  OBVIOUS
<1> HIDE DEF n
<1>4. s \in Injection(1..n, T)
  BY <1>2 DEF Injection, IsInjective
<1>5. IsFiniteSet(1..n) /\ Cardinality(1..n) = n
  <2>1. 1 \in Int /\ n \in Int
    BY <1>1
  <2>2. /\ IsFiniteSet(1..n)
        /\ Cardinality(1..n) = IF 1 > n THEN 0 ELSE n - 1 + 1
    BY <2>1, FS_Interval
  <2>3. (IF 1 > n THEN 0 ELSE n - 1 + 1) = n
    BY <1>1
  <2> QED BY <2>2, <2>3
<1>6. s \in Surjection(1..n, T)
  BY <1>3, <1>4, <1>5, FS_Injection
<1>7. s \in Seq(T) /\ Len(s) = n
  BY <1>1, <1>2
<1>8. s = <<>> => n = 0
  BY <1>7
<1>9. \A x \in T : \E i \in 1..n : s[i] = x
  BY <1>6 DEF Surjection
<1> QED BY <1>1, <1>7, <1>8, <1>9

(* What a batch is made of, as long as neither it nor the texts change.      *)
LEMMA KindStays ==
  ASSUME Typed, batch' = batch, \A r \in Reqs : SameText(r)
  PROVE  /\ \A k : FirstBatch(k) => FirstBatch(k)'
         /\ finished' = finished /\ NextBatch => NextBatch'
         /\ finished' = finished => Streaming' = Streaming
<1>1. Len(batch) \in Nat /\ \A i \in 1..Len(batch) : batch[i] \in Reqs
  BY Members
<1>2. \A r \in Reqs : /\ Whole(r)' = Whole(r) /\ Cut(r)' = Cut(r)
                      /\ InputLen(r)' = InputLen(r) /\ (r \in Live' <=> r \in Live)
  BY DEF SameText, Whole, Cut, InputLen, Live
<1>3. ASSUME NEW k, FirstBatch(k) PROVE FirstBatch(k)'
  <2>1. /\ k \in Nat /\ k \in {Len(batch) - 1, Len(batch)}
        /\ \A i \in 1..k : Whole(batch[i])
        /\ \A i \in k + 1 .. Len(batch) : Cut(batch[i])
    BY <1>3 DEF FirstBatch
  <2>2. \A i \in 1..k : i \in 1..Len(batch)
    BY <1>1, <2>1
  <2>3. \A i \in k + 1 .. Len(batch) : i \in 1..Len(batch)
    BY <1>1, <2>1
  <2>4. \A i \in 1..k : Whole(batch[i])'
    BY <1>1, <1>2, <2>1, <2>2
  <2>5. \A i \in k + 1 .. Len(batch) : Cut(batch[i])'
    BY <1>1, <1>2, <2>1, <2>3
  <2> QED BY <2>1, <2>4, <2>5 DEF FirstBatch, Whole, Cut, InputLen
<1>4. ASSUME finished' = finished PROVE Streaming' = Streaming
  <2>1. \A r \in Reqs : Len(req'[r].ids) = Len(req[r].ids)
    BY DEF SameText
  <2>2. Live' = Live /\ Live \subseteq Reqs
    BY <1>2 DEF Live
  <2> QED BY <1>2, <1>4, <2>1, <2>2 DEF Streaming, InputLen
<1>5. ASSUME finished' = finished, NextBatch PROVE NextBatch'
  BY <1>4, <1>5 DEF NextBatch, InTheBatch
<1> QED BY <1>3, <1>4, <1>5

LEMMA InitBatches == Init => Batches
BY DEF Init, NoReq, Batches, Fresh, RunningStreams, AdmittedSoFar, OneKind, Admitting

(* With nobody admitted, those who have had a token are those who decode.    *)
LEMMA StreamersRun ==
  ASSUME IInv, Numbers, Kept, Batches, Admitting, batch = <<>>
  PROVE  Streaming = running /\ IsFiniteSet(running)
<1>1. Typed /\ ListsOK /\ IsFiniteSet(running) /\ running \subseteq Reqs
  BY DEF IInv, Typed
<1>2. finished = {} /\ \A r \in running : req[r].stage = "live" /\ ~ req[r].chunked
  BY <1>1 DEF Admitting, ListsOK, PlacesOK
<1>3. ASSUME NEW r \in running PROVE r \in Streaming
  <2>1. Len(req[r].ids) > InputLen(r)
    BY DEF Batches, RunningStreams, Admitting
  <2> QED BY <1>1, <1>2, <2>1 DEF Streaming, Live
<1>4. ASSUME NEW r \in Streaming PROVE r \in running
  <2>1. r \in Live /\ Len(req[r].ids) > InputLen(r) /\ r \in Reqs
    BY DEF Streaming, Live
  <2>2. ~ req[r].chunked
    <3>1. req[r].chunked => Len(req[r].ids) < InputLen(r)
      BY <2>1 DEF Numbers, AdmittedSizes, LiveSizes, InputLen
    <3>2. Len(req[r].ids) \in Nat /\ InputLen(r) \in Nat
      BY <1>1, <2>1, ReqFields DEF Typed, InputLen
    <3> QED BY <2>1, <3>1, <3>2
  <2>3. Len(batch) = 0
    BY <1>1, EmptySeq
  <2>4. ~ InTheBatch(r)
    BY <2>3 DEF InTheBatch
  <2> QED BY <2>1, <2>2, <2>4 DEF Kept, WholeKept, Admitting
<1> QED BY <1>1, <1>3, <1>4

(* The end of admission makes a batch of one kind.                           *)
LEMMA SelectKind ==
  ASSUME IInv, Numbers, Kept, Batches, Admitting, SelectBatch,
         running' = running, finished' = finished, \A r \in Reqs : SameText(r)
  PROVE  OneKind' /\ pc' \in {"alloc", "recv"} /\ (batch = <<>> => NextBatch')
<1>1. Typed /\ ListsOK /\ batch \in Seq(Reqs)
  BY DEF IInv, Typed
<1>2. pc' = IF batch # <<>> \/ running # {} THEN "alloc" ELSE "recv"
  BY DEF SelectBatch
<1>3. CASE batch # <<>>
  <2>1. PICK k : k = Len(batch) - Len(chunked_list) /\ FirstBatch(k)
    BY DEF Batches, AdmittedSoFar
  <2>2. batch' = batch
    BY <1>3 DEF SelectBatch
  <2>3. k \in 0..Len(batch)
    <3>1. Len(batch) \in Nat /\ Len(chunked_list) \in Nat /\ k \in Nat
      BY <1>1, <2>1, Members DEF FirstBatch
    <3> QED BY <2>1, <3>1
  <2>4. FirstBatch(k)'
    BY <1>1, <2>1, <2>2, KindStays
  <2> QED BY <1>2, <1>3, <2>2, <2>3, <2>4 DEF OneKind
<1>4. CASE batch = <<>>
  <2>1. Streaming = running /\ IsFiniteSet(running)
    BY <1>4, StreamersRun
  <2>2. batch' \in SetToSeqs(running)
    BY <1>4 DEF SelectBatch
  <2>3. /\ batch' = <<>> => running = {}
        /\ \A x \in running : \E i \in 1..Len(batch') : batch'[i] = x
    BY <2>1, <2>2, SetToSeqsAll
  <2>4. \A i \in 1..Len(batch') : batch'[i] \in running
    BY <2>1, <2>2, SetToSeqsMembers
  <2>5. Streaming' = running
    <3>1. \A r \in Reqs : /\ Len(req'[r].ids) = Len(req[r].ids)
                          /\ Len(req'[r].prompt) = Len(req[r].prompt)
                          /\ req'[r].stage = req[r].stage
      BY DEF SameText
    <3>2. Live' = Live /\ Live \subseteq Reqs
      BY <3>1 DEF Live
    <3>3. Streaming' = Streaming
      BY <3>1, <3>2 DEF Streaming, InputLen
    <3> QED BY <2>1, <3>3
  <2>6. NextBatch'
    BY <2>3, <2>4, <2>5 DEF NextBatch, InTheBatch
  <2> QED BY <1>2, <1>4, <2>3, <2>6 DEF OneKind
<1> QED BY <1>2, <1>3, <1>4

(* The steps that leave the texts alone.                                     *)
LEMMA StillBatches ==
  ASSUME IInv, Numbers, Kept, Batches,
         \/ StartStep \/ StopAdmission \/ TryAllocate \/ EvictForSlot \/ Starved
         \/ PrepareReq \/ EvictForPages \/ EndPrepare \/ EndStep \/ RunWhenIdle
         \/ UNCHANGED vars
  PROVE  Batches'
<1>1. Typed /\ ListsOK /\ batch \in Seq(Reqs) /\ running \subseteq Reqs
  BY DEF IInv, Typed
<1>2. \A r \in Reqs : SameText(r)
  BY TextStays
<1>3. \/ running' = running /\ finished' = finished /\ pc' # "output" /\ pc # "output"
      \/ UNCHANGED <<pc, batch, running, finished>>
  <2>1. CASE TryAllocate \/ Starved
    BY <2>1, TryAllocateFacts, StarvedFacts DEF TryAllocate, Starved, SelectBatch
  <2>2. CASE \/ StartStep \/ StopAdmission \/ EvictForSlot \/ PrepareReq \/ EvictForPages
             \/ EndPrepare \/ EndStep \/ RunWhenIdle \/ UNCHANGED vars
    BY <2>2 DEF StartStep, StopAdmission, SelectBatch, EvictForSlot, PrepareReq, EvictForPages,
                EndPrepare, EndStep, RunWhenIdle, vars, lists
  <2> QED BY <2>1, <2>2
<1>4. Fresh'
  BY <1>2 DEF Batches, Fresh, SameText
<1>5. RunningStreams'
  BY <1>1, <1>2, <1>3 DEF Batches, RunningStreams, SameText, InputLen, InTheBatch
<1>6. CASE Admitting /\ SelectBatch
  <2>1. OneKind' /\ pc' \in {"alloc", "recv"}
    BY <1>2, <1>3, <1>6, SelectKind
  <2>2. AdmittedSoFar'
    BY <2>1 DEF AdmittedSoFar, Admitting
  <2> QED BY <1>4, <1>5, <2>1, <2>2 DEF Batches
<1>7. CASE UNCHANGED <<batch, chunked_list, finished>> /\ (pc = "admit" \/ pc' = pc) /\ (pc' = "slot" \/ pc' = pc)
  <2>1. AdmittedSoFar'
    <3>1. Admitting' => Admitting
      BY <1>7 DEF Admitting
    <3>2. FirstBatch(Len(batch) - Len(chunked_list)) => FirstBatch(Len(batch) - Len(chunked_list))'
      <4>1. PICK k : k = Len(batch) - Len(chunked_list)
        OBVIOUS
      <4>2. k = Len(batch') - Len(chunked_list')
        BY <1>7, <4>1
      <4>3. FirstBatch(k) => FirstBatch(k)'
        BY <1>1, <1>2, <1>7, KindStays
      <4> QED BY <4>1, <4>2, <4>3 DEF FirstBatch, Whole, Cut, InputLen
    <3> QED BY <1>7, <3>1, <3>2 DEF Batches, AdmittedSoFar
  <2>2. OneKind'
    <3>1. \A k : FirstBatch(k) => FirstBatch(k)'
      BY <1>1, <1>2, <1>7, KindStays
    <3>2. NextBatch => NextBatch'
      BY <1>1, <1>2, <1>7, KindStays
    <3> QED BY <1>7, <3>1, <3>2 DEF Batches, OneKind
  <2> QED BY <1>4, <1>5, <2>1, <2>2 DEF Batches
<1>8. CASE StartStep
  <2>1. batch' = <<>> /\ chunked_list' = <<>> /\ pc' = "admit"
    BY <1>1, <1>8 DEF StartStep, lists, ListsOK, PlacesOK, PendingOK, Admitting
  <2>2. FirstBatch(0)'
    BY <2>1 DEF FirstBatch
  <2>3. AdmittedSoFar'
    <3>1. Len(batch') - Len(chunked_list') = 0
      BY <2>1
    <3> QED BY <2>1, <2>2, <3>1 DEF AdmittedSoFar
  <2>4. OneKind'
    BY <2>1 DEF OneKind
  <2> QED BY <1>4, <1>5, <2>3, <2>4 DEF Batches
<1>9. CASE EndPrepare
  <2>1. batch' = batch /\ finished' = finished /\ pc = "alloc" /\ pc' = "forward"
    BY <1>9 DEF EndPrepare, lists
  <2>2. \A k : FirstBatch(k) => FirstBatch(k)'
    BY <1>1, <1>2, <2>1, KindStays
  <2>3. NextBatch => NextBatch'
    BY <1>1, <1>2, <2>1, KindStays
  <2>4. OneKind' /\ AdmittedSoFar'
    BY <2>1, <2>2, <2>3 DEF Batches, OneKind, AdmittedSoFar, Admitting
  <2> QED BY <1>4, <1>5, <2>4 DEF Batches
<1>10. CASE EndStep
  <2>1. pc' = "recv"
    BY <1>10 DEF EndStep
  <2>2. OneKind' /\ AdmittedSoFar'
    BY <2>1 DEF OneKind, AdmittedSoFar, Admitting
  <2> QED BY <1>4, <1>5, <2>2 DEF Batches
<1>11. TryAllocate => \/ Admitting /\ SelectBatch
                      \/ UNCHANGED <<batch, chunked_list, finished>> /\ pc = "admit" /\ pc' = "slot"
  BY DEF TryAllocate, Admitting
<1>12. Starved \/ StopAdmission => Admitting /\ SelectBatch
  BY DEF Starved, StopAdmission, Admitting
<1>13. EvictForSlot \/ PrepareReq \/ EvictForPages \/ RunWhenIdle \/ UNCHANGED vars
         => UNCHANGED <<batch, chunked_list, finished, pc>>
  BY DEF EvictForSlot, PrepareReq, EvictForPages, RunWhenIdle, vars, lists
<1> QED BY <1>6, <1>7, <1>8, <1>9, <1>10, <1>11, <1>12, <1>13

(* Another request joins: the ones before it are whole.                      *)
LEMMA JoinBatches ==
  ASSUME IInv, Numbers, Batches,
         ContinueChunk \/ AdmitWithoutSlot \/ AdmitWithFreeSlot \/ AdmitWithShedSlot
  PROVE  Batches'
<1>1. Typed /\ ListsOK /\ batch \in Seq(Reqs) /\ chunked_list \in Seq(Reqs) /\ running \subseteq Reqs
  BY DEF IInv, Typed
<1>2. /\ Admitting /\ pc' = "admit" /\ budget > 0 /\ running' = running
      /\ Len(batch) < Len(pending)
  BY JoinFacts
<1>3. PICK r \in Reqs :
        /\ r = Current /\ req[r].stage \in {"pending", "live"} /\ req'[r].stage = "live"
        /\ req'[r].prompt = req[r].prompt
        /\ Len(req'[r].ids) <= InputLen(r) /\ Len(req'[r].ids) \in Nat
        /\ req'[r].chunked = (Len(req'[r].ids) < InputLen(r))
        /\ \A q \in Reqs \ {r} : req'[q] = req[q]
        /\ batch' = Append(batch, r)
        /\ chunked_list' = IF req'[r].chunked THEN Append(chunked_list, r) ELSE chunked_list
  BY JoinText
<1>4. chunked_list = <<>>
  <2>1. \A i \in 1..Len(chunked_list) : budget = 0
    BY <1>1, <1>2 DEF ListsOK, AdmissionOK
  <2>2. Len(chunked_list) \in Nat /\ budget # 0
    BY <1>1, <1>2, Members DEF Typed
  <2>3. Len(chunked_list) = 0
    BY <2>1, <2>2
  <2> QED BY <1>1, <2>3, EmptySeq
<1>5. PICK n \in Nat : n = Len(batch)
  BY <1>1, Members
<1>6. /\ Len(batch') = n + 1 /\ batch'[n + 1] = r
      /\ \A i \in 1..n : batch'[i] = batch[i]
  BY <1>1, <1>3, <1>5, AppendProperties
<1>7. \A i \in 1..n : batch[i] \in Reqs /\ batch[i] # r
  BY <1>1, <1>2, <1>3, <1>5, CurrentWaits, Members DEF IInv
<1>8. FirstBatch(n)
  <2>1. Len(chunked_list) = 0
    BY <1>4
  <2>2. FirstBatch(Len(batch) - Len(chunked_list))
    BY <1>2 DEF Batches, AdmittedSoFar
  <2>3. Len(batch) - Len(chunked_list) = n
    BY <1>5, <2>1
  <2> QED BY <2>2, <2>3
<1>9. \A i \in 1..n : Whole(batch[i])'
  <2>1. \A i \in 1..n : Whole(batch[i])
    BY <1>8 DEF FirstBatch
  <2> QED BY <1>3, <1>6, <1>7, <2>1 DEF Whole, InputLen
<1>10. InputLen(r) \in Nat /\ InputLen(r)' = InputLen(r)
  BY <1>1, <1>3, ReqFields DEF Typed, InputLen
<1>11. Fresh'
  BY <1>3 DEF Batches, Fresh
<1>12. RunningStreams'
  <2>1. r \notin running
    BY <1>1, <1>2, <1>3, CurrentWaits DEF IInv
  <2>2. \A q \in running : Len(req[q].ids) > InputLen(q)
    BY <1>2 DEF Batches, RunningStreams, Admitting
  <2> QED BY <1>1, <1>2, <1>3, <2>1, <2>2 DEF RunningStreams, InputLen
<1>13. AdmittedSoFar'
  <2>1. CASE req'[r].chunked
    <3>1. chunked_list' = <<r>> /\ Len(chunked_list') = 1
      BY <1>3, <1>4, <2>1
    <3>2. Cut(batch[n + 1])'
      BY <1>3, <1>6, <1>10, <2>1 DEF Cut
    <3>3. FirstBatch(n)'
      <4>1. n \in Nat /\ n = Len(batch') - 1
        BY <1>5, <1>6
      <4>2. \A i \in n + 1 .. Len(batch') : i = n + 1
        BY <1>5, <1>6
      <4>3. \A i \in n + 1 .. Len(batch') : Cut(batch[i])'
        BY <3>2, <4>2
      <4> QED BY <1>9, <4>1, <4>3 DEF FirstBatch, Whole, Cut, InputLen
    <3>4. Len(batch') - Len(chunked_list') = n
      BY <1>5, <1>6, <3>1
    <3>5. FirstBatch(Len(batch) - Len(chunked_list))'
      BY <3>3, <3>4 DEF FirstBatch, Whole, Cut, InputLen
    <3>6. batch'[Len(batch')] = r
      BY <1>6
    <3> QED BY <3>1, <3>5, <3>6 DEF AdmittedSoFar
  <2>2. CASE ~ req'[r].chunked
    <3>1. chunked_list' = <<>> /\ Len(chunked_list') = 0
      BY <1>3, <1>4, <2>2
    <3>2. Len(req'[r].ids) = InputLen(r)
      <4>1. ~ (Len(req'[r].ids) < InputLen(r))
        BY <1>3, <2>2
      <4> QED BY <1>3, <1>10, <4>1
    <3>3. Whole(batch[n + 1])'
      BY <1>6, <1>10, <2>2, <3>2 DEF Whole
    <3>4. \A i \in 1 .. n + 1 : i \in 1..n \/ i = n + 1
      BY <1>5
    <3>5. \A i \in 1 .. n + 1 : Whole(batch[i])'
      BY <1>9, <3>3, <3>4
    <3>6. n + 1 \in Nat /\ n + 1 = Len(batch') /\ (n + 1) + 1 .. Len(batch') = {}
      BY <1>5, <1>6
    <3>7. FirstBatch(n + 1)'
      BY <3>5, <3>6 DEF FirstBatch, Whole, Cut, InputLen
    <3>8. Len(batch') - Len(chunked_list') = n + 1
      BY <1>5, <1>6, <3>1
    <3>9. FirstBatch(Len(batch) - Len(chunked_list))'
      BY <3>7, <3>8 DEF FirstBatch, Whole, Cut, InputLen
    <3> QED BY <3>1, <3>9 DEF AdmittedSoFar
  <2> QED BY <2>1, <2>2
<1>14. OneKind'
  BY <1>2 DEF OneKind
<1> QED BY <1>11, <1>12, <1>13, <1>14 DEF Batches

(* What a batch runs for: of the prefills those that are whole, of the       *)
(* others everyone.                                                         *)
LEMMA SampledIs ==
  ASSUME IInv, Numbers
  PROVE  /\ InBatch = {batch[i] : i \in 1..Len(batch)} /\ InBatch \subseteq Reqs
         /\ \A k : FirstBatch(k) => /\ Sampled = {batch[i] : i \in 1..k}
                                    /\ \A r \in Sampled : Len(req[r].ids) = InputLen(r)
         /\ NextBatch => Sampled = Streaming /\ InBatch = Streaming
<1>1. Typed /\ batch \in Seq(Reqs)
  BY DEF IInv, Typed
<1>2. InBatch = {batch[i] : i \in 1..Len(batch)} /\ InBatch \subseteq Reqs
  BY <1>1, KnownFacts, Members
<1>3. ASSUME NEW k, FirstBatch(k)
      PROVE  /\ Sampled = {batch[i] : i \in 1..k}
             /\ \A r \in Sampled : Len(req[r].ids) = InputLen(r)
  <2>1. k \in Nat /\ Len(batch) \in Nat /\ (k = Len(batch) \/ k = Len(batch) - 1)
    BY <1>1, <1>3, Members DEF FirstBatch
  <2>2. \A i \in 1..Len(batch) : i \in 1..k \/ i \in k + 1 .. Len(batch)
    BY <2>1
  <2>3. \A i \in 1..k : i \in 1..Len(batch)
    BY <2>1
  <2>4. /\ \A i \in 1..k : ~ req[batch[i]].chunked /\ Len(req[batch[i]].ids) = InputLen(batch[i])
        /\ \A i \in k + 1 .. Len(batch) : req[batch[i]].chunked
    BY <1>3 DEF FirstBatch, Whole, Cut
  <2>5. ASSUME NEW r \in Sampled PROVE \E i \in 1..k : r = batch[i]
    <3>1. PICK i \in 1..Len(batch) : r = batch[i] /\ ~ req[r].chunked
      BY <1>2 DEF Sampled
    <3> QED BY <2>2, <2>4, <3>1
  <2>6. ASSUME NEW i \in 1..k PROVE batch[i] \in Sampled
    BY <1>2, <2>3, <2>4 DEF Sampled
  <2> QED BY <2>4, <2>5, <2>6
<1>4. ASSUME NextBatch PROVE Sampled = Streaming /\ InBatch = Streaming
  <2>1. InBatch = Streaming
    BY <1>2, <1>4 DEF NextBatch, InTheBatch
  <2>2. ASSUME NEW r \in Streaming PROVE ~ req[r].chunked
    <3>1. r \in Live /\ Len(req[r].ids) > InputLen(r) /\ r \in Reqs
      BY DEF Streaming, Live
    <3>2. req[r].chunked => Len(req[r].ids) < InputLen(r)
      BY <3>1 DEF Numbers, AdmittedSizes, LiveSizes, InputLen
    <3>3. Len(req[r].ids) \in Nat /\ InputLen(r) \in Nat
      BY <1>1, <3>1, ReqFields DEF Typed, InputLen
    <3> QED BY <3>1, <3>2, <3>3
  <2> QED BY <2>1, <2>2 DEF Sampled
<1> QED BY <1>2, <1>3, <1>4

(* A token goes to everyone the batch was run for, and changes nothing else. *)
LEMMA OutputText ==
  ASSUME IInv, Output
  PROVE  \E next \in [Sampled -> Vocab], done \in SUBSET Sampled :
           /\ done = {r \in Sampled : Finishes(r, next[r])}
           /\ pc = "output" /\ pc' = "cleanup" /\ UNCHANGED <<inbox, pending, batch>>
           /\ finished = {} /\ finished' = done /\ running' = running \ done
           /\ Sampled \subseteq Live
           /\ \A r \in Sampled : Len(req'[r].ids) = Len(req[r].ids) + 1
           /\ \A r \in Reqs \ Sampled : req'[r] = req[r]
           /\ \A r \in Reqs :
                /\ req'[r].stage = req[r].stage /\ req'[r].prompt = req[r].prompt
                /\ req'[r].output = req[r].output /\ req'[r].ignore_eos = req[r].ignore_eos
<1>1. Typed /\ req \in [Reqs -> ReqRecord]
  BY DEF IInv, Typed
<1>2. PICK next \in [Sampled -> Vocab] :
        /\ finished' = {r \in Sampled : Finishes(r, next[r])}
        /\ running' = running \ {r \in Sampled : Finishes(r, next[r])}
        /\ \A r \in Sampled : req'[r].ids = Append(req[r].ids, next[r])
  BY OutputFacts
<1>3. /\ Sampled \subseteq Live /\ Sampled \subseteq Reqs
  BY OutputFacts DEF Live
<1>4. ASSUME NEW r \in Sampled PROVE Len(req'[r].ids) = Len(req[r].ids) + 1
  <2>1. req[r].ids \in Seq(Vocab) /\ next[r] \in Vocab
    BY <1>1, <1>3, ReqFields
  <2> QED BY <1>2, <2>1, AppendProperties
<1>5. ASSUME NEW r \in Reqs PROVE req'[r].ignore_eos = req[r].ignore_eos
  <2>1. PICK x : req'[r] = req[r] \/ req'[r] = [req[r] EXCEPT !.ids = x]
    BY <1>1, <1>5 DEF Output
  <2>2. req[r] \in ReqRecord
    BY <1>1
  <2> QED BY <2>1, <2>2 DEF ReqRecord
<1> DEFINE done == {r \in Sampled : Finishes(r, next[r])}
<1>6. done \in SUBSET Sampled /\ done = {r \in Sampled : Finishes(r, next[r])}
  OBVIOUS
<1>7. finished' = done /\ running' = running \ done
  BY <1>2
<1> HIDE DEF done
<1>8. /\ pc = "output" /\ pc' = "cleanup" /\ finished = {} /\ UNCHANGED <<inbox, pending, batch>>
      /\ \A r \in Reqs \ Sampled : req'[r] = req[r]
      /\ \A r \in Reqs : /\ req'[r].stage = req[r].stage /\ req'[r].prompt = req[r].prompt
                         /\ req'[r].output = req[r].output
  BY OutputFacts
<1> QED BY <1>3, <1>4, <1>5, <1>6, <1>7, <1>8

LEMMA ComputeBatches ==
  ASSUME IInv, Numbers, Batches, Forward \/ Output
  PROVE  Batches'
<1>1. Typed /\ ListsOK /\ LengthsOK /\ running \subseteq Reqs /\ req \in [Reqs -> ReqRecord]
  BY DEF IInv, Typed
<1>2. InBatch = {batch[i] : i \in 1..Len(batch)} /\ InBatch \subseteq Reqs
  BY SampledIs
<1>3. CASE Forward
  <2>1. \A r \in Reqs : SameText(r)
    BY <1>3, TextStays
  <2>2. /\ pc = "forward" /\ pc' = "output" /\ batch' = batch /\ finished' = finished
        /\ running' \subseteq running \cup InBatch
    BY <1>3 DEF Forward
  <2>3. Fresh'
    BY <2>1 DEF Batches, Fresh, SameText
  <2>4. RunningStreams'
    <3>1. \A r \in InBatch : InTheBatch(r)'
      BY <1>2, <2>2 DEF InTheBatch
    <3>2. \A r \in running : Len(req'[r].ids) > Len(req'[r].prompt)
      BY <1>1, <2>1, <2>2 DEF Batches, RunningStreams, InputLen, SameText
    <3> QED BY <2>2, <3>1, <3>2 DEF RunningStreams, InputLen
  <2>5. AdmittedSoFar'
    BY <2>2 DEF AdmittedSoFar, Admitting
  <2>6. OneKind'
    <3>1. (\A k : FirstBatch(k) => FirstBatch(k)') /\ (NextBatch => NextBatch')
      BY <1>1, <2>1, <2>2, KindStays
    <3> QED BY <2>2, <3>1 DEF Batches, OneKind
  <2> QED BY <2>3, <2>4, <2>5, <2>6 DEF Batches
<1>4. CASE Output
  <2>1. PICK next \in [Sampled -> Vocab], done \in SUBSET Sampled :
           /\ pc = "output" /\ pc' = "cleanup" /\ running' = running \ done
           /\ Sampled \subseteq Live
           /\ \A r \in Sampled : Len(req'[r].ids) = Len(req[r].ids) + 1
           /\ \A r \in Reqs \ Sampled : req'[r] = req[r]
           /\ \A r \in Reqs : req'[r].stage = req[r].stage /\ req'[r].prompt = req[r].prompt
    BY <1>4, OutputText
  <2>2. Fresh'
    BY <2>1 DEF Batches, Fresh, Live
  <2>3. ASSUME NEW r \in Sampled PROVE Len(req'[r].ids) > Len(req'[r].prompt)
    <3>1. r \in Reqs
      BY <2>1 DEF Live
    <3>2. Len(req[r].ids) \in Nat /\ InputLen(r) \in Nat
      BY <1>1, <3>1, ReqFields DEF InputLen
    <3>3. Len(req[r].ids) >= InputLen(r)
      <4>1. CASE \E k \in 0..Len(batch) : FirstBatch(k)
        BY <3>2, <4>1, SampledIs
      <4>2. CASE NextBatch
        <5>1. r \in Streaming
          BY <4>2, SampledIs
        <5> QED BY <3>2, <5>1 DEF Streaming
      <4> QED BY <2>1, <4>1, <4>2 DEF Batches, OneKind
    <3> QED BY <2>1, <3>1, <3>2, <3>3 DEF InputLen
  <2>4. RunningStreams'
    <3> SUFFICES ASSUME NEW r \in running' PROVE Len(req'[r].ids) > Len(req'[r].prompt)
      BY DEF RunningStreams, InputLen
    <3>1. r \in running /\ r \in Reqs
      BY <1>1, <2>1
    <3>2. CASE r \in Sampled
      BY <2>3, <3>2
    <3>3. CASE r \notin Sampled
      <4>1. ~ req[r].chunked
        BY <1>1, <3>1 DEF ListsOK, PlacesOK
      <4>2. ~ InTheBatch(r)
        BY <1>2, <3>3, <4>1 DEF Sampled, InTheBatch
      <4>3. Len(req[r].ids) > InputLen(r)
        BY <3>1, <4>2 DEF Batches, RunningStreams
      <4> QED BY <2>1, <3>1, <3>3, <4>3 DEF InputLen
    <3> QED BY <3>2, <3>3
  <2>5. OneKind' /\ AdmittedSoFar'
    BY <2>1 DEF OneKind, AdmittedSoFar, Admitting
  <2> QED BY <2>2, <2>4, <2>5 DEF Batches
<1> QED BY <1>3, <1>4

LEMMA MessageBatches ==
  ASSUME IInv, Numbers, Batches, (\E r \in Reqs : Submit(r)) \/ ProcessMsg \/ Cleanup
  PROVE  Batches'
<1>1. Typed /\ ListsOK /\ LengthsOK /\ running \subseteq Reqs /\ req \in [Reqs -> ReqRecord]
  BY DEF IInv, Typed
<1>2. CASE Cleanup
  <2>1. /\ pc = "cleanup" /\ pc' = "cleanup" /\ running' = running
        /\ \E r \in finished : FreeAndCache(r)
    BY <1>2 DEF Cleanup
  <2>2. PICK r \in finished : FreeAndCache(r)
    BY <2>1
  <2>3. r \in Reqs /\ r \notin running
    BY <1>1 DEF ListsOK, PlacesOK, Typed
  <2>4. req' = [req EXCEPT ![r] = [NoReq EXCEPT !.stage = "done"]]
    BY <2>2 DEF FreeAndCache
  <2>5. req'[r].ids = <<>> /\ \A q \in Reqs \ {r} : req'[q] = req[q]
    BY <1>1, <2>3, <2>4 DEF NoReq
  <2>6. Fresh'
    BY <2>5 DEF Batches, Fresh
  <2>7. RunningStreams'
    BY <1>1, <2>1, <2>3, <2>5 DEF Batches, RunningStreams, InputLen
  <2>8. OneKind' /\ AdmittedSoFar'
    BY <2>1 DEF OneKind, AdmittedSoFar, Admitting
  <2> QED BY <2>6, <2>7, <2>8 DEF Batches
<1>3. CASE (\E r \in Reqs : Submit(r)) \/ ProcessMsg
  <2>1. /\ pc = "recv" /\ pc' = "recv" /\ running' = running
        /\ \A q \in Reqs : req[q].stage = "live" \/ req'[q].stage = "live" => req'[q] = req[q]
    BY <1>3, MessageFacts
  <2>2. RunningStreams'
    <3>1. \A r \in running : req[r].stage = "live" /\ r \in Reqs
      BY <1>1 DEF ListsOK, PlacesOK
    <3>2. \A r \in running : req'[r] = req[r]
      BY <2>1, <3>1
    <3> QED BY <2>1, <3>1, <3>2 DEF Batches, RunningStreams, InputLen
  <2>3. OneKind' /\ AdmittedSoFar'
    BY <2>1 DEF OneKind, AdmittedSoFar, Admitting
  <2>4. ASSUME NEW q \in Reqs, req'[q].stage # "live" PROVE req'[q].ids = <<>>
    <3>1. req[q].stage # "live"
      BY <2>1, <2>4
    <3>2. req[q].ids = <<>>
      BY <3>1 DEF Batches, Fresh
    <3>3. req'[q].ids = req[q].ids \/ req'[q].ids = <<>>
      <4>1. CASE \E r \in Reqs : Submit(r)
        <5>1. PICK r \in Reqs, w \in Workload :
                req' = [req EXCEPT ![r].stage = "inbox", ![r].prompt = w.prompt,
                                   ![r].output = w.max_tokens, ![r].ignore_eos = w.ignore_eos]
          BY <4>1 DEF Submit
        <5>2. req'[q] = req[q] \/ req'[q] = [req[q] EXCEPT !.stage = "inbox", !.prompt = w.prompt,
                                   !.output = w.max_tokens, !.ignore_eos = w.ignore_eos]
          BY <1>1, <5>1
        <5>3. req[q] \in ReqRecord
          BY <1>1
        <5> QED BY <5>2, <5>3 DEF ReqRecord
      <4>2. CASE ProcessMsg
        <5> DEFINE r == Head(inbox)
                   out == Lesser(req[r].output, MaxOutputLen(r))
        <5>1. \/ req' = [req EXCEPT ![r] = [NoReq EXCEPT !.stage = "dropped"]]
              \/ req' = [req EXCEPT ![r].stage = "pending", ![r].output = out]
          BY <4>2 DEF ProcessMsg
        <5> HIDE DEF r, out
        <5>2. \/ req'[q] = req[q] \/ req'[q] = [NoReq EXCEPT !.stage = "dropped"]
              \/ req'[q] = [req[q] EXCEPT !.stage = "pending", !.output = out]
          BY <1>1, <5>1
        <5>3. req[q] \in ReqRecord
          BY <1>1
        <5> QED BY <5>2, <5>3 DEF ReqRecord, NoReq
      <4> QED BY <1>3, <4>1, <4>2
    <3> QED BY <3>2, <3>3
  <2>5. Fresh'
    BY <2>4 DEF Fresh
  <2> QED BY <2>2, <2>3, <2>5 DEF Batches
<1> QED BY <1>2, <1>3

LEMMA NextKeepsBatches == IInv /\ Numbers /\ Kept /\ Batches /\ [Next]_vars => Batches'
<1> SUFFICES ASSUME IInv, Numbers, Kept, Batches, [Next]_vars PROVE Batches'
  OBVIOUS
<1> QED BY StillBatches, JoinBatches, ComputeBatches, MessageBatches DEF Next, Step, Select

LEMMA AlwaysBatches == Spec => []Batches
BY Inductive, AlwaysNumbers, AlwaysKept, InitBatches, NextKeepsBatches, PTL DEF Spec

-----------------------------------------------------------------------------
(* What Serving sees of the state, and the steps that leave it alone.       *)

Active == pc \in {"alloc", "forward", "output"}

Unseen ==
  inbox' = inbox /\ Queue' = Queue /\ Streaming' = Streaming /\ Left' = Left /\ Asked' = Asked

(* Those ahead of the pending list are the prefills that are whole.          *)
AheadKnown ==
  /\ ~ Active => Ahead = <<>>
  /\ Active /\ NextBatch => Ahead = <<>>
  /\ \A k : Active /\ FirstBatch(k) => Ahead = SubSeq(batch, 1, k)

LEMMA AheadIs == IInv => AheadKnown
<1> SUFFICES ASSUME IInv PROVE AheadKnown
  OBVIOUS
<1>1. Typed /\ batch \in Seq(Reqs)
  BY DEF IInv, Typed
<1>2. ~ Active => Ahead = <<>>
  BY DEF Active, Ahead
<1>3. ASSUME NEW i \in 1..Len(batch)
      PROVE  /\ Len(req[batch[i]].ids) \in Nat /\ InputLen(batch[i]) \in Nat
             /\ batch[i] \in Reqs
  <2>1. batch[i] \in Reqs
    BY <1>1, Members
  <2> QED BY <1>1, <2>1, ReqFields DEF Typed, InputLen
<1>4. ASSUME NextBatch, Active PROVE Ahead = <<>>
  <2>1. ASSUME NEW i \in 1..Len(batch) PROVE Len(req[batch[i]].ids) # InputLen(batch[i])
    <3>1. Len(req[batch[i]].ids) > InputLen(batch[i])
      BY <1>4 DEF NextBatch, Streaming
    <3> QED BY <1>3, <3>1
  <2>2. FirstTimers = {}
    BY <2>1 DEF FirstTimers
  <2>3. Cardinality(FirstTimers) = 0
    BY <2>2, FS_EmptySet
  <2>4. Ahead = SubSeq(batch, 1, 0)
    BY <1>4, <2>3 DEF Ahead, Active
  <2>5. SubSeq(batch, 1, 0) = <<>>
    BY <1>1
  <2> QED BY <2>4, <2>5
<1>5. ASSUME NEW k, FirstBatch(k), Active PROVE Ahead = SubSeq(batch, 1, k)
  <2>1. k \in Nat /\ Len(batch) \in Nat /\ (k = Len(batch) \/ k = Len(batch) - 1)
    BY <1>1, <1>5, Members DEF FirstBatch
  <2>2. \A i \in 1..k : i \in 1..Len(batch) /\ Len(req[batch[i]].ids) = InputLen(batch[i])
    BY <1>5, <2>1 DEF FirstBatch, Whole
  <2>3. ASSUME NEW i \in 1..Len(batch), i \notin 1..k
        PROVE  Len(req[batch[i]].ids) # InputLen(batch[i])
    <3>1. i \in k + 1 .. Len(batch)
      BY <2>1, <2>3
    <3>2. Len(req[batch[i]].ids) < InputLen(batch[i])
      BY <1>5, <3>1 DEF FirstBatch, Cut
    <3> QED BY <1>3, <3>2
  <2>4. FirstTimers = 1..k
    BY <2>2, <2>3 DEF FirstTimers
  <2>5. Cardinality(1..k) = k
    <3>1. 1 \in Int /\ k \in Int
      BY <2>1
    <3>2. Cardinality(1..k) = IF 1 > k THEN 0 ELSE k - 1 + 1
      BY <3>1, FS_Interval
    <3>3. (IF 1 > k THEN 0 ELSE k - 1 + 1) = k
      BY <2>1
    <3> QED BY <3>2, <3>3
  <2> QED BY <1>5, <2>4, <2>5 DEF Ahead, Active
<1> QED BY <1>2, <1>4, <1>5 DEF AheadKnown

(* A request that keeps its texts and stays as far is seen as before.        *)
LEMMA SameSeen ==
  ASSUME \A r \in Reqs : SameText(r), finished' = finished
  PROVE  Streaming' = Streaming /\ Left' = Left /\ Asked' = Asked
<1>1. ASSUME NEW r \in Reqs
      PROVE  /\ Over(r)' <=> Over(r)
             /\ req'[r].stage = req[r].stage /\ InputLen(r)' = InputLen(r)
             /\ req'[r].prompt = req[r].prompt /\ req'[r].output = req[r].output
             /\ req'[r].ignore_eos = req[r].ignore_eos /\ req'[r].ids = req[r].ids
  BY DEF SameText, Over, InputLen
<1>2. Streaming' = Streaming
  <2>1. Live' = Live /\ Live \subseteq Reqs
    BY <1>1 DEF Live
  <2> QED BY <1>1, <2>1 DEF Streaming
<1>3. Left' = Left
  BY <1>1 DEF Left
<1>4. Asked' = Asked
  BY <1>1 DEF Asked
<1> QED BY <1>2, <1>3, <1>4

(* Where the queue does not change with the place in the loop.               *)
LEMMA SameQueue ==
  ASSUME pending' = pending,
         \/ ~ Active /\ ~ Active'
         \/ Active /\ Active' /\ batch' = batch /\ Typed /\ \A r \in Reqs : SameText(r)
  PROVE  Queue' = Queue
<1>1. CASE ~ Active /\ ~ Active'
  BY <1>1 DEF Active, Queue, Ahead
<1>2. CASE Active /\ Active' /\ batch' = batch /\ Typed /\ \A r \in Reqs : SameText(r)
  <2>1. \A i \in 1..Len(batch) : batch[i] \in Reqs
    BY <1>2, Members
  <2>2. FirstTimers' = FirstTimers
    BY <1>2, <2>1 DEF FirstTimers, SameText, InputLen
  <2> QED BY <1>2, <2>2 DEF Active, Queue, Ahead
<1> QED BY <1>1, <1>2

(* A batch b of n is taken off a list p, c its last one if it is cut short:  *)
(* the k others, that one and what is left make up the list.                 *)
TakenOff(p, b, n, k, c) ==
  /\ n \in Nat /\ n = Len(b) /\ n <= Len(p) /\ \A i \in 1..n : b[i] = p[i]
  /\ k \in Nat
  /\ \/ k = n /\ c = <<>>
     \/ k = n - 1 /\ Len(c) = 1 /\ c[1] = b[n]

Together(p, b, n, k, c) == SubSeq(b, 1, k) \o (c \o SubSeq(p, n + 1, Len(p)))

LEMMA Rejoined ==
  ASSUME NEW T, NEW p \in Seq(T), NEW b \in Seq(T), NEW c \in Seq(T), NEW n, NEW k,
         TakenOff(p, b, n, k, c)
  PROVE  Together(p, b, n, k, c) = p
<1> USE DEF TakenOff
<1> DEFINE m == Len(p)
           a == SubSeq(b, 1, k)
           w == SubSeq(p, n + 1, m)
           v == c \o w
           u == a \o v
<1>1. m \in Nat /\ n <= m /\ k <= n
  <2>1. m \in Nat
    BY LenProperties
  <2> QED BY <2>1
<1>2. a \in Seq(T) /\ Len(a) = k /\ \A i \in 1..k : a[i] = b[i]
  BY <1>1, FirstElements
<1>3. w \in Seq(T) /\ Len(w) = m - n /\ \A i \in 1 .. m - n : w[i] = p[n + i]
  <2>1. w \in Seq(T) /\ Len(w) = m - n
    BY <1>1, Slice
  <2>2. \A i \in 1 .. m - n : w[i] = p[n + i]
    BY <1>1
  <2> QED BY <2>1, <2>2
<1>4. Len(c) = n - k /\ Len(c) \in Nat
  <2>1. CASE k = n /\ c = <<>>
    <3>1. Len(c) = 0
      BY <2>1
    <3> QED BY <2>1, <3>1
  <2>2. CASE k = n - 1 /\ Len(c) = 1
    BY <2>2
  <2> QED BY <2>1, <2>2
<1> HIDE DEF a, w, v, u, m
<1>5. /\ v \in Seq(T) /\ Len(v) = m - k
      /\ \A i \in 1 .. m - k : v[i] = IF i <= n - k THEN c[i] ELSE w[i - (n - k)]
  <2>1. /\ c \o w \in Seq(T) /\ Len(c \o w) = Len(c) + Len(w)
        /\ \A i \in 1 .. Len(c) + Len(w) : (c \o w)[i] = IF i <= Len(c) THEN c[i] ELSE w[i - Len(c)]
    BY <1>3, ConcatProperties
  <2>2. Len(c) + Len(w) = m - k
    BY <1>1, <1>3, <1>4
  <2> QED BY <1>4, <2>1, <2>2 DEF v
<1>6. a \in Seq(T) /\ v \in Seq(T)
  BY <1>2, <1>5
<1>7. /\ u \in Seq(T) /\ Len(u) = m
      /\ \A i \in 1..m : u[i] = IF i <= k THEN a[i] ELSE v[i - k]
  <2>1. /\ a \o v \in Seq(T) /\ Len(a \o v) = Len(a) + Len(v)
        /\ \A i \in 1 .. Len(a) + Len(v) : (a \o v)[i] = IF i <= Len(a) THEN a[i] ELSE v[i - Len(a)]
    BY <1>6, ConcatProperties
  <2>2. Len(a) + Len(v) = m
    BY <1>1, <1>2, <1>5
  <2> QED BY <1>2, <2>1, <2>2 DEF u
<1>8. ASSUME NEW i \in 1..m PROVE u[i] = p[i]
  <2>1. CASE i <= k
    <3>1. i \in 1..k /\ i \in 1..n
      BY <1>1, <2>1
    <3> QED BY <1>2, <1>7, <2>1, <3>1
  <2>2. CASE ~ (i <= k) /\ i <= n
    <3>1. i = n /\ k = n - 1 /\ c[1] = b[n] /\ i - k = 1 /\ i - k <= n - k /\ i - k \in 1 .. m - k
          /\ i \in 1..n
      BY <1>1, <2>2
    <3>2. u[i] = v[i - k] /\ v[i - k] = c[i - k]
      BY <1>5, <1>7, <2>2, <3>1
    <3> QED BY <3>1, <3>2
  <2>3. CASE ~ (i <= n)
    <3>1. /\ ~ (i <= k) /\ ~ (i - k <= n - k) /\ i - k \in 1 .. m - k
          /\ i - n \in 1 .. m - n /\ (i - k) - (n - k) = i - n /\ n + (i - n) = i
      BY <1>1, <2>3
    <3>2. u[i] = v[i - k] /\ v[i - k] = w[(i - k) - (n - k)]
      BY <1>5, <1>7, <3>1
    <3>3. w[i - n] = p[n + (i - n)]
      BY <1>3, <3>1
    <3> QED BY <3>1, <3>2, <3>3
  <2> QED BY <2>1, <2>2, <2>3
<1>9. u = p
  BY <1>7, <1>8, SeqEqual DEF m
<1> QED BY <1>9 DEF u, v, w, a, m, Together

(* The end of admission moves requests from one list to another, and nobody  *)
(* past anybody else.                                                        *)
LEMMA SelectQueue ==
  ASSUME IInv, Numbers, Kept, Batches, IInv', Admitting, SelectBatch,
         running' = running, finished' = finished, \A r \in Reqs : SameText(r)
  PROVE  Queue' = Queue
<1>1. Typed /\ ListsOK /\ pending \in Seq(Reqs) /\ batch \in Seq(Reqs) /\ chunked_list \in Seq(Reqs)
  BY DEF IInv, Typed
<1>2. Queue = <<>> \o pending
  BY DEF Admitting, Queue, Ahead
<1>3. <<>> \o pending = pending
  BY <1>1, ConcatEmptySeq
<1>4. pc' \in {"alloc", "recv"} /\ (batch = <<>> => NextBatch')
  BY SelectKind
<1>5. /\ ~ Active' => Ahead' = <<>>
      /\ Active' /\ NextBatch' => Ahead' = <<>>
      /\ \A k : Active' /\ FirstBatch(k)' => Ahead' = SubSeq(batch', 1, k)
  <2>1. AheadKnown'
    BY AheadIs, PTL
  <2> QED BY <2>1 DEF AheadKnown
<1>6. CASE batch = <<>>
  <2>1. pending' = pending
    BY <1>6, SelectLists
  <2>2. Ahead' = <<>>
    <3>1. CASE pc' = "alloc"
      <4>1. NextBatch'
        BY <1>4, <1>6
      <4> QED BY <1>5, <3>1, <4>1 DEF Active
    <3>2. CASE pc' = "recv"
      BY <1>5, <3>2 DEF Active
    <3> QED BY <1>4, <3>1, <3>2
  <2> QED BY <1>2, <2>1, <2>2 DEF Queue
<1>7. CASE batch # <<>>
  <2>1. batch' = batch /\ pc' = "alloc" /\ pending' = StillPending
    BY <1>7 DEF SelectBatch
  <2>2. PICK k : k = Len(batch) - Len(chunked_list) /\ FirstBatch(k)
    BY DEF Batches, AdmittedSoFar
  <2>3. Ahead' = SubSeq(batch, 1, k)
    <3>1. FirstBatch(k)'
      BY <1>1, <2>1, <2>2, KindStays
    <3> QED BY <1>5, <2>1, <3>1 DEF Active
  <2>4. PICK n \in Nat : n = Len(batch)
    BY <1>1, Members
  <2>5. n <= Len(pending) /\ (\A i \in 1..n : batch[i] = pending[i]) /\ Len(chunked_list) <= 1
        /\ Len(chunked_list) \in Nat
    BY <1>1, <2>4, Members DEF ListsOK, AdmissionOK
  <2>6. /\ k \in Nat
        /\ \/ k = n /\ chunked_list = <<>>
           \/ k = n - 1 /\ Len(chunked_list) = 1 /\ chunked_list[1] = batch[n]
    <3>1. k \in Nat
      BY <2>2 DEF FirstBatch
    <3>2. CASE chunked_list = <<>>
      <4>1. Len(chunked_list) = 0
        BY <3>2
      <4> QED BY <2>2, <2>4, <3>1, <3>2, <4>1
    <3>3. CASE chunked_list # <<>>
      <4>1. chunked_list = <<batch[n]>>
        BY <2>4, <3>3 DEF Batches, AdmittedSoFar
      <4>2. Len(chunked_list) = 1 /\ chunked_list[1] = batch[n]
        BY <4>1
      <4> QED BY <2>2, <2>4, <3>1, <4>2
    <3> QED BY <3>2, <3>3
  <2>7. Together(pending, batch, n, k, chunked_list) = pending
    <3>1. pending \in Seq(Reqs) /\ batch \in Seq(Reqs) /\ chunked_list \in Seq(Reqs)
      BY <1>1
    <3>2. n <= Len(pending) /\ \A i \in 1..n : batch[i] = pending[i]
      BY <2>5
    <3>3. \/ k = n /\ chunked_list = <<>>
          \/ k = n - 1 /\ Len(chunked_list) = 1 /\ chunked_list[1] = batch[n]
      BY <2>6
    <3>4. TakenOff(pending, batch, n, k, chunked_list)
      BY <2>4, <2>6, <3>2, <3>3 DEF TakenOff
    <3> QED BY <3>1, <3>4, Rejoined
  <2>8. pending' = chunked_list \o SubSeq(pending, n + 1, Len(pending))
    BY <2>1, <2>4 DEF StillPending
  <2> QED BY <1>2, <1>3, <2>3, <2>7, <2>8 DEF Queue, Together
<1> QED BY <1>6, <1>7

LEMMA QuietUnseen ==
  ASSUME IInv, Numbers, Kept, Batches, IInv',
         \/ StartStep \/ StopAdmission \/ TryAllocate \/ EvictForSlot \/ Starved
         \/ PrepareReq \/ EvictForPages \/ EndPrepare \/ Forward \/ EndStep \/ RunWhenIdle
         \/ UNCHANGED vars
  PROVE  Unseen
<1>1. Typed
  BY DEF IInv
<1>2. \A r \in Reqs : SameText(r)
  BY TextStays
<1>3. inbox' = inbox /\ finished' = finished
  <2>1. CASE TryAllocate \/ Starved
    BY <2>1, TryAllocateFacts, StarvedFacts DEF TryAllocate, Starved
  <2>2. CASE \/ StartStep \/ StopAdmission \/ EvictForSlot \/ PrepareReq \/ EvictForPages
             \/ EndPrepare \/ Forward \/ EndStep \/ RunWhenIdle \/ UNCHANGED vars
    BY <2>2 DEF StartStep, StopAdmission, EvictForSlot, PrepareReq, EvictForPages,
                EndPrepare, Forward, EndStep, RunWhenIdle, vars, lists
  <2> QED BY <2>1, <2>2
<1>4. Streaming' = Streaming /\ Left' = Left /\ Asked' = Asked
  BY <1>2, <1>3, SameSeen
<1>5. Queue' = Queue
  <2>1. CASE Admitting /\ SelectBatch /\ running' = running
    BY <1>2, <1>3, <2>1, SelectQueue
  <2>2. CASE pending' = pending /\ ~ Active /\ ~ Active'
    BY <2>2, SameQueue
  <2>3. CASE pending' = pending /\ Active /\ Active' /\ batch' = batch
    BY <1>1, <1>2, <2>3, SameQueue
  <2>4. CASE UNCHANGED <<pending, batch, pc>>
    <3>1. Active' <=> Active
      BY <2>4 DEF Active
    <3> QED BY <1>1, <1>2, <2>4, <3>1, SameQueue
  <2>5. TryAllocate => \/ Admitting /\ SelectBatch /\ running' = running
                       \/ pending' = pending /\ ~ Active /\ ~ Active'
    BY DEF TryAllocate, Admitting, Active
  <2>6. Starved \/ StopAdmission => Admitting /\ SelectBatch /\ running' = running
    BY DEF Starved, StopAdmission, Admitting
  <2>7. EvictForSlot \/ PrepareReq \/ EvictForPages \/ RunWhenIdle \/ UNCHANGED vars
          => UNCHANGED <<pending, batch, pc>>
    BY DEF EvictForSlot, PrepareReq, EvictForPages, RunWhenIdle, vars, lists
  <2>8. StartStep \/ EndStep => pending' = pending /\ ~ Active /\ ~ Active'
    BY DEF StartStep, EndStep, lists, Active
  <2>9. EndPrepare \/ Forward => pending' = pending /\ Active /\ Active' /\ batch' = batch
    BY DEF EndPrepare, Forward, lists, Active
  <2> QED BY <2>1, <2>2, <2>3, <2>4, <2>5, <2>6, <2>7, <2>8, <2>9
<1> QED BY <1>3, <1>4, <1>5 DEF Unseen

LEMMA JoinUnseen ==
  ASSUME IInv, Numbers, Batches,
         ContinueChunk \/ AdmitWithoutSlot \/ AdmitWithFreeSlot \/ AdmitWithShedSlot
  PROVE  Unseen
<1>1. Typed /\ ListsOK /\ req \in [Reqs -> ReqRecord]
  BY DEF IInv, Typed
<1>2. /\ Admitting /\ pc' = "admit" /\ UNCHANGED <<inbox, pending, finished>>
  BY JoinFacts
<1>3. PICK r \in Reqs :
        /\ r = Current /\ req[r].stage \in {"pending", "live"} /\ req'[r].stage = "live"
        /\ req[r].stage = "live" => req[r].chunked
        /\ req'[r].prompt = req[r].prompt /\ req'[r].output = req[r].output
        /\ req'[r].ignore_eos = req[r].ignore_eos
        /\ Len(req'[r].ids) <= InputLen(r) /\ Len(req'[r].ids) \in Nat
        /\ \A q \in Reqs \ {r} : req'[q] = req[q]
  BY JoinText
<1>4. finished = {}
  BY <1>1, <1>2 DEF Admitting, ListsOK, PlacesOK
<1>5. Len(req[r].ids) <= InputLen(r) /\ InputLen(r) \in Nat /\ Len(req[r].ids) \in Nat
  <2>1. InputLen(r) \in Nat /\ Len(req[r].ids) \in Nat
    BY <1>1, ReqFields DEF InputLen
  <2>2. CASE req[r].stage = "pending"
    <3>1. req[r].ids = <<>>
      BY <2>2 DEF Batches, Fresh
    <3>2. Len(req[r].ids) = 0
      BY <3>1
    <3> QED BY <2>1, <3>2
  <2>3. CASE req[r].stage = "live"
    <3>1. Len(req[r].ids) < InputLen(r)
      BY <1>3, <2>3 DEF Numbers, AdmittedSizes, LiveSizes, Live, InputLen
    <3> QED BY <2>1, <3>1
  <2> QED BY <1>3, <2>2, <2>3
<1>6. ~ (Len(req[r].ids) > InputLen(r)) /\ ~ (Len(req'[r].ids) > InputLen(r))
      /\ InputLen(r)' = InputLen(r)
  <2>1. InputLen(r)' = InputLen(r)
    BY <1>3 DEF InputLen
  <2> QED BY <1>3, <1>5, <2>1
<1>7. /\ ~ Over(r) /\ ~ Over(r)' /\ req[r].stage # "inbox" /\ req'[r].stage # "inbox"
      /\ \A q \in Reqs \ {r} : Over(q)' <=> Over(q)
  BY <1>2, <1>3, <1>4 DEF Over
<1>8. Streaming' = Streaming
  BY <1>2, <1>3, <1>6 DEF Streaming, Live, InputLen
<1>9. Left' = Left
  <2>1. ASSUME NEW q \in Reqs PROVE Left'[q] = Left[q]
    <3>1. CASE q = r
      BY <1>3, <1>5, <1>6, <1>7, <3>1 DEF Left
    <3>2. CASE q # r
      BY <1>3, <1>7, <3>2 DEF Left, InputLen
    <3> QED BY <3>1, <3>2
  <2> QED BY <2>1 DEF Left
<1>10. Asked' = Asked
  <2>1. ASSUME NEW q \in Reqs PROVE Asked'[q] = Asked[q]
    <3>1. CASE q = r
      BY <1>3, <1>7, <3>1 DEF Asked
    <3>2. CASE q # r
      BY <1>3, <1>7, <3>2 DEF Asked
    <3> QED BY <3>1, <3>2
  <2> QED BY <2>1 DEF Asked
<1>11. Queue' = Queue
  <2>1. ~ Active /\ ~ Active'
    BY <1>2 DEF Active, Admitting
  <2> QED BY <1>2, <2>1, SameQueue
<1> QED BY <1>2, <1>8, <1>9, <1>10, <1>11 DEF Unseen

(* A request that is cleaned up was over already.                            *)
LEMMA CleanupUnseen ==
  ASSUME IInv, Cleanup
  PROVE  Unseen
<1>1. Typed /\ ListsOK /\ req \in [Reqs -> ReqRecord]
  BY DEF IInv, Typed
<1>2. /\ pc = "cleanup" /\ pc' = "cleanup" /\ UNCHANGED <<inbox, pending>>
      /\ \E r \in finished : FreeAndCache(r) /\ finished' = finished \ {r}
  BY DEF Cleanup
<1>3. PICK r \in finished : FreeAndCache(r) /\ finished' = finished \ {r}
  BY <1>2
<1>4. r \in Reqs
  BY <1>1 DEF Typed
<1>5. req' = [req EXCEPT ![r] = [NoReq EXCEPT !.stage = "done"]]
  BY <1>3 DEF FreeAndCache
<1>6. req'[r].stage = "done" /\ \A q \in Reqs \ {r} : req'[q] = req[q]
  BY <1>1, <1>4, <1>5 DEF NoReq
<1>7. Over(r) /\ Over(r)' /\ \A q \in Reqs \ {r} : Over(q)' <=> Over(q)
  BY <1>3, <1>6 DEF Over
<1>8. Streaming' = Streaming
  <2>1. r \notin Live' /\ \A q \in Reqs \ {r} : q \in Live' <=> q \in Live
    BY <1>6 DEF Live
  <2>2. Live \subseteq Reqs /\ Live' \subseteq Reqs
    BY DEF Live
  <2> QED BY <1>3, <1>6, <2>1, <2>2 DEF Streaming, InputLen
<1>9. Left' = Left
  <2>1. ASSUME NEW q \in Reqs PROVE Left'[q] = Left[q]
    <3>1. CASE q = r
      BY <1>7, <3>1 DEF Left
    <3>2. CASE q # r
      BY <1>6, <1>7, <3>2 DEF Left, InputLen
    <3> QED BY <3>1, <3>2
  <2> QED BY <2>1 DEF Left
<1>10. Asked' = Asked
  <2>1. ASSUME NEW q \in Reqs PROVE Asked'[q] = Asked[q]
    <3>1. CASE q = r
      BY <1>7, <3>1 DEF Asked
    <3>2. CASE q # r
      BY <1>6, <1>7, <3>2 DEF Asked
    <3> QED BY <3>1, <3>2
  <2> QED BY <2>1 DEF Asked
<1>11. Queue' = Queue
  BY <1>2, SameQueue DEF Active
<1> QED BY <1>2, <1>8, <1>9, <1>10, <1>11 DEF Unseen

-----------------------------------------------------------------------------
(* The tokens.                                                              *)

(* A request of the batch that is whole has one token more to get than the   *)
(* lengths leave room for once this one is there.                            *)
LEMMA LeftIs ==
  ASSUME IInv, Numbers, Rooms, Batches, pc = "output", Sampled \subseteq Live, finished = {}
  PROVE  \A r \in Sampled :
           /\ ~ Over(r) /\ RemainLen(r) \in Nat /\ Left[r] = RemainLen(r) + 1
           /\ Len(req[r].ids) \in Nat /\ InputLen(r) \in Nat /\ req[r].output \in Nat
           /\ Len(req[r].ids) >= InputLen(r)
           /\ Left[r] = InputLen(r) + req[r].output - Len(req[r].ids)
<1> SUFFICES ASSUME NEW r \in Sampled
             PROVE  /\ ~ Over(r) /\ RemainLen(r) \in Nat /\ Left[r] = RemainLen(r) + 1
                    /\ Len(req[r].ids) \in Nat /\ InputLen(r) \in Nat /\ req[r].output \in Nat
                    /\ Len(req[r].ids) >= InputLen(r)
                    /\ Left[r] = InputLen(r) + req[r].output - Len(req[r].ids)
  OBVIOUS
<1>1. Typed /\ LengthsOK /\ req \in [Reqs -> ReqRecord]
  BY DEF IInv, Typed
<1>2. r \in Reqs /\ req[r].stage = "live" /\ ~ req[r].chunked
  BY DEF Live, Sampled
<1>3. PICK n, l, o, d, m \in Nat :
        /\ n = Len(req[r].ids) /\ l = InputLen(r) /\ o = req[r].output
        /\ d = req[r].device /\ m = req[r].max_device
  BY <1>1, <1>2, ReqFields DEF InputLen
<1>4. d = n + 1
  <2>1. PICK i \in 1..Len(batch) : batch[i] = r
    BY SampledIs DEF Sampled
  <2> QED BY <1>1, <1>3, <2>1 DEF LengthsOK, DeviceLengths
<1>5. m = l + o
  BY <1>2, <1>3 DEF Rooms, Room, Live, InputLen
<1>6. d <= m
  BY <1>2, <1>3 DEF Numbers, AdmittedSizes, LiveSizes, Live
<1>7. n >= l
  <2>1. CASE \E k \in 0..Len(batch) : FirstBatch(k)
    BY <1>3, <2>1, SampledIs
  <2>2. CASE NextBatch
    <3>1. r \in Streaming
      BY <2>2, SampledIs
    <3> QED BY <1>3, <3>1 DEF Streaming
  <2> QED BY <2>1, <2>2 DEF Batches, OneKind
<1>8. ~ Over(r) /\ req[r].stage # "inbox"
  BY <1>2 DEF Over
<1>9. Left[r] = IF n <= l THEN o ELSE l + o - n
  BY <1>2, <1>3, <1>8 DEF Left
<1>10. Left[r] = l + o - n
  <2>1. CASE n <= l
    <3>1. n = l
      BY <1>7, <2>1
    <3> QED BY <1>9, <3>1
  <2>2. CASE ~ (n <= l)
    BY <1>9, <2>2
  <2> QED BY <2>1, <2>2
<1>11. RemainLen(r) = m - d
  BY <1>3 DEF RemainLen
<1>12. m - d \in Nat /\ l + o - n = (m - d) + 1
  BY <1>4, <1>5, <1>6
<1> QED BY <1>3, <1>7, <1>8, <1>10, <1>11, <1>12

(* The batch's tokens go to the requests that Serving gives them to, and end *)
(* the streams that it ends.                                                 *)
LEMMA OutputGives ==
  ASSUME IInv, Numbers, Rooms, Batches, Output
  PROVE  \E next \in [Sampled -> Vocab] : Promise!Give(Sampled, next)
<1>1. PICK next \in [Sampled -> Vocab], done \in SUBSET Sampled :
        /\ done = {r \in Sampled : Finishes(r, next[r])}
        /\ pc = "output" /\ finished = {} /\ finished' = done
        /\ Sampled \subseteq Live
        /\ \A r \in Sampled : Len(req'[r].ids) = Len(req[r].ids) + 1
        /\ \A r \in Reqs \ Sampled : req'[r] = req[r]
        /\ \A r \in Reqs :
             /\ req'[r].stage = req[r].stage /\ req'[r].prompt = req[r].prompt
             /\ req'[r].output = req[r].output /\ req'[r].ignore_eos = req[r].ignore_eos
  BY OutputText
<1>2. \A r \in Sampled :
        /\ ~ Over(r) /\ RemainLen(r) \in Nat /\ Left[r] = RemainLen(r) + 1
        /\ Len(req[r].ids) \in Nat /\ InputLen(r) \in Nat /\ req[r].output \in Nat
        /\ Len(req[r].ids) >= InputLen(r)
        /\ Left[r] = InputLen(r) + req[r].output - Len(req[r].ids)
  BY <1>1, LeftIs
<1>3. Sampled \subseteq Reqs /\ \A r \in Sampled : req[r].stage = "live" /\ ~ req[r].chunked
  BY <1>1 DEF Live, Sampled
<1> DEFINE over == {r \in Sampled : Left[r] = 1 \/ (next[r] = Eos /\ ~ Asked[r].ignore_eos)}
<1>4. over = done
  <2> SUFFICES ASSUME NEW r \in Sampled
               PROVE  (Left[r] = 1 \/ (next[r] = Eos /\ ~ Asked[r].ignore_eos))
                        <=> Finishes(r, next[r])
    BY <1>1
  <2>1. Asked[r].ignore_eos = req[r].ignore_eos
    BY <1>2, <1>3 DEF Asked
  <2>2. CanDecode(r) <=> RemainLen(r) > 0
    BY <1>3 DEF CanDecode
  <2>3. Left[r] = 1 <=> ~ (RemainLen(r) > 0)
    <3>1. PICK m \in Nat : m = RemainLen(r) /\ Left[r] = m + 1
      BY <1>2
    <3> QED BY <3>1
  <2> QED BY <2>1, <2>2, <2>3 DEF Finishes
<1> HIDE DEF over
<1>5. \A r \in Reqs : Over(r)' <=> (r \in done \/ Over(r))
  BY <1>1 DEF Over
<1>6. Left' = [r \in Reqs |-> IF r \in over THEN 0
                              ELSE IF r \in Sampled THEN Left[r] - 1 ELSE Left[r]]
  <2>1. ASSUME NEW r \in Reqs
        PROVE  Left'[r] = IF r \in over THEN 0 ELSE IF r \in Sampled THEN Left[r] - 1 ELSE Left[r]
    <3>1. CASE r \in done
      <4>1. Left'[r] = 0
        BY <1>5, <3>1 DEF Left
      <4> QED BY <1>4, <3>1, <4>1
    <3>2. CASE r \in Sampled /\ r \notin done
      <4>1. ~ Over(r)' /\ req'[r].stage # "inbox"
        BY <1>1, <1>2, <1>3, <1>5, <3>2
      <4>2. PICK n, l, o \in Nat :
              n = Len(req[r].ids) /\ l = InputLen(r) /\ o = req[r].output /\ n >= l
        BY <1>2, <3>2
      <4>3. /\ Len(req'[r].ids) = n + 1 /\ InputLen(r)' = l /\ req'[r].output = o
            /\ Left[r] = l + o - n
        BY <1>1, <1>2, <3>2, <4>2 DEF InputLen
      <4>4. Left'[r] = IF n + 1 <= l THEN o ELSE l + o - (n + 1)
        <5>1. r \in Reqs
          BY <1>3, <3>2
        <5>2. Left'[r] = IF Len(req'[r].ids) <= InputLen(r)' THEN req'[r].output
                         ELSE InputLen(r)' + req'[r].output - Len(req'[r].ids)
          BY <4>1, <5>1 DEF Left
        <5> QED BY <4>3, <5>2
      <4>5. ~ (n + 1 <= l) /\ l + o - (n + 1) = (l + o - n) - 1
        <5>1. n >= l
          BY <4>2
        <5> QED BY <5>1
      <4>6. Left'[r] = Left[r] - 1
        BY <4>3, <4>4, <4>5
      <4> QED BY <1>4, <3>2, <4>6
    <3>3. CASE r \notin Sampled
      <4>1. req'[r] = req[r] /\ r \notin done
        BY <1>1, <3>3
      <4>2. Left'[r] = Left[r]
        BY <1>5, <4>1 DEF Left, InputLen
      <4> QED BY <1>4, <3>3, <4>1, <4>2
    <3> QED BY <3>1, <3>2, <3>3
  <2>2. DOMAIN Left' = Reqs /\ Left' = [r \in Reqs |-> Left'[r]]
    BY DEF Left
  <2> QED BY <2>1, <2>2
<1>7. Asked' = [r \in Reqs |-> IF r \in over THEN Promise!No ELSE Asked[r]]
  <2>1. ASSUME NEW r \in Reqs
        PROVE  Asked'[r] = IF r \in over THEN Promise!No ELSE Asked[r]
    <3>1. CASE r \in done
      <4>1. Asked'[r] = Promise!No
        BY <1>5, <3>1 DEF Asked, Promise!No
      <4> QED BY <1>4, <3>1, <4>1
    <3>2. CASE r \notin done
      <4>1. Asked'[r] = Asked[r]
        BY <1>1, <1>5, <3>2 DEF Asked
      <4> QED BY <1>4, <3>2, <4>1
    <3> QED BY <3>1, <3>2
  <2>2. Asked' = [r \in Reqs |-> Asked'[r]]
    BY DEF Asked
  <2> QED BY <2>1, <2>2
<1>8. Streaming' = (Streaming \cup Sampled) \ over
  <2>1. \A r \in Sampled : Len(req'[r].ids) > InputLen(r)'
    <3> SUFFICES ASSUME NEW r \in Sampled PROVE Len(req'[r].ids) > Len(req'[r].prompt)
      BY DEF InputLen
    <3>1. PICK n, l \in Nat : n = Len(req[r].ids) /\ l = InputLen(r) /\ n >= l
      BY <1>2
    <3>2. Len(req'[r].ids) = n + 1 /\ Len(req'[r].prompt) = l
      BY <1>1, <1>3, <3>1 DEF InputLen
    <3> QED BY <3>1, <3>2
  <2>2. Live' = Live /\ Live \subseteq Reqs
    BY <1>1 DEF Live
  <2>3. \A r \in Reqs \ Sampled : Len(req'[r].ids) = Len(req[r].ids) /\ InputLen(r)' = InputLen(r)
    BY <1>1 DEF InputLen
  <2>4. Streaming' = (Streaming \cup Sampled) \ done
    <3>1. ASSUME NEW r \in Streaming' PROVE r \in (Streaming \cup Sampled) \ done
      BY <1>1, <2>2, <2>3, <3>1 DEF Streaming
    <3>2. ASSUME NEW r \in (Streaming \cup Sampled) \ done PROVE r \in Streaming'
      <4>1. r \in Live /\ r \notin finished'
        BY <1>1, <3>2 DEF Streaming
      <4>2. Len(req'[r].ids) > InputLen(r)'
        BY <2>1, <2>2, <2>3, <3>2 DEF Streaming
      <4> QED BY <2>2, <4>1, <4>2 DEF Streaming
    <3> QED BY <3>1, <3>2
  <2> QED BY <1>4, <2>4
<1> QED BY <1>6, <1>7, <1>8 DEF over, Promise!Give

LEMMA Popped ==
  ASSUME NEW T, NEW a \in Seq(T), NEW p \in Seq(T), NEW k, k = Len(a)
  PROVE  /\ k <= Len(a \o p) /\ \A i \in 1..k : (a \o p)[i] = a[i]
         /\ SubSeq(a \o p, k + 1, Len(a \o p)) = p
<1> DEFINE u == a \o p
           m == Len(p)
           q == SubSeq(u, k + 1, k + m)
<1>1. k \in Nat /\ m \in Nat
  BY LenProperties
<1>2. /\ u \in Seq(T) /\ Len(u) = k + m /\ \A i \in 1..k : u[i] = a[i]
      /\ \A i \in 1..m : u[k + i] = p[i]
  <2>1. /\ a \o p \in Seq(T) /\ Len(a \o p) = Len(a) + Len(p)
        /\ \A i \in 1..Len(a) : (a \o p)[i] = a[i]
        /\ \A i \in 1..Len(p) : (a \o p)[Len(a) + i] = p[i]
    BY Extended
  <2> QED BY <2>1
<1> HIDE DEF u
<1>3. q \in Seq(T) /\ Len(q) = m
  <2>1. k <= k + m /\ k + m <= Len(u) /\ k + m \in Nat /\ (k + m) - k = m
    BY <1>1, <1>2
  <2> HIDE DEF m
  <2> QED BY <1>1, <1>2, <2>1, Slice
<1>4. \A i \in 1..m : q[i] = u[k + i]
  BY <1>1, <1>2
<1> HIDE DEF q
<1>5. q = p
  BY <1>2, <1>3, <1>4, SeqEqual
<1>6. k <= k + m
  BY <1>1
<1> QED BY <1>2, <1>5, <1>6 DEF q, u

(* Sampling is one step of Serving, or none where no prompt is through.      *)
LEMMA OutputShown ==
  ASSUME IInv, Numbers, Rooms, Batches, Output
  PROVE  Unseen \/ Promise!FirstTokens \/ Promise!NextTokens
<1>1. Typed /\ pending \in Seq(Reqs) /\ batch \in Seq(Reqs) /\ req \in [Reqs -> ReqRecord]
  BY DEF IInv, Typed
<1>2. PICK done \in SUBSET Sampled :
        /\ pc = "output" /\ pc' = "cleanup" /\ UNCHANGED <<inbox, pending, batch>>
        /\ finished = {} /\ finished' = done
        /\ \A r \in Reqs \ Sampled : req'[r] = req[r]
  BY OutputText
<1>3. Active /\ AheadKnown
  BY <1>2, AheadIs DEF Active
<1>4. PICK next \in [Sampled -> Vocab] : Promise!Give(Sampled, next)
  BY OutputGives
<1>5. Queue' = <<>> \o pending
  BY <1>2 DEF Queue, Ahead
<1>6. <<>> \o pending = pending
  BY <1>1, ConcatEmptySeq
<1>7. ASSUME Sampled = {}, Ahead = <<>> PROVE Unseen
  <2>1. (\A r \in Reqs : SameText(r)) /\ finished' = finished
    BY <1>2, <1>7 DEF SameText
  <2>2. Queue' = Queue
    BY <1>5, <1>7 DEF Queue
  <2> QED BY <1>2, <2>1, <2>2, SameSeen DEF Unseen
<1>8. CASE NextBatch
  <2>1. Ahead = <<>> /\ Sampled = Streaming
    BY <1>3, <1>8, SampledIs DEF AheadKnown
  <2>2. CASE Streaming = {}
    BY <1>7, <2>1, <2>2
  <2>3. CASE Streaming # {}
    <3>1. Queue' = Queue
      BY <1>5, <2>1 DEF Queue
    <3> QED BY <1>2, <1>4, <2>1, <2>3, <3>1 DEF Promise!NextTokens
  <2> QED BY <2>2, <2>3
<1>9. CASE \E k \in 0..Len(batch) : FirstBatch(k)
  <2>1. PICK k \in 0..Len(batch) : FirstBatch(k)
    BY <1>9
  <2>2. Ahead = SubSeq(batch, 1, k) /\ Sampled = {batch[i] : i \in 1..k}
    BY <1>3, <2>1, SampledIs DEF AheadKnown
  <2>3. k \in Nat /\ Ahead \in Seq(Reqs) /\ Len(Ahead) = k /\ \A i \in 1..k : Ahead[i] = batch[i]
    <3>1. k \in Nat
      BY <2>1 DEF FirstBatch
    <3> QED BY <1>1, <2>2, <3>1, FirstElements
  <2>4. CASE k = 0
    <3>1. Ahead = <<>> /\ Sampled = {}
      BY <2>2, <2>3, <2>4, EmptySeq
    <3> QED BY <1>7, <3>1
  <2>5. CASE k # 0
    <3>1. /\ k <= Len(Queue) /\ \A i \in 1..k : Queue[i] = Ahead[i]
          /\ SubSeq(Queue, k + 1, Len(Queue)) = pending
      BY <1>1, <2>3, Popped DEF Queue
    <3>2. {Queue[i] : i \in 1..k} = Sampled
      BY <2>2, <2>3, <3>1
    <3>3. k \in 1..Len(Queue)
      <4>1. Len(Queue) \in Nat
        <5>1. Queue \in Seq(Reqs)
          BY <1>1, <2>3, ConcatProperties DEF Queue
        <5> QED BY <5>1, LenProperties
      <4> QED BY <2>3, <2>5, <3>1, <4>1
    <3>4. Queue' = SubSeq(Queue, k + 1, Len(Queue))
      BY <1>5, <1>6, <3>1
    <3> QED BY <1>2, <1>4, <3>2, <3>3, <3>4 DEF Promise!FirstTokens
  <2> QED BY <2>4, <2>5
<1>10. \/ NextBatch
       \/ \E k \in 0..Len(batch) : FirstBatch(k)
  BY <1>2 DEF Batches, OneKind
<1> QED BY <1>8, <1>9, <1>10

(* Arrival, and what becomes of a request that has arrived.                  *)
LEMMA SubmitShown ==
  ASSUME IInv, NEW r \in Reqs, Submit(r)
  PROVE  \E w \in Workload : Promise!Arrive(r, w)
<1>1. Typed /\ req \in [Reqs -> ReqRecord]
  BY DEF IInv, Typed
<1>2. PICK w \in Workload :
        req' = [req EXCEPT ![r].stage = "inbox", ![r].prompt = w.prompt,
                           ![r].output = w.max_tokens, ![r].ignore_eos = w.ignore_eos]
  BY DEF Submit
<1>3. /\ req[r].stage = "new" /\ pc = "recv" /\ inbox' = Append(inbox, r)
      /\ UNCHANGED <<pending, finished, pc>>
  BY DEF Submit
<1>4. req'[r] = [req[r] EXCEPT !.stage = "inbox", !.prompt = w.prompt,
                               !.output = w.max_tokens, !.ignore_eos = w.ignore_eos]
      /\ \A q \in Reqs \ {r} : req'[q] = req[q]
  BY <1>1, <1>2
<1>5. req'[r].stage = "inbox" /\ req'[r].prompt = w.prompt /\ req'[r].output = w.max_tokens
      /\ req'[r].ignore_eos = w.ignore_eos
  <2>1. req[r] \in ReqRecord
    BY <1>1
  <2> QED BY <1>4, <2>1 DEF ReqRecord
<1>6. finished = {}
  BY <1>3 DEF IInv, ListsOK, PlacesOK
<1>7. Over(r) /\ ~ Over(r)' /\ \A q \in Reqs \ {r} : Over(q)' <=> Over(q)
  BY <1>3, <1>4, <1>5, <1>6 DEF Over
<1>8. w = [prompt |-> w.prompt, max_tokens |-> w.max_tokens, ignore_eos |-> w.ignore_eos]
  <2>1. w \in [prompt : Seq(Vocab) \ {<<>>}, max_tokens : Nat \ {0}, ignore_eos : BOOLEAN]
    BY WorkloadAssumption
  <2> QED BY <2>1
<1>9. Asked[r] = Promise!No
  BY <1>7 DEF Asked, Promise!No
<1>10. Asked' = [Asked EXCEPT ![r] = w]
  <2>1. Asked'[r] = w
    BY <1>5, <1>7, <1>8 DEF Asked
  <2>2. \A q \in Reqs \ {r} : Asked'[q] = Asked[q]
    BY <1>4, <1>7 DEF Asked
  <2>3. Asked' = [q \in Reqs |-> Asked'[q]] /\ Asked = [q \in Reqs |-> Asked[q]]
    BY DEF Asked
  <2> HIDE DEF Asked
  <2> QED BY <2>1, <2>2, <2>3
<1>11. Left' = Left
  <2>1. Left[r] = 0 /\ Left'[r] = 0
    BY <1>5, <1>7 DEF Left
  <2>2. \A q \in Reqs \ {r} : Left'[q] = Left[q]
    BY <1>4, <1>7 DEF Left, InputLen
  <2>3. \A q \in Reqs : Left'[q] = Left[q]
    BY <2>1, <2>2
  <2> QED BY <2>3 DEF Left
<1>12. Streaming' = Streaming
  <2>1. r \notin Live /\ r \notin Live' /\ \A q \in Reqs \ {r} : q \in Live' <=> q \in Live
    BY <1>3, <1>4, <1>5 DEF Live
  <2>2. Live \subseteq Reqs /\ Live' \subseteq Reqs
    BY DEF Live
  <2> QED BY <1>3, <1>4, <2>1, <2>2 DEF Streaming, InputLen
<1>13. Queue' = Queue
  BY <1>3, SameQueue DEF Active
<1> QED BY <1>3, <1>9, <1>10, <1>11, <1>12, <1>13 DEF Promise!Arrive

LEMMA ProcessShown ==
  ASSUME IInv, Batches, ProcessMsg
  PROVE  \E r \in Reqs : Promise!Accept(r) \/ Promise!Drop(r)
<1>1. Typed /\ req \in [Reqs -> ReqRecord] /\ inbox \in Seq(Reqs) /\ pending \in Seq(Reqs)
  BY DEF IInv, Typed
<1>2. /\ pc = "recv" /\ pc' = "recv" /\ inbox # <<>> /\ inbox' = Tail(inbox) /\ finished' = finished
  BY DEF ProcessMsg
<1>3. PICK r \in Reqs : r = Head(inbox) /\ req[r].stage = "inbox"
  <2>1. Head(inbox) = inbox[1] /\ 1 \in 1..Len(inbox)
    BY <1>1, <1>2
  <2> QED BY <1>1, <2>1, Members DEF IInv, ListsOK, InboxOK
<1>4. finished = {}
  BY <1>2 DEF IInv, ListsOK, PlacesOK
<1>5. ~ Over(r) /\ Asked[r] = [prompt |-> req[r].prompt, max_tokens |-> req[r].output,
                               ignore_eos |-> req[r].ignore_eos]
  BY <1>3, <1>4 DEF Over, Asked
<1>6. Promise!Room(r) = MaxOutputLen(r)
  BY <1>5 DEF Promise!Room, MaxOutputLen, InputLen
<1>7. InputLen(r) \in Nat /\ req[r].output \in Nat /\ MaxOutputLen(r) \in Int
  BY <1>1, <1>3, ReqFields, Sizes DEF InputLen, MaxOutputLen
<1>8. Asked = [q \in Reqs |-> Asked[q]] /\ Asked' = [q \in Reqs |-> Asked'[q]]
      /\ Left = [q \in Reqs |-> Left[q]] /\ Left' = [q \in Reqs |-> Left'[q]]
  BY DEF Asked, Left
<1>9. ~ Active /\ ~ Active' /\ Ahead = <<>> /\ Ahead' = <<>>
  BY <1>2 DEF Active, Ahead
<1>10. CASE MaxOutputLen(r) <= 0
  <2>1. req' = [req EXCEPT ![r] = [NoReq EXCEPT !.stage = "dropped"]] /\ pending' = pending
    BY <1>3, <1>10 DEF ProcessMsg
  <2>2. req'[r].stage = "dropped" /\ \A q \in Reqs \ {r} : req'[q] = req[q]
    BY <1>1, <2>1 DEF NoReq
  <2>3. Over(r)' /\ \A q \in Reqs \ {r} : Over(q)' <=> Over(q)
    BY <1>2, <2>2 DEF Over
  <2>4. Asked' = [Asked EXCEPT ![r] = Promise!No]
    <3>1. Asked'[r] = Promise!No
      BY <2>3 DEF Asked, Promise!No
    <3>2. \A q \in Reqs \ {r} : Asked'[q] = Asked[q]
      BY <2>2, <2>3 DEF Asked
    <3> QED BY <1>8, <3>1, <3>2
  <2>5. Left' = Left
    <3>1. Left'[r] = 0 /\ Left[r] = 0
      BY <1>3, <2>3 DEF Left
    <3>2. \A q \in Reqs \ {r} : Left'[q] = Left[q]
      BY <2>2, <2>3 DEF Left, InputLen
    <3> QED BY <1>8, <3>1, <3>2
  <2>6. Streaming' = Streaming
    <3>1. r \notin Live /\ r \notin Live' /\ \A q \in Reqs \ {r} : q \in Live' <=> q \in Live
      BY <1>3, <2>2 DEF Live
    <3>2. Live \subseteq Reqs /\ Live' \subseteq Reqs
      BY DEF Live
    <3> QED BY <1>2, <2>2, <3>1, <3>2 DEF Streaming, InputLen
  <2>7. Queue' = Queue
    BY <1>9, <2>1, SameQueue
  <2> QED BY <1>2, <1>3, <1>6, <1>10, <2>4, <2>5, <2>6, <2>7 DEF Promise!Drop
<1>11. CASE ~ (MaxOutputLen(r) <= 0)
  <2> DEFINE out == Lesser(req[r].output, MaxOutputLen(r))
  <2>1. req' = [req EXCEPT ![r].stage = "pending", ![r].output = out]
        /\ pending' = Append(pending, r)
    BY <1>3, <1>11 DEF ProcessMsg
  <2>2. out = IF req[r].output <= MaxOutputLen(r) THEN req[r].output ELSE MaxOutputLen(r)
    BY DEF Lesser
  <2> HIDE DEF out
  <2>3. req'[r] = [req[r] EXCEPT !.stage = "pending", !.output = out]
        /\ \A q \in Reqs \ {r} : req'[q] = req[q]
    BY <1>1, <2>1
  <2>4. req'[r].stage = "pending" /\ req'[r].output = out /\ req'[r].prompt = req[r].prompt
        /\ req'[r].ignore_eos = req[r].ignore_eos /\ req'[r].ids = req[r].ids
    <3>1. req[r] \in ReqRecord
      BY <1>1
    <3> QED BY <2>3, <3>1 DEF ReqRecord
  <2>5. ~ Over(r)' /\ \A q \in Reqs \ {r} : Over(q)' <=> Over(q)
    BY <1>2, <1>4, <2>3, <2>4 DEF Over
  <2>6. Asked' = [Asked EXCEPT ![r].max_tokens =
                    IF @ <= Promise!Room(r) THEN @ ELSE Promise!Room(r)]
    <3>1. Asked'[r] = [prompt |-> req[r].prompt, max_tokens |-> out,
                       ignore_eos |-> req[r].ignore_eos]
      BY <2>4, <2>5 DEF Asked
    <3>2. Asked'[r] = [Asked[r] EXCEPT !.max_tokens =
                         IF @ <= Promise!Room(r) THEN @ ELSE Promise!Room(r)]
      BY <1>5, <1>6, <2>2, <3>1
    <3>3. \A q \in Reqs \ {r} : Asked'[q] = Asked[q]
      BY <2>3, <2>5 DEF Asked
    <3> QED BY <1>8, <3>2, <3>3
  <2>7. Left' = [Left EXCEPT ![r] = Asked'[r].max_tokens]
    <3>1. Asked'[r].max_tokens = out
      BY <2>4, <2>5 DEF Asked
    <3>2. Len(req'[r].ids) <= InputLen(r)'
      <4>1. Len(req'[r].ids) = 0
        BY <1>3, <2>4 DEF Batches, Fresh
      <4> QED BY <1>7, <2>4, <4>1 DEF InputLen
    <3>3. Left'[r] = out
      BY <2>4, <2>5, <3>2 DEF Left
    <3>4. \A q \in Reqs \ {r} : Left'[q] = Left[q]
      BY <2>3, <2>5 DEF Left, InputLen
    <3> QED BY <1>8, <3>1, <3>3, <3>4
  <2>8. Streaming' = Streaming
    <3>1. r \notin Live /\ r \notin Live' /\ \A q \in Reqs \ {r} : q \in Live' <=> q \in Live
      BY <1>3, <2>3, <2>4 DEF Live
    <3>2. Live \subseteq Reqs /\ Live' \subseteq Reqs
      BY DEF Live
    <3> QED BY <1>2, <2>3, <3>1, <3>2 DEF Streaming, InputLen
  <2>9. Queue' = Append(Queue, r)
    <3>1. Append(pending, r) \in Seq(Reqs)
      BY <1>1, AppendProperties
    <3>2. <<>> \o pending = pending /\ <<>> \o Append(pending, r) = Append(pending, r)
      BY <1>1, <3>1, ConcatEmptySeq
    <3> QED BY <1>9, <2>1, <3>2 DEF Queue
  <2>10. Promise!Room(r) > 0
    BY <1>6, <1>7, <1>11
  <2> QED BY <1>2, <1>3, <2>6, <2>7, <2>8, <2>9, <2>10 DEF Promise!Accept
<1> QED BY <1>10, <1>11

LEMMA InitShown == Init => Promise!Init
<1> SUFFICES ASSUME Init PROVE Promise!Init
  OBVIOUS
<1>1. /\ inbox = <<>> /\ pending = <<>> /\ finished = {} /\ pc = "recv"
      /\ \A r \in Reqs : req[r].stage = "new"
  BY DEF Init, NoReq
<1>2. \A r \in Reqs : Over(r)
  BY <1>1 DEF Over
<1>3. Queue = <<>>
  BY <1>1 DEF Queue, Ahead
<1>4. Streaming = {}
  BY <1>1 DEF Streaming, Live
<1>5. Left = [r \in Reqs |-> 0] /\ Asked = [r \in Reqs |-> Promise!No]
  BY <1>2 DEF Left, Asked, Promise!No
<1> QED BY <1>1, <1>3, <1>4, <1>5 DEF Promise!Init

LEMMA NextShown ==
  IInv /\ IInv' /\ Numbers /\ Kept /\ Rooms /\ Batches /\ [Next]_vars
    => [Promise!Next]_(Promise!vars)
<1> SUFFICES ASSUME IInv, IInv', Numbers, Kept, Rooms, Batches, [Next]_vars
             PROVE  Unseen \/ Promise!Next
  BY DEF Unseen, Promise!vars
<1>1. CASE Output
  BY <1>1, OutputShown DEF Promise!Next
<1>2. CASE ProcessMsg
  BY <1>2, ProcessShown DEF Promise!Next
<1>3. CASE \E r \in Reqs : Submit(r)
  BY <1>3, SubmitShown DEF Promise!Next
<1>4. CASE Cleanup
  BY <1>4, CleanupUnseen
<1>5. CASE ContinueChunk \/ AdmitWithoutSlot \/ AdmitWithFreeSlot \/ AdmitWithShedSlot
  BY <1>5, JoinUnseen
<1>6. CASE \/ StartStep \/ StopAdmission \/ TryAllocate \/ EvictForSlot \/ Starved
           \/ PrepareReq \/ EvictForPages \/ EndPrepare \/ Forward \/ EndStep \/ RunWhenIdle
           \/ UNCHANGED vars
  BY <1>6, QuietUnseen
<1> QED BY <1>1, <1>2, <1>3, <1>4, <1>5, <1>6 DEF Next, Step, Select

(* The scheduler implements Serving: first tokens come in the order of       *)
(* arrival, a decode step serves every stream, and a stream ends with its    *)
(* last token, whatever chunks, pages and evictions lie behind it.           *)
THEOREM PromiseKept == Spec => KeepsPromise
<1>1. Spec => [](IInv /\ Numbers /\ Kept /\ Rooms /\ Batches)
  BY Inductive, AlwaysNumbers, AlwaysKept, AlwaysRooms, AlwaysBatches, PTL
<1> QED BY <1>1, InitShown, NextShown, PTL DEF Spec, KeepsPromise, Promise!Spec

-----------------------------------------------------------------------------
(* Offline generation is a client of this loop: its uids are sent once each, *)
(* so that every behaviour of it is one of Spec, and what it is told of a    *)
(* request can be followed from the prompt to the answer.                    *)

(* No prompt is cut short by an object that others share: each has a limit of *)
(* its own, or the limit that all share fits every prompt that is served.    *)
OwnLimits ==
  \A p \in Single : \A i \in 1..Len(p) :
    \/ MaxSeqLen - Len(p[i].prompt) <= 0
    \/ p[i].max_tokens <= MaxSeqLen - Len(p[i].prompt)

(* A message asks for what its prompt does.                                  *)
AsPrompted ==
  \A r \in Reqs : req[r].stage = "inbox" => /\ req[r].prompt = prompts[r + 1].prompt
                                           /\ req[r].output = prompts[r + 1].max_tokens

Asking ==
  /\ prompts \in Prompts
  /\ AsPrompted
  /\ prompts \in Seq(Workload) /\ 0..Len(prompts) - 1 \subseteq Reqs
  /\ counter \in 0..Len(prompts)
  /\ pending_requests = SubSeq(prompts, counter + 1, Len(prompts))
  /\ \A r \in Reqs : req[r].stage = "new" <=> r \notin 0..counter - 1

(* A message that was made is in the list until it is processed.             *)
Sent == \A r \in Reqs : req[r].stage = "inbox" => \E i \in 1..Len(inbox) : inbox[i] = r

(* The loop is over when nothing is left to send, to admit or to decode.     *)
Ended ==
  /\ pc # "recv" => heard
  /\ returned => /\ ~ heard /\ inbox = <<>> /\ pending = <<>> /\ running = {}
                 /\ counter = Len(prompts)

(* An answer that is over: as many tokens as there was room for, or fewer if *)
(* the end of sequence came before, which is in no answer it may end.        *)
Complete(w, answer) ==
  /\ MostTokens(w) > 0
  /\ Len(answer) \in (IF w.ignore_eos THEN MostTokens(w) - 1 ELSE 0) .. MostTokens(w)
  /\ ~ w.ignore_eos => Eos \notin Range(answer)

(* What a request's record x, and whether it is finished, say of its answer. *)
Told(x, over, w, answer) ==
  /\ x.stage = "inbox" => x.output = w.max_tokens
  /\ x.stage \in {"pending", "live"} => x.output = MostTokens(w) /\ MostTokens(w) > 0
  /\ x.stage \in {"inbox", "pending", "live"} =>
       x.prompt = w.prompt /\ x.ignore_eos = w.ignore_eos
  /\ x.stage = "dropped" => MostTokens(w) <= 0
  /\ x.stage \in {"inbox", "pending", "dropped"} => answer = <<>>
  /\ x.stage = "live" /\ ~ over =>
       /\ answer = SubSeq(x.ids, Len(x.prompt) + 1, Len(x.ids))
       /\ ~ w.ignore_eos => Eos \notin Range(answer)
  /\ x.stage = "done" \/ over => Complete(w, answer)

ToldOf(r) ==
  IF req[r].stage = "new" THEN output_ids[r] = <<>>
  ELSE Told(req[r], r \in finished, prompts[r + 1], output_ids[r])

Answers ==
  output_ids \in [Reqs -> Seq(Vocab)] /\ \A r \in Reqs : ToldOf(r)

(* The steps of the loop send nothing and lose no message.                   *)
LEMMA StepSends ==
  ASSUME IInv, Numbers, Step
  PROVE  /\ \A r \in Reqs : req'[r].stage = "new" <=> req[r].stage = "new"
         /\ \A r \in Reqs : req'[r].stage = "inbox" =>
                            /\ req[r].stage = "inbox" /\ req'[r].prompt = req[r].prompt
                            /\ req'[r].output = req[r].output
         /\ Sent => Sent'
<1> DEFINE Same(r) ==
      /\ req'[r].stage = "new" <=> req[r].stage = "new"
      /\ req'[r].stage = "inbox" =>
           /\ req[r].stage = "inbox" /\ req'[r].prompt = req[r].prompt
           /\ req'[r].output = req[r].output
<1> SUFFICES (\A r \in Reqs : Same(r)) /\ (Sent => Sent')
  OBVIOUS
<1>1. Typed /\ ListsOK /\ req \in [Reqs -> ReqRecord] /\ inbox \in Seq(Reqs)
  BY DEF IInv, Typed
<1>2. ASSUME inbox' = inbox, \A r \in Reqs : Same(r)
      PROVE  (\A r \in Reqs : Same(r)) /\ (Sent => Sent')
  BY <1>2 DEF Sent
<1>3. CASE \/ StartStep \/ StopAdmission \/ TryAllocate \/ EvictForSlot \/ Starved
           \/ PrepareReq \/ EvictForPages \/ EndPrepare \/ Forward \/ EndStep
  <2>1. \A r \in Reqs : Same(r)
    BY <1>3, TextStays DEF SameText
  <2>2. inbox' = inbox
    BY <1>3 DEF StartStep, StopAdmission, TryAllocate, EvictForSlot, Starved, PrepareReq,
                EvictForPages, EndPrepare, Forward, EndStep, lists
  <2> QED BY <1>2, <2>1, <2>2
<1>4. CASE ContinueChunk \/ AdmitWithoutSlot \/ AdmitWithFreeSlot \/ AdmitWithShedSlot
  <2>1. inbox' = inbox
    BY <1>4, JoinFacts
  <2>2. PICK r \in Reqs : /\ req[r].stage \in {"pending", "live"} /\ req'[r].stage = "live"
                          /\ \A q \in Reqs \ {r} : req'[q] = req[q]
    BY <1>4, JoinText
  <2>3. \A q \in Reqs : Same(q)
    BY <2>2
  <2> QED BY <1>2, <2>1, <2>3
<1>5. CASE Output
  <2>1. inbox' = inbox /\ \A r \in Reqs : Same(r)
    BY <1>5, OutputText
  <2> QED BY <1>2, <2>1
<1>6. CASE Cleanup
  <2>1. inbox' = inbox /\ \E r \in finished : FreeAndCache(r)
    BY <1>6 DEF Cleanup
  <2>2. PICK r \in finished : FreeAndCache(r)
    BY <2>1
  <2>3. r \in Reqs /\ req[r].stage = "live"
    BY <1>1 DEF Typed, ListsOK, PlacesOK
  <2>4. req'[r].stage = "done" /\ \A q \in Reqs \ {r} : req'[q] = req[q]
    BY <1>1, <2>2, <2>3 DEF FreeAndCache, NoReq
  <2>5. \A q \in Reqs : Same(q)
    BY <2>3, <2>4
  <2> QED BY <1>2, <2>1, <2>5
<1>7. CASE ProcessMsg
  <2>1. inbox # <<>> /\ inbox' = Tail(inbox) /\ Head(inbox) = inbox[1] /\ 1 \in 1..Len(inbox)
    BY <1>1, <1>7 DEF ProcessMsg
  <2>2. PICK r \in Reqs : r = Head(inbox) /\ r = inbox[1] /\ req[r].stage = "inbox"
    BY <1>1, <2>1, Members DEF ListsOK, InboxOK
  <2>3. req'[r].stage \in {"dropped", "pending"} /\ \A q \in Reqs \ {r} : req'[q] = req[q]
    <3>1. \/ req' = [req EXCEPT ![r] = [NoReq EXCEPT !.stage = "dropped"]]
          \/ req' = [req EXCEPT ![r].stage = "pending", ![r].output = Lesser(@, MaxOutputLen(r))]
      BY <1>7, <2>2 DEF ProcessMsg
    <3>2. CASE req' = [req EXCEPT ![r] = [NoReq EXCEPT !.stage = "dropped"]]
      BY <1>1, <3>2 DEF NoReq
    <3> DEFINE o == Lesser(req[r].output, MaxOutputLen(r))
    <3>3. CASE req' = [req EXCEPT ![r].stage = "pending", ![r].output = Lesser(@, MaxOutputLen(r))]
      <4>1. req' = [req EXCEPT ![r].stage = "pending", ![r].output = o]
        BY <3>3
      <4> HIDE DEF o
      <4>2. req'[r] = [req[r] EXCEPT !.stage = "pending", !.output = o]
        BY <1>1, <4>1
      <4>3. req[r] \in ReqRecord
        BY <1>1
      <4>4. req'[r].stage = "pending"
        BY <4>2, <4>3 DEF ReqRecord
      <4> QED BY <1>1, <4>1, <4>4
    <3> QED BY <3>1, <3>2, <3>3
  <2>4. \A q \in Reqs : Same(q)
    BY <2>2, <2>3
  <2>5. ASSUME Sent, NEW q \in Reqs, req'[q].stage = "inbox"
        PROVE  \E i \in 1..Len(inbox') : inbox'[i] = q
    <3>1. q # r /\ req[q].stage = "inbox"
      BY <2>3, <2>5
    <3>2. PICK i \in 1..Len(inbox) : inbox[i] = q
      BY <2>5, <3>1 DEF Sent
    <3>3. i # 1
      BY <2>2, <3>1, <3>2
    <3>4. Len(inbox) \in Nat /\ Len(Tail(inbox)) = Len(inbox) - 1
          /\ \A k \in 1..Len(Tail(inbox)) : Tail(inbox)[k] = inbox[k + 1]
      BY <1>1, <2>1, HeadTailProperties
    <3>5. i - 1 \in 1..Len(Tail(inbox)) /\ (i - 1) + 1 = i
      BY <3>2, <3>3, <3>4
    <3>6. Tail(inbox)[i - 1] = q
      BY <3>2, <3>4, <3>5
    <3> QED BY <2>1, <3>5, <3>6
  <2> QED BY <2>4, <2>5 DEF Sent
<1> QED BY <1>3, <1>4, <1>5, <1>6, <1>7 DEF Step, Select

(* A prompt that is taken is the next one, and taking it is what a client    *)
(* does that sends a request.                                                *)
LEMMA TakeFacts ==
  ASSUME Asking, TakePrompt
  PROVE  /\ counter \in Nat /\ counter < Len(prompts) /\ counter \in Reqs
         /\ prompts[counter + 1] \in Workload /\ Head(pending_requests) = prompts[counter + 1]
         /\ pending_requests' = SubSeq(prompts, counter + 2, Len(prompts))
         /\ req[counter].stage = "new"
         /\ Submit(counter)
<1>1. /\ prompts \in Seq(Workload) /\ Len(prompts) \in Nat /\ 0..Len(prompts) - 1 \subseteq Reqs
      /\ counter \in 0..Len(prompts) /\ pending_requests = SubSeq(prompts, counter + 1, Len(prompts))
      /\ pending_requests # <<>>
  BY LenProperties DEF Asking, TakePrompt
<1>2. counter < Len(prompts)
  <2>1. CASE counter = Len(prompts)
    <3>1. Len(prompts) < counter + 1
      BY <1>1, <2>1
    <3>2. SubSeq(prompts, counter + 1, Len(prompts)) = <<>>
      BY <1>1, <3>1, SubSeqEmpty
    <3> QED BY <1>1, <3>2
  <2> QED BY <1>1, <2>1
<1>3. counter \in 0..Len(prompts) - 1 /\ counter + 1 \in 1..Len(prompts) /\ counter \in Nat
  BY <1>1, <1>2
<1>4. counter \in Reqs /\ prompts[counter + 1] \in Workload
  BY <1>1, <1>3, ElementOfSeq
<1>5. req[counter].stage = "new"
  <2>1. counter \notin 0..counter - 1
    BY <1>3
  <2> QED BY <1>4, <2>1 DEF Asking
<1>6. PICK c, L \in Nat : c = counter /\ L = Len(prompts) /\ c + 1 <= L
  <2>1. counter + 1 <= Len(prompts)
    BY <1>3
  <2> QED BY <1>1, <1>3, <2>1
<1>7. \A i \in c + 1 .. L : prompts[i] \in Workload
  BY <1>1, <1>6, ElementOfSeq
<1> DEFINE p == SubSeq(prompts, c + 1, L)
<1>8. p \in Seq(Workload) /\ Len(p) = L - c /\ \A i \in 1..L - c : p[i] = prompts[c + i]
  <2>1. /\ p \in Seq(Workload) /\ Len(p) = IF c + 1 <= L THEN L - (c + 1) + 1 ELSE 0
        /\ \A i \in 1..L - (c + 1) + 1 : p[i] = prompts[(c + 1) + i - 1]
    BY <1>6, <1>7, SubSeqProperties
  <2>2. L - (c + 1) + 1 = L - c /\ \A i \in 1..L - c : (c + 1) + i - 1 = c + i
    BY <1>6
  <2> QED BY <1>6, <2>1, <2>2
<1> HIDE DEF p
<1>9. pending_requests = p /\ p # <<>>
  BY <1>1, <1>6 DEF p
<1>10. Head(p) = prompts[c + 1]
  <2>1. Head(p) = p[1] /\ 1 \in 1..L - c
    BY <1>6, <1>8, <1>9
  <2> QED BY <1>8, <2>1
<1>11. Tail(p) = SubSeq(prompts, c + 2, L)
  <2> DEFINE t == SubSeq(prompts, c + 2, L)
  <2>1. \A i \in c + 2 .. L : prompts[i] \in Workload
    BY <1>6, <1>7
  <2>2. /\ t \in Seq(Workload) /\ Len(t) = IF c + 2 <= L THEN L - (c + 2) + 1 ELSE 0
        /\ \A i \in 1..L - (c + 2) + 1 : t[i] = prompts[(c + 2) + i - 1]
    BY <1>6, <2>1, SubSeqProperties
  <2>3. Len(t) = L - c - 1 /\ \A i \in 1..L - c - 1 : t[i] = prompts[c + i + 1]
    <3>1. L - (c + 2) + 1 = L - c - 1 /\ \A i \in 1..L - c - 1 : (c + 2) + i - 1 = c + i + 1
      BY <1>6
    <3>2. (IF c + 2 <= L THEN L - (c + 2) + 1 ELSE 0) = L - c - 1
      BY <1>6
    <3> QED BY <2>2, <3>1, <3>2
  <2>4. /\ Tail(p) \in Seq(Workload) /\ Len(Tail(p)) = L - c - 1
        /\ \A i \in 1..L - c - 1 : Tail(p)[i] = p[i + 1]
    <3>1. /\ Tail(p) \in Seq(Workload) /\ Len(Tail(p)) = Len(p) - 1
          /\ \A i \in 1..Len(Tail(p)) : Tail(p)[i] = p[i + 1]
      BY <1>8, <1>9, HeadTailProperties
    <3>2. Len(Tail(p)) = L - c - 1
      BY <1>6, <1>8, <3>1
    <3> QED BY <3>1, <3>2
  <2>5. \A i \in 1..L - c - 1 : p[i + 1] = prompts[c + i + 1]
    <3> SUFFICES ASSUME NEW i \in 1..L - c - 1 PROVE p[i + 1] = prompts[c + i + 1]
      OBVIOUS
    <3>1. i + 1 \in 1..L - c /\ c + (i + 1) = c + i + 1
      BY <1>6
    <3> QED BY <1>8, <3>1
  <2> HIDE DEF t
  <2>6. Tail(p) = t
    BY <2>2, <2>3, <2>4, <2>5, SeqEqual
  <2> QED BY <2>6 DEF t
<1>12. Submit(counter)
  <2> DEFINE w == Head(pending_requests)
  <2>1. w \in Workload
    BY <1>4, <1>6, <1>9, <1>10
  <2>2. req' = [req EXCEPT ![counter].stage = "inbox", ![counter].prompt = w.prompt,
                           ![counter].output = w.max_tokens, ![counter].ignore_eos = w.ignore_eos]
    BY DEF TakePrompt
  <2> HIDE DEF w
  <2>3. /\ pc = "recv" /\ inbox' = Append(inbox, counter)
        /\ UNCHANGED <<pending, running, batch, chunked_list, finished, adder, rows, cache, data, pc>>
    BY DEF TakePrompt
  <2> QED BY <1>5, <2>1, <2>2, <2>3 DEF Submit
<1>13. pending_requests' = Tail(p)
  BY <1>9 DEF TakePrompt
<1> QED BY <1>3, <1>2, <1>4, <1>5, <1>6, <1>9, <1>10, <1>11, <1>12, <1>13

LEMMA TakeText ==
  ASSUME IInv, Asking, TakePrompt
  PROVE  /\ req'[counter].stage = "inbox" /\ req'[counter].prompt = prompts[counter + 1].prompt
         /\ req'[counter].output = prompts[counter + 1].max_tokens
         /\ req'[counter].ignore_eos = prompts[counter + 1].ignore_eos
         /\ \A q \in Reqs \ {counter} : req'[q] = req[q]
         /\ pc = "recv" /\ inbox' = Append(inbox, counter) /\ finished = {}
<1>1. req \in [Reqs -> ReqRecord] /\ counter \in Reqs /\ req[counter] \in ReqRecord
  BY TakeFacts DEF IInv, Typed
<1> DEFINE w == prompts[counter + 1]
<1>2. req' = [req EXCEPT ![counter].stage = "inbox", ![counter].prompt = w.prompt,
                         ![counter].output = w.max_tokens, ![counter].ignore_eos = w.ignore_eos]
  BY TakeFacts DEF TakePrompt
<1> HIDE DEF w
<1>3. req'[counter] = [req[counter] EXCEPT !.stage = "inbox", !.prompt = w.prompt,
                                           !.output = w.max_tokens, !.ignore_eos = w.ignore_eos]
      /\ \A q \in Reqs \ {counter} : req'[q] = req[q]
  BY <1>1, <1>2
<1>4. /\ req'[counter].stage = "inbox" /\ req'[counter].prompt = w.prompt
      /\ req'[counter].output = w.max_tokens /\ req'[counter].ignore_eos = w.ignore_eos
  BY <1>1, <1>3 DEF ReqRecord
<1>5. pc = "recv" /\ inbox' = Append(inbox, counter)
  BY DEF TakePrompt
<1>6. finished = {}
  BY <1>5 DEF IInv, ListsOK, PlacesOK
<1> QED BY <1>3, <1>4, <1>5, <1>6 DEF w

LEMMA InitAsks == OfflineInit => Asking /\ Sent /\ Ended /\ Answers
<1> SUFFICES ASSUME OfflineInit PROVE Asking /\ Sent /\ Ended /\ Answers
  OBVIOUS
<1>1. /\ pc = "recv" /\ counter = 0 /\ returned = FALSE /\ prompts \in Prompts
      /\ pending_requests = prompts /\ output_ids = [r \in Reqs |-> <<>>]
      /\ \A r \in Reqs : req[r].stage = "new"
  BY DEF OfflineInit, Init, NoReq
<1>2. prompts \in Seq(Workload) /\ 0..Len(prompts) - 1 \subseteq Reqs /\ Len(prompts) \in Nat
  BY <1>1, OfflineAssumption, LenProperties
<1>3. pending_requests = SubSeq(prompts, counter + 1, Len(prompts))
  <2>1. SubSeq(prompts, 1, Len(prompts)) = prompts
    BY <1>2, SubSeqFull
  <2> QED BY <1>1, <2>1
<1>4. Asking
  <2>1. \A r \in Reqs : r \notin 0..counter - 1
    BY <1>1
  <2>2. AsPrompted
    BY <1>1 DEF AsPrompted
  <2> QED BY <1>1, <1>2, <1>3, <2>1, <2>2 DEF Asking
<1>5. Sent
  BY <1>1 DEF Sent
<1>6. Ended
  BY <1>1 DEF Ended
<1>7. Answers
  <2>1. <<>> \in Seq(Vocab)
    OBVIOUS
  <2> QED BY <1>1, <2>1 DEF Answers, ToldOf
<1> QED BY <1>4, <1>5, <1>6, <1>7

(* What a request that was sent asks for.                                    *)
LEMMA AskFacts ==
  ASSUME Asking, NEW r \in Reqs, req[r].stage # "new"
  PROVE  /\ r \in 0..counter - 1 /\ r + 1 \in 1..Len(prompts) /\ prompts[r + 1] \in Workload
         /\ prompts[r + 1].max_tokens \in Nat \ {0} /\ Len(prompts[r + 1].prompt) \in Nat
         /\ MostTokens(prompts[r + 1]) \in Int
<1>1. r \in 0..counter - 1
  BY DEF Asking
<1>2. counter \in 0..Len(prompts) /\ Len(prompts) \in Nat
  BY LenProperties DEF Asking
<1>3. r + 1 \in 1..Len(prompts)
  BY <1>1, <1>2
<1>4. prompts[r + 1] \in Workload
  BY <1>3, ElementOfSeq DEF Asking
<1> DEFINE w == prompts[r + 1]
<1>5. w \in [prompt : Seq(Vocab) \ {<<>>}, max_tokens : Nat \ {0}, ignore_eos : BOOLEAN]
  BY <1>4, WorkloadAssumption
<1> HIDE DEF w
<1>6. w.max_tokens \in Nat \ {0} /\ Len(w.prompt) \in Nat
  BY <1>5, LenProperties
<1>7. MostTokens(w) \in Int
  BY <1>6, Sizes DEF MostTokens, Lesser
<1> QED BY <1>1, <1>3, <1>4, <1>6, <1>7 DEF w

(* Then no message is clipped but for itself.                                *)
LEMMA NoClip ==
  ASSUME OwnLimits, IInv, Asking
  PROVE  ~ Clips
<1> SUFFICES ASSUME Clips PROVE FALSE
  OBVIOUS
<1>1. inbox \in Seq(Reqs) /\ inbox # <<>> /\ prompts \in Single
  BY DEF IInv, Typed, Clips, OneParams
<1>2. PICK r \in Reqs : r = Head(inbox) /\ req[r].stage = "inbox"
  <2>1. Head(inbox) = inbox[1] /\ 1 \in 1..Len(inbox)
    BY <1>1
  <2> QED BY <1>1, <2>1, Members DEF IInv, ListsOK, InboxOK
<1>3. PICK i, w :
        /\ i \in 1..Len(prompts) /\ i = r + 1 /\ w = prompts[i]
        /\ w.max_tokens \in Nat /\ Len(w.prompt) \in Nat
  BY <1>2, AskFacts
<1>4. req[r].prompt = w.prompt /\ req[r].output = w.max_tokens
  BY <1>2, <1>3 DEF Asking, AsPrompted
<1> DEFINE room == MaxSeqLen - Len(w.prompt)
<1>5. 0 < room /\ room < w.max_tokens
  BY <1>2, <1>4 DEF Clips, MaxOutputLen, InputLen
<1>6. room <= 0 \/ w.max_tokens <= room
  BY <1>1, <1>3 DEF OwnLimits, Asking
<1>7. room \in Int
  BY <1>3, Sizes
<1> HIDE DEF room
<1> QED BY <1>3, <1>5, <1>6, <1>7

(* Every step of the call is one of the loop or of a client.                 *)
LEMMA NextAsks ==
  ASSUME OwnLimits
  PROVE  IInv /\ Numbers /\ Asking /\ [OfflineNext]_offline_vars => [Next]_vars /\ Asking'
<1> SUFFICES ASSUME IInv, Numbers, Asking, [OfflineNext]_offline_vars PROVE [Next]_vars /\ Asking'
  OBVIOUS
<1>1. CASE UNCHANGED vars /\ UNCHANGED <<prompts, pending_requests, counter>>
  <2>1. req' = req
    BY <1>1 DEF vars
  <2> QED BY <1>1, <2>1 DEF Asking, AsPrompted
<1>2. CASE EndReceive \/ AllFinished \/ NoBatch \/ UNCHANGED offline_vars
  BY <1>1, <1>2 DEF EndReceive, AllFinished, NoBatch, offline_vars, call
<1>3. CASE TakePrompt
  <2>1. /\ counter \in Nat /\ counter < Len(prompts) /\ counter \in Reqs /\ Submit(counter)
        /\ pending_requests' = SubSeq(prompts, counter + 2, Len(prompts))
    BY <1>3, TakeFacts
  <2>2. /\ req'[counter].stage = "inbox" /\ \A q \in Reqs \ {counter} : req'[q] = req[q]
    BY <1>3, TakeText
  <2>3. prompts' = prompts /\ counter' = counter + 1
    BY <1>3 DEF TakePrompt
  <2>4. PICK c, L \in Nat : c = counter /\ L = Len(prompts) /\ c < L
    BY <2>1, LenProperties DEF Asking
  <2>5. counter' \in 0..Len(prompts') /\ pending_requests' = SubSeq(prompts', counter' + 1, Len(prompts'))
    <3>1. c + 1 \in 0..L /\ (c + 1) + 1 = c + 2
      BY <2>4
    <3> QED BY <2>1, <2>3, <2>4, <3>1
  <2>6. \A r \in Reqs : req'[r].stage = "new" <=> r \notin 0..counter' - 1
    <3>1. 0..c + 1 - 1 = (0..c - 1) \cup {c}
      BY <2>4
    <3>2. \A r \in Reqs : req[r].stage = "new" <=> r \notin 0..c - 1
      BY <2>4 DEF Asking
    <3> QED BY <2>2, <2>3, <2>4, <3>1, <3>2
  <2>7. AsPrompted'
    BY <1>3, <2>2, <2>3, TakeText DEF Asking, AsPrompted
  <2>8. Asking'
    BY <2>3, <2>5, <2>6, <2>7 DEF Asking
  <2> QED BY <2>1, <2>8 DEF Next
<1>4. CASE LoopStep
  <2>1. Step /\ UNCHANGED <<prompts, pending_requests, counter>>
    BY <1>4 DEF LoopStep
  <2>2. \A r \in Reqs : req'[r].stage = "new" <=> req[r].stage = "new"
    BY <2>1, StepSends
  <2>3. AsPrompted'
    BY <2>1, StepSends DEF Asking, AsPrompted
  <2>4. Asking'
    BY <2>1, <2>2, <2>3 DEF Asking
  <2> QED BY <2>1, <2>4 DEF Next
<1>5. ~ ClipShared
  BY NoClip DEF ClipShared
<1> QED BY <1>2, <1>3, <1>4, <1>5 DEF OfflineNext

LEMMA AlwaysAsking ==
  ASSUME OwnLimits
  PROVE  OfflineSpec => [](IInv /\ Numbers /\ Asking)
<1>1. OfflineInit => IInv /\ Numbers /\ Asking
  BY InitIInv, InitNumbers, InitAsks DEF OfflineInit
<1> QED BY <1>1, NextAsks, NextKeepsIInv, NextKeepsNumbers, PTL DEF OfflineSpec

(* Offline generation behaves as the scheduler with a client that sends the  *)
(* prompts one by one, and what holds of that loop holds of it, unless a      *)
(* prompt is cut short by an object that others share: that client cannot     *)
(* change what it has sent.                                                  *)
THEOREM OfflineIsLoop ==
  ASSUME OwnLimits
  PROVE  OfflineSpec => Spec
<1>1. OfflineInit => Init
  BY DEF OfflineInit
<1> QED BY <1>1, AlwaysAsking, NextAsks, PTL DEF OfflineSpec, Spec

-----------------------------------------------------------------------------
(* When the call returns.                                                   *)

LEMMA NextSends ==
  ASSUME OwnLimits
  PROVE  IInv /\ Numbers /\ Asking /\ Sent /\ Ended /\ [OfflineNext]_offline_vars
           => Sent' /\ Ended'
<1> SUFFICES ASSUME IInv, Numbers, Asking, Sent, Ended, [OfflineNext]_offline_vars
             PROVE  Sent' /\ Ended'
  OBVIOUS
<1>1. ASSUME UNCHANGED vars PROVE Sent'
  BY <1>1 DEF vars, lists, Sent
<1>2. CASE UNCHANGED offline_vars
  <2>1. UNCHANGED vars /\ UNCHANGED <<heard, returned, counter, prompts>>
    BY <1>2 DEF offline_vars, call
  <2>2. UNCHANGED <<pc, inbox, pending, running>>
    BY <2>1 DEF vars, lists
  <2> QED BY <1>1, <2>1, <2>2 DEF Ended
<1>3. CASE TakePrompt
  <2>1. /\ req'[counter].stage = "inbox" /\ \A q \in Reqs \ {counter} : req'[q] = req[q]
        /\ inbox' = Append(inbox, counter) /\ counter \in Reqs
    BY <1>3, TakeText, TakeFacts
  <2>2. inbox \in Seq(Reqs)
    BY DEF IInv, Typed
  <2>3. /\ Len(inbox) \in Nat /\ Len(inbox') = Len(inbox) + 1
        /\ \A i \in 1..Len(inbox) : inbox'[i] = inbox[i]
        /\ inbox'[Len(inbox) + 1] = counter
    BY <2>1, <2>2, AppendProperties, LenProperties
  <2>4. ASSUME NEW r \in Reqs, req'[r].stage = "inbox"
        PROVE  \E i \in 1..Len(inbox') : inbox'[i] = r
    <3>1. CASE r = counter
      <4>1. Len(inbox) + 1 \in 1..Len(inbox')
        BY <2>3
      <4> QED BY <2>3, <3>1, <4>1
    <3>2. CASE r # counter
      <4>1. PICK i \in 1..Len(inbox) : inbox[i] = r
        BY <2>1, <2>4, <3>2 DEF Sent
      <4>2. i \in 1..Len(inbox')
        BY <2>3, <4>1
      <4> QED BY <2>3, <4>1, <4>2
    <3> QED BY <3>1, <3>2
  <2>5. pc' = "recv" /\ ~ returned'
    BY <1>3 DEF TakePrompt
  <2> QED BY <2>4, <2>5 DEF Sent, Ended
<1>4. CASE EndReceive
  <2>1. UNCHANGED vars /\ heard' /\ ~ returned'
    BY <1>4 DEF EndReceive
  <2> QED BY <1>1, <2>1 DEF Ended
<1>5. CASE AllFinished
  <2>1. /\ UNCHANGED vars /\ pc = "recv" /\ ~ heard /\ ~ Runnable /\ pending_requests = <<>>
        /\ inbox = <<>> /\ UNCHANGED <<heard, counter, prompts>>
    BY <1>5 DEF AllFinished
  <2>2. pending = <<>> /\ running = {}
    BY <2>1 DEF Runnable
  <2>3. counter = Len(prompts)
    <3>1. PICK c, L \in Nat : c = counter /\ L = Len(prompts) /\ c <= L
      BY LenProperties DEF Asking
    <3>2. CASE c < L
      <4>1. \A i \in c + 1 .. L : prompts[i] \in Workload
        BY <3>1, ElementOfSeq DEF Asking
      <4>2. Len(SubSeq(prompts, c + 1, L)) = IF c + 1 <= L THEN L - (c + 1) + 1 ELSE 0
        BY <3>1, <4>1, SubSeqProperties
      <4>3. (IF c + 1 <= L THEN L - (c + 1) + 1 ELSE 0) # 0
        BY <3>1, <3>2
      <4>4. SubSeq(prompts, c + 1, L) = <<>>
        BY <2>1, <3>1 DEF Asking
      <4>5. Len(SubSeq(prompts, c + 1, L)) = 0
        <5> DEFINE q == SubSeq(prompts, c + 1, L)
        <5>1. q = <<>>
          BY <4>4
        <5> HIDE DEF q
        <5>2. Len(q) = 0
          BY <5>1
        <5> QED BY <5>2 DEF q
      <4> QED BY <4>2, <4>3, <4>5
    <3> QED BY <3>1, <3>2
  <2>4. UNCHANGED <<pc, inbox, pending, running>>
    BY <2>1 DEF vars, lists
  <2> QED BY <1>1, <2>1, <2>2, <2>3, <2>4 DEF Ended
<1>6. CASE NoBatch
  <2>1. UNCHANGED vars /\ pc = "recv" /\ heard /\ returned' = returned
    BY <1>6 DEF NoBatch
  <2>2. pc' = pc /\ ~ returned
    BY <2>1 DEF vars, Ended
  <2> QED BY <1>1, <2>1, <2>2 DEF Ended
<1>7. CASE LoopStep
  <2>1. /\ Step /\ (pc = "recv" => heard) /\ returned' = returned
        /\ heard' = (heard /\ (pc # "recv" => pc' # "recv"))
    BY <1>7 DEF LoopStep
  <2>2. heard
    BY <2>1 DEF Ended
  <2>3. ~ returned' /\ (pc' # "recv" => heard')
    BY <2>1, <2>2 DEF Ended
  <2> QED BY <2>1, <2>3, StepSends DEF Ended
<1>8. ~ ClipShared
  BY NoClip DEF ClipShared
<1> QED BY <1>2, <1>3, <1>4, <1>5, <1>6, <1>7, <1>8 DEF OfflineNext

LEMMA AlwaysSent ==
  ASSUME OwnLimits
  PROVE  OfflineSpec => [](Sent /\ Ended)
<1>1. OfflineInit => Sent /\ Ended
  BY InitAsks
<1> QED BY <1>1, NextSends, AlwaysAsking, PTL DEF OfflineSpec

-----------------------------------------------------------------------------
(* From the prompt to the answer.                                           *)

LEMMA NothingAfter ==
  ASSUME NEW s, NEW l \in Nat, NEW n \in Nat, n <= l
  PROVE  SubSeq(s, l + 1, n) = <<>>
<1>1. l + 1 \in Int /\ n \in Int /\ n < l + 1
  OBVIOUS
<1> QED BY <1>1, SubSeqEmpty

(* One token more is one element more of what comes after the prompt.        *)
LEMMA JoinSlice ==
  ASSUME NEW V, NEW s \in Seq(V), NEW v \in V, NEW l \in Nat, l <= Len(s)
  PROVE  Append(SubSeq(s, l + 1, Len(s)), v) = SubSeq(Append(s, v), l + 1, Len(Append(s, v)))
<1>1. PICK n \in Nat : n = Len(s) /\ l <= n
  BY LenProperties
<1> DEFINE a == SubSeq(s, l + 1, n)
           t == Append(s, v)
           b == SubSeq(t, l + 1, n + 1)
<1>2. t \in Seq(V) /\ Len(t) = n + 1 /\ t[n + 1] = v /\ \A i \in 1..n : t[i] = s[i]
  BY <1>1, AppendProperties
<1>3. a \in Seq(V) /\ Len(a) = n - l /\ \A i \in 1..n - l : a[i] = s[l + i]
  <2>1. \A i \in l + 1 .. n : s[i] \in V
    BY <1>1, ElementOfSeq
  <2>2. /\ a \in Seq(V) /\ Len(a) = IF l + 1 <= n THEN n - (l + 1) + 1 ELSE 0
        /\ \A i \in 1..n - (l + 1) + 1 : a[i] = s[(l + 1) + i - 1]
    BY <1>1, <2>1, SubSeqProperties
  <2>3. /\ (IF l + 1 <= n THEN n - (l + 1) + 1 ELSE 0) = n - l /\ n - (l + 1) + 1 = n - l
        /\ \A i \in 1..n - l : (l + 1) + i - 1 = l + i
    BY <1>1
  <2> QED BY <2>2, <2>3
<1> HIDE DEF t
<1>4. b \in Seq(V) /\ Len(b) = n - l + 1 /\ \A i \in 1..n - l + 1 : b[i] = t[l + i]
  <2>1. \A i \in l + 1 .. n + 1 : t[i] \in V
    BY <1>1, <1>2, ElementOfSeq
  <2>2. /\ b \in Seq(V) /\ Len(b) = IF l + 1 <= n + 1 THEN n + 1 - (l + 1) + 1 ELSE 0
        /\ \A i \in 1..n + 1 - (l + 1) + 1 : b[i] = t[(l + 1) + i - 1]
    BY <1>1, <2>1, SubSeqProperties
  <2>3. /\ (IF l + 1 <= n + 1 THEN n + 1 - (l + 1) + 1 ELSE 0) = n - l + 1
        /\ n + 1 - (l + 1) + 1 = n - l + 1
        /\ \A i \in 1..n - l + 1 : (l + 1) + i - 1 = l + i
    BY <1>1
  <2> QED BY <2>2, <2>3
<1> HIDE DEF a, b
<1> DEFINE c == Append(a, v)
<1>5. /\ c \in Seq(V) /\ Len(c) = n - l + 1 /\ c[n - l + 1] = v
      /\ \A i \in 1..n - l : c[i] = a[i]
  <2>1. a \in Seq(V)
    BY <1>3
  <2>2. /\ c \in Seq(V) /\ Len(c) = Len(a) + 1 /\ c[Len(a) + 1] = v
        /\ \A i \in 1..Len(a) : c[i] = a[i]
    BY <2>1, AppendProperties
  <2> QED BY <1>3, <2>2
<1> HIDE DEF c
<1>6. ASSUME NEW i \in 1..n - l + 1 PROVE c[i] = b[i]
  <2>1. CASE i = n - l + 1
    <3>1. l + i = n + 1
      BY <1>1, <2>1
    <3> QED BY <1>2, <1>4, <1>5, <2>1, <3>1
  <2>2. CASE i # n - l + 1
    <3>1. i \in 1..n - l /\ l + i \in 1..n
      BY <1>1, <2>2
    <3> QED BY <1>2, <1>3, <1>4, <1>5, <3>1
  <2> QED BY <2>1, <2>2
<1>7. c = b
  BY <1>1, <1>4, <1>5, <1>6, SeqEqual
<1> QED BY <1>1, <1>2, <1>7 DEF a, b, c, t

LEMMA NotAppended ==
  ASSUME NEW V, NEW s \in Seq(V), NEW v \in V, NEW x, x \notin Range(s), x # v
  PROVE  x \notin Range(Append(s, v))
<1>1. /\ DOMAIN Append(s, v) = 1..Len(s) + 1 /\ DOMAIN s = 1..Len(s) /\ Len(s) \in Nat
      /\ \A i \in 1..Len(s) : Append(s, v)[i] = s[i]
      /\ Append(s, v)[Len(s) + 1] = v
  BY AppendProperties, LenProperties
<1>2. ASSUME NEW i \in 1..Len(s) + 1 PROVE Append(s, v)[i] # x
  <2>1. CASE i = Len(s) + 1
    BY <1>1, <2>1
  <2>2. CASE i # Len(s) + 1
    <3>1. i \in 1..Len(s)
      BY <1>1, <2>2
    <3> QED BY <1>1, <3>1 DEF Range
  <2> QED BY <2>1, <2>2
<1> QED BY <1>1, <1>2 DEF Range

(* What a step must tell of one request, for all to be told of as they are.  *)
Follows(r) ==
  /\ output_ids[r] \in Seq(Vocab) => output_ids'[r] \in Seq(Vocab)
  /\ ToldOf(r) => IF req'[r].stage = "new" THEN output_ids'[r] = <<>>
                  ELSE Told(req'[r], r \in finished', prompts[r + 1], output_ids'[r])

LEMMA AnswersFollow ==
  ASSUME Answers, prompts' = prompts, output_ids' = [r \in Reqs |-> output_ids'[r]],
         \A r \in Reqs : Follows(r)
  PROVE  Answers'
<1>1. \A r \in Reqs : output_ids[r] \in Seq(Vocab) /\ ToldOf(r)
  BY DEF Answers
<1>2. \A r \in Reqs : output_ids'[r] \in Seq(Vocab)
  BY <1>1 DEF Follows
<1>3. output_ids' \in [Reqs -> Seq(Vocab)]
  BY <1>2
<1>4. ASSUME NEW r \in Reqs PROVE ToldOf(r)'
  <2>1. IF req'[r].stage = "new" THEN output_ids'[r] = <<>>
        ELSE Told(req'[r], r \in finished', prompts[r + 1], output_ids'[r])
    BY <1>1 DEF Follows
  <2> QED BY <2>1 DEF ToldOf
<1> QED BY <1>3, <1>4 DEF Answers

(* A request whose text and whose answer stay is told of as before.          *)
LEMMA TextFollows ==
  ASSUME NEW r \in Reqs, SameText(r) \/ req'[r] = req[r], r \in finished' <=> r \in finished,
         output_ids'[r] = output_ids[r]
  PROVE  Follows(r)
<1>1. /\ req'[r].stage = req[r].stage /\ req'[r].prompt = req[r].prompt
      /\ req'[r].output = req[r].output /\ req'[r].ignore_eos = req[r].ignore_eos
      /\ req'[r].ids = req[r].ids
  BY DEF SameText
<1>2. ASSUME Told(req[r], r \in finished, prompts[r + 1], output_ids[r])
      PROVE  Told(req'[r], r \in finished', prompts[r + 1], output_ids'[r])
  BY <1>1, <1>2 DEF Told
<1> QED BY <1>1, <1>2 DEF Follows, ToldOf

(* Most steps of the loop change no text.                                    *)
LEMMA QuietFollows ==
  ASSUME IInv, output_ids' = output_ids,
         \/ StartStep \/ StopAdmission \/ TryAllocate \/ EvictForSlot \/ Starved
         \/ PrepareReq \/ EvictForPages \/ EndPrepare \/ Forward \/ EndStep
         \/ UNCHANGED vars
  PROVE  \A r \in Reqs : Follows(r)
<1>1. \A r \in Reqs : SameText(r)
  BY TextStays
<1>2. finished' = finished
  BY DEF StartStep, StopAdmission, TryAllocate, EvictForSlot, Starved, PrepareReq,
         EvictForPages, EndPrepare, Forward, EndStep, lists, vars
<1> QED BY <1>1, <1>2, TextFollows

(* A request that joins the batch has no token yet.                          *)
LEMMA JoinFollows ==
  ASSUME IInv, Numbers, output_ids' = output_ids,
         ContinueChunk \/ AdmitWithoutSlot \/ AdmitWithFreeSlot \/ AdmitWithShedSlot
  PROVE  \A r \in Reqs : Follows(r)
<1>1. Admitting /\ finished' = finished
  BY JoinFacts
<1>2. finished = {}
  BY <1>1 DEF IInv, ListsOK, PlacesOK, Admitting
<1>3. PICK r \in Reqs :
        /\ req[r].stage \in {"pending", "live"} /\ req'[r].stage = "live"
        /\ req[r].stage = "live" => req[r].chunked
        /\ req'[r].prompt = req[r].prompt /\ req'[r].output = req[r].output
        /\ req'[r].ignore_eos = req[r].ignore_eos
        /\ Len(req'[r].ids) <= InputLen(r) /\ Len(req'[r].ids) \in Nat
        /\ \A q \in Reqs \ {r} : req'[q] = req[q]
  BY JoinText
<1>4. ASSUME NEW q \in Reqs, q # r PROVE Follows(q)
  BY <1>1, <1>3, <1>4, TextFollows
<1>5. /\ Len(req[r].prompt) \in Nat /\ Len(req[r].ids) \in Nat
      /\ req[r].chunked => Len(req[r].ids) <= Len(req[r].prompt)
  BY ReqFields DEF IInv, Typed, LengthsOK, ReqLengths, InputLen
<1>6. SubSeq(req'[r].ids, Len(req'[r].prompt) + 1, Len(req'[r].ids)) = <<>>
  <2>1. PICK n, l \in Nat : n = Len(req'[r].ids) /\ l = Len(req'[r].prompt) /\ n <= l
    BY <1>3, <1>5 DEF InputLen
  <2>2. SubSeq(req'[r].ids, l + 1, n) = <<>>
    BY <2>1, NothingAfter
  <2> QED BY <2>1, <2>2
<1>7. req[r].chunked => SubSeq(req[r].ids, Len(req[r].prompt) + 1, Len(req[r].ids)) = <<>>
  <2>1. PICK n, l \in Nat : n = Len(req[r].ids) /\ l = Len(req[r].prompt)
    BY <1>5
  <2>2. n <= l => SubSeq(req[r].ids, l + 1, n) = <<>>
    BY NothingAfter
  <2> QED BY <1>5, <2>1, <2>2
<1>8. ASSUME Told(req[r], r \in finished, prompts[r + 1], output_ids[r])
      PROVE  Told(req'[r], r \in finished', prompts[r + 1], output_ids'[r])
  <2>1. output_ids[r] = <<>>
    BY <1>2, <1>3, <1>7, <1>8 DEF Told
  <2>2. Eos \notin Range(output_ids[r])
    BY <2>1 DEF Range
  <2>3. /\ req[r].output = MostTokens(prompts[r + 1]) /\ MostTokens(prompts[r + 1]) > 0
        /\ req[r].prompt = prompts[r + 1].prompt /\ req[r].ignore_eos = prompts[r + 1].ignore_eos
    BY <1>3, <1>8 DEF Told
  <2> QED BY <1>1, <1>2, <1>3, <1>6, <2>1, <2>2, <2>3 DEF Told
<1>9. Follows(r)
  BY <1>3, <1>8 DEF Follows, ToldOf
<1> QED BY <1>4, <1>9

(* A message becomes a pending request with as many tokens to come as there  *)
(* is room for, or is dropped.                                               *)
LEMMA ProcessFollows ==
  ASSUME IInv, Asking, output_ids' = output_ids, ProcessMsg
  PROVE  \A r \in Reqs : Follows(r)
<1>1. Typed /\ ListsOK /\ req \in [Reqs -> ReqRecord] /\ inbox \in Seq(Reqs)
  BY DEF IInv, Typed
<1>2. pc = "recv" /\ inbox # <<>> /\ finished' = finished
  BY DEF ProcessMsg
<1>3. finished = {}
  BY <1>1, <1>2 DEF ListsOK, PlacesOK
<1>4. PICK r \in Reqs : r = Head(inbox) /\ req[r].stage = "inbox"
  <2>1. Head(inbox) = inbox[1] /\ 1 \in 1..Len(inbox)
    BY <1>1, <1>2
  <2> QED BY <1>1, <2>1, Members DEF ListsOK, InboxOK
<1>5. PICK w : w = prompts[r + 1] /\ w.max_tokens \in Nat \ {0} /\ Len(w.prompt) \in Nat
  BY <1>4, AskFacts
<1> DEFINE room == MaxSeqLen - Len(w.prompt)
<1>6. room \in Int
  BY <1>5, Sizes
<1>7. ASSUME NEW q \in Reqs, q # r PROVE Follows(q)
  <2>1. req'[q] = req[q]
    BY <1>1, <1>4, <1>7 DEF ProcessMsg
  <2> QED BY <1>2, <2>1, TextFollows
<1>8. ASSUME Told(req[r], r \in finished, w, output_ids[r])
      PROVE  /\ req'[r].stage # "new"
             /\ Told(req'[r], r \in finished', w, output_ids'[r])
  <2>1. /\ req[r].prompt = w.prompt /\ req[r].output = w.max_tokens
        /\ req[r].ignore_eos = w.ignore_eos /\ output_ids[r] = <<>>
    BY <1>4, <1>8 DEF Told
  <2>2. MaxOutputLen(r) = room
    BY <2>1 DEF MaxOutputLen, InputLen
  <2> DEFINE o == Lesser(w.max_tokens, room)
  <2>3. MostTokens(w) = o
    BY DEF MostTokens
  <2>4. CASE room <= 0
    <3>1. req' = [req EXCEPT ![r] = [NoReq EXCEPT !.stage = "dropped"]]
      BY <1>4, <2>2, <2>4 DEF ProcessMsg
    <3>2. req'[r].stage = "dropped"
      BY <1>1, <3>1 DEF NoReq
    <3>3. o <= 0
      BY <1>5, <1>6, <2>4 DEF Lesser
    <3> QED BY <1>2, <1>3, <2>1, <2>3, <3>2, <3>3 DEF Told
  <2>5. CASE ~ (room <= 0)
    <3>1. req' = [req EXCEPT ![r].stage = "pending", ![r].output = Lesser(@, MaxOutputLen(r))]
      BY <1>4, <2>2, <2>5 DEF ProcessMsg
    <3>2. req' = [req EXCEPT ![r].stage = "pending", ![r].output = o]
      BY <2>1, <2>2, <3>1
    <3>3. o > 0
      BY <1>5, <1>6, <2>5 DEF Lesser
    <3> HIDE DEF o
    <3>4. req'[r] = [req[r] EXCEPT !.stage = "pending", !.output = o]
      BY <1>1, <3>2
    <3>5. req[r] \in ReqRecord
      BY <1>1
    <3>6. /\ req'[r].stage = "pending" /\ req'[r].prompt = req[r].prompt /\ req'[r].output = o
          /\ req'[r].ignore_eos = req[r].ignore_eos
      BY <3>4, <3>5 DEF ReqRecord
    <3> QED BY <1>2, <1>3, <2>1, <2>3, <3>3, <3>6 DEF Told
  <2> QED BY <2>4, <2>5
<1>9. Follows(r)
  BY <1>4, <1>5, <1>8 DEF Follows, ToldOf
<1> QED BY <1>7, <1>9

LEMMA CleanupFollows ==
  ASSUME IInv, output_ids' = output_ids, Cleanup
  PROVE  \A r \in Reqs : Follows(r)
<1>1. Typed /\ ListsOK /\ req \in [Reqs -> ReqRecord]
  BY DEF IInv, Typed
<1>2. PICK r \in finished : FreeAndCache(r) /\ finished' = finished \ {r}
  BY DEF Cleanup
<1>3. r \in Reqs /\ req[r].stage = "live"
  BY <1>1 DEF Typed, ListsOK, PlacesOK
<1>4. req'[r].stage = "done" /\ \A q \in Reqs \ {r} : req'[q] = req[q]
  BY <1>1, <1>2, <1>3 DEF FreeAndCache, NoReq
<1>5. ASSUME NEW q \in Reqs, q # r PROVE Follows(q)
  BY <1>2, <1>4, <1>5, TextFollows
<1>6. ASSUME Told(req[r], r \in finished, prompts[r + 1], output_ids[r])
      PROVE  Told(req'[r], r \in finished', prompts[r + 1], output_ids'[r])
  BY <1>2, <1>4, <1>6 DEF Told
<1>7. Follows(r)
  BY <1>3, <1>4, <1>6 DEF Follows, ToldOf
<1> QED BY <1>5, <1>7

(* A request that is sent has had no answer.                                 *)
LEMMA TakeFollows ==
  ASSUME IInv, Asking, TakePrompt
  PROVE  \A r \in Reqs : Follows(r)
<1>1. /\ req'[counter].stage = "inbox" /\ req'[counter].prompt = prompts[counter + 1].prompt
      /\ req'[counter].output = prompts[counter + 1].max_tokens
      /\ req'[counter].ignore_eos = prompts[counter + 1].ignore_eos
      /\ \A q \in Reqs \ {counter} : req'[q] = req[q]
      /\ finished = {} /\ counter \in Reqs /\ req[counter].stage = "new"
  BY TakeText, TakeFacts
<1>2. finished' = finished /\ output_ids' = output_ids
  BY DEF TakePrompt
<1>3. ASSUME NEW q \in Reqs, q # counter PROVE Follows(q)
  BY <1>1, <1>2, <1>3, TextFollows
<1>4. Follows(counter)
  BY <1>1, <1>2 DEF Follows, ToldOf, Told
<1> QED BY <1>3, <1>4

(* The numbers of an answer that has n - l tokens, with R + 1 to come of o,  *)
(* when it gets another or ends without it.                                  *)
LEMMA EndCounts ==
  ASSUME NEW n \in Nat, NEW l \in Nat, NEW o \in Nat, NEW R \in Nat, n >= l, R + 1 = l + o - n
  PROVE  /\ n - l \in 0..o /\ n - l + 1 \in 0..o
         /\ R = 0 => n - l \in o - 1 .. o /\ n - l + 1 \in o - 1 .. o
OBVIOUS

(* A sampled token is the next one of the answer; the last one is left out   *)
(* if it is the end of sequence.                                             *)
LEMMA OutputFollows ==
  ASSUME IInv, Numbers, Rooms, Batches, Answers, SendResult, Output
  PROVE  \A r \in Reqs : Follows(r)
<1>1. Typed /\ LengthsOK /\ req \in [Reqs -> ReqRecord]
  BY DEF IInv, Typed
<1>2. PICK next \in [Sampled -> Vocab] :
        /\ finished' = {r \in Sampled : Finishes(r, next[r])}
        /\ \A r \in Sampled : req'[r].ids = Append(req[r].ids, next[r])
  BY OutputFacts
<1>3. /\ pc = "output" /\ finished = {} /\ Sampled \subseteq Live
      /\ \A r \in Reqs \ Sampled : req'[r] = req[r]
      /\ \A r \in Reqs :
           /\ req'[r].stage = req[r].stage /\ req'[r].prompt = req[r].prompt
           /\ req'[r].output = req[r].output /\ req'[r].ignore_eos = req[r].ignore_eos
  BY OutputText
<1>4. ASSUME NEW r \in Reqs, r \notin Sampled PROVE Follows(r)
  <2>1. output_ids'[r] = output_ids[r]
    BY <1>4 DEF SendResult
  <2>2. r \notin finished /\ r \notin finished'
    BY <1>2, <1>3, <1>4
  <2> QED BY <1>3, <1>4, <2>1, <2>2, TextFollows
<1>5. ASSUME NEW r \in Sampled PROVE Follows(r)
  <2>1. r \in Reqs /\ req[r].stage = "live" /\ req'[r].stage = "live" /\ ~ req[r].chunked
    BY <1>3 DEF Live, Sampled
  <2>2. PICK s \in Seq(Vocab), t \in Vocab, a \in Seq(Vocab) :
          s = req[r].ids /\ t = next[r] /\ a = output_ids[r]
    BY <1>1, <1>2, <2>1, ReqFields DEF Answers
  <2>3. PICK n \in Nat, l \in Nat, o \in Nat, R \in Nat :
          /\ n = Len(s) /\ l = InputLen(r) /\ o = req[r].output /\ R = RemainLen(r)
          /\ n >= l /\ R + 1 = l + o - n
    <3>1. /\ RemainLen(r) \in Nat /\ Left[r] = RemainLen(r) + 1
          /\ Len(req[r].ids) \in Nat /\ InputLen(r) \in Nat /\ req[r].output \in Nat
          /\ Len(req[r].ids) >= InputLen(r)
          /\ Left[r] = InputLen(r) + req[r].output - Len(req[r].ids)
      BY <1>3, LeftIs
    <3>2. RemainLen(r) + 1 = InputLen(r) + req[r].output - Len(req[r].ids)
      BY <3>1
    <3> QED BY <2>2, <3>1, <3>2
  <2>4. req'[r].ids = Append(s, t) /\ Last(req'[r].ids) = t
    <3>1. /\ Append(s, t) \in Seq(Vocab) /\ Len(Append(s, t)) = Len(s) + 1
          /\ Append(s, t)[Len(s) + 1] = t
      BY AppendProperties
    <3> QED BY <1>2, <2>2, <3>1 DEF Last
  <2> DEFINE over == Finishes(r, t)
             out == over /\ t = Eos
  <2>5. r \in finished' <=> over
    BY <1>2, <2>2
  <2>6. output_ids'[r] = IF out THEN a ELSE Append(a, t)
    BY <1>3, <2>1, <2>2, <2>4, <2>5 DEF SendResult, Recorded
  <2>7. over <=> R = 0 \/ (t = Eos /\ ~ req[r].ignore_eos)
    BY <2>1, <2>3 DEF Finishes, CanDecode
  <2> HIDE DEF over
  <2>8. output_ids'[r] \in Seq(Vocab) /\ Len(a) \in Nat /\ Len(Append(a, t)) = Len(a) + 1
    BY <2>6, AppendProperties, LenProperties
  <2>9. ASSUME Told(req[r], r \in finished, prompts[r + 1], output_ids[r])
        PROVE  Told(req'[r], r \in finished', prompts[r + 1], output_ids'[r])
    <3>1. PICK w : w = prompts[r + 1]
      OBVIOUS
    <3>2. /\ req[r].output = MostTokens(w) /\ MostTokens(w) > 0
          /\ req[r].prompt = w.prompt /\ req[r].ignore_eos = w.ignore_eos
          /\ a = SubSeq(s, Len(req[r].prompt) + 1, Len(s))
          /\ ~ w.ignore_eos => Eos \notin Range(a)
      BY <1>3, <2>1, <2>2, <2>9, <3>1 DEF Told
    <3>3. a = SubSeq(s, l + 1, n)
      BY <2>3, <3>2 DEF InputLen
    <3>4. Len(a) = n - l
      BY <2>3, <3>3, Slice
    <3>5. Append(a, t) = SubSeq(Append(s, t), l + 1, Len(Append(s, t)))
      BY <2>3, <3>3, JoinSlice
    <3>6. t # Eos /\ ~ w.ignore_eos => Eos \notin Range(Append(a, t))
      BY <3>2, NotAppended
    <3>7. CASE ~ over
      <4>1. output_ids'[r] = Append(a, t) /\ (~ w.ignore_eos => t # Eos)
        BY <2>6, <2>7, <3>2, <3>7
      <4>2. req'[r].prompt = req[r].prompt /\ Len(req'[r].prompt) = l
        BY <1>3, <2>1, <2>3 DEF InputLen
      <4>3. output_ids'[r] = SubSeq(req'[r].ids, Len(req'[r].prompt) + 1, Len(req'[r].ids))
        BY <2>4, <3>5, <4>1, <4>2
      <4> QED BY <1>3, <2>1, <2>5, <3>1, <3>2, <3>6, <3>7, <4>1, <4>3 DEF Told
    <3>8. CASE over
      <4>1. o = MostTokens(w) /\ (w.ignore_eos => R = 0)
        BY <2>3, <2>7, <3>2, <3>8
      <4>2. /\ n - l \in 0..o /\ n - l + 1 \in 0..o
            /\ R = 0 => n - l \in o - 1 .. o /\ n - l + 1 \in o - 1 .. o
        BY <2>3, EndCounts
      <4>3. Len(output_ids'[r]) = n - l \/ Len(output_ids'[r]) = n - l + 1
        BY <2>6, <2>8, <3>4
      <4>4. Len(output_ids'[r]) \in (IF w.ignore_eos THEN MostTokens(w) - 1 ELSE 0) .. MostTokens(w)
        BY <4>1, <4>2, <4>3
      <4>5. ~ w.ignore_eos => Eos \notin Range(output_ids'[r])
        BY <2>6, <3>2, <3>6, <3>8
      <4>6. Complete(w, output_ids'[r])
        BY <3>2, <4>4, <4>5 DEF Complete
      <4>7. r \in finished'
        BY <2>5, <3>8
      <4> QED BY <1>3, <2>1, <3>1, <3>2, <4>6, <4>7 DEF Told
    <3> QED BY <3>7, <3>8
  <2> QED BY <2>1, <2>8, <2>9 DEF Follows, ToldOf
<1> QED BY <1>4, <1>5

LEMMA NextAnswers ==
  ASSUME OwnLimits
  PROVE  IInv /\ Numbers /\ Rooms /\ Batches /\ Asking /\ Answers /\ [OfflineNext]_offline_vars
           => Answers'
<1> SUFFICES ASSUME IInv, Numbers, Rooms, Batches, Asking, Answers, [OfflineNext]_offline_vars
             PROVE  Answers'
  OBVIOUS
<1>1. output_ids = [r \in Reqs |-> output_ids[r]]
  BY DEF Answers
<1>2. CASE EndReceive \/ AllFinished \/ NoBatch \/ UNCHANGED offline_vars
  <2>1. UNCHANGED vars /\ output_ids' = output_ids /\ prompts' = prompts
    BY <1>2 DEF EndReceive, AllFinished, NoBatch, offline_vars, call
  <2> QED BY <1>1, <2>1, QuietFollows, AnswersFollow
<1>3. CASE TakePrompt
  <2>1. output_ids' = output_ids /\ prompts' = prompts
    BY <1>3 DEF TakePrompt
  <2> QED BY <1>1, <1>3, <2>1, TakeFollows, AnswersFollow
<1>4. CASE LoopStep
  <2>1. Step /\ SendResult /\ prompts' = prompts
    BY <1>4 DEF LoopStep
  <2>2. output_ids' = [r \in Reqs |-> output_ids'[r]]
    BY <2>1 DEF SendResult
  <2>3. pc # "output" => output_ids' = output_ids
    BY <1>1, <2>1 DEF SendResult
  <2>4. CASE Output
    BY <2>1, <2>2, <2>4, OutputFollows, AnswersFollow
  <2>5. CASE ProcessMsg
    <3>1. output_ids' = output_ids
      BY <2>3, <2>5 DEF ProcessMsg
    <3> QED BY <2>1, <2>2, <2>5, <3>1, ProcessFollows, AnswersFollow
  <2>6. CASE Cleanup
    <3>1. output_ids' = output_ids
      BY <2>3, <2>6 DEF Cleanup
    <3> QED BY <2>1, <2>2, <2>6, <3>1, CleanupFollows, AnswersFollow
  <2>7. CASE ContinueChunk \/ AdmitWithoutSlot \/ AdmitWithFreeSlot \/ AdmitWithShedSlot
    <3>1. output_ids' = output_ids
      BY <2>3, <2>7, JoinFacts DEF Admitting
    <3> QED BY <2>1, <2>2, <2>7, <3>1, JoinFollows, AnswersFollow
  <2>8. CASE \/ StartStep \/ StopAdmission \/ TryAllocate \/ EvictForSlot \/ Starved
             \/ PrepareReq \/ EvictForPages \/ EndPrepare \/ Forward \/ EndStep
    <3>1. output_ids' = output_ids
      BY <2>3, <2>8 DEF StartStep, StopAdmission, TryAllocate, EvictForSlot, Starved, PrepareReq,
                        EvictForPages, EndPrepare, Forward, EndStep
    <3> QED BY <2>1, <2>2, <2>8, <3>1, QuietFollows, AnswersFollow
  <2> QED BY <2>1, <2>4, <2>5, <2>6, <2>7, <2>8 DEF Step, Select
<1>5. ~ ClipShared
  BY NoClip DEF ClipShared
<1> QED BY <1>2, <1>3, <1>4, <1>5 DEF OfflineNext

LEMMA AlwaysAnswers ==
  ASSUME OwnLimits
  PROVE  OfflineSpec => []Answers
<1>1. OfflineInit => Answers
  BY InitAsks
<1>2. OfflineSpec => [](IInv /\ Numbers /\ Rooms /\ Batches /\ Asking)
  BY OfflineIsLoop, Inductive, AlwaysNumbers, AlwaysRooms, AlwaysBatches, AlwaysAsking, PTL
<1> QED BY <1>1, <1>2, NextAnswers, PTL DEF OfflineSpec

(* With no request that holds anything nothing is locked, so that all pages  *)
(* are free or can be evicted.                                               *)
LEMMA AllAvailable ==
  IInv /\ LocksInv /\ Counted(tree) /\ Conserved /\ Live = {} /\ pc = "recv"
    => Available(tree) = NumPages
<1> SUFFICES ASSUME IInv, LocksInv, Counted(tree), Conserved, Live = {}, pc = "recv"
             PROVE  Available(tree) = NumPages
  OBVIOUS
<1>1. CountsLocks(tree, {}, Handles)
  <2>1. Locked = {}
    BY LockedReqs, InvSettled DEF Locked
  <2> QED BY <2>1 DEF LocksInv
<1>2. Held(tree) = {}
  <2>1. ASSUME NEW n \in Inner(tree) PROVE tree.ref[n] = 0
    <3>1. {q \in {} : IsPrefix(n, Handles[q])} = {}
      OBVIOUS
    <3> QED BY <1>1, <3>1, FS_EmptySet DEF CountsLocks, Inner
  <2> QED BY <2>1 DEF Held
<1>3. tree.protected = 0
  <2>1. TotalLength(tree, {}) = 0
    <3> DEFINE f == [n \in {} |-> Length(tree, n)]
    <3>1. DOMAIN f = {}
      OBVIOUS
    <3> HIDE DEF f
    <3>2. Total(f) = 0
      BY <3>1, TotalEmpty
    <3> QED BY <3>2 DEF f, TotalLength
  <2> QED BY <1>2, <2>1 DEF Counted
<1>4. Available(tree) \in Nat
  <2>1. tree.evictable \in Nat /\ Len(freePages) \in Nat
    BY CountedFacts, LenProperties DEF IInv, Typed
  <2> QED BY <2>1 DEF Available
<1>5. SumOf(OwnLen, Live) = 0
  BY SumNone
<1> QED BY <1>3, <1>4, <1>5 DEF Conserved

LEMMA ReturnedWhole ==
  IInv /\ LocksInv /\ Counted(tree) /\ Conserved /\ NobodyForgotten
       /\ Asking /\ Sent /\ Ended /\ Answers
    => ResultsComplete
<1> SUFFICES ASSUME IInv, LocksInv, Counted(tree), Conserved, NobodyForgotten,
                    Asking, Sent, Ended, Answers
             PROVE  ResultsComplete
  OBVIOUS
<1>1. req \in [Reqs -> ReqRecord] /\ pending \in Seq(Reqs)
  BY DEF IInv, Typed
<1>2. ASSUME NEW r \in Live \ finished
      PROVE  /\ req[r].prompt = prompts[r + 1].prompt
             /\ output_ids[r] = SubSeq(req[r].ids, InputLen(r) + 1, Len(req[r].ids))
  <2>1. r \in Reqs /\ req[r].stage = "live" /\ r \notin finished
    BY DEF Live
  <2>2. Told(req[r], r \in finished, prompts[r + 1], output_ids[r])
    BY <2>1 DEF Answers, ToldOf
  <2> QED BY <2>1, <2>2 DEF Told, InputLen
<1>3. ASSUME returned
      PROVE  /\ counter = Len(prompts) /\ Available(tree) = NumPages /\ Len(rows) = MaxRunning
             /\ \A i \in 1..Len(prompts) :
                  LET w == prompts[i]
                      answer == output_ids[i - 1]
                  IN IF MostTokens(w) <= 0 THEN answer = <<>>
                     ELSE /\ Len(answer) \in (IF w.ignore_eos THEN MostTokens(w) - 1 ELSE 0) .. MostTokens(w)
                          /\ ~ w.ignore_eos => Eos \notin Range(answer)
  <2>1. pc = "recv" /\ inbox = <<>> /\ pending = <<>> /\ running = {} /\ counter = Len(prompts)
    BY <1>3 DEF Ended
  <2>2. Live = {}
    <3>1. ASSUME NEW r \in Live PROVE FALSE
      BY <2>1, <3>1 DEF NobodyForgotten
    <3> QED BY <3>1
  <2>3. Available(tree) = NumPages
    BY <2>1, <2>2, AllAvailable
  <2>4. Len(rows) = MaxRunning
    <3>1. Cardinality(Live) = 0
      BY <2>2, FS_EmptySet
    <3>2. Len(rows) \in Nat
      BY LenProperties DEF IInv, Typed
    <3> QED BY <2>1, <3>1, <3>2 DEF NobodyForgotten
  <2>5. ASSUME NEW i \in 1..Len(prompts)
        PROVE  IF MostTokens(prompts[i]) <= 0 THEN output_ids[i - 1] = <<>>
               ELSE /\ Len(output_ids[i - 1]) \in
                         (IF prompts[i].ignore_eos THEN MostTokens(prompts[i]) - 1 ELSE 0)
                           .. MostTokens(prompts[i])
                    /\ ~ prompts[i].ignore_eos => Eos \notin Range(output_ids[i - 1])
    <3>1. PICK r : r = i - 1 /\ r \in 0..Len(prompts) - 1 /\ r + 1 = i
      BY LenProperties DEF Asking
    <3>2. r \in Reqs /\ req[r].stage # "new"
      BY <2>1, <3>1 DEF Asking
    <3>3. req[r].stage \notin {"inbox", "pending", "live"}
      <4>1. req[r].stage # "inbox"
        BY <2>1, <3>2 DEF Sent
      <4>2. req[r].stage # "pending"
        <5>1. Range(pending) = {}
          BY <2>1 DEF Range
        <5> QED BY <2>1, <3>2, <5>1 DEF NobodyForgotten
      <4>3. req[r].stage # "live"
        BY <2>2, <3>2 DEF Live
      <4> QED BY <4>1, <4>2, <4>3
    <3>4. req[r].stage \in {"dropped", "done"}
      <4>1. req[r] \in ReqRecord
        BY <1>1, <3>2
      <4> QED BY <3>2, <3>3, <4>1 DEF ReqRecord
    <3>5. Told(req[r], r \in finished, prompts[r + 1], output_ids[r])
      BY <3>2 DEF Answers, ToldOf
    <3>6. MostTokens(prompts[r + 1]) \in Int
      BY <3>2, AskFacts
    <3> QED BY <3>1, <3>4, <3>5, <3>6 DEF Told, Complete
  <2> QED BY <2>1, <2>3, <2>4, <2>5
<1>4. ASSUME returned, NEW i \in 1..Len(prompts), prompts[i].ignore_eos
      PROVE  Len(output_ids[i - 1]) >= MostTokens(prompts[i]) - 1
  <2>1. MostTokens(prompts[i]) \in Int /\ output_ids[i - 1] \in Seq(Vocab)
    <3>1. PICK r : r = i - 1 /\ r \in 0..Len(prompts) - 1 /\ r + 1 = i
      BY LenProperties DEF Asking
    <3>2. r \in Reqs /\ req[r].stage # "new"
      BY <1>3, <1>4, <3>1 DEF Asking
    <3>3. MostTokens(prompts[r + 1]) \in Int
      BY <3>2, AskFacts
    <3>4. output_ids[r] \in Seq(Vocab)
      BY <3>2 DEF Answers
    <3> QED BY <3>1, <3>3, <3>4
  <2>2. Len(output_ids[i - 1]) \in Nat
    BY <2>1, LenProperties
  <2>3. IF MostTokens(prompts[i]) <= 0 THEN output_ids[i - 1] = <<>>
        ELSE Len(output_ids[i - 1]) \in MostTokens(prompts[i]) - 1 .. MostTokens(prompts[i])
    BY <1>3, <1>4
  <2> QED BY <1>4, <2>1, <2>2, <2>3
<1>5. ASSUME returned, NEW i \in 1..Len(prompts)
      PROVE  IF MostTokens(prompts[i]) <= 0 THEN output_ids[i - 1] = <<>>
             ELSE /\ Len(output_ids[i - 1]) <= MostTokens(prompts[i])
                  /\ IF prompts[i].ignore_eos
                     THEN \E j \in SharedBy(i) :
                            /\ MostTokens(prompts[j]) > 0
                            /\ Len(output_ids[i - 1]) >= MostTokens(prompts[j]) - 1
                     ELSE Eos \notin Range(output_ids[i - 1])
  <2>1. CASE MostTokens(prompts[i]) <= 0
    BY <1>3, <1>5, <2>1
  <2>2. CASE ~ (MostTokens(prompts[i]) <= 0)
    <3>1. MostTokens(prompts[i]) \in Int
      <4>1. PICK r : r = i - 1 /\ r \in 0..Len(prompts) - 1 /\ r + 1 = i
        BY LenProperties DEF Asking
      <4>2. r \in Reqs /\ req[r].stage # "new"
        BY <1>3, <1>5, <4>1 DEF Asking
      <4> QED BY <4>1, <4>2, AskFacts
    <3>2. /\ Len(output_ids[i - 1]) \in
               (IF prompts[i].ignore_eos THEN MostTokens(prompts[i]) - 1 ELSE 0)
                 .. MostTokens(prompts[i])
          /\ ~ prompts[i].ignore_eos => Eos \notin Range(output_ids[i - 1])
      BY <1>3, <1>5, <2>2
    <3>3. Len(output_ids[i - 1]) <= MostTokens(prompts[i])
      BY <3>1, <3>2
    <3>4. prompts[i].ignore_eos => /\ MostTokens(prompts[i]) > 0
                                   /\ Len(output_ids[i - 1]) >= MostTokens(prompts[i]) - 1
      BY <1>4, <1>5, <2>2, <3>1
    <3>5. i \in SharedBy(i)
      <4>1. i \in DOMAIN prompts
        BY <1>5, LenProperties DEF Asking
      <4> QED BY <4>1 DEF SharedBy
    <3> QED BY <2>2, <3>2, <3>3, <3>4, <3>5
  <2> QED BY <2>1, <2>2
<1> QED BY <1>2, <1>3, <1>5 DEF ResultsComplete

(* generate hands every prompt its own answer, whole, and everything it took *)
(* is given back when it returns: for any number of prompts, any pools and   *)
(* any budget, whatever the loop admits, chunks, evicts and drops, as long    *)
(* as no prompt is cut short by an object that others share.                 *)
THEOREM GenerateCompletes ==
  ASSUME OwnLimits
  PROVE  OfflineSpec => []ResultsComplete
<1>1. Spec => [](IInv /\ LocksInv /\ Counted(tree) /\ Conserved /\ NobodyForgotten)
  BY Inductive, AlwaysLocks, AlwaysCounters, Integrity, Remembered, PTL
<1>2. OfflineSpec => [](Asking /\ Sent /\ Ended /\ Answers)
  BY AlwaysAsking, AlwaysSent, AlwaysAnswers, PTL
<1> QED BY <1>1, <1>2, OfflineIsLoop, ReturnedWhole, PTL
=============================================================================
