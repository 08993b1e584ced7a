--------------------------- MODULE AdmissionProofs ---------------------------
(***************************************************************************)
(* What becomes of a request between its arrival and its end: it is in     *)
(* exactly the list that the next step looks at, the lengths kept for it   *)
(* stay within what it was admitted for, and a slot can always be had.     *)
(***************************************************************************)
EXTENDS PageProofs

InTheBatch(r) == \E i \in 1..Len(batch) : batch[i] = r

PendingKept ==
  \A r \in Reqs : req[r].stage = "pending" => \E i \in 1..Len(pending) : pending[i] = r

(* The one request whose prompt is cut short is the next to go on.           *)
ChunkKept ==
  \A r \in Live : req[r].chunked =>
    IF Admitting /\ batch # <<>> THEN chunked_list = <<r>>
    ELSE pending # <<>> /\ pending[1] = r

(* Any other that holds resources decodes, is about to run, or is cleaned up.*)
WholeKept ==
  \A r \in Live : ~ req[r].chunked =>
    \/ r \in running
    \/ pc \in {"admit", "slot", "alloc", "forward"} /\ InTheBatch(r)
    \/ pc = "output" /\ ~ CanDecode(r) /\ InTheBatch(r)
    \/ pc = "cleanup" /\ r \in finished

RowsCounted == IsFiniteSet(Live) /\ Len(rows) + Cardinality(Live) = MaxRunning

Kept == PendingKept /\ ChunkKept /\ WholeKept

(* A request asks for one token at least and has room for all it asks for.   *)
Sized(x) == Len(x.prompt) >= 1 /\ x.output >= 1 /\ Len(x.prompt) + x.output <= MaxSeqLen

LiveSizes(x) ==
  /\ x.cached <= x.device /\ x.device <= x.max_device
  /\ x.max_device <= Len(x.prompt) + x.output
  /\ Len(x.row) <= MaxSeqLen
  /\ x.chunked => Len(x.ids) < Len(x.prompt)

(* There is a token to compute and one more that may be sampled.             *)
Ready(x) == x.cached < x.device /\ x.device < x.max_device

ArrivedSizes ==
  \A r \in Reqs : req[r].stage = "inbox" => Len(req[r].prompt) >= 1 /\ req[r].output >= 1
AcceptedSizes == \A r \in Reqs : req[r].stage \in {"pending", "live"} => Sized(req[r])
AdmittedSizes == \A r \in Live : LiveSizes(req[r])
RunningReady == \A r \in running : Ready(req[r])
BatchReady ==
  pc \in {"admit", "slot", "alloc", "forward"} =>
    \A i \in 1..Len(batch) : Ready(req[batch[i]])
HandleShort == pc = "slot" => Len(req[Current].handle) < InputLen(Current)

Numbers ==
  /\ ArrivedSizes /\ AcceptedSizes /\ AdmittedSizes
  /\ RunningReady /\ BatchReady /\ HandleShort

-----------------------------------------------------------------------------
(* The end of schedule_next_batch: what is still pending, and the batch.     *)
LEMMA SelectLists ==
  ASSUME IInv, Admitting, SelectBatch
  PROVE  /\ Len(pending') \in Nat
         /\ \A i \in Len(batch) + 1 .. Len(pending) :
              \E j \in 1..Len(pending') : pending'[j] = pending[i]
         /\ batch = <<>> => /\ pending' = pending
                            /\ \A i \in 1..Len(batch') : batch'[i] \in running
         /\ \A r : chunked_list = <<r>> => Len(pending') > 0 /\ pending'[1] = r
         /\ batch # <<>> => batch' = batch /\ pc' = "alloc"
         /\ pc' \in {"alloc", "recv"}
<1>1. Typed /\ ListsOK
  BY DEF IInv
<1>2. PICK n \in Nat, m \in Nat, k \in Nat :
        n = Len(batch) /\ m = Len(pending) /\ k = Len(chunked_list) /\ n <= m
  BY <1>1, Members DEF ListsOK, AdmissionOK
<1> DEFINE rest == SubSeq(pending, n + 1, m)
<1>3. rest \in Seq(Reqs) /\ Len(rest) = m - n /\ \A i \in 1 .. m - n : rest[i] = pending[n + i]
  <2>1. \A i \in n + 1 .. m : pending[i] \in Reqs
    <3>1. \A i \in n + 1 .. m : i \in 1..m
      BY <1>2
    <3> QED BY <1>1, <1>2, <3>1, Members
  <2>2. /\ rest \in Seq(Reqs) /\ Len(rest) = IF n + 1 <= m THEN m - (n + 1) + 1 ELSE 0
        /\ \A i \in 1 .. m - (n + 1) + 1 : rest[i] = pending[n + 1 + i - 1]
    BY <1>2, <2>1, SubSeqProperties
  <2> HIDE DEF rest
  <2>3. m - (n + 1) + 1 = m - n /\ (n + 1 <= m \/ m - n = 0)
    BY <1>2
  <2>4. ASSUME NEW i \in 1 .. m - n PROVE rest[i] = pending[n + i]
    <3>1. n + 1 + i - 1 = n + i
      BY <1>2
    <3> QED BY <2>2, <2>3, <3>1
  <2> QED BY <2>2, <2>3, <2>4
<1>4. pending' = chunked_list \o rest
  BY <1>2 DEF SelectBatch, StillPending
<1> HIDE DEF rest
<1>5. chunked_list \in Seq(Reqs)
  BY <1>1 DEF Typed
<1> DEFINE u == chunked_list \o rest
<1>6. /\ u \in Seq(Reqs) /\ Len(u) = k + (m - n)
      /\ \A i \in 1..k : u[i] = chunked_list[i]
      /\ \A i \in 1 .. m - n : u[k + i] = rest[i]
  <2>1. rest \in Seq(Reqs) /\ Len(rest) = m - n
    BY <1>3
  <2>2. /\ u \in Seq(Reqs) /\ Len(u) = Len(chunked_list) + Len(rest)
        /\ \A i \in 1..Len(chunked_list) : u[i] = chunked_list[i]
        /\ \A i \in 1..Len(rest) : u[Len(chunked_list) + i] = rest[i]
    <3>1. chunked_list \in Seq(Reqs) /\ rest \in Seq(Reqs)
      BY <1>5, <2>1
    <3> QED BY <3>1, Extended
  <2> HIDE DEF u
  <2> QED BY <1>2, <2>1, <2>2
<1> HIDE DEF u
<1>7. ASSUME NEW i \in n + 1 .. m
      PROVE  \E j \in 1..Len(u) : u[j] = pending[i]
  <2>1. k + (i - n) \in k + 1 .. k + (m - n) /\ k + (i - n) \in 1..Len(u)
        /\ i - n \in 1 .. m - n /\ n + (i - n) = i
    BY <1>2, <1>6
  <2>2. u[k + (i - n)] = pending[i]
    BY <1>3, <1>6, <2>1
  <2> QED BY <2>1, <2>2
<1>8. ASSUME NEW r, chunked_list = <<r>> PROVE Len(u) > 0 /\ u[1] = r
  <2>1. k = 1 /\ chunked_list[1] = r
    BY <1>2, <1>8
  <2> QED BY <1>2, <1>6, <2>1
<1>9. ASSUME batch = <<>>
      PROVE  u = pending /\ \A i \in 1..Len(batch') : batch'[i] \in running
  <2>1. n = 0 /\ k = 0
    <3>1. n = 0
      BY <1>2, <1>9, EmptySeq
    <3>2. \A i \in 1..k : \E j \in 1..n : TRUE
      BY <1>1, <1>2 DEF ListsOK, AdmissionOK
    <3> QED BY <1>2, <3>1, <3>2
  <2>2. \A i \in 1..m : u[i] = pending[i]
    <3> TAKE i \in 1..m
    <3>1. i \in 1 .. m - n /\ k + i = i /\ n + i = i
      BY <1>2, <2>1
    <3> QED BY <1>3, <1>6, <3>1
  <2>3. pending \in Seq(Reqs) /\ Len(u) = Len(pending)
    BY <1>1, <1>2, <1>6, <2>1 DEF Typed
  <2>4. u = pending
    BY <1>2, <1>6, <2>2, <2>3, SeqEqual
  <2>5. batch' \in SetToSeqs(running) /\ IsFiniteSet(running)
    BY <1>1, <1>9 DEF SelectBatch, Typed
  <2> QED BY <2>4, <2>5, SetToSeqsMembers
<1>10. pc' \in {"alloc", "recv"} /\ (batch # <<>> => batch' = batch /\ pc' = "alloc")
  BY DEF SelectBatch
<1>11. pending' = u /\ Len(u) \in Nat
  BY <1>2, <1>4, <1>6 DEF u
<1> QED BY <1>2, <1>7, <1>8, <1>9, <1>10, <1>11

(* _add_one_req, from the request that goes on or from one that got a slot:  *)
(* at least one token is to be computed, and chunked_list says if some are   *)
(* left over.                                                                *)
LEMMA JoinFacts ==
  ASSUME IInv, Numbers,
         ContinueChunk \/ AdmitWithoutSlot \/ AdmitWithFreeSlot \/ AdmitWithShedSlot
  PROVE  /\ Admitting /\ pc' = "admit" /\ budget > 0 /\ Len(batch) < Len(pending)
         /\ UNCHANGED <<inbox, pending, running, finished, prepared>>
         /\ \E r \in Reqs, total \in Nat : \E new :
              /\ r = Current /\ r = pending[Len(batch) + 1]
              /\ \/ pc = "admit" /\ req[r].stage = "live" /\ req[r].chunked
                    /\ new.cached = req[r].cached /\ rows' = rows
                 \/ pc = "slot" /\ req[r].stage = "pending" /\ new.cached = Len(req[r].handle)
                    /\ rows' = Front(rows) /\ rows # <<>> /\ Len(req[r].handle) = Len(req[r].row)
              /\ new.cached < total /\ total <= InputLen(r) /\ new.cached \in Nat
              /\ req' = [req EXCEPT ![r] = new]
              /\ new.stage = "live" /\ new.device = total
              /\ Len(new.ids) = total /\ new.max_device = total + req[r].output
              /\ new.chunked = (total < InputLen(r))
              /\ new.prompt = req[r].prompt /\ new.output = req[r].output
              /\ new.row = req[r].row
              /\ batch' = Append(batch, r)
              /\ chunked_list' = IF new.chunked THEN Append(chunked_list, r) ELSE chunked_list
<1>1. Typed /\ ListsOK /\ LengthsOK
  BY DEF IInv
<1>2. Admitting /\ budget > 0 /\ Len(batch) < Len(pending) /\ pc' = "admit"
      /\ UNCHANGED <<inbox, pending, running, finished, prepared>>
  BY <1>1 DEF ContinueChunk, AdmitWithoutSlot, AdmitWithFreeSlot, AdmitWithShedSlot, Admit,
              Admitting, ListsOK, SlotOK
<1>3. PICK r \in Reqs : r = Current /\ r = pending[Len(batch) + 1]
  BY <1>1, <1>2, CurrentWaits
<1>4. req \in [Reqs -> ReqRecord]
  BY <1>1 DEF Typed
<1>5. PICK len \in Nat, out \in Nat : len = InputLen(r) /\ out = req[r].output
  BY <1>4, ReqFields DEF InputLen
<1>6. PICK c, s :
        /\ c \in Nat /\ AddOneReq(r, c, s) /\ c < len
        /\ \/ pc = "admit" /\ req[r].stage = "live" /\ req[r].chunked
              /\ c = req[r].cached /\ rows' = rows
           \/ pc = "slot" /\ req[r].stage = "pending" /\ c = Len(req[r].handle)
              /\ rows' = Front(rows) /\ rows # <<>> /\ Len(req[r].handle) = Len(req[r].row)
  <2>1. CASE ContinueChunk
    <3>1. /\ pc = "admit" /\ req[r].chunked /\ rows' = rows
          /\ AddOneReq(r, req[r].cached, req[r].slot)
      BY <1>3, <2>1 DEF ContinueChunk
    <3>2. req[r].stage = "live"
      BY <1>1, <3>1 DEF LengthsOK, ReqLengths
    <3>3. LiveSizes(req[r])
      BY <3>2 DEF Numbers, AdmittedSizes, Live
    <3>4. PICK c \in Nat, i \in Nat : c = req[r].cached /\ i = Len(req[r].ids)
      BY <1>4, ReqFields
    <3>5. c <= i /\ i < len
      BY <1>1, <1>5, <3>1, <3>3, <3>4 DEF LengthsOK, ReqLengths, LiveSizes, InputLen
    <3>6. c < len
      BY <1>5, <3>4, <3>5
    <3> QED BY <3>1, <3>2, <3>4, <3>6
  <2>2. CASE AdmitWithoutSlot \/ AdmitWithFreeSlot \/ AdmitWithShedSlot
    <3>1. pc = "slot" /\ \E s : Admit(s)
      BY <2>2 DEF AdmitWithoutSlot, AdmitWithFreeSlot, AdmitWithShedSlot
    <3>2. \E s : AddOneReq(r, Len(req[r].handle), s) /\ rows' = Front(rows)
      BY <1>3, <3>1 DEF Admit
    <3>3. /\ req[r].stage = "pending" /\ rows # <<>>
          /\ Len(req[r].handle) = Len(req[r].row) /\ Len(req[r].handle) < len
      BY <1>1, <1>3, <1>5, <3>1 DEF ListsOK, SlotOK, Numbers, HandleShort
    <3>4. Len(req[r].handle) \in Nat
      BY <1>4, ReqFields
    <3> QED BY <3>1, <3>2, <3>3, <3>4
  <2> QED BY <2>1, <2>2
<1>7. PICK new, total :
        /\ total = c + ChunkSize(len - c) /\ total \in c..len
        /\ req' = [req EXCEPT ![r] = new]
        /\ new.stage = "live" /\ new.cached = c /\ new.device = total
        /\ new.ids = SubSeq(req[r].prompt, 1, total)
        /\ new.max_device = total + req[r].output
        /\ new.chunked = (total < len)
        /\ new.prompt = req[r].prompt /\ new.output = req[r].output
        /\ new.row = req[r].row
  <2>1. c <= InputLen(r)
    BY <1>5, <1>6
  <2> QED BY <1>1, <1>5, <1>6, <2>1, AddOneReqFields
<1>8. /\ batch' = Append(batch, r)
      /\ chunked_list' = IF ChunkSize(len - c) < len - c THEN Append(chunked_list, r)
                         ELSE chunked_list
  BY <1>5, <1>6 DEF AddOneReq
<1>9. PICK b \in Nat : b = budget
  BY <1>1 DEF Typed
<1>10. ChunkSize(len - c) \in 1 .. len - c
  BY <1>2, <1>5, <1>6, <1>9 DEF ChunkSize, Lesser
<1>11. total \in Nat /\ c < total /\ total <= len
       /\ ((total < len) = (ChunkSize(len - c) < len - c))
  BY <1>5, <1>6, <1>7, <1>10
<1>12. Len(new.ids) = total
  <2>1. req[r].prompt \in Seq(Vocab) /\ Len(req[r].prompt) = len
    BY <1>4, <1>5, ReqFields DEF InputLen
  <2>2. total \in 0..Len(req[r].prompt)
    BY <1>5, <1>11, <2>1
  <2> QED BY <1>7, <2>1, <2>2, FirstElements
<1>13. chunked_list' = IF new.chunked THEN Append(chunked_list, r) ELSE chunked_list
  BY <1>7, <1>8, <1>11
<1> QED BY <1>2, <1>3, <1>5, <1>6, <1>7, <1>8, <1>11, <1>12, <1>13

-----------------------------------------------------------------------------
(* The numbers.                                                             *)

LEMMA InitNumbers == Init => Numbers
BY DEF Init, NoReq, Numbers, ArrivedSizes, AcceptedSizes, AdmittedSizes, RunningReady,
       BatchReady, HandleShort, Live

(* The last three parts are about requests that a step outside the batch     *)
(* leaves alone.                                                             *)
LEMMA SubmitNumbers ==
  ASSUME IInv, Numbers, NEW r \in Reqs, Submit(r)
  PROVE  Numbers'
<1>1. Typed /\ ListsOK /\ req \in [Reqs -> ReqRecord]
  BY DEF IInv, Typed
<1>2. /\ pc = "recv" /\ pc' = "recv" /\ req[r].stage = "new" /\ running' = running
  BY DEF Submit
<1>3. PICK w \in Workload :
        req' = [req EXCEPT ![r].stage = "inbox", ![r].prompt = w.prompt,
                           ![r].output = w.max_tokens, ![r].ignore_eos = w.ignore_eos]
  BY DEF Submit
<1>4. /\ req'[r].stage = "inbox" /\ req'[r].prompt = w.prompt /\ req'[r].output = w.max_tokens
      /\ \A q \in Reqs \ {r} : req'[q] = req[q]
  BY <1>1, <1>3 DEF ReqRecord
<1>5. w.prompt \in Seq(Vocab) /\ w.prompt # <<>> /\ w.max_tokens \in Nat \ {0}
  BY WorkloadAssumption
<1>6. Len(w.prompt) >= 1 /\ w.max_tokens >= 1
  <2>1. Len(w.prompt) \in Nat /\ Len(w.prompt) # 0
    BY <1>5, EmptySeq, LenProperties
  <2> QED BY <1>5, <2>1
<1>7. ArrivedSizes'
  BY <1>4, <1>6 DEF Numbers, ArrivedSizes
<1>8. AcceptedSizes' /\ AdmittedSizes'
  BY <1>4 DEF Numbers, AcceptedSizes, AdmittedSizes, Live
<1>9. RunningReady'
  <2>1. \A q \in running : q \in Reqs \ {r}
    BY <1>1, <1>2 DEF Typed, ListsOK, PlacesOK
  <2> QED BY <1>2, <1>4, <2>1 DEF Numbers, RunningReady
<1> QED BY <1>2, <1>7, <1>8, <1>9 DEF Numbers, BatchReady, HandleShort

(* max_tokens is cut to the room there is, which is one token at least.      *)
LEMMA ProcessMsgNumbers ==
  ASSUME IInv, Numbers, ProcessMsg
  PROVE  Numbers'
<1>1. Typed /\ ListsOK /\ req \in [Reqs -> ReqRecord]
  BY DEF IInv, Typed
<1>2. pc = "recv" /\ pc' = "recv" /\ inbox # <<>> /\ running' = running
  BY DEF ProcessMsg
<1>3. PICK r \in Reqs : r = Head(inbox) /\ req[r].stage = "inbox"
  <2>1. Head(inbox) = inbox[1] /\ 1 \in 1..Len(inbox)
    BY <1>1, <1>2, HeadTailProperties, EmptySeq DEF Typed
  <2> QED BY <1>1, <2>1, Members DEF ListsOK, InboxOK
<1>4. PICK len \in Nat, out \in Nat, max \in Int :
        len = InputLen(r) /\ out = req[r].output /\ max = MaxSeqLen
  BY <1>1, ReqFields, Sizes DEF InputLen
<1>5. len >= 1 /\ out >= 1
  BY <1>3, <1>4 DEF Numbers, ArrivedSizes, InputLen
<1>6. \A q \in Reqs \ {r} : req'[q] = req[q]
  BY <1>1, <1>3 DEF ProcessMsg
<1>7. \/ req'[r].stage = "dropped"
      \/ req'[r].stage = "pending" /\ Sized(req'[r])
  <2>1. CASE MaxOutputLen(r) <= 0
    <3>1. req'[r].stage = "dropped"
      BY <1>1, <1>3, <2>1, NoReqFields DEF ProcessMsg
    <3> QED BY <3>1
  <2>2. CASE ~ MaxOutputLen(r) <= 0
    <3>1. req' = [req EXCEPT ![r].stage = "pending",
                             ![r].output = Lesser(@, MaxOutputLen(r))]
      BY <1>3, <2>2 DEF ProcessMsg
    <3>2. /\ req'[r].stage = "pending" /\ req'[r].prompt = req[r].prompt
          /\ req'[r].output = Lesser(req[r].output, MaxOutputLen(r))
      BY <1>1, <3>1 DEF ReqRecord
    <3>3. ~ (max - len <= 0) /\ req'[r].output = Lesser(out, max - len)
      BY <1>4, <2>2, <3>2 DEF MaxOutputLen
    <3>4. req'[r].output >= 1 /\ len + req'[r].output <= max
      BY <1>4, <1>5, <3>3 DEF Lesser
    <3> QED BY <1>4, <1>5, <3>2, <3>4 DEF Sized, InputLen
  <2> QED BY <2>1, <2>2
<1>8. ArrivedSizes' /\ AcceptedSizes' /\ AdmittedSizes'
  BY <1>6, <1>7 DEF Numbers, ArrivedSizes, AcceptedSizes, AdmittedSizes, Live
<1>9. RunningReady'
  <2>1. \A q \in running : q \in Reqs \ {r}
    BY <1>1, <1>3 DEF Typed, ListsOK, PlacesOK
  <2> QED BY <1>2, <1>6, <2>1 DEF Numbers, RunningReady
<1> QED BY <1>2, <1>8, <1>9 DEF Numbers, BatchReady, HandleShort

(* Steps that leave the requests and the running set alone.                  *)
LEMMA QuietNumbers ==
  ASSUME IInv, Numbers,
         StartStep \/ StopAdmission \/ EvictForSlot \/ EvictForPages \/ EndPrepare \/ EndStep
           \/ UNCHANGED vars
  PROVE  Numbers'
<1>1. req' = req /\ running' = running
  BY DEF StartStep, StopAdmission, EvictForSlot, EvictForPages, EndPrepare, EndStep, vars,
         lists, cache
<1>2. ArrivedSizes' /\ AcceptedSizes' /\ AdmittedSizes' /\ RunningReady'
  BY <1>1 DEF Numbers, ArrivedSizes, AcceptedSizes, AdmittedSizes, RunningReady, Live
<1>3. BatchReady'
  <2>1. CASE StartStep
    <3>1. batch = <<>> /\ batch' = batch
      BY <2>1 DEF IInv, ListsOK, PlacesOK, StartStep, lists
    <3>2. \A i \in 1..Len(batch') : FALSE
      BY <3>1
    <3> QED BY <3>2 DEF BatchReady
  <2>2. CASE StopAdmission
    <3>1. Admitting /\ SelectBatch /\ pc = "admit"
      BY <2>2 DEF StopAdmission, Admitting
    <3>2. /\ batch # <<>> => batch' = batch
          /\ batch = <<>> => \A i \in 1..Len(batch') : batch'[i] \in running
      BY <3>1, SelectLists
    <3> QED BY <1>1, <3>1, <3>2 DEF Numbers, BatchReady, RunningReady
  <2>3. CASE EvictForSlot \/ EvictForPages \/ EndPrepare \/ UNCHANGED vars
    <3>1. batch' = batch
      BY <2>3 DEF EvictForSlot, EvictForPages, EndPrepare, vars, lists
    <3>2. \/ pc' = pc
          \/ pc = "alloc" /\ pc' = "forward"
      BY <2>3 DEF EvictForSlot, EvictForPages, EndPrepare, vars
    <3> QED BY <1>1, <3>1, <3>2 DEF Numbers, BatchReady
  <2>4. CASE EndStep
    BY <2>4 DEF EndStep, BatchReady
  <2> QED BY <2>1, <2>2, <2>3, <2>4
<1>4. HandleShort'
  <2>1. CASE EvictForSlot \/ UNCHANGED vars
    <3>1. pc' = pc /\ batch' = batch /\ pending' = pending
      BY <2>1 DEF EvictForSlot, vars, lists
    <3> QED BY <1>1, <3>1 DEF Numbers, HandleShort, Current, InputLen
  <2>2. CASE StartStep \/ StopAdmission \/ EvictForPages \/ EndPrepare \/ EndStep
    <3>1. pc' # "slot"
      BY <2>2 DEF StartStep, StopAdmission, SelectBatch, EvictForPages, EndPrepare, EndStep
    <3> QED BY <3>1 DEF HandleShort
  <2> QED BY <2>1, <2>2
<1> QED BY <1>2, <1>3, <1>4 DEF Numbers

(* A step on a pending request that keeps its lengths.                       *)
LEMMA WaitingNumbers ==
  ASSUME IInv, Numbers, NEW r \in Reqs, req[r].stage = "pending",
         NEW new, req' = [req EXCEPT ![r] = new], Alike(new, req[r]), running' = running
  PROVE  /\ ArrivedSizes' /\ AcceptedSizes' /\ AdmittedSizes' /\ RunningReady'
         /\ \A q \in Reqs : Ready(req[q]) => Ready(req'[q])
<1>1. Typed /\ ListsOK /\ req \in [Reqs -> ReqRecord]
  BY DEF IInv, Typed
<1>2. /\ req'[r] = new /\ \A q \in Reqs \ {r} : req'[q] = req[q]
      /\ new.stage = "pending" /\ new.prompt = req[r].prompt /\ new.output = req[r].output
      /\ new.cached = req[r].cached /\ new.device = req[r].device
      /\ new.max_device = req[r].max_device
  BY <1>1 DEF Alike
<1>3. ArrivedSizes' /\ AcceptedSizes' /\ AdmittedSizes'
  BY <1>2 DEF Numbers, ArrivedSizes, AcceptedSizes, AdmittedSizes, Live, Sized
<1>4. \A q \in Reqs : Ready(req[q]) => Ready(req'[q])
  BY <1>2 DEF Ready
<1>5. RunningReady'
  BY <1>1, <1>4 DEF Numbers, RunningReady, Typed
<1> QED BY <1>3, <1>4, <1>5

LEMMA SelectNumbers ==
  ASSUME IInv, Numbers, Admitting, SelectBatch, \A q \in Reqs : Ready(req[q]) => Ready(req'[q])
  PROVE  BatchReady' /\ HandleShort'
<1>1. Typed
  BY DEF IInv
<1>2. /\ batch # <<>> => batch' = batch
      /\ batch = <<>> => \A i \in 1..Len(batch') : batch'[i] \in running
      /\ pc' \in {"alloc", "recv"}
  BY SelectLists
<1>3. \A i \in 1..Len(batch) : batch[i] \in Reqs /\ Ready(req[batch[i]])
  BY <1>1, Members DEF Numbers, BatchReady, Admitting
<1>4. \A q \in running : q \in Reqs /\ Ready(req[q])
  BY <1>1 DEF Typed, Numbers, RunningReady
<1>5. \A i \in 1..Len(batch') : batch'[i] \in Reqs /\ Ready(req[batch'[i]])
  BY <1>2, <1>3, <1>4
<1> QED BY <1>2, <1>5 DEF BatchReady, HandleShort

(* match_req looks up all but the last token of the prompt.                  *)
LEMMA TryAllocateNumbers ==
  ASSUME IInv, Numbers, TryAllocate
  PROVE  Numbers'
<1>1. pc = "admit" /\ running' = running /\ Admitting
  BY TryAllocateFacts DEF Admitting
<1>2. PICK r \in Reqs, h \in Seq(Vocab) :
        /\ r = Current /\ req[r].stage = "pending" /\ IsPrefix(h, LookupIds(r))
        /\ \/ /\ pc' = "slot" /\ pending' = pending /\ batch' = batch
              /\ \E new : /\ req' = [req EXCEPT ![r] = new]
                          /\ new.stage = "pending" /\ new.handle = h
                          /\ Alike(new, req[r])
           \/ SelectBatch /\ UNCHANGED req
  BY TryAllocateFacts
<1>3. CASE SelectBatch /\ UNCHANGED req
  <2>1. ArrivedSizes' /\ AcceptedSizes' /\ AdmittedSizes' /\ RunningReady'
    BY <1>1, <1>3 DEF Numbers, ArrivedSizes, AcceptedSizes, AdmittedSizes, RunningReady, Live
  <2>2. BatchReady' /\ HandleShort'
    BY <1>1, <1>3, SelectNumbers
  <2> QED BY <2>1, <2>2 DEF Numbers
<1>4. CASE pc' = "slot" /\ pending' = pending /\ batch' = batch
  <2>1. PICK new : /\ req' = [req EXCEPT ![r] = new] /\ new.handle = h /\ Alike(new, req[r])
    BY <1>1, <1>2, <1>4 DEF SelectBatch
  <2>2. /\ ArrivedSizes' /\ AcceptedSizes' /\ AdmittedSizes' /\ RunningReady'
        /\ \A q \in Reqs : Ready(req[q]) => Ready(req'[q])
    BY <1>1, <1>2, <2>1, WaitingNumbers
  <2>3. BatchReady'
    <3>1. \A i \in 1..Len(batch) : batch[i] \in Reqs
      BY Members DEF IInv
    <3> QED BY <1>1, <1>4, <2>2, <3>1 DEF Numbers, BatchReady
  <2>4. HandleShort'
    <3>1. /\ Current' = r /\ req'[r].handle = h /\ req'[r].prompt = req[r].prompt
          /\ Typed /\ req[r] \in ReqRecord
      BY <1>2, <1>4, <2>1 DEF Current, Alike, IInv, Typed
    <3>2. PICK len \in Nat : len = InputLen(r)
      BY <3>1, ReqFields DEF InputLen
    <3>3. len >= 1
      BY <1>2, <3>2 DEF Numbers, AcceptedSizes, Sized, InputLen
    <3>4. LookupIds(r) \in Seq(Vocab) /\ Len(LookupIds(r)) = len - 1
      BY <3>1, <3>2, <3>3, LookupFacts
    <3>5. Len(h) <= len - 1 /\ Len(h) \in Nat
      BY <1>2, <3>4, PrefixPointwise, LenProperties
    <3>6. Len(h) < len
      BY <3>2, <3>5
    <3> QED BY <3>1, <3>2, <3>6 DEF HandleShort, InputLen
  <2> QED BY <2>2, <2>3, <2>4 DEF Numbers
<1> QED BY <1>2, <1>3, <1>4

LEMMA StarvedNumbers ==
  ASSUME IInv, Numbers, Starved
  PROVE  Numbers'
<1>1. Admitting /\ SelectBatch /\ running' = running
  BY StarvedFacts DEF Admitting
<1>2. PICK r \in Reqs : /\ req[r].stage = "pending"
                        /\ \E new : req' = [req EXCEPT ![r] = new] /\ Alike(new, req[r])
  BY StarvedFacts
<1>3. /\ ArrivedSizes' /\ AcceptedSizes' /\ AdmittedSizes' /\ RunningReady'
      /\ \A q \in Reqs : Ready(req[q]) => Ready(req'[q])
  BY <1>1, <1>2, WaitingNumbers
<1> QED BY <1>1, <1>3, SelectNumbers DEF Numbers

LEMMA JoinNumbers ==
  ASSUME IInv, Numbers,
         ContinueChunk \/ AdmitWithoutSlot \/ AdmitWithFreeSlot \/ AdmitWithShedSlot
  PROVE  Numbers'
<1>1. Typed /\ ListsOK /\ LengthsOK /\ req \in [Reqs -> ReqRecord]
  BY DEF IInv, Typed
<1>2. /\ Admitting /\ pc' = "admit" /\ Len(batch) < Len(pending) /\ running' = running
  BY JoinFacts
<1>3. PICK r \in Reqs, total \in Nat : \E new :
        /\ r = Current
        /\ \/ req[r].stage = "live"
           \/ req[r].stage = "pending" /\ new.cached = Len(req[r].handle)
              /\ Len(req[r].handle) = Len(req[r].row)
        /\ new.cached < total /\ total <= InputLen(r) /\ new.cached \in Nat
        /\ req' = [req EXCEPT ![r] = new]
        /\ new.stage = "live" /\ new.device = total
        /\ Len(new.ids) = total /\ new.max_device = total + req[r].output
        /\ new.chunked = (total < InputLen(r))
        /\ new.prompt = req[r].prompt /\ new.output = req[r].output
        /\ new.row = req[r].row
        /\ batch' = Append(batch, r)
  BY JoinFacts
<1>4. PICK new :
        /\ \/ req[r].stage = "live"
           \/ req[r].stage = "pending" /\ new.cached = Len(req[r].handle)
              /\ Len(req[r].handle) = Len(req[r].row)
        /\ new.cached < total /\ total <= InputLen(r) /\ new.cached \in Nat
        /\ req' = [req EXCEPT ![r] = new]
        /\ new.stage = "live" /\ new.device = total
        /\ Len(new.ids) = total /\ new.max_device = total + req[r].output
        /\ new.chunked = (total < InputLen(r))
        /\ new.prompt = req[r].prompt /\ new.output = req[r].output
        /\ new.row = req[r].row
        /\ batch' = Append(batch, r)
  BY <1>3
<1>5. req'[r] = new /\ \A q \in Reqs \ {r} : req'[q] = req[q]
  BY <1>1, <1>4
<1>6. PICK len \in Nat, out \in Nat, max \in Int, c \in Nat, width \in Nat :
        /\ len = InputLen(r) /\ out = req[r].output /\ max = MaxSeqLen /\ c = new.cached
        /\ width = Len(req[r].row)
  BY <1>1, <1>4, ReqFields, Sizes DEF InputLen
<1>7. len >= 1 /\ out >= 1 /\ len + out <= max
  BY <1>4, <1>6 DEF Numbers, AcceptedSizes, Sized, InputLen
<1>8. c < total /\ total < total + out /\ total + out <= len + out
  BY <1>4, <1>6, <1>7
<1>9. width <= max
  <2>1. CASE req[r].stage = "live"
    BY <1>6, <2>1 DEF Numbers, AdmittedSizes, LiveSizes, Live
  <2>2. CASE new.cached = Len(req[r].handle) /\ Len(req[r].handle) = Len(req[r].row)
    <3>1. width = c /\ c < total /\ total <= len /\ len <= max
      BY <1>4, <1>6, <1>7, <2>2
    <3> QED BY <1>6, <3>1
  <2> QED BY <1>4, <2>1, <2>2
<1>10. Ready(new) /\ LiveSizes(new) /\ Sized(new)
  <2>1. new.device = total /\ new.max_device = total + out /\ new.cached = c
    BY <1>4, <1>6
  <2>2. Ready(new)
    BY <1>8, <2>1 DEF Ready
  <2>3. Sized(new)
    BY <1>4, <1>6, <1>7 DEF Sized, InputLen
  <2>4. LiveSizes(new)
    <3>1. new.cached <= new.device /\ new.device <= new.max_device
      BY <1>6, <1>8, <2>1
    <3>2. new.max_device <= Len(new.prompt) + new.output /\ Len(new.row) <= MaxSeqLen
      BY <1>4, <1>6, <1>8, <1>9, <2>1 DEF InputLen
    <3>3. new.chunked => Len(new.ids) < Len(new.prompt)
      BY <1>4 DEF InputLen
    <3> QED BY <3>1, <3>2, <3>3 DEF LiveSizes
  <2> QED BY <2>2, <2>3, <2>4
<1>11. ArrivedSizes' /\ AcceptedSizes' /\ AdmittedSizes'
  BY <1>4, <1>5, <1>10 DEF Numbers, ArrivedSizes, AcceptedSizes, AdmittedSizes, Live
<1>12. r \notin running /\ \A i \in 1..Len(batch) : batch[i] # r
  BY <1>1, <1>2, <1>3, CurrentWaits
<1>13. RunningReady'
  BY <1>1, <1>2, <1>5, <1>12 DEF Numbers, RunningReady, Typed
<1>14. BatchReady'
  <2>1. \A i \in 1..Len(batch) : batch[i] \in Reqs \ {r} /\ Ready(req[batch[i]])
    BY <1>1, <1>2, <1>12, Members DEF Numbers, BatchReady, Admitting
  <2>2. /\ Len(batch') = Len(batch) + 1 /\ batch'[Len(batch) + 1] = r
        /\ \A i \in 1..Len(batch) : batch'[i] = batch[i]
    BY <1>1, <1>4, AppendProperties DEF Typed
  <2>3. \A i \in 1..Len(batch') : i \in 1..Len(batch) \/ i = Len(batch) + 1
    BY <1>1, <2>2, Members
  <2>4. \A i \in 1..Len(batch') : Ready(req'[batch'[i]])
    BY <1>5, <1>10, <2>1, <2>2, <2>3
  <2> QED BY <2>4 DEF BatchReady
<1>15. HandleShort'
  BY <1>2 DEF HandleShort
<1> QED BY <1>11, <1>13, <1>14, <1>15 DEF Numbers

(* _prepare_batch: the row gets as long as the sequence, which has room.     *)
LEMMA PrepareNumbers ==
  ASSUME IInv, Numbers, PrepareReq
  PROVE  Numbers'
<1>1. Typed /\ ListsOK /\ req \in [Reqs -> ReqRecord]
  BY DEF IInv, Typed
<1>2. pc = "alloc" /\ pc' = "alloc" /\ batch' = batch /\ running' = running
  BY PrepareFacts
<1>3. PICK r \in Reqs : \E new :
        /\ req[r].stage = "live" /\ req' = [req EXCEPT ![r] = new]
        /\ Len(new.row) = req[r].device /\ new.stage = "live" /\ Alike(new, req[r])
  BY PrepareFacts
<1>4. PICK new : /\ req[r].stage = "live" /\ req' = [req EXCEPT ![r] = new]
                 /\ Len(new.row) = req[r].device /\ new.stage = "live" /\ Alike(new, req[r])
  BY <1>3
<1>5. req'[r] = new /\ \A q \in Reqs \ {r} : req'[q] = req[q]
  BY <1>1, <1>4
<1>6. LiveSizes(req[r]) /\ Sized(req[r])
  BY <1>4 DEF Numbers, AdmittedSizes, AcceptedSizes, Live
<1>7. LiveSizes(new) /\ Sized(new) /\ (Ready(req[r]) => Ready(new))
  <2>1. Len(new.row) <= MaxSeqLen
    <3>1. PICK len \in Nat, out \in Nat, max \in Int, d \in Nat, m \in Nat :
            /\ len = Len(req[r].prompt) /\ out = req[r].output /\ max = MaxSeqLen
            /\ d = req[r].device /\ m = req[r].max_device
      BY <1>1, ReqFields, Sizes
    <3>2. d <= m /\ m <= len + out /\ len + out <= max /\ Len(new.row) = d
      BY <1>4, <1>6, <3>1 DEF LiveSizes, Sized
    <3>3. d <= max
      BY <3>2
    <3> QED BY <3>1, <3>2, <3>3
  <2> QED BY <1>4, <1>6, <2>1 DEF LiveSizes, Sized, Ready, Alike
<1>8. ArrivedSizes' /\ AcceptedSizes' /\ AdmittedSizes'
  BY <1>4, <1>5, <1>7 DEF Numbers, ArrivedSizes, AcceptedSizes, AdmittedSizes, Live
<1>9. \A q \in Reqs : Ready(req[q]) => Ready(req'[q])
  BY <1>5, <1>7
<1>10. RunningReady'
  BY <1>1, <1>2, <1>9 DEF Numbers, RunningReady, Typed
<1>11. BatchReady'
  <2>1. \A i \in 1..Len(batch) : batch[i] \in Reqs
    BY <1>1, Members
  <2> QED BY <1>2, <1>9, <2>1 DEF Numbers, BatchReady
<1>12. HandleShort'
  BY <1>2 DEF HandleShort
<1> QED BY <1>8, <1>10, <1>11, <1>12 DEF Numbers

(* The model computes one token more; who may decode on has room for one.    *)
LEMMA ForwardNumbers ==
  ASSUME IInv, Numbers, Forward
  PROVE  /\ Numbers'
         /\ \A r \in Reqs : CanDecode(r)' <=> ~ req[r].chunked /\ req'[r].max_device - req'[r].device > 0
<1>1. Typed /\ ListsOK /\ req \in [Reqs -> ReqRecord] /\ running \subseteq Reqs
  BY DEF IInv, Typed
<1>2. /\ pc = "forward" /\ pc' = "output"
      /\ InBatch = {batch[i] : i \in 1..Len(batch)} /\ InBatch \subseteq Live
      /\ \A r \in Reqs \ InBatch : req'[r] = req[r]
      /\ \A r \in InBatch :
           /\ req'[r].cached = req[r].device /\ req'[r].device = req[r].device + 1
           /\ req'[r].stage = "live" /\ req'[r].chunked = req[r].chunked
           /\ req'[r].ids = req[r].ids /\ req'[r].row = req[r].row
           /\ req'[r].prompt = req[r].prompt /\ req'[r].output = req[r].output
           /\ req'[r].max_device = req[r].max_device
  BY ForwardFacts
<1>3. running' = {r \in running \cup InBatch : CanDecode(r)'}
  BY DEF Forward
<1>4. ASSUME NEW r \in InBatch
      PROVE  /\ LiveSizes(req'[r]) /\ Sized(req'[r]) /\ req'[r].cached < req'[r].device
  <2>1. r \in Reqs /\ r \in Live /\ Ready(req[r]) /\ LiveSizes(req[r]) /\ Sized(req[r])
    BY <1>2 DEF Numbers, AdmittedSizes, AcceptedSizes, BatchReady, Live
  <2>2. PICK d \in Nat, m \in Nat : d = req[r].device /\ m = req[r].max_device
    BY <1>1, <2>1, ReqFields
  <2>3. d < m /\ d <= d + 1 /\ d < d + 1 /\ d + 1 <= m
    BY <2>1, <2>2 DEF Ready
  <2> QED BY <1>2, <2>1, <2>2, <2>3 DEF LiveSizes, Sized
<1>5. ArrivedSizes' /\ AcceptedSizes' /\ AdmittedSizes'
  <2>1. \A r \in InBatch : r \in Live /\ r \in Reqs
    BY <1>2 DEF Live
  <2>2. \A r \in Reqs : req'[r].stage = req[r].stage
    BY <1>2, <2>1 DEF Live
  <2>3. ArrivedSizes'
    <3>1. \A r \in Reqs : req[r].stage = "inbox" => req'[r] = req[r]
      BY <1>2, <2>1 DEF Live
    <3> QED BY <2>2, <3>1 DEF Numbers, ArrivedSizes
  <2>4. AcceptedSizes'
    BY <1>2, <1>4, <2>2 DEF Numbers, AcceptedSizes
  <2>5. AdmittedSizes'
    BY <1>2, <1>4, <2>2 DEF Numbers, AdmittedSizes, Live
  <2> QED BY <2>3, <2>4, <2>5
<1>6. ASSUME NEW r \in Reqs
      PROVE  CanDecode(r)' <=> ~ req[r].chunked /\ req'[r].max_device - req'[r].device > 0
  <2>1. req'[r].chunked = req[r].chunked
    BY <1>2
  <2> QED BY <2>1 DEF CanDecode, RemainLen
<1>7. RunningReady'
  <2> SUFFICES ASSUME NEW r \in running' PROVE Ready(req'[r])
    BY DEF RunningReady
  <2>1. r \in Reqs /\ r \in running \cup InBatch /\ CanDecode(r)'
    BY <1>1, <1>2, <1>3 DEF Live
  <2>2. CASE r \in InBatch
    <3>1. PICK d \in Nat, m \in Nat : d = req[r].device /\ m = req[r].max_device
      BY <1>1, <2>1, ReqFields
    <3>2. m - (d + 1) > 0
      BY <1>2, <1>6, <2>1, <2>2, <3>1
    <3>3. d + 1 < m
      BY <3>1, <3>2
    <3> QED BY <1>2, <1>4, <2>2, <3>1, <3>3 DEF Ready
  <2>3. CASE r \notin InBatch
    BY <1>2, <2>1, <2>3 DEF Numbers, RunningReady
  <2> QED BY <2>2, <2>3
<1>8. BatchReady' /\ HandleShort'
  BY <1>2 DEF BatchReady, HandleShort
<1> QED BY <1>5, <1>6, <1>7, <1>8 DEF Numbers

LEMMA OutputNumbers ==
  ASSUME IInv, Numbers, Output
  PROVE  Numbers'
<1>1. Typed /\ ListsOK /\ req \in [Reqs -> ReqRecord]
  BY DEF IInv, Typed
<1>2. pc' = "cleanup" /\ running' \subseteq running
  BY OutputFacts
<1>3. \A r \in Reqs :
        /\ req'[r].cached = req[r].cached /\ req'[r].device = req[r].device
        /\ req'[r].stage = req[r].stage /\ req'[r].chunked = req[r].chunked
        /\ req'[r].row = req[r].row /\ req'[r].prompt = req[r].prompt
        /\ req'[r].output = req[r].output /\ req'[r].max_device = req[r].max_device
        /\ req[r].chunked => req'[r] = req[r]
  BY OutputFacts DEF Sampled
<1>4. ArrivedSizes' /\ AcceptedSizes'
  BY <1>3 DEF Numbers, ArrivedSizes, AcceptedSizes, Sized
<1>5. AdmittedSizes'
  BY <1>3 DEF Numbers, AdmittedSizes, Live, LiveSizes
<1>6. RunningReady'
  BY <1>1, <1>2, <1>3 DEF Numbers, RunningReady, Ready, Typed
<1> QED BY <1>2, <1>4, <1>5, <1>6 DEF Numbers, BatchReady, HandleShort

LEMMA CleanupNumbers ==
  ASSUME IInv, Numbers, Cleanup
  PROVE  Numbers'
<1>1. Typed /\ ListsOK /\ req \in [Reqs -> ReqRecord]
  BY DEF IInv, Typed
<1>2. pc' = "cleanup" /\ running' = running
  BY CleanupFacts
<1>3. PICK r \in finished : \E new : req' = [req EXCEPT ![r] = new] /\ new.stage = "done"
  BY CleanupFacts
<1>4. r \in Reqs /\ r \notin running
  BY <1>1 DEF Typed, ListsOK, PlacesOK
<1>5. req'[r].stage = "done" /\ \A q \in Reqs \ {r} : req'[q] = req[q]
  BY <1>1, <1>3, <1>4
<1>6. ArrivedSizes' /\ AcceptedSizes' /\ AdmittedSizes' /\ RunningReady'
  BY <1>1, <1>2, <1>4, <1>5
     DEF Numbers, ArrivedSizes, AcceptedSizes, AdmittedSizes, RunningReady, Live, Typed
<1> QED BY <1>2, <1>6 DEF Numbers, BatchReady, HandleShort

LEMMA NextKeepsNumbers == IInv /\ Numbers /\ [Next]_vars => Numbers'
<1> SUFFICES ASSUME IInv, Numbers, [Next]_vars PROVE Numbers'
  OBVIOUS
<1>1. CASE RunWhenIdle \/ UNCHANGED vars
  BY <1>1, QuietNumbers DEF RunWhenIdle
<1> QED BY <1>1, SubmitNumbers, ProcessMsgNumbers, QuietNumbers, TryAllocateNumbers,
           StarvedNumbers, JoinNumbers, PrepareNumbers, ForwardNumbers, OutputNumbers,
           CleanupNumbers DEF Next, Step, Select

LEMMA AlwaysNumbers == Spec => []Numbers
BY InitNumbers, NextKeepsNumbers, Inductive, PTL DEF Spec

-----------------------------------------------------------------------------
(* The lists.                                                               *)

LEMMA InitKept == Init => Kept
BY DEF Init, NoReq, Kept, PendingKept, ChunkKept, WholeKept, Live

LEMMA QuietKept ==
  ASSUME IInv, Kept,
         StartStep \/ EvictForSlot \/ EvictForPages \/ EndPrepare \/ EndStep \/ UNCHANGED vars
  PROVE  Kept'
<1>1. /\ req' = req /\ pending' = pending /\ chunked_list' = chunked_list
      /\ running' = running
  BY DEF StartStep, EvictForSlot, EvictForPages, EndPrepare, EndStep, vars, lists, cache
<1>2. PendingKept'
  BY <1>1 DEF Kept, PendingKept
<1>3. ASSUME NEW r \in Live, req[r].chunked
      PROVE  IF Admitting' /\ batch' # <<>> THEN chunked_list = <<r>>
             ELSE pending # <<>> /\ pending[1] = r
  <2>1. IF Admitting /\ batch # <<>> THEN chunked_list = <<r>>
        ELSE pending # <<>> /\ pending[1] = r
    BY <1>3 DEF Kept, ChunkKept
  <2>2. CASE StartStep
    <3>1. batch = <<>> /\ batch' = batch
      BY <2>2 DEF IInv, ListsOK, PlacesOK, StartStep, lists
    <3> QED BY <2>1, <3>1
  <2>3. CASE EvictForSlot \/ EvictForPages \/ UNCHANGED vars
    <3>1. pc' = pc /\ batch' = batch
      BY <2>3 DEF EvictForSlot, EvictForPages, vars, lists
    <3> QED BY <2>1, <3>1 DEF Admitting
  <2>4. CASE EndPrepare \/ EndStep
    <3>1. ~ Admitting /\ ~ Admitting'
      BY <2>4 DEF EndPrepare, EndStep, Admitting
    <3> QED BY <2>1, <3>1
  <2> QED BY <2>2, <2>3, <2>4
<1>4. ChunkKept'
  BY <1>1, <1>3 DEF ChunkKept, Live
<1>5. ASSUME NEW r \in Live, ~ req[r].chunked
      PROVE  \/ r \in running
             \/ pc' \in {"admit", "slot", "alloc", "forward"} /\ InTheBatch(r)'
             \/ pc' = "output" /\ ~ CanDecode(r) /\ InTheBatch(r)'
             \/ pc' = "cleanup" /\ r \in finished'
  <2>1. \/ r \in running
        \/ pc \in {"admit", "slot", "alloc", "forward"} /\ InTheBatch(r)
        \/ pc = "output" /\ ~ CanDecode(r) /\ InTheBatch(r)
        \/ pc = "cleanup" /\ r \in finished
    BY <1>5 DEF Kept, WholeKept
  <2>2. CASE StartStep
    BY <2>1, <2>2 DEF StartStep
  <2>3. CASE EvictForSlot \/ EvictForPages \/ UNCHANGED vars
    <3>1. pc' = pc /\ batch' = batch /\ finished' = finished
      BY <2>3 DEF EvictForSlot, EvictForPages, vars, lists
    <3> QED BY <2>1, <3>1 DEF InTheBatch
  <2>4. CASE EndPrepare
    <3>1. pc = "alloc" /\ pc' = "forward" /\ batch' = batch
      BY <2>4 DEF EndPrepare, lists
    <3> QED BY <2>1, <3>1 DEF InTheBatch
  <2>5. CASE EndStep
    BY <2>1, <2>5 DEF EndStep
  <2> QED BY <2>2, <2>3, <2>4, <2>5
<1>6. WholeKept'
  BY <1>1, <1>5 DEF WholeKept, Live, CanDecode, RemainLen
<1> QED BY <1>2, <1>4, <1>6 DEF Kept

LEMMA SubmitKept ==
  ASSUME IInv, Kept, NEW r \in Reqs, Submit(r)
  PROVE  Kept'
<1>1. req \in [Reqs -> ReqRecord]
  BY DEF IInv, Typed
<1>2. /\ pc = "recv" /\ pc' = "recv" /\ req[r].stage = "new"
      /\ UNCHANGED <<pending, running, batch, chunked_list, finished>>
  BY DEF Submit
<1>3. req'[r].stage = "inbox" /\ \A q \in Reqs \ {r} : req'[q] = req[q]
  BY <1>1 DEF Submit, ReqRecord
<1>4. PendingKept'
  BY <1>2, <1>3 DEF Kept, PendingKept
<1>5. \A q \in Live' : q \in Live /\ req'[q] = req[q]
  BY <1>3 DEF Live
<1>6. ChunkKept'
  BY <1>2, <1>5 DEF Kept, ChunkKept, Admitting
<1>7. WholeKept'
  BY <1>2, <1>5 DEF Kept, WholeKept
<1> QED BY <1>4, <1>6, <1>7 DEF Kept

(* An accepted request goes to the end of the list.                          *)
LEMMA ProcessMsgKept ==
  ASSUME IInv, Kept, ProcessMsg
  PROVE  Kept'
<1>1. Typed /\ ListsOK /\ req \in [Reqs -> ReqRecord]
  BY DEF IInv, Typed
<1>2. /\ pc = "recv" /\ pc' = "recv" /\ inbox # <<>>
      /\ UNCHANGED <<running, batch, chunked_list, finished>>
  BY DEF ProcessMsg
<1>3. PICK r \in Reqs : r = Head(inbox) /\ req[r].stage = "inbox"
  <2>1. Head(inbox) = inbox[1] /\ 1 \in 1..Len(inbox)
    BY <1>1, <1>2, HeadTailProperties, EmptySeq DEF Typed
  <2> QED BY <1>1, <2>1, Members DEF ListsOK, InboxOK
<1>4. \A q \in Reqs \ {r} : req'[q] = req[q]
  BY <1>1, <1>3 DEF ProcessMsg
<1>5. \/ req'[r].stage = "dropped" /\ pending' = pending
      \/ req'[r].stage = "pending" /\ pending' = Append(pending, r)
  <2>1. CASE MaxOutputLen(r) <= 0
    <3>1. req'[r].stage = "dropped" /\ pending' = pending
      BY <1>1, <1>3, <2>1, NoReqFields DEF ProcessMsg
    <3> QED BY <3>1
  <2>2. CASE ~ MaxOutputLen(r) <= 0
    BY <1>1, <1>3, <2>2 DEF ProcessMsg, ReqRecord
  <2> QED BY <2>1, <2>2
<1>6. /\ Len(pending) \in Nat /\ Len(pending') \in Nat /\ Len(pending) <= Len(pending')
      /\ \A i \in 1..Len(pending) : i \in 1..Len(pending') /\ pending'[i] = pending[i]
      /\ req'[r].stage = "pending" => \E i \in 1..Len(pending') : pending'[i] = r
  <2>1. Len(pending) \in Nat
    BY <1>1, Members
  <2>2. CASE pending' = pending /\ req'[r].stage = "dropped"
    BY <2>1, <2>2
  <2>3. CASE pending' = Append(pending, r)
    <3>1. /\ Len(pending') = Len(pending) + 1 /\ pending'[Len(pending) + 1] = r
          /\ \A i \in 1..Len(pending) : pending'[i] = pending[i]
      BY <1>1, <2>3, AppendProperties DEF Typed
    <3>2. Len(pending) + 1 \in 1..Len(pending')
      BY <2>1, <3>1
    <3> QED BY <2>1, <3>1, <3>2
  <2> QED BY <1>5, <2>2, <2>3
<1>7. PendingKept'
  <2> SUFFICES ASSUME NEW q \in Reqs, req'[q].stage = "pending"
               PROVE  \E i \in 1..Len(pending') : pending'[i] = q
    BY DEF PendingKept
  <2>1. CASE q = r
    BY <1>6, <2>1
  <2>2. CASE q # r
    <3>1. PICK i \in 1..Len(pending) : pending[i] = q
      BY <1>4, <2>2 DEF Kept, PendingKept
    <3> QED BY <1>6, <3>1
  <2> QED BY <2>1, <2>2
<1>8. \A q \in Live' : q \in Live /\ req'[q] = req[q]
  BY <1>4, <1>5 DEF Live
<1>9. ChunkKept'
  <2> SUFFICES ASSUME NEW q \in Live', req'[q].chunked
               PROVE  pending' # <<>> /\ pending'[1] = q
    BY <1>2 DEF ChunkKept, Admitting
  <2>1. pending # <<>> /\ pending[1] = q
    BY <1>2, <1>8 DEF Kept, ChunkKept, Admitting
  <2>2. 1 \in 1..Len(pending)
    BY <1>1, <1>6, <2>1, EmptySeq DEF Typed
  <2>3. 1 \in 1..Len(pending') /\ pending'[1] = q
    BY <1>6, <2>1, <2>2
  <2> QED BY <2>3, EmptySeq
<1>10. WholeKept'
  BY <1>2, <1>8 DEF Kept, WholeKept
<1> QED BY <1>7, <1>9, <1>10 DEF Kept

(* Who was cut short goes back to the head of the list.                      *)
LEMMA SelectKept ==
  ASSUME IInv, Kept, Admitting, SelectBatch, running' = running, SameForLists
  PROVE  Kept'
<1>1. /\ Len(pending') \in Nat
      /\ \A i \in Len(batch) + 1 .. Len(pending) :
           \E j \in 1..Len(pending') : pending'[j] = pending[i]
      /\ batch = <<>> => pending' = pending
      /\ \A r : chunked_list = <<r>> => Len(pending') > 0 /\ pending'[1] = r
      /\ batch # <<>> => batch' = batch /\ pc' = "alloc"
      /\ pc' \in {"alloc", "recv"}
  BY SelectLists
<1>2. /\ Len(batch) \in Nat /\ Len(pending) \in Nat
      /\ \A i \in 1..Len(batch) : batch[i] = pending[i] /\ req[batch[i]].stage = "live"
  BY Members DEF IInv, ListsOK, AdmissionOK
<1>3. \A r \in Reqs : req'[r].stage = req[r].stage /\ req'[r].chunked = req[r].chunked
  BY DEF SameForLists
<1>4. PendingKept'
  <2> SUFFICES ASSUME NEW r \in Reqs, req[r].stage = "pending"
               PROVE  \E j \in 1..Len(pending') : pending'[j] = r
    BY <1>3 DEF PendingKept
  <2>1. PICK i \in 1..Len(pending) : pending[i] = r
    BY DEF Kept, PendingKept
  <2>2. i \notin 1..Len(batch)
    BY <1>2, <2>1
  <2>3. i \in Len(batch) + 1 .. Len(pending)
    BY <1>2, <2>2
  <2> QED BY <1>1, <2>1, <2>3
<1>5. Live' = Live
  BY <1>3 DEF Live
<1>6. ChunkKept'
  <2> SUFFICES ASSUME NEW r \in Live, req[r].chunked PROVE pending' # <<>> /\ pending'[1] = r
    BY <1>1, <1>3, <1>5 DEF ChunkKept, Admitting, Live
  <2>1. CASE batch = <<>>
    BY <1>1, <2>1 DEF Kept, ChunkKept
  <2>2. CASE batch # <<>>
    <3>1. chunked_list = <<r>>
      BY <2>2 DEF Kept, ChunkKept
    <3>2. Len(pending') > 0 /\ pending'[1] = r
      BY <1>1, <3>1
    <3>3. pending' # <<>>
      <4>1. Len(<<>>) = 0
        BY EmptySeq
      <4> QED BY <3>2, <4>1
    <3> QED BY <3>2, <3>3
  <2> QED BY <2>1, <2>2
<1>7. WholeKept'
  <2> SUFFICES ASSUME NEW r \in Live, ~ req[r].chunked
               PROVE  r \in running \/ (pc' = "alloc" /\ InTheBatch(r)')
    BY <1>3, <1>5 DEF WholeKept, Live
  <2>1. r \in running \/ InTheBatch(r)
    BY DEF Kept, WholeKept, Admitting
  <2>2. ASSUME InTheBatch(r) PROVE pc' = "alloc" /\ InTheBatch(r)'
    <3>1. batch # <<>>
      BY <2>2, EmptySeq DEF InTheBatch
    <3> QED BY <1>1, <2>2, <3>1 DEF InTheBatch
  <2> QED BY <2>1, <2>2
<1> QED BY <1>4, <1>6, <1>7 DEF Kept

LEMMA AdmissionKept ==
  ASSUME IInv, Kept, StopAdmission \/ TryAllocate \/ Starved
  PROVE  Kept'
<1>1. Typed /\ req \in [Reqs -> ReqRecord]
  BY DEF IInv, Typed
<1>2. CASE StopAdmission
  <2>1. /\ Admitting /\ SelectBatch /\ running' = running /\ req' = req
    BY <1>2 DEF StopAdmission, Admitting
  <2> QED BY <2>1, SelectKept DEF SameForLists
<1>3. CASE Starved
  <2>1. Admitting /\ SelectBatch /\ running' = running
    BY <1>3, StarvedFacts DEF Admitting
  <2>2. PICK r \in Reqs : \E new : req' = [req EXCEPT ![r] = new] /\ Alike(new, req[r])
    BY <1>3, StarvedFacts
  <2>3. SameForLists
    BY <1>1, <2>2 DEF Alike, SameForLists
  <2> QED BY <2>1, <2>3, SelectKept
<1>4. CASE TryAllocate
  <2>1. pc = "admit" /\ running' = running /\ finished' = finished /\ Admitting
    BY <1>4, TryAllocateFacts DEF Admitting
  <2>2. PICK r \in Reqs :
          /\ req[r].stage = "pending"
          /\ \/ /\ pc' = "slot" /\ UNCHANGED <<pending, batch, chunked_list>>
                /\ \E new : req' = [req EXCEPT ![r] = new] /\ Alike(new, req[r])
             \/ SelectBatch /\ UNCHANGED req
    BY <1>4, TryAllocateFacts
  <2>3. CASE SelectBatch /\ UNCHANGED req
    BY <2>1, <2>3, SelectKept DEF SameForLists
  <2>4. CASE /\ pc' = "slot" /\ UNCHANGED <<pending, batch, chunked_list>>
             /\ \E new : req' = [req EXCEPT ![r] = new] /\ Alike(new, req[r])
    <3>1. \A q \in Reqs : req'[q].stage = req[q].stage
      BY <1>1, <2>4 DEF Alike
    <3>2. \A q \in Reqs \ {r} : req'[q] = req[q]
      BY <1>1, <2>4
    <3>3. \A q \in Live' : q \in Live /\ req'[q] = req[q]
      BY <2>2, <3>1, <3>2 DEF Live
    <3>4. Admitting'
      BY <2>4 DEF Admitting
    <3>5. PendingKept'
      BY <2>4, <3>1 DEF Kept, PendingKept
    <3>6. ChunkKept'
      BY <2>1, <2>4, <3>3, <3>4 DEF Kept, ChunkKept
    <3>7. WholeKept'
      BY <2>1, <2>4, <3>3 DEF Kept, WholeKept, InTheBatch
    <3> QED BY <3>5, <3>6, <3>7 DEF Kept
  <2> QED BY <2>2, <2>3, <2>4
<1> QED BY <1>2, <1>3, <1>4

(* Whoever was cut short in an earlier step is at the head of the list, so   *)
(* that one joins the batch first, and nobody after one that is cut short.   *)
LEMMA JoinKept ==
  ASSUME IInv, Numbers, Kept,
         ContinueChunk \/ AdmitWithoutSlot \/ AdmitWithFreeSlot \/ AdmitWithShedSlot
  PROVE  Kept'
<1>1. Typed /\ ListsOK /\ req \in [Reqs -> ReqRecord]
  BY DEF IInv, Typed
<1>2. /\ Admitting /\ pc' = "admit" /\ budget > 0 /\ Len(batch) < Len(pending)
      /\ UNCHANGED <<pending, running, finished>>
  BY JoinFacts
<1>3. PICK r \in Reqs : \E new :
        /\ r = pending[Len(batch) + 1]
        /\ req' = [req EXCEPT ![r] = new] /\ new.stage = "live"
        /\ batch' = Append(batch, r)
        /\ chunked_list' = IF new.chunked THEN Append(chunked_list, r) ELSE chunked_list
  BY JoinFacts
<1>4. PICK new :
        /\ req' = [req EXCEPT ![r] = new] /\ new.stage = "live"
        /\ chunked_list' = IF new.chunked THEN Append(chunked_list, r) ELSE chunked_list
  BY <1>3
<1>5. req'[r] = new /\ \A q \in Reqs \ {r} : req'[q] = req[q]
  BY <1>1, <1>4
<1>6. /\ Len(batch) \in Nat /\ Len(batch') = Len(batch) + 1 /\ batch'[Len(batch) + 1] = r
      /\ \A i \in 1..Len(batch) : batch'[i] = batch[i]
  BY <1>1, <1>3, AppendProperties, Members DEF Typed
<1>7. InTheBatch(r)' /\ \A q : InTheBatch(q) => InTheBatch(q)'
  <2>1. Len(batch) + 1 \in 1..Len(batch') /\ \A i \in 1..Len(batch) : i \in 1..Len(batch')
    BY <1>6
  <2> QED BY <1>6, <2>1 DEF InTheBatch
<1>8. chunked_list = <<>>
  <2>1. \A i \in 1..Len(chunked_list) : budget = 0
    BY <1>1, <1>2 DEF ListsOK, AdmissionOK
  <2>2. Len(chunked_list) \in Nat /\ budget # 0
    BY <1>1, <1>2, Members DEF Typed
  <2>3. Len(chunked_list) = 0
    BY <2>1, <2>2
  <2> QED BY <1>1, <2>3, EmptySeq DEF Typed
<1>9. PendingKept'
  BY <1>2, <1>4, <1>5 DEF Kept, PendingKept
<1>10. ChunkKept'
  <2> SUFFICES ASSUME NEW q \in Live', req'[q].chunked PROVE chunked_list' = <<q>>
    <3>1. Admitting'
      BY <1>2 DEF Admitting
    <3>2. batch' # <<>>
      BY <1>6, EmptySeq
    <3> QED BY <3>1, <3>2 DEF ChunkKept
  <2>1. CASE q = r
    BY <1>4, <1>5, <1>8, <2>1
  <2>2. CASE q # r
    <3>1. q \in Live /\ req[q].chunked
      BY <1>5, <2>2 DEF Live
    <3>2. ~ (chunked_list = <<q>>)
      BY <1>8
    <3>3. batch = <<>> /\ pending[1] = q
      BY <1>2, <3>1, <3>2 DEF Kept, ChunkKept
    <3>4. Len(batch) + 1 = 1
      BY <3>3, EmptySeq
    <3> QED BY <1>3, <2>2, <3>3, <3>4
  <2> QED BY <2>1, <2>2
<1>11. WholeKept'
  <2> SUFFICES ASSUME NEW q \in Live', ~ req'[q].chunked PROVE q \in running \/ InTheBatch(q)'
    BY <1>2 DEF WholeKept
  <2>1. CASE q = r
    BY <1>7, <2>1
  <2>2. CASE q # r
    <3>1. q \in Live /\ ~ req[q].chunked
      BY <1>5, <2>2 DEF Live
    <3>2. q \in running \/ InTheBatch(q)
      BY <1>2, <3>1 DEF Kept, WholeKept, Admitting
    <3> QED BY <1>7, <3>2
  <2> QED BY <2>1, <2>2
<1> QED BY <1>9, <1>10, <1>11 DEF Kept

LEMMA PrepareKept ==
  ASSUME IInv, Kept, PrepareReq
  PROVE  Kept'
<1>1. req \in [Reqs -> ReqRecord]
  BY DEF IInv, Typed
<1>2. /\ pc = "alloc" /\ pc' = "alloc"
      /\ UNCHANGED <<pending, running, batch, chunked_list, finished>>
  BY PrepareFacts
<1>3. PICK r \in Reqs : \E new : req' = [req EXCEPT ![r] = new] /\ Alike(new, req[r])
  BY PrepareFacts
<1>4. \A q \in Reqs : req'[q].stage = req[q].stage /\ req'[q].chunked = req[q].chunked
  BY <1>1, <1>3 DEF Alike
<1>5. Live' = Live
  BY <1>4 DEF Live
<1>6. PendingKept'
  BY <1>2, <1>4 DEF Kept, PendingKept
<1>7. ChunkKept'
  BY <1>2, <1>4, <1>5 DEF Kept, ChunkKept, Admitting, Live
<1>8. WholeKept'
  BY <1>2, <1>4, <1>5 DEF Kept, WholeKept, InTheBatch, Live
<1> QED BY <1>6, <1>7, <1>8 DEF Kept

(* Who can decode on joins the running set, who cannot is in the batch.      *)
LEMMA ForwardKept ==
  ASSUME IInv, Numbers, Kept, Forward
  PROVE  Kept'
<1>1. Typed /\ ListsOK /\ req \in [Reqs -> ReqRecord]
  BY DEF IInv, Typed
<1>2. /\ pc = "forward" /\ pc' = "output"
      /\ UNCHANGED <<pending, batch, chunked_list, finished>>
      /\ InBatch = {batch[i] : i \in 1..Len(batch)} /\ InBatch \subseteq Live
      /\ \A r \in Reqs \ InBatch : req'[r] = req[r]
      /\ \A r \in InBatch : req'[r].stage = "live" /\ req'[r].chunked = req[r].chunked
  BY ForwardFacts
<1>3. running' = {r \in running \cup InBatch : CanDecode(r)'}
  BY DEF Forward
<1>4. \A q \in Reqs : req'[q].stage = req[q].stage /\ req'[q].chunked = req[q].chunked
  BY <1>2 DEF Live
<1>5. Live' = Live
  BY <1>4 DEF Live
<1>6. PendingKept'
  BY <1>2, <1>4 DEF Kept, PendingKept
<1>7. ChunkKept'
  BY <1>2, <1>4, <1>5 DEF Kept, ChunkKept, Admitting, Live
<1>8. WholeKept'
  <2> SUFFICES ASSUME NEW q \in Live, ~ req[q].chunked
               PROVE  q \in running' \/ (~ CanDecode(q)' /\ InTheBatch(q)')
    BY <1>2, <1>4, <1>5 DEF WholeKept, Live
  <2>1. q \in running \/ InTheBatch(q)
    BY <1>2 DEF Kept, WholeKept
  <2>2. CASE q \in InBatch
    <3>1. InTheBatch(q)'
      BY <1>2, <2>2 DEF InTheBatch
    <3> QED BY <1>3, <2>2, <3>1
  <2>3. CASE q \notin InBatch
    <3>1. q \in running /\ q \in Reqs
      BY <1>1, <1>2, <2>1, <2>3 DEF InTheBatch, Typed
    <3>2. req'[q] = req[q] /\ Ready(req[q])
      BY <1>2, <2>3, <3>1 DEF Numbers, RunningReady
    <3>3. PICK d \in Nat, m \in Nat : d = req[q].device /\ m = req[q].max_device
      BY <1>1, <3>1, ReqFields
    <3>4. m - d > 0
      BY <3>2, <3>3 DEF Ready
    <3>5. CanDecode(q)'
      BY <3>1, <3>2, <3>3, <3>4, ForwardNumbers
    <3> QED BY <1>3, <3>1, <3>5
  <2> QED BY <2>2, <2>3
<1> QED BY <1>6, <1>7, <1>8 DEF Kept

(* Who cannot decode on is finished.                                         *)
LEMMA OutputKept ==
  ASSUME IInv, Kept, Output
  PROVE  Kept'
<1>1. Typed /\ ListsOK
  BY DEF IInv
<1>2. /\ pc = "output" /\ pc' = "cleanup"
      /\ UNCHANGED <<pending, batch, chunked_list>>
      /\ \A r \in Reqs : req'[r].stage = req[r].stage /\ req'[r].chunked = req[r].chunked
  BY OutputFacts
<1>3. PICK next \in [Sampled -> Vocab] :
        LET done == {r \in Sampled : Finishes(r, next[r])}
        IN finished' = done /\ running' = running \ done
  BY OutputFacts
<1>4. Live' = Live
  BY <1>2 DEF Live
<1>5. PendingKept'
  BY <1>2 DEF Kept, PendingKept
<1>6. ChunkKept'
  BY <1>2, <1>4 DEF Kept, ChunkKept, Admitting, Live
<1>7. WholeKept'
  <2> SUFFICES ASSUME NEW q \in Live, ~ req[q].chunked
               PROVE  q \in running' \/ q \in finished'
    BY <1>2, <1>4 DEF WholeKept, Live
  <2>1. q \in running \/ (~ CanDecode(q) /\ InTheBatch(q))
    BY <1>2 DEF Kept, WholeKept
  <2>2. CASE q \in running
    BY <1>3, <2>2
  <2>3. CASE ~ CanDecode(q) /\ InTheBatch(q)
    <3>1. q \in Sampled
      BY <2>3 DEF InTheBatch, Sampled, InBatch, Range
    <3> QED BY <1>3, <2>3, <3>1 DEF Finishes
  <2> QED BY <2>1, <2>2, <2>3
<1> QED BY <1>5, <1>6, <1>7 DEF Kept

LEMMA CleanupKept ==
  ASSUME IInv, Kept, Cleanup
  PROVE  Kept'
<1>1. Typed /\ ListsOK /\ req \in [Reqs -> ReqRecord]
  BY DEF IInv, Typed
<1>2. /\ pc = "cleanup" /\ pc' = "cleanup"
      /\ UNCHANGED <<pending, running, batch, chunked_list>>
  BY CleanupFacts
<1>3. PICK r \in finished :
        /\ finished' = finished \ {r}
        /\ \E new : req' = [req EXCEPT ![r] = new] /\ new.stage = "done"
  BY CleanupFacts
<1>4. r \in Reqs /\ req'[r].stage = "done" /\ \A q \in Reqs \ {r} : req'[q] = req[q]
  BY <1>1, <1>3 DEF Typed
<1>5. \A q \in Live' : q \in Live /\ q # r /\ req'[q] = req[q]
  BY <1>4 DEF Live
<1>6. PendingKept'
  BY <1>2, <1>4 DEF Kept, PendingKept
<1>7. ChunkKept'
  BY <1>2, <1>5 DEF Kept, ChunkKept, Admitting
<1>8. WholeKept'
  BY <1>2, <1>3, <1>5 DEF Kept, WholeKept
<1> QED BY <1>6, <1>7, <1>8 DEF Kept

LEMMA NextKeepsKept == IInv /\ Numbers /\ Kept /\ [Next]_vars => Kept'
<1> SUFFICES ASSUME IInv, Numbers, Kept, [Next]_vars PROVE Kept'
  OBVIOUS
<1>1. CASE RunWhenIdle \/ UNCHANGED vars
  BY <1>1, QuietKept DEF RunWhenIdle
<1> QED BY <1>1, SubmitKept, ProcessMsgKept, QuietKept, AdmissionKept, JoinKept, PrepareKept,
           ForwardKept, OutputKept, CleanupKept DEF Next, Step, Select

LEMMA AlwaysKept == Spec => []Kept
BY InitKept, NextKeepsKept, Inductive, AlwaysNumbers, PTL DEF Spec

-----------------------------------------------------------------------------
(* A row of the page table for each request that holds resources.           *)

LEMMA InitCounted == Init => RowsCounted
<1> SUFFICES ASSUME Init PROVE RowsCounted
  OBVIOUS
<1>1. Live = {}
  BY DEF Init, NoReq, Live
<1>2. Len(rows) = MaxRunning
  BY Sizes DEF Init
<1> QED BY <1>1, <1>2, FS_EmptySet, Sizes DEF RowsCounted

LEMMA CountedStays ==
  ASSUME RowsCounted, Live' = Live, rows' = rows
  PROVE  RowsCounted'
BY DEF RowsCounted

LEMMA QuietCounted ==
  ASSUME IInv, RowsCounted,
         \/ \E r \in Reqs : Submit(r)
         \/ ProcessMsg \/ StartStep \/ StopAdmission \/ TryAllocate \/ EvictForSlot \/ Starved
         \/ PrepareReq \/ EvictForPages \/ EndPrepare \/ Forward \/ Output \/ EndStep
         \/ UNCHANGED vars
  PROVE  RowsCounted'
<1>1. req \in [Reqs -> ReqRecord]
  BY DEF IInv, Typed
<1>2. CASE (\E r \in Reqs : Submit(r)) \/ ProcessMsg
  <2>1. /\ rows' = rows
        /\ \A q \in Reqs : req[q].stage = "live" \/ req'[q].stage = "live" => req'[q] = req[q]
    BY <1>2, MessageFacts
  <2>2. Live' = Live
    BY <2>1 DEF Live
  <2> QED BY <2>1, <2>2, CountedStays
<1>3. CASE StartStep \/ StopAdmission \/ EvictForSlot \/ EvictForPages \/ EndPrepare \/ EndStep
             \/ UNCHANGED vars
  <2>1. req' = req /\ rows' = rows
    BY <1>3 DEF StartStep, StopAdmission, EvictForSlot, EvictForPages, EndPrepare, EndStep,
                vars, cache
  <2>2. Live' = Live
    BY <2>1 DEF Live
  <2> QED BY <2>1, <2>2, CountedStays
<1>4. CASE TryAllocate
  <2>1. rows' = rows /\ \E r \in Reqs :
          \/ \E new : req' = [req EXCEPT ![r] = new] /\ Alike(new, req[r])
          \/ UNCHANGED req
    BY <1>4, TryAllocateFacts
  <2>2. \A q \in Reqs : req'[q].stage = req[q].stage
    BY <1>1, <2>1 DEF Alike
  <2> QED BY <2>1, <2>2, CountedStays DEF Live
<1>5. CASE Starved
  <2>1. rows' = rows /\ \E r \in Reqs : \E new : req' = [req EXCEPT ![r] = new] /\ Alike(new, req[r])
    BY <1>5, StarvedFacts
  <2>2. \A q \in Reqs : req'[q].stage = req[q].stage
    BY <1>1, <2>1 DEF Alike
  <2> QED BY <2>1, <2>2, CountedStays DEF Live
<1>6. CASE PrepareReq
  <2>1. rows' = rows /\ \E r \in Reqs : \E new : req' = [req EXCEPT ![r] = new] /\ Alike(new, req[r])
    BY <1>6, PrepareFacts
  <2>2. \A q \in Reqs : req'[q].stage = req[q].stage
    BY <1>1, <2>1 DEF Alike
  <2> QED BY <2>1, <2>2, CountedStays DEF Live
<1>7. CASE Forward
  <2>1. /\ rows' = rows /\ InBatch \subseteq Live
        /\ \A r \in Reqs \ InBatch : req'[r] = req[r]
        /\ \A r \in InBatch : req'[r].stage = "live"
    BY <1>7, ForwardFacts
  <2> QED BY <2>1, CountedStays DEF Live
<1>8. CASE Output
  <2>1. rows' = rows /\ \A r \in Reqs : req'[r].stage = req[r].stage
    BY <1>8, OutputFacts
  <2> QED BY <2>1, CountedStays DEF Live
<1> QED BY <1>2, <1>3, <1>4, <1>5, <1>6, <1>7, <1>8

LEMMA JoinCounted ==
  ASSUME IInv, Numbers, RowsCounted,
         ContinueChunk \/ AdmitWithoutSlot \/ AdmitWithFreeSlot \/ AdmitWithShedSlot
  PROVE  RowsCounted'
<1>1. req \in [Reqs -> ReqRecord] /\ rows \in Seq(Seq(Pages))
  BY DEF IInv, Typed
<1>2. PICK r \in Reqs : \E new :
        /\ req' = [req EXCEPT ![r] = new] /\ new.stage = "live"
        /\ \/ req[r].stage = "live" /\ rows' = rows
           \/ req[r].stage = "pending" /\ rows' = Front(rows) /\ rows # <<>>
  BY JoinFacts
<1>3. Live' = Live \cup {r}
  BY <1>1, <1>2 DEF Live
<1>4. CASE req[r].stage = "live" /\ rows' = rows
  <2>1. Live' = Live
    BY <1>3, <1>4 DEF Live
  <2> QED BY <1>4, <2>1, CountedStays
<1>5. CASE req[r].stage = "pending" /\ rows' = Front(rows) /\ rows # <<>>
  <2>1. /\ IsFiniteSet(Live') /\ Cardinality(Live') = Cardinality(Live) + 1
        /\ Cardinality(Live) \in Nat
    <3>1. r \notin Live /\ IsFiniteSet(Live)
      BY <1>5 DEF RowsCounted, Live
    <3>2. /\ IsFiniteSet(Live \cup {r})
          /\ Cardinality(Live \cup {r}) = IF r \in Live THEN Cardinality(Live) ELSE Cardinality(Live) + 1
      BY <3>1, FS_AddElement
    <3> QED BY <1>3, <3>1, <3>2, FS_CardinalityType
  <2>2. Len(rows) \in Nat /\ Len(rows) > 0
    BY <1>1, <1>5, EmptySeq, LenProperties
  <2>3. Len(rows') = Len(rows) - 1
    <3>1. PICK n \in Nat : n = Len(rows) - 1
      BY <2>2
    <3>2. n \in 0..Len(rows)
      BY <2>2, <3>1
    <3>3. Len(SubSeq(rows, 1, n)) = n
      BY <1>1, <3>2, FirstElements
    <3> QED BY <1>5, <3>1, <3>3 DEF Front
  <2>4. Len(rows) + Cardinality(Live) = MaxRunning
    BY DEF RowsCounted
  <2>5. (Len(rows) - 1) + (Cardinality(Live) + 1) = MaxRunning
    BY <2>1, <2>2, <2>4
  <2> QED BY <2>1, <2>3, <2>5 DEF RowsCounted
<1> QED BY <1>2, <1>4, <1>5

LEMMA CleanupCounted ==
  ASSUME IInv, RowsCounted, Cleanup
  PROVE  RowsCounted'
<1>1. Typed /\ req \in [Reqs -> ReqRecord] /\ rows \in Seq(Seq(Pages))
  BY DEF IInv, Typed
<1>2. PICK r \in finished : \E new :
        /\ r \in Live /\ rows' = Append(rows, LeftInRow(r))
        /\ req' = [req EXCEPT ![r] = new] /\ new.stage = "done"
  BY CleanupFacts
<1>3. Live' = Live \ {r}
  BY <1>1, <1>2 DEF Live
<1>4. /\ IsFiniteSet(Live') /\ Cardinality(Live') = Cardinality(Live) - 1
      /\ Cardinality(Live) \in Nat
  BY <1>2, <1>3, FS_RemoveElement, FS_CardinalityType DEF RowsCounted
<1>5. Len(rows) \in Nat /\ Len(rows') = Len(rows) + 1
  <2>1. Len(Append(rows, LeftInRow(r))) = Len(rows) + 1
    BY <1>1, AppendProperties
  <2> QED BY <1>1, <1>2, <2>1, LenProperties
<1>6. Len(rows) + Cardinality(Live) = MaxRunning
  BY DEF RowsCounted
<1>7. (Len(rows) + 1) + (Cardinality(Live) - 1) = MaxRunning
  BY <1>4, <1>5, <1>6
<1> QED BY <1>4, <1>5, <1>7 DEF RowsCounted

LEMMA NextKeepsCounted == IInv /\ Numbers /\ RowsCounted /\ [Next]_vars => RowsCounted'
<1> SUFFICES ASSUME IInv, Numbers, RowsCounted, [Next]_vars PROVE RowsCounted'
  OBVIOUS
<1>1. CASE RunWhenIdle \/ UNCHANGED vars
  BY <1>1, QuietCounted DEF RunWhenIdle
<1> QED BY <1>1, QuietCounted, JoinCounted, CleanupCounted DEF Next, Step, Select

LEMMA AlwaysCounted == Spec => []RowsCounted
BY InitCounted, NextKeepsCounted, Inductive, AlwaysNumbers, PTL DEF Spec

-----------------------------------------------------------------------------
(* Whoever holds resources between two steps is decoding, or is the one      *)
(* request whose prompt goes on and comes next; whoever waits is in the      *)
(* list; and no row of the page table is lost.                               *)
THEOREM Remembered == Spec => []NobodyForgotten
<1>1. ASSUME Typed, Kept, RowsCounted PROVE NobodyForgotten
  <2> SUFFICES ASSUME pc = "recv" PROVE NobodyForgotten
    BY DEF NobodyForgotten
  <2>1. ASSUME NEW r \in Live
        PROVE  IF req[r].chunked THEN pending # <<>> /\ pending[1] = r ELSE r \in running
    BY <1>1, <2>1 DEF Kept, ChunkKept, WholeKept, Admitting
  <2>2. ASSUME NEW r \in Reqs, req[r].stage = "pending" PROVE r \in Range(pending)
    <3>1. DOMAIN pending = 1..Len(pending)
      BY <1>1, LenProperties DEF Typed
    <3> QED BY <1>1, <2>2, <3>1 DEF Kept, PendingKept, Range
  <2> QED BY <1>1, <2>1, <2>2 DEF NobodyForgotten, RowsCounted
<1>2. Typed /\ Kept /\ RowsCounted => NobodyForgotten
  BY <1>1
<1> QED BY <1>2, Inductive, AlwaysKept, AlwaysCounted, PTL DEF IInv

(* The assertions of Req.__post_init__ and _prepare_batch hold, and no       *)
(* sequence outgrows its row of the page table.                              *)
THEOREM WellFormed == Spec => []ReqsWellFormed
<1>1. ASSUME Typed, Numbers, PlacesOK PROVE ReqsWellFormed
  <2>1. ASSUME pc = "alloc", NEW r \in InBatch
        PROVE  /\ req[r].cached < req[r].device /\ req[r].device <= req[r].max_device
               /\ req[r].device < MaxSeqLen
    <3>1. PICK i \in 1..Len(batch) : r = batch[i]
      BY <1>1, <2>1, LenProperties DEF InBatch, Range, Typed
    <3>2. r \in Live /\ r \in Reqs /\ req[r].stage = "live" /\ req[r] \in ReqRecord
      BY <1>1, <2>1, <3>1, Members DEF PlacesOK, Live, Typed
    <3>3. Ready(req[r]) /\ LiveSizes(req[r]) /\ Sized(req[r])
      BY <1>1, <2>1, <3>1, <3>2 DEF Numbers, BatchReady, AdmittedSizes, AcceptedSizes
    <3>4. PICK len \in Nat, out \in Nat, max \in Int, d \in Nat, m \in Nat :
            /\ len = Len(req[r].prompt) /\ out = req[r].output /\ max = MaxSeqLen
            /\ d = req[r].device /\ m = req[r].max_device
      BY <3>2, ReqFields, Sizes
    <3>5. d < m /\ m <= len + out /\ len + out <= max
      BY <3>3, <3>4 DEF Ready, LiveSizes, Sized
    <3>6. d < max /\ d <= m
      BY <3>5
    <3> QED BY <3>3, <3>4, <3>6 DEF Ready
  <2>2. \A r \in Live : Len(req[r].row) <= MaxSeqLen
    BY <1>1 DEF Numbers, AdmittedSizes, LiveSizes
  <2> QED BY <2>1, <2>2 DEF ReqsWellFormed
<1>2. Typed /\ Numbers /\ PlacesOK => ReqsWellFormed
  BY <1>1
<1> QED BY <1>2, Inductive, AlwaysNumbers, PTL DEF IInv, ListsOK

(* With more slots than rows, as EngineConfig makes it, a slot can be had    *)
(* whenever one is asked for: those that hold requests are one fewer than    *)
(* the rows at most, and only the snapshot about to be forked must stay.     *)
THEOREM SlotsSuffice ==
  ASSUME CacheType = "hybrid" => IsFiniteSet(Slots) /\ Cardinality(Slots) > MaxRunning
  PROVE  Spec => []NeverStarved
<1>1. ASSUME IInv, SlotOwnership, RowsCounted PROVE NeverStarved
  <2> SUFFICES ASSUME pc = "slot", CacheType = "hybrid", freeSlots = {}, Sheddable = {}
               PROVE  FALSE
    BY DEF NeverStarved
  <2> DEFINE h == req[Current].handle
             f == [r \in Live |-> req[r].slot]
             InUse == {req[r].slot : r \in Live}
  <2>1. ASSUME NEW s \in Slots PROVE s \in InUse \cup {tree.snap[h]}
    <3>1. \/ \E n \in tree.nodes : tree.snap[n] = s
          \/ \E r \in Reqs : req[r].slot = s
      BY <1>1 DEF SlotOwnership
    <3>2. s # None
      BY NoneAssumption
    <3>3. ASSUME NEW n \in tree.nodes, tree.snap[n] = s PROVE n = h
      BY <3>2, <3>3 DEF Sheddable, SnapshotNodes
    <3>4. ASSUME NEW r \in Reqs, req[r].slot = s PROVE r \in Live
      BY <1>1, <3>2, <3>4 DEF IInv, LengthsOK, ReqLengths, Live
    <3> QED BY <3>1, <3>3, <3>4
  <2>2. IsFiniteSet(Live) /\ Cardinality(Live) \in Nat
    BY <1>1, FS_CardinalityType DEF RowsCounted
  <2>3. IsFiniteSet(InUse) /\ Cardinality(InUse) <= Cardinality(Live) /\ Cardinality(InUse) \in Nat
    <3>1. f \in Surjection(Live, InUse)
      BY DEF Surjection
    <3> HIDE DEF f, InUse
    <3>2. IsFiniteSet(InUse) /\ Cardinality(InUse) <= Cardinality(Live)
      BY <2>2, <3>1, FS_Surjection
    <3> QED BY <3>2, FS_CardinalityType
  <2> HIDE DEF f, InUse
  <2> DEFINE taken == InUse \cup {tree.snap[h]}
  <2>4. IsFiniteSet(taken) /\ Cardinality(taken) <= Cardinality(InUse) + 1 /\ Cardinality(taken) \in Nat
    <3>1. /\ IsFiniteSet(taken)
          /\ Cardinality(taken) = IF tree.snap[h] \in InUse THEN Cardinality(InUse)
                                  ELSE Cardinality(InUse) + 1
      BY <2>3, FS_AddElement
    <3> HIDE DEF taken
    <3>2. Cardinality(taken) \in Nat
      BY <3>1, FS_CardinalityType
    <3> QED BY <2>3, <3>1, <3>2
  <2>5. Slots \subseteq taken
    BY <2>1
  <2> HIDE DEF taken
  <2>6. Cardinality(Slots) <= Cardinality(taken) /\ Cardinality(Slots) \in Nat
    BY <2>4, <2>5, FS_Subset, FS_CardinalityType
  <2>7. Len(rows) \in Nat /\ Len(rows) # 0 /\ Len(rows) + Cardinality(Live) = MaxRunning
    BY <1>1, EmptySeq, LenProperties DEF IInv, ListsOK, SlotOK, Typed, RowsCounted
  <2>8. Cardinality(Slots) <= MaxRunning /\ Cardinality(Slots) > MaxRunning
    BY <2>2, <2>3, <2>4, <2>6, <2>7
  <2> QED BY <2>6, <2>8, Sizes
<1>2. IInv /\ SlotOwnership /\ RowsCounted => NeverStarved
  BY <1>1
<1> QED BY <1>2, Inductive, SlotsOwned, AlwaysCounted, PTL

-----------------------------------------------------------------------------
(* The room a request was promised.                                         *)

(* A row is shorter than what its request may come to need, which once the   *)
(* prompt is through is what max_device_len says.                            *)
Room(x) ==
  /\ Len(x.row) < Len(x.prompt) + x.output
  /\ ~ x.chunked => x.max_device = Len(x.prompt) + x.output

Rooms ==
  /\ \A r \in Live : Room(req[r])
  /\ \A r \in running : req[r].device = req[r].cached + 1

(* Most steps leave the requests that hold resources alone.                  *)
LEMMA QuietLive ==
  ASSUME IInv,
         \/ (\E r \in Reqs : Submit(r)) \/ ProcessMsg \/ StartStep \/ StopAdmission
         \/ TryAllocate \/ EvictForSlot \/ Starved \/ EvictForPages \/ EndPrepare \/ EndStep
         \/ UNCHANGED vars
  PROVE  /\ Live' = Live /\ \A r \in Live : req'[r] = req[r]
         /\ running' = running /\ finished' = finished
<1>1. req \in [Reqs -> ReqRecord]
  BY DEF IInv, Typed
<1>2. CASE (\E r \in Reqs : Submit(r)) \/ ProcessMsg
  <2>1. /\ running' = running /\ finished' = finished
        /\ \A q \in Reqs : req[q].stage = "live" \/ req'[q].stage = "live" => req'[q] = req[q]
    BY <1>2, MessageFacts
  <2> QED BY <2>1 DEF Live
<1>3. CASE StartStep \/ StopAdmission \/ EvictForSlot \/ EvictForPages \/ EndPrepare
             \/ EndStep \/ UNCHANGED vars
  <2>1. req' = req /\ running' = running /\ finished' = finished
    BY <1>3 DEF StartStep, StopAdmission, EvictForSlot, EvictForPages, EndPrepare, EndStep,
                vars, lists, cache
  <2> QED BY <2>1 DEF Live
<1>4. CASE TryAllocate \/ Starved
  <2>1. running' = running /\ finished' = finished
    BY <1>4, TryAllocateFacts, StarvedFacts
  <2>2. \/ req' = req
        \/ \E r \in Reqs : \E new : /\ req[r].stage = "pending" /\ new.stage = "pending"
                                    /\ req' = [req EXCEPT ![r] = new]
    <3>1. CASE TryAllocate
      BY <3>1, TryAllocateFacts
    <3>2. CASE Starved
      BY <3>2, StarvedFacts
    <3> QED BY <1>4, <3>1, <3>2
  <2> QED BY <1>1, <2>1, <2>2 DEF Live
<1> QED BY <1>2, <1>3, <1>4

LEMMA InitRooms == Init => Rooms
BY DEF Init, NoReq, Rooms, Live

LEMMA JoinRooms ==
  ASSUME IInv, Numbers, Rooms,
         ContinueChunk \/ AdmitWithoutSlot \/ AdmitWithFreeSlot \/ AdmitWithShedSlot
  PROVE  Rooms'
<1>1. Typed /\ ListsOK /\ LengthsOK /\ req \in [Reqs -> ReqRecord]
  BY DEF IInv, Typed
<1>2. /\ Admitting /\ Len(batch) < Len(pending) /\ running' = running
  BY JoinFacts
<1>3. PICK r \in Reqs, total \in Nat : \E new :
        /\ r = Current
        /\ \/ req[r].stage = "live"
           \/ pc = "slot" /\ req[r].stage = "pending" /\ Len(req[r].handle) = Len(req[r].row)
        /\ total <= InputLen(r)
        /\ req' = [req EXCEPT ![r] = new]
        /\ new.stage = "live" /\ new.max_device = total + req[r].output
        /\ new.chunked = (total < InputLen(r))
        /\ new.prompt = req[r].prompt /\ new.output = req[r].output
        /\ new.row = req[r].row
  BY JoinFacts
<1>4. PICK new :
        /\ \/ req[r].stage = "live"
           \/ pc = "slot" /\ req[r].stage = "pending" /\ Len(req[r].handle) = Len(req[r].row)
        /\ total <= InputLen(r)
        /\ req' = [req EXCEPT ![r] = new]
        /\ new.stage = "live" /\ new.max_device = total + req[r].output
        /\ new.chunked = (total < InputLen(r))
        /\ new.prompt = req[r].prompt /\ new.output = req[r].output
        /\ new.row = req[r].row
  BY <1>3
<1>5. req'[r] = new /\ \A q \in Reqs \ {r} : req'[q] = req[q]
  BY <1>1, <1>4
<1>6. PICK len \in Nat, out \in Nat, width \in Nat :
        len = Len(req[r].prompt) /\ out = req[r].output /\ width = Len(req[r].row)
  BY <1>1, ReqFields
<1>7. width < len + out
  <2>1. CASE req[r].stage = "live"
    BY <1>6, <2>1 DEF Rooms, Room, Live
  <2>2. CASE pc = "slot" /\ req[r].stage = "pending" /\ Len(req[r].handle) = Len(req[r].row)
    BY <1>3, <1>6, <2>2 DEF Numbers, HandleShort, InputLen
  <2> QED BY <1>4, <2>1, <2>2
<1>8. Room(new)
  <2>1. InputLen(r) = len
    BY <1>6 DEF InputLen
  <2>2. ~ new.chunked => total = len
    <3>1. ~ new.chunked => ~ (total < InputLen(r))
      BY <1>4, Zenon
    <3> QED BY <1>4, <1>6, <2>1, <3>1
  <2>3. ~ new.chunked => new.max_device = len + out
    BY <1>4, <1>6, <2>2
  <2> QED BY <1>4, <1>6, <1>7, <2>3 DEF Room
<1>9. r \notin running
  BY <1>1, <1>2, <1>3, CurrentWaits
<1>10. running \subseteq Reqs
  BY <1>1 DEF Typed
<1> QED BY <1>2, <1>5, <1>8, <1>9, <1>10 DEF Rooms, Live

LEMMA BatchRooms ==
  ASSUME IInv, Numbers, Rooms, PrepareReq \/ Forward \/ Output
  PROVE  Rooms'
<1>1. Typed /\ ListsOK /\ req \in [Reqs -> ReqRecord] /\ running \subseteq Reqs
  BY DEF IInv, Typed
<1>2. CASE PrepareReq
  <2>1. /\ pc = "alloc" /\ running' = running /\ prepared + 1 \in 1..Len(batch)
    BY <1>2, PrepareFacts
  <2>2. PICK r \in Reqs : \E new :
          /\ r = batch[prepared + 1] /\ req[r].stage = "live" /\ req' = [req EXCEPT ![r] = new]
          /\ Len(new.row) = req[r].device /\ new.stage = "live" /\ Alike(new, req[r])
    BY <1>2, PrepareFacts
  <2>3. PICK new : /\ r = batch[prepared + 1] /\ req[r].stage = "live"
                   /\ req' = [req EXCEPT ![r] = new]
                   /\ Len(new.row) = req[r].device /\ new.stage = "live" /\ Alike(new, req[r])
    BY <2>2
  <2>4. req'[r] = new /\ \A q \in Reqs \ {r} : req'[q] = req[q]
    BY <1>1, <2>3
  <2>5. PICK len \in Nat, out \in Nat, d \in Nat, m \in Nat :
          /\ len = Len(req[r].prompt) /\ out = req[r].output
          /\ d = req[r].device /\ m = req[r].max_device
    BY <1>1, ReqFields
  <2>6. d < m /\ m <= len + out
    <3>1. r \in Live
      BY <2>3 DEF Live
    <3> QED BY <2>1, <2>3, <2>5, <3>1 DEF Numbers, BatchReady, Ready, AdmittedSizes, LiveSizes
  <2>7. d < len + out
    BY <2>6
  <2>8. Room(new)
    <3>1. Room(req[r])
      BY <2>3 DEF Rooms, Live
    <3>2. /\ new.prompt = req[r].prompt /\ new.output = req[r].output
          /\ new.max_device = req[r].max_device /\ new.chunked = req[r].chunked
      BY <2>3 DEF Alike
    <3>3. Len(new.row) < Len(new.prompt) + new.output
      BY <2>3, <2>5, <2>7, <3>2
    <3> QED BY <3>1, <3>2, <3>3 DEF Room
  <2>9. new.device = req[r].device /\ new.cached = req[r].cached
    BY <2>3 DEF Alike
  <2> QED BY <1>1, <2>1, <2>3, <2>4, <2>8, <2>9 DEF Rooms, Live
<1>3. CASE Forward
  <2>1. /\ InBatch \subseteq Live /\ \A r \in Reqs \ InBatch : req'[r] = req[r]
        /\ \A r \in InBatch :
             /\ req'[r].cached = req[r].device /\ req'[r].device = req[r].device + 1
             /\ req'[r].chunked = req[r].chunked /\ req'[r].row = req[r].row
             /\ req'[r].prompt = req[r].prompt /\ req'[r].output = req[r].output
             /\ req'[r].max_device = req[r].max_device
             /\ req'[r].stage = "live"
    BY <1>3, ForwardFacts
  <2>2. running' \subseteq running \cup InBatch
    BY <1>3 DEF Forward
  <2>3. Live' = Live
    BY <2>1 DEF Live
  <2>4. \A r \in Live : Room(req'[r])
    BY <2>1 DEF Rooms, Room, Live
  <2>5. \A r \in running' : req'[r].device = req'[r].cached + 1
    BY <1>1, <2>1, <2>2 DEF Rooms
  <2> QED BY <2>3, <2>4, <2>5 DEF Rooms
<1>4. CASE Output
  <2>1. /\ running' \subseteq running
        /\ \A r \in Reqs :
             /\ req'[r].cached = req[r].cached /\ req'[r].device = req[r].device
             /\ req'[r].stage = req[r].stage /\ req'[r].chunked = req[r].chunked
             /\ req'[r].row = req[r].row /\ req'[r].prompt = req[r].prompt
             /\ req'[r].output = req[r].output /\ req'[r].max_device = req[r].max_device
    BY <1>4, OutputFacts
  <2>2. \A r \in Live' : r \in Live /\ Room(req'[r])
    BY <2>1 DEF Rooms, Room, Live
  <2>3. \A r \in running' : req'[r].device = req'[r].cached + 1
    BY <1>1, <2>1 DEF Rooms
  <2> QED BY <2>2, <2>3 DEF Rooms
<1> QED BY <1>2, <1>3, <1>4

LEMMA CleanupRooms ==
  ASSUME IInv, Rooms, Cleanup
  PROVE  Rooms'
<1>1. Typed /\ ListsOK /\ req \in [Reqs -> ReqRecord] /\ running' = running
  BY CleanupFacts DEF IInv, Typed
<1>2. PICK r \in finished : \E new : req' = [req EXCEPT ![r] = new] /\ new.stage = "done"
  BY CleanupFacts
<1>3. r \in Reqs /\ r \notin running /\ running \subseteq Reqs
  BY <1>1 DEF Typed, ListsOK, PlacesOK
<1>4. req'[r].stage = "done" /\ \A q \in Reqs \ {r} : req'[q] = req[q]
  BY <1>1, <1>2, <1>3
<1> QED BY <1>1, <1>3, <1>4 DEF Rooms, Live

LEMMA NextKeepsRooms == IInv /\ Numbers /\ Rooms /\ [Next]_vars => Rooms'
<1> SUFFICES ASSUME IInv, Numbers, Rooms, [Next]_vars PROVE Rooms'
  OBVIOUS
<1>1. CASE \/ (\E r \in Reqs : Submit(r)) \/ ProcessMsg \/ StartStep \/ StopAdmission
           \/ TryAllocate \/ EvictForSlot \/ Starved \/ EvictForPages \/ EndPrepare \/ EndStep
           \/ RunWhenIdle \/ UNCHANGED vars
  <2>1. /\ Live' = Live /\ \A r \in Live : req'[r] = req[r]
        /\ running' = running
    BY <1>1, QuietLive DEF RunWhenIdle
  <2>2. running \subseteq Live
    BY DEF IInv, Typed, ListsOK, PlacesOK, Live
  <2> QED BY <2>1, <2>2 DEF Rooms
<1> QED BY <1>1, JoinRooms, BatchRooms, CleanupRooms DEF Next, Step, Select

LEMMA AlwaysRooms == Spec => []Rooms
BY InitRooms, NextKeepsRooms, AlwaysNumbers, Inductive, PTL DEF Spec

-----------------------------------------------------------------------------
(* Sums over the requests that hold resources.                              *)

SumOf(f, N) == Total([x \in N |-> f[x]])

Summable(f, N) == IsFiniteSet(N) /\ \A x \in N : f[x] \in Nat

Agree(f, g, N) == \A x \in N : g[x] = f[x]

LEMMA SumIsNat ==
  ASSUME NEW f, NEW N, Summable(f, N)
  PROVE  Weights([x \in N |-> f[x]]) /\ SumOf(f, N) \in Nat
<1> DEFINE g == [x \in N |-> f[x]]
<1>1. Weights(g)
  BY DEF Weights, Summable
<1> HIDE DEF g
<1>2. Total(g) \in Nat
  BY <1>1, TotalFinite
<1> QED BY <1>1, <1>2 DEF SumOf, g

LEMMA SumSame ==
  ASSUME NEW f, NEW g, NEW N, Agree(f, g, N)
  PROVE  SumOf(f, N) = SumOf(g, N)
<1>1. [x \in N |-> f[x]] = [x \in N |-> g[x]]
  BY DEF Agree
<1> QED BY <1>1 DEF SumOf

LEMMA SumNone ==
  ASSUME NEW f
  PROVE  SumOf(f, {}) = 0
<1> DEFINE g == [x \in {} |-> f[x]]
<1>1. DOMAIN g = {}
  OBVIOUS
<1> HIDE DEF g
<1>2. Total(g) = 0
  BY <1>1, TotalEmpty
<1> QED BY <1>2 DEF SumOf, g

LEMMA SumAdd ==
  ASSUME NEW f, NEW g, NEW N, NEW r, Summable(f, N), r \notin N, g[r] \in Nat,
         Agree(f, g, N)
  PROVE  SumOf(g, N \cup {r}) = SumOf(f, N) + g[r]
<1> DEFINE a == [x \in N |-> f[x]]
           b == [x \in N \cup {r} |-> g[x]]
<1>1. /\ Weights(a) /\ r \notin DOMAIN a /\ b[r] = g[r] /\ b[r] \in Nat
      /\ DOMAIN b = DOMAIN a \cup {r} /\ \A x \in DOMAIN a : b[x] = a[x]
  BY SumIsNat DEF Agree
<1> HIDE DEF a, b
<1>2. Total(b) = Total(a) + b[r]
  BY <1>1, TotalAdd
<1> QED BY <1>1, <1>2 DEF SumOf, a, b

LEMMA SumRemove ==
  ASSUME NEW f, NEW g, NEW N, NEW r, r \in N, Summable(f, N), Agree(f, g, N \ {r})
  PROVE  SumOf(g, N \ {r}) = SumOf(f, N) - f[r]
<1> DEFINE a == [x \in N \ {r} |-> g[x]]
           b == [x \in N |-> f[x]]
<1>1. /\ Weights(b) /\ r \notin DOMAIN a /\ b[r] = f[r]
      /\ DOMAIN b = DOMAIN a \cup {r} /\ \A x \in DOMAIN a : b[x] = a[x]
  BY SumIsNat DEF Agree
<1> HIDE DEF a, b
<1>2. Total(a) = Total(b) - b[r]
  BY <1>1, TotalRemove
<1> QED BY <1>1, <1>2 DEF SumOf, a, b

LEMMA SumChange ==
  ASSUME NEW f, NEW g, NEW N, NEW r, r \in N, Summable(f, N), g[r] \in Nat,
         Agree(f, g, N \ {r})
  PROVE  SumOf(g, N) = SumOf(f, N) - f[r] + g[r]
<1> DEFINE a == [x \in N |-> f[x]]
           b == [x \in N |-> g[x]]
<1>1. /\ Weights(a) /\ r \in DOMAIN a /\ a[r] = f[r] /\ b[r] = g[r] /\ b[r] \in Nat
      /\ DOMAIN b = DOMAIN a /\ \A x \in DOMAIN a \ {r} : b[x] = a[x]
  BY SumIsNat DEF Agree
<1> HIDE DEF a, b
<1>2. Total(b) = Total(a) - a[r] + b[r]
  BY <1>1, TotalChange
<1> QED BY <1>1, <1>2 DEF SumOf, a, b

LEMMA SumLess ==
  ASSUME NEW f, NEW g, NEW M, NEW N, M \subseteq N, Summable(f, M), Summable(g, N),
         \A x \in M : f[x] <= g[x]
  PROVE  SumOf(f, M) <= SumOf(g, N)
<1> DEFINE a == [x \in M |-> f[x]]
           b == [x \in N |-> g[x]]
<1>1. /\ Weights(a) /\ Weights(b) /\ DOMAIN a \subseteq DOMAIN b
      /\ \A x \in DOMAIN a : a[x] <= b[x]
  BY SumIsNat
<1> HIDE DEF a, b
<1>2. Total(a) <= Total(b)
  BY <1>1, TotalMonotone
<1> QED BY <1>2 DEF SumOf, a, b

-----------------------------------------------------------------------------
(* The space in the KV cache: what steps do to free and cached pages.       *)

LEMMA EvictedLength ==
  ASSUME NEW t, NEW V, NEW P, NEW S, IsTree(t, V, P, S), NEW n \in Inner(t)
  PROVE  Len(EvictedPages(t, n)) = Length(t, n) /\ EvictedPages(t, n) \in Seq(P)
<1>1. n \in t.nodes /\ n \in Seq(V) /\ IsPrefix(n, n)
  BY RootIsPrefix DEF Inner, IsTree
<1>2. PICK l \in Nat, k \in Nat : /\ l = Len(n) /\ k = Len(Parent(t, n))
                                  /\ Length(t, n) = l - k /\ l - k \in Nat
  BY LengthFacts
<1> DEFINE w == PagesOf(t, n)
<1>3. w \in Seq(P) /\ Len(w) = l
  BY <1>1, <1>2, PagesOfNode
<1>4. EvictedPages(t, n) = SubSeq(w, k + 1, l)
  BY <1>2 DEF EvictedPages
<1> HIDE DEF w
<1>5. Len(SubSeq(w, k + 1, l)) = l - k /\ SubSeq(w, k + 1, l) \in Seq(P)
  BY <1>2, <1>3
<1> QED BY <1>2, <1>4, <1>5

LEMMA EvictSpace ==
  ASSUME IInv, Counted(tree), EvictForSlot \/ EvictForPages
  PROVE  /\ Available(tree)' = Available(tree)
         /\ tree'.protected = tree.protected
<1>1. /\ freePages \in Seq(Pages) /\ IsTree(tree, Vocab, Pages, Slots)
  BY DEF IInv, Typed
<1>2. PICK n : EvictLeaf(n)
  BY DEF EvictForSlot, EvictForPages
<1>3. /\ n \in Inner(tree) /\ Length(tree, n) \in Nat \ {0}
      /\ tree'.evictable = tree.evictable - Length(tree, n)
      /\ tree'.protected = tree.protected
  BY <1>2, EvictCounters
<1> DEFINE e == EvictedPages(tree, n)
<1>4. freePages' = freePages \o e
  BY <1>2 DEF EvictLeaf
<1>5. e \in Seq(Pages) /\ Len(e) = Length(tree, n)
  BY <1>1, <1>3, EvictedLength
<1> HIDE DEF e
<1>6. /\ Len(freePages') = Len(freePages) + Len(e)
      /\ Len(freePages) \in Nat /\ Len(e) \in Nat
  <2>1. /\ Len(freePages \o e) = Len(freePages) + Len(e)
        /\ Len(freePages) \in Nat /\ Len(e) \in Nat
    BY <1>1, <1>5, Extended
  <2> QED BY <1>4, <2>1
<1>7. tree.evictable \in Nat
  BY <1>1, CountedFacts
<1> QED BY <1>3, <1>5, <1>6, <1>7 DEF Available

LEMMA PrepareSpace ==
  ASSUME IInv, RowsSettled, HandlesFit, PrepareReq
  PROVE  \E r \in Live, n \in Nat :
           /\ r = batch[prepared + 1] /\ n = req[r].device - req[r].cached
           /\ n <= Len(freePages)
           /\ Len(freePages') = Len(freePages) - n
           /\ Len(req[r].row) = req[r].cached
           /\ Len(req'[r].row) = Len(req[r].row) + n
           /\ req'[r].handle = req[r].handle
           /\ req'[r].prompt = req[r].prompt /\ req'[r].output = req[r].output
           /\ Live' = Live /\ \A q \in Live \ {r} : req'[q] = req[q]
<1>1. req \in [Reqs -> ReqRecord] /\ freePages \in Seq(Pages)
  BY DEF IInv, Typed
<1>2. /\ pc = "alloc" /\ prepared \in Nat /\ prepared + 1 \in 1..Len(batch)
  BY PrepareFacts
<1>3. PICK r \in Reqs, n \in 0..Len(freePages) : \E new :
        /\ r = batch[prepared + 1] /\ req[r].stage = "live"
        /\ n = req[r].device - req[r].cached
        /\ freePages' = SubSeq(freePages, n + 1, Len(freePages))
        /\ req' = [req EXCEPT ![r] = new]
        /\ Len(new.row) = req[r].device
        /\ new.stage = "live" /\ new.handle = req[r].handle /\ Alike(new, req[r])
  BY PrepareFacts
<1>4. PICK new :
        /\ r = batch[prepared + 1] /\ req[r].stage = "live"
        /\ n = req[r].device - req[r].cached
        /\ freePages' = SubSeq(freePages, n + 1, Len(freePages))
        /\ req' = [req EXCEPT ![r] = new]
        /\ Len(new.row) = req[r].device
        /\ new.stage = "live" /\ new.handle = req[r].handle /\ Alike(new, req[r])
  BY <1>3
<1>5. r \in Live
  BY <1>4 DEF Live
<1>6. Len(req[r].row) = req[r].cached
  <2>1. \A i \in 1..prepared : batch[i] # r
    <3>1. \A i \in 1..prepared : i \in 1..Len(batch) /\ i # prepared + 1
      BY <1>2
    <3> QED BY <1>2, <1>3, <3>1 DEF RowsSettled
  <2> QED BY <1>2, <1>5, <2>1 DEF RowsSettled, RowFull
<1>7. req'[r] = new /\ \A q \in Reqs \ {r} : req'[q] = req[q]
  BY <1>1, <1>4
<1>8. Live' = Live /\ \A q \in Live \ {r} : req'[q] = req[q]
  BY <1>4, <1>7 DEF Live
<1>9. PICK c \in Nat, d \in Nat : c = req[r].cached /\ d = req[r].device
  BY <1>1, ReqFields
<1>10. n \in Nat /\ n <= Len(freePages) /\ Len(freePages') = Len(freePages) - n
  BY <1>1, <1>4
<1>11. Len(req'[r].row) = Len(req[r].row) + n
  <2>1. Len(new.row) = d /\ n = d - c
    BY <1>4, <1>9
  <2>2. Len(new.row) = c + n
    BY <1>9, <1>10, <2>1
  <2> QED BY <1>6, <1>7, <1>9, <2>2
<1>12. /\ req'[r].handle = req[r].handle
       /\ req'[r].prompt = req[r].prompt /\ req'[r].output = req[r].output
  BY <1>4, <1>7 DEF Alike
<1> QED BY <1>4, <1>5, <1>6, <1>8, <1>10, <1>11, <1>12

(* A part of a sequence.                                                     *)
LEMMA Slice ==
  ASSUME NEW V, NEW s \in Seq(V), NEW b \in Nat, NEW n \in Nat, b <= n, n <= Len(s)
  PROVE  SubSeq(s, b + 1, n) \in Seq(V) /\ Len(SubSeq(s, b + 1, n)) = n - b
OBVIOUS

(* A finished request gives back its own pages, to the free list or to the   *)
(* tree, and its lock.                                                       *)
LEMMA CleanupSpace ==
  ASSUME IInv, RowsSettled, LocksInv, HandlesFit, Counted(tree), Cleanup
  PROVE  \E r \in finished, own \in Nat :
           /\ r \in Live /\ own = Len(req[r].row) - Len(req[r].handle)
           /\ finished' = finished \ {r}
           /\ Live' = Live \ {r} /\ \A q \in Live' : req'[q] = req[q]
           /\ Available(tree)' + tree'.protected = Available(tree) + tree.protected + own
           /\ Available(tree) <= Available(tree)'
<1>1. /\ req \in [Reqs -> ReqRecord] /\ IsTree(tree, Vocab, Pages, Slots)
      /\ freePages \in Seq(Pages) /\ finished \subseteq Reqs
  BY DEF IInv, Typed
<1>2. PICK r \in finished, ids \in Seq(Vocab), n \in Nat :
        /\ r \in Live /\ finished' = finished \ {r}
        /\ ids = SubSeq(req[r].ids, 1, req[r].cached)
        /\ Len(ids) = req[r].cached
        /\ n = IF CacheType = "naive" THEN Len(ids) ELSE Len(Matched(tree, ids))
        /\ n <= Len(ids)
        /\ tree' = IF CacheType = "naive" THEN tree
                   ELSE Unlock(Insert(tree, ids, req[r].row, req[r].slot), req[r].handle)
        /\ freePages' = freePages \o Duplicates(r, n)
        /\ \E new : req' = [req EXCEPT ![r] = new] /\ new.stage = "done"
  <2>1. PICK r \in finished, ids \in Seq(Vocab), n \in Nat : \E new :
          /\ r \in Live /\ ~ req[r].chunked /\ finished' = finished \ {r}
          /\ ids = SubSeq(req[r].ids, 1, req[r].cached)
          /\ Len(ids) = req[r].cached /\ Len(ids) <= Len(req[r].row)
          /\ n = IF CacheType = "naive" THEN Len(ids) ELSE Len(Matched(tree, ids))
          /\ n <= Len(ids)
          /\ tree' = IF CacheType = "naive" THEN tree
                     ELSE Unlock(Insert(tree, ids, req[r].row, req[r].slot), req[r].handle)
          /\ freePages' = freePages \o Duplicates(r, n)
          /\ rows' = Append(rows, LeftInRow(r))
          /\ req' = [req EXCEPT ![r] = new]
          /\ new.stage = "done" /\ new.slot = None /\ new.cached = 0 /\ new.chunked = FALSE
    BY CleanupFacts
  <2> QED BY <2>1
<1>3. pc = "cleanup" /\ r \in Reqs
  BY <1>1, <1>2, CleanupFacts
<1>4. Live' = Live \ {r} /\ \A q \in Live' : req'[q] = req[q]
  BY <1>1, <1>2 DEF Live
<1>5. PICK row \in Seq(Pages), c \in Nat, b \in Nat, F \in Nat :
        /\ row = req[r].row /\ c = Len(row) /\ b = Len(req[r].handle) /\ F = Len(freePages)
  BY <1>1, <1>3, ReqFields
<1>6. c = Len(ids) /\ c = req[r].cached
  BY <1>2, <1>3, <1>5 DEF RowsSettled, RowFull
<1>7. b <= c
  BY <1>2, <1>5, <1>6 DEF HandlesFit, HandleFits
<1>8. b <= n
  <2>1. CASE CacheType = "naive"
    BY <1>2, <1>6, <1>7, <2>1
  <2>2. CASE CacheType # "naive"
    <3>1. Len(req[r].handle) <= Len(Matched(tree, ids))
      BY <1>2, HandleMatched
    <3> QED BY <1>2, <1>5, <2>2, <3>1
  <2> QED BY <2>1, <2>2
<1>9. Len(freePages') = F + (n - b)
  <2> DEFINE d == Duplicates(r, n)
  <2>1. d = SubSeq(row, b + 1, n) /\ n <= Len(row)
    BY <1>2, <1>5, <1>6 DEF Duplicates
  <2>2. freePages' = freePages \o d
    BY <1>2
  <2> HIDE DEF d
  <2>3. d \in Seq(Pages) /\ Len(d) = n - b
    BY <1>8, <2>1, Slice
  <2>4. Len(freePages \o d) = Len(freePages) + Len(d)
    BY <1>1, <2>3, Extended
  <2> QED BY <1>5, <2>2, <2>3, <2>4
<1>10. PICK e \in Nat, p \in Nat : e = tree.evictable /\ p = tree.protected
  BY <1>1, CountedFacts
<1>11. \E e2 \in Nat, p2 \in Nat :
         /\ e2 = tree'.evictable /\ p2 = tree'.protected
         /\ e2 + p2 = e + p + (c - n) /\ e + (c - n) <= e2
  <2>1. CASE CacheType = "naive"
    <3>1. tree' = tree /\ n = c
      BY <1>2, <1>6, <2>1
    <3> QED BY <1>5, <1>10, <3>1
  <2>2. CASE CacheType # "naive"
    <3> DEFINE u == Unlock(Insert(tree, ids, req[r].row, req[r].slot), req[r].handle)
    <3>1. tree' = u /\ n = Len(Matched(tree, ids))
      BY <1>2, <2>2
    <3>2. Len(ids) <= Len(req[r].row) /\ pc # "slot"
      BY <1>3, <1>5, <1>6
    <3>3. /\ Counted(u)
          /\ u.evictable + u.protected
             = tree.evictable + tree.protected + Len(ids) - Len(Matched(tree, ids))
          /\ tree.evictable + Len(ids) - Len(Matched(tree, ids)) <= u.evictable
      BY <1>2, <3>2, CleanupCounters
    <3> HIDE DEF u
    <3>4. IsTree(tree', Vocab, Pages, Slots)
      <4>1. Next
        BY DEF Next, Step
      <4> QED BY <4>1, NextKeepsIInv DEF IInv, Typed
    <3>5. u.evictable \in Nat /\ u.protected \in Nat
      BY <3>1, <3>3, <3>4, CountedFacts
    <3> QED BY <1>5, <1>6, <1>10, <3>1, <3>3, <3>5
  <2> QED BY <2>1, <2>2
<1>12. PICK e2 \in Nat, p2 \in Nat :
         /\ e2 = tree'.evictable /\ p2 = tree'.protected
         /\ e2 + p2 = e + p + (c - n) /\ e + (c - n) <= e2
  BY <1>11
<1>13. Available(tree) = e + F /\ Available(tree)' = e2 + (F + (n - b))
  BY <1>5, <1>9, <1>10, <1>12 DEF Available
<1>14. /\ Available(tree)' + p2 = Available(tree) + p + (c - b)
       /\ Available(tree) <= Available(tree)'
  <2>1. e2 + p2 = e + p + (c - n) /\ e + (c - n) <= e2
    BY <1>12
  <2>2. /\ (e2 + (F + (n - b))) + p2 = (e + F) + p + (c - b)
        /\ e + F <= e2 + (F + (n - b))
    BY <1>7, <2>1
  <2> QED BY <1>13, <2>2
<1>15. c - b \in Nat
  BY <1>5, <1>7
<1> QED BY <1>2, <1>4, <1>5, <1>10, <1>12, <1>14, <1>15

(* What QuietLive says of the requests, of the space: nothing is lost, and   *)
(* only a lock takes away what was available.                                *)
LEMMA QuietSpace ==
  ASSUME IInv, LocksInv, Counted(tree),
         \/ (\E r \in Reqs : Submit(r)) \/ ProcessMsg \/ StartStep \/ StopAdmission
         \/ TryAllocate \/ EvictForSlot \/ Starved \/ EvictForPages \/ EndPrepare \/ EndStep
         \/ UNCHANGED vars
  PROVE  /\ Available(tree)' + tree'.protected = Available(tree) + tree.protected
         /\ Available(tree) <= Available(tree)' \/ (pc' = "slot" /\ TryAllocate)
<1>1. freePages \in Seq(Pages) /\ IsTree(tree, Vocab, Pages, Slots)
  BY DEF IInv, Typed
<1>2. PICK e \in Nat, p \in Nat, F \in Nat :
        e = tree.evictable /\ p = tree.protected /\ F = Len(freePages)
  BY <1>1, CountedFacts
<1>3. CASE Available(tree)' = Available(tree) /\ tree'.protected = tree.protected
  <2>1. PICK a \in Nat : a = Available(tree)
    BY <1>2 DEF Available
  <2>2. Available(tree)' = a /\ tree'.protected = p /\ a <= a
    BY <1>2, <1>3, <2>1
  <2> QED BY <1>2, <2>1, <2>2
<1>4. CASE (\E r \in Reqs : Submit(r)) \/ ProcessMsg
  BY <1>3, <1>4, MessageFacts DEF Available
<1>5. CASE StartStep \/ StopAdmission \/ EndPrepare \/ EndStep \/ UNCHANGED vars
  BY <1>3, <1>5 DEF StartStep, StopAdmission, EndPrepare, EndStep, vars, cache, Available
<1>6. CASE EvictForSlot \/ EvictForPages
  BY <1>3, <1>6, EvictSpace
<1>7. CASE TryAllocate \/ Starved
  <2>1. /\ Counted(tree') /\ tree'.evictable + tree'.protected = tree.evictable + tree.protected
        /\ tree.evictable <= tree'.evictable \/ (pc' = "slot" /\ TryAllocate)
        /\ freePages' = freePages
    <3>1. CASE TryAllocate
      <4>1. /\ Counted(tree')
            /\ tree'.evictable + tree'.protected = tree.evictable + tree.protected
            /\ pc' # "slot" => tree'.evictable = tree.evictable
        BY <3>1, TryAllocateCounters
      <4>2. freePages' = freePages
        BY <3>1, TryAllocateFacts
      <4> QED BY <1>2, <3>1, <4>1, <4>2
    <3>2. CASE Starved
      BY <3>2, StarvedCounters, StarvedFacts
    <3> QED BY <1>7, <3>1, <3>2
  <2>2. IsTree(tree', Vocab, Pages, Slots)
    <3>1. Next
      BY <1>7 DEF Next, Step, Select
    <3> QED BY <3>1, NextKeepsIInv DEF IInv, Typed
  <2>3. PICK e2 \in Nat, p2 \in Nat : e2 = tree'.evictable /\ p2 = tree'.protected
    BY <2>1, <2>2, CountedFacts
  <2>4. e2 + p2 = e + p /\ (e <= e2 \/ (pc' = "slot" /\ TryAllocate))
    BY <1>2, <2>1, <2>3
  <2>5. Available(tree) = e + F /\ Available(tree)' = e2 + F
    BY <1>2, <2>1, <2>3 DEF Available
  <2>6. (e2 + F) + p2 = (e + F) + p /\ (e <= e2 => e + F <= e2 + F)
    BY <2>4
  <2>7. CASE e <= e2
    BY <1>2, <2>3, <2>5, <2>6, <2>7
  <2>8. CASE pc' = "slot" /\ TryAllocate
    BY <1>2, <2>3, <2>5, <2>6, <2>8
  <2> QED BY <2>4, <2>7, <2>8
<1> QED BY <1>4, <1>5, <1>6, <1>7

-----------------------------------------------------------------------------
(* The sum that check_integrity takes, with the live requests counted in.   *)

OwnLen == [r \in Reqs |-> Len(req[r].row) - Len(req[r].handle)]

Conserved == Available(tree) + tree.protected + SumOf(OwnLen, Live) = NumPages

LEMMA OwnLens ==
  ASSUME IInv, HandlesFit, RowsCounted
  PROVE  /\ \A r \in Live : OwnLen[r] = Len(req[r].row) - Len(req[r].handle) /\ OwnLen[r] \in Nat
         /\ Summable(OwnLen, Live) /\ SumOf(OwnLen, Live) \in Nat
<1>1. ASSUME NEW r \in Live
      PROVE  OwnLen[r] = Len(req[r].row) - Len(req[r].handle) /\ OwnLen[r] \in Nat
  <2>1. r \in Reqs /\ req[r] \in ReqRecord
    BY DEF Live, IInv, Typed
  <2>2. PICK c \in Nat, w \in Nat, b \in Nat :
          c = req[r].cached /\ w = Len(req[r].row) /\ b = Len(req[r].handle)
    BY <2>1, ReqFields
  <2>3. b <= c /\ c <= w
    BY <2>1, <2>2 DEF HandlesFit, HandleFits, IInv, LengthsOK, ReqLengths
  <2>4. w - b \in Nat
    BY <2>3
  <2> QED BY <2>1, <2>2, <2>4 DEF OwnLen
<1>2. Summable(OwnLen, Live)
  BY <1>1 DEF Summable, RowsCounted
<1> QED BY <1>1, <1>2, SumIsNat

LEMMA InitConserved == Init => Conserved
<1> SUFFICES ASSUME Init PROVE Conserved
  OBVIOUS
<1>1. Live = {}
  BY DEF Init, NoReq, Live
<1>2. Len(freePages) = NumPages /\ NumPages \in Nat
  BY Sizes DEF Init
<1>3. tree.evictable = 0 /\ tree.protected = 0
  BY DEF Init, EmptyTree
<1> QED BY <1>1, <1>2, <1>3, SumNone DEF Conserved, Available

LEMMA NextKeepsConserved ==
  ASSUME IInv, RowsSettled, LocksInv, HandlesFit, Counted(tree), RowsCounted, Conserved,
         [Next]_vars
  PROVE  Conserved'
<1>1. req \in [Reqs -> ReqRecord] /\ freePages \in Seq(Pages) /\ IsTree(tree, Vocab, Pages, Slots)
  BY DEF IInv, Typed
<1>2. PICK a \in Nat, p \in Nat, s \in Nat :
        /\ a = Available(tree) /\ p = tree.protected /\ s = SumOf(OwnLen, Live)
        /\ a + p + s = NumPages
  <2>1. Available(tree) \in Nat /\ tree.protected \in Nat
    BY <1>1, CountedFacts DEF Available
  <2> QED BY <2>1, OwnLens DEF Conserved
<1>3. /\ \A r \in Live : OwnLen[r] = Len(req[r].row) - Len(req[r].handle) /\ OwnLen[r] \in Nat
      /\ Summable(OwnLen, Live)
  BY OwnLens
<1>4. \A r \in Reqs : OwnLen'[r] = Len(req'[r].row) - Len(req'[r].handle)
  BY DEF OwnLen
<1>5. Live \subseteq Reqs
  BY DEF Live
<1>6. CASE /\ Live' = Live
           /\ \A r \in Live : req'[r].row = req[r].row /\ req'[r].handle = req[r].handle
           /\ Available(tree)' + tree'.protected = Available(tree) + tree.protected
  <2>1. SumOf(OwnLen', Live) = SumOf(OwnLen, Live)
    <3>1. Agree(OwnLen, OwnLen', Live)
      BY <1>3, <1>4, <1>5, <1>6 DEF Agree
    <3> QED BY <3>1, SumSame
  <2> QED BY <1>2, <1>6, <2>1 DEF Conserved
<1>7. CASE \/ (\E r \in Reqs : Submit(r)) \/ ProcessMsg \/ StartStep \/ StopAdmission
           \/ TryAllocate \/ EvictForSlot \/ Starved \/ EvictForPages \/ EndPrepare \/ EndStep
           \/ RunWhenIdle \/ UNCHANGED vars
  <2>1. /\ Live' = Live /\ \A r \in Live : req'[r] = req[r]
        /\ Available(tree)' + tree'.protected = Available(tree) + tree.protected
    BY <1>7, QuietLive, QuietSpace DEF RunWhenIdle
  <2> QED BY <1>6, <2>1
<1>8. CASE ContinueChunk
  <2>1. tree' = tree /\ freePages' = freePages
    BY <1>8, ContinueFacts
  <2>2. PICK r \in Reqs : \E new :
          /\ req[r].stage = "live" /\ req' = [req EXCEPT ![r] = new] /\ new.stage = "live"
          /\ new.handle = req[r].handle /\ new.row = req[r].row
    BY <1>8, ContinueFacts
  <2>3. Live' = Live /\ \A q \in Live : req'[q].row = req[q].row /\ req'[q].handle = req[q].handle
    BY <1>1, <2>2 DEF Live
  <2>4. Available(tree)' = Available(tree)
    BY <2>1 DEF Available
  <2> QED BY <1>6, <2>1, <2>3, <2>4
<1>9. CASE AdmitWithoutSlot \/ AdmitWithFreeSlot \/ AdmitWithShedSlot
  <2>1. /\ tree'.evictable = tree.evictable /\ tree'.protected = tree.protected
        /\ freePages' = freePages
    BY <1>9, AdmitCounters, AdmitFacts
  <2>2. PICK r \in Reqs : \E new :
          /\ req[r].stage = "pending" /\ Len(req[r].handle) = Len(req[r].row)
          /\ req' = [req EXCEPT ![r] = new] /\ new.stage = "live"
          /\ new.handle = req[r].handle /\ new.row = req[r].row
    BY <1>9, AdmitFacts
  <2>3. /\ r \notin Live /\ Live' = Live \cup {r} /\ \A q \in Live : req'[q] = req[q]
        /\ req'[r].handle = req[r].handle /\ req'[r].row = req[r].row
    BY <1>1, <2>2 DEF Live
  <2>4. OwnLen'[r] = 0 /\ Agree(OwnLen, OwnLen', Live)
    <3>1. PICK w \in Nat : w = Len(req[r].row)
      BY <1>1, ReqFields
    <3>2. Len(req[r].handle) = Len(req[r].row)
      BY <2>2
    <3>3. Len(req'[r].row) = w /\ Len(req'[r].handle) = w
      BY <2>3, <3>1, <3>2
    <3>5. OwnLen'[r] = 0
      <4>1. OwnLen'[r] = w - w
        BY <1>4, <3>3, Zenon
      <4> QED BY <4>1
    <3>4. Agree(OwnLen, OwnLen', Live)
      BY <1>3, <1>4, <1>5, <2>3 DEF Agree
    <3> QED BY <3>4, <3>5
  <2>5. SumOf(OwnLen', Live \cup {r}) = SumOf(OwnLen, Live) + 0
    <3>1. r \notin Live /\ OwnLen'[r] \in Nat
      BY <2>3, <2>4
    <3>2. SumOf(OwnLen', Live \cup {r}) = SumOf(OwnLen, Live) + OwnLen'[r]
      <4> DEFINE g == OwnLen'
      <4>1. g[r] \in Nat /\ Agree(OwnLen, g, Live) /\ Summable(OwnLen, Live) /\ r \notin Live
        BY <1>3, <2>4, <3>1
      <4> HIDE DEF g
      <4>2. SumOf(g, Live \cup {r}) = SumOf(OwnLen, Live) + g[r]
        BY <4>1, SumAdd
      <4> QED BY <4>2 DEF g
    <3> QED BY <2>4, <3>2
  <2>6. Available(tree)' = Available(tree)
    BY <2>1 DEF Available
  <2> QED BY <1>2, <2>1, <2>3, <2>5, <2>6 DEF Conserved
<1>10. CASE Forward \/ Output
  <2>1. tree' = tree /\ freePages' = freePages
    BY <1>10, ForwardFacts, OutputFacts
  <2>2. Live' = Live /\ \A q \in Live : req'[q].row = req[q].row /\ req'[q].handle = req[q].handle
    <3>1. CASE Forward
      BY <3>1, ForwardFacts DEF Live
    <3>2. CASE Output
      BY <3>2, OutputFacts DEF Live
    <3> QED BY <1>10, <3>1, <3>2
  <2>3. Available(tree)' = Available(tree)
    BY <2>1 DEF Available
  <2> QED BY <1>6, <2>1, <2>2, <2>3
<1>11. CASE PrepareReq
  <2>1. tree' = tree
    BY <1>11, PrepareFacts
  <2>2. PICK r \in Live, n \in Nat :
          /\ n <= Len(freePages) /\ Len(freePages') = Len(freePages) - n
          /\ Len(req'[r].row) = Len(req[r].row) + n
          /\ req'[r].handle = req[r].handle
          /\ Live' = Live /\ \A q \in Live \ {r} : req'[q] = req[q]
    BY <1>11, PrepareSpace
  <2>3. PICK w \in Nat, b \in Nat : w = Len(req[r].row) /\ b = Len(req[r].handle)
    BY <1>1, <1>5, ReqFields
  <2>4. OwnLen[r] = w - b /\ OwnLen'[r] = (w + n) - b /\ w - b \in Nat
    BY <1>3, <1>4, <1>5, <2>2, <2>3
  <2>5. OwnLen'[r] = OwnLen[r] + n /\ OwnLen'[r] \in Nat
    BY <2>4
  <2>6. Agree(OwnLen, OwnLen', Live \ {r})
    BY <1>3, <1>4, <1>5, <2>2 DEF Agree
  <2>7. SumOf(OwnLen', Live) = SumOf(OwnLen, Live) - OwnLen[r] + OwnLen'[r]
    <3> DEFINE g == OwnLen'
    <3>1. /\ r \in Live /\ Summable(OwnLen, Live) /\ g[r] \in Nat
          /\ Agree(OwnLen, g, Live \ {r})
      BY <1>3, <2>5, <2>6
    <3> HIDE DEF g
    <3>2. SumOf(g, Live) = SumOf(OwnLen, Live) - OwnLen[r] + g[r]
      BY <3>1, SumChange
    <3> QED BY <3>2 DEF g
  <2>8. SumOf(OwnLen', Live) = s + n
    BY <1>2, <2>4, <2>5, <2>7
  <2>9. PICK e \in Nat, F \in Nat : e = tree.evictable /\ F = Len(freePages)
    BY <1>1, CountedFacts
  <2>10. a = e + F /\ Available(tree)' = e + (F - n)
    BY <1>2, <2>1, <2>2, <2>9 DEF Available
  <2>11. (e + (F - n)) + p + (s + n) = NumPages
    BY <1>2, <2>10
  <2> QED BY <1>2, <2>1, <2>2, <2>8, <2>10, <2>11 DEF Conserved
<1>12. CASE Cleanup
  <2>1. PICK r \in finished, own \in Nat :
          /\ r \in Live /\ own = Len(req[r].row) - Len(req[r].handle)
          /\ Live' = Live \ {r} /\ \A q \in Live' : req'[q] = req[q]
          /\ Available(tree)' + tree'.protected = Available(tree) + tree.protected + own
    BY <1>12, CleanupSpace
  <2>2. OwnLen[r] = own /\ Agree(OwnLen, OwnLen', Live \ {r})
    BY <1>3, <1>4, <1>5, <2>1 DEF Agree
  <2>3. SumOf(OwnLen', Live \ {r}) = SumOf(OwnLen, Live) - OwnLen[r]
    <3> DEFINE f == OwnLen
               g == OwnLen'
               N == Live
    <3>1. r \in N /\ Summable(f, N) /\ Agree(f, g, N \ {r})
      BY <1>3, <2>1, <2>2
    <3> HIDE DEF f, g, N
    <3>2. SumOf(g, N \ {r}) = SumOf(f, N) - f[r]
      BY <3>1, SumRemove
    <3> QED BY <3>2 DEF f, g, N
  <2>4. Available(tree)' + tree'.protected = a + p + own
    BY <1>2, <2>1
  <2>5. SumOf(OwnLen', Live') = s - own
    BY <1>2, <2>1, <2>2, <2>3
  <2>6. (a + p + own) + (s - own) = NumPages
    BY <1>2
  <2> QED BY <2>4, <2>5, <2>6 DEF Conserved
<1> QED BY <1>7, <1>8, <1>9, <1>10, <1>11, <1>12 DEF Next, Step, Select

(* check_integrity, at every moment: the free pages, the pages of the tree   *)
(* and the pages that live requests hold besides make up all there are.      *)
THEOREM Integrity == Spec => []Conserved
<1>1. /\ IInv /\ RowsSettled /\ LocksInv /\ HandlesFit /\ Counted(tree) /\ RowsCounted
      /\ Conserved /\ [Next]_vars
      => Conserved'
  BY NextKeepsConserved
<1> QED BY <1>1, InitConserved, Inductive, AlwaysRows, AlwaysLocks, AlwaysHandles, AlwaysCounters,
           AlwaysCounted, PTL DEF Spec

-----------------------------------------------------------------------------
(* What the admission budget promises.                                      *)

Spare(x) == Len(x.prompt) + x.output - 1 - Len(x.row)

Need == [r \in Reqs |-> StillNeeds(r)]

LEMMA NeedFacts ==
  ASSUME IInv, Rooms, RowsCounted
  PROVE  /\ \A r \in Live : /\ Spare(req[r]) \in Nat /\ Need[r] \in Nat
                            /\ r \notin finished => Need[r] = Spare(req[r])
                            /\ r \in finished => Need[r] = 0
         /\ Summable(Need, Live) /\ SumOf(Need, Live) \in Nat
<1>1. ASSUME NEW r \in Live
      PROVE  /\ Spare(req[r]) \in Nat /\ Need[r] \in Nat
             /\ r \notin finished => Need[r] = Spare(req[r])
             /\ r \in finished => Need[r] = 0
  <2>1. r \in Reqs /\ req[r] \in ReqRecord
    BY DEF Live, IInv, Typed
  <2>2. PICK l \in Nat, o \in Nat, w \in Nat :
          l = Len(req[r].prompt) /\ o = req[r].output /\ w = Len(req[r].row)
    BY <2>1, ReqFields
  <2>3. w < l + o
    BY <2>2 DEF Rooms, Room
  <2>4. Spare(req[r]) = l + o - 1 - w /\ l + o - 1 - w \in Nat
    <3>1. l + o - 1 - w \in Nat
      BY <2>3
    <3>2. Spare(req[r]) = l + o - 1 - w
      BY <2>2 DEF Spare
    <3> QED BY <3>1, <3>2
  <2>5. (r \notin finished => Need[r] = Spare(req[r])) /\ (r \in finished => Need[r] = 0)
    BY <2>1 DEF Need, StillNeeds, Spare, InputLen
  <2>6. Spare(req[r]) \in Nat
    BY <2>4
  <2>7. Need[r] \in Nat
    BY <2>5, <2>6
  <2> QED BY <2>5, <2>6, <2>7
<1>2. Summable(Need, Live)
  BY <1>1 DEF Summable, RowsCounted
<1> QED BY <1>1, <1>2, SumIsNat

(* The requests the budget of a round knows of: those that decode and those  *)
(* that it has admitted.                                                     *)
Known == running \cup InBatch

LEMMA KnownFacts ==
  ASSUME IInv
  PROVE  /\ InBatch = {batch[i] : i \in 1..Len(batch)}
         /\ Admitting => Known \subseteq Live /\ finished = {}
         /\ pc = "recv" => InBatch = {} /\ finished = {}
<1>1. Typed /\ ListsOK
  BY DEF IInv
<1>2. InBatch = {batch[i] : i \in 1..Len(batch)} /\ InBatch \subseteq Reqs
  <2>1. batch \in Seq(Reqs)
    BY <1>1 DEF Typed
  <2>2. InBatch = {batch[i] : i \in 1..Len(batch)}
    BY <2>1 DEF InBatch, Range
  <2> QED BY <1>1, <2>2, Members
<1>3. running \subseteq Live
  BY <1>1 DEF Typed, ListsOK, PlacesOK, Live
<1>4. pc # "cleanup" => finished = {}
  BY <1>1 DEF ListsOK, PlacesOK
<1>5. Admitting => InBatch \subseteq Live
  BY <1>1, <1>2 DEF ListsOK, AdmissionOK, Live
<1>6. pc = "recv" => InBatch = {}
  <2>1. pc = "recv" => batch = <<>>
    BY <1>1 DEF ListsOK, PlacesOK
  <2> QED BY <1>2, <2>1
<1> QED BY <1>2, <1>3, <1>4, <1>5, <1>6 DEF Known, Admitting

(* When one more request is about to be admitted, nobody else holds pages.   *)
LEMMA AllKnown ==
  ASSUME IInv, Kept, Admitting, Len(batch) < Len(pending), budget > 0, ~ req[Current].chunked
  PROVE  Live = Known
<1>1. Typed /\ ListsOK /\ Len(batch) \in Nat /\ Len(pending) \in Nat
  BY Members DEF IInv
<1>2. InBatch = {batch[i] : i \in 1..Len(batch)} /\ Known \subseteq Live
  BY KnownFacts
<1>3. ASSUME NEW r \in Live PROVE r \in Known
  <2>1. CASE req[r].chunked
    <3>1. CASE batch # <<>>
      <4>1. chunked_list = <<r>>
        BY <2>1, <3>1 DEF Kept, ChunkKept
      <4>2. 1 \in 1..Len(chunked_list) /\ chunked_list[1] = r
        BY <4>1
      <4>3. budget = 0
        BY <1>1, <4>2 DEF ListsOK, AdmissionOK
      <4> QED BY <4>3
    <3>2. CASE batch = <<>>
      <4>1. pending[1] = r
        BY <2>1, <3>2 DEF Kept, ChunkKept
      <4>2. Len(batch) = 0
        BY <1>1, <3>2, EmptySeq
      <4>3. Current = r
        BY <4>1, <4>2 DEF Current
      <4> QED BY <2>1, <4>3
    <3> QED BY <3>1, <3>2
  <2>2. CASE ~ req[r].chunked
    BY <1>2, <2>2 DEF Kept, WholeKept, Admitting, InTheBatch, Known
  <2> QED BY <2>1, <2>2
<1> QED BY <1>2, <1>3

(* The pages there are, or can be had by eviction, are enough for what those *)
(* who hold pages may still need; the reservation of a round covers all that *)
(* it knows of, and the request about to be admitted fits in besides.        *)
Enough == SumOf(Need, Live) <= Available(tree)
Promised == reserved \in Nat /\ (Admitting => SumOf(Need, Known) <= reserved)
SlotFits == pc = "slot" => Demand(Current, req[Current].handle) <= Available(tree)
Backed == Enough /\ Promised /\ SlotFits

LEMMA NeedStays ==
  ASSUME \A r \in Live : req'[r] = req[r], finished' = finished
  PROVE  Agree(Need, Need', Live)
BY DEF Agree, Need, StillNeeds, InputLen, Live

LEMMA EnoughStays ==
  ASSUME Enough, Live' = Live, Agree(Need, Need', Live), SumOf(Need, Live) \in Nat,
         Available(tree) \in Nat, Available(tree)' \in Nat, Available(tree) <= Available(tree)'
  PROVE  Enough'
<1> DEFINE g == Need'
<1>1. Agree(Need, g, Live)
  OBVIOUS
<1> HIDE DEF g
<1>2. SumOf(g, Live) = SumOf(Need, Live)
  BY <1>1, SumSame
<1>3. SumOf(Need', Live') = SumOf(Need, Live)
  BY <1>2 DEF g
<1>4. PICK s \in Nat, a \in Nat, b \in Nat :
        s = SumOf(Need, Live) /\ a = Available(tree) /\ b = Available(tree)'
  OBVIOUS
<1>5. s <= a /\ a <= b
  BY <1>4 DEF Enough
<1>6. s <= b
  BY <1>5
<1> QED BY <1>3, <1>4, <1>6 DEF Enough

LEMMA PromiseStays ==
  ASSUME Promised, Admitting, reserved' = reserved, Known' = Known, Known \subseteq Live,
         Agree(Need, Need', Live)
  PROVE  Promised'
<1> DEFINE g == Need'
<1>1. Agree(Need, g, Known)
  BY DEF Agree
<1> HIDE DEF g
<1>2. SumOf(g, Known) = SumOf(Need, Known)
  BY <1>1, SumSame
<1>3. SumOf(Need', Known') = SumOf(Need, Known)
  BY <1>2 DEF g
<1> QED BY <1>3 DEF Promised

LEMMA QuietBacked ==
  ASSUME IInv, LocksInv, Counted(tree), Rooms, RowsCounted, Backed,
         Available(tree) \in Nat, Available(tree)' \in Nat,
         \/ (\E r \in Reqs : Submit(r)) \/ ProcessMsg \/ StopAdmission \/ EvictForSlot
         \/ Starved \/ EvictForPages \/ EndPrepare \/ EndStep \/ UNCHANGED vars
         \/ TryAllocate /\ pc' # "slot"
  PROVE  Backed'
<1>1. /\ Live' = Live /\ \A r \in Live : req'[r] = req[r]
      /\ running' = running /\ finished' = finished
  BY QuietLive
<1>2. Agree(Need, Need', Live) /\ SumOf(Need, Live) \in Nat
  BY <1>1, NeedStays, NeedFacts
<1>3. Enough'
  <2>1. Available(tree) <= Available(tree)'
    <3>1. CASE pc' = "slot" /\ TryAllocate
      <4>1. pc = "admit"
        BY <3>1 DEF TryAllocate
      <4>2. UNCHANGED <<tree, freePages>>
        BY <3>1, <4>1 DEF Submit, ProcessMsg, StopAdmission, EvictForSlot, Starved,
             EvictForPages, EndPrepare, EndStep, vars, cache
      <4> QED BY <4>2 DEF Available
    <3> QED BY <3>1, QuietSpace
  <2> QED BY <1>1, <1>2, <2>1, EnoughStays DEF Backed
<1>4. Promised /\ SlotFits /\ Enough
  BY DEF Backed
<1>5. CASE EvictForSlot \/ EvictForPages
  <2>1. /\ pc' = pc /\ UNCHANGED <<batch, running, reserved, pending, req>>
        /\ pc \in {"slot", "alloc"}
    BY <1>5 DEF EvictForSlot, EvictForPages, lists, adder
  <2>2. Promised'
    <3>1. CASE Admitting
      <4>1. Known' = Known
        BY <2>1 DEF Known, InBatch
      <4> QED BY <1>2, <1>4, <2>1, <3>1, <4>1, KnownFacts, PromiseStays
    <3>2. CASE ~ Admitting
      BY <1>4, <2>1, <3>2 DEF Promised, Admitting
    <3> QED BY <3>1, <3>2
  <2>3. SlotFits'
    <3>1. Available(tree)' = Available(tree)
      BY <1>5, EvictSpace
    <3>2. Demand(Current, req[Current].handle)' = Demand(Current, req[Current].handle)
      BY <2>1 DEF Demand, Current, InputLen
    <3> QED BY <1>4, <2>1, <3>1, <3>2 DEF SlotFits
  <2> QED BY <1>3, <2>2, <2>3 DEF Backed
<1>6. CASE \/ (\E r \in Reqs : Submit(r)) \/ ProcessMsg \/ EndPrepare \/ EndStep
  <2>1. pc' \in {"recv", "forward"} /\ reserved' = reserved
    BY <1>6 DEF Submit, ProcessMsg, EndPrepare, EndStep, adder
  <2> QED BY <1>3, <1>4, <2>1 DEF Backed, Promised, SlotFits, Admitting
<1>7. CASE StopAdmission \/ Starved \/ (TryAllocate /\ pc' # "slot")
  <2>1. pc' \in {"recv", "alloc"} /\ reserved' = 0
    BY <1>7 DEF StopAdmission, Starved, TryAllocate, SelectBatch
  <2> QED BY <1>3, <2>1 DEF Backed, Promised, SlotFits, Admitting
<1>8. CASE UNCHANGED vars
  <2>1. pc' = pc /\ UNCHANGED <<batch, running, reserved, pending, req, tree, freePages>>
    BY <1>8 DEF vars, lists, adder, cache
  <2>2. Promised'
    <3>1. CASE Admitting
      <4>1. Known' = Known
        BY <2>1 DEF Known, InBatch
      <4> QED BY <1>2, <1>4, <2>1, <3>1, <4>1, KnownFacts, PromiseStays
    <3>2. CASE ~ Admitting
      BY <1>4, <2>1, <3>2 DEF Promised, Admitting
    <3> QED BY <3>1, <3>2
  <2>3. SlotFits'
    BY <1>4, <2>1 DEF SlotFits, Demand, Current, InputLen, Available
  <2> QED BY <1>3, <2>2, <2>3 DEF Backed
<1> QED BY <1>5, <1>6, <1>7, <1>8

(* A round begins with a reservation that covers what decodes: there is a    *)
(* page left to give for every token still to come but the last.             *)
LEMMA StartBacked ==
  ASSUME IInv, RowsSettled, Rooms, RowsCounted, Backed,
         Available(tree) \in Nat, Available(tree)' \in Nat, StartStep
  PROVE  Backed'
<1>1. /\ pc = "recv" /\ pc' = "admit" /\ reserved' = InflightTokens
      /\ UNCHANGED <<running, batch, finished, req, tree, freePages>>
  BY DEF StartStep, lists, cache
<1>2. Live' = Live /\ Agree(Need, Need', Live)
  BY <1>1, NeedStays DEF Live
<1>3. Enough'
  <2>1. Available(tree)' = Available(tree)
    BY <1>1 DEF Available
  <2>2. SumOf(Need, Live) \in Nat
    BY NeedFacts
  <2>3. Available(tree) <= Available(tree)'
    BY <2>1
  <2> QED BY <1>2, <2>2, <2>3, EnoughStays DEF Backed
<1>4. Known' = running /\ running \subseteq Live /\ IsFiniteSet(running) /\ finished = {}
  <2>1. InBatch = {} /\ finished = {}
    BY <1>1, KnownFacts
  <2>2. InBatch' = InBatch
    BY <1>1 DEF InBatch
  <2> QED BY <1>1, <2>1, <2>2 DEF Known, IInv, Typed, ListsOK, PlacesOK, Live
<1> DEFINE G == [r \in Reqs |-> RemainLen(r) + ExtraPerReq]
<1>5. ASSUME NEW r \in running PROVE Need[r] <= G[r] /\ Need[r] \in Nat /\ G[r] \in Nat
  <2>1. r \in Live /\ r \in Reqs /\ req[r] \in ReqRecord /\ ~ req[r].chunked
    BY <1>4 DEF Live, IInv, Typed, ListsOK, PlacesOK
  <2>2. PICK l \in Nat, o \in Nat, w \in Nat, c \in Nat, d \in Nat, m \in Nat :
          /\ l = Len(req[r].prompt) /\ o = req[r].output /\ w = Len(req[r].row)
          /\ c = req[r].cached /\ d = req[r].device /\ m = req[r].max_device
    BY <2>1, ReqFields
  <2>3. w = c
    BY <1>1, <2>1, <2>2 DEF RowsSettled, RowFull
  <2>4. d = c + 1 /\ m = l + o /\ w < l + o
    BY <2>1, <2>2 DEF Rooms, Room
  <2>5. Need[r] = l + o - 1 - w
    BY <1>4, <2>1, <2>2, NeedFacts DEF Spare
  <2>6. G[r] = m - d + ExtraPerReq
    BY <2>1, <2>2 DEF RemainLen
  <2>7. PICK e \in Nat : e = ExtraPerReq
    BY SizeAssumption
  <2>8. l + o - 1 - w \in Nat /\ m - d + e \in Nat /\ l + o - 1 - w <= m - d + e
    BY <2>3, <2>4
  <2> QED BY <2>5, <2>6, <2>7, <2>8
<1>6. SumOf(G, running) = InflightTokens
  <2>1. [r \in running |-> G[r]] = [r \in running |-> RemainLen(r) + ExtraPerReq]
    BY <1>4 DEF Live
  <2> HIDE DEF G
  <2> QED BY <2>1 DEF SumOf, InflightTokens
<1> HIDE DEF G
<1>7. Summable(Need, running) /\ Summable(G, running)
  BY <1>4, <1>5 DEF Summable
<1>8. SumOf(Need, running) <= SumOf(G, running) /\ SumOf(G, running) \in Nat
  <2>1. \A x \in running : Need[x] <= G[x]
    BY <1>5
  <2> QED BY <1>7, <2>1, SumLess, SumIsNat
<1>9. Promised'
  <2> DEFINE g == Need'
  <2>1. Agree(Need, g, running)
    BY <1>2, <1>4 DEF Agree
  <2> HIDE DEF g
  <2>2. SumOf(g, running) = SumOf(Need, running)
    BY <2>1, SumSame
  <2>3. SumOf(Need', Known') = SumOf(Need, running)
    BY <1>4, <2>2 DEF g
  <2> QED BY <1>1, <1>6, <1>8, <2>3 DEF Promised
<1> QED BY <1>1, <1>3, <1>9 DEF Backed, SlotFits

(* The request fits in besides all that hold pages, with its prefix locked.  *)
LEMMA AllocateBacked ==
  ASSUME IInv, Kept, Rooms, RowsCounted, Backed, Available(tree)' \in Nat,
         TryAllocate, pc' = "slot", IInv'
  PROVE  Backed'
<1>1. /\ pc = "admit" /\ Len(batch) < Len(pending) /\ budget > 0 /\ ~ req[Current].chunked
      /\ UNCHANGED <<running, finished, freePages>>
  BY DEF TryAllocate
<1>2. Typed /\ ListsOK /\ LengthsOK /\ Admitting
  BY <1>1 DEF IInv, Admitting
<1>3. Current \in Reqs
  BY <1>1, <1>2, CurrentWaits
<1>4. Live = Known /\ Known \subseteq Live
  BY <1>1, <1>2, AllKnown
<1>5. Live' = Live /\ \A r \in Live : req'[r] = req[r]
  BY QuietLive
<1>6. Agree(Need, Need', Live)
  BY <1>1, <1>5, NeedStays
<1>7. PICK h, walked, locked :
        /\ Fits(Current, h, walked, locked) /\ tree' = locked
        /\ req' = [req EXCEPT ![Current].handle = h, ![Current].row = MatchedRow(locked, h),
                              ![Current].stale = Last(rows)]
        /\ UNCHANGED <<pending, batch, reserved>>
  <2>1. ~ SelectBatch
    BY DEF SelectBatch
  <2> QED BY <2>1 DEF TryAllocate
<1>8. req[Current] \in ReqRecord
  BY <1>2, <1>3 DEF Typed
<1>9. /\ Current' = Current /\ req'[Current].handle = h
      /\ InputLen(Current)' = InputLen(Current) /\ req'[Current].output = req[Current].output
  <2>1. Current' = Current
    BY <1>7 DEF Current
  <2>2. \E x, y : req'[Current] = [req[Current] EXCEPT !.handle = h, !.row = x, !.stale = y]
    BY <1>2, <1>3, <1>7 DEF Typed
  <2>3. /\ req'[Current].handle = h /\ req'[Current].prompt = req[Current].prompt
        /\ req'[Current].output = req[Current].output
    BY <1>8, <2>2 DEF ReqRecord
  <2> QED BY <2>1, <2>3 DEF InputLen
<1>10. PICK l \in Nat, o \in Nat, n \in Nat, k \in Nat :
         l = InputLen(Current) /\ o = req[Current].output /\ n = Len(h) /\ k = reserved
  <2>1. InputLen(Current) \in Nat /\ req[Current].output \in Nat
    BY <1>8, ReqFields DEF InputLen
  <2>2. Len(h) \in Nat
    <3>1. req'[Current] \in ReqRecord
      BY <1>3 DEF IInv, Typed
    <3> QED BY <1>9, <3>1, ReqFields
  <2> QED BY <2>1, <2>2 DEF Backed, Promised
<1>11. n <= l
  BY <1>9, <1>10 DEF IInv, ListsOK, SlotOK
<1>12. Demand(Current, h) = l - n + o + k
  BY <1>10 DEF Demand
<1>13. Demand(Current, h) <= Available(tree)'
  <2>1. Demand(Current, h) <= Available(locked)
    BY <1>7 DEF Fits
  <2>2. Available(tree)' = Available(locked)
    BY <1>1, <1>7 DEF Available
  <2> QED BY <2>1, <2>2
<1>14. SlotFits'
  <2>1. Demand(Current, req[Current].handle)' = Demand(Current, h)
    BY <1>7, <1>9 DEF Demand
  <2> QED BY <1>13, <2>1 DEF SlotFits
<1>15. Promised'
  <2>1. Known' = Known
    BY <1>1, <1>7 DEF Known, InBatch
  <2> QED BY <1>2, <1>4, <1>6, <1>7, <2>1, PromiseStays DEF Backed
<1>16. Enough'
  <2> DEFINE g == Need'
  <2>1. Agree(Need, g, Live)
    BY <1>6
  <2> HIDE DEF g
  <2>2. SumOf(g, Live) = SumOf(Need, Live)
    BY <2>1, SumSame
  <2>3. SumOf(Need', Live') = SumOf(Need, Live)
    BY <1>5, <2>2 DEF g
  <2>4. PICK s \in Nat, a \in Nat : s = SumOf(Need, Live) /\ a = Available(tree)'
    BY NeedFacts
  <2>5. s <= k /\ l - n + o + k <= a
    BY <1>2, <1>4, <1>10, <1>12, <1>13, <2>4 DEF Backed, Promised
  <2>6. s <= a
    BY <1>11, <2>5
  <2> QED BY <2>3, <2>4, <2>6 DEF Enough
<1> QED BY <1>14, <1>15, <1>16 DEF Backed

(* Whoever joins the batch adds to the reservation what it may come to need, *)
(* and one more.                                                             *)
LEMMA JoinReserves ==
  ASSUME IInv, RowsSettled, Numbers, Rooms, RowsCounted, Backed, Known \subseteq Live,
         ContinueChunk \/ AdmitWithoutSlot \/ AdmitWithFreeSlot \/ AdmitWithShedSlot
  PROVE  \E r \in Reqs, n \in Nat :
           /\ r = Current /\ r \notin Known /\ Known' = Known \cup {r}
           /\ Live' = Live \cup {r} /\ Agree(Need, Need', Live)
           /\ Need'[r] = n /\ reserved' = reserved + n + 1
           /\ SumOf(Need', Known') = SumOf(Need, Known) + n
           /\ pc = "slot" => Demand(r, req[r].handle) = reserved + n + 1
<1>1. Typed /\ ListsOK /\ LengthsOK
  BY DEF IInv
<1>2. /\ Admitting /\ Len(batch) < Len(pending) /\ running' = running /\ finished' = finished
  BY JoinFacts
<1>3. PICK r \in Reqs, total \in Nat : \E new :
        /\ r = Current
        /\ \/ pc = "admit" /\ req[r].stage = "live" /\ req[r].chunked
              /\ new.cached = req[r].cached
           \/ pc = "slot" /\ req[r].stage = "pending" /\ new.cached = Len(req[r].handle)
              /\ Len(req[r].handle) = Len(req[r].row)
        /\ new.cached < total /\ total <= InputLen(r) /\ new.cached \in Nat
        /\ req' = [req EXCEPT ![r] = new] /\ new.stage = "live"
        /\ new.prompt = req[r].prompt /\ new.output = req[r].output /\ new.row = req[r].row
        /\ batch' = Append(batch, r)
  BY JoinFacts
<1>4. PICK new :
        /\ \/ pc = "admit" /\ req[r].stage = "live" /\ req[r].chunked
              /\ new.cached = req[r].cached
           \/ pc = "slot" /\ req[r].stage = "pending" /\ new.cached = Len(req[r].handle)
              /\ Len(req[r].handle) = Len(req[r].row)
        /\ new.cached < total /\ total <= InputLen(r) /\ new.cached \in Nat
        /\ req' = [req EXCEPT ![r] = new] /\ new.stage = "live"
        /\ new.prompt = req[r].prompt /\ new.output = req[r].output /\ new.row = req[r].row
        /\ batch' = Append(batch, r)
  BY <1>3
<1>5. req \in [Reqs -> ReqRecord] /\ req[r] \in ReqRecord
  BY <1>1 DEF Typed
<1>6. PICK l \in Nat, o \in Nat, w \in Nat, k \in Nat :
        l = InputLen(r) /\ o = req[r].output /\ w = Len(req[r].row) /\ k = reserved
  BY <1>5, ReqFields DEF InputLen, Backed, Promised
<1>7. new.cached = w /\ w < l
  <2>1. new.cached = w
    <3>1. CASE pc = "slot"
      BY <1>4, <1>6, <3>1
    <3>2. CASE pc = "admit"
      <4>1. r \in Live /\ new.cached = req[r].cached
        BY <1>4, <3>2 DEF Live
      <4>2. RowFull(r)
        BY <3>2, <4>1 DEF RowsSettled
      <4> QED BY <1>6, <4>1, <4>2 DEF RowFull
    <3> QED BY <1>4, <3>1, <3>2
  <2> QED BY <1>4, <1>6, <2>1
<1>8. /\ req'[r] = new /\ \A q \in Reqs \ {r} : req'[q] = req[q]
      /\ Live' = Live \cup {r}
  BY <1>4, <1>5 DEF Live
<1>9. reserved' = k + (l - w) + o
  <2>1. CASE ContinueChunk
    <3>1. pc = "admit" /\ reserved' = reserved + (InputLen(Current) - req[Current].cached)
                                      + req[Current].output
      BY <2>1 DEF ContinueChunk, AddOneReq
    <3>2. req[r].cached = w
      BY <1>4, <1>7, <3>1
    <3> QED BY <1>3, <1>6, <3>1, <3>2
  <2>2. CASE AdmitWithoutSlot \/ AdmitWithFreeSlot \/ AdmitWithShedSlot
    <3>1. pc = "slot" /\ reserved' = reserved + (InputLen(Current) - Len(req[Current].handle))
                                     + req[Current].output
      BY <2>2 DEF AdmitWithoutSlot, AdmitWithFreeSlot, AdmitWithShedSlot, Admit, AddOneReq
    <3>2. Len(req[r].handle) = w
      BY <1>4, <1>7, <3>1
    <3> QED BY <1>3, <1>6, <3>1, <3>2
  <2> QED BY <2>1, <2>2
<1>10. r \notin running /\ (\A i \in 1..Len(batch) : batch[i] # r) /\ Len(batch) \in Nat
  BY <1>1, <1>2, <1>3, CurrentWaits, Members
<1>11. r \notin Known /\ Known' = Known \cup {r} /\ finished = {}
  <2>1. InBatch = {batch[i] : i \in 1..Len(batch)} /\ finished = {}
    BY <1>2, KnownFacts
  <2>2. InBatch' = InBatch \cup {r}
    <3>1. batch \in Seq(Reqs)
      BY <1>1 DEF Typed
    <3>2. /\ batch' \in Seq(Reqs) /\ Len(batch') = Len(batch) + 1 /\ batch'[Len(batch) + 1] = r
          /\ \A i \in 1..Len(batch) : batch'[i] = batch[i]
      BY <1>3, <1>4, <3>1, AppendProperties
    <3>3. InBatch' = {batch'[i] : i \in 1..Len(batch')}
      BY <3>2 DEF InBatch, Range
    <3>4. 1..Len(batch') = 1..Len(batch) \cup {Len(batch) + 1}
      BY <1>10, <3>2
    <3> QED BY <2>1, <3>2, <3>3, <3>4
  <2> QED BY <1>2, <1>10, <2>1, <2>2 DEF Known
<1> DEFINE n == l + o - 1 - w
<1>12. n \in Nat /\ k + (l - w) + o = k + n + 1 /\ l - w + o + k = k + n + 1
  <2>1. w < l
    BY <1>7
  <2> QED BY <2>1
<1>13. Need'[r] = n
  <2>1. r \notin finished'
    BY <1>2, <1>11
  <2>2. /\ InputLen(r)' = l /\ req'[r].output = o /\ Len(req'[r].row) = w
    BY <1>4, <1>6, <1>8 DEF InputLen
  <2>3. Need'[r] = InputLen(r)' + req'[r].output - 1 - Len(req'[r].row)
    BY <2>1 DEF Need, StillNeeds
  <2> QED BY <2>2, <2>3
<1>14. Agree(Need, Need', Live)
  <2>1. ASSUME NEW q \in Live PROVE Need'[q] = Need[q]
    <3>1. q \in Reqs
      BY DEF Live
    <3>2. CASE q = r
      <4>1. Need[r] = InputLen(r) + req[r].output - 1 - Len(req[r].row)
        BY <1>11 DEF Need, StillNeeds
      <4>2. Need[r] = n
        BY <1>6, <4>1
      <4> QED BY <1>13, <3>2, <4>2
    <3>3. CASE q # r
      BY <1>2, <1>8, <3>1, <3>3 DEF Need, StillNeeds, InputLen
    <3> QED BY <3>2, <3>3
  <2> QED BY <2>1 DEF Agree
<1>15. SumOf(Need', Known') = SumOf(Need, Known) + n
  <2> DEFINE f == Need
             g == Need'
             N == Known
  <2>1. g[r] \in Nat /\ g[r] = n /\ Agree(f, g, N) /\ r \notin N /\ Summable(f, N)
    <3>1. Summable(Need, Known)
      BY NeedFacts, FS_Subset DEF Summable
    <3> QED BY <1>11, <1>12, <1>13, <1>14, <3>1 DEF Agree
  <2> HIDE DEF f, g, N, n
  <2>2. SumOf(g, N \cup {r}) = SumOf(f, N) + g[r]
    BY <2>1, SumAdd
  <2> QED BY <1>11, <2>1, <2>2 DEF f, g, N
<1>16. pc = "slot" => Demand(r, req[r].handle) = k + n + 1
  <2>1. pc = "slot" => Len(req[r].handle) = w
    BY <1>4, <1>6
  <2> HIDE DEF n
  <2>2. l - w + o + k = k + n + 1
    BY <1>12
  <2> QED BY <1>6, <2>1, <2>2 DEF Demand
<1> HIDE DEF n
<1>17. reserved' = reserved + n + 1
  BY <1>6, <1>9, <1>12
<1> QED BY <1>3, <1>6, <1>8, <1>11, <1>12, <1>13, <1>14, <1>15, <1>16, <1>17

LEMMA JoinBacked ==
  ASSUME IInv, RowsSettled, Numbers, Kept, Rooms, RowsCounted, Counted(tree), Backed,
         Available(tree) \in Nat, Available(tree)' \in Nat,
         ContinueChunk \/ AdmitWithoutSlot \/ AdmitWithFreeSlot \/ AdmitWithShedSlot
  PROVE  Backed'
<1>1. /\ Admitting /\ pc' = "admit" /\ Len(batch) < Len(pending) /\ budget > 0
  BY JoinFacts
<1>2. Known \subseteq Live
  BY <1>1, KnownFacts
<1>3. PICK r \in Reqs, n \in Nat :
        /\ r = Current /\ r \notin Known /\ Known' = Known \cup {r}
        /\ Live' = Live \cup {r} /\ Agree(Need, Need', Live)
        /\ Need'[r] = n /\ reserved' = reserved + n + 1
        /\ SumOf(Need', Known') = SumOf(Need, Known) + n
        /\ pc = "slot" => Demand(r, req[r].handle) = reserved + n + 1
  BY <1>2, JoinReserves
<1>4. PICK k \in Nat, s \in Nat : k = reserved /\ s = SumOf(Need, Known) /\ s <= k
  <2>1. Summable(Need, Known)
    BY <1>2, NeedFacts, FS_Subset DEF Summable
  <2> QED BY <1>1, <2>1, SumIsNat DEF Backed, Promised
<1>5. reserved' = k + n + 1 /\ SumOf(Need', Known') = s + n
  BY <1>3, <1>4
<1>6. k + n + 1 \in Nat /\ s + n <= k + n + 1
  BY <1>4
<1>7. Promised'
  BY <1>5, <1>6 DEF Promised
<1>8. Available(tree)' = Available(tree)
  <2>1. tree'.evictable = tree.evictable /\ freePages' = freePages
    <3>1. CASE ContinueChunk
      BY <3>1, ContinueFacts
    <3>2. CASE AdmitWithoutSlot \/ AdmitWithFreeSlot \/ AdmitWithShedSlot
      BY <3>2, AdmitCounters, AdmitFacts
    <3> QED BY <3>1, <3>2
  <2> QED BY <2>1 DEF Available
<1>9. Enough'
  <2>1. CASE ContinueChunk
    <3>1. r \in Live
      <4>1. req[Current].stage = "live" /\ Current \in Reqs
        BY <2>1, ContinueFacts
      <4> QED BY <1>3, <4>1 DEF Live
    <3>2. Live' = Live /\ Available(tree) <= Available(tree)'
      BY <1>3, <1>8, <3>1
    <3> QED BY <1>3, <3>2, NeedFacts, EnoughStays DEF Backed
  <2>2. CASE AdmitWithoutSlot \/ AdmitWithFreeSlot \/ AdmitWithShedSlot
    <3>1. pc = "slot" /\ req[Current].stage = "pending"
      BY <2>2, AdmitFacts
    <3>2. ~ req[Current].chunked
      BY <1>3, <3>1 DEF IInv, LengthsOK, ReqLengths
    <3>3. Live' = Known'
      BY <1>1, <1>3, <3>2, AllKnown
    <3>4. Demand(r, req[r].handle) <= Available(tree)
      BY <1>3, <3>1 DEF Backed, SlotFits
    <3>5. k + n + 1 <= Available(tree)'
      BY <1>3, <1>4, <1>8, <3>1, <3>4
    <3>6. SumOf(Need', Live') = s + n
      BY <1>5, <3>3
    <3> QED BY <1>4, <3>5, <3>6 DEF Enough
  <2> QED BY <2>1, <2>2
<1> QED BY <1>1, <1>7, <1>9 DEF Backed, SlotFits

(* A page handed out was one of those that its request might still need.     *)
LEMMA PrepareBacked ==
  ASSUME IInv, RowsSettled, HandlesFit, Rooms, RowsCounted, Backed, Counted(tree), Rooms', PrepareReq
  PROVE  Backed'
<1>1. /\ pc = "alloc" /\ pc' = "alloc" /\ tree' = tree /\ finished' = finished /\ reserved' = reserved
  BY PrepareFacts DEF PrepareReq, lists
<1>2. req \in [Reqs -> ReqRecord] /\ req' \in [Reqs -> ReqRecord] /\ finished = {}
      /\ IsTree(tree, Vocab, Pages, Slots) /\ freePages \in Seq(Pages)
  <2>1. Next
    BY DEF Next, Step
  <2> QED BY <1>1, <2>1, NextKeepsIInv DEF IInv, Typed, ListsOK, PlacesOK
<1>3. PICK r \in Live, n \in Nat :
        /\ n <= Len(freePages) /\ Len(freePages') = Len(freePages) - n
        /\ Len(req'[r].row) = Len(req[r].row) + n
        /\ req'[r].prompt = req[r].prompt /\ req'[r].output = req[r].output
        /\ Live' = Live /\ \A q \in Live \ {r} : req'[q] = req[q]
  BY PrepareSpace
<1>4. r \in Reqs /\ Live \subseteq Reqs
  BY DEF Live
<1>5. PICK l \in Nat, o \in Nat, w \in Nat :
        l = Len(req[r].prompt) /\ o = req[r].output /\ w = Len(req[r].row)
  BY <1>2, <1>4, ReqFields
<1>6. w + n < l + o
  BY <1>3, <1>5 DEF Rooms, Room
<1>7. Need[r] = l + o - 1 - w /\ Need'[r] = l + o - 1 - (w + n)
  <2>1. Need[r] = Len(req[r].prompt) + req[r].output - 1 - Len(req[r].row)
    BY <1>2, <1>4 DEF Need, StillNeeds, InputLen
  <2>2. Need'[r] = Len(req'[r].prompt) + req'[r].output - 1 - Len(req'[r].row)
    BY <1>1, <1>2, <1>4 DEF Need, StillNeeds, InputLen
  <2> QED BY <1>3, <1>5, <2>1, <2>2
<1>8. l + o - 1 - (w + n) \in Nat
  BY <1>6
<1>9. SumOf(Need', Live) = SumOf(Need, Live) - Need[r] + Need'[r]
  <2> DEFINE f == Need
             g == Need'
             N == Live
  <2>1. r \in N /\ Summable(f, N) /\ g[r] \in Nat /\ Agree(f, g, N \ {r})
    <3>1. Agree(Need, Need', Live \ {r})
      BY <1>1, <1>3, <1>4 DEF Agree, Need, StillNeeds, InputLen
    <3> QED BY <1>7, <1>8, <3>1, NeedFacts
  <2> HIDE DEF f, g, N
  <2>2. SumOf(g, N) = SumOf(f, N) - f[r] + g[r]
    BY <2>1, SumChange
  <2> QED BY <2>2 DEF f, g, N
<1>10. PICK s \in Nat, e \in Nat, F \in Nat :
         s = SumOf(Need, Live) /\ e = tree.evictable /\ F = Len(freePages) /\ s <= e + F
  BY <1>2, CountedFacts, NeedFacts DEF Backed, Enough, Available
<1>11. SumOf(Need', Live') = s - n
  <2>1. SumOf(Need', Live') = s - (l + o - 1 - w) + (l + o - 1 - (w + n))
    BY <1>3, <1>7, <1>9, <1>10
  <2> QED BY <1>10, <2>1
<1>12. Available(tree)' = e + (F - n)
  BY <1>1, <1>3, <1>10 DEF Available
<1>13. s - n <= e + (F - n)
  BY <1>10
<1> QED BY <1>1, <1>11, <1>12, <1>13 DEF Backed, Enough, Promised, SlotFits, Admitting

(* Neither computing nor sampling takes a page; a request that has finished  *)
(* needs none.                                                               *)
LEMMA ComputeBacked ==
  ASSUME IInv, Rooms, RowsCounted, Backed, Available(tree) \in Nat, Forward \/ Output
  PROVE  Backed'
<1>1. /\ pc' \in {"output", "cleanup"} /\ tree' = tree /\ freePages' = freePages
      /\ reserved' = reserved /\ finished = {}
  <2>1. reserved' = reserved
    BY DEF Forward, Output, adder
  <2>2. pc # "cleanup" => finished = {}
    BY DEF IInv, ListsOK, PlacesOK
  <2> QED BY <2>1, <2>2, ForwardFacts, OutputFacts
<1>2. \A r \in Live : /\ req'[r].stage = "live" /\ req'[r].row = req[r].row
                      /\ req'[r].prompt = req[r].prompt /\ req'[r].output = req[r].output
  <2>1. CASE Forward
    BY <2>1, ForwardFacts DEF Live
  <2>2. CASE Output
    BY <2>2, OutputFacts DEF Live
  <2> QED BY <2>1, <2>2
<1>3. Live' = Live
  <2>1. CASE Forward
    BY <2>1, ForwardFacts DEF Live
  <2>2. CASE Output
    BY <2>2, OutputFacts DEF Live
  <2> QED BY <2>1, <2>2
<1>4. Summable(Need, Live) /\ SumOf(Need, Live) \in Nat
  BY NeedFacts
<1>5. ASSUME NEW r \in Live PROVE Need'[r] \in Nat /\ Need'[r] <= Need[r]
  <2>1. r \in Reqs
    BY DEF Live
  <2>2. PICK n \in Nat : n = Need[r]
    BY <1>4 DEF Summable
  <2>3. Need[r] = InputLen(r) + req[r].output - 1 - Len(req[r].row)
    BY <1>1, <2>1 DEF Need, StillNeeds
  <2>4. CASE r \in finished'
    <3>1. Need'[r] = 0
      BY <2>1, <2>4 DEF Need, StillNeeds
    <3> QED BY <2>2, <3>1
  <2>5. CASE r \notin finished'
    <3>1. Need'[r] = n
      BY <1>2, <2>1, <2>2, <2>3, <2>5 DEF Need, StillNeeds, InputLen
    <3> QED BY <2>2, <3>1
  <2> QED BY <2>4, <2>5
<1>6. SumOf(Need', Live) <= SumOf(Need, Live) /\ SumOf(Need', Live) \in Nat
  <2> DEFINE f == Need'
             g == Need
             N == Live
  <2>1. /\ N \subseteq N /\ Summable(f, N) /\ Summable(g, N) /\ \A x \in N : f[x] <= g[x]
    BY <1>4, <1>5 DEF Summable
  <2> HIDE DEF f, g, N
  <2>2. SumOf(f, N) <= SumOf(g, N) /\ SumOf(f, N) \in Nat
    BY <2>1, SumLess, SumIsNat
  <2> QED BY <2>2 DEF f, g, N
<1>7. Available(tree)' = Available(tree)
  BY <1>1 DEF Available
<1>8. Enough'
  BY <1>3, <1>4, <1>6, <1>7 DEF Backed, Enough
<1> QED BY <1>1, <1>8 DEF Backed, Promised, SlotFits, Admitting

LEMMA CleanupBacked ==
  ASSUME IInv, RowsSettled, LocksInv, HandlesFit, Rooms, RowsCounted, Counted(tree), Backed,
         Available(tree) \in Nat, Available(tree)' \in Nat, Cleanup
  PROVE  Backed'
<1>1. pc' = "cleanup" /\ reserved' = reserved
  BY CleanupFacts DEF Cleanup, adder
<1>2. PICK r \in finished :
        /\ r \in Live /\ finished' = finished \ {r}
        /\ Live' = Live \ {r} /\ \A q \in Live' : req'[q] = req[q]
        /\ Available(tree) <= Available(tree)'
  BY CleanupSpace
<1>3. Need[r] = 0 /\ Summable(Need, Live) /\ SumOf(Need, Live) \in Nat
  BY <1>2, NeedFacts
<1>4. Agree(Need, Need', Live \ {r})
  BY <1>2 DEF Agree, Need, StillNeeds, InputLen, Live
<1>5. SumOf(Need', Live \ {r}) = SumOf(Need, Live) - Need[r]
  <2> DEFINE f == Need
             g == Need'
             N == Live
  <2>1. r \in N /\ Summable(f, N) /\ Agree(f, g, N \ {r})
    BY <1>2, <1>3, <1>4
  <2> HIDE DEF f, g, N
  <2>2. SumOf(g, N \ {r}) = SumOf(f, N) - f[r]
    BY <2>1, SumRemove
  <2> QED BY <2>2 DEF f, g, N
<1>6. PICK s \in Nat, a \in Nat, b \in Nat :
        s = SumOf(Need, Live) /\ a = Available(tree) /\ b = Available(tree)'
  BY <1>3
<1>7. SumOf(Need', Live') = s /\ s <= a /\ a <= b
  BY <1>2, <1>3, <1>5, <1>6 DEF Backed, Enough
<1>8. s <= b
  BY <1>6, <1>7
<1>9. Enough'
  BY <1>6, <1>7, <1>8 DEF Enough
<1> QED BY <1>1, <1>9 DEF Backed, Promised, SlotFits, Admitting

LEMMA InitBacked == Init => Backed
<1> SUFFICES ASSUME Init PROVE Backed
  OBVIOUS
<1>1. Live = {} /\ pc = "recv" /\ reserved = 0
  BY DEF Init, NoReq, Live
<1>2. tree.evictable = 0 /\ Len(freePages) = NumPages /\ NumPages \in Nat
  BY Sizes DEF Init, EmptyTree
<1>3. Available(tree) = NumPages
  BY <1>2 DEF Available
<1>4. Enough
  BY <1>1, <1>2, <1>3, SumNone DEF Enough
<1> QED BY <1>1, <1>4 DEF Backed, Promised, SlotFits, Admitting

LEMMA NextKeepsBacked ==
  ASSUME IInv, RowsSettled, LocksInv, HandlesFit, Numbers, Kept, Rooms, RowsCounted,
         Counted(tree), Backed, [Next]_vars
  PROVE  Backed'
<1>1. Available(tree) \in Nat
  BY CountedFacts DEF IInv, Typed, Available
<1>2. IInv' /\ Rooms' /\ Counted(tree')
  BY NextKeepsIInv, NextKeepsRooms, NextKeepsCounters
<1>3. Available(tree)' \in Nat
  <2>1. IsTree(tree', Vocab, Pages, Slots) /\ freePages' \in Seq(Pages)
    BY <1>2 DEF IInv, Typed
  <2> QED BY <1>2, <2>1, CountedFacts DEF Available
<1>4. CASE TryAllocate
  BY <1>1, <1>2, <1>3, <1>4, QuietBacked, AllocateBacked
<1>5. CASE RunWhenIdle
  BY <1>1, <1>3, <1>5, QuietBacked DEF RunWhenIdle
<1> QED BY <1>1, <1>2, <1>3, <1>4, <1>5, QuietBacked, StartBacked, JoinBacked, PrepareBacked,
           ComputeBacked, CleanupBacked DEF Next, Step, Select

LEMMA AlwaysBacked == Spec => []Backed
<1>1. /\ IInv /\ RowsSettled /\ LocksInv /\ HandlesFit /\ Numbers /\ Kept /\ Rooms /\ RowsCounted
      /\ Counted(tree) /\ Backed /\ [Next]_vars
      => Backed'
  BY NextKeepsBacked
<1> QED BY <1>1, InitBacked, Inductive, AlwaysRows, AlwaysLocks, AlwaysHandles, AlwaysNumbers,
           AlwaysKept, AlwaysRooms, AlwaysCounted, AlwaysCounters, PTL DEF Spec

(* The admission budget keeps its promise: what all admitted requests may    *)
(* still need is free or can be evicted.                                     *)
THEOREM Backing == Spec => []AllocationBacked
<1>1. Backed => AllocationBacked
  <2> SUFFICES ASSUME Backed PROVE AllocationBacked
    OBVIOUS
  <2>1. [r \in Live |-> Need[r]] = [r \in Live |-> StillNeeds(r)]
    BY DEF Need, Live
  <2> QED BY <2>1 DEF Backed, Enough, SumOf, AllocationBacked
<1> QED BY <1>1, AlwaysBacked, PTL

-----------------------------------------------------------------------------
(* A step that finds work builds a batch.                                   *)

(* A round begins with some work and some budget, and while nobody runs and *)
(* nobody is admitted nothing is promised to anybody.                       *)
RoundBegins ==
  Admitting /\ batch = <<>> => budget > 0 /\ Runnable /\ (running = {} => reserved = 0)

LEMMA NextKeepsRound ==
  ASSUME IInv, Numbers, RoundBegins, [Next]_vars
  PROVE  RoundBegins'
<1>1. CASE StartStep
  <2>1. /\ budget' = Budget /\ reserved' = InflightTokens /\ running' = running
        /\ pending' = pending /\ Runnable
    BY <1>1 DEF StartStep, lists
  <2>2. running = {} => InflightTokens = 0
    <3> DEFINE f == [r \in running |-> RemainLen(r) + ExtraPerReq]
    <3>1. running = {} => DOMAIN f = {}
      OBVIOUS
    <3>2. InflightTokens = Total(f)
      BY DEF InflightTokens
    <3> HIDE DEF f
    <3> QED BY <3>1, <3>2, TotalEmpty
  <2>3. Budget > 0
    BY Sizes
  <2> QED BY <2>1, <2>2, <2>3 DEF RoundBegins, Runnable
<1>2. CASE ContinueChunk \/ AdmitWithoutSlot \/ AdmitWithFreeSlot \/ AdmitWithShedSlot
  <2>1. \E r \in Reqs : batch' = Append(batch, r)
    BY <1>2, JoinFacts
  <2>2. batch \in Seq(Reqs)
    BY DEF IInv, Typed
  <2>3. batch' # <<>>
    BY <2>1, <2>2
  <2> QED BY <2>3 DEF RoundBegins
<1>3. CASE TryAllocate /\ pc' = "slot"
  <2>1. /\ pc = "admit" /\ running' = running
        /\ UNCHANGED <<pending, batch, budget, reserved>>
    BY <1>3 DEF TryAllocate, SelectBatch
  <2> QED BY <2>1 DEF RoundBegins, Runnable, Admitting
<1>4. CASE EvictForSlot \/ UNCHANGED vars
  <2>1. UNCHANGED <<pc, pending, batch, budget, reserved, running>>
    BY <1>4 DEF EvictForSlot, vars, lists, adder
  <2> QED BY <2>1 DEF RoundBegins, Runnable, Admitting
<1>5. CASE StopAdmission \/ Starved \/ (TryAllocate /\ pc' # "slot")
  <2>1. pc' \in {"recv", "alloc"}
    BY <1>5 DEF StopAdmission, Starved, TryAllocate, SelectBatch
  <2> QED BY <2>1 DEF RoundBegins, Admitting
<1>6. CASE (\E r \in Reqs : Submit(r)) \/ ProcessMsg \/ RunWhenIdle
  <2>1. pc' = "recv"
    BY <1>6 DEF Submit, ProcessMsg, RunWhenIdle, vars
  <2> QED BY <2>1 DEF RoundBegins, Admitting
<1>7. CASE EvictForPages \/ PrepareReq \/ EndPrepare \/ Forward \/ Output \/ Cleanup \/ EndStep
  <2>1. pc' \in {"alloc", "forward", "output", "cleanup", "recv"}
    BY <1>7 DEF EvictForPages, PrepareReq, EndPrepare, Forward, Output, Cleanup, EndStep
  <2> QED BY <2>1 DEF RoundBegins, Admitting
<1> QED BY <1>1, <1>2, <1>3, <1>4, <1>5, <1>6, <1>7 DEF Next, Step, Select

LEMMA AlwaysRound == Spec => []RoundBegins
<1>1. Init => RoundBegins
  BY DEF Init, RoundBegins, Admitting
<1>2. IInv /\ Numbers /\ RoundBegins /\ [Next]_vars => RoundBegins'
  BY NextKeepsRound
<1> QED BY <1>1, <1>2, Inductive, AlwaysNumbers, PTL DEF Spec

(* With nobody running and nobody admitted yet, the only one that can hold  *)
(* something is the prompt that was cut short.                              *)
LEMMA NobodyElse ==
  ASSUME IInv, Kept, RowsCounted, RoundBegins, pc = "admit", batch = <<>>, running = {}
  PROVE  /\ pending # <<>> /\ Len(batch) < Len(pending) /\ budget > 0 /\ reserved = 0
         /\ ~ req[Current].chunked => Live = {} /\ Len(rows) = MaxRunning /\ rows # <<>>
<1>1. Typed /\ ListsOK /\ Admitting
  BY DEF IInv, Admitting
<1>2. pending # <<>> /\ budget > 0 /\ reserved = 0
  BY <1>1 DEF RoundBegins, Runnable
<1>3. Len(batch) = 0 /\ Len(pending) \in Nat /\ Len(pending) # 0
  BY <1>1, <1>2, EmptySeq, LenProperties DEF Typed
<1>4. Current = pending[1]
  BY <1>3 DEF Current
<1>5. ASSUME ~ req[Current].chunked
      PROVE  Live = {} /\ Len(rows) = MaxRunning /\ rows # <<>>
  <2>1. ASSUME NEW r \in Live PROVE FALSE
    <3>1. CASE req[r].chunked
      BY <1>4, <1>5, <3>1 DEF Kept, ChunkKept
    <3>2. CASE ~ req[r].chunked
      <4>1. ~ InTheBatch(r)
        BY <1>3 DEF InTheBatch
      <4> QED BY <3>2, <4>1 DEF Kept, WholeKept
    <3> QED BY <3>1, <3>2
  <2>2. Live = {}
    BY <2>1
  <2>3. Cardinality(Live) = 0 /\ Len(rows) \in Nat
    BY <1>1, <2>2, FS_EmptySet, LenProperties DEF Typed
  <2>4. Len(rows) = MaxRunning /\ MaxRunning # 0
    BY <2>3, SizeAssumption DEF RowsCounted
  <2>5. rows # <<>>
    BY <2>4, EmptySeq
  <2> QED BY <2>2, <2>4, <2>5
<1> QED BY <1>2, <1>3, <1>5

(* Then all pages are free or evictable, but for those of the prefix that is *)
(* about to be locked, and the request that is next fits.                    *)
LEMMA FirstFits ==
  ASSUME IInv, LocksInv, Numbers, Kept, RowsCounted, Counted(tree), Conserved, RoundBegins,
         MaxSeqLen <= NumPages, pc = "admit", batch = <<>>, running = {}, ~ req[Current].chunked,
         NEW h \in Seq(Vocab), NEW walked, h = MatchedHandle(LookupIds(Current)),
         walked = MatchedTree(LookupIds(Current))
  PROVE  Fits(Current, h, walked, Lock(walked, h))
<1>1. Typed /\ ListsOK /\ LengthsOK /\ Admitting
  BY DEF IInv, Admitting
<1>2. Len(batch) < Len(pending) /\ reserved = 0 /\ Live = {}
  BY NobodyElse
<1>3. PICK r \in Reqs : r = Current /\ req[r].stage = "pending"
  BY <1>1, <1>2, CurrentWaits DEF Waiting
<1>4. LookupIds(r) \in Seq(Vocab)
  BY <1>1, LookupFacts
<1>5. /\ IsTree(walked, Vocab, Pages, Slots) /\ h \in walked.nodes
      /\ \A L, H : CountsLocks(tree, L, H) => CountsLocks(walked, L, H)
  BY <1>1, <1>3, <1>4, MatchFacts
<1>6. /\ Counted(walked)
      /\ walked.evictable = tree.evictable /\ walked.protected = tree.protected
  BY <1>1, <1>3, <1>4, MatchCounters
<1>7. CountsLocks(walked, {}, Handles)
  <2>1. Locked = {}
    BY <1>2, LockedReqs, InvSettled
  <2> QED BY <1>5, <2>1 DEF LocksInv
<1>8. ASSUME NEW n \in Inner(walked) PROVE walked.ref[n] = 0
  <2>1. {q \in {} : IsPrefix(n, Handles[q])} = {}
    OBVIOUS
  <2> QED BY <1>7, <2>1, FS_EmptySet DEF CountsLocks, Inner
<1> DEFINE locked == Lock(walked, h)
<1>9. /\ locked.nodes = walked.nodes
      /\ \A n \in walked.nodes : locked.ref[n] = IF n \in Chain(walked, h) THEN walked.ref[n] + 1
                                                 ELSE walked.ref[n]
  BY <1>5, LockFields
<1>10. Counted(locked) /\ locked.evictable + locked.protected = walked.evictable + walked.protected
  BY <1>5, <1>6, LockCounted
<1>11. IsTree(locked, Vocab, Pages, Slots)
  BY <1>5, LockResult
<1> HIDE DEF locked
<1>12. walked.protected = 0
  <2>1. Held(walked) = {}
    BY <1>8 DEF Held
  <2>2. TotalLength(walked, {}) = 0
    <3> DEFINE f == [n \in {} |-> Length(walked, n)]
    <3>1. DOMAIN f = {}
      OBVIOUS
    <3> HIDE DEF f
    <3>2. Total(f) = 0
      BY <3>1, TotalEmpty
    <3> QED BY <3>2 DEF f, TotalLength
  <2> QED BY <1>6, <2>1, <2>2 DEF Counted
<1>13. locked.protected <= Len(h)
  <2>1. IsFiniteSet(Held(locked)) /\ Held(locked) \subseteq Inner(locked)
    BY <1>10, <1>11, CountedFacts
  <2>2. \A n \in Held(locked) : IsPrefix(n, h)
    BY <1>8, <1>9 DEF Held, Inner, Chain
  <2>3. TotalLength(locked, Held(locked)) <= Len(h)
    BY <1>11, <2>1, <2>2, LengthsOnPath
  <2> QED BY <1>10, <2>3 DEF Counted
<1>14. PICK e \in Nat, w \in Nat, p \in Nat, F \in Nat, m \in Nat, max \in Int, N \in Nat :
         /\ e = locked.evictable /\ w = walked.evictable /\ p = locked.protected
         /\ F = Len(freePages) /\ m = Len(h) /\ max = MaxSeqLen /\ N = NumPages
  <2>1. locked.evictable \in Nat /\ locked.protected \in Nat /\ walked.evictable \in Nat
    BY <1>5, <1>6, <1>10, <1>11, CountedFacts
  <2>2. Len(freePages) \in Nat /\ Len(h) \in Nat
    BY <1>1, LenProperties DEF Typed
  <2> QED BY <2>1, <2>2, Sizes
<1>15. w + F = N
  <2>1. SumOf(OwnLen, Live) = 0
    BY <1>2, SumNone
  <2>2. Available(tree) = w + F /\ tree.protected = 0
    BY <1>6, <1>12, <1>14 DEF Available
  <2> QED BY <1>14, <2>1, <2>2 DEF Conserved
<1>16. e + p = w /\ p <= m
  BY <1>10, <1>12, <1>13, <1>14
<1>17. PICK l \in Nat, o \in Nat : l = InputLen(r) /\ o = req[r].output /\ l + o <= max
  <2>1. Sized(req[r])
    BY <1>3 DEF Numbers, AcceptedSizes
  <2>2. Len(req[r].prompt) \in Nat /\ req[r].output \in Nat
    BY <1>1, ReqFields DEF Typed
  <2> QED BY <1>14, <2>1, <2>2 DEF Sized, InputLen
<1>18. Demand(r, h) = l - m + o
  <2>1. Demand(r, h) = l - m + o + 0
    BY <1>2, <1>14, <1>17 DEF Demand
  <2> QED BY <2>1
<1>19. l - m + o <= w + F /\ l - m + o <= e + F
  <2>1. l + o <= N
    <3>1. max <= N
      BY <1>14
    <3> QED BY <1>17, <3>1
  <2> QED BY <1>15, <1>16, <2>1
<1>20. Available(walked) = w + F /\ Available(locked) = e + F
  BY <1>14 DEF Available
<1> QED BY <1>3, <1>18, <1>19, <1>20 DEF Fits, locked

(* A loop iteration that finds work to do builds a batch.  With a sequence   *)
(* that may be longer than there are pages it does not, and with fewer slots *)
(* than requests that run it may wait for one.                               *)
THEOREM WorkGetsBatch ==
  ASSUME MaxSeqLen <= NumPages,
         CacheType = "hybrid" => IsFiniteSet(Slots) /\ Cardinality(Slots) > MaxRunning
  PROVE  Spec => WorkBuildsBatch
<1>1. ASSUME IInv, LocksInv, Numbers, Kept, RowsCounted, Counted(tree), Conserved, RoundBegins,
             NeverStarved, [Next]_vars, pc \in {"admit", "slot"}, pc' = "recv"
      PROVE  FALSE
  <2>1. StopAdmission \/ TryAllocate \/ Starved
    <3>1. ~ (StartStep \/ RunWhenIdle \/ ProcessMsg \/ \E r \in Reqs : Submit(r))
      BY <1>1 DEF StartStep, RunWhenIdle, ProcessMsg, Submit
    <3>2. ~ (ContinueChunk \/ AdmitWithoutSlot \/ AdmitWithFreeSlot \/ AdmitWithShedSlot)
      BY <1>1, JoinFacts
    <3>3. ~ (EvictForPages \/ PrepareReq \/ EndPrepare \/ Forward \/ Output \/ Cleanup \/ EndStep)
      BY <1>1 DEF EvictForPages, PrepareReq, EndPrepare, Forward, Output, Cleanup, EndStep
    <3>4. ~ (EvictForSlot \/ UNCHANGED vars)
      BY <1>1 DEF EvictForSlot, vars
    <3> QED BY <1>1, <3>1, <3>2, <3>3, <3>4 DEF Next, Step, Select
  <2>2. ~ Starved
    BY <1>1 DEF NeverStarved, Starved
  <2>3. pc = "admit" /\ batch = <<>> /\ running = {}
    BY <1>1, <2>1, <2>2 DEF StopAdmission, TryAllocate, SelectBatch
  <2>4. /\ Len(batch) < Len(pending) /\ budget > 0
        /\ ~ req[Current].chunked => rows # <<>>
    BY <1>1, <2>3, NobodyElse
  <2>5. ~ StopAdmission
    <3>1. Len(batch) # Len(pending) /\ budget # 0
      BY <1>1, <2>4, Members DEF IInv, Typed
    <3> QED BY <2>4, <3>1 DEF StopAdmission
  <2>6. TryAllocate /\ ~ req[Current].chunked
    BY <2>1, <2>2, <2>5 DEF TryAllocate
  <2>7. MatchedHandle(LookupIds(Current)) \in Seq(Vocab)
    BY <1>1, <2>6, TryAllocateFacts
  <2>8. Fits(Current, MatchedHandle(LookupIds(Current)), MatchedTree(LookupIds(Current)),
             Lock(MatchedTree(LookupIds(Current)), MatchedHandle(LookupIds(Current))))
    BY <1>1, <2>3, <2>6, <2>7, FirstFits
  <2> QED BY <1>1, <2>6, <2>8 DEF TryAllocate
<1>2. /\ IInv /\ LocksInv /\ Numbers /\ Kept /\ RowsCounted /\ Counted(tree) /\ Conserved
      /\ RoundBegins /\ NeverStarved /\ [Next]_vars
      => [(pc \in {"admit", "slot"}) => (pc' # "recv")]_vars
  BY <1>1
<1>3. Spec => []NeverStarved
  BY SlotsSuffice
<1> QED BY <1>2, <1>3, Inductive, AlwaysLocks, AlwaysNumbers, AlwaysKept, AlwaysCounted,
           AlwaysCounters, Integrity, AlwaysRound, PTL DEF Spec, WorkBuildsBatch
=============================================================================
