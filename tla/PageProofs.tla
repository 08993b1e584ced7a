------------------------------ MODULE PageProofs ------------------------------
(***************************************************************************)
(* The pages of the KV cache, for any number of pages and requests.  First *)
(* who owns them: every page is in the free list, in the prefix cache, or  *)
(* in the row of one request, once.  Then what they hold: every position   *)
(* that a request or the prefix cache has behind it is in a page with the  *)
(* K/V of just that prefix, and every slot is at the prefix its owner      *)
(* stands for.  With these, every variable has its type.                   *)
(***************************************************************************)
EXTENDS SchedulerProofs

-----------------------------------------------------------------------------
(* Rows and pages.                                                          *)

(* The run of a batch: its rows grow, then the lengths follow.               *)
LEMMA BatchRows ==
  ASSUME IInv, RowsSettled, PrepareReq \/ EndPrepare \/ Forward \/ Output
  PROVE  RowsSettled'
<1>1. req \in [Reqs -> ReqRecord] /\ ListsOK
  BY DEF IInv, Typed
<1>2. CASE PrepareReq
  BY <1>2, PrepareTakes, InvSettled, TakeRows
<1>3. CASE EndPrepare
  <2>1. pc = "alloc" /\ pc' = "forward" /\ prepared = Len(batch) /\ batch' = batch /\ req' = req
    BY <1>3 DEF EndPrepare, lists
  <2> QED BY <2>1, TakenRows
<1>4. CASE Forward
  <2>1. /\ pc = "forward" /\ pc' = "output" /\ batch' = batch
        /\ InBatch = {batch[i] : i \in 1..Len(batch)}
        /\ \A r \in Reqs \ InBatch : req'[r] = req[r]
    BY <1>4, ForwardFacts
  <2>2. \A r \in InBatch : RowFull(r)'
    BY <1>4, ForwardFacts DEF RowFull
  <2>3. \A r \in Live' \ InBatch : RowFull(r)'
    BY <2>1 DEF RowsSettled, RowFull, Live
  <2> QED BY <2>1, <2>2, <2>3 DEF RowsSettled
<1>5. CASE Output
  <2>1. /\ pc = "output" /\ pc' = "cleanup"
        /\ \A r \in Reqs : /\ req'[r].cached = req[r].cached /\ req'[r].stage = req[r].stage
                           /\ req'[r].row = req[r].row
    BY <1>5, OutputFacts
  <2>2. \A r \in Live' : r \in Live /\ RowFull(r)'
    BY <2>1 DEF RowsSettled, RowFull, Live
  <2> QED BY <2>1, <2>2 DEF RowsSettled
<1> QED BY <1>2, <1>3, <1>4, <1>5

LEMMA NextKeepsRows == IInv /\ RowsSettled /\ [Next]_vars => RowsSettled'
<1> SUFFICES ASSUME IInv, RowsSettled, [Next]_vars PROVE RowsSettled'
  OBVIOUS
<1>1. CASE EvictForPages
  BY <1>1, EvictForPagesEvicts, EvictRows
<1>2. CASE UNCHANGED vars
  BY <1>2 DEF vars, lists, adder, RowsSettled, RowFull, Live
<1> QED BY <1>1, <1>2, CoreRows, BatchRows, PlainSteps

LEMMA AlwaysRows == Spec => []RowsSettled
BY InitRows, NextKeepsRows, Inductive, PTL DEF Spec

LEMMA BatchPages ==
  ASSUME IInv, PagesInv, Forward \/ Output
  PROVE  PagesInv'
BY BatchSame, PagesStay

LEMMA NextKeepsPages ==
  IInv /\ RowsSettled /\ LocksInv /\ HandlesFit /\ PagesInv /\ [Next]_vars => PagesInv'
<1> SUFFICES ASSUME IInv, RowsSettled, LocksInv, HandlesFit, PagesInv, [Next]_vars
             PROVE  PagesInv'
  OBVIOUS
<1>1. CASE PrepareReq
  BY <1>1, PrepareTakes, InvSettled, TakenPages
<1>2. CASE Forward \/ Output
  BY <1>2, BatchPages
<1>3. CASE EndPrepare \/ UNCHANGED vars
  BY <1>3, OtherIdles, IdlePages
<1>4. CASE EvictForPages
  BY <1>4, EvictForPagesEvicts, InvSettled, EvictPages
<1> QED BY <1>1, <1>2, <1>3, <1>4, CorePages, PlainSteps

LEMMA AlwaysPages == Spec => []PagesInv
BY InitPages, NextKeepsPages, Inductive, AlwaysRows, AlwaysLocks, AlwaysHandles, PTL DEF Spec

(* Every page of the KV cache is in the free list, in the prefix cache, or in *)
(* the part of one live request's row that did not come from the cache; it is *)
(* in one of these, once.                                                    *)
THEOREM PagesOwned == Spec => []PageOwnership
<1>1. IInv /\ PagesInv => PageOwnership
  BY OneOwner, InvSettled
<1> QED BY <1>1, AlwaysPages, Inductive, PTL

(* A sampled token goes behind what is there.                                *)
LEMMA OutputBehind ==
  ASSUME IInv, Output
  PROVE  \A r \in Live' :
           /\ r \in Live /\ req'[r].cached = req[r].cached
           /\ req'[r].row = req[r].row /\ req'[r].slot = req[r].slot
           /\ \A i \in 0..req[r].cached : SubSeq(req'[r].ids, 1, i) = SubSeq(req[r].ids, 1, i)
<1>0. req \in [Reqs -> ReqRecord] /\ ReqLengths
  BY DEF IInv, Typed, LengthsOK
<1>1. \A r \in Reqs : /\ req'[r].cached = req[r].cached /\ req'[r].row = req[r].row
                      /\ req'[r].stage = req[r].stage /\ req'[r].slot = req[r].slot
  BY OutputFacts
<1>2. PICK next \in [Sampled -> Vocab] :
        \A r \in Sampled : req'[r].ids = Append(req[r].ids, next[r])
  BY OutputFacts
<1>3. \A r \in Reqs \ Sampled : req'[r].ids = req[r].ids
  BY OutputFacts
<1>4. \A r \in Live' : r \in Live /\ r \in Reqs
  BY <1>1 DEF Live
<1>5. ASSUME NEW r \in Live', r \in Sampled, NEW i \in 0..req[r].cached
      PROVE  SubSeq(req'[r].ids, 1, i) = SubSeq(req[r].ids, 1, i)
  <2>1. PICK v \in Vocab, ids \in Seq(Vocab), c \in Nat :
          v = next[r] /\ ids = req[r].ids /\ c = req[r].cached
    BY <1>0, <1>4, <1>5, ReqFields
  <2>2. Len(ids) \in Nat /\ c <= Len(ids) /\ req'[r].ids = Append(ids, v)
    BY <1>0, <1>2, <1>4, <1>5, <2>1, LenProperties DEF ReqLengths
  <2> DEFINE t == Append(ids, v)
  <2>3. t \in Seq(Vocab) /\ i \in 0..Len(ids)
    BY <2>1, <2>2
  <2>4. IsPrefix(ids, t)
    <3>1. IsPrefix(ids, ids)
      BY RootIsPrefix
    <3> QED BY <3>1, PrefixOfLonger
  <2> HIDE DEF t
  <2>5. SubSeq(ids, 1, i) = SubSeq(t, 1, i)
    BY <2>3, <2>4, SameStart
  <2> QED BY <2>1, <2>2, <2>5 DEF t
<1>6. ASSUME NEW r \in Live', NEW i \in 0..req[r].cached
      PROVE  SubSeq(req'[r].ids, 1, i) = SubSeq(req[r].ids, 1, i)
  BY <1>3, <1>4, <1>5, <1>6
<1>7. \A r \in Live' :
        /\ r \in Live /\ req'[r].cached = req[r].cached
        /\ req'[r].row = req[r].row /\ req'[r].slot = req[r].slot
  BY <1>1, <1>4
<1> QED BY <1>6, <1>7

(* The model writes each token's K/V to the page of its position, which no   *)
(* other token of any request, nor any cached prefix, shares.                *)
LEMMA ForwardContents ==
  ASSUME IInv, HandlesFit, Pinned, PagesInv, Contents(kv), Forward
  PROVE  Contents(kv)'
<1>1. /\ req \in [Reqs -> ReqRecord] /\ tree' = tree /\ ReqLengths
      /\ IsTree(tree, Vocab, Pages, Slots)
  BY ForwardFacts DEF IInv, Typed, LengthsOK
<1>2. /\ InBatch \subseteq Live /\ Live \subseteq Reqs
      /\ \A r \in Reqs \ InBatch : req'[r] = req[r]
  BY ForwardFacts DEF Live
<1>3. \A r \in InBatch :
        /\ req[r].device = Len(req[r].row) /\ req'[r].cached = req[r].device
        /\ req'[r].stage = "live" /\ req'[r].ids = req[r].ids /\ req'[r].row = req[r].row
  BY ForwardFacts
<1>4. Live' = Live
  BY <1>2, <1>3 DEF Live
<1>5. kv' = [p \in Pages |->
               IF Written(p) = {} THEN kv[p]
               ELSE LET w == CHOOSE w \in Written(p) : TRUE
                    IN SubSeq(req[w[1]].ids, 1, w[2])]
  BY DEF Forward
<1>6. RowsOnce(Live, RowOf, SharedOf) /\ TreeNotRow(tree.page, Live, RowOf, SharedOf)
  BY DEF PagesInv, OwnedOnce
(* What is written lies behind the handle.                                   *)
<1>7. ASSUME NEW p, NEW w \in Written(p)
      PROVE  \E r \in InBatch, i \in Nat :
               /\ w = <<r, i>> /\ i > req[r].cached /\ i \in Own(r, RowOf, SharedOf)
               /\ RowOf[r][i] = p
  <2>1. PICK r \in InBatch :
          w \in {r} \X {i \in req[r].cached + 1 .. req[r].device : req[r].row[i] = p}
    BY <1>7 DEF Written
  <2>2. PICK i \in req[r].cached + 1 .. req[r].device : w = <<r, i>> /\ req[r].row[i] = p
    BY <2>1
  <2>3. PICK c \in Nat, d \in Nat, b \in Nat :
          /\ c = req[r].cached /\ d = req[r].device /\ b = Len(req[r].handle)
          /\ d = Len(req[r].row)
    BY <1>1, <1>2, <1>3, ReqFields
  <2>4. b <= c
    BY <1>2, <2>3 DEF HandlesFit, HandleFits
  <2>5. i \in c + 1 .. d
    BY <2>2, <2>3
  <2>6. i \in Nat /\ i > c /\ i \in b + 1 .. d
    BY <2>4, <2>5
  <2>7. i \in Own(r, RowOf, SharedOf) /\ RowOf[r][i] = p
    BY <1>2, <2>2, <2>3, <2>6 DEF Own, RowOf, SharedOf
  <2> QED BY <2>2, <2>3, <2>6, <2>7
<1>8. ASSUME NEW p \in DOMAIN tree.page PROVE Written(tree.page[p]) = {}
  <2>1. ASSUME NEW w \in Written(tree.page[p]) PROVE FALSE
    <3>1. PICK r \in InBatch : \E i \in Own(r, RowOf, SharedOf) : RowOf[r][i] = tree.page[p]
      BY <1>7, <2>1
    <3> QED BY <1>2, <1>6, <3>1 DEF TreeNotRow
  <2> QED BY <2>1
<1>9. TreeHolds(tree', kv')
  <2> SUFFICES ASSUME NEW p \in DOMAIN tree.page PROVE kv'[tree.page[p]] = p
    BY <1>1 DEF TreeHolds
  <2>1. tree.page[p] \in Pages
    BY <1>1 DEF IsTree
  <2> QED BY <1>5, <1>8, <2>1 DEF Contents, TreeHolds
<1>10. ASSUME NEW r \in Live, NEW i \in 1..req[r].cached
       PROVE  Written(req[r].row[i]) = {}
  <2>1. PICK c \in Nat, b \in Nat, e \in Nat :
          /\ c = req[r].cached /\ b = Len(req[r].handle) /\ e = Len(req[r].row)
          /\ c <= e
    BY <1>1, <1>2, ReqFields DEF ReqLengths
  <2>2. CASE i <= b
    <3>1. i \in 1..b /\ r \in Locked
      BY <2>1, <2>2 DEF Locked
    <3>2. PICK p \in DOMAIN tree.page : tree.page[p] = req[r].row[i]
      BY <2>1, <3>1 DEF Pinned, Points
    <3> QED BY <1>8, <3>2
  <2>3. CASE ~ (i <= b)
    <3>1. i \in b + 1 .. e /\ i <= c
      BY <2>1, <2>3
    <3>2. i \in Own(r, RowOf, SharedOf) /\ RowOf[r][i] = req[r].row[i]
      BY <1>2, <2>1, <3>1 DEF Own, RowOf, SharedOf
    <3>3. ASSUME NEW w \in Written(req[r].row[i]) PROVE FALSE
      <4>1. PICK s \in InBatch, j \in Nat :
              /\ j > req[s].cached /\ j \in Own(s, RowOf, SharedOf)
              /\ RowOf[s][j] = req[r].row[i]
        BY <1>7, <3>3
      <4>2. s = r /\ j = i
        BY <1>2, <1>6, <3>2, <4>1 DEF RowsOnce
      <4> QED BY <2>1, <3>1, <4>1, <4>2
    <3> QED BY <3>3
  <2> QED BY <2>2, <2>3
<1>11. ASSUME NEW r \in Live, NEW i \in 1..req[r].cached
       PROVE  kv'[req[r].row[i]] = SubSeq(req[r].ids, 1, i)
  <2>1. req[r].row[i] \in Pages
    <3>1. PICK row \in Seq(Pages), c \in Nat : row = req[r].row /\ c = req[r].cached
      BY <1>1, <1>2, ReqFields
    <3>2. c <= Len(row) /\ Len(row) \in Nat
      BY <1>1, <1>2, <3>1, LenProperties DEF ReqLengths
    <3>3. i \in 1..Len(row)
      BY <3>1, <3>2
    <3> QED BY <3>1, <3>3
  <2>2. Written(req[r].row[i]) = {}
    BY <1>10
  <2>3. kv[req[r].row[i]] = SubSeq(req[r].ids, 1, i)
    BY DEF Contents, RowHolds
  <2> QED BY <1>5, <2>1, <2>2, <2>3
<1>12. ASSUME NEW r \in InBatch, NEW i \in req[r].cached + 1 .. req[r].device
       PROVE  kv'[req[r].row[i]] = SubSeq(req[r].ids, 1, i)
  <2>1. PICK c \in Nat, d \in Nat, row \in Seq(Pages) :
          c = req[r].cached /\ d = req[r].device /\ row = req[r].row /\ d = Len(row)
    BY <1>1, <1>2, <1>3, ReqFields
  <2>2. i \in c + 1 .. d /\ i \in 1..d /\ i \in Nat
    BY <2>1
  <2>3. row[i] \in Pages
    BY <2>1, <2>2
  <2> DEFINE p == row[i]
  <2>4. <<r, i>> \in Written(p)
    <3> DEFINE At(s) == {j \in req[s].cached + 1 .. req[s].device : req[s].row[j] = p}
    <3>1. <<r, i>> \in {r} \X At(r)
      BY <2>1
    <3> HIDE DEF At
    <3>2. <<r, i>> \in UNION {{s} \X At(s) : s \in InBatch}
      BY <3>1
    <3> QED BY <3>2 DEF Written, At
  <2>5. ASSUME NEW w \in Written(p) PROVE w = <<r, i>>
    <3>1. PICK s \in InBatch, j \in Nat :
            w = <<s, j>> /\ j \in Own(s, RowOf, SharedOf) /\ RowOf[s][j] = p
      BY <1>7, <2>5
    <3>2. PICK s2 \in InBatch, i2 \in Nat :
            <<r, i>> = <<s2, i2>> /\ i2 \in Own(s2, RowOf, SharedOf) /\ RowOf[s2][i2] = p
      BY <1>7, <2>4
    <3>3. s = s2 /\ j = i2
      BY <1>2, <1>6, <3>1, <3>2 DEF RowsOnce
    <3> QED BY <3>1, <3>2, <3>3
  <2> HIDE DEF p
  <2>6. (CHOOSE w \in Written(p) : TRUE) = <<r, i>> /\ Written(p) # {}
    BY <2>4, <2>5
  <2>7. kv'[p] = SubSeq(req[r].ids, 1, i)
    <3>1. p \in Pages
      BY <2>3 DEF p
    <3> DEFINE W == CHOOSE w \in Written(p) : TRUE
    <3>2. kv'[p] = SubSeq(req[W[1]].ids, 1, W[2])
      BY <1>5, <2>6, <3>1
    <3>3. W = <<r, i>>
      BY <2>6
    <3> HIDE DEF W
    <3> QED BY <3>2, <3>3
  <2> QED BY <2>1, <2>7 DEF p
<1>13. ASSUME NEW r \in Live PROVE RowHolds(req'[r], kv')
  <2>1. CASE r \in InBatch
    <3>1. PICK c \in Nat, d \in Nat : c = req[r].cached /\ d = req[r].device
      BY <1>1, <1>2, ReqFields
    <3>2. \A i \in 1..d : i \in 1..c \/ i \in c + 1 .. d
      BY <3>1
    <3>3. \A i \in 1..d : kv'[req[r].row[i]] = SubSeq(req[r].ids, 1, i)
      BY <1>11, <1>12, <2>1, <3>1, <3>2
    <3> QED BY <1>3, <2>1, <3>1, <3>3 DEF RowHolds
  <2>2. CASE r \notin InBatch
    BY <1>2, <1>11, <2>2 DEF RowHolds
  <2> QED BY <2>1, <2>2
<1> QED BY <1>4, <1>9, <1>13 DEF Contents

(* Steps that write no page, each one of them.                               *)
LEMMA WritelessContents ==
  ASSUME NEW f, IInv, HandlesFit, Pinned, Contents(f), [Next]_vars, ~ Forward
  PROVE  Contents(f)'
<1>1. CASE PrepareReq
  BY <1>1, PrepareTakes, InvSettled, TakenContents
<1>2. CASE Output
  <2>1. tree' = tree /\ Typed
    BY <1>2, OutputFacts DEF IInv
  <2> QED BY <1>2, <2>1, OutputBehind, GrowContents
<1>3. CASE EndPrepare \/ UNCHANGED vars
  BY <1>3, OtherIdles, IdleContents
<1>4. CASE EvictForPages
  BY <1>4, EvictForPagesEvicts, InvSettled, EvictContents
<1> QED BY <1>1, <1>2, <1>3, <1>4, CoreContents, PlainSteps

LEMMA NextKeepsContents ==
  ASSUME IInv, HandlesFit, Pinned, PagesInv, Contents(kv), [Next]_vars
  PROVE  Contents(kv)'
<1>1. CASE Forward
  BY <1>1, ForwardContents
<1>2. CASE ~ Forward
  <2>1. kv' = kv
    <3>1. CASE CoreStep
      BY <3>1 DEF CoreStep, Select, Submit, ProcessMsg, StartStep, StopAdmission, ContinueChunk,
         TryAllocate, AdmitWithoutSlot, AdmitWithFreeSlot, EvictForSlot, AdmitWithShedSlot, Starved,
         Admit, Cleanup, EndStep, RunWhenIdle, vars, data
    <3>2. CASE PrepareReq \/ EndPrepare \/ EvictForPages \/ Output \/ UNCHANGED vars
      BY <3>2 DEF PrepareReq, EndPrepare, EvictForPages, Output, vars, data
    <3> QED BY <1>2, <3>1, <3>2, PlainSteps
  <2>2. PICK f : f = kv /\ f = kv'
    BY <2>1
  <2>3. Contents(f)'
    BY <1>2, <2>2, WritelessContents
  <2> QED BY <2>2, <2>3 DEF Contents
<1> QED BY <1>1, <1>2

(* Attention reads the right K/V, whatever was shared, split, evicted, or    *)
(* handed on before: each position behind a live request, and each prefix in *)
(* the cache, is in a page that holds exactly it.                            *)
THEOREM ContextExact == Spec /\ [][RowAssigned]_vars => []ContextCorrect
<1>1. IInv /\ HandlesFit /\ Pinned /\ PagesInv /\ Contents(kv) /\ [Next]_vars => Contents(kv)'
  BY NextKeepsContents
<1>2. Init => Contents(kv)
  BY InitContents
<1> QED BY <1>1, <1>2, ContentsAreContext, Inductive, AlwaysHandles, AlwaysPinned,
           AlwaysPages, PTL DEF Spec

(* With --cache-type naive that is so of the code as it is, whatever mlx     *)
(* does when a slice is assigned to.                                         *)
THEOREM NaiveContextExact ==
  ASSUME CacheType = "naive"
  PROVE  Spec => []ContextCorrect
BY AlwaysAssigned, ContextExact, PTL

(* The model folds the tokens of each request into the state in its slot.    *)
LEMMA ForwardStates ==
  ASSUME IInv, SlotOwnership, States, Forward
  PROVE  States'
<1>1. /\ req \in [Reqs -> ReqRecord] /\ tree' = tree /\ pc' = "output" /\ ReqLengths
      /\ IsTree(tree, Vocab, Pages, Slots)
  BY ForwardFacts DEF IInv, Typed, LengthsOK
<1>2. /\ InBatch \subseteq Live /\ Live \subseteq Reqs
      /\ \A r \in Reqs \ InBatch : req'[r] = req[r]
  BY ForwardFacts DEF Live
<1>3. \A r \in InBatch :
        /\ req[r].device = Len(req[r].ids) /\ req'[r].cached = req[r].device
        /\ req'[r].stage = "live" /\ req'[r].ids = req[r].ids /\ req'[r].slot = req[r].slot
  BY ForwardFacts
<1>4. Live' = Live
  BY <1>2, <1>3 DEF Live
<1>5. state' = [s \in Slots |->
                  IF \A r \in InBatch : req[r].slot # s THEN state[s]
                  ELSE LET r == CHOOSE r \in InBatch : req[r].slot = s
                       IN state[s] \o SubSeq(req[r].ids, req[r].cached + 1, req[r].device)]
  BY DEF Forward
<1>6. ASSUME NEW r \in InBatch
      PROVE  /\ SubSeq(req[r].ids, req[r].cached + 1, req[r].device) \in Seq(Vocab)
             /\ SubSeq(req[r].ids, 1, req[r].cached)
                  \o SubSeq(req[r].ids, req[r].cached + 1, req[r].device)
                  = SubSeq(req[r].ids, 1, req[r].device)
  <2>1. PICK ids \in Seq(Vocab), c \in Nat, d \in Nat :
          /\ ids = req[r].ids /\ c = req[r].cached /\ d = req[r].device
          /\ d = Len(ids) /\ c <= d
    BY <1>1, <1>2, <1>3, ReqFields DEF ReqLengths
  <2>2. d <= Len(ids) /\ Len(ids) \in Nat
    BY <2>1
  <2>3. /\ SubSeq(ids, c + 1, d) \in Seq(Vocab)
        /\ SubSeq(ids, 1, c) \o SubSeq(ids, c + 1, d) = SubSeq(ids, 1, d)
    BY <2>1, <2>2, Spliced
  <2> QED BY <2>1, <2>3
<1>7. state' \in [Slots -> Seq(Vocab)]
  <2> SUFFICES ASSUME NEW s \in Slots PROVE state'[s] \in Seq(Vocab)
    BY <1>5
  <2>1. state[s] \in Seq(Vocab)
    BY DEF States
  <2>2. CASE \A r \in InBatch : req[r].slot # s
    BY <1>5, <2>1, <2>2
  <2>3. CASE \E r \in InBatch : req[r].slot = s
    <3>1. PICK r \in InBatch : r = CHOOSE q \in InBatch : req[q].slot = s
      BY <2>3
    <3> DEFINE t == SubSeq(req[r].ids, req[r].cached + 1, req[r].device)
    <3>2. state'[s] = state[s] \o t
      BY <1>5, <2>3, <3>1
    <3>3. t \in Seq(Vocab)
      BY <1>6
    <3> HIDE DEF t
    <3> QED BY <2>1, <3>2, <3>3
  <2> QED BY <2>2, <2>3
<1>8. ASSUME CacheType = "hybrid", NEW r \in Live PROVE SlotHolds(req'[r], state')
  <2>1. SlotHolds(req[r], state)
    BY <1>8 DEF States
  <2>2. req[r].slot \in Slots /\ req[r].slot # None
    BY <1>1, <1>2, <2>1, ReqFields DEF SlotHolds
  <2>3. \A q \in Reqs \ {r} : req[q].slot # req[r].slot
    BY <1>2, <2>2 DEF SlotOwnership
  <2>4. CASE r \in InBatch
    <3> DEFINE s == req[r].slot
    <3>1. (CHOOSE q \in InBatch : req[q].slot = s) = r
      BY <1>2, <2>3, <2>4
    <3>2. state'[s] = state[s] \o SubSeq(req[r].ids, req[r].cached + 1, req[r].device)
      BY <1>5, <2>2, <2>4, <3>1
    <3>3. state[s] = SubSeq(req[r].ids, 1, req[r].cached)
      BY <2>1 DEF SlotHolds
    <3>4. state'[s] = SubSeq(req[r].ids, 1, req[r].device)
      BY <1>6, <2>4, <3>2, <3>3
    <3> HIDE DEF s
    <3> QED BY <1>3, <2>2, <2>4, <3>4 DEF SlotHolds, s
  <2>5. CASE r \notin InBatch
    <3>1. \A q \in InBatch : req[q].slot # req[r].slot
      BY <1>2, <2>3, <2>5
    <3>2. state'[req[r].slot] = state[req[r].slot]
      BY <1>5, <2>2, <3>1
    <3> QED BY <1>2, <2>1, <2>5, <3>2 DEF SlotHolds
  <2> QED BY <2>4, <2>5
<1>9. ASSUME CacheType = "hybrid" PROVE SnapsHold(tree', state')
  <2> SUFFICES ASSUME NEW n \in SnapshotNodes(tree) PROVE state'[tree.snap[n]] = n
    BY <1>1 DEF SnapsHold
  <2>1. tree.snap[n] # None /\ tree.snap[n] \in Slots /\ n \in tree.nodes
    BY <1>1 DEF IsTree, SnapshotNodes
  <2>2. \A q \in InBatch : req[q].slot # tree.snap[n]
    BY <1>2, <2>1 DEF SlotOwnership
  <2>3. state'[tree.snap[n]] = state[tree.snap[n]]
    BY <1>5, <2>1, <2>2
  <2>4. state[tree.snap[n]] = n
    BY <1>9 DEF States, SnapsHold
  <2> QED BY <2>3, <2>4
<1>10. ForkReady'
  BY <1>1 DEF ForkReady
<1> QED BY <1>4, <1>7, <1>8, <1>9, <1>10 DEF States

LEMMA OutputStates ==
  ASSUME IInv, States, Output
  PROVE  States'
<1>1. req \in [Reqs -> ReqRecord] /\ tree' = tree /\ state' = state /\ pc' # "slot"
  BY OutputFacts DEF IInv, Typed
<1>2. ASSUME NEW r \in Live'
      PROVE  /\ r \in Live /\ req'[r].cached = req[r].cached /\ req'[r].slot = req[r].slot
             /\ SubSeq(req'[r].ids, 1, req[r].cached) = SubSeq(req[r].ids, 1, req[r].cached)
  <2>1. /\ r \in Live /\ req'[r].cached = req[r].cached /\ req'[r].slot = req[r].slot
        /\ \A i \in 0..req[r].cached : SubSeq(req'[r].ids, 1, i) = SubSeq(req[r].ids, 1, i)
    BY OutputBehind
  <2>2. PICK c \in Nat : c = req[r].cached
    BY <1>1, <2>1, ReqFields DEF Live
  <2>3. c \in 0..c
    OBVIOUS
  <2> QED BY <2>1, <2>2, <2>3
<1> QED BY <1>1, <1>2, StatesStay

LEMMA NextKeepsStates ==
  ASSUME IInv, LocksInv, HandlesFit, SlotOwnership, States, [Next]_vars
  PROVE  States'
<1>1. CASE PrepareReq
  BY <1>1, PrepareTakes, InvSettled, TakenStates
<1>2. CASE EndPrepare \/ UNCHANGED vars
  BY <1>2, OtherIdles, IdleStates
<1>3. CASE EvictForPages
  BY <1>3, EvictForPagesEvicts, InvSettled, EvictStates
<1> QED BY <1>1, <1>2, <1>3, CoreStates, ForwardStates, OutputStates, PlainSteps

LEMMA AlwaysStates == Spec => []States
<1>1. IInv /\ LocksInv /\ HandlesFit /\ SlotOwnership /\ States /\ [Next]_vars => States'
  BY NextKeepsStates
<1> QED BY InitStates, <1>1, Inductive, AlwaysLocks, AlwaysHandles, SlotsOwned, PTL DEF Spec

(* The recurrence of a hybrid model goes on from the right state: a live     *)
(* request's slot is at just what is behind it, a snapshot at the end of its *)
(* node, and what a request is about to fork is still there.                 *)
THEOREM StatesExact == Spec => []StateCorrect
BY AlwaysStates, StatesAreCorrect, PTL

(* Every variable holds a value of its kind.                                 *)
THEOREM Types == Spec => []TypeOK
<1>1. ASSUME IInv, States PROVE TypeOK
  <2>1. Typed
    BY <1>1 DEF IInv
  <2>2. TreeTypeOK
    <3>1. IsTree(tree, Vocab, Pages, Slots)
      BY <2>1 DEF Typed
    <3>2. Range(tree.page) \subseteq Pages
      BY <3>1 DEF IsTree, Range
    <3> QED BY <3>1, <3>2 DEF IsTree, TreeTypeOK
  <2> QED BY <1>1, <2>1, <2>2 DEF Typed, States, TypeOK
<1>2. IInv /\ States => TypeOK
  BY <1>1
<1> QED BY <1>2, Inductive, AlwaysStates, PTL

===============================================================================
