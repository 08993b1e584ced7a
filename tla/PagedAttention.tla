---------------------------- MODULE PagedAttention ----------------------------
(***************************************************************************)
(* Paged attention: the metadata that AttnBackend builds for a batch, and  *)
(* the two kernels that read it.  A query attends to the pages of its      *)
(* sequence block by block, with a running softmax; in a decode batch the  *)
(* pages are split over threadgroups and a second kernel joins the parts.  *)
(*                                                                         *)
(* K/V are named by whose they are, <<sequence, position>>, and queries    *)
(* likewise, so that a wrong index shows.  A sum of exp2(s) * V is the     *)
(* sequence of its terms <<V, exponent>>: what is added twice, left out or *)
(* scaled wrongly shows too.  Dimensions inside a head are left out.       *)
(* The groups of a launch run one after the other here: they share nothing *)
(* but what they write, and whatever is written is appended, not replaced. *)
(***************************************************************************)
EXTENDS Integers, Sequences, SequencesExt, FiniteSets, FiniteSetsExt

CONSTANTS
  BlockN,        \* positions of a block, BLOCK_N = 32
  SimdRows,      \* queries of a simdgroup, ROWS_PER_SIMDGROUP = 16
  Simdgroups,    \* of a threadgroup, so that BLOCK_M = 64
  MinBlockKv,    \* MIN_BLOCK_KV = 32
  SplitLen,      \* positions a split is meant for, 128
  MaxKvSplits,   \* MAX_KV_SPLITS = 32
  QHeads, KvHeads,
  Launches,      \* [decode, seqs, cross, window], a sequence is [prefix, extend]
  PageTable(_, _),  \* the page for a position of a sequence
  Score(_, _)    \* of a query [id, head] and a key [id, head]

ASSUME AttentionAssumption ==
  /\ BlockN \in Nat \ {0} /\ BlockN % 2 = 0
  /\ {SimdRows, Simdgroups, MinBlockKv, SplitLen, MaxKvSplits, QHeads, KvHeads} \subseteq Nat \ {0}
  /\ QHeads % KvHeads = 0 /\ QHeads <= 16 * KvHeads
  /\ \A l \in Launches : l.decode => ~ l.cross /\ l.window = 0

VARIABLES
  launch,   \* the batch, or Idle
  kv_cache, \* whose K/V a page holds
  kernel,   \* what runs: prefill, stage1, stage2
  todo,     \* the groups that have not run
  running,  \* the next of them has begun
  block,    \* block_start of it; the split, in the second kernel
  acc,      \* [max, sum, o] of its rows
  scratch,  \* att_out, att_lse: what was stored for [seq, head, split]
  out       \* what was stored for [query, head]

attention_vars == <<launch, kv_cache, kernel, todo, running, block, acc, scratch, out>>

Idle == [idle |-> TRUE]
Smaller(a, b) == IF a < b THEN a ELSE b
Larger(a, b) == IF a > b THEN a ELSE b
CeilDiv(a, b) == (a + b - 1) \div b
Seqs == 0..Len(launch.seqs) - 1
Seq0(b) == launch.seqs[b + 1]

-----------------------------------------------------------------------------
(* build_prefill_metadata, build_decode_metadata. *)
KvLen(b) == Seq0(b).prefix + Seq0(b).extend
ExtendOf(b) == Seq0(b).extend

(* _build_indptr *)
Indptr(lens(_)) == [b \in 0..Len(launch.seqs) |-> MapThenSumSet(lens, {c \in Seqs : c < b})]
qo_indptr == Indptr(ExtendOf)
kv_indptr == Indptr(KvLen)

kv_indices == FlattenSeq([b \in 1..Len(launch.seqs) |->
                            [i \in 1..KvLen(b - 1) |-> PageTable(b - 1, i - 1)]])

(* Batch.out_loc, and the tokens of the batch as they lie in Q, K and V.     *)
out_loc == FlattenSeq([b \in 1..Len(launch.seqs) |->
                         [i \in 1..ExtendOf(b - 1) |-> PageTable(b - 1, Seq0(b - 1).prefix + i - 1)]])
NewKv == FlattenSeq([b \in 1..Len(launch.seqs) |->
                       [i \in 1..ExtendOf(b - 1) |-> <<b - 1, Seq0(b - 1).prefix + i - 1>>]])
Queries == FlattenSeq([b \in 1..Len(launch.seqs) |-> [i \in 1..ExtendOf(b - 1) |-> <<b - 1, i - 1>>]])

NumKvSplits(b) == Smaller(MaxKvSplits, Larger(1, CeilDiv(KvLen(b), SplitLen)))
NumQBlocks == CeilDiv(Max({ExtendOf(b) : b \in Seqs}), SimdRows * Simdgroups)

-----------------------------------------------------------------------------
(* The groups of a launch: threadgroups, and for prefill their simdgroups.   *)
GroupSize == QHeads \div KvHeads

DecodeGroups ==
  [seq : Seqs, kv_head : 0..KvHeads - 1, split : 0..MaxKvSplits - 1]
PrefillGroups ==
  [seq : Seqs, head : 0..QHeads - 1, block_m : 0..NumQBlocks - 1, simd : 0..Simdgroups - 1]
ReduceGroups == [seq : Seqs, head : 0..QHeads - 1]

LenPerSplit(b) == CeilDiv(CeilDiv(KvLen(b), NumKvSplits(b)), MinBlockKv) * MinBlockKv

SplitStart(b, split) == LenPerSplit(b) * split
SplitEnd(b, split) == Smaller(SplitStart(b, split) + LenPerSplit(b), KvLen(b))

QSimdStart(g) == (g.block_m * Simdgroups + g.simd) * SimdRows

(* The rows of a group: query heads of one token, or tokens of one head.     *)
ValidM(g) == IF launch.decode THEN GroupSize ELSE Smaller(SimdRows, ExtendOf(g.seq) - QSimdStart(g))

(* Where in Q and O a row is. *)
RowOf(g, row) ==
  IF launch.decode THEN [query |-> g.seq, head |-> g.kv_head * GroupSize + row]
  ELSE [query |-> qo_indptr[g.seq] + QSimdStart(g) + row, head |-> g.head]

KvHead(g) == IF launch.decode THEN g.kv_head ELSE g.head \div GroupSize

KvComputeLimit(g) ==
  IF launch.cross THEN KvLen(g.seq)
  ELSE Smaller(KvLen(g.seq), Seq0(g.seq).prefix + QSimdStart(g) + ValidM(g))

FirstBlock(g) == IF launch.decode THEN SplitStart(g.seq, g.split) ELSE 0
Limit(g) == IF launch.decode THEN SplitEnd(g.seq, g.split) ELSE KvComputeLimit(g)

(* Threadgroups and simdgroups with nothing to do return at once. *)
Returns(g) ==
  IF launch.decode THEN KvLen(g.seq) <= 0 \/ FirstBlock(g) >= Limit(g)
  ELSE QSimdStart(g) >= ExtendOf(g.seq)

-----------------------------------------------------------------------------
(* Column c of the block is column c % Half of fragment s0 or s1. *)
Half == BlockN \div 2
ValidN(g) == Smaller(BlockN, Limit(g) - block)
WithinLength(g, c) ==
  IF c < Half THEN c < Smaller(ValidN(g), Half) ELSE c - Half < Larger(0, ValidN(g) - Half)

(* apply_causal_mask *)
CausalMasks(g, row, c) ==
  LET pos == block + c
  IN pos >= Seq0(g.seq).prefix /\ QSimdStart(g) + row < pos - Seq0(g.seq).prefix

(* apply_attention_mask *)
AttentionMasks(g, row, c) ==
  LET q_pos == Seq0(g.seq).prefix + QSimdStart(g) + row
      kv_pos == block + c
  IN ~ /\ launch.cross \/ kv_pos <= q_pos
       /\ launch.window = 0 \/ kv_pos >= q_pos - launch.window + 1

(* A block that ends before the first row needs no causal mask. *)
NeedsCausalMask(g) == block + BlockN > Seq0(g.seq).prefix + QSimdStart(g)

Masked(g, row, c) ==
  \/ ~ (row < ValidM(g) /\ WithinLength(g, c))
  \/ /\ ~ launch.decode
     /\ IF launch.window > 0 THEN AttentionMasks(g, row, c)
        ELSE NeedsCausalMask(g) /\ ~ launch.cross /\ CausalMasks(g, row, c)

Key(g, c) == [id |-> kv_cache[kv_indices[kv_indptr[g.seq] + block + c + 1]], head |-> KvHead(g)]
Query(g, row) == [id |-> Queries[RowOf(g, row).query + 1], head |-> RowOf(g, row).head]

(* A key behind the end of the sequence is read as zero. *)
ScoreOf(g, row, c) == IF c < ValidN(g) THEN Score(Query(g, row), Key(g, c)) ELSE 0

-----------------------------------------------------------------------------
(* The running softmax: `max` has no element as long as it is -inf.          *)
Zero == [max |-> {}, sum |-> <<>>, o |-> <<>>]
The(S) == CHOOSE x \in S : TRUE

Factor(old, new) == IF old = {} THEN 0 ELSE The(old) - The(new)

Absorb(a, g, row) ==
  LET seen == SelectSeq([c \in 1..BlockN |-> c - 1], LAMBDA c : ~ Masked(g, row, c))
      max == IF seen = <<>> THEN a.max
             ELSE {Max(a.max \cup {ScoreOf(g, row, c) : c \in Range(seen)})}
      by == Factor(a.max, max)
      weight(c) == ScoreOf(g, row, c) - The(max)
      loaded == SelectSeq(seen, LAMBDA c : c < ValidN(g))
  IN [max |-> max,
      sum |-> [i \in 1..Len(a.sum) |-> a.sum[i] + by] \o [i \in 1..Len(seen) |-> weight(seen[i])],
      o |-> [i \in 1..Len(a.o) |-> <<a.o[i][1], a.o[i][2] + by>>]
              \o [i \in 1..Len(loaded) |-> <<Key(g, loaded[i]).id, weight(loaded[i])>>]]

-----------------------------------------------------------------------------
Current == CHOOSE g \in todo : TRUE
Reducing == kernel = "stage2"
Put0(f, k, v) == [x \in DOMAIN f \cup {k} |-> IF x = k THEN (IF k \in DOMAIN f THEN f[k] ELSE <<>>) \o <<v>> ELSE f[x]]

LaunchGroups == IF launch.decode THEN DecodeGroups ELSE PrefillGroups

AttentionIdle ==
  /\ launch = Idle /\ kv_cache = <<>> /\ kernel = "none" /\ todo = {} /\ running = FALSE /\ block = 0
  /\ acc = <<>> /\ scratch = <<>> /\ out = <<>>

Nothing == <<-1, -1>>

(* store_kv_cache: one thread a token. *)
Stored(cache) ==
  [p \in DOMAIN cache |->
     IF p \in Range(out_loc) THEN NewKv[CHOOSE r \in 1..Len(out_loc) : out_loc[r] = p] ELSE cache[p]]

(* A batch is launched, with its prefixes in the cache; its own K/V go there *)
(* first.                                                                    *)
CachedPrefixes ==
  LET all == UNION {{b} \X (0..KvLen(b) - 1) : b \in Seqs}
      page(x) == PageTable(x[1], x[2])
  IN [p \in {page(x) : x \in all} |->
        LET x == CHOOSE x \in all : page(x) = p
        IN IF x[2] < Seq0(x[1]).prefix THEN x ELSE Nothing]

Dispatch ==
  /\ launch = Idle
  /\ launch' \in Launches
  /\ kv_cache' = Stored(CachedPrefixes)'
  /\ kernel' = IF launch'.decode THEN "stage1" ELSE "prefill"
  /\ todo' = LaunchGroups'
  /\ UNCHANGED <<running, block, acc, scratch, out>>

(* The next of the groups begins, or returns. *)
Enter ==
  /\ todo # {} /\ ~ running /\ ~ Reducing
  /\ LET g == Current
     IN \/ /\ Returns(g)
           /\ todo' = todo \ {Current}
           /\ UNCHANGED <<running, block, acc>>
        \/ /\ ~ Returns(g)
           /\ running' = TRUE
           /\ block' = FirstBlock(g)
           /\ acc' = [row \in 0..ValidM(g) - 1 |-> Zero]
           /\ UNCHANGED todo
  /\ UNCHANGED <<launch, kv_cache, kernel, scratch, out>>

NextBlock ==
  /\ running /\ ~ Reducing
  /\ LET g == Current
     IN /\ block < Limit(g)
        /\ acc' = [row \in DOMAIN acc |-> Absorb(acc[row], g, row)]
        /\ block' = block + BlockN
  /\ UNCHANGED <<launch, kv_cache, kernel, todo, running, scratch, out>>

(* A row is normalised and stored; a split also stores its log-sum-exp.      *)
StoreRows ==
  /\ running /\ ~ Reducing
  /\ LET g == Current
         key(row) == IF launch.decode THEN [seq |-> g.seq, head |-> RowOf(g, row).head, split |-> g.split]
                     ELSE RowOf(g, row)
         stored(f) == FoldLeft(LAMBDA h, row : Put0(h, key(row), acc[row]), f, [i \in 1..ValidM(g) |-> i - 1])
     IN /\ block >= Limit(g)
        /\ IF launch.decode THEN scratch' = stored(scratch) /\ UNCHANGED out
           ELSE out' = stored(out) /\ UNCHANGED scratch
  /\ todo' = todo \ {Current}
  /\ running' = FALSE /\ acc' = <<>> /\ block' = 0
  /\ UNCHANGED <<launch, kv_cache, kernel>>

-----------------------------------------------------------------------------
(* Mutant: every split is read, whether the first kernel ran it or not. *)
ReadsAll(b, split) == split < NumKvSplits(b)

(* The loop of the second kernel goes on with this split. *)
Reads(b, split) == split < NumKvSplits(b) /\ SplitStart(b, split) < SplitEnd(b, split)

(* What is read where nothing was stored. *)
Garbage == [max |-> {0}, sum |-> <<0>>, o |-> <<>>]

(* A part weighs exp2(lse): its terms get back the maximum they were         *)
(* stored relative to.  The scale by the largest lse so far cancels.         *)
Joined(a, p) ==
  [max |-> {0},
   sum |-> a.sum \o [i \in 1..Len(p.sum) |-> p.sum[i] + The(p.max)],
   o |-> a.o \o [i \in 1..Len(p.o) |-> <<p.o[i][1], p.o[i][2] + The(p.max)>>]]

DispatchReduce ==
  /\ kernel = "stage1" /\ todo = {}
  /\ kernel' = "stage2"
  /\ todo' = ReduceGroups
  /\ UNCHANGED <<launch, kv_cache, running, block, acc, scratch, out>>

Reduce ==
  /\ Reducing /\ todo # {}
  /\ LET g == Current
         key == [seq |-> g.seq, head |-> g.head, split |-> block]
         part == IF key \in DOMAIN scratch THEN scratch[key][1] ELSE Garbage
     IN /\ Reads(g.seq, block)
        /\ acc' = Joined(IF running THEN acc ELSE Zero, part)
  /\ running' = TRUE /\ block' = block + 1
  /\ UNCHANGED <<launch, kv_cache, kernel, todo, scratch, out>>

Reduced ==
  /\ Reducing /\ running
  /\ LET g == Current
     IN /\ ~ Reads(g.seq, block)
        /\ out' = Put0(out, [query |-> g.seq, head |-> g.head], acc)
  /\ todo' = todo \ {Current}
  /\ running' = FALSE /\ acc' = <<>> /\ block' = 0
  /\ UNCHANGED <<launch, kv_cache, kernel, scratch>>

AttentionNext == Dispatch \/ Enter \/ NextBlock \/ StoreRows \/ DispatchReduce \/ Reduce \/ Reduced

-----------------------------------------------------------------------------
(* "The two flags compose, giving four masks": what a query attends to.      *)
Visible(b, i) ==
  LET q_pos == Seq0(b).prefix + i
  IN {p \in 0..KvLen(b) - 1 :
        (launch.cross \/ p <= q_pos) /\ (launch.window = 0 \/ p > q_pos - launch.window)}

(* a is exp2(s) * V summed over these positions, and over exp2(s).           *)
IsSoftmax(a, b, i, head, positions) ==
  /\ Len(a.o) = Cardinality(positions)
  /\ Range(a.o) = {<<<<b, p>>, Score([id |-> <<b, i>>, head |-> head],
                                    [id |-> <<b, p>>, head |-> head \div GroupSize]) - The(a.max)>> :
                     p \in positions}
  /\ a.sum = [k \in 1..Len(a.o) |-> a.o[k][2]]

(* When the kernels are done, there is one result for every query and head,  *)
(* the attention over just the positions its mask lets it see, each counted  *)
(* once, however they were cut into tiles, blocks and splits.                *)
AttentionExact ==
  kernel \in {"prefill", "stage2"} /\ todo = {} =>
    \A b \in Seqs, head \in 0..QHeads - 1 : \A i \in 0..ExtendOf(b) - 1 :
      LET stored == out[[query |-> MapThenSumSet(ExtendOf, 0..b - 1) + i, head |-> head]]
      IN Len(stored) = 1 /\ IsSoftmax(stored[1], b, i, head, Visible(b, i))
=============================================================================
