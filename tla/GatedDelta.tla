------------------------------ MODULE GatedDelta ------------------------------
(***************************************************************************)
(* What a linear-attention layer keeps in a slot of the pool: the window   *)
(* of its convolution and the recurrent state.  Modules SchedulerCore and  *)
(* SpecScheduler say of a slot only which prefix it stands for; here a     *)
(* batch moves the two on through ragged index arithmetic, and a verify    *)
(* run is rolled back by replaying what was accepted.                      *)
(*                                                                         *)
(* A token is what matters of an activation.  What the convolution makes   *)
(* of a token is the window of ConvLen tokens that ends with it; the       *)
(* recurrent state is the sequence of all that was absorbed.               *)
(***************************************************************************)
EXTENDS Integers, Sequences, SequencesExt, FiniteSets

CONSTANTS
  Owners,     \* whatever holds a slot: requests, and nodes of the radix tree
  PoolSlots,
  ConvLen,    \* linear_conv_kernel_dim
  Width,      \* W = K + 1 tokens are verified at once
  TokenAt(_, _),  \* what a sequence is run on at a position: all tokens differ
  Longest,    \* bound on the length of a sequence
  Steps       \* bound on the allocations and launches

ASSUME GatedDeltaAssumption ==
  /\ ConvLen \in Nat \ {0, 1} /\ Width \in Nat \ {0} /\ {Longest, Steps} \subseteq Nat
  /\ 0 \notin PoolSlots  \* None is no slot
  /\ IsFiniteSet(Owners)

VARIABLES
  conv,      \* conv_state: the last ConvLen - 1 tokens
  temporal,  \* temporal_state
  window,    \* conv_window: row j is the window after j + 1 tokens
  free,      \* _free_slots
  slot,      \* mamba_slot of a sequence, or None
  ids,       \* the tokens a sequence has been run on
  verify,    \* the batch between forward_verify and commit_verify, or <<>>
  steps      \* of the bound

gated_vars == <<conv, temporal, window, free, slot, ids, verify, steps>>

None == 0
StateLen == ConvLen - 1
Zeros == [i \in 1..StateLen |-> 0]
LastOf(s, n) == SubSeq(s, Len(s) - n + 1, Len(s))
Running == {x \in Owners : slot[x] # None}

GatedIdle ==
  /\ conv = [s \in PoolSlots |-> Zeros]
  /\ temporal = [s \in PoolSlots |-> <<>>]
  /\ window = [s \in PoolSlots |-> <<>>]
  /\ free = PoolSlots
  /\ slot = [x \in Owners |-> None]
  /\ ids = [x \in Owners |-> <<>>]
  /\ verify = <<>> /\ steps = 0

-----------------------------------------------------------------------------
Counted == steps < Steps /\ steps' = steps + 1

(* Mutant: a slot is handed out as it was left. *)
Dirty(f, s, zero) == f

(* _zero_slot *)
Zeroed(f, s, zero) == [f EXCEPT ![s] = zero]

Alloc(x) ==
  /\ Counted /\ verify = <<>> /\ slot[x] = None
  /\ \E s \in free :
       /\ slot' = [slot EXCEPT ![x] = s]
       /\ free' = free \ {s}
       /\ conv' = Zeroed(conv, s, Zeros)
       /\ temporal' = Zeroed(temporal, s, <<>>)
  /\ ids' = [ids EXCEPT ![x] = <<>>]
  /\ UNCHANGED <<window, verify>>

(* A sequence starts from the state of another one: alloc and copy. *)
Copy(x, y) ==
  /\ Counted /\ verify = <<>> /\ slot[x] = None /\ slot[y] # None
  /\ \E s \in free :
       /\ slot' = [slot EXCEPT ![x] = s]
       /\ free' = free \ {s}
       /\ conv' = [conv EXCEPT ![s] = conv[slot[y]]]
       /\ temporal' = [temporal EXCEPT ![s] = temporal[slot[y]]]
  /\ ids' = [ids EXCEPT ![x] = ids[y]]
  /\ UNCHANGED <<window, verify>>

Free(x) ==
  /\ verify = <<>> /\ slot[x] # None
  /\ free' = free \cup {slot[x]}
  /\ slot' = [slot EXCEPT ![x] = None]
  /\ ids' = [ids EXCEPT ![x] = <<>>]
  /\ UNCHANGED <<conv, temporal, window, verify, steps>>

-----------------------------------------------------------------------------
(* A batch: sequences in some order, each with the tokens it is run on.      *)
Entry(x, len) == <<x, [k \in 1..len |-> TokenAt(x, Len(ids[x]) + k)]>>

Batches(lens) ==
  LET entries == {Entry(x, len) : x \in Running, len \in lens}
  IN {b \in UNION {[1..n -> entries] : n \in 1..Cardinality(Running)} :
        \A i, j \in 1..Len(b) :
          /\ i # j => b[i][1] # b[j][1]
          /\ Len(ids[b[i][1]]) + Len(b[i][2]) <= Longest}

Flat(b) == FlattenSeq([i \in 1..Len(b) |-> b[i][2]])
SlotIds(b) == [i \in 1..Len(b) |-> slot[b[i][1]]]

(* Ragged offsets, from 0. *)
CumLen(lens) ==
  LET cum[i \in 0..Len(lens)] == IF i = 0 THEN 0 ELSE cum[i - 1] + lens[i]
  IN cum
Lens(b) == [i \in 1..Len(b) |-> Len(b[i][2])]

(* The convolution of the tokens from offset on, behind a state.             *)
ConvInput(state, flat, from, len) == state \o SubSeq(flat, from + 1, from + len)
ConvOut(input) == [k \in 1..Len(input) - StateLen |-> SubSeq(input, k, k + StateLen)]

(* The windows that a verify run leaves behind, one after each of its tokens. *)
ConvWindows(input) == [j \in 0..Width - 1 |-> SubSeq(input, j + 2, j + 1 + StateLen)]

(* The kernel: every entry of slot_ids advances its state over its tokens.   *)
GdnState(states, absorbed, slot_ids, indptr) ==
  [s \in PoolSlots |->
     IF s \notin Range(slot_ids) THEN states[s]
     ELSE LET b == CHOOSE b \in 1..Len(slot_ids) : slot_ids[b] = s
          IN states[s] \o SubSeq(absorbed, indptr[b - 1] + 1, indptr[b])]

(* _apply_conv_prefill, and _apply_conv_decode where all segments have one   *)
(* token; then GDNBackend.forward.                                           *)
Forward ==
  /\ Counted /\ verify = <<>>
  /\ \E b \in Batches(1..Width) :
       LET flat == Flat(b)
           indptr == CumLen(Lens(b))
           slots == SlotIds(b)
           input == [i \in 1..Len(b) |-> ConvInput(conv[slots[i]], flat, indptr[i - 1], Lens(b)[i])]
           absorbed == FlattenSeq([i \in 1..Len(b) |-> ConvOut(input[i])])
       IN /\ conv' = [s \in PoolSlots |->
                        IF s \notin Range(slots) THEN conv[s]
                        ELSE LastOf(input[CHOOSE i \in 1..Len(b) : slots[i] = s], StateLen)]
          /\ temporal' = GdnState(temporal, absorbed, slots, indptr)
          /\ ids' = [x \in Owners |->
                       IF \E i \in 1..Len(b) : b[i][1] = x
                       THEN ids[x] \o b[CHOOSE i \in 1..Len(b) : b[i][1] = x][2] ELSE ids[x]]
  /\ UNCHANGED <<window, free, slot, verify>>

-----------------------------------------------------------------------------
(* copy_batched into scratch slots that are not zeroed, _apply_conv_verify   *)
(* and forward_verify.                                                       *)
ForwardVerify ==
  /\ Counted /\ verify = <<>>
  /\ \E b \in Batches({Width}) :
       /\ Cardinality(free) >= Len(b)
       /\ \E scratch \in {f \in [1..Len(b) -> free] : \A i, j \in 1..Len(b) : f[i] = f[j] => i = j} :
            LET flat == Flat(b)
                indptr == CumLen([i \in 1..Len(b) |-> Width])
                main == SlotIds(b)
                from(s) == main[CHOOSE i \in 1..Len(b) : scratch[i] = s]
                copied(f) == [s \in PoolSlots |-> IF s \in Range(scratch) THEN f[from(s)] ELSE f[s]]
                input == [i \in 1..Len(b) |->
                            ConvInput(copied(conv)[scratch[i]], flat, indptr[i - 1], Width)]
                absorbed == FlattenSeq([i \in 1..Len(b) |-> ConvOut(input[i])])
            IN /\ conv' = copied(conv)
               /\ temporal' = GdnState(copied(temporal), absorbed, scratch, indptr)
               /\ window' = [s \in PoolSlots |->
                               IF s \notin Range(scratch) THEN window[s]
                               ELSE ConvWindows(input[CHOOSE i \in 1..Len(b) : scratch[i] = s])]
               /\ verify' = [batch |-> b, scratch |-> scratch, captured |-> absorbed]
               /\ free' = free \ Range(scratch)
  /\ UNCHANGED <<slot, ids>>

(* Mutant: the accepted drafts are replayed, the pending token is not. *)
DraftsOnly(accepted) == accepted

(* How many of the verified tokens are replayed: the pending one comes first. *)
Replayed(accepted) == [i \in 1..Len(accepted) |-> accepted[i] + 1]

(* commit_verify, and the scratch slots go back.                             *)
CommitVerify ==
  /\ verify # <<>>
  /\ \E accepted \in [1..Len(verify.batch) -> 0..Width - 1] :
       LET b == verify.batch
           n == Len(b)
           lengths == Replayed(accepted)
           taken == FlattenSeq([i \in 1..n |->
                      SubSeq(verify.captured, (i - 1) * Width + 1, (i - 1) * Width + lengths[i])])
           main == SlotIds(b)
       IN /\ temporal' = GdnState(temporal, taken, main, CumLen(lengths))
          /\ conv' = [s \in PoolSlots |->
                        IF s \notin Range(main) THEN conv[s]
                        ELSE LET i == CHOOSE i \in 1..n : main[i] = s
                             IN window[verify.scratch[i]][accepted[i]]]
          /\ ids' = [x \in Owners |->
                       IF \E i \in 1..n : b[i][1] = x
                       THEN LET i == CHOOSE i \in 1..n : b[i][1] = x
                            IN ids[x] \o SubSeq(b[i][2], 1, accepted[i] + 1)
                       ELSE ids[x]]
  /\ free' = free \cup Range(verify.scratch)
  /\ verify' = <<>>
  /\ UNCHANGED <<window, slot, steps>>

GatedNext ==
  \/ \E x \in Owners : Alloc(x) \/ Free(x) \/ \E y \in Owners : Copy(x, y)
  \/ Forward \/ ForwardVerify \/ CommitVerify

GatedSpec == GatedIdle /\ [][GatedNext]_gated_vars

-----------------------------------------------------------------------------
(* A slot stands for a prefix, as SchedulerCore has it: its window is the    *)
(* end of the prefix, its state has absorbed each of its tokens once, in     *)
(* order, with the right neighbours.  It does so too between a verify run    *)
(* and its commit, which may be told any number of accepted drafts.          *)
SlotsArePrefixes ==
  \A x \in Running :
    LET padded == Zeros \o ids[x]
    IN /\ conv[slot[x]] = LastOf(padded, StateLen)
       /\ temporal[slot[x]] = [k \in 1..Len(ids[x]) |-> SubSeq(padded, k, k + StateLen)]
=============================================================================
