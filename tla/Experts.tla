-------------------------------- MODULE Experts --------------------------------
(***************************************************************************)
(* The mixture of experts of a layer.  Each token picks its TopK experts;  *)
(* a large batch is sorted by expert before it is projected, and summed    *)
(* back with the inverse of the order it was sorted in.                    *)
(*                                                                         *)
(* The output of expert e for token t is <<t, e>>.  The weights of a       *)
(* token are its gates: normalising them is left out.                      *)
(***************************************************************************)
EXTENDS Integers, Sequences, SequencesExt, FiniteSets

CONSTANTS
  ExpertIds,    \* 0..num_experts - 1
  TopK,         \* num_experts_per_tok
  SortFrom,     \* indices.size from which a batch is sorted, 64
  GateValues,
  BatchTokens   \* the sizes of batch

ASSUME ExpertsAssumption ==
  /\ ExpertIds \subseteq Nat /\ TopK \in 1..Cardinality(ExpertIds)
  /\ GateValues \subseteq Int /\ BatchTokens \subseteq Nat /\ SortFrom \in Nat

VARIABLES
  gates,      \* of a token, for every expert
  indices,    \* the experts of a token
  x_rows,     \* the tokens as they go into the projections, after sorting
  idx,        \* and the expert of each row
  inv_order,  \* where a row has gone, <<>> if nothing was sorted
  y,          \* what the experts return
  moe_out     \* the weighted outputs that make up the sum for a token

experts_vars == <<gates, indices, x_rows, idx, inv_order, y, moe_out>>

ExpertsIdle ==
  /\ gates = <<>> /\ indices = <<>> /\ x_rows = <<>> /\ idx = <<>>
  /\ inv_order = <<>> /\ y = <<>> /\ moe_out = <<>>

Tokens == 0..Len(gates) - 1
Size == Len(gates) * TopK
RowsOf(n) == 0..n - 1

(* argpartition(gates, -k)[-k:]: the largest k, in no particular order.      *)
Largest(g) ==
  {f \in [RowsOf(TopK) -> ExpertIds] :
     /\ \A i, j \in RowsOf(TopK) : i # j => f[i] # f[j]
     /\ \A e \in ExpertIds \ Range(f), i \in RowsOf(TopK) : g[e] <= g[f[i]]}

(* The router of the layer. *)
Route ==
  /\ gates = <<>>
  /\ \E n \in BatchTokens : gates' \in [1..n -> [ExpertIds -> GateValues]]
  /\ indices' \in {f \in [1..Len(gates') -> UNION {Largest(gates'[t]) : t \in 1..Len(gates')}] :
                     \A t \in 1..Len(gates') : f[t] \in Largest(gates'[t])}
  /\ UNCHANGED <<x_rows, idx, inv_order, y, moe_out>>

FlatIndices == [r \in RowsOf(Size) |-> indices[r \div TopK + 1][r % TopK]]

(* argsort promises nothing about equal elements. *)
Argsorts(f) ==
  {o \in [DOMAIN f -> DOMAIN f] :
     /\ \A i, j \in DOMAIN f : i # j => o[i] # o[j]
     /\ \A i, j \in DOMAIN f : i < j => f[o[i]] <= f[o[j]]}

(* _gather_sort *)
GatherSort ==
  /\ gates # <<>> /\ idx = <<>> /\ Size >= SortFrom
  /\ \E order \in Argsorts(FlatIndices) :
       /\ x_rows' = [r \in RowsOf(Size) |-> order[r] \div TopK]
       /\ idx' = [r \in RowsOf(Size) |-> FlatIndices[order[r]]]
       /\ inv_order' \in Argsorts(order)
  /\ UNCHANGED <<gates, indices, y, moe_out>>

(* A small batch is projected as it is, a token against each of its experts. *)
Broadcast ==
  /\ gates # <<>> /\ idx = <<>> /\ Size < SortFrom
  /\ x_rows' = [r \in RowsOf(Size) |-> r \div TopK]
  /\ idx' = FlatIndices
  /\ UNCHANGED <<gates, indices, inv_order, y, moe_out>>

(* up_proj, gate_proj and down_proj.  Rows said to be sorted have to be.     *)
Project ==
  /\ idx # <<>> /\ y = <<>>
  /\ y' = [r \in RowsOf(Size) |->
             IF Size >= SortFrom /\ \E q \in RowsOf(Size) : q < r /\ idx[q] > idx[r]
             THEN <<-1, -1>> ELSE <<x_rows[r], idx[r]>>]
  /\ UNCHANGED <<gates, indices, x_rows, idx, inv_order, moe_out>>

(* Mutant: the rows of y are taken as if nothing had been sorted. *)
RowInPlace(t, k) == t * TopK + k

(* moe_sum_reduce reads row t * topk_num + k, the kernel with reorder the    *)
(* row that inv_order has there.                                             *)
YRow(t, k) == IF Size >= SortFrom THEN inv_order[t * TopK + k] ELSE t * TopK + k

SumReduce ==
  /\ y # <<>> /\ moe_out = <<>>
  /\ moe_out' = [t \in Tokens |->
                   [i \in 1..TopK |-> <<gates[t + 1][indices[t + 1][i - 1]], y[YRow(t, i - 1)]>>]]
  /\ UNCHANGED <<gates, indices, x_rows, idx, inv_order, y>>

ExpertsNext == Route \/ GatherSort \/ Broadcast \/ Project \/ SumReduce

ExpertsSpec == ExpertsIdle /\ [][ExpertsNext]_experts_vars

-----------------------------------------------------------------------------
(* Sorted or not, and however argsort breaks ties: a token gets the outputs  *)
(* of TopK experts for that very token, each weighted with its own gate, and *)
(* no other expert has a larger gate.                                        *)
ExpertsSummed ==
  moe_out # <<>> =>
    \A t \in Tokens :
      \E chosen \in SUBSET ExpertIds :
        /\ Cardinality(chosen) = TopK
        /\ \A e \in chosen, d \in ExpertIds \ chosen : gates[t + 1][d] <= gates[t + 1][e]
        /\ ToSet(moe_out[t]) = {<<gates[t + 1][e], <<t, e>>>> : e \in chosen}
=============================================================================
