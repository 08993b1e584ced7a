----------------------------- MODULE MCAlgorithms -----------------------------
(***************************************************************************)
(* Model-checking instance of the algorithms around the scheduler, and of  *)
(* the launch of the server.  They share no state, so each is run alone:   *)
(* the other machines stay idle.                                           *)
(***************************************************************************)
EXTENDS PagedAttention, GatedDelta, Experts, Detokenizer, ResponseParser, Launch

VARIABLE machine

Algorithms == {"attention", "gated delta", "experts", "detokenizer", "parser"}

mc_vars ==
  <<machine, attention_vars, gated_vars, experts_vars, detokenizer_vars, parser_vars, launch_vars>>

MCInit ==
  /\ AttentionIdle /\ GatedIdle /\ ExpertsIdle /\ DetokenizerIdle /\ ParserIdle
  /\ \/ machine \in Algorithms /\ LaunchIdle
     \/ machine = "launch" /\ LaunchInit

MCNext ==
  \/ /\ machine = "attention" /\ AttentionNext
     /\ UNCHANGED <<machine, gated_vars, experts_vars, detokenizer_vars, parser_vars, launch_vars>>
  \/ /\ machine = "gated delta" /\ GatedNext
     /\ UNCHANGED <<machine, attention_vars, experts_vars, detokenizer_vars, parser_vars, launch_vars>>
  \/ /\ machine = "experts" /\ ExpertsNext
     /\ UNCHANGED <<machine, attention_vars, gated_vars, detokenizer_vars, parser_vars, launch_vars>>
  \/ /\ machine = "detokenizer" /\ Detokenize
     /\ UNCHANGED <<machine, attention_vars, gated_vars, experts_vars, parser_vars, launch_vars>>
  \/ /\ machine = "parser" /\ ParserNext
     /\ UNCHANGED <<machine, attention_vars, gated_vars, experts_vars, detokenizer_vars, launch_vars>>
  \/ /\ machine = "launch" /\ LaunchNext
     /\ UNCHANGED <<machine, attention_vars, gated_vars, experts_vars, detokenizer_vars, parser_vars>>

MCSpec == MCInit /\ [][MCNext]_mc_vars /\ LaunchFairness

(* A server whose tokenizer is shared, and servers with one and two. *)
UpToTwo == 0..2

(* Decode batches whose lengths lie on both sides of every block and split,  *)
(* and beyond MaxKvSplits; prefill with all four masks, tiles that end       *)
(* inside a simdgroup, sequences of different lengths.                       *)
Seq1(prefixes, extends) == [prefix : prefixes, extend : extends]
MCLaunches ==
  [decode : {TRUE}, cross : {FALSE}, window : {0},
   seqs : {<<s>> : s \in Seq1(0..17, {1})} \cup {<<s, t>> : s \in Seq1({0, 3, 7}, {1}), t \in Seq1({0, 4, 13}, {1})}]
  \cup
  [decode : {FALSE}, cross : BOOLEAN, window : {0, 1, 3},
   seqs : {<<s>> : s \in Seq1({0, 1, 2, 5}, 1..5)}
          \cup {<<s, t>> : s \in Seq1({0, 3}, {1, 3}), t \in Seq1({1}, {2, 5})}]

(* Pages are scattered, and no two positions of a batch share one. *)
MCPageTable(b, i) == (5 * i + 23 * b) % 61
MCScore(q, k) == (q.id[2] + 2 * k.id[2] + q.head + 3 * k.head + k.id[2] * k.id[2]) % 4

MCTokenAt(x, k) == IF x = "request" THEN k ELSE 10 + k

(* A letter, tokens that begin or end inside a character, and one that goes  *)
(* from a CJK character into another character.                              *)
MCEos == <<"eos">>
MCVocabulary ==
  {MCEos, <<"a">>, <<" ", "e1">>, <<"e2">>, <<"h1">>, <<"h2", " ">>, <<"h1", "h2", "e1">>}

MCChunks == {<<"a">>, <<" ">>, <<" ", "a">>, <<"a", " ">>}
=============================================================================
