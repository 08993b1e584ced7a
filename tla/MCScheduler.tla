----------------------------- MODULE MCScheduler -----------------------------
(***************************************************************************)
(* Small servers for TLC.  Prompts share prefixes, so that edges are split, *)
(* snapshots are hit and pages are cached twice; the pools are so small     *)
(* that every kind of eviction happens; what is sampled is open.            *)
(***************************************************************************)
EXTENDS Scheduler

Ask(p, n, i) == [prompt |-> p, max_tokens |-> n, ignore_eos |-> i]

(* A conversation that goes on: each prompt continues the one before, so    *)
(* snapshots line up on one path and get locked together.                   *)
Conversation ==
  {Ask(<<1, 2>>, 1, FALSE), Ask(<<1, 2, 1>>, 1, TRUE), Ask(<<1, 2, 1, 2>>, 2, TRUE)}

(* Two of its turns. *)
Turns == {Ask(<<1, 2>>, 1, FALSE), Ask(<<1, 2, 1>>, 2, TRUE)}

(* Prompts that part from each other in the middle of an edge, one of them  *)
(* longer than the token budget, one asking for more than fits.             *)
Branches ==
  {Ask(<<1, 1, 2>>, 4, FALSE), Ask(<<1, 1, 1, 2>>, 1, TRUE), Ask(<<1, 2>>, 3, FALSE)}

(* Requests that together need all the pages there are, and more.           *)
Greedy == {Ask(<<1, 2>>, 2, TRUE), Ask(<<1, 2, 1>>, 6, TRUE)}

Two == {1, 2}

SlotsAndReqs == Permutations(Reqs) \cup Permutations(Slots)
AnyReqs == Permutations(Reqs)
=============================================================================
