------------------------------- MODULE MCSpec --------------------------------
(***************************************************************************)
(* Small servers with a speculative engine for TLC.  The drafts are open:  *)
(* every one may be right or wrong.  What the target says is fixed, and    *)
(* such that some answers meet the end-of-sequence token early, some late. *)
(***************************************************************************)
EXTENDS SpecScheduler

Ask(p, n, i) == [prompt |-> p, max_tokens |-> n, ignore_eos |-> i]

SumOf(s) == FoldSeq(LAMBDA t, acc : t + acc, 0, s)

MCTarget(s) == IF (SumOf(s) + Len(s)) % 4 = 1 THEN 2 ELSE 1

(* Prompts one of which goes on where the other ends.                        *)
Chats == {Ask(<<1, 2>>, 3, FALSE), Ask(<<1, 2, 1>>, 3, TRUE)}

(* The same with short answers, so that one request more can be served.      *)
ShortChats == {Ask(<<1, 2>>, 1, TRUE), Ask(<<1, 2, 1>>, 2, TRUE), Ask(<<1, 1>>, 3, FALSE)}

(* A conversation: each prompt is the last one, its answer and one token more. *)
Turns ==
  {Ask(<<1, 2>>, 2, TRUE), Ask(<<1, 2, 2, 1, 1>>, 2, TRUE), Ask(<<1, 2, 2, 1, 1, 1, 1>>, 2, TRUE)}

Two == {1, 2}

SlotsAndReqs == Permutations(Reqs) \cup Permutations(Slots)
AnyReqs == Permutations(Reqs)
=============================================================================
