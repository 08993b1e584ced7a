------------------------------ MODULE MCOffline ------------------------------
(***************************************************************************)
(* Calls of generate with up to three prompts, in every order.             *)
(***************************************************************************)
EXTENDS Offline

Ask(p, n, i) == [prompt |-> p, max_tokens |-> n, ignore_eos |-> i]

(* One prompt fits a batch of messages, one fills it and is cut short, one   *)
(* is dropped.                                                               *)
Short == {Ask(<<1>>, 2, FALSE), Ask(<<1, 2>>, 4, TRUE), Ask(<<1, 2, 1, 2, 1>>, 1, TRUE)}

UpToThree == UNION {[1..n -> Short] : n \in 0..3}

(* Prompts under one SamplingParams: the second and the third are cut short, *)
(* to different lengths, the last is dropped.                                *)
Same(i) == {Ask(<<1>>, 3, i), Ask(<<1, 2, 1>>, 3, i), Ask(<<1, 2, 1, 2>>, 3, i),
            Ask(<<1, 2, 1, 2, 1>>, 3, i)}

Alike == Same(TRUE) \cup Same(FALSE)

UpToThreeAlike == UNION {[1..n -> Same(i)] : n \in 0..3, i \in BOOLEAN}

AnyPrompt == Short \cup Alike

AnyCall == UpToThree \cup UpToThreeAlike

Two == {1, 2}
=============================================================================
