----------------------------- MODULE Generation ------------------------------
(***************************************************************************)
(* What a client is promised of greedy generation, whichever engine does   *)
(* it: the answer is the one greedy decoding gives, token by token, cut    *)
(* after max_tokens tokens or after the end-of-sequence token, whatever    *)
(* comes first.  It may arrive in pieces of any size, but in order, and    *)
(* it is marked as over with its last token and not before.                *)
(***************************************************************************)
EXTENDS Integers, Sequences

CONSTANTS Reqs, Workload, Eos, MaxSeqLen,
  Target(_)   \* the token the model gives most weight to after a sequence

VARIABLES
  ask,    \* what a request asked for, No if it asks for nothing (any more)
  sent,   \* the part of the answer that is on its way to the client
  over    \* the requests whose answer was marked as over

vars == <<ask, sent, over>>

No == [prompt |-> <<>>, max_tokens |-> 0, ignore_eos |-> FALSE]

(* The first n tokens of plain greedy decoding, behind the prompt. *)
Greedy(prompt, n) ==
  LET upto[i \in 0..n] ==
        IF i = 0 THEN prompt ELSE Append(upto[i - 1], Target(upto[i - 1]))
  IN SubSeq(upto[n], Len(prompt) + 1, Len(prompt) + n)

Answer(w) ==
  LET all == Greedy(w.prompt, w.max_tokens)
      ends == {i \in 1..w.max_tokens : all[i] = Eos /\ ~ w.ignore_eos}
  IN IF ends = {} THEN all
     ELSE SubSeq(all, 1, CHOOSE i \in ends : \A j \in ends : i <= j)

Init ==
  /\ ask = [r \in Reqs |-> No]
  /\ sent = [r \in Reqs |-> <<>>]
  /\ over = {}

Ask(r, w) ==
  /\ ask[r] = No
  /\ ask' = [ask EXCEPT ![r] = w]
  /\ UNCHANGED <<sent, over>>

Room(r) == MaxSeqLen - Len(ask[r].prompt)

(* Before anything of it was sent a request is cut to what fits, or dropped. *)
Clip(r) ==
  /\ ask[r] # No /\ sent[r] = <<>>
  /\ ask' = [ask EXCEPT ![r] = IF Room(r) <= 0 THEN No
                               ELSE [@ EXCEPT !.max_tokens = Room(r)]]
  /\ Room(r) < ask[r].max_tokens
  /\ UNCHANGED <<sent, over>>

(* Some requests get the next piece of their answer. *)
Deliver ==
  /\ sent' \in [Reqs -> UNION {{SubSeq(Answer(ask[r]), 1, n) :
                                n \in 0..Len(Answer(ask[r]))} : r \in Reqs}]
  /\ \A r \in Reqs :
       /\ Len(sent'[r]) >= Len(sent[r])
       /\ sent'[r] = SubSeq(Answer(ask[r]), 1, Len(sent'[r]))
  /\ sent' # sent
  /\ over' = {r \in Reqs : ask[r] # No /\ sent'[r] = Answer(ask[r])}
  /\ UNCHANGED ask

Forget(r) ==
  /\ r \in over
  /\ ask' = [ask EXCEPT ![r] = No]
  /\ sent' = [sent EXCEPT ![r] = <<>>]
  /\ over' = over \ {r}

Next ==
  \/ \E r \in Reqs : (\E w \in Workload : Ask(r, w)) \/ Clip(r) \/ Forget(r)
  \/ Deliver

Spec == Init /\ [][Next]_vars
=============================================================================
