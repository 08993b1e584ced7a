------------------------------- MODULE Serving -------------------------------
(***************************************************************************)
(* What the scheduler promises the rest of the server, with no word about  *)
(* pages, slots, trees or chunks: requests get their first token in the    *)
(* order in which they arrived; a decode step gives one token to every     *)
(* request that streams; a stream ends with the token that is its          *)
(* max_tokens-th or, unless the client ignores it, the end-of-sequence     *)
(* token, and never before or after.                                       *)
(***************************************************************************)
EXTENDS Integers, Sequences, FiniteSets

CONSTANTS Reqs, Workload, Vocab, Eos, MaxSeqLen

VARIABLES
  arrived,    \* requests on their way, in order
  queue,      \* requests that wait for their first token, in order
  streaming,  \* requests that have had a token and are to have another
  left,       \* how many tokens a request may still get
  ask         \* what a request asked for; No once it is over

vars == <<arrived, queue, streaming, left, ask>>

No == [prompt |-> <<>>, max_tokens |-> 0, ignore_eos |-> FALSE]

Init ==
  /\ arrived = <<>> /\ queue = <<>> /\ streaming = {}
  /\ left = [r \in Reqs |-> 0]
  /\ ask = [r \in Reqs |-> No]

Arrive(r, w) ==
  /\ ask[r] = No
  /\ ask' = [ask EXCEPT ![r] = w]
  /\ arrived' = Append(arrived, r)
  /\ UNCHANGED <<queue, streaming, left>>

Room(r) == MaxSeqLen - Len(ask[r].prompt)

(* The request that arrived first is queued, its max_tokens cut to what fits. *)
Accept(r) ==
  /\ arrived # <<>> /\ r = Head(arrived)
  /\ Room(r) > 0
  /\ arrived' = Tail(arrived)
  /\ queue' = Append(queue, r)
  /\ ask' = [ask EXCEPT ![r].max_tokens = IF @ <= Room(r) THEN @ ELSE Room(r)]
  /\ left' = [left EXCEPT ![r] = ask'[r].max_tokens]
  /\ UNCHANGED streaming

(* A prompt that leaves no room for a single token is dropped. *)
Drop(r) ==
  /\ arrived # <<>> /\ r = Head(arrived)
  /\ Room(r) <= 0
  /\ arrived' = Tail(arrived)
  /\ ask' = [ask EXCEPT ![r] = No]
  /\ UNCHANGED <<queue, streaming, left>>

(* Every request of S gets the token `next` has for it. *)
Give(S, next) ==
  LET over == {r \in S : left[r] = 1 \/ (next[r] = Eos /\ ~ ask[r].ignore_eos)}
  IN /\ left' = [r \in Reqs |-> IF r \in over THEN 0
                                ELSE IF r \in S THEN left[r] - 1 ELSE left[r]]
     /\ ask' = [r \in Reqs |-> IF r \in over THEN No ELSE ask[r]]
     /\ streaming' = (streaming \cup S) \ over

FirstTokens ==
  \E k \in 1..Len(queue) :
    LET S == {queue[i] : i \in 1..k}
    IN /\ \E next \in [S -> Vocab] : Give(S, next)
       /\ queue' = SubSeq(queue, k + 1, Len(queue))
       /\ UNCHANGED arrived

NextTokens ==
  /\ streaming # {}
  /\ \E next \in [streaming -> Vocab] : Give(streaming, next)
  /\ UNCHANGED <<arrived, queue>>

Next ==
  \/ \E r \in Reqs : (\E w \in Workload : Arrive(r, w)) \/ Accept(r) \/ Drop(r)
  \/ FirstTokens
  \/ NextTokens

Spec == Init /\ [][Next]_vars
=============================================================================
