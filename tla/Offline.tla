------------------------------- MODULE Offline -------------------------------
(***************************************************************************)
(* Offline generation (llm/llm.py): a scheduler without clients.  generate *)
(* puts all prompts in a list, the loop takes some of them every time it   *)
(* asks for messages, and the call returns by the exception that is raised *)
(* when the loop would wait for more.  The plain engine runs the batches.  *)
(* A call with one SamplingParams puts that one object under every prompt. *)
(***************************************************************************)
EXTENDS Scheduler

CONSTANTS
  Prompts,  \* the lists that generate may be called with
  Single    \* those of them that it is called with one SamplingParams for

ASSUME OfflineAssumption ==
  \A p \in Prompts : p \in Seq(Workload) /\ 0..Len(p) - 1 \subseteq Reqs
ASSUME ParamsAssumption ==
  \A p \in Single : \A i, j \in DOMAIN p :
    p[i].max_tokens = p[j].max_tokens /\ p[i].ignore_eos = p[j].ignore_eos

VARIABLES
  prompts,           \* the argument of generate
  pending_requests,  \* those of them that no message was made of
  counter,           \* the next uid
  output_ids,        \* status_map: the tokens of each answer
  sum_input_len,     \* the tokens of the prompts taken since the loop asked
  heard,             \* this iteration of the loop has its messages
  returned

call == <<prompts, pending_requests, counter, output_ids, sum_input_len, heard, returned>>
offline_vars == <<vars, call>>

OneParams == prompts \in Single

OfflineInit ==
  /\ Init
  /\ prompts \in Prompts
  /\ pending_requests = prompts
  /\ counter = 0
  /\ output_ids = [r \in Reqs |-> <<>>]
  /\ sum_input_len = 0
  /\ heard = FALSE /\ returned = FALSE

(* Mutant: no more than the budget is taken, not even of one prompt. *)
MoreFitsWithin ==
  pending_requests # <<>> => sum_input_len + Len(Head(pending_requests).prompt) <= Budget

(* The prompt that reaches the token budget is the last. *)
MoreFits == sum_input_len < Budget

(* The loop of offline_receive_msg, at the next prompt. *)
TakePrompt ==
  /\ pc = "recv" /\ ~ heard /\ ~ returned
  /\ pending_requests # <<>>
  /\ MoreFits
  /\ LET w == Head(pending_requests)
     IN /\ req' = [req EXCEPT ![counter].stage = "inbox", ![counter].prompt = w.prompt,
                              ![counter].output = w.max_tokens,
                              ![counter].ignore_eos = w.ignore_eos]
        /\ sum_input_len' = sum_input_len + Len(w.prompt)
  /\ inbox' = Append(inbox, counter)
  /\ counter' = counter + 1
  /\ pending_requests' = Tail(pending_requests)
  /\ UNCHANGED <<pending, running, batch, chunked_list, finished, adder, rows, cache, data, pc,
                 prompts, output_ids, heard, returned>>

(* It ends, and the loop has its messages; none, if no prompt was left. *)
EndReceive ==
  /\ pc = "recv" /\ ~ heard /\ ~ returned
  /\ Runnable \/ pending_requests # <<>> \/ inbox # <<>>
  /\ pending_requests = <<>> \/ ~ MoreFits
  /\ heard' = TRUE /\ sum_input_len' = 0
  /\ UNCHANGED <<vars, prompts, pending_requests, counter, output_ids, returned>>

(* RequestAllFinished: the loop would block and there is nothing left to send. *)
AllFinished ==
  /\ pc = "recv" /\ ~ heard /\ ~ returned
  /\ ~ Runnable /\ pending_requests = <<>> /\ inbox = <<>>
  /\ returned' = TRUE
  /\ UNCHANGED <<vars, prompts, pending_requests, counter, output_ids, sum_input_len, heard>>

(* All the messages were of requests that are dropped: there is no batch. *)
NoBatch ==
  /\ pc = "recv" /\ heard
  /\ inbox = <<>> /\ ~ Runnable
  /\ heard' = FALSE
  /\ UNCHANGED <<vars, prompts, pending_requests, counter, output_ids, sum_input_len, returned>>

(* Mutant: the end-of-sequence token is never recorded. *)
RecordedUnlessEos(r, token, over) == token # Eos

(* offline_send_result leaves out a last token that is the end of sequence. *)
Recorded(r, token, over) == ~ (over /\ token = Eos)

SendResult ==
  output_ids' =
    [r \in Reqs |->
       IF pc = "output" /\ r \in Sampled /\ Recorded(r, Last(req'[r].ids), r \in finished')
       THEN Append(output_ids[r], Last(req'[r].ids)) ELSE output_ids[r]]

(* The message at hand is of a prompt that is cut short, and its max_tokens   *)
(* are everybody's.                                                          *)
Clips ==
  /\ OneParams
  /\ pc = "recv" /\ inbox # <<>>
  /\ 0 < MaxOutputLen(Head(inbox))
  /\ MaxOutputLen(Head(inbox)) < req[Head(inbox)].output

(* PendingReqs and messages; a prompt cut into chunks reads it at each chunk. *)
Unread == Range(inbox) \cup Range(pending)

(* _process_one_msg on it: the clip is written to the shared object. *)
ClipShared ==
  /\ Clips /\ heard
  /\ LET r == Head(inbox)
         most == MaxOutputLen(r)
     IN /\ req' = [q \in Reqs |->
                     CASE q = r -> [req[q] EXCEPT !.stage = "pending", !.output = most]
                       [] q \in Unread \ {r} -> [req[q] EXCEPT !.output = most]
                       [] OTHER -> req[q]]
        /\ pending' = Append(pending, r)
        /\ pending_requests' = [i \in DOMAIN pending_requests |->
                                 [pending_requests[i] EXCEPT !.max_tokens = most]]
  /\ inbox' = Tail(inbox)
  /\ UNCHANGED <<running, batch, chunked_list, finished, adder, rows, cache, data, pc,
                 prompts, counter, output_ids, sum_input_len, heard, returned>>

LoopStep ==
  /\ pc = "recv" => heard
  /\ ~ Clips
  /\ Step
  /\ heard' = (heard /\ (pc # "recv" => pc' # "recv"))
  /\ SendResult
  /\ UNCHANGED <<prompts, pending_requests, counter, sum_input_len, returned>>

OfflineNext == TakePrompt \/ EndReceive \/ AllFinished \/ NoBatch \/ LoopStep \/ ClipShared

OfflineSpec == OfflineInit /\ [][OfflineNext]_offline_vars /\ WF_offline_vars(OfflineNext)

-----------------------------------------------------------------------------
MostTokens(w) == Lesser(w.max_tokens, MaxSeqLen - Len(w.prompt))

(* Whose limits may bound the answer to the i-th prompt.                     *)
SharedBy(i) == IF OneParams THEN DOMAIN prompts ELSE {i}

(* generate hands each prompt the tokens that were generated for it, in the  *)
(* order of the prompts, although they are told apart by a counter that goes *)
(* on from one batch of messages to the next.  A prompt that is dropped has  *)
(* an empty answer, none is longer than was asked for, and one that ignores  *)
(* the end-of-sequence token is as long as its prompt allows, if its         *)
(* parameters are its own; if all share them, as long as the prompt allows   *)
(* that leaves the least room.  When the call returns, every page and every  *)
(* row has been given back.                                                  *)
ResultsComplete ==
  /\ \A r \in Live \ finished :
       /\ req[r].prompt = prompts[r + 1].prompt
       /\ output_ids[r] = SubSeq(req[r].ids, InputLen(r) + 1, Len(req[r].ids))
  /\ returned =>
       /\ counter = Len(prompts)
       /\ Available(tree) = NumPages /\ Len(rows) = MaxRunning
       /\ \A i \in 1..Len(prompts) :
            LET w == prompts[i]
                answer == output_ids[i - 1]
            IN IF MostTokens(w) <= 0 THEN answer = <<>>
               ELSE /\ Len(answer) <= MostTokens(w)
                    /\ IF w.ignore_eos
                       THEN \E j \in SharedBy(i) :
                              /\ MostTokens(prompts[j]) > 0
                              /\ Len(answer) >= MostTokens(prompts[j]) - 1
                       ELSE Eos \notin Range(answer)

(* The call returns, whatever is dropped and however little fits at a time.  *)
Returned == <>returned
=============================================================================
