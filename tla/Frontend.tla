------------------------------ MODULE Frontend -------------------------------
(***************************************************************************)
(* The way of a request through the processes of the server.  In the API   *)
(* process one event loop runs the coroutine of every request (`stage` is  *)
(* where it awaits) and the listener, which files what the workers send.   *)
(* A worker renders and tokenizes requests and turns tokens into text; one *)
(* worker does both when the tokenizer is shared.  The scheduler appears   *)
(* as what module Serving promises of it.  The server has a template for    *)
(* responses; without one no coroutine waits for a prompt.                 *)
(*   none     no request has this uid yet                                  *)
(*   prompt   wait_for_prompt                                              *)
(*   wait     wait_for_ack, at event.wait()                                *)
(*   yield    wait_for_ack, at one of its yields                           *)
(*   abort    the response is over, abort_user sleeps                      *)
(*   over     nothing runs for the request                                 *)
(* A reply is one token; [uid, n, finished] is the n-th one.               *)
(***************************************************************************)
EXTENDS Integers, Sequences, SequencesExt, FiniteSets

CONSTANTS
  NumUids,      \* how many requests come at most
  Tokenizers, Detok,
  Asks,         \* what is asked for: [kind, length], the tokens of the answer
  Burst         \* the most tokens of one request in one batch of the scheduler

Kinds == {"generate", "chat", "whole"}  \* /generate, a streamed chat, a chat that is not

ASSUME FrontendAssumption ==
  /\ NumUids \in Nat
  /\ Asks \subseteq [kind : Kinds, length : Nat \ {0}]
  /\ Burst \in Nat \ {0}
  /\ Detok \notin Tokenizers

Uids == 0..NumUids - 1
Workers == Tokenizers \cup {Detok}

VARIABLES
  shared,         \* one worker does both jobs (--num-tokenizer 0)
  uid_counter,
  stage,
  ask,
  ack_map, event_map, prompt_map, prompt_event, response_map,
  pending,        \* what wait_for_ack has taken and not yielded yet
  got,            \* the replies the client has
  to_worker, to_backend, to_detok, to_frontend,  \* the sockets, one pipe a sender
  sends,          \* what a worker has still to send for the request it works on
  serving,        \* the requests that the scheduler has
  dropped,        \* those it has refused
  told,           \* the tokens of an answer that it has sent
  decode_map      \* the requests whose text the detokenizer keeps

maps == <<ack_map, event_map, prompt_map, prompt_event, response_map>>
coroutines == <<uid_counter, stage, ask, pending, got>>
pipes == <<to_worker, to_backend, to_detok, to_frontend>>
backend == <<sends, serving, dropped, told, decode_map>>
vars == <<shared, coroutines, maps, pipes, backend>>

Empty == [x \in {} |-> x]
Put(f, k, v) == [x \in DOMAIN f \cup {k} |-> IF x = k THEN v ELSE f[x]]
Pop(f, k) == [x \in DOMAIN f \ {k} |-> f[x]]

Init ==
  /\ shared \in BOOLEAN
  /\ uid_counter = 0
  /\ stage = [u \in Uids |-> "none"]
  /\ ask \in [Uids -> Asks]
  /\ ack_map = Empty /\ event_map = Empty /\ prompt_event = Empty
  /\ prompt_map = {} /\ response_map = {}
  /\ pending = [u \in Uids |-> <<>>] /\ got = [u \in Uids |-> <<>>]
  /\ to_worker = [w \in Workers |-> <<>>] /\ to_backend = [w \in Workers |-> <<>>]
  /\ to_detok = <<>>
  /\ to_frontend = [w \in Workers |-> <<>>]
  /\ sends = [w \in Workers |-> <<>>]
  /\ serving = {} /\ dropped = {} /\ decode_map = {}
  /\ told = [u \in Uids |-> 0]

(* Mutant: requests and tokens go to different workers in any case. *)
OwnWorkers == Tokenizers

TokenizeWorkers == IF shared THEN {Detok} ELSE Tokenizers

Streams(u) == ask[u].kind # "whole"
Rendered(u) == ask[u].kind # "generate"

-----------------------------------------------------------------------------
(* A request comes in: new_user, send_one. *)
Request(u) ==
  /\ u = uid_counter
  /\ uid_counter' = u + 1
  /\ ack_map' = Put(ack_map, u, <<>>)
  /\ event_map' = Put(event_map, u, FALSE)
  /\ prompt_event' = Put(prompt_event, u, FALSE)
  /\ \E w \in TokenizeWorkers : to_worker' = [to_worker EXCEPT ![w] = Append(@, u)]
  /\ stage' = [stage EXCEPT ![u] = IF Rendered(u) THEN "prompt" ELSE "wait"]
  /\ UNCHANGED <<shared, ask, pending, got, prompt_map, response_map,
                 to_backend, to_detok, to_frontend, backend>>

(* The prompt is there: the request gets a parser. *)
PromptArrives(u) ==
  /\ stage[u] = "prompt" /\ prompt_event[u]
  /\ prompt_event' = Pop(prompt_event, u)
  /\ prompt_map' = prompt_map \ {u}
  /\ response_map' = response_map \cup {u}
  /\ stage' = [stage EXCEPT ![u] = "wait"]
  /\ UNCHANGED <<shared, uid_counter, ask, pending, got, ack_map, event_map, pipes, backend>>

(* The timeout may fire although the event has just been set. *)
PromptTimesOut(u) ==
  /\ stage[u] = "prompt"
  /\ prompt_event' = Pop(prompt_event, u)
  /\ stage' = [stage EXCEPT ![u] = "wait"]
  /\ UNCHANGED <<shared, uid_counter, ask, pending, got, ack_map, event_map, prompt_map,
                 response_map, pipes, backend>>

(* wait_for_ack: the event is cleared and the list is swapped in one step. *)
WakeUp(u) ==
  /\ stage[u] = "wait" /\ event_map[u]
  /\ event_map' = [event_map EXCEPT ![u] = FALSE]
  /\ pending' = [pending EXCEPT ![u] = ack_map[u]]
  /\ ack_map' = [ack_map EXCEPT ![u] = <<>>]
  /\ stage' = [stage EXCEPT ![u] = "yield"]
  /\ UNCHANGED <<shared, uid_counter, ask, got, prompt_map, prompt_event, response_map, pipes, backend>>

(* Mutant: the list is emptied when all of it is yielded. *)
EmptiedLate(u) == Put(ack_map, u, <<>>)

AcksAfterYields(u) == ack_map

(* Mutant: the event is cleared when all of the list is yielded. *)
ClearedLate(u) == Put(event_map, u, FALSE)

EventAfterYields(u) == event_map

(* The consumer takes a reply, or all of them if it never suspends in between. *)
Taken(u) == IF Streams(u) THEN 1 ELSE Len(pending[u])

(* The consumer leaves the loop at the finished reply, so that wait_for_ack  *)
(* never gets to the end where it removes the maps' entries; abort_user does *)
(* for a stream, which runs it in the background when the response is over.  *)
Consume(u) ==
  LET taken == SubSeq(pending[u], 1, Taken(u))
      rest == SubSeq(pending[u], Taken(u) + 1, Len(pending[u]))
      over == Last(taken).finished
  IN /\ stage[u] = "yield"
     /\ got' = [got EXCEPT ![u] = @ \o taken]
     /\ pending' = [pending EXCEPT ![u] = IF over THEN <<>> ELSE rest]
     /\ stage' = [stage EXCEPT ![u] = IF over THEN (IF Streams(u) THEN "abort" ELSE "over")
                                      ELSE IF rest = <<>> THEN "wait" ELSE "yield"]
     /\ response_map' = IF over THEN response_map \ {u} ELSE response_map
     /\ ack_map' = IF rest = <<>> THEN AcksAfterYields(u) ELSE ack_map
     /\ event_map' = IF rest = <<>> THEN EventAfterYields(u) ELSE event_map
     /\ UNCHANGED <<shared, uid_counter, ask, prompt_map, prompt_event, pipes, backend>>

(* The client of a stream goes away: the response is cancelled where it is. *)
Leave(u) ==
  /\ Streams(u) /\ stage[u] \in {"wait", "yield"}
  /\ stage' = [stage EXCEPT ![u] = "abort"]
  /\ pending' = [pending EXCEPT ![u] = <<>>]
  /\ response_map' = response_map \ {u}
  /\ UNCHANGED <<shared, uid_counter, ask, got, ack_map, event_map, prompt_map, prompt_event, pipes, backend>>

(* Mutant: the list of replies is left behind. *)
KeepAcks(u) == ack_map

WithoutAcks(u) == Pop(ack_map, u)

(* abort_user, after its sleep.  Nobody tells the scheduler. *)
AbortUser(u) ==
  /\ stage[u] = "abort"
  /\ response_map' = response_map \ {u}
  /\ prompt_map' = prompt_map \ {u}
  /\ prompt_event' = Pop(prompt_event, u)
  /\ event_map' = Pop(event_map, u)
  /\ ack_map' = WithoutAcks(u)
  /\ stage' = [stage EXCEPT ![u] = "over"]
  /\ UNCHANGED <<shared, uid_counter, ask, pending, got, pipes, backend>>

-----------------------------------------------------------------------------
(* Mutant: a prompt is kept whether somebody waits for it or not. *)
AnyPrompt(u) == TRUE

Awaited(u) == u \in DOMAIN prompt_event

(* Where among the items of a message the replies for u are. *)
RepliesTo(u, items) == {i \in 1..Len(items) : items[i].uid = u /\ items[i].n > 0}

(* The items at some positions, in their order. *)
At(items, positions) ==
  [k \in 1..Cardinality(positions) |->
     items[CHOOSE i \in positions : Cardinality({j \in positions : j < i}) = k - 1]]

(* The listener takes a message of one of the workers, with all its items.   *)
Listen ==
  \E w \in Workers :
    /\ to_frontend[w] # <<>>
    /\ LET items == Head(to_frontend[w])
           prompts == {u \in Uids : \E i \in 1..Len(items) : items[i].uid = u /\ items[i].n = 0}
       IN /\ prompt_map' = prompt_map \cup {u \in prompts : Awaited(u)}
          /\ prompt_event' = [u \in DOMAIN prompt_event |-> prompt_event[u] \/ u \in prompts]
          /\ ack_map' = [u \in DOMAIN ack_map |-> ack_map[u] \o At(items, RepliesTo(u, items))]
          /\ event_map' = [u \in DOMAIN event_map |-> event_map[u] \/ RepliesTo(u, items) # {}]
    /\ to_frontend' = [to_frontend EXCEPT ![w] = Tail(@)]
    /\ UNCHANGED <<shared, coroutines, response_map, to_worker, to_backend, to_detok, backend>>

-----------------------------------------------------------------------------
Prompt(u) == <<[uid |-> u, n |-> 0, finished |-> FALSE]>>

(* What tokenize_worker sends for a request, in this order. *)
SendsOf(u) == IF Rendered(u) THEN <<<<"frontend", u>>, <<"backend", u>>>>
              ELSE <<<<"backend", u>>>>

(* The first of these is sent, the others are left for the next steps. *)
Send(w, all) ==
  LET to == Head(all)[1]
      u == Head(all)[2]
  IN /\ to_frontend' = IF to = "backend" THEN to_frontend
                       ELSE [to_frontend EXCEPT ![w] = Append(@, Prompt(u))]
     /\ to_backend' = IF to = "frontend" THEN to_backend
                      ELSE [to_backend EXCEPT ![w] = Append(@, u)]
     /\ sends' = [sends EXCEPT ![w] = Tail(all)]

Tokenize(w) ==
  /\ sends[w] = <<>> /\ to_worker[w] # <<>>
  /\ Send(w, SendsOf(Head(to_worker[w])))
  /\ to_worker' = [to_worker EXCEPT ![w] = Tail(@)]
  /\ UNCHANGED <<shared, coroutines, maps, to_detok, serving, dropped, told, decode_map>>

SendOn(w) ==
  /\ sends[w] # <<>>
  /\ Send(w, sends[w])
  /\ UNCHANGED <<shared, coroutines, maps, to_worker, to_detok, serving, dropped, told, decode_map>>

(* The tokens of one message of the scheduler become one message of replies. *)
Detokenize ==
  /\ sends[Detok] = <<>> /\ to_detok # <<>>
  /\ LET tokens == Range(Head(to_detok))
     IN decode_map' = (decode_map \cup {t.uid : t \in tokens})
                        \ {t.uid : t \in {t \in tokens : t.finished}}
  /\ to_frontend' = [to_frontend EXCEPT ![Detok] = Append(@, Head(to_detok))]
  /\ to_detok' = Tail(to_detok)
  /\ UNCHANGED <<shared, coroutines, maps, to_worker, to_backend, sends, serving, dropped, told>>

-----------------------------------------------------------------------------
(* The scheduler takes a request, or drops it without a word. *)
Receive(w) ==
  /\ to_backend[w] # <<>>
  /\ LET u == Head(to_backend[w])
     IN \/ serving' = serving \cup {u} /\ UNCHANGED dropped
        \/ dropped' = dropped \cup {u} /\ UNCHANGED serving
  /\ to_backend' = [to_backend EXCEPT ![w] = Tail(@)]
  /\ UNCHANGED <<shared, coroutines, maps, to_worker, to_detok, to_frontend, sends, told, decode_map>>

(* The tokens that a batch gives its requests go out in one message: who     *)
(* gets each of them, those of a request one behind the other.               *)
Reply ==
  \E k \in 1..Burst * Cardinality(serving) : \E who \in [1..k -> serving] :
    LET nth(i) == Cardinality({j \in 1..i : who[j] = who[i]})
        number(i) == told[who[i]] + nth(i)
    IN /\ \A i \in 1..k : nth(i) <= Burst /\ number(i) <= ask[who[i]].length
       /\ \A i, j \in 1..k : i < j /\ who[i] = who[j] => who[i + 1] = who[i]
       /\ to_detok' = Append(to_detok,
                             [i \in 1..k |-> [uid |-> who[i], n |-> number(i),
                                              finished |-> number(i) = ask[who[i]].length]])
       /\ told' = [u \in Uids |-> told[u] + Cardinality({i \in 1..k : who[i] = u})]
       /\ serving' = {u \in serving : told'[u] < ask[u].length}
       /\ UNCHANGED <<shared, coroutines, maps, to_worker, to_backend, to_frontend,
                      sends, dropped, decode_map>>

-----------------------------------------------------------------------------
Coroutine(u) == PromptArrives(u) \/ WakeUp(u) \/ Consume(u) \/ AbortUser(u)
Worker(w) == Tokenize(w) \/ SendOn(w) \/ (w = Detok /\ Detokenize)
Scheduler == (\E w \in Workers : Receive(w)) \/ Reply

Next ==
  \/ \E u \in Uids : Request(u) \/ Coroutine(u) \/ PromptTimesOut(u) \/ Leave(u)
  \/ Listen
  \/ \E w \in Workers : Worker(w)
  \/ Scheduler

(* Every process goes on, and the event loop runs every coroutine that can   *)
(* go on; nothing is assumed of clients and timeouts.                        *)
Fairness ==
  /\ \A u \in Uids : WF_vars(Coroutine(u))
  /\ WF_vars(Listen)
  /\ \A w \in Workers : WF_vars(Worker(w))
  /\ WF_vars(Scheduler)

Spec == Init /\ [][Next]_vars
FairSpec == Spec /\ Fairness

-----------------------------------------------------------------------------
(* The two maps of replies have the same keys, on which the listener relies: *)
(* a KeyError would end it, and with it every request of the server.         *)
ListenerSafe ==
  /\ DOMAIN ack_map = DOMAIN event_map
  /\ \A u \in Uids : stage[u] \in {"prompt", "wait", "yield"} => u \in DOMAIN ack_map

(* No lost wakeup: a coroutine that waits for its event waits with it set as *)
(* soon as there is a reply for it, and only then.                           *)
NoLostWakeup ==
  \A u \in Uids : stage[u] = "wait" => (event_map[u] <=> ack_map[u] # <<>>)

(* As long as a client is there, the replies it has, those that its          *)
(* coroutine holds, and those that are on their way to it are all the tokens *)
(* the scheduler has sent for it, each once and in order.                    *)
Mine(u) == got[u] \o pending[u] \o ack_map[u]
Underway == to_frontend[Detok] \o to_detok

Numbers(pipe, u) == UNION {{pipe[m][i].n : i \in RepliesTo(u, pipe[m])} : m \in 1..Len(pipe)}

InOrder(pipe, u) ==
  \A a, b \in 1..Len(pipe) : \A i \in RepliesTo(u, pipe[a]), j \in RepliesTo(u, pipe[b]) :
    a < b \/ (a = b /\ i < j) => pipe[a][i].n < pipe[b][j].n

NothingLost ==
  \A u \in Uids : stage[u] \in {"prompt", "wait", "yield"} =>
    /\ \A k \in 1..Len(Mine(u)) : Mine(u)[k].n = k
    /\ Numbers(Underway, u) = Len(Mine(u)) + 1 .. told[u]
    /\ InOrder(Underway, u)

(* A stream is forgotten when it is over: no late prompt and no late reply   *)
(* brings an entry for it back.  A request that is not streamed leaves its   *)
(* list and its event behind, but no parser and no reply.                    *)
Forgotten ==
  \A u \in Uids : stage[u] = "over" =>
    /\ u \notin response_map
    /\ IF Streams(u) THEN u \notin DOMAIN ack_map \cup prompt_map \cup DOMAIN prompt_event
       ELSE ack_map[u] = <<>> /\ pending[u] = <<>>

(* "It must arrive before any generated token does, which is guaranteed by   *)
(* sending it before the request reaches the backend": so it is when the     *)
(* worker that sends the prompt is the one that sends the tokens.            *)
PromptFirst ==
  shared => \A u \in Uids : stage[u] = "prompt" /\ ack_map[u] # <<>> => prompt_event[u]

(* Every request that is not dropped is answered to its end, unless its      *)
(* client goes away.                                                         *)
AnsweredToTheEnd ==
  \A u \in Uids : stage[u] # "none" ~> stage[u] = "over" \/ u \in dropped
=============================================================================
