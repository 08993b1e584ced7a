------------------------------- MODULE Launch --------------------------------
(***************************************************************************)
(* How the server comes up and goes down (server/launch.py): the API       *)
(* process opens its sockets, starts a scheduler, a detokenizer and the    *)
(* tokenizers as processes of their own, and serves when every one of them *)
(* has acknowledged that it is ready.  Module Frontend begins where this   *)
(* one has got to: every pipe leads somewhere.                             *)
(*   new       run_api_server has not opened its sockets                   *)
(*   starting  start_subprocess starts the children                        *)
(*   waiting   start_subprocess takes acknowledgements from the queue      *)
(*   serving   uvicorn runs                                                *)
(*   stopping  uvicorn was interrupted and waits for its open responses    *)
(*   leaving   main is over; the interpreter joins the children            *)
(*   gone      the API process has ended                                   *)
(***************************************************************************)
EXTENDS Integers, FiniteSets

CONSTANT Counts  \* the values of --num-tokenizer

ASSUME LaunchAssumption == Counts \subseteq Nat

Scheduler == -1  \* the workers have their tokenizer_id

VARIABLES
  num_tokenizer,
  main,
  started,       \* the children that run or have run
  opened,        \* the processes that have opened their sockets
  loaded,        \* the children that have loaded their model or tokenizer
  ready,         \* the children that are in their loop
  over,          \* the children that have ended
  ack_queue,     \* how many acknowledgements are in the queue
  taken,         \* how many have been taken from it
  response,      \* what uvicorn still has to answer: "none", "open", or
                 \* "answered" when its last reply has reached the API process
  interrupted,   \* the processes that have a KeyboardInterrupt before them
  presses        \* how often Ctrl-C was pressed

startup == <<num_tokenizer, started, opened, loaded, ready, ack_queue, taken>>
signals == <<interrupted, presses>>
launch_vars == <<startup, main, over, response, signals>>

Presses == 2  \* bound

Api == -2
Detok == num_tokenizer
Children == {Scheduler} \cup 0..num_tokenizer
share_tokenizer == num_tokenizer = 0

(* The scheduler is started first, then the detokenizer, then the tokenizers. *)
Before(p) ==
  IF p = Scheduler THEN {}
  ELSE IF p = Detok THEN {Scheduler} ELSE {Scheduler, Detok} \cup 0..p - 1

LaunchInit ==
  /\ num_tokenizer \in Counts
  /\ main = "new"
  /\ started = {} /\ opened = {} /\ loaded = {} /\ ready = {} /\ over = {}
  /\ ack_queue = 0 /\ taken = 0
  /\ response = "none"
  /\ interrupted = {} /\ presses = 0

LaunchIdle ==
  /\ num_tokenizer = 0 /\ main = "gone"
  /\ started = {} /\ opened = {} /\ loaded = {} /\ ready = {} /\ over = {}
  /\ ack_queue = 0 /\ taken = 0
  /\ response = "none"
  /\ interrupted = {} /\ presses = 0

-----------------------------------------------------------------------------
TokenizerAddr == IF share_tokenizer THEN "detokenizer" ELSE "tokenizer"
Addresses == {"frontend", "backend", "detokenizer", TokenizerAddr}

backend_create_detokenizer_link == ~ share_tokenizer

PullQueue(addr, create) == [end |-> "pull", addr |-> addr, create |-> create]
PushQueue(addr, create) == [end |-> "push", addr |-> addr, create |-> create]

ApiSockets ==
  {PullQueue("frontend", TRUE), PushQueue(TokenizerAddr, ~ share_tokenizer)}

SchedulerSockets ==
  {PullQueue("backend", TRUE), PushQueue("detokenizer", backend_create_detokenizer_link)}

WorkerSockets(addr) ==
  {PushQueue("backend", FALSE), PushQueue("frontend", FALSE), PullQueue(addr, share_tokenizer)}

Sockets(p) ==
  IF p = Api THEN ApiSockets
  ELSE IF p = Scheduler THEN SchedulerSockets
  ELSE WorkerSockets(IF p = Detok THEN "detokenizer" ELSE TokenizerAddr)

-----------------------------------------------------------------------------
(* run_api_server; a template that does not load ends it before. *)
OpenApi ==
  /\ main = "new"
  /\ \/ main' = "starting" /\ opened' = opened \cup {Api}
     \/ main' = "leaving" /\ UNCHANGED opened
  /\ UNCHANGED <<num_tokenizer, started, loaded, ready, over, ack_queue, taken, response, signals>>

StartChild(p) ==
  /\ main = "starting" /\ p \notin started /\ Before(p) \subseteq started
  /\ started' = started \cup {p}
  /\ main' = IF started' = Children THEN "waiting" ELSE main
  /\ UNCHANGED <<num_tokenizer, opened, loaded, ready, over, ack_queue, taken, response, signals>>

(* Mutants: the scheduler is forgotten, the API process counts itself. *)
AcksOfWorkers == num_tokenizer + 1
AcksOfAll == num_tokenizer + 3

AcksExpected == num_tokenizer + 2

TakeAck ==
  /\ main = "waiting" /\ ack_queue > 0
  /\ ack_queue' = ack_queue - 1
  /\ taken' = taken + 1
  /\ main' = IF taken' = AcksExpected THEN "serving" ELSE main
  /\ UNCHANGED <<num_tokenizer, started, opened, loaded, ready, over, response, signals>>

(* uvicorn gives up, as when the port is in use. *)
ServerFails ==
  /\ main = "serving" /\ response = "none"
  /\ main' = "leaving"
  /\ UNCHANGED <<startup, over, response, signals>>

(* A client's request, the last reply to it, and the end of its response. *)
Request ==
  /\ main = "serving" /\ response = "none"
  /\ response' = "open"
  /\ UNCHANGED <<startup, main, over, signals>>

(* Replies come from the scheduler through the detokenizer. *)
LastReply ==
  /\ response = "open" /\ {Scheduler, Detok} \cap over = {}
  /\ response' = "answered"
  /\ UNCHANGED <<startup, main, over, signals>>

EndResponse ==
  /\ response = "answered"
  /\ response' = "none"
  /\ UNCHANGED <<startup, main, over, signals>>

ClientLeaves ==
  /\ response = "open"
  /\ response' = "none"
  /\ UNCHANGED <<startup, main, over, signals>>

(* uvicorn's shutdown, which has no timeout. *)
ServerStops ==
  /\ main = "stopping" /\ response = "none"
  /\ main' = "leaving"
  /\ UNCHANGED <<startup, over, response, signals>>

(* At its exit the interpreter joins the children, which are no daemons. *)
Join ==
  /\ main = "leaving" /\ started \subseteq over
  /\ main' = "gone"
  /\ UNCHANGED <<startup, over, response, signals>>

-----------------------------------------------------------------------------
(* The scheduler loads the model before it opens its sockets, a worker loads *)
(* the tokenizer after it.                                                   *)
Open(p) ==
  /\ p \in started \ (over \cup opened)
  /\ p = Scheduler => p \in loaded
  /\ opened' = opened \cup {p}
  /\ UNCHANGED <<num_tokenizer, main, started, loaded, ready, over, ack_queue, taken, response, signals>>

Load(p) ==
  /\ p \in started \ (over \cup loaded)
  /\ p # Scheduler => p \in opened
  /\ loaded' = loaded \cup {p}
  /\ UNCHANGED <<num_tokenizer, main, started, opened, ready, over, ack_queue, taken, response, signals>>

Acknowledge(p) ==
  /\ p \in (opened \cap loaded) \ (over \cup ready)
  /\ ready' = ready \cup {p}
  /\ ack_queue' = ack_queue + 1
  /\ UNCHANGED <<num_tokenizer, main, started, opened, loaded, over, taken, response, signals>>

(* An exception in a child ends it, before its acknowledgement or in its loop. *)
Raise(p) ==
  /\ p \in started \ over
  /\ over' = over \cup {p}
  /\ UNCHANGED <<startup, main, response, signals>>

-----------------------------------------------------------------------------
(* Ctrl-C, when all children are there: every process gets the signal.  It   *)
(* is pressed again when the API process has taken notice.                   *)
CtrlC ==
  /\ main \in {"waiting", "serving", "stopping", "leaving"} /\ Api \notin interrupted
  /\ presses < Presses
  /\ presses' = presses + 1
  /\ interrupted' = interrupted \cup {Api} \cup started
  /\ UNCHANGED <<startup, main, over, response>>

(* It ends the wait for acknowledgements and the join.  uvicorn takes it as  *)
(* the request to stop, and the second as the order to.                      *)
ApiInterrupted ==
  /\ Api \in interrupted
  /\ interrupted' = interrupted \ {Api}
  /\ \/ main = "serving" /\ main' = "stopping" /\ UNCHANGED response
     \/ main \in {"waiting", "stopping"} /\ main' = "leaving" /\ response' = "none"
     \/ main = "leaving" /\ main' = "gone" /\ UNCHANGED response
  /\ UNCHANGED <<startup, over, presses>>

ChildInterrupted(p) ==
  /\ p \in interrupted \ over
  /\ over' = over \cup {p}
  /\ UNCHANGED <<startup, main, response, signals>>

-----------------------------------------------------------------------------
Main == OpenApi \/ (\E p \in Children : StartChild(p)) \/ TakeAck \/ EndResponse \/ ServerStops \/ Join
Child(p) == Open(p) \/ Load(p) \/ Acknowledge(p)

LaunchNext ==
  \/ Main \/ ServerFails \/ Request \/ LastReply \/ ClientLeaves \/ CtrlC \/ ApiInterrupted
  \/ \E p \in Children : Child(p) \/ Raise(p) \/ ChildInterrupted(p)

EveryChild == {Scheduler} \cup UNION {0..n : n \in Counts}

(* Every process goes on and a signal arrives; nothing has to fail, and no   *)
(* client has to leave.                                                      *)
LaunchFairness ==
  /\ WF_launch_vars(Main) /\ WF_launch_vars(ApiInterrupted)
  /\ \A p \in EveryChild :
       /\ WF_launch_vars(p \in Children /\ Child(p))
       /\ WF_launch_vars(p \in Children /\ ChildInterrupted(p))

LaunchSpec == LaunchInit /\ [][LaunchNext]_launch_vars

-----------------------------------------------------------------------------
Ends(addr, end) == {p \in opened : \E s \in Sockets(p) : s.addr = addr /\ s.end = end}
Binders(addr) == {p \in opened : \E s \in Sockets(p) : s.addr = addr /\ s.create}

(* "so that we can guarantee all subprocesses are ready" (launch.py): when   *)
(* uvicorn runs, every child has got to its loop, and every address has one  *)
(* process that binds it, one that sends there and one that receives, with   *)
(* whatever number of tokenizers.                                            *)
ReadyMeansAll ==
  main = "serving" =>
    /\ ready = Children
    /\ \A addr \in Addresses :
         /\ Ends(addr, "push") # {} /\ Ends(addr, "pull") # {}
         /\ \E p \in Binders(addr) : Binders(addr) = {p}

(* Starting ends: the server serves, unless its template is bad, a child has *)
(* raised an exception, which leaves it waiting, or it is interrupted.  An   *)
(* interrupt ends all of its processes, in whatever order they take it, but   *)
(* the API process only if no response is open: the same signal ended those   *)
(* that were to answer, and it waits for its client to leave.  A second one   *)
(* ends it too.                                                              *)
Settles ==
  /\ <>(main \in {"serving", "leaving", "gone"} \/ over # {} \/ presses > 0)
  /\ presses > 0 ~> /\ started \subseteq over
                    /\ main = "gone" \/ (main = "stopping" /\ response = "open")
  /\ presses = Presses ~> main = "gone"
=============================================================================
