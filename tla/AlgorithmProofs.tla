--------------------------- MODULE AlgorithmProofs ---------------------------
(***************************************************************************)
(* The algorithms around the scheduler, each for every value of its        *)
(* constants: when the server serves, what a streamed answer adds up to,   *)
(* which outputs of experts a token gets, and what the slots of a linear-  *)
(* attention layer hold.  They share no variable.                          *)
(*                                                                         *)
(* What is shown of a sequence for every length is shown without induction *)
(* over it: a least counterexample among the natural numbers (LeastOf).    *)
(***************************************************************************)
EXTENDS Launch, Experts, ResponseParser, GatedDelta,
        SequenceTheorems, FiniteSetTheorems, WellFoundedInduction, TLAPS

-----------------------------------------------------------------------------
(* Launch.                                                                   *)

(* Who has started, opened, loaded and acknowledged, in this order.          *)
Ordered ==
  /\ num_tokenizer \in Nat
  /\ started \subseteq Children
  /\ opened \subseteq {Api} \cup started
  /\ loaded \subseteq started
  /\ ready \subseteq opened \cap loaded
  /\ main \in {"starting", "waiting", "serving"} => Api \in opened
  /\ main \in {"waiting", "serving"} => started = Children

(* Every acknowledgement is of a process of its own: it is in the queue or   *)
(* taken, and the server serves when it has taken what it expects.           *)
Acknowledged ==
  /\ IsFiniteSet(ready)
  /\ ack_queue \in Nat /\ taken \in Nat
  /\ ack_queue + taken = Cardinality(ready)
  /\ main = "serving" => taken = AcksExpected

LaunchInv == Ordered /\ Acknowledged

LEMMA ChildrenCounted ==
  ASSUME num_tokenizer \in Nat
  PROVE  /\ IsFiniteSet(Children) /\ Cardinality(Children) = num_tokenizer + 2
         /\ Api \notin Children
<1> DEFINE workers == 0..num_tokenizer
<1>1. IsFiniteSet(workers) /\ Cardinality(workers) = num_tokenizer + 1
  BY FS_Interval
<1>2. Scheduler \notin workers /\ Api \notin workers /\ Api # Scheduler
  BY DEF Scheduler, Api
<1> HIDE DEF workers
<1>3. /\ IsFiniteSet(workers \cup {Scheduler})
      /\ Cardinality(workers \cup {Scheduler}) =
           IF Scheduler \in workers THEN Cardinality(workers) ELSE Cardinality(workers) + 1
  BY <1>1, FS_AddElement
<1>4. Children = workers \cup {Scheduler}
  BY DEF Children, workers
<1> QED BY <1>1, <1>2, <1>3, <1>4

LEMMA InitLaunch == LaunchInit => LaunchInv
<1> SUFFICES ASSUME LaunchInit PROVE LaunchInv
  OBVIOUS
<1>1. num_tokenizer \in Nat
  BY LaunchAssumption DEF LaunchInit
<1>2. IsFiniteSet({}) /\ Cardinality({}) = 0
  BY FS_EmptySet
<1> QED BY <1>1, <1>2 DEF LaunchInit, LaunchInv, Ordered, Acknowledged

LEMMA NextOrdered == LaunchInv /\ [LaunchNext]_launch_vars => Ordered'
<1> SUFFICES ASSUME Ordered, [LaunchNext]_launch_vars PROVE Ordered'
  BY DEF LaunchInv
<1>0. Children' = Children /\ Api' = Api /\ num_tokenizer' = num_tokenizer
  BY DEF LaunchNext, launch_vars, startup, Main, OpenApi, StartChild, TakeAck, EndResponse, ServerStops, Join,
         ServerFails, Request, LastReply, ClientLeaves, CtrlC, ApiInterrupted,
         Child, Open, Load, Acknowledge, Raise, ChildInterrupted, Children, Api
<1>1. CASE OpenApi
  BY <1>0, <1>1 DEF OpenApi, Ordered
<1>2. ASSUME NEW p \in Children, StartChild(p) PROVE Ordered'
  BY <1>0, <1>2 DEF StartChild, Ordered
<1>3. CASE TakeAck \/ UNCHANGED launch_vars
  BY <1>0, <1>3 DEF TakeAck, launch_vars, startup, Ordered
<1>4. CASE ServerStops \/ Join \/ ServerFails \/ ApiInterrupted
  BY <1>0, <1>4 DEF ServerStops, Join, ServerFails, ApiInterrupted, startup, Ordered
<1>5. CASE Request \/ LastReply \/ EndResponse \/ ClientLeaves \/ CtrlC
  BY <1>0, <1>5 DEF Request, LastReply, EndResponse, ClientLeaves, CtrlC, startup, Ordered
<1>6. ASSUME NEW p \in Children, Child(p) PROVE Ordered'
  BY <1>0, <1>6 DEF Child, Open, Load, Acknowledge, Ordered
<1>7. ASSUME NEW p \in Children, Raise(p) \/ ChildInterrupted(p) PROVE Ordered'
  BY <1>0, <1>7 DEF Raise, ChildInterrupted, startup, Ordered
<1> QED BY <1>1, <1>2, <1>3, <1>4, <1>5, <1>6, <1>7 DEF LaunchNext, Main

(* An acknowledgement is put once by a process, and none is taken twice.     *)
LEMMA NextAcknowledged == LaunchInv /\ [LaunchNext]_launch_vars => Acknowledged'
<1> SUFFICES ASSUME Ordered, Acknowledged, [LaunchNext]_launch_vars PROVE Acknowledged'
  BY DEF LaunchInv
<1>0. AcksExpected' = AcksExpected
  BY DEF LaunchNext, launch_vars, startup, Main, OpenApi, StartChild, TakeAck, EndResponse, ServerStops, Join,
         ServerFails, Request, LastReply, ClientLeaves, CtrlC, ApiInterrupted,
         Child, Open, Load, Acknowledge, Raise, ChildInterrupted, AcksExpected
<1>1. CASE OpenApi \/ UNCHANGED launch_vars
  BY <1>0, <1>1 DEF OpenApi, launch_vars, startup, Acknowledged
<1>2. CASE ServerStops \/ Join \/ ServerFails \/ ApiInterrupted
  BY <1>0, <1>2 DEF ServerStops, Join, ServerFails, ApiInterrupted, startup, Acknowledged
<1>3. CASE Request \/ LastReply \/ EndResponse \/ ClientLeaves \/ CtrlC
  BY <1>0, <1>3 DEF Request, LastReply, EndResponse, ClientLeaves, CtrlC, startup, Acknowledged
<1>4. ASSUME NEW p \in Children, StartChild(p) \/ Open(p) \/ Load(p) \/ Raise(p) \/ ChildInterrupted(p)
      PROVE  Acknowledged'
  BY <1>0, <1>4 DEF StartChild, Open, Load, Raise, ChildInterrupted, startup, Acknowledged
<1>5. CASE TakeAck
  BY <1>0, <1>5 DEF TakeAck, Acknowledged
<1>6. ASSUME NEW p \in Children, Acknowledge(p) PROVE Acknowledged'
  <2>1. /\ IsFiniteSet(ready \cup {p})
        /\ Cardinality(ready \cup {p}) = IF p \in ready THEN Cardinality(ready) ELSE Cardinality(ready) + 1
    BY FS_AddElement DEF Acknowledged
  <2>2. p \notin ready /\ ready' = ready \cup {p} /\ ack_queue' = ack_queue + 1
        /\ taken' = taken /\ main' = main
    BY <1>6 DEF Acknowledge
  <2>3. Cardinality(ready \cup {p}) = Cardinality(ready) + 1
    BY <2>1, <2>2
  <2> QED BY <1>0, <2>1, <2>2, <2>3 DEF Acknowledged
<1> QED BY <1>1, <1>2, <1>3, <1>4, <1>5, <1>6 DEF LaunchNext, Main, Child

(* Who sends to an address, receives there, and binds it.                    *)
Has(p, addr, end) == \E s \in Sockets(p) : s.addr = addr /\ s.end = end
Creates(p, addr) == \E s \in Sockets(p) : s.addr = addr /\ s.create

LEMMA SocketsOf ==
  ASSUME NEW p, NEW addr
  PROVE  /\ p = Api =>
              /\ Has(p, addr, "push") <=> addr = TokenizerAddr
              /\ Has(p, addr, "pull") <=> addr = "frontend"
              /\ Creates(p, addr) <=> addr = "frontend" \/ (addr = TokenizerAddr /\ ~ share_tokenizer)
         /\ p = Scheduler /\ p # Api =>
              /\ Has(p, addr, "push") <=> addr = "detokenizer"
              /\ Has(p, addr, "pull") <=> addr = "backend"
              /\ Creates(p, addr) <=> addr = "backend" \/ (addr = "detokenizer" /\ ~ share_tokenizer)
         /\ p # Scheduler /\ p # Api =>
              LET own == IF p = Detok THEN "detokenizer" ELSE TokenizerAddr
              IN /\ Has(p, addr, "push") <=> addr \in {"backend", "frontend"}
                 /\ Has(p, addr, "pull") <=> addr = own
                 /\ Creates(p, addr) <=> addr = own /\ share_tokenizer
<1>1. CASE p = Api
  <2> DEFINE own == TokenizerAddr
             creates == ~ share_tokenizer
  <2>1. Sockets(p) = {PullQueue("frontend", TRUE), PushQueue(own, creates)}
    BY <1>1 DEF Sockets, ApiSockets
  <2>2. creates <=> ~ share_tokenizer
    OBVIOUS
  <2> HIDE DEF own, creates
  <2>3. /\ Has(p, addr, "push") <=> addr = own
        /\ Has(p, addr, "pull") <=> addr = "frontend"
        /\ Creates(p, addr) <=> addr = "frontend" \/ (addr = own /\ creates)
    BY <2>1 DEF Has, Creates, PullQueue, PushQueue
  <2> QED BY <1>1, <2>2, <2>3 DEF own
<1>2. CASE p = Scheduler /\ p # Api
  <2> DEFINE creates == ~ share_tokenizer
  <2>1. Sockets(p) = {PullQueue("backend", TRUE), PushQueue("detokenizer", creates)}
    BY <1>2 DEF Sockets, SchedulerSockets, backend_create_detokenizer_link
  <2>2. creates <=> ~ share_tokenizer
    OBVIOUS
  <2> HIDE DEF creates
  <2>3. /\ Has(p, addr, "push") <=> addr = "detokenizer"
        /\ Has(p, addr, "pull") <=> addr = "backend"
        /\ Creates(p, addr) <=> addr = "backend" \/ (addr = "detokenizer" /\ creates)
    BY <2>1 DEF Has, Creates, PullQueue, PushQueue
  <2> QED BY <1>2, <2>2, <2>3
<1>3. CASE p # Scheduler /\ p # Api
  <2> DEFINE own == IF p = Detok THEN "detokenizer" ELSE TokenizerAddr
  <2>1. Sockets(p) = {PushQueue("backend", FALSE), PushQueue("frontend", FALSE),
                      PullQueue(own, share_tokenizer)}
    BY <1>3 DEF Sockets, WorkerSockets
  <2> HIDE DEF own
  <2>2. /\ Has(p, addr, "push") <=> addr \in {"backend", "frontend"}
        /\ Has(p, addr, "pull") <=> addr = own
        /\ Creates(p, addr) <=> addr = own /\ share_tokenizer
    BY <2>1 DEF Has, Creates, PullQueue, PushQueue
  <2> QED BY <1>3, <2>2 DEF own
<1> QED BY <1>1, <1>2, <1>3

(* With all of the processes, every address is bound and used from both ends. *)
LEMMA AllLinked ==
  ASSUME num_tokenizer \in Nat, opened = {Api} \cup Children, NEW addr \in Addresses
  PROVE  /\ Ends(addr, "push") # {} /\ Ends(addr, "pull") # {}
         /\ \E p \in Binders(addr) : Binders(addr) = {p}
<1> DEFINE own(p) == IF p = Detok THEN "detokenizer" ELSE TokenizerAddr
<1>1. /\ Api \in opened /\ Scheduler \in opened /\ Detok \in opened /\ 0 \in opened
      /\ Api # Scheduler /\ Detok # Api /\ Detok # Scheduler /\ 0 # Api /\ 0 # Scheduler
      /\ 0 = Detok <=> share_tokenizer
  BY DEF Children, Detok, Api, Scheduler, share_tokenizer
<1>2. /\ TokenizerAddr = IF share_tokenizer THEN "detokenizer" ELSE "tokenizer"
      /\ addr \in {"frontend", "backend", "detokenizer", TokenizerAddr}
  BY DEF Addresses, TokenizerAddr
<1>3. /\ Ends(addr, "push") = {p \in opened : Has(p, addr, "push")}
      /\ Ends(addr, "pull") = {p \in opened : Has(p, addr, "pull")}
      /\ Binders(addr) = {p \in opened : Creates(p, addr)}
  BY DEF Ends, Binders, Has, Creates
<1>4. Ends(addr, "push") # {}
  <2>1. \/ Has(Api, addr, "push") \/ Has(Scheduler, addr, "push") \/ Has(Detok, addr, "push")
    BY <1>1, <1>2, SocketsOf
  <2> QED BY <1>1, <1>3, <2>1
<1>5. Ends(addr, "pull") # {}
  <2>1. \/ Has(Api, addr, "pull") \/ Has(Scheduler, addr, "pull") \/ Has(Detok, addr, "pull")
        \/ Has(0, addr, "pull")
    BY <1>1, <1>2, SocketsOf
  <2> QED BY <1>1, <1>3, <2>1
<1> DEFINE binder == IF addr = "frontend" THEN Api
                     ELSE IF addr = "backend" THEN Scheduler
                     ELSE IF addr = "detokenizer" THEN (IF share_tokenizer THEN Detok ELSE Scheduler)
                     ELSE Api
<1>6. ASSUME NEW p \in opened PROVE Creates(p, addr) <=> p = binder
  <2>1. share_tokenizer => p \in {Api, Scheduler, Detok}
    BY DEF Children, Detok, Scheduler, share_tokenizer
  <2>2. CASE p = Api
    BY <1>1, <1>2, <2>2, SocketsOf
  <2>3. CASE p = Scheduler
    BY <1>1, <1>2, <2>3, SocketsOf
  <2>4. CASE p # Api /\ p # Scheduler
    BY <1>1, <1>2, <2>1, <2>4, SocketsOf
  <2> QED BY <2>2, <2>3, <2>4
<1>7. binder \in opened
  BY <1>1
<1> HIDE DEF binder
<1> QED BY <1>3, <1>4, <1>5, <1>6, <1>7

(* "so that we can guarantee all subprocesses are ready": counting to        *)
(* num_tokenizers + 2 is enough, because every process acknowledges once and *)
(* only when it has opened its sockets and loaded what it needs; whichever   *)
(* processes fail or are interrupted, and however many tokenizers there are. *)
THEOREM ServesWhenReady == LaunchSpec => []ReadyMeansAll
<1>1. LaunchInv /\ [LaunchNext]_launch_vars => LaunchInv'
  BY NextOrdered, NextAcknowledged DEF LaunchInv
<1>2. LaunchInv => ReadyMeansAll
  <2> SUFFICES ASSUME LaunchInv, main = "serving" PROVE ReadyMeansAll
    BY DEF ReadyMeansAll
  <2>1. Ordered /\ Acknowledged
    BY DEF LaunchInv
  <2>2. /\ IsFiniteSet(Children) /\ Cardinality(Children) = num_tokenizer + 2
    BY <2>1, ChildrenCounted DEF Ordered
  <2>3. ready \subseteq Children
    BY <2>1, ChildrenCounted DEF Ordered
  <2>4. Cardinality(ready) >= num_tokenizer + 2
    BY <2>1 DEF Ordered, Acknowledged, AcksExpected
  <2>5. ready = Children
    <3>1. Cardinality(ready) <= Cardinality(Children)
          /\ (Cardinality(ready) = Cardinality(Children) => ready = Children)
      BY <2>2, <2>3, FS_Subset
    <3>2. Cardinality(ready) \in Nat
      BY <2>1, FS_CardinalityType DEF Acknowledged
    <3> QED BY <2>1, <2>2, <2>4, <3>1, <3>2 DEF Ordered
  <2>6. opened = {Api} \cup Children /\ num_tokenizer \in Nat
    BY <2>1, <2>5 DEF Ordered
  <2> QED BY <2>5, <2>6, AllLinked DEF ReadyMeansAll
<1> QED BY InitLaunch, <1>1, <1>2, PTL DEF LaunchSpec

-----------------------------------------------------------------------------
(* Sequences, element by element.                                           *)

LEMMA Slice ==
  ASSUME NEW S, NEW s \in Seq(S), NEW a \in 0..Len(s), NEW b \in a..Len(s)
  PROVE  /\ SubSeq(s, a + 1, b) \in Seq(S) /\ Len(SubSeq(s, a + 1, b)) = b - a
         /\ \A i \in 1..b - a : SubSeq(s, a + 1, b)[i] = s[a + i]
<1>1. Len(s) \in Nat /\ a \in Nat /\ b \in Nat /\ a <= b /\ b <= Len(s)
  BY LenProperties
<1>2. \A i \in (a + 1)..b : s[i] \in S
  BY <1>1, ElementOfSeq
<1> QED BY <1>1, <1>2, SubSeqProperties

LEMMA Joined ==
  ASSUME NEW S, NEW s \in Seq(S), NEW t \in Seq(S)
  PROVE  /\ s \o t \in Seq(S) /\ Len(s \o t) = Len(s) + Len(t)
         /\ \A i \in 1..Len(s) : (s \o t)[i] = s[i]
         /\ \A i \in 1..Len(t) : (s \o t)[Len(s) + i] = t[i]
  OBVIOUS

LEMMA JoinedAt ==
  ASSUME NEW S, NEW s \in Seq(S), NEW t \in Seq(S), NEW i \in 1..Len(s) + Len(t)
  PROVE  (s \o t)[i] = IF i <= Len(s) THEN s[i] ELSE t[i - Len(s)]
  OBVIOUS

SameJoined(a, b, c) == (a \o b) \o c = a \o (b \o c)

LEMMA JoinedTwice ==
  ASSUME NEW S, NEW a \in Seq(S), NEW b \in Seq(S), NEW c \in Seq(S)
  PROVE  SameJoined(a, b, c)
<1>1. Len(a) \in Nat /\ Len(b) \in Nat /\ Len(c) \in Nat
  BY LenProperties
<1>2. a \o b \in Seq(S) /\ Len(a \o b) = Len(a) + Len(b)
  BY Joined
<1>3. b \o c \in Seq(S) /\ Len(b \o c) = Len(b) + Len(c)
  BY Joined
<1>4. (a \o b) \o c \in Seq(S) /\ Len((a \o b) \o c) = (Len(a) + Len(b)) + Len(c)
  BY <1>2, Joined
<1>5. a \o (b \o c) \in Seq(S) /\ Len(a \o (b \o c)) = Len(a) + (Len(b) + Len(c))
  BY <1>3, Joined
<1>6. ASSUME NEW i \in 1..(Len(a) + Len(b)) + Len(c)
      PROVE  ((a \o b) \o c)[i] = (a \o (b \o c))[i]
  <2>1. ((a \o b) \o c)[i] = IF i <= Len(a) + Len(b) THEN (a \o b)[i] ELSE c[i - (Len(a) + Len(b))]
    BY <1>2, JoinedAt
  <2>2. i \in 1..Len(a) + Len(b \o c)
    BY <1>1, <1>3
  <2>3. (a \o (b \o c))[i] = IF i <= Len(a) THEN a[i] ELSE (b \o c)[i - Len(a)]
    BY <1>3, <2>2, JoinedAt
  <2>4. i <= Len(a) + Len(b) => (a \o b)[i] = IF i <= Len(a) THEN a[i] ELSE b[i - Len(a)]
    <3>1. i <= Len(a) + Len(b) => i \in 1..Len(a) + Len(b)
      BY <1>1
    <3> QED BY <3>1, JoinedAt
  <2> DEFINE j == i - Len(a)
  <2>5. ~ i <= Len(a) => (b \o c)[j] = IF j <= Len(b) THEN b[j] ELSE c[j - Len(b)]
    <3>1. ~ i <= Len(a) => j \in 1..Len(b) + Len(c)
      BY <1>1
    <3> HIDE DEF j
    <3> QED BY <3>1, JoinedAt
  <2>6. /\ j <= Len(b) <=> i <= Len(a) + Len(b)
        /\ j - Len(b) = i - (Len(a) + Len(b))
        /\ i <= Len(a) => i <= Len(a) + Len(b)
    BY <1>1
  <2> HIDE DEF j
  <2>7. j = i - Len(a)
    BY DEF j
  <2> QED BY <2>1, <2>3, <2>4, <2>5, <2>6, <2>7
<1>7. (Len(a) + Len(b)) + Len(c) = Len(a) + (Len(b) + Len(c))
  BY <1>1
<1> QED BY <1>4, <1>5, <1>6, <1>7, SeqEqual DEF SameJoined

(* The natural numbers are well founded.                                     *)
LEMMA LeastOf ==
  ASSUME NEW N, N \subseteq Nat, N # {}
  PROVE  \E k \in N : \A m \in N : k <= m
<1> DEFINE Less == OpToRel(<, Nat)
<1>1. \A m, k \in Nat : m < k => <<m, k>> \in Less
  BY Zenon DEF OpToRel
<1>2. IsWellFoundedOn(Less, Nat)
  BY NatLessThanWellFounded, Zenon
<1> HIDE DEF Less
<1>3. PICK k \in N : \A m \in N : ~ (<<m, k>> \in Less)
  BY <1>2, WFMin
<1>4. \A m \in N : ~ (m < k)
  BY <1>1, <1>3
<1> QED BY <1>3, <1>4

-----------------------------------------------------------------------------
(* Streamed answers.  Where the printed part of a text ends and begins.      *)

EndsAt(text, n) ==
  /\ n \in 0..Len(text)
  /\ \A i \in n + 1 .. Len(text) : text[i] = Blank
  /\ n # 0 => text[n] # Blank

StartsAt(text, n) ==
  /\ n \in 0..Len(text)
  /\ \A i \in 1..n : text[i] = Blank
  /\ n # Len(text) => text[n + 1] # Blank

Rest(text) == SubSeq(text, Len(RStrip(text)) + 1, Len(text))

(* What is stripped off a text, and what is left of it.                      *)
RightParts(S, text, n) ==
  /\ RStrip(text) \in Seq(S) /\ Len(RStrip(text)) = n
  /\ \A i \in 1..n : RStrip(text)[i] = text[i]
  /\ Rest(text) \in Seq(S) /\ Len(Rest(text)) = Len(text) - n
  /\ \A i \in 1..Len(text) - n : Rest(text)[i] = text[n + i]

LeftParts(S, text, n) ==
  /\ LStrip(text) \in Seq(S) /\ Len(LStrip(text)) = Len(text) - n
  /\ \A i \in 1..Len(text) - n : LStrip(text)[i] = text[n + i]

LEMMA PrintedEnd ==
  ASSUME NEW S, NEW text \in Seq(S)
  PROVE  \E n : EndsAt(text, n)
<1> DEFINE N == {n \in 0..Len(text) : \A i \in n + 1 .. Len(text) : text[i] = Blank}
<1>1. Len(text) \in Nat /\ Len(text) \in N
  BY LenProperties
<1>a. N \subseteq Nat /\ N # {}
  BY <1>1
<1>2. PICK n \in N : \A m \in N : n <= m
  <2> HIDE DEF N
  <2> QED BY <1>a, LeastOf
<1>3. ASSUME n # 0, text[n] = Blank PROVE FALSE
  <2>1. n - 1 \in 0..Len(text)
    BY <1>1, <1>2, <1>3
  <2>2. \A i \in n .. Len(text) : text[i] = Blank
    BY <1>1, <1>2, <1>3
  <2>3. n - 1 \in N
    BY <1>1, <2>1, <2>2
  <2>4. n <= n - 1 /\ n \in Nat
    <3> HIDE DEF N
    <3> QED BY <1>a, <1>2, <2>3
  <2> QED BY <2>4
<1> QED BY <1>2, <1>3 DEF EndsAt

LEMMA PrintedStart ==
  ASSUME NEW S, NEW text \in Seq(S)
  PROVE  \E n : StartsAt(text, n)
<1> DEFINE N == {n \in 0..Len(text) : n = Len(text) \/ text[n + 1] # Blank}
<1>1. Len(text) \in Nat /\ Len(text) \in N
  BY LenProperties
<1>a. N \subseteq Nat /\ N # {}
  BY <1>1
<1>2. PICK n \in N : \A m \in N : n <= m
  <2> HIDE DEF N
  <2> QED BY <1>a, LeastOf
<1>3. ASSUME NEW i \in 1..n, text[i] # Blank PROVE FALSE
  <2>1. i - 1 \in N
    BY <1>1, <1>2, <1>3
  <2>2. n <= i - 1 /\ n \in Nat /\ i \in 1..n
    <3> HIDE DEF N
    <3> QED BY <1>a, <1>2, <1>3, <2>1
  <2> QED BY <2>2
<1> QED BY <1>2, <1>3 DEF StartsAt

LEMMA RightStripped ==
  ASSUME NEW S, NEW text \in Seq(S), NEW n, EndsAt(text, n)
  PROVE  RightParts(S, text, n)
<1>1. Len(text) \in Nat /\ n \in 0..Len(text) /\ n \in Nat
  BY LenProperties DEF EndsAt
<1>2. /\ SubSeq(text, 1, n) \in Seq(S) /\ Len(SubSeq(text, 1, n)) = n
      /\ \A i \in 1..n : SubSeq(text, 1, n)[i] = text[i]
  BY <1>1, Slice
<1>3. RStrip(text) = SubSeq(text, 1, n)
  <2>1. CASE n = 0
    <3>1. Printed(text) = {}
      BY <1>1, <2>1 DEF Printed, EndsAt
    <3>2. SubSeq(text, 1, 0) = <<>>
      BY <1>2, <2>1, EmptySeq
    <3> QED BY <2>1, <3>1, <3>2 DEF RStrip
  <2>2. CASE n # 0
    <3>1. n \in Printed(text) /\ \A j \in Printed(text) : j <= n
      BY <1>1, <2>2 DEF Printed, EndsAt
    <3>2. Printed(text) \subseteq Nat
      BY <1>1 DEF Printed
    <3>3. (CHOOSE i \in Printed(text) : \A j \in Printed(text) : j <= i) = n
      <4> DEFINE c == CHOOSE i \in Printed(text) : \A j \in Printed(text) : j <= i
      <4>1. c \in Printed(text) /\ \A j \in Printed(text) : j <= c
        BY <3>1
      <4> HIDE DEF c
      <4>2. c = n
        BY <3>1, <3>2, <4>1
      <4> QED BY <4>2 DEF c
    <3> QED BY <3>1, <3>3 DEF RStrip
  <2> QED BY <2>1, <2>2
<1>4. /\ SubSeq(text, n + 1, Len(text)) \in Seq(S)
      /\ Len(SubSeq(text, n + 1, Len(text))) = Len(text) - n
      /\ \A i \in 1..Len(text) - n : SubSeq(text, n + 1, Len(text))[i] = text[n + i]
  BY <1>1, Slice
<1>5. Rest(text) = SubSeq(text, n + 1, Len(text))
  BY <1>2, <1>3 DEF Rest
<1> QED BY <1>2, <1>3, <1>4, <1>5 DEF RightParts

LEMMA LeftStripped ==
  ASSUME NEW S, NEW text \in Seq(S), NEW n, StartsAt(text, n)
  PROVE  /\ LeftParts(S, text, n)
         /\ Printed(text) = {} <=> n = Len(text)
         /\ LStrip(text) = <<>> <=> n = Len(text)
<1>1. Len(text) \in Nat /\ n \in 0..Len(text) /\ n \in Nat
  BY LenProperties DEF StartsAt
<1>2. /\ SubSeq(text, n + 1, Len(text)) \in Seq(S)
      /\ Len(SubSeq(text, n + 1, Len(text))) = Len(text) - n
      /\ \A i \in 1..Len(text) - n : SubSeq(text, n + 1, Len(text))[i] = text[n + i]
  BY <1>1, Slice
<1>3. LStrip(text) = SubSeq(text, n + 1, Len(text)) /\ (Printed(text) = {} <=> n = Len(text))
  <2>1. CASE n = Len(text)
    <3>1. Printed(text) = {}
      BY <1>1, <2>1 DEF Printed, StartsAt
    <3>2. SubSeq(text, n + 1, Len(text)) = <<>>
      BY <1>1, <1>2, <2>1, EmptySeq
    <3> QED BY <2>1, <3>1, <3>2 DEF LStrip
  <2>2. CASE n # Len(text)
    <3>1. n + 1 \in Printed(text) /\ \A j \in Printed(text) : n + 1 <= j
      BY <1>1, <2>2 DEF Printed, StartsAt
    <3>2. Printed(text) \subseteq Nat
      BY <1>1 DEF Printed
    <3>3. (CHOOSE i \in Printed(text) : \A j \in Printed(text) : i <= j) = n + 1
      <4> DEFINE c == CHOOSE i \in Printed(text) : \A j \in Printed(text) : i <= j
      <4>1. c \in Printed(text) /\ \A j \in Printed(text) : c <= j
        BY <3>1
      <4> HIDE DEF c
      <4>2. c = n + 1
        BY <1>1, <3>1, <3>2, <4>1
      <4> QED BY <4>2 DEF c
    <3> QED BY <2>2, <3>1, <3>3 DEF LStrip
  <2> QED BY <2>1, <2>2
<1>4. LStrip(text) = <<>> <=> Len(LStrip(text)) = 0
  BY <1>2, <1>3, EmptySeq
<1>5. /\ Len(LStrip(text)) = Len(text) - n /\ LStrip(text) \in Seq(S)
      /\ \A i \in 1..Len(text) - n : LStrip(text)[i] = text[n + i]
  BY <1>2, <1>3
<1>6. Len(text) - n = 0 <=> n = Len(text)
  BY <1>1
<1> QED BY <1>3, <1>4, <1>5, <1>6 DEF LeftParts

(* Blanks in front of a text are kept if there is more to it.                *)
LEMMA BlankBefore ==
  ASSUME NEW S, NEW p \in Seq(S), NEW t \in Seq(S), \A i \in 1..Len(p) : p[i] = Blank
  PROVE  RStrip(p \o t) = IF RStrip(t) = <<>> THEN <<>> ELSE p \o RStrip(t)
<1>1. PICK n : EndsAt(t, n)
  BY PrintedEnd
<1> DEFINE w == p \o t
<1>2. /\ w \in Seq(S) /\ Len(w) = Len(p) + Len(t)
      /\ \A i \in 1..Len(p) : w[i] = p[i]
      /\ \A i \in 1..Len(t) : w[Len(p) + i] = t[i]
  BY Joined
<1>3. Len(p) \in Nat /\ Len(t) \in Nat /\ n \in Nat /\ n <= Len(t)
  BY <1>1, LenProperties DEF EndsAt
<1>4. RStrip(t) \in Seq(S) /\ Len(RStrip(t)) = n /\ \A i \in 1..n : RStrip(t)[i] = t[i]
  <2>1. RightParts(S, t, n)
    BY <1>1, RightStripped
  <2> QED BY <2>1 DEF RightParts
<1>5. RStrip(t) = <<>> <=> n = 0
  BY <1>4, EmptySeq
<1> HIDE DEF w
<1>6. \A i \in Len(p) + n + 1 .. Len(w) : w[i] = Blank
  <2> TAKE i \in Len(p) + n + 1 .. Len(w)
  <2>1. i - Len(p) \in n + 1 .. Len(t) /\ i - Len(p) \in 1..Len(t) /\ Len(p) + (i - Len(p)) = i
    BY <1>2, <1>3
  <2>2. t[i - Len(p)] = Blank
    BY <1>1, <2>1 DEF EndsAt
  <2> QED BY <1>2, <2>1, <2>2
<1>7. CASE n = 0
  <2>1. EndsAt(w, 0)
    <3>1. ASSUME NEW i \in 1..Len(w) PROVE w[i] = Blank
      <4>1. CASE i <= Len(p)
        <5>1. i \in 1..Len(p)
          BY <1>3, <4>1
        <5> QED BY <1>2, <5>1
      <4>2. CASE ~ i <= Len(p)
        <5>1. i \in Len(p) + n + 1 .. Len(w)
          BY <1>2, <1>3, <1>7, <4>2
        <5> QED BY <1>6, <5>1
      <4> QED BY <4>1, <4>2
    <3> QED BY <1>2, <1>3, <3>1 DEF EndsAt
  <2>2. RStrip(w) \in Seq(S) /\ Len(RStrip(w)) = 0
    <3>1. RightParts(S, w, 0)
      BY <1>2, <2>1, RightStripped
    <3> QED BY <3>1 DEF RightParts
  <2>3. RStrip(w) = <<>>
    BY <2>2, EmptySeq
  <2> QED BY <1>5, <1>7, <2>3 DEF w
<1>8. CASE n # 0
  <2> DEFINE k == Len(p) + n
  <2>1. k \in 0..Len(w) /\ k # 0 /\ k = Len(p) + n
    BY <1>2, <1>3, <1>8
  <2>2. w[Len(p) + n] # Blank
    <3>1. n \in 1..Len(t) /\ t[n] # Blank
      BY <1>1, <1>3, <1>8 DEF EndsAt
    <3> QED BY <1>2, <3>1
  <2>3. EndsAt(w, k)
    BY <1>6, <2>1, <2>2 DEF EndsAt
  <2> HIDE DEF k
  <2>4. RStrip(w) \in Seq(S) /\ Len(RStrip(w)) = k /\ \A i \in 1..k : RStrip(w)[i] = w[i]
    <3>1. RightParts(S, w, k)
      BY <1>2, <2>3, RightStripped
    <3> QED BY <3>1 DEF RightParts
  <2>5. /\ p \o RStrip(t) \in Seq(S) /\ Len(p \o RStrip(t)) = k
    BY <1>4, <2>1, Joined
  <2>6. ASSUME NEW i \in 1..k PROVE RStrip(w)[i] = (p \o RStrip(t))[i]
    <3>1. RStrip(w)[i] = w[i]
      BY <2>4
    <3>2. i \in 1..Len(p) + Len(RStrip(t)) /\ i \in 1..Len(p) + Len(t)
      BY <1>3, <1>4, <2>1
    <3>3. w[i] = IF i <= Len(p) THEN p[i] ELSE t[i - Len(p)]
      BY <3>2, JoinedAt DEF w
    <3>4. (p \o RStrip(t))[i] = IF i <= Len(p) THEN p[i] ELSE RStrip(t)[i - Len(p)]
      BY <1>4, <3>2, JoinedAt
    <3>5. ~ i <= Len(p) => i - Len(p) \in 1..n
      BY <1>3, <2>1
    <3> QED BY <1>4, <3>1, <3>3, <3>4, <3>5
  <2>7. RStrip(w) = p \o RStrip(t)
    BY <2>4, <2>5, <2>6, SeqEqual
  <2> QED BY <1>5, <1>8, <2>7 DEF w
<1> QED BY <1>7, <1>8

LEMMA RestIsBlank ==
  ASSUME NEW S, NEW s \in Seq(S)
  PROVE  \A i \in 1..Len(Rest(s)) : Rest(s)[i] = Blank
<1>1. PICK n : EndsAt(s, n)
  BY PrintedEnd
<1>2. RightParts(S, s, n)
  BY <1>1, RightStripped
<1>3. Len(s) \in Nat /\ n \in Nat /\ n <= Len(s)
  BY <1>1, LenProperties DEF EndsAt
<1> TAKE i \in 1..Len(Rest(s))
<1>4. i \in 1..Len(s) - n /\ n + i \in n + 1 .. Len(s)
  BY <1>2, <1>3 DEF RightParts
<1> QED BY <1>1, <1>2, <1>4 DEF RightParts, EndsAt

(* Text that comes after: what was blank so far may turn out to be inside.   *)
LEMMA RightJoined ==
  ASSUME NEW S, NEW s \in Seq(S), NEW t \in Seq(S)
  PROVE  /\ RStrip(s \o t) = RStrip(s) \o RStrip(Rest(s) \o t)
         /\ Rest(s \o t) = Rest(Rest(s) \o t)
<1>1. PICK n : EndsAt(s, n)
  BY PrintedEnd
<1>2. /\ RStrip(s) \in Seq(S) /\ Len(RStrip(s)) = n /\ \A i \in 1..n : RStrip(s)[i] = s[i]
      /\ Rest(s) \in Seq(S) /\ Len(Rest(s)) = Len(s) - n
      /\ \A i \in 1..Len(s) - n : Rest(s)[i] = s[n + i]
  <2>1. RightParts(S, s, n)
    BY <1>1, RightStripped
  <2> QED BY <2>1 DEF RightParts
<1> DEFINE z == Rest(s) \o t
<1> DEFINE w == s \o t
<1>3. /\ Len(s) \in Nat /\ Len(t) \in Nat /\ n \in Nat /\ n <= Len(s)
  BY <1>1, LenProperties DEF EndsAt
<1>b. Len(Rest(s)) = Len(s) - n /\ Rest(s) \in Seq(S)
  BY <1>2
<1>4. /\ z \in Seq(S) /\ Len(z) = Len(s) - n + Len(t)
      /\ w \in Seq(S) /\ Len(w) = Len(s) + Len(t)
      /\ \A i \in 1..Len(s) : w[i] = s[i]
  BY <1>b, Joined
<1>c. Len(z) = Len(s) - n + Len(t)
  BY <1>4
<1>5. \A i \in 1..Len(z) : z[i] = w[n + i]
  <2> TAKE i \in 1..Len(z)
  <2>1. CASE i <= Len(s) - n
    <3>1. z[i] = Rest(s)[i]
      BY <1>2, <1>3, <2>1, Joined
    <3>2. Rest(s)[i] = s[n + i]
      BY <1>2, <1>3, <2>1
    <3>3. n + i \in 1..Len(s)
      BY <1>3, <2>1
    <3> QED BY <1>4, <3>1, <3>2, <3>3
  <2>2. CASE ~ i <= Len(s) - n
    <3>1. /\ i \in 1..Len(Rest(s)) + Len(t) /\ ~ i <= Len(Rest(s))
          /\ n + i \in 1..Len(s) + Len(t) /\ ~ n + i <= Len(s)
          /\ (n + i) - Len(s) = i - Len(Rest(s))
      BY <1>b, <1>3, <1>c, <2>2
    <3>2. z[i] = t[i - Len(Rest(s))]
      BY <1>2, <3>1, JoinedAt
    <3>3. w[n + i] = t[(n + i) - Len(s)]
      <4> DEFINE j == n + i
      <4>1. j \in 1..Len(s) + Len(t) /\ ~ j <= Len(s)
        BY <3>1
      <4> HIDE DEF j
      <4>2. (s \o t)[j] = IF j <= Len(s) THEN s[j] ELSE t[j - Len(s)]
        BY <4>1, JoinedAt
      <4>3. (s \o t)[j] = t[j - Len(s)]
        BY <4>1, <4>2
      <4> QED BY <4>3 DEF j
    <3> QED BY <3>1, <3>2, <3>3
  <2> QED BY <2>1, <2>2
<1> HIDE DEF z, w
<1>6. PICK k : EndsAt(z, k)
  BY <1>4, PrintedEnd
<1>7. k \in Nat /\ k <= Len(z) /\ k \in 0..Len(z)
  BY <1>4, <1>6, LenProperties DEF EndsAt
<1>8. EndsAt(w, n + k)
  <2>1. n + k \in 0..Len(w)
    BY <1>3, <1>4, <1>7
  <2>2. ASSUME NEW i \in n + k + 1 .. Len(w) PROVE w[i] = Blank
    <3>1. i - n \in k + 1 .. Len(z) /\ i - n \in 1..Len(z) /\ n + (i - n) = i
      BY <1>3, <1>4, <1>7
    <3> QED BY <1>5, <1>6, <3>1 DEF EndsAt
  <2>3. ASSUME n + k # 0 PROVE w[n + k] # Blank
    <3>1. CASE k # 0
      BY <1>5, <1>6, <1>7, <3>1 DEF EndsAt
    <3>2. CASE k = 0
      BY <1>1, <1>3, <1>4, <2>3, <3>2 DEF EndsAt
    <3> QED BY <3>1, <3>2
  <2> QED BY <2>1, <2>2, <2>3 DEF EndsAt
<1>9. /\ RStrip(w) \in Seq(S) /\ Len(RStrip(w)) = n + k
      /\ \A i \in 1..n + k : RStrip(w)[i] = w[i]
      /\ Rest(w) \in Seq(S) /\ Len(Rest(w)) = Len(w) - (n + k)
      /\ \A i \in 1..Len(w) - (n + k) : Rest(w)[i] = w[n + k + i]
  <2>1. RightParts(S, w, n + k)
    BY <1>4, <1>8, RightStripped
  <2> QED BY <2>1 DEF RightParts
<1>10. /\ RStrip(z) \in Seq(S) /\ Len(RStrip(z)) = k /\ \A i \in 1..k : RStrip(z)[i] = z[i]
       /\ Rest(z) \in Seq(S) /\ Len(Rest(z)) = Len(z) - k
       /\ \A i \in 1..Len(z) - k : Rest(z)[i] = z[k + i]
  <2>1. RightParts(S, z, k)
    BY <1>4, <1>6, RightStripped
  <2> QED BY <2>1 DEF RightParts
<1>11. RStrip(w) = RStrip(s) \o RStrip(z)
  <2>1. /\ RStrip(s) \o RStrip(z) \in Seq(S) /\ Len(RStrip(s) \o RStrip(z)) = n + k
    BY <1>2, <1>10, Joined
  <2>2. ASSUME NEW i \in 1..n + k PROVE RStrip(w)[i] = (RStrip(s) \o RStrip(z))[i]
    <3>1. RStrip(w)[i] = w[i]
      BY <1>9
    <3>2. CASE i <= n
      <4>1. (RStrip(s) \o RStrip(z))[i] = RStrip(s)[i]
        BY <1>2, <1>3, <1>10, <3>2, Joined
      <4>2. RStrip(s)[i] = s[i]
        BY <1>2, <1>3, <3>2
      <4>3. i \in 1..Len(s)
        BY <1>3, <1>7, <3>2
      <4> QED BY <1>4, <3>1, <4>1, <4>2, <4>3
    <3>3. CASE ~ i <= n
      <4>1. i - n \in 1..k /\ i = n + (i - n)
        BY <1>3, <1>7, <3>3
      <4>2. (RStrip(s) \o RStrip(z))[i] = RStrip(z)[i - n]
        <5>1. Len(RStrip(s)) = n /\ Len(RStrip(z)) = k /\ RStrip(s) \in Seq(S) /\ RStrip(z) \in Seq(S)
          BY <1>2, <1>10
        <5>2. (RStrip(s) \o RStrip(z))[i]
              = IF i <= Len(RStrip(s)) THEN RStrip(s)[i] ELSE RStrip(z)[i - Len(RStrip(s))]
          BY <5>1, JoinedAt
        <5> QED BY <3>3, <5>1, <5>2
      <4>3. RStrip(z)[i - n] = z[i - n]
        BY <1>10, <4>1
      <4> QED BY <1>5, <1>7, <3>1, <4>1, <4>2, <4>3
    <3> QED BY <3>2, <3>3
  <2> QED BY <1>9, <2>1, <2>2, SeqEqual
<1>12. Rest(w) = Rest(z)
  <2>1. Len(Rest(w)) = Len(Rest(z)) /\ Len(w) - (n + k) = Len(z) - k
    BY <1>3, <1>4, <1>7, <1>9, <1>10
  <2>2. ASSUME NEW i \in 1..Len(z) - k PROVE Rest(w)[i] = Rest(z)[i]
    <3>1. Rest(w)[i] = w[n + k + i]
      BY <1>9, <2>1
    <3>2. Rest(z)[i] = z[k + i]
      BY <1>10
    <3>3. k + i \in 1..Len(z) /\ n + (k + i) = (n + k) + i
      BY <1>3, <1>4, <1>7
    <3> QED BY <1>5, <3>1, <3>2, <3>3
  <2> QED BY <1>9, <1>10, <2>1, <2>2, SeqEqual
<1> QED BY <1>11, <1>12 DEF z, w

(* Blanks in front of all text are not printed, however they were cut.       *)
LEMMA LeftJoined ==
  ASSUME NEW S, NEW s \in Seq(S), NEW t \in Seq(S), Printed(s) # {}
  PROVE  LStrip(s \o t) = LStrip(s) \o t /\ Printed(s \o t) # {}
<1>1. PICK n : StartsAt(s, n)
  BY PrintedStart
<1>2. /\ LStrip(s) \in Seq(S) /\ Len(LStrip(s)) = Len(s) - n
      /\ \A i \in 1..Len(s) - n : LStrip(s)[i] = s[n + i]
      /\ n # Len(s)
  BY <1>1, LeftStripped DEF LeftParts
<1>3. Len(s) \in Nat /\ Len(t) \in Nat /\ n \in Nat /\ n < Len(s)
  BY <1>1, <1>2, LenProperties DEF StartsAt
<1> DEFINE w == s \o t
<1>4. w \in Seq(S) /\ Len(w) = Len(s) + Len(t) /\ \A i \in 1..Len(s) : w[i] = s[i]
  BY Joined
<1>j. \A i \in 1..Len(s) + Len(t) : w[i] = IF i <= Len(s) THEN s[i] ELSE t[i - Len(s)]
  BY JoinedAt
<1> HIDE DEF w
<1>5. StartsAt(w, n)
  BY <1>1, <1>3, <1>4 DEF StartsAt
<1>6. /\ LStrip(w) \in Seq(S) /\ Len(LStrip(w)) = Len(w) - n /\ Printed(w) # {}
      /\ \A i \in 1..Len(w) - n : LStrip(w)[i] = w[n + i]
  <2>1. n # Len(w)
    BY <1>3, <1>4
  <2>2. LeftParts(S, w, n) /\ Printed(w) # {}
    BY <1>4, <1>5, <2>1, LeftStripped
  <2> QED BY <2>2 DEF LeftParts
<1>7. LStrip(s) \o t \in Seq(S) /\ Len(LStrip(s) \o t) = Len(s) - n + Len(t)
  BY <1>2, Joined
<1>8. Len(LStrip(s)) = Len(s) - n /\ LStrip(s) \in Seq(S)
  BY <1>2
<1>9. ASSUME NEW i \in 1..Len(s) - n + Len(t)
      PROVE  LStrip(w)[i] = (LStrip(s) \o t)[i]
  <2>1. LStrip(w)[i] = w[n + i]
    <3>1. i \in 1..Len(w) - n
      BY <1>3, <1>4, <1>9
    <3> QED BY <1>6, <3>1
  <2>2. (LStrip(s) \o t)[i] = IF i <= Len(LStrip(s)) THEN LStrip(s)[i] ELSE t[i - Len(LStrip(s))]
    BY <1>8, JoinedAt
  <2>3. CASE i <= Len(s) - n
    <3>1. LStrip(s)[i] = s[n + i]
      BY <1>2, <1>3, <1>9, <2>3
    <3>2. n + i \in 1..Len(s)
      BY <1>3, <1>9, <2>3
    <3> QED BY <1>4, <1>8, <2>1, <2>2, <2>3, <3>1, <3>2
  <2>4. CASE ~ i <= Len(s) - n
    <3>1. n + i \in 1..Len(s) + Len(t) /\ ~ n + i <= Len(s) /\ (n + i) - Len(s) = i - (Len(s) - n)
      BY <1>3, <1>9, <2>4
    <3>2. w[n + i] = t[(n + i) - Len(s)]
      BY <1>j, <3>1
    <3>3. (LStrip(s) \o t)[i] = t[i - (Len(s) - n)]
      BY <1>8, <2>2, <2>4
    <3> QED BY <2>1, <3>1, <3>2, <3>3
  <2> QED BY <2>3, <2>4
<1>10. Len(LStrip(w)) = Len(s) - n + Len(t)
  BY <1>3, <1>4, <1>6
<1> QED BY <1>6, <1>7, <1>9, <1>10, SeqEqual DEF w

LEMMA LeftOnce ==
  ASSUME NEW S, NEW s \in Seq(S)
  PROVE  /\ LStrip(LStrip(s)) = LStrip(s) /\ LStrip(s) \in Seq(S)
         /\ Printed(s) # {} => Printed(LStrip(s)) # {}
<1>1. PICK n : StartsAt(s, n)
  BY PrintedStart
<1>2. /\ LStrip(s) \in Seq(S) /\ Len(LStrip(s)) = Len(s) - n
      /\ \A i \in 1..Len(s) - n : LStrip(s)[i] = s[n + i]
  BY <1>1, LeftStripped DEF LeftParts
<1>3. Len(s) \in Nat /\ n \in Nat /\ n <= Len(s)
  BY <1>1, <1>2, LenProperties DEF StartsAt
<1>4. StartsAt(LStrip(s), 0)
  <2> SUFFICES ASSUME 0 # Len(LStrip(s)) PROVE LStrip(s)[1] # Blank
    BY <1>2, <1>3 DEF StartsAt
  <2>1. 1 \in 1..Len(s) - n /\ n # Len(s)
    BY <1>2, <1>3
  <2>2. LStrip(s)[1] = s[n + 1]
    BY <1>2, <2>1
  <2> QED BY <1>1, <2>1, <2>2 DEF StartsAt
<1>5. /\ LStrip(LStrip(s)) \in Seq(S) /\ Len(LStrip(LStrip(s))) = Len(LStrip(s)) - 0
      /\ \A i \in 1..Len(LStrip(s)) - 0 : LStrip(LStrip(s))[i] = LStrip(s)[0 + i]
  <2>1. LeftParts(S, LStrip(s), 0)
    BY <1>2, <1>4, LeftStripped
  <2> QED BY <2>1 DEF LeftParts
<1>6. /\ Len(LStrip(LStrip(s))) = Len(LStrip(s))
      /\ \A i \in 1..Len(LStrip(s)) : LStrip(LStrip(s))[i] = LStrip(s)[i]
  BY <1>2, <1>3, <1>5
<1>7. LStrip(LStrip(s)) = LStrip(s)
  BY <1>2, <1>5, <1>6, SeqEqual
<1>8. ASSUME Printed(s) # {} PROVE Printed(LStrip(s)) # {}
  <2>1. n # Len(s)
    BY <1>1, <1>8, LeftStripped
  <2>2. 0 # Len(LStrip(s))
    BY <1>2, <1>3, <2>1
  <2> QED BY <1>2, <1>4, <2>2, LeftStripped
<1> QED BY <1>2, <1>7, <1>8

LEMMA BlankJoined ==
  ASSUME NEW S, NEW s \in Seq(S), NEW t \in Seq(S), Printed(s) = {}
  PROVE  Printed(s \o t) = {} <=> LStrip(t) = <<>>
<1>1. Len(s) \in Nat /\ Len(t) \in Nat
  BY LenProperties
<1>2. /\ Len(s \o t) = Len(s) + Len(t)
      /\ \A i \in 1..Len(s) : (s \o t)[i] = s[i]
      /\ \A i \in 1..Len(t) : (s \o t)[Len(s) + i] = t[i]
  BY Joined
<1>3. Printed(t) = {} <=> LStrip(t) = <<>>
  BY PrintedStart, LeftStripped
<1>4. ASSUME NEW i \in Printed(t) PROVE Len(s) + i \in Printed(s \o t)
  BY <1>1, <1>2, <1>4 DEF Printed
<1>5. ASSUME NEW i \in Printed(s \o t) PROVE i - Len(s) \in Printed(t)
  <2>1. i \in 1..Len(s) + Len(t) /\ (s \o t)[i] # Blank
    BY <1>2, <1>5 DEF Printed
  <2>2. ~ i <= Len(s)
    BY <1>1, <1>2, <2>1 DEF Printed
  <2>3. i - Len(s) \in 1..Len(t) /\ Len(s) + (i - Len(s)) = i
    BY <1>1, <2>1, <2>2
  <2> QED BY <1>2, <2>1, <2>3 DEF Printed
<1> QED BY <1>3, <1>4, <1>5

(* The first text that is not blank: only its own blanks matter.             *)
LEMMA FirstJoined ==
  ASSUME NEW S, NEW s \in Seq(S), NEW t \in Seq(S), Printed(s) = {}, LStrip(t) # <<>>
  PROVE  /\ LStrip(RStrip(s \o t)) = RStrip(LStrip(t)) /\ Rest(s \o t) = Rest(LStrip(t))
         /\ Printed(RStrip(s \o t)) # {} /\ LStrip(t) \in Seq(S)
<1>1. PICK m : StartsAt(t, m)
  BY PrintedStart
<1> DEFINE u == LStrip(t)
<1>2. /\ u \in Seq(S) /\ Len(u) = Len(t) - m /\ m # Len(t)
      /\ \A i \in 1..Len(t) - m : u[i] = t[m + i]
  BY <1>1, LeftStripped DEF LeftParts
<1>3. Len(s) \in Nat /\ Len(t) \in Nat /\ m \in Nat /\ m < Len(t)
  BY <1>1, <1>2, LenProperties DEF StartsAt
<1>4. \A i \in 1..Len(t) - m : u[i] = t[m + i]
  BY <1>2
<1> DEFINE w == s \o t
<1> DEFINE a == Len(s) + m
<1>5. /\ w \in Seq(S) /\ Len(w) = Len(s) + Len(t)
      /\ \A i \in 1..Len(s) : w[i] = s[i]
      /\ \A i \in 1..Len(t) : w[Len(s) + i] = t[i]
  BY Joined
<1> HIDE DEF u, w
<1>6. PICK n : EndsAt(u, n)
  BY <1>2, PrintedEnd
<1>7. /\ RStrip(u) \in Seq(S) /\ Len(RStrip(u)) = n /\ \A i \in 1..n : RStrip(u)[i] = u[i]
      /\ Rest(u) \in Seq(S) /\ Len(Rest(u)) = Len(u) - n
      /\ \A i \in 1..Len(u) - n : Rest(u)[i] = u[n + i]
  <2>1. RightParts(S, u, n)
    BY <1>2, <1>6, RightStripped
  <2> QED BY <2>1 DEF RightParts
<1>8. n \in Nat /\ n <= Len(t) - m /\ n # 0
  <2>1. n \in Nat /\ n <= Len(t) - m
    BY <1>2, <1>3, <1>6 DEF EndsAt
  <2>2. u[1] # Blank
    BY <1>1, <1>3, <1>4 DEF StartsAt
  <2>3. 1 \in 1..Len(u)
    BY <1>2, <1>3
  <2> QED BY <1>6, <2>1, <2>2, <2>3 DEF EndsAt
<1>9. \A i \in 1..Len(t) - m : w[a + i] = u[i]
  <2> TAKE i \in 1..Len(t) - m
  <2>1. m + i \in 1..Len(t) /\ Len(s) + (m + i) = a + i
    BY <1>3
  <2> QED BY <1>4, <1>5, <2>1
<1>10. \A i \in 1..a : w[i] = Blank
  <2> TAKE i \in 1..a
  <2>1. CASE i <= Len(s)
    <3>1. i \in 1..Len(s)
      BY <1>3, <2>1
    <3> QED BY <1>5, <3>1 DEF Printed
  <2>2. CASE ~ i <= Len(s)
    <3>1. i - Len(s) \in 1..m /\ i - Len(s) \in 1..Len(t) /\ Len(s) + (i - Len(s)) = i
      BY <1>3, <2>2
    <3> QED BY <1>1, <1>5, <3>1 DEF StartsAt
  <2> QED BY <2>1, <2>2
<1>11. a \in Nat /\ Len(w) = a + Len(u) /\ Len(u) \in Nat /\ n <= Len(u)
  <2>1. Len(u) = Len(t) - m /\ Len(w) = Len(s) + Len(t)
    BY <1>2, <1>5
  <2> QED BY <1>3, <1>8, <2>1
<1> HIDE DEF a
<1>12. EndsAt(w, a + n)
  <2>1. a + n \in 0..Len(w)
    BY <1>8, <1>11
  <2>2. ASSUME NEW i \in a + n + 1 .. Len(w) PROVE w[i] = Blank
    <3>1. i - a \in n + 1 .. Len(u) /\ i - a \in 1..Len(t) - m /\ a + (i - a) = i
      BY <1>2, <1>8, <1>11
    <3> QED BY <1>6, <1>9, <3>1 DEF EndsAt
  <2>3. w[a + n] # Blank
    <3>1. n \in 1..Len(t) - m
      BY <1>8
    <3> QED BY <1>6, <1>8, <1>9, <3>1 DEF EndsAt
  <2> QED BY <2>1, <2>2, <2>3 DEF EndsAt
<1> DEFINE r == RStrip(w)
<1>13. /\ r \in Seq(S) /\ Len(r) = a + n /\ \A i \in 1..a + n : r[i] = w[i]
       /\ Rest(w) \in Seq(S) /\ Len(Rest(w)) = Len(w) - (a + n)
       /\ \A i \in 1..Len(w) - (a + n) : Rest(w)[i] = w[a + n + i]
  <2>1. RightParts(S, w, a + n)
    BY <1>5, <1>12, RightStripped
  <2> QED BY <2>1 DEF RightParts
<1>14. \A i \in 1..a + n : r[i] = w[i]
  BY <1>13
<1> HIDE DEF r
<1>15. StartsAt(r, a)
  <2>1. a \in 0..Len(r) /\ a # Len(r) /\ a + 1 \in 1..a + n /\ \A i \in 1..a : i \in 1..a + n
    BY <1>8, <1>11, <1>13
  <2>2. r[a + 1] = u[1]
    <3>1. 1 \in 1..Len(t) - m
      BY <1>3
    <3> QED BY <1>9, <1>14, <2>1, <3>1
  <2>3. u[1] # Blank
    BY <1>1, <1>3, <1>4 DEF StartsAt
  <2> QED BY <1>10, <1>14, <2>1, <2>2, <2>3 DEF StartsAt
<1>16. /\ LStrip(r) \in Seq(S) /\ Len(LStrip(r)) = Len(r) - a /\ Printed(r) # {}
       /\ \A i \in 1..Len(r) - a : LStrip(r)[i] = r[a + i]
  <2>1. a # Len(r)
    BY <1>8, <1>11, <1>13
  <2>2. LeftParts(S, r, a) /\ Printed(r) # {}
    BY <1>13, <1>15, <2>1, LeftStripped
  <2> QED BY <2>2 DEF LeftParts
<1>17. LStrip(r) = RStrip(u)
  <2>1. Len(LStrip(r)) = n
    BY <1>8, <1>11, <1>13, <1>16
  <2>2. ASSUME NEW i \in 1..n PROVE LStrip(r)[i] = RStrip(u)[i]
    <3>1. LStrip(r)[i] = r[a + i]
      <4>1. i \in 1..Len(r) - a
        BY <1>8, <1>11, <1>13
      <4> QED BY <1>16, <4>1
    <3>2. RStrip(u)[i] = u[i]
      BY <1>7
    <3>3. a + i \in 1..a + n /\ i \in 1..Len(t) - m
      BY <1>3, <1>8, <1>11
    <3> QED BY <1>9, <1>14, <3>1, <3>2, <3>3
  <2> QED BY <1>7, <1>16, <2>1, <2>2, SeqEqual
<1>18. Rest(w) = Rest(u)
  <2>1. Len(w) - (a + n) = Len(u) - n
    BY <1>8, <1>11
  <2>2. ASSUME NEW i \in 1..Len(u) - n PROVE Rest(w)[i] = Rest(u)[i]
    <3>1. Rest(w)[i] = w[a + n + i]
      BY <1>13, <2>1
    <3>2. Rest(u)[i] = u[n + i]
      BY <1>7
    <3>3. n + i \in 1..Len(t) - m /\ a + (n + i) = a + n + i
      BY <1>2, <1>8, <1>11
    <3> QED BY <1>9, <3>1, <3>2, <3>3
  <2> QED BY <1>7, <1>13, <2>1, <2>2, SeqEqual
<1> QED BY <1>2, <1>16, <1>17, <1>18 DEF u, w, r

(* What has come of a field's open region.                                   *)
OpenText(field) == IF region = field THEN body ELSE <<>>

Symbols == STRING \cup Nat

ParserTyped ==
  /\ region \in Fields /\ body \in Seq(Symbols)
  /\ message \in [Fields -> Seq(Symbols)] /\ deltas \in [Fields -> Seq(Symbols)]
  /\ pending \in [TextFields -> Seq(Symbols)] /\ first_content \in BOOLEAN

(* Thoughts: all that is printed has been sent, the blanks behind it wait.   *)
ThoughtsSent ==
  /\ deltas["thinking"] = message["thinking"] \o RStrip(OpenText("thinking"))
  /\ pending["thinking"] = Rest(OpenText("thinking"))

(* The answer: the same, but for blanks in front of everything, of which     *)
(* nothing is kept while there is nothing else.                              *)
ContentSent ==
  /\ LStrip(message["content"]) = message["content"]
  /\ first_content =>
       /\ Printed(message["content"]) = {} /\ Printed(OpenText("content")) = {}
       /\ deltas["content"] = <<>> /\ pending["content"] = <<>>
  /\ ~ first_content =>
       /\ Printed(message["content"] \o RStrip(OpenText("content"))) # {}
       /\ deltas["content"] = LStrip(message["content"] \o RStrip(OpenText("content")))
       /\ pending["content"] = Rest(OpenText("content"))

Sending ==
  /\ ParserTyped /\ ThoughtsSent /\ ContentSent
  /\ deltas["tool_calls"] = message["tool_calls"]

Streamed == reply_state = "open" /\ ~ broken => Sending

LEMMA EmptyText ==
  ASSUME NEW S
  PROVE  /\ <<>> \in Seq(S) /\ RStrip(<<>>) = <<>> /\ LStrip(<<>>) = <<>> /\ Rest(<<>>) = <<>>
         /\ Printed(<<>>) = {} /\ \A s \in Seq(S) : s \o <<>> = s /\ <<>> \o s = s
<1>1. <<>> \in Seq(S) /\ Len(<<>>) = 0
  BY EmptySeq
<1>2. Printed(<<>>) = {}
  BY <1>1 DEF Printed
<1>3. RStrip(<<>>) = <<>> /\ LStrip(<<>>) = <<>>
  BY <1>2 DEF RStrip, LStrip
<1>4. Rest(<<>>) = <<>>
  <2>1. Rest(<<>>) = SubSeq(<<>>, 0 + 1, 0)
    BY <1>1, <1>3 DEF Rest
  <2>2. SubSeq(<<>>, 0 + 1, 0) \in Seq(S) /\ Len(SubSeq(<<>>, 0 + 1, 0)) = 0
    BY <1>1, Slice
  <2> QED BY <2>1, <2>2, EmptySeq
<1>5. \A s \in Seq(S) : s \o <<>> = s /\ <<>> \o s = s
  BY ConcatEmptySeq
<1> QED BY <1>1, <1>2, <1>3, <1>4, <1>5

LEMMA Strips ==
  ASSUME NEW S, NEW s \in Seq(S)
  PROVE  /\ RStrip(s) \in Seq(S) /\ Rest(s) \in Seq(S) /\ LStrip(s) \in Seq(S)
         /\ RStrip(s) \o Rest(s) = s
         /\ SubSeq(s, Len(RStrip(s)) + 1, Len(s)) = Rest(s)
<1>1. PICK n : EndsAt(s, n)
  BY PrintedEnd
<1>2. RightParts(S, s, n)
  BY <1>1, RightStripped
<1>3. /\ RStrip(s) \in Seq(S) /\ Len(RStrip(s)) = n /\ Rest(s) \in Seq(S)
      /\ Len(Rest(s)) = Len(s) - n
  BY <1>2 DEF RightParts
<1>4. Len(s) \in Nat /\ n \in Nat /\ n <= Len(s)
  BY <1>1, LenProperties DEF EndsAt
<1>5. RStrip(s) \o Rest(s) \in Seq(S) /\ Len(RStrip(s) \o Rest(s)) = Len(s)
  <2>1. RStrip(s) \in Seq(S) /\ Rest(s) \in Seq(S)
    BY <1>3
  <2>2. /\ RStrip(s) \o Rest(s) \in Seq(S)
        /\ Len(RStrip(s) \o Rest(s)) = Len(RStrip(s)) + Len(Rest(s))
    BY <2>1, Joined
  <2>3. Len(RStrip(s)) + Len(Rest(s)) = Len(s)
    BY <1>3, <1>4
  <2> QED BY <2>2, <2>3
<1>6. ASSUME NEW i \in 1..Len(s) PROVE (RStrip(s) \o Rest(s))[i] = s[i]
  <2>1. (RStrip(s) \o Rest(s))[i]
        = IF i <= Len(RStrip(s)) THEN RStrip(s)[i] ELSE Rest(s)[i - Len(RStrip(s))]
    <3>1. i \in 1..Len(RStrip(s)) + Len(Rest(s))
      BY <1>3, <1>4
    <3> QED BY <1>3, <3>1, JoinedAt
  <2>2. CASE i <= n
    BY <1>2, <1>3, <1>4, <2>1, <2>2 DEF RightParts
  <2>3. CASE ~ i <= n
    <3>1. i - n \in 1..Len(s) - n /\ n + (i - n) = i
      BY <1>4, <2>3
    <3>2. Rest(s)[i - n] = s[n + (i - n)]
      BY <1>2, <3>1 DEF RightParts
    <3> QED BY <1>3, <2>1, <2>3, <3>1, <3>2
  <2> QED BY <2>2, <2>3
<1>7. RStrip(s) \o Rest(s) = s
  BY <1>5, <1>6, SeqEqual
<1> QED BY <1>3, <1>7, LeftOnce DEF Rest

LEMMA FieldNames ==
  /\ Fields = {"thinking", "content", "tool_calls"} /\ TextFields = {"thinking", "content"}
  /\ "thinking" \in Fields /\ "content" \in Fields /\ "tool_calls" \in Fields
  /\ "thinking" \in TextFields /\ "content" \in TextFields
BY DEF Fields, TextFields

LEMMA InitStreams == ParserIdle => Streamed
<1> SUFFICES ASSUME ParserIdle PROVE Sending
  BY DEF ParserIdle, Streamed
<1>1. \A f \in Fields : OpenText(f) = <<>>
  BY DEF ParserIdle, OpenText
<1>3. /\ \A f \in Fields : message[f] = <<>> /\ deltas[f] = <<>>
      /\ \A f \in TextFields : pending[f] = <<>>
      /\ first_content = TRUE
  BY DEF ParserIdle
<1>4. ParserTyped
  BY FieldNames, EmptyText DEF ParserIdle, ParserTyped
<1>5. ThoughtsSent /\ deltas["tool_calls"] = message["tool_calls"]
  BY <1>1, <1>3, FieldNames, EmptyText DEF ThoughtsSent
<1>6. ContentSent
  BY <1>1, <1>3, FieldNames, EmptyText DEF ContentSent
<1> QED BY <1>4, <1>5, <1>6 DEF Sending

Told(first) == [pending |-> pending, first_content |-> first, deltas |-> deltas]

LEMMA ToldOf ==
  ASSUME NEW first
  PROVE  [Adapter EXCEPT !.first_content = first] = Told(first)
BY DEF Adapter, Told

Taken(a, field, all, first) ==
  /\ a.pending = [pending EXCEPT ![field] = Rest(all)]
  /\ a.deltas = [deltas EXCEPT ![field] = @ \o RStrip(all)]
  /\ a.first_content = first

LEMMA TakeEffect ==
  ASSUME ParserTyped, NEW field \in TextFields, NEW text \in Seq(Symbols), NEW first
  PROVE  Taken(Take(Told(first), field, text), field, pending[field] \o text, first)
<1> DEFINE a == Told(first)
<1> DEFINE all == pending[field] \o text
<1>1. all \in Seq(Symbols)
  BY Joined DEF ParserTyped
<1>2. SubSeq(all, Len(RStrip(all)) + 1, Len(all)) = Rest(all)
  BY <1>1, Strips
<1>3. Take(a, field, text) = [a EXCEPT !.pending[field] = Rest(all), !.deltas[field] = @ \o RStrip(all)]
  BY <1>2 DEF Take, Told
<1> QED BY <1>3 DEF Taken, Told

(* A chunk of a region that is streamed after something was.                 *)
GoesOn(sent, s, t) ==
  /\ (sent \o RStrip(s)) \o RStrip(Rest(s) \o t) = sent \o RStrip(s \o t)
  /\ Rest(Rest(s) \o t) = Rest(s \o t)
  /\ Printed(sent \o RStrip(s)) # {} =>
       /\ LStrip(sent \o RStrip(s)) \o RStrip(Rest(s) \o t) = LStrip(sent \o RStrip(s \o t))
       /\ Printed(sent \o RStrip(s \o t)) # {}

LEMMA TakeSends ==
  ASSUME NEW S, NEW sent \in Seq(S), NEW s \in Seq(S), NEW t \in Seq(S)
  PROVE  GoesOn(sent, s, t)
<1> DEFINE more == RStrip(Rest(s) \o t)
<1>1. RStrip(s) \in Seq(S) /\ Rest(s) \in Seq(S)
  BY Strips
<1>2. Rest(s) \o t \in Seq(S)
  BY <1>1, Joined
<1>3. more \in Seq(S)
  BY <1>2, Strips
<1>4. RStrip(s \o t) = RStrip(s) \o more /\ Rest(s \o t) = Rest(Rest(s) \o t)
  BY RightJoined
<1> HIDE DEF more
<1>5. (sent \o RStrip(s)) \o more = sent \o (RStrip(s) \o more)
  <2> DEFINE p == RStrip(s)
  <2>1. p \in Seq(S)
    BY <1>1
  <2> HIDE DEF p
  <2>2. (sent \o p) \o more = sent \o (p \o more)
    <3>1. SameJoined(sent, p, more)
      BY <1>3, <2>1, JoinedTwice
    <3> QED BY <3>1 DEF SameJoined
  <2> QED BY <2>2 DEF p
<1>6. sent \o RStrip(s) \in Seq(S)
  BY <1>1, Joined
<1>7. Printed(sent \o RStrip(s)) # {} =>
        /\ LStrip((sent \o RStrip(s)) \o more) = LStrip(sent \o RStrip(s)) \o more
        /\ Printed((sent \o RStrip(s)) \o more) # {}
  BY <1>3, <1>6, LeftJoined
<1> QED BY <1>4, <1>5, <1>7 DEF more, GoesOn

LEMMA ChunkStreams ==
  ASSUME Sending, ~ broken, FeedChunk
  PROVE  Sending'
<1>1. PICK text \in Chunks : body' = body \o text /\ Becomes(ChunkDelta(Adapter, region, text))
  BY DEF FeedChunk
<1>2. ParserTyped /\ ThoughtsSent /\ ContentSent
  BY DEF Sending
<1>3. text \in Seq(Symbols) /\ body' \in Seq(Symbols)
  <2>1. text \in Seq(Symbols)
    <3>1. text \in Seq(STRING)
      BY ParserAssumption
    <3> QED BY <3>1, SeqMonotonic DEF Symbols
  <2> QED BY <1>1, <1>2, <2>1, Joined DEF ParserTyped
<1>4. region' = region /\ message' = message
  BY DEF FeedChunk
<1> DEFINE more == ChunkDelta(Adapter, region, text)
<1>5. pending' = more.pending /\ first_content' = more.first_content /\ deltas' = more.deltas
  BY <1>1 DEF Becomes
<1>6. OpenText(region) = body /\ OpenText(region)' = body \o text
      /\ \A f \in Fields \ {region} : OpenText(f) = <<>> /\ OpenText(f)' = <<>>
  BY <1>1, <1>4 DEF OpenText
<1>7. CASE region = "tool_calls"
  <2>1. more = Adapter
    BY <1>7 DEF ChunkDelta, TextFields
  <2>2. pending' = pending /\ first_content' = first_content /\ deltas' = deltas
    BY <1>5, <2>1 DEF Adapter
  <2>3. ParserTyped'
    BY <1>2, <1>3, <1>4, <2>2 DEF ParserTyped
  <2>4. \A f \in TextFields : OpenText(f)' = OpenText(f)
    BY <1>6, <1>7, FieldNames
  <2>5. ThoughtsSent'
    BY <1>2, <1>4, <2>2, <2>4, FieldNames DEF ThoughtsSent
  <2>6. ContentSent'
    BY <1>2, <1>4, <2>2, <2>4, FieldNames DEF ContentSent
  <2> QED BY <1>4, <2>2, <2>3, <2>5, <2>6 DEF Sending
<1> HIDE DEF more
<1>8. CASE region = "thinking"
  <2> DEFINE all == pending["thinking"] \o text
  <2>1. more = Take(Told(first_content), "thinking", text)
    BY <1>8, FieldNames DEF more, ChunkDelta, Adapter, Told
  <2>2. /\ pending' = [pending EXCEPT !["thinking"] = Rest(all)]
        /\ deltas' = [deltas EXCEPT !["thinking"] = @ \o RStrip(all)]
        /\ first_content' = first_content
    <3>1. Taken(more, "thinking", all, first_content)
      BY <1>2, <1>3, <2>1, FieldNames, TakeEffect
    <3> QED BY <1>5, <3>1 DEF Taken
  <2>3. /\ deltas["thinking"] = message["thinking"] \o RStrip(body) /\ pending["thinking"] = Rest(body)
        /\ message["thinking"] \in Seq(Symbols) /\ body \in Seq(Symbols)
    BY <1>2, <1>6, <1>8, FieldNames DEF ThoughtsSent, ParserTyped
  <2>4. deltas'["thinking"] = message["thinking"] \o RStrip(body \o text)
        /\ pending'["thinking"] = Rest(body \o text)
    <3>1. deltas'["thinking"] = deltas["thinking"] \o RStrip(all) /\ pending'["thinking"] = Rest(all)
      BY <1>2, <2>2, FieldNames DEF ParserTyped
    <3>2. /\ (message["thinking"] \o RStrip(body)) \o RStrip(Rest(body) \o text)
             = message["thinking"] \o RStrip(body \o text)
          /\ Rest(Rest(body) \o text) = Rest(body \o text)
      <4>1. GoesOn(message["thinking"], body, text)
        BY <1>3, <2>3, TakeSends
      <4> QED BY <4>1 DEF GoesOn
    <3> QED BY <2>3, <3>1, <3>2
  <2>5. /\ deltas'["content"] = deltas["content"] /\ pending'["content"] = pending["content"]
        /\ deltas'["tool_calls"] = deltas["tool_calls"]
    BY <1>2, <2>2, FieldNames DEF ParserTyped
  <2>6. ParserTyped'
    <3>1. RStrip(body \o text) \in Seq(Symbols) /\ Rest(body \o text) \in Seq(Symbols)
      BY <1>1, <1>3, Strips
    <3>2. deltas'["thinking"] \in Seq(Symbols) /\ pending'["thinking"] \in Seq(Symbols)
      BY <2>3, <2>4, <3>1, Joined
    <3>3. \A f \in Fields : deltas'[f] \in Seq(Symbols)
      BY <1>2, <2>5, <3>2, FieldNames DEF ParserTyped
    <3>4. \A f \in TextFields : pending'[f] \in Seq(Symbols)
      BY <1>2, <2>5, <3>2, FieldNames DEF ParserTyped
    <3>5. deltas' \in [Fields -> Seq(Symbols)]
      BY <1>2, <2>2, <3>3 DEF ParserTyped
    <3>6. pending' \in [TextFields -> Seq(Symbols)]
      BY <1>2, <2>2, <3>4 DEF ParserTyped
    <3> QED BY <1>2, <1>3, <1>4, <2>2, <3>5, <3>6 DEF ParserTyped
  <2>7. OpenText("content")' = OpenText("content") /\ OpenText("thinking")' = body \o text
    BY <1>1, <1>4, <1>8 DEF OpenText
  <2>8. ThoughtsSent'
    BY <1>4, <2>4, <2>7 DEF ThoughtsSent
  <2>9. ContentSent'
    BY <1>2, <1>4, <2>2, <2>5, <2>7 DEF ContentSent
  <2> QED BY <1>4, <2>5, <2>6, <2>8, <2>9 DEF Sending
<1>9. CASE region = "content"
  <2>1. /\ message["content"] \in Seq(Symbols) /\ body \in Seq(Symbols)
        /\ LStrip(message["content"]) = message["content"]
        /\ pending["content"] \in Seq(Symbols) /\ deltas["content"] \in Seq(Symbols)
    BY <1>2, FieldNames DEF ContentSent, ParserTyped
  <2>2. OpenText("thinking")' = OpenText("thinking") /\ OpenText("content") = body
        /\ OpenText("content")' = body \o text
    BY <1>1, <1>4, <1>9 DEF OpenText
  <2>3. SUFFICES /\ deltas' \in [Fields -> Seq(Symbols)] /\ pending' \in [TextFields -> Seq(Symbols)]
                 /\ first_content' \in BOOLEAN
                 /\ deltas'["thinking"] = deltas["thinking"]
                 /\ pending'["thinking"] = pending["thinking"]
                 /\ deltas'["tool_calls"] = deltas["tool_calls"]
                 /\ ContentSent'
    <3>1. ASSUME /\ deltas' \in [Fields -> Seq(Symbols)] /\ pending' \in [TextFields -> Seq(Symbols)]
                 /\ first_content' \in BOOLEAN
                 /\ deltas'["thinking"] = deltas["thinking"]
                 /\ pending'["thinking"] = pending["thinking"]
          PROVE  ParserTyped' /\ ThoughtsSent'
      BY <1>2, <1>3, <1>4, <2>2, <3>1 DEF ParserTyped, ThoughtsSent
    <3> QED BY <1>4, <3>1 DEF Sending
  <2>4. CASE first_content /\ LStrip(text) = <<>>
    <3>1. more = Adapter
      BY <1>9, <2>4, FieldNames DEF more, ChunkDelta, Adapter
    <3>2. pending' = pending /\ first_content' = first_content /\ deltas' = deltas
      BY <1>5, <3>1 DEF Adapter
    <3>3. Printed(body \o text) = {}
      BY <1>2, <1>3, <2>1, <2>2, <2>4, BlankJoined DEF ContentSent
    <3>4. ContentSent'
      BY <1>2, <1>4, <2>2, <2>4, <3>2, <3>3 DEF ContentSent
    <3> QED BY <1>2, <3>2, <3>4 DEF ParserTyped
  <2>5. CASE first_content /\ LStrip(text) # <<>>
    <3>1. more = Take(Told(FALSE), "content", LStrip(text))
      <4>1. first_content = TRUE
        BY <1>2, <2>5 DEF ParserTyped
      <4>2. [Adapter EXCEPT !.first_content = FALSE] = Told(FALSE)
        BY ToldOf
      <4>3. Adapter.first_content
        BY <2>5 DEF Adapter
      <4> QED BY <1>9, <2>5, <4>2, <4>3, FieldNames DEF more, ChunkDelta
    <3>2. LStrip(text) \in Seq(Symbols) /\ pending["content"] = <<>> /\ deltas["content"] = <<>>
          /\ pending["content"] \o LStrip(text) = LStrip(text)
          /\ RStrip(LStrip(text)) \in Seq(Symbols) /\ Rest(LStrip(text)) \in Seq(Symbols)
      <4>1. LStrip(text) \in Seq(Symbols)
        BY <1>3, Strips
      <4> QED BY <1>2, <2>5, <4>1, Strips, EmptyText DEF ContentSent
    <3>3. /\ pending' = [pending EXCEPT !["content"] = Rest(LStrip(text))]
          /\ deltas' = [deltas EXCEPT !["content"] = @ \o RStrip(LStrip(text))]
          /\ first_content' = FALSE
      <4>1. Taken(more, "content", pending["content"] \o LStrip(text), FALSE)
        BY <1>2, <3>1, <3>2, FieldNames, TakeEffect
      <4> QED BY <1>5, <3>2, <4>1 DEF Taken
    <3>4. /\ pending'["content"] = Rest(LStrip(text))
          /\ deltas'["content"] = RStrip(LStrip(text))
      BY <1>2, <3>2, <3>3, FieldNames, EmptyText DEF ParserTyped
    <3>5. Printed(message["content"]) = {} /\ Printed(body) = {}
      BY <1>2, <2>2, <2>5 DEF ContentSent
    <3>6. message["content"] = <<>>
      BY <2>1, <3>5 DEF LStrip
    <3>7. /\ LStrip(RStrip(body \o text)) = RStrip(LStrip(text))
          /\ Rest(body \o text) = Rest(LStrip(text)) /\ Printed(RStrip(body \o text)) # {}
      BY <1>3, <2>1, <2>5, <3>5, FirstJoined
    <3>8. message["content"] \o RStrip(body \o text) = RStrip(body \o text)
      BY <1>1, <1>3, <3>6, Strips, EmptyText
    <3>9. ContentSent'
      BY <1>4, <2>1, <2>2, <3>3, <3>4, <3>7, <3>8 DEF ContentSent
    <3>10. /\ deltas' \in [Fields -> Seq(Symbols)] /\ pending' \in [TextFields -> Seq(Symbols)]
           /\ first_content' \in BOOLEAN
           /\ deltas'["thinking"] = deltas["thinking"] /\ pending'["thinking"] = pending["thinking"]
           /\ deltas'["tool_calls"] = deltas["tool_calls"]
      <4>1. deltas["content"] \o RStrip(LStrip(text)) \in Seq(Symbols)
        BY <2>1, <3>2, Joined
      <4> QED BY <1>2, <3>2, <3>3, <4>1, FieldNames DEF ParserTyped
    <3> QED BY <3>9, <3>10
  <2>6. CASE ~ first_content
    <3> DEFINE all == pending["content"] \o text
    <3>1. more = Take(Told(first_content), "content", text)
      BY <1>9, <2>6, FieldNames DEF more, ChunkDelta, Adapter, Told
    <3>2. /\ pending' = [pending EXCEPT !["content"] = Rest(all)]
          /\ deltas' = [deltas EXCEPT !["content"] = @ \o RStrip(all)]
          /\ first_content' = first_content
      <4>1. Taken(more, "content", all, first_content)
        BY <1>2, <1>3, <3>1, FieldNames, TakeEffect
      <4> QED BY <1>5, <4>1 DEF Taken
    <3>3. all \in Seq(Symbols) /\ RStrip(all) \in Seq(Symbols) /\ Rest(all) \in Seq(Symbols)
      <4>1. all \in Seq(Symbols)
        BY <1>3, <2>1, Joined
      <4> HIDE DEF all
      <4> QED BY <4>1, Strips
    <3>4. pending'["content"] = Rest(all) /\ deltas'["content"] = deltas["content"] \o RStrip(all)
      BY <1>2, <3>2, FieldNames DEF ParserTyped
    <3>5. /\ Printed(message["content"] \o RStrip(body)) # {} /\ pending["content"] = Rest(body)
          /\ deltas["content"] = LStrip(message["content"] \o RStrip(body))
      BY <1>2, <2>2, <2>6 DEF ContentSent
    <3>6. /\ deltas'["content"] = LStrip(message["content"] \o RStrip(body \o text))
          /\ pending'["content"] = Rest(body \o text)
          /\ Printed(message["content"] \o RStrip(body \o text)) # {}
      <4>1. /\ LStrip(message["content"] \o RStrip(body)) \o RStrip(Rest(body) \o text)
               = LStrip(message["content"] \o RStrip(body \o text))
            /\ Printed(message["content"] \o RStrip(body \o text)) # {}
            /\ Rest(Rest(body) \o text) = Rest(body \o text)
        <5>1. GoesOn(message["content"], body, text)
          BY <1>3, <2>1, TakeSends
        <5> QED BY <3>5, <5>1 DEF GoesOn
      <4> QED BY <3>4, <3>5, <4>1
    <3>7. ContentSent'
      BY <1>4, <2>1, <2>2, <2>6, <3>2, <3>6 DEF ContentSent
    <3>8. /\ deltas' \in [Fields -> Seq(Symbols)] /\ pending' \in [TextFields -> Seq(Symbols)]
          /\ first_content' \in BOOLEAN
          /\ deltas'["thinking"] = deltas["thinking"] /\ pending'["thinking"] = pending["thinking"]
          /\ deltas'["tool_calls"] = deltas["tool_calls"]
      <4>1. deltas["content"] \o RStrip(all) \in Seq(Symbols)
        BY <2>1, <3>3, Joined
      <4> QED BY <1>2, <3>2, <3>3, <4>1, FieldNames DEF ParserTyped
    <3> QED BY <3>7, <3>8
  <2> QED BY <2>4, <2>5, <2>6
<1> QED BY <1>2, <1>7, <1>8, <1>9, FieldNames DEF ParserTyped

(* The open region, if it closed now: the message would be what was sent.    *)
Whole(m) ==
  /\ m \in [Fields -> Seq(Symbols)] /\ LStrip(m["content"]) = m["content"]
  /\ first_content => m["content"] = <<>>
  /\ ~ first_content => Printed(m["content"]) # {}
  /\ m["thinking"] = deltas["thinking"] /\ m["content"] = deltas["content"]
  /\ m["tool_calls"] = IF region = "tool_calls"
                       THEN Append(deltas["tool_calls"], Len(deltas["tool_calls"]))
                       ELSE deltas["tool_calls"]

LEMMA SentIsWhole ==
  ASSUME Sending
  PROVE  Whole(Closing(message, region, body))
<1>1. ParserTyped /\ ThoughtsSent /\ ContentSent /\ deltas["tool_calls"] = message["tool_calls"]
  BY DEF Sending
<1>2. /\ message \in [Fields -> Seq(Symbols)] /\ body \in Seq(Symbols) /\ RStrip(body) \in Seq(Symbols)
      /\ message["content"] \in Seq(Symbols) /\ message["thinking"] \in Seq(Symbols)
      /\ message["tool_calls"] \in Seq(Symbols) /\ LStrip(message["content"]) = message["content"]
      /\ region \in Fields
  BY <1>1, Strips, FieldNames DEF ParserTyped, ContentSent
<1> DEFINE m == Closing(message, region, body)
<1> DEFINE c == message["content"] \o RStrip(OpenText("content"))
<1>3. c \in Seq(Symbols) /\ OpenText("content") \in Seq(Symbols)
  <2>1. OpenText("content") \in Seq(Symbols)
    BY <1>2, EmptyText DEF OpenText
  <2>2. RStrip(OpenText("content")) \in Seq(Symbols)
    BY <2>1, Strips
  <2> QED BY <1>2, <2>1, <2>2, Joined
<1>4. c = IF region = "content" THEN message["content"] \o RStrip(body) ELSE message["content"]
  <2>1. CASE region = "content"
    BY <2>1 DEF OpenText
  <2>2. CASE region # "content"
    <3>1. OpenText("content") = <<>>
      BY <2>2 DEF OpenText
    <3> QED BY <1>2, <2>2, <3>1, EmptyText
  <2> QED BY <2>1, <2>2
<1> HIDE DEF c
<1>5. /\ LStrip(c) = deltas["content"]
      /\ first_content => LStrip(c) = <<>>
      /\ ~ first_content => Printed(LStrip(c)) # {}
  <2>1. CASE first_content
    <3>1. Printed(message["content"]) = {} /\ Printed(OpenText("content")) = {} /\ deltas["content"] = <<>>
      BY <1>1, <2>1 DEF ContentSent
    <3>2. message["content"] = <<>> /\ RStrip(OpenText("content")) = <<>>
      BY <1>2, <3>1 DEF LStrip, RStrip
    <3>3. c = <<>>
      BY <1>2, <3>2, EmptyText DEF c
    <3> QED BY <2>1, <3>1, <3>3, EmptyText
  <2>2. CASE ~ first_content
    <3>1. Printed(c) # {} /\ deltas["content"] = LStrip(c)
      BY <1>1, <2>2 DEF ContentSent, c
    <3> QED BY <1>3, <2>2, <3>1, LeftOnce
  <2> QED BY <2>1, <2>2
<1>6. LStrip(LStrip(c)) = LStrip(c) /\ LStrip(c) \in Seq(Symbols)
  BY <1>3, LeftOnce
<1>7. m["content"] = LStrip(c)
  <2>1. CASE region = "content"
    BY <1>2, <1>4, <2>1, FieldNames DEF Closing
  <2>2. CASE region # "content"
    <3>1. m["content"] = message["content"]
      BY <1>2, <2>2, FieldNames DEF Closing
    <3> QED BY <1>2, <1>4, <2>2, <3>1
  <2> QED BY <2>1, <2>2
<1>8. m["thinking"] = deltas["thinking"]
  <2>1. CASE region = "thinking"
    <3>1. m["thinking"] = message["thinking"] \o RStrip(body)
      BY <1>2, <2>1, FieldNames DEF Closing
    <3>2. OpenText("thinking") = body
      BY <2>1 DEF OpenText
    <3> QED BY <1>1, <3>1, <3>2 DEF ThoughtsSent
  <2>2. CASE region # "thinking"
    <3>1. m["thinking"] = message["thinking"]
      BY <1>2, <2>2, FieldNames DEF Closing
    <3>2. OpenText("thinking") = <<>>
      BY <2>2 DEF OpenText
    <3>3. deltas["thinking"] = message["thinking"]
      BY <1>1, <1>2, <3>2, EmptyText DEF ThoughtsSent
    <3> QED BY <3>1, <3>3
  <2> QED BY <2>1, <2>2
<1>9. m["tool_calls"] = IF region = "tool_calls"
                        THEN Append(deltas["tool_calls"], Len(deltas["tool_calls"]))
                        ELSE deltas["tool_calls"]
  <2>1. CASE region = "tool_calls"
    BY <1>1, <1>2, <2>1, FieldNames DEF Closing
  <2>2. CASE region # "tool_calls"
    BY <1>1, <1>2, <2>2, FieldNames DEF Closing
  <2> QED BY <2>1, <2>2
<1>10. m \in [Fields -> Seq(Symbols)]
  <2>1. m = [message EXCEPT ![region] = m[region]]
    <3>1. CASE region = "tool_calls"
      BY <1>2, <3>1, FieldNames DEF Closing
    <3>2. CASE region = "thinking"
      BY <1>2, <3>2, FieldNames DEF Closing
    <3>3. CASE region = "content"
      BY <1>2, <3>3, FieldNames DEF Closing
    <3> QED BY <1>2, <3>1, <3>2, <3>3, FieldNames
  <2>2. deltas["thinking"] \in Seq(Symbols) /\ deltas["tool_calls"] \in Seq(Symbols)
    BY <1>1, FieldNames DEF ParserTyped
  <2>3. Append(deltas["tool_calls"], Len(deltas["tool_calls"])) \in Seq(Symbols)
    <3>1. Len(deltas["tool_calls"]) \in Symbols
      BY <2>2, LenProperties DEF Symbols
    <3> QED BY <2>2, <3>1, AppendProperties
  <2>4. m[region] \in Seq(Symbols)
    <3> HIDE DEF m
    <3> QED BY <1>2, <1>6, <1>7, <1>8, <1>9, <2>2, <2>3, FieldNames
  <2> QED BY <1>2, <2>1, <2>4
<1> HIDE DEF m
<1>11. Whole(m)
  BY <1>5, <1>6, <1>7, <1>8, <1>9, <1>10 DEF Whole
<1> QED BY <1>11 DEF m

(* What a closing region changes: a tool call is sent, text that was         *)
(* withheld is dropped.                                                      *)
ToldWith(waiting) == [pending |-> waiting, first_content |-> first_content, deltas |-> deltas]

LEMMA ClosedSends ==
  ASSUME Sending, NEW waiting
  PROVE  /\ Closed(ToldWith(waiting), region).deltas = Closing(message, region, body)
         /\ Closed(ToldWith(waiting), region).first_content = first_content
         /\ Closed(ToldWith(waiting), region).pending
              = IF region = "tool_calls" THEN waiting ELSE [waiting EXCEPT ![region] = <<>>]
<1> DEFINE m == Closing(message, region, body)
<1> DEFINE a == Closed(ToldWith(waiting), region)
<1>1. Whole(m) /\ deltas \in [Fields -> Seq(Symbols)] /\ region \in Fields
  BY SentIsWhole DEF Sending, ParserTyped
<1> HIDE DEF m
<1>2. CASE region = "tool_calls"
  <2>1. a = [ToldWith(waiting) EXCEPT !.deltas.tool_calls = Append(@, Len(@))]
    BY <1>2 DEF Closed
  <2>2. a.deltas = [deltas EXCEPT !["tool_calls"] = Append(@, Len(@))]
        /\ a.first_content = first_content /\ a.pending = waiting
    BY <2>1 DEF ToldWith
  <2> HIDE DEF a
  <2>3. a.deltas = m
    <3>1. \A f \in Fields : a.deltas[f] = m[f]
      BY <1>1, <1>2, <2>2, FieldNames DEF Whole
    <3>2. m = [f \in Fields |-> m[f]] /\ a.deltas = [f \in Fields |-> a.deltas[f]]
      BY <1>1, <2>2 DEF Whole
    <3> QED BY <3>1, <3>2
  <2> QED BY <1>2, <2>2, <2>3 DEF a, m
<1>3. CASE region # "tool_calls"
  <2>1. a = [ToldWith(waiting) EXCEPT !.pending[region] = <<>>]
    BY <1>3 DEF Closed
  <2>2. a.deltas = deltas /\ a.first_content = first_content
        /\ a.pending = [waiting EXCEPT ![region] = <<>>]
    BY <2>1 DEF ToldWith
  <2> HIDE DEF a
  <2>3. a.deltas = m
    <3>1. \A f \in Fields : deltas[f] = m[f]
      BY <1>1, <1>3, FieldNames DEF Whole
    <3>2. m = [f \in Fields |-> m[f]] /\ deltas = [f \in Fields |-> deltas[f]]
      BY <1>1 DEF Whole
    <3> QED BY <2>2, <3>1, <3>2
  <2> QED BY <1>3, <2>2, <2>3 DEF a, m
<1> QED BY <1>2, <1>3

LEMMA CloseStreams ==
  ASSUME Sending, ~ broken, FeedClose
  PROVE  Sending'
<1> DEFINE a == Closed(ToldWith(pending), region)
<1> DEFINE m == Closing(message, region, body)
<1>1. Adapter = ToldWith(pending)
  BY DEF Adapter, ToldWith
<1>2. /\ message' = m /\ deltas' = m /\ first_content' = first_content
      /\ pending' = IF region = "tool_calls" THEN pending ELSE [pending EXCEPT ![region] = <<>>]
      /\ region' \in Fields /\ body' = <<>>
  <2>1. /\ message' = m /\ Becomes(a) /\ region' \in Fields /\ body' = <<>>
    BY <1>1 DEF FeedClose
  <2>2. /\ a.deltas = m /\ a.first_content = first_content
        /\ a.pending = IF region = "tool_calls" THEN pending ELSE [pending EXCEPT ![region] = <<>>]
    BY ClosedSends
  <2> QED BY <2>1, <2>2 DEF Becomes
<1>3. Whole(m) /\ ParserTyped /\ ThoughtsSent /\ ContentSent
  BY SentIsWhole DEF Sending
<1> HIDE DEF m
<1>4. \A f \in Fields : OpenText(f)' = <<>>
  BY <1>2 DEF OpenText
<1>5. \A f \in TextFields : pending'[f] = <<>>
  <2> TAKE f \in TextFields
  <2>1. CASE f = region
    <3>1. f # "tool_calls"
      BY FieldNames
    <3> QED BY <1>2, <1>3, <2>1, <3>1 DEF ParserTyped
  <2>2. CASE f # region
    <3>1. OpenText(f) = <<>>
      BY <2>2 DEF OpenText
    <3>2. pending[f] = <<>>
      BY <1>3, <3>1, FieldNames, EmptyText DEF ThoughtsSent, ContentSent
    <3>3. pending'[f] = pending[f]
      BY <1>2, <1>3, <2>2 DEF ParserTyped
    <3> QED BY <3>2, <3>3
  <2> QED BY <2>1, <2>2
<1>6. <<>> \in Seq(Symbols)
  BY EmptyText
<1>7. ParserTyped'
  <2>1. pending' \in [TextFields -> Seq(Symbols)]
    <3>1. pending' = [f \in TextFields |-> pending'[f]]
      BY <1>2, <1>3 DEF ParserTyped
    <3> QED BY <1>5, <1>6, <3>1
  <2> QED BY <1>2, <1>3, <1>6, <2>1 DEF ParserTyped, Whole
<1>8. m["thinking"] \in Seq(Symbols) /\ m["content"] \in Seq(Symbols)
      /\ m["thinking"] \o <<>> = m["thinking"] /\ m["content"] \o <<>> = m["content"]
  <2>1. m["thinking"] \in Seq(Symbols) /\ m["content"] \in Seq(Symbols)
    BY <1>3, FieldNames DEF Whole
  <2> QED BY <2>1, EmptyText
<1>9. ThoughtsSent'
  BY <1>2, <1>4, <1>5, <1>8, FieldNames, EmptyText DEF ThoughtsSent
<1>10. ContentSent'
  <2>1. OpenText("content")' = <<>> /\ pending'["content"] = <<>>
    BY <1>4, <1>5, FieldNames
  <2>2. message'["content"] = m["content"] /\ deltas'["content"] = m["content"]
        /\ LStrip(m["content"]) = m["content"]
        /\ (first_content' => m["content"] = <<>>)
        /\ (~ first_content' => Printed(m["content"]) # {})
    BY <1>2, <1>3 DEF Whole
  <2> QED BY <1>8, <2>1, <2>2, EmptyText DEF ContentSent
<1> QED BY <1>2, <1>7, <1>9, <1>10 DEF Sending

(* The end of a reply, which begins with nothing withheld: what a last chunk *)
(* sends.                                                                    *)
Sent(text) == IF region = "content" /\ first_content THEN RStrip(LStrip(text)) ELSE RStrip(text)

LEMMA SentText ==
  ASSUME NEW text \in Seq(Symbols)
  PROVE  Sent(text) \in Seq(Symbols)
<1>1. RStrip(text) \in Seq(Symbols) /\ LStrip(text) \in Seq(Symbols)
  BY Strips
<1>2. RStrip(LStrip(text)) \in Seq(Symbols)
  BY <1>1, Strips
<1> QED BY <1>1, <1>2 DEF Sent

ToldNothing == ToldWith([f \in TextFields |-> <<>>])

(* A chunk in a region that then closes.                                     *)
Parts == {"pending", "first_content", "deltas"}

Clear(a, f, t) ==
  DOMAIN a = Parts /\ a = [k \in Parts |-> a[k]] /\ f # "tool_calls" /\ a.pending[f] \o t = t

ClosesWith(a, f, t) == Closed(Take(a, f, t), f).deltas = [a.deltas EXCEPT ![f] = @ \o RStrip(t)]

LEMMA TakenAndClosed ==
  ASSUME NEW a, NEW f, NEW t, Clear(a, f, t)
  PROVE  ClosesWith(a, f, t)
<1> DEFINE sends == RStrip(t)
           waits == SubSeq(t, Len(RStrip(t)) + 1, Len(t))
           b == Take(a, f, t)
<1>0. DOMAIN a = Parts /\ a = [k \in Parts |-> a[k]] /\ f # "tool_calls" /\ a.pending[f] \o t = t
  BY DEF Clear
<1>1. b = [a EXCEPT !.pending[f] = waits, !.deltas[f] = @ \o sends]
  BY <1>0 DEF Take
<1> HIDE DEF sends, waits, b
<1>2. b.deltas = [a.deltas EXCEPT ![f] = @ \o sends]
  BY <1>0, <1>1 DEF Parts
<1>3. "deltas" \in DOMAIN b
  BY <1>0, <1>1 DEF Parts
<1>4. Closed(b, f) = [b EXCEPT !.pending[f] = <<>>]
  BY <1>0 DEF Closed
<1>5. Closed(b, f).deltas = b.deltas
  BY <1>3, <1>4
<1> QED BY <1>2, <1>5 DEF sends, b, ClosesWith

LEMMA FlushSends ==
  ASSUME ParserTyped, region \in TextFields, NEW text \in Seq(Symbols)
  PROVE  Closed(ChunkDelta(ToldNothing, region, text), region).deltas
           = [deltas EXCEPT ![region] = @ \o Sent(text)]
<1> DEFINE a == ToldNothing
           c == [ToldNothing EXCEPT !.first_content = FALSE]
<1>1. region # "tool_calls"
  BY FieldNames
<1>2. /\ DOMAIN a = Parts /\ a = [k \in Parts |-> a[k]] /\ a.deltas = deltas
      /\ a.first_content = first_content /\ a.pending = [f \in TextFields |-> <<>>]
  BY DEF ToldNothing, ToldWith, Parts
<1>3. /\ DOMAIN c = Parts /\ c = [k \in Parts |-> c[k]] /\ c.deltas = deltas
      /\ c.pending = [f \in TextFields |-> <<>>]
  <2> HIDE DEF a
  <2>1. c = [a EXCEPT !.first_content = FALSE]
    BY DEF a
  <2> HIDE DEF c
  <2> QED BY <1>2, <2>1 DEF Parts
<1>4. deltas \in [Fields -> Seq(Symbols)] /\ region \in Fields /\ deltas[region] \in Seq(Symbols)
  BY FieldNames DEF ParserTyped
<1>5. \A t \in Seq(Symbols) : a.pending[region] \o t = t /\ c.pending[region] \o t = t
  <2>1. a.pending[region] = <<>> /\ c.pending[region] = <<>>
    BY <1>2, <1>3
  <2> QED BY <2>1, EmptyText
<1> HIDE DEF a, c
<1>6. ASSUME NEW t \in Seq(Symbols)
      PROVE  /\ Closed(Take(a, region, t), region).deltas = [deltas EXCEPT ![region] = @ \o RStrip(t)]
             /\ Closed(Take(c, region, t), region).deltas = [deltas EXCEPT ![region] = @ \o RStrip(t)]
  <2>1. Clear(a, region, t) /\ Clear(c, region, t)
    BY <1>1, <1>2, <1>3, <1>5 DEF Clear
  <2>2. ClosesWith(a, region, t) /\ ClosesWith(c, region, t)
    BY <2>1, TakenAndClosed
  <2> QED BY <1>2, <1>3, <2>2 DEF ClosesWith
<1>7. CASE region = "content" /\ first_content /\ LStrip(text) = <<>>
  <2>1. ChunkDelta(a, region, text) = a
    BY <1>2, <1>7, FieldNames DEF ChunkDelta
  <2>2. Closed(a, region) = [a EXCEPT !.pending[region] = <<>>]
    BY <1>1 DEF Closed
  <2>3. Closed(a, region).deltas = deltas
    BY <1>2, <2>2 DEF Parts
  <2>4. Sent(text) = <<>>
    BY <1>7, EmptyText DEF Sent
  <2>5. [deltas EXCEPT ![region] = @ \o <<>>] = deltas
    <3>1. deltas[region] \o <<>> = deltas[region]
      BY <1>4, EmptyText
    <3> QED BY <1>4, <3>1
  <2> QED BY <2>1, <2>3, <2>4, <2>5 DEF a
<1>8. CASE region = "content" /\ first_content /\ LStrip(text) # <<>>
  <2>1. ChunkDelta(a, region, text) = Take(c, region, LStrip(text))
    BY <1>2, <1>8, FieldNames DEF ChunkDelta, a, c
  <2>2. LStrip(text) \in Seq(Symbols)
    BY Strips
  <2>3. Sent(text) = RStrip(LStrip(text))
    BY <1>8 DEF Sent
  <2>4. Closed(ChunkDelta(a, region, text), region).deltas = [deltas EXCEPT ![region] = @ \o Sent(text)]
    BY <1>6, <2>1, <2>2, <2>3
  <2> QED BY <2>4 DEF a
<1>9. CASE ~ (region = "content" /\ first_content)
  <2>1. ChunkDelta(a, region, text) = Take(a, region, text)
    BY <1>2, <1>9 DEF ChunkDelta
  <2>2. Sent(text) = RStrip(text)
    BY <1>9 DEF Sent
  <2>3. Closed(ChunkDelta(a, region, text), region).deltas = [deltas EXCEPT ![region] = @ \o Sent(text)]
    BY <1>6, <2>1, <2>2
  <2> QED BY <2>3 DEF a
<1> QED BY <1>7, <1>8, <1>9

(* What was sent, and what it lacks when there is text to follow it.         *)
Completed(whole, sent, waiting, last) ==
  whole = (sent \o (IF last = <<>> THEN <<>> ELSE waiting)) \o last

LEMMA TextCompleted ==
  ASSUME NEW S, NEW sent \in Seq(S), NEW s \in Seq(S), NEW t \in Seq(S)
  PROVE  Completed(sent \o RStrip(Rest(s) \o t), sent, Rest(s), RStrip(t))
<1>1. RStrip(s) \in Seq(S) /\ Rest(s) \in Seq(S) /\ RStrip(t) \in Seq(S)
  BY Strips
<1>2. RStrip(Rest(s) \o t) = IF RStrip(t) = <<>> THEN <<>> ELSE Rest(s) \o RStrip(t)
  BY <1>1, RestIsBlank, BlankBefore
<1>3. SameJoined(sent, Rest(s), RStrip(t))
  BY <1>1, JoinedTwice
<1>4. sent \o <<>> = sent /\ <<>> \o <<>> = <<>> /\ <<>> \in Seq(S)
  BY EmptyText
<1> QED BY <1>2, <1>3, <1>4 DEF Completed, SameJoined

LEMMA FlushCompletes ==
  ASSUME Sending, region \in TextFields, NEW text \in Seq(Symbols)
  PROVE  Completed(Closing(message, region, body \o text)[region], deltas[region], pending[region], Sent(text))
<1> DEFINE whole == Closing(message, region, body \o text)[region]
<1>1. ParserTyped /\ ThoughtsSent /\ ContentSent
  BY DEF Sending
<1>2. /\ message \in [Fields -> Seq(Symbols)] /\ body \in Seq(Symbols) /\ body \o text \in Seq(Symbols)
      /\ deltas[region] \in Seq(Symbols) /\ message[region] \in Seq(Symbols) /\ OpenText(region) = body
  BY <1>1, FieldNames, Joined DEF ParserTyped, OpenText
<1>3. CASE region = "thinking"
  <2>1. whole = message["thinking"] \o RStrip(body \o text)
    BY <1>2, <1>3, FieldNames DEF Closing
  <2>2. deltas["thinking"] = message["thinking"] \o RStrip(body) /\ pending["thinking"] = Rest(body)
    BY <1>1, <1>2, <1>3 DEF ThoughtsSent
  <2> HIDE DEF whole
  <2>3. whole = deltas["thinking"] \o RStrip(Rest(body) \o text)
    <3>1. GoesOn(message["thinking"], body, text)
      BY <1>2, <1>3, TakeSends
    <3> QED BY <2>1, <2>2, <3>1 DEF GoesOn
  <2>4. Completed(deltas["thinking"] \o RStrip(Rest(body) \o text), deltas["thinking"], Rest(body), RStrip(text))
    BY <1>2, <1>3, TextCompleted
  <2>5. Sent(text) = RStrip(text)
    BY <1>3 DEF Sent
  <2>6. Completed(whole, deltas[region], pending[region], Sent(text))
    BY <1>3, <2>2, <2>3, <2>4, <2>5
  <2> QED BY <2>6 DEF whole
<1>4. ASSUME region = "content" PROVE whole = LStrip(message["content"] \o RStrip(body \o text))
  BY <1>2, <1>4, FieldNames DEF Closing
<1>5. CASE region = "content" /\ ~ first_content
  <2>1. /\ Printed(message["content"] \o RStrip(body)) # {} /\ pending["content"] = Rest(body)
        /\ deltas["content"] = LStrip(message["content"] \o RStrip(body))
    BY <1>1, <1>2, <1>5 DEF ContentSent
  <2> HIDE DEF whole
  <2>2. whole = deltas["content"] \o RStrip(Rest(body) \o text)
    <3>1. GoesOn(message["content"], body, text)
      BY <1>2, <1>5, TakeSends
    <3> QED BY <1>4, <1>5, <2>1, <3>1 DEF GoesOn
  <2>3. Completed(deltas["content"] \o RStrip(Rest(body) \o text), deltas["content"], Rest(body), RStrip(text))
    BY <1>2, <1>5, TextCompleted
  <2>4. Sent(text) = RStrip(text)
    BY <1>5 DEF Sent
  <2>5. Completed(whole, deltas[region], pending[region], Sent(text))
    BY <1>5, <2>1, <2>2, <2>3, <2>4
  <2> QED BY <2>5 DEF whole
<1>6. CASE region = "content" /\ first_content
  <2>1. /\ LStrip(message["content"]) = message["content"]
        /\ Printed(message["content"]) = {} /\ Printed(body) = {}
        /\ deltas["content"] = <<>> /\ pending["content"] = <<>>
    BY <1>1, <1>2, <1>6 DEF ContentSent
  <2>2. message["content"] = <<>>
    BY <2>1 DEF LStrip
  <2>3. RStrip(body \o text) \in Seq(Symbols)
    BY <1>2, Strips
  <2> HIDE DEF whole
  <2>4. whole = LStrip(RStrip(body \o text))
    BY <1>4, <1>6, <2>2, <2>3, EmptyText
  <2>5. whole = Sent(text)
    <3>1. CASE LStrip(text) = <<>>
      <4>1. Printed(body \o text) = {}
        BY <1>2, <2>1, <3>1, BlankJoined
      <4>2. RStrip(body \o text) = <<>>
        BY <4>1 DEF RStrip
      <4>3. whole = <<>> /\ RStrip(LStrip(text)) = <<>>
        BY <2>4, <3>1, <4>2, EmptyText
      <4> QED BY <1>6, <4>3 DEF Sent
    <3>2. CASE LStrip(text) # <<>>
      <4>1. LStrip(RStrip(body \o text)) = RStrip(LStrip(text))
        BY <1>2, <2>1, <3>2, FirstJoined
      <4> QED BY <1>6, <2>4, <4>1 DEF Sent
    <3> QED BY <3>1, <3>2
  <2>6. Sent(text) \in Seq(Symbols)
    BY SentText
  <2>7. Sent(text) = (<<>> \o <<>>) \o Sent(text)
    BY <2>6, EmptyText
  <2>8. Completed(whole, deltas[region], pending[region], Sent(text))
    BY <1>6, <2>1, <2>5, <2>7 DEF Completed
  <2> QED BY <2>8 DEF whole
<1> QED BY <1>3, <1>5, <1>6, FieldNames

LEMMA Suffix ==
  ASSUME NEW S, NEW s \in Seq(S), NEW t \in Seq(S)
  PROVE  SubSeq(s \o t, Len(s) + 1, Len(s \o t)) = t
<1> DEFINE w == s \o t
<1>1. /\ w \in Seq(S) /\ Len(w) = Len(s) + Len(t) /\ Len(s) \in Nat /\ Len(t) \in Nat
      /\ \A i \in 1..Len(t) : w[Len(s) + i] = t[i]
  BY Joined, LenProperties
<1> HIDE DEF w
<1>2. /\ SubSeq(w, Len(s) + 1, Len(w)) \in Seq(S) /\ Len(SubSeq(w, Len(s) + 1, Len(w))) = Len(t)
      /\ \A i \in 1..Len(t) : SubSeq(w, Len(s) + 1, Len(w))[i] = w[Len(s) + i]
  <2>1. Len(s) \in 0..Len(w) /\ Len(w) \in Len(s)..Len(w) /\ Len(w) - Len(s) = Len(t)
    BY <1>1
  <2> QED BY <1>1, <2>1, Slice
<1>3. SubSeq(w, Len(s) + 1, Len(w)) = t
  BY <1>1, <1>2, SeqEqual
<1> QED BY <1>3 DEF w

LEMMA WholeSuffices ==
  ASSUME NEW f, NEW x, deltas[f] \in Seq(Symbols), x \in Seq(Symbols), deltas'[f] = deltas[f] \o x,
         Completed(message'[f], deltas[f], pending[f], x)
  PROVE  WholeUpToFlush(f)
<1>1. SubSeq(deltas'[f], Len(deltas[f]) + 1, Len(deltas'[f])) = x
  BY Suffix
<1> QED BY <1>1 DEF WholeUpToFlush, Completed

(* A field that is not open: all of it was sent.                             *)
LEMMA OthersWhole ==
  ASSUME Sending, NEW f \in TextFields, f # region, NEW text
  PROVE  Closing(message, region, text)[f] = deltas[f]
<1>1. Whole(Closing(message, region, body))
  BY SentIsWhole
<1>2. Closing(message, region, body)[f] = deltas[f]
  BY <1>1, FieldNames DEF Whole
<1>3. region \in Fields /\ message \in [Fields -> Seq(Symbols)]
  BY DEF Sending, ParserTyped
<1>4. Closing(message, region, text)[f] = message[f] /\ Closing(message, region, body)[f] = message[f]
  BY <1>3, FieldNames DEF Closing
<1> QED BY <1>2, <1>4

LEMMA FinalSends ==
  ASSUME Sending, Finalize, ~ broken'
  PROVE  /\ deltas'["tool_calls"] = message'["tool_calls"]
         /\ \A f \in TextFields : WholeUpToFlush(f)
<1>1. [Adapter EXCEPT !.pending = [f \in TextFields |-> <<>>]] = ToldNothing
  BY DEF Adapter, ToldWith, ToldNothing
<1>2. PICK text \in Chunks \cup {<<>>} :
        /\ message' = Closing(message, region, body \o text)
        /\ Becomes(Closed(ChunkDelta(ToldNothing, region, text), region))
  BY <1>1 DEF Finalize
<1>3. text \in Seq(Symbols)
  <2>1. <<>> \in Seq(Symbols) /\ Seq(STRING) \subseteq Seq(Symbols)
    BY EmptyText, SeqMonotonic DEF Symbols
  <2> QED BY <2>1, ParserAssumption
<1>4. /\ ParserTyped /\ region \in Fields /\ deltas \in [Fields -> Seq(Symbols)]
      /\ deltas["tool_calls"] = message["tool_calls"] /\ message \in [Fields -> Seq(Symbols)]
  BY DEF Sending, ParserTyped
<1>5. \A f \in TextFields : deltas[f] \in Seq(Symbols)
  BY <1>4, FieldNames
<1>6. ASSUME NEW f \in TextFields, f # region, deltas'[f] = deltas[f] PROVE WholeUpToFlush(f)
  <2>1. message'[f] = deltas[f]
    BY <1>2, <1>6, OthersWhole
  <2>2. deltas[f] \o <<>> = deltas[f] /\ <<>> \in Seq(Symbols)
    BY <1>5, EmptyText
  <2>3. Completed(message'[f], deltas[f], pending[f], <<>>)
    BY <2>1, <2>2 DEF Completed
  <2> QED BY <1>5, <1>6, <2>2, <2>3, WholeSuffices
<1>7. CASE region = "tool_calls"
  <2>1. Closed(ToldNothing, region).deltas = Closing(message, region, body)
    BY ClosedSends DEF ToldNothing
  <2>2. ChunkDelta(ToldNothing, region, text) = ToldNothing
    BY <1>7, FieldNames DEF ChunkDelta
  <2>3. deltas' = Closing(message, region, body)
    BY <1>2, <2>1, <2>2 DEF Becomes
  <2>4. Closing(message, region, body \o text) = Closing(message, region, body)
    BY <1>7 DEF Closing
  <2>5. \A f \in TextFields : f # region /\ deltas'[f] = deltas[f]
    BY <1>7, <2>3, FieldNames, OthersWhole
  <2> QED BY <1>2, <1>6, <2>3, <2>4, <2>5
<1>8. CASE region \in TextFields
  <2>1. deltas' = [deltas EXCEPT ![region] = @ \o Sent(text)]
    BY <1>2, <1>3, <1>4, <1>8, FlushSends DEF Becomes
  <2>2. WholeUpToFlush(region)
    <3>1. deltas'[region] = deltas[region] \o Sent(text)
      BY <1>4, <2>1
    <3>2. Completed(message'[region], deltas[region], pending[region], Sent(text))
      BY <1>2, <1>3, <1>8, FlushCompletes
    <3> QED BY <1>3, <1>5, <1>8, <3>1, <3>2, SentText, WholeSuffices
  <2>3. \A f \in TextFields : f # region => deltas'[f] = deltas[f]
    BY <1>4, <2>1, FieldNames
  <2>4. deltas'["tool_calls"] = deltas["tool_calls"] /\ message'["tool_calls"] = message["tool_calls"]
    BY <1>2, <1>4, <1>8, <2>1, FieldNames DEF Closing
  <2> QED BY <1>4, <1>6, <2>2, <2>3, <2>4
<1> QED BY <1>4, <1>7, <1>8, FieldNames

LEMMA StreamStep == Streamed /\ [ParserNext]_parser_vars => Streamed'
<1> SUFFICES ASSUME Streamed, [ParserNext]_parser_vars, reply_state' = "open", ~ broken' PROVE Sending'
  BY DEF Streamed
<1>1. CASE FeedChunk
  BY <1>1, ChunkStreams DEF Streamed, FeedChunk, Cut
<1>2. CASE FeedClose
  BY <1>2, CloseStreams DEF Streamed, FeedClose, Cut
<1>3. CASE FeedRaw
  BY <1>3 DEF FeedRaw
<1>4. CASE Finalize
  BY <1>4 DEF Finalize
<1>5. CASE UNCHANGED parser_vars
  <2>1. OpenText("thinking")' = OpenText("thinking") /\ OpenText("content")' = OpenText("content")
    BY <1>5 DEF OpenText, parser_vars
  <2>2. Sending
    BY <1>5 DEF Streamed, parser_vars
  <2> QED BY <1>5, <2>1, <2>2 DEF Sending, ParserTyped, ThoughtsSent, ContentSent, parser_vars
<1> QED BY <1>1, <1>2, <1>3, <1>4, <1>5 DEF ParserNext

(* The streamed answer, for texts and chunks of any length: when a reply     *)
(* ends that the parser did not fail on, the client has been sent every tool *)
(* call and, of every text, the message to the last letter, but for blanks   *)
(* that were withheld when the parser still had text to give out.            *)
THEOREM StreamsWhole == ParserSpec => StreamedToTheEnd
<1> DEFINE Flush == reply_state' # reply_state /\ ~ broken' =>
                      /\ deltas'["tool_calls"] = message'["tool_calls"]
                      /\ \A f \in TextFields : WholeUpToFlush(f)
<1>1. Streamed /\ [ParserNext]_parser_vars => [Flush]_parser_vars
  <2> SUFFICES ASSUME Streamed, ParserNext, reply_state' # reply_state, ~ broken'
               PROVE  /\ deltas'["tool_calls"] = message'["tool_calls"]
                      /\ \A f \in TextFields : WholeUpToFlush(f)
    OBVIOUS
  <2>1. Finalize
    BY DEF ParserNext, FeedChunk, FeedClose, FeedRaw, Cut
  <2>2. Sending
    BY <2>1 DEF Finalize, Streamed
  <2> QED BY <2>1, <2>2, FinalSends
<1> HIDE DEF Flush
<1>2. ParserSpec => [][Flush]_parser_vars
  BY <1>1, InitStreams, StreamStep, PTL DEF ParserSpec
<1> QED BY <1>2 DEF Flush, StreamedToTheEnd

-----------------------------------------------------------------------------
(* The sum over experts.  An order that is put in order again is undone: a   *)
(* map of 0..n - 1 that keeps the order changes nothing.                     *)

LEMMA StaysInPlace ==
  ASSUME NEW n \in Nat, NEW g \in [RowsOf(n) -> RowsOf(n)],
         \A i, j \in RowsOf(n) : i < j => g[i] < g[j]
  PROVE  \A i \in RowsOf(n) : g[i] = i
<1>1. ASSUME NEW i \in RowsOf(n), g[i] < i PROVE FALSE
  <2> DEFINE N == {k \in RowsOf(n) : g[k] < k}
  <2>1. N \subseteq Nat /\ i \in N /\ N # {}
    BY <1>1 DEF RowsOf
  <2>2. PICK k \in N : \A m \in N : k <= m
    <3> HIDE DEF N
    <3> QED BY <2>1, LeastOf
  <2>3. k \in RowsOf(n) /\ g[k] < k /\ g[k] \in RowsOf(n)
    BY <2>2
  <2>4. k - 1 \in RowsOf(n) /\ k - 1 < k /\ g[k - 1] \in RowsOf(n)
    BY <2>3 DEF RowsOf
  <2>5. g[k - 1] < g[k]
    BY <2>3, <2>4
  <2>6. k - 1 \in N
    BY <2>3, <2>4, <2>5 DEF RowsOf
  <2>7. k <= k - 1 /\ k \in Int
    <3>1. k <= k - 1
      <4> HIDE DEF N
      <4> QED BY <2>2, <2>6
    <3> QED BY <2>3, <3>1 DEF RowsOf
  <2> QED BY <2>7
<1>2. ASSUME NEW i \in RowsOf(n), i < g[i] PROVE FALSE
  <2> DEFINE N == {d \in RowsOf(n) : n - 1 - d < g[n - 1 - d]}
  <2>1. n - 1 - (n - 1 - i) = i /\ n - 1 - i \in RowsOf(n)
    BY DEF RowsOf
  <2>2. N \subseteq Nat /\ N # {}
    <3>1. n - 1 - i \in N
      BY <1>2, <2>1
    <3>2. N \subseteq RowsOf(n)
      OBVIOUS
    <3> HIDE DEF N
    <3> QED BY <3>1, <3>2 DEF RowsOf
  <2>3. PICK d \in N : \A m \in N : d <= m
    <3> HIDE DEF N
    <3> QED BY <2>2, LeastOf
  <2> DEFINE k == n - 1 - d
  <2>4. k \in RowsOf(n) /\ k < g[k] /\ g[k] \in RowsOf(n) /\ d \in RowsOf(n)
    <3>1. d \in RowsOf(n) /\ k < g[k]
      BY <2>3
    <3>2. k \in RowsOf(n)
      BY <3>1 DEF RowsOf
    <3> QED BY <3>1, <3>2
  <2> HIDE DEF k
  <2>5. k + 1 \in RowsOf(n) /\ k < k + 1 /\ g[k + 1] \in RowsOf(n)
    BY <2>4 DEF RowsOf
  <2>6. g[k] < g[k + 1]
    BY <2>4, <2>5
  <2>7. k + 1 < g[k + 1]
    BY <2>4, <2>5, <2>6 DEF RowsOf
  <2>8. n - 1 - (d - 1) = k + 1 /\ d - 1 \in RowsOf(n)
    BY <2>4, <2>5 DEF k, RowsOf
  <2>9. d - 1 \in N
    BY <2>7, <2>8
  <2>10. d <= d - 1
    <3> HIDE DEF N
    <3> QED BY <2>3, <2>9
  <2> QED BY <2>4, <2>10 DEF RowsOf
<1> QED BY <1>1, <1>2 DEF RowsOf

LEMMA OrderUndone ==
  ASSUME NEW n \in Nat, NEW order \in [RowsOf(n) -> RowsOf(n)],
         \A i, j \in RowsOf(n) : i # j => order[i] # order[j],
         NEW inv \in Argsorts(order)
  PROVE  \A r \in RowsOf(n) : inv[r] \in RowsOf(n) /\ order[inv[r]] = r
<1>1. /\ inv \in [RowsOf(n) -> RowsOf(n)]
      /\ \A i, j \in RowsOf(n) : i # j => inv[i] # inv[j]
      /\ \A i, j \in RowsOf(n) : i < j => order[inv[i]] <= order[inv[j]]
  BY DEF Argsorts
<1> DEFINE g == [r \in RowsOf(n) |-> order[inv[r]]]
<1>2. g \in [RowsOf(n) -> RowsOf(n)]
  BY <1>1
<1>3. ASSUME NEW i \in RowsOf(n), NEW j \in RowsOf(n), i < j PROVE g[i] < g[j]
  <2>1. inv[i] \in RowsOf(n) /\ inv[j] \in RowsOf(n) /\ inv[i] # inv[j]
    BY <1>1, <1>3 DEF RowsOf
  <2>2. order[inv[i]] # order[inv[j]] /\ order[inv[i]] <= order[inv[j]]
    BY <1>1, <1>3, <2>1
  <2>3. order[inv[i]] \in Int /\ order[inv[j]] \in Int
    BY <2>1 DEF RowsOf
  <2> QED BY <2>2, <2>3
<1>4. \A r \in RowsOf(n) : g[r] = order[inv[r]]
  OBVIOUS
<1> HIDE DEF g
<1>5. \A r \in RowsOf(n) : g[r] = r
  BY <1>2, <1>3, StaysInPlace
<1> QED BY <1>1, <1>4, <1>5

(* The row of a token and one of its experts.                                *)
LEMMA DivMod ==
  ASSUME NEW K \in Nat \ {0}, NEW t \in Nat, NEW k \in 0..K - 1
  PROVE  (t * K + k) \div K = t /\ (t * K + k) % K = k
<1>1. (t * K + k) \div K = t
  BY Z3
<1>2. (t * K + k) % K = k
  BY Z3
<1> QED BY <1>1, <1>2

LEMMA RowBelow ==
  ASSUME NEW K \in Nat \ {0}, NEW n \in Nat, NEW t \in 0..n - 1, NEW k \in 0..K - 1
  PROVE  t * K + k \in 0..n * K - 1
<1>1. t * K \in Nat /\ n * K \in Nat /\ (n - 1 - t) * K \in Nat
  <2>1. n - 1 - t \in Nat /\ t \in Nat
    OBVIOUS
  <2> QED BY <2>1, Z3
<1>2. n * K = t * K + K + (n - 1 - t) * K
  BY Z3
<1> QED BY <1>1, <1>2

LEMMA RowSplit ==
  ASSUME NEW K \in Nat \ {0}, NEW n \in Nat, NEW r \in 0..n * K - 1
  PROVE  r \div K \in 0..n - 1 /\ r % K \in 0..K - 1
<1>1. r \in Nat /\ r < n * K
  BY Z3
<1>2. r \div K \in Nat
  BY <1>1, Z3
<1>3. r \div K < n
  BY <1>1, Z3
<1>4. r % K \in 0..K - 1
  BY <1>1, Z3
<1> QED BY <1>2, <1>3, <1>4

Routed ==
  /\ gates \in Seq([ExpertIds -> GateValues])
  /\ \A t \in 1..Len(gates) : indices[t] \in Largest(gates[t])

Placed ==
  IF Size >= SortFrom
  THEN \E order \in Argsorts(FlatIndices) :
         /\ x_rows = [r \in RowsOf(Size) |-> order[r] \div TopK]
         /\ idx = [r \in RowsOf(Size) |-> FlatIndices[order[r]]]
         /\ inv_order \in Argsorts(order)
  ELSE /\ x_rows = [r \in RowsOf(Size) |-> r \div TopK]
       /\ idx = FlatIndices

(* Wherever sorting has moved it: what is read for a token and its k-th      *)
(* expert is the output of that expert for that token.                       *)
Projected == \A t \in Tokens, k \in RowsOf(TopK) : y[YRow(t, k)] = <<t, indices[t + 1][k]>>

Reduced ==
  moe_out = [t \in Tokens |->
               [i \in 1..TopK |-> <<gates[t + 1][indices[t + 1][i - 1]], y[YRow(t, i - 1)]>>]]

Gathered ==
  /\ gates = <<>> => idx = <<>>
  /\ idx = <<>> => y = <<>>
  /\ y = <<>> => moe_out = <<>>
  /\ Routed
  /\ idx # <<>> => Placed
  /\ y # <<>> => Projected
  /\ moe_out # <<>> => Reduced

LEMMA Sizes ==
  ASSUME Routed
  PROVE  /\ TopK \in Nat \ {0} /\ SortFrom \in Nat /\ Len(gates) \in Nat /\ Size \in Nat
         /\ Tokens = 0..Len(gates) - 1 /\ Size = Len(gates) * TopK
<1>1. TopK \in Nat \ {0} /\ SortFrom \in Nat
  BY ExpertsAssumption
<1>2. Len(gates) \in Nat
  BY LenProperties DEF Routed
<1>3. Len(gates) * TopK \in Nat
  BY <1>1, <1>2
<1> QED BY <1>1, <1>2, <1>3 DEF Tokens, Size

LEMMA RowsFound ==
  ASSUME Routed
  PROVE  /\ FlatIndices \in [RowsOf(Size) -> ExpertIds]
         /\ \A t \in Tokens, k \in RowsOf(TopK) :
              /\ t * TopK + k \in RowsOf(Size) /\ (t * TopK + k) \div TopK = t
              /\ FlatIndices[t * TopK + k] = indices[t + 1][k]
<1>1. \A t \in 1..Len(gates) : indices[t] \in [RowsOf(TopK) -> ExpertIds]
  BY DEF Routed, Largest
<1>2. ASSUME NEW r \in RowsOf(Size) PROVE indices[r \div TopK + 1][r % TopK] \in ExpertIds
  <2>1. r \in 0..Len(gates) * TopK - 1
    BY <1>2, Sizes DEF RowsOf
  <2>2. r \div TopK \in 0..Len(gates) - 1 /\ r % TopK \in 0..TopK - 1
    BY <2>1, Sizes, RowSplit
  <2>3. r \div TopK + 1 \in 1..Len(gates) /\ r % TopK \in RowsOf(TopK)
    BY <2>2, Sizes DEF RowsOf
  <2> QED BY <1>1, <2>3
<1>3. ASSUME NEW t \in Tokens, NEW k \in RowsOf(TopK)
      PROVE  /\ t * TopK + k \in RowsOf(Size) /\ (t * TopK + k) \div TopK = t
             /\ FlatIndices[t * TopK + k] = indices[t + 1][k]
  <2>1. t \in 0..Len(gates) - 1 /\ t \in Nat /\ k \in 0..TopK - 1
    BY Sizes DEF RowsOf
  <2>2. t * TopK + k \in RowsOf(Size)
    <3>1. t * TopK + k \in 0..Len(gates) * TopK - 1
      BY <2>1, Sizes, RowBelow
    <3> QED BY <3>1, Sizes DEF RowsOf
  <2>3. (t * TopK + k) \div TopK = t /\ (t * TopK + k) % TopK = k
    BY <2>1, Sizes, DivMod
  <2>4. FlatIndices[t * TopK + k] = indices[(t * TopK + k) \div TopK + 1][(t * TopK + k) % TopK]
    BY <2>2 DEF FlatIndices
  <2> QED BY <2>2, <2>3, <2>4
<1>4. FlatIndices \in [RowsOf(Size) -> ExpertIds]
  BY <1>2 DEF FlatIndices
<1> QED BY <1>3, <1>4

LEMMA InitGathered == ExpertsIdle => Gathered
<1> SUFFICES ASSUME ExpertsIdle PROVE Routed
  BY DEF ExpertsIdle, Gathered
<1>1. gates \in Seq([ExpertIds -> GateValues]) /\ Len(gates) = 0
  BY EmptySeq DEF ExpertsIdle
<1> QED BY <1>1 DEF Routed

LEMMA RouteGathers ==
  ASSUME Gathered, Route
  PROVE  Gathered'
<1>1. PICK n \in BatchTokens : gates' \in [1..n -> [ExpertIds -> GateValues]]
  BY DEF Route
<1>2. n \in Nat
  BY ExpertsAssumption
<1>3. gates' \in Seq([ExpertIds -> GateValues])
  BY <1>1, <1>2, SeqDef
<1>4. \A t \in 1..Len(gates') : indices'[t] \in Largest(gates'[t])
  BY DEF Route
<1>5. idx = <<>> /\ y = <<>> /\ moe_out = <<>>
  BY DEF Gathered, Route
<1> QED BY <1>3, <1>4, <1>5 DEF Gathered, Routed, Route

LEMMA SortGathers ==
  ASSUME Gathered, GatherSort
  PROVE  Gathered'
<1>1. /\ gates' = gates /\ indices' = indices /\ y' = y /\ moe_out' = moe_out
      /\ gates # <<>> /\ idx = <<>> /\ y = <<>> /\ moe_out = <<>>
  BY DEF GatherSort, Gathered
<1>2. Routed'
  BY <1>1 DEF Routed, Gathered
<1>3. Size' = Size /\ FlatIndices' = FlatIndices
  BY <1>1 DEF Size, FlatIndices
<1>4. Placed'
  BY <1>3 DEF Placed, GatherSort
<1> QED BY <1>1, <1>2, <1>4 DEF Gathered

LEMMA BroadcastGathers ==
  ASSUME Gathered, Broadcast
  PROVE  Gathered'
<1>1. /\ gates' = gates /\ indices' = indices /\ y' = y /\ moe_out' = moe_out
      /\ gates # <<>> /\ idx = <<>> /\ y = <<>> /\ moe_out = <<>> /\ Routed
  BY DEF Broadcast, Gathered
<1>2. Routed'
  BY <1>1 DEF Routed
<1>3. Size' = Size /\ FlatIndices' = FlatIndices
  BY <1>1 DEF Size, FlatIndices
<1>4. ~ Size >= SortFrom
  BY <1>1, Sizes DEF Broadcast
<1>5. Placed'
  BY <1>3, <1>4 DEF Placed, Broadcast
<1> QED BY <1>1, <1>2, <1>5 DEF Gathered

(* The experts return, row by row, what the row's token and expert make.     *)
LEMMA ProjectGathers ==
  ASSUME Gathered, Project
  PROVE  Gathered'
<1>1. /\ gates' = gates /\ indices' = indices /\ idx' = idx /\ x_rows' = x_rows
      /\ inv_order' = inv_order /\ moe_out' = moe_out
      /\ gates # <<>> /\ idx # <<>> /\ y = <<>> /\ moe_out = <<>> /\ Routed /\ Placed
  BY DEF Project, Gathered
<1>2. Routed'
  BY <1>1 DEF Routed
<1>3. Size' = Size /\ FlatIndices' = FlatIndices /\ Tokens' = Tokens
  BY <1>1 DEF Size, FlatIndices, Tokens
<1>4. Placed'
  BY <1>1, <1>3 DEF Placed
<1>5. Projected'
  <2> SUFFICES ASSUME NEW t \in Tokens, NEW k \in RowsOf(TopK)
               PROVE  y'[YRow(t, k)'] = <<t, indices[t + 1][k]>>
    BY <1>1, <1>3 DEF Projected
  <2> DEFINE r == t * TopK + k
  <2>1. /\ r \in RowsOf(Size) /\ r \div TopK = t /\ FlatIndices[r] = indices[t + 1][k]
        /\ FlatIndices \in [RowsOf(Size) -> ExpertIds]
    BY <1>1, RowsFound
  <2>2. YRow(t, k)' = IF Size >= SortFrom THEN inv_order[r] ELSE r
    BY <1>1, <1>3 DEF YRow
  <2> HIDE DEF r
  <2>3. \A q \in RowsOf(Size) :
          y'[q] = IF Size >= SortFrom /\ \E p \in RowsOf(Size) : p < q /\ idx[p] > idx[q]
                  THEN <<-1, -1>> ELSE <<x_rows[q], idx[q]>>
    BY DEF Project
  <2>4. CASE Size >= SortFrom
    <3>1. PICK order \in Argsorts(FlatIndices) :
            /\ x_rows = [q \in RowsOf(Size) |-> order[q] \div TopK]
            /\ idx = [q \in RowsOf(Size) |-> FlatIndices[order[q]]]
            /\ inv_order \in Argsorts(order)
      BY <1>1, <2>4 DEF Placed
    <3>2. /\ order \in [RowsOf(Size) -> RowsOf(Size)]
          /\ \A i, j \in RowsOf(Size) : i # j => order[i] # order[j]
          /\ \A i, j \in RowsOf(Size) : i < j => FlatIndices[order[i]] <= FlatIndices[order[j]]
      BY <2>1 DEF Argsorts
    <3>3. inv_order[r] \in RowsOf(Size) /\ order[inv_order[r]] = r
      <4>1. Size \in Nat
        BY <1>1, Sizes
      <4> QED BY <2>1, <3>1, <3>2, <4>1, OrderUndone
    <3>4. ASSUME NEW p \in RowsOf(Size), NEW q \in RowsOf(Size), p < q PROVE ~ idx[p] > idx[q]
      <4>1. order[p] \in RowsOf(Size) /\ order[q] \in RowsOf(Size)
        BY <3>2
      <4>2. FlatIndices[order[p]] \in Int /\ FlatIndices[order[q]] \in Int
        <5>1. FlatIndices[order[p]] \in ExpertIds /\ FlatIndices[order[q]] \in ExpertIds
          BY <2>1, <4>1
        <5>2. ExpertIds \subseteq Int
          BY ExpertsAssumption
        <5> QED BY <5>1, <5>2
      <4>3. FlatIndices[order[p]] <= FlatIndices[order[q]]
        BY <3>2, <3>4
      <4>4. idx[p] = FlatIndices[order[p]] /\ idx[q] = FlatIndices[order[q]]
        BY <3>1
      <4> QED BY <4>2, <4>3, <4>4
    <3>5. y'[inv_order[r]] = <<x_rows[inv_order[r]], idx[inv_order[r]]>>
      BY <2>3, <3>3, <3>4
    <3>6. x_rows[inv_order[r]] = t /\ idx[inv_order[r]] = indices[t + 1][k]
      BY <2>1, <3>1, <3>3
    <3> QED BY <2>2, <2>4, <3>5, <3>6
  <2>5. CASE ~ Size >= SortFrom
    <3>1. x_rows = [q \in RowsOf(Size) |-> q \div TopK] /\ idx = FlatIndices
      BY <1>1, <2>5 DEF Placed
    <3>2. y'[r] = <<x_rows[r], idx[r]>>
      BY <2>1, <2>3, <2>5
    <3>3. x_rows[r] = t /\ idx[r] = indices[t + 1][k]
      BY <2>1, <3>1
    <3> QED BY <2>2, <2>5, <3>2, <3>3
  <2> QED BY <2>4, <2>5
<1> QED BY <1>1, <1>2, <1>4, <1>5 DEF Gathered

LEMMA ReduceGathers ==
  ASSUME Gathered, SumReduce
  PROVE  Gathered'
<1>1. /\ gates' = gates /\ indices' = indices /\ idx' = idx /\ x_rows' = x_rows
      /\ inv_order' = inv_order /\ y' = y
      /\ y # <<>> /\ idx # <<>> /\ gates # <<>> /\ Routed /\ Placed /\ Projected
  BY DEF SumReduce, Gathered
<1>2. Size' = Size /\ FlatIndices' = FlatIndices /\ Tokens' = Tokens
  BY <1>1 DEF Size, FlatIndices, Tokens
<1>3. Routed' /\ Placed'
  BY <1>1, <1>2 DEF Routed, Placed
<1>4. \A t \in Tokens, k \in RowsOf(TopK) : YRow(t, k)' = YRow(t, k)
  BY <1>1, <1>2 DEF YRow
<1>5. Projected'
  BY <1>1, <1>2, <1>4 DEF Projected
<1>6. Reduced'
  <2>1. \A t, k : YRow(t, k)' = YRow(t, k)
    BY <1>1, <1>2 DEF YRow
  <2> QED BY <1>1, <1>2, <2>1 DEF Reduced, SumReduce
<1> QED BY <1>1, <1>3, <1>5, <1>6 DEF Gathered

LEMMA GatherStep == Gathered /\ [ExpertsNext]_experts_vars => Gathered'
<1> SUFFICES ASSUME Gathered, [ExpertsNext]_experts_vars PROVE Gathered'
  OBVIOUS
<1>1. CASE UNCHANGED experts_vars
  <2>1. Size' = Size /\ FlatIndices' = FlatIndices /\ Tokens' = Tokens
    BY <1>1 DEF Size, FlatIndices, Tokens, experts_vars
  <2>2. \A t, k : YRow(t, k)' = YRow(t, k)
    BY <1>1, <2>1 DEF YRow, experts_vars
  <2>3. /\ Routed => Routed'
        /\ Placed => Placed'
        /\ Projected => Projected'
        /\ Reduced => Reduced'
    BY <1>1, <2>1, <2>2 DEF Routed, Placed, Projected, Reduced, experts_vars
  <2> QED BY <1>1, <2>3 DEF Gathered, experts_vars
<1> QED BY <1>1, RouteGathers, SortGathers, BroadcastGathers, ProjectGathers, ReduceGathers
        DEF ExpertsNext

(* The experts of a token are TopK different ones.                           *)
LEMMA ChosenMany ==
  ASSUME Routed, NEW t \in Tokens
  PROVE  /\ Range(indices[t + 1]) \in SUBSET ExpertIds /\ Cardinality(Range(indices[t + 1])) = TopK
         /\ indices[t + 1] \in [RowsOf(TopK) -> ExpertIds]
         /\ \A e \in Range(indices[t + 1]), d \in ExpertIds \ Range(indices[t + 1]) :
              gates[t + 1][d] <= gates[t + 1][e]
<1> DEFINE f == indices[t + 1]
<1>1. f \in Largest(gates[t + 1])
  <2>1. t + 1 \in 1..Len(gates)
    BY Sizes
  <2> QED BY <2>1 DEF Routed
<1> HIDE DEF f
<1>2. /\ f \in [RowsOf(TopK) -> ExpertIds]
      /\ \A i, j \in RowsOf(TopK) : i # j => f[i] # f[j]
      /\ \A e \in ExpertIds \ Range(f), i \in RowsOf(TopK) : gates[t + 1][e] <= gates[t + 1][f[i]]
  BY <1>1 DEF Largest
<1>3. Range(f) = {f[i] : i \in RowsOf(TopK)}
  BY <1>2 DEF Range
<1>4. f \in Bijection(RowsOf(TopK), Range(f))
  <2>1. f \in [RowsOf(TopK) -> Range(f)] /\ \A e \in Range(f) : \E i \in RowsOf(TopK) : f[i] = e
    BY <1>2, <1>3
  <2>2. IsInjective(f)
    BY <1>2 DEF IsInjective
  <2>3. f \in Injection(RowsOf(TopK), Range(f))
    BY <2>1, <2>2 DEF Injection
  <2>4. f \in Surjection(RowsOf(TopK), Range(f))
    BY <2>1 DEF Surjection
  <2> QED BY <2>3, <2>4 DEF Bijection
<1>5. IsFiniteSet(RowsOf(TopK)) /\ Cardinality(RowsOf(TopK)) = TopK
  <2>1. 0 \in Int /\ TopK - 1 \in Int /\ TopK \in Nat \ {0}
    BY Sizes
  <2>2. IsFiniteSet(0..TopK - 1)
        /\ Cardinality(0..TopK - 1) = IF 0 > TopK - 1 THEN 0 ELSE TopK - 1 - 0 + 1
    BY <2>1, FS_Interval
  <2> QED BY <2>1, <2>2 DEF RowsOf
<1>6. Cardinality(Range(f)) = TopK
  BY <1>4, <1>5, FS_Bijection DEF ExistsBijection
<1> QED BY <1>2, <1>3, <1>6 DEF f

LEMMA GatheredSuffices == Gathered => ExpertsSummed
<1> SUFFICES ASSUME Gathered, moe_out # <<>>, NEW t \in Tokens
             PROVE  \E chosen \in SUBSET ExpertIds :
                      /\ Cardinality(chosen) = TopK
                      /\ \A e \in chosen, d \in ExpertIds \ chosen : gates[t + 1][d] <= gates[t + 1][e]
                      /\ ToSet(moe_out[t]) = {<<gates[t + 1][e], <<t, e>>>> : e \in chosen}
  BY DEF ExpertsSummed
<1>1. Routed /\ Projected /\ Reduced
  BY DEF Gathered
<1> DEFINE f == indices[t + 1]
<1> DEFINE g == gates[t + 1]
<1> DEFINE row == [i \in 1..TopK |-> <<g[f[i - 1]], y[YRow(t, i - 1)]>>]
<1>2. moe_out[t] = row
  BY <1>1 DEF Reduced
<1>3. /\ Range(f) \in SUBSET ExpertIds /\ Cardinality(Range(f)) = TopK
      /\ f \in [RowsOf(TopK) -> ExpertIds]
      /\ \A e \in Range(f), d \in ExpertIds \ Range(f) : g[d] <= g[e]
  BY <1>1, ChosenMany
<1>4. \A k \in RowsOf(TopK) : y[YRow(t, k)] = <<t, f[k]>>
  BY <1>1 DEF Projected
<1> HIDE DEF f, g
<1>5. \A i \in 1..TopK : row[i] = <<g[f[i - 1]], <<t, f[i - 1]>>>>
  <2> TAKE i \in 1..TopK
  <2>1. i - 1 \in RowsOf(TopK)
    BY <1>1, Sizes DEF RowsOf
  <2> QED BY <1>4, <2>1
<1>6. ToSet(row) = {row[i] : i \in 1..TopK}
  BY DEF ToSet
<1> HIDE DEF row
<1>7. Range(f) = {f[i] : i \in RowsOf(TopK)}
  BY <1>3 DEF Range
<1>8. \A i \in 1..TopK : i - 1 \in RowsOf(TopK)
  BY <1>1, Sizes DEF RowsOf
<1>9. \A k \in RowsOf(TopK) : k + 1 \in 1..TopK /\ (k + 1) - 1 = k
  BY <1>1, Sizes DEF RowsOf
<1>10. ToSet(row) = {<<g[e], <<t, e>>>> : e \in Range(f)}
  <2>1. ASSUME NEW i \in 1..TopK PROVE row[i] \in {<<g[e], <<t, e>>>> : e \in Range(f)}
    BY <1>5, <1>7, <1>8
  <2>2. ASSUME NEW k \in RowsOf(TopK) PROVE <<g[f[k]], <<t, f[k]>>>> \in {row[i] : i \in 1..TopK}
    BY <1>5, <1>9
  <2> QED BY <1>6, <1>7, <2>1, <2>2
<1>11. \E chosen \in SUBSET ExpertIds :
         /\ Cardinality(chosen) = TopK
         /\ \A e \in chosen, d \in ExpertIds \ chosen : g[d] <= g[e]
         /\ ToSet(row) = {<<g[e], <<t, e>>>> : e \in chosen}
  BY <1>3, <1>10
<1> QED BY <1>2, <1>11 DEF g

(* The sum over experts, for any batch, any number of experts and any order  *)
(* among equal ones: each token gets the outputs of its own TopK best, with  *)
(* their own weights.                                                        *)
THEOREM SumsExperts == ExpertsSpec => []ExpertsSummed
<1>1. Gathered /\ [ExpertsNext]_experts_vars => Gathered'
  BY GatherStep
<1> QED BY <1>1, InitGathered, GatheredSuffices, PTL DEF ExpertsSpec

-----------------------------------------------------------------------------
(* Ragged offsets and ragged sequences.                                      *)

Summing(c, lens, n) == c = [i \in 0..n |-> IF i = 0 THEN 0 ELSE c[i - 1] + lens[i]]

LEMMA SumsExist ==
  ASSUME NEW lens \in Seq(Nat), NEW n \in Nat
  PROVE  \E c : Summing(c, lens, n)
<1> SUFFICES ASSUME ~ \E c : Summing(c, lens, n) PROVE FALSE
  OBVIOUS
<1> DEFINE N == {k \in Nat : ~ \E c : Summing(c, lens, k)}
<1>1. N \subseteq Nat /\ N # {}
  OBVIOUS
<1>2. PICK k \in N : \A m \in N : k <= m
  <2> HIDE DEF N
  <2> QED BY <1>1, LeastOf
<1>3. k \in Nat /\ ~ \E c : Summing(c, lens, k)
  BY <1>2
<1>4. k # 0
  <2>1. Summing([i \in 0..0 |-> 0], lens, 0)
    BY DEF Summing
  <2> QED BY <1>3, <2>1
<1>5. k - 1 \in Nat /\ k - 1 \notin N
  BY <1>2, <1>3, <1>4
<1>6. PICK c : Summing(c, lens, k - 1)
  BY <1>5
<1> DEFINE d == [i \in 0..k |-> IF i = k THEN c[k - 1] + lens[k] ELSE c[i]]
<1>7. \A i \in 0..k - 1 : c[i] = IF i = 0 THEN 0 ELSE c[i - 1] + lens[i]
  BY <1>6 DEF Summing
<1>8. \A i \in 0..k : d[i] = IF i = 0 THEN 0 ELSE d[i - 1] + lens[i]
  BY <1>3, <1>4, <1>7
<1>9. d = [i \in 0..k |-> d[i]]
  OBVIOUS
<1> HIDE DEF d
<1>10. Summing(d, lens, k)
  BY <1>8, <1>9 DEF Summing
<1> QED BY <1>3, <1>10

LEMMA Offsets ==
  ASSUME NEW lens \in Seq(Nat)
  PROVE  /\ CumLen(lens)[0] = 0
         /\ \A i \in 1..Len(lens) : CumLen(lens)[i] = CumLen(lens)[i - 1] + lens[i]
         /\ \A i \in 0..Len(lens) : CumLen(lens)[i] \in Nat
<1> DEFINE n == Len(lens)
<1> DEFINE c == CumLen(lens)
<1>1. n \in Nat
  BY LenProperties
<1>2. Summing(c, lens, n)
  <2>1. \E d : d = [i \in 0..n |-> IF i = 0 THEN 0 ELSE d[i - 1] + lens[i]]
    BY <1>1, SumsExist DEF Summing
  <2>2. c = CHOOSE d : d = [i \in 0..n |-> IF i = 0 THEN 0 ELSE d[i - 1] + lens[i]]
    BY DEF CumLen
  <2> QED BY <2>1, <2>2 DEF Summing
<1> HIDE DEF c
<1>3. \A i \in 0..n : c[i] = IF i = 0 THEN 0 ELSE c[i - 1] + lens[i]
  BY <1>2 DEF Summing
<1>4. c[0] = 0 /\ \A i \in 1..n : c[i] = c[i - 1] + lens[i]
  BY <1>1, <1>3
<1>5. ASSUME NEW i \in 0..n, c[i] \notin Nat PROVE FALSE
  <2> DEFINE N == {k \in 0..n : c[k] \notin Nat}
  <2>1. N \subseteq Nat /\ N # {}
    BY <1>1, <1>5
  <2>2. PICK k \in N : \A m \in N : k <= m
    <3> HIDE DEF N
    <3> QED BY <2>1, LeastOf
  <2>3. k \in 1..n /\ k - 1 \in 0..n /\ k - 1 \notin N
    BY <1>1, <1>4, <2>2
  <2>4. lens[k] \in Nat
    BY <2>3, ElementOfSeq
  <2> QED BY <1>4, <2>2, <2>3, <2>4
<1> QED BY <1>4, <1>5 DEF c

Flattening(f, seqs, n) == f = [i \in 1..n |-> IF i = 1 THEN seqs[i] ELSE f[i - 1] \o seqs[i]]

LEMMA FlatteningExists ==
  ASSUME NEW seqs, NEW n \in Nat
  PROVE  \E f : Flattening(f, seqs, n)
<1> SUFFICES ASSUME ~ \E f : Flattening(f, seqs, n) PROVE FALSE
  OBVIOUS
<1> DEFINE N == {k \in Nat : ~ \E f : Flattening(f, seqs, k)}
<1>1. N \subseteq Nat /\ N # {}
  OBVIOUS
<1>2. PICK k \in N : \A m \in N : k <= m
  <2> HIDE DEF N
  <2> QED BY <1>1, LeastOf
<1>3. k \in Nat /\ ~ \E f : Flattening(f, seqs, k)
  BY <1>2
<1>4. k # 0
  <2> DEFINE none == [i \in 1..0 |-> 0]
  <2>1. Flattening(none, seqs, 0)
    BY DEF Flattening
  <2> QED BY <1>3, <2>1
<1>5. k - 1 \in Nat /\ k - 1 \notin N
  BY <1>2, <1>3, <1>4
<1>6. PICK f : Flattening(f, seqs, k - 1)
  BY <1>5
<1> DEFINE g == [i \in 1..k |-> IF i = k THEN (IF k = 1 THEN seqs[k] ELSE f[k - 1] \o seqs[k]) ELSE f[i]]
<1>7. \A i \in 1..k - 1 : f[i] = IF i = 1 THEN seqs[i] ELSE f[i - 1] \o seqs[i]
  BY <1>6 DEF Flattening
<1>8. \A i \in 1..k : g[i] = IF i = 1 THEN seqs[i] ELSE g[i - 1] \o seqs[i]
  <2> TAKE i \in 1..k
  <2>1. CASE i = k
    <3>1. g[i] = IF k = 1 THEN seqs[k] ELSE f[k - 1] \o seqs[k]
      BY <2>1
    <3>2. k # 1 => g[k - 1] = f[k - 1]
      BY <1>3, <1>4
    <3> QED BY <2>1, <3>1, <3>2
  <2>2. CASE i # k
    <3>1. i \in 1..k - 1 /\ (i # 1 => i - 1 \in 1..k /\ i - 1 # k)
      BY <1>3, <2>2
    <3>2. g[i] = f[i] /\ (i # 1 => g[i - 1] = f[i - 1])
      BY <2>2, <3>1
    <3> HIDE DEF g
    <3> QED BY <1>7, <3>1, <3>2
  <2> QED BY <2>1, <2>2
<1>9. g = [i \in 1..k |-> g[i]]
  OBVIOUS
<1> HIDE DEF g
<1>10. Flattening(g, seqs, k)
  BY <1>8, <1>9 DEF Flattening
<1> QED BY <1>3, <1>10

(* The segments of a flattened sequence lie where the offsets say.           *)
Segments(S, flat, seqs, cum, n) ==
  /\ flat \in Seq(S) /\ Len(flat) = cum[n]
  /\ \A j \in 1..n : /\ cum[j - 1] \in Nat /\ cum[j] = cum[j - 1] + Len(seqs[j]) /\ cum[j] <= cum[n]
                     /\ \A k \in 1..Len(seqs[j]) : flat[cum[j - 1] + k] = seqs[j][k]

LEMMA Flattened ==
  ASSUME NEW S, NEW n \in Nat \ {0}, NEW seqs \in [1..n -> Seq(S)],
         NEW lens \in [1..n -> Nat], \A i \in 1..n : lens[i] = Len(seqs[i])
  PROVE  Segments(S, FlattenSeq(seqs), seqs, CumLen(lens), n)
<1> DEFINE cum == CumLen(lens)
<1>1. Len(seqs) = n /\ lens \in Seq(Nat) /\ Len(lens) = n
  <2>1. lens \in Seq(Nat) /\ seqs \in Seq(Seq(S))
    BY SeqDef
  <2> QED BY <2>1, LenProperties
<1>2. /\ cum[0] = 0 /\ \A i \in 1..n : cum[i] = cum[i - 1] + lens[i]
      /\ \A i \in 0..n : cum[i] \in Nat
  BY <1>1, Offsets
<1> HIDE DEF cum
<1>3. PICK f : Flattening(f, seqs, n) /\ FlattenSeq(seqs) = f[n]
  <2>1. \E g : g = [i \in 1..n |-> IF i = 1 THEN seqs[i] ELSE g[i - 1] \o seqs[i]]
    BY FlatteningExists DEF Flattening
  <2>2. FlattenSeq(seqs) =
          (CHOOSE g : g = [i \in 1..n |-> IF i = 1 THEN seqs[i] ELSE g[i - 1] \o seqs[i]])[n]
    BY <1>1 DEF FlattenSeq
  <2> QED BY <2>1, <2>2 DEF Flattening
<1>4. \A i \in 1..n : f[i] = IF i = 1 THEN seqs[i] ELSE f[i - 1] \o seqs[i]
  BY <1>3 DEF Flattening
<1> DEFINE P(i) == /\ f[i] \in Seq(S) /\ Len(f[i]) = cum[i]
                   /\ \A j \in 1..i : /\ cum[j] <= cum[i]
                                      /\ \A k \in 1..Len(seqs[j]) : f[i][cum[j - 1] + k] = seqs[j][k]
<1>5. ASSUME NEW i \in 1..n, i = 1 \/ (i - 1 \in 1..n /\ P(i - 1)) PROVE P(i)
  <2>1. seqs[i] \in Seq(S) /\ Len(seqs[i]) \in Nat /\ lens[i] = Len(seqs[i])
    BY LenProperties
  <2>2. cum[i] = cum[i - 1] + Len(seqs[i]) /\ cum[i] \in Nat /\ cum[i - 1] \in Nat
    BY <1>2, <2>1
  <2>3. CASE i = 1
    <3>1. f[i] = seqs[i] /\ cum[i - 1] = 0
      BY <1>2, <1>4, <2>3
    <3> QED BY <2>1, <2>2, <2>3, <3>1
  <2>4. CASE i # 1
    <3>1. f[i] = f[i - 1] \o seqs[i] /\ P(i - 1) /\ i - 1 \in 1..n
      BY <1>4, <1>5, <2>4
    <3> DEFINE g == f[i - 1]
    <3> DEFINE h == f[i]
    <3>2. /\ g \in Seq(S) /\ Len(g) = cum[i - 1]
          /\ \A j \in 1..i - 1 : /\ cum[j] <= cum[i - 1]
                                 /\ \A k \in 1..Len(seqs[j]) : g[cum[j - 1] + k] = seqs[j][k]
      BY <3>1
    <3>3. /\ h \in Seq(S) /\ Len(h) = cum[i]
          /\ \A k \in 1..Len(g) : h[k] = g[k]
          /\ \A k \in 1..Len(seqs[i]) : h[Len(g) + k] = seqs[i][k]
      <4>1. g \o seqs[i] \in Seq(S) /\ Len(g \o seqs[i]) = Len(g) + Len(seqs[i])
            /\ (\A k \in 1..Len(g) : (g \o seqs[i])[k] = g[k])
            /\ \A k \in 1..Len(seqs[i]) : (g \o seqs[i])[Len(g) + k] = seqs[i][k]
        <5>1. g \in Seq(S) /\ seqs[i] \in Seq(S)
          BY <2>1, <3>2
        <5> HIDE DEF g
        <5> QED BY <5>1, Joined
      <4> QED BY <2>2, <3>1, <3>2, <4>1
    <3> HIDE DEF g, h
    <3>4. ASSUME NEW j \in 1..i
          PROVE  /\ cum[j] <= cum[i]
                 /\ \A k \in 1..Len(seqs[j]) : h[cum[j - 1] + k] = seqs[j][k]
      <4>1. CASE j = i
        <5>1. ASSUME NEW k \in 1..Len(seqs[i]) PROVE h[cum[i - 1] + k] = seqs[i][k]
          BY <3>2, <3>3
        <5>2. cum[i] <= cum[i]
          BY <2>2
        <5> QED BY <4>1, <5>1, <5>2
      <4>2. CASE j # i
        <5>1. j \in 1..i - 1 /\ j \in 1..n /\ j - 1 \in 0..n /\ j \in 0..n
          BY <4>2
        <5>2. cum[j] <= cum[i - 1] /\ cum[j] \in Nat /\ cum[j - 1] \in Nat
              /\ cum[j] = cum[j - 1] + Len(seqs[j]) /\ Len(seqs[j]) \in Nat
          <6>1. seqs[j] \in Seq(S)
            BY <5>1
          <6> QED BY <1>2, <3>2, <5>1, <6>1, LenProperties
        <5>3. ASSUME NEW k \in 1..Len(seqs[j]) PROVE h[cum[j - 1] + k] = seqs[j][k]
          <6> DEFINE l == Len(seqs[j])
          <6>2. /\ k \in 1..l /\ l \in Nat /\ cum[j] \in Nat /\ cum[j - 1] \in Nat
                /\ cum[j] <= cum[i - 1] /\ cum[j] = cum[j - 1] + l /\ cum[i - 1] \in Nat
            BY <2>2, <5>2, <5>3
          <6> HIDE DEF l
          <6>1. cum[j - 1] + k \in 1..cum[i - 1]
            BY <6>2, SMTT(30)
          <6> DEFINE q == cum[j - 1] + k
          <6>3. g[q] = seqs[j][k]
            BY <3>2, <5>1
          <6>4. h[q] = g[q]
            <7>1. q \in 1..Len(g)
              BY <3>2, <6>1
            <7> HIDE DEF q
            <7> QED BY <3>3, <7>1
          <6> QED BY <6>3, <6>4
        <5>4. cum[j] <= cum[i]
          <6> DEFINE l == Len(seqs[i])
          <6>1. l \in Nat /\ cum[i] = cum[i - 1] + l
            BY <2>1, <2>2
          <6>2. cum[j] <= cum[i - 1] /\ cum[j] \in Nat /\ cum[i - 1] \in Nat
            BY <2>2, <5>2
          <6> HIDE DEF l
          <6> QED BY <6>1, <6>2, SMTT(30)
        <5> QED BY <5>3, <5>4
      <4> QED BY <4>1, <4>2
    <3> QED BY <3>3, <3>4 DEF h
  <2> QED BY <2>3, <2>4
<1>6. ASSUME NEW i \in 1..n, ~ P(i) PROVE FALSE
  <2> DEFINE N == {k \in 1..n : ~ P(k)}
  <2> HIDE DEF P
  <2>0. \A k : k \in N <=> k \in 1..n /\ ~ P(k)
    BY Zenon
  <2> HIDE DEF N
  <2>1. N \subseteq Nat /\ N # {}
    <3>1. i \in N
      BY <1>6, <2>0, Zenon
    <3>2. \A k \in N : k \in 1..n
      BY <2>0, Zenon
    <3> QED BY <3>1, <3>2
  <2>2. PICK k \in N : \A m \in N : k <= m
    BY <2>1, LeastOf
  <2>3. k \in 1..n /\ ~ P(k)
    BY <2>0, <2>2, Zenon
  <2>5. k - 1 \notin N
    BY <2>1, <2>2
  <2>4. k = 1 \/ (k - 1 \in 1..n /\ P(k - 1))
    <3>1. k = 1 \/ k - 1 \in 1..n
      BY <2>3
    <3>2. k - 1 \in 1..n => P(k - 1)
      BY <2>0, <2>5, Zenon
    <3> QED BY <3>1, <3>2
  <2> QED BY <1>5, <2>3, <2>4
<1>7. P(n) /\ n \in 1..n
  <2> HIDE DEF P
  <2>1. n \in 1..n
    OBVIOUS
  <2> QED BY <1>6, <2>1
<1> DEFINE flat == f[n]
<1>8. /\ flat \in Seq(S) /\ Len(flat) = cum[n]
      /\ \A j \in 1..n : /\ cum[j] <= cum[n]
                         /\ \A k \in 1..Len(seqs[j]) : flat[cum[j - 1] + k] = seqs[j][k]
  BY <1>7
<1> HIDE DEF P, flat
<1>9. \A j \in 1..n : cum[j - 1] \in Nat /\ cum[j] = cum[j - 1] + Len(seqs[j])
  BY <1>2
<1>10. Segments(S, flat, seqs, cum, n)
  BY <1>8, <1>9 DEF Segments
<1> QED BY <1>3, <1>10 DEF flat, cum

-----------------------------------------------------------------------------
(* The slots of a linear-attention layer.                                    *)

RunTokens == {0} \cup {TokenAt(x, k) : x \in Owners, k \in Nat}
Pad(s) == Zeros \o s
ConvState(s) == LastOf(Pad(s), StateLen)
Absorbed(s) == [k \in 1..Len(s) |-> SubSeq(Pad(s), k, k + StateLen)]

SameSlices(s, t, a, b, n) == SubSeq(s, a + 1, a + n) = SubSeq(t, b + 1, b + n)

LEMMA SameSlice ==
  ASSUME NEW S, NEW s \in Seq(S), NEW t \in Seq(S), NEW a \in Nat, NEW b \in Nat, NEW n \in Nat,
         a + n <= Len(s), b + n <= Len(t), \A i \in 1..n : s[a + i] = t[b + i]
  PROVE  SameSlices(s, t, a, b, n)
<1>1. /\ Len(s) \in Nat /\ a \in 0..Len(s) /\ a + n \in a..Len(s)
      /\ Len(t) \in Nat /\ b \in 0..Len(t) /\ b + n \in b..Len(t)
      /\ (a + n) - a = n /\ (b + n) - b = n
  BY LenProperties
<1> DEFINE u == SubSeq(s, a + 1, a + n)
<1> DEFINE v == SubSeq(t, b + 1, b + n)
<1>2. u \in Seq(S) /\ Len(u) = (a + n) - a /\ \A i \in 1..(a + n) - a : u[i] = s[a + i]
  BY <1>1, Slice
<1>3. v \in Seq(S) /\ Len(v) = (b + n) - b /\ \A i \in 1..(b + n) - b : v[i] = t[b + i]
  BY <1>1, Slice
<1>4. u = v
  <2> HIDE DEF u, v
  <2>1. Len(u) = n /\ Len(v) = n /\ \A i \in 1..n : u[i] = v[i]
    BY <1>1, <1>2, <1>3
  <2> QED BY <1>2, <1>3, <2>1, SeqEqual
<1> QED BY <1>4 DEF SameSlices

LEMMA Tabulated ==
  ASSUME NEW S, NEW n \in Nat, NEW f \in [1..n -> S]
  PROVE  f \in Seq(S) /\ Len(f) = n
<1>1. f \in Seq(S)
  BY SeqDef
<1>2. DOMAIN f = 1..n /\ DOMAIN f = 1..Len(f) /\ Len(f) \in Nat
  BY <1>1, LenProperties
<1> QED BY <1>1, <1>2

LEMMA StateLength == StateLen \in Nat \ {0} /\ Zeros \in Seq(RunTokens) /\ Len(Zeros) = StateLen
<1>1. StateLen \in Nat \ {0}
  BY GatedDeltaAssumption DEF StateLen
<1>2. Zeros \in [1..StateLen -> RunTokens]
  BY DEF Zeros, RunTokens
<1>3. Zeros \in Seq(RunTokens)
  BY <1>1, <1>2, SeqDef
<1>4. Len(Zeros) = StateLen
  <2>1. DOMAIN Zeros = 1..StateLen
    BY DEF Zeros
  <2> QED BY <1>1, <1>3, <2>1, LenProperties
<1> QED BY <1>1, <1>3, <1>4

PadParts(s) ==
  /\ Pad(s) \in Seq(RunTokens) /\ Len(Pad(s)) = StateLen + Len(s)
  /\ ConvState(s) \in Seq(RunTokens) /\ Len(ConvState(s)) = StateLen
  /\ \A i \in 1..StateLen : ConvState(s)[i] = Pad(s)[Len(s) + i]

LEMMA Padded ==
  ASSUME NEW s \in Seq(RunTokens)
  PROVE  PadParts(s)
<1>1. StateLen \in Nat /\ Len(s) \in Nat
  BY StateLength, LenProperties
<1>2. Pad(s) \in Seq(RunTokens) /\ Len(Pad(s)) = StateLen + Len(s)
  BY StateLength, Joined DEF Pad
<1> DEFINE a == Len(s)
<1> DEFINE b == Len(Pad(s))
<1>3. a \in 0..b /\ b \in a..b /\ b - a = StateLen /\ b - StateLen = a
  BY <1>1, <1>2
<1>4. ConvState(s) = SubSeq(Pad(s), a + 1, b)
  BY <1>3 DEF ConvState, LastOf
<1> HIDE DEF a
<1>5. /\ SubSeq(Pad(s), a + 1, b) \in Seq(RunTokens) /\ Len(SubSeq(Pad(s), a + 1, b)) = b - a
      /\ \A i \in 1..b - a : SubSeq(Pad(s), a + 1, b)[i] = Pad(s)[a + i]
  <2> HIDE DEF Pad, RunTokens
  <2> QED BY <1>2, <1>3, Slice
<1>6. /\ ConvState(s) \in Seq(RunTokens) /\ Len(ConvState(s)) = StateLen
      /\ \A i \in 1..StateLen : ConvState(s)[i] = Pad(s)[a + i]
  BY <1>3, <1>4, <1>5
<1> QED BY <1>2, <1>6 DEF PadParts, a

(* A state and the tokens behind it are the end of what it stands for.       *)
InputParts(s, u) ==
  LET input == ConvState(s) \o u
      w == Pad(s \o u)
  IN /\ s \o u \in Seq(RunTokens) /\ Len(s \o u) = Len(s) + Len(u)
     /\ input \in Seq(RunTokens) /\ Len(input) = StateLen + Len(u)
     /\ w \in Seq(RunTokens) /\ Len(w) = StateLen + Len(s) + Len(u)
     /\ \A i \in 1..StateLen + Len(s) : w[i] = Pad(s)[i]
     /\ \A i \in 1..StateLen + Len(u) : input[i] = w[Len(s) + i]

LEMMA InputOf ==
  ASSUME NEW s \in Seq(RunTokens), NEW u \in Seq(RunTokens)
  PROVE  InputParts(s, u)
<1> DEFINE c == ConvState(s)
<1> DEFINE p == Pad(s)
<1> DEFINE input == c \o u
<1> DEFINE w == Pad(s \o u)
<1> DEFINE a == Len(s)
<1> DEFINE n == Len(u)
<1>1. /\ p \in Seq(RunTokens) /\ Len(p) = StateLen + a
      /\ c \in Seq(RunTokens) /\ Len(c) = StateLen
      /\ \A i \in 1..StateLen : c[i] = p[a + i]
  BY Padded DEF PadParts
<1>2. s \o u \in Seq(RunTokens) /\ Len(s \o u) = a + n
  BY Joined
<1>3. w = p \o u
  <2>1. SameJoined(Zeros, s, u)
    BY StateLength, JoinedTwice
  <2> QED BY <2>1 DEF SameJoined, Pad
<1>4. StateLen \in Nat /\ a \in Nat /\ n \in Nat
  BY StateLength, LenProperties
<1> HIDE DEF p, c, w
<1>5. /\ w \in Seq(RunTokens) /\ Len(w) = Len(p) + n
      /\ \A i \in 1..Len(p) : w[i] = p[i]
      /\ \A i \in 1..n : w[Len(p) + i] = u[i]
  <2> DEFINE v == p \o u
  <2>1. p \in Seq(RunTokens)
    BY <1>1
  <2>2. /\ v \in Seq(RunTokens) /\ Len(v) = Len(p) + n
        /\ \A i \in 1..Len(p) : v[i] = p[i]
        /\ \A i \in 1..n : v[Len(p) + i] = u[i]
    BY <2>1, Joined
  <2>3. w = v
    BY <1>3
  <2> HIDE DEF v, n
  <2> QED BY <2>2, <2>3
<1>6. input \in Seq(RunTokens) /\ Len(input) = StateLen + n
  BY <1>1, Joined
<1>7. ASSUME NEW i \in 1..StateLen + n PROVE input[i] = w[a + i]
  <2>1. input[i] = IF i <= StateLen THEN c[i] ELSE u[i - StateLen]
    BY <1>1, JoinedAt
  <2>2. CASE i <= StateLen
    <3>1. i \in 1..StateLen /\ a + i \in 1..Len(p)
      BY <1>1, <1>4, <2>2
    <3> QED BY <1>1, <1>5, <2>1, <2>2, <3>1
  <2>3. CASE ~ i <= StateLen
    <3>1. i - StateLen \in 1..n /\ Len(p) + (i - StateLen) = a + i
      BY <1>1, <1>4, <2>3
    <3>2. w[Len(p) + (i - StateLen)] = u[i - StateLen]
      BY <1>5, <3>1
    <3> QED BY <2>1, <2>3, <3>1, <3>2
  <2> QED BY <2>2, <2>3
<1>8. /\ Len(w) = StateLen + a + n
      /\ \A i \in 1..StateLen + a : w[i] = p[i]
  BY <1>1, <1>5
<1>9. \A i \in 1..StateLen + n : input[i] = w[a + i]
  BY <1>7
<1> QED BY <1>2, <1>5, <1>6, <1>8, <1>9 DEF InputParts, p, c, w

(* RunTokens are run behind a state, all at once or some of them.               *)
Advances(s, u) ==
  LET input == ConvState(s) \o u
  IN /\ LastOf(input, StateLen) = ConvState(s \o u)
     /\ ConvOut(input) \in Seq(Seq(RunTokens)) /\ Len(ConvOut(input)) = Len(u)
     /\ Absorbed(s) \o ConvOut(input) = Absorbed(s \o u)

LEMMA Advance ==
  ASSUME NEW s \in Seq(RunTokens), NEW u \in Seq(RunTokens)
  PROVE  Advances(s, u)
<1> DEFINE input == ConvState(s) \o u
<1> DEFINE p == Pad(s)
<1> DEFINE w == Pad(s \o u)
<1> DEFINE a == Len(s)
<1> DEFINE n == Len(u)
<1> DEFINE L == StateLen
<1>1. /\ s \o u \in Seq(RunTokens) /\ Len(s \o u) = a + n
      /\ input \in Seq(RunTokens) /\ Len(input) = L + n
      /\ w \in Seq(RunTokens) /\ Len(w) = L + a + n
      /\ \A i \in 1..L + a : w[i] = p[i]
      /\ \A i \in 1..L + n : input[i] = w[a + i]
  BY InputOf DEF InputParts
<1>2. L \in Nat \ {0} /\ a \in Nat /\ n \in Nat
  BY StateLength, LenProperties
<1>3. p \in Seq(RunTokens) /\ Len(p) = L + a
  BY Padded DEF PadParts
<1>4. ConvState(s \o u) = SubSeq(w, (a + n) + 1, (a + n) + L)
  <2>1. Len(w) = (a + n) + L /\ Len(w) - L = a + n
    BY <1>1, <1>2
  <2> QED BY <2>1 DEF ConvState, LastOf
<1>5. LastOf(input, L) = SubSeq(input, n + 1, n + L)
  <2>1. Len(input) = n + L /\ Len(input) - L = n
    BY <1>1, <1>2
  <2> QED BY <2>1 DEF LastOf
<1> HIDE DEF input, p, w, a, n, L
<1>6. SameSlices(input, w, n, a + n, L)
  <2>1. n + L <= Len(input) /\ (a + n) + L <= Len(w) /\ a + n \in Nat /\ n \in Nat /\ L \in Nat
    BY <1>1, <1>2
  <2>2. \A i \in 1..L : input[n + i] = w[(a + n) + i]
    <3> TAKE i \in 1..L
    <3>1. n + i \in 1..L + n /\ a + (n + i) = (a + n) + i
      BY <1>2
    <3> QED BY <1>1, <3>1
  <2> QED BY <1>1, <2>1, <2>2, SameSlice
<1>7. ASSUME NEW k \in 1..n PROVE SubSeq(input, k, k + L) = SubSeq(w, a + k, a + k + L)
  <2> DEFINE c == k - 1
  <2> DEFINE d == L + 1
  <2>0. c \in Nat /\ d \in Nat /\ a + c \in Nat
    BY <1>2
  <2>a. Len(input) = L + n /\ Len(w) = L + a + n
    BY <1>1
  <2>1. c + d <= Len(input) /\ (a + c) + d <= Len(w)
    BY <1>2, <2>a
  <2>2. \A i \in 1..d : input[c + i] = w[(a + c) + i]
    <3> TAKE i \in 1..d
    <3>1. c + i \in 1..L + n /\ a + (c + i) = (a + c) + i
      BY <1>2
    <3> QED BY <1>1, <3>1
  <2>4. c + 1 = k /\ c + d = k + L /\ (a + c) + 1 = a + k /\ (a + c) + d = a + k + L
    BY <1>2
  <2> HIDE DEF c, d
  <2>3. SameSlices(input, w, c, a + c, d)
    BY <1>1, <2>0, <2>1, <2>2, SameSlice
  <2> QED BY <2>3, <2>4 DEF SameSlices
<1>8. ASSUME NEW k \in 1..a PROVE SubSeq(p, k, k + L) = SubSeq(w, k, k + L)
  <2> DEFINE c == k - 1
  <2> DEFINE d == L + 1
  <2>0. c \in Nat /\ d \in Nat
    BY <1>2
  <2>a. Len(p) = L + a /\ Len(w) = L + a + n
    BY <1>1, <1>3
  <2>1. c + d <= Len(p) /\ c + d <= Len(w)
    BY <1>2, <2>a
  <2>2. \A i \in 1..d : p[c + i] = w[c + i]
    <3> TAKE i \in 1..d
    <3>1. c + i \in 1..L + a
      BY <1>2
    <3> QED BY <1>1, <3>1
  <2>4. c + 1 = k /\ c + d = k + L
    BY <1>2
  <2> HIDE DEF c, d
  <2>3. SameSlices(p, w, c, c, d)
    BY <1>1, <1>3, <2>0, <2>1, <2>2, SameSlice
  <2> QED BY <2>3, <2>4 DEF SameSlices
<1>9. /\ ConvOut(input) \in Seq(Seq(RunTokens)) /\ Len(ConvOut(input)) = n
      /\ \A k \in 1..n : ConvOut(input)[k] = SubSeq(input, k, k + L)
  <2>1. ConvOut(input) = [k \in 1..n |-> SubSeq(input, k, k + L)]
    <3>1. Len(input) - StateLen = n
      BY <1>1, <1>2 DEF L
    <3> QED BY <3>1 DEF ConvOut, L
  <2>2. \A k \in 1..n : SubSeq(input, k, k + L) \in Seq(RunTokens)
    <3> TAKE k \in 1..n
    <3>1. k - 1 \in 0..Len(input) /\ k + L \in k - 1..Len(input) /\ (k - 1) + 1 = k
      BY <1>1, <1>2
    <3> QED BY <1>1, <3>1, Slice
  <2>3. ConvOut(input) \in [1..n -> Seq(RunTokens)]
    BY <2>1, <2>2
  <2>4. ConvOut(input) \in Seq(Seq(RunTokens)) /\ Len(ConvOut(input)) = n
    <3>1. n \in Nat
      BY <1>2
    <3> QED BY <2>3, <3>1, Tabulated
  <2>5. \A k \in 1..n : ConvOut(input)[k] = SubSeq(input, k, k + L)
    BY <2>1
  <2> QED BY <2>4, <2>5
<1>10. /\ Absorbed(s) \in Seq(Seq(RunTokens)) /\ Len(Absorbed(s)) = a
       /\ \A k \in 1..a : Absorbed(s)[k] = SubSeq(p, k, k + L)
  <2>1. Absorbed(s) = [k \in 1..a |-> SubSeq(p, k, k + L)]
    BY DEF Absorbed, a, p, L
  <2>2. \A k \in 1..a : SubSeq(p, k, k + L) \in Seq(RunTokens)
    <3> TAKE k \in 1..a
    <3>1. k - 1 \in 0..Len(p) /\ k + L \in k - 1..Len(p) /\ (k - 1) + 1 = k
      BY <1>2, <1>3
    <3> QED BY <1>3, <3>1, Slice
  <2>3. Absorbed(s) \in [1..a -> Seq(RunTokens)]
    BY <2>1, <2>2
  <2>4. Absorbed(s) \in Seq(Seq(RunTokens)) /\ Len(Absorbed(s)) = a
    <3>1. a \in Nat
      BY <1>2
    <3> QED BY <2>3, <3>1, Tabulated
  <2>5. \A k \in 1..a : Absorbed(s)[k] = SubSeq(p, k, k + L)
    BY <2>1
  <2> QED BY <2>4, <2>5
<1>11. /\ Absorbed(s \o u) \in Seq(Seq(RunTokens)) /\ Len(Absorbed(s \o u)) = a + n
       /\ \A k \in 1..a + n : Absorbed(s \o u)[k] = SubSeq(w, k, k + L)
  <2>1. Absorbed(s \o u) = [k \in 1..a + n |-> SubSeq(w, k, k + L)]
    BY <1>1 DEF Absorbed, w, L
  <2>2. \A k \in 1..a + n : SubSeq(w, k, k + L) \in Seq(RunTokens)
    <3> TAKE k \in 1..a + n
    <3>1. k - 1 \in 0..Len(w) /\ k + L \in k - 1..Len(w) /\ (k - 1) + 1 = k
      BY <1>1, <1>2
    <3> QED BY <1>1, <3>1, Slice
  <2>3. Absorbed(s \o u) \in [1..a + n -> Seq(RunTokens)]
    BY <2>1, <2>2
  <2>4. Absorbed(s \o u) \in Seq(Seq(RunTokens)) /\ Len(Absorbed(s \o u)) = a + n
    <3>1. a + n \in Nat
      BY <1>2
    <3> QED BY <2>3, <3>1, Tabulated
  <2>5. \A k \in 1..a + n : Absorbed(s \o u)[k] = SubSeq(w, k, k + L)
    BY <2>1
  <2> QED BY <2>4, <2>5
<1>12. Absorbed(s) \o ConvOut(input) = Absorbed(s \o u)
  <2> DEFINE g == Absorbed(s)
  <2> DEFINE h == ConvOut(input)
  <2>1. g \o h \in Seq(Seq(RunTokens)) /\ Len(g \o h) = Len(g) + Len(h)
    BY <1>9, <1>10, Joined
  <2>2. ASSUME NEW k \in 1..a + n PROVE (g \o h)[k] = Absorbed(s \o u)[k]
    <3>1. (g \o h)[k] = IF k <= Len(g) THEN g[k] ELSE h[k - Len(g)]
      <4>1. g \in Seq(Seq(RunTokens)) /\ h \in Seq(Seq(RunTokens)) /\ k \in 1..Len(g) + Len(h)
        BY <1>9, <1>10
      <4> HIDE DEF g, h
      <4> QED BY <4>1, JoinedAt
    <3>2. CASE k <= a
      <4>1. k \in 1..a
        BY <1>2, <3>2
      <4>2. (g \o h)[k] = SubSeq(p, k, k + L)
        BY <1>10, <3>1, <3>2, <4>1
      <4>3. SubSeq(p, k, k + L) = SubSeq(w, k, k + L)
        BY <1>8, <4>1
      <4> QED BY <1>11, <4>2, <4>3
    <3>3. CASE ~ k <= a
      <4>1. k - a \in 1..n /\ a + (k - a) = k /\ a + (k - a) + L = k + L
        BY <1>2, <3>3
      <4>2. (g \o h)[k] = SubSeq(input, k - a, (k - a) + L)
        BY <1>9, <1>10, <3>1, <3>3, <4>1
      <4>3. SubSeq(input, k - a, (k - a) + L) = SubSeq(w, k, k + L)
        BY <1>7, <4>1
      <4> QED BY <1>11, <4>2, <4>3
    <3> QED BY <3>2, <3>3
  <2> QED BY <1>9, <1>10, <1>11, <2>1, <2>2, SeqEqual
<1>13. LastOf(input, StateLen) = ConvState(s \o u)
  BY <1>4, <1>5, <1>6 DEF SameSlices, L
<1> QED BY <1>9, <1>12, <1>13 DEF Advances, input, n

AdvancesFirst(s, u, m) ==
  LET input == ConvState(s) \o u
      v == SubSeq(u, 1, m)
  IN /\ v \in Seq(RunTokens) /\ Len(v) = m
     /\ SubSeq(ConvOut(input), 1, m) = ConvOut(ConvState(s) \o v)
     /\ SubSeq(input, m + 1, m + StateLen) = ConvState(s \o v)

LEMMA AdvanceFirst ==
  ASSUME NEW s \in Seq(RunTokens), NEW u \in Seq(RunTokens), NEW m \in 0..Len(u)
  PROVE  AdvancesFirst(s, u, m)
<1> DEFINE v == SubSeq(u, 1, m)
<1> DEFINE input == ConvState(s) \o u
<1> DEFINE part == ConvState(s) \o v
<1> DEFINE L == StateLen
<1> DEFINE n == Len(u)
<1>1. L \in Nat \ {0} /\ n \in Nat /\ m \in Nat /\ m <= n
  BY StateLength, LenProperties
<1>2. v \in Seq(RunTokens) /\ Len(v) = m /\ \A i \in 1..m : v[i] = u[i]
  <2>1. 0 \in 0..Len(u) /\ m \in 0..Len(u) /\ m - 0 = m /\ 0 + 1 = 1
    BY <1>1
  <2>2. /\ SubSeq(u, 0 + 1, m) \in Seq(RunTokens) /\ Len(SubSeq(u, 0 + 1, m)) = m - 0
        /\ \A i \in 1..m - 0 : SubSeq(u, 0 + 1, m)[i] = u[0 + i]
    BY <2>1, Slice
  <2> QED BY <2>1, <2>2
<1>3. ConvState(s) \in Seq(RunTokens) /\ Len(ConvState(s)) = L
  BY Padded DEF PadParts
<1> HIDE DEF v, L
<1>4. /\ input \in Seq(RunTokens) /\ Len(input) = L + n
      /\ part \in Seq(RunTokens) /\ Len(part) = L + m
  BY <1>2, <1>3, Joined
<1>5. \A i \in 1..L + m : input[i] = part[i]
  <2> TAKE i \in 1..L + m
  <2>1. input[i] = IF i <= L THEN ConvState(s)[i] ELSE u[i - L]
    <3>1. i \in 1..Len(ConvState(s)) + Len(u)
      BY <1>1, <1>3
    <3> QED BY <1>3, <3>1, JoinedAt
  <2>2. part[i] = IF i <= L THEN ConvState(s)[i] ELSE v[i - L]
    <3>1. i \in 1..Len(ConvState(s)) + Len(v)
      BY <1>2, <1>3
    <3> QED BY <1>2, <1>3, <3>1, JoinedAt
  <2>3. ~ i <= L => i - L \in 1..m
    BY <1>1
  <2> QED BY <1>2, <2>1, <2>2, <2>3
<1> HIDE DEF input, part, n
<1>6. ASSUME NEW k \in 1..m PROVE SubSeq(input, k, k + L) = SubSeq(part, k, k + L)
  <2> DEFINE c == k - 1
  <2> DEFINE d == L + 1
  <2>0. c \in Nat /\ d \in Nat
    BY <1>1
  <2>a. Len(input) = L + n /\ Len(part) = L + m
    BY <1>4
  <2>1. c + d <= Len(input) /\ c + d <= Len(part)
    BY <1>1, <2>a
  <2>2. \A i \in 1..d : input[c + i] = part[c + i]
    <3> TAKE i \in 1..d
    <3>1. c + i \in 1..L + m
      BY <1>1
    <3> QED BY <1>5, <3>1
  <2>4. c + 1 = k /\ c + d = k + L
    BY <1>1
  <2> HIDE DEF c, d
  <2>3. SameSlices(input, part, c, c, d)
    BY <1>4, <2>0, <2>1, <2>2, SameSlice
  <2> QED BY <2>3, <2>4 DEF SameSlices
<1>7. SubSeq(ConvOut(input), 1, m) = ConvOut(part)
  <2>1. ConvOut(input) = [k \in 1..n |-> SubSeq(input, k, k + L)]
    <3>1. Len(input) - StateLen = n
      BY <1>1, <1>4 DEF L
    <3> QED BY <3>1 DEF ConvOut, L
  <2>2. ConvOut(part) = [k \in 1..m |-> SubSeq(part, k, k + L)]
    <3>1. Len(part) - StateLen = m
      BY <1>1, <1>4 DEF L
    <3> QED BY <3>1 DEF ConvOut, L
  <2>3. ConvOut(input) \in Seq(Seq(RunTokens)) /\ Len(ConvOut(input)) = n
    BY Advance DEF Advances, input, n
  <2>4. ConvOut(part) \in Seq(Seq(RunTokens)) /\ Len(ConvOut(part)) = m
    BY <1>2, Advance DEF Advances, part
  <2>5. /\ SubSeq(ConvOut(input), 1, m) \in Seq(Seq(RunTokens)) /\ Len(SubSeq(ConvOut(input), 1, m)) = m
        /\ \A k \in 1..m : SubSeq(ConvOut(input), 1, m)[k] = ConvOut(input)[k]
    <3> DEFINE g == ConvOut(input)
    <3>0. g \in Seq(Seq(RunTokens)) /\ Len(g) = n
      BY <2>3
    <3> HIDE DEF g
    <3>1. 0 \in 0..Len(g) /\ m \in 0..Len(g) /\ m - 0 = m /\ 0 + 1 = 1
      BY <1>1, <3>0
    <3>2. /\ SubSeq(g, 0 + 1, m) \in Seq(Seq(RunTokens)) /\ Len(SubSeq(g, 0 + 1, m)) = m - 0
          /\ \A i \in 1..m - 0 : SubSeq(g, 0 + 1, m)[i] = g[0 + i]
      BY <3>0, <3>1, Slice
    <3>3. /\ SubSeq(g, 1, m) \in Seq(Seq(RunTokens)) /\ Len(SubSeq(g, 1, m)) = m
          /\ \A k \in 1..m : SubSeq(g, 1, m)[k] = g[k]
      BY <3>1, <3>2
    <3> QED BY <3>3 DEF g
  <2>6. \A k \in 1..m : SubSeq(ConvOut(input), 1, m)[k] = ConvOut(part)[k]
    <3> TAKE k \in 1..m
    <3>1. k \in 1..n
      BY <1>1
    <3>2. ConvOut(input)[k] = SubSeq(input, k, k + L)
      BY <2>1, <3>1
    <3>3. ConvOut(part)[k] = SubSeq(part, k, k + L)
      BY <2>2
    <3> QED BY <1>6, <2>5, <3>2, <3>3
  <2> QED BY <2>4, <2>5, <2>6, SeqEqual
<1>8. SubSeq(input, m + 1, m + L) = ConvState(s \o v)
  <2>1. LastOf(part, StateLen) = ConvState(s \o v)
    BY <1>2, Advance DEF Advances, part
  <2>2. LastOf(part, StateLen) = SubSeq(part, m + 1, m + L)
    <3>1. Len(part) - StateLen = m /\ Len(part) = m + L
      BY <1>1, <1>4 DEF L
    <3> QED BY <3>1 DEF LastOf
  <2>3. SameSlices(input, part, m, m, L)
    <3>1. m + L <= Len(input) /\ m + L <= Len(part)
      BY <1>1, <1>4
    <3>2. \A i \in 1..L : input[m + i] = part[m + i]
      <4> TAKE i \in 1..L
      <4>1. m + i \in 1..L + m
        BY <1>1
      <4> QED BY <1>5, <4>1
    <3> QED BY <1>1, <1>4, <3>1, <3>2, SameSlice
  <2> QED BY <2>1, <2>2, <2>3 DEF SameSlices
<1> QED BY <1>2, <1>7, <1>8 DEF AdvancesFirst, v, input, part, L

(* A segment of a flattened sequence, and of one whose segments all have the *)
(* same length.                                                              *)
SegmentParts(S, flat, seqs, lens, i) ==
  LET cum == CumLen(lens)
  IN /\ cum[i - 1] \in Nat /\ cum[i] = cum[i - 1] + lens[i] /\ cum[i] <= Len(flat)
     /\ flat \in Seq(S) /\ SubSeq(flat, cum[i - 1] + 1, cum[i]) = seqs[i]

LEMMA SegmentIs ==
  ASSUME NEW S, NEW n \in Nat \ {0}, NEW seqs \in [1..n -> Seq(S)],
         NEW lens \in [1..n -> Nat], \A i \in 1..n : lens[i] = Len(seqs[i]), NEW i \in 1..n
  PROVE  SegmentParts(S, FlattenSeq(seqs), seqs, lens, i)
<1> DEFINE flat == FlattenSeq(seqs)
<1> DEFINE cum == CumLen(lens)
<1>1. Segments(S, flat, seqs, cum, n)
  BY Flattened
<1> HIDE DEF flat, cum
<1> DEFINE a == cum[i - 1]
<1> DEFINE b == cum[i]
<1> DEFINE t == seqs[i]
<1>2. /\ flat \in Seq(S) /\ Len(flat) = cum[n]
      /\ a \in Nat /\ b = a + Len(t) /\ b <= cum[n]
      /\ \A k \in 1..Len(t) : flat[a + k] = t[k]
  BY <1>1 DEF Segments
<1>3. t \in Seq(S) /\ Len(t) \in Nat /\ lens[i] = Len(t)
  BY LenProperties
<1> HIDE DEF a, b, t
<1>4. SameSlices(flat, t, a, 0, Len(t))
  <2>1. a + Len(t) <= Len(flat) /\ 0 + Len(t) <= Len(t) /\ 0 \in Nat
    BY <1>2, <1>3
  <2>2. \A k \in 1..Len(t) : flat[a + k] = t[0 + k]
    BY <1>2, <1>3
  <2> QED BY <1>2, <1>3, <2>1, <2>2, SameSlice
<1>5. SubSeq(t, 0 + 1, 0 + Len(t)) = t
  <2>1. 0 + 1 = 1 /\ 0 + Len(t) = Len(t)
    BY <1>3
  <2>2. SubSeq(t, 1, Len(t)) = t
    BY <1>3, SubSeqFull
  <2> QED BY <2>1, <2>2
<1>6. SubSeq(flat, a + 1, b) = t
  BY <1>2, <1>4, <1>5 DEF SameSlices
<1> QED BY <1>2, <1>3, <1>6 DEF SegmentParts, a, b, t, flat, cum

LEMMA EvenOffsets ==
  ASSUME NEW n \in Nat, NEW i \in 0..n
  PROVE  CumLen([k \in 1..n |-> Width])[i] = i * Width
<1> DEFINE lens == [k \in 1..n |-> Width]
<1> DEFINE cum == CumLen(lens)
<1>0. Width \in Nat
  BY GatedDeltaAssumption
<1>1. lens \in Seq(Nat) /\ Len(lens) = n /\ \A k \in 1..n : lens[k] = Width
  <2>1. lens \in [1..n -> Nat]
    BY <1>0
  <2> QED BY <2>1, Tabulated
<1> HIDE DEF lens
<1>2. cum[0] = 0 /\ \A k \in 1..n : cum[k] = cum[k - 1] + Width
  BY <1>1, Offsets
<1> HIDE DEF cum
<1>3. ASSUME cum[i] # i * Width PROVE FALSE
  <2> DEFINE N == {k \in 0..n : cum[k] # k * Width}
  <2>1. N \subseteq Nat /\ N # {}
    BY <1>3
  <2>2. PICK k \in N : \A m \in N : k <= m
    <3> HIDE DEF N
    <3> QED BY <2>1, LeastOf
  <2>3. k \in 1..n /\ k - 1 \in 0..n /\ k - 1 \notin N /\ cum[k] # k * Width
    BY <1>0, <1>2, <2>2
  <2>4. cum[k - 1] = (k - 1) * Width
    BY <2>3
  <2>5. (k - 1) * Width + Width = k * Width
    BY <1>0, <2>3
  <2> QED BY <1>2, <2>3, <2>4, <2>5
<1> QED BY <1>3 DEF lens, cum

-----------------------------------------------------------------------------
(* The kernel appends to the state in a slot what its segment says.          *)
Moved(states, seqs, lens, slots, n) ==
  LET after == GdnState(states, FlattenSeq(seqs), slots, CumLen(lens))
  IN /\ after = [s \in PoolSlots |-> after[s]]
     /\ \A i \in 1..n : after[slots[i]] = states[slots[i]] \o seqs[i]
     /\ \A s \in PoolSlots : (\A i \in 1..n : slots[i] # s) => after[s] = states[s]

LEMMA Kernel ==
  ASSUME NEW S, NEW n \in Nat \ {0}, NEW seqs \in [1..n -> Seq(S)],
         NEW lens \in [1..n -> Nat], \A i \in 1..n : lens[i] = Len(seqs[i]),
         NEW slots \in [1..n -> PoolSlots], \A i, j \in 1..n : slots[i] = slots[j] => i = j,
         NEW states
  PROVE  Moved(states, seqs, lens, slots, n)
<1> DEFINE flat == FlattenSeq(seqs)
<1> DEFINE cum == CumLen(lens)
<1> DEFINE after == GdnState(states, flat, slots, cum)
<1>1. Len(slots) = n /\ Range(slots) = {slots[i] : i \in 1..n}
  <2>1. Len(slots) = n
    BY Tabulated
  <2> QED BY <2>1 DEF Range
<1>2. after = [s \in PoolSlots |->
                 IF s \notin Range(slots) THEN states[s]
                 ELSE LET k == CHOOSE k \in 1..n : slots[k] = s
                      IN states[s] \o SubSeq(flat, cum[k - 1] + 1, cum[k])]
  BY <1>1 DEF GdnState
<1>3. ASSUME NEW i \in 1..n PROVE SubSeq(flat, cum[i - 1] + 1, cum[i]) = seqs[i]
  <2>1. SegmentParts(S, flat, seqs, lens, i)
    BY SegmentIs
  <2> QED BY <2>1 DEF SegmentParts
<1> HIDE DEF flat, cum, after
<1>4. ASSUME NEW i \in 1..n PROVE after[slots[i]] = states[slots[i]] \o seqs[i]
  <2>1. slots[i] \in PoolSlots /\ slots[i] \in Range(slots)
    BY <1>1
  <2>2. (CHOOSE k \in 1..n : slots[k] = slots[i]) = i
    <3> DEFINE c == CHOOSE k \in 1..n : slots[k] = slots[i]
    <3>1. c \in 1..n /\ slots[c] = slots[i]
      OBVIOUS
    <3> HIDE DEF c
    <3>2. c = i
      BY <3>1
    <3> QED BY <3>2 DEF c
  <2> QED BY <1>2, <1>3, <2>1, <2>2
<1>5. ASSUME NEW s \in PoolSlots, \A i \in 1..n : slots[i] # s PROVE after[s] = states[s]
  <2>1. s \notin Range(slots)
    BY <1>1, <1>5
  <2> QED BY <1>2, <2>1
<1>6. after = [s \in PoolSlots |-> after[s]]
  BY <1>2
<1> QED BY <1>4, <1>5, <1>6 DEF Moved, after, flat, cum

-----------------------------------------------------------------------------
(* What holds of the slots besides: a running sequence has one to itself,    *)
(* and what a verify run leaves behind is right for every number of drafts   *)
(* that may be accepted.                                                     *)
SlotTyped ==
  /\ free \subseteq PoolSlots
  /\ slot \in [Owners -> PoolSlots \cup {None}]
  /\ ids \in [Owners -> Seq(RunTokens)]
  /\ \A x \in Running : slot[x] \notin free
  /\ \A x, z \in Running : slot[x] = slot[z] => x = z
  /\ conv = [s \in PoolSlots |-> conv[s]]
  /\ temporal = [s \in PoolSlots |-> temporal[s]]

SlotHolds(x) == conv[slot[x]] = ConvState(ids[x]) /\ temporal[slot[x]] = Absorbed(ids[x])
SlotsHold == \A x \in Running : SlotHolds(x)

BatchOf(b, n, lens) ==
  /\ n \in Nat \ {0} /\ Len(b) = n
  /\ \A i \in 1..n : /\ b[i][1] \in Running /\ b[i][2] \in Seq(RunTokens)
                     /\ Len(b[i][2]) \in lens
  /\ \A i, j \in 1..n : b[i][1] = b[j][1] => i = j

ScratchOf(b, n, scratch) ==
  /\ scratch \in [1..n -> PoolSlots]
  /\ \A i, j \in 1..n : scratch[i] = scratch[j] => i = j
  /\ \A i \in 1..n : scratch[i] \notin free /\ \A x \in Running : slot[x] # scratch[i]

(* After the first m of the verified tokens. *)
StateAfter(b, i, m) == ConvState(ids[b[i][1]]) \o SubSeq(b[i][2], 1, m)

CapturedOf(b, n, captured) ==
  \A i \in 1..n, m \in 1..Width :
    SubSeq(captured, (i - 1) * Width + 1, (i - 1) * Width + m) = ConvOut(StateAfter(b, i, m))

WindowsOf(b, n, scratch) ==
  \A i \in 1..n, m \in 0..Width - 1 :
    window[scratch[i]][m] = ConvState(ids[b[i][1]] \o SubSeq(b[i][2], 1, m + 1))

VerifyOf(b, n, scratch, captured) ==
  /\ verify = [batch |-> b, scratch |-> scratch, captured |-> captured]
  /\ BatchOf(b, n, {Width}) /\ ScratchOf(b, n, scratch)
  /\ CapturedOf(b, n, captured) /\ WindowsOf(b, n, scratch)

Verifying == verify = <<>> \/ \E b, n, scratch, captured : VerifyOf(b, n, scratch, captured)

SlotInv == SlotTyped /\ SlotsHold /\ Verifying

LEMMA BatchShape ==
  ASSUME SlotTyped, NEW lens, lens \subseteq Nat, NEW b \in Batches(lens)
  PROVE  BatchOf(b, Len(b), lens)
<1> DEFINE entries == {Entry(x, len) : x \in Running, len \in lens}
<1> DEFINE fits(c) == \A i, j \in 1..Len(c) : /\ i # j => c[i][1] # c[j][1]
                                             /\ Len(ids[c[i][1]]) + Len(c[i][2]) <= Longest
<1>0. Batches(lens) = {c \in UNION {[1..n -> entries] : n \in 1..Cardinality(Running)} : fits(c)}
  BY DEF Batches
<1>1. Cardinality(Running) \in Nat
  <2>1. Running \subseteq Owners
    BY DEF Running
  <2> QED BY <2>1, GatedDeltaAssumption, FS_Subset, FS_CardinalityType
<1>2. PICK n \in 1..Cardinality(Running) : b \in [1..n -> entries]
  <2> HIDE DEF entries, fits
  <2> QED BY <1>0
<1>3. n \in Nat \ {0}
  BY <1>1
<1>4. Len(b) = n
  <2> HIDE DEF entries
  <2> QED BY <1>2, <1>3, Tabulated
<1>5. \A i, j \in 1..n : b[i][1] = b[j][1] => i = j
  <2>1. fits(b)
    <3> HIDE DEF entries, fits
    <3> QED BY <1>0
  <2> QED BY <1>4, <2>1
<1>6. ASSUME NEW i \in 1..n
      PROVE  b[i][1] \in Running /\ b[i][2] \in Seq(RunTokens) /\ Len(b[i][2]) \in lens
  <2>1. PICK x \in Running, len \in lens : b[i] = Entry(x, len)
    <3>1. b[i] \in entries
      <4> HIDE DEF entries
      <4> QED BY <1>2
    <3> QED BY <3>1
  <2>2. len \in Nat /\ x \in Owners /\ ids[x] \in Seq(RunTokens) /\ Len(ids[x]) \in Nat
    BY LenProperties DEF Running, SlotTyped
  <2> DEFINE u == [k \in 1..len |-> TokenAt(x, Len(ids[x]) + k)]
  <2>3. u \in [1..len -> RunTokens]
    <3>1. \A k \in 1..len : Len(ids[x]) + k \in Nat
      BY <2>2
    <3>2. \A k \in 1..len : TokenAt(x, Len(ids[x]) + k) \in RunTokens
      BY <2>2, <3>1 DEF RunTokens
    <3> QED BY <3>2
  <2>4. b[i][1] = x /\ b[i][2] = u
    BY <2>1 DEF Entry
  <2> HIDE DEF u
  <2>5. u \in Seq(RunTokens) /\ Len(u) = len
    BY <2>2, <2>3, Tabulated
  <2> QED BY <2>4, <2>5
<1> QED BY <1>3, <1>4, <1>5, <1>6 DEF BatchOf

(* An empty sequence stands for the zeroed slot. *)
LEMMA ZeroedSlot == ConvState(<<>>) = Zeros /\ Absorbed(<<>>) = <<>> /\ <<>> \in Seq(RunTokens)
<1>1. <<>> \in Seq(RunTokens) /\ Len(<<>>) = 0
  OBVIOUS
<1>2. Pad(<<>>) = Zeros
  BY StateLength DEF Pad
<1>3. ConvState(<<>>) = Zeros
  <2>1. Len(Zeros) - StateLen + 1 = 1
    BY StateLength
  <2>2. SubSeq(Zeros, 1, Len(Zeros)) = Zeros
    BY StateLength, SubSeqFull
  <2> QED BY <1>2, <2>1, <2>2 DEF ConvState, LastOf
<1>4. Absorbed(<<>>) = <<>>
  BY <1>1 DEF Absorbed
<1> QED BY <1>1, <1>3, <1>4

LEMMA InitSlots == GatedIdle => SlotInv
<1> SUFFICES ASSUME GatedIdle PROVE SlotInv
  OBVIOUS
<1>1. Running = {}
  BY DEF Running, GatedIdle
<1>2. SlotTyped
  BY <1>1 DEF SlotTyped, GatedIdle
<1> QED BY <1>1, <1>2 DEF SlotInv, SlotsHold, Verifying, GatedIdle

(* A slot is taken, for a sequence of its own or for that of another.        *)
LEMMA TakenSlot ==
  ASSUME SlotInv, verify = <<>>, verify' = <<>>, NEW x \in Owners, slot[x] = None, NEW s \in free,
         slot' = [slot EXCEPT ![x] = s], free' = free \ {s},
         NEW c, conv' = [conv EXCEPT ![s] = c], NEW t, temporal' = [temporal EXCEPT ![s] = t],
         NEW z \in Seq(RunTokens), ids' = [ids EXCEPT ![x] = z],
         c = ConvState(z), t = Absorbed(z)
  PROVE  SlotInv'
<1>1. /\ s \in PoolSlots /\ s # None
      /\ slot \in [Owners -> PoolSlots \cup {None}] /\ ids \in [Owners -> Seq(RunTokens)]
      /\ \A v \in Running : slot[v] \notin free
      /\ \A v, w \in Running : slot[v] = slot[w] => v = w
  BY GatedDeltaAssumption DEF SlotInv, SlotTyped, None
<1>2. /\ slot' \in [Owners -> PoolSlots \cup {None}] /\ ids' \in [Owners -> Seq(RunTokens)]
      /\ slot'[x] = s /\ ids'[x] = z
      /\ \A v \in Owners : v # x => slot'[v] = slot[v] /\ ids'[v] = ids[v]
  BY <1>1
<1>3. Running' = Running \cup {x} /\ x \notin Running
  BY <1>1, <1>2 DEF Running
<1>4. /\ conv' = [v \in PoolSlots |-> conv'[v]] /\ temporal' = [v \in PoolSlots |-> temporal'[v]]
      /\ conv'[s] = c /\ temporal'[s] = t
      /\ \A v \in PoolSlots : v # s => conv'[v] = conv[v] /\ temporal'[v] = temporal[v]
  BY <1>1 DEF SlotInv, SlotTyped
<1>5. \A v \in Running : v \in Owners /\ slot[v] \in PoolSlots /\ slot[v] # s
  BY <1>1 DEF Running
<1>6. SlotTyped'
  <2>1. free' \subseteq PoolSlots
    BY DEF SlotInv, SlotTyped
  <2>2. \A v \in Running' : slot'[v] \notin free'
    BY <1>1, <1>2, <1>3, <1>5
  <2>3. \A v, w \in Running' : slot'[v] = slot'[w] => v = w
    BY <1>1, <1>2, <1>3, <1>5
  <2> QED BY <1>2, <1>4, <2>1, <2>2, <2>3 DEF SlotTyped
<1>7. SlotsHold'
  <2> SUFFICES ASSUME NEW v \in Running' PROVE SlotHolds(v)'
    BY DEF SlotsHold
  <2>1. CASE v = x
    BY <1>2, <1>4, <2>1 DEF SlotHolds
  <2>2. CASE v # x
    <3>1. v \in Running /\ SlotHolds(v)
      BY <1>3, <2>2 DEF SlotInv, SlotsHold
    <3> QED BY <1>2, <1>4, <1>5, <2>2, <3>1 DEF SlotHolds
  <2> QED BY <2>1, <2>2
<1> QED BY <1>6, <1>7 DEF SlotInv, Verifying

LEMMA AllocSlots ==
  ASSUME SlotInv, NEW x \in Owners, Alloc(x)
  PROVE  SlotInv'
<1>1. PICK s \in free : /\ slot' = [slot EXCEPT ![x] = s] /\ free' = free \ {s}
                        /\ conv' = [conv EXCEPT ![s] = Zeros]
                        /\ temporal' = [temporal EXCEPT ![s] = <<>>]
  BY DEF Alloc, Zeroed
<1>2. verify = <<>> /\ verify' = <<>> /\ slot[x] = None /\ ids' = [ids EXCEPT ![x] = <<>>]
  BY DEF Alloc
<1> QED BY <1>1, <1>2, ZeroedSlot, TakenSlot

LEMMA CopySlots ==
  ASSUME SlotInv, NEW x \in Owners, NEW z \in Owners, Copy(x, z)
  PROVE  SlotInv'
<1>1. PICK s \in free : /\ slot' = [slot EXCEPT ![x] = s] /\ free' = free \ {s}
                        /\ conv' = [conv EXCEPT ![s] = conv[slot[z]]]
                        /\ temporal' = [temporal EXCEPT ![s] = temporal[slot[z]]]
  BY DEF Copy
<1>2. verify = <<>> /\ verify' = <<>> /\ slot[x] = None /\ ids' = [ids EXCEPT ![x] = ids[z]]
  BY DEF Copy
<1>3. z \in Running /\ ids[z] \in Seq(RunTokens)
  BY DEF Copy, Running, SlotInv, SlotTyped
<1>4. conv[slot[z]] = ConvState(ids[z]) /\ temporal[slot[z]] = Absorbed(ids[z])
  BY <1>3 DEF SlotInv, SlotsHold, SlotHolds
<1> QED BY <1>1, <1>2, <1>3, <1>4, TakenSlot

LEMMA FreeSlots ==
  ASSUME SlotInv, NEW x \in Owners, Free(x)
  PROVE  SlotInv'
<1>1. /\ verify = <<>> /\ verify' = <<>> /\ slot[x] # None
      /\ free' = free \cup {slot[x]} /\ slot' = [slot EXCEPT ![x] = None]
      /\ ids' = [ids EXCEPT ![x] = <<>>] /\ conv' = conv /\ temporal' = temporal
  BY DEF Free
<1>2. /\ free \subseteq PoolSlots
      /\ slot \in [Owners -> PoolSlots \cup {None}] /\ ids \in [Owners -> Seq(RunTokens)]
      /\ \A v \in Running : slot[v] \notin free
      /\ \A v, w \in Running : slot[v] = slot[w] => v = w
  BY DEF SlotInv, SlotTyped
<1>3. /\ slot' \in [Owners -> PoolSlots \cup {None}] /\ ids' \in [Owners -> Seq(RunTokens)]
      /\ slot'[x] = None
      /\ \A v \in Owners : v # x => slot'[v] = slot[v] /\ ids'[v] = ids[v]
  BY <1>1, <1>2
<1>4. x \in Running /\ Running' = Running \ {x}
  BY <1>1, <1>3 DEF Running
<1>5. SlotTyped'
  <2>1. free' \subseteq PoolSlots
    BY <1>1, <1>2
  <2>2. \A v \in Running' : slot'[v] \notin free'
    BY <1>1, <1>2, <1>3, <1>4 DEF Running
  <2>3. \A v, w \in Running' : slot'[v] = slot'[w] => v = w
    BY <1>2, <1>3, <1>4 DEF Running
  <2> QED BY <1>1, <1>3, <2>1, <2>2, <2>3 DEF SlotTyped, SlotInv
<1>6. SlotsHold'
  <2> SUFFICES ASSUME NEW v \in Running' PROVE SlotHolds(v)'
    BY DEF SlotsHold
  <2>1. v \in Running /\ v # x /\ v \in Owners
    BY <1>4 DEF Running
  <2>2. SlotHolds(v)
    BY <2>1 DEF SlotInv, SlotsHold
  <2> QED BY <1>1, <1>3, <2>1, <2>2 DEF SlotHolds
<1> QED BY <1>1, <1>5, <1>6 DEF SlotInv, Verifying

(* The sequences of a batch go on, each by tokens of its own.                *)
MovesOn(b, n, u) ==
  /\ slot' = slot /\ ids' = [x \in Owners |-> ids'[x]]
  /\ \A i \in 1..n : /\ ids'[b[i][1]] = ids[b[i][1]] \o u[i]
                     /\ conv'[slot[b[i][1]]] = ConvState(ids[b[i][1]] \o u[i])
                     /\ temporal'[slot[b[i][1]]] = Absorbed(ids[b[i][1]] \o u[i])
  /\ \A x \in Owners : (\A i \in 1..n : b[i][1] # x) => ids'[x] = ids[x]
  /\ \A s \in PoolSlots : (\A i \in 1..n : slot[b[i][1]] # s) =>
                            conv'[s] = conv[s] /\ temporal'[s] = temporal[s]

LEMMA MovedSlots ==
  ASSUME SlotTyped, SlotsHold, NEW b, NEW n, NEW lens, BatchOf(b, n, lens),
         NEW u \in [1..n -> Seq(RunTokens)], MovesOn(b, n, u)
  PROVE  ids' \in [Owners -> Seq(RunTokens)] /\ SlotsHold'
<1>1. /\ slot \in [Owners -> PoolSlots \cup {None}] /\ ids \in [Owners -> Seq(RunTokens)]
      /\ \A x, z \in Running : slot[x] = slot[z] => x = z
      /\ \A x \in Running : x \in Owners /\ slot[x] \in PoolSlots
  BY DEF SlotTyped, Running
<1>2. \A i \in 1..n : b[i][1] \in Running
  BY DEF BatchOf
<1>3. ids' \in [Owners -> Seq(RunTokens)]
  <2> SUFFICES ASSUME NEW x \in Owners PROVE ids'[x] \in Seq(RunTokens)
    BY DEF MovesOn
  <2>1. CASE \E i \in 1..n : b[i][1] = x
    <3>1. PICK i \in 1..n : b[i][1] = x
      BY <2>1
    <3>2. ids'[x] = ids[x] \o u[i]
      BY <3>1 DEF MovesOn
    <3>3. ids[x] \in Seq(RunTokens) /\ u[i] \in Seq(RunTokens)
      BY <1>1
    <3>4. ids[x] \o u[i] \in Seq(RunTokens)
      BY <3>3, Joined
    <3> QED BY <3>2, <3>4
  <2>2. CASE \A i \in 1..n : b[i][1] # x
    BY <1>1, <2>2 DEF MovesOn
  <2> QED BY <2>1, <2>2
<1>4. SlotsHold'
  <2>1. Running' = Running
    BY DEF Running, MovesOn
  <2> SUFFICES ASSUME NEW x \in Running PROVE SlotHolds(x)'
    BY <2>1 DEF SlotsHold
  <2>2. CASE \E i \in 1..n : b[i][1] = x
    <3>1. PICK i \in 1..n : b[i][1] = x
      BY <2>2
    <3>2. /\ ids'[b[i][1]] = ids[b[i][1]] \o u[i] /\ slot' = slot
          /\ conv'[slot[b[i][1]]] = ConvState(ids[b[i][1]] \o u[i])
          /\ temporal'[slot[b[i][1]]] = Absorbed(ids[b[i][1]] \o u[i])
      BY DEF MovesOn
    <3>3. /\ conv'[slot'[x]] = ConvState(ids'[x]) /\ temporal'[slot'[x]] = Absorbed(ids'[x])
      BY <3>1, <3>2
    <3>4. SlotHolds(x)' <=> conv'[slot'[x]] = ConvState(ids'[x]) /\ temporal'[slot'[x]] = Absorbed(ids'[x])
      BY Zenon DEF SlotHolds, ConvState, Absorbed, Pad, LastOf, Zeros, StateLen
    <3> QED BY <3>3, <3>4
  <2>3. CASE \A i \in 1..n : b[i][1] # x
    <3>1. \A i \in 1..n : slot[b[i][1]] # slot[x]
      BY <1>1, <1>2, <2>3
    <3>2. ids'[x] = ids[x] /\ slot' = slot
      BY <1>1, <2>3 DEF MovesOn
    <3>3. conv'[slot[x]] = conv[slot[x]] /\ temporal'[slot[x]] = temporal[slot[x]]
      BY <1>1, <3>1 DEF MovesOn
    <3> QED BY <3>2, <3>3 DEF SlotsHold, SlotHolds
  <2> QED BY <2>2, <2>3
<1> QED BY <1>3, <1>4

LensOf(b, n) == [i \in 1..n |-> Len(b[i][2])]

LEMMA InputIs ==
  ASSUME NEW b, NEW n, NEW lens, BatchOf(b, n, lens), NEW i \in 1..n, NEW c
  PROVE  ConvInput(c, Flat(b), CumLen(LensOf(b, n))[i - 1], LensOf(b, n)[i]) = c \o b[i][2]
<1> DEFINE u == [k \in 1..n |-> b[k][2]]
<1> DEFINE cum == CumLen(LensOf(b, n))
<1>1. u \in [1..n -> Seq(RunTokens)] /\ n \in Nat \ {0}
  BY DEF BatchOf
<1>2. LensOf(b, n) \in [1..n -> Nat] /\ \A k \in 1..n : LensOf(b, n)[k] = Len(u[k])
  <2>1. \A k \in 1..n : Len(b[k][2]) \in Nat
    BY LenProperties DEF BatchOf
  <2> QED BY <2>1 DEF LensOf
<1>3. Flat(b) = FlattenSeq(u)
  BY DEF Flat, BatchOf
<1> HIDE DEF u
<1>4. SegmentParts(RunTokens, FlattenSeq(u), u, LensOf(b, n), i)
  BY <1>1, <1>2, SegmentIs
<1>5. SubSeq(Flat(b), cum[i - 1] + 1, cum[i - 1] + LensOf(b, n)[i]) = u[i]
  BY <1>3, <1>4 DEF SegmentParts
<1> QED BY <1>5 DEF ConvInput, u

(* What a batch is run on: slots of their own, behind which its tokens are.  *)
BatchRuns(b, n, u, outs, lens, slots) ==
  /\ slots \in [1..n -> PoolSlots]
  /\ \A i \in 1..n : slots[i] = slot[b[i][1]] /\ conv[slots[i]] = ConvState(ids[b[i][1]])
                     /\ temporal[slots[i]] = Absorbed(ids[b[i][1]])
  /\ \A i, j \in 1..n : slots[i] = slots[j] => i = j
  /\ u \in [1..n -> Seq(RunTokens)]
  /\ outs \in [1..n -> Seq(Seq(RunTokens))] /\ lens \in [1..n -> Nat]
  /\ \A i \in 1..n : /\ lens[i] = Len(outs[i]) /\ lens[i] = Len(u[i])
                     /\ Absorbed(ids[b[i][1]]) \o outs[i] = Absorbed(ids[b[i][1]] \o u[i])

LEMMA BatchRun ==
  ASSUME SlotTyped, SlotsHold, NEW b, NEW n, NEW ls, BatchOf(b, n, ls),
         NEW u \in [1..n -> Seq(RunTokens)],
         NEW outs, outs = [i \in 1..n |-> ConvOut(ConvState(ids[b[i][1]]) \o u[i])],
         NEW lens, lens = [i \in 1..n |-> Len(u[i])]
  PROVE  BatchRuns(b, n, u, outs, lens, SlotIds(b))
<1>1. n \in Nat \ {0} /\ Len(b) = n /\ \A i \in 1..n : b[i][1] \in Running
  BY DEF BatchOf
<1>2. \A x \in Running : ids[x] \in Seq(RunTokens) /\ slot[x] \in PoolSlots
  BY DEF SlotTyped, Running
<1>3. /\ SlotIds(b) \in [1..n -> PoolSlots] /\ \A i \in 1..n : SlotIds(b)[i] = slot[b[i][1]]
  BY <1>1, <1>2 DEF SlotIds
<1>4. \A i, j \in 1..n : SlotIds(b)[i] = SlotIds(b)[j] => i = j
  <2>1. \A x, z \in Running : slot[x] = slot[z] => x = z
    BY DEF SlotTyped
  <2>2. \A i, j \in 1..n : b[i][1] = b[j][1] => i = j
    BY DEF BatchOf
  <2>3. ASSUME NEW i \in 1..n, NEW j \in 1..n, SlotIds(b)[i] = SlotIds(b)[j] PROVE i = j
    <3>1. slot[b[i][1]] = slot[b[j][1]] /\ b[i][1] \in Running /\ b[j][1] \in Running
      BY <1>1, <1>3, <2>3
    <3>2. b[i][1] = b[j][1]
      BY <2>1, <3>1
    <3> QED BY <2>2, <3>2
  <2> QED BY <2>3
<1>5. ASSUME NEW i \in 1..n
      PROVE  /\ lens[i] \in Nat /\ outs[i] \in Seq(Seq(RunTokens))
             /\ lens[i] = Len(outs[i]) /\ lens[i] = Len(u[i])
             /\ Absorbed(ids[b[i][1]]) \o outs[i] = Absorbed(ids[b[i][1]] \o u[i])
  <2>1. u[i] \in Seq(RunTokens) /\ ids[b[i][1]] \in Seq(RunTokens) /\ Len(u[i]) \in Nat
    BY <1>1, <1>2, LenProperties
  <2>2. Advances(ids[b[i][1]], u[i])
    BY <2>1, Advance
  <2>3. outs[i] = ConvOut(ConvState(ids[b[i][1]]) \o u[i]) /\ lens[i] = Len(u[i])
    OBVIOUS
  <2> QED BY <2>1, <2>2, <2>3 DEF Advances
<1>6. ASSUME NEW i \in 1..n
      PROVE  /\ SlotIds(b)[i] = slot[b[i][1]] /\ conv[SlotIds(b)[i]] = ConvState(ids[b[i][1]])
             /\ temporal[SlotIds(b)[i]] = Absorbed(ids[b[i][1]])
  BY <1>1, <1>3 DEF SlotsHold, SlotHolds
<1>7. lens \in [1..n -> Nat] /\ outs \in [1..n -> Seq(Seq(RunTokens))]
  BY <1>5
<1> QED BY <1>3, <1>4, <1>5, <1>6, <1>7 DEF BatchRuns

(* Entries of a batch are found again by their sequence, or by their slot.   *)
LEMMA EntryOf ==
  ASSUME NEW b, NEW n, NEW lens, BatchOf(b, n, lens), NEW i \in 1..n
  PROVE  (CHOOSE k \in 1..n : b[k][1] = b[i][1]) = i
<1> DEFINE c == CHOOSE k \in 1..n : b[k][1] = b[i][1]
<1>1. c \in 1..n /\ b[c][1] = b[i][1]
  OBVIOUS
<1> HIDE DEF c
<1>2. c = i
  BY <1>1 DEF BatchOf
<1> QED BY <1>2 DEF c

LEMMA IndexOf ==
  ASSUME NEW n, NEW f, \A i, j \in 1..n : f[i] = f[j] => i = j, NEW i \in 1..n
  PROVE  (CHOOSE k \in 1..n : f[k] = f[i]) = i
<1> DEFINE c == CHOOSE k \in 1..n : f[k] = f[i]
<1>1. c \in 1..n /\ f[c] = f[i]
  OBVIOUS
<1> HIDE DEF c
<1>2. c = i
  BY <1>1
<1> QED BY <1>2 DEF c

LEMMA RangeOf ==
  ASSUME NEW S, NEW n \in Nat, NEW f \in [1..n -> S]
  PROVE  Range(f) = {f[i] : i \in 1..n}
BY DEF Range

LEMMA ForwardSlots ==
  ASSUME SlotInv, Forward
  PROVE  SlotInv'
<1> DEFINE input(b) == [i \in 1..Len(b) |->
                          ConvInput(conv[SlotIds(b)[i]], Flat(b), CumLen(Lens(b))[i - 1], Lens(b)[i])]
<1>1. PICK b \in Batches(1..Width) :
        /\ conv' = [s \in PoolSlots |->
                      IF s \notin Range(SlotIds(b)) THEN conv[s]
                      ELSE LastOf(input(b)[CHOOSE i \in 1..Len(b) : SlotIds(b)[i] = s], StateLen)]
        /\ temporal' = GdnState(temporal, FlattenSeq([i \in 1..Len(b) |-> ConvOut(input(b)[i])]),
                                SlotIds(b), CumLen(Lens(b)))
        /\ ids' = [x \in Owners |->
                     IF \E i \in 1..Len(b) : b[i][1] = x
                     THEN ids[x] \o b[CHOOSE i \in 1..Len(b) : b[i][1] = x][2] ELSE ids[x]]
  BY Zenon DEF Forward
<1>2. verify = <<>> /\ verify' = <<>> /\ free' = free /\ slot' = slot
  BY DEF Forward
<1>3. SlotTyped /\ SlotsHold
  BY DEF SlotInv
<1> DEFINE n == Len(b)
<1> DEFINE slots == SlotIds(b)
<1>4. BatchOf(b, n, 1..Width)
  <2>1. 1..Width \subseteq Nat
    BY GatedDeltaAssumption
  <2> QED BY <1>3, <2>1, BatchShape
<1> DEFINE u == [i \in 1..n |-> b[i][2]]
<1> DEFINE outs == [i \in 1..n |-> ConvOut(ConvState(ids[b[i][1]]) \o u[i])]
<1> DEFINE lens == [i \in 1..n |-> Len(u[i])]
<1>5. u \in [1..n -> Seq(RunTokens)] /\ \A i \in 1..n : u[i] = b[i][2]
  BY <1>4 DEF BatchOf
<1>6. lens = Lens(b) /\ lens = LensOf(b, n)
  BY DEF Lens, LensOf
<1>7. BatchRuns(b, n, u, outs, lens, slots)
  <2> HIDE DEF u, n
  <2> QED BY <1>3, <1>4, <1>5, BatchRun
<1>8. ASSUME NEW i \in 1..n
      PROVE  input(b)[i] = ConvState(ids[b[i][1]]) \o u[i]
  <2>1. input(b)[i] = ConvInput(conv[slots[i]], Flat(b), CumLen(LensOf(b, n))[i - 1], LensOf(b, n)[i])
    BY <1>6
  <2>2. conv[slots[i]] = ConvState(ids[b[i][1]])
    BY <1>7 DEF BatchRuns
  <2>3. ConvInput(conv[slots[i]], Flat(b), CumLen(LensOf(b, n))[i - 1], LensOf(b, n)[i])
        = conv[slots[i]] \o b[i][2]
    BY <1>4, InputIs
  <2> QED BY <1>5, <2>1, <2>2, <2>3
<1>9. [i \in 1..n |-> ConvOut(input(b)[i])] = outs
  BY <1>8
<1>10. Moved(temporal, outs, lens, slots, n)
  <2>1. n \in Nat \ {0}
    BY <1>4 DEF BatchOf
  <2>2. /\ slots \in [1..n -> PoolSlots] /\ \A i, j \in 1..n : slots[i] = slots[j] => i = j
        /\ outs \in [1..n -> Seq(Seq(RunTokens))] /\ lens \in [1..n -> Nat]
        /\ \A i \in 1..n : lens[i] = Len(outs[i])
    BY <1>7 DEF BatchRuns
  <2> HIDE DEF n, slots, outs, lens, u
  <2> QED BY <2>1, <2>2, Kernel
<1>11. temporal' = GdnState(temporal, FlattenSeq(outs), slots, CumLen(lens))
  BY <1>1, <1>6, <1>9
<1>12. /\ conv' = [s \in PoolSlots |->
                     IF s \notin Range(slots) THEN conv[s]
                     ELSE LastOf(input(b)[CHOOSE i \in 1..n : slots[i] = s], StateLen)]
       /\ ids' = [x \in Owners |->
                    IF \E i \in 1..n : b[i][1] = x
                    THEN ids[x] \o b[CHOOSE i \in 1..n : b[i][1] = x][2] ELSE ids[x]]
  BY <1>1
<1> DEFINE in == input(b)
<1>13. \A i \in 1..n : in[i] = ConvState(ids[b[i][1]]) \o u[i]
  BY <1>8
<1> HIDE DEF n, slots, outs, lens, u, in
<1>14. /\ slots \in [1..n -> PoolSlots] /\ n \in Nat
       /\ \A i, j \in 1..n : slots[i] = slots[j] => i = j
       /\ \A i \in 1..n : slots[i] = slot[b[i][1]]
       /\ \A i \in 1..n : temporal[slots[i]] = Absorbed(ids[b[i][1]])
       /\ \A i \in 1..n : Absorbed(ids[b[i][1]]) \o outs[i] = Absorbed(ids[b[i][1]] \o u[i])
  BY <1>4, <1>7 DEF BatchRuns, BatchOf
<1>15. \A s : s \in Range(slots) <=> \E i \in 1..n : slots[i] = s
  <2>1. slots \in [1..n -> PoolSlots] /\ n \in Nat
    BY <1>14
  <2>2. Range(slots) = {slots[i] : i \in 1..n}
    BY <2>1, RangeOf
  <2> QED BY <2>2
<1>16. ASSUME NEW i \in 1..n
       PROVE  /\ ids'[b[i][1]] = ids[b[i][1]] \o u[i]
              /\ conv'[slot[b[i][1]]] = ConvState(ids[b[i][1]] \o u[i])
              /\ temporal'[slot[b[i][1]]] = Absorbed(ids[b[i][1]] \o u[i])
  <2>0. b[i][1] \in Running
    BY <1>4 DEF BatchOf
  <2>1. b[i][1] \in Owners /\ ids[b[i][1]] \in Seq(RunTokens) /\ u[i] \in Seq(RunTokens)
    BY <1>3, <1>5, <2>0 DEF Running, SlotTyped
  <2>2. ids'[b[i][1]] = ids[b[i][1]] \o u[i]
    <3>1. (CHOOSE k \in 1..n : b[k][1] = b[i][1]) = i
      BY <1>4, EntryOf
    <3> QED BY <1>5, <1>12, <2>1, <3>1, Zenon
  <2>3. conv'[slots[i]] = LastOf(in[i], StateLen)
    <3>1. (CHOOSE k \in 1..n : slots[k] = slots[i]) = i
      BY <1>14, IndexOf
    <3>2. slots[i] \in PoolSlots /\ slots[i] \in Range(slots)
      BY <1>14, <1>15
    <3> QED BY <1>12, <3>1, <3>2 DEF in
  <2>4. LastOf(in[i], StateLen) = ConvState(ids[b[i][1]] \o u[i])
    BY <1>13, <2>1, Advance DEF Advances
  <2>5. temporal'[slots[i]] = temporal[slots[i]] \o outs[i]
    BY <1>10, <1>11 DEF Moved
  <2> QED BY <1>14, <2>2, <2>3, <2>4, <2>5
<1>17. ASSUME NEW s \in PoolSlots, \A i \in 1..n : slot[b[i][1]] # s
       PROVE  conv'[s] = conv[s] /\ temporal'[s] = temporal[s]
  <2>1. \A i \in 1..n : slots[i] # s
    BY <1>14, <1>17
  <2>2. conv'[s] = conv[s]
    BY <1>12, <1>15, <2>1
  <2>3. temporal'[s] = temporal[s]
    BY <1>10, <1>11, <2>1 DEF Moved
  <2> QED BY <2>2, <2>3
<1>18. /\ \A x \in Owners : (\A i \in 1..n : b[i][1] # x) => ids'[x] = ids[x]
       /\ ids' = [x \in Owners |-> ids'[x]] /\ conv' = [s \in PoolSlots |-> conv'[s]]
       /\ temporal' = [s \in PoolSlots |-> temporal'[s]]
  <2>1. temporal' = [s \in PoolSlots |-> temporal'[s]]
    BY <1>10, <1>11 DEF Moved
  <2>2. ids' = [x \in Owners |-> ids'[x]] /\ conv' = [s \in PoolSlots |-> conv'[s]]
    BY <1>12
  <2>3. \A x \in Owners : (\A i \in 1..n : b[i][1] # x) => ids'[x] = ids[x]
    BY <1>12
  <2> QED BY <2>1, <2>2, <2>3
<1>19. MovesOn(b, n, u)
  BY <1>2, <1>16, <1>17, <1>18 DEF MovesOn
<1>20. ids' \in [Owners -> Seq(RunTokens)] /\ SlotsHold'
  BY <1>3, <1>4, <1>5, <1>19, MovedSlots
<1>21. SlotTyped'
  BY <1>2, <1>3, <1>18, <1>20 DEF SlotTyped, Running
<1> QED BY <1>2, <1>20, <1>21 DEF SlotInv, Verifying

(* A verify run works on copies: the slots of the sequences stay as they are. *)
LEMMA VerifySlots ==
  ASSUME SlotInv, ForwardVerify
  PROVE  SlotInv'
<1> DEFINE from(b, scratch, s) == SlotIds(b)[CHOOSE i \in 1..Len(b) : scratch[i] = s]
<1> DEFINE copied(b, scratch, f) ==
             [s \in PoolSlots |-> IF s \in Range(scratch) THEN f[from(b, scratch, s)] ELSE f[s]]
<1> DEFINE cum(b) == CumLen([i \in 1..Len(b) |-> Width])
<1> DEFINE input(b, scratch) ==
             [i \in 1..Len(b) |->
                ConvInput(copied(b, scratch, conv)[scratch[i]], Flat(b), cum(b)[i - 1], Width)]
<1> DEFINE made(b, scratch) == FlattenSeq([i \in 1..Len(b) |-> ConvOut(input(b, scratch)[i])])
<1>1. PICK b \in Batches({Width}) :
        \E scratch \in {f \in [1..Len(b) -> free] : \A i, j \in 1..Len(b) : f[i] = f[j] => i = j} :
          /\ conv' = copied(b, scratch, conv)
          /\ temporal' = GdnState(copied(b, scratch, temporal), made(b, scratch), scratch, cum(b))
          /\ window' = [s \in PoolSlots |->
                          IF s \notin Range(scratch) THEN window[s]
                          ELSE ConvWindows(input(b, scratch)[CHOOSE i \in 1..Len(b) : scratch[i] = s])]
          /\ verify' = [batch |-> b, scratch |-> scratch, captured |-> made(b, scratch)]
          /\ free' = free \ Range(scratch)
  BY Zenon DEF ForwardVerify
<1>2. PICK scratch \in {f \in [1..Len(b) -> free] : \A i, j \in 1..Len(b) : f[i] = f[j] => i = j} :
          /\ conv' = copied(b, scratch, conv)
          /\ temporal' = GdnState(copied(b, scratch, temporal), made(b, scratch), scratch, cum(b))
          /\ window' = [s \in PoolSlots |->
                          IF s \notin Range(scratch) THEN window[s]
                          ELSE ConvWindows(input(b, scratch)[CHOOSE i \in 1..Len(b) : scratch[i] = s])]
          /\ verify' = [batch |-> b, scratch |-> scratch, captured |-> made(b, scratch)]
          /\ free' = free \ Range(scratch)
  BY <1>1, Zenon
<1>3. slot' = slot /\ ids' = ids
  BY Zenon DEF ForwardVerify
<1>4. SlotTyped /\ SlotsHold /\ Width \in Nat \ {0}
  BY GatedDeltaAssumption DEF SlotInv
<1> DEFINE n == Len(b)
<1> DEFINE own == SlotIds(b)
<1> DEFINE captured == made(b, scratch)
<1> DEFINE in == input(b, scratch)
<1> DEFINE copy(f) == copied(b, scratch, f)
<1> DEFINE u == [i \in 1..n |-> b[i][2]]
<1> DEFINE outs == [i \in 1..n |-> ConvOut(ConvState(ids[b[i][1]]) \o u[i])]
<1> DEFINE lens == [i \in 1..n |-> Len(u[i])]
<1>5. BatchOf(b, n, {Width}) /\ n \in Nat \ {0}
  <2>1. {Width} \subseteq Nat
    BY <1>4
  <2>2. BatchOf(b, n, {Width})
    BY <1>4, <2>1, BatchShape
  <2> QED BY <2>2 DEF BatchOf
<1>6. u \in [1..n -> Seq(RunTokens)] /\ \A i \in 1..n : u[i] = b[i][2] /\ Len(u[i]) = Width
  BY <1>5 DEF BatchOf
<1>7. lens = [i \in 1..n |-> Width] /\ lens = LensOf(b, n) /\ cum(b) = CumLen(lens)
  <2>1. lens = [i \in 1..n |-> Width]
    BY <1>6
  <2> QED BY <2>1 DEF LensOf
<1>8. BatchRuns(b, n, u, outs, lens, own)
  <2> HIDE DEF u, n
  <2> QED BY <1>4, <1>5, <1>6, BatchRun
<1>9. /\ scratch \in [1..n -> PoolSlots] /\ \A i \in 1..n : scratch[i] \in free
      /\ \A i, j \in 1..n : scratch[i] = scratch[j] => i = j
      /\ Range(scratch) = {scratch[i] : i \in 1..n}
  <2>0. scratch \in {f \in [1..n -> free] : \A i, j \in 1..n : f[i] = f[j] => i = j}
    BY Zenon
  <2>1. scratch \in [1..n -> free] /\ \A i, j \in 1..n : scratch[i] = scratch[j] => i = j
    <3> HIDE DEF n
    <3> QED BY <2>0
  <2>2. scratch \in [1..n -> PoolSlots]
    BY <1>4, <2>1 DEF SlotTyped
  <2>3. Range(scratch) = {scratch[i] : i \in 1..n}
    <3> HIDE DEF n
    <3> QED BY <1>5, <2>2, RangeOf
  <2> QED BY <2>1, <2>2, <2>3
<1>10. ASSUME NEW f PROVE /\ \A i \in 1..n : copy(f)[scratch[i]] = f[own[i]]
                          /\ \A s \in PoolSlots \ Range(scratch) : copy(f)[s] = f[s]
                          /\ copy(f) = [s \in PoolSlots |-> copy(f)[s]]
  <2>1. ASSUME NEW i \in 1..n PROVE copy(f)[scratch[i]] = f[own[i]]
    <3>1. (CHOOSE k \in 1..n : scratch[k] = scratch[i]) = i
      <4> HIDE DEF n
      <4> QED BY <1>9, IndexOf
    <3>2. scratch[i] \in Range(scratch) /\ scratch[i] \in PoolSlots
      BY <1>9
    <3> HIDE DEF own
    <3> QED BY <3>1, <3>2 DEF own
  <2>2. \A s \in PoolSlots \ Range(scratch) : copy(f)[s] = f[s]
    OBVIOUS
  <2>3. copy(f) = [s \in PoolSlots |-> copy(f)[s]]
    <3> HIDE DEF from
    <3> QED OBVIOUS
  <2> HIDE DEF copy
  <2> QED BY <2>1, <2>2, <2>3
<1>11. ASSUME NEW i \in 1..n PROVE in[i] = ConvState(ids[b[i][1]]) \o u[i]
  <2>1. in[i] = ConvInput(copy(conv)[scratch[i]], Flat(b), CumLen(LensOf(b, n))[i - 1], LensOf(b, n)[i])
    <3>1. in[i] = ConvInput(copy(conv)[scratch[i]], Flat(b), cum(b)[i - 1], Width)
      OBVIOUS
    <3>2. LensOf(b, n)[i] = Width /\ cum(b) = CumLen(LensOf(b, n))
      BY <1>7
    <3> HIDE DEF in, cum, copy
    <3> QED BY <3>1, <3>2
  <2>2. copy(conv)[scratch[i]] = ConvState(ids[b[i][1]])
    <3>1. conv[own[i]] = ConvState(ids[b[i][1]])
      BY <1>8 DEF BatchRuns
    <3>2. copy(conv)[scratch[i]] = conv[own[i]]
      <4> HIDE DEF copy
      <4> QED BY <1>10
    <3> HIDE DEF copy, own
    <3> QED BY <3>1, <3>2
  <2>3. ConvInput(copy(conv)[scratch[i]], Flat(b), CumLen(LensOf(b, n))[i - 1], LensOf(b, n)[i])
        = copy(conv)[scratch[i]] \o b[i][2]
    <3> HIDE DEF copy
    <3> QED BY <1>5, InputIs
  <2> HIDE DEF in, copy
  <2> QED BY <1>6, <2>1, <2>2, <2>3
<1>12. captured = FlattenSeq(outs)
  <2>1. [i \in 1..n |-> ConvOut(in[i])] = outs
    <3>1. \A i \in 1..n : outs[i] = ConvOut(ConvState(ids[b[i][1]]) \o u[i])
      BY Zenon
    <3>2. outs = [i \in 1..n |-> outs[i]]
      BY Zenon
    <3> HIDE DEF in, outs, u
    <3> QED BY <1>11, <3>1, <3>2
  <2>2. captured = FlattenSeq([i \in 1..n |-> ConvOut(in[i])])
    <3> HIDE DEF input
    <3> QED BY Zenon
  <2> HIDE DEF captured, in, outs
  <2> QED BY <2>1, <2>2
<1>13. /\ conv' = copy(conv) /\ temporal' = GdnState(copy(temporal), FlattenSeq(outs), scratch, CumLen(lens))
       /\ window' = [s \in PoolSlots |->
                       IF s \notin Range(scratch) THEN window[s]
                       ELSE ConvWindows(in[CHOOSE i \in 1..n : scratch[i] = s])]
       /\ verify' = [batch |-> b, scratch |-> scratch, captured |-> captured]
       /\ free' = free \ Range(scratch)
  <2>1. temporal' = GdnState(copy(temporal), captured, scratch, cum(b))
    BY <1>2, Zenon
  <2>2. temporal' = GdnState(copy(temporal), FlattenSeq(outs), scratch, CumLen(lens))
    <3> HIDE DEF captured, outs, cum, lens, copy
    <3> QED BY <1>7, <1>12, <2>1
  <2> QED BY <1>2, <2>2, Zenon
<1>14. conv' = [s \in PoolSlots |-> conv'[s]]
  <2> HIDE DEF copy
  <2> QED BY <1>10, <1>13
<1> HIDE DEF n, own, captured, in, copy, u, outs, lens, from, copied, cum, input, made
<1>15. Moved(copy(temporal), outs, lens, scratch, n)
  <2>1. /\ outs \in [1..n -> Seq(Seq(RunTokens))] /\ lens \in [1..n -> Nat]
        /\ \A i \in 1..n : lens[i] = Len(outs[i])
    BY <1>8 DEF BatchRuns
  <2> QED BY <1>5, <1>9, <2>1, Kernel
<1>16. ASSUME NEW x \in Running
       PROVE  /\ x \in Owners /\ slot[x] \in PoolSlots \ Range(scratch)
              /\ conv'[slot[x]] = conv[slot[x]] /\ temporal'[slot[x]] = temporal[slot[x]]
  <2>1. x \in Owners /\ slot[x] \in PoolSlots /\ slot[x] \notin free
    BY <1>4 DEF SlotTyped, Running
  <2>2. slot[x] \notin Range(scratch) /\ \A i \in 1..n : scratch[i] # slot[x]
    BY <1>9, <2>1
  <2>3. conv'[slot[x]] = conv[slot[x]]
    BY <1>10, <1>13, <2>1, <2>2
  <2>4. temporal'[slot[x]] = copy(temporal)[slot[x]]
    BY <1>13, <1>15, <2>1, <2>2 DEF Moved
  <2>5. copy(temporal)[slot[x]] = temporal[slot[x]]
    BY <1>10, <2>1, <2>2
  <2> QED BY <2>1, <2>2, <2>3, <2>4, <2>5
<1>17. Running' = Running
  BY <1>3 DEF Running
<1>18. SlotTyped'
  <2>1. temporal' = [s \in PoolSlots |-> temporal'[s]]
    BY <1>13, <1>15 DEF Moved
  <2>2. free' \subseteq PoolSlots /\ \A x \in Running : slot[x] \notin free'
    BY <1>4, <1>13 DEF SlotTyped
  <2>3. /\ slot \in [Owners -> PoolSlots \cup {None}] /\ ids \in [Owners -> Seq(RunTokens)]
        /\ \A x, z \in Running : slot[x] = slot[z] => x = z
    BY <1>4 DEF SlotTyped
  <2> QED BY <1>3, <1>14, <1>17, <2>1, <2>2, <2>3 DEF SlotTyped
<1>19. SlotsHold'
  <2> SUFFICES ASSUME NEW x \in Running PROVE SlotHolds(x)'
    BY <1>17 DEF SlotsHold
  <2>1. SlotHolds(x)
    BY <1>4 DEF SlotsHold
  <2> QED BY <1>3, <1>16, <2>1 DEF SlotHolds
<1>22. ASSUME NEW i \in 1..n, NEW m \in 0..Width
       PROVE  LET v == SubSeq(b[i][2], 1, m)
              IN /\ SubSeq(outs[i], 1, m) = ConvOut(ConvState(ids[b[i][1]]) \o v)
                 /\ SubSeq(in[i], m + 1, m + StateLen) = ConvState(ids[b[i][1]] \o v)
  <2>1. ids[b[i][1]] \in Seq(RunTokens) /\ b[i][2] \in Seq(RunTokens) /\ Len(b[i][2]) = Width
    BY <1>4, <1>5 DEF BatchOf, SlotTyped, Running
  <2>2. outs[i] = ConvOut(in[i]) /\ in[i] = ConvState(ids[b[i][1]]) \o b[i][2]
    BY <1>6, <1>11 DEF outs
  <2>3. m \in 0..Len(b[i][2])
    BY <2>1
  <2>4. AdvancesFirst(ids[b[i][1]], b[i][2], m)
    BY <2>1, <2>3, AdvanceFirst
  <2> QED BY <2>2, <2>4 DEF AdvancesFirst
<1>23. ASSUME NEW i \in 1..n, NEW m \in 1..Width
       PROVE  SubSeq(captured, (i - 1) * Width + 1, (i - 1) * Width + m) = ConvOut(StateAfter(b, i, m))
  <2> DEFINE a == (i - 1) * Width
  <2>1. Segments(Seq(RunTokens), captured, outs, CumLen(lens), n)
    <3>1. /\ outs \in [1..n -> Seq(Seq(RunTokens))] /\ lens \in [1..n -> Nat]
          /\ \A k \in 1..n : lens[k] = Len(outs[k])
      BY <1>8 DEF BatchRuns
    <3> QED BY <1>5, <1>12, <3>1, Flattened
  <2>2. CumLen(lens)[i - 1] = a
    <3>1. n \in Nat /\ i - 1 \in 0..n
      BY <1>5
    <3> QED BY <1>7, <3>1, EvenOffsets
  <2>3. outs[i] \in Seq(Seq(RunTokens)) /\ Len(outs[i]) = Width
    BY <1>6, <1>8 DEF BatchRuns
  <2> DEFINE flat == captured
  <2> DEFINE t == outs[i]
  <2>4. /\ flat \in Seq(Seq(RunTokens)) /\ a \in Nat /\ a + Width <= Len(flat)
        /\ \A k \in 1..Width : flat[a + k] = t[k]
    <3> HIDE DEF a
    <3> QED BY <2>1, <2>2, <2>3 DEF Segments
  <2> HIDE DEF a, flat, t
  <2>5. SameSlices(flat, t, a, 0, m)
    <3>1. m \in Nat /\ 0 \in Nat /\ a + m <= Len(flat) /\ 0 + m <= Len(t)
      <4>1. Len(flat) \in Nat
        BY <2>4, LenProperties
      <4> QED BY <1>4, <2>3, <2>4, <4>1 DEF t
    <3>2. \A k \in 1..m : flat[a + k] = t[0 + k]
      BY <1>4, <2>4
    <3>3. t \in Seq(Seq(RunTokens))
      BY <2>3 DEF t
    <3> QED BY <2>4, <3>1, <3>2, <3>3, SameSlice
  <2>6. SubSeq(flat, a + 1, a + m) = SubSeq(t, 1, m)
    <3>1. 0 + 1 = 1 /\ 0 + m = m
      OBVIOUS
    <3> QED BY <2>5, <3>1 DEF SameSlices
  <2>7. SubSeq(t, 1, m) = ConvOut(StateAfter(b, i, m))
    <3>1. m \in 0..Width
      BY <1>4
    <3> QED BY <1>22, <3>1 DEF StateAfter, t
  <2> QED BY <2>6, <2>7 DEF a, flat
<1>24. ASSUME NEW i \in 1..n, NEW m \in 0..Width - 1
       PROVE  window'[scratch[i]][m] = ConvState(ids[b[i][1]] \o SubSeq(b[i][2], 1, m + 1))
  <2>1. window'[scratch[i]] = ConvWindows(in[i])
    <3>1. (CHOOSE k \in 1..n : scratch[k] = scratch[i]) = i
      BY <1>9, IndexOf
    <3>2. scratch[i] \in PoolSlots /\ scratch[i] \in Range(scratch)
      BY <1>9
    <3> QED BY <1>13, <3>1, <3>2
  <2>2. window'[scratch[i]][m] = SubSeq(in[i], m + 2, m + 1 + StateLen)
    BY <2>1 DEF ConvWindows
  <2>3. m + 1 \in 0..Width /\ (m + 1) + 1 = m + 2
    BY <1>4
  <2>4. SubSeq(in[i], (m + 1) + 1, (m + 1) + StateLen) = ConvState(ids[b[i][1]] \o SubSeq(b[i][2], 1, m + 1))
    BY <1>22, <2>3
  <2> QED BY <2>2, <2>3, <2>4
<1>25. PICK k, c : k = n /\ c = captured
  OBVIOUS
<1>26. ScratchOf(b, k, scratch)'
  <2>1. \A i \in 1..n : scratch[i] \in Range(scratch)
    BY <1>9
  <2>2. \A i \in 1..n : scratch[i] \notin free'
    BY <1>13, <2>1
  <2>3. \A i \in 1..n : \A x \in Running' : slot'[x] # scratch[i]
    BY <1>3, <1>16, <1>17, <2>1
  <2> QED BY <1>9, <1>25, <2>2, <2>3 DEF ScratchOf
<1>27. BatchOf(b, k, {Width})'
  BY <1>5, <1>17, <1>25 DEF BatchOf
<1>28. CapturedOf(b, k, c)'
  <2>1. \A i \in 1..k, m \in 1..Width :
          SubSeq(c, (i - 1) * Width + 1, (i - 1) * Width + m) = ConvOut(StateAfter(b, i, m))
    BY <1>23, <1>25
  <2>2. \A i \in 1..k, m \in 1..Width : StateAfter(b, i, m)' = StateAfter(b, i, m)
    BY <1>3 DEF StateAfter
  <2> QED BY <2>1, <2>2 DEF CapturedOf
<1>29. WindowsOf(b, k, scratch)'
  BY <1>3, <1>24, <1>25 DEF WindowsOf
<1>30. verify' = [batch |-> b, scratch |-> scratch, captured |-> c]
  BY <1>13, <1>25
<1>31. VerifyOf(b, k, scratch, c)'
  BY <1>26, <1>27, <1>28, <1>29, <1>30 DEF VerifyOf
<1> QED BY <1>18, <1>19, <1>31 DEF SlotInv, Verifying

Commits(b, scratch, captured, accepted) ==
  /\ temporal' = GdnState(temporal, FlattenSeq([i \in 1..Len(b) |->
                    SubSeq(captured, (i - 1) * Width + 1, (i - 1) * Width + Replayed(accepted)[i])]),
                          SlotIds(b), CumLen(Replayed(accepted)))
  /\ conv' = [s \in PoolSlots |->
                IF s \notin Range(SlotIds(b)) THEN conv[s]
                ELSE window[scratch[CHOOSE i \in 1..Len(b) : SlotIds(b)[i] = s]]
                           [accepted[CHOOSE i \in 1..Len(b) : SlotIds(b)[i] = s]]]
  /\ ids' = [x \in Owners |->
               IF \E i \in 1..Len(b) : b[i][1] = x
               THEN ids[x] \o SubSeq(b[CHOOSE i \in 1..Len(b) : b[i][1] = x][2], 1,
                                     accepted[CHOOSE i \in 1..Len(b) : b[i][1] = x] + 1)
               ELSE ids[x]]

(* A commit: of what was captured, as much is taken as was accepted.         *)
LEMMA CommitSlots ==
  ASSUME SlotInv, CommitVerify
  PROVE  SlotInv'
<1>1. PICK b, scratch, captured : VerifyOf(b, Len(b), scratch, captured)
  <2>1. PICK b, k, scratch, captured : VerifyOf(b, k, scratch, captured)
    BY DEF SlotInv, Verifying, CommitVerify
  <2>2. Len(b) = k
    BY <2>1 DEF VerifyOf, BatchOf
  <2> QED BY <2>1, <2>2
<1> DEFINE n == Len(b)
<1> DEFINE own == SlotIds(b)
<1>2. /\ verify.batch = b /\ verify.scratch = scratch /\ verify.captured = captured
      /\ BatchOf(b, n, {Width}) /\ ScratchOf(b, n, scratch)
      /\ CapturedOf(b, n, captured) /\ WindowsOf(b, n, scratch)
      /\ n \in Nat \ {0}
  BY <1>1 DEF VerifyOf, BatchOf
<1> DEFINE kept(acc) == FlattenSeq([i \in 1..n |->
                    SubSeq(captured, (i - 1) * Width + 1, (i - 1) * Width + Replayed(acc)[i])])
<1>3. PICK accepted \in [1..n -> 0..Width - 1] :
        /\ temporal' = GdnState(temporal, kept(accepted), own, CumLen(Replayed(accepted)))
        /\ conv' = [s \in PoolSlots |->
                      IF s \notin Range(own) THEN conv[s]
                      ELSE window[scratch[CHOOSE i \in 1..n : own[i] = s]]
                                 [accepted[CHOOSE i \in 1..n : own[i] = s]]]
        /\ ids' = [x \in Owners |->
                     IF \E i \in 1..n : b[i][1] = x
                     THEN ids[x] \o SubSeq(b[CHOOSE i \in 1..n : b[i][1] = x][2], 1,
                                           accepted[CHOOSE i \in 1..n : b[i][1] = x] + 1)
                     ELSE ids[x]]
  <2>1. PICK accepted \in [1..Len(verify.batch) -> 0..Width - 1] :
          Commits(verify.batch, verify.scratch, verify.captured, accepted)
    BY Zenon DEF CommitVerify, Commits
  <2>2. accepted \in [1..Len(b) -> 0..Width - 1] /\ Commits(b, scratch, captured, accepted)
    BY <1>2, <2>1
  <2> QED BY <2>2 DEF Commits
<1>4. /\ free' = free \cup Range(scratch) /\ verify' = <<>> /\ slot' = slot
  BY <1>2 DEF CommitVerify
<1>5. SlotTyped /\ SlotsHold /\ Width \in Nat \ {0}
  BY GatedDeltaAssumption DEF SlotInv
<1> DEFINE u == [i \in 1..n |-> SubSeq(b[i][2], 1, accepted[i] + 1)]
<1> DEFINE outs == [i \in 1..n |-> ConvOut(ConvState(ids[b[i][1]]) \o u[i])]
<1> DEFINE lens == [i \in 1..n |-> Len(u[i])]
<1>6. ASSUME NEW i \in 1..n
      PROVE  /\ ids[b[i][1]] \in Seq(RunTokens) /\ b[i][1] \in Owners
             /\ accepted[i] + 1 \in 1..Width /\ accepted[i] \in 0..Width - 1
             /\ AdvancesFirst(ids[b[i][1]], b[i][2], accepted[i] + 1)
  <2>1. /\ ids[b[i][1]] \in Seq(RunTokens) /\ b[i][1] \in Owners
        /\ b[i][2] \in Seq(RunTokens) /\ Len(b[i][2]) = Width
    BY <1>2, <1>5 DEF BatchOf, SlotTyped, Running
  <2>2. accepted[i] + 1 \in 1..Width /\ accepted[i] \in 0..Width - 1
    BY <1>5
  <2>3. accepted[i] + 1 \in 0..Len(b[i][2])
    BY <1>5, <2>1, <2>2
  <2> QED BY <2>1, <2>2, <2>3, AdvanceFirst
<1>7. ASSUME NEW i \in 1..n
      PROVE  /\ u[i] \in Seq(RunTokens) /\ Len(u[i]) = accepted[i] + 1
             /\ u[i] = SubSeq(b[i][2], 1, accepted[i] + 1)
  BY <1>6 DEF AdvancesFirst
<1>8. u \in [1..n -> Seq(RunTokens)]
  BY <1>7
<1>9. lens = Replayed(accepted)
  <2>1. Len(accepted) = n
    <3>1. n \in Nat
      BY <1>2
    <3> QED BY <3>1, Tabulated
  <2>2. lens = [i \in 1..n |-> accepted[i] + 1]
    BY <1>7
  <2> HIDE DEF lens
  <2> QED BY <2>1, <2>2 DEF Replayed
<1>10. BatchRuns(b, n, u, outs, lens, own)
  <2> HIDE DEF u
  <2> QED BY <1>2, <1>5, <1>8, BatchRun
<1>11. kept(accepted) = FlattenSeq(outs)
  <2>1. ASSUME NEW i \in 1..n
        PROVE  SubSeq(captured, (i - 1) * Width + 1, (i - 1) * Width + Replayed(accepted)[i]) = outs[i]
    <3> DEFINE m == accepted[i] + 1
    <3>1. m \in 1..Width /\ Replayed(accepted)[i] = m
      <4>1. lens[i] = accepted[i] + 1
        BY <1>7
      <4> HIDE DEF lens
      <4> QED BY <1>6, <1>9, <4>1
    <3>2. SubSeq(captured, (i - 1) * Width + 1, (i - 1) * Width + m) = ConvOut(StateAfter(b, i, m))
      <4> HIDE DEF m
      <4> QED BY <1>2, <3>1 DEF CapturedOf
    <3>3. ConvOut(StateAfter(b, i, m)) = outs[i]
      BY DEF StateAfter
    <3> HIDE DEF m, outs
    <3> QED BY <3>1, <3>2, <3>3
  <2>2. [i \in 1..n |-> SubSeq(captured, (i - 1) * Width + 1, (i - 1) * Width + Replayed(accepted)[i])] = outs
    <3>1. outs = [i \in 1..n |-> outs[i]]
      OBVIOUS
    <3> HIDE DEF outs
    <3> QED BY <2>1, <3>1
  <2> QED BY <2>2
<1>12. temporal' = GdnState(temporal, FlattenSeq(outs), own, CumLen(lens))
  <2> HIDE DEF kept, outs, lens, own
  <2> QED BY <1>3, <1>9, <1>11
<1> HIDE DEF u, outs, lens, own, kept, n
<1>13. /\ own \in [1..n -> PoolSlots] /\ n \in Nat
       /\ \A i, j \in 1..n : own[i] = own[j] => i = j
       /\ outs \in [1..n -> Seq(Seq(RunTokens))] /\ lens \in [1..n -> Nat]
       /\ \A i \in 1..n : lens[i] = Len(outs[i])
       /\ \A i \in 1..n : own[i] = slot[b[i][1]]
       /\ \A i \in 1..n : temporal[own[i]] = Absorbed(ids[b[i][1]])
       /\ \A i \in 1..n : Absorbed(ids[b[i][1]]) \o outs[i] = Absorbed(ids[b[i][1]] \o u[i])
  BY <1>2, <1>10 DEF BatchRuns
<1>14. Moved(temporal, outs, lens, own, n)
  BY <1>2, <1>13, Kernel
<1>15. \A s : s \in Range(own) <=> \E i \in 1..n : own[i] = s
  <2>1. own \in [1..n -> PoolSlots] /\ n \in Nat
    BY <1>13
  <2>2. Range(own) = {own[i] : i \in 1..n}
    BY <2>1, RangeOf
  <2> QED BY <2>2
<1>16. ASSUME NEW i \in 1..n
       PROVE  /\ ids'[b[i][1]] = ids[b[i][1]] \o u[i]
              /\ conv'[slot[b[i][1]]] = ConvState(ids[b[i][1]] \o u[i])
              /\ temporal'[slot[b[i][1]]] = Absorbed(ids[b[i][1]] \o u[i])
  <2>1. ids'[b[i][1]] = ids[b[i][1]] \o u[i]
    <3>1. (CHOOSE k \in 1..n : b[k][1] = b[i][1]) = i
      BY <1>2, EntryOf
    <3> QED BY <1>3, <1>6, <1>7, <3>1, Zenon
  <2>2. conv'[own[i]] = window[scratch[i]][accepted[i]]
    <3>1. (CHOOSE k \in 1..n : own[k] = own[i]) = i
      BY <1>13, IndexOf
    <3>2. own[i] \in PoolSlots /\ own[i] \in Range(own)
      BY <1>13, <1>15
    <3> QED BY <1>3, <3>1, <3>2
  <2>3. window[scratch[i]][accepted[i]] = ConvState(ids[b[i][1]] \o u[i])
    <3> DEFINE m == accepted[i]
    <3>1. m \in 0..Width - 1 /\ u[i] = SubSeq(b[i][2], 1, m + 1)
      BY <1>6, <1>7
    <3> HIDE DEF m
    <3>2. window[scratch[i]][m] = ConvState(ids[b[i][1]] \o SubSeq(b[i][2], 1, m + 1))
      BY <1>2, <3>1 DEF WindowsOf
    <3>3. window[scratch[i]][m] = ConvState(ids[b[i][1]] \o u[i])
      BY <3>1, <3>2
    <3> QED BY <3>3 DEF m
  <2>4. temporal'[own[i]] = temporal[own[i]] \o outs[i]
    BY <1>12, <1>14 DEF Moved
  <2> QED BY <1>13, <2>1, <2>2, <2>3, <2>4
<1>17. ASSUME NEW s \in PoolSlots, \A i \in 1..n : slot[b[i][1]] # s
       PROVE  conv'[s] = conv[s] /\ temporal'[s] = temporal[s]
  <2>1. \A i \in 1..n : own[i] # s
    BY <1>13, <1>17
  <2>2. conv'[s] = conv[s]
    BY <1>3, <1>15, <2>1
  <2>3. temporal'[s] = temporal[s]
    BY <1>12, <1>14, <2>1 DEF Moved
  <2> QED BY <2>2, <2>3
<1>18. /\ \A x \in Owners : (\A i \in 1..n : b[i][1] # x) => ids'[x] = ids[x]
       /\ ids' = [x \in Owners |-> ids'[x]] /\ conv' = [s \in PoolSlots |-> conv'[s]]
       /\ temporal' = [s \in PoolSlots |-> temporal'[s]]
  <2>1. temporal' = [s \in PoolSlots |-> temporal'[s]]
    BY <1>12, <1>14 DEF Moved
  <2>2. ids' = [x \in Owners |-> ids'[x]] /\ conv' = [s \in PoolSlots |-> conv'[s]]
    BY <1>3
  <2>3. \A x \in Owners : (\A i \in 1..n : b[i][1] # x) => ids'[x] = ids[x]
    BY <1>3
  <2> QED BY <2>1, <2>2, <2>3
<1>19. MovesOn(b, n, u)
  BY <1>4, <1>16, <1>17, <1>18 DEF MovesOn
<1>20. ids' \in [Owners -> Seq(RunTokens)] /\ SlotsHold'
  BY <1>2, <1>5, <1>8, <1>19, MovedSlots
<1>21. SlotTyped'
  <2>1. Running' = Running
    BY <1>4 DEF Running
  <2>2. Range(scratch) = {scratch[i] : i \in 1..n} /\ scratch \in [1..n -> PoolSlots]
    <3>1. scratch \in [1..n -> PoolSlots] /\ n \in Nat
      BY <1>2 DEF ScratchOf
    <3> QED BY <3>1, RangeOf
  <2>3. free' \subseteq PoolSlots
    BY <1>4, <1>5, <2>2 DEF SlotTyped
  <2>4. \A x \in Running : slot[x] \notin free'
    BY <1>2, <1>4, <1>5, <2>2 DEF SlotTyped, ScratchOf
  <2> QED BY <1>4, <1>5, <1>18, <1>20, <2>1, <2>3, <2>4 DEF SlotTyped
<1> QED BY <1>4, <1>20, <1>21 DEF SlotInv, Verifying

LEMMA NextSlots == SlotInv /\ [GatedNext]_gated_vars => SlotInv'
<1> SUFFICES ASSUME SlotInv, [GatedNext]_gated_vars PROVE SlotInv'
  OBVIOUS
<1>1. CASE \E x \in Owners : Alloc(x)
  BY <1>1, AllocSlots
<1>2. CASE \E x \in Owners : Free(x)
  BY <1>2, FreeSlots
<1>3. CASE \E x, z \in Owners : Copy(x, z)
  BY <1>3, CopySlots
<1>4. CASE Forward
  BY <1>4, ForwardSlots
<1>5. CASE ForwardVerify
  BY <1>5, VerifySlots
<1>6. CASE CommitVerify
  BY <1>6, CommitSlots
<1>7. CASE UNCHANGED gated_vars
  <2>1. Running' = Running
    BY <1>7 DEF Running, gated_vars
  <2>2. /\ conv' = conv /\ temporal' = temporal /\ window' = window /\ free' = free
        /\ slot' = slot /\ ids' = ids /\ verify' = verify
    BY <1>7 DEF gated_vars
  <2>3. SlotTyped'
    BY <2>1, <2>2 DEF SlotInv, SlotTyped
  <2>4. SlotsHold'
    BY <2>1, <2>2 DEF SlotInv, SlotsHold, SlotHolds
  <2>5. Verifying'
    <3>1. CASE verify = <<>>
      BY <2>2, <3>1 DEF Verifying
    <3>2. ASSUME NEW b, NEW n, NEW scratch, NEW captured, VerifyOf(b, n, scratch, captured)
          PROVE  VerifyOf(b, n, scratch, captured)'
      <4>1. BatchOf(b, n, {Width})' /\ ScratchOf(b, n, scratch)'
        BY <2>1, <2>2, <3>2 DEF VerifyOf, BatchOf, ScratchOf
      <4>2. CapturedOf(b, n, captured)'
        <5>1. \A i, m : StateAfter(b, i, m)' = StateAfter(b, i, m)
          BY <2>2 DEF StateAfter
        <5> QED BY <3>2, <5>1 DEF VerifyOf, CapturedOf
      <4>3. WindowsOf(b, n, scratch)'
        BY <2>2, <3>2 DEF VerifyOf, WindowsOf
      <4> QED BY <2>2, <3>2, <4>1, <4>2, <4>3 DEF VerifyOf
    <3> QED BY <3>1, <3>2 DEF SlotInv, Verifying
  <2> QED BY <2>3, <2>4, <2>5 DEF SlotInv
<1> QED BY <1>1, <1>2, <1>3, <1>4, <1>5, <1>6, <1>7 DEF GatedNext

(* Whatever the sizes: the slot of a running sequence holds the convolution  *)
(* window and the recurrent state of exactly the tokens it has been run on,  *)
(* whichever batches it was in and whatever a verify run had accepted.       *)
THEOREM SlotsHoldPrefixes == GatedSpec => []SlotsArePrefixes
<1>1. SlotInv => SlotsArePrefixes
  BY DEF SlotInv, SlotsHold, SlotHolds, SlotsArePrefixes, ConvState, Absorbed, Pad
<1> QED BY <1>1, InitSlots, NextSlots, PTL DEF GatedSpec
=============================================================================
