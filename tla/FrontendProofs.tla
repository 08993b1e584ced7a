---------------------------- MODULE FrontendProofs ----------------------------
(***************************************************************************)
(* The API process and the workers, for any number of requests, workers    *)
(* and tokens: the listener never meets a uid for which it has one of the  *)
(* two maps of replies and not the other, no wakeup and no reply is lost,  *)
(* what is over is forgotten, and with one worker for both jobs a prompt   *)
(* is never overtaken by the answer to it.                                 *)
(***************************************************************************)
EXTENDS Frontend, FiniteSetTheorems, FunctionTheorems, SequenceTheorems, TLAPS

-----------------------------------------------------------------------------
(* The replies for a request in a pipe of messages.                         *)

In(items, u) == {items[i].n : i \in RepliesTo(u, items)}

Rising(items, u) == \A i, j \in RepliesTo(u, items) : i < j => items[i].n < items[j].n

(* A message more at the end of a pipe.                                      *)
LEMMA NumbersPush ==
  ASSUME NEW V, NEW P \in Seq(V), NEW m \in V, NEW u
  PROVE  Numbers(Append(P, m), u) = Numbers(P, u) \cup In(m, u)
<1> DEFINE Q == Append(P, m)
<1>1. /\ Len(P) \in Nat /\ Len(Q) = Len(P) + 1
      /\ \A i \in 1..Len(P) : Q[i] = P[i]
      /\ Q[Len(P) + 1] = m
  BY AppendProperties, LenProperties
<1> HIDE DEF Q
<1>2. ASSUME NEW x \in Numbers(Q, u) PROVE x \in Numbers(P, u) \cup In(m, u)
  <2>1. PICK k \in 1..Len(Q) : \E i \in RepliesTo(u, Q[k]) : x = Q[k][i].n
    BY <1>2 DEF Numbers
  <2>2. CASE k = Len(P) + 1
    BY <1>1, <2>1, <2>2 DEF In
  <2>3. CASE k \in 1..Len(P)
    BY <1>1, <2>1, <2>3 DEF Numbers
  <2> QED BY <1>1, <2>1, <2>2, <2>3
<1>3. ASSUME NEW x \in Numbers(P, u) PROVE x \in Numbers(Q, u)
  <2>1. PICK k \in 1..Len(P) : \E i \in RepliesTo(u, P[k]) : x = P[k][i].n
    BY <1>3 DEF Numbers
  <2>2. k \in 1..Len(Q) /\ Q[k] = P[k]
    BY <1>1
  <2> QED BY <2>1, <2>2 DEF Numbers
<1>4. ASSUME NEW x \in In(m, u) PROVE x \in Numbers(Q, u)
  <2>1. Len(Q) \in 1..Len(Q) /\ Q[Len(Q)] = m
    BY <1>1
  <2> QED BY <1>4, <2>1 DEF Numbers, In
<1> QED BY <1>2, <1>3, <1>4 DEF Q

(* The first message of a pipe, and the others.                              *)
LEMMA NumbersPop ==
  ASSUME NEW V, NEW P \in Seq(V), P # <<>>, NEW u
  PROVE  Numbers(P, u) = In(Head(P), u) \cup Numbers(Tail(P), u)
<1> DEFINE Q == Tail(P)
<1>1. /\ Len(P) \in Nat /\ Len(P) >= 1 /\ Len(Q) = Len(P) - 1
      /\ \A i \in 1..Len(Q) : Q[i] = P[i + 1]
      /\ Head(P) = P[1]
  BY HeadTailProperties, LenProperties, EmptySeq
<1> HIDE DEF Q
<1>2. ASSUME NEW x \in Numbers(P, u) PROVE x \in In(P[1], u) \cup Numbers(Q, u)
  <2>1. PICK k \in 1..Len(P) : \E i \in RepliesTo(u, P[k]) : x = P[k][i].n
    BY <1>2 DEF Numbers
  <2>2. CASE k = 1
    BY <2>1, <2>2 DEF In
  <2>3. CASE k # 1
    <3>1. k - 1 \in 1..Len(Q) /\ Q[k - 1] = P[k]
      BY <1>1, <2>1, <2>3
    <3> QED BY <2>1, <3>1 DEF Numbers
  <2> QED BY <2>2, <2>3
<1>3. ASSUME NEW x \in Numbers(Q, u) PROVE x \in Numbers(P, u)
  <2>1. PICK k \in 1..Len(Q) : \E i \in RepliesTo(u, Q[k]) : x = Q[k][i].n
    BY <1>3 DEF Numbers
  <2>2. k + 1 \in 1..Len(P) /\ Q[k] = P[k + 1]
    BY <1>1
  <2> QED BY <2>1, <2>2 DEF Numbers
<1>4. ASSUME NEW x \in In(P[1], u) PROVE x \in Numbers(P, u)
  <2>1. 1 \in 1..Len(P)
    BY <1>1
  <2> QED BY <1>4, <2>1 DEF Numbers, In
<1> QED BY <1>1, <1>2, <1>3, <1>4 DEF Q

LEMMA OrderPush ==
  ASSUME NEW V, NEW P \in Seq(V), NEW m \in V, NEW u,
         InOrder(P, u), Rising(m, u), \A x \in Numbers(P, u), y \in In(m, u) : x < y
  PROVE  InOrder(Append(P, m), u)
<1> DEFINE Q == Append(P, m)
<1>1. /\ Len(P) \in Nat /\ Len(Q) = Len(P) + 1
      /\ \A i \in 1..Len(P) : Q[i] = P[i]
      /\ Q[Len(P) + 1] = m
  BY AppendProperties, LenProperties
<1> HIDE DEF Q
<1>2. ASSUME NEW a \in 1..Len(Q), NEW b \in 1..Len(Q),
             NEW i \in RepliesTo(u, Q[a]), NEW j \in RepliesTo(u, Q[b]),
             a < b \/ (a = b /\ i < j)
      PROVE  Q[a][i].n < Q[b][j].n
  <2>1. CASE b \in 1..Len(P)
    <3>1. a \in 1..Len(P) /\ Q[a] = P[a] /\ Q[b] = P[b]
      BY <1>1, <1>2, <2>1
    <3> QED BY <1>2, <2>1, <3>1 DEF InOrder
  <2>2. CASE b = Len(P) + 1 /\ a = b
    BY <1>1, <1>2, <2>2 DEF Rising
  <2>3. CASE b = Len(P) + 1 /\ a # b
    <3>1. a \in 1..Len(P) /\ Q[a] = P[a] /\ Q[b] = m
      BY <1>1, <1>2, <2>3
    <3>2. P[a][i].n \in Numbers(P, u) /\ m[j].n \in In(m, u)
      BY <3>1 DEF Numbers, In
    <3> QED BY <3>1, <3>2
  <2> QED BY <1>1, <2>1, <2>2, <2>3
<1> QED BY <1>2 DEF InOrder, Q

LEMMA OrderPop ==
  ASSUME NEW V, NEW P \in Seq(V), P # <<>>, NEW u, InOrder(P, u)
  PROVE  /\ Rising(Head(P), u) /\ InOrder(Tail(P), u)
         /\ \A x \in In(Head(P), u), y \in Numbers(Tail(P), u) : x < y
<1> DEFINE Q == Tail(P)
<1>1. /\ Len(P) \in Nat /\ Len(P) >= 1 /\ Len(Q) = Len(P) - 1
      /\ \A i \in 1..Len(Q) : Q[i] = P[i + 1]
      /\ Head(P) = P[1]
  BY HeadTailProperties, LenProperties, EmptySeq
<1> HIDE DEF Q
<1>2. Rising(P[1], u)
  <2>1. 1 \in 1..Len(P)
    BY <1>1
  <2> QED BY <2>1 DEF InOrder, Rising
<1>3. ASSUME NEW a \in 1..Len(Q), NEW b \in 1..Len(Q),
             NEW i \in RepliesTo(u, Q[a]), NEW j \in RepliesTo(u, Q[b]),
             a < b \/ (a = b /\ i < j)
      PROVE  Q[a][i].n < Q[b][j].n
  <2>1. a + 1 \in 1..Len(P) /\ b + 1 \in 1..Len(P) /\ Q[a] = P[a + 1] /\ Q[b] = P[b + 1]
    BY <1>1
  <2>2. a + 1 < b + 1 \/ (a + 1 = b + 1 /\ i < j)
    BY <1>3
  <2> QED BY <2>1, <2>2 DEF InOrder
<1>4. ASSUME NEW x \in In(P[1], u), NEW y \in Numbers(Q, u) PROVE x < y
  <2>1. PICK i \in RepliesTo(u, P[1]) : x = P[1][i].n
    BY DEF In
  <2>2. PICK k \in 1..Len(Q) : \E j \in RepliesTo(u, Q[k]) : y = Q[k][j].n
    BY <1>4 DEF Numbers
  <2>3. PICK j \in RepliesTo(u, Q[k]) : y = Q[k][j].n
    BY <2>2
  <2>4. 1 \in 1..Len(P) /\ k + 1 \in 1..Len(P) /\ 1 < k + 1 /\ Q[k] = P[k + 1]
    BY <1>1
  <2> QED BY <2>1, <2>3, <2>4 DEF InOrder
<1> QED BY <1>1, <1>2, <1>3, <1>4 DEF InOrder, Q

(* The natural numbers are well founded. *)
LEMMA LeastNumber ==
  ASSUME NEW N, N \subseteq Nat, N # {}
  PROVE  \E k \in N : \A m \in N : k <= m
<1> DEFINE Less == OpToRel(<, Nat)
<1>1. \A m, k \in Nat : m < k => <<m, k>> \in Less
  BY Zenon DEF OpToRel
<1>2. IsWellFoundedOn(Less, Nat)
  BY NatLessThanWellFounded, Zenon
<1> HIDE DEF Less
<1>3. PICK k \in N : \A m \in N : ~ (<<m, k>> \in Less)
  BY <1>2, WFMin
<1>4. \A m \in N : ~ (m < k)
  BY <1>1, <1>3
<1> QED BY <1>3, <1>4

(* Of numbers that fill an interval, and of which some are all before the    *)
(* others, these are its head.                                               *)
Splits(X, Y, a, b) ==
  /\ a \in Nat /\ b \in Nat /\ a <= b + 1
  /\ X \cup Y = a..b
  /\ \A x \in X, y \in Y : x < y

LEMMA HeadOfInterval ==
  ASSUME NEW X, NEW Y, NEW a, NEW b, Splits(X, Y, a, b)
  PROVE  \E m \in a..b + 1 : X = a..m - 1 /\ Y = m..b
<1>0. /\ a \in Nat /\ b \in Nat /\ a <= b + 1
      /\ X \cup Y = a..b
      /\ \A x \in X, y \in Y : x < y
  BY DEF Splits
<1> DEFINE Z == Y \cup {b + 1}
<1>1. Z \subseteq Nat /\ Z # {}
  BY <1>0 DEF Z
<1>2. PICK m \in Z : \A z \in Z : m <= z
  <2> HIDE DEF Z
  <2> QED BY <1>1, LeastNumber
<1>3. m \in a..b + 1
  BY <1>0, <1>2
<1>4. ASSUME NEW x \in X PROVE x \in a..m - 1
  BY <1>0, <1>2
<1>5. ASSUME NEW x \in a..m - 1 PROVE x \in X
  <2>1. x \in a..b /\ x \notin Y
    BY <1>0, <1>2, <1>3
  <2> QED BY <1>0, <2>1
<1>6. ASSUME NEW y \in Y PROVE y \in m..b
  BY <1>0, <1>2
<1>7. ASSUME NEW y \in m..b PROVE y \in Y
  <2>1. y \in a..b /\ m \in Y
    BY <1>0, <1>2, <1>3
  <2>2. y \notin X
    BY <1>0, <2>1
  <2> QED BY <1>0, <2>1, <2>2
<1> QED BY <1>3, <1>4, <1>5, <1>6, <1>7

(* A function that rises along a set of positions counts them.               *)
Counts(S, f, a, m) ==
  /\ S \subseteq Nat /\ a \in Nat /\ m \in Nat /\ a <= m
  /\ f \in [S -> a..m - 1]
  /\ \A i, j \in S : i < j => f[i] < f[j]
  /\ \A x \in a..m - 1 : \E i \in S : f[i] = x

LEMMA RisingCounts ==
  ASSUME NEW S, NEW f, NEW a, NEW m, Counts(S, f, a, m)
  PROVE  IsFiniteSet(S) /\ Cardinality(S) = m - a
<1>0. /\ S \subseteq Nat /\ a \in Nat /\ m \in Nat /\ a <= m
      /\ f \in [S -> a..m - 1]
      /\ \A i, j \in S : i < j => f[i] < f[j]
      /\ \A x \in a..m - 1 : \E i \in S : f[i] = x
  BY DEF Counts
<1>1. f \in Bijection(S, a..m - 1)
  <2>1. \A i, j \in S : f[i] = f[j] => i = j
    <3> SUFFICES ASSUME NEW i \in S, NEW j \in S, f[i] = f[j], i # j PROVE FALSE
      OBVIOUS
    <3>1. i < j \/ j < i
      BY <1>0
    <3> QED BY <1>0, <3>1
  <2>2. f \in [S -> a..m - 1] /\ \A x \in a..m - 1 : \E i \in S : f[i] = x
    BY <1>0
  <2> QED BY <2>1, <2>2 DEF Bijection, Injection, Surjection, IsInjective
<1>2. ExistsBijection(a..m - 1, S)
  <2>1. ExistsBijection(S, a..m - 1)
    BY <1>1 DEF ExistsBijection
  <2> QED BY <2>1, Fun_ExistsBijSymmetric
<1>3. IsFiniteSet(a..m - 1) /\ Cardinality(a..m - 1) = m - a
  <2>1. a \in Int /\ m - 1 \in Int /\ (IF a > m - 1 THEN 0 ELSE m - 1 - a + 1) = m - a
    BY <1>0
  <2> QED BY <2>1, FS_Interval
<1> QED BY <1>2, <1>3, FS_Bijection

(* The replies for u of a message whose numbers fill an interval, in order.  *)
LEMMA AtCounts ==
  ASSUME NEW items, NEW u, Rising(items, u), NEW a \in Nat, NEW m \in Nat, a <= m,
         In(items, u) = a..m - 1
  PROVE  LET I == RepliesTo(u, items)
             t == At(items, I)
         IN /\ Cardinality(I) = m - a
            /\ I = {} <=> m = a
            /\ t = [k \in 1 .. m - a |-> t[k]]
            /\ \A k \in 1 .. m - a : (\E i \in I : t[k] = items[i]) /\ t[k].n = a + k - 1
<1> DEFINE I == RepliesTo(u, items)
           f == [i \in I |-> items[i].n]
           before(i) == {j \in I : j < i}
           t == At(items, I)
<1>1. I \subseteq Nat /\ \A i \in I : i \in Nat
  BY DEF RepliesTo
<1>2. \A i \in I : items[i].n \in a..m - 1
  BY DEF In
<1>3. \A x \in a..m - 1 : \E i \in I : items[i].n = x
  BY DEF In
<1>4. \A i, j \in I : i < j => items[i].n < items[j].n
  BY DEF Rising
<1> HIDE DEF I
<1>5. /\ f \in [I -> a..m - 1]
      /\ \A i, j \in I : i < j => f[i] < f[j]
      /\ \A x \in a..m - 1 : \E i \in I : f[i] = x
  BY <1>2, <1>3, <1>4
<1>6. Cardinality(I) = m - a
  <2> HIDE DEF f
  <2>1. Counts(I, f, a, m)
    BY <1>1, <1>5 DEF Counts
  <2> QED BY <2>1, RisingCounts, Zenon
<1>7. ASSUME NEW i \in I PROVE Cardinality(before(i)) = items[i].n - a
  <2> DEFINE B == before(i)
             g == [j \in B |-> items[j].n]
             c == items[i].n
  <2>0. c \in a..m - 1
    BY <1>2
  <2>1. c \in Nat /\ a <= c /\ c <= m - 1
    BY <2>0
  <2>9. B \subseteq Nat
    BY <1>1
  <2>2. \A j \in B : j \in I /\ items[j].n \in a..c - 1
    BY <1>2, <1>4
  <2>3. \A x \in a..c - 1 : \E j \in B : items[j].n = x
    <3> SUFFICES ASSUME NEW x \in a..c - 1 PROVE \E j \in B : items[j].n = x
      OBVIOUS
    <3>1. PICK j \in I : items[j].n = x
      BY <1>3, <2>1
    <3>2. ~ (i < j) /\ i # j
      BY <1>4, <2>1, <3>1
    <3>3. j < i
      BY <1>1, <3>2
    <3> QED BY <3>1, <3>3
  <2>4. \A j, k \in B : j < k => items[j].n < items[k].n
    BY <1>4, <2>2
  <2> HIDE DEF B, c
  <2>5. /\ g \in [B -> a..c - 1] /\ \A j, k \in B : j < k => g[j] < g[k]
        /\ \A x \in a..c - 1 : \E j \in B : g[j] = x
    BY <2>2, <2>3, <2>4
  <2> HIDE DEF g
  <2>7. Counts(B, g, a, c)
    BY <2>1, <2>5, <2>9 DEF Counts
  <2>6. Cardinality(B) = c - a
    BY <2>7, RisingCounts, Zenon
  <2> QED BY <2>6 DEF B, c
<1>8. t = [k \in 1 .. m - a |-> items[CHOOSE i \in I : Cardinality(before(i)) = k - 1]]
  BY <1>6 DEF At
<1> HIDE DEF before, t
<1>9. ASSUME NEW k \in 1 .. m - a
      PROVE  (\E i \in I : t[k] = items[i]) /\ t[k].n = a + k - 1
  <2> DEFINE i == CHOOSE i \in I : Cardinality(before(i)) = k - 1
  <2>1. a + k - 1 \in a..m - 1
    OBVIOUS
  <2>2. PICK j \in I : items[j].n = a + k - 1
    BY <1>3, <2>1
  <2>3. Cardinality(before(j)) = k - 1
    BY <1>7, <2>2
  <2>4. i \in I /\ Cardinality(before(i)) = k - 1
    BY <2>3
  <2> HIDE DEF i
  <2>5. items[i].n - a = k - 1 /\ items[i].n \in a..m - 1
    BY <1>2, <1>7, <2>4
  <2>6. items[i].n = a + k - 1
    BY <2>5
  <2>7. t[k] = items[i]
    BY <1>8 DEF i
  <2> QED BY <2>4, <2>6, <2>7
<1>10. t = [k \in 1 .. m - a |-> t[k]]
  BY <1>8
<1>11. I = {} <=> m = a
  <2>1. CASE m = a
    BY <1>2, <2>1
  <2>2. CASE m # a
    <3>1. a \in a..m - 1
      BY <2>2
    <3> QED BY <1>3, <2>2, <3>1
  <2> QED BY <2>1, <2>2
<1> QED BY <1>6, <1>9, <1>10, <1>11 DEF I, t

-----------------------------------------------------------------------------
(* The ranks of the elements of a finite set of numbers are 0, 1, 2 ...       *)

Rank(S, i) == Cardinality({j \in S : j < i})
Upto(S, i) == {j \in S : j <= i}

LEMMA RankBounds ==
  ASSUME NEW S, S \subseteq Nat, IsFiniteSet(S), NEW i \in S
  PROVE  /\ Rank(S, i) \in Nat /\ Cardinality(S) \in Nat
         /\ Cardinality(Upto(S, i)) = Rank(S, i) + 1
         /\ Rank(S, i) + 1 <= Cardinality(S)
<1> DEFINE B == {j \in S : j < i}
<1>1. B \in SUBSET S /\ Upto(S, i) \in SUBSET S
  BY DEF Upto
<1>2. i \notin B /\ Upto(S, i) = B \cup {i}
  <2>1. i \in Nat /\ \A x \in S : x \in Nat
    OBVIOUS
  <2>4. \A x \in S : x <= i <=> (x < i \/ x = i)
    BY <2>1
  <2>2. \A x : x \in Upto(S, i) <=> x \in B \cup {i}
    BY <2>4, Zenon DEF Upto
  <2>3. i \notin B
    BY <2>1
  <2> QED BY <2>2, <2>3
<1> HIDE DEF B
<1>3. IsFiniteSet(B) /\ Cardinality(B) \in Nat /\ Cardinality(S) \in Nat
  BY <1>1, FS_Subset, FS_CardinalityType
<1>4. Cardinality(B \cup {i}) = IF i \in B THEN Cardinality(B) ELSE Cardinality(B) + 1
  BY <1>3, FS_AddElement
<1>5. Cardinality(Upto(S, i)) <= Cardinality(S)
  BY <1>1, FS_Subset
<1> QED BY <1>2, <1>3, <1>4, <1>5 DEF B, Rank

LEMMA RankRises ==
  ASSUME NEW S, S \subseteq Nat, IsFiniteSet(S), NEW i \in S, NEW j \in S, i < j
  PROVE  Rank(S, i) < Rank(S, j)
<1> DEFINE B == {k \in S : k < j}
<1>1. B \in SUBSET S /\ Upto(S, i) \in SUBSET B
  <2>1. i \in Nat /\ j \in Nat
    OBVIOUS
  <2>2. ASSUME NEW k \in Upto(S, i) PROVE k \in B
    <3>1. k \in S /\ k \in Nat /\ k <= i
      BY DEF Upto
    <3> QED BY <2>1, <3>1
  <2> QED BY <2>2
<1> HIDE DEF B
<1>2. IsFiniteSet(B)
  BY <1>1, FS_Subset
<1>3. Cardinality(Upto(S, i)) <= Cardinality(B)
  BY <1>1, <1>2, FS_Subset
<1>4. Cardinality(B) = Rank(S, j)
  BY DEF B, Rank
<1>5. Cardinality(Upto(S, i)) = Rank(S, i) + 1 /\ Rank(S, i) \in Nat /\ Rank(S, j) \in Nat
  BY RankBounds
<1> QED BY <1>3, <1>4, <1>5

LEMMA Ranks ==
  ASSUME NEW S, S \subseteq Nat, IsFiniteSet(S)
  PROVE  \A k \in 1..Cardinality(S) : \E i \in S : Rank(S, i) = k - 1
<1> DEFINE n == Cardinality(S)
           f == [i \in S |-> Rank(S, i)]
<1>1. n \in Nat
  BY FS_CardinalityType
<1>2. ASSUME NEW i \in S PROVE Rank(S, i) \in 0..n - 1
  <2>1. Rank(S, i) \in Nat /\ Rank(S, i) + 1 <= Cardinality(S)
    BY RankBounds
  <2> QED BY <1>1, <2>1
<1>3. \A i, j \in S : Rank(S, i) = Rank(S, j) => i = j
  <2> SUFFICES ASSUME NEW i \in S, NEW j \in S, Rank(S, i) = Rank(S, j), i # j PROVE FALSE
    OBVIOUS
  <2>1. CASE i < j
    <3>1. Rank(S, i) < Rank(S, j)
      BY <2>1, RankRises
    <3> QED BY <1>2, <3>1
  <2>2. CASE j < i
    <3>1. Rank(S, j) < Rank(S, i)
      BY <2>2, RankRises
    <3> QED BY <1>2, <3>1
  <2>3. i \in Nat /\ j \in Nat
    OBVIOUS
  <2> QED BY <2>1, <2>2, <2>3
<1>4. f \in Injection(S, 0..n - 1)
  <2>1. f \in [S -> 0..n - 1] /\ \A i, j \in S : f[i] = f[j] => i = j
    BY <1>2, <1>3
  <2> HIDE DEF f, n
  <2> QED BY <2>1 DEF Injection, IsInjective
<1>5. IsFiniteSet(0..n - 1) /\ Cardinality(0..n - 1) = n
  <2>1. 0 \in Int /\ n - 1 \in Int /\ (IF 0 > n - 1 THEN 0 ELSE n - 1 - 0 + 1) = n
    BY <1>1
  <2> HIDE DEF n
  <2> QED BY <2>1, FS_Interval
<1>6. f \in Surjection(S, 0..n - 1)
  <2> HIDE DEF f
  <2> QED BY <1>4, <1>5, FS_Injection
<1>7. \A x \in 0..n - 1 : \E i \in S : f[i] = x
  <2> HIDE DEF f, n
  <2> QED BY <1>6 DEF Surjection
<1> QED BY <1>1, <1>7

(* The positions of the replies for a request in a message.                  *)
LEMMA PositionsFinite ==
  ASSUME NEW V, NEW items \in Seq(V), NEW u
  PROVE  /\ RepliesTo(u, items) \subseteq 1..Len(items)
         /\ RepliesTo(u, items) \subseteq Nat
         /\ IsFiniteSet(RepliesTo(u, items))
         /\ Cardinality(RepliesTo(u, items)) \in Nat
         /\ Cardinality(RepliesTo(u, items)) = 0 <=> RepliesTo(u, items) = {}
<1>1. Len(items) \in Nat
  BY LenProperties
<1>2. RepliesTo(u, items) \in SUBSET (1..Len(items))
  BY DEF RepliesTo
<1>3. IsFiniteSet(1..Len(items))
  BY <1>1, FS_Interval
<1>4. IsFiniteSet(RepliesTo(u, items))
  BY <1>2, <1>3, FS_Subset
<1> QED BY <1>1, <1>2, <1>4, FS_CardinalityType, FS_EmptySet

(* Taking items at positions gives as many as there are positions.           *)
LEMMA AtTyped ==
  ASSUME NEW V, NEW items \in Seq(V), NEW I, I \subseteq 1..Len(items), IsFiniteSet(I)
  PROVE  /\ At(items, I) \in Seq({items[i] : i \in I})
         /\ Len(At(items, I)) = Cardinality(I)
<1> DEFINE n == Cardinality(I)
           e(k) == items[CHOOSE i \in I : Cardinality({j \in I : j < i}) = k - 1]
<1>1. n \in Nat /\ I \subseteq Nat
  BY FS_CardinalityType, LenProperties
<1>2. ASSUME NEW k \in 1..n PROVE e(k) \in {items[i] : i \in I}
  <2>1. PICK j \in I : Rank(I, j) = k - 1
    BY <1>1, Ranks
  <2>2. (CHOOSE i \in I : Rank(I, i) = k - 1) \in I
    BY <2>1
  <2> QED BY <2>2 DEF Rank
<1> HIDE DEF e
<1>3. At(items, I) = [k \in 1..n |-> e(k)]
  BY DEF At, e
<1> HIDE DEF n
<1> QED BY <1>1, <1>2, <1>3 DEF n

-----------------------------------------------------------------------------
(* Types.                                                                    *)

(* What a message carries: an item is a prompt, or a reply that is marked as *)
(* finished when it is the last one asked for.                               *)
Items ==
  {i \in [uid : Uids, n : Nat, finished : BOOLEAN] : i.finished <=> i.n = ask[i.uid].length}

ItemsOf(u) == {i \in Items : i.uid = u}

Stages == {"none", "prompt", "wait", "yield", "abort", "over"}

TypedMaps ==
  /\ stage \in [Uids -> Stages]
  /\ uid_counter \in Nat
  /\ DOMAIN ack_map \subseteq Uids /\ \A u \in DOMAIN ack_map : ack_map[u] \in Seq(ItemsOf(u))
  /\ \A u \in DOMAIN event_map : event_map[u] \in BOOLEAN
  /\ \A u \in DOMAIN prompt_event : prompt_event[u] \in BOOLEAN
  /\ prompt_map \subseteq Uids

TypedReplies ==
  /\ ask \in [Uids -> Asks]
  /\ DOMAIN got = Uids /\ DOMAIN pending = Uids
  /\ \A u \in Uids : got[u] \in Seq(ItemsOf(u)) /\ pending[u] \in Seq(ItemsOf(u))
  /\ told \in [Uids -> Nat]
  /\ \A u \in Uids : told[u] <= ask[u].length

TypedPipes ==
  /\ to_frontend \in [Workers -> Seq(Seq(Items))]
  /\ to_detok \in Seq(Seq(Items))
  /\ to_worker \in [Workers -> Seq(Uids)] /\ to_backend \in [Workers -> Seq(Uids)]
  /\ sends \in [Workers -> Seq({"frontend", "backend"} \X Uids)]
  /\ serving \subseteq Uids
  /\ shared \in BOOLEAN

(* The maps have entries for the requests that are there, and for no other.  *)
Keys ==
  /\ \A u \in Uids : stage[u] = "none" <=> u >= uid_counter
  /\ DOMAIN ack_map = DOMAIN event_map
  /\ \A u \in Uids : stage[u] \in {"prompt", "wait", "yield"} => u \in DOMAIN ack_map
  /\ \A u \in Uids : stage[u] # "none" /\ ~ Streams(u) => u \in DOMAIN ack_map
  /\ \A u \in Uids : stage[u] \in {"none", "over"} => u \notin response_map
  /\ \A u \in Uids : stage[u] = "none" \/ (stage[u] = "over" /\ Streams(u)) =>
       u \notin DOMAIN ack_map /\ u \notin prompt_map /\ u \notin DOMAIN prompt_event
  /\ \A u \in Uids : stage[u] = "prompt" => u \in DOMAIN prompt_event /\ Rendered(u)
  /\ \A u \in Uids : stage[u] = "abort" => Streams(u)

Types == TypedMaps /\ TypedReplies /\ TypedPipes

LEMMA ItemFacts ==
  ASSUME NEW u, NEW i \in ItemsOf(u)
  PROVE  i \in Items /\ i.uid = u /\ i.n \in Nat /\ (i.finished <=> i.n = ask[u].length)
BY DEF ItemsOf, Items

LEMMA ConcatParts ==
  ASSUME NEW S, NEW s1 \in Seq(S), NEW s2 \in Seq(S)
  PROVE  /\ s1 \o s2 \in Seq(S) /\ Len(s1) \in Nat /\ Len(s2) \in Nat
         /\ Len(s1 \o s2) = Len(s1) + Len(s2)
         /\ \A i \in 1..Len(s1) : (s1 \o s2)[i] = s1[i]
         /\ \A i \in 1..Len(s2) : (s1 \o s2)[Len(s1) + i] = s2[i]
<1> DEFINE s == s1 \o s2
           n1 == Len(s1)
           n2 == Len(s2)
<1>1. /\ s \in Seq(S) /\ Len(s) = n1 + n2
      /\ \A i \in 1 .. n1 + n2 : s[i] = IF i <= n1 THEN s1[i] ELSE s2[i - n1]
  BY ConcatProperties
<1>2. n1 \in Nat /\ n2 \in Nat
  BY LenProperties
<1> HIDE DEF s, n1, n2
<1>3. ASSUME NEW i \in 1..n1 PROVE s[i] = s1[i]
  BY <1>1, <1>2
<1>4. ASSUME NEW i \in 1..n2 PROVE s[n1 + i] = s2[i]
  <2> DEFINE k == n1 + i
  <2>1. k \in 1..n1 + n2 /\ ~ (k <= n1) /\ k - n1 = i
    BY <1>2
  <2> HIDE DEF k
  <2>2. s[k] = s2[k - n1]
    BY <1>1, <2>1
  <2>3. s[k] = s2[i]
    BY <2>1, <2>2
  <2> QED BY <2>3 DEF k
<1> QED BY <1>1, <1>2, <1>3, <1>4 DEF s, n1, n2

LEMMA SeqMonotone ==
  ASSUME NEW S, NEW T, S \subseteq T, NEW s \in Seq(S) PROVE s \in Seq(T)
OBVIOUS

(* What leaves the maps and the coroutines alone.                            *)
LEMMA BackendLeavesApi ==
  ASSUME (\E w \in Workers : Worker(w)) \/ Scheduler \/ UNCHANGED vars
  PROVE  UNCHANGED <<shared, coroutines, maps>>
<1>1. ASSUME NEW w \in Workers, Worker(w) PROVE UNCHANGED <<shared, coroutines, maps>>
  BY <1>1 DEF Worker, Tokenize, SendOn, Detokenize
<1>2. CASE Scheduler
  BY <1>2 DEF Scheduler, Receive, Reply
<1>3. CASE UNCHANGED vars
  BY <1>3 DEF vars
<1> QED BY <1>1, <1>2, <1>3

(* The coroutines leave the other processes alone.                           *)
Api(u) == Coroutine(u) \/ PromptTimesOut(u) \/ Leave(u)

LEMMA ApiLeavesBackend ==
  ASSUME NEW u \in Uids, Api(u)
  PROVE  UNCHANGED <<shared, uid_counter, ask, pipes, backend>>
BY DEF Api, Coroutine, PromptArrives, PromptTimesOut, WakeUp, Consume, Leave, AbortUser

LEMMA Constants ==
  ASSUME [Next]_vars
  PROVE  UNCHANGED <<shared, ask>> /\ Items' = Items /\ \A u : ItemsOf(u)' = ItemsOf(u)
<1>1. UNCHANGED <<shared, ask>>
  <2>1. ASSUME NEW u \in Uids, Request(u) PROVE UNCHANGED <<shared, ask>>
    BY <2>1 DEF Request
  <2>2. ASSUME NEW u \in Uids, Api(u) PROVE UNCHANGED <<shared, ask>>
    BY <2>2, ApiLeavesBackend
  <2>3. CASE Listen
    BY <2>3 DEF Listen, coroutines
  <2>4. CASE (\E w \in Workers : Worker(w)) \/ Scheduler \/ UNCHANGED vars
    BY <2>4, BackendLeavesApi DEF coroutines
  <2> QED BY <2>1, <2>2, <2>3, <2>4 DEF Next, Api
<1>2. Items' = Items
  BY <1>1 DEF Items
<1> QED BY <1>1, <1>2 DEF ItemsOf

(* What the listener files under u.                                          *)
LEMMA Filed ==
  ASSUME TypedPipes, NEW w \in Workers, to_frontend[w] # <<>>, NEW u
  PROVE  LET items == Head(to_frontend[w])
             t == At(items, RepliesTo(u, items))
         IN /\ items \in Seq(Items)
            /\ t \in Seq(ItemsOf(u))
            /\ Len(t) = Cardinality(RepliesTo(u, items))
            /\ t = <<>> <=> RepliesTo(u, items) = {}
<1> DEFINE items == Head(to_frontend[w])
           I == RepliesTo(u, items)
           t == At(items, I)
<1>1. items \in Seq(Items)
  <2>1. to_frontend[w] \in Seq(Seq(Items))
    BY DEF TypedPipes
  <2> QED BY <2>1, HeadTailProperties
<1>2. /\ I \subseteq 1..Len(items) /\ IsFiniteSet(I)
      /\ Cardinality(I) \in Nat /\ (Cardinality(I) = 0 <=> I = {})
  BY <1>1, PositionsFinite
<1>3. \A i \in I : items[i] \in ItemsOf(u)
  BY <1>1 DEF RepliesTo, ItemsOf
<1> HIDE DEF items, I
<1>4. t \in Seq({items[i] : i \in I}) /\ Len(t) = Cardinality(I)
  BY <1>1, <1>2, AtTyped
<1>5. t \in Seq(ItemsOf(u))
  <2>1. {items[i] : i \in I} \subseteq ItemsOf(u)
    BY <1>3
  <2> QED BY <1>4, <2>1, SeqMonotone
<1> HIDE DEF t
<1>6. t = <<>> <=> Len(t) = 0
  BY <1>5, EmptySeq
<1> QED BY <1>1, <1>2, <1>4, <1>5, <1>6 DEF items, I, t

LEMMA RequestMaps ==
  ASSUME Types, Keys, NEW u \in Uids, Request(u), UNCHANGED ask, \A v : ItemsOf(v)' = ItemsOf(v)
  PROVE  TypedMaps' /\ Keys'
<1>1. /\ DOMAIN ack_map' = DOMAIN ack_map \cup {u} /\ ack_map'[u] = <<>>
      /\ DOMAIN event_map' = DOMAIN event_map \cup {u} /\ event_map'[u] = FALSE
      /\ DOMAIN prompt_event' = DOMAIN prompt_event \cup {u} /\ prompt_event'[u] = FALSE
      /\ \A v \in DOMAIN ack_map \ {u} : ack_map'[v] = ack_map[v]
      /\ \A v \in DOMAIN event_map \ {u} : event_map'[v] = event_map[v]
      /\ \A v \in DOMAIN prompt_event \ {u} : prompt_event'[v] = prompt_event[v]
  <2>1. /\ ack_map' = Put(ack_map, u, <<>>) /\ event_map' = Put(event_map, u, FALSE)
        /\ prompt_event' = Put(prompt_event, u, FALSE)
    BY DEF Request
  <2>2. /\ DOMAIN ack_map' = DOMAIN ack_map \cup {u} /\ ack_map'[u] = <<>>
        /\ \A v \in DOMAIN ack_map \ {u} : ack_map'[v] = ack_map[v]
    BY <2>1 DEF Put
  <2>3. /\ DOMAIN event_map' = DOMAIN event_map \cup {u} /\ event_map'[u] = FALSE
        /\ \A v \in DOMAIN event_map \ {u} : event_map'[v] = event_map[v]
    BY <2>1 DEF Put
  <2>4. /\ DOMAIN prompt_event' = DOMAIN prompt_event \cup {u} /\ prompt_event'[u] = FALSE
        /\ \A v \in DOMAIN prompt_event \ {u} : prompt_event'[v] = prompt_event[v]
    BY <2>1 DEF Put
  <2> QED BY <2>2, <2>3, <2>4
<1>2. /\ u = uid_counter /\ uid_counter' = u + 1
      /\ prompt_map' = prompt_map /\ response_map' = response_map
      /\ stage' = [stage EXCEPT ![u] = IF Rendered(u) THEN "prompt" ELSE "wait"]
  BY DEF Request
<1>3. TypedMaps'
  <2>1. stage' \in [Uids -> Stages] /\ uid_counter' \in Nat /\ prompt_map' \subseteq Uids
    BY <1>2 DEF Types, TypedMaps, Stages
  <2>2. ASSUME NEW v \in DOMAIN ack_map' PROVE v \in Uids /\ ack_map'[v] \in Seq(ItemsOf(v))
    BY <1>1, EmptySeq DEF Types, TypedMaps
  <2>3. /\ \A v \in DOMAIN event_map' : event_map'[v] \in BOOLEAN
        /\ \A v \in DOMAIN prompt_event' : prompt_event'[v] \in BOOLEAN
    BY <1>1 DEF Types, TypedMaps
  <2> QED BY <2>1, <2>2, <2>3 DEF TypedMaps
<1>4. \A v \in Uids : stage'[v] = IF v # u THEN stage[v] ELSE IF Rendered(u) THEN "prompt" ELSE "wait"
  BY <1>2 DEF Types, TypedMaps
<1>5. \A v \in Uids : (Streams(v)' <=> Streams(v)) /\ (Rendered(v)' <=> Rendered(v))
  BY DEF Streams, Rendered
<1>6. \A v \in Uids : stage'[v] = "none" <=> v >= uid_counter'
  BY <1>2, <1>4 DEF Keys, Uids
<1> HIDE DEF Streams, Rendered
<1> QED BY <1>1, <1>2, <1>3, <1>4, <1>5, <1>6 DEF Keys

LEMMA ApiMaps ==
  ASSUME Types, Keys, NEW u \in Uids, Api(u), UNCHANGED <<ask, uid_counter>>,
         \A v : ItemsOf(v)' = ItemsOf(v)
  PROVE  TypedMaps' /\ Keys'
<1>1. \A v \in Uids : (Streams(v)' <=> Streams(v)) /\ (Rendered(v)' <=> Rendered(v))
  BY DEF Streams, Rendered
<1>2. /\ \A v \in Uids : stage[v] \in Stages
      /\ stage \in [Uids -> Stages]
  BY DEF Types, TypedMaps
<1>3. CASE PromptArrives(u) \/ PromptTimesOut(u)
  <2>1. /\ DOMAIN prompt_event' = DOMAIN prompt_event \ {u}
        /\ \A v \in DOMAIN prompt_event \ {u} : prompt_event'[v] = prompt_event[v]
    <3>1. prompt_event' = Pop(prompt_event, u)
      BY <1>3 DEF PromptArrives, PromptTimesOut
    <3> QED BY <3>1 DEF Pop
  <2>2. /\ stage[u] = "prompt" /\ stage' = [stage EXCEPT ![u] = "wait"]
        /\ ack_map' = ack_map /\ event_map' = event_map /\ prompt_map' \subseteq prompt_map
        /\ response_map' \subseteq response_map \cup {u}
    BY <1>3 DEF PromptArrives, PromptTimesOut
  <2>3. TypedMaps'
    BY <1>2, <2>1, <2>2 DEF Types, TypedMaps, Stages
  <2> QED BY <1>1, <1>2, <2>1, <2>2, <2>3 DEF Keys
<1>4. CASE WakeUp(u)
  <2>1. /\ stage[u] = "wait" /\ stage' = [stage EXCEPT ![u] = "yield"]
        /\ event_map' = [event_map EXCEPT ![u] = FALSE]
        /\ ack_map' = [ack_map EXCEPT ![u] = <<>>]
        /\ prompt_map' = prompt_map /\ prompt_event' = prompt_event
        /\ response_map' = response_map
    BY <1>4 DEF WakeUp
  <2>2. ASSUME NEW v \in DOMAIN ack_map' PROVE v \in Uids /\ ack_map'[v] \in Seq(ItemsOf(v))
    BY <2>1, EmptySeq DEF Types, TypedMaps
  <2>3. TypedMaps'
    BY <1>2, <2>1, <2>2 DEF Types, TypedMaps, Stages
  <2> QED BY <1>1, <1>2, <2>1, <2>3 DEF Keys
<1>5. CASE Consume(u)
  <2>1. ack_map' = ack_map /\ event_map' = event_map
    BY <1>5 DEF Consume, AcksAfterYields, EventAfterYields
  <2>2. PICK s \in Stages :
          /\ stage[u] = "yield" /\ stage' = [stage EXCEPT ![u] = s]
          /\ s \in {"abort", "over", "wait", "yield"}
          /\ (s = "abort" => Streams(u)) /\ (s = "over" => ~ Streams(u))
          /\ (s = "over" => response_map' = response_map \ {u})
    BY <1>5 DEF Consume, Stages
  <2>3. /\ response_map' \subseteq response_map
        /\ prompt_map' = prompt_map /\ prompt_event' = prompt_event
    BY <1>5 DEF Consume
  <2>4. TypedMaps'
    BY <1>2, <2>1, <2>2, <2>3 DEF Types, TypedMaps
  <2> QED BY <1>1, <1>2, <2>1, <2>2, <2>3, <2>4 DEF Keys
<1>6. CASE Leave(u)
  <2>1. /\ stage[u] \in {"wait", "yield"} /\ Streams(u) /\ stage' = [stage EXCEPT ![u] = "abort"]
        /\ ack_map' = ack_map /\ event_map' = event_map
        /\ prompt_map' = prompt_map /\ prompt_event' = prompt_event
        /\ response_map' \subseteq response_map
    BY <1>6 DEF Leave
  <2>2. TypedMaps'
    BY <1>2, <2>1 DEF Types, TypedMaps, Stages
  <2> QED BY <1>1, <1>2, <2>1, <2>2 DEF Keys
<1>7. CASE AbortUser(u)
  <2>1. /\ DOMAIN prompt_event' = DOMAIN prompt_event \ {u}
        /\ \A v \in DOMAIN prompt_event \ {u} : prompt_event'[v] = prompt_event[v]
        /\ DOMAIN ack_map' = DOMAIN ack_map \ {u} /\ DOMAIN event_map' = DOMAIN event_map \ {u}
        /\ \A v \in DOMAIN ack_map \ {u} : ack_map'[v] = ack_map[v]
        /\ \A v \in DOMAIN event_map \ {u} : event_map'[v] = event_map[v]
    <3>1. /\ prompt_event' = Pop(prompt_event, u)
          /\ ack_map' = Pop(ack_map, u) /\ event_map' = Pop(event_map, u)
      BY <1>7 DEF AbortUser, WithoutAcks
    <3>2. /\ DOMAIN prompt_event' = DOMAIN prompt_event \ {u}
          /\ \A v \in DOMAIN prompt_event \ {u} : prompt_event'[v] = prompt_event[v]
      BY <3>1 DEF Pop
    <3>3. /\ DOMAIN ack_map' = DOMAIN ack_map \ {u}
          /\ \A v \in DOMAIN ack_map \ {u} : ack_map'[v] = ack_map[v]
      BY <3>1 DEF Pop
    <3>4. /\ DOMAIN event_map' = DOMAIN event_map \ {u}
          /\ \A v \in DOMAIN event_map \ {u} : event_map'[v] = event_map[v]
      BY <3>1 DEF Pop
    <3> QED BY <3>2, <3>3, <3>4
  <2>2. /\ stage[u] = "abort" /\ stage' = [stage EXCEPT ![u] = "over"]
        /\ prompt_map' = prompt_map \ {u} /\ response_map' = response_map \ {u}
    BY <1>7 DEF AbortUser
  <2>3. TypedMaps'
    BY <1>2, <2>1, <2>2 DEF Types, TypedMaps, Stages
  <2> QED BY <1>1, <1>2, <2>1, <2>2, <2>3 DEF Keys
<1> QED BY <1>3, <1>4, <1>5, <1>6, <1>7 DEF Api, Coroutine

LEMMA ListenMaps ==
  ASSUME Types, Keys, Listen, \A v : ItemsOf(v)' = ItemsOf(v)
  PROVE  TypedMaps' /\ Keys'
<1>1. PICK w \in Workers :
        /\ to_frontend[w] # <<>>
        /\ ack_map' = [u \in DOMAIN ack_map |->
                        ack_map[u] \o At(Head(to_frontend[w]), RepliesTo(u, Head(to_frontend[w])))]
        /\ DOMAIN event_map' = DOMAIN event_map
        /\ \A u \in DOMAIN event_map' : event_map'[u] \in BOOLEAN
        /\ DOMAIN prompt_event' = DOMAIN prompt_event
        /\ \A u \in DOMAIN prompt_event' : prompt_event'[u] \in BOOLEAN
        /\ prompt_map' \subseteq prompt_map \cup {u \in Uids : u \in DOMAIN prompt_event}
        /\ UNCHANGED <<uid_counter, stage, ask, response_map>>
  BY DEF Listen, Awaited, coroutines
<1>2. ASSUME NEW u \in DOMAIN ack_map' PROVE u \in Uids /\ ack_map'[u] \in Seq(ItemsOf(u))
  <2> DEFINE t == At(Head(to_frontend[w]), RepliesTo(u, Head(to_frontend[w])))
  <2>1. t \in Seq(ItemsOf(u))
    BY <1>1, Filed DEF Types
  <2>2. u \in Uids /\ ack_map[u] \in Seq(ItemsOf(u)) /\ ack_map'[u] = ack_map[u] \o t
    BY <1>1, <1>2 DEF Types, TypedMaps
  <2> HIDE DEF t
  <2> QED BY <2>1, <2>2, ConcatProperties
<1>3. TypedMaps'
  BY <1>1, <1>2 DEF Types, TypedMaps
<1>4. \A v \in Uids : (Streams(v)' <=> Streams(v)) /\ (Rendered(v)' <=> Rendered(v))
  BY <1>1 DEF Streams, Rendered
<1>5. DOMAIN ack_map' = DOMAIN ack_map /\ DOMAIN event_map' = DOMAIN event_map
  BY <1>1
<1>6. \A u \in Uids : u \notin prompt_map /\ u \notin DOMAIN prompt_event => u \notin prompt_map'
  BY <1>1
<1>7. /\ \A u \in Uids : stage'[u] = stage[u]
      /\ UNCHANGED <<uid_counter, response_map>>
      /\ DOMAIN prompt_event' = DOMAIN prompt_event
  BY <1>1
<1> QED BY <1>3, <1>4, <1>5, <1>6, <1>7 DEF Keys

-----------------------------------------------------------------------------
(* A batch of the scheduler goes on in every answer where it has stopped.    *)

Continues(msg) ==
  /\ to_detok' = Append(to_detok, msg)
  /\ msg \in Seq(Items) /\ \A i \in 1..Len(msg) : msg[i].n > 0
  /\ told' \in [Uids -> Nat]
  /\ \A u \in Uids : /\ told[u] <= told'[u] /\ told'[u] <= ask[u].length
                     /\ In(msg, u) = told[u] + 1 .. told'[u] /\ Rising(msg, u)
                     /\ (u \notin serving => told'[u] = told[u])
  /\ serving' \subseteq serving
  /\ UNCHANGED <<shared, coroutines, maps, to_worker, to_backend, to_frontend, sends>>

(* The n-th token of an answer.                                              *)
Nth(u, n) == [uid |-> u, n |-> n, finished |-> n = ask[u].length]

LEMMA NthIsItem ==
  ASSUME NEW u \in Uids, NEW n \in Nat PROVE Nth(u, n) \in Items /\ Nth(u, n).uid = u /\ Nth(u, n).n = n
<1> DEFINE b == n = ask[u].length
<1>1. b \in BOOLEAN
  OBVIOUS
<1> HIDE DEF b
<1>2. Nth(u, n) = [uid |-> u, n |-> n, finished |-> b]
  BY DEF Nth, b
<1> DEFINE i == [uid |-> u, n |-> n, finished |-> b]
<1>3. /\ i.uid = u /\ i.n = n /\ i.finished = b
      /\ i \in [uid : Uids, n : Nat, finished : BOOLEAN]
  BY <1>1
<1> HIDE DEF i
<1>4. i.finished <=> i.n = ask[i.uid].length
  BY <1>3 DEF b
<1>5. i \in Items
  BY <1>3, <1>4 DEF Items
<1> QED BY <1>2, <1>3, <1>5 DEF i

LEMMA Replied == ASSUME Types, Reply PROVE \E msg : Continues(msg)
<1>1. PICK k \in 1..Burst * Cardinality(serving) : \E who \in [1..k -> serving] :
        LET nth(i) == Cardinality({j \in 1..i : who[j] = who[i]})
            number(i) == told[who[i]] + nth(i)
        IN /\ \A i \in 1..k : nth(i) <= Burst /\ number(i) <= ask[who[i]].length
           /\ to_detok' = Append(to_detok,
                             [i \in 1..k |-> [uid |-> who[i], n |-> number(i),
                                              finished |-> number(i) = ask[who[i]].length]])
           /\ told' = [u \in Uids |-> told[u] + Cardinality({i \in 1..k : who[i] = u})]
           /\ serving' = {u \in serving : told'[u] < ask[u].length}
  BY DEF Reply
<1>2. PICK who \in [1..k -> serving] :
        LET nth(i) == Cardinality({j \in 1..i : who[j] = who[i]})
            number(i) == told[who[i]] + nth(i)
        IN /\ \A i \in 1..k : nth(i) <= Burst /\ number(i) <= ask[who[i]].length
           /\ to_detok' = Append(to_detok,
                             [i \in 1..k |-> [uid |-> who[i], n |-> number(i),
                                              finished |-> number(i) = ask[who[i]].length]])
           /\ told' = [u \in Uids |-> told[u] + Cardinality({i \in 1..k : who[i] = u})]
           /\ serving' = {u \in serving : told'[u] < ask[u].length}
  BY <1>1
<1> DEFINE S(u) == {i \in 1..k : who[i] = u}
           number(i) == told[who[i]] + Cardinality({j \in 1..i : who[j] = who[i]})
           msg == [i \in 1..k |-> [uid |-> who[i], n |-> number(i),
                                   finished |-> number(i) = ask[who[i]].length]]
<1>3. /\ \A i \in 1..k : number(i) <= ask[who[i]].length
      /\ to_detok' = Append(to_detok, msg)
      /\ told' = [u \in Uids |-> told[u] + Cardinality(S(u))]
      /\ serving' \subseteq serving
  BY <1>2
<1>4. k \in Nat /\ \A i \in 1..k : who[i] \in serving /\ who[i] \in Uids /\ i \in Nat
  BY <1>1, <1>2 DEF Types, TypedPipes
<1>5. ASSUME NEW u \in Uids
      PROVE  S(u) \subseteq Nat /\ IsFiniteSet(S(u)) /\ Cardinality(S(u)) \in Nat
  <2>1. S(u) \in SUBSET (1..k) /\ IsFiniteSet(1..k)
    BY <1>4, FS_Interval
  <2>2. S(u) \subseteq Nat
    BY <2>1
  <2> HIDE DEF S
  <2> QED BY <2>1, <2>2, FS_Subset, FS_CardinalityType
<1>6. ASSUME NEW i \in 1..k
      PROVE  number(i) = told[who[i]] + Rank(S(who[i]), i) + 1
  <2> DEFINE T == S(who[i])
             W == {j \in 1..i : who[j] = who[i]}
  <2>1. W = Upto(T, i)
    <3>1. i \in Nat /\ i <= k
      BY <1>4
    <3>2. \A j : j \in 1..i <=> j \in 1..k /\ j <= i
      BY <1>4, <3>1
    <3> QED BY <3>2, Zenon DEF Upto
  <2>2. i \in T /\ T \subseteq Nat /\ IsFiniteSet(T)
    BY <1>4, <1>5
  <2> HIDE DEF T
  <2>3. Cardinality(Upto(T, i)) = Rank(T, i) + 1 /\ Rank(T, i) \in Nat
    BY <2>2, RankBounds
  <2>4. told[who[i]] \in Nat
    BY <1>4 DEF Types, TypedReplies
  <2> HIDE DEF W
  <2>5. told[who[i]] + Cardinality(W) = told[who[i]] + Rank(T, i) + 1
    BY <2>1, <2>3, <2>4
  <2> QED BY <2>5 DEF T, W
<1>7. ASSUME NEW u \in Uids, NEW i \in S(u)
      PROVE  /\ i \in 1..k /\ who[i] = u /\ number(i) = told[u] + Rank(S(u), i) + 1
             /\ Rank(S(u), i) \in 0 .. Cardinality(S(u)) - 1
  <2>1. i \in 1..k /\ who[i] = u
    OBVIOUS
  <2>2. number(i) = told[u] + Rank(S(u), i) + 1
    BY <1>6, <2>1
  <2> HIDE DEF S, number
  <2>3. /\ Rank(S(u), i) \in Nat /\ Cardinality(S(u)) \in Nat
        /\ Rank(S(u), i) + 1 <= Cardinality(S(u))
    BY <1>5, RankBounds
  <2> QED BY <2>1, <2>2, <2>3
<1>8. ASSUME NEW i \in 1..k PROVE number(i) \in Nat \ {0}
  <2>1. who[i] \in Uids /\ i \in S(who[i])
    BY <1>4
  <2>2. told[who[i]] \in Nat
    BY <2>1 DEF Types, TypedReplies
  <2> HIDE DEF S, number
  <2>3. number(i) = told[who[i]] + Rank(S(who[i]), i) + 1 /\ Rank(S(who[i]), i) \in Nat
    BY <1>7, <2>1
  <2> QED BY <2>2, <2>3
<1>9. /\ Len(msg) = k /\ DOMAIN msg = 1..k
      /\ \A i \in 1..k : /\ msg[i].uid = who[i] /\ msg[i].n = number(i)
                         /\ msg[i] = Nth(who[i], number(i))
  <2> HIDE DEF number
  <2>1. Len(msg) = k /\ DOMAIN msg = 1..k
    BY <1>4
  <2>2. ASSUME NEW i \in 1..k PROVE msg[i] = Nth(who[i], number(i))
    BY DEF Nth
  <2> HIDE DEF msg
  <2> QED BY <1>4, <1>8, <2>1, <2>2, NthIsItem
<1>10. msg \in Seq(Items) /\ \A i \in 1..Len(msg) : msg[i].n > 0
  <2> HIDE DEF number
  <2>0. msg = [i \in 1..k |-> msg[i]]
    OBVIOUS
  <2> HIDE DEF msg
  <2>1. ASSUME NEW i \in 1..k PROVE msg[i] \in Items /\ msg[i].n > 0
    <3>1. number(i) \in Nat /\ number(i) > 0 /\ who[i] \in Uids
      BY <1>4, <1>8
    <3> QED BY <1>9, <3>1, NthIsItem
  <2> QED BY <1>4, <1>9, <2>0, <2>1
<1>11. ASSUME NEW u \in Uids PROVE RepliesTo(u, msg) = S(u)
  <2> HIDE DEF number
  <2> QED BY <1>4, <1>9, <1>8 DEF RepliesTo
<1>12. told' \in [Uids -> Nat]
  <2> HIDE DEF S
  <2> QED BY <1>3, <1>5 DEF Types, TypedReplies
<1> HIDE DEF S, number, msg
<1>13. ASSUME NEW u \in Uids
       PROVE  /\ told[u] <= told'[u] /\ told'[u] <= ask[u].length
              /\ In(msg, u) = told[u] + 1 .. told'[u] /\ Rising(msg, u)
              /\ (u \notin serving => told'[u] = told[u])
  <2> DEFINE c == Cardinality(S(u))
             a == told[u]
  <2>1. c \in Nat /\ a \in Nat /\ told'[u] = a + c /\ a <= ask[u].length
    BY <1>3, <1>5 DEF Types, TypedReplies
  <2>2. \A i \in S(u) : i \in 1..k /\ msg[i].n = a + Rank(S(u), i) + 1 /\ Rank(S(u), i) \in 0..c - 1
    BY <1>7, <1>9
  <2>3. \A j \in 1..c : \E i \in S(u) : Rank(S(u), i) = j - 1
    BY <1>5, Ranks
  <2> HIDE DEF c, a
  <2>4. In(msg, u) = a + 1 .. a + c
    <3>1. ASSUME NEW x \in In(msg, u) PROVE x \in a + 1 .. a + c
      <4>1. PICK i \in S(u) : x = msg[i].n
        BY <1>11, <3>1 DEF In
      <4> QED BY <2>1, <2>2, <4>1
    <3>2. ASSUME NEW x \in a + 1 .. a + c PROVE x \in In(msg, u)
      <4>1. x - a \in 1..c
        BY <2>1
      <4>2. PICK i \in S(u) : Rank(S(u), i) = x - a - 1
        BY <2>3, <4>1
      <4>3. msg[i].n = x
        BY <2>1, <2>2, <4>2
      <4> QED BY <1>11, <4>3 DEF In
    <3> QED BY <3>1, <3>2
  <2>5. Rising(msg, u)
    <3>1. ASSUME NEW i \in S(u), NEW j \in S(u), i < j PROVE msg[i].n < msg[j].n
      <4>1. Rank(S(u), i) < Rank(S(u), j)
        BY <1>5, <3>1, RankRises
      <4> QED BY <2>1, <2>2, <4>1
    <3> QED BY <1>11, <3>1 DEF Rising
  <2>6. told'[u] <= ask[u].length
    <3>1. CASE c = 0
      BY <2>1, <3>1 DEF a
    <3>2. CASE c # 0
      <4>1. PICK i \in S(u) : Rank(S(u), i) = c - 1
        BY <2>1, <2>3, <3>2
      <4>2. number(i) <= ask[u].length /\ number(i) = msg[i].n
        BY <1>3, <1>7, <1>9, <4>1
      <4>3. msg[i].n = a + c
        BY <2>1, <2>2, <4>1
      <4> QED BY <2>1, <4>2, <4>3
    <3> QED BY <3>1, <3>2
  <2>7. u \notin serving => c = 0
    <3>1. SUFFICES ASSUME c # 0 PROVE u \in serving
      OBVIOUS
    <3>2. PICK i \in S(u) : Rank(S(u), i) = c - 1
      BY <2>1, <2>3, <3>1
    <3> QED BY <1>4, <1>7, <3>2
  <2> QED BY <2>1, <2>4, <2>5, <2>6, <2>7 DEF a
<1>14. UNCHANGED <<shared, coroutines, maps, to_worker, to_backend, to_frontend, sends>>
  BY DEF Reply
<1>15. Continues(msg)
  BY <1>3, <1>10, <1>12, <1>13, <1>14 DEF Continues
<1> QED BY <1>15

-----------------------------------------------------------------------------
(* What a worker sends, and what is left for it to send.                     *)

LEMMA RangePush ==
  ASSUME NEW V, NEW s \in Seq(V), NEW x \in V
  PROVE  Range(Append(s, x)) = Range(s) \cup {x}
<1> DEFINE t == Append(s, x)
<1>1. /\ Len(s) \in Nat /\ DOMAIN s = 1..Len(s) /\ DOMAIN t = 1..Len(s) + 1
      /\ \A i \in 1..Len(s) : t[i] = s[i]
      /\ t[Len(s) + 1] = x
  BY AppendProperties, LenProperties
<1> HIDE DEF t
<1>2. ASSUME NEW y \in Range(t) PROVE y \in Range(s) \cup {x}
  <2>1. PICK i \in 1..Len(s) + 1 : y = t[i]
    BY <1>1, <1>2 DEF Range
  <2>2. CASE i = Len(s) + 1
    BY <1>1, <2>1, <2>2
  <2>3. CASE i \in 1..Len(s)
    BY <1>1, <2>1, <2>3 DEF Range
  <2> QED BY <1>1, <2>1, <2>2, <2>3
<1>3. ASSUME NEW y \in Range(s) PROVE y \in Range(t)
  <2>1. PICK i \in 1..Len(s) : y = s[i]
    BY <1>1, <1>3 DEF Range
  <2>2. i \in 1..Len(s) + 1 /\ y = t[i]
    BY <1>1, <2>1
  <2> QED BY <1>1, <2>2 DEF Range
<1>4. x \in Range(t)
  <2>1. Len(s) + 1 \in 1..Len(s) + 1
    BY <1>1
  <2> QED BY <1>1, <2>1 DEF Range
<1> QED BY <1>2, <1>3, <1>4 DEF t

LEMMA RangePop ==
  ASSUME NEW V, NEW s \in Seq(V), s # <<>>
  PROVE  /\ Head(s) \in V /\ Head(s) \in Range(s)
         /\ Tail(s) \in Seq(V) /\ Range(Tail(s)) \subseteq Range(s)
<1> DEFINE t == Tail(s)
<1>1. /\ Len(s) \in Nat /\ Len(s) >= 1 /\ DOMAIN s = 1..Len(s) /\ DOMAIN t = 1..Len(s) - 1
      /\ \A i \in 1..Len(s) - 1 : t[i] = s[i + 1]
      /\ Head(s) = s[1] /\ Head(s) \in V /\ t \in Seq(V)
  BY HeadTailProperties, LenProperties, EmptySeq
<1> HIDE DEF t
<1>2. Head(s) \in Range(s)
  <2>1. 1 \in 1..Len(s)
    BY <1>1
  <2> QED BY <1>1, <2>1 DEF Range
<1>3. ASSUME NEW y \in Range(t) PROVE y \in Range(s)
  <2>1. PICK i \in 1..Len(s) - 1 : y = t[i]
    BY <1>1, <1>3 DEF Range
  <2>2. i + 1 \in 1..Len(s) /\ y = s[i + 1]
    BY <1>1, <2>1
  <2> QED BY <1>1, <2>2 DEF Range
<1> QED BY <1>1, <1>2, <1>3 DEF t

Jobs(w) == {job[2] : job \in Range(sends[w])}

Targets == {"frontend", "backend"}

LEMMA PromptIsMessage == ASSUME Types, NEW u \in Uids PROVE Prompt(u) \in Seq(Items)
<1> DEFINE i == [uid |-> u, n |-> 0, finished |-> FALSE]
<1>1. i.uid = u /\ i.n = 0 /\ i.finished = FALSE /\ i \in [uid : Uids, n : Nat, finished : BOOLEAN]
  OBVIOUS
<1>2. ask[u].length # 0
  BY FrontendAssumption DEF Types, TypedReplies
<1>3. Prompt(u) = <<i>>
  BY DEF Prompt
<1> HIDE DEF i
<1>4. i \in Items
  BY <1>1, <1>2 DEF Items
<1> QED BY <1>3, <1>4

(* u is the request that worker w works on. *)
Sent(w, u) ==
  /\ \/ u \in Range(to_worker[w])
     \/ u \in Jobs(w) /\ to_worker' = to_worker
  /\ to_worker' \in [Workers -> Seq(Uids)]
  /\ \A v \in Workers : Range(to_worker'[v]) \subseteq Range(to_worker[v])
  /\ sends' \in [Workers -> Seq(Targets \X Uids)]
  /\ Jobs(w)' \subseteq Jobs(w) \cup {u} /\ \A v \in Workers \ {w} : sends'[v] = sends[v]
  /\ \/ to_backend' = to_backend
     \/ to_backend' = [to_backend EXCEPT ![w] = Append(@, u)]
  /\ \/ to_frontend' = to_frontend
     \/ to_frontend' = [to_frontend EXCEPT ![w] = Append(@, Prompt(u))]
  /\ u \notin Jobs(w) /\ Rendered(u) =>
       /\ to_frontend' = [to_frontend EXCEPT ![w] = Append(@, Prompt(u))]
       /\ to_backend' = to_backend
  /\ UNCHANGED <<shared, coroutines, maps, to_detok, serving, told>>

(* The first of the sends is done and the others are left.                   *)
LEMMA SendOne ==
  ASSUME Types, NEW w \in Workers, NEW all \in Seq(Targets \X Uids), all # <<>>, Send(w, all)
  PROVE  LET u == Head(all)[2]
         IN /\ sends' \in [Workers -> Seq(Targets \X Uids)]
            /\ sends'[w] = Tail(all) /\ \A v \in Workers \ {w} : sends'[v] = sends[v]
            /\ Range(sends'[w]) \subseteq Range(all)
            /\ Head(all) \in Range(all) /\ Head(all) \in Targets \X Uids /\ u \in Uids
            /\ \/ to_backend' = to_backend
               \/ to_backend' = [to_backend EXCEPT ![w] = Append(@, u)]
            /\ \/ to_frontend' = to_frontend
               \/ to_frontend' = [to_frontend EXCEPT ![w] = Append(@, Prompt(u))]
<1>1. /\ Head(all) \in Targets \X Uids /\ Head(all) \in Range(all)
      /\ Tail(all) \in Seq(Targets \X Uids) /\ Range(Tail(all)) \subseteq Range(all)
  BY RangePop
<1>2. Head(all)[2] \in Uids
  BY <1>1
<1>3. sends \in [Workers -> Seq(Targets \X Uids)] /\ sends' = [sends EXCEPT ![w] = Tail(all)]
  BY DEF Types, TypedPipes, Targets, Send
<1>4. /\ sends' \in [Workers -> Seq(Targets \X Uids)] /\ sends'[w] = Tail(all)
      /\ \A v \in Workers \ {w} : sends'[v] = sends[v]
  BY <1>1, <1>3
<1>5. /\ \/ to_backend' = to_backend
         \/ to_backend' = [to_backend EXCEPT ![w] = Append(@, Head(all)[2])]
      /\ \/ to_frontend' = to_frontend
         \/ to_frontend' = [to_frontend EXCEPT ![w] = Append(@, Prompt(Head(all)[2]))]
  BY DEF Send
<1> QED BY <1>1, <1>2, <1>4, <1>5

LEMMA SendsOfTyped ==
  ASSUME NEW u \in Uids
  PROVE  /\ SendsOf(u) \in Seq(Targets \X Uids) /\ SendsOf(u) # <<>>
         /\ \A job \in Range(SendsOf(u)) : job[2] = u
         /\ Rendered(u) => Head(SendsOf(u)) = <<"frontend", u>>
<1>1. CASE Rendered(u)
  BY <1>1 DEF SendsOf, Range, Targets
<1>2. CASE ~ Rendered(u)
  BY <1>2 DEF SendsOf, Range, Targets
<1> QED BY <1>1, <1>2

LEMMA WorkerSends ==
  ASSUME Types, NEW w \in Workers, Tokenize(w) \/ SendOn(w)
  PROVE  \E u \in Uids : Sent(w, u)
<1>0. sends[w] \in Seq(Targets \X Uids) /\ to_worker \in [Workers -> Seq(Uids)]
  BY DEF Types, TypedPipes, Targets
<1>1. CASE Tokenize(w)
  <2> DEFINE u == Head(to_worker[w])
  <2>1. /\ to_worker[w] # <<>> /\ Send(w, SendsOf(u))
        /\ to_worker' = [to_worker EXCEPT ![w] = Tail(@)]
        /\ UNCHANGED <<shared, coroutines, maps, to_detok, serving, told>>
    BY <1>1 DEF Tokenize
  <2>2. /\ u \in Uids /\ u \in Range(to_worker[w])
        /\ Tail(to_worker[w]) \in Seq(Uids) /\ Range(Tail(to_worker[w])) \subseteq Range(to_worker[w])
    BY <1>0, <2>1, RangePop
  <2>3. /\ to_worker' \in [Workers -> Seq(Uids)]
        /\ \A v \in Workers : Range(to_worker'[v]) \subseteq Range(to_worker[v])
    BY <1>0, <2>1, <2>2
  <2> HIDE DEF u
  <2>4. /\ SendsOf(u) \in Seq(Targets \X Uids) /\ SendsOf(u) # <<>>
        /\ \A job \in Range(SendsOf(u)) : job[2] = u
    BY <2>2, SendsOfTyped
  <2>5. /\ sends' \in [Workers -> Seq(Targets \X Uids)]
        /\ \A v \in Workers \ {w} : sends'[v] = sends[v]
        /\ Range(sends'[w]) \subseteq Range(SendsOf(u))
        /\ Head(SendsOf(u)) \in Range(SendsOf(u))
        /\ \/ to_backend' = to_backend
           \/ to_backend' = [to_backend EXCEPT ![w] = Append(@, Head(SendsOf(u))[2])]
        /\ \/ to_frontend' = to_frontend
           \/ to_frontend' = [to_frontend EXCEPT ![w] = Append(@, Prompt(Head(SendsOf(u))[2]))]
    BY <2>1, <2>4, SendOne
  <2>6. Head(SendsOf(u))[2] = u
    BY <2>4, <2>5
  <2>7. Jobs(w)' \subseteq {u}
    BY <2>4, <2>5 DEF Jobs
  <2>9. Rendered(u) => /\ to_frontend' = [to_frontend EXCEPT ![w] = Append(@, Prompt(u))]
                       /\ to_backend' = to_backend
    <3> SUFFICES ASSUME Rendered(u)
                 PROVE  /\ to_frontend' = [to_frontend EXCEPT ![w] = Append(@, Prompt(u))]
                        /\ to_backend' = to_backend
      OBVIOUS
    <3>1. Head(SendsOf(u)) = <<"frontend", u>>
      BY <2>2, SendsOfTyped
    <3>2. Head(SendsOf(u))[1] = "frontend" /\ Head(SendsOf(u))[2] = u
      BY <3>1
    <3> QED BY <2>1, <3>2 DEF Send
  <2>8. Sent(w, u)
    BY <2>1, <2>2, <2>3, <2>5, <2>6, <2>7, <2>9 DEF Sent
  <2> QED BY <2>2, <2>8
<1>2. CASE SendOn(w)
  <2> DEFINE u == Head(sends[w])[2]
  <2>1. /\ sends[w] # <<>> /\ Send(w, sends[w])
        /\ UNCHANGED <<shared, coroutines, maps, to_worker, to_detok, serving, told>>
    BY <1>2 DEF SendOn
  <2>2. /\ sends' \in [Workers -> Seq(Targets \X Uids)]
        /\ \A v \in Workers \ {w} : sends'[v] = sends[v]
        /\ Range(sends'[w]) \subseteq Range(sends[w])
        /\ Head(sends[w]) \in Range(sends[w]) /\ u \in Uids
        /\ \/ to_backend' = to_backend
           \/ to_backend' = [to_backend EXCEPT ![w] = Append(@, u)]
        /\ \/ to_frontend' = to_frontend
           \/ to_frontend' = [to_frontend EXCEPT ![w] = Append(@, Prompt(u))]
    BY <1>0, <2>1, SendOne
  <2>3. u \in Jobs(w) /\ Jobs(w)' \subseteq Jobs(w)
    BY <2>2 DEF Jobs
  <2> HIDE DEF u
  <2>4. Sent(w, u)
    BY <1>0, <2>1, <2>2, <2>3 DEF Sent
  <2> QED BY <2>2, <2>4
<1> QED BY <1>1, <1>2

-----------------------------------------------------------------------------
(* A coroutine that waits for its event waits with it set exactly when its   *)
(* list is not empty, also while it works on the list before; it holds       *)
(* replies at its yields and nowhere else.                                   *)

Wakeups ==
  \A u \in Uids : stage[u] \in {"prompt", "wait", "yield"} =>
    (event_map[u] <=> ack_map[u] # <<>>)

Holding == \A u \in Uids : pending[u] # <<>> <=> stage[u] = "yield"

Shape == Types /\ Keys /\ Wakeups /\ Holding

LEMMA ConsumeParts ==
  ASSUME Types, Holding, NEW u \in Uids, stage[u] = "yield"
  PROVE  LET taken == SubSeq(pending[u], 1, Taken(u))
             rest == SubSeq(pending[u], Taken(u) + 1, Len(pending[u]))
         IN /\ Taken(u) \in 1..Len(pending[u]) /\ Len(pending[u]) \in Nat
            /\ taken \in Seq(ItemsOf(u)) /\ rest \in Seq(ItemsOf(u))
            /\ Len(taken) = Taken(u) /\ Len(rest) = Len(pending[u]) - Taken(u)
            /\ \A k \in 1..Taken(u) : taken[k] = pending[u][k]
            /\ \A k \in 1..Len(pending[u]) - Taken(u) : rest[k] = pending[u][Taken(u) + k]
            /\ Last(taken) = pending[u][Taken(u)]
            /\ rest = <<>> <=> Taken(u) = Len(pending[u])
<1> DEFINE p == pending[u]
           n == Len(p)
           t == Taken(u)
           taken == SubSeq(p, 1, t)
           rest == SubSeq(p, t + 1, n)
<1>1. p \in Seq(ItemsOf(u)) /\ p # <<>>
  BY DEF Types, TypedReplies, Holding
<1>2. n \in Nat /\ n >= 1 /\ \A i \in 1..n : p[i] \in ItemsOf(u)
  BY <1>1, EmptySeq, LenProperties, ElementOfSeq
<1>3. t \in 1..n
  BY <1>2 DEF Taken
<1> HIDE DEF p, n, t
<1>4. \A i \in 1..t : p[i] \in ItemsOf(u)
  BY <1>2, <1>3
<1>5. \A i \in t + 1 .. n : p[i] \in ItemsOf(u)
  BY <1>2, <1>3
<1>6. /\ taken \in Seq(ItemsOf(u))
      /\ Len(taken) = IF 1 <= t THEN t - 1 + 1 ELSE 0
      /\ \A i \in 1 .. t - 1 + 1 : taken[i] = p[1 + i - 1]
  BY <1>2, <1>3, <1>4, SubSeqProperties
<1>7. /\ rest \in Seq(ItemsOf(u))
      /\ Len(rest) = IF t + 1 <= n THEN n - (t + 1) + 1 ELSE 0
      /\ \A i \in 1 .. n - (t + 1) + 1 : rest[i] = p[t + 1 + i - 1]
  BY <1>2, <1>3, <1>5, SubSeqProperties
<1> HIDE DEF taken, rest
<1>8. Len(taken) = t /\ \A k \in 1..t : taken[k] = p[k]
  BY <1>2, <1>3, <1>6
<1>9. Len(rest) = n - t /\ \A k \in 1..n - t : rest[k] = p[t + k]
  <2>1. Len(rest) = n - t
    BY <1>2, <1>3, <1>7
  <2>2. ASSUME NEW k \in 1..n - t PROVE rest[k] = p[t + k]
    <3>1. k \in 1 .. n - (t + 1) + 1 /\ t + 1 + k - 1 = t + k
      BY <1>2, <1>3
    <3> QED BY <1>7, <3>1
  <2> QED BY <2>1, <2>2
<1>10. Last(taken) = p[t]
  BY <1>3, <1>8 DEF Last
<1>11. rest = <<>> <=> t = n
  <2>1. rest = <<>> <=> Len(rest) = 0
    BY <1>7, EmptySeq
  <2> QED BY <1>2, <1>3, <1>9, <2>1
<1> QED BY <1>2, <1>3, <1>6, <1>7, <1>8, <1>9, <1>10, <1>11 DEF p, n, t, taken, rest

LEMMA ApiReplies ==
  ASSUME Shape, NEW u \in Uids, Api(u), \A v : ItemsOf(v)' = ItemsOf(v)
  PROVE  TypedReplies'
<1>1. UNCHANGED <<ask, told>>
  BY ApiLeavesBackend DEF backend
<1>2. SUFFICES ASSUME NEW v \in Uids
               PROVE  /\ DOMAIN got' = Uids /\ DOMAIN pending' = Uids
                      /\ got'[v] \in Seq(ItemsOf(v)) /\ pending'[v] \in Seq(ItemsOf(v))
  BY <1>1 DEF TypedReplies, Types, Shape
<1>3. /\ DOMAIN got = Uids /\ DOMAIN pending = Uids
      /\ got[v] \in Seq(ItemsOf(v)) /\ pending[v] \in Seq(ItemsOf(v))
      /\ got[u] \in Seq(ItemsOf(u)) /\ pending[u] \in Seq(ItemsOf(u))
  BY DEF Shape, Types, TypedReplies
<1>4. CASE PromptArrives(u) \/ PromptTimesOut(u) \/ AbortUser(u)
  BY <1>3, <1>4 DEF PromptArrives, PromptTimesOut, AbortUser
<1>5. CASE WakeUp(u)
  <2>1. /\ stage[u] = "wait" /\ got' = got
        /\ pending' = [pending EXCEPT ![u] = ack_map[u]]
    BY <1>5 DEF WakeUp
  <2>2. ack_map[u] \in Seq(ItemsOf(u))
    BY <2>1 DEF Shape, Keys, Types, TypedMaps
  <2> QED BY <1>3, <2>1, <2>2
<1>6. CASE Leave(u)
  <2>1. got' = got /\ pending' = [pending EXCEPT ![u] = <<>>]
    BY <1>6 DEF Leave
  <2> QED BY <1>3, <2>1
<1>7. CASE Consume(u)
  <2> DEFINE taken == SubSeq(pending[u], 1, Taken(u))
             rest == SubSeq(pending[u], Taken(u) + 1, Len(pending[u]))
  <2>1. /\ got' = [got EXCEPT ![u] = @ \o taken]
        /\ \/ pending' = [pending EXCEPT ![u] = <<>>]
           \/ pending' = [pending EXCEPT ![u] = rest]
        /\ stage[u] = "yield"
    BY <1>7 DEF Consume
  <2>2. taken \in Seq(ItemsOf(u)) /\ rest \in Seq(ItemsOf(u))
    BY <2>1, ConsumeParts DEF Shape
  <2> HIDE DEF taken, rest
  <2>3. got[u] \o taken \in Seq(ItemsOf(u))
    BY <1>3, <2>2, ConcatProperties
  <2>4. CASE v = u
    <3>1. got'[u] = got[u] \o taken
      BY <1>3, <2>1
    <3>2. pending'[u] = <<>> \/ pending'[u] = rest
      BY <1>3, <2>1
    <3>3. DOMAIN got' = Uids /\ DOMAIN pending' = Uids
      BY <1>3, <2>1
    <3> QED BY <2>2, <2>3, <2>4, <3>1, <3>2, <3>3, EmptySeq
  <2>5. CASE v # u
    BY <1>3, <2>1, <2>5
  <2> QED BY <2>4, <2>5
<1> QED BY <1>4, <1>5, <1>6, <1>7 DEF Api, Coroutine

LEMMA PipesKept ==
  ASSUME Types, [Next]_vars, Items' = Items
  PROVE  TypedPipes'
<1>1. /\ to_frontend \in [Workers -> Seq(Seq(Items))] /\ to_detok \in Seq(Seq(Items))
      /\ to_worker \in [Workers -> Seq(Uids)] /\ to_backend \in [Workers -> Seq(Uids)]
      /\ sends \in [Workers -> Seq(Targets \X Uids)]
      /\ serving \subseteq Uids /\ shared \in BOOLEAN
  BY DEF Types, TypedPipes, Targets
<1>3. ASSUME NEW u \in Uids, Request(u) PROVE TypedPipes'
  <2>1. PICK w \in Workers : to_worker' = [to_worker EXCEPT ![w] = Append(@, u)]
    BY <1>3 DEF Request, TokenizeWorkers, Workers
  <2>2. Append(to_worker[w], u) \in Seq(Uids)
    BY <1>1, AppendProperties
  <2>3. UNCHANGED <<shared, to_backend, to_detok, to_frontend, sends, serving>>
    BY <1>3 DEF Request, backend
  <2> QED BY <1>1, <2>1, <2>2, <2>3 DEF TypedPipes, Targets
<1>4. ASSUME NEW u \in Uids, Api(u) PROVE TypedPipes'
  <2>1. UNCHANGED <<shared, to_worker, to_backend, to_detok, to_frontend, sends, serving>>
    BY <1>4, ApiLeavesBackend DEF pipes, backend
  <2> QED BY <1>1, <2>1 DEF TypedPipes, Targets
<1>5. CASE Listen
  <2>1. PICK w \in Workers : /\ to_frontend[w] # <<>>
                             /\ to_frontend' = [to_frontend EXCEPT ![w] = Tail(@)]
    BY <1>5 DEF Listen
  <2>2. Tail(to_frontend[w]) \in Seq(Seq(Items))
    BY <1>1, <2>1, HeadTailProperties
  <2>3. UNCHANGED <<shared, to_worker, to_backend, to_detok, sends, serving>>
    BY <1>5 DEF Listen, backend
  <2> QED BY <1>1, <2>1, <2>2, <2>3 DEF TypedPipes, Targets
<1>6. ASSUME NEW w \in Workers, Tokenize(w) \/ SendOn(w) PROVE TypedPipes'
  <2>1. PICK u \in Uids : Sent(w, u)
    BY <1>6, WorkerSends
  <2>2. Append(to_backend[w], u) \in Seq(Uids)
    BY <1>1, AppendProperties
  <2>3. Append(to_frontend[w], Prompt(u)) \in Seq(Seq(Items))
    BY <1>1, PromptIsMessage, AppendProperties
  <2>4. to_backend' \in [Workers -> Seq(Uids)] /\ to_frontend' \in [Workers -> Seq(Seq(Items))]
    BY <1>1, <2>1, <2>2, <2>3 DEF Sent
  <2> QED BY <1>1, <2>1, <2>4 DEF Sent, TypedPipes, Targets
<1>7. CASE Detokenize
  <2>1. /\ to_detok # <<>> /\ to_detok' = Tail(to_detok)
        /\ to_frontend' = [to_frontend EXCEPT ![Detok] = Append(@, Head(to_detok))]
        /\ UNCHANGED <<shared, to_worker, to_backend, sends, serving>>
    BY <1>7 DEF Detokenize
  <2>2. Head(to_detok) \in Seq(Items) /\ Tail(to_detok) \in Seq(Seq(Items)) /\ Detok \in Workers
    BY <1>1, <2>1, HeadTailProperties DEF Workers
  <2>3. Append(to_frontend[Detok], Head(to_detok)) \in Seq(Seq(Items))
    BY <1>1, <2>2, AppendProperties
  <2> QED BY <1>1, <2>1, <2>2, <2>3 DEF TypedPipes, Targets
<1>8. ASSUME NEW w \in Workers, Receive(w) PROVE TypedPipes'
  <2>1. /\ to_backend[w] # <<>> /\ to_backend' = [to_backend EXCEPT ![w] = Tail(@)]
        /\ serving' \subseteq serving \cup {Head(to_backend[w])}
        /\ UNCHANGED <<shared, to_worker, to_detok, to_frontend, sends>>
    BY <1>8 DEF Receive
  <2>2. Head(to_backend[w]) \in Uids /\ Tail(to_backend[w]) \in Seq(Uids)
    BY <1>1, <2>1, HeadTailProperties
  <2> QED BY <1>1, <2>1, <2>2 DEF TypedPipes, Targets
<1>9. CASE Reply
  <2>1. PICK msg : Continues(msg)
    BY <1>9, Replied
  <2>2. Append(to_detok, msg) \in Seq(Seq(Items))
    BY <1>1, <2>1, AppendProperties DEF Continues
  <2> QED BY <1>1, <2>1, <2>2 DEF Continues, TypedPipes, Targets
<1>10. CASE UNCHANGED vars
  BY <1>1, <1>10 DEF vars, pipes, backend, TypedPipes, Targets
<1> QED BY <1>3, <1>4, <1>5, <1>6, <1>7, <1>8, <1>9, <1>10 DEF Next, Api, Worker, Scheduler

LEMMA RequestWakes ==
  ASSUME Shape, NEW u \in Uids, Request(u) PROVE Wakeups' /\ Holding'
<1>1. /\ stage' = [stage EXCEPT ![u] = IF Rendered(u) THEN "prompt" ELSE "wait"]
      /\ ack_map' = Put(ack_map, u, <<>>) /\ event_map' = Put(event_map, u, FALSE)
      /\ u = uid_counter /\ pending' = pending
  BY DEF Request
<1>2. stage[u] = "none" /\ stage \in [Uids -> Stages]
  BY <1>1 DEF Shape, Keys, Types, TypedMaps, Uids
<1>3. ASSUME NEW v \in Uids, stage'[v] \in {"prompt", "wait", "yield"}
      PROVE  event_map'[v] <=> ack_map'[v] # <<>>
  <2>1. CASE v = u
    BY <1>1, <2>1 DEF Put
  <2>2. CASE v # u
    <3>1. stage[v] \in {"prompt", "wait", "yield"}
      BY <1>1, <1>2, <1>3, <2>2
    <3>2. v \in DOMAIN ack_map /\ v \in DOMAIN event_map
      BY <3>1 DEF Shape, Keys
    <3>3. ack_map'[v] = ack_map[v] /\ event_map'[v] = event_map[v]
      BY <1>1, <2>2, <3>2 DEF Put
    <3> QED BY <3>1, <3>3 DEF Shape, Wakeups
  <2> QED BY <2>1, <2>2
<1>4. Holding'
  BY <1>1, <1>2 DEF Shape, Holding
<1> QED BY <1>3, <1>4 DEF Wakeups

LEMMA ApiWakes ==
  ASSUME Shape, NEW u \in Uids, Api(u) PROVE Wakeups' /\ Holding'
<1>1. /\ stage \in [Uids -> Stages] /\ DOMAIN ack_map = DOMAIN event_map
      /\ DOMAIN pending = Uids
      /\ \A v \in Uids : stage[v] \in {"prompt", "wait", "yield"} => v \in DOMAIN ack_map
  BY DEF Shape, Types, TypedMaps, TypedReplies, Keys
<1>2. CASE PromptArrives(u) \/ PromptTimesOut(u)
  <2>1. /\ stage[u] = "prompt" /\ stage' = [stage EXCEPT ![u] = "wait"]
        /\ ack_map' = ack_map /\ event_map' = event_map /\ pending' = pending
    BY <1>2 DEF PromptArrives, PromptTimesOut
  <2> QED BY <1>1, <2>1 DEF Shape, Wakeups, Holding
<1>3. CASE WakeUp(u)
  <2>1. /\ stage[u] = "wait" /\ event_map[u] /\ stage' = [stage EXCEPT ![u] = "yield"]
        /\ event_map' = [event_map EXCEPT ![u] = FALSE]
        /\ ack_map' = [ack_map EXCEPT ![u] = <<>>]
        /\ pending' = [pending EXCEPT ![u] = ack_map[u]]
    BY <1>3 DEF WakeUp
  <2>2. ack_map[u] # <<>>
    BY <2>1 DEF Shape, Wakeups
  <2>3. Holding'
    BY <1>1, <2>1, <2>2 DEF Shape, Holding
  <2>4. ASSUME NEW v \in Uids, stage'[v] \in {"prompt", "wait", "yield"}
        PROVE  event_map'[v] <=> ack_map'[v] # <<>>
    <3>1. CASE v = u
      <4>1. event_map'[u] = FALSE /\ ack_map'[u] = <<>>
        BY <1>1, <2>1
      <4> QED BY <3>1, <4>1
    <3>2. CASE v # u
      <4>1. stage'[v] = stage[v] /\ event_map'[v] = event_map[v] /\ ack_map'[v] = ack_map[v]
        BY <1>1, <2>1, <3>2
      <4> QED BY <2>4, <4>1 DEF Shape, Wakeups
    <3> QED BY <3>1, <3>2
  <2> QED BY <2>3, <2>4 DEF Wakeups
<1>4. CASE Consume(u)
  <2> DEFINE rest == SubSeq(pending[u], Taken(u) + 1, Len(pending[u]))
             over == Last(SubSeq(pending[u], 1, Taken(u))).finished
  <2>1. /\ stage[u] = "yield"
        /\ ack_map' = ack_map /\ event_map' = event_map
    BY <1>4 DEF Consume, AcksAfterYields, EventAfterYields
  <2>2. /\ pending' = [pending EXCEPT ![u] = IF over THEN <<>> ELSE rest]
        /\ stage' = [stage EXCEPT ![u] = IF over THEN (IF Streams(u) THEN "abort" ELSE "over")
                                         ELSE IF rest = <<>> THEN "wait" ELSE "yield"]
    BY <1>4 DEF Consume
  <2> HIDE DEF rest, over
  <2>3. /\ \A v \in Uids \ {u} : stage'[v] = stage[v] /\ pending'[v] = pending[v]
        /\ pending'[u] # <<>> <=> stage'[u] = "yield"
    BY <1>1, <2>2
  <2>4. Holding'
    BY <2>3 DEF Shape, Holding
  <2>5. \A v \in Uids : stage'[v] \in {"prompt", "wait", "yield"} => stage[v] \in {"prompt", "wait", "yield"}
    BY <2>1, <2>3
  <2> QED BY <2>1, <2>4, <2>5 DEF Shape, Wakeups
<1>5. CASE Leave(u)
  <2>1. /\ stage' = [stage EXCEPT ![u] = "abort"] /\ pending' = [pending EXCEPT ![u] = <<>>]
        /\ ack_map' = ack_map /\ event_map' = event_map
    BY <1>5 DEF Leave
  <2> QED BY <1>1, <2>1 DEF Shape, Wakeups, Holding
<1>6. CASE AbortUser(u)
  <2>1. /\ stage[u] = "abort" /\ stage' = [stage EXCEPT ![u] = "over"] /\ pending' = pending
        /\ ack_map' = Pop(ack_map, u) /\ event_map' = Pop(event_map, u)
    BY <1>6 DEF AbortUser, WithoutAcks
  <2>2. Holding'
    BY <1>1, <2>1 DEF Shape, Holding
  <2>3. ASSUME NEW v \in Uids, stage'[v] \in {"prompt", "wait", "yield"}
        PROVE  event_map'[v] <=> ack_map'[v] # <<>>
    <3>1. v # u /\ stage'[v] = stage[v]
      BY <1>1, <2>1, <2>3
    <3>2. v \in DOMAIN ack_map /\ v \in DOMAIN event_map
      BY <1>1, <2>3, <3>1
    <3>3. ack_map'[v] = ack_map[v] /\ event_map'[v] = event_map[v]
      BY <2>1, <3>1, <3>2 DEF Pop
    <3> QED BY <2>3, <3>1, <3>3 DEF Shape, Wakeups
  <2> QED BY <2>2, <2>3 DEF Wakeups
<1> QED BY <1>2, <1>3, <1>4, <1>5, <1>6 DEF Api, Coroutine

(* The listener sets the event of every list that it appends to.             *)
LEMMA ListenWakes ==
  ASSUME Shape, Listen PROVE Wakeups' /\ Holding'
<1>1. PICK w \in Workers :
        /\ to_frontend[w] # <<>>
        /\ ack_map' = [u \in DOMAIN ack_map |->
                        ack_map[u] \o At(Head(to_frontend[w]), RepliesTo(u, Head(to_frontend[w])))]
        /\ event_map' = [u \in DOMAIN event_map |->
                          event_map[u] \/ RepliesTo(u, Head(to_frontend[w])) # {}]
        /\ UNCHANGED <<stage, pending>>
  BY DEF Listen, coroutines
<1>2. ASSUME NEW u \in Uids, stage[u] \in {"prompt", "wait", "yield"}
      PROVE  event_map'[u] <=> ack_map'[u] # <<>>
  <2> DEFINE R == RepliesTo(u, Head(to_frontend[w]))
             t == At(Head(to_frontend[w]), R)
  <2>1. t \in Seq(ItemsOf(u)) /\ (t = <<>> <=> R = {})
    BY <1>1, Filed DEF Shape, Types
  <2>2. u \in DOMAIN ack_map /\ u \in DOMAIN event_map
    BY <1>2 DEF Shape, Keys
  <2>3. ack_map[u] \in Seq(ItemsOf(u)) /\ (event_map[u] <=> ack_map[u] # <<>>)
    BY <1>2, <2>2 DEF Shape, Types, TypedMaps, Wakeups
  <2>4. ack_map'[u] = ack_map[u] \o t
    BY <1>1, <2>2
  <2>5. event_map'[u] <=> event_map[u] \/ R # {}
    BY <1>1, <2>2, Zenon
  <2> HIDE DEF t
  <2>6. ack_map[u] \o t = <<>> <=> ack_map[u] = <<>> /\ t = <<>>
    <3>1. /\ ack_map[u] \o t \in Seq(ItemsOf(u))
          /\ Len(ack_map[u] \o t) = Len(ack_map[u]) + Len(t)
          /\ Len(ack_map[u]) \in Nat /\ Len(t) \in Nat
      BY <2>1, <2>3, ConcatProperties, LenProperties
    <3>2. /\ ack_map[u] \o t = <<>> <=> Len(ack_map[u] \o t) = 0
          /\ ack_map[u] = <<>> <=> Len(ack_map[u]) = 0
          /\ t = <<>> <=> Len(t) = 0
      BY <2>1, <2>3, <3>1, EmptySeq
    <3> QED BY <3>1, <3>2
  <2> HIDE DEF R
  <2>7. ack_map'[u] = <<>> <=> ack_map[u] = <<>> /\ R = {}
    BY <2>1, <2>4, <2>6
  <2> QED BY <2>3, <2>5, <2>7, Zenon
<1>3. Holding'
  BY <1>1 DEF Shape, Holding
<1> QED BY <1>1, <1>2, <1>3 DEF Wakeups

LEMMA ShapeInit == Init => Shape
<1> SUFFICES ASSUME Init PROVE Shape
  OBVIOUS
<1>1. TypedMaps
  BY DEF Init, TypedMaps, Stages, Empty
<1>2. TypedReplies
  <2>1. /\ ask \in [Uids -> Asks] /\ DOMAIN got = Uids /\ DOMAIN pending = Uids
        /\ \A u \in Uids : got[u] = <<>> /\ pending[u] = <<>> /\ told[u] = 0
        /\ told \in [Uids -> Nat]
    BY DEF Init
  <2>2. \A u \in Uids : ask[u].length \in Nat
    BY <2>1, FrontendAssumption
  <2>3. \A u \in Uids : told[u] <= ask[u].length
    BY <2>1, <2>2
  <2>4. \A u \in Uids : got[u] \in Seq(ItemsOf(u)) /\ pending[u] \in Seq(ItemsOf(u))
    BY <2>1, EmptySeq
  <2> QED BY <2>1, <2>3, <2>4 DEF TypedReplies
<1>3. TypedPipes
  BY EmptySeq DEF Init, TypedPipes
<1>4. Keys
  BY FrontendAssumption DEF Init, Keys, Empty, Uids
<1>5. Wakeups /\ Holding
  BY DEF Init, Wakeups, Holding
<1> QED BY <1>1, <1>2, <1>3, <1>4, <1>5 DEF Shape, Types

LEMMA ShapeKept == Shape /\ [Next]_vars => Shape'
<1> SUFFICES ASSUME Shape, [Next]_vars PROVE Shape'
  OBVIOUS
<1>1. UNCHANGED <<shared, ask>> /\ Items' = Items /\ \A u : ItemsOf(u)' = ItemsOf(u)
  BY Constants
<1>2. TypedPipes'
  BY <1>1, PipesKept DEF Shape
<1>3. ASSUME NEW u \in Uids, Request(u) PROVE Shape'
  <2>1. TypedMaps' /\ Keys'
    BY <1>1, <1>3, RequestMaps DEF Shape
  <2>2. UNCHANGED <<got, pending, told>>
    BY <1>3 DEF Request, backend
  <2>3. TypedReplies'
    BY <1>1, <2>2 DEF Shape, Types, TypedReplies
  <2> QED BY <1>2, <1>3, <2>1, <2>3, RequestWakes DEF Shape, Types
<1>4. ASSUME NEW u \in Uids, Api(u) PROVE Shape'
  <2>1. UNCHANGED <<ask, uid_counter>>
    BY <1>4, ApiLeavesBackend
  <2>2. TypedMaps' /\ Keys'
    BY <1>1, <1>4, <2>1, ApiMaps DEF Shape
  <2>3. TypedReplies'
    BY <1>1, <1>4, ApiReplies
  <2> QED BY <1>2, <1>4, <2>2, <2>3, ApiWakes DEF Shape, Types
<1>5. CASE Listen
  <2>1. TypedMaps' /\ Keys'
    BY <1>1, <1>5, ListenMaps DEF Shape
  <2>2. UNCHANGED <<got, pending, told>>
    BY <1>5 DEF Listen, coroutines, backend
  <2>3. TypedReplies'
    BY <1>1, <2>2 DEF Shape, Types, TypedReplies
  <2> QED BY <1>2, <1>5, <2>1, <2>3, ListenWakes DEF Shape, Types
<1>6. CASE (\E w \in Workers : Worker(w)) \/ Scheduler \/ UNCHANGED vars
  <2>1. UNCHANGED <<shared, coroutines, maps>>
    BY <1>6, BackendLeavesApi
  <2>2. TypedMaps'
    BY <1>1, <2>1 DEF Shape, Types, TypedMaps, coroutines, maps
  <2>3. Keys'
    BY <2>1 DEF Shape, Keys, Streams, Rendered, coroutines, maps
  <2>4. Wakeups' /\ Holding'
    BY <2>1 DEF Shape, Wakeups, Holding, coroutines, maps
  <2>5. told' \in [Uids -> Nat] /\ \A u \in Uids : told'[u] <= ask[u].length
    <3>1. CASE Reply
      <4>1. PICK msg : Continues(msg)
        BY <3>1, Replied DEF Shape
      <4> QED BY <4>1 DEF Continues
    <3>2. CASE ~ Reply
      <4>1. told' = told
        BY <1>6, <3>2
        DEF Worker, Tokenize, SendOn, Detokenize, Scheduler, Receive, vars, backend
      <4> QED BY <4>1 DEF Shape, Types, TypedReplies
    <3> QED BY <3>1, <3>2
  <2>6. TypedReplies'
    BY <1>1, <2>1, <2>5 DEF Shape, Types, TypedReplies, coroutines
  <2> QED BY <1>2, <2>2, <2>3, <2>4, <2>6 DEF Shape, Types
<1> QED BY <1>3, <1>4, <1>5, <1>6 DEF Next, Api

THEOREM Shapes == Spec => []Shape
BY ShapeInit, ShapeKept, PTL DEF Spec

(* Neither of ack_map and event_map is ever missing an entry that the other  *)
(* has, nor one for a coroutine that waits: new_user, abort_user and the     *)
(* coroutines of all requests may interleave as they like.                   *)
THEOREM ListenersMaps == Spec => []ListenerSafe
<1>1. Shape => ListenerSafe
  BY DEF Shape, Keys, ListenerSafe
<1> QED BY <1>1, Shapes, PTL

(* Between the append of the listener and the swap of wait_for_ack no wakeup *)
(* is lost: a coroutine that waits on an empty list waits for a listener     *)
(* that will set its event, one whose list is not empty has it set already.  *)
THEOREM WakeupsKept == Spec => []NoLostWakeup
<1>1. Shape => NoLostWakeup
  BY DEF Shape, Wakeups, NoLostWakeup
<1> QED BY <1>1, Shapes, PTL

-----------------------------------------------------------------------------
(* Nothing of a request is anywhere before the request comes, and only the   *)
(* worker that turns tokens into text sends replies.                         *)

Unknown(u) ==
  /\ got[u] = <<>> /\ told[u] = 0 /\ u \notin serving
  /\ \A w \in Workers : /\ u \notin Range(to_worker[w]) /\ u \notin Range(to_backend[w])
                        /\ u \notin Jobs(w)

Known == \A u \in Uids : stage[u] = "none" => Unknown(u)

RepliesFromDetok ==
  \A w \in Workers \ {Detok} : \A msg \in Range(to_frontend[w]) :
    \A u \in Uids : RepliesTo(u, msg) = {}

LEMMA PromptsAreNoReplies ==
  ASSUME NEW u, NEW v PROVE RepliesTo(u, Prompt(v)) = {}
<1>1. Len(Prompt(v)) = 1 /\ Prompt(v)[1].n = 0
  BY DEF Prompt
<1> QED BY <1>1 DEF RepliesTo

(* No step makes a request unknown again.                                    *)
LEMMA StageKnown ==
  ASSUME Shape, [Next]_vars, NEW u \in Uids, stage'[u] = "none"
  PROVE  stage[u] = "none"
<1>1. stage \in [Uids -> Stages]
  BY DEF Shape, Types, TypedMaps
<1>2. ASSUME NEW v \in Uids, Request(v) PROVE stage[u] = "none"
  BY <1>1, <1>2 DEF Request
<1>3. ASSUME NEW v \in Uids, Api(v) PROVE stage[u] = "none"
  <2>1. PICK s \in {"wait", "yield", "abort", "over"} : stage' = [stage EXCEPT ![v] = s]
    BY <1>3 DEF Api, Coroutine, PromptArrives, PromptTimesOut, WakeUp, Consume, Leave, AbortUser
  <2> QED BY <1>1, <2>1
<1>4. CASE Listen \/ (\E w \in Workers : Worker(w)) \/ Scheduler \/ UNCHANGED vars
  BY <1>4, BackendLeavesApi DEF Listen, coroutines
<1> QED BY <1>2, <1>3, <1>4 DEF Next, Api

LEMMA KnownKept == ASSUME Shape, Known, [Next]_vars PROVE Known'
<1> SUFFICES ASSUME NEW u \in Uids, stage'[u] = "none" PROVE Unknown(u)'
  BY DEF Known
<1>1. /\ stage \in [Uids -> Stages] /\ DOMAIN got = Uids
      /\ to_worker \in [Workers -> Seq(Uids)] /\ to_backend \in [Workers -> Seq(Uids)]
  BY DEF Shape, Types, TypedMaps, TypedReplies, TypedPipes
<1>2. stage[u] = "none" /\ Unknown(u)
  BY StageKnown DEF Known
<1>3. ASSUME NEW v \in Uids, Request(v) PROVE Unknown(u)'
  <2>1. PICK w \in Workers : to_worker' = [to_worker EXCEPT ![w] = Append(@, v)]
    BY <1>3 DEF Request, TokenizeWorkers, Workers
  <2>2. Range(Append(to_worker[w], v)) = Range(to_worker[w]) \cup {v}
    BY <1>1, RangePush
  <2>3. u # v
    BY <1>1, <1>3 DEF Request
  <2>4. \A x \in Workers : u \notin Range(to_worker'[x])
    BY <1>1, <1>2, <2>1, <2>2, <2>3 DEF Unknown
  <2>5. UNCHANGED <<got, told, serving, to_backend, sends>>
    BY <1>3 DEF Request, backend
  <2> QED BY <1>2, <2>4, <2>5 DEF Unknown, Jobs
<1>4. ASSUME NEW v \in Uids, Api(v) PROVE Unknown(u)'
  <2>1. UNCHANGED <<told, serving, to_worker, to_backend, sends>>
    BY <1>4, ApiLeavesBackend DEF pipes, backend
  <2>2. got'[u] = got[u]
    <3>1. CASE Consume(v)
      <4>1. stage[v] = "yield" /\ \E s : got' = [got EXCEPT ![v] = s]
        BY <3>1 DEF Consume
      <4> QED BY <1>1, <1>2, <4>1
    <3>2. CASE ~ Consume(v)
      BY <1>4, <3>2 DEF Api, Coroutine, PromptArrives, PromptTimesOut, WakeUp, Leave, AbortUser
    <3> QED BY <3>1, <3>2
  <2> QED BY <1>2, <2>1, <2>2 DEF Unknown, Jobs
<1>5. CASE Listen
  BY <1>2, <1>5 DEF Listen, coroutines, backend, Unknown, Jobs
<1>6. ASSUME NEW w \in Workers, Tokenize(w) \/ SendOn(w) PROVE Unknown(u)'
  <2>1. PICK x \in Uids : Sent(w, x)
    BY <1>6, WorkerSends DEF Shape
  <2>2. u # x
    BY <1>2, <2>1 DEF Unknown, Sent
  <2>3. Range(Append(to_backend[w], x)) = Range(to_backend[w]) \cup {x}
    BY <1>1, RangePush
  <2>4. \A v \in Workers : u \notin Range(to_backend'[v])
    <3>1. CASE to_backend' = to_backend
      BY <1>2, <3>1 DEF Unknown
    <3>2. CASE to_backend' = [to_backend EXCEPT ![w] = Append(@, x)]
      <4>1. to_backend'[w] = Append(to_backend[w], x)
            /\ \A v \in Workers \ {w} : to_backend'[v] = to_backend[v]
        BY <1>1, <3>2
      <4> QED BY <1>2, <2>2, <2>3, <4>1 DEF Unknown
    <3> QED BY <2>1, <3>1, <3>2 DEF Sent
  <2>5. \A v \in Workers : u \notin Range(to_worker'[v])
    BY <1>2, <2>1 DEF Sent, Unknown
  <2>6. \A v \in Workers : u \notin Jobs(v)'
    <3>1. u \notin Jobs(w)'
      BY <1>2, <2>1, <2>2 DEF Sent, Unknown
    <3>2. \A v \in Workers \ {w} : Jobs(v)' = Jobs(v)
      BY <2>1 DEF Sent, Jobs
    <3> QED BY <1>2, <3>1, <3>2 DEF Unknown
  <2>7. UNCHANGED <<got, told, serving>>
    BY <2>1 DEF Sent, coroutines
  <2> QED BY <1>2, <2>4, <2>5, <2>6, <2>7 DEF Unknown
<1>7. CASE Detokenize
  BY <1>2, <1>7 DEF Detokenize, coroutines, Unknown, Jobs
<1>8. ASSUME NEW w \in Workers, Receive(w) PROVE Unknown(u)'
  <2>1. /\ to_backend[w] # <<>> /\ to_backend' = [to_backend EXCEPT ![w] = Tail(@)]
        /\ serving' \subseteq serving \cup {Head(to_backend[w])}
        /\ UNCHANGED <<got, told, to_worker, sends>>
    BY <1>8 DEF Receive, coroutines
  <2>2. Head(to_backend[w]) \in Range(to_backend[w]) /\ Range(Tail(to_backend[w])) \subseteq Range(to_backend[w])
    BY <1>1, <2>1, RangePop
  <2>3. u \notin serving'
    BY <1>2, <2>1, <2>2 DEF Unknown
  <2>4. \A v \in Workers : u \notin Range(to_backend'[v])
    BY <1>1, <1>2, <2>1, <2>2 DEF Unknown
  <2> QED BY <1>2, <2>1, <2>3, <2>4 DEF Unknown, Jobs
<1>9. CASE Reply
  <2>1. PICK msg : Continues(msg)
    BY <1>9, Replied DEF Shape
  <2> QED BY <1>2, <2>1 DEF Continues, coroutines, Unknown, Jobs
<1>10. CASE UNCHANGED vars
  BY <1>2, <1>10 DEF vars, coroutines, pipes, backend, Unknown, Jobs
<1> QED BY <1>3, <1>4, <1>5, <1>6, <1>7, <1>8, <1>9, <1>10 DEF Next, Api, Worker, Scheduler

LEMMA PlainKept == ASSUME Shape, RepliesFromDetok, [Next]_vars PROVE RepliesFromDetok'
<1> SUFFICES ASSUME NEW v \in Workers \ {Detok}, NEW msg \in Range(to_frontend'[v]), NEW u \in Uids
             PROVE  RepliesTo(u, msg) = {}
  BY DEF RepliesFromDetok
<1>1. to_frontend \in [Workers -> Seq(Seq(Items))]
  BY DEF Shape, Types, TypedPipes
<1>2. ASSUME msg \in Range(to_frontend[v]) PROVE RepliesTo(u, msg) = {}
  BY <1>2 DEF RepliesFromDetok
<1>3. CASE to_frontend'[v] = to_frontend[v]
  BY <1>2, <1>3
<1>4. CASE Listen
  <2>1. PICK w \in Workers : /\ to_frontend[w] # <<>>
                             /\ to_frontend' = [to_frontend EXCEPT ![w] = Tail(@)]
    BY <1>4 DEF Listen
  <2>2. Range(Tail(to_frontend[w])) \subseteq Range(to_frontend[w])
    BY <1>1, <2>1, RangePop
  <2> QED BY <1>1, <1>2, <2>1, <2>2
<1>5. ASSUME NEW w \in Workers, Tokenize(w) \/ SendOn(w) PROVE RepliesTo(u, msg) = {}
  <2>1. PICK x \in Uids : Sent(w, x)
    BY <1>5, WorkerSends DEF Shape
  <2>2. Range(Append(to_frontend[w], Prompt(x))) = Range(to_frontend[w]) \cup {Prompt(x)}
    BY <1>1, PromptIsMessage, RangePush DEF Shape
  <2>3. msg \in Range(to_frontend[v]) \/ msg = Prompt(x)
    BY <1>1, <2>1, <2>2 DEF Sent
  <2> QED BY <1>2, <2>3, PromptsAreNoReplies
<1>6. CASE Detokenize
  BY <1>1, <1>3, <1>6 DEF Detokenize
<1>7. CASE Scheduler
  BY <1>3, <1>7 DEF Scheduler, Receive, Reply
<1>8. ASSUME NEW x \in Uids, Request(x) \/ Api(x) PROVE RepliesTo(u, msg) = {}
  BY <1>3, <1>8, ApiLeavesBackend DEF Request, pipes
<1>9. CASE UNCHANGED vars
  BY <1>3, <1>9 DEF vars, pipes
<1> QED BY <1>4, <1>5, <1>6, <1>7, <1>8, <1>9 DEF Next, Api, Worker

-----------------------------------------------------------------------------
(* Every token that the scheduler has sent is in one place on its way.       *)

(* The requests whose replies are still collected.                           *)
Collecting(u) ==
  stage[u] \in {"none", "prompt", "wait", "yield"} \/ (stage[u] = "over" /\ ~ Streams(u))

Acks(u) == IF u \in DOMAIN ack_map THEN ack_map[u] ELSE <<>>

(* Where in the answer the lists of a request begin and end.                 *)
Base(u) == Len(got[u]) + Len(pending[u])
Here(u) == Base(u) + Len(Acks(u))

Counted(u) ==
  /\ \A k \in 1..Len(got[u]) : got[u][k].n = k
  /\ \A k \in 1..Len(pending[u]) : pending[u][k].n = Len(got[u]) + k
  /\ \A k \in 1..Len(Acks(u)) : Acks(u)[k].n = Base(u) + k
  /\ Here(u) <= told[u]

Coming(u) ==
  /\ Numbers(to_frontend[Detok], u) \cup Numbers(to_detok, u) = Here(u) + 1 .. told[u]
  /\ \A x \in Numbers(to_frontend[Detok], u), y \in Numbers(to_detok, u) : x < y
  /\ InOrder(to_frontend[Detok], u) /\ InOrder(to_detok, u)

(* An answer that is over is whole.                                          *)
Whole(u) == stage[u] = "over" /\ ~ Streams(u) => Len(got[u]) = ask[u].length

Flows(u) == Whole(u) /\ (Collecting(u) => Counted(u) /\ Coming(u))

Flow == \A u \in Uids : Flows(u)

LEMMA AcksTyped ==
  ASSUME Shape, NEW u \in Uids
  PROVE  /\ Acks(u) \in Seq(ItemsOf(u)) /\ Len(Acks(u)) \in Nat
         /\ Len(got[u]) \in Nat /\ Len(pending[u]) \in Nat
         /\ Base(u) \in Nat /\ Here(u) \in Nat /\ told[u] \in Nat
<1>1. Acks(u) \in Seq(ItemsOf(u))
  BY EmptySeq DEF Shape, Types, TypedMaps, Acks
<1>2. got[u] \in Seq(ItemsOf(u)) /\ pending[u] \in Seq(ItemsOf(u)) /\ told[u] \in Nat
  BY DEF Shape, Types, TypedReplies
<1>3. Len(Acks(u)) \in Nat /\ Len(got[u]) \in Nat /\ Len(pending[u]) \in Nat
  BY <1>1, <1>2, LenProperties
<1>4. Base(u) \in Nat
  <2> DEFINE a == Len(got[u])
             b == Len(pending[u])
  <2>1. a \in Nat /\ b \in Nat
    BY <1>3
  <2> HIDE DEF a, b
  <2>2. a + b \in Nat
    BY <2>1
  <2> QED BY <2>2 DEF Base, a, b
<1>5. Here(u) \in Nat
  BY <1>3, <1>4 DEF Here
<1> QED BY <1>1, <1>2, <1>3, <1>4, <1>5

(* A step that leaves what belongs to u where it is.                         *)
LEMMA Untouched ==
  ASSUME NEW u \in Uids, Flows(u), UNCHANGED ask,
         stage'[u] = "over" => stage[u] = "over", Collecting(u)' => Collecting(u),
         got'[u] = got[u], pending'[u] = pending[u], Acks(u)' = Acks(u), told'[u] = told[u],
         to_frontend'[Detok] = to_frontend[Detok], to_detok' = to_detok
  PROVE  Flows(u)'
<1>1. Whole(u)'
  BY DEF Flows, Whole, Streams
<1>2. Base(u)' = Base(u) /\ Here(u)' = Here(u)
  BY DEF Base, Here
<1>3. ASSUME Collecting(u)' PROVE Counted(u)' /\ Coming(u)'
  <2>1. Counted(u) /\ Coming(u)
    BY <1>3 DEF Flows
  <2>2. Counted(u)'
    BY <1>2, <2>1 DEF Counted
  <2>3. Coming(u)'
    BY <1>2, <2>1 DEF Coming
  <2> QED BY <2>2, <2>3
<1> QED BY <1>1, <1>3 DEF Flows

(* The numbers that are on their way when the list of u is empty again.      *)
LEMMA SameWay ==
  ASSUME NEW u \in Uids, Coming(u), Here(u)' = Here(u), told'[u] = told[u],
         to_frontend'[Detok] = to_frontend[Detok], to_detok' = to_detok
  PROVE  Coming(u)'
BY DEF Coming

LEMMA RequestFlows ==
  ASSUME Shape, NEW v \in Uids, Request(v), UNCHANGED ask, NEW u \in Uids, Flows(u)
  PROVE  Flows(u)'
<1>1. /\ stage' = [stage EXCEPT ![v] = IF Rendered(v) THEN "prompt" ELSE "wait"]
      /\ ack_map' = Put(ack_map, v, <<>>) /\ v = uid_counter
      /\ UNCHANGED <<got, pending, told, to_frontend, to_detok>>
  BY DEF Request, backend
<1>2. stage[v] = "none" /\ stage \in [Uids -> Stages] /\ v \notin DOMAIN ack_map
  BY <1>1 DEF Shape, Keys, Types, TypedMaps, Uids
<1>3. Acks(u)' = Acks(u)
  BY <1>1, <1>2 DEF Acks, Put
<1>4. stage'[u] = "over" => stage[u] = "over"
  BY <1>1, <1>2
<1>5. Collecting(u)' => Collecting(u)
  BY <1>1, <1>2 DEF Collecting, Streams
<1> QED BY <1>1, <1>3, <1>4, <1>5, Untouched

(* The other requests.                                                       *)
LEMMA OthersFlow ==
  ASSUME Shape, NEW v \in Uids, Api(v), UNCHANGED ask, NEW u \in Uids, u # v, Flows(u)
  PROVE  Flows(u)'
<1>1. UNCHANGED <<told, to_frontend, to_detok>>
  BY ApiLeavesBackend DEF pipes, backend
<1>2. PICK s \in Stages : stage' = [stage EXCEPT ![v] = s]
  BY DEF Api, Coroutine, PromptArrives, PromptTimesOut, WakeUp, Consume, Leave, AbortUser, Stages
<1>3. stage'[u] = stage[u]
  BY <1>2 DEF Shape, Types, TypedMaps
<1>4. got'[u] = got[u] /\ pending'[u] = pending[u]
  <2>1. DOMAIN got = Uids /\ DOMAIN pending = Uids
    BY DEF Shape, Types, TypedReplies
  <2>2. /\ got' = got \/ \E x : got' = [got EXCEPT ![v] = x]
        /\ pending' = pending \/ \E x : pending' = [pending EXCEPT ![v] = x]
    BY DEF Api, Coroutine, PromptArrives, PromptTimesOut, WakeUp, Consume, Leave, AbortUser
  <2> QED BY <2>1, <2>2
<1>5. Acks(u)' = Acks(u)
  <2>1. CASE AbortUser(v)
    BY <2>1 DEF AbortUser, WithoutAcks, Pop, Acks
  <2>2. CASE WakeUp(v)
    BY <2>2 DEF WakeUp, Acks
  <2>3. CASE ~ AbortUser(v) /\ ~ WakeUp(v)
    BY <2>3 DEF Api, Coroutine, PromptArrives, PromptTimesOut, Consume, AcksAfterYields, Leave, Acks
  <2> QED BY <2>1, <2>2, <2>3
<1> QED BY <1>1, <1>3, <1>4, <1>5, Untouched DEF Collecting, Streams

(* The coroutine itself: it takes its list over, and hands on what it holds. *)
LEMMA WakeUpFlows ==
  ASSUME Shape, NEW u \in Uids, WakeUp(u), UNCHANGED ask, Flows(u)
  PROVE  Flows(u)'
<1>1. /\ stage[u] = "wait" /\ stage' = [stage EXCEPT ![u] = "yield"]
      /\ pending' = [pending EXCEPT ![u] = ack_map[u]]
      /\ ack_map' = [ack_map EXCEPT ![u] = <<>>]
      /\ got' = got
  BY DEF WakeUp
<1>2. UNCHANGED <<told, to_frontend, to_detok>>
  BY ApiLeavesBackend DEF pipes, backend, Api, Coroutine
<1>3. /\ stage'[u] = "yield" /\ pending[u] = <<>>
      /\ pending'[u] = Acks(u) /\ Acks(u)' = <<>>
  BY <1>1 DEF Shape, Types, TypedMaps, TypedReplies, Keys, Holding, Acks
<1>4. Counted(u) /\ Coming(u)
  BY <1>1 DEF Flows, Collecting
<1>5. /\ Len(pending[u]) = 0 /\ Len(Acks(u)') = 0
      /\ Len(got[u]) \in Nat /\ Len(Acks(u)) \in Nat
  BY <1>3, AcksTyped, EmptySeq
<1>6. Base(u) = Len(got[u]) /\ Here(u) = Len(got[u]) + Len(Acks(u))
  BY <1>5 DEF Base, Here
<1>7. Base(u)' = Len(got[u]) + Len(Acks(u)) /\ Here(u)' = Here(u)
  <2>1. Base(u)' = Len(got'[u]) + Len(pending'[u])
    BY DEF Base
  <2>2. Base(u)' = Len(got[u]) + Len(Acks(u))
    BY <1>1, <1>3, <2>1
  <2>3. Here(u)' = Base(u)' + Len(Acks(u)')
    BY DEF Here
  <2> QED BY <1>5, <1>6, <2>2, <2>3
<1>8. Counted(u)'
  <2>1. \A k \in 1..Len(Acks(u)') : Acks(u)'[k].n = Base(u)' + k
    BY <1>5
  <2>2. \A k \in 1..Len(pending'[u]) : pending'[u][k].n = Len(got[u]) + k
    BY <1>3, <1>4, <1>6 DEF Counted
  <2>3. Here(u)' <= told'[u] /\ \A k \in 1..Len(got'[u]) : got'[u][k].n = k
    BY <1>1, <1>2, <1>4, <1>7 DEF Counted
  <2> QED BY <1>1, <2>1, <2>2, <2>3 DEF Counted
<1>9. Coming(u)'
  BY <1>2, <1>4, <1>7, SameWay
<1> QED BY <1>3, <1>8, <1>9 DEF Flows, Whole

LEMMA ConsumeFlows ==
  ASSUME Shape, NEW u \in Uids, Consume(u), UNCHANGED ask, Flows(u)
  PROVE  Flows(u)'
<1> DEFINE p == pending[u]
           n == Len(p)
           t == Taken(u)
           g == Len(got[u])
           taken == SubSeq(p, 1, t)
           rest == SubSeq(p, t + 1, n)
           over == Last(taken).finished
<1>1. /\ stage[u] = "yield"
      /\ got' = [got EXCEPT ![u] = @ \o taken]
      /\ pending' = [pending EXCEPT ![u] = IF over THEN <<>> ELSE rest]
      /\ stage' = [stage EXCEPT ![u] = IF over THEN (IF Streams(u) THEN "abort" ELSE "over")
                                       ELSE IF rest = <<>> THEN "wait" ELSE "yield"]
      /\ ack_map' = ack_map
  BY DEF Consume, AcksAfterYields
<1>2. UNCHANGED <<told, to_frontend, to_detok>>
  BY ApiLeavesBackend DEF pipes, backend, Api, Coroutine
<1>3. /\ t \in 1..n /\ n \in Nat
      /\ taken \in Seq(ItemsOf(u)) /\ rest \in Seq(ItemsOf(u))
      /\ Len(taken) = t /\ Len(rest) = n - t
      /\ \A k \in 1..t : taken[k] = p[k]
      /\ \A k \in 1..n - t : rest[k] = p[t + k]
      /\ Last(taken) = p[t]
  BY <1>1, ConsumeParts DEF Shape
<1>4. g \in Nat /\ got[u] \in Seq(ItemsOf(u)) /\ p \in Seq(ItemsOf(u))
  BY AcksTyped DEF Shape, Types, TypedReplies
<1>5. Counted(u) /\ Coming(u)
  BY <1>1 DEF Flows, Collecting
<1>6. /\ \A k \in 1..g : got[u][k].n = k
      /\ \A k \in 1..n : p[k].n = g + k
  BY <1>5 DEF Counted
<1>7. Base(u) = g + n /\ Acks(u)' = Acks(u)
  BY <1>1 DEF Base, Acks
<1>8. ~ Streams(u) => t = n
  BY DEF Taken
<1>9. over => g + t = ask[u].length
  <2>1. p[t] \in ItemsOf(u)
    BY <1>3, <1>4, ElementOfSeq
  <2>2. p[t].finished => p[t].n = ask[u].length
    BY <2>1, ItemFacts
  <2>3. p[t].n = g + t
    BY <1>3, <1>6
  <2> QED BY <1>3, <2>2, <2>3
<1> HIDE DEF p, n, t, g, taken, rest, over
<1>10. got'[u] = got[u] \o taken /\ Len(got'[u]) = g + t /\ \A k \in 1..g + t : got'[u][k].n = k
  <2>1. got'[u] = got[u] \o taken
    BY <1>1 DEF Shape, Types, TypedReplies
  <2>2. /\ Len(got[u] \o taken) = Len(got[u]) + Len(taken)
        /\ \A k \in 1..Len(got[u]) : (got[u] \o taken)[k] = got[u][k]
        /\ \A k \in 1..Len(taken) : (got[u] \o taken)[Len(got[u]) + k] = taken[k]
    <3>1. got[u] \in Seq(ItemsOf(u)) /\ taken \in Seq(ItemsOf(u))
      BY <1>3, <1>4
    <3> QED BY <3>1, ConcatParts
  <2>3. Len(got[u]) = g
    BY DEF g
  <2>4. ASSUME NEW k \in 1..g PROVE got'[u][k].n = k
    BY <1>4, <1>6, <2>1, <2>2, <2>3
  <2>5. ASSUME NEW k \in g + 1 .. g + t PROVE got'[u][k].n = k
    <3>1. k - g \in 1..t /\ k - g \in 1..n /\ g + (k - g) = k
      BY <1>3, <1>4
    <3>2. got'[u][k] = taken[k - g]
      BY <1>3, <2>1, <2>2, <2>3, <3>1
    <3> QED BY <1>3, <1>6, <3>1, <3>2
  <2>6. \A k \in 1..g + t : k \in 1..g \/ k \in g + 1 .. g + t
    BY <1>3, <1>4
  <2> QED BY <1>3, <2>1, <2>2, <2>3, <2>4, <2>5, <2>6
<1>11. /\ pending'[u] = IF over THEN <<>> ELSE rest
       /\ stage'[u] = IF over THEN (IF Streams(u) THEN "abort" ELSE "over")
                      ELSE IF rest = <<>> THEN "wait" ELSE "yield"
  BY <1>1 DEF Shape, Types, TypedMaps, TypedReplies
<1>12. Streams(u)' <=> Streams(u)
  BY DEF Streams
<1>13. CASE over /\ Streams(u)
  BY <1>11, <1>12, <1>13 DEF Flows, Whole, Collecting
<1>14. ASSUME Len(pending'[u]) = n - t, \A k \in 1..n - t : pending'[u][k].n = g + t + k
       PROVE  Counted(u)' /\ Coming(u)'
  <2>1. Base(u)' = Base(u)
    <3>2. Base(u)' = Len(got'[u]) + Len(pending'[u])
      BY DEF Base
    <3>1. Base(u)' = (g + t) + (n - t)
      BY <1>10, <1>14, <3>2
    <3> QED BY <1>3, <1>4, <1>7, <3>1
  <2>2. Here(u)' = Here(u)
    BY <1>7, <2>1 DEF Here
  <2>3. Counted(u)'
    <3>1. \A k \in 1..Len(Acks(u)') : Acks(u)'[k].n = Base(u)' + k
      BY <1>5, <1>7, <2>1 DEF Counted
    <3>2. Here(u)' <= told'[u]
      BY <1>2, <1>5, <2>2 DEF Counted
    <3> QED BY <1>10, <1>14, <3>1, <3>2 DEF Counted
  <2> QED BY <1>2, <1>5, <2>2, <2>3, SameWay
<1>15. CASE over /\ ~ Streams(u)
  <2>1. pending'[u] = <<>> /\ Len(pending'[u]) = 0 /\ n - t = 0
    BY <1>3, <1>8, <1>11, <1>15, EmptySeq
  <2>2. Counted(u)' /\ Coming(u)'
    BY <1>14, <2>1
  <2>3. Whole(u)'
    BY <1>9, <1>10, <1>15 DEF Whole
  <2> QED BY <2>2, <2>3 DEF Flows
<1>16. CASE ~ over
  <2>1. pending'[u] = rest /\ stage'[u] # "over"
    BY <1>11, <1>16
  <2>2. ASSUME NEW k \in 1..n - t PROVE rest[k].n = g + t + k
    <3>1. t + k \in 1..n /\ g + (t + k) = g + t + k
      BY <1>3, <1>4
    <3> QED BY <1>3, <1>6, <3>1
  <2>3. Counted(u)' /\ Coming(u)'
    BY <1>3, <1>14, <2>1, <2>2
  <2> QED BY <2>1, <2>3 DEF Flows, Whole
<1> QED BY <1>13, <1>15, <1>16

LEMMA ApiFlows ==
  ASSUME Shape, NEW v \in Uids, Api(v), UNCHANGED ask, NEW u \in Uids, Flows(u)
  PROVE  Flows(u)'
<1>1. CASE u # v
  BY <1>1, OthersFlow
<1>2. CASE u = v /\ (PromptArrives(u) \/ PromptTimesOut(u))
  <2>1. /\ stage[u] = "prompt" /\ stage' = [stage EXCEPT ![u] = "wait"]
        /\ UNCHANGED <<got, pending, ack_map>>
    BY <1>2 DEF PromptArrives, PromptTimesOut
  <2>2. stage'[u] = "wait"
    BY <2>1 DEF Shape, Types, TypedMaps
  <2>3. UNCHANGED <<told, to_frontend, to_detok>>
    BY ApiLeavesBackend DEF pipes, backend
  <2>4. Acks(u)' = Acks(u) /\ Collecting(u)
    BY <2>1 DEF Acks, Collecting
  <2> QED BY <2>1, <2>2, <2>3, <2>4, Untouched
<1>3. CASE u = v /\ WakeUp(u)
  BY <1>3, WakeUpFlows
<1>4. CASE u = v /\ Consume(u)
  BY <1>4, ConsumeFlows
<1>5. CASE u = v /\ Leave(u)
  <2>1. stage'[u] = "abort"
    BY <1>5 DEF Leave, Shape, Types, TypedMaps
  <2> QED BY <2>1 DEF Flows, Whole, Collecting
<1>6. CASE u = v /\ AbortUser(u)
  <2>1. stage'[u] = "over" /\ Streams(u)
    BY <1>6 DEF AbortUser, Shape, Types, TypedMaps, Keys
  <2>2. Streams(u)'
    BY <2>1 DEF Streams
  <2> QED BY <2>1, <2>2 DEF Flows, Whole, Collecting
<1> QED BY <1>1, <1>2, <1>3, <1>4, <1>5, <1>6 DEF Api, Coroutine

(* The listener files the next replies of u behind those that are there.     *)
LEMMA ListenFlows ==
  ASSUME Shape, Known, RepliesFromDetok, Listen, UNCHANGED ask, NEW u \in Uids, Flows(u)
  PROVE  Flows(u)'
<1>1. PICK w \in Workers :
        /\ to_frontend[w] # <<>>
        /\ ack_map' = [v \in DOMAIN ack_map |->
                        ack_map[v] \o At(Head(to_frontend[w]), RepliesTo(v, Head(to_frontend[w])))]
        /\ to_frontend' = [to_frontend EXCEPT ![w] = Tail(@)]
        /\ UNCHANGED <<stage, got, pending, told, to_detok>>
  BY DEF Listen, coroutines, backend
<1> DEFINE items == Head(to_frontend[w])
           R == RepliesTo(u, items)
           t == At(items, R)
           h == Here(u)
<1>2. to_frontend \in [Workers -> Seq(Seq(Items))] /\ to_detok \in Seq(Seq(Items)) /\ Detok \in Workers
  BY DEF Shape, Types, TypedPipes, Workers
<1>3. t \in Seq(ItemsOf(u)) /\ (t = <<>> <=> R = {})
  BY <1>1, Filed DEF Shape, Types
<1>4. Acks(u)' = IF u \in DOMAIN ack_map THEN Acks(u) \o t ELSE <<>>
  BY <1>1 DEF Acks
<1>5. /\ Acks(u) \in Seq(ItemsOf(u)) /\ Len(Acks(u)) \in Nat /\ Base(u) \in Nat
      /\ h \in Nat /\ told[u] \in Nat /\ h = Base(u) + Len(Acks(u))
  BY AcksTyped DEF Here
<1>6. (Collecting(u)' <=> Collecting(u)) /\ stage'[u] = stage[u] /\ Base(u)' = Base(u)
  BY <1>1 DEF Collecting, Streams, Base
<1>7. Whole(u)'
  BY <1>1 DEF Flows, Whole, Streams
<1> HIDE DEF t, h
<1>8. CASE w # Detok
  <2>1. items \in Range(to_frontend[w])
    BY <1>1, <1>2, RangePop
  <2>2. R = {}
    BY <1>8, <2>1 DEF RepliesFromDetok
  <2>3. Acks(u) \o t = Acks(u)
    BY <1>3, <1>5, <2>2, ConcatEmptySeq
  <2>4. Acks(u)' = Acks(u)
    BY <1>4, <2>3 DEF Acks
  <2>5. to_frontend'[Detok] = to_frontend[Detok]
    BY <1>1, <1>2, <1>8
  <2> QED BY <1>1, <1>6, <2>4, <2>5, Untouched
<1>9. CASE ~ Collecting(u)
  BY <1>6, <1>7, <1>9 DEF Flows
<1>10. CASE w = Detok /\ Collecting(u)
  <2> DEFINE F == to_frontend[Detok]
             X == In(items, u)
             Y == Numbers(Tail(F), u) \cup Numbers(to_detok, u)
  <2>1. Counted(u) /\ Coming(u)
    BY <1>10 DEF Flows
  <2>2. F \in Seq(Seq(Items)) /\ F # <<>> /\ items = Head(F)
    BY <1>1, <1>2, <1>10
  <2>3. Numbers(F, u) = X \cup Numbers(Tail(F), u)
    BY <2>2, NumbersPop
  <2>4. /\ Rising(items, u) /\ InOrder(Tail(F), u)
        /\ \A x \in X, y \in Numbers(Tail(F), u) : x < y
    BY <2>1, <2>2, OrderPop DEF Coming
  <2>5. X \cup Y = h + 1 .. told[u] /\ h <= told[u]
    BY <2>1, <2>3 DEF Coming, Counted, h
  <2>6. \A x \in X, y \in Y : x < y
    BY <2>1, <2>3, <2>4 DEF Coming
  <2>7. to_frontend'[Detok] = Tail(F) /\ to_detok' = to_detok /\ told'[u] = told[u]
    BY <1>1, <1>2, <1>10
  <2>8. /\ \A x \in Numbers(Tail(F), u), y \in Numbers(to_detok, u) : x < y
        /\ InOrder(to_detok, u)
    BY <2>1, <2>3 DEF Coming
  <2> HIDE DEF X, Y
  <2>9. PICK m \in h + 1 .. told[u] + 1 : X = h + 1 .. m - 1 /\ Y = m .. told[u]
    <3> DEFINE a == h + 1
               b == told[u]
    <3>1. a \in Nat /\ b \in Nat /\ a <= b + 1 /\ X \cup Y = a..b
      BY <1>5, <2>5
    <3> HIDE DEF a, b
    <3>3. Splits(X, Y, a, b)
      BY <2>6, <3>1 DEF Splits
    <3>2. \E m \in a..b + 1 : X = a..m - 1 /\ Y = m..b
      BY <3>3, HeadOfInterval
    <3> QED BY <3>2 DEF a, b
  <2> DEFINE c == m - (h + 1)
  <2>10. m \in Nat /\ h + 1 <= m /\ m <= told[u] + 1 /\ h + 1 \in Nat /\ c \in Nat
    BY <1>5, <2>9
  <2>11. /\ t = [k \in 1..c |-> t[k]] /\ \A k \in 1..c : t[k].n = (h + 1) + k - 1
    <3> DEFINE a == h + 1
    <3>1. Rising(items, u) /\ a \in Nat /\ m \in Nat /\ a <= m /\ In(items, u) = a..m - 1
      BY <2>4, <2>9, <2>10 DEF X
    <3>2. c = m - a
      OBVIOUS
    <3> HIDE DEF a, c, items
    <3>3. /\ At(items, RepliesTo(u, items)) = [k \in 1 .. m - a |-> At(items, RepliesTo(u, items))[k]]
          /\ \A k \in 1 .. m - a : At(items, RepliesTo(u, items))[k].n = a + k - 1
      BY <3>1, AtCounts
    <3>4. t = [k \in 1..c |-> t[k]] /\ \A k \in 1..c : t[k].n = a + k - 1
      BY <3>2, <3>3 DEF t
    <3> QED BY <3>4 DEF a
  <2>12. Len(t) = c
    BY <2>10, <2>11
  <2>13. u \notin DOMAIN ack_map => c = 0
    <3> SUFFICES ASSUME u \notin DOMAIN ack_map PROVE c = 0
      OBVIOUS
    <3>1. stage[u] = "none"
      BY <1>10 DEF Collecting, Shape, Keys
    <3>2. told[u] = 0
      BY <3>1 DEF Known, Unknown
    <3> QED BY <1>5, <2>9, <3>2
  <2>14. /\ Len(Acks(u)') = Len(Acks(u)) + c
         /\ \A k \in 1..Len(Acks(u)) + c : Acks(u)'[k].n = Base(u) + k
    <3>1. \A k \in 1..Len(Acks(u)) : Acks(u)[k].n = Base(u) + k
      BY <2>1 DEF Counted
    <3>2. CASE u \in DOMAIN ack_map
      <4>1. Acks(u)' = Acks(u) \o t
        BY <1>4, <3>2
      <4>2. /\ Len(Acks(u) \o t) = Len(Acks(u)) + Len(t)
            /\ \A k \in 1..Len(Acks(u)) : (Acks(u) \o t)[k] = Acks(u)[k]
            /\ \A k \in 1..Len(t) : (Acks(u) \o t)[Len(Acks(u)) + k] = t[k]
        <5>1. Acks(u) \in Seq(ItemsOf(u)) /\ t \in Seq(ItemsOf(u))
          BY <1>3, <1>5
        <5> QED BY <5>1, ConcatParts
      <4> DEFINE a == Len(Acks(u))
                 s == Acks(u) \o t
      <4>3. ASSUME NEW k \in 1..a PROVE s[k].n = Base(u) + k
        BY <3>1, <4>2
      <4>4. ASSUME NEW k \in a + 1 .. a + c PROVE s[k].n = Base(u) + k
        <5>1. k - a \in 1..c /\ a + (k - a) = k
          BY <1>5, <2>10
        <5>2. s[k] = t[k - a]
          BY <2>12, <4>2, <5>1
        <5>3. t[k - a].n = (h + 1) + (k - a) - 1
          BY <2>11, <5>1
        <5> QED BY <1>5, <5>2, <5>3
      <4>5. \A k \in 1..a + c : k \in 1..a \/ k \in a + 1 .. a + c
        BY <1>5, <2>10
      <4> QED BY <2>12, <4>1, <4>2, <4>3, <4>4, <4>5
    <3>3. CASE u \notin DOMAIN ack_map
      <4>1. Acks(u) = <<>> /\ Acks(u)' = <<>> /\ c = 0 /\ Len(Acks(u)) = 0
        BY <1>4, <2>13, <3>3 DEF Acks
      <4> QED BY <4>1
    <3> QED BY <3>2, <3>3
  <2>15. Here(u)' = h + c
    <3>1. Here(u)' = Base(u)' + Len(Acks(u)')
      BY DEF Here
    <3> QED BY <1>5, <1>6, <2>10, <2>14, <3>1
  <2>16. h + c + 1 = m /\ h + c <= told[u]
    <3>1. h \in Nat /\ told[u] \in Nat /\ m \in Nat /\ m <= told[u] + 1
      BY <1>5, <2>10
    <3> QED BY <3>1
  <2> HIDE DEF c
  <2>17. Counted(u)'
    <3>1. \A k \in 1..Len(Acks(u)') : Acks(u)'[k].n = Base(u)' + k
      BY <1>6, <2>14
    <3>2. /\ \A k \in 1..Len(got'[u]) : got'[u][k].n = k
          /\ \A k \in 1..Len(pending'[u]) : pending'[u][k].n = Len(got'[u]) + k
      BY <1>1, <2>1 DEF Counted
    <3> QED BY <2>7, <2>15, <2>16, <3>1, <3>2 DEF Counted
  <2>18. Coming(u)'
    <3>1. Numbers(to_frontend'[Detok], u) \cup Numbers(to_detok', u) = Here(u)' + 1 .. told'[u]
      BY <2>7, <2>9, <2>15, <2>16 DEF Y
    <3> QED BY <2>4, <2>7, <2>8, <3>1 DEF Coming
  <2> QED BY <1>7, <2>17, <2>18 DEF Flows
<1> QED BY <1>8, <1>9, <1>10

LEMMA SendFlows ==
  ASSUME Shape, NEW w \in Workers, NEW x \in Uids, Sent(w, x), UNCHANGED ask,
         NEW u \in Uids, Flows(u)
  PROVE  Flows(u)'
<1> DEFINE F == to_frontend[Detok]
<1>1. F \in Seq(Seq(Items)) /\ Prompt(x) \in Seq(Items)
  BY PromptIsMessage DEF Shape, Types, TypedPipes, Workers
<1>2. UNCHANGED <<stage, got, pending, ack_map, told, to_detok>>
  BY DEF Sent, coroutines, maps
<1>3. Acks(u)' = Acks(u) /\ (Collecting(u)' <=> Collecting(u)) /\ Here(u)' = Here(u)
  BY <1>2 DEF Acks, Collecting, Streams, Here, Base
<1>4. CASE to_frontend'[Detok] = F
  BY <1>2, <1>3, <1>4, Untouched
<1>5. CASE to_frontend'[Detok] = Append(F, Prompt(x))
  <2>1. In(Prompt(x), u) = {} /\ Rising(Prompt(x), u)
    BY PromptsAreNoReplies DEF In, Rising
  <2>2. Numbers(Append(F, Prompt(x)), u) = Numbers(F, u)
    <3> HIDE DEF F
    <3> DEFINE m == Prompt(x)
    <3>0. In(m, u) = {}
      BY <2>1
    <3>1. F \in Seq(Seq(Items)) /\ m \in Seq(Items)
      BY <1>1
    <3> HIDE DEF m
    <3>2. Numbers(Append(F, m), u) = Numbers(F, u) \cup In(m, u)
      BY <3>1, NumbersPush
    <3>3. Numbers(Append(F, m), u) = Numbers(F, u)
      BY <3>0, <3>2
    <3> QED BY <3>3 DEF m
  <2>3. ASSUME Collecting(u) PROVE Counted(u)' /\ Coming(u)'
    <3>1. Counted(u) /\ Coming(u)
      BY <2>3 DEF Flows
    <3>2. Counted(u)'
      BY <1>2, <1>3, <3>1 DEF Counted, Base
    <3>3. \A y \in Numbers(F, u), z \in In(Prompt(x), u) : y < z
      BY <2>1
    <3>4. InOrder(F, u)
      BY <3>1 DEF Coming
    <3> HIDE DEF F
    <3>5. InOrder(Append(F, Prompt(x)), u)
      <4> DEFINE m == Prompt(x)
      <4>1. /\ F \in Seq(Seq(Items)) /\ m \in Seq(Items) /\ Rising(m, u) /\ InOrder(F, u)
            /\ \A y \in Numbers(F, u), z \in In(m, u) : y < z
        BY <1>1, <2>1, <3>3, <3>4
      <4> HIDE DEF m
      <4>2. InOrder(Append(F, m), u)
        BY <4>1, OrderPush
      <4> QED BY <4>2 DEF m
    <3>6. Coming(u)'
      BY <1>2, <1>3, <1>5, <2>2, <3>1, <3>5 DEF Coming, F
    <3> QED BY <3>2, <3>6
  <2>4. Whole(u)'
    BY <1>2 DEF Flows, Whole, Streams
  <2> QED BY <1>3, <2>3, <2>4 DEF Flows
<1>6. to_frontend \in [Workers -> Seq(Seq(Items))]
  BY DEF Shape, Types, TypedPipes
<1>7. to_frontend'[Detok] = F \/ to_frontend'[Detok] = Append(F, Prompt(x))
  <2>1. CASE to_frontend' = to_frontend
    BY <2>1
  <2>2. CASE to_frontend' = [to_frontend EXCEPT ![w] = Append(@, Prompt(x))]
    <3>1. CASE w = Detok
      BY <1>6, <2>2, <3>1
    <3>2. CASE w # Detok
      BY <1>6, <2>2, <3>2 DEF Workers
    <3> QED BY <3>1, <3>2
  <2> QED BY <2>1, <2>2 DEF Sent
<1> QED BY <1>4, <1>5, <1>7

LEMMA DetokenizeFlows ==
  ASSUME Shape, Detokenize, UNCHANGED ask, NEW u \in Uids, Flows(u)
  PROVE  Flows(u)'
<1> DEFINE F == to_frontend[Detok]
           D == to_detok
           m == Head(D)
<1>1. /\ UNCHANGED <<stage, got, pending, ack_map, told>>
      /\ D # <<>> /\ to_detok' = Tail(D)
      /\ to_frontend' = [to_frontend EXCEPT ![Detok] = Append(@, m)]
  BY DEF Detokenize, coroutines, maps
<1>2. /\ to_frontend \in [Workers -> Seq(Seq(Items))] /\ Detok \in Workers
      /\ F \in Seq(Seq(Items)) /\ D \in Seq(Seq(Items))
  BY DEF Shape, Types, TypedPipes, Workers
<1>3. to_frontend'[Detok] = Append(F, m)
  BY <1>1, <1>2
<1>4. m \in Seq(Items)
  BY <1>1, <1>2, HeadTailProperties
<1>5. /\ Acks(u)' = Acks(u) /\ (Collecting(u)' <=> Collecting(u))
      /\ Here(u)' = Here(u) /\ Base(u)' = Base(u)
  BY <1>1 DEF Acks, Collecting, Streams, Here, Base
<1>6. Whole(u)'
  BY <1>1 DEF Flows, Whole, Streams
<1>7. ASSUME Collecting(u) PROVE Counted(u)' /\ Coming(u)'
  <2>1. Counted(u) /\ Coming(u)
    BY <1>7 DEF Flows
  <2>2. Counted(u)'
    BY <1>1, <1>5, <2>1 DEF Counted
  <2>3. /\ Numbers(F, u) \cup Numbers(D, u) = Here(u) + 1 .. told[u]
        /\ \A x \in Numbers(F, u), y \in Numbers(D, u) : x < y
        /\ InOrder(F, u) /\ InOrder(D, u)
    BY <2>1 DEF Coming
  <2> HIDE DEF F, D
  <2>4. Numbers(D, u) = In(m, u) \cup Numbers(Tail(D), u)
    BY <1>1, <1>2, NumbersPop
  <2>5. /\ Rising(m, u) /\ InOrder(Tail(D), u)
        /\ \A x \in In(m, u), y \in Numbers(Tail(D), u) : x < y
    BY <1>1, <1>2, <2>3, OrderPop
  <2> HIDE DEF m
  <2>6. Numbers(Append(F, m), u) = Numbers(F, u) \cup In(m, u)
    BY <1>2, <1>4, NumbersPush
  <2>7. InOrder(Append(F, m), u)
    <3>1. \A x \in Numbers(F, u), y \in In(m, u) : x < y
      BY <2>3, <2>4
    <3> QED BY <1>2, <1>4, <2>3, <2>5, <3>1, OrderPush
  <2>8. \A x \in Numbers(Append(F, m), u), y \in Numbers(Tail(D), u) : x < y
    BY <2>3, <2>4, <2>5, <2>6
  <2>9. Numbers(Append(F, m), u) \cup Numbers(Tail(D), u) = Here(u) + 1 .. told[u]
    BY <2>3, <2>4, <2>6
  <2>10. Coming(u)'
    BY <1>1, <1>3, <1>5, <2>5, <2>7, <2>8, <2>9 DEF Coming
  <2> QED BY <2>2, <2>10
<1> QED BY <1>5, <1>6, <1>7 DEF Flows

LEMMA ReplyFlows ==
  ASSUME Shape, NEW msg, Continues(msg), UNCHANGED ask, NEW u \in Uids, Flows(u)
  PROVE  Flows(u)'
<1> DEFINE F == to_frontend[Detok]
           D == to_detok
<1>1. /\ UNCHANGED <<stage, got, pending, ack_map, to_frontend>>
      /\ to_detok' = Append(D, msg) /\ msg \in Seq(Items)
      /\ told[u] <= told'[u] /\ told'[u] \in Nat
      /\ In(msg, u) = told[u] + 1 .. told'[u] /\ Rising(msg, u)
  BY DEF Continues, coroutines, maps
<1>2. D \in Seq(Seq(Items)) /\ told[u] \in Nat /\ Here(u) \in Nat
  BY AcksTyped DEF Shape, Types, TypedPipes
<1>3. /\ Acks(u)' = Acks(u) /\ (Collecting(u)' <=> Collecting(u))
      /\ Here(u)' = Here(u) /\ Base(u)' = Base(u)
  BY <1>1 DEF Acks, Collecting, Streams, Here, Base
<1>4. Whole(u)'
  BY <1>1 DEF Flows, Whole, Streams
<1>5. ASSUME Collecting(u) PROVE Counted(u)' /\ Coming(u)'
  <2>1. Counted(u) /\ Coming(u)
    BY <1>5 DEF Flows
  <2>2. Counted(u)'
    <3>1. Here(u) <= told[u]
      BY <2>1 DEF Counted
    <3>2. Here(u)' <= told'[u]
      BY <1>1, <1>2, <1>3, <3>1
    <3> QED BY <1>1, <1>3, <2>1, <3>2 DEF Counted
  <2>3. /\ Numbers(F, u) \cup Numbers(D, u) = Here(u) + 1 .. told[u]
        /\ \A x \in Numbers(F, u), y \in Numbers(D, u) : x < y
        /\ InOrder(F, u) /\ InOrder(D, u) /\ Here(u) <= told[u]
    BY <2>1 DEF Coming, Counted
  <2> HIDE DEF F, D
  <2>4. Numbers(Append(D, msg), u) = Numbers(D, u) \cup In(msg, u)
    BY <1>1, <1>2, NumbersPush
  <2>5. /\ \A x \in Numbers(F, u), y \in In(msg, u) : x < y
        /\ \A x \in Numbers(D, u), y \in In(msg, u) : x < y
    <3>1. \A x \in Numbers(F, u) \cup Numbers(D, u), y \in In(msg, u) : x < y
      BY <1>1, <1>2, <2>3
    <3> QED BY <3>1
  <2>6. InOrder(Append(D, msg), u)
    BY <1>1, <1>2, <2>3, <2>5, OrderPush
  <2>7. Numbers(F, u) \cup Numbers(Append(D, msg), u) = Here(u) + 1 .. told'[u]
    <3>1. (Here(u) + 1 .. told[u]) \cup (told[u] + 1 .. told'[u]) = Here(u) + 1 .. told'[u]
      BY <1>1, <1>2, <2>3
    <3> QED BY <1>1, <2>3, <2>4, <3>1
  <2>8. \A x \in Numbers(F, u), y \in Numbers(Append(D, msg), u) : x < y
    BY <2>3, <2>4, <2>5
  <2>9. to_frontend'[Detok] = F
    BY <1>1 DEF F
  <2>10. Coming(u)'
    BY <1>1, <1>3, <2>3, <2>6, <2>7, <2>8, <2>9 DEF Coming
  <2> QED BY <2>2, <2>10
<1> QED BY <1>3, <1>4, <1>5 DEF Flows

Delivery == Shape /\ Known /\ RepliesFromDetok /\ Flow

LEMMA DeliveryInit == Init => Delivery
<1> SUFFICES ASSUME Init PROVE Delivery
  OBVIOUS
<1>1. Shape
  BY ShapeInit
<1>2. Known
  BY DEF Init, Known, Unknown, Jobs, Range
<1>3. RepliesFromDetok
  BY DEF Init, RepliesFromDetok, Range
<1>4. ASSUME NEW u \in Uids PROVE Flows(u)
  <2>1. /\ got[u] = <<>> /\ pending[u] = <<>> /\ Acks(u) = <<>> /\ told[u] = 0
        /\ stage[u] = "none" /\ to_detok = <<>> /\ to_frontend[Detok] = <<>>
    BY DEF Init, Acks, Empty, Workers
  <2>2. Len(<<>>) = 0
    BY EmptySeq
  <2>3. Base(u) = 0
    BY <2>1, <2>2 DEF Base
  <2>4. Here(u) = 0
    BY <2>1, <2>2, <2>3 DEF Here
  <2>5. Counted(u)
    BY <2>1, <2>2, <2>4 DEF Counted
  <2>6. Numbers(<<>>, u) = {} /\ InOrder(<<>>, u)
    BY <2>2 DEF Numbers, InOrder
  <2>7. Coming(u)
    BY <2>1, <2>4, <2>6 DEF Coming
  <2> QED BY <2>1, <2>5, <2>7 DEF Flows, Whole
<1> QED BY <1>1, <1>2, <1>3, <1>4 DEF Delivery, Flow

LEMMA DeliveryKept == Delivery /\ [Next]_vars => Delivery'
<1> SUFFICES ASSUME Delivery, [Next]_vars PROVE Delivery'
  OBVIOUS
<1>1. Shape /\ Known /\ RepliesFromDetok /\ UNCHANGED ask
  BY Constants DEF Delivery
<1>2. Shape' /\ Known' /\ RepliesFromDetok'
  BY <1>1, ShapeKept, KnownKept, PlainKept
<1>3. SUFFICES ASSUME NEW u \in Uids PROVE Flows(u)'
  BY <1>2 DEF Delivery, Flow
<1>4. Flows(u)
  BY DEF Delivery, Flow
<1>5. ASSUME NEW v \in Uids, Request(v) PROVE Flows(u)'
  BY <1>1, <1>4, <1>5, RequestFlows
<1>6. ASSUME NEW v \in Uids, Api(v) PROVE Flows(u)'
  BY <1>1, <1>4, <1>6, ApiFlows
<1>7. CASE Listen
  BY <1>1, <1>4, <1>7, ListenFlows
<1>8. ASSUME NEW w \in Workers, Tokenize(w) \/ SendOn(w) PROVE Flows(u)'
  <2>1. PICK x \in Uids : Sent(w, x)
    BY <1>1, <1>8, WorkerSends DEF Shape
  <2> QED BY <1>1, <1>4, <2>1, SendFlows
<1>9. CASE Detokenize
  BY <1>1, <1>4, <1>9, DetokenizeFlows
<1>10. CASE Reply
  <2>1. PICK msg : Continues(msg)
    BY <1>1, <1>10, Replied DEF Shape
  <2> QED BY <1>1, <1>4, <2>1, ReplyFlows
<1>11. CASE UNCHANGED vars \/ \E w \in Workers : Receive(w)
  <2>1. UNCHANGED <<stage, got, pending, ack_map, told, to_frontend, to_detok>>
    BY <1>11 DEF vars, Receive, coroutines, maps, pipes, backend
  <2> QED BY <1>1, <1>4, <2>1, Untouched DEF Acks, Collecting, Streams
<1> QED BY <1>5, <1>6, <1>7, <1>8, <1>9, <1>10, <1>11 DEF Next, Api, Worker, Scheduler

THEOREM Delivered == Spec => []Delivery
BY DeliveryInit, DeliveryKept, PTL DEF Spec

(* Lists one behind the other, and pipes one behind the other.               *)
Counting(s, b) == b \in Nat /\ \A k \in 1..Len(s) : s[k].n = b + k

LEMMA CountingConcat ==
  ASSUME NEW V, NEW s \in Seq(V), NEW t \in Seq(V), NEW b,
         Counting(s, b), Counting(t, b + Len(s))
  PROVE  Counting(s \o t, b)
<1> DEFINE q == s \o t
           n == Len(s)
<1>1. /\ n \in Nat /\ Len(t) \in Nat /\ Len(q) = n + Len(t)
      /\ \A i \in 1..n : q[i] = s[i]
      /\ \A i \in 1..Len(t) : q[n + i] = t[i]
  BY ConcatParts
<1>2. b \in Nat /\ (\A k \in 1..n : s[k].n = b + k) /\ \A k \in 1..Len(t) : t[k].n = (b + n) + k
  BY DEF Counting
<1> HIDE DEF q, n
<1>3. ASSUME NEW k \in 1..n + Len(t) PROVE q[k].n = b + k
  <2>1. CASE k <= n
    BY <1>1, <1>2, <2>1
  <2>2. CASE ~ (k <= n)
    <3> DEFINE i == k - n
    <3>1. i \in 1..Len(t) /\ n + i = k
      BY <1>1, <2>2
    <3> HIDE DEF i
    <3>2. q[k] = t[i] /\ t[i].n = (b + n) + i
      BY <1>1, <1>2, <3>1
    <3> QED BY <1>1, <1>2, <3>1, <3>2
  <2> QED BY <2>1, <2>2
<1> QED BY <1>1, <1>2, <1>3 DEF Counting, q

LEMMA PipesJoin ==
  ASSUME NEW V, NEW P \in Seq(V), NEW Q \in Seq(V), NEW u,
         InOrder(P, u), InOrder(Q, u), \A x \in Numbers(P, u), y \in Numbers(Q, u) : x < y
  PROVE  Numbers(P \o Q, u) = Numbers(P, u) \cup Numbers(Q, u) /\ InOrder(P \o Q, u)
<1> DEFINE S == P \o Q
           n == Len(P)
<1>1. /\ n \in Nat /\ Len(Q) \in Nat /\ Len(S) = n + Len(Q)
      /\ \A i \in 1..n : S[i] = P[i]
      /\ \A i \in 1..Len(Q) : S[n + i] = Q[i]
  BY ConcatParts
<1> HIDE DEF S
<1>2. ASSUME NEW c \in 1..Len(S) PROVE c \in 1..n \/ (c - n \in 1..Len(Q) /\ S[c] = Q[c - n])
  <2> DEFINE i == c - n
  <2>1. c \in 1..n \/ (i \in 1..Len(Q) /\ n + i = c)
    BY <1>1
  <2> HIDE DEF i
  <2>2. c \in 1..n \/ (i \in 1..Len(Q) /\ S[c] = Q[i])
    BY <1>1, <2>1
  <2> QED BY <2>2 DEF i
<1>3. ASSUME NEW x \in Numbers(S, u) PROVE x \in Numbers(P, u) \cup Numbers(Q, u)
  <2>1. PICK c \in 1..Len(S) : \E i \in RepliesTo(u, S[c]) : x = S[c][i].n
    BY <1>3 DEF Numbers
  <2>4. PICK i \in RepliesTo(u, S[c]) : x = S[c][i].n
    BY <2>1
  <2>2. CASE c \in 1..n
    <3>1. S[c] = P[c]
      BY <1>1, <2>2
    <3> QED BY <2>2, <2>4, <3>1 DEF Numbers
  <2>3. CASE c - n \in 1..Len(Q) /\ S[c] = Q[c - n]
    <3> DEFINE d == c - n
    <3>1. d \in 1..Len(Q) /\ S[c] = Q[d]
      BY <2>3
    <3> HIDE DEF d
    <3>2. x \in Numbers(Q, u)
      BY <2>4, <3>1 DEF Numbers
    <3> QED BY <3>2
  <2> QED BY <1>2, <2>2, <2>3
<1>4. ASSUME NEW x \in Numbers(P, u) PROVE x \in Numbers(S, u)
  <2>1. PICK c \in 1..n : \E i \in RepliesTo(u, P[c]) : x = P[c][i].n
    BY <1>4 DEF Numbers
  <2>2. c \in 1..Len(S) /\ S[c] = P[c]
    BY <1>1
  <2> QED BY <2>1, <2>2 DEF Numbers
<1>5. ASSUME NEW x \in Numbers(Q, u) PROVE x \in Numbers(S, u)
  <2>1. PICK c \in 1..Len(Q) : \E i \in RepliesTo(u, Q[c]) : x = Q[c][i].n
    BY <1>5 DEF Numbers
  <2>2. n + c \in 1..Len(S) /\ S[n + c] = Q[c]
    BY <1>1
  <2> QED BY <2>1, <2>2 DEF Numbers
<1>6. ASSUME NEW c \in 1..Len(S), NEW d \in 1..Len(S),
             NEW i \in RepliesTo(u, S[c]), NEW j \in RepliesTo(u, S[d]),
             c < d \/ (c = d /\ i < j)
      PROVE  S[c][i].n < S[d][j].n
  <2>1. CASE c \in 1..n /\ d \in 1..n
    BY <1>1, <1>6, <2>1 DEF InOrder
  <2>2. CASE c \in 1..n /\ d - n \in 1..Len(Q) /\ S[d] = Q[d - n]
    <3>1. S[c] = P[c]
      BY <1>1, <2>2
    <3>2. S[c][i].n \in Numbers(P, u)
      BY <2>2, <3>1 DEF Numbers
    <3>3. S[d][j].n \in Numbers(Q, u)
      BY <2>2 DEF Numbers
    <3> QED BY <3>2, <3>3
  <2>3. CASE c - n \in 1..Len(Q) /\ S[c] = Q[c - n] /\ d - n \in 1..Len(Q) /\ S[d] = Q[d - n]
    <3>1. c - n < d - n \/ (c - n = d - n /\ i < j)
      BY <1>1, <1>6
    <3> QED BY <2>3, <3>1 DEF InOrder
  <2>4. CASE c - n \in 1..Len(Q) /\ d \in 1..n
    BY <1>1, <1>6, <2>4
  <2> QED BY <1>2, <2>1, <2>2, <2>3, <2>4
<1>7. InOrder(S, u)
  BY <1>6 DEF InOrder
<1> QED BY <1>3, <1>4, <1>5, <1>7 DEF S

(* As long as a client is there, the replies it has, those that its coroutine *)
(* holds or will find in its list, and those in the pipes of the detokenizer  *)
(* are the tokens 1 .. told of its answer, each in one place and in order.    *)
THEOREM NothingIsLost == Spec => []NothingLost
<1>1. ASSUME Delivery, NEW u \in Uids, stage[u] \in {"prompt", "wait", "yield"}
      PROVE  /\ \A k \in 1..Len(Mine(u)) : Mine(u)[k].n = k
             /\ Numbers(Underway, u) = Len(Mine(u)) + 1 .. told[u]
             /\ InOrder(Underway, u)
  <2> DEFINE F == to_frontend[Detok]
             D == to_detok
             g == got[u]
             p == pending[u]
             a == Acks(u)
  <2>1. Counted(u) /\ Coming(u) /\ Shape
    BY <1>1 DEF Delivery, Flow, Flows, Collecting
  <2>2. a = ack_map[u]
    BY <1>1, <2>1 DEF Shape, Keys, Acks
  <2>3. /\ g \in Seq(ItemsOf(u)) /\ p \in Seq(ItemsOf(u)) /\ a \in Seq(ItemsOf(u))
        /\ F \in Seq(Seq(Items)) /\ D \in Seq(Seq(Items))
    BY <2>1, AcksTyped DEF Shape, Types, TypedReplies, TypedPipes, Workers
  <2>4. Len(g) \in Nat /\ Len(p) \in Nat /\ Len(a) \in Nat
    BY <2>3, LenProperties
  <2>5. Counting(g, 0) /\ Counting(p, 0 + Len(g)) /\ Counting(a, 0 + (Len(g) + Len(p)))
    <3>1. /\ \A k \in 1..Len(g) : g[k].n = k
          /\ \A k \in 1..Len(p) : p[k].n = Len(g) + k
          /\ \A k \in 1..Len(a) : a[k].n = (Len(g) + Len(p)) + k
      BY <2>1 DEF Counted, Base
    <3> HIDE DEF g, p, a
    <3> QED BY <2>4, <3>1 DEF Counting
  <2>6. Mine(u) = (g \o p) \o a
    BY <2>2 DEF Mine
  <2>7. Here(u) = (Len(g) + Len(p)) + Len(a)
    BY DEF Here, Base
  <2>8. /\ Numbers(F, u) \cup Numbers(D, u) = Here(u) + 1 .. told[u]
        /\ \A x \in Numbers(F, u), y \in Numbers(D, u) : x < y
        /\ InOrder(F, u) /\ InOrder(D, u)
    BY <2>1 DEF Coming
  <2> HIDE DEF F, D, g, p, a
  <2>9. g \o p \in Seq(ItemsOf(u)) /\ Len(g \o p) = Len(g) + Len(p)
    BY <2>3, ConcatParts
  <2>10. Counting(g \o p, 0)
    BY <2>3, <2>5, CountingConcat
  <2>11. Len((g \o p) \o a) = Here(u)
    BY <2>3, <2>7, <2>9, ConcatParts
  <2>12. Counting((g \o p) \o a, 0)
    BY <2>3, <2>5, <2>9, <2>10, CountingConcat
  <2>13. ASSUME NEW k \in 1..Len(Mine(u)) PROVE Mine(u)[k].n = k
    <3>1. Mine(u)[k].n = 0 + k
      BY <2>6, <2>12 DEF Counting
    <3>2. Len(Mine(u)) \in Nat
      BY <2>1, <2>6, <2>11, AcksTyped
    <3> QED BY <3>1, <3>2
  <2>14. Underway = F \o D
    BY DEF Underway, F, D
  <2>15. Numbers(F \o D, u) = Numbers(F, u) \cup Numbers(D, u) /\ InOrder(F \o D, u)
    BY <2>3, <2>8, PipesJoin
  <2> QED BY <2>6, <2>8, <2>11, <2>13, <2>14, <2>15
<1>2. Delivery => NothingLost
  BY <1>1 DEF NothingLost
<1> QED BY <1>2, Delivered, PTL

(* A stream that is over has no entry left that a late prompt or reply could  *)
(* bring back; an answer that is not streamed is over only when it is whole,  *)
(* so that no reply can come behind it.                                       *)
THEOREM OverIsForgotten == Spec => []Forgotten
<1>1. ASSUME Delivery, NEW u \in Uids, stage[u] = "over", ~ Streams(u)
      PROVE  ack_map[u] = <<>> /\ pending[u] = <<>>
  <2>1. Counted(u) /\ Whole(u) /\ Shape
    BY <1>1 DEF Delivery, Flow, Flows, Collecting
  <2>2. pending[u] = <<>> /\ Len(pending[u]) = 0
    BY <1>1, <2>1, EmptySeq DEF Shape, Holding
  <2>3. u \in DOMAIN ack_map /\ Acks(u) = ack_map[u]
    BY <1>1, <2>1 DEF Shape, Keys, Acks
  <2>4. Len(got[u]) = ask[u].length /\ told[u] <= ask[u].length
    BY <1>1, <2>1 DEF Whole, Shape, Types, TypedReplies
  <2>5. Len(got[u]) + Len(pending[u]) + Len(Acks(u)) <= told[u]
    BY <2>1 DEF Counted, Here, Base
  <2>6. Acks(u) \in Seq(ItemsOf(u)) /\ Len(Acks(u)) \in Nat /\ Len(got[u]) \in Nat /\ told[u] \in Nat
    BY <2>1, AcksTyped
  <2>7. Len(Acks(u)) = 0
    BY <2>2, <2>4, <2>5, <2>6
  <2> QED BY <2>2, <2>3, <2>6, <2>7, EmptySeq
<1>2. Delivery => Forgotten
  BY <1>1 DEF Forgotten, Delivery, Shape, Keys
<1> QED BY <1>2, Delivered, PTL

-----------------------------------------------------------------------------
(* When one worker does both jobs, either the prompt of a request that waits *)
(* for it is in front of its replies in the pipe, or nothing of the request  *)
(* has got to the scheduler.                                                 *)

NotSent(u) ==
  /\ u \notin serving
  /\ \A w \in Workers : u \notin Range(to_backend[w]) /\ u \notin Jobs(w)
  /\ Numbers(to_frontend[Detok], u) = {} /\ Numbers(to_detok, u) = {}

IsPrompt(u, items) == \E i \in 1..Len(items) : items[i].uid = u /\ items[i].n = 0

Ahead(u, pipe) ==
  \E m \in 1..Len(pipe) : /\ IsPrompt(u, pipe[m])
                          /\ \A b \in 1..m - 1 : RepliesTo(u, pipe[b]) = {}

PromptOnTime(u) ==
  stage[u] = "prompt" /\ ~ prompt_event[u] =>
    ack_map[u] = <<>> /\ (NotSent(u) \/ Ahead(u, to_frontend[Detok]))

OneWorker == \A w \in Workers \ {Detok} : to_worker[w] = <<>> /\ sends[w] = <<>>

Prompts == shared => OneWorker /\ \A u \in Uids : PromptOnTime(u)

LEMMA NoNumbers ==
  ASSUME NEW pipe, NEW u, Numbers(pipe, u) = {}, NEW m \in 1..Len(pipe)
  PROVE  RepliesTo(u, pipe[m]) = {} /\ In(pipe[m], u) = {}
<1>1. ASSUME NEW i \in RepliesTo(u, pipe[m]) PROVE FALSE
  <2>1. pipe[m][i].n \in {pipe[m][j].n : j \in RepliesTo(u, pipe[m])}
    OBVIOUS
  <2>2. pipe[m][i].n \in Numbers(pipe, u)
    BY <2>1 DEF Numbers
  <2> QED BY <2>2
<1>2. RepliesTo(u, pipe[m]) = {}
  BY <1>1
<1> QED BY <1>2 DEF In

LEMMA AheadPush ==
  ASSUME NEW V, NEW P \in Seq(V), NEW x \in V, NEW u, Ahead(u, P)
  PROVE  Ahead(u, Append(P, x))
<1> DEFINE Q == Append(P, x)
<1>1. /\ Len(P) \in Nat /\ Len(Q) = Len(P) + 1
      /\ \A i \in 1..Len(P) : Q[i] = P[i]
  BY AppendProperties, LenProperties
<1> HIDE DEF Q
<1>2. PICK m \in 1..Len(P) : IsPrompt(u, P[m]) /\ \A b \in 1..m - 1 : RepliesTo(u, P[b]) = {}
  BY DEF Ahead
<1>3. m \in 1..Len(Q) /\ Q[m] = P[m]
  BY <1>1
<1>4. ASSUME NEW b \in 1..m - 1 PROVE RepliesTo(u, Q[b]) = {}
  <2>1. b \in 1..Len(P)
    BY <1>1
  <2> QED BY <1>1, <1>2, <2>1
<1> QED BY <1>2, <1>3, <1>4 DEF Ahead, Q

(* A prompt at the end of a pipe without replies is ahead of them.           *)
LEMMA AheadLast ==
  ASSUME NEW V, NEW P \in Seq(V), NEW x \in V, NEW u, Numbers(P, u) = {}, IsPrompt(u, x)
  PROVE  Ahead(u, Append(P, x))
<1> DEFINE Q == Append(P, x)
<1>1. /\ Len(P) \in Nat /\ Len(Q) = Len(P) + 1
      /\ \A i \in 1..Len(P) : Q[i] = P[i]
      /\ Q[Len(P) + 1] = x
  BY AppendProperties, LenProperties
<1> HIDE DEF Q
<1> DEFINE m == Len(P) + 1
<1>2. m \in 1..Len(Q) /\ IsPrompt(u, Q[m])
  BY <1>1
<1>3. ASSUME NEW b \in 1..m - 1 PROVE RepliesTo(u, Q[b]) = {}
  <2>1. b \in 1..Len(P) /\ Q[b] = P[b]
    BY <1>1
  <2> QED BY <2>1, NoNumbers
<1> HIDE DEF m
<1> QED BY <1>2, <1>3 DEF Ahead, Q

(* The head of a pipe is the prompt, or it has no reply and the prompt is     *)
(* still in front of the replies.                                             *)
LEMMA AheadPop ==
  ASSUME NEW V, NEW P \in Seq(V), P # <<>>, NEW u, Ahead(u, P)
  PROVE  \/ IsPrompt(u, Head(P))
         \/ RepliesTo(u, Head(P)) = {} /\ Ahead(u, Tail(P))
<1> DEFINE Q == Tail(P)
<1>1. /\ Len(P) \in Nat /\ Len(P) >= 1 /\ Len(Q) = Len(P) - 1
      /\ \A i \in 1..Len(Q) : Q[i] = P[i + 1]
      /\ Head(P) = P[1]
  BY HeadTailProperties, LenProperties, EmptySeq
<1> HIDE DEF Q
<1>2. PICK m \in 1..Len(P) : IsPrompt(u, P[m]) /\ \A b \in 1..m - 1 : RepliesTo(u, P[b]) = {}
  BY DEF Ahead
<1>3. CASE m = 1
  BY <1>1, <1>2, <1>3
<1>4. CASE m # 1
  <2> DEFINE k == m - 1
  <2>1. 1 \in 1..m - 1 /\ RepliesTo(u, P[1]) = {}
    <3>1. 1 \in 1..m - 1
      BY <1>1, <1>4
    <3> QED BY <1>2, <3>1
  <2>2. k \in 1..Len(Q) /\ k + 1 = m
    BY <1>1, <1>4
  <2>3. ASSUME NEW b \in 1..k - 1 PROVE RepliesTo(u, Q[b]) = {}
    <3>1. b + 1 \in 1..m - 1 /\ b \in 1..Len(Q)
      BY <1>1, <2>2
    <3> QED BY <1>1, <1>2, <3>1
  <2> HIDE DEF k
  <2>4. IsPrompt(u, Q[k])
    BY <1>1, <1>2, <2>2
  <2>5. Ahead(u, Q)
    BY <2>2, <2>3, <2>4 DEF Ahead
  <2> QED BY <1>1, <2>1, <2>5 DEF Q
<1> QED BY <1>3, <1>4

(* A step that leaves the pipes and the coroutine of u alone.                 *)
LEMMA PromptUntouched ==
  ASSUME NEW u \in Uids, PromptOnTime(u),
         stage'[u] = "prompt" => stage[u] = "prompt" /\ prompt_event'[u] = prompt_event[u],
         stage'[u] = "prompt" => ack_map'[u] = ack_map[u],
         NotSent(u) => NotSent(u)' \/ Ahead(u, to_frontend'[Detok]),
         Ahead(u, to_frontend[Detok]) => Ahead(u, to_frontend'[Detok])
  PROVE  PromptOnTime(u)'
BY DEF PromptOnTime

LEMMA RequestPrompts ==
  ASSUME Delivery, Prompts, shared, NEW v \in Uids, Request(v), NEW u \in Uids
  PROVE  PromptOnTime(u)'
<1>0. Shape /\ Flows(v) /\ PromptOnTime(u) /\ stage \in [Uids -> Stages]
  BY DEF Delivery, Flow, Prompts, Shape, Types, TypedMaps
<1>1. /\ ack_map' = Put(ack_map, v, <<>>) /\ prompt_event' = Put(prompt_event, v, FALSE)
      /\ \E s : stage' = [stage EXCEPT ![v] = s]
      /\ UNCHANGED <<to_backend, to_detok, to_frontend, sends, serving>>
  BY DEF Request, backend
<1>2. (NotSent(u)' <=> NotSent(u)) /\ to_frontend'[Detok] = to_frontend[Detok]
  BY <1>1 DEF NotSent, Jobs
<1>3. CASE u # v
  <2>1. stage'[u] = stage[u]
    BY <1>0, <1>1, <1>3
  <2>2. stage[u] = "prompt" => u \in DOMAIN ack_map /\ u \in DOMAIN prompt_event
    BY <1>0 DEF Shape, Keys
  <2>3. stage'[u] = "prompt" => ack_map'[u] = ack_map[u] /\ prompt_event'[u] = prompt_event[u]
    BY <1>1, <1>3, <2>1, <2>2 DEF Put
  <2> QED BY <1>0, <1>2, <2>1, <2>3 DEF PromptOnTime
<1>4. CASE u = v
  <2>1. stage[u] = "none"
    BY <1>0, <1>4 DEF Request, Shape, Keys, Uids
  <2>2. Unknown(u)
    BY <2>1 DEF Delivery, Known
  <2>3. Numbers(to_frontend[Detok], u) \cup Numbers(to_detok, u) = Here(u) + 1 .. told[u]
    BY <1>0, <1>4, <2>1 DEF Flows, Collecting, Coming
  <2>4. Here(u) \in Nat /\ told[u] = 0
    BY <1>0, <2>2, AcksTyped DEF Unknown
  <2>5. Here(u) + 1 .. told[u] = {}
    BY <2>4
  <2>6. NotSent(u)
    BY <2>2, <2>3, <2>5 DEF NotSent, Unknown
  <2>7. ack_map'[u] = <<>>
    BY <1>1, <1>4 DEF Put
  <2> QED BY <1>2, <2>6, <2>7 DEF PromptOnTime
<1> QED BY <1>3, <1>4

LEMMA ApiPrompts ==
  ASSUME Shape, NEW v \in Uids, Api(v), NEW u \in Uids, PromptOnTime(u)
  PROVE  PromptOnTime(u)'
<1>1. UNCHANGED <<to_backend, to_detok, to_frontend, sends, serving>>
  BY ApiLeavesBackend DEF pipes, backend
<1>2. (NotSent(u)' <=> NotSent(u)) /\ to_frontend'[Detok] = to_frontend[Detok]
  BY <1>1 DEF NotSent, Jobs
<1>3. stage \in [Uids -> Stages]
  BY DEF Shape, Types, TypedMaps
<1>4. \E s \in {"wait", "yield", "abort", "over"} : stage' = [stage EXCEPT ![v] = s]
  BY DEF Api, Coroutine, PromptArrives, PromptTimesOut, WakeUp, Consume, Leave, AbortUser
<1>5. CASE u = v
  <2>1. stage'[u] # "prompt"
    BY <1>3, <1>4, <1>5
  <2> QED BY <2>1 DEF PromptOnTime
<1>6. CASE u # v
  <2>1. stage'[u] = stage[u]
    BY <1>3, <1>4, <1>6
  <2>2. stage[u] = "prompt" => u \in DOMAIN ack_map /\ u \in DOMAIN prompt_event
    BY DEF Shape, Keys
  <2>3. prompt_event' = prompt_event \/ prompt_event' = Pop(prompt_event, v)
    BY DEF Api, Coroutine, PromptArrives, PromptTimesOut, WakeUp, Consume, Leave, AbortUser
  <2>4. \/ ack_map' = ack_map \/ ack_map' = Pop(ack_map, v)
        \/ ack_map' = [ack_map EXCEPT ![v] = <<>>]
    BY DEF Api, Coroutine, PromptArrives, PromptTimesOut, WakeUp, Consume, Leave, AbortUser,
           WithoutAcks, AcksAfterYields
  <2>5. stage[u] = "prompt" => ack_map'[u] = ack_map[u]
    <3> SUFFICES ASSUME stage[u] = "prompt" PROVE ack_map'[u] = ack_map[u]
      OBVIOUS
    <3>1. CASE ack_map' = Pop(ack_map, v)
      BY <1>6, <2>2, <3>1 DEF Pop
    <3>2. CASE ack_map' = [ack_map EXCEPT ![v] = <<>>]
      BY <1>6, <2>2, <3>2
    <3> QED BY <2>4, <3>1, <3>2
  <2>6. stage[u] = "prompt" => prompt_event'[u] = prompt_event[u]
    BY <1>6, <2>2, <2>3 DEF Pop
  <2> QED BY <1>2, <2>1, <2>5, <2>6 DEF PromptOnTime
<1> QED BY <1>5, <1>6

LEMMA ListenPrompts ==
  ASSUME Delivery, Listen, NEW u \in Uids, PromptOnTime(u)
  PROVE  PromptOnTime(u)'
<1>0. Shape
  BY DEF Delivery
<1>1. PICK w \in Workers :
        /\ to_frontend[w] # <<>>
        /\ ack_map' = [v \in DOMAIN ack_map |->
                        ack_map[v] \o At(Head(to_frontend[w]), RepliesTo(v, Head(to_frontend[w])))]
        /\ prompt_event' = [v \in DOMAIN prompt_event |->
             prompt_event[v] \/ v \in {x \in Uids : \E i \in 1..Len(Head(to_frontend[w])) :
                Head(to_frontend[w])[i].uid = x /\ Head(to_frontend[w])[i].n = 0}]
        /\ to_frontend' = [to_frontend EXCEPT ![w] = Tail(@)]
        /\ UNCHANGED <<stage, to_backend, to_detok, sends, serving>>
  BY DEF Listen, coroutines, backend
<1> DEFINE items == Head(to_frontend[w])
           R == RepliesTo(u, items)
           t == At(items, R)
           F == to_frontend[Detok]
<1>2. /\ to_frontend \in [Workers -> Seq(Seq(Items))] /\ Detok \in Workers
      /\ to_frontend[w] \in Seq(Seq(Items)) /\ F \in Seq(Seq(Items))
  BY <1>0 DEF Shape, Types, TypedPipes, Workers
<1> SUFFICES ASSUME stage'[u] = "prompt", ~ prompt_event'[u]
             PROVE  ack_map'[u] = <<>> /\ (NotSent(u)' \/ Ahead(u, to_frontend'[Detok]))
  BY DEF PromptOnTime
<1>3. u \in DOMAIN ack_map /\ u \in DOMAIN prompt_event /\ stage[u] = "prompt"
  BY <1>0, <1>1 DEF Shape, Keys
<1>4. ~ prompt_event[u] /\ ~ IsPrompt(u, items)
  <2>1. prompt_event'[u] = (prompt_event[u] \/ \E i \in 1..Len(items) : items[i].uid = u /\ items[i].n = 0)
    BY <1>1, <1>3
  <2> QED BY <2>1 DEF IsPrompt
<1>5. ack_map[u] = <<>> /\ (NotSent(u) \/ Ahead(u, F))
  BY <1>3, <1>4 DEF PromptOnTime
<1>6. R = {} => ack_map'[u] = <<>>
  <2> SUFFICES ASSUME R = {} PROVE ack_map'[u] = <<>>
    OBVIOUS
  <2>1. t = <<>>
    BY <1>0, <1>1, Filed DEF Shape, Types
  <2>2. ack_map'[u] = <<>> \o t
    BY <1>1, <1>3, <1>5
  <2>3. <<>> \o <<>> = <<>>
    OBVIOUS
  <2> QED BY <2>1, <2>2, <2>3
<1> HIDE DEF t
<1>7. CASE w # Detok
  <2>1. items \in Range(to_frontend[w])
    BY <1>1, <1>2, RangePop
  <2>2. R = {}
    BY <1>7, <2>1 DEF Delivery, RepliesFromDetok
  <2>3. to_frontend'[Detok] = F
    BY <1>1, <1>2, <1>7
  <2>4. NotSent(u)' <=> NotSent(u)
    BY <1>1, <2>3 DEF NotSent, Jobs
  <2> QED BY <1>5, <1>6, <2>2, <2>3, <2>4
<1>8. CASE w = Detok
  <2>1. F # <<>> /\ items = Head(F) /\ to_frontend'[Detok] = Tail(F)
    BY <1>1, <1>2, <1>8
  <2> HIDE DEF items, F
  <2>2. CASE NotSent(u)
    <3>1. Numbers(F, u) = {} /\ Len(F) \in Nat /\ Len(F) >= 1 /\ Head(F) = F[1]
      BY <1>2, <2>1, <2>2, EmptySeq, HeadTailProperties, LenProperties DEF NotSent, F
    <3>2. Numbers(Tail(F), u) = {}
      <4>1. Numbers(F, u) = In(Head(F), u) \cup Numbers(Tail(F), u)
        BY <1>2, <2>1, NumbersPop
      <4> QED BY <3>1, <4>1
    <3>3. R = {}
      <4>1. 1 \in 1..Len(F)
        BY <3>1
      <4> QED BY <2>1, <3>1, <4>1, NoNumbers
    <3>4. NotSent(u)'
      BY <1>1, <2>1, <2>2, <3>2 DEF NotSent, Jobs
    <3> QED BY <1>6, <3>3, <3>4
  <2>3. CASE Ahead(u, F)
    <3>1. R = {} /\ Ahead(u, Tail(F))
      BY <1>2, <1>4, <2>1, <2>3, AheadPop
    <3> QED BY <1>6, <2>1, <3>1
  <2> QED BY <1>5, <2>2, <2>3 DEF F
<1> QED BY <1>7, <1>8

LEMMA PromptIsOne == ASSUME NEW u PROVE IsPrompt(u, Prompt(u))
<1>1. Len(Prompt(u)) = 1 /\ Prompt(u)[1].uid = u /\ Prompt(u)[1].n = 0
  BY DEF Prompt
<1> QED BY <1>1 DEF IsPrompt

(* The one worker sends the prompt first.                                    *)
LEMMA SentPrompts ==
  ASSUME Delivery, OneWorker, NEW w \in Workers, NEW x \in Uids, Sent(w, x),
         NEW u \in Uids, PromptOnTime(u)
  PROVE  PromptOnTime(u)'
<1>0. Shape
  BY DEF Delivery
<1> DEFINE F == to_frontend[Detok]
<1>1. w = Detok
  <2>1. CASE w # Detok
    <3>1. to_worker[w] = <<>> /\ sends[w] = <<>>
      BY <2>1 DEF OneWorker
    <3>2. Range(to_worker[w]) = {} /\ Jobs(w) = {}
      BY <3>1 DEF Jobs, Range
    <3> QED BY <3>2 DEF Sent
  <2> QED BY <2>1
<1>2. /\ to_frontend \in [Workers -> Seq(Seq(Items))] /\ Detok \in Workers
      /\ F \in Seq(Seq(Items)) /\ Prompt(x) \in Seq(Items)
      /\ to_backend \in [Workers -> Seq(Uids)] /\ to_backend[w] \in Seq(Uids)
  BY <1>0, PromptIsMessage DEF Shape, Types, TypedPipes, Workers
<1>3. UNCHANGED <<stage, ack_map, prompt_event, to_detok, serving>>
  BY DEF Sent, coroutines, maps
<1>4. to_frontend'[Detok] = F \/ to_frontend'[Detok] = Append(F, Prompt(x))
  BY <1>1, <1>2 DEF Sent
<1>5. Numbers(Append(F, Prompt(x)), u) = Numbers(F, u)
  <2> HIDE DEF F
  <2> DEFINE m == Prompt(x)
  <2>1. In(m, u) = {}
    BY PromptsAreNoReplies DEF In
  <2>2. F \in Seq(Seq(Items)) /\ m \in Seq(Items)
    BY <1>2
  <2> HIDE DEF m
  <2>3. Numbers(Append(F, m), u) = Numbers(F, u) \cup In(m, u)
    BY <2>2, NumbersPush
  <2>4. Numbers(Append(F, m), u) = Numbers(F, u)
    BY <2>1, <2>3
  <2> QED BY <2>4 DEF m
<1>6. SUFFICES ASSUME stage[u] = "prompt", ~ prompt_event[u]
               PROVE  NotSent(u)' \/ Ahead(u, to_frontend'[Detok])
  BY <1>3 DEF PromptOnTime
<1>7. CASE Ahead(u, F)
  <2> HIDE DEF F
  <2> DEFINE m == Prompt(x)
  <2>1. m \in Seq(Items)
    BY <1>2
  <2>2. to_frontend'[Detok] = F \/ to_frontend'[Detok] = Append(F, m)
    BY <1>4
  <2> HIDE DEF m
  <2>3. Ahead(u, Append(F, m))
    BY <1>2, <1>7, <2>1, AheadPush
  <2> QED BY <1>7, <2>2, <2>3
<1>8. CASE NotSent(u) /\ u # x
  <2>1. Numbers(to_frontend'[Detok], u) = {} /\ Numbers(to_detok', u) = {}
    BY <1>3, <1>4, <1>5, <1>8 DEF NotSent
  <2>2. Range(Append(to_backend[w], x)) = Range(to_backend[w]) \cup {x}
    BY <1>2, RangePush
  <2>3. \A v \in Workers : u \notin Range(to_backend'[v])
    <3>1. CASE to_backend' = to_backend
      BY <1>8, <3>1 DEF NotSent
    <3>2. CASE to_backend' = [to_backend EXCEPT ![w] = Append(@, x)]
      <4>1. to_backend'[w] = Append(to_backend[w], x)
            /\ \A v \in Workers \ {w} : to_backend'[v] = to_backend[v]
        BY <1>2, <3>2
      <4> QED BY <1>8, <2>2, <4>1 DEF NotSent
    <3> QED BY <3>1, <3>2 DEF Sent
  <2>4. \A v \in Workers : u \notin Jobs(v)'
    <3>1. u \notin Jobs(w)'
      BY <1>8 DEF Sent, NotSent
    <3>2. \A v \in Workers \ {w} : Jobs(v)' = Jobs(v)
      BY DEF Sent, Jobs
    <3> QED BY <1>8, <3>1, <3>2 DEF NotSent
  <2> QED BY <1>3, <1>8, <2>1, <2>3, <2>4 DEF NotSent
<1>9. CASE NotSent(u) /\ u = x
  <2>1. Rendered(u) /\ u \notin Jobs(w) /\ Numbers(F, u) = {}
    BY <1>0, <1>6, <1>9 DEF Shape, Keys, NotSent
  <2>2. to_frontend'[Detok] = Append(F, Prompt(u))
    BY <1>1, <1>2, <1>9, <2>1 DEF Sent
  <2> HIDE DEF F
  <2> DEFINE m == Prompt(u)
  <2>3. m \in Seq(Items) /\ IsPrompt(u, m)
    BY <1>2, <1>9, PromptIsOne
  <2>4. to_frontend'[Detok] = Append(F, m)
    BY <2>2
  <2> HIDE DEF m
  <2>5. Ahead(u, Append(F, m))
    BY <1>2, <2>1, <2>3, AheadLast
  <2> QED BY <2>4, <2>5
<1> QED BY <1>6, <1>7, <1>8, <1>9 DEF PromptOnTime

LEMMA DetokenizePrompts ==
  ASSUME Shape, Detokenize, NEW u \in Uids, PromptOnTime(u)
  PROVE  PromptOnTime(u)'
<1> DEFINE F == to_frontend[Detok]
           D == to_detok
           m == Head(D)
<1>1. /\ UNCHANGED <<stage, ack_map, prompt_event, to_backend, sends, serving>>
      /\ D # <<>> /\ to_detok' = Tail(D)
      /\ to_frontend' = [to_frontend EXCEPT ![Detok] = Append(@, m)]
  BY DEF Detokenize, coroutines, maps
<1>2. /\ to_frontend \in [Workers -> Seq(Seq(Items))] /\ Detok \in Workers
      /\ F \in Seq(Seq(Items)) /\ D \in Seq(Seq(Items))
  BY DEF Shape, Types, TypedPipes, Workers
<1>3. to_frontend'[Detok] = Append(F, m)
  BY <1>1, <1>2
<1>4. m \in Seq(Items)
  BY <1>1, <1>2, HeadTailProperties
<1>5. ASSUME NotSent(u) PROVE NotSent(u)'
  <2>1. Numbers(F, u) = {} /\ Numbers(D, u) = {}
    BY <1>5 DEF NotSent
  <2> HIDE DEF F, D
  <2>2. Numbers(D, u) = In(m, u) \cup Numbers(Tail(D), u)
    BY <1>1, <1>2, NumbersPop
  <2> HIDE DEF m
  <2>3. Numbers(Append(F, m), u) = Numbers(F, u) \cup In(m, u)
    BY <1>2, <1>4, NumbersPush
  <2>4. Numbers(to_frontend'[Detok], u) = {} /\ Numbers(to_detok', u) = {}
    BY <1>1, <1>3, <2>1, <2>2, <2>3
  <2> QED BY <1>1, <1>5, <2>4 DEF NotSent, Jobs
<1>6. Ahead(u, F) => Ahead(u, to_frontend'[Detok])
  <2> HIDE DEF F, m
  <2>1. Ahead(u, F) => Ahead(u, Append(F, m))
    BY <1>2, <1>4, AheadPush
  <2> QED BY <1>3, <2>1
<1> QED BY <1>1, <1>5, <1>6, PromptUntouched

(* The scheduler sends nothing for a request that it does not have.          *)
LEMMA ReplyPrompts ==
  ASSUME Shape, NEW msg, Continues(msg), NEW u \in Uids, PromptOnTime(u)
  PROVE  PromptOnTime(u)'
<1> DEFINE D == to_detok
<1>1. /\ UNCHANGED <<stage, ack_map, prompt_event, to_backend, to_frontend, sends>>
      /\ to_detok' = Append(D, msg) /\ msg \in Seq(Items) /\ serving' \subseteq serving
      /\ In(msg, u) = told[u] + 1 .. told'[u] /\ (u \notin serving => told'[u] = told[u])
  BY DEF Continues, coroutines, maps
<1>2. D \in Seq(Seq(Items)) /\ told[u] \in Nat
  BY DEF Shape, Types, TypedPipes, TypedReplies
<1>3. ASSUME NotSent(u) PROVE NotSent(u)'
  <2>1. In(msg, u) = {}
    <3>1. In(msg, u) = told[u] + 1 .. told[u]
      BY <1>1, <1>3 DEF NotSent
    <3> QED BY <1>2, <3>1
  <2>2. Numbers(D, u) = {}
    BY <1>3 DEF NotSent
  <2> HIDE DEF D
  <2>3. Numbers(Append(D, msg), u) = Numbers(D, u) \cup In(msg, u)
    <3>1. D \in Seq(Seq(Items)) /\ msg \in Seq(Items)
      BY <1>1, <1>2
    <3> QED BY <3>1, NumbersPush
  <2>4. Numbers(to_detok', u) = {}
    BY <1>1, <2>1, <2>2, <2>3
  <2>5. \A w \in Workers : Jobs(w)' = Jobs(w)
    BY <1>1 DEF Jobs
  <2> QED BY <1>1, <1>3, <2>4, <2>5 DEF NotSent
<1> QED BY <1>1, <1>3, PromptUntouched

LEMMA ReceivePrompts ==
  ASSUME Shape, NEW w \in Workers, Receive(w), NEW u \in Uids, PromptOnTime(u)
  PROVE  PromptOnTime(u)'
<1>1. to_backend \in [Workers -> Seq(Uids)] /\ to_backend[w] \in Seq(Uids)
  BY DEF Shape, Types, TypedPipes
<1>2. /\ to_backend[w] # <<>> /\ to_backend' = [to_backend EXCEPT ![w] = Tail(@)]
      /\ serving' \subseteq serving \cup {Head(to_backend[w])}
      /\ UNCHANGED <<stage, ack_map, prompt_event, to_detok, to_frontend, sends>>
  BY DEF Receive, coroutines, maps
<1>3. /\ Head(to_backend[w]) \in Range(to_backend[w])
      /\ Range(Tail(to_backend[w])) \subseteq Range(to_backend[w])
  BY <1>1, <1>2, RangePop
<1>4. ASSUME NotSent(u) PROVE NotSent(u)'
  <2>1. u \notin serving'
    BY <1>2, <1>3, <1>4 DEF NotSent
  <2>2. \A v \in Workers : u \notin Range(to_backend'[v])
    BY <1>1, <1>2, <1>3, <1>4 DEF NotSent
  <2> QED BY <1>2, <1>4, <2>1, <2>2 DEF NotSent, Jobs
<1> QED BY <1>2, <1>4, PromptUntouched

LEMMA OneWorkerKept ==
  ASSUME Shape, shared, OneWorker, [Next]_vars PROVE OneWorker'
<1>1. /\ to_worker \in [Workers -> Seq(Uids)] /\ Detok \in Workers
      /\ \A w \in Workers : sends[w] \in Seq({"frontend", "backend"} \X Uids)
  BY DEF Shape, Types, TypedPipes, Workers
<1>2. ASSUME NEW u \in Uids, Request(u) PROVE OneWorker'
  <2>1. to_worker' = [to_worker EXCEPT ![Detok] = Append(@, u)] /\ sends' = sends
    BY <1>2 DEF Request, TokenizeWorkers, backend
  <2> QED BY <1>1, <2>1 DEF OneWorker
<1>3. ASSUME NEW u \in Uids, Api(u) PROVE OneWorker'
  BY <1>3, ApiLeavesBackend DEF OneWorker, pipes, backend
<1>4. ASSUME NEW w \in Workers, Tokenize(w) \/ SendOn(w) PROVE OneWorker'
  <2>1. PICK x \in Uids : Sent(w, x)
    BY <1>4, WorkerSends DEF Shape
  <2>2. w = Detok
    <3>1. w # Detok => Range(to_worker[w]) = {} /\ Jobs(w) = {}
      BY DEF OneWorker, Jobs, Range
    <3> QED BY <2>1, <3>1 DEF Sent
  <2>3. ASSUME NEW v \in Workers \ {Detok} PROVE to_worker'[v] = <<>> /\ sends'[v] = <<>>
    <3>1. sends'[v] = sends[v] /\ Range(to_worker'[v]) \subseteq Range(to_worker[v])
          /\ to_worker'[v] \in Seq(Uids)
      BY <2>1, <2>2 DEF Sent
    <3>2. to_worker[v] = <<>> /\ sends[v] = <<>>
      BY DEF OneWorker
    <3>3. Range(to_worker'[v]) = {}
      <4>1. Range(to_worker[v]) = {}
        BY <3>2 DEF Range
      <4> QED BY <3>1, <4>1
    <3>4. to_worker'[v] = <<>>
      <4> DEFINE s == to_worker'[v]
      <4>1. s \in Seq(Uids) /\ Range(s) = {}
        BY <3>1, <3>3
      <4> HIDE DEF s
      <4>2. CASE s # <<>>
        <5>1. Head(s) \in Range(s)
          BY <4>1, <4>2, RangePop
        <5> QED BY <4>1, <5>1
      <4> QED BY <4>2 DEF s
    <3> QED BY <3>1, <3>2, <3>4
  <2> QED BY <2>3 DEF OneWorker
<1>5. CASE Listen \/ Detokenize \/ Scheduler \/ UNCHANGED vars
  <2>1. UNCHANGED <<to_worker, sends>>
    BY <1>5 DEF Listen, Detokenize, Scheduler, Receive, Reply, vars, pipes, backend
  <2> QED BY <2>1 DEF OneWorker
<1> QED BY <1>2, <1>3, <1>4, <1>5 DEF Next, Api, Worker

LEMMA PromptsKept == ASSUME Delivery, Prompts, [Next]_vars PROVE Prompts'
<1> SUFFICES ASSUME shared PROVE OneWorker' /\ \A u \in Uids : PromptOnTime(u)'
  BY Constants DEF Prompts
<1>1. Shape /\ OneWorker /\ \A u \in Uids : PromptOnTime(u)
  BY DEF Delivery, Prompts
<1>2. OneWorker'
  BY <1>1, OneWorkerKept
<1>3. SUFFICES ASSUME NEW u \in Uids PROVE PromptOnTime(u)'
  BY <1>2
<1>4. ASSUME NEW v \in Uids, Request(v) PROVE PromptOnTime(u)'
  BY <1>4, RequestPrompts
<1>5. ASSUME NEW v \in Uids, Api(v) PROVE PromptOnTime(u)'
  BY <1>1, <1>5, ApiPrompts
<1>6. CASE Listen
  BY <1>1, <1>6, ListenPrompts
<1>7. ASSUME NEW w \in Workers, Tokenize(w) \/ SendOn(w) PROVE PromptOnTime(u)'
  <2>1. PICK x \in Uids : Sent(w, x)
    BY <1>1, <1>7, WorkerSends DEF Shape
  <2> QED BY <1>1, <2>1, SentPrompts
<1>8. CASE Detokenize
  BY <1>1, <1>8, DetokenizePrompts
<1>9. ASSUME NEW w \in Workers, Receive(w) PROVE PromptOnTime(u)'
  BY <1>1, <1>9, ReceivePrompts
<1>10. CASE Reply
  <2>1. PICK msg : Continues(msg)
    BY <1>1, <1>10, Replied DEF Shape
  <2> QED BY <1>1, <2>1, ReplyPrompts
<1>11. CASE UNCHANGED vars
  BY <1>1, <1>11 DEF vars, coroutines, maps, pipes, backend, PromptOnTime, NotSent, Jobs
<1> QED BY <1>4, <1>5, <1>6, <1>7, <1>8, <1>9, <1>10, <1>11 DEF Next, Api, Worker, Scheduler

(* With one worker for both jobs, no token of an answer gets to a coroutine   *)
(* that has not got its prompt yet: "sending it before the request reaches    *)
(* the backend" does guarantee that it arrives first.                         *)
THEOREM PromptsComeFirst == Spec => []PromptFirst
<1>1. Init => Prompts
  <2> SUFFICES ASSUME Init PROVE Prompts
    OBVIOUS
  <2>1. OneWorker
    BY DEF Init, OneWorker
  <2>2. \A u \in Uids : stage[u] = "none"
    BY DEF Init
  <2> QED BY <2>1, <2>2 DEF Prompts, PromptOnTime
<1>2. Delivery /\ Prompts /\ [Next]_vars => Prompts'
  BY PromptsKept
<1>3. Prompts => PromptFirst
  BY DEF Prompts, PromptOnTime, PromptFirst
<1> QED BY <1>1, <1>2, <1>3, Delivered, PTL DEF Spec
=============================================================================
