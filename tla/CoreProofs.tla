------------------------------ MODULE CoreProofs ------------------------------
(***************************************************************************)
(* What both engines' proofs rest on.  First what the operators of         *)
(* RadixTree preserve, for every tree.  Then the part of the inductive     *)
(* invariant that any engine keeps: what the lists of requests hold while  *)
(* the thread is where it is, how long a request's ids, row and lengths    *)
(* are, and that the cache is a radix tree; and that each step of          *)
(* SchedulerCore, which both engines share, keeps it.  Last, sums.         *)
(***************************************************************************)
EXTENDS SchedulerCore, TLAPS, FunctionTheorems, FiniteSetTheorems,
        SequenceTheorems, WellFoundedInduction

-----------------------------------------------------------------------------
(* Prefixes of sequences.                                                   *)

(* The first n elements of a sequence. *)
LEMMA FirstElements ==
  ASSUME NEW V, NEW s \in Seq(V), NEW n \in 0..Len(s)
  PROVE  /\ SubSeq(s, 1, n) \in Seq(V)
         /\ Len(SubSeq(s, 1, n)) = n
         /\ \A i \in 1..n : SubSeq(s, 1, n)[i] = s[i]
  OBVIOUS

(* IsPrefix, element by element. *)
LEMMA PrefixPointwise ==
  ASSUME NEW V, NEW s \in Seq(V), NEW t \in Seq(V)
  PROVE  IsPrefix(s, t) <=> /\ Len(s) <= Len(t)
                            /\ \A i \in 1..Len(s) : s[i] = t[i]
<1>1. CASE Len(s) <= Len(t)
  <2>1. SubSeq(s, 1, Len(s)) = s
    BY SubSeqFull
  <2>2. /\ SubSeq(t, 1, Len(s)) \in Seq(V)
        /\ Len(SubSeq(t, 1, Len(s))) = Len(s)
        /\ \A i \in 1..Len(s) : SubSeq(t, 1, Len(s))[i] = t[i]
    BY <1>1, FirstElements, LenProperties
  <2>3. (\A i \in 1..Len(s) : s[i] = t[i]) => s = SubSeq(t, 1, Len(s))
    BY <2>2, SeqEqual
  <2> QED BY <1>1, <2>1, <2>2, <2>3 DEF IsPrefix
<1>2. CASE ~ Len(s) <= Len(t)
  BY <1>2 DEF IsPrefix
<1> QED BY <1>1, <1>2

(* A prefix is what SubSeq gives, and Prefixes is the set of them. *)
LEMMA PrefixIsSubSeq ==
  ASSUME NEW V, NEW s \in Seq(V), NEW t \in Seq(V), IsPrefix(s, t)
  PROVE  s = SubSeq(t, 1, Len(s))
BY SubSeqFull DEF IsPrefix

(* The first n elements of a sequence are a prefix of it.                    *)
LEMMA SubSeqIsPrefix ==
  ASSUME NEW V, NEW t \in Seq(V), NEW n \in 0..Len(t)
  PROVE  IsPrefix(SubSeq(t, 1, n), t)
<1>1. Len(t) \in Nat
  BY LenProperties
<1>2. /\ SubSeq(t, 1, n) \in Seq(V)
      /\ Len(SubSeq(t, 1, n)) <= Len(t)
      /\ \A i \in 1..Len(SubSeq(t, 1, n)) : SubSeq(t, 1, n)[i] = t[i]
  BY <1>1, FirstElements
<1> QED BY <1>2, PrefixPointwise

(* Prefixes(t) is the set of the prefixes of t.                              *)
LEMMA PrefixesMembers ==
  ASSUME NEW V, NEW t \in Seq(V)
  PROVE  /\ Prefixes(t) \subseteq Seq(V)
         /\ \A s \in Seq(V) : s \in Prefixes(t) <=> IsPrefix(s, t)
<1>1. Len(t) \in Nat
  BY LenProperties
<1>2. Prefixes(t) \subseteq Seq(V)
  BY FirstElements DEF Prefixes
<1>3. ASSUME NEW s \in Seq(V), IsPrefix(s, t) PROVE s \in Prefixes(t)
  <2>1. Len(s) \in 0..Len(t)
    BY <1>1, <1>3, LenProperties DEF IsPrefix
  <2> QED BY <1>3, <2>1, PrefixIsSubSeq DEF Prefixes
<1>4. ASSUME NEW s \in Seq(V), s \in Prefixes(t) PROVE IsPrefix(s, t)
  BY <1>4, SubSeqIsPrefix DEF Prefixes
<1> QED BY <1>2, <1>3, <1>4

(* A prefix of a prefix is a prefix.                                         *)
LEMMA PrefixTransitive ==
  ASSUME NEW V, NEW r \in Seq(V), NEW s \in Seq(V), NEW t \in Seq(V),
         IsPrefix(r, s), IsPrefix(s, t)
  PROVE  IsPrefix(r, t)
<1>1. Len(r) \in Nat /\ Len(s) \in Nat /\ Len(t) \in Nat
  BY LenProperties
<1>2. Len(r) <= Len(t)
  BY <1>1, PrefixPointwise
<1>3. \A i \in 1..Len(r) : r[i] = t[i]
  BY <1>1, PrefixPointwise
<1> QED BY <1>2, <1>3, PrefixPointwise

(* Of two prefixes of a sequence the shorter is a prefix of the longer. *)
LEMMA PrefixesNested ==
  ASSUME NEW V, NEW r \in Seq(V), NEW s \in Seq(V), NEW t \in Seq(V),
         IsPrefix(r, t), IsPrefix(s, t), Len(r) <= Len(s)
  PROVE  IsPrefix(r, s)
<1>1. Len(r) \in Nat /\ Len(s) \in Nat /\ Len(t) \in Nat
  BY LenProperties
<1>2. \A i \in 1..Len(r) : r[i] = s[i]
  BY <1>1, PrefixPointwise
<1> QED BY <1>2, PrefixPointwise

(* A prefix that is not shorter is the whole.                                *)
LEMMA PrefixSameLength ==
  ASSUME NEW V, NEW s \in Seq(V), NEW t \in Seq(V), IsPrefix(s, t), Len(s) = Len(t)
  PROVE  s = t
BY PrefixPointwise, SeqEqual

(* The root lies on the way to every node.                                   *)
LEMMA RootIsPrefix ==
  ASSUME NEW V, NEW t \in Seq(V)
  PROVE  /\ Root \in Seq(V) /\ Len(Root) = 0 /\ IsPrefix(Root, t) /\ IsPrefix(t, t)
         /\ t # Root => Len(t) > 0
<1>1. Root \in Seq(V) /\ Len(Root) = 0 /\ (t # Root => Len(t) > 0)
  BY EmptySeq DEF Root
<1>2. IsPrefix(Root, t)
  <2>1. Len(t) \in Nat /\ Len(Root) <= Len(t)
    BY <1>1, LenProperties
  <2>2. \A i \in 1..Len(Root) : Root[i] = t[i]
    BY <1>1
  <2> QED BY <1>1, <2>1, <2>2, PrefixPointwise
<1>3. IsPrefix(t, t)
  BY LenProperties DEF IsPrefix
<1> QED BY <1>1, <1>2, <1>3

(* The natural numbers are well founded. *)
LEMMA LeastNatural ==
  ASSUME NEW N, N \subseteq Nat, N # {}
  PROVE  \E k \in N : \A m \in N : k <= m
<1> DEFINE Less == OpToRel(<, Nat)
<1>1. \A m, k \in Nat : m < k => <<m, k>> \in Less
  BY Zenon DEF OpToRel
<1>2. IsWellFoundedOn(Less, Nat)
  BY NatLessThanWellFounded, Zenon
<1> HIDE DEF Less
<1>3. PICK k \in N : \A m \in N : ~ (<<m, k>> \in Less)
  BY <1>2, WFMin
<1>4. \A m \in N : ~ (m < k)
  BY <1>1, <1>3
<1> QED BY <1>3, <1>4

(* A nonempty set of sequences of bounded length has a longest and a        *)
(* shortest one.                                                            *)
LEMMA LongestExists ==
  ASSUME NEW V, NEW T, T \subseteq Seq(V), T # {},
         NEW n \in Nat, \A s \in T : Len(s) <= n
  PROVE  \E s \in T : \A t \in T : Len(t) <= Len(s)
<1> DEFINE gaps == {n - Len(s) : s \in T}
<1>1. gaps \subseteq Nat /\ gaps # {}
  BY LenProperties
<1>2. PICK g \in gaps : \A k \in gaps : g <= k
  <2> HIDE DEF gaps
  <2> QED BY <1>1, LeastNatural
<1>3. PICK s \in T : g = n - Len(s)
  BY <1>2
<1>4. \A t \in T : n - Len(s) <= n - Len(t)
  BY <1>2, <1>3
<1>5. \A t \in T : Len(t) \in Nat
  BY LenProperties
<1> QED BY <1>3, <1>4, <1>5

(* A set of sequences has a shortest member.                                 *)
LEMMA ShortestExists ==
  ASSUME NEW V, NEW T, T \subseteq Seq(V), T # {}
  PROVE  \E s \in T : \A t \in T : Len(s) <= Len(t)
<1> DEFINE lens == {Len(s) : s \in T}
<1>1. lens \subseteq Nat /\ lens # {}
  BY LenProperties
<1>2. PICK g \in lens : \A k \in lens : g <= k
  <2> HIDE DEF lens
  <2> QED BY <1>1, LeastNatural
<1> QED BY <1>2

-----------------------------------------------------------------------------
(* A tree over the tokens V, with pages P and slots S.  It caches exactly    *)
(* the prefixes of its nodes (closed), and paths part at nodes (branching).  *)
Closed(t, V) ==
  \A p \in Seq(V) : p \in DOMAIN t.page <=> p # Root /\ \E n \in t.nodes : IsPrefix(p, n)

Branching(t, V) ==
  \A m, n \in t.nodes : \A p \in Seq(V) :
    IsPrefix(p, m) /\ IsPrefix(p, n) =>
      \E k \in t.nodes : IsPrefix(p, k) /\ IsPrefix(k, m) /\ IsPrefix(k, n)

Fields == {"nodes", "page", "ref", "snap", "evictable", "protected"}

IsTree(t, V, P, S) ==
  /\ DOMAIN t = Fields
  /\ t.nodes \subseteq Seq(V) /\ Root \in t.nodes
  /\ DOMAIN t.page \subseteq Seq(V)
  /\ t.page \in [DOMAIN t.page -> P]
  /\ t.ref \in [t.nodes -> Int] /\ t.ref[Root] = 1
  /\ t.snap \in [t.nodes -> S \cup {None}]
  /\ Closed(t, V)
  /\ Branching(t, V)

(* The empty cache is one. *)
LEMMA EmptyTreeIsTree ==
  ASSUME NEW V, NEW P, NEW S
  PROVE  IsTree(EmptyTree, V, P, S)
<1> DEFINE t == EmptyTree
<1>1. /\ DOMAIN t = Fields /\ t.nodes = {Root} /\ t.page = <<>>
      /\ t.ref = [n \in {Root} |-> 1] /\ t.snap = [n \in {Root} |-> None]
  BY DEF EmptyTree, Fields
<1>2. DOMAIN t.page = {}
  BY <1>1
<1> HIDE DEF t
<1>3. Root \in Seq(V) /\ Len(Root) = 0
  BY EmptySeq DEF Root
<1>4. \A p \in Seq(V) : IsPrefix(p, Root) => p = Root
  BY <1>3, LenProperties, EmptySeq DEF IsPrefix, Root
<1>5. Closed(t, V)
  BY <1>1, <1>2, <1>4 DEF Closed
<1>6. Branching(t, V)
  BY <1>1, <1>3, RootIsPrefix DEF Branching
<1>7. t.page \in [DOMAIN t.page -> P]
  BY <1>1, <1>2
<1>8. /\ t.ref \in [t.nodes -> Int] /\ t.ref[Root] = 1
      /\ t.snap \in [t.nodes -> S \cup {None}]
  BY <1>1
<1>9. IsTree(t, V, P, S)
  BY <1>1, <1>2, <1>3, <1>5, <1>6, <1>7, <1>8 DEF IsTree
<1> QED BY <1>9 DEF t

(* Matched is what it says: the longest cached prefix, and every cached      *)
(* prefix is a prefix of it.                                                 *)
LEMMA MatchedIsLongest ==
  ASSUME NEW t, NEW V, NEW P, NEW S, IsTree(t, V, P, S), NEW ids \in Seq(V)
  PROVE  /\ Matched(t, ids) \in Seq(V)
         /\ IsPrefix(Matched(t, ids), ids)
         /\ \E n \in t.nodes : IsPrefix(Matched(t, ids), n)
         /\ \A q \in Seq(V), n \in t.nodes :
              IsPrefix(q, ids) /\ IsPrefix(q, n) => IsPrefix(q, Matched(t, ids))
<1> DEFINE C == {q \in Prefixes(ids) : q = Root \/ q \in DOMAIN t.page}
           p == Matched(t, ids)
<1>1. C \subseteq Seq(V) /\ \A q \in C : Len(q) <= Len(ids)
  BY PrefixesMembers DEF IsPrefix
<1>2. Root \in C
  BY RootIsPrefix, PrefixesMembers
<1>3. \E q \in C : \A r \in C : Len(r) <= Len(q)
  <2> HIDE DEF C
  <2>1. Len(ids) \in Nat
    BY LenProperties
  <2> QED BY <1>1, <1>2, <2>1, LongestExists
<1>4. p \in C /\ \A r \in C : Len(r) <= Len(p)
  BY <1>3 DEF Matched
<1>5. p \in Seq(V) /\ IsPrefix(p, ids)
  BY <1>1, <1>4, PrefixesMembers
<1>6. \E n \in t.nodes : IsPrefix(p, n)
  <2>1. CASE p = Root
    BY <2>1, RootIsPrefix DEF IsTree
  <2>2. CASE p \in DOMAIN t.page
    BY <2>2, <1>5 DEF IsTree, Closed
  <2> QED BY <1>4, <2>1, <2>2
<1>7. ASSUME NEW q \in Seq(V), NEW n \in t.nodes, IsPrefix(q, ids), IsPrefix(q, n)
      PROVE  IsPrefix(q, p)
  <2>1. q \in C
    BY <1>7, PrefixesMembers DEF IsTree, Closed
  <2>2. Len(q) <= Len(p)
    BY <2>1, <1>4
  <2> HIDE DEF p
  <2> QED BY <1>5, <1>7, <2>2, PrefixesNested
<1> HIDE DEF p
<1> QED BY <1>5, <1>6, <1>7 DEF p

-----------------------------------------------------------------------------
(* Splitting at p, a prefix of some node, makes p a node without a snapshot  *)
(* and with the lock count of the next node below; no other node changes.    *)
LEMMA SplitResult ==
  ASSUME NEW t, NEW V, NEW P, NEW S, IsTree(t, V, P, S),
         NEW p \in Seq(V), \E n \in t.nodes : IsPrefix(p, n)
  PROVE  LET u == Split(t, p)
         IN /\ DOMAIN u = Fields
            /\ u.nodes = t.nodes \cup {p} /\ u.page = t.page
            /\ u.evictable = t.evictable /\ u.protected = t.protected
            /\ u.snap \in [u.nodes -> S \cup {None}]
            /\ u.ref \in [u.nodes -> Int]
            /\ \A n \in t.nodes : u.snap[n] = t.snap[n] /\ u.ref[n] = t.ref[n]
            /\ p \notin t.nodes =>
                 /\ u.snap[p] = None
                 /\ \E b \in t.nodes :
                      /\ IsStrictPrefix(p, b) /\ u.ref[p] = t.ref[b]
                      /\ \A m \in t.nodes : IsStrictPrefix(p, m) => Len(b) <= Len(m)
<1> DEFINE u == Split(t, p)
<1>1. CASE p \in t.nodes
  <2>1. u = t
    BY <1>1 DEF Split
  <2>2. t.nodes \cup {p} = t.nodes
    BY <1>1
  <2> QED BY <1>1, <2>1, <2>2 DEF IsTree
<1>2. CASE p \notin t.nodes
  <2> DEFINE T == {m \in t.nodes : IsStrictPrefix(p, m)}
             below == CHOOSE n \in t.nodes :
                        /\ IsStrictPrefix(p, n)
                        /\ \A m \in t.nodes : IsStrictPrefix(p, m) => Len(n) <= Len(m)
  <2>1. T \subseteq Seq(V) /\ T # {}
    BY <1>2 DEF IsTree, IsStrictPrefix
  <2>2. \E b \in T : \A m \in T : Len(b) <= Len(m)
    <3> HIDE DEF T
    <3> QED BY <2>1, ShortestExists
  <2>3. /\ below \in t.nodes /\ IsStrictPrefix(p, below)
        /\ \A m \in t.nodes : IsStrictPrefix(p, m) => Len(below) <= Len(m)
    BY <2>2
  <2>4. u = [t EXCEPT !.nodes = @ \cup {p},
                      !.ref = [n \in t.nodes \cup {p} |-> IF n = p THEN @[below] ELSE @[n]],
                      !.snap = [n \in t.nodes \cup {p} |-> IF n = p THEN None ELSE @[n]]]
    BY <1>2 DEF Split
  <2> HIDE DEF below, u
  <2>5. DOMAIN t = Fields
    BY DEF IsTree
  <2>6. /\ DOMAIN u = Fields
        /\ u.nodes = t.nodes \cup {p} /\ u.page = t.page
        /\ u.evictable = t.evictable /\ u.protected = t.protected
        /\ u.ref = [n \in t.nodes \cup {p} |-> IF n = p THEN t.ref[below] ELSE t.ref[n]]
        /\ u.snap = [n \in t.nodes \cup {p} |-> IF n = p THEN None ELSE t.snap[n]]
    BY <2>4, <2>5 DEF Fields
  <2>7. t.ref \in [t.nodes -> Int] /\ t.snap \in [t.nodes -> S \cup {None}]
    BY DEF IsTree
  <2>8. /\ u.snap \in [u.nodes -> S \cup {None}]
        /\ u.ref \in [u.nodes -> Int]
        /\ \A n \in t.nodes : u.snap[n] = t.snap[n] /\ u.ref[n] = t.ref[n]
        /\ u.snap[p] = None /\ u.ref[p] = t.ref[below]
    BY <1>2, <2>3, <2>6, <2>7
  <2> QED BY <2>3, <2>6, <2>8 DEF u
<1> QED BY <1>1, <1>2

(* _split_at on a path of the tree leaves a tree that caches the same.       *)
LEMMA SplitIsTree ==
  ASSUME NEW t, NEW V, NEW P, NEW S, IsTree(t, V, P, S),
         NEW p \in Seq(V), \E n \in t.nodes : IsPrefix(p, n)
  PROVE  IsTree(Split(t, p), V, P, S)
<1> DEFINE u == Split(t, p)
<1>1. /\ DOMAIN u = Fields
      /\ u.nodes = t.nodes \cup {p} /\ u.page = t.page
      /\ u.snap \in [u.nodes -> S \cup {None}]
      /\ u.ref \in [u.nodes -> Int]
      /\ \A n \in t.nodes : u.ref[n] = t.ref[n]
  BY SplitResult
<1> HIDE DEF u
<1>2. PICK w \in t.nodes : IsPrefix(p, w)
  OBVIOUS
<1>3. t.nodes \subseteq Seq(V) /\ Root \in t.nodes /\ t.ref[Root] = 1
  BY DEF IsTree
<1>4. Closed(u, V)
  <2>1. ASSUME NEW q \in Seq(V), IsPrefix(q, p) PROVE IsPrefix(q, w)
    BY <1>2, <1>3, <2>1, PrefixTransitive
  <2> QED BY <1>1, <1>2, <2>1 DEF IsTree, Closed
<1>5. Branching(u, V)
  <2> SUFFICES ASSUME NEW m \in u.nodes, NEW n \in u.nodes, NEW q \in Seq(V),
                      IsPrefix(q, m), IsPrefix(q, n)
               PROVE  \E k \in u.nodes : IsPrefix(q, k) /\ IsPrefix(k, m) /\ IsPrefix(k, n)
    BY DEF Branching
  <2>1. Branching(t, V)
    BY DEF IsTree
  <2>2. u.nodes \subseteq Seq(V) /\ \A k \in Seq(V) : IsPrefix(k, k)
    BY <1>1, <1>3, RootIsPrefix
  <2>3. CASE m \in t.nodes /\ n \in t.nodes
    BY <1>1, <2>1, <2>3 DEF Branching
  (* p and a node x of t part where w and x part, or at p itself. *)
  <2>4. ASSUME NEW x \in t.nodes, IsPrefix(q, p), IsPrefix(q, x)
        PROVE  \E k \in u.nodes : IsPrefix(q, k) /\ IsPrefix(k, p) /\ IsPrefix(k, x)
    <3>1. IsPrefix(q, w)
      BY <1>2, <1>3, <2>4, PrefixTransitive
    <3>2. PICK k \in t.nodes : IsPrefix(q, k) /\ IsPrefix(k, w) /\ IsPrefix(k, x)
      BY <2>1, <2>4, <3>1 DEF Branching
    <3>3. Len(k) \in Nat /\ Len(p) \in Nat
      BY <1>3, LenProperties
    <3>4. CASE Len(k) <= Len(p)
      BY <1>1, <1>2, <1>3, <3>2, <3>4, PrefixesNested
    <3>5. CASE Len(p) <= Len(k)
      <4>1. IsPrefix(p, k)
        BY <1>2, <1>3, <3>2, <3>5, PrefixesNested
      <4>2. IsPrefix(p, x)
        BY <1>3, <3>2, <4>1, PrefixTransitive
      <4> QED BY <1>1, <2>2, <2>4, <4>2
    <3> QED BY <3>3, <3>4, <3>5
  <2>5. CASE m = p /\ n = p
    BY <2>2, <2>5
  <2> QED BY <1>1, <2>3, <2>4, <2>5
<1>6. DOMAIN u.page \subseteq Seq(V) /\ u.page \in [DOMAIN u.page -> P]
  BY <1>1 DEF IsTree
<1>7. IsTree(u, V, P, S)
  BY <1>1, <1>3, <1>4, <1>5, <1>6 DEF IsTree
<1> QED BY <1>7 DEF u

(* Walking the tree splits it at what matched, which then is a node.         *)
LEMMA WalkResult ==
  ASSUME NEW t, NEW V, NEW P, NEW S, IsTree(t, V, P, S), NEW ids \in Seq(V)
  PROVE  /\ IsTree(Walk(t, ids), V, P, S)
         /\ Walk(t, ids).nodes = t.nodes \cup {Matched(t, ids)}
         /\ Walk(t, ids).page = t.page
         /\ \A n \in t.nodes : Walk(t, ids).snap[n] = t.snap[n]
         /\ Matched(t, ids) \notin t.nodes => Walk(t, ids).snap[Matched(t, ids)] = None
         /\ Matched(t, ids) \in Seq(V)
<1>1. Matched(t, ids) \in Seq(V) /\ \E n \in t.nodes : IsPrefix(Matched(t, ids), n)
  BY MatchedIsLongest
<1>2. IsTree(Walk(t, ids), V, P, S)
  BY <1>1, SplitIsTree DEF Walk
<1>3. /\ Walk(t, ids).nodes = t.nodes \cup {Matched(t, ids)}
      /\ Walk(t, ids).page = t.page
      /\ \A n \in t.nodes : Walk(t, ids).snap[n] = t.snap[n]
      /\ Matched(t, ids) \notin t.nodes => Walk(t, ids).snap[Matched(t, ids)] = None
  BY <1>1, SplitResult DEF Walk
<1> QED BY <1>1, <1>2, <1>3

(* The pages of a prefix of a node are pages.                                *)
LEMMA PagesOfNode ==
  ASSUME NEW t, NEW V, NEW P, NEW S, IsTree(t, V, P, S),
         NEW p \in Seq(V), \E n \in t.nodes : IsPrefix(p, n)
  PROVE  PagesOf(t, p) \in Seq(P) /\ Len(PagesOf(t, p)) = Len(p)
<1>1. PICK n \in t.nodes : IsPrefix(p, n)
  OBVIOUS
<1>2. n \in Seq(V) /\ Len(p) \in Nat
  BY LenProperties DEF IsTree
<1>3. ASSUME NEW i \in 1..Len(p)
      PROVE  t.page[SubSeq(p, 1, i)] \in P
  <2> DEFINE q == SubSeq(p, 1, i)
  <2>1. q \in Seq(V) /\ Len(q) = i /\ IsPrefix(q, p)
    BY <1>2, FirstElements, SubSeqIsPrefix
  <2> HIDE DEF q
  <2>2. IsPrefix(q, n)
    BY <1>1, <1>2, <2>1, PrefixTransitive
  <2>3. q # Root
    BY <1>2, <2>1, EmptySeq DEF Root
  <2>4. q \in DOMAIN t.page
    BY <2>1, <2>2, <2>3 DEF IsTree, Closed
  <2>5. t.page[q] \in P
    BY <2>4 DEF IsTree
  <2> QED BY <2>5 DEF q
<1>4. PagesOf(t, p) \in [1..Len(p) -> P]
  BY <1>3 DEF PagesOf
<1> QED BY <1>2, <1>4

(* Locking and unlocking change lock counts and the two sizes only.          *)
LEMMA LockResult ==
  ASSUME NEW t, NEW V, NEW P, NEW S, IsTree(t, V, P, S), NEW h
  PROVE  /\ IsTree(Lock(t, h), V, P, S)
         /\ Lock(t, h).nodes = t.nodes /\ Lock(t, h).page = t.page
         /\ Lock(t, h).snap = t.snap
<1> DEFINE u == Lock(t, h)
           moved == TotalLength(t, NewlyLocked(t, h))
           ref == [n \in t.nodes |-> IF n \in Chain(t, h) THEN t.ref[n] + 1 ELSE t.ref[n]]
<1>1. DOMAIN t = Fields
  BY DEF IsTree
<1>2. u = [t EXCEPT !.ref = ref, !.evictable = @ - moved, !.protected = @ + moved]
  BY DEF Lock
<1> HIDE DEF u, moved
<1>3. /\ DOMAIN u = Fields /\ u.nodes = t.nodes /\ u.page = t.page /\ u.snap = t.snap
      /\ u.ref = ref
  <2> HIDE DEF ref
  <2> QED BY <1>1, <1>2 DEF Fields
<1>4. Root \in t.nodes /\ Root \notin Chain(t, h) /\ t.ref \in [t.nodes -> Int] /\ t.ref[Root] = 1
  BY DEF IsTree, Chain
<1>5. ref \in [t.nodes -> Int] /\ ref[Root] = 1
  BY <1>4
<1>6. IsTree(u, V, P, S)
  BY <1>3, <1>5 DEF IsTree, Closed, Branching
<1> QED BY <1>3, <1>6 DEF u

(* unlock changes no node, page or snapshot.                                 *)
LEMMA UnlockResult ==
  ASSUME NEW t, NEW V, NEW P, NEW S, IsTree(t, V, P, S), NEW h
  PROVE  /\ IsTree(Unlock(t, h), V, P, S)
         /\ Unlock(t, h).nodes = t.nodes /\ Unlock(t, h).page = t.page
         /\ Unlock(t, h).snap = t.snap
<1> DEFINE u == Unlock(t, h)
           moved == TotalLength(t, NewlyUnlocked(t, h))
           ref == [n \in t.nodes |-> IF n \in Chain(t, h) THEN t.ref[n] - 1 ELSE t.ref[n]]
<1>1. DOMAIN t = Fields
  BY DEF IsTree
<1>2. u = [t EXCEPT !.ref = ref, !.evictable = @ + moved, !.protected = @ - moved]
  BY DEF Unlock
<1> HIDE DEF u, moved
<1>3. /\ DOMAIN u = Fields /\ u.nodes = t.nodes /\ u.page = t.page /\ u.snap = t.snap
      /\ u.ref = ref
  <2> HIDE DEF ref
  <2> QED BY <1>1, <1>2 DEF Fields
<1>4. Root \in t.nodes /\ Root \notin Chain(t, h) /\ t.ref \in [t.nodes -> Int] /\ t.ref[Root] = 1
  BY DEF IsTree, Chain
<1>5. ref \in [t.nodes -> Int] /\ ref[Root] = 1
  BY <1>4
<1>6. IsTree(u, V, P, S)
  BY <1>3, <1>5 DEF IsTree, Closed, Branching
<1> QED BY <1>3, <1>6 DEF u

(* A snapshot ancestor is a node, and a prefix of where the match ended.     *)
LEMMA SnapshotAncestorIsNode ==
  ASSUME NEW t, NEW V, NEW P, NEW S, IsTree(t, V, P, S), NEW n \in t.nodes
  PROVE  /\ SnapshotAncestor(t, n) \in t.nodes
         /\ IsPrefix(SnapshotAncestor(t, n), n)
         /\ SnapshotAncestor(t, n) # Root => t.snap[SnapshotAncestor(t, n)] # None
<1> DEFINE T == {m \in Chain(t, n) : t.snap[m] # None}
           h == SnapshotAncestor(t, n)
<1>1. /\ T \subseteq Seq(V) /\ t.nodes \subseteq Seq(V) /\ Root \in t.nodes
      /\ \A m \in T : Len(m) <= Len(n)
  BY DEF IsTree, Chain, IsPrefix
<1>2. Len(n) \in Nat /\ IsPrefix(Root, n)
  BY <1>1, LenProperties, RootIsPrefix
<1>3. \E m \in t.nodes : /\ m = Root \/ m \in T
                         /\ \A k \in T : Len(k) <= Len(m)
  <2>1. CASE T = {}
    BY <1>1, <2>1
  <2>2. CASE T # {}
    <3>1. \E m \in T : \A k \in T : Len(k) <= Len(m)
      <4> HIDE DEF T
      <4> QED BY <1>1, <1>2, <2>2, LongestExists
    <3> QED BY <3>1 DEF Chain
  <2> QED BY <2>1, <2>2
<1>4. \E m \in t.nodes : /\ m = Root \/ (m \in Chain(t, n) /\ t.snap[m] # None)
                         /\ \A k \in Chain(t, n) : t.snap[k] # None => Len(k) <= Len(m)
  BY <1>3
<1>5. h \in t.nodes /\ (h = Root \/ (h \in Chain(t, n) /\ t.snap[h] # None))
  BY <1>4 DEF SnapshotAncestor
<1> QED BY <1>2, <1>5 DEF Chain

-----------------------------------------------------------------------------
(* Evicting an unlocked leaf leaves a tree: no prefix of another node goes.  *)
LEMMA RemoveLeafResult ==
  ASSUME NEW t, NEW V, NEW P, NEW S, IsTree(t, V, P, S), NEW n \in UnlockedLeaves(t)
  PROVE  LET u == RemoveLeaf(t, n)
         IN /\ IsTree(u, V, P, S)
            /\ n \in t.nodes /\ n # Root
            /\ u.nodes = t.nodes \ {n}
            /\ \A m \in u.nodes : u.snap[m] = t.snap[m]
<1> DEFINE u == RemoveLeaf(t, n)
<1>1. /\ n \in t.nodes /\ t.ref[n] = 0 /\ \A m \in t.nodes : ~ IsStrictPrefix(n, m)
      /\ DOMAIN t = Fields /\ t.nodes \subseteq Seq(V) /\ Root \in t.nodes /\ t.ref[Root] = 1
  BY DEF UnlockedLeaves, IsTree
<1>2. n # Root
  BY <1>1
<1>3. /\ DOMAIN u = Fields /\ u.nodes = t.nodes \ {n}
      /\ u.page = Restrict(t.page, DOMAIN t.page \ Edge(t, n))
      /\ u.ref = Restrict(t.ref, t.nodes \ {n})
      /\ u.snap = Restrict(t.snap, t.nodes \ {n})
  BY <1>1 DEF RemoveLeaf, Fields
<1> HIDE DEF u
<1>4. /\ DOMAIN u.page = DOMAIN t.page \ Edge(t, n)
      /\ u.page \in [DOMAIN u.page -> P] /\ DOMAIN u.page \subseteq Seq(V)
  BY <1>3 DEF Restrict, IsTree
<1>5. u.ref \in [u.nodes -> Int] /\ u.ref[Root] = 1
  BY <1>1, <1>2, <1>3 DEF Restrict, IsTree
<1>6. /\ u.snap \in [u.nodes -> S \cup {None}]
      /\ \A m \in u.nodes : u.snap[m] = t.snap[m]
  BY <1>3 DEF Restrict, IsTree
<1>7. ASSUME NEW m \in u.nodes PROVE ~ IsPrefix(n, m)
  BY <1>1, <1>3 DEF IsStrictPrefix
<1>8. Branching(u, V)
  <2>1. Branching(t, V)
    BY DEF IsTree
  <2> QED BY <1>3, <1>7, <2>1 DEF Branching
<1>9. Closed(u, V)
  <2> SUFFICES ASSUME NEW p \in Seq(V)
               PROVE  p \in DOMAIN u.page <=> p # Root /\ \E m \in u.nodes : IsPrefix(p, m)
    BY DEF Closed
  <2>1. p \in DOMAIN t.page <=> p # Root /\ \E m \in t.nodes : IsPrefix(p, m)
    BY DEF IsTree, Closed
  <2>2. ASSUME NEW m \in u.nodes, IsPrefix(p, m), p \in Edge(t, n) PROVE FALSE
    <3>1. IsPrefix(p, n) /\ \A k \in t.nodes : IsStrictPrefix(k, n) => Len(k) < Len(p)
      BY <2>2 DEF Edge
    <3>2. m \in t.nodes
      BY <1>3
    <3>3. PICK k \in t.nodes : IsPrefix(p, k) /\ IsPrefix(k, m) /\ IsPrefix(k, n)
      BY <1>1, <2>2, <3>1, <3>2 DEF IsTree, Branching
    <3>4. k # n
      BY <1>7, <3>3
    <3>5. Len(k) < Len(p) /\ Len(p) <= Len(k) /\ Len(k) \in Nat /\ Len(p) \in Nat
      BY <1>1, <3>1, <3>3, <3>4, LenProperties DEF IsPrefix, IsStrictPrefix
    <3> QED BY <3>5
  <2>3. ASSUME IsPrefix(p, n), p \in DOMAIN t.page, p \notin Edge(t, n)
        PROVE  \E m \in u.nodes : IsPrefix(p, m)
    <3>1. PICK m \in t.nodes : IsStrictPrefix(m, n) /\ ~ (Len(m) < Len(p))
      BY <2>3 DEF Edge
    <3>2. Len(p) \in Nat /\ Len(m) \in Nat /\ Len(p) <= Len(m)
      BY <1>1, <3>1, LenProperties
    <3>3. IsPrefix(p, m)
      BY <1>1, <2>3, <3>1, <3>2, PrefixesNested DEF IsStrictPrefix
    <3> QED BY <1>3, <3>1, <3>3 DEF IsStrictPrefix
  <2> QED BY <1>3, <1>4, <2>1, <2>2, <2>3
<1>10. IsTree(u, V, P, S)
  BY <1>1, <1>2, <1>3, <1>4, <1>5, <1>6, <1>8, <1>9 DEF IsTree
<1> QED BY <1>1, <1>2, <1>3, <1>6, <1>10 DEF u

(* The pages it gives back are pages.                                        *)
LEMMA EvictedPagesArePages ==
  ASSUME NEW t, NEW V, NEW P, NEW S, IsTree(t, V, P, S), NEW n \in t.nodes, n # Root
  PROVE  EvictedPages(t, n) \in Seq(P)
<1> DEFINE T == {m \in t.nodes : IsStrictPrefix(m, n)}
<1>1. t.nodes \subseteq Seq(V) /\ Root \in t.nodes
  BY DEF IsTree
<1>2. Len(n) \in Nat /\ IsPrefix(n, n) /\ IsPrefix(Root, n)
  BY <1>1, LenProperties, RootIsPrefix
<1>3. T # {} /\ T \subseteq Seq(V) /\ \A m \in T : Len(m) <= Len(n)
  BY <1>1, <1>2 DEF IsStrictPrefix, IsPrefix
<1>4. \E m \in T : \A k \in T : Len(k) <= Len(m)
  <2> HIDE DEF T
  <2> QED BY <1>2, <1>3, LongestExists
<1>5. \E m \in t.nodes : /\ IsStrictPrefix(m, n)
                         /\ \A k \in t.nodes : IsStrictPrefix(k, n) => Len(k) <= Len(m)
  BY <1>4
<1>6. Parent(t, n) \in t.nodes
  BY <1>5 DEF Parent
<1>7. Len(Parent(t, n)) \in Nat
  BY <1>1, <1>6, LenProperties
<1>8. PagesOf(t, n) \in Seq(P) /\ Len(PagesOf(t, n)) = Len(n)
  BY <1>1, <1>2, PagesOfNode
<1>9. \A i \in Len(Parent(t, n)) + 1 .. Len(n) : PagesOf(t, n)[i] \in P
  BY <1>2, <1>7, <1>8, ElementOfSeq
<1> QED BY <1>2, <1>7, <1>9, SubSeqProperties DEF EvictedPages

(* Taking a snapshot away, or hanging one in, leaves a tree.                 *)
LEMMA SnapResult ==
  ASSUME NEW t, NEW V, NEW P, NEW S, IsTree(t, V, P, S),
         NEW u, DOMAIN u = Fields,
         u.nodes = t.nodes, u.page = t.page, u.ref = t.ref,
         u.snap \in [t.nodes -> S \cup {None}]
  PROVE  IsTree(u, V, P, S)
BY DEF IsTree, Closed, Branching

-----------------------------------------------------------------------------
(* A new leaf below p, where p is all of ids that is cached.                 *)
LEMMA AddLeafResult ==
  ASSUME NEW t, NEW V, NEW P, NEW S, IsTree(t, V, P, S),
         NEW ids \in Seq(V), NEW pages \in Seq(P), Len(ids) <= Len(pages),
         NEW slot \in S \cup {None},
         NEW p \in t.nodes, p # ids, IsPrefix(p, ids),
         \A q \in Seq(V), n \in t.nodes :
           IsPrefix(q, ids) /\ IsPrefix(q, n) => IsPrefix(q, p)
  PROVE  LET u == AddLeaf(t, p, ids, pages, slot)
         IN /\ IsTree(u, V, P, S)
            /\ ids \notin t.nodes
            /\ u.nodes = t.nodes \cup {ids}
            /\ \A n \in t.nodes : u.snap[n] = t.snap[n]
            /\ u.snap[ids] = slot
<1> DEFINE u == AddLeaf(t, p, ids, pages, slot)
           D == DOMAIN t.page \cup (Prefixes(ids) \ {Root})
           grown == t.evictable + Len(ids) - Len(p)
<1>1. /\ DOMAIN t = Fields /\ t.nodes \subseteq Seq(V) /\ Root \in t.nodes
      /\ t.ref \in [t.nodes -> Int] /\ t.ref[Root] = 1
      /\ t.snap \in [t.nodes -> S \cup {None}]
      /\ DOMAIN t.page \subseteq Seq(V) /\ t.page \in [DOMAIN t.page -> P]
  BY DEF IsTree
<1>2. Len(ids) \in Nat /\ Len(p) \in Nat /\ IsPrefix(ids, ids)
  BY <1>1, LenProperties, RootIsPrefix
<1>3. ids \notin t.nodes
  <2> SUFFICES ASSUME ids \in t.nodes PROVE FALSE
    OBVIOUS
  <2>1. IsPrefix(ids, p)
    BY <1>2
  <2>2. Len(ids) = Len(p)
    BY <1>2, <2>1 DEF IsPrefix
  <2> QED BY <1>1, <2>2, PrefixSameLength
<1>4. u = [t EXCEPT !.nodes = t.nodes \cup {ids},
                    !.page = [q \in D |-> IF q \in DOMAIN t.page THEN t.page[q]
                                          ELSE pages[Len(q)]],
                    !.ref = [n \in t.nodes \cup {ids} |-> IF n = ids THEN 0 ELSE t.ref[n]],
                    !.snap = [n \in t.nodes \cup {ids} |-> IF n = ids THEN slot ELSE t.snap[n]],
                    !.evictable = grown]
  BY <1>1 DEF AddLeaf, InsertedPage, Fields
<1> HIDE DEF u, grown
<1>5. /\ DOMAIN u = Fields /\ u.nodes = t.nodes \cup {ids}
      /\ u.page = [q \in D |-> IF q \in DOMAIN t.page THEN t.page[q] ELSE pages[Len(q)]]
      /\ u.ref = [n \in t.nodes \cup {ids} |-> IF n = ids THEN 0 ELSE t.ref[n]]
      /\ u.snap = [n \in t.nodes \cup {ids} |-> IF n = ids THEN slot ELSE t.snap[n]]
  BY <1>1, <1>4 DEF Fields
<1>6. /\ u.ref \in [u.nodes -> Int] /\ u.ref[Root] = 1
      /\ u.snap \in [u.nodes -> S \cup {None}] /\ u.snap[ids] = slot
      /\ \A n \in t.nodes : u.snap[n] = t.snap[n]
  BY <1>1, <1>3, <1>5
<1>7. Prefixes(ids) \subseteq Seq(V) /\ \A q \in Seq(V) : q \in Prefixes(ids) <=> IsPrefix(q, ids)
  BY PrefixesMembers
<1>8. DOMAIN u.page = D /\ D \subseteq Seq(V)
  BY <1>1, <1>5, <1>7
<1>9. u.page \in [DOMAIN u.page -> P]
  <2>1. ASSUME NEW q \in Prefixes(ids) \ {Root} PROVE pages[Len(q)] \in P
    <3>1. Len(q) \in Nat /\ Len(q) > 0 /\ Len(q) <= Len(ids)
      BY <1>7, <2>1, LenProperties, RootIsPrefix DEF IsPrefix
    <3>2. Len(pages) \in Nat
      BY LenProperties
    <3> QED BY <1>2, <3>1, <3>2, ElementOfSeq
  <2> QED BY <1>1, <1>5, <1>8, <2>1
<1>10. Closed(u, V)
  <2>1. Closed(t, V)
    BY DEF IsTree
  <2> QED BY <1>5, <1>7, <1>8, <2>1 DEF Closed
<1>11. Branching(u, V)
  <2> SUFFICES ASSUME NEW m \in u.nodes, NEW n \in u.nodes, NEW q \in Seq(V),
                      IsPrefix(q, m), IsPrefix(q, n)
               PROVE  \E k \in u.nodes : IsPrefix(q, k) /\ IsPrefix(k, m) /\ IsPrefix(k, n)
    BY DEF Branching
  <2>1. Branching(t, V)
    BY DEF IsTree
  <2>2. CASE m \in t.nodes /\ n \in t.nodes
    BY <1>5, <2>1, <2>2 DEF Branching
  (* ids and an old node part where p and that node do. *)
  <2>3. ASSUME NEW x \in t.nodes, IsPrefix(q, ids), IsPrefix(q, x)
        PROVE  \E k \in u.nodes : IsPrefix(q, k) /\ IsPrefix(k, ids) /\ IsPrefix(k, x)
    <3>1. IsPrefix(q, p)
      BY <2>3
    <3>2. PICK k \in t.nodes : IsPrefix(q, k) /\ IsPrefix(k, p) /\ IsPrefix(k, x)
      BY <2>1, <2>3, <3>1 DEF Branching
    <3>3. IsPrefix(k, ids)
      BY <1>1, <3>2, PrefixTransitive
    <3> QED BY <1>5, <3>2, <3>3
  <2>4. CASE m = ids /\ n = ids
    BY <1>2, <2>4
  <2> QED BY <1>5, <2>2, <2>3, <2>4
<1>12. IsTree(u, V, P, S)
  BY <1>1, <1>5, <1>6, <1>8, <1>9, <1>10, <1>11 DEF IsTree
<1> QED BY <1>3, <1>5, <1>6, <1>12 DEF u

(* Inserting a sequence: the old nodes stay with their snapshots, and the    *)
(* slot hangs at the sequence's node exactly if the tree keeps it.           *)
LEMMA InsertResult ==
  ASSUME NEW t, NEW V, NEW P, NEW S, IsTree(t, V, P, S),
         NEW ids \in Seq(V), NEW pages \in Seq(P), Len(ids) <= Len(pages),
         NEW slot \in S \cup {None}
  PROVE  LET u == Insert(t, ids, pages, slot)
             Old(n) == IF n \in t.nodes THEN t.snap[n] ELSE None
         IN /\ IsTree(u, V, P, S)
            /\ t.nodes \subseteq u.nodes
            /\ KeepsSlot(t, ids) => /\ ids \in u.nodes /\ u.snap[ids] = slot
                                    /\ Old(ids) = None
                                    /\ \A n \in u.nodes \ {ids} : u.snap[n] = Old(n)
            /\ ~ KeepsSlot(t, ids) => \A n \in u.nodes : u.snap[n] = Old(n)
<1> DEFINE p == Matched(t, ids)
           w == Walk(t, ids)
           u == Insert(t, ids, pages, slot)
           Old(n) == IF n \in t.nodes THEN t.snap[n] ELSE None
<1>1. /\ p \in Seq(V) /\ IsPrefix(p, ids)
      /\ \A q \in Seq(V), n \in t.nodes : IsPrefix(q, ids) /\ IsPrefix(q, n) => IsPrefix(q, p)
  BY MatchedIsLongest
<1>2. /\ IsTree(w, V, P, S) /\ w.nodes = t.nodes \cup {p}
      /\ \A n \in w.nodes : w.snap[n] = Old(n)
  BY WalkResult
<1>3. u = IF p # ids THEN AddLeaf(w, p, ids, pages, slot) ELSE Adopt(w, ids, slot)
  BY DEF Insert, Walk
<1>4. KeepsSlot(t, ids) <=> p # ids \/ w.snap[ids] = None
  BY DEF KeepsSlot
<1> HIDE DEF p, w, u
<1>5. CASE p # ids
  <2>1. \A q \in Seq(V), n \in w.nodes : IsPrefix(q, ids) /\ IsPrefix(q, n) => IsPrefix(q, p)
    BY <1>1, <1>2
  <2>2. /\ IsTree(u, V, P, S)
        /\ ids \notin w.nodes
        /\ u.nodes = w.nodes \cup {ids}
        /\ \A n \in w.nodes : u.snap[n] = w.snap[n]
        /\ u.snap[ids] = slot
    <3>1. u = AddLeaf(w, p, ids, pages, slot)
      BY <1>3, <1>5
    <3>2. IsTree(w, V, P, S) /\ p \in w.nodes /\ IsPrefix(p, ids)
      BY <1>1, <1>2
    <3> QED BY <1>5, <2>1, <3>1, <3>2, AddLeafResult
  <2> QED BY <1>2, <1>4, <1>5, <2>2 DEF u
<1>6. CASE p = ids /\ w.snap[ids] = None
  <2>1. u = [w EXCEPT !.snap[ids] = slot]
    BY <1>3, <1>6 DEF Adopt
  <2>2. IsTree(w, V, P, S) /\ ids \in w.nodes
    BY <1>2, <1>6
  <2>3. DOMAIN w = Fields /\ w.snap \in [w.nodes -> S \cup {None}]
    BY <2>2 DEF IsTree
  <2>4. /\ DOMAIN u = Fields /\ u.nodes = w.nodes /\ u.page = w.page /\ u.ref = w.ref
        /\ u.snap = [w.snap EXCEPT ![ids] = slot]
    BY <2>1, <2>3 DEF Fields
  <2>5. u.snap \in [w.nodes -> S \cup {None}]
    BY <2>3, <2>4
  <2>6. IsTree(u, V, P, S)
    BY <2>2, <2>4, <2>5, SnapResult
  <2> QED BY <1>2, <1>4, <1>6, <2>2, <2>3, <2>4, <2>6 DEF u
<1>7. CASE p = ids /\ w.snap[ids] # None
  <2>1. u = w
    BY <1>3, <1>7 DEF Adopt
  <2> QED BY <1>2, <1>4, <1>7, <2>1 DEF u
<1> QED BY <1>5, <1>6, <1>7

-----------------------------------------------------------------------------

(* The scheduler's state.                                                   *)
Typed ==
  /\ inbox \in Seq(Reqs) /\ pending \in Seq(Reqs)
  /\ batch \in Seq(Reqs) /\ chunked_list \in Seq(Reqs)
  /\ running \subseteq Reqs /\ IsFiniteSet(running) /\ finished \subseteq Reqs
  /\ budget \in Nat /\ prepared \in Nat /\ rows \in Seq(Seq(Pages))
  /\ IsTree(tree, Vocab, Pages, Slots)
  /\ freePages \in Seq(Pages) /\ freeSlots \subseteq Slots
  /\ req \in [Reqs -> ReqRecord]
  /\ kv \in [Pages -> Seq(Vocab)]
  /\ pc \in {"recv", "admit", "slot", "alloc", "forward", "output", "cleanup"}

Admitting == pc \in {"admit", "slot"}

(* A request that the pending list may hold. *)
Waiting(r) ==
  \/ req[r].stage = "pending" /\ ~ req[r].chunked
  \/ req[r].stage = "live" /\ req[r].chunked

InboxOK ==
  /\ \A i \in 1..Len(inbox) : req[inbox[i]].stage = "inbox"
  /\ \A i, j \in 1..Len(inbox) : i # j => inbox[i] # inbox[j]

PendingOK ==
  /\ \A i, j \in 1..Len(pending) : i # j => pending[i] # pending[j]
  /\ ~ Admitting => chunked_list = <<>> /\ \A i \in 1..Len(pending) : Waiting(pending[i])

(* The reqs admitted so far are the first ones of the pending list, the rest *)
(* waits; only the last one admitted can have been cut short.                *)
AdmissionOK ==
  Admitting =>
    /\ Len(batch) <= Len(pending)
    /\ \A i \in 1..Len(batch) : batch[i] = pending[i] /\ req[batch[i]].stage = "live"
    /\ \A i \in Len(batch) + 1 .. Len(pending) : Waiting(pending[i])
    /\ Len(chunked_list) <= 1
    /\ \A i \in 1..Len(chunked_list) :
         /\ budget = 0 /\ Waiting(chunked_list[i])
         /\ \E j \in 1..Len(batch) : batch[j] = chunked_list[i]

(* What acquire_mamba_slot may rely on. *)
SlotOK ==
  pc = "slot" => /\ Len(batch) < Len(pending)
                 /\ req[Current].stage = "pending"
                 /\ rows # <<>> /\ budget > 0
                 /\ Len(req[Current].handle) = Len(req[Current].row)
                 /\ Len(req[Current].handle) <= InputLen(Current)

(* Where a request of the batch, of the running set, of the finished set is. *)
PlacesOK ==
  /\ pc \in {"alloc", "forward", "output"} =>
       \A i \in 1..Len(batch) : req[batch[i]].stage = "live"
  /\ pc = "recv" => batch = <<>>
  /\ pc # "cleanup" => finished = {}
  /\ pc # "alloc" => prepared = 0
  /\ prepared <= Len(batch)
  /\ \A r \in running : req[r].stage = "live" /\ ~ req[r].chunked
  /\ \A r \in finished : req[r].stage = "live" /\ ~ req[r].chunked /\ r \notin running

(* cached_len never passes the ids and pages there are; a request that is no *)
(* Req holds nothing.                                                        *)
ReqLengths ==
  \A r \in Reqs :
    /\ req[r].cached <= Len(req[r].ids) /\ req[r].cached <= Len(req[r].row)
    /\ req[r].chunked => Len(req[r].ids) <= InputLen(r)
    /\ req[r].stage # "live" => req[r].slot = None /\ req[r].cached = 0 /\ ~ req[r].chunked

(* device_len counts the ids, and the token to come once the model has run.  *)
DeviceLengths ==
  /\ pc \in {"admit", "slot", "alloc", "forward"} =>
       \A i \in 1..Len(batch) : req[batch[i]].device = Len(req[batch[i]].ids)
  /\ pc = "output" =>
       \A i \in 1..Len(batch) : req[batch[i]].device = Len(req[batch[i]].ids) + 1
  /\ \A r \in running :
       \/ req[r].device = Len(req[r].ids)
       \/ pc = "output" /\ \E i \in 1..Len(batch) : batch[i] = r

(* Once it is prepared a request has a page for every token.                 *)
RowLengths ==
  /\ pc = "alloc" =>
       \A i \in 1..prepared : Len(req[batch[i]].row) = req[batch[i]].device
  /\ pc = "forward" =>
       \A i \in 1..Len(batch) : Len(req[batch[i]].row) = req[batch[i]].device

ListsOK == InboxOK /\ PendingOK /\ AdmissionOK /\ SlotOK /\ PlacesOK

LengthsOK == ReqLengths /\ DeviceLengths /\ RowLengths

IInv == Typed /\ ListsOK /\ LengthsOK

-----------------------------------------------------------------------------
(* What the assumptions say of the numbers the server is started with.       *)
LEMMA Sizes ==
  /\ NumPages \in Nat /\ MaxRunning \in Nat /\ Budget \in Nat \ {0}
  /\ MaxSeqLen \in Int
BY SizeAssumption DEF MaxSeqLen, Lesser

(* The elements of the lists are requests.                                   *)
LEMMA Members ==
  ASSUME Typed
  PROVE  /\ Len(inbox) \in Nat /\ \A i \in 1..Len(inbox) : inbox[i] \in Reqs
         /\ Len(pending) \in Nat /\ \A i \in 1..Len(pending) : pending[i] \in Reqs
         /\ Len(batch) \in Nat /\ \A i \in 1..Len(batch) : batch[i] \in Reqs
         /\ Len(chunked_list) \in Nat
         /\ \A i \in 1..Len(chunked_list) : chunked_list[i] \in Reqs
BY LenProperties, ElementOfSeq DEF Typed

(* The fields of a request, one by one.                                      *)
LEMMA ReqFields ==
  ASSUME NEW x \in ReqRecord
  PROVE  /\ x.prompt \in Seq(Vocab) /\ Len(x.prompt) \in Nat
         /\ x.ids \in Seq(Vocab) /\ Len(x.ids) \in Nat
         /\ x.row \in Seq(Pages) /\ Len(x.row) \in Nat
         /\ x.handle \in Seq(Vocab) /\ Len(x.handle) \in Nat
         /\ x.stale \in Seq(Pages) /\ Len(x.stale) \in Nat
         /\ x.output \in Nat /\ x.cached \in Nat /\ x.device \in Nat /\ x.max_device \in Nat
         /\ x.chunked \in BOOLEAN /\ x.slot \in Slots \cup {None}
BY LenProperties DEF ReqRecord

(* The record of a request that is over holds nothing.                       *)
LEMMA NoReqFields ==
  /\ NoReq \in ReqRecord
  /\ \A s \in {"dropped", "done"} :
       LET x == [NoReq EXCEPT !.stage = s]
       IN x \in ReqRecord /\ x.stage = s /\ x.slot = None /\ x.cached = 0 /\ x.chunked = FALSE
BY EmptySeq DEF NoReq, ReqRecord, Root

(* An idle scheduler with an empty cache satisfies the invariant.            *)
LEMMA InitIInv == Init => IInv
<1> SUFFICES ASSUME Init PROVE IInv
  OBVIOUS
<1>1. IsTree(tree, Vocab, Pages, Slots)
  BY EmptyTreeIsTree DEF Init
<1>2. NoReq \in ReqRecord
  BY NoReqFields
<1>3. freePages \in Seq(Pages)
  BY Sizes DEF Init, Pages
<1>4. kv \in [Pages -> Seq(Vocab)]
  BY EmptySeq DEF Init
<1>5. <<>> \in Seq(Reqs) /\ Len(<<>>) = 0 /\ IsFiniteSet({})
  BY EmptySeq, FS_EmptySet
<1>6. Typed
  BY <1>1, <1>2, <1>3, <1>4, <1>5, Sizes DEF Init, Typed
<1>7. ListsOK
  BY <1>5 DEF Init, ListsOK, InboxOK, PendingOK, AdmissionOK, SlotOK, PlacesOK, Admitting
<1>8. \A r \in Reqs : req[r] = NoReq
  BY DEF Init
<1>9. LengthsOK
  BY <1>5, <1>8 DEF Init, LengthsOK, ReqLengths, DeviceLengths, RowLengths, NoReq, InputLen
<1> QED BY <1>6, <1>7, <1>9 DEF IInv

-----------------------------------------------------------------------------
(* Messages.                                                                *)

(* A request that arrives is none of those already there.                    *)
LEMMA SubmitKeepsIInv ==
  ASSUME IInv, NEW r \in Reqs, Submit(r)
  PROVE  IInv'
<1>1. Typed /\ ListsOK /\ LengthsOK
  BY DEF IInv
<1>2. PICK w \in Workload :
        req' = [req EXCEPT ![r].stage = "inbox", ![r].prompt = w.prompt,
                           ![r].output = w.max_tokens, ![r].ignore_eos = w.ignore_eos]
  BY DEF Submit
<1>3. /\ pc = "recv" /\ req[r].stage = "new" /\ inbox' = Append(inbox, r)
      /\ UNCHANGED <<pending, running, batch, chunked_list, finished, budget, reserved,
                     prepared, rows, tree, freePages, freeSlots, kv, state, pc>>
  BY DEF Submit, adder, cache, data
<1> DEFINE new == [req[r] EXCEPT !.stage = "inbox", !.prompt = w.prompt,
                                 !.output = w.max_tokens, !.ignore_eos = w.ignore_eos]
<1>4. req \in [Reqs -> ReqRecord]
  BY <1>1 DEF Typed
<1>5. /\ new \in ReqRecord /\ new.stage = "inbox" /\ new.cached = req[r].cached
      /\ new.ids = req[r].ids /\ new.row = req[r].row /\ new.slot = req[r].slot
      /\ new.chunked = req[r].chunked
  BY <1>4, WorkloadAssumption DEF ReqRecord
<1>6. /\ req'[r] = new /\ req' \in [Reqs -> ReqRecord]
      /\ \A q \in Reqs \ {r} : req'[q] = req[q]
  BY <1>2, <1>4, <1>5
<1> HIDE DEF new
<1>7. /\ inbox' \in Seq(Reqs) /\ Len(inbox') = Len(inbox) + 1
      /\ inbox'[Len(inbox) + 1] = r
      /\ \A i \in 1..Len(inbox) : inbox'[i] = inbox[i]
  BY <1>1, <1>3, AppendProperties DEF Typed
<1>8. Typed'
  BY <1>1, <1>3, <1>6, <1>7 DEF Typed
<1>9. InboxOK'
  <2>1. \A i \in 1..Len(inbox) : inbox[i] \in Reqs \ {r} /\ req'[inbox[i]].stage = "inbox"
    BY <1>1, <1>3, <1>6, Members DEF ListsOK, InboxOK
  <2>2. \A i \in 1..Len(inbox') : i \in 1..Len(inbox) \/ i = Len(inbox) + 1
    BY <1>1, <1>7, Members
  <2> QED BY <1>1, <1>5, <1>6, <1>7, <2>1, <2>2 DEF ListsOK, InboxOK
<1>10. PendingOK' /\ AdmissionOK' /\ SlotOK'
  <2>1. \A i \in 1..Len(pending) : pending[i] \in Reqs /\ Waiting(pending[i])
    BY <1>1, <1>3, Members DEF ListsOK, PendingOK, Admitting
  <2>2. \A i \in 1..Len(pending) : Waiting(pending[i])'
    BY <1>3, <1>6, <2>1 DEF Waiting
  <2> QED BY <1>1, <1>3, <2>2 DEF ListsOK, PendingOK, AdmissionOK, SlotOK, Admitting
<1>11. \A q \in running : q # r /\ req'[q] = req[q]
  BY <1>1, <1>3, <1>6 DEF Typed, ListsOK, PlacesOK
<1>12. PlacesOK'
  BY <1>1, <1>3, <1>11 DEF ListsOK, PlacesOK
<1>13. ReqLengths'
  BY <1>1, <1>3, <1>5, <1>6 DEF LengthsOK, ReqLengths, InputLen
<1>14. DeviceLengths' /\ RowLengths'
  BY <1>1, <1>3, <1>11 DEF LengthsOK, DeviceLengths, RowLengths
<1> QED BY <1>8, <1>9, <1>10, <1>12, <1>13, <1>14 DEF IInv, ListsOK, LengthsOK

(* _process_one_msg moves a request from the queue to the pending list.      *)
LEMMA ProcessMsgKeepsIInv ==
  ASSUME IInv, ProcessMsg
  PROVE  IInv'
<1>1. Typed /\ ListsOK /\ LengthsOK
  BY DEF IInv
<1>2. /\ pc = "recv" /\ inbox # <<>> /\ inbox' = Tail(inbox)
      /\ UNCHANGED <<running, batch, chunked_list, finished, budget, reserved,
                     prepared, rows, tree, freePages, freeSlots, kv, state, pc>>
  BY DEF ProcessMsg, adder, cache, data
<1>3. /\ inbox' \in Seq(Reqs) /\ Len(inbox') = Len(inbox) - 1
      /\ Head(inbox) = inbox[1] /\ 1 \in 1..Len(inbox)
      /\ \A i \in 1..Len(inbox') : inbox'[i] = inbox[i + 1]
  BY <1>1, <1>2, HeadTailProperties, EmptySeq DEF Typed
<1>4. PICK r \in Reqs : r = Head(inbox) /\ r = inbox[1]
  BY <1>1, <1>3, Members
<1>5. req[r].stage = "inbox" /\ req \in [Reqs -> ReqRecord]
  BY <1>1, <1>3, <1>4 DEF Typed, ListsOK, InboxOK
<1>6. PICK new \in ReqRecord :
        /\ req' = [req EXCEPT ![r] = new]
        /\ new.stage \in {"dropped", "pending"}
        /\ new.cached = 0 /\ new.slot = None /\ ~ new.chunked
        /\ \/ pending' = pending
           \/ new.stage = "pending" /\ pending' = Append(pending, r)
  <2>1. CASE MaxOutputLen(r) <= 0
    <3>1. req' = [req EXCEPT ![r] = [NoReq EXCEPT !.stage = "dropped"]] /\ pending' = pending
      BY <1>4, <2>1 DEF ProcessMsg
    <3> QED BY <3>1, NoReqFields
  <2>2. CASE ~ MaxOutputLen(r) <= 0
    <3> DEFINE n == Lesser(req[r].output, MaxOutputLen(r))
               new == [req[r] EXCEPT !.stage = "pending", !.output = n]
    <3>1. req' = [req EXCEPT ![r].stage = "pending", ![r].output = n]
          /\ pending' = Append(pending, r)
      BY <1>4, <2>2 DEF ProcessMsg
    <3>2. n \in Nat
      <4>1. req[r].output \in Nat /\ Len(req[r].prompt) \in Nat
        BY <1>5, ReqFields
      <4> QED BY <2>2, <4>1, Sizes DEF Lesser, MaxOutputLen, InputLen
    <3>3. req[r].cached = 0 /\ req[r].slot = None /\ ~ req[r].chunked
      BY <1>1, <1>5 DEF LengthsOK, ReqLengths
    <3> HIDE DEF n
    <3>4. /\ new \in ReqRecord /\ new.stage = "pending"
          /\ new.cached = 0 /\ new.slot = None /\ ~ new.chunked
      BY <1>5, <3>2, <3>3 DEF ReqRecord
    <3>5. req' = [req EXCEPT ![r] = new]
      BY <1>5, <3>1
    <3> QED BY <3>1, <3>4, <3>5
  <2> QED BY <2>1, <2>2
<1>7. /\ req'[r] = new /\ req' \in [Reqs -> ReqRecord]
      /\ \A q \in Reqs \ {r} : req'[q] = req[q]
  BY <1>5, <1>6
<1>8. pending' \in Seq(Reqs)
  <2>1. pending \in Seq(Reqs) /\ Append(pending, r) \in Seq(Reqs)
    BY <1>1, AppendProperties DEF Typed
  <2> QED BY <1>6, <2>1
<1>9. Typed'
  BY <1>1, <1>2, <1>3, <1>7, <1>8 DEF Typed
<1>10. InboxOK'
  <2>1. \A i \in 1..Len(inbox') : i + 1 \in 1..Len(inbox) /\ i + 1 # 1
    BY <1>1, <1>3, Members
  <2>2. \A i \in 1..Len(inbox') : inbox'[i] \in Reqs \ {r} /\ req'[inbox'[i]].stage = "inbox"
    BY <1>1, <1>3, <1>4, <1>7, <2>1, Members DEF ListsOK, InboxOK
  <2>3. \A i, j \in 1..Len(inbox') : i # j => inbox'[i] # inbox'[j]
    BY <1>1, <1>3, <2>1 DEF ListsOK, InboxOK
  <2> QED BY <2>2, <2>3 DEF InboxOK
<1>11. PendingOK' /\ AdmissionOK' /\ SlotOK'
  <2>1. \A i \in 1..Len(pending) : pending[i] \in Reqs \ {r} /\ Waiting(pending[i])
    BY <1>1, <1>2, <1>5, Members DEF ListsOK, PendingOK, Admitting, Waiting
  <2>2. \A i \in 1..Len(pending) : req'[pending[i]] = req[pending[i]]
    BY <1>7, <2>1
  <2>3. \A i, j \in 1..Len(pending) : i # j => pending[i] # pending[j]
    BY <1>1 DEF ListsOK, PendingOK
  <2>4. /\ \A i, j \in 1..Len(pending') : i # j => pending'[i] # pending'[j]
        /\ \A i \in 1..Len(pending') : \/ req'[pending'[i]].stage = "pending" /\ ~ req'[pending'[i]].chunked
                                       \/ req'[pending'[i]].stage = "live" /\ req'[pending'[i]].chunked
    <3>1. CASE pending' = pending
      BY <2>1, <2>2, <2>3, <3>1 DEF Waiting
    <3>2. CASE new.stage = "pending" /\ pending' = Append(pending, r)
      <4>1. /\ Len(pending') = Len(pending) + 1
            /\ pending'[Len(pending) + 1] = r
            /\ \A i \in 1..Len(pending) : pending'[i] = pending[i]
        BY <1>1, <3>2, AppendProperties DEF Typed
      <4>2. \A i \in 1..Len(pending') : i \in 1..Len(pending) \/ i = Len(pending) + 1
        BY <1>1, <4>1, Members
      <4> QED BY <1>6, <1>7, <2>1, <2>2, <2>3, <3>2, <4>1, <4>2 DEF Waiting
    <3> QED BY <1>6, <3>1, <3>2
  <2>5. chunked_list' = <<>>
    BY <1>1, <1>2 DEF ListsOK, PendingOK, Admitting
  <2> QED BY <1>2, <2>4, <2>5 DEF PendingOK, AdmissionOK, SlotOK, Admitting, Waiting
<1>12. \A q \in running : q # r /\ req'[q] = req[q]
  BY <1>1, <1>5, <1>7 DEF Typed, ListsOK, PlacesOK
<1>13. PlacesOK'
  BY <1>1, <1>2, <1>12 DEF ListsOK, PlacesOK
<1>14. ReqLengths'
  <2>1. Len(new.ids) \in Nat /\ Len(new.row) \in Nat
    BY ReqFields
  <2> QED BY <1>1, <1>2, <1>6, <1>7, <2>1 DEF LengthsOK, ReqLengths, InputLen
<1>15. DeviceLengths' /\ RowLengths'
  BY <1>1, <1>2, <1>12 DEF LengthsOK, DeviceLengths, RowLengths
<1> QED BY <1>9, <1>10, <1>11, <1>13, <1>14, <1>15 DEF IInv, ListsOK, LengthsOK

(* A step starts with an empty batch and the whole budget.                   *)
LEMMA StartStepKeepsIInv ==
  ASSUME IInv, StartStep
  PROVE  IInv'
<1>1. Typed /\ ListsOK /\ LengthsOK
  BY DEF IInv
<1>2. /\ pc = "recv" /\ pc' = "admit" /\ budget' = Budget
      /\ UNCHANGED <<inbox, pending, running, batch, chunked_list, finished, prepared, rows,
                     tree, freePages, freeSlots, req, kv, state>>
  BY DEF StartStep, lists, cache, data
<1>3. Typed'
  BY <1>1, <1>2, Sizes DEF Typed
<1>4. batch = <<>> /\ chunked_list = <<>> /\ Len(<<>>) = 0 /\ Len(pending) \in Nat
  BY <1>1, <1>2, EmptySeq, Members DEF ListsOK, PlacesOK, PendingOK, Admitting
<1>5. InboxOK' /\ PendingOK' /\ SlotOK' /\ PlacesOK'
  BY <1>1, <1>2, <1>4 DEF ListsOK, InboxOK, PendingOK, SlotOK, PlacesOK, Admitting
<1>6. AdmissionOK'
  BY <1>1, <1>2, <1>4 DEF ListsOK, PendingOK, Admitting, AdmissionOK, Waiting
<1>7. LengthsOK'
  BY <1>1, <1>2, <1>4 DEF LengthsOK, ReqLengths, DeviceLengths, RowLengths, InputLen
<1> QED BY <1>3, <1>5, <1>6, <1>7 DEF IInv, ListsOK

-----------------------------------------------------------------------------
(* Admission.                                                               *)

(* What a request of the pending list looks like to the lists.               *)
SameForLists ==
  \A r \in Reqs : /\ req'[r].stage = req[r].stage /\ req'[r].chunked = req[r].chunked
                  /\ req'[r].ids = req[r].ids /\ req'[r].device = req[r].device

(* The arrangements of a finite set in a row are sequences.                  *)
LEMMA SetToSeqsMembers ==
  ASSUME NEW T, IsFiniteSet(T), NEW s \in SetToSeqs(T)
  PROVE  /\ s \in Seq(T) /\ (T = {} => s = <<>>)
         /\ \A i \in 1..Len(s) : s[i] \in T
<1>1. Cardinality(T) \in Nat /\ (T = {} => Cardinality(T) = 0)
  BY FS_CardinalityType, FS_EmptySet
<1>2. s \in [1..Cardinality(T) -> T]
  BY DEF SetToSeqs
<1>3. s \in Seq(T) /\ Len(s) = Cardinality(T)
  BY <1>1, <1>2
<1>4. T = {} => s = <<>>
  BY <1>1, <1>3, EmptySeq
<1> QED BY <1>3, <1>4, ElementOfSeq

(* The end of schedule_next_batch, whichever way it is reached.              *)
LEMMA SelectBatchKeepsLists ==
  ASSUME Typed, ListsOK, LengthsOK, Admitting, SelectBatch,
         inbox' = inbox, running' = running, finished' = finished, prepared' = prepared,
         req' \in [Reqs -> ReqRecord], SameForLists
  PROVE  /\ pending' \in Seq(Reqs) /\ batch' \in Seq(Reqs) /\ chunked_list' = <<>>
         /\ budget' = 0 /\ pc' \in {"alloc", "recv"}
         /\ ListsOK' /\ DeviceLengths' /\ RowLengths'
<1>1. PICK n \in Nat : n = Len(batch)
  BY Members
<1>2. /\ Len(pending) \in Nat /\ n <= Len(pending)
      /\ \A i \in 1..Len(pending) : pending[i] \in Reqs
      /\ \A i \in 1..n : batch[i] = pending[i] /\ batch[i] \in Reqs /\ req[batch[i]].stage = "live"
      /\ \A i \in n + 1 .. Len(pending) : Waiting(pending[i])
      /\ \A i, j \in 1..Len(pending) : i # j => pending[i] # pending[j]
      /\ Len(chunked_list) \in {0, 1} /\ chunked_list \in Seq(Reqs)
      /\ \A i \in 1..Len(chunked_list) : /\ Waiting(chunked_list[i])
                                         /\ \E j \in 1..n : batch[j] = chunked_list[i]
  <2>1. AdmissionOK /\ PendingOK
    BY DEF ListsOK
  <2>2. Len(chunked_list) \in {0, 1} /\ chunked_list \in Seq(Reqs)
    <3>1. PICK k \in Nat : k = Len(chunked_list)
      BY Members
    <3>2. k <= 1
      BY <2>1, <3>1 DEF AdmissionOK
    <3>3. chunked_list \in Seq(Reqs)
      BY DEF Typed
    <3>4. Len(chunked_list) \in {0, 1}
      BY <3>1, <3>2
    <3> QED BY <3>3, <3>4
  <2> QED BY <1>1, <2>1, <2>2, Members DEF AdmissionOK, PendingOK
<1>3. PICK rest \in Seq(Reqs) :
        /\ rest = SubSeq(pending, n + 1, Len(pending))
        /\ Len(rest) = Len(pending) - n
        /\ \A i \in 1..Len(rest) : rest[i] = pending[n + i] /\ n + i \in n + 1 .. Len(pending)
  <2> DEFINE rest == SubSeq(pending, n + 1, Len(pending))
  <2>1. \A i \in n + 1 .. Len(pending) : pending[i] \in Reqs
    BY <1>2
  <2>2. /\ rest \in Seq(Reqs)
        /\ Len(rest) = IF n + 1 <= Len(pending) THEN Len(pending) - (n + 1) + 1 ELSE 0
        /\ \A i \in 1 .. Len(pending) - (n + 1) + 1 : rest[i] = pending[(n + 1) + i - 1]
    BY <1>2, <2>1, SubSeqProperties
  <2> HIDE DEF rest
  <2>3. Len(rest) = Len(pending) - n
    BY <1>2, <2>2
  <2>4. \A i \in 1..Len(rest) : rest[i] = pending[n + i] /\ n + i \in n + 1 .. Len(pending)
    BY <1>2, <2>2, <2>3
  <2> QED BY <2>2, <2>3, <2>4 DEF rest
<1>4. /\ pending' = chunked_list \o rest /\ chunked_list' = <<>> /\ budget' = 0
      /\ pc' = IF batch # <<>> \/ running # {} THEN "alloc" ELSE "recv"
      /\ \/ batch # <<>> /\ batch' = batch
         \/ batch = <<>> /\ batch' \in SetToSeqs(running)
  BY <1>1, <1>3 DEF SelectBatch, StillPending
<1>41. /\ pending' \in Seq(Reqs)
       /\ Len(pending') = Len(chunked_list) + Len(rest)
       /\ \A i \in 1..Len(chunked_list) : pending'[i] = chunked_list[i]
       /\ \A i \in 1..Len(rest) : pending'[Len(chunked_list) + i] = rest[i]
  <2>1. /\ chunked_list \o rest \in Seq(Reqs)
        /\ Len(chunked_list \o rest) = Len(chunked_list) + Len(rest)
        /\ \A i \in 1 .. Len(chunked_list) + Len(rest) :
              (chunked_list \o rest)[i] = IF i <= Len(chunked_list) THEN chunked_list[i]
                                         ELSE rest[i - Len(chunked_list)]
    BY <1>2, ConcatProperties
  <2>2. Len(rest) \in Nat
    BY LenProperties
  <2> QED BY <1>2, <1>4, <2>1, <2>2
<1>5. \A i \in 1..Len(pending') : pending'[i] \in Reqs /\ Waiting(pending'[i])
  <2>1. ASSUME NEW i \in 1..Len(pending') PROVE pending'[i] \in Reqs /\ Waiting(pending'[i])
    <3>1. CASE i \in 1..Len(chunked_list)
      BY <1>2, <1>41, <3>1, ElementOfSeq
    <3>2. CASE i \notin 1..Len(chunked_list)
      <4>1. PICK k \in 1..Len(rest) : i = Len(chunked_list) + k
        <5>1. i - Len(chunked_list) \in 1..Len(rest)
          BY <1>2, <1>3, <1>41, <3>2
        <5> QED BY <1>2, <5>1
      <4>2. pending'[i] = rest[k] /\ rest[k] = pending[n + k] /\ n + k \in n + 1 .. Len(pending)
        BY <1>3, <1>41, <4>1
      <4>3. n + k \in 1..Len(pending)
        BY <1>2, <4>2
      <4> QED BY <1>2, <4>2, <4>3
    <3> QED BY <3>1, <3>2
  <2> QED BY <2>1
<1>6. \A i, j \in 1..Len(pending') : i # j => pending'[i] # pending'[j]
  <2>1. CASE Len(chunked_list) = 0
    <3>1. \A i \in 1..Len(rest) : pending'[i] = rest[i] /\ Len(pending') = Len(rest)
      BY <1>3, <1>41, <2>1, LenProperties
    <3>2. \A i \in 1..Len(pending') : pending'[i] = pending[n + i] /\ n + i \in 1..Len(pending)
      <4>1. PICK m \in Nat : m = Len(rest) /\ m = Len(pending')
        BY <3>1, <1>41, <2>1, LenProperties
      <4>2. \A i \in 1..Len(rest) : pending'[i] = pending[n + i] /\ n + i \in n + 1 .. Len(pending)
        BY <1>3, <3>1
      <4>3. ASSUME NEW i \in 1..m
            PROVE  pending'[i] = pending[n + i] /\ n + i \in 1..Len(pending)
        <5>1. pending'[i] = pending[n + i] /\ n + i \in n + 1 .. Len(pending)
          BY <4>1, <4>2
        <5>2. n + i \in 1..Len(pending)
          BY <1>2, <5>1
        <5> QED BY <5>1, <5>2
      <4>4. 1..Len(pending') = 1..m
        BY <4>1
      <4> QED BY <4>3, <4>4
    <3> QED BY <1>2, <3>2
  <2>2. CASE Len(chunked_list) = 1
    <3>1. PICK c \in 1..n : pending'[1] = pending[c]
      BY <1>2, <1>41, <2>2
    <3>2. \A i \in 1..Len(pending') :
            i = 1 \/ (pending'[i] = pending[n + i - 1] /\ n + i - 1 \in n + 1 .. Len(pending))
      <4>1. ASSUME NEW i \in 1..Len(pending'), i # 1
            PROVE  pending'[i] = pending[n + i - 1] /\ n + i - 1 \in n + 1 .. Len(pending)
        <5>1. i - 1 \in 1..Len(rest) /\ i = Len(chunked_list) + (i - 1)
          BY <1>2, <1>3, <1>41, <2>2, <4>1
        <5>2. pending'[i] = rest[i - 1]
          BY <1>41, <5>1
        <5>3. rest[i - 1] = pending[n + (i - 1)] /\ n + (i - 1) \in n + 1 .. Len(pending)
          BY <1>3, <5>1
        <5>4. n + (i - 1) = n + i - 1
          BY <1>2
        <5> QED BY <5>2, <5>3, <5>4
      <4> QED BY <4>1
    <3> SUFFICES ASSUME NEW i \in 1..Len(pending'), NEW j \in 1..Len(pending'), i # j
                 PROVE  pending'[i] # pending'[j]
      OBVIOUS
    <3>3. CASE i = 1
      <4>1. pending'[j] = pending[n + j - 1] /\ n + j - 1 \in n + 1 .. Len(pending)
        BY <3>2, <3>3
      <4>2. c \in 1..Len(pending) /\ n + j - 1 \in 1..Len(pending) /\ c # n + j - 1
        BY <1>2, <4>1
      <4> QED BY <1>2, <3>1, <3>3, <4>1, <4>2
    <3>4. CASE j = 1
      <4>1. pending'[i] = pending[n + i - 1] /\ n + i - 1 \in n + 1 .. Len(pending)
        BY <3>2, <3>4
      <4>2. c \in 1..Len(pending) /\ n + i - 1 \in 1..Len(pending) /\ c # n + i - 1
        BY <1>2, <4>1
      <4> QED BY <1>2, <3>1, <3>4, <4>1, <4>2
    <3>5. CASE i # 1 /\ j # 1
      <4>1. /\ pending'[j] = pending[n + j - 1] /\ n + j - 1 \in 1..Len(pending)
            /\ pending'[i] = pending[n + i - 1] /\ n + i - 1 \in 1..Len(pending)
            /\ n + i - 1 # n + j - 1
        BY <1>2, <3>2, <3>5
      <4> QED BY <1>2, <4>1
    <3> QED BY <3>3, <3>4, <3>5
  <2> QED BY <1>2, <2>1, <2>2
<1>7. /\ batch' \in Seq(Reqs) /\ Len(batch') \in Nat
      /\ \A i \in 1..Len(batch') :
           /\ batch'[i] \in Reqs /\ req[batch'[i]].stage = "live"
           /\ req[batch'[i]].device = Len(req[batch'[i]].ids)
      /\ (batch = <<>> /\ running = {}) => batch' = <<>>
  <2>1. CASE batch # <<>> /\ batch' = batch
    BY <1>1, <1>2, <2>1 DEF Typed, LengthsOK, DeviceLengths, Admitting
  <2>2. CASE batch = <<>> /\ batch' \in SetToSeqs(running)
    <3>1. running \subseteq Reqs /\ IsFiniteSet(running)
      BY DEF Typed
    <3>2. /\ batch' \in Seq(running) /\ (running = {} => batch' = <<>>)
          /\ \A i \in 1..Len(batch') : batch'[i] \in running
      BY <2>2, <3>1, SetToSeqsMembers
    <3>3. batch' \in Seq(Reqs) /\ Len(batch') \in Nat
      BY <3>1, <3>2, SeqMonotonic, LenProperties
    <3>4. \A r \in running : req[r].stage = "live" /\ req[r].device = Len(req[r].ids)
      BY DEF ListsOK, PlacesOK, LengthsOK, DeviceLengths, Admitting
    <3> QED BY <3>1, <3>2, <3>3, <3>4
  <2> QED BY <1>4, <2>1, <2>2
<1>8. pc' \in {"alloc", "recv"} /\ (pc' = "recv" => batch' = <<>>)
  BY <1>4, <1>7
<1>9. PendingOK' /\ AdmissionOK' /\ SlotOK'
  <2>1. \A i \in 1..Len(pending') :
          \/ req'[pending'[i]].stage = "pending" /\ ~ req'[pending'[i]].chunked
          \/ req'[pending'[i]].stage = "live" /\ req'[pending'[i]].chunked
    BY <1>5 DEF Waiting, SameForLists
  <2> QED BY <1>4, <1>6, <1>8, <2>1 DEF PendingOK, AdmissionOK, SlotOK, Admitting, Waiting
<1>10. InboxOK'
  BY Members DEF ListsOK, InboxOK, SameForLists
<1>11. prepared = 0 /\ finished = {} /\ running \subseteq Reqs
  BY DEF ListsOK, PlacesOK, Admitting, Typed
<1>12. PlacesOK'
  <2>1. \A r \in running : req'[r].stage = "live" /\ ~ req'[r].chunked
    BY <1>11 DEF ListsOK, PlacesOK, SameForLists
  <2>2. \A i \in 1..Len(batch') : req'[batch'[i]].stage = "live"
    BY <1>7 DEF SameForLists
  <2> QED BY <1>7, <1>8, <1>11, <2>1, <2>2 DEF PlacesOK
<1>13. DeviceLengths' /\ RowLengths'
  <2>1. \A r \in running : req'[r].device = Len(req'[r].ids)
    BY <1>11 DEF LengthsOK, DeviceLengths, SameForLists, Admitting
  <2>2. \A i \in 1..Len(batch') : req'[batch'[i]].device = Len(req'[batch'[i]].ids)
    BY <1>7 DEF SameForLists
  <2> QED BY <1>8, <1>11, <2>1, <2>2 DEF DeviceLengths, RowLengths
<1> QED BY <1>4, <1>41, <1>7, <1>8, <1>9, <1>10, <1>12, <1>13 DEF ListsOK

(* The request the loop is at is the first one not admitted, and waits.      *)
LEMMA CurrentWaits ==
  ASSUME Typed, ListsOK, LengthsOK, Admitting, Len(batch) < Len(pending)
  PROVE  /\ Current \in Reqs /\ Current = pending[Len(batch) + 1] /\ Waiting(Current)
         /\ Len(batch) + 1 \in 1..Len(pending)
         /\ Current \notin running
         /\ \A i \in 1..Len(batch) : batch[i] # Current
         /\ \A i \in Len(batch) + 2 .. Len(pending) : pending[i] # Current
<1>1. PICK n \in Nat, m \in Nat : n = Len(batch) /\ m = Len(pending)
  BY Members
<1>2. n + 1 \in 1..m /\ n + 1 \in n + 1 .. m
  BY <1>1
<1>3. /\ \A i \in 1..m : pending[i] \in Reqs
      /\ \A i, j \in 1..m : i # j => pending[i] # pending[j]
      /\ \A i \in 1..n : batch[i] = pending[i]
      /\ \A i \in n + 1 .. m : Waiting(pending[i])
  BY <1>1, Members DEF ListsOK, AdmissionOK, PendingOK
<1>4. Current = pending[n + 1]
  BY <1>1 DEF Current
<1>5. \A i \in 1..n : i \in 1..m /\ i # n + 1
  BY <1>1
<1>6. \A i \in n + 2 .. m : i \in 1..m /\ i # n + 1
  BY <1>1
<1>7. \A r \in running : ~ Waiting(r)
  BY DEF ListsOK, PlacesOK, Waiting
<1> QED BY <1>1, <1>2, <1>3, <1>4, <1>5, <1>6, <1>7

(* _add_one_req, and the lists around it.                                    *)
LEMMA AddOneReqKeepsIInv ==
  ASSUME Typed, ListsOK, LengthsOK, Admitting, Len(batch) < Len(pending), budget > 0,
         NEW c \in Nat, c <= InputLen(Current), c <= Len(req[Current].row),
         NEW s \in Slots \cup {None},
         AddOneReq(Current, c, s),
         pc' = "admit", inbox' = inbox, pending' = pending, running' = running,
         finished' = finished, prepared' = prepared
  PROVE  /\ req' \in [Reqs -> ReqRecord] /\ budget' \in Nat
         /\ batch' \in Seq(Reqs) /\ chunked_list' \in Seq(Reqs)
         /\ ListsOK' /\ LengthsOK'
         /\ \E new : /\ req' = [req EXCEPT ![Current] = new]
                     /\ new.slot = s /\ new.stage = "live" /\ new.handle = req[Current].handle
                     /\ new.cached = c /\ new.row = req[Current].row
<1>1. PICK r \in Reqs : r = Current
  BY CurrentWaits
<1>2. PICK n \in Nat, m \in Nat : n = Len(batch) /\ m = Len(pending) /\ n < m
  BY Members
<1>3. /\ r = pending[n + 1] /\ Waiting(r) /\ r \notin running
      /\ \A i \in 1..n : batch[i] # r
      /\ \A i \in n + 2 .. m : pending[i] # r
  BY <1>1, <1>2, CurrentWaits
<1>4. req \in [Reqs -> ReqRecord] /\ req[r] \in ReqRecord
  BY DEF Typed
<1>5. PICK len \in Nat : len = Len(req[r].prompt) /\ len = InputLen(r) /\ c <= len
  BY <1>1, <1>4, ReqFields DEF InputLen
<1>6. PICK room \in Nat : room = budget /\ room > 0
  BY DEF Typed
<1>61. PICK remain \in Nat : remain = len - c /\ remain = InputLen(r) - c
  BY <1>5
<1>7. PICK chunk \in Nat : /\ chunk = ChunkSize(remain)
                           /\ chunk <= room /\ chunk <= remain
                           /\ chunk < remain => chunk = room
  BY <1>6, <1>61 DEF ChunkSize, Lesser
<1>71. PICK total \in Nat : total = c + chunk /\ c <= total /\ total <= len
  <2>1. chunk <= remain /\ remain = len - c
    BY <1>61, <1>7
  <2>2. c + chunk \in Nat /\ c <= c + chunk /\ c + chunk <= len
    BY <2>1
  <2> QED BY <2>2
<1>72. PICK most \in Nat : most = total + req[r].output
  BY <1>4, <1>71, ReqFields
<1>73. PICK ids \in Seq(Vocab) : ids = SubSeq(req[r].prompt, 1, total) /\ Len(ids) = total
  <2>1. total \in 0..len
    BY <1>71
  <2>2. req[r].prompt \in Seq(Vocab) /\ total \in 0..Len(req[r].prompt)
    BY <1>4, <1>5, <2>1, ReqFields
  <2> QED BY <2>2, FirstElements
<1>74. PICK short \in BOOLEAN : short <=> chunk < remain
  OBVIOUS
<1>8. /\ req' = [req EXCEPT ![r].stage = "live", ![r].ids = ids, ![r].cached = c,
                            ![r].device = total, ![r].max_device = most,
                            ![r].chunked = short, ![r].slot = s]
      /\ budget' = room - chunk
      /\ batch' = Append(batch, r)
      /\ chunked_list' = IF short THEN Append(chunked_list, r) ELSE chunked_list
  <2>1. /\ chunk = ChunkSize(InputLen(r) - c) /\ r = Current /\ room = budget
        /\ ids = SubSeq(req[r].prompt, 1, c + chunk) /\ total = c + chunk
        /\ most = c + chunk + req[r].output /\ short = (chunk < InputLen(r) - c)
    BY <1>1, <1>6, <1>61, <1>7, <1>71, <1>72, <1>73, <1>74
  <2> QED BY <2>1 DEF AddOneReq
<1> DEFINE new == [req[r] EXCEPT !.stage = "live", !.ids = ids, !.cached = c,
                                 !.device = total, !.max_device = most,
                                 !.chunked = short, !.slot = s]
<1>11. /\ new \in ReqRecord /\ new.stage = "live" /\ new.ids = ids /\ new.cached = c
       /\ new.device = total /\ new.chunked = short /\ new.slot = s
       /\ new.prompt = req[r].prompt /\ new.row = req[r].row /\ new.handle = req[r].handle
  BY <1>4 DEF ReqRecord
<1>12. req' = [req EXCEPT ![r] = new]
  BY <1>4, <1>8
<1> HIDE DEF new
<1>13. /\ req'[r] = new /\ req' \in [Reqs -> ReqRecord]
       /\ \A q \in Reqs \ {r} : req'[q] = req[q]
  BY <1>4, <1>11, <1>12
<1>14. budget' \in Nat /\ (short => budget' = 0)
  <2>1. budget' = room - chunk /\ chunk <= room /\ (short => chunk = room)
    BY <1>7, <1>74, <1>8
  <2> QED BY <2>1
<1>15. /\ batch' \in Seq(Reqs) /\ Len(batch') = n + 1
       /\ batch'[n + 1] = r /\ \A i \in 1..n : batch'[i] = batch[i]
  BY <1>2, <1>8, AppendProperties DEF Typed
<1>16. \A i \in 1..n + 1 : i \in 1..n \/ i = n + 1
  OBVIOUS
<1>17. Len(chunked_list) = 0 /\ chunked_list \in Seq(Reqs)
  <2>1. PICK k \in Nat : k = Len(chunked_list)
    BY Members
  <2>2. \A i \in 1..k : budget = 0
    BY <2>1 DEF ListsOK, AdmissionOK
  <2>3. k = 0
    BY <1>6, <2>2
  <2> QED BY <2>1, <2>3 DEF Typed
<1>18. /\ chunked_list' \in Seq(Reqs)
       /\ \/ ~ short /\ Len(chunked_list') = 0
          \/ short /\ Len(chunked_list') = 1 /\ chunked_list'[1] = r
  <2>1. CASE short
    <3>1. /\ Append(chunked_list, r) \in Seq(Reqs) /\ Len(Append(chunked_list, r)) = 1
          /\ Append(chunked_list, r)[1] = r
      BY <1>17, AppendProperties
    <3> QED BY <1>8, <2>1, <3>1
  <2>2. CASE ~ short
    BY <1>8, <1>17, <2>2
  <2> QED BY <2>1, <2>2
<1>19. /\ \A i \in 1..n : batch[i] \in Reqs \ {r} /\ req'[batch[i]] = req[batch[i]]
       /\ \A i \in n + 2 .. m : pending[i] \in Reqs \ {r} /\ req'[pending[i]] = req[pending[i]]
       /\ \A q \in running : q \in Reqs \ {r} /\ req'[q] = req[q]
  <2>1. \A i \in n + 2 .. m : i \in 1..m
    BY <1>2
  <2> QED BY <1>2, <1>3, <1>13, <2>1, Members DEF Typed
<1>20. AdmissionOK'
  <2>1. n + 1 <= m /\ Len(batch') <= Len(pending')
    BY <1>2, <1>15
  <2>2. \A i \in 1..Len(batch') : batch'[i] = pending'[i] /\ req'[batch'[i]].stage = "live"
    <3>1. \A i \in 1..n : batch[i] = pending[i] /\ req[batch[i]].stage = "live"
      BY <1>2 DEF ListsOK, AdmissionOK
    <3> QED BY <1>3, <1>11, <1>13, <1>15, <1>16, <1>19, <3>1
  <2>3. \A i \in Len(batch') + 1 .. Len(pending') :
          \/ req'[pending'[i]].stage = "pending" /\ ~ req'[pending'[i]].chunked
          \/ req'[pending'[i]].stage = "live" /\ req'[pending'[i]].chunked
    <3>1. \A i \in n + 1 .. m : Waiting(pending[i])
      BY <1>2 DEF ListsOK, AdmissionOK
    <3>2. Len(batch') + 1 .. Len(pending') = n + 2 .. m
      BY <1>2, <1>15
    <3>3. \A i \in n + 2 .. m : i \in n + 1 .. m
      OBVIOUS
    <3> QED BY <1>19, <3>1, <3>2, <3>3 DEF Waiting
  <2>4. /\ Len(chunked_list') <= 1
        /\ \A i \in 1..Len(chunked_list') :
             /\ budget' = 0
             /\ \/ req'[chunked_list'[i]].stage = "pending" /\ ~ req'[chunked_list'[i]].chunked
                \/ req'[chunked_list'[i]].stage = "live" /\ req'[chunked_list'[i]].chunked
             /\ \E j \in 1..Len(batch') : batch'[j] = chunked_list'[i]
    <3>1. CASE ~ short /\ Len(chunked_list') = 0
      BY <3>1
    <3>2. CASE short /\ Len(chunked_list') = 1 /\ chunked_list'[1] = r
      <4>1. n + 1 \in 1..Len(batch') /\ batch'[n + 1] = r
        BY <1>15
      <4>2. budget' = 0 /\ req'[r].stage = "live" /\ req'[r].chunked
        BY <1>11, <1>13, <1>14, <3>2
      <4> QED BY <3>2, <4>1, <4>2
    <3> QED BY <1>18, <3>1, <3>2
  <2> QED BY <2>1, <2>2, <2>3, <2>4 DEF AdmissionOK, Waiting
<1>21. InboxOK' /\ PendingOK' /\ SlotOK'
  <2>1. \A i \in 1..Len(inbox) : inbox[i] \in Reqs \ {r}
    BY <1>3, Members DEF ListsOK, InboxOK, Waiting
  <2> QED BY <1>13, <2>1 DEF ListsOK, InboxOK, PendingOK, SlotOK, Admitting
<1>22. PlacesOK'
  <2>1. finished = {} /\ prepared = 0
    BY DEF ListsOK, PlacesOK, Admitting
  <2>2. \A q \in running' : req'[q].stage = "live" /\ ~ req'[q].chunked
    BY <1>19 DEF ListsOK, PlacesOK
  <2>3. 0 <= Len(batch')
    BY <1>15
  <2> QED BY <2>1, <2>2, <2>3 DEF PlacesOK
<1>23. ReqLengths'
  <2>2. /\ req'[r].cached <= Len(req'[r].ids) /\ req'[r].cached <= Len(req'[r].row)
        /\ req'[r].chunked => Len(req'[r].ids) <= Len(req'[r].prompt)
        /\ req'[r].stage = "live"
    BY <1>1, <1>5, <1>71, <1>73, <1>11, <1>13
  <2> QED BY <1>13, <2>2 DEF LengthsOK, ReqLengths, InputLen
<1>24. DeviceLengths' /\ RowLengths'
  <2>1. \A i \in 1..n : req[batch[i]].device = Len(req[batch[i]].ids)
    BY <1>2 DEF LengthsOK, DeviceLengths, Admitting
  <2>2. \A i \in 1..Len(batch') : req'[batch'[i]].device = Len(req'[batch'[i]].ids)
    BY <1>73, <1>11, <1>13, <1>15, <1>16, <1>19, <2>1
  <2>3. \A q \in running' : req'[q].device = Len(req'[q].ids)
    BY <1>19 DEF LengthsOK, DeviceLengths, Admitting
  <2> QED BY <2>2, <2>3 DEF DeviceLengths, RowLengths
<1>25. \E x : /\ req' = [req EXCEPT ![Current] = x]
             /\ x.slot = s /\ x.stage = "live" /\ x.handle = req[Current].handle
             /\ x.cached = c /\ x.row = req[Current].row
  BY <1>1, <1>11, <1>12
<1> QED BY <1>13, <1>14, <1>15, <1>18, <1>20, <1>21, <1>22, <1>23, <1>24, <1>25 DEF ListsOK, LengthsOK

(* try_add_one on a chunked req.                                             *)
LEMMA ContinueChunkKeepsIInv ==
  ASSUME IInv, ContinueChunk
  PROVE  IInv'
<1>1. Typed /\ ListsOK /\ LengthsOK
  BY DEF IInv
<1>2. /\ pc = "admit" /\ Len(batch) < Len(pending) /\ budget > 0 /\ req[Current].chunked
      /\ AddOneReq(Current, req[Current].cached, req[Current].slot)
      /\ UNCHANGED <<inbox, pending, running, finished, prepared, rows,
                     tree, freePages, freeSlots, kv, state, pc>>
  BY DEF ContinueChunk, cache, data
<1>3. Admitting
  BY <1>2 DEF Admitting
<1>4. Current \in Reqs /\ req \in [Reqs -> ReqRecord] /\ req[Current] \in ReqRecord
  BY <1>1, <1>2, <1>3, CurrentWaits DEF Typed
<1>5. PICK c \in Nat, s \in Slots \cup {None} :
        c = req[Current].cached /\ s = req[Current].slot
  BY <1>4, ReqFields
<1>6. c <= InputLen(Current) /\ c <= Len(req[Current].row)
  <2>1. PICK i \in Nat, l \in Nat : i = Len(req[Current].ids) /\ l = InputLen(Current)
    BY <1>4, ReqFields DEF InputLen
  <2>2. c <= i /\ i <= l /\ c <= Len(req[Current].row)
    BY <1>1, <1>2, <1>4, <1>5, <2>1 DEF LengthsOK, ReqLengths
  <2>3. c <= l
    BY <2>1, <2>2
  <2> QED BY <2>1, <2>2, <2>3
<1>7. /\ req' \in [Reqs -> ReqRecord] /\ budget' \in Nat
      /\ batch' \in Seq(Reqs) /\ chunked_list' \in Seq(Reqs)
      /\ ListsOK' /\ LengthsOK'
  BY <1>1, <1>2, <1>3, <1>5, <1>6, AddOneReqKeepsIInv
<1> QED BY <1>1, <1>2, <1>7 DEF IInv, Typed

(* The end of the admission loop.                                            *)
LEMMA StopAdmissionKeepsIInv ==
  ASSUME IInv, StopAdmission
  PROVE  IInv'
<1>1. Typed /\ ListsOK /\ LengthsOK
  BY DEF IInv
<1>2. /\ pc = "admit" /\ SelectBatch
      /\ UNCHANGED <<inbox, running, finished, prepared, rows,
                     tree, freePages, freeSlots, req, kv, state>>
  BY DEF StopAdmission, cache, data
<1>3. Admitting
  BY <1>2 DEF Admitting
<1>4. req' \in [Reqs -> ReqRecord] /\ SameForLists
  BY <1>1, <1>2 DEF Typed, SameForLists
<1>5. /\ pending' \in Seq(Reqs) /\ batch' \in Seq(Reqs) /\ chunked_list' = <<>>
      /\ budget' = 0 /\ pc' \in {"alloc", "recv"}
      /\ ListsOK' /\ DeviceLengths' /\ RowLengths'
  BY <1>1, <1>2, <1>3, <1>4, SelectBatchKeepsLists
<1>6. Typed'
  BY <1>1, <1>2, <1>5, EmptySeq DEF Typed
<1>7. ReqLengths'
  BY <1>1, <1>2 DEF LengthsOK, ReqLengths, InputLen
<1> QED BY <1>5, <1>6, <1>7 DEF IInv, LengthsOK

(* What match_req returns: a node of the tree it leaves behind, no longer    *)
(* than what was looked up.                                                  *)
LEMMA MatchResult ==
  ASSUME Typed, NEW ids \in Seq(Vocab)
  PROVE  LET h == MatchedHandle(ids)
             walked == MatchedTree(ids)
         IN /\ IsTree(walked, Vocab, Pages, Slots)
            /\ h \in walked.nodes /\ h \in Seq(Vocab)
            /\ Len(h) <= Len(ids)
            /\ walked = tree \/ walked = Walk(tree, ids)
<1> DEFINE h == MatchedHandle(ids)
           walked == MatchedTree(ids)
           m == Matched(tree, ids)
           w == Walk(tree, ids)
<1>1. IsTree(tree, Vocab, Pages, Slots)
  BY DEF Typed
<1>2. /\ IsTree(w, Vocab, Pages, Slots) /\ m \in w.nodes /\ m \in Seq(Vocab)
      /\ IsPrefix(m, ids)
  BY <1>1, WalkResult, MatchedIsLongest
<1>3. walked = tree \/ walked = w
  BY DEF MatchedTree
<1>4. CASE CacheType = "naive"
  <2>1. h = Root /\ walked = tree
    BY <1>4 DEF MatchedHandle, MatchedTree
  <2>2. Root \in tree.nodes /\ Root \in Seq(Vocab) /\ Len(Root) = 0 /\ Len(ids) \in Nat
    BY <1>1, RootIsPrefix, LenProperties DEF IsTree
  <2> QED BY <1>1, <1>3, <2>1, <2>2
<1>5. CASE CacheType = "radix"
  <2>1. h = m /\ walked = w
    BY <1>5 DEF MatchedHandle, MatchedTree
  <2>2. Len(m) <= Len(ids)
    BY <1>2, PrefixPointwise
  <2> QED BY <1>2, <1>3, <2>1, <2>2
<1>6. CASE CacheType = "hybrid"
  <2>1. h = SnapshotAncestor(w, m) /\ walked = w
    BY <1>6 DEF MatchedHandle, MatchedTree
  <2> HIDE DEF h, walked, w, m
  <2>2. h \in w.nodes /\ IsPrefix(h, m)
    BY <1>2, <2>1, SnapshotAncestorIsNode
  <2>3. h \in Seq(Vocab)
    BY <1>2, <2>2 DEF IsTree
  <2>4. IsPrefix(h, ids)
    BY <1>2, <2>2, <2>3, PrefixTransitive
  <2>5. Len(h) <= Len(ids)
    BY <2>3, <2>4, PrefixPointwise
  <2> QED BY <1>2, <1>3, <2>1, <2>2, <2>3, <2>5 DEF h, walked, w
<1> QED BY <1>4, <1>5, <1>6, CacheAssumption

(* The last of the free rows, and the rest.                                  *)
LEMMA LastRow ==
  ASSUME Typed, rows # <<>>
  PROVE  Last(rows) \in Seq(Pages) /\ Front(rows) \in Seq(Seq(Pages))
<1>1. PICK n \in Nat : n = Len(rows) /\ rows \in Seq(Seq(Pages))
  BY LenProperties DEF Typed
<1>2. n > 0
  BY <1>1, EmptySeq
<1>3. rows[n] \in Seq(Pages)
  BY <1>1, <1>2, ElementOfSeq
<1>4. n - 1 \in 0..n
  BY <1>2
<1>5. SubSeq(rows, 1, n - 1) \in Seq(Seq(Pages))
  BY <1>1, <1>4, FirstElements
<1> QED BY <1>1, <1>3, <1>5 DEF Last, Front

(* The prefix of the row names as many pages as the handle has tokens.       *)
LEMMA MatchedRowResult ==
  ASSUME Typed, rows # <<>>, NEW t, NEW h \in Seq(Vocab),
         PagesOf(t, h) \in Seq(Pages), Len(PagesOf(t, h)) = Len(h)
  PROVE  /\ MatchedRow(t, h) \in Seq(Pages) /\ Len(MatchedRow(t, h)) = Len(h)
         /\ Last(rows) \in Seq(Pages)
<1>1. PICK old \in Seq(Pages) : old = Last(rows)
  BY LastRow
<1>2. CASE SliceIsView
  BY <1>1, <1>2 DEF MatchedRow
<1>3. CASE ~ SliceIsView
  <2>1. PICK n \in Nat : n = Len(h)
    BY LenProperties
  <2>2. 1 \in Pages
    BY SizeAssumption DEF Pages
  <2> DEFINE e(i) == IF i <= Len(old) THEN old[i] ELSE 1
  <2>3. \A i \in 1..n : e(i) \in Pages
    BY <1>1, <2>1, <2>2, LenProperties, ElementOfSeq
  <2>4. MatchedRow(t, h) = [i \in 1..n |-> e(i)]
    BY <1>1, <1>3, <2>1 DEF MatchedRow
  <2> HIDE DEF e
  <2>5. [i \in 1..n |-> e(i)] \in Seq(Pages) /\ Len([i \in 1..n |-> e(i)]) = n
    BY <2>1, <2>3
  <2> QED BY <1>1, <2>1, <2>4, <2>5
<1> QED BY <1>2, <1>3

(* _try_allocate_one: match, check, lock, check again.                       *)
LEMMA TryAllocateKeepsIInv ==
  ASSUME IInv, TryAllocate
  PROVE  IInv'
<1>1. Typed /\ ListsOK /\ LengthsOK
  BY DEF IInv
<1>2. /\ pc = "admit" /\ Len(batch) < Len(pending) /\ budget > 0 /\ rows # <<>>
      /\ ~ req[Current].chunked
      /\ UNCHANGED <<inbox, running, finished, prepared, rows, freePages, freeSlots, kv, state>>
  BY DEF TryAllocate, data
<1>3. Admitting
  BY <1>2 DEF Admitting
<1>4. PICK r \in Reqs : r = Current
  BY <1>1, <1>2, <1>3, CurrentWaits
<1>5. /\ req \in [Reqs -> ReqRecord] /\ req[r] \in ReqRecord
      /\ req[r].stage = "pending" /\ ~ req[r].chunked /\ r \notin running
      /\ req[r].cached = 0
  <2>1. Waiting(r) /\ r \notin running
    BY <1>1, <1>2, <1>3, <1>4, CurrentWaits
  <2> QED BY <1>1, <1>2, <1>4, <2>1 DEF Typed, Waiting, LengthsOK, ReqLengths
<1>6. PICK ids \in Seq(Vocab) : ids = LookupIds(r) /\ Len(ids) <= InputLen(r)
  <2>1. req[r].prompt \in Seq(Vocab)
    BY <1>5, ReqFields
  <2>2. PICK n \in Nat : n = Len(req[r].prompt)
    BY <2>1, LenProperties
  <2>3. CASE n = 0
    <3>1. LookupIds(r) = <<>>
      BY <2>1, <2>2, <2>3 DEF LookupIds, InputLen
    <3>2. <<>> \in Seq(Vocab) /\ Len(<<>>) = 0
      BY EmptySeq
    <3>3. LookupIds(r) \in Seq(Vocab) /\ Len(LookupIds(r)) <= n
      BY <2>3, <3>1, <3>2
    <3> QED BY <2>2, <3>3 DEF InputLen
  <2>4. CASE n > 0
    <3>1. n - 1 \in 0..n
      BY <2>4
    <3>2. /\ SubSeq(req[r].prompt, 1, n - 1) \in Seq(Vocab)
          /\ Len(SubSeq(req[r].prompt, 1, n - 1)) = n - 1
      BY <2>1, <2>2, <3>1, FirstElements
    <3>3. LookupIds(r) = SubSeq(req[r].prompt, 1, n - 1) /\ n - 1 <= n
      BY <2>2 DEF LookupIds, InputLen
    <3>4. LookupIds(r) \in Seq(Vocab) /\ Len(LookupIds(r)) <= n
      BY <3>2, <3>3
    <3> QED BY <2>2, <3>4 DEF InputLen
  <2> QED BY <2>2, <2>3, <2>4
<1>7. PICK h, walked :
        /\ h \in Seq(Vocab)
        /\ h = MatchedHandle(ids) /\ walked = MatchedTree(ids)
        /\ IsTree(walked, Vocab, Pages, Slots)
        /\ h \in walked.nodes /\ Len(h) <= Len(ids)
  BY <1>1, MatchResult
<1>8. PICK locked : /\ locked = Lock(walked, h)
                    /\ IsTree(locked, Vocab, Pages, Slots)
                    /\ locked.nodes = walked.nodes
  BY <1>7, LockResult
<1>9. \/ /\ tree' = locked
         /\ req' = [req EXCEPT ![r].handle = h, ![r].row = MatchedRow(locked, h),
                                ![r].stale = Last(rows)]
         /\ pc' = "slot"
         /\ UNCHANGED <<pending, batch, chunked_list, budget, reserved>>
      \/ tree' = walked /\ SelectBatch /\ UNCHANGED req
  BY <1>4, <1>6, <1>7, <1>8 DEF TryAllocate
<1>10. CASE /\ tree' = locked
            /\ req' = [req EXCEPT ![r].handle = h, ![r].row = MatchedRow(locked, h),
                                ![r].stale = Last(rows)]
            /\ pc' = "slot"
            /\ UNCHANGED <<pending, batch, chunked_list, budget, reserved>>
  <2>1. PICK row \in Seq(Pages), stale \in Seq(Pages) :
          row = MatchedRow(locked, h) /\ Len(row) = Len(h) /\ stale = Last(rows)
    <3>1. h \in locked.nodes /\ IsPrefix(h, h)
      BY <1>7, <1>8, RootIsPrefix
    <3>2. PagesOf(locked, h) \in Seq(Pages) /\ Len(PagesOf(locked, h)) = Len(h)
      BY <1>7, <1>8, <3>1, PagesOfNode
    <3> QED BY <1>1, <1>2, <1>7, <3>2, MatchedRowResult
  <2> DEFINE new == [req[r] EXCEPT !.handle = h, !.row = row, !.stale = stale]
  <2>2. /\ new \in ReqRecord /\ new.stage = req[r].stage /\ new.chunked = req[r].chunked
        /\ new.ids = req[r].ids /\ new.cached = req[r].cached /\ new.device = req[r].device
        /\ new.slot = req[r].slot /\ new.prompt = req[r].prompt
        /\ new.handle = h /\ new.row = row
    BY <1>5, <1>7 DEF ReqRecord
  <2>3. req' = [req EXCEPT ![r] = new]
    BY <1>5, <1>10, <2>1
  <2> HIDE DEF new
  <2>4. /\ req'[r] = new /\ req' \in [Reqs -> ReqRecord]
        /\ \A q \in Reqs \ {r} : req'[q] = req[q]
    BY <1>5, <2>2, <2>3
  <2>5. Typed'
    BY <1>1, <1>2, <1>8, <1>10, <2>4 DEF Typed
  <2>6. \A q \in Reqs : /\ req'[q].stage = req[q].stage /\ req'[q].chunked = req[q].chunked
                        /\ req'[q].ids = req[q].ids /\ req'[q].cached = req[q].cached
                        /\ req'[q].device = req[q].device /\ req'[q].slot = req[q].slot
                        /\ req'[q].prompt = req[q].prompt
    BY <2>2, <2>4
  <2>7. InboxOK' /\ PendingOK'
    <3>1. Admitting'
      BY <1>10 DEF Admitting
    <3>2. InboxOK'
      BY <1>1, <1>2, <2>6, Members DEF ListsOK, InboxOK
    <3>3. PendingOK'
      BY <1>1, <1>10, <3>1 DEF ListsOK, PendingOK
    <3> QED BY <3>2, <3>3
  <2>8. AdmissionOK'
    <3>1. PICK n \in Nat, m \in Nat : n = Len(batch) /\ m = Len(pending)
      BY <1>1, Members
    <3>2. AdmissionOK
      BY <1>1 DEF ListsOK
    <3>3. /\ \A i \in 1..n : batch[i] \in Reqs
          /\ \A i \in n + 1 .. m : pending[i] \in Reqs
          /\ \A i \in 1..Len(chunked_list) : chunked_list[i] \in Reqs
      <4>1. \A i \in n + 1 .. m : i \in 1..m
        BY <3>1
      <4> QED BY <1>1, <3>1, <4>1, Members
    <3>4. /\ \A i \in 1..n : req'[batch[i]].stage = req[batch[i]].stage
          /\ \A i \in n + 1 .. m : Waiting(pending[i]) =>
               \/ req'[pending[i]].stage = "pending" /\ ~ req'[pending[i]].chunked
               \/ req'[pending[i]].stage = "live" /\ req'[pending[i]].chunked
          /\ \A i \in 1..Len(chunked_list) : Waiting(chunked_list[i]) =>
               \/ req'[chunked_list[i]].stage = "pending" /\ ~ req'[chunked_list[i]].chunked
               \/ req'[chunked_list[i]].stage = "live" /\ req'[chunked_list[i]].chunked
      BY <2>6, <3>3 DEF Waiting
    <3>5. /\ n <= m /\ Len(chunked_list) <= 1
          /\ \A i \in 1..n : batch[i] = pending[i] /\ req[batch[i]].stage = "live"
          /\ \A i \in n + 1 .. m : Waiting(pending[i])
          /\ \A i \in 1..Len(chunked_list) : /\ budget = 0 /\ Waiting(chunked_list[i])
                                             /\ \E j \in 1..n : batch[j] = chunked_list[i]
      BY <1>3, <3>1, <3>2 DEF AdmissionOK
    <3>6. /\ batch' = batch /\ pending' = pending /\ chunked_list' = chunked_list
          /\ budget' = budget
      BY <1>10
    <3>7. /\ Len(batch') = n /\ Len(pending') = m
          /\ \A i \in 1..n : batch'[i] = pending'[i] /\ req'[batch'[i]].stage = "live"
          /\ \A i \in n + 1 .. m : Waiting(pending[i])'
          /\ \A i \in 1..Len(chunked_list) : /\ budget' = 0 /\ Waiting(chunked_list[i])'
                                             /\ \E j \in 1..n : batch'[j] = chunked_list'[i]
      BY <3>1, <3>4, <3>5, <3>6 DEF Waiting
    <3> QED BY <3>1, <3>5, <3>6, <3>7 DEF AdmissionOK
  <2>9. SlotOK'
    <3>1. pending'[Len(batch') + 1] = r
      BY <1>4, <1>10 DEF Current
    <3>2. Len(h) <= Len(req[r].prompt)
      <4>1. PICK l \in Nat, n \in Nat, k \in Nat :
              l = Len(ids) /\ n = Len(req[r].prompt) /\ k = Len(h)
        BY <1>5, <1>7, ReqFields, LenProperties
      <4>2. k <= l /\ l <= n
        BY <1>6, <1>7, <4>1 DEF InputLen
      <4>3. k <= n
        BY <4>2
      <4> QED BY <4>1, <4>3
    <3>3. /\ req'[r].stage = "pending" /\ req'[r].handle = h /\ req'[r].row = row
          /\ req'[r].prompt = req[r].prompt
      BY <1>5, <2>2, <2>4
    <3> QED BY <1>2, <1>10, <2>1, <3>1, <3>2, <3>3 DEF SlotOK, Current, InputLen
  <2>10. PlacesOK'
    BY <1>1, <1>2, <1>10, <2>6, Members DEF ListsOK, PlacesOK, Typed
  <2>11. ReqLengths'
    <3>1. Len(row) \in Nat
      BY LenProperties
    <3>2. req'[r].cached <= Len(req'[r].row)
      BY <1>5, <2>2, <2>4, <3>1
    <3>3. \A q \in Reqs : req'[q].cached <= Len(req'[q].row)
      BY <1>1, <2>4, <3>2 DEF LengthsOK, ReqLengths
    <3>4. ReqLengths
      BY <1>1 DEF LengthsOK
    <3>5. ASSUME NEW q \in Reqs
          PROVE  /\ req'[q].cached <= Len(req'[q].ids)
                 /\ req'[q].chunked => Len(req'[q].ids) <= Len(req'[q].prompt)
                 /\ req'[q].stage # "live" =>
                      req'[q].slot = None /\ req'[q].cached = 0 /\ ~ req'[q].chunked
      BY <2>6, <3>4 DEF ReqLengths, InputLen
    <3>6. \A q \in Reqs :
            /\ req'[q].cached <= Len(req'[q].ids) /\ req'[q].cached <= Len(req'[q].row)
            /\ req'[q].chunked => Len(req'[q].ids) <= Len(req'[q].prompt)
            /\ req'[q].stage # "live" =>
                 req'[q].slot = None /\ req'[q].cached = 0 /\ ~ req'[q].chunked
      BY <3>3, <3>5
    <3> QED BY <3>6 DEF ReqLengths, InputLen
  <2>12. DeviceLengths' /\ RowLengths'
    <3>1. /\ pc' = "slot" /\ batch' = batch /\ running' = running /\ pc = "admit"
          /\ \A i \in 1..Len(batch) : batch[i] \in Reqs
          /\ \A q \in running : q \in Reqs
      BY <1>1, <1>2, <1>10, Members DEF Typed
    <3>2. DeviceLengths
      BY <1>1 DEF LengthsOK
    <3>3. \A i \in 1..Len(batch) : req'[batch[i]].device = Len(req'[batch[i]].ids)
      BY <2>6, <3>1, <3>2 DEF DeviceLengths
    <3>4. \A q \in running : req'[q].device = Len(req'[q].ids)
      BY <2>6, <3>1, <3>2 DEF DeviceLengths
    <3>5. DeviceLengths'
      BY <3>1, <3>3, <3>4 DEF DeviceLengths
    <3>6. RowLengths'
      BY <3>1 DEF RowLengths
    <3> QED BY <3>5, <3>6
  <2> QED BY <2>5, <2>7, <2>8, <2>9, <2>10, <2>11, <2>12 DEF IInv, ListsOK, LengthsOK
<1>11. CASE tree' = walked /\ SelectBatch /\ UNCHANGED req
  <2>1. req' \in [Reqs -> ReqRecord] /\ SameForLists
    BY <1>1, <1>11 DEF Typed, SameForLists
  <2>2. /\ pending' \in Seq(Reqs) /\ batch' \in Seq(Reqs) /\ chunked_list' = <<>>
        /\ budget' = 0 /\ pc' \in {"alloc", "recv"}
        /\ ListsOK' /\ DeviceLengths' /\ RowLengths'
    BY <1>1, <1>2, <1>3, <1>11, <2>1, SelectBatchKeepsLists
  <2>3. Typed'
    BY <1>1, <1>2, <1>7, <1>11, <2>2, EmptySeq DEF Typed
  <2>4. ReqLengths'
    BY <1>1, <1>11 DEF LengthsOK, ReqLengths, InputLen
  <2> QED BY <2>2, <2>3, <2>4 DEF IInv, LengthsOK
<1> QED BY <1>9, <1>10, <1>11

(* Whatever slot the request gets, it joins the batch.                       *)
LEMMA AdmitKeepsIInv ==
  ASSUME IInv, pc = "slot", NEW s \in Slots \cup {None}, Admit(s),
         IsTree(tree, Vocab, Pages, Slots)', freePages' \in Seq(Pages), freeSlots' \subseteq Slots
  PROVE  /\ IInv'
         /\ \E new : /\ req' = [req EXCEPT ![Current] = new]
                     /\ new.slot = s /\ new.stage = "live"
<1>1. Typed /\ ListsOK /\ LengthsOK /\ SlotOK
  BY DEF IInv, ListsOK
<1>2. /\ AddOneReq(Current, Len(req[Current].handle), s)
      /\ rows' = Front(rows) /\ pc' = "admit"
      /\ UNCHANGED <<inbox, pending, running, finished, prepared, kv>>
  BY DEF Admit
<1>3. Admitting /\ Len(batch) < Len(pending) /\ budget > 0 /\ rows # <<>>
  BY <1>1 DEF Admitting, SlotOK
<1>4. Current \in Reqs /\ req \in [Reqs -> ReqRecord] /\ req[Current] \in ReqRecord
  BY <1>1, <1>3, CurrentWaits DEF Typed
<1>5. PICK c \in Nat : c = Len(req[Current].handle)
  BY <1>4, ReqFields
<1>6. c <= InputLen(Current) /\ c <= Len(req[Current].row)
  <2>1. c = Len(req[Current].row) /\ c <= InputLen(Current)
    BY <1>1, <1>5 DEF SlotOK
  <2>2. c <= c
    OBVIOUS
  <2> QED BY <2>1, <2>2
<1>7. /\ req' \in [Reqs -> ReqRecord] /\ budget' \in Nat
      /\ batch' \in Seq(Reqs) /\ chunked_list' \in Seq(Reqs)
      /\ ListsOK' /\ LengthsOK'
      /\ \E new : /\ req' = [req EXCEPT ![Current] = new]
                  /\ new.slot = s /\ new.stage = "live" /\ new.handle = req[Current].handle
                  /\ new.cached = c /\ new.row = req[Current].row
  <2>1. AddOneReq(Current, c, s)
    BY <1>2, <1>5
  <2> QED BY <1>1, <1>2, <1>3, <1>6, <2>1, AddOneReqKeepsIInv
<1>8. rows' \in Seq(Seq(Pages))
  BY <1>1, <1>2, <1>3, LastRow
<1>9. Typed'
  BY <1>1, <1>2, <1>7, <1>8 DEF Typed
<1> QED BY <1>7, <1>9 DEF IInv

(* Admission with a cache that has no slots.                                 *)
LEMMA AdmitWithoutSlotKeepsIInv ==
  ASSUME IInv, AdmitWithoutSlot
  PROVE  IInv'
<1>1. pc = "slot" /\ Admit(None) /\ UNCHANGED <<tree, freePages, freeSlots>>
  BY DEF AdmitWithoutSlot, cache
<1>2. Typed
  BY DEF IInv
<1>3. IsTree(tree, Vocab, Pages, Slots)' /\ freePages' \in Seq(Pages) /\ freeSlots' \subseteq Slots
  BY <1>1, <1>2 DEF Typed
<1> QED BY <1>1, <1>3, AdmitKeepsIInv

(* Admission with a slot from the pool.                                      *)
LEMMA AdmitWithFreeSlotKeepsIInv ==
  ASSUME IInv, AdmitWithFreeSlot
  PROVE  IInv'
<1>1. PICK s \in freeSlots :
        /\ pc = "slot" /\ Admit(s) /\ freeSlots' = freeSlots \ {s}
        /\ UNCHANGED <<tree, freePages>>
  BY DEF AdmitWithFreeSlot
<1>2. Typed
  BY DEF IInv
<1>3. /\ IsTree(tree, Vocab, Pages, Slots)' /\ freePages' \in Seq(Pages)
      /\ freeSlots' \subseteq Slots /\ s \in Slots \cup {None}
  BY <1>1, <1>2 DEF Typed
<1> QED BY <1>1, <1>3, AdmitKeepsIInv

(* Without one snapshot the tree is a tree still.                            *)
LEMMA DropSnapshotResult ==
  ASSUME Typed, NEW n \in SnapshotNodes(tree)
  PROVE  LET u == DropSnapshot(tree, n)
         IN /\ IsTree(u, Vocab, Pages, Slots)
            /\ n \in tree.nodes /\ u.nodes = tree.nodes
            /\ tree.snap[n] \in Slots /\ u.snap[n] = None
            /\ \A m \in tree.nodes \ {n} : u.snap[m] = tree.snap[m]
<1> DEFINE u == DropSnapshot(tree, n)
<1>1. /\ IsTree(tree, Vocab, Pages, Slots) /\ n \in tree.nodes /\ tree.snap[n] # None
      /\ DOMAIN tree = Fields /\ tree.snap \in [tree.nodes -> Slots \cup {None}]
  BY DEF Typed, SnapshotNodes, IsTree
<1>2. /\ DOMAIN u = Fields /\ u.nodes = tree.nodes /\ u.page = tree.page /\ u.ref = tree.ref
      /\ u.snap = [tree.snap EXCEPT ![n] = None]
  BY <1>1 DEF DropSnapshot, Fields
<1> HIDE DEF u
<1>3. u.snap \in [tree.nodes -> Slots \cup {None}]
  BY <1>1, <1>2
<1>4. IsTree(u, Vocab, Pages, Slots)
  BY <1>1, <1>2, <1>3, SnapResult
<1> QED BY <1>1, <1>2, <1>4 DEF u

(* Admission with a slot that a snapshot gave up.                            *)
LEMMA AdmitWithShedSlotKeepsIInv ==
  ASSUME IInv, AdmitWithShedSlot
  PROVE  IInv'
<1>1. PICK n \in Sheddable :
        /\ pc = "slot" /\ tree' = DropSnapshot(tree, n) /\ Admit(tree.snap[n])
        /\ UNCHANGED <<freePages, freeSlots>>
  BY DEF AdmitWithShedSlot
<1>2. Typed /\ n \in SnapshotNodes(tree)
  BY <1>1 DEF IInv, Sheddable
<1>3. IsTree(tree', Vocab, Pages, Slots) /\ tree.snap[n] \in Slots \cup {None}
  BY <1>1, <1>2, DropSnapshotResult
<1>4. freePages' \in Seq(Pages) /\ freeSlots' \subseteq Slots
  BY <1>1, <1>2 DEF Typed
<1> QED BY <1>1, <1>3, <1>4, AdmitKeepsIInv

(* No slot to be had: the request stays pending and its handle is unlocked.  *)
LEMMA StarvedKeepsIInv ==
  ASSUME IInv, Starved
  PROVE  IInv'
<1>1. Typed /\ ListsOK /\ LengthsOK /\ SlotOK
  BY DEF IInv, ListsOK
<1>2. /\ pc = "slot" /\ SelectBatch
      /\ tree' = Unlock(tree, req[Current].handle)
      /\ req' = [req EXCEPT ![Current].handle = Root, ![Current].row = <<>>,
                            ![Current].stale = <<>>]
      /\ UNCHANGED <<inbox, running, finished, prepared, rows, freePages, freeSlots, kv, state>>
  BY DEF Starved, data
<1>3. Admitting
  BY <1>2 DEF Admitting
<1>4. PICK r \in Reqs : r = Current
  BY <1>1, <1>2, <1>3, CurrentWaits DEF SlotOK
<1>5. /\ req \in [Reqs -> ReqRecord] /\ req[r] \in ReqRecord
      /\ req[r].cached = 0
  BY <1>1, <1>2, <1>4 DEF Typed, SlotOK, LengthsOK, ReqLengths
<1> DEFINE new == [req[r] EXCEPT !.handle = Root, !.row = <<>>, !.stale = <<>>]
<1>6. /\ new \in ReqRecord /\ new.stage = req[r].stage /\ new.chunked = req[r].chunked
      /\ new.ids = req[r].ids /\ new.cached = 0 /\ new.device = req[r].device
      /\ new.slot = req[r].slot /\ new.prompt = req[r].prompt /\ Len(new.row) = 0
  BY <1>5, EmptySeq DEF ReqRecord, Root
<1>7. req' = [req EXCEPT ![r] = new]
  BY <1>2, <1>4, <1>5
<1> HIDE DEF new
<1>8. /\ req'[r] = new /\ req' \in [Reqs -> ReqRecord]
      /\ \A q \in Reqs \ {r} : req'[q] = req[q]
  BY <1>5, <1>6, <1>7
<1>9. SameForLists
  BY <1>6, <1>8 DEF SameForLists
<1>10. /\ pending' \in Seq(Reqs) /\ batch' \in Seq(Reqs) /\ chunked_list' = <<>>
       /\ budget' = 0 /\ pc' \in {"alloc", "recv"}
       /\ ListsOK' /\ DeviceLengths' /\ RowLengths'
  BY <1>1, <1>2, <1>3, <1>8, <1>9, SelectBatchKeepsLists
<1>11. IsTree(tree', Vocab, Pages, Slots)
  BY <1>1, <1>2, UnlockResult DEF Typed
<1>12. Typed'
  BY <1>1, <1>2, <1>8, <1>10, <1>11, EmptySeq DEF Typed
<1>13. ReqLengths'
  <2>1. req'[r].cached <= Len(req'[r].ids) /\ req'[r].cached <= Len(req'[r].row)
    <3>1. Len(new.ids) \in Nat
      BY <1>6, ReqFields
    <3> QED BY <1>6, <1>8, <3>1
  <2> QED BY <1>1, <1>6, <1>8, <2>1 DEF LengthsOK, ReqLengths, InputLen
<1> QED BY <1>10, <1>12, <1>13 DEF IInv, LengthsOK

(* Eviction, for a slot or for pages, touches the cache only.                *)
LEMMA EvictKeepsIInv ==
  ASSUME IInv, NEW n, EvictLeaf(n), UNCHANGED <<lists, adder, rows, req, data, pc>>
  PROVE  IInv'
<1>1. Typed /\ ListsOK /\ LengthsOK
  BY DEF IInv
<1>2. /\ n \in UnlockedLeaves(tree) /\ tree' = RemoveLeaf(tree, n)
      /\ freePages' = freePages \o EvictedPages(tree, n)
      /\ freeSlots' = freeSlots \cup ({tree.snap[n]} \ {None})
      /\ UNCHANGED <<inbox, pending, running, batch, chunked_list, finished, budget, reserved,
                     prepared, rows, req, kv, state, pc>>
  BY DEF EvictLeaf, lists, adder, data
<1>3. /\ IsTree(tree, Vocab, Pages, Slots) /\ freePages \in Seq(Pages) /\ freeSlots \subseteq Slots
  BY <1>1 DEF Typed
<1>4. IsTree(tree', Vocab, Pages, Slots) /\ n \in tree.nodes /\ n # Root
  BY <1>2, <1>3, RemoveLeafResult
<1>5. freePages' \in Seq(Pages)
  <2>1. EvictedPages(tree, n) \in Seq(Pages)
    BY <1>3, <1>4, EvictedPagesArePages
  <2> QED BY <1>2, <1>3, <2>1, ConcatProperties
<1>6. freeSlots' \subseteq Slots
  BY <1>2, <1>3, <1>4 DEF IsTree
<1>7. Typed'
  BY <1>1, <1>2, <1>4, <1>5, <1>6 DEF Typed
<1>8. InboxOK' /\ PendingOK' /\ AdmissionOK'
  BY <1>1, <1>2 DEF ListsOK, InboxOK, PendingOK, AdmissionOK, Admitting, Waiting
<1>9. SlotOK' /\ PlacesOK'
  BY <1>1, <1>2 DEF ListsOK, SlotOK, PlacesOK, Current, InputLen
<1>10. LengthsOK'
  BY <1>1, <1>2 DEF LengthsOK, ReqLengths, DeviceLengths, RowLengths, InputLen
<1> QED BY <1>7, <1>8, <1>9, <1>10 DEF IInv, ListsOK

-----------------------------------------------------------------------------
(* Cleaning up. *)

(* What a finished request caches fits its row, and so do the pages it frees. *)
LEMMA FinishedFits ==
  ASSUME Typed, ReqLengths, NEW r \in Reqs
  PROVE  LET ids == SubSeq(req[r].ids, 1, req[r].cached)
         IN /\ ids \in Seq(Vocab) /\ Len(ids) <= Len(req[r].row)
            /\ Duplicates(r, Len(ids)) \in Seq(Pages)
            /\ Duplicates(r, Len(Matched(tree, ids))) \in Seq(Pages)
<1>1. req[r] \in ReqRecord
  BY DEF Typed
<1>2. PICK c \in Nat, k \in Nat, h \in Nat :
        c = req[r].cached /\ k = Len(req[r].row) /\ h = Len(req[r].handle) /\ c <= k
  BY <1>1, ReqFields DEF ReqLengths
<1>3. PICK ids \in Seq(Vocab) : ids = SubSeq(req[r].ids, 1, req[r].cached) /\ Len(ids) = c
  <2>1. c \in 0..Len(req[r].ids) /\ req[r].ids \in Seq(Vocab)
    BY <1>1, <1>2, ReqFields DEF ReqLengths
  <2>2. /\ SubSeq(req[r].ids, 1, c) \in Seq(Vocab)
        /\ Len(SubSeq(req[r].ids, 1, c)) = c
    BY <2>1, FirstElements
  <2> QED BY <1>2, <2>2
<1>4. \A n \in 0..k : Duplicates(r, n) \in Seq(Pages)
  <2> SUFFICES ASSUME NEW n \in 0..k PROVE Duplicates(r, n) \in Seq(Pages)
    OBVIOUS
  <2>1. req[r].row \in Seq(Pages)
    BY <1>1, ReqFields
  <2>2. \A i \in h + 1 .. n : req[r].row[i] \in Pages
    BY <1>2, <2>1, ElementOfSeq
  <2>3. SubSeq(req[r].row, h + 1, n) \in Seq(Pages)
    BY <2>1, <2>2, SubSeqProperties
  <2> QED BY <1>2, <2>3 DEF Duplicates
<1>5. Len(Matched(tree, ids)) \in 0..c
  <2>1. Matched(tree, ids) \in Seq(Vocab) /\ IsPrefix(Matched(tree, ids), ids)
    BY MatchedIsLongest DEF Typed
  <2>2. Len(Matched(tree, ids)) <= Len(ids) /\ Len(Matched(tree, ids)) \in Nat
    BY <2>1, PrefixPointwise, LenProperties
  <2> QED BY <1>3, <2>2
<1>6. c \in 0..k /\ Len(Matched(tree, ids)) \in 0..k
  BY <1>2, <1>5
<1> QED BY <1>2, <1>3, <1>4, <1>6

(* What a request leaves in its row are pages.                               *)
LEMMA LeftInRowResult ==
  ASSUME Typed, NEW r \in Reqs
  PROVE  LeftInRow(r) \in Seq(Pages)
<1>1. PICK row \in Seq(Pages), stale \in Seq(Pages) : row = req[r].row /\ stale = req[r].stale
  BY ReqFields DEF Typed
<1>2. PICK m \in Nat, n \in Nat : m = Len(row) /\ n = Len(stale)
  BY <1>1, LenProperties
<1>3. SubSeq(stale, m + 1, n) \in Seq(Pages)
  <2>1. \A i \in m + 1 .. n : stale[i] \in Pages
    BY <1>2, ElementOfSeq
  <2> QED BY <1>2, <2>1, SubSeqProperties
<1>4. row \o SubSeq(stale, m + 1, n) \in Seq(Pages)
  BY <1>3, ConcatProperties
<1>5. <<>> \in Seq(Pages)
  BY EmptySeq
<1> QED BY <1>1, <1>2, <1>4, <1>5 DEF LeftInRow

(* The cache once a finished request has given back what it held.            *)
LEMMA CleanupCache ==
  ASSUME Typed, ReqLengths, NEW r \in Reqs, FreeAndCache(r)
  PROVE  /\ IsTree(tree', Vocab, Pages, Slots)
         /\ freePages' \in Seq(Pages) /\ freeSlots' \subseteq Slots
         /\ rows' \in Seq(Seq(Pages))
         /\ req' = [req EXCEPT ![r] = [NoReq EXCEPT !.stage = "done"]]
<1>1. PICK ids \in Seq(Vocab) :
        /\ ids = SubSeq(req[r].ids, 1, req[r].cached)
        /\ Len(ids) <= Len(req[r].row)
        /\ Duplicates(r, Len(ids)) \in Seq(Pages)
        /\ Duplicates(r, Len(Matched(tree, ids))) \in Seq(Pages)
  BY FinishedFits
<1>2. /\ IsTree(tree, Vocab, Pages, Slots) /\ freePages \in Seq(Pages) /\ freeSlots \subseteq Slots
      /\ req[r] \in ReqRecord
  BY DEF Typed
<1>3. PICK row \in Seq(Pages), slot \in Slots \cup {None} :
        row = req[r].row /\ slot = req[r].slot
  BY <1>2, ReqFields
<1>4. /\ tree' = IF CacheType = "naive" THEN tree
                 ELSE Unlock(Insert(tree, ids, row, slot), req[r].handle)
      /\ freePages' = freePages \o Duplicates(r, IF CacheType = "naive" THEN Len(ids)
                                                 ELSE Len(Matched(tree, ids)))
      /\ freeSlots' = freeSlots \/ freeSlots' = freeSlots \cup ({slot} \ {None})
      /\ rows' = Append(rows, LeftInRow(r))
      /\ req' = [req EXCEPT ![r] = [NoReq EXCEPT !.stage = "done"]]
  BY <1>1, <1>3 DEF FreeAndCache
<1>5. IsTree(tree', Vocab, Pages, Slots)
  <2>1. IsTree(Insert(tree, ids, row, slot), Vocab, Pages, Slots)
    BY <1>1, <1>2, <1>3, InsertResult
  <2>2. IsTree(Unlock(Insert(tree, ids, row, slot), req[r].handle), Vocab, Pages, Slots)
    BY <2>1, UnlockResult
  <2> QED BY <1>2, <1>4, <2>2
<1>6. freePages' \in Seq(Pages)
  BY <1>1, <1>2, <1>4, ConcatProperties
<1>7. freeSlots' \subseteq Slots
  BY <1>2, <1>4
<1>8. rows' \in Seq(Seq(Pages))
  <2>1. rows \in Seq(Seq(Pages)) /\ LeftInRow(r) \in Seq(Pages)
    BY LeftInRowResult DEF Typed
  <2> QED BY <1>4, <2>1, AppendProperties
<1> QED BY <1>4, <1>5, <1>6, <1>7, <1>8

(* A finished request gives back what it holds.                              *)
LEMMA CleanupKeepsIInv ==
  ASSUME IInv, Cleanup
  PROVE  IInv'
<1>1. Typed /\ ListsOK /\ LengthsOK
  BY DEF IInv
<1>2. PICK r \in finished :
        /\ pc = "cleanup" /\ FreeAndCache(r) /\ finished' = finished \ {r}
        /\ UNCHANGED <<inbox, pending, running, batch, chunked_list, budget, reserved, prepared,
                       kv, state, pc>>
  BY DEF Cleanup, adder, data
<1>3. /\ r \in Reqs /\ req \in [Reqs -> ReqRecord]
      /\ req[r].stage = "live" /\ ~ req[r].chunked /\ r \notin running
  BY <1>1, <1>2 DEF Typed, ListsOK, PlacesOK
<1>4. /\ IsTree(tree', Vocab, Pages, Slots)
      /\ freePages' \in Seq(Pages) /\ freeSlots' \subseteq Slots
      /\ rows' \in Seq(Seq(Pages))
      /\ req' = [req EXCEPT ![r] = [NoReq EXCEPT !.stage = "done"]]
  BY <1>1, <1>2, <1>3, CleanupCache DEF LengthsOK
<1>5. PICK new \in ReqRecord :
        /\ req' = [req EXCEPT ![r] = new]
        /\ new.stage = "done" /\ new.slot = None /\ new.cached = 0 /\ new.chunked = FALSE
  BY <1>4, NoReqFields
<1>6. /\ req'[r] = new /\ req' \in [Reqs -> ReqRecord]
      /\ \A q \in Reqs \ {r} : req'[q] = req[q]
  BY <1>3, <1>5
<1>7. Typed'
  <2> QED BY <1>1, <1>2, <1>4, <1>6 DEF Typed
<1>8. ListsOK'
  <2>1. InboxOK'
    <3>1. \A i \in 1..Len(inbox) : inbox[i] \in Reqs \ {r}
      BY <1>1, <1>3, Members DEF ListsOK, InboxOK
    <3> QED BY <1>1, <1>2, <1>6, <3>1 DEF ListsOK, InboxOK
  <2>2. PendingOK' /\ AdmissionOK' /\ SlotOK'
    <3>1. \A i \in 1..Len(pending) : pending[i] \in Reqs \ {r}
      BY <1>1, <1>2, <1>3, Members DEF ListsOK, PendingOK, Admitting, Waiting
    <3> QED BY <1>1, <1>2, <1>6, <3>1
        DEF ListsOK, PendingOK, AdmissionOK, SlotOK, Admitting, Waiting
  <2>3. /\ \A q \in running : q \in Reqs \ {r}
        /\ \A q \in finished \ {r} : q \in Reqs \ {r}
    BY <1>1, <1>3 DEF Typed
  <2>4. PlacesOK'
    BY <1>1, <1>2, <1>6, <2>3 DEF ListsOK, PlacesOK
  <2> QED BY <2>1, <2>2, <2>4 DEF ListsOK
<1>9. ReqLengths'
  <2>1. Len(new.ids) \in Nat /\ Len(new.row) \in Nat
    BY ReqFields
  <2>2. req'[r].cached <= Len(req'[r].ids) /\ req'[r].cached <= Len(req'[r].row)
    BY <1>5, <1>6, <2>1
  <2> QED BY <1>1, <1>5, <1>6, <2>2 DEF LengthsOK, ReqLengths, InputLen
<1>10. DeviceLengths' /\ RowLengths'
  <2>1. \A q \in running : q \in Reqs \ {r}
    BY <1>1, <1>3 DEF Typed
  <2> QED BY <1>1, <1>2, <1>6, <2>1 DEF LengthsOK, DeviceLengths, RowLengths
<1> QED BY <1>7, <1>8, <1>9, <1>10 DEF IInv, LengthsOK

(* The end of a step.                                                        *)
LEMMA EndStepKeepsIInv ==
  ASSUME IInv, EndStep
  PROVE  IInv'
<1>1. Typed /\ ListsOK /\ LengthsOK
  BY DEF IInv
<1>2. /\ pc = "cleanup" /\ finished = {} /\ batch' = <<>> /\ pc' = "recv"
      /\ UNCHANGED <<inbox, pending, running, chunked_list, finished, budget, prepared, rows,
                     tree, freePages, freeSlots, req, kv, state>>
  BY DEF EndStep, adder, cache, data
<1>3. <<>> \in Seq(Reqs) /\ Len(<<>>) = 0 /\ prepared = 0
  BY <1>1, <1>2, EmptySeq DEF ListsOK, PlacesOK
<1>4. Typed'
  BY <1>1, <1>2, <1>3 DEF Typed
<1>5. ListsOK'
  BY <1>1, <1>2, <1>3
  DEF ListsOK, InboxOK, PendingOK, AdmissionOK, SlotOK, PlacesOK, Admitting, Waiting
<1>6. LengthsOK'
  BY <1>1, <1>2 DEF LengthsOK, ReqLengths, DeviceLengths, RowLengths, InputLen
<1> QED BY <1>4, <1>5, <1>6 DEF IInv

(* A step that changes nothing.                                              *)
LEMMA StutterKeepsIInv ==
  ASSUME IInv, UNCHANGED vars
  PROVE  IInv'
BY DEF IInv, Typed, ListsOK, InboxOK, PendingOK, AdmissionOK, SlotOK, PlacesOK, LengthsOK,
       ReqLengths, DeviceLengths, RowLengths, Admitting, Waiting, Current, InputLen,
       vars, lists, adder, cache, data

-----------------------------------------------------------------------------
(***************************************************************************)
(* Sums.  Total counts units, so that a sum over a set that changes by an  *)
(* element changes by what that element weighs.                            *)
(***************************************************************************)
Units(f) == UNION {{x} \X (1..f[x]) : x \in DOMAIN f}

Weights(f) == IsFiniteSet(DOMAIN f) /\ \A x \in DOMAIN f : f[x] \in Nat

LEMMA UnitsMembers ==
  ASSUME NEW f, NEW u
  PROVE  u \in Units(f) <=> \E x \in DOMAIN f : \E i \in 1..f[x] : u = <<x, i>>
BY DEF Units

LEMMA TotalFinite ==
  ASSUME NEW f, Weights(f)
  PROVE  IsFiniteSet(Units(f)) /\ Total(f) = Cardinality(Units(f)) /\ Total(f) \in Nat
<1> DEFINE S == {{x} \X (1..f[x]) : x \in DOMAIN f}
           g == [x \in DOMAIN f |-> {x} \X (1..f[x])]
<1>1. IsFiniteSet(DOMAIN f)
  BY DEF Weights
<1>2. g \in Surjection(DOMAIN f, S)
  BY DEF Surjection
<1>3. IsFiniteSet(S)
  <2> HIDE DEF g, S
  <2> QED BY <1>1, <1>2, FS_Surjection
<1>4. ASSUME NEW x \in DOMAIN f PROVE IsFiniteSet({x} \X (1..f[x]))
  <2>1. f[x] \in Nat
    BY DEF Weights
  <2>2. IsFiniteSet({x})
    BY FS_Singleton
  <2>3. IsFiniteSet(1..f[x])
    BY <2>1, FS_Interval
  <2> QED BY <2>2, <2>3, FS_Product
<1>5. \A T \in S : IsFiniteSet(T)
  BY <1>4
<1>6. IsFiniteSet(UNION S)
  <2> HIDE DEF S
  <2> QED BY <1>3, <1>5, FS_UNION
<1>7. Units(f) = UNION S /\ Total(f) = Cardinality(Units(f))
  BY DEF Units, Total
<1> HIDE DEF S
<1> QED BY <1>6, <1>7, FS_CardinalityType

(* A sum is the same if the weights are.                                     *)
LEMMA TotalSame ==
  ASSUME NEW f, NEW g, DOMAIN f = DOMAIN g, \A x \in DOMAIN f : f[x] = g[x]
  PROVE  Total(f) = Total(g)
<1>1. Units(f) = Units(g)
  BY DEF Units
<1> QED BY <1>1 DEF Total, Units

LEMMA TotalEmpty ==
  ASSUME NEW f, DOMAIN f = {}
  PROVE  Total(f) = 0
<1>1. Units(f) = {}
  BY DEF Units
<1> QED BY <1>1, FS_EmptySet DEF Total, Units

(* The sums over two sets that share no element add up.                      *)
LEMMA TotalUnion ==
  ASSUME NEW f, NEW g, NEW h, Weights(f), Weights(g),
         DOMAIN h = DOMAIN f \cup DOMAIN g, DOMAIN f \cap DOMAIN g = {},
         \A x \in DOMAIN f : h[x] = f[x], \A x \in DOMAIN g : h[x] = g[x]
  PROVE  Weights(h) /\ Total(h) = Total(f) + Total(g)
<1>1. Weights(h)
  BY FS_Union DEF Weights
<1>2. Units(h) = Units(f) \cup Units(g)
  <2>1. \A x \in DOMAIN h : x \in DOMAIN f \/ x \in DOMAIN g
    OBVIOUS
  <2>2. ASSUME NEW u PROVE u \in Units(h) <=> u \in Units(f) \/ u \in Units(g)
    BY <2>1, UnitsMembers
  <2> QED BY <2>2
<1>3. Units(f) \cap Units(g) = {}
  <2>1. ASSUME NEW u \in Units(f), u \in Units(g) PROVE FALSE
    <3>1. PICK x \in DOMAIN f : \E i \in 1..f[x] : u = <<x, i>>
      BY UnitsMembers
    <3>2. PICK y \in DOMAIN g : \E i \in 1..g[y] : u = <<y, i>>
      BY <2>1, UnitsMembers
    <3>3. x = y
      BY <3>1, <3>2
    <3> QED BY <3>3
  <2> QED BY <2>1
<1>4. /\ IsFiniteSet(Units(f)) /\ Total(f) = Cardinality(Units(f)) /\ Total(f) \in Nat
      /\ IsFiniteSet(Units(g)) /\ Total(g) = Cardinality(Units(g)) /\ Total(g) \in Nat
      /\ Total(h) = Cardinality(Units(h))
  BY <1>1, TotalFinite
<1>5. Cardinality(Units(f) \cup Units(g)) = Cardinality(Units(f)) + Cardinality(Units(g)) - Cardinality(Units(f) \cap Units(g))
  BY <1>4, FS_Union
<1>6. Cardinality(Units(f) \cap Units(g)) = 0
  BY <1>3, FS_EmptySet
<1>7. Total(h) = Cardinality(Units(f) \cup Units(g))
  BY <1>2, <1>4
<1> QED BY <1>1, <1>4, <1>5, <1>6, <1>7

(* One element weighs what it weighs.                                        *)
LEMMA TotalOne ==
  ASSUME NEW f, NEW x, DOMAIN f = {x}, f[x] \in Nat
  PROVE  Weights(f) /\ Total(f) = f[x]
<1>1. Weights(f)
  BY FS_Singleton DEF Weights
<1>2. Units(f) = {x} \X (1..f[x])
  BY DEF Units
<1>3. IsFiniteSet({x}) /\ Cardinality({x}) = 1
  BY FS_Singleton
<1> DEFINE k == f[x]
<1>4. IsFiniteSet(1..k) /\ Cardinality(1..k) = k
  <2>1. k \in Nat
    OBVIOUS
  <2> HIDE DEF k
  <2>2. k \in Int /\ 1 \in Int /\ (1 > k => k = 0)
    BY <2>1
  <2>3. IsFiniteSet(1..k) /\ Cardinality(1..k) = IF 1 > k THEN 0 ELSE k - 1 + 1
    BY <2>2, FS_Interval
  <2> QED BY <2>1, <2>2, <2>3
<1>5. Cardinality({x} \X (1..k)) = 1 * k
  <2> DEFINE S == {x}
             T == 1..k
  <2>1. IsFiniteSet(S) /\ Cardinality(S) = 1 /\ IsFiniteSet(T) /\ Cardinality(T) = k
    BY <1>3, <1>4
  <2> HIDE DEF S, T
  <2>2. Cardinality(S \X T) = Cardinality(S) * Cardinality(T)
    BY <2>1, FS_Product, Zenon
  <2>3. Cardinality(S \X T) = 1 * k
    BY <2>1, <2>2, Zenon
  <2> QED BY <2>3 DEF S, T
<1>6. Total(f) = Cardinality({x} \X (1..k))
  BY <1>2 DEF Total, Units
<1> QED BY <1>1, <1>5, <1>6

(* One element more, one element less, one element that weighs something else. *)
LEMMA TotalAdd ==
  ASSUME NEW f, NEW h, NEW x, Weights(f), x \notin DOMAIN f, h[x] \in Nat,
         DOMAIN h = DOMAIN f \cup {x}, \A y \in DOMAIN f : h[y] = f[y]
  PROVE  Weights(h) /\ Total(h) = Total(f) + h[x]
<1> DEFINE g == [y \in {x} |-> h[x]]
<1>1. DOMAIN g = {x} /\ g[x] = h[x]
  OBVIOUS
<1> HIDE DEF g
<1>2. Weights(g) /\ Total(g) = h[x]
  BY <1>1, TotalOne
<1>3. /\ DOMAIN h = DOMAIN f \cup DOMAIN g /\ DOMAIN f \cap DOMAIN g = {}
      /\ \A y \in DOMAIN g : h[y] = g[y]
  BY <1>1
<1> QED BY <1>2, <1>3, TotalUnion

LEMMA TotalRemove ==
  ASSUME NEW f, NEW h, NEW x, Weights(h), x \notin DOMAIN f,
         DOMAIN h = DOMAIN f \cup {x}, \A y \in DOMAIN f : h[y] = f[y]
  PROVE  Weights(f) /\ Total(f) = Total(h) - h[x]
<1>1. h[x] \in Nat
  BY DEF Weights
<1>2. Weights(f)
  <2>1. IsFiniteSet(DOMAIN f)
    BY FS_Subset DEF Weights
  <2> QED BY <2>1 DEF Weights
<1>3. Total(f) \in Nat
  BY <1>2, TotalFinite
<1>4. Total(h) = Total(f) + h[x]
  BY <1>1, <1>2, TotalAdd, Zenon
<1> QED BY <1>1, <1>2, <1>3, <1>4

LEMMA TotalChange ==
  ASSUME NEW f, NEW h, NEW x, Weights(f), x \in DOMAIN f, h[x] \in Nat,
         DOMAIN h = DOMAIN f, \A y \in DOMAIN f \ {x} : h[y] = f[y]
  PROVE  Weights(h) /\ Total(h) = Total(f) - f[x] + h[x]
<1> DEFINE g == [y \in DOMAIN f \ {x} |-> f[y]]
<1>1. /\ x \notin DOMAIN g /\ DOMAIN f = DOMAIN g \cup {x}
      /\ \A y \in DOMAIN g : f[y] = g[y] /\ y # x
  OBVIOUS
<1> HIDE DEF g
<1>2. Weights(g) /\ Total(g) = Total(f) - f[x]
  BY <1>1, TotalRemove
<1>3. /\ x \notin DOMAIN g /\ DOMAIN h = DOMAIN g \cup {x}
      /\ \A y \in DOMAIN g : h[y] = g[y]
  BY <1>1
<1>4. Weights(h) /\ Total(h) = Total(g) + h[x]
  BY <1>2, <1>3, TotalAdd
<1> QED BY <1>2, <1>4

(* What is heavier everywhere is heavier in sum.                             *)
LEMMA TotalMonotone ==
  ASSUME NEW f, NEW g, Weights(f), Weights(g), DOMAIN f \subseteq DOMAIN g,
         \A x \in DOMAIN f : f[x] <= g[x]
  PROVE  Total(f) <= Total(g)
<1>1. Units(f) \subseteq Units(g)
  <2>1. ASSUME NEW x \in DOMAIN f, NEW i \in 1..f[x] PROVE i \in 1..g[x]
    BY DEF Weights
  <2>2. ASSUME NEW u \in Units(f) PROVE u \in Units(g)
    BY <2>1, UnitsMembers
  <2> QED BY <2>2
<1> QED BY <1>1, TotalFinite, FS_Subset

(* Two states of a request that differ in what it holds at most.             *)
Alike(x, y) ==
  /\ x.stage = y.stage /\ x.prompt = y.prompt /\ x.output = y.output /\ x.ids = y.ids
  /\ x.cached = y.cached /\ x.device = y.device /\ x.max_device = y.max_device
  /\ x.chunked = y.chunked /\ x.slot = y.slot

-----------------------------------------------------------------------------
(* The steps of any engine.                                                 *)

(* What is known wherever the thread is, also while an engine runs a batch.  *)
Settled == Typed /\ (pc = "slot" => IInv)

(* A step of the part of the loop that the engines share.                    *)
CoreStep == Select \/ Cleanup \/ EndStep \/ RunWhenIdle \/ \E r \in Reqs : Submit(r)

(* The thread goes on; no request, no page and no slot changes.              *)
Idles ==
  /\ UNCHANGED <<req, cache, data>>
  /\ \/ pc # "slot" /\ pc' # "slot"
     \/ UNCHANGED <<pc, batch, pending>>

(* A leaf of the tree goes.                                                  *)
Evicts ==
  /\ \E n : EvictLeaf(n)
  /\ UNCHANGED <<lists, adder, rows, req, data, pc>>

(* A request of the batch keeps the pages it has computed, and gets n pages  *)
(* from the head of the free list behind them.                               *)
Takes(r, n) ==
  /\ pc = "alloc" /\ pc' = "alloc" /\ prepared' = prepared + 1
  /\ prepared \in Nat /\ prepared + 1 \in 1..Len(batch) /\ batch[prepared + 1] = r
  /\ UNCHANGED <<inbox, pending, running, batch, chunked_list, finished, rows,
                 tree, freeSlots, kv, state>>
  /\ r \in Reqs /\ req[r].stage = "live" /\ n \in 0..Len(freePages)
  /\ freePages' = SubSeq(freePages, n + 1, Len(freePages))
  /\ \E new : /\ req' = [req EXCEPT ![r] = new]
              /\ Len(new.row) = req[r].cached + n
              /\ \A i \in 1..req[r].cached : new.row[i] = req[r].row[i]
              /\ \A i \in 1..n : new.row[req[r].cached + i] = freePages[i]
              /\ new.stage = "live" /\ new.handle = req[r].handle
              /\ Alike(new, req[r])

LEMMA InvSettled == IInv => Settled
BY DEF IInv, Settled

LEMMA IdleSteps ==
  ASSUME StartStep \/ StopAdmission \/ EndStep \/ RunWhenIdle \/ UNCHANGED vars
  PROVE  Idles
BY DEF StartStep, StopAdmission, EndStep, RunWhenIdle, SelectBatch, Idles, vars, lists, cache, data

LEMMA EvictFacts ==
  ASSUME Evicts
  PROVE  /\ UNCHANGED <<inbox, pending, running, batch, chunked_list, finished, prepared,
                        rows, req, kv, state, pc>>
         /\ \E n \in UnlockedLeaves(tree) :
              /\ tree' = RemoveLeaf(tree, n)
              /\ freePages' = freePages \o EvictedPages(tree, n)
              /\ freeSlots' = freeSlots \cup ({tree.snap[n]} \ {None})
BY DEF Evicts, EvictLeaf, lists, adder, data

LEMMA EvictForSlotEvicts == EvictForSlot => Evicts
BY DEF EvictForSlot, Evicts

(* The request that is given its pages, and the others.                      *)
LEMMA TakenReq ==
  ASSUME Typed, NEW r, NEW n, Takes(r, n)
  PROVE  /\ \A q \in Reqs \ {r} : req'[q] = req[q]
         /\ req'[r].stage = req[r].stage /\ req'[r].handle = req[r].handle
         /\ Alike(req'[r], req[r]) /\ Len(req'[r].row) = req[r].cached + n
         /\ \A i \in 1..req[r].cached : req'[r].row[i] = req[r].row[i]
         /\ \A i \in 1..n : req'[r].row[req[r].cached + i] = freePages[i]
         /\ Live' = Live /\ r \in Live /\ r \in Reqs
<1>1. req \in [Reqs -> ReqRecord] /\ r \in Reqs /\ req[r].stage = "live"
  BY DEF Typed, Takes
<1>2. PICK new : /\ req' = [req EXCEPT ![r] = new] /\ Len(new.row) = req[r].cached + n
                 /\ \A i \in 1..req[r].cached : new.row[i] = req[r].row[i]
                 /\ \A i \in 1..n : new.row[req[r].cached + i] = freePages[i]
                 /\ new.stage = "live" /\ new.handle = req[r].handle
                 /\ Alike(new, req[r])
  BY DEF Takes
<1>3. req'[r] = new /\ \A q \in Reqs \ {r} : req'[q] = req[q]
  BY <1>1, <1>2
<1>4. \A q \in Reqs : req'[q].stage = req[q].stage
  BY <1>1, <1>2, <1>3
<1>5. Live' = Live /\ r \in Live
  BY <1>1, <1>4 DEF Live
<1> QED BY <1>1, <1>2, <1>3, <1>5

-----------------------------------------------------------------------------
(* The ownership of the recurrent-state slots: however admission, eviction,  *)
(* shedding and the caching of finished requests hand them around, no slot   *)
(* is lost and none is used twice.                                           *)

(* A step that moves no slot keeps their ownership, even if it splits an     *)
(* edge, because a new node starts without a snapshot.                       *)
LEMMA NoSlotMoves ==
  ASSUME SlotOwnership,
         \A r \in Reqs : req'[r].slot = req[r].slot,
         freeSlots' = freeSlots,
         tree.nodes \subseteq tree'.nodes,
         \A n \in tree.nodes : tree'.snap[n] = tree.snap[n],
         \A n \in tree'.nodes \ tree.nodes : tree'.snap[n] = None
  PROVE  SlotOwnership'
<1>1. \A r \in Reqs : req'[r].slot # None =>
        /\ req'[r].slot \notin freeSlots'
        /\ \A n \in tree'.nodes : tree'.snap[n] # req'[r].slot
        /\ \A q \in Reqs \ {r} : req'[q].slot # req'[r].slot
  BY DEF SlotOwnership
<1>2. \A n \in {n \in tree'.nodes : tree'.snap[n] # None} :
        /\ tree'.snap[n] \notin freeSlots'
        /\ \A m \in tree'.nodes \ {n} : tree'.snap[m] # tree'.snap[n]
  BY DEF SlotOwnership, SnapshotNodes
<1>3. CacheType = "hybrid" => \A s \in Slots :
        \/ s \in freeSlots'
        \/ \E n \in tree'.nodes : tree'.snap[n] = s
        \/ \E r \in Reqs : req'[r].slot = s
  BY DEF SlotOwnership
<1> QED BY <1>1, <1>2, <1>3 DEF SlotOwnership, SnapshotNodes

(* At the start all slots are in the pool.                                   *)
LEMMA InitSlots == Init => SlotOwnership
BY NoneAssumption DEF Init, SlotOwnership, SnapshotNodes, NoReq, EmptyTree

(* Messages and prompts that go on leave the slots of all requests alone.    *)
LEMMA SameSlots ==
  ASSUME IInv, (\E r \in Reqs : Submit(r)) \/ ProcessMsg \/ ContinueChunk
  PROVE  \A r \in Reqs : req'[r].slot = req[r].slot
<1>1. Typed /\ ListsOK /\ LengthsOK /\ req \in [Reqs -> ReqRecord]
  BY DEF IInv, Typed
<1>2. ASSUME NEW r \in Reqs, Submit(r) PROVE \A q \in Reqs : req'[q].slot = req[q].slot
  <2>1. PICK w \in Workload :
          req' = [req EXCEPT ![r].stage = "inbox", ![r].prompt = w.prompt,
                             ![r].output = w.max_tokens, ![r].ignore_eos = w.ignore_eos]
    BY <1>2 DEF Submit
  <2> DEFINE new == [req[r] EXCEPT !.stage = "inbox", !.prompt = w.prompt,
                                   !.output = w.max_tokens, !.ignore_eos = w.ignore_eos]
  <2>2. req' = [req EXCEPT ![r] = new]
    BY <1>1, <2>1
  <2>3. new.slot = req[r].slot
    BY <1>1 DEF ReqRecord
  <2> HIDE DEF new
  <2> QED BY <1>1, <2>2, <2>3
<1>3. CASE ProcessMsg
  <2>1. PICK r \in Reqs : r = Head(inbox) /\ req[r].stage = "inbox"
    <3>1. pc = "recv" /\ inbox # <<>> /\ inbox \in Seq(Reqs)
      BY <1>1, <1>3 DEF ProcessMsg, Typed
    <3>2. Head(inbox) = inbox[1] /\ 1 \in 1..Len(inbox)
      BY <3>1, HeadTailProperties, EmptySeq
    <3> QED BY <1>1, <3>2, Members DEF ListsOK, InboxOK
  <2>2. req[r].slot = None
    BY <1>1, <2>1 DEF LengthsOK, ReqLengths
  <2>3. CASE MaxOutputLen(r) <= 0
    <3>1. req' = [req EXCEPT ![r] = [NoReq EXCEPT !.stage = "dropped"]]
      BY <1>3, <2>1, <2>3 DEF ProcessMsg
    <3>2. PICK new : req' = [req EXCEPT ![r] = new] /\ new.slot = None
      BY <3>1, NoReqFields
    <3> QED BY <1>1, <2>2, <3>2
  <2>4. CASE ~ MaxOutputLen(r) <= 0
    <3>1. PICK n : req' = [req EXCEPT ![r].stage = "pending", ![r].output = n]
      BY <1>3, <2>1, <2>4 DEF ProcessMsg
    <3> DEFINE new == [req[r] EXCEPT !.stage = "pending", !.output = n]
    <3>2. req' = [req EXCEPT ![r] = new]
      BY <1>1, <3>1
    <3>3. new.slot = req[r].slot
      BY <1>1 DEF ReqRecord
    <3> HIDE DEF new
    <3> QED BY <1>1, <3>2, <3>3
  <2> QED BY <2>3, <2>4
<1>4. CASE ContinueChunk
  <2>1. Current \in Reqs
    BY <1>1, <1>4, CurrentWaits DEF ContinueChunk, Admitting
  <2>2. AddOneReq(Current, req[Current].cached, req[Current].slot)
    BY <1>4 DEF ContinueChunk
  <2>3. \A q \in Reqs : req'[q].slot = req[q].slot
    <3>1. PICK r, x1, x2, x3, x4, x5 :
            /\ r \in Reqs
            /\ req' = [req EXCEPT ![r].stage = "live", ![r].ids = x1, ![r].cached = x2,
                                  ![r].device = x3, ![r].max_device = x4, ![r].chunked = x5,
                                  ![r].slot = req[r].slot]
      BY <2>1, <2>2 DEF AddOneReq
    <3> DEFINE new == [req[r] EXCEPT !.stage = "live", !.ids = x1, !.cached = x2,
                                     !.device = x3, !.max_device = x4, !.chunked = x5,
                                     !.slot = req[r].slot]
    <3>2. req' = [req EXCEPT ![r] = new]
      BY <1>1, <3>1
    <3>3. new.slot = req[r].slot
      BY <1>1 DEF ReqRecord
    <3> HIDE DEF new
    <3> QED BY <1>1, <3>2, <3>3
  <2> QED BY <2>3
<1> QED BY <1>2, <1>3, <1>4

(* So do many other steps.                                                   *)
LEMMA IdleSlots ==
  ASSUME SlotOwnership, Idles
  PROVE  SlotOwnership'
BY NoSlotMoves DEF Idles, cache

LEMMA TakeSlots ==
  ASSUME Settled, SlotOwnership, NEW r, NEW n, Takes(r, n)
  PROVE  SlotOwnership'
<1>1. \A q \in Reqs : req'[q].slot = req[q].slot
  <2>1. \A q \in Reqs : q # r => req'[q] = req[q]
    BY TakenReq DEF Settled
  <2>2. req'[r].slot = req[r].slot
    BY TakenReq DEF Settled, Alike
  <2> QED BY <2>1, <2>2
<1>2. tree' = tree /\ freeSlots' = freeSlots
  BY DEF Takes
<1> QED BY <1>1, <1>2, NoSlotMoves

LEMMA QuietSlots ==
  ASSUME IInv, SlotOwnership, (\E r \in Reqs : Submit(r)) \/ ProcessMsg \/ ContinueChunk
  PROVE  SlotOwnership'
<1>1. tree' = tree /\ freeSlots' = freeSlots
  BY DEF Submit, ProcessMsg, ContinueChunk, cache
<1>2. \A r \in Reqs : req'[r].slot = req[r].slot
  BY SameSlots
<1> QED BY <1>1, <1>2, NoSlotMoves

(* Looking a prompt up splits an edge at most, and locks move no slot.       *)
LEMMA TryAllocateSlots ==
  ASSUME IInv, SlotOwnership, TryAllocate
  PROVE  SlotOwnership'
<1>1. Typed /\ ListsOK /\ LengthsOK /\ req \in [Reqs -> ReqRecord]
      /\ IsTree(tree, Vocab, Pages, Slots)
  BY DEF IInv, Typed
<1>2. Current \in Reqs
  BY <1>1, CurrentWaits DEF TryAllocate, Admitting
<1>3. PICK ids, h, walked, locked :
        /\ ids \in Seq(Vocab)
        /\ walked = MatchedTree(ids) /\ locked = Lock(walked, h)
        /\ tree' = locked \/ tree' = walked
        /\ \/ \E x, y : req' = [req EXCEPT ![Current].handle = h, ![Current].row = x,
                                          ![Current].stale = y]
           \/ req' = req
        /\ freeSlots' = freeSlots
  <2>1. PICK ids : ids = LookupIds(Current)
    OBVIOUS
  <2>2. ids \in Seq(Vocab)
    <3>1. req[Current].prompt \in Seq(Vocab) /\ Len(req[Current].prompt) \in Nat
      BY <1>1, <1>2, ReqFields
    <3>2. \A i \in 1..Len(req[Current].prompt) - 1 : req[Current].prompt[i] \in Vocab
      BY <3>1, ElementOfSeq
    <3> QED BY <2>1, <3>1, <3>2, SubSeqProperties DEF LookupIds, InputLen
  <2> QED BY <2>1, <2>2 DEF TryAllocate
<1>4. /\ tree.nodes \subseteq walked.nodes
      /\ \A n \in tree.nodes : walked.snap[n] = tree.snap[n]
      /\ \A n \in walked.nodes \ tree.nodes : walked.snap[n] = None
      /\ IsTree(walked, Vocab, Pages, Slots)
  <2>1. CASE walked = tree
    BY <1>1, <2>1
  <2>2. CASE walked = Walk(tree, ids)
    <3>1. ids \in Seq(Vocab)
      BY <1>3
    <3> QED BY <1>1, <2>2, <3>1, WalkResult
  <2>3. walked = tree \/ walked = Walk(tree, ids)
    BY <1>3 DEF MatchedTree
  <2> QED BY <2>1, <2>2, <2>3
<1>5. locked.nodes = walked.nodes /\ locked.snap = walked.snap
  BY <1>3, <1>4, LockResult
<1>6. \A r \in Reqs : req'[r].slot = req[r].slot
  <2>1. CASE req' = req
    BY <2>1
  <2>2. ASSUME NEW x, NEW y,
              req' = [req EXCEPT ![Current].handle = h, ![Current].row = x, ![Current].stale = y]
        PROVE  \A r \in Reqs : req'[r].slot = req[r].slot
    <3>1. ASSUME NEW r \in Reqs PROVE req'[r].slot = req[r].slot
      <4>1. \/ req'[r] = [req[r] EXCEPT !.handle = h, !.row = x, !.stale = y]
            \/ req'[r] = req[r]
        BY <1>1, <2>2
      <4> QED BY <1>1, <4>1 DEF ReqRecord
    <3> QED BY <3>1
  <2> QED BY <1>3, <2>1, <2>2
<1> QED BY <1>3, <1>4, <1>5, <1>6, NoSlotMoves

(* acquire_mamba_slot comes back empty-handed and moves no slot.             *)
LEMMA StarvedSlots ==
  ASSUME IInv, SlotOwnership, Starved
  PROVE  SlotOwnership'
<1>1. Typed /\ req \in [Reqs -> ReqRecord] /\ IsTree(tree, Vocab, Pages, Slots)
  BY DEF IInv, Typed
<1>2. /\ tree' = Unlock(tree, req[Current].handle) /\ freeSlots' = freeSlots
      /\ req' = [req EXCEPT ![Current].handle = Root, ![Current].row = <<>>,
                            ![Current].stale = <<>>]
  BY DEF Starved
<1>3. tree'.nodes = tree.nodes /\ tree'.snap = tree.snap
  BY <1>1, <1>2, UnlockResult
<1>4. ASSUME NEW r \in Reqs PROVE req'[r].slot = req[r].slot
  <2>1. \/ req'[r] = [req[r] EXCEPT !.handle = Root, !.row = <<>>, !.stale = <<>>]
        \/ req'[r] = req[r]
    BY <1>1, <1>2
  <2> QED BY <1>1, <2>1 DEF ReqRecord
<1> QED BY <1>2, <1>3, <1>4, NoSlotMoves

(* The request that is being admitted has no slot yet.                       *)
LEMMA CurrentHasNoSlot ==
  ASSUME IInv, pc = "slot"
  PROVE  Current \in Reqs /\ req[Current].slot = None
<1>1. Typed /\ ListsOK /\ LengthsOK /\ SlotOK
  BY DEF IInv, ListsOK
<1>2. Current \in Reqs /\ req[Current].stage = "pending"
  BY <1>1, CurrentWaits DEF SlotOK, Admitting
<1> QED BY <1>1, <1>2 DEF LengthsOK, ReqLengths

(* A slot goes from the free list, or from a node, to the request.           *)
LEMMA AdmitSlots ==
  ASSUME IInv, SlotOwnership,
         AdmitWithoutSlot \/ AdmitWithFreeSlot \/ AdmitWithShedSlot
  PROVE  SlotOwnership'
<1>1. Typed /\ req \in [Reqs -> ReqRecord] /\ IsTree(tree, Vocab, Pages, Slots)
      /\ freePages \in Seq(Pages) /\ freeSlots \subseteq Slots
  BY DEF IInv, Typed
<1>2. pc = "slot"
  BY DEF AdmitWithoutSlot, AdmitWithFreeSlot, AdmitWithShedSlot
<1>3. PICK c \in Reqs : c = Current /\ req[c].slot = None
  BY <1>2, CurrentHasNoSlot
<1>4. ASSUME NEW s \in Slots \cup {None}, Admit(s),
             IsTree(tree, Vocab, Pages, Slots)', freePages' \in Seq(Pages),
             freeSlots' \subseteq Slots
      PROVE  req'[c].slot = s /\ \A r \in Reqs \ {c} : req'[r].slot = req[r].slot
  <2>1. PICK new : req' = [req EXCEPT ![c] = new] /\ new.slot = s
    BY <1>2, <1>3, <1>4, AdmitKeepsIInv
  <2> QED BY <1>1, <2>1
<1>5. CASE AdmitWithoutSlot
  <2>1. Admit(None) /\ UNCHANGED <<tree, freePages, freeSlots>>
    BY <1>5 DEF AdmitWithoutSlot, cache
  <2>2. \A r \in Reqs : req'[r].slot = req[r].slot
    BY <1>1, <1>3, <1>4, <2>1
  <2> QED BY <2>1, <2>2, NoSlotMoves
<1>6. CASE AdmitWithFreeSlot
  <2>1. PICK s \in freeSlots : /\ Admit(s) /\ freeSlots' = freeSlots \ {s}
                               /\ UNCHANGED <<tree, freePages>>
    BY <1>6 DEF AdmitWithFreeSlot
  <2>2. s \in Slots /\ s # None
    BY <1>1, NoneAssumption
  <2>3. req'[c].slot = s /\ \A r \in Reqs \ {c} : req'[r].slot = req[r].slot
    BY <1>1, <1>4, <2>1, <2>2
  <2>4. \A r \in Reqs : req'[r].slot # None =>
          /\ req'[r].slot \notin freeSlots'
          /\ \A m \in tree'.nodes : tree'.snap[m] # req'[r].slot
          /\ \A q \in Reqs \ {r} : req'[q].slot # req'[r].slot
    BY <1>3, <2>1, <2>2, <2>3 DEF SlotOwnership, SnapshotNodes
  <2>5. \A m \in {m \in tree'.nodes : tree'.snap[m] # None} :
          /\ tree'.snap[m] \notin freeSlots'
          /\ \A k \in tree'.nodes \ {m} : tree'.snap[k] # tree'.snap[m]
    BY <1>3, <2>1, <2>2, <2>3 DEF SlotOwnership, SnapshotNodes
  <2>6. CacheType = "hybrid" => \A t \in Slots :
          \/ t \in freeSlots'
          \/ \E m \in tree'.nodes : tree'.snap[m] = t
          \/ \E r \in Reqs : req'[r].slot = t
    BY <1>3, <2>1, <2>2, <2>3, NoneAssumption DEF SlotOwnership
  <2> QED BY <2>4, <2>5, <2>6 DEF SlotOwnership, SnapshotNodes
<1>7. CASE AdmitWithShedSlot
  <2>1. PICK n \in Sheddable : /\ tree' = DropSnapshot(tree, n) /\ Admit(tree.snap[n])
                               /\ UNCHANGED <<freePages, freeSlots>>
    BY <1>7 DEF AdmitWithShedSlot
  <2>2. n \in SnapshotNodes(tree)
    BY <2>1 DEF Sheddable
  <2>3. PICK s \in Slots : s = tree.snap[n] /\ s # None
    BY <1>1, <2>2, DropSnapshotResult DEF SnapshotNodes
  <2>4. /\ IsTree(tree', Vocab, Pages, Slots) /\ tree'.nodes = tree.nodes
        /\ n \in tree.nodes /\ tree'.snap[n] = None
        /\ \A m \in tree.nodes \ {n} : tree'.snap[m] = tree.snap[m]
    BY <1>1, <2>1, <2>2, DropSnapshotResult
  <2>5. req'[c].slot = s /\ \A r \in Reqs \ {c} : req'[r].slot = req[r].slot
    BY <1>1, <1>4, <2>1, <2>3, <2>4
  <2>6. freeSlots' = freeSlots
    BY <2>1
  <2> QED BY <1>3, <2>3, <2>4, <2>5, <2>6 DEF SlotOwnership, SnapshotNodes
<1> QED BY <1>5, <1>6, <1>7

(* An evicted snapshot goes back to the free list.                           *)
LEMMA EvictSlots ==
  ASSUME Settled, SlotOwnership, Evicts
  PROVE  SlotOwnership'
<1>1. PICK n \in UnlockedLeaves(tree) :
        /\ tree' = RemoveLeaf(tree, n)
        /\ freeSlots' = freeSlots \cup ({tree.snap[n]} \ {None})
  BY EvictFacts
<1>2. IsTree(tree, Vocab, Pages, Slots) /\ req' = req
  BY EvictFacts DEF Settled, Typed
<1>3. /\ n \in tree.nodes /\ tree'.nodes = tree.nodes \ {n}
      /\ \A m \in tree'.nodes : tree'.snap[m] = tree.snap[m]
  BY <1>1, <1>2, RemoveLeafResult
<1> QED BY <1>1, <1>2, <1>3, NoneAssumption DEF SlotOwnership, SnapshotNodes

(* A finished request leaves its slot to the tree or to the free list.       *)
LEMMA CleanupSlots ==
  ASSUME IInv, SlotOwnership, Cleanup
  PROVE  SlotOwnership'
<1>1. Typed /\ ListsOK /\ LengthsOK /\ req \in [Reqs -> ReqRecord]
      /\ IsTree(tree, Vocab, Pages, Slots)
  BY DEF IInv, Typed
<1>2. PICK r \in Reqs : FreeAndCache(r)
  BY <1>1 DEF Cleanup, Typed
<1>3. PICK ids \in Seq(Vocab) :
        ids = SubSeq(req[r].ids, 1, req[r].cached) /\ Len(ids) <= Len(req[r].row)
  BY <1>1, FinishedFits DEF LengthsOK
<1>4. PICK row \in Seq(Pages), slot \in Slots \cup {None} :
        row = req[r].row /\ slot = req[r].slot
  BY <1>1, ReqFields
<1>5. req'[r].slot = None /\ \A q \in Reqs \ {r} : req'[q].slot = req[q].slot
  <2>1. req' = [req EXCEPT ![r] = [NoReq EXCEPT !.stage = "done"]]
    BY <1>2 DEF FreeAndCache
  <2>2. PICK new : req' = [req EXCEPT ![r] = new] /\ new.slot = None
    BY <2>1, NoReqFields
  <2> QED BY <1>1, <2>2
<1>6. CASE CacheType = "naive"
  <2>1. tree' = tree /\ freeSlots' = freeSlots
    BY <1>2, <1>6 DEF FreeAndCache
  <2> QED BY <1>5, <1>6, <2>1 DEF SlotOwnership, SnapshotNodes
<1>7. CASE CacheType # "naive"
  <2> DEFINE u == Insert(tree, ids, row, slot)
             Old(n) == IF n \in tree.nodes THEN tree.snap[n] ELSE None
  <2>1. /\ tree' = Unlock(u, req[r].handle)
        /\ freeSlots' = IF KeepsSlot(tree, ids) THEN freeSlots
                        ELSE freeSlots \cup ({slot} \ {None})
    BY <1>2, <1>3, <1>4, <1>7 DEF FreeAndCache
  <2>2. /\ IsTree(u, Vocab, Pages, Slots) /\ tree.nodes \subseteq u.nodes
        /\ KeepsSlot(tree, ids) => /\ ids \in u.nodes /\ u.snap[ids] = slot
                                   /\ Old(ids) = None
                                   /\ \A n \in u.nodes \ {ids} : u.snap[n] = Old(n)
        /\ ~ KeepsSlot(tree, ids) => \A n \in u.nodes : u.snap[n] = Old(n)
    <3>1. Len(ids) <= Len(row)
      BY <1>3, <1>4
    <3> QED BY <1>1, <3>1, InsertResult
  <2>3. tree'.nodes = u.nodes /\ tree'.snap = u.snap
    BY <2>1, <2>2, UnlockResult
  <2> HIDE DEF u
  <2>4. CASE KeepsSlot(tree, ids)
    <3>1. \A p \in Reqs : req'[p].slot # None =>
            /\ req'[p].slot \notin freeSlots'
            /\ \A m \in tree'.nodes : tree'.snap[m] # req'[p].slot
            /\ \A q \in Reqs \ {p} : req'[q].slot # req'[p].slot
      BY <1>4, <1>5, <2>1, <2>2, <2>3, <2>4 DEF SlotOwnership
    <3>2. \A m \in {m \in tree'.nodes : tree'.snap[m] # None} :
            /\ tree'.snap[m] \notin freeSlots'
            /\ \A k \in tree'.nodes \ {m} : tree'.snap[k] # tree'.snap[m]
      BY <1>4, <1>5, <2>1, <2>2, <2>3, <2>4 DEF SlotOwnership, SnapshotNodes
    <3>3. CacheType = "hybrid" => \A t \in Slots :
            \/ t \in freeSlots'
            \/ \E m \in tree'.nodes : tree'.snap[m] = t
            \/ \E p \in Reqs : req'[p].slot = t
      BY <1>4, <1>5, <2>1, <2>2, <2>3, <2>4 DEF SlotOwnership
    <3> QED BY <3>1, <3>2, <3>3 DEF SlotOwnership, SnapshotNodes
  <2>5. CASE ~ KeepsSlot(tree, ids)
    BY <1>4, <1>5, <2>1, <2>2, <2>3, <2>5 DEF SlotOwnership, SnapshotNodes
  <2> QED BY <2>4, <2>5
<1> QED BY <1>6, <1>7

LEMMA CoreSlots ==
  ASSUME IInv, SlotOwnership, CoreStep
  PROVE  SlotOwnership'
<1>1. CASE StartStep \/ StopAdmission \/ EndStep \/ RunWhenIdle
  BY <1>1, IdleSteps, IdleSlots
<1>2. CASE EvictForSlot
  BY <1>2, EvictForSlotEvicts, InvSettled, EvictSlots
<1> QED BY <1>1, <1>2, QuietSlots, TryAllocateSlots, StarvedSlots, CleanupSlots, AdmitSlots
        DEF CoreStep, Select

-----------------------------------------------------------------------------
(* The lock counts of a tree.                                               *)

(* The requests of L hold the tree's locks, each one that on its handle.     *)
CountsLocks(t, L, H) ==
  /\ IsFiniteSet(L)
  /\ \A r \in L : H[r] \in t.nodes
  /\ \A n \in t.nodes :
       t.ref[n] = IF n = Root THEN 1 ELSE Cardinality({r \in L : IsPrefix(n, H[r])})

(* The upper half of a split edge is above the same handles as the lower one.*)
LEMMA SplitLocks ==
  ASSUME NEW t, NEW V, NEW P, NEW S, IsTree(t, V, P, S),
         NEW p \in Seq(V), \E n \in t.nodes : IsPrefix(p, n),
         NEW L, NEW H, CountsLocks(t, L, H)
  PROVE  CountsLocks(Split(t, p), L, H)
<1> DEFINE u == Split(t, p)
<1>1. /\ u.nodes = t.nodes \cup {p}
      /\ \A n \in t.nodes : u.ref[n] = t.ref[n]
      /\ p \notin t.nodes =>
           \E b \in t.nodes : /\ IsStrictPrefix(p, b) /\ u.ref[p] = t.ref[b]
                              /\ \A m \in t.nodes : IsStrictPrefix(p, m) => Len(b) <= Len(m)
  BY SplitResult
<1> HIDE DEF u
<1>2. t.nodes \subseteq Seq(V) /\ Root \in t.nodes
  BY DEF IsTree
<1>3. ASSUME p \notin t.nodes
      PROVE  u.ref[p] = Cardinality({r \in L : IsPrefix(p, H[r])})
  <2>1. PICK b \in t.nodes :
          /\ IsStrictPrefix(p, b) /\ u.ref[p] = t.ref[b]
          /\ \A m \in t.nodes : IsStrictPrefix(p, m) => Len(b) <= Len(m)
    BY <1>1, <1>3
  <2>2. ASSUME NEW r \in L PROVE IsPrefix(p, H[r]) <=> IsPrefix(b, H[r])
    <3>1. H[r] \in t.nodes /\ H[r] \in Seq(V) /\ b \in Seq(V) /\ IsPrefix(p, b)
      BY <1>2, <2>1 DEF CountsLocks, IsStrictPrefix
    <3>2. ASSUME IsPrefix(p, H[r]) PROVE IsPrefix(b, H[r])
      <4>1. PICK k \in t.nodes : IsPrefix(p, k) /\ IsPrefix(k, b) /\ IsPrefix(k, H[r])
        BY <3>1, <3>2 DEF IsTree, Branching
      <4>2. IsStrictPrefix(p, k)
        BY <1>3, <4>1 DEF IsStrictPrefix
      <4>3. k \in Seq(V) /\ Len(b) <= Len(k)
        BY <1>2, <2>1, <4>1, <4>2
      <4>4. Len(k) <= Len(b) /\ Len(k) \in Nat /\ Len(b) \in Nat
        BY <3>1, <4>1, <4>3, LenProperties DEF IsPrefix
      <4>5. k = b
        BY <3>1, <4>1, <4>3, <4>4, PrefixSameLength
      <4> QED BY <4>1, <4>5
    <3> QED BY <3>1, <3>2, PrefixTransitive
  <2>3. {r \in L : IsPrefix(p, H[r])} = {r \in L : IsPrefix(b, H[r])}
    BY <2>2
  <2>4. b # Root
    <3>1. b \in Seq(V) /\ IsPrefix(p, b) /\ p # b
      BY <1>2, <2>1 DEF IsStrictPrefix
    <3>2. Len(p) \in Nat /\ Len(b) \in Nat /\ Len(p) <= Len(b)
      BY <3>1, LenProperties, PrefixPointwise
    <3> QED BY <3>1, <3>2, PrefixSameLength, RootIsPrefix
  <2> QED BY <2>1, <2>3, <2>4 DEF CountsLocks
<1>4. p \notin t.nodes => p # Root
  BY <1>2
<1> QED BY <1>1, <1>3, <1>4 DEF CountsLocks, u

(* Looking up a sequence keeps the counts.                                   *)
LEMMA WalkLocks ==
  ASSUME NEW t, NEW V, NEW P, NEW S, IsTree(t, V, P, S), NEW ids \in Seq(V),
         NEW L, NEW H, CountsLocks(t, L, H)
  PROVE  CountsLocks(Walk(t, ids), L, H)
BY MatchedIsLongest, SplitLocks DEF Walk

(* One more request locks its handle.                                        *)
LEMMA LockLocks ==
  ASSUME NEW t, NEW V, NEW P, NEW S, IsTree(t, V, P, S),
         NEW L, NEW H, CountsLocks(t, L, H),
         NEW r, r \notin L, NEW G, G[r] \in t.nodes, \A q \in L : G[q] = H[q]
  PROVE  CountsLocks(Lock(t, G[r]), L \cup {r}, G)
<1> DEFINE u == Lock(t, G[r])
           Above(n) == {q \in L : IsPrefix(n, H[q])}
           Now(n) == {q \in L \cup {r} : IsPrefix(n, G[q])}
<1>1. /\ u.nodes = t.nodes
      /\ u.ref = [n \in t.nodes |-> IF n \in Chain(t, G[r]) THEN t.ref[n] + 1 ELSE t.ref[n]]
  BY DEF Lock, IsTree, Fields
<1> HIDE DEF u
<1>2. IsFiniteSet(L \cup {r})
  BY FS_AddElement DEF CountsLocks
<1>3. \A q \in L \cup {r} : G[q] \in t.nodes
  BY DEF CountsLocks
<1>4. ASSUME NEW n \in t.nodes, n # Root PROVE u.ref[n] = Cardinality(Now(n))
  <2>1. t.ref[n] = Cardinality(Above(n)) /\ IsFiniteSet(Above(n))
    BY <1>4, FS_Subset DEF CountsLocks
  <2>2. CASE IsPrefix(n, G[r])
    <3>1. Now(n) = Above(n) \cup {r} /\ r \notin Above(n)
      BY <2>2
    <3>2. n \in Chain(t, G[r])
      BY <1>4, <2>2 DEF Chain
    <3>3. Cardinality(Now(n)) = Cardinality(Above(n)) + 1
      <4> HIDE DEF Above, Now
      <4> QED BY <2>1, <3>1, FS_AddElement
    <3> QED BY <1>1, <2>1, <3>2, <3>3
  <2>3. CASE ~ IsPrefix(n, G[r])
    <3>1. Now(n) = Above(n)
      BY <2>3
    <3>2. n \notin Chain(t, G[r])
      BY <2>3 DEF Chain
    <3> QED BY <1>1, <2>1, <3>1, <3>2
  <2> QED BY <2>2, <2>3
<1>5. u.ref[Root] = 1
  BY <1>1 DEF IsTree, Chain
<1> QED BY <1>1, <1>2, <1>3, <1>4, <1>5 DEF CountsLocks, u

(* One of them gives its lock back.                                          *)
LEMMA UnlockLocks ==
  ASSUME NEW t, NEW V, NEW P, NEW S, IsTree(t, V, P, S),
         NEW L, NEW H, CountsLocks(t, L, H),
         NEW r \in L, NEW G, \A q \in L \ {r} : G[q] = H[q]
  PROVE  CountsLocks(Unlock(t, H[r]), L \ {r}, G)
<1> DEFINE u == Unlock(t, H[r])
           Above(n) == {q \in L : IsPrefix(n, H[q])}
           Now(n) == {q \in L \ {r} : IsPrefix(n, G[q])}
<1>1. /\ u.nodes = t.nodes
      /\ u.ref = [n \in t.nodes |-> IF n \in Chain(t, H[r]) THEN t.ref[n] - 1 ELSE t.ref[n]]
  BY DEF Unlock, IsTree, Fields
<1> HIDE DEF u
<1>2. IsFiniteSet(L \ {r})
  BY FS_RemoveElement DEF CountsLocks
<1>3. \A q \in L \ {r} : G[q] \in t.nodes
  BY DEF CountsLocks
<1>4. ASSUME NEW n \in t.nodes, n # Root PROVE u.ref[n] = Cardinality(Now(n))
  <2>1. t.ref[n] = Cardinality(Above(n)) /\ IsFiniteSet(Above(n))
    BY <1>4, FS_Subset DEF CountsLocks
  <2>2. CASE IsPrefix(n, H[r])
    <3>1. Now(n) = Above(n) \ {r} /\ r \in Above(n)
      BY <2>2
    <3>2. n \in Chain(t, H[r])
      BY <1>4, <2>2 DEF Chain
    <3>3. Cardinality(Now(n)) = Cardinality(Above(n)) - 1
      <4> HIDE DEF Above, Now
      <4> QED BY <2>1, <3>1, FS_RemoveElement
    <3> QED BY <1>1, <2>1, <3>2, <3>3
  <2>3. CASE ~ IsPrefix(n, H[r])
    <3>1. Now(n) = Above(n)
      BY <2>3
    <3>2. n \notin Chain(t, H[r])
      BY <2>3 DEF Chain
    <3> QED BY <1>1, <2>1, <3>1, <3>2
  <2> QED BY <2>2, <2>3
<1>5. u.ref[Root] = 1
  BY <1>1 DEF IsTree, Chain
<1> QED BY <1>1, <1>2, <1>3, <1>4, <1>5 DEF CountsLocks, u

(* A snapshot that comes or goes leaves the counts alone.                    *)
LEMMA SameRefs ==
  ASSUME NEW t, NEW u, NEW L, NEW H, CountsLocks(t, L, H), u.nodes = t.nodes, u.ref = t.ref
  PROVE  CountsLocks(u, L, H)
BY DEF CountsLocks

(* What eviction does to the lock counts and to the cached prefixes.         *)
LEMMA RemoveLeafFields ==
  ASSUME NEW t, NEW V, NEW P, NEW S, IsTree(t, V, P, S), NEW n \in UnlockedLeaves(t)
  PROVE  LET u == RemoveLeaf(t, n)
         IN /\ n \in t.nodes /\ n # Root /\ t.ref[n] = 0
            /\ \A m \in t.nodes : ~ IsStrictPrefix(n, m)
            /\ u.nodes = t.nodes \ {n}
            /\ \A m \in u.nodes : u.ref[m] = t.ref[m]
            /\ DOMAIN u.page = DOMAIN t.page \ Edge(t, n)
            /\ \A q \in DOMAIN u.page : u.page[q] = t.page[q]
<1> DEFINE u == RemoveLeaf(t, n)
<1>1. /\ n \in t.nodes /\ t.ref[n] = 0 /\ \A m \in t.nodes : ~ IsStrictPrefix(n, m)
      /\ DOMAIN t = Fields /\ t.ref[Root] = 1
  BY DEF UnlockedLeaves, IsTree
<1>2. /\ u.nodes = t.nodes \ {n}
      /\ u.page = Restrict(t.page, DOMAIN t.page \ Edge(t, n))
      /\ u.ref = Restrict(t.ref, t.nodes \ {n})
  BY <1>1 DEF RemoveLeaf, Fields
<1> HIDE DEF u
<1> QED BY <1>1, <1>2 DEF Restrict, u

(* A locked node is not evicted: its count is not zero.                      *)
LEMMA LockedNodeCounts ==
  ASSUME NEW t, NEW L, NEW H, CountsLocks(t, L, H), NEW r \in L, NEW n \in t.nodes,
         IsPrefix(n, H[r])
  PROVE  t.ref[n] # 0
<1> DEFINE A == {q \in L : IsPrefix(n, H[q])}
<1>1. IsFiniteSet(A) /\ r \in A
  BY FS_Subset DEF CountsLocks
<1>2. Cardinality(A) # 0
  <2> HIDE DEF A
  <2> QED BY <1>1, FS_EmptySet
<1> QED BY <1>2 DEF CountsLocks

(* Eviction takes a node without locks, so no request's handle.              *)
LEMMA RemoveLeafLocks ==
  ASSUME NEW t, NEW V, NEW P, NEW S, IsTree(t, V, P, S), NEW n \in UnlockedLeaves(t),
         NEW L, NEW H, CountsLocks(t, L, H)
  PROVE  CountsLocks(RemoveLeaf(t, n), L, H)
<1>1. ASSUME NEW r \in L PROVE H[r] # n
  <2>1. n \in t.nodes /\ t.ref[n] = 0 /\ n \in Seq(V)
    BY RemoveLeafFields DEF IsTree
  <2> QED BY <2>1, LockedNodeCounts, RootIsPrefix
<1> DEFINE u == RemoveLeaf(t, n)
<1>2. u.nodes = t.nodes \ {n} /\ \A m \in u.nodes : u.ref[m] = t.ref[m]
  BY RemoveLeafFields
<1> HIDE DEF u
<1>3. \A r \in L : H[r] \in u.nodes
  BY <1>1, <1>2 DEF CountsLocks
<1>4. \A m \in u.nodes : u.ref[m] = IF m = Root THEN 1
                                    ELSE Cardinality({r \in L : IsPrefix(m, H[r])})
  BY <1>2 DEF CountsLocks
<1> QED BY <1>3, <1>4 DEF CountsLocks, u

(* What a new leaf adds to a tree.                                           *)
LEMMA AddLeafFields ==
  ASSUME NEW t, NEW V, NEW P, NEW S, IsTree(t, V, P, S), NEW ids, NEW pages, NEW slot, NEW p,
         ids \notin t.nodes
  PROVE  LET u == AddLeaf(t, p, ids, pages, slot)
         IN /\ u.nodes = t.nodes \cup {ids}
            /\ u.ref[ids] = 0
            /\ \A n \in t.nodes : u.ref[n] = t.ref[n]
            /\ DOMAIN u.page = DOMAIN t.page \cup (Prefixes(ids) \ {Root})
            /\ \A q \in DOMAIN u.page :
                 u.page[q] = IF q \in DOMAIN t.page THEN t.page[q] ELSE pages[Len(q)]
<1>1. DOMAIN t = Fields
  BY DEF IsTree
<1> QED BY <1>1 DEF AddLeaf, InsertedPage, Fields

(* It lies above no handle, so its count is none.                            *)
LEMMA AddLeafLocks ==
  ASSUME NEW t, NEW V, NEW P, NEW S, IsTree(t, V, P, S), NEW L, NEW H, CountsLocks(t, L, H),
         NEW ids \in Seq(V), NEW pages, NEW slot, NEW p,
         \A n \in t.nodes : ~ IsPrefix(ids, n)
  PROVE  CountsLocks(AddLeaf(t, p, ids, pages, slot), L, H)
<1>1. ids \notin t.nodes /\ ids # Root
  BY RootIsPrefix DEF IsTree
<1>2. {r \in L : IsPrefix(ids, H[r])} = {}
  BY DEF CountsLocks
<1>3. Cardinality({r \in L : IsPrefix(ids, H[r])}) = 0
  BY <1>2, FS_EmptySet
<1> DEFINE u == AddLeaf(t, p, ids, pages, slot)
<1>4. /\ u.nodes = t.nodes \cup {ids} /\ u.ref[ids] = 0
      /\ \A n \in t.nodes : u.ref[n] = t.ref[n]
  BY <1>1, AddLeafFields
<1> HIDE DEF u
<1>5. \A m \in u.nodes : u.ref[m] = IF m = Root THEN 1
                                    ELSE Cardinality({r \in L : IsPrefix(m, H[r])})
  BY <1>1, <1>3, <1>4 DEF CountsLocks
<1> QED BY <1>4, <1>5 DEF CountsLocks, u

(* Inserting a sequence: the cached prefixes keep their pages, the ones that *)
(* are new get theirs from the sequence's row, and the counts stay.          *)
LEMMA InsertPages ==
  ASSUME NEW t, NEW V, NEW P, NEW S, IsTree(t, V, P, S),
         NEW ids \in Seq(V), NEW pages, NEW slot
  PROVE  LET u == Insert(t, ids, pages, slot)
         IN /\ DOMAIN u.page = DOMAIN t.page \cup (Prefixes(ids) \ {Root})
            /\ \A q \in DOMAIN u.page :
                 u.page[q] = IF q \in DOMAIN t.page THEN t.page[q] ELSE pages[Len(q)]
            /\ \A L, H : CountsLocks(t, L, H) => CountsLocks(u, L, H)
<1> DEFINE p == Matched(t, ids)
           w == Walk(t, ids)
           u == Insert(t, ids, pages, slot)
<1>1. /\ p \in Seq(V) /\ IsPrefix(p, ids)
      /\ \A q \in Seq(V), n \in t.nodes : IsPrefix(q, ids) /\ IsPrefix(q, n) => IsPrefix(q, p)
  BY MatchedIsLongest
<1>2. /\ IsTree(w, V, P, S) /\ w.nodes = t.nodes \cup {p} /\ w.page = t.page
      /\ \A L, H : CountsLocks(t, L, H) => CountsLocks(w, L, H)
  BY WalkResult, WalkLocks
<1>3. u = IF p # ids THEN AddLeaf(w, p, ids, pages, slot) ELSE Adopt(w, ids, slot)
  BY DEF Insert, Walk
<1> HIDE DEF p, w, u
<1>4. CASE p # ids
  <2>1. ASSUME NEW n \in w.nodes PROVE ~ IsPrefix(ids, n)
    <3> SUFFICES ASSUME IsPrefix(ids, n) PROVE FALSE
      OBVIOUS
    <3>1. IsPrefix(ids, p) /\ IsPrefix(p, ids)
      BY <1>1, <1>2, RootIsPrefix
    <3>2. Len(ids) = Len(p)
      BY <1>1, <3>1, LenProperties DEF IsPrefix
    <3> QED BY <1>1, <1>4, <3>2, PrefixSameLength
  <2>2. ids \notin w.nodes
    BY <2>1, RootIsPrefix
  <2>3. u = AddLeaf(w, p, ids, pages, slot)
    BY <1>3, <1>4
  <2>4. /\ DOMAIN u.page = DOMAIN t.page \cup (Prefixes(ids) \ {Root})
        /\ \A q \in DOMAIN u.page :
             u.page[q] = IF q \in DOMAIN t.page THEN t.page[q] ELSE pages[Len(q)]
    BY <1>2, <2>2, <2>3, AddLeafFields
  <2>5. ASSUME NEW L, NEW H, CountsLocks(t, L, H) PROVE CountsLocks(u, L, H)
    BY <1>2, <2>1, <2>3, <2>5, AddLeafLocks
  <2> QED BY <2>4, <2>5 DEF u
<1>5. CASE p = ids
  <2>1. DOMAIN w = Fields
    BY <1>2 DEF IsTree
  <2>2. u.nodes = w.nodes /\ u.ref = w.ref /\ u.page = w.page
    BY <1>3, <1>5, <2>1 DEF Adopt, Fields
  <2>3. Prefixes(ids) \ {Root} \subseteq DOMAIN t.page
    <3>1. ids \in w.nodes /\ Closed(w, V)
      BY <1>2, <1>5 DEF IsTree
    <3> QED BY <1>2, <3>1, PrefixesMembers DEF Closed
  <2>5. /\ DOMAIN u.page = DOMAIN t.page \cup (Prefixes(ids) \ {Root})
        /\ \A q \in DOMAIN u.page :
             u.page[q] = IF q \in DOMAIN t.page THEN t.page[q] ELSE pages[Len(q)]
    BY <1>2, <2>2, <2>3
  <2>6. \A L, H : CountsLocks(t, L, H) => CountsLocks(u, L, H)
    BY <1>2, <2>2, SameRefs
  <2> QED BY <2>5, <2>6 DEF u
<1> QED BY <1>4, <1>5

-----------------------------------------------------------------------------
(* The pages behind a handle.                                               *)

(* What PagesOf(t, h) said of a row is still so.                             *)
Points(t, h, row) ==
  \A i \in 1..Len(h) : /\ SubSeq(h, 1, i) \in DOMAIN t.page
                       /\ t.page[SubSeq(h, 1, i)] = row[i]

(* Eviction takes no prefix of another node.                                 *)
LEMMA RemoveLeafPoints ==
  ASSUME NEW t, NEW V, NEW P, NEW S, IsTree(t, V, P, S), NEW n \in UnlockedLeaves(t),
         NEW h \in t.nodes, h # n, NEW row, Points(t, h, row)
  PROVE  Points(RemoveLeaf(t, n), h, row)
<1> DEFINE u == RemoveLeaf(t, n)
<1>1. /\ IsTree(u, V, P, S) /\ h \in u.nodes
      /\ \A q \in DOMAIN u.page : u.page[q] = t.page[q]
  BY RemoveLeafResult, RemoveLeafFields
<1> HIDE DEF u
<1>2. h \in Seq(V) /\ Closed(u, V) /\ Len(h) \in Nat
  BY <1>1, LenProperties DEF IsTree
<1>3. ASSUME NEW i \in 1..Len(h) PROVE SubSeq(h, 1, i) \in DOMAIN u.page
  <2> DEFINE q == SubSeq(h, 1, i)
  <2>1. i \in 0..Len(h) /\ q \in Seq(V) /\ Len(q) = i /\ IsPrefix(q, h)
    BY <1>2, FirstElements, SubSeqIsPrefix
  <2> HIDE DEF q
  <2>2. q # Root
    BY <2>1, RootIsPrefix
  <2>3. q \in DOMAIN u.page
    BY <1>1, <1>2, <2>1, <2>2 DEF Closed
  <2> QED BY <2>3 DEF q
<1> QED BY <1>1, <1>3 DEF Points, u

(* What is inserted moves no page.                                           *)
LEMMA InsertPoints ==
  ASSUME NEW t, NEW V, NEW P, NEW S, IsTree(t, V, P, S),
         NEW ids \in Seq(V), NEW pages, NEW slot, NEW h, NEW row, Points(t, h, row)
  PROVE  Points(Insert(t, ids, pages, slot), h, row)
<1> DEFINE u == Insert(t, ids, pages, slot)
<1>1. \A q \in DOMAIN t.page : q \in DOMAIN u.page /\ u.page[q] = t.page[q]
  BY InsertPages
<1> HIDE DEF u
<1> QED BY <1>1 DEF Points, u

-----------------------------------------------------------------------------
(* What the steps do to the requests.                                       *)

(* Messages concern requests that hold nothing yet.                          *)
LEMMA MessageFacts ==
  ASSUME IInv, (\E r \in Reqs : Submit(r)) \/ ProcessMsg
  PROVE  /\ pc = "recv" /\ pc' = "recv"
         /\ UNCHANGED <<tree, freePages, freeSlots, rows, running, batch, chunked_list,
                        finished, prepared, kv, state>>
         /\ \A q \in Reqs : req[q].stage = "live" \/ req'[q].stage = "live" => req'[q] = req[q]
<1>1. Typed /\ ListsOK /\ req \in [Reqs -> ReqRecord]
  BY DEF IInv, Typed
<1>2. CASE \E r \in Reqs : Submit(r)
  <2>1. PICK r \in Reqs : Submit(r)
    BY <1>2
  <2>2. PICK w \in Workload :
          req' = [req EXCEPT ![r].stage = "inbox", ![r].prompt = w.prompt,
                             ![r].output = w.max_tokens, ![r].ignore_eos = w.ignore_eos]
    BY <2>1 DEF Submit
  <2> DEFINE new == [req[r] EXCEPT !.stage = "inbox", !.prompt = w.prompt,
                                   !.output = w.max_tokens, !.ignore_eos = w.ignore_eos]
  <2>3. req' = [req EXCEPT ![r] = new]
    BY <1>1, <2>2
  <2>4. new.stage = "inbox"
    BY <1>1 DEF ReqRecord
  <2>5. req[r].stage = "new"
    BY <2>1 DEF Submit
  <2> HIDE DEF new
  <2>6. \A q \in Reqs : req[q].stage = "live" \/ req'[q].stage = "live" => req'[q] = req[q]
    BY <1>1, <2>3, <2>4, <2>5
  <2> QED BY <2>1, <2>6 DEF Submit, adder, cache, data
<1>3. CASE ProcessMsg
  <2>1. PICK r \in Reqs : r = Head(inbox) /\ req[r].stage = "inbox"
    <3>1. inbox # <<>> /\ inbox \in Seq(Reqs)
      BY <1>1, <1>3 DEF ProcessMsg, Typed
    <3>2. Head(inbox) = inbox[1] /\ 1 \in 1..Len(inbox)
      BY <3>1, HeadTailProperties, EmptySeq
    <3> QED BY <1>1, <3>2, Members DEF ListsOK, InboxOK
  <2>2. PICK new : req' = [req EXCEPT ![r] = new] /\ new.stage # "live"
    <3>1. CASE MaxOutputLen(r) <= 0
      <4>1. req' = [req EXCEPT ![r] = [NoReq EXCEPT !.stage = "dropped"]]
        BY <1>3, <2>1, <3>1 DEF ProcessMsg
      <4>2. [NoReq EXCEPT !.stage = "dropped"].stage = "dropped"
        BY NoReqFields
      <4> QED BY <4>1, <4>2
    <3>2. CASE ~ MaxOutputLen(r) <= 0
      <4>1. PICK n : req' = [req EXCEPT ![r].stage = "pending", ![r].output = n]
        BY <1>3, <2>1, <3>2 DEF ProcessMsg
      <4>2. req' = [req EXCEPT ![r] = [req[r] EXCEPT !.stage = "pending", !.output = n]]
        BY <1>1, <4>1
      <4>3. [req[r] EXCEPT !.stage = "pending", !.output = n].stage = "pending"
        BY <1>1 DEF ReqRecord
      <4> QED BY <4>2, <4>3
    <3> QED BY <3>1, <3>2
  <2>3. \A q \in Reqs : req[q].stage = "live" \/ req'[q].stage = "live" => req'[q] = req[q]
    BY <1>1, <2>1, <2>2
  <2> QED BY <1>3, <2>3 DEF ProcessMsg, adder, cache, data
<1> QED BY <1>2, <1>3

(* The Req that _add_one_req makes.                                          *)
LEMMA AddOneReqFields ==
  ASSUME Typed, NEW r \in Reqs, NEW c \in Nat, c <= InputLen(r), NEW s, AddOneReq(r, c, s)
  PROVE  \E new, total :
           /\ total = c + ChunkSize(InputLen(r) - c) /\ total \in c..InputLen(r)
           /\ req' = [req EXCEPT ![r] = new]
           /\ new.stage = "live" /\ new.slot = s /\ new.cached = c /\ new.device = total
           /\ new.ids = SubSeq(req[r].prompt, 1, total)
           /\ new.max_device = total + req[r].output
           /\ new.chunked = (total < InputLen(r))
           /\ new.prompt = req[r].prompt /\ new.output = req[r].output
           /\ new.handle = req[r].handle /\ new.row = req[r].row /\ new.stale = req[r].stale
<1>1. req \in [Reqs -> ReqRecord] /\ budget \in Nat
  BY DEF Typed
<1>2. PICK len \in Nat : len = InputLen(r) /\ c <= len
  BY <1>1, ReqFields DEF InputLen
<1>3. PICK remain \in Nat : remain = len - c
  BY <1>2
<1>4. PICK chunk \in Nat : chunk = ChunkSize(remain) /\ chunk <= remain
  <2>1. ChunkSize(remain) \in Nat /\ ChunkSize(remain) <= remain
    BY <1>1 DEF ChunkSize, Lesser
  <2> QED BY <2>1
<1>5. PICK total \in c..len : total = c + chunk
  <2>1. c + chunk \in c..len
    BY <1>2, <1>3, <1>4
  <2> QED BY <2>1
<1>6. PICK short : short = (chunk < remain) /\ short = (total < len)
  BY <1>2, <1>3, <1>4, <1>5
<1> DEFINE ids == SubSeq(req[r].prompt, 1, total)
           most == total + req[r].output
           new == [req[r] EXCEPT !.stage = "live", !.ids = ids, !.cached = c,
                                 !.device = total, !.max_device = most,
                                 !.chunked = short, !.slot = s]
<1>7. req' = [req EXCEPT ![r].stage = "live", ![r].ids = ids, ![r].cached = c,
                         ![r].device = total, ![r].max_device = most,
                         ![r].chunked = short, ![r].slot = s]
  BY <1>2, <1>3, <1>4, <1>5, <1>6 DEF AddOneReq
<1> HIDE DEF ids, most
<1>8. req' = [req EXCEPT ![r] = new]
  BY <1>1, <1>7
<1>9. /\ new.stage = "live" /\ new.slot = s /\ new.cached = c /\ new.device = total
      /\ new.ids = ids /\ new.max_device = most /\ new.chunked = short
      /\ new.prompt = req[r].prompt /\ new.output = req[r].output
      /\ new.handle = req[r].handle /\ new.row = req[r].row /\ new.stale = req[r].stale
  BY <1>1 DEF ReqRecord
<1> HIDE DEF new
<1> QED BY <1>2, <1>3, <1>4, <1>5, <1>6, <1>8, <1>9 DEF ids, most

(* All but the last token of the prompt are looked up.                       *)
LEMMA LookupFacts ==
  ASSUME Typed, NEW r \in Reqs
  PROVE  /\ LookupIds(r) \in Seq(Vocab) /\ IsPrefix(LookupIds(r), req[r].prompt)
         /\ Len(LookupIds(r)) = IF InputLen(r) = 0 THEN 0 ELSE InputLen(r) - 1
<1>1. PICK p \in Seq(Vocab), n \in Nat : p = req[r].prompt /\ n = Len(p) /\ n = InputLen(r)
  BY ReqFields DEF Typed, InputLen
<1>2. CASE n = 0
  <2>1. LookupIds(r) = <<>>
    BY <1>1, <1>2 DEF LookupIds
  <2>2. <<>> \in Seq(Vocab) /\ Len(<<>>) = 0 /\ IsPrefix(<<>>, p)
    BY <1>1, EmptySeq, RootIsPrefix DEF Root
  <2> QED BY <1>1, <1>2, <2>1, <2>2
<1>3. CASE n # 0
  <2>1. n - 1 \in 0..n
    BY <1>3
  <2>2. /\ SubSeq(p, 1, n - 1) \in Seq(Vocab) /\ Len(SubSeq(p, 1, n - 1)) = n - 1
        /\ IsPrefix(SubSeq(p, 1, n - 1), p)
    <3>1. n - 1 \in 0..Len(p)
      BY <1>1, <2>1
    <3> QED BY <3>1, FirstElements, SubSeqIsPrefix
  <2>3. LookupIds(r) = SubSeq(p, 1, n - 1)
    BY <1>1 DEF LookupIds
  <2> QED BY <1>1, <1>3, <2>2, <2>3
<1> QED BY <1>2, <1>3

(* What match_req returns is a cached prefix of what was looked up, and the  *)
(* lookup moves no page, no snapshot and no lock.                            *)
LEMMA MatchFacts ==
  ASSUME Typed, NEW ids \in Seq(Vocab)
  PROVE  LET h == MatchedHandle(ids)
             walked == MatchedTree(ids)
         IN /\ IsTree(walked, Vocab, Pages, Slots)
            /\ h \in walked.nodes /\ h \in Seq(Vocab) /\ IsPrefix(h, ids)
            /\ CacheType = "hybrid" /\ h # Root => walked.snap[h] # None
            /\ tree.nodes \subseteq walked.nodes /\ walked.page = tree.page
            /\ \A n \in tree.nodes : walked.snap[n] = tree.snap[n]
            /\ \A n \in walked.nodes \ tree.nodes : walked.snap[n] = None
            /\ \A L, H : CountsLocks(tree, L, H) => CountsLocks(walked, L, H)
<1> DEFINE h == MatchedHandle(ids)
           walked == MatchedTree(ids)
           m == Matched(tree, ids)
           w == Walk(tree, ids)
<1>1. IsTree(tree, Vocab, Pages, Slots)
  BY DEF Typed
<1>2. /\ IsTree(w, Vocab, Pages, Slots) /\ m \in Seq(Vocab) /\ IsPrefix(m, ids)
      /\ w.nodes = tree.nodes \cup {m} /\ w.page = tree.page
      /\ \A n \in tree.nodes : w.snap[n] = tree.snap[n]
      /\ m \notin tree.nodes => w.snap[m] = None
      /\ \A L, H : CountsLocks(tree, L, H) => CountsLocks(w, L, H)
  BY <1>1, WalkResult, MatchedIsLongest, WalkLocks
<1>3. walked = tree \/ walked = w
  BY DEF MatchedTree
<1>4. /\ IsTree(walked, Vocab, Pages, Slots)
      /\ tree.nodes \subseteq walked.nodes /\ walked.page = tree.page
      /\ \A n \in tree.nodes : walked.snap[n] = tree.snap[n]
      /\ \A n \in walked.nodes \ tree.nodes : walked.snap[n] = None
      /\ \A L, H : CountsLocks(tree, L, H) => CountsLocks(walked, L, H)
  <2> HIDE DEF w, m, walked
  <2> QED BY <1>1, <1>2, <1>3
<1>5. CASE CacheType = "naive"
  <2>1. h = Root /\ walked = tree
    BY <1>5 DEF MatchedHandle, MatchedTree
  <2>2. Root \in tree.nodes /\ Root \in Seq(Vocab) /\ IsPrefix(Root, ids)
    BY <1>1, RootIsPrefix DEF IsTree
  <2> QED BY <1>4, <1>5, <2>1, <2>2
<1>6. CASE CacheType = "radix"
  <2>1. h = m /\ walked = w
    BY <1>6 DEF MatchedHandle, MatchedTree
  <2> QED BY <1>2, <1>4, <1>6, <2>1
<1>7. CASE CacheType = "hybrid"
  <2>1. h = SnapshotAncestor(w, m) /\ walked = w
    BY <1>7 DEF MatchedHandle, MatchedTree
  <2> HIDE DEF h, walked, w, m
  <2>2. h \in w.nodes /\ IsPrefix(h, m) /\ (h # Root => w.snap[h] # None)
    BY <1>2, <2>1, SnapshotAncestorIsNode
  <2>3. h \in Seq(Vocab)
    BY <1>2, <2>2 DEF IsTree
  <2>4. IsPrefix(h, ids)
    BY <1>2, <2>2, <2>3, PrefixTransitive
  <2> QED BY <1>4, <1>7, <2>1, <2>2, <2>3, <2>4 DEF h, walked, w
<1> QED BY <1>5, <1>6, <1>7, CacheAssumption

(* _try_allocate_one matches, and locks and points the row, or gives up.     *)
LEMMA TryAllocateFacts ==
  ASSUME IInv, TryAllocate
  PROVE  /\ pc = "admit" /\ rows # <<>> /\ Len(batch) < Len(pending)
         /\ UNCHANGED <<inbox, running, finished, prepared, rows, freePages, freeSlots, kv, state>>
         /\ \E r \in Reqs, h \in Seq(Vocab) : \E walked :
              /\ r = Current /\ req[r].stage = "pending"
              /\ h = MatchedHandle(LookupIds(r)) /\ walked = MatchedTree(LookupIds(r))
              /\ IsPrefix(h, LookupIds(r)) /\ IsPrefix(h, req[r].prompt)
              /\ IsTree(walked, Vocab, Pages, Slots) /\ h \in walked.nodes
              /\ CacheType = "hybrid" /\ h # Root => walked.snap[h] # None
              /\ tree.nodes \subseteq walked.nodes /\ walked.page = tree.page
              /\ \A n \in tree.nodes : walked.snap[n] = tree.snap[n]
              /\ \A n \in walked.nodes \ tree.nodes : walked.snap[n] = None
              /\ \A L, H : CountsLocks(tree, L, H) => CountsLocks(walked, L, H)
              /\ \/ /\ tree' = Lock(walked, h) /\ pc' = "slot"
                    /\ UNCHANGED <<pending, batch, chunked_list, budget, reserved>>
                    /\ \E new : /\ req' = [req EXCEPT ![r] = new]
                                /\ new.stage = "pending" /\ new.handle = h
                                /\ new.row = MatchedRow(tree', h) /\ new.stale = Last(rows)
                                /\ Alike(new, req[r])
                 \/ tree' = walked /\ SelectBatch /\ UNCHANGED req
<1>1. Typed /\ ListsOK /\ LengthsOK /\ req \in [Reqs -> ReqRecord]
  BY DEF IInv, Typed
<1>2. /\ pc = "admit" /\ Len(batch) < Len(pending) /\ rows # <<>> /\ ~ req[Current].chunked
      /\ UNCHANGED <<inbox, running, finished, prepared, rows, freePages, freeSlots, kv, state>>
  BY DEF TryAllocate, data
<1>3. PICK r \in Reqs : r = Current /\ req[r].stage = "pending"
  BY <1>1, <1>2, CurrentWaits DEF Admitting, Waiting
<1>4. PICK ids \in Seq(Vocab) : ids = LookupIds(r) /\ IsPrefix(ids, req[r].prompt)
  BY <1>1, LookupFacts
<1>5. PICK h, walked :
        /\ h \in Seq(Vocab) /\ h = MatchedHandle(ids) /\ walked = MatchedTree(ids)
        /\ IsTree(walked, Vocab, Pages, Slots)
        /\ h \in walked.nodes /\ IsPrefix(h, ids)
        /\ CacheType = "hybrid" /\ h # Root => walked.snap[h] # None
        /\ tree.nodes \subseteq walked.nodes /\ walked.page = tree.page
        /\ \A n \in tree.nodes : walked.snap[n] = tree.snap[n]
        /\ \A n \in walked.nodes \ tree.nodes : walked.snap[n] = None
        /\ \A L, H : CountsLocks(tree, L, H) => CountsLocks(walked, L, H)
  BY <1>1, MatchFacts
<1>6. IsPrefix(h, req[r].prompt)
  <2>1. req[r].prompt \in Seq(Vocab)
    BY <1>1, ReqFields
  <2> QED BY <1>4, <1>5, <2>1, PrefixTransitive
<1>7. \/ /\ tree' = Lock(walked, h)
         /\ req' = [req EXCEPT ![r].handle = h, ![r].row = MatchedRow(Lock(walked, h), h),
                                ![r].stale = Last(rows)]
         /\ pc' = "slot"
         /\ UNCHANGED <<pending, batch, chunked_list, budget, reserved>>
      \/ tree' = walked /\ SelectBatch /\ UNCHANGED req
  BY <1>3, <1>4, <1>5 DEF TryAllocate
<1>8. ASSUME tree' = Lock(walked, h),
             req' = [req EXCEPT ![r].handle = h, ![r].row = MatchedRow(Lock(walked, h), h),
                                ![r].stale = Last(rows)]
      PROVE  \E new : /\ req' = [req EXCEPT ![r] = new]
                      /\ new.stage = "pending" /\ new.handle = h
                      /\ new.row = MatchedRow(tree', h) /\ new.stale = Last(rows)
                      /\ Alike(new, req[r])
  <2>1. PICK row, stale : row = MatchedRow(tree', h) /\ stale = Last(rows)
    OBVIOUS
  <2> DEFINE new == [req[r] EXCEPT !.handle = h, !.row = row, !.stale = stale]
  <2>2. req' = [req EXCEPT ![r] = new]
    BY <1>1, <1>8, <2>1
  <2>3. /\ new.stage = req[r].stage /\ new.handle = h /\ new.row = row /\ new.stale = stale
        /\ Alike(new, req[r])
    BY <1>1 DEF ReqRecord, Alike
  <2> HIDE DEF new
  <2> QED BY <1>3, <2>1, <2>2, <2>3
<1>9. h = MatchedHandle(LookupIds(r)) /\ walked = MatchedTree(LookupIds(r))
      /\ IsPrefix(h, LookupIds(r))
  BY <1>4, <1>5
<1>10. \/ /\ tree' = Lock(walked, h) /\ pc' = "slot"
          /\ UNCHANGED <<pending, batch, chunked_list, budget, reserved>>
          /\ \E new : /\ req' = [req EXCEPT ![r] = new]
                      /\ new.stage = "pending" /\ new.handle = h
                      /\ new.row = MatchedRow(tree', h) /\ new.stale = Last(rows)
                      /\ Alike(new, req[r])
       \/ tree' = walked /\ SelectBatch /\ UNCHANGED req
  BY <1>7, <1>8
<1> QED BY <1>2, <1>3, <1>5, <1>6, <1>9, <1>10

(* The request that the loop is at becomes a Req with the row and the handle *)
(* it has; no node, page or lock of the tree changes.                        *)
LEMMA AdmitFacts ==
  ASSUME IInv, AdmitWithoutSlot \/ AdmitWithFreeSlot \/ AdmitWithShedSlot
  PROVE  /\ pc = "slot" /\ pc' = "admit" /\ rows # <<>> /\ rows' = Front(rows)
         /\ Len(batch) < Len(pending)
         /\ UNCHANGED <<inbox, pending, running, finished, prepared, kv, freePages>>
         /\ IsTree(tree', Vocab, Pages, Slots)
         /\ tree'.nodes = tree.nodes /\ tree'.page = tree.page /\ tree'.ref = tree.ref
         /\ \E r \in Reqs : \E new, total :
              /\ r = Current /\ req[r].stage = "pending"
              /\ Len(req[r].handle) = Len(req[r].row)
              /\ batch' = Append(batch, r)
              /\ total \in Len(req[r].handle)..InputLen(r)
              /\ req' = [req EXCEPT ![r] = new]
              /\ new.stage = "live" /\ new.cached = Len(req[r].handle) /\ new.device = total
              /\ new.ids = SubSeq(req[r].prompt, 1, total)
              /\ new.max_device = total + req[r].output
              /\ new.chunked = (total < InputLen(r))
              /\ new.prompt = req[r].prompt /\ new.output = req[r].output
              /\ new.handle = req[r].handle /\ new.row = req[r].row
<1>1. Typed /\ ListsOK /\ LengthsOK /\ req \in [Reqs -> ReqRecord]
      /\ IsTree(tree, Vocab, Pages, Slots)
  BY DEF IInv, Typed
<1>2. PICK s : Admit(s) /\ pc = "slot"
  BY DEF AdmitWithoutSlot, AdmitWithFreeSlot, AdmitWithShedSlot
<1>3. /\ Len(batch) < Len(pending) /\ rows # <<>>
      /\ Len(req[Current].handle) = Len(req[Current].row)
      /\ Len(req[Current].handle) <= InputLen(Current)
      /\ req[Current].stage = "pending"
  BY <1>1, <1>2 DEF ListsOK, SlotOK
<1>4. PICK r \in Reqs : r = Current
  BY <1>1, <1>2, <1>3, CurrentWaits DEF Admitting
<1>5. PICK c \in Nat : c = Len(req[r].handle) /\ c <= InputLen(r)
  BY <1>1, <1>3, <1>4, ReqFields
<1>6. /\ AddOneReq(r, c, s) /\ rows' = Front(rows) /\ pc' = "admit"
      /\ UNCHANGED <<inbox, pending, running, finished, prepared, kv>>
  BY <1>2, <1>4, <1>5 DEF Admit
<1>7. batch' = Append(batch, r)
  BY <1>6 DEF AddOneReq
<1>8. PICK new, total :
        /\ total \in c..InputLen(r)
        /\ req' = [req EXCEPT ![r] = new]
        /\ new.stage = "live" /\ new.cached = c /\ new.device = total
        /\ new.ids = SubSeq(req[r].prompt, 1, total)
        /\ new.max_device = total + req[r].output
        /\ new.chunked = (total < InputLen(r))
        /\ new.prompt = req[r].prompt /\ new.output = req[r].output
        /\ new.handle = req[r].handle /\ new.row = req[r].row
  BY <1>1, <1>5, <1>6, AddOneReqFields
<1>9. /\ IsTree(tree', Vocab, Pages, Slots) /\ freePages' = freePages
      /\ tree'.nodes = tree.nodes /\ tree'.page = tree.page /\ tree'.ref = tree.ref
  <2>1. CASE AdmitWithoutSlot \/ AdmitWithFreeSlot
    BY <1>1, <2>1 DEF AdmitWithoutSlot, AdmitWithFreeSlot, cache
  <2>2. CASE AdmitWithShedSlot
    <3>1. PICK n \in SnapshotNodes(tree) : tree' = DropSnapshot(tree, n) /\ freePages' = freePages
      BY <2>2 DEF AdmitWithShedSlot, Sheddable
    <3>2. IsTree(tree', Vocab, Pages, Slots) /\ tree'.nodes = tree.nodes
      BY <1>1, <3>1, DropSnapshotResult
    <3>3. tree'.page = tree.page /\ tree'.ref = tree.ref
      BY <1>1, <3>1 DEF DropSnapshot, IsTree, Fields
    <3> QED BY <3>1, <3>2, <3>3
  <2> QED BY <2>1, <2>2
<1> QED BY <1>2, <1>3, <1>4, <1>5, <1>6, <1>7, <1>8, <1>9

(* A request whose prompt is not through yet goes on with it.                *)
LEMMA ContinueFacts ==
  ASSUME IInv, ContinueChunk
  PROVE  /\ pc = "admit" /\ pc' = "admit" /\ Len(batch) < Len(pending)
         /\ UNCHANGED <<inbox, pending, running, finished, prepared, rows, tree,
                        freePages, freeSlots, kv, state>>
         /\ \E r \in Reqs : \E new, total :
              /\ r = Current /\ req[r].stage = "live" /\ req[r].chunked
              /\ batch' = Append(batch, r)
              /\ total \in req[r].cached..InputLen(r)
              /\ req' = [req EXCEPT ![r] = new]
              /\ new.stage = "live" /\ new.cached = req[r].cached /\ new.device = total
              /\ new.ids = SubSeq(req[r].prompt, 1, total)
              /\ new.max_device = total + req[r].output
              /\ new.chunked = (total < InputLen(r))
              /\ new.prompt = req[r].prompt /\ new.output = req[r].output
              /\ new.handle = req[r].handle /\ new.row = req[r].row /\ new.slot = req[r].slot
<1>1. Typed /\ ListsOK /\ LengthsOK /\ req \in [Reqs -> ReqRecord]
  BY DEF IInv, Typed
<1>2. /\ pc = "admit" /\ pc' = "admit" /\ Len(batch) < Len(pending) /\ req[Current].chunked
      /\ AddOneReq(Current, req[Current].cached, req[Current].slot)
      /\ UNCHANGED <<inbox, pending, running, finished, prepared, rows, tree,
                     freePages, freeSlots, kv, state>>
  BY DEF ContinueChunk, cache, data
<1>3. PICK r \in Reqs : r = Current /\ Waiting(r)
  BY <1>1, <1>2, CurrentWaits DEF Admitting
<1>4. req[r].stage = "live" /\ req[r].chunked
  BY <1>2, <1>3 DEF Waiting
<1>5. PICK c \in Nat : c = req[r].cached /\ c <= InputLen(r)
  <2>1. req[r].cached \in Nat /\ Len(req[r].ids) \in Nat /\ InputLen(r) \in Nat
    BY <1>1, ReqFields DEF InputLen
  <2>2. req[r].cached <= Len(req[r].ids) /\ Len(req[r].ids) <= InputLen(r)
    BY <1>1, <1>4 DEF LengthsOK, ReqLengths
  <2> QED BY <2>1, <2>2
<1>6. AddOneReq(r, c, req[r].slot) /\ batch' = Append(batch, r)
  BY <1>2, <1>3, <1>5 DEF AddOneReq
<1>7. PICK new, total :
        /\ total \in c..InputLen(r) /\ req' = [req EXCEPT ![r] = new]
        /\ new.stage = "live" /\ new.cached = c /\ new.device = total
        /\ new.ids = SubSeq(req[r].prompt, 1, total)
        /\ new.max_device = total + req[r].output
        /\ new.chunked = (total < InputLen(r))
        /\ new.prompt = req[r].prompt /\ new.output = req[r].output
        /\ new.handle = req[r].handle /\ new.row = req[r].row /\ new.slot = req[r].slot
  BY <1>1, <1>5, <1>6, AddOneReqFields
<1> QED BY <1>2, <1>3, <1>4, <1>5, <1>6, <1>7

(* Without a slot the request gives its handle and its row back.             *)
LEMMA StarvedFacts ==
  ASSUME IInv, Starved
  PROVE  /\ pc = "slot" /\ SelectBatch /\ Len(batch) < Len(pending)
         /\ UNCHANGED <<inbox, running, finished, prepared, rows, freePages, freeSlots, kv, state>>
         /\ \E r \in Reqs : \E new :
              /\ r = Current /\ req[r].stage = "pending"
              /\ tree' = Unlock(tree, req[r].handle)
              /\ req' = [req EXCEPT ![r] = new]
              /\ new.stage = "pending" /\ new.handle = Root /\ new.row = <<>>
              /\ Alike(new, req[r])
<1>1. Typed /\ ListsOK /\ LengthsOK /\ req \in [Reqs -> ReqRecord]
  BY DEF IInv, Typed
<1>2. /\ pc = "slot" /\ SelectBatch
      /\ tree' = Unlock(tree, req[Current].handle)
      /\ req' = [req EXCEPT ![Current].handle = Root, ![Current].row = <<>>,
                            ![Current].stale = <<>>]
      /\ UNCHANGED <<inbox, running, finished, prepared, rows, freePages, freeSlots, kv, state>>
  BY DEF Starved, data
<1>3. Len(batch) < Len(pending) /\ req[Current].stage = "pending"
  BY <1>1, <1>2 DEF ListsOK, SlotOK
<1>4. PICK r \in Reqs : r = Current
  BY <1>1, <1>2, <1>3, CurrentWaits DEF Admitting
<1> DEFINE new == [req[r] EXCEPT !.handle = Root, !.row = <<>>, !.stale = <<>>]
<1>5. req' = [req EXCEPT ![r] = new]
  BY <1>1, <1>2, <1>4
<1>6. /\ new.stage = req[r].stage /\ new.handle = Root /\ new.row = <<>>
      /\ Alike(new, req[r])
  BY <1>1 DEF ReqRecord, Alike
<1> HIDE DEF new
<1>7. /\ pc = "slot" /\ SelectBatch /\ tree' = Unlock(tree, req[r].handle)
      /\ UNCHANGED <<inbox, running, finished, prepared, rows, freePages, freeSlots, kv, state>>
  BY <1>2, <1>4
<1> QED BY <1>3, <1>4, <1>5, <1>6, <1>7

(* A finished request is over; the tree has taken what it computed.          *)
LEMMA CleanupFacts ==
  ASSUME IInv, Cleanup
  PROVE  /\ pc = "cleanup" /\ pc' = "cleanup"
         /\ UNCHANGED <<inbox, pending, running, batch, chunked_list, prepared, kv, state>>
         /\ \E r \in finished, ids \in Seq(Vocab), n \in Nat : \E new :
              /\ r \in Live /\ ~ req[r].chunked /\ finished' = finished \ {r}
              /\ ids = SubSeq(req[r].ids, 1, req[r].cached)
              /\ Len(ids) = req[r].cached /\ Len(ids) <= Len(req[r].row)
              /\ n = IF CacheType = "naive" THEN Len(ids) ELSE Len(Matched(tree, ids))
              /\ n <= Len(ids)
              /\ tree' = IF CacheType = "naive" THEN tree
                         ELSE Unlock(Insert(tree, ids, req[r].row, req[r].slot), req[r].handle)
              /\ freePages' = freePages \o Duplicates(r, n)
              /\ rows' = Append(rows, LeftInRow(r))
              /\ req' = [req EXCEPT ![r] = new]
              /\ new.stage = "done" /\ new.slot = None /\ new.cached = 0 /\ new.chunked = FALSE
<1>1. Typed /\ ListsOK /\ LengthsOK /\ req \in [Reqs -> ReqRecord]
      /\ IsTree(tree, Vocab, Pages, Slots)
  BY DEF IInv, Typed
<1>2. PICK r \in finished :
        /\ pc = "cleanup" /\ FreeAndCache(r) /\ finished' = finished \ {r}
        /\ UNCHANGED <<inbox, pending, running, batch, chunked_list, prepared, kv, state, pc>>
  BY DEF Cleanup, adder, data
<1>3. r \in Live /\ r \in Reqs /\ ~ req[r].chunked
  BY <1>1, <1>2 DEF Typed, ListsOK, PlacesOK, Live
<1>4. PICK ids \in Seq(Vocab) :
        /\ ids = SubSeq(req[r].ids, 1, req[r].cached)
        /\ Len(ids) = req[r].cached /\ Len(ids) <= Len(req[r].row)
  <2>1. /\ req[r].ids \in Seq(Vocab) /\ req[r].cached \in Nat /\ Len(req[r].ids) \in Nat
        /\ req[r].cached <= Len(req[r].ids) /\ req[r].cached <= Len(req[r].row)
    BY <1>1, <1>3, ReqFields DEF LengthsOK, ReqLengths
  <2>2. req[r].cached \in 0..Len(req[r].ids)
    BY <2>1
  <2>3. LET s == SubSeq(req[r].ids, 1, req[r].cached)
        IN s \in Seq(Vocab) /\ Len(s) = req[r].cached
    BY <2>1, <2>2, FirstElements
  <2> QED BY <2>1, <2>3
<1>5. PICK n \in Nat : /\ n = IF CacheType = "naive" THEN Len(ids) ELSE Len(Matched(tree, ids))
                       /\ n <= Len(ids)
  <2>1. Matched(tree, ids) \in Seq(Vocab) /\ IsPrefix(Matched(tree, ids), ids)
    BY <1>1, MatchedIsLongest
  <2>2. Len(Matched(tree, ids)) <= Len(ids) /\ Len(Matched(tree, ids)) \in Nat /\ Len(ids) \in Nat
    BY <2>1, PrefixPointwise, LenProperties
  <2> QED BY <2>2
<1>6. /\ tree' = IF CacheType = "naive" THEN tree
                 ELSE Unlock(Insert(tree, ids, req[r].row, req[r].slot), req[r].handle)
      /\ freePages' = freePages \o Duplicates(r, n)
      /\ rows' = Append(rows, LeftInRow(r))
      /\ req' = [req EXCEPT ![r] = [NoReq EXCEPT !.stage = "done"]]
  BY <1>2, <1>4, <1>5 DEF FreeAndCache
<1>7. PICK new : /\ req' = [req EXCEPT ![r] = new]
                 /\ new.stage = "done" /\ new.slot = None /\ new.cached = 0 /\ new.chunked = FALSE
  BY <1>6, NoReqFields
<1>8. /\ tree' = IF CacheType = "naive" THEN tree
                  ELSE Unlock(Insert(tree, ids, req[r].row, req[r].slot), req[r].handle)
      /\ freePages' = freePages \o Duplicates(r, n) /\ rows' = Append(rows, LeftInRow(r))
  BY <1>6
<1>9. pc = "cleanup" /\ pc' = pc /\ finished' = finished \ {r}
      /\ UNCHANGED <<inbox, pending, running, batch, chunked_list, prepared, kv, state>>
  BY <1>2
<1>10. \E q \in finished, s \in Seq(Vocab), k \in Nat : \E x :
         /\ q \in Live /\ ~ req[q].chunked /\ finished' = finished \ {q}
         /\ s = SubSeq(req[q].ids, 1, req[q].cached)
         /\ Len(s) = req[q].cached /\ Len(s) <= Len(req[q].row)
         /\ k = IF CacheType = "naive" THEN Len(s) ELSE Len(Matched(tree, s))
         /\ k <= Len(s)
         /\ tree' = IF CacheType = "naive" THEN tree
                    ELSE Unlock(Insert(tree, s, req[q].row, req[q].slot), req[q].handle)
         /\ freePages' = freePages \o Duplicates(q, k)
         /\ rows' = Append(rows, LeftInRow(q))
         /\ req' = [req EXCEPT ![q] = x]
         /\ x.stage = "done" /\ x.slot = None /\ x.cached = 0 /\ x.chunked = FALSE
  <2> WITNESS r \in finished, ids \in Seq(Vocab), n \in Nat
  <2> WITNESS new
  <2> QED BY <1>3, <1>4, <1>5, <1>7, <1>8, <1>9
<1> QED BY <1>9, <1>10

-----------------------------------------------------------------------------
(* The locks of the scheduler's requests.                                   *)

Handles == [r \in Reqs |-> req[r].handle]

(* Every request that holds resources, and the one that waits for a slot,    *)
(* has its handle locked once; without prefix reuse there is only the root.  *)
LocksInv ==
  /\ CountsLocks(tree, Locked, Handles)
  /\ CacheType = "naive" => tree.nodes = {Root}

(* Only the handles of the requests that hold locks matter.                  *)
LEMMA SameLocks ==
  ASSUME NEW t, NEW L, NEW H, CountsLocks(t, L, H), NEW G, \A r \in L : G[r] = H[r]
  PROVE  CountsLocks(t, L, G)
<1>1. \A n : {r \in L : IsPrefix(n, G[r])} = {r \in L : IsPrefix(n, H[r])}
  OBVIOUS
<1> QED BY <1>1 DEF CountsLocks

(* Which requests hold locks.                                                *)
LEMMA LockedReqs ==
  ASSUME Settled
  PROVE  /\ Live \subseteq Reqs /\ Locked \subseteq Reqs
         /\ pc # "slot" => Locked = Live
         /\ pc = "slot" => /\ Current \in Reqs \ Live /\ req[Current].stage = "pending"
                           /\ Locked = Live \cup {Current}
<1>1. ASSUME pc = "slot"
      PROVE  Current \in Reqs \ Live /\ req[Current].stage = "pending"
  <2>1. Len(batch) < Len(pending) /\ req[Current].stage = "pending"
    BY <1>1 DEF Settled, IInv, ListsOK, SlotOK
  <2>2. Current \in Reqs
    BY <1>1, <2>1, CurrentWaits DEF Settled, IInv, Admitting
  <2> QED BY <2>1, <2>2 DEF Live
<1> QED BY <1>1 DEF Live, Locked

(* A step that leaves the tree, the holders of locks and their handles.      *)
LEMMA LocksStay ==
  ASSUME Settled, LocksInv, tree' = tree, Locked' = Locked,
         \A r \in Locked : req'[r].handle = req[r].handle
  PROVE  LocksInv'
<1>1. Locked \subseteq Reqs
  BY LockedReqs
<1>2. \A r \in Locked : Handles'[r] = Handles[r]
  BY <1>1 DEF Handles
<1>3. CountsLocks(tree, Locked, Handles')
  BY <1>2, SameLocks DEF LocksInv
<1> QED BY <1>3 DEF LocksInv

LEMMA InitLocks == Init => LocksInv
<1> SUFFICES ASSUME Init PROVE LocksInv
  OBVIOUS
<1>1. Live = {} /\ Locked = {}
  <2>1. \A r \in Reqs : req[r].stage = "new"
    BY DEF Init, NoReq
  <2> QED BY <2>1 DEF Live, Locked, Init
<1>2. tree.nodes = {Root} /\ tree.ref = [n \in {Root} |-> 1]
  BY DEF Init, EmptyTree
<1>3. IsFiniteSet({})
  BY FS_EmptySet
<1> QED BY <1>1, <1>2, <1>3 DEF LocksInv, CountsLocks

(* A new request or message locks nothing.                                   *)
LEMMA MessageLocks ==
  ASSUME IInv, LocksInv, (\E r \in Reqs : Submit(r)) \/ ProcessMsg
  PROVE  LocksInv'
<1>1. /\ pc = "recv" /\ pc' = "recv" /\ tree' = tree
      /\ \A q \in Reqs : req[q].stage = "live" \/ req'[q].stage = "live" => req'[q] = req[q]
  BY MessageFacts
<1>2. Live' = Live
  BY <1>1 DEF Live
<1>3. Locked = Live /\ Locked' = Live'
  BY <1>1 DEF Locked
<1>4. \A r \in Locked : req'[r].handle = req[r].handle
  BY <1>1, <1>3 DEF Live
<1> QED BY <1>1, <1>2, <1>3, <1>4, LocksStay, InvSettled

(* Steps that change no request and no cache keep who holds locks.           *)
LEMMA IdleLocked ==
  ASSUME Idles
  PROVE  Live' = Live /\ Locked' = Locked
<1>1. req' = req
  BY DEF Idles
<1>2. Live' = Live
  BY <1>1 DEF Live
<1>3. (pc # "slot" /\ pc' # "slot") \/ (pc' = pc /\ Current' = Current)
  BY DEF Idles, Current
<1> QED BY <1>2, <1>3 DEF Locked

LEMMA IdleLocks ==
  ASSUME Settled, LocksInv, Idles
  PROVE  LocksInv'
BY IdleLocked, LocksStay DEF Idles, cache

LEMMA TakeLocks ==
  ASSUME Settled, LocksInv, NEW r, NEW n, Takes(r, n)
  PROVE  LocksInv'
<1>1. /\ Live' = Live /\ \A q \in Reqs \ {r} : req'[q] = req[q]
      /\ req'[r].handle = req[r].handle
  BY TakenReq DEF Settled
<1>2. tree' = tree /\ pc # "slot" /\ pc' # "slot"
  BY DEF Takes
<1>3. Locked' = Locked /\ Locked \subseteq Reqs
  BY <1>1, <1>2, LockedReqs DEF Locked
<1>4. \A q \in Locked : req'[q].handle = req[q].handle
  BY <1>1, <1>3
<1> QED BY <1>2, <1>3, <1>4, LocksStay

(* A request that goes on with its prompt keeps its lock.                    *)
LEMMA ContinueLocks ==
  ASSUME IInv, LocksInv, ContinueChunk
  PROVE  LocksInv'
<1>1. pc = "admit" /\ pc' = "admit" /\ tree' = tree /\ req \in [Reqs -> ReqRecord]
  BY ContinueFacts DEF IInv, Typed
<1>2. PICK r \in Reqs : \E new :
        /\ req[r].stage = "live" /\ req' = [req EXCEPT ![r] = new]
        /\ new.stage = "live" /\ new.handle = req[r].handle
  BY ContinueFacts
<1>3. Live' = Live /\ \A q \in Live : req'[q].handle = req[q].handle
  BY <1>1, <1>2 DEF Live
<1>4. Locked = Live /\ Locked' = Live'
  BY <1>1 DEF Locked
<1> QED BY <1>1, <1>3, <1>4, LocksStay, InvSettled

(* A match locks its handle, or locks nothing.                               *)
LEMMA TryAllocateLocks ==
  ASSUME IInv, LocksInv, TryAllocate
  PROVE  LocksInv'
<1>1. pc = "admit" /\ req \in [Reqs -> ReqRecord]
  BY TryAllocateFacts DEF IInv, Typed
<1>2. PICK r \in Reqs, h \in Seq(Vocab) : \E walked :
        /\ r = Current /\ req[r].stage = "pending"
        /\ walked = MatchedTree(LookupIds(r))
        /\ IsTree(walked, Vocab, Pages, Slots) /\ h \in walked.nodes
        /\ \A L, H : CountsLocks(tree, L, H) => CountsLocks(walked, L, H)
        /\ \/ /\ tree' = Lock(walked, h) /\ pc' = "slot"
              /\ UNCHANGED <<pending, batch>>
              /\ \E new : /\ req' = [req EXCEPT ![r] = new]
                          /\ new.stage = "pending" /\ new.handle = h
           \/ tree' = walked /\ SelectBatch /\ UNCHANGED req
  BY TryAllocateFacts
<1>3. PICK walked :
        /\ r = Current /\ req[r].stage = "pending"
        /\ walked = MatchedTree(LookupIds(r))
        /\ IsTree(walked, Vocab, Pages, Slots) /\ h \in walked.nodes
        /\ \A L, H : CountsLocks(tree, L, H) => CountsLocks(walked, L, H)
        /\ \/ /\ tree' = Lock(walked, h) /\ pc' = "slot"
              /\ UNCHANGED <<pending, batch>>
              /\ \E new : /\ req' = [req EXCEPT ![r] = new]
                          /\ new.stage = "pending" /\ new.handle = h
           \/ tree' = walked /\ SelectBatch /\ UNCHANGED req
  BY <1>2
<1>4. Locked = Live /\ r \notin Live /\ Live \subseteq Reqs
  BY <1>1, <1>3, LockedReqs, InvSettled DEF Live
<1>5. CountsLocks(walked, Live, Handles)
  BY <1>3, <1>4 DEF LocksInv
<1>6. CacheType = "naive" => walked.nodes = {Root}
  BY <1>3 DEF LocksInv, MatchedTree
<1>7. CASE tree' = Lock(walked, h) /\ pc' = "slot" /\ UNCHANGED <<pending, batch>>
           /\ \E new : /\ req' = [req EXCEPT ![r] = new]
                       /\ new.stage = "pending" /\ new.handle = h
  <2>1. PICK new : /\ req' = [req EXCEPT ![r] = new]
                   /\ new.stage = "pending" /\ new.handle = h
    BY <1>7
  <2>2. Live' = Live /\ Current' = r
    BY <1>1, <1>3, <1>4, <1>7, <2>1 DEF Live, Current
  <2>3. Locked' = Live \cup {r}
    BY <1>7, <2>2 DEF Locked
  <2>4. Handles'[r] = h /\ \A q \in Live : Handles'[q] = Handles[q]
    BY <1>1, <1>4, <2>1 DEF Handles
  <2>5. CountsLocks(Lock(walked, h), Live \cup {r}, Handles')
    BY <1>3, <1>4, <1>5, <2>4, LockLocks
  <2>6. Lock(walked, h).nodes = walked.nodes
    BY <1>3, LockResult
  <2> QED BY <1>6, <1>7, <2>3, <2>5, <2>6 DEF LocksInv
<1>8. CASE tree' = walked /\ SelectBatch /\ UNCHANGED req
  <2>1. Live' = Live /\ Handles' = Handles
    BY <1>8 DEF Live, Handles
  <2>2. Locked' = Live
    BY <1>8, <2>1 DEF SelectBatch, Locked
  <2> QED BY <1>5, <1>6, <1>8, <2>1, <2>2 DEF LocksInv
<1> QED BY <1>3, <1>7, <1>8

(* The admitted request keeps the lock it waited with.                       *)
LEMMA AdmitLocks ==
  ASSUME IInv, LocksInv, AdmitWithoutSlot \/ AdmitWithFreeSlot \/ AdmitWithShedSlot
  PROVE  LocksInv'
<1>1. /\ pc = "slot" /\ pc' = "admit" /\ req \in [Reqs -> ReqRecord]
      /\ tree'.nodes = tree.nodes /\ tree'.ref = tree.ref
  BY AdmitFacts DEF IInv, Typed
<1>2. PICK new : /\ req' = [req EXCEPT ![Current] = new]
                 /\ new.stage = "live" /\ new.handle = req[Current].handle
  BY AdmitFacts
<1>3. Current \in Reqs /\ Locked = Live \cup {Current} /\ Live \subseteq Reqs
  BY <1>1, LockedReqs, InvSettled
<1>4. Live' = Live \cup {Current} /\ Handles' = Handles
  BY <1>1, <1>2, <1>3 DEF Live, Handles
<1>5. Locked' = Live'
  BY <1>1 DEF Locked
<1>6. CountsLocks(tree', Locked, Handles)
  BY <1>1, SameRefs DEF LocksInv
<1> QED BY <1>1, <1>3, <1>4, <1>5, <1>6 DEF LocksInv

(* Eviction takes a leaf that nobody has locked.                             *)
LEMMA EvictLocks ==
  ASSUME Settled, LocksInv, Evicts
  PROVE  LocksInv'
<1>1. PICK n \in UnlockedLeaves(tree) : tree' = RemoveLeaf(tree, n)
  BY EvictFacts
<1>2. IsTree(tree, Vocab, Pages, Slots)
  BY DEF Settled, Typed
<1>3. Locked' = Locked /\ Handles' = Handles
  BY EvictFacts DEF Locked, Live, Current, Handles
<1>4. CountsLocks(tree', Locked, Handles)
  BY <1>1, <1>2, RemoveLeafLocks DEF LocksInv
<1>5. tree'.nodes = tree.nodes \ {n} /\ n \in tree.nodes /\ n # Root
  BY <1>1, <1>2, RemoveLeafFields
<1> QED BY <1>3, <1>4, <1>5 DEF LocksInv

(* A request that gets no slot gives its lock back.                          *)
LEMMA StarvedLocks ==
  ASSUME IInv, LocksInv, Starved
  PROVE  LocksInv'
<1>1. /\ pc = "slot" /\ req \in [Reqs -> ReqRecord] /\ CacheType = "hybrid" /\ SelectBatch
      /\ IsTree(tree, Vocab, Pages, Slots)
  BY DEF Starved, IInv, Typed
<1>2. PICK new : /\ req' = [req EXCEPT ![Current] = new] /\ new.stage = "pending"
                 /\ tree' = Unlock(tree, req[Current].handle)
  BY StarvedFacts
<1>3. /\ Current \in Reqs \ Live /\ req[Current].stage = "pending"
      /\ Locked = Live \cup {Current} /\ Live \subseteq Reqs
  BY <1>1, LockedReqs, InvSettled
<1>4. Live' = Live
  BY <1>1, <1>2, <1>3 DEF Live
<1>5. Locked' = Locked \ {Current}
  BY <1>1, <1>3, <1>4 DEF Locked, SelectBatch
<1>6. Handles[Current] = req[Current].handle /\ \A q \in Live : Handles'[q] = Handles[q]
  BY <1>1, <1>2, <1>3 DEF Handles
<1>7. CountsLocks(tree', Locked \ {Current}, Handles')
  BY <1>1, <1>2, <1>3, <1>6, UnlockLocks DEF LocksInv
<1> QED BY <1>1, <1>5, <1>7 DEF LocksInv

(* A finished request gives its lock back once the tree has its pages.       *)
LEMMA CleanupLocks ==
  ASSUME IInv, LocksInv, Cleanup
  PROVE  LocksInv'
<1>1. /\ req \in [Reqs -> ReqRecord] /\ IsTree(tree, Vocab, Pages, Slots)
      /\ pc = "cleanup" /\ pc' = "cleanup"
  BY CleanupFacts DEF IInv, Typed
<1>2. PICK r \in finished, ids \in Seq(Vocab) :
        /\ r \in Live /\ Len(ids) <= Len(req[r].row)
        /\ tree' = IF CacheType = "naive" THEN tree
                   ELSE Unlock(Insert(tree, ids, req[r].row, req[r].slot), req[r].handle)
        /\ \E new : req' = [req EXCEPT ![r] = new] /\ new.stage = "done"
  BY CleanupFacts
<1>3. PICK new : req' = [req EXCEPT ![r] = new] /\ new.stage = "done"
  BY <1>2
<1>4. Locked = Live /\ Live \subseteq Reqs /\ r \in Reqs
  BY <1>1, <1>2, LockedReqs, InvSettled
<1>5. Live' = Live \ {r}
  BY <1>1, <1>3, <1>4 DEF Live
<1>6. Locked' = Locked \ {r}
  BY <1>1, <1>4, <1>5 DEF Locked
<1>7. Handles[r] = req[r].handle /\ \A q \in Locked \ {r} : Handles'[q] = Handles[q]
  BY <1>1, <1>3, <1>4 DEF Handles
<1>8. CASE CacheType = "naive"
  <2>1. tree' = tree /\ tree.nodes = {Root} /\ tree.ref[Root] = 1
    BY <1>1, <1>2, <1>8 DEF LocksInv, IsTree
  <2>2. IsFiniteSet(Locked) /\ \A q \in Locked : Handles[q] \in {Root}
    BY <2>1 DEF LocksInv, CountsLocks
  <2>3. IsFiniteSet(Locked \ {r})
    BY <2>2, FS_RemoveElement
  <2> QED BY <1>6, <1>7, <2>1, <2>2, <2>3 DEF LocksInv, CountsLocks
<1>9. CASE CacheType # "naive"
  <2>1. PICK row \in Seq(Pages), slot \in Slots \cup {None} :
          row = req[r].row /\ slot = req[r].slot
    BY <1>1, <1>4, ReqFields
  <2> DEFINE u == Insert(tree, ids, row, slot)
  <2>2. tree' = Unlock(u, Handles[r])
    BY <1>2, <1>7, <1>9, <2>1
  <2>3. IsTree(u, Vocab, Pages, Slots)
    <3>1. Len(ids) <= Len(row)
      BY <1>2, <2>1
    <3> QED BY <1>1, <3>1, InsertResult
  <2>4. CountsLocks(u, Locked, Handles)
    BY <1>1, InsertPages DEF LocksInv
  <2> HIDE DEF u
  <2>5. r \in Locked
    BY <1>2, <1>4
  <2>6. CountsLocks(Unlock(u, Handles[r]), Locked \ {r}, Handles')
    BY <1>7, <2>3, <2>4, <2>5, UnlockLocks
  <2> QED BY <1>6, <1>9, <2>2, <2>6 DEF LocksInv
<1> QED BY <1>8, <1>9

LEMMA CoreLocks ==
  ASSUME IInv, LocksInv, CoreStep
  PROVE  LocksInv'
<1>1. CASE StartStep \/ StopAdmission \/ EndStep \/ RunWhenIdle
  BY <1>1, IdleSteps, InvSettled, IdleLocks
<1>2. CASE EvictForSlot
  BY <1>2, EvictForSlotEvicts, InvSettled, EvictLocks
<1> QED BY <1>1, <1>2, MessageLocks, ContinueLocks, TryAllocateLocks, StarvedLocks, CleanupLocks,
           AdmitLocks DEF CoreStep, Select

-----------------------------------------------------------------------------
(* What a handle is a prefix of.                                            *)

(* A request's handle ends where it has computed already, on its own tokens, *)
(* and as long as its prompt is not through, these are the prompt's.         *)
HandleFits(x) ==
  /\ Len(x.handle) <= x.cached
  /\ IsPrefix(x.handle, x.ids)
  /\ x.chunked => IsPrefix(x.ids, x.prompt)

HandlesFit ==
  /\ \A r \in Live : HandleFits(req[r])
  /\ pc = "slot" => IsPrefix(req[Current].handle, req[Current].prompt)

(* The first tokens of a prompt, and a shorter prefix of it.                 *)
LEMMA HandleOfPrompt ==
  ASSUME NEW p \in Seq(Vocab), NEW h \in Seq(Vocab), IsPrefix(h, p),
         NEW n \in Len(h)..Len(p)
  PROVE  IsPrefix(h, SubSeq(p, 1, n)) /\ IsPrefix(SubSeq(p, 1, n), p)
<1>1. Len(h) \in Nat /\ Len(p) \in Nat
  BY LenProperties
<1>2. n \in 0..Len(p) /\ Len(h) <= n
  BY <1>1
<1> DEFINE q == SubSeq(p, 1, n)
<1>3. q \in Seq(Vocab) /\ Len(q) = n /\ IsPrefix(q, p)
  BY <1>2, FirstElements, SubSeqIsPrefix
<1> HIDE DEF q
<1>4. IsPrefix(h, q)
  BY <1>2, <1>3, PrefixesNested
<1> QED BY <1>3, <1>4 DEF q

(* A request with new tokens at the end of those it had.                     *)
LEMMA PrefixOfLonger ==
  ASSUME NEW s \in Seq(Vocab), NEW h \in Seq(Vocab), IsPrefix(h, s), NEW v \in Vocab
  PROVE  IsPrefix(h, Append(s, v))
<1>1. Len(h) \in Nat /\ Len(s) \in Nat
  BY LenProperties
<1> DEFINE t == Append(s, v)
<1>2. /\ t \in Seq(Vocab) /\ Len(t) = Len(s) + 1
      /\ \A i \in 1..Len(s) : t[i] = s[i]
  OBVIOUS
<1> HIDE DEF t
<1>3. Len(h) <= Len(s) /\ \A i \in 1..Len(h) : h[i] = s[i]
  BY PrefixPointwise
<1>4. Len(h) <= Len(t) /\ \A i \in 1..Len(h) : h[i] = t[i]
  BY <1>1, <1>2, <1>3
<1>5. IsPrefix(h, t)
  BY <1>2, <1>4, PrefixPointwise
<1> QED BY <1>5 DEF t

LEMMA InitHandles == Init => HandlesFit
BY DEF Init, NoReq, HandlesFit, Live

(* Steps that change no live request and do not go on to wait for a slot.    *)
LEMMA HandlesStay ==
  ASSUME HandlesFit, pc' # "slot", \A r \in Live' : r \in Live /\ req'[r] = req[r]
  PROVE  HandlesFit'
BY DEF HandlesFit, HandleFits

LEMMA QuietHandles ==
  ASSUME IInv, HandlesFit, (\E r \in Reqs : Submit(r)) \/ ProcessMsg \/ Starved \/ Cleanup
  PROVE  HandlesFit'
<1>1. req \in [Reqs -> ReqRecord]
  BY DEF IInv, Typed
<1>2. CASE (\E r \in Reqs : Submit(r)) \/ ProcessMsg
  BY <1>2, MessageFacts, HandlesStay DEF Live
<1>3. CASE Starved
  <2>1. PICK r \in Reqs : \E new : req' = [req EXCEPT ![r] = new] /\ new.stage = "pending"
    BY <1>3, StarvedFacts
  <2>2. pc' # "slot"
    BY <1>3 DEF Starved, SelectBatch
  <2> QED BY <1>1, <2>1, <2>2, HandlesStay DEF Live
<1>4. CASE Cleanup
  <2>1. PICK r \in Reqs : \E new : req' = [req EXCEPT ![r] = new] /\ new.stage = "done"
    BY <1>4, CleanupFacts DEF Live
  <2>2. pc' # "slot"
    BY <1>4, CleanupFacts
  <2> QED BY <1>1, <2>1, <2>2, HandlesStay DEF Live
<1> QED BY <1>2, <1>3, <1>4

LEMMA IdleHandles ==
  ASSUME HandlesFit, Idles
  PROVE  HandlesFit'
<1>1. CASE pc' # "slot"
  BY <1>1, HandlesStay DEF Idles, Live
<1>2. CASE UNCHANGED <<pc, batch, pending>>
  BY <1>2 DEF Idles, HandlesFit, HandleFits, Live, Current
<1> QED BY <1>1, <1>2 DEF Idles

LEMMA EvictHandles ==
  ASSUME HandlesFit, Evicts
  PROVE  HandlesFit'
BY EvictFacts DEF HandlesFit, HandleFits, Live, Current

LEMMA TakeHandles ==
  ASSUME Settled, HandlesFit, NEW r, NEW n, Takes(r, n)
  PROVE  HandlesFit'
<1>1. /\ Live' = Live /\ r \in Live /\ Live \subseteq Reqs /\ \A q \in Reqs \ {r} : req'[q] = req[q]
      /\ req'[r].handle = req[r].handle /\ Alike(req'[r], req[r])
  BY TakenReq DEF Settled, Live
<1>2. pc' # "slot"
  BY DEF Takes
<1>3. HandleFits(req'[r])
  BY <1>1 DEF HandlesFit, HandleFits, Alike
<1>4. \A q \in Live' : HandleFits(req'[q])
  BY <1>1, <1>3 DEF HandlesFit
<1> QED BY <1>2, <1>4 DEF HandlesFit, HandleFits

(* What admission makes of a request's handle.                               *)
LEMMA AdmissionHandles ==
  ASSUME IInv, HandlesFit,
         \/ TryAllocate \/ ContinueChunk
         \/ AdmitWithoutSlot \/ AdmitWithFreeSlot \/ AdmitWithShedSlot
  PROVE  HandlesFit'
<1>1. req \in [Reqs -> ReqRecord]
  BY DEF IInv, Typed
<1>2. CASE TryAllocate
  <2>1. PICK r \in Reqs, h \in Seq(Vocab) :
          /\ r = Current /\ req[r].stage = "pending" /\ IsPrefix(h, req[r].prompt)
          /\ \/ /\ pc' = "slot" /\ UNCHANGED <<pending, batch>>
                /\ \E new : /\ req' = [req EXCEPT ![r] = new]
                            /\ new.stage = "pending" /\ new.handle = h
                            /\ new.prompt = req[r].prompt
             \/ SelectBatch /\ UNCHANGED req
    BY <1>2, TryAllocateFacts DEF Alike
  <2>2. CASE SelectBatch /\ UNCHANGED req
    <3>1. pc' # "slot"
      BY <2>2 DEF SelectBatch
    <3> QED BY <2>2, <3>1, HandlesStay DEF Live
  <2>3. CASE /\ pc' = "slot" /\ UNCHANGED <<pending, batch>>
             /\ \E new : /\ req' = [req EXCEPT ![r] = new]
                         /\ new.stage = "pending" /\ new.handle = h
                         /\ new.prompt = req[r].prompt
    <3>1. Current' = r /\ req'[r].handle = h /\ req'[r].prompt = req[r].prompt
      BY <1>1, <2>1, <2>3 DEF Current
    <3>2. \A q \in Live' : q \in Live /\ req'[q] = req[q]
      BY <1>1, <2>1, <2>3 DEF Live
    <3> QED BY <2>1, <3>1, <3>2 DEF HandlesFit, HandleFits
  <2> QED BY <2>1, <2>2, <2>3
<1>3. CASE ContinueChunk
  <2>1. PICK r \in Reqs : \E new, total :
          /\ req[r].stage = "live" /\ req[r].chunked
          /\ total \in req[r].cached..InputLen(r)
          /\ req' = [req EXCEPT ![r] = new]
          /\ new.cached = req[r].cached
          /\ new.ids = SubSeq(req[r].prompt, 1, total)
          /\ new.prompt = req[r].prompt /\ new.handle = req[r].handle
    BY <1>3, ContinueFacts
  <2>2. PICK new, total :
          /\ req[r].stage = "live" /\ req[r].chunked
          /\ total \in req[r].cached..InputLen(r)
          /\ req' = [req EXCEPT ![r] = new]
          /\ new.cached = req[r].cached
          /\ new.ids = SubSeq(req[r].prompt, 1, total)
          /\ new.prompt = req[r].prompt /\ new.handle = req[r].handle
    BY <2>1
  <2>3. PICK p \in Seq(Vocab), h \in Seq(Vocab), ids \in Seq(Vocab), c \in Nat :
          p = req[r].prompt /\ h = req[r].handle /\ ids = req[r].ids /\ c = req[r].cached
    BY <1>1, ReqFields
  <2>4. Len(h) <= c /\ IsPrefix(h, ids) /\ IsPrefix(ids, p)
    BY <2>2, <2>3 DEF HandlesFit, HandleFits, Live
  <2>5. IsPrefix(h, p)
    BY <2>4, PrefixTransitive
  <2>6. total \in Len(h)..Len(p)
    <3>1. Len(h) \in Nat /\ Len(p) \in Nat /\ total \in c..Len(p)
      BY <2>2, <2>3, LenProperties DEF InputLen
    <3> QED BY <2>4, <3>1
  <2>7. IsPrefix(h, SubSeq(p, 1, total)) /\ IsPrefix(SubSeq(p, 1, total), p)
    BY <2>5, <2>6, HandleOfPrompt
  <2>8. req'[r] = new /\ \A q \in Reqs \ {r} : req'[q] = req[q]
    BY <1>1, <2>2
  <2>9. HandleFits(new)
    BY <2>2, <2>3, <2>4, <2>7 DEF HandleFits
  <2>10. pc' # "slot" /\ \A q \in Live' \ {r} : q \in Live /\ req'[q] = req[q]
    BY <1>3, <2>8, ContinueFacts DEF Live
  <2> QED BY <2>8, <2>9, <2>10 DEF HandlesFit, HandleFits
<1>4. CASE AdmitWithoutSlot \/ AdmitWithFreeSlot \/ AdmitWithShedSlot
  <2>1. PICK r \in Reqs : \E new, total :
          /\ r = Current
          /\ total \in Len(req[r].handle)..InputLen(r)
          /\ req' = [req EXCEPT ![r] = new]
          /\ new.cached = Len(req[r].handle)
          /\ new.ids = SubSeq(req[r].prompt, 1, total)
          /\ new.prompt = req[r].prompt /\ new.handle = req[r].handle
    BY <1>4, AdmitFacts
  <2>2. PICK new, total :
          /\ r = Current
          /\ total \in Len(req[r].handle)..InputLen(r)
          /\ req' = [req EXCEPT ![r] = new]
          /\ new.cached = Len(req[r].handle)
          /\ new.ids = SubSeq(req[r].prompt, 1, total)
          /\ new.prompt = req[r].prompt /\ new.handle = req[r].handle
    BY <2>1
  <2>3. PICK p \in Seq(Vocab), h \in Seq(Vocab) : p = req[r].prompt /\ h = req[r].handle
    BY <1>1, ReqFields
  <2>4. IsPrefix(h, p)
    BY <1>4, <2>2, <2>3, AdmitFacts DEF HandlesFit
  <2>5. total \in Len(h)..Len(p)
    BY <2>2, <2>3 DEF InputLen
  <2>6. IsPrefix(h, SubSeq(p, 1, total)) /\ IsPrefix(SubSeq(p, 1, total), p)
    BY <2>4, <2>5, HandleOfPrompt
  <2>7. req'[r] = new /\ \A q \in Reqs \ {r} : req'[q] = req[q]
    BY <1>1, <2>2
  <2>8. HandleFits(new)
    <3>1. Len(h) \in Nat /\ Len(h) <= Len(h)
      BY LenProperties
    <3> QED BY <2>2, <2>3, <2>6, <3>1 DEF HandleFits
  <2>9. pc' # "slot" /\ \A q \in Live' \ {r} : q \in Live /\ req'[q] = req[q]
    BY <1>4, <2>7, AdmitFacts DEF Live
  <2> QED BY <2>7, <2>8, <2>9 DEF HandlesFit, HandleFits
<1> QED BY <1>2, <1>3, <1>4

LEMMA CoreHandles ==
  ASSUME IInv, HandlesFit, CoreStep
  PROVE  HandlesFit'
<1>1. CASE StartStep \/ StopAdmission \/ EndStep \/ RunWhenIdle
  BY <1>1, IdleSteps, IdleHandles
<1>2. CASE EvictForSlot
  BY <1>2, EvictForSlotEvicts, EvictHandles
<1> QED BY <1>1, <1>2, QuietHandles, AdmissionHandles DEF CoreStep, Select

-----------------------------------------------------------------------------
(* Where handles point.                                                     *)

(* A locked handle is cached in the pages of its request's row.              *)
Pinned == \A r \in Locked : Points(tree, req[r].handle, req[r].row)

LEMMA InitPinned == Init => Pinned
<1> SUFFICES ASSUME Init PROVE Pinned
  OBVIOUS
<1>1. \A r \in Reqs : req[r].stage = "new"
  BY DEF Init, NoReq
<1> QED BY <1>1 DEF Pinned, Live, Locked, Init

(* Steps that keep the cached pages, and what every lock's holder has.       *)
LEMMA PinnedStay ==
  ASSUME Pinned, tree'.page = tree.page,
         \A r \in Locked' : /\ r \in Locked
                            /\ req'[r].handle = req[r].handle /\ req'[r].row = req[r].row
  PROVE  Pinned'
BY DEF Pinned, Points

LEMMA IdlePinned ==
  ASSUME Pinned, Idles
  PROVE  Pinned'
BY IdleLocked, PinnedStay DEF Idles, cache

LEMMA QuietPinned ==
  ASSUME IInv, Pinned,
         \/ (\E r \in Reqs : Submit(r)) \/ ProcessMsg \/ ContinueChunk \/ Starved
         \/ AdmitWithoutSlot \/ AdmitWithFreeSlot \/ AdmitWithShedSlot
  PROVE  Pinned'
<1>1. req \in [Reqs -> ReqRecord] /\ IsTree(tree, Vocab, Pages, Slots)
  BY DEF IInv, Typed
<1>2. CASE (\E r \in Reqs : Submit(r)) \/ ProcessMsg
  <2>1. /\ pc = "recv" /\ pc' = "recv" /\ tree' = tree
        /\ \A q \in Live' : q \in Live /\ req'[q] = req[q]
    BY <1>2, MessageFacts DEF Live
  <2>2. Locked = Live /\ Locked' = Live'
    BY <2>1 DEF Locked
  <2> QED BY <2>1, <2>2, PinnedStay
<1>4. CASE ContinueChunk
  <2>1. PICK r \in Reqs : \E new :
          /\ req[r].stage = "live" /\ req' = [req EXCEPT ![r] = new]
          /\ new.handle = req[r].handle /\ new.row = req[r].row
    BY <1>4, ContinueFacts
  <2>2. pc = "admit" /\ pc' = "admit" /\ tree' = tree
    BY <1>4, ContinueFacts
  <2>3. \A q \in Locked' : /\ q \in Locked
                           /\ req'[q].handle = req[q].handle /\ req'[q].row = req[q].row
    BY <1>1, <2>1, <2>2 DEF Locked, Live
  <2> QED BY <2>2, <2>3, PinnedStay
<1>5. CASE AdmitWithoutSlot \/ AdmitWithFreeSlot \/ AdmitWithShedSlot
  <2>1. PICK r \in Reqs : \E new :
          /\ r = Current /\ req' = [req EXCEPT ![r] = new]
          /\ new.handle = req[r].handle /\ new.row = req[r].row
    BY <1>5, AdmitFacts
  <2>2. pc = "slot" /\ pc' = "admit" /\ tree'.page = tree.page
    BY <1>5, AdmitFacts
  <2>3. Locked = Live \cup {r} /\ Locked' = Live'
    BY <2>1, <2>2, LockedReqs, InvSettled DEF Locked
  <2>4. \A q \in Locked' : /\ q \in Locked
                           /\ req'[q].handle = req[q].handle /\ req'[q].row = req[q].row
    BY <1>1, <2>1, <2>3 DEF Live
  <2> QED BY <2>2, <2>4, PinnedStay
<1>6. CASE Starved
  <2>1. PICK r \in Reqs : \E new :
          /\ tree' = Unlock(tree, req[r].handle)
          /\ req' = [req EXCEPT ![r] = new] /\ new.stage = "pending"
    BY <1>6, StarvedFacts
  <2>2. pc' # "slot"
    BY <1>6 DEF Starved, SelectBatch
  <2>3. tree'.page = tree.page
    BY <1>1, <2>1, UnlockResult
  <2>4. \A q \in Locked' : q \in Locked /\ req'[q] = req[q]
    BY <1>1, <2>1, <2>2 DEF Locked, Live
  <2> QED BY <2>3, <2>4, PinnedStay
<1> QED BY <1>2, <1>4, <1>5, <1>6

(* The row of the request that is looked up points to its prefix.            *)
RowOfCurrent ==
  \A i \in 1..Len(req[Current].handle) :
    req[Current].row[i] = tree.page[SubSeq(req[Current].handle, 1, i)]

(* What the assignment page_entry[:] = match_indices is there for: whoever is *)
(* looked up has a row that points to the prefix found, if one is found.     *)
RowAssigned == pc = "admit" /\ pc' = "slot" => RowOfCurrent'

(* It does so when assigning to a slice writes through to the array, and     *)
(* when there is no cache to find a prefix in.                               *)
LEMMA TryAllocateAssigns ==
  ASSUME SliceIsView \/ CacheType = "naive", IInv, TryAllocate
  PROVE  RowAssigned
<1> SUFFICES ASSUME pc' = "slot" PROVE RowOfCurrent'
  BY DEF RowAssigned
<1> DEFINE h == MatchedHandle(LookupIds(Current))
           locked == Lock(MatchedTree(LookupIds(Current)), h)
<1>1. /\ tree' = locked /\ UNCHANGED <<pending, batch>>
      /\ req' = [req EXCEPT ![Current].handle = h, ![Current].row = MatchedRow(locked, h),
                            ![Current].stale = Last(rows)]
  BY DEF TryAllocate, SelectBatch
<1>2. Current \in Reqs /\ req \in [Reqs -> ReqRecord]
  BY TryAllocateFacts DEF IInv, Typed
<1>3. Current' = Current
  BY <1>1 DEF Current
<1> HIDE DEF h, locked
<1>4. req'[Current].handle = h /\ req'[Current].row = MatchedRow(tree', h)
  BY <1>1, <1>2
<1>5. CASE SliceIsView
  BY <1>3, <1>4, <1>5 DEF RowOfCurrent, MatchedRow, PagesOf
<1>6. CASE CacheType = "naive"
  <2>1. h = Root
    BY <1>6 DEF h, MatchedHandle
  <2>2. Len(h) = 0
    BY <2>1 DEF Root
  <2>3. 1..Len(h) = {}
    BY <2>2
  <2> QED BY <1>3, <1>4, <2>3 DEF RowOfCurrent
<1> QED BY <1>5, <1>6

(* The row of a match points to the pages it found.                          *)
LEMMA TryAllocatePinned ==
  ASSUME IInv, Pinned, RowAssigned, TryAllocate
  PROVE  Pinned'
<1>1. req \in [Reqs -> ReqRecord] /\ pc = "admit"
  BY TryAllocateFacts DEF IInv, Typed
<1>2. PICK r \in Reqs, h \in Seq(Vocab) : \E walked :
        /\ r = Current /\ req[r].stage = "pending"
        /\ IsTree(walked, Vocab, Pages, Slots) /\ h \in walked.nodes
        /\ walked.page = tree.page
        /\ \/ /\ tree' = Lock(walked, h) /\ pc' = "slot" /\ UNCHANGED <<pending, batch>>
              /\ \E new : /\ req' = [req EXCEPT ![r] = new]
                          /\ new.stage = "pending" /\ new.handle = h
                          /\ new.row = MatchedRow(tree', h)
           \/ tree' = walked /\ SelectBatch /\ UNCHANGED req
  BY TryAllocateFacts
<1>3. PICK walked :
        /\ r = Current /\ req[r].stage = "pending"
        /\ IsTree(walked, Vocab, Pages, Slots) /\ h \in walked.nodes
        /\ walked.page = tree.page
        /\ \/ /\ tree' = Lock(walked, h) /\ pc' = "slot" /\ UNCHANGED <<pending, batch>>
              /\ \E new : /\ req' = [req EXCEPT ![r] = new]
                          /\ new.stage = "pending" /\ new.handle = h
                          /\ new.row = MatchedRow(tree', h)
           \/ tree' = walked /\ SelectBatch /\ UNCHANGED req
  BY <1>2
<1>4. CASE tree' = walked /\ SelectBatch /\ UNCHANGED req
  <2>1. \A q \in Locked' : q \in Locked /\ req'[q] = req[q]
    BY <1>4 DEF SelectBatch, Locked, Live
  <2> QED BY <1>3, <1>4, <2>1, PinnedStay
<1>5. CASE /\ tree' = Lock(walked, h) /\ pc' = "slot" /\ UNCHANGED <<pending, batch>>
           /\ \E new : /\ req' = [req EXCEPT ![r] = new]
                       /\ new.stage = "pending" /\ new.handle = h
                       /\ new.row = MatchedRow(tree', h)
  <2>1. tree'.page = tree.page
    BY <1>3, <1>5, LockResult
  <2>2. /\ req'[r].handle = h
        /\ \A q \in Reqs \ {r} : req'[q] = req[q]
    BY <1>1, <1>5
  <2>3. Current' = r /\ \A q \in Live' : q \in Live /\ q # r
    BY <1>1, <1>3, <1>5 DEF Current, Live
  <2>4. Points(tree', h, req'[r].row)
    <3>1. \A i \in 1..Len(h) : SubSeq(h, 1, i) \in DOMAIN tree'.page
      <4>1. ASSUME NEW i \in 1..Len(h) PROVE SubSeq(h, 1, i) \in DOMAIN walked.page
        <5> DEFINE q == SubSeq(h, 1, i)
        <5>1. i \in 0..Len(h) /\ i > 0
          BY LenProperties
        <5>2. q \in Seq(Vocab) /\ Len(q) = i /\ IsPrefix(q, h)
          BY <5>1, FirstElements, SubSeqIsPrefix
        <5> HIDE DEF q
        <5>3. q # Root
          BY <5>1, <5>2, RootIsPrefix
        <5>4. q \in DOMAIN walked.page
          BY <1>3, <5>2, <5>3 DEF IsTree, Closed
        <5> QED BY <5>4 DEF q
      <4> QED BY <1>3, <2>1, <4>1
    <3>2. \A i \in 1..Len(h) : req'[r].row[i] = tree'.page[SubSeq(h, 1, i)]
      BY <1>1, <1>5, <2>2, <2>3 DEF RowAssigned, RowOfCurrent
    <3> QED BY <2>2, <3>1, <3>2 DEF Points
  <2>5. \A q \in Live' : Points(tree', req'[q].handle, req'[q].row)
    BY <2>1, <2>2, <2>3 DEF Pinned, Points, Locked, Live
  <2> QED BY <2>2, <2>3, <2>4, <2>5 DEF Pinned, Locked
<1> QED BY <1>3, <1>4, <1>5

(* Eviction leaves what is locked, and all that leads to it.                 *)
LEMMA EvictPinned ==
  ASSUME Settled, LocksInv, Pinned, Evicts
  PROVE  Pinned'
<1>1. IsTree(tree, Vocab, Pages, Slots)
  BY DEF Settled, Typed
<1>2. PICK n \in UnlockedLeaves(tree) : tree' = RemoveLeaf(tree, n)
  BY EvictFacts
<1>3. Locked' = Locked /\ req' = req
  BY EvictFacts DEF Locked, Live, Current
<1>4. ASSUME NEW r \in Locked
      PROVE  Points(tree', req[r].handle, req[r].row)
  <2>1. /\ Handles[r] = req[r].handle /\ req[r].handle \in tree.nodes
        /\ req[r].handle \in Seq(Vocab)
    BY <1>1, LockedReqs DEF LocksInv, CountsLocks, Handles, IsTree
  <2>2. req[r].handle # n
    <3>1. IsPrefix(req[r].handle, req[r].handle)
      BY <2>1, RootIsPrefix
    <3>2. tree.ref[req[r].handle] # 0
      BY <2>1, <3>1, LockedNodeCounts DEF LocksInv
    <3> QED BY <3>2 DEF UnlockedLeaves
  <2>3. Points(tree, req[r].handle, req[r].row)
    BY DEF Pinned
  <2> QED BY <1>1, <1>2, <2>1, <2>2, <2>3, RemoveLeafPoints
<1> QED BY <1>3, <1>4 DEF Pinned

(* Rows that keep what is computed still point to what is cached.            *)
LEMMA PinnedBehind ==
  ASSUME Settled, HandlesFit, Pinned, pc # "slot", pc' # "slot", tree'.page = tree.page,
         \A q \in Live' : /\ q \in Live /\ req'[q].handle = req[q].handle
                          /\ \A i \in 1..req[q].cached : req'[q].row[i] = req[q].row[i]
  PROVE  Pinned'
<1> SUFFICES ASSUME NEW q \in Live' PROVE Points(tree', req'[q].handle, req'[q].row)
  BY DEF Pinned, Locked
<1>1. q \in Live /\ q \in Locked /\ q \in Reqs
  BY DEF Locked, Live
<1>2. Points(tree, req[q].handle, req[q].row)
  BY <1>1 DEF Pinned
<1>3. /\ Len(req[q].handle) <= req[q].cached
      /\ Len(req[q].handle) \in Nat /\ req[q].cached \in Nat
  BY <1>1, ReqFields DEF HandlesFit, HandleFits, Settled, Typed
<1>4. \A i \in 1..Len(req[q].handle) : i \in 1..req[q].cached
  BY <1>3
<1>5. req'[q].handle = req[q].handle /\ \A i \in 1..req[q].cached : req'[q].row[i] = req[q].row[i]
  OBVIOUS
<1> QED BY <1>2, <1>4, <1>5 DEF Points

(* New pages go behind the cached part of a row.                             *)
LEMMA TakePinned ==
  ASSUME Settled, HandlesFit, Pinned, NEW r, NEW n, Takes(r, n)
  PROVE  Pinned'
<1>1. /\ Live' = Live /\ Live \subseteq Reqs /\ \A q \in Reqs \ {r} : req'[q] = req[q]
      /\ req'[r].handle = req[r].handle
      /\ \A i \in 1..req[r].cached : req'[r].row[i] = req[r].row[i]
  BY TakenReq DEF Settled, Live
<1>2. tree' = tree /\ pc # "slot" /\ pc' # "slot"
  BY DEF Takes
<1> QED BY <1>1, <1>2, PinnedBehind

(* What a finished request adds to the tree moves nothing that is there.     *)
LEMMA CleanupPinned ==
  ASSUME IInv, Pinned, Cleanup
  PROVE  Pinned'
<1>1. req \in [Reqs -> ReqRecord] /\ IsTree(tree, Vocab, Pages, Slots)
  BY DEF IInv, Typed
<1>2. PICK r \in finished, ids \in Seq(Vocab) :
        /\ r \in Live /\ Len(ids) <= Len(req[r].row)
        /\ tree' = IF CacheType = "naive" THEN tree
                   ELSE Unlock(Insert(tree, ids, req[r].row, req[r].slot), req[r].handle)
        /\ \E new : req' = [req EXCEPT ![r] = new] /\ new.stage = "done"
  BY CleanupFacts
<1>3. /\ pc = "cleanup" /\ pc' = "cleanup" /\ r \in Reqs
      /\ \A q \in Live' : q \in Live /\ req'[q] = req[q]
  BY <1>1, <1>2, CleanupFacts DEF Live
<1>4. Locked = Live /\ Locked' = Live'
  BY <1>3 DEF Locked
<1>5. CASE CacheType = "naive"
  BY <1>2, <1>3, <1>4, <1>5, PinnedStay
<1>6. CASE CacheType # "naive"
  <2>1. PICK row \in Seq(Pages), slot \in Slots \cup {None} :
          row = req[r].row /\ slot = req[r].slot
    BY <1>1, <1>3, ReqFields
  <2> DEFINE u == Insert(tree, ids, row, slot)
  <2>2. tree' = Unlock(u, req[r].handle)
    BY <1>2, <1>6, <2>1
  <2>3. IsTree(u, Vocab, Pages, Slots)
    <3>1. Len(ids) <= Len(row)
      BY <1>2, <2>1
    <3> QED BY <1>1, <3>1, InsertResult
  <2>4. \A h, w : Points(tree, h, w) => Points(u, h, w)
    BY <1>1, InsertPoints
  <2> HIDE DEF u
  <2>5. tree'.page = u.page
    BY <2>2, <2>3, UnlockResult
  <2>6. ASSUME NEW h, NEW w, Points(tree, h, w) PROVE Points(tree', h, w)
    <3>1. Points(u, h, w)
      BY <2>4, <2>6
    <3> QED BY <2>5, <3>1 DEF Points
  <2>7. ASSUME NEW q \in Live' PROVE Points(tree', req'[q].handle, req'[q].row)
    <3>1. q \in Live /\ req'[q] = req[q]
      BY <1>3
    <3>2. Points(tree, req[q].handle, req[q].row)
      BY <1>4, <3>1 DEF Pinned
    <3> QED BY <2>6, <3>1, <3>2
  <2> QED BY <1>4, <2>7 DEF Pinned
<1> QED BY <1>5, <1>6

LEMMA CoreAssigns ==
  ASSUME SliceIsView \/ CacheType = "naive", IInv, CoreStep
  PROVE  RowAssigned
<1> SUFFICES ASSUME pc = "admit", pc' = "slot", ~ TryAllocate PROVE FALSE
  BY TryAllocateAssigns DEF RowAssigned
<1>1. ~ StopAdmission
  BY DEF StopAdmission, SelectBatch
<1>2. ~ ProcessMsg /\ ~ StartStep /\ ~ ContinueChunk /\ ~ EvictForSlot /\ ~ Starved
  BY DEF ProcessMsg, StartStep, ContinueChunk, EvictForSlot, Starved
<1>3. ~ AdmitWithoutSlot /\ ~ AdmitWithFreeSlot /\ ~ AdmitWithShedSlot
  BY DEF AdmitWithoutSlot, AdmitWithFreeSlot, AdmitWithShedSlot
<1>4. ~ Cleanup /\ ~ EndStep /\ ~ RunWhenIdle /\ ~ \E r \in Reqs : Submit(r)
  BY DEF Cleanup, EndStep, RunWhenIdle, Submit
<1> QED BY <1>1, <1>2, <1>3, <1>4 DEF CoreStep, Select

LEMMA CorePinned ==
  ASSUME IInv, LocksInv, Pinned, RowAssigned, CoreStep
  PROVE  Pinned'
<1>1. CASE StartStep \/ StopAdmission \/ EndStep \/ RunWhenIdle
  BY <1>1, IdleSteps, IdlePinned
<1>2. CASE EvictForSlot
  BY <1>2, EvictForSlotEvicts, InvSettled, EvictPinned
<1> QED BY <1>1, <1>2, QuietPinned, TryAllocatePinned, CleanupPinned DEF CoreStep, Select

-----------------------------------------------------------------------------
(* Rows of the page table.                                                  *)

RowFull(r) == Len(req[r].row) = req[r].cached

(* A request is once in the batch.  Its row holds a page for each token that *)
(* is computed, and for those that are about to be from _prepare_batch on.   *)
RowsSettled ==
  /\ pc \in {"alloc", "forward", "output"} =>
       \A i, j \in 1..Len(batch) : batch[i] = batch[j] => i = j
  /\ \A r \in Live :
       \/ RowFull(r)
       \/ pc = "alloc" /\ \E i \in 1..prepared : batch[i] = r
       \/ pc = "forward" /\ \E i \in 1..Len(batch) : batch[i] = r

(* The end of admission makes a batch without repetition.                    *)
LEMMA SelectFacts ==
  ASSUME IInv, Admitting, SelectBatch
  PROVE  /\ pc' \in {"alloc", "recv"}
         /\ \A i, j \in 1..Len(batch') : batch'[i] = batch'[j] => i = j
<1>1. Typed /\ ListsOK
  BY DEF IInv
<1>2. pc' \in {"alloc", "recv"}
  BY DEF SelectBatch
<1>3. CASE batch # <<>>
  <2>1. batch' = batch
    BY <1>3 DEF SelectBatch
  <2>2. Len(batch) \in Nat /\ Len(pending) \in Nat
    BY <1>1, Members
  <2>3. /\ Len(batch) <= Len(pending) /\ \A i \in 1..Len(batch) : batch[i] = pending[i]
        /\ \A i, j \in 1..Len(pending) : i # j => pending[i] # pending[j]
    BY <1>1 DEF ListsOK, AdmissionOK, PendingOK
  <2>4. \A i \in 1..Len(batch) : i \in 1..Len(pending)
    BY <2>2, <2>3
  <2> QED BY <1>2, <2>1, <2>3, <2>4
<1>4. CASE batch = <<>>
  <2>1. batch' \in SetToSeqs(running)
    BY <1>4 DEF SelectBatch
  <2> DEFINE n == Cardinality(running)
  <2>2. n \in Nat
    BY <1>1, FS_CardinalityType DEF Typed
  <2>3. /\ batch' \in [1..n -> running]
        /\ \A i, j \in 1..n : i # j => batch'[i] # batch'[j]
    BY <2>1 DEF SetToSeqs
  <2> HIDE DEF n
  <2>4. Len(batch') = n
    BY <2>2, <2>3
  <2> QED BY <1>2, <2>3, <2>4
<1> QED BY <1>3, <1>4

LEMMA InitRows == Init => RowsSettled
BY DEF Init, NoReq, RowsSettled, Live

(* Steps outside the run of a batch that change no live request's row.       *)
LEMMA RowsStay ==
  ASSUME IInv, RowsSettled,
         \/ (\E r \in Reqs : Submit(r)) \/ ProcessMsg
         \/ StartStep \/ StopAdmission \/ ContinueChunk \/ TryAllocate \/ Starved
         \/ AdmitWithoutSlot \/ AdmitWithFreeSlot \/ AdmitWithShedSlot
         \/ Cleanup \/ EndStep
  PROVE  RowsSettled'
<1>1. req \in [Reqs -> ReqRecord] /\ Typed /\ ListsOK
  BY DEF IInv, Typed
<1>2. pc \notin {"alloc", "forward"}
  BY MessageFacts, ContinueFacts, TryAllocateFacts, StarvedFacts, AdmitFacts, 
     CleanupFacts DEF StartStep, StopAdmission, EndStep
<1>3. \A r \in Live : RowFull(r)
  BY <1>2 DEF RowsSettled
<1>4. \A r \in Live' : RowFull(r)'
  <2>1. CASE (\E r \in Reqs : Submit(r)) \/ ProcessMsg
    BY <1>3, <2>1, MessageFacts DEF Live, RowFull
  <2>2. CASE StartStep \/ StopAdmission \/ EndStep
    BY <1>3, <2>2 DEF StartStep, StopAdmission, EndStep, Live, RowFull
  <2>3. CASE ContinueChunk
    <3>1. PICK r \in Reqs : \E new :
            /\ req[r].stage = "live" /\ req' = [req EXCEPT ![r] = new]
            /\ new.cached = req[r].cached /\ new.row = req[r].row
      BY <2>3, ContinueFacts
    <3> QED BY <1>1, <1>3, <3>1 DEF Live, RowFull
  <2>4. CASE TryAllocate
    <3>1. PICK r \in Reqs :
            \/ \E new : req' = [req EXCEPT ![r] = new] /\ new.stage = "pending"
            \/ req' = req
      BY <2>4, TryAllocateFacts
    <3> QED BY <1>1, <1>3, <3>1 DEF Live, RowFull
  <2>5. CASE Starved
    <3>1. PICK r \in Reqs : \E new : req' = [req EXCEPT ![r] = new] /\ new.stage = "pending"
      BY <2>5, StarvedFacts
    <3> QED BY <1>1, <1>3, <3>1 DEF Live, RowFull
  <2>6. CASE AdmitWithoutSlot \/ AdmitWithFreeSlot \/ AdmitWithShedSlot
    <3>1. PICK r \in Reqs : \E new :
            /\ Len(req[r].handle) = Len(req[r].row) /\ req' = [req EXCEPT ![r] = new]
            /\ new.cached = Len(req[r].handle) /\ new.row = req[r].row
      BY <2>6, AdmitFacts
    <3> QED BY <1>1, <1>3, <3>1 DEF Live, RowFull
  <2>7. CASE Cleanup
    <3>1. PICK r \in Reqs : \E new : req' = [req EXCEPT ![r] = new] /\ new.stage = "done"
      BY <2>7, CleanupFacts DEF Live
    <3> QED BY <1>1, <1>3, <3>1 DEF Live, RowFull
  <2> QED BY <2>1, <2>2, <2>3, <2>4, <2>5, <2>6, <2>7
<1>5. pc' \in {"alloc", "forward", "output"} =>
        \A i, j \in 1..Len(batch') : batch'[i] = batch'[j] => i = j
  <2>1. CASE SelectBatch /\ Admitting
    BY <2>1, SelectFacts
  <2>2. CASE ~ (SelectBatch /\ Admitting)
    <3>1. pc' \notin {"alloc", "forward", "output"}
      <4>1. CASE StopAdmission \/ Starved
        BY <2>2, <4>1 DEF StopAdmission, Starved, Admitting
      <4>2. CASE TryAllocate
        <5>1. pc = "admit" /\ (pc' = "slot" \/ SelectBatch)
          BY <4>2, TryAllocateFacts
        <5> QED BY <2>2, <5>1 DEF Admitting
      <4> QED BY <4>1, <4>2, MessageFacts, ContinueFacts, AdmitFacts, CleanupFacts
              DEF StartStep, EndStep
    <3> QED BY <3>1
  <2> QED BY <2>1, <2>2
<1> QED BY <1>4, <1>5 DEF RowsSettled

LEMMA EvictRows ==
  ASSUME RowsSettled, Evicts
  PROVE  RowsSettled'
BY EvictFacts DEF RowsSettled, RowFull, Live

LEMMA CoreRows ==
  ASSUME IInv, RowsSettled, CoreStep
  PROVE  RowsSettled'
<1>1. CASE EvictForSlot
  BY <1>1, EvictForSlotEvicts, EvictRows
<1>2. CASE RunWhenIdle
  BY <1>2 DEF RunWhenIdle, vars, lists, adder, RowsSettled, RowFull, Live
<1> QED BY <1>1, <1>2, RowsStay DEF CoreStep, Select

(* The rows of a batch grow, one after the other.                            *)
LEMMA TakeRows ==
  ASSUME Settled, RowsSettled, NEW r, NEW n, Takes(r, n)
  PROVE  RowsSettled'
<1>1. Live' = Live /\ Live \subseteq Reqs /\ \A q \in Reqs \ {r} : req'[q] = req[q]
  BY TakenReq DEF Settled, Live
<1>2. /\ pc = "alloc" /\ pc' = "alloc" /\ prepared' = prepared + 1 /\ batch' = batch
      /\ prepared \in Nat /\ batch[prepared + 1] = r
  BY DEF Takes
<1>3. \A i \in 1..prepared : i \in 1..prepared'
  BY <1>2
<1>4. prepared + 1 \in 1..prepared' /\ batch'[prepared + 1] = r
  BY <1>2
<1>5. ASSUME NEW q \in Live'
      PROVE  RowFull(q)' \/ \E i \in 1..prepared' : batch'[i] = q
  <2>1. CASE q = r
    BY <1>4, <2>1
  <2>2. CASE q # r
    <3>1. q \in Live /\ req'[q] = req[q]
      BY <1>1, <2>2
    <3>2. RowFull(q) \/ \E i \in 1..prepared : batch[i] = q
      BY <1>2, <3>1 DEF RowsSettled
    <3> QED BY <1>2, <1>3, <3>1, <3>2 DEF RowFull
  <2> QED BY <2>1, <2>2
<1> QED BY <1>2, <1>5 DEF RowsSettled

LEMMA TakenRows ==
  ASSUME RowsSettled, pc = "alloc", pc' = "forward", prepared = Len(batch), batch' = batch,
         req' = req
  PROVE  RowsSettled'
BY DEF RowsSettled, RowFull, Live

-----------------------------------------------------------------------------
(* The owners of pages.                                                     *)

(* The positions of r's row whose pages did not come from the tree.          *)
Own(r, R, B) == B[r] + 1 .. Len(R[r])

(* With free list f, cached pages g, and the requests L, whose rows are R    *)
(* and share their first B pages with the tree, every page is in one place:  *)
(* in no place twice, in no two places, and in some place.                   *)
FreeOnce(f) == \A i, j \in 1..Len(f) : f[i] = f[j] => i = j

TreeOnce(g) == \A p, q \in DOMAIN g : g[p] = g[q] => p = q

RowsOnce(L, R, B) ==
  \A r, s \in L : \A i \in Own(r, R, B), j \in Own(s, R, B) :
    R[r][i] = R[s][j] => r = s /\ i = j

FreeNotTree(f, g) == \A i \in 1..Len(f), p \in DOMAIN g : f[i] # g[p]

FreeNotRow(f, L, R, B) == \A i \in 1..Len(f), r \in L : \A j \in Own(r, R, B) : f[i] # R[r][j]

TreeNotRow(g, L, R, B) == \A p \in DOMAIN g, r \in L : \A j \in Own(r, R, B) : g[p] # R[r][j]

Covered(f, g, L, R, B) ==
  \A a \in Pages : \/ \E i \in 1..Len(f) : f[i] = a
                   \/ \E p \in DOMAIN g : g[p] = a
                   \/ \E r \in L : \E j \in Own(r, R, B) : R[r][j] = a

OwnedOnce(f, g, L, R, B) ==
  /\ FreeOnce(f) /\ TreeOnce(g) /\ RowsOnce(L, R, B)
  /\ FreeNotTree(f, g) /\ FreeNotRow(f, L, R, B) /\ TreeNotRow(g, L, R, B)
  /\ Covered(f, g, L, R, B)

(* A sequence with another at its end.                                       *)
LEMMA Extended ==
  ASSUME NEW V, NEW s \in Seq(V), NEW t \in Seq(V)
  PROVE  /\ s \o t \in Seq(V) /\ Len(s) \in Nat /\ Len(t) \in Nat
         /\ Len(s \o t) = Len(s) + Len(t)
         /\ \A i \in 1..Len(s) : i \in 1..Len(s \o t) /\ (s \o t)[i] = s[i]
         /\ \A i \in 1..Len(t) : /\ Len(s) + i \in 1..Len(s \o t)
                                 /\ (s \o t)[Len(s) + i] = t[i]
         /\ \A k \in 1..Len(s \o t) :
              k \in 1..Len(s) \/ \E i \in 1..Len(t) : k = Len(s) + i
<1>1. Len(s) \in Nat /\ Len(t) \in Nat
  BY LenProperties
<1> DEFINE u == s \o t
<1>2. /\ u \in Seq(V) /\ Len(u) = Len(s) + Len(t)
      /\ \A i \in 1 .. Len(s) + Len(t) : u[i] = IF i <= Len(s) THEN s[i] ELSE t[i - Len(s)]
  BY ConcatProperties
<1> HIDE DEF u
<1>3. \A i \in 1..Len(s) : i \in 1..Len(u) /\ u[i] = s[i]
  BY <1>1, <1>2
<1>4. ASSUME NEW i \in 1..Len(t)
      PROVE  Len(s) + i \in 1..Len(u) /\ u[Len(s) + i] = t[i]
  <2>1. Len(s) + i \in 1..Len(s) + Len(t) /\ ~ (Len(s) + i <= Len(s)) /\ (Len(s) + i) - Len(s) = i
    BY <1>1
  <2> QED BY <1>2, <2>1
<1>5. ASSUME NEW k \in 1..Len(u)
      PROVE  k \in 1..Len(s) \/ \E i \in 1..Len(t) : k = Len(s) + i
  <2>1. CASE k <= Len(s)
    BY <1>1, <1>2, <2>1
  <2>2. CASE ~ (k <= Len(s))
    <3>1. k - Len(s) \in 1..Len(t) /\ k = Len(s) + (k - Len(s))
      BY <1>1, <1>2, <2>2
    <3> QED BY <3>1
  <2> QED BY <2>1, <2>2
<1> QED BY <1>1, <1>2, <1>3, <1>4, <1>5 DEF u

(* What comes between two places of a sequence, behind what is before it.    *)
LEMMA Spliced ==
  ASSUME NEW V, NEW ids \in Seq(V), NEW c \in Nat, NEW d \in Nat, c <= d, d <= Len(ids)
  PROVE  /\ SubSeq(ids, c + 1, d) \in Seq(V)
         /\ SubSeq(ids, 1, c) \o SubSeq(ids, c + 1, d) = SubSeq(ids, 1, d)
<1> DEFINE s == SubSeq(ids, 1, c)
           t == SubSeq(ids, c + 1, d)
           u == SubSeq(ids, 1, d)
<1>1. Len(ids) \in Nat /\ c \in 0..Len(ids) /\ d \in 0..Len(ids)
  BY LenProperties
<1>2. s \in Seq(V) /\ Len(s) = c /\ \A i \in 1..c : s[i] = ids[i]
  BY <1>1, FirstElements
<1>3. t \in Seq(V) /\ Len(t) = d - c /\ \A i \in 1 .. d - c : t[i] = ids[c + i]
  <2>1. \A i \in c + 1 .. d : ids[i] \in V
    BY <1>1, ElementOfSeq
  <2>2. /\ t \in Seq(V) /\ Len(t) = IF c + 1 <= d THEN d - (c + 1) + 1 ELSE 0
        /\ \A i \in 1 .. d - (c + 1) + 1 : t[i] = ids[c + 1 + i - 1]
    BY <2>1, SubSeqProperties
  <2> HIDE DEF t
  <2>3. d - (c + 1) + 1 = d - c /\ (c + 1 <= d \/ d - c = 0)
    OBVIOUS
  <2>4. ASSUME NEW i \in 1 .. d - c PROVE t[i] = ids[c + i]
    <3>1. c + 1 + i - 1 = c + i
      OBVIOUS
    <3> QED BY <2>2, <2>3, <3>1
  <2> QED BY <2>2, <2>3, <2>4
<1>4. u \in Seq(V) /\ Len(u) = d /\ \A i \in 1..d : u[i] = ids[i]
  BY <1>1, FirstElements
<1> HIDE DEF s, t, u
<1> DEFINE v == s \o t
<1>5. /\ v \in Seq(V) /\ Len(v) = c + (d - c)
      /\ \A i \in 1..c : v[i] = s[i]
      /\ \A i \in 1 .. d - c : v[c + i] = t[i]
  <2>1. s \in Seq(V) /\ t \in Seq(V)
    BY <1>2, <1>3
  <2>2. Len(s) = c /\ Len(t) = d - c
    BY <1>2, <1>3
  <2>3. /\ v \in Seq(V) /\ Len(v) = Len(s) + Len(t)
        /\ \A i \in 1..Len(s) : v[i] = s[i]
        /\ \A i \in 1..Len(t) : v[Len(s) + i] = t[i]
    BY <2>1, Extended
  <2> HIDE DEF v
  <2> QED BY <2>2, <2>3
<1> HIDE DEF v
<1>6. ASSUME NEW i \in 1..d PROVE v[i] = ids[i]
  <2>1. CASE i <= c
    BY <1>2, <1>5, <2>1
  <2>2. CASE ~ (i <= c)
    <3>1. i - c \in 1 .. d - c /\ i = c + (i - c)
      BY <2>2
    <3>2. v[c + (i - c)] = t[i - c] /\ t[i - c] = ids[c + (i - c)]
      BY <1>3, <1>5, <3>1
    <3> QED BY <3>1, <3>2
  <2> QED BY <2>1, <2>2
<1>7. v = u
  <2>1. Len(v) = d
    BY <1>5
  <2> QED BY <1>4, <1>5, <1>6, <2>1, SeqEqual
<1> QED BY <1>3, <1>7 DEF s, t, u, v

(* Eviction: pages e, those of the prefixes E, go from the tree to the list. *)
LEMMA EvictedOnce ==
  ASSUME NEW f \in Seq(Pages), NEW e \in Seq(Pages), NEW g, NEW h, NEW E,
         NEW L, NEW R, NEW B, OwnedOnce(f, g, L, R, B),
         E \subseteq DOMAIN g, DOMAIN h = DOMAIN g \ E, \A p \in DOMAIN h : h[p] = g[p],
         \A k \in 1..Len(e) : \E p \in E : e[k] = g[p],
         \A p \in E : \E k \in 1..Len(e) : e[k] = g[p],
         \A j, k \in 1..Len(e) : e[j] = e[k] => j = k
  PROVE  OwnedOnce(f \o e, h, L, R, B)
<1> DEFINE u == f \o e
<1>1. /\ \A i \in 1..Len(f) : i \in 1..Len(u) /\ u[i] = f[i]
      /\ \A i \in 1..Len(e) : Len(f) + i \in 1..Len(u) /\ u[Len(f) + i] = e[i]
      /\ \A k \in 1..Len(u) : k \in 1..Len(f) \/ \E i \in 1..Len(e) : k = Len(f) + i
  BY Extended
<1> HIDE DEF u
<1>2. ASSUME NEW k \in 1..Len(u)
      PROVE  \/ k \in 1..Len(f) /\ u[k] = f[k]
             \/ \E i \in 1..Len(e) : k = Len(f) + i /\ u[k] = e[i] /\ \E p \in E : u[k] = g[p]
  <2>1. CASE k \in 1..Len(f)
    BY <1>1, <2>1
  <2>2. CASE \E i \in 1..Len(e) : k = Len(f) + i
    <3>1. PICK i \in 1..Len(e) : k = Len(f) + i
      BY <2>2
    <3>2. u[k] = e[i]
      BY <1>1, <3>1
    <3> QED BY <3>1, <3>2
  <2> QED BY <1>1, <2>1, <2>2
<1>3. /\ FreeOnce(f) /\ TreeOnce(g) /\ RowsOnce(L, R, B) /\ FreeNotTree(f, g)
      /\ FreeNotRow(f, L, R, B) /\ TreeNotRow(g, L, R, B) /\ Covered(f, g, L, R, B)
  BY DEF OwnedOnce
<1>4. FreeOnce(u)
  <2>1. ASSUME NEW i \in 1..Len(u), NEW j \in 1..Len(u), u[i] = u[j] PROVE i = j
    <3>1. CASE i \in 1..Len(f) /\ u[i] = f[i] /\ j \in 1..Len(f) /\ u[j] = f[j]
      BY <1>3, <2>1, <3>1 DEF FreeOnce
    <3>2. CASE /\ \E k \in 1..Len(e) : i = Len(f) + k /\ u[i] = e[k]
               /\ \E k \in 1..Len(e) : j = Len(f) + k /\ u[j] = e[k]
      <4>1. PICK k \in 1..Len(e), m \in 1..Len(e) :
              i = Len(f) + k /\ u[i] = e[k] /\ j = Len(f) + m /\ u[j] = e[m]
        BY <3>2
      <4>2. k = m
        BY <2>1, <4>1
      <4> QED BY <4>1, <4>2
    <3>3. CASE i \in 1..Len(f) /\ u[i] = f[i] /\ \E p \in E : u[j] = g[p]
      BY <1>3, <2>1, <3>3 DEF FreeNotTree
    <3>4. CASE j \in 1..Len(f) /\ u[j] = f[j] /\ \E p \in E : u[i] = g[p]
      BY <1>3, <2>1, <3>4 DEF FreeNotTree
    <3> QED BY <1>2, <3>1, <3>2, <3>3, <3>4
  <2> QED BY <2>1 DEF FreeOnce
<1>5. TreeOnce(h) /\ TreeNotRow(h, L, R, B)
  BY <1>3 DEF TreeOnce, TreeNotRow
<1>6. FreeNotTree(u, h)
  <2>1. ASSUME NEW i \in 1..Len(u), NEW p \in DOMAIN h PROVE u[i] # h[p]
    <3>1. CASE i \in 1..Len(f) /\ u[i] = f[i]
      BY <1>3, <3>1 DEF FreeNotTree
    <3>2. CASE \E q \in E : u[i] = g[q]
      BY <1>3, <3>2 DEF TreeOnce
    <3> QED BY <1>2, <3>1, <3>2
  <2> QED BY <2>1 DEF FreeNotTree
<1>7. FreeNotRow(u, L, R, B)
  <2>1. ASSUME NEW i \in 1..Len(u), NEW r \in L, NEW j \in Own(r, R, B) PROVE u[i] # R[r][j]
    <3>1. CASE i \in 1..Len(f) /\ u[i] = f[i]
      BY <1>3, <3>1 DEF FreeNotRow
    <3>2. CASE \E q \in E : u[i] = g[q]
      BY <1>3, <3>2 DEF TreeNotRow
    <3> QED BY <1>2, <3>1, <3>2
  <2> QED BY <2>1 DEF FreeNotRow
<1>8. Covered(u, h, L, R, B)
  <2> SUFFICES ASSUME NEW a \in Pages
               PROVE  \/ \E i \in 1..Len(u) : u[i] = a
                      \/ \E p \in DOMAIN h : h[p] = a
                      \/ \E r \in L : \E j \in Own(r, R, B) : R[r][j] = a
    BY DEF Covered
  <2>1. CASE \E i \in 1..Len(f) : f[i] = a
    BY <1>1, <2>1
  <2>2. CASE \E p \in DOMAIN g : g[p] = a
    <3>1. PICK p \in DOMAIN g : g[p] = a
      BY <2>2
    <3>2. CASE p \in E
      <4>1. PICK k \in 1..Len(e) : e[k] = a
        BY <3>1, <3>2
      <4> QED BY <1>1, <4>1
    <3>3. CASE p \notin E
      BY <3>1, <3>3
    <3> QED BY <3>2, <3>3
  <2> QED BY <1>3, <2>1, <2>2 DEF Covered
<1>9. OwnedOnce(u, h, L, R, B)
  BY <1>3, <1>4, <1>5, <1>6, <1>7, <1>8 DEF OwnedOnce
<1> QED BY <1>9 DEF u

(* Allocation: the first n pages of the list go to the end of r's row.       *)
Allocated(f, n, L, R, Q, r, c) ==
  /\ \A s \in L \ {r} : Q[s] = R[s]
  /\ Len(R[r]) = c /\ Len(Q[r]) = c + n
  /\ \A i \in 1..c : Q[r][i] = R[r][i]
  /\ \A i \in 1..n : Q[r][c + i] = f[i]

LEMMA AllocatedOnce ==
  ASSUME NEW f \in Seq(Pages), NEW n \in 0..Len(f), NEW g, NEW L, NEW R, NEW Q, NEW B,
         OwnedOnce(f, g, L, R, B),
         NEW r \in L, NEW b \in Nat, b = B[r], NEW c \in Nat, b <= c,
         Allocated(f, n, L, R, Q, r, c)
  PROVE  OwnedOnce(SubSeq(f, n + 1, Len(f)), g, L, Q, B)
<1> DEFINE u == SubSeq(f, n + 1, Len(f))
<1>0. /\ \A s \in L \ {r} : Q[s] = R[s]
      /\ Len(R[r]) = c /\ Len(Q[r]) = c + n
      /\ \A i \in 1..c : Q[r][i] = R[r][i]
      /\ \A i \in 1..n : Q[r][c + i] = f[i]
  BY DEF Allocated
<1>1. n \in Nat /\ Len(f) \in Nat /\ n <= Len(f)
  BY LenProperties
<1>2. /\ Len(u) = Len(f) - n
      /\ \A i \in 1..Len(u) : u[i] = f[n + i]
  BY <1>1
<1> HIDE DEF u
<1>3. \A i \in 1..Len(u) : n + i \in 1..Len(f) /\ n + i > n /\ u[i] = f[n + i]
  BY <1>1, <1>2
<1>4. \A i \in 1..Len(f) : i \in 1..n \/ (\E j \in 1..Len(u) : i = n + j)
  <2>1. ASSUME NEW i \in 1..Len(f), i \notin 1..n PROVE \E j \in 1..Len(u) : i = n + j
    <3>1. i - n \in 1..Len(u) /\ i = n + (i - n)
      BY <1>1, <1>2, <2>1
    <3> QED BY <3>1
  <2> QED BY <2>1
<1>5. \A i \in 1..n : i \in 1..Len(f)
  BY <1>1
(* A page of a row now: one it had, or one from the front of the list.       *)
<1>6. ASSUME NEW s \in L, NEW j \in Own(s, Q, B)
      PROVE  \/ j \in Own(s, R, B) /\ Q[s][j] = R[s][j]
             \/ s = r /\ \E i \in 1..n : j = c + i /\ Q[s][j] = f[i]
  <2>1. CASE s # r
    BY <1>0, <1>6, <2>1 DEF Own
  <2>2. CASE s = r
    <3>1. j \in b + 1 .. c + n
      BY <1>0, <1>6, <2>2 DEF Own
    <3>2. CASE j <= c
      <4>1. j \in b + 1 .. c /\ j \in 1..c
        BY <3>1, <3>2
      <4> QED BY <1>0, <2>2, <4>1 DEF Own
    <3>3. CASE ~ (j <= c)
      <4>1. j - c \in 1..n /\ j = c + (j - c)
        BY <1>1, <3>1, <3>3
      <4> QED BY <1>0, <2>2, <4>1
    <3> QED BY <3>2, <3>3
  <2> QED BY <2>1, <2>2
<1>7. ASSUME NEW s \in L, NEW j \in Own(s, R, B)
      PROVE  j \in Own(s, Q, B) /\ Q[s][j] = R[s][j]
  <2>1. CASE s # r
    BY <1>0, <1>7, <2>1 DEF Own
  <2>2. CASE s = r
    <3>1. j \in b + 1 .. c
      BY <1>0, <1>7, <2>2 DEF Own
    <3>2. j \in b + 1 .. c + n /\ j \in 1..c
      BY <1>1, <3>1
    <3> QED BY <1>0, <2>2, <3>2 DEF Own
  <2> QED BY <2>1, <2>2
<1>8. ASSUME NEW i \in 1..n PROVE c + i \in Own(r, Q, B) /\ Q[r][c + i] = f[i]
  <2>1. c + i \in b + 1 .. c + n
    BY <1>1
  <2> QED BY <1>0, <2>1 DEF Own
<1>9. /\ FreeOnce(f) /\ TreeOnce(g) /\ RowsOnce(L, R, B) /\ FreeNotTree(f, g)
      /\ FreeNotRow(f, L, R, B) /\ TreeNotRow(g, L, R, B) /\ Covered(f, g, L, R, B)
  BY DEF OwnedOnce
<1>10. FreeOnce(u)
  <2>1. ASSUME NEW i \in 1..Len(u), NEW j \in 1..Len(u), u[i] = u[j] PROVE i = j
    <3>1. PICK k \in 1..Len(f), m \in 1..Len(f) :
            k = n + i /\ u[i] = f[k] /\ m = n + j /\ u[j] = f[m]
      BY <1>3
    <3>2. k = m
      BY <1>9, <2>1, <3>1 DEF FreeOnce
    <3> QED BY <1>1, <3>1, <3>2
  <2> QED BY <2>1 DEF FreeOnce
<1>11. RowsOnce(L, Q, B)
  <2>1. ASSUME NEW s \in L, NEW t \in L, NEW i \in Own(s, Q, B), NEW j \in Own(t, Q, B),
               Q[s][i] = Q[t][j]
        PROVE  s = t /\ i = j
    <3>1. CASE /\ i \in Own(s, R, B) /\ Q[s][i] = R[s][i]
               /\ j \in Own(t, R, B) /\ Q[t][j] = R[t][j]
      <4>1. RowsOnce(L, R, B) /\ R[s][i] = R[t][j]
        BY <1>9, <2>1, <3>1
      <4> QED BY <3>1, <4>1 DEF RowsOnce
    <3>2. CASE /\ s = r /\ \E k \in 1..n : i = c + k /\ Q[s][i] = f[k]
               /\ t = r /\ \E k \in 1..n : j = c + k /\ Q[t][j] = f[k]
      <4>1. PICK k \in 1..n : i = c + k /\ Q[s][i] = f[k]
        BY <3>2
      <4>2. PICK m \in 1..n : j = c + m /\ Q[t][j] = f[m]
        BY <3>2
      <4>3. k \in 1..Len(f) /\ m \in 1..Len(f) /\ f[k] = f[m]
        BY <1>5, <2>1, <4>1, <4>2
      <4>4. k = m
        BY <1>9, <4>3 DEF FreeOnce
      <4> QED BY <3>2, <4>1, <4>2, <4>4
    <3>3. CASE /\ i \in Own(s, R, B) /\ Q[s][i] = R[s][i]
               /\ \E k \in 1..n : Q[t][j] = f[k]
      <4>1. PICK k \in 1..Len(f) : Q[t][j] = f[k]
        BY <1>5, <3>3
      <4>2. FreeNotRow(f, L, R, B) /\ f[k] = R[s][i]
        BY <1>9, <2>1, <3>3, <4>1
      <4> QED BY <3>3, <4>1, <4>2 DEF FreeNotRow
    <3>4. CASE /\ j \in Own(t, R, B) /\ Q[t][j] = R[t][j]
               /\ \E k \in 1..n : Q[s][i] = f[k]
      <4>1. PICK k \in 1..Len(f) : Q[s][i] = f[k]
        BY <1>5, <3>4
      <4>2. FreeNotRow(f, L, R, B) /\ f[k] = R[t][j]
        BY <1>9, <2>1, <3>4, <4>1
      <4> QED BY <3>4, <4>1, <4>2 DEF FreeNotRow
    <3>5. \/ i \in Own(s, R, B) /\ Q[s][i] = R[s][i]
          \/ s = r /\ \E k \in 1..n : i = c + k /\ Q[s][i] = f[k]
      BY <1>6
    <3>6. \/ j \in Own(t, R, B) /\ Q[t][j] = R[t][j]
          \/ t = r /\ \E k \in 1..n : j = c + k /\ Q[t][j] = f[k]
      BY <1>6
    <3> QED BY <3>1, <3>2, <3>3, <3>4, <3>5, <3>6
  <2> QED BY <2>1 DEF RowsOnce
<1>12. FreeNotTree(u, g)
  BY <1>3, <1>9 DEF FreeNotTree
<1>13. FreeNotRow(u, L, Q, B)
  <2>1. ASSUME NEW i \in 1..Len(u), NEW s \in L, NEW j \in Own(s, Q, B) PROVE u[i] # Q[s][j]
    <3>1. n + i \in 1..Len(f) /\ n + i > n /\ u[i] = f[n + i]
      BY <1>3
    <3>2. CASE j \in Own(s, R, B) /\ Q[s][j] = R[s][j]
      BY <1>9, <3>1, <3>2 DEF FreeNotRow
    <3>3. CASE \E k \in 1..n : Q[s][j] = f[k]
      <4>1. PICK k \in 1..n : Q[s][j] = f[k]
        BY <3>3
      <4>2. k \in 1..Len(f) /\ n + i # k
        BY <1>1, <3>1
      <4> QED BY <1>9, <3>1, <4>1, <4>2 DEF FreeOnce
    <3> QED BY <1>6, <3>2, <3>3
  <2> QED BY <2>1 DEF FreeNotRow
<1>14. TreeNotRow(g, L, Q, B)
  <2>1. ASSUME NEW p \in DOMAIN g, NEW s \in L, NEW j \in Own(s, Q, B) PROVE g[p] # Q[s][j]
    <3>1. CASE j \in Own(s, R, B) /\ Q[s][j] = R[s][j]
      BY <1>9, <3>1 DEF TreeNotRow
    <3>2. CASE \E k \in 1..n : Q[s][j] = f[k]
      <4>1. PICK k \in 1..Len(f) : Q[s][j] = f[k]
        BY <1>5, <3>2
      <4> QED BY <1>9, <4>1 DEF FreeNotTree
    <3> QED BY <1>6, <3>1, <3>2
  <2> QED BY <2>1 DEF TreeNotRow
<1>15. Covered(u, g, L, Q, B)
  <2> SUFFICES ASSUME NEW a \in Pages
               PROVE  \/ \E i \in 1..Len(u) : u[i] = a
                      \/ \E p \in DOMAIN g : g[p] = a
                      \/ \E s \in L : \E j \in Own(s, Q, B) : Q[s][j] = a
    BY DEF Covered
  <2>1. CASE \E i \in 1..Len(f) : f[i] = a
    <3>1. PICK i \in 1..Len(f) : f[i] = a
      BY <2>1
    <3>2. CASE i \in 1..n
      BY <1>8, <3>1, <3>2
    <3>3. CASE \E j \in 1..Len(u) : i = n + j
      BY <1>3, <3>1, <3>3
    <3> QED BY <1>4, <3>2, <3>3
  <2>2. CASE \E s \in L : \E j \in Own(s, R, B) : R[s][j] = a
    BY <1>7, <2>2
  <2> QED BY <1>9, <2>1, <2>2 DEF Covered
<1>16. OwnedOnce(u, g, L, Q, B)
  BY <1>9, <1>10, <1>11, <1>12, <1>13, <1>14, <1>15 DEF OwnedOnce
<1> QED BY <1>16 DEF u

(* The end of a request: of the pages behind its first b, those up to n go   *)
(* to the list as d, the others to the tree, for the new prefixes D, each at *)
(* the end K of its prefix.                                                  *)
GivenBack(row, b, n, d, g, h, D, K) ==
  /\ Len(d) = n - b /\ \A i \in 1..Len(d) : d[i] = row[b + i]
  /\ DOMAIN h = DOMAIN g \cup D /\ \A p \in DOMAIN g : p \notin D /\ h[p] = g[p]
  /\ \A p \in D : K[p] \in n + 1 .. Len(row) /\ h[p] = row[K[p]]
  /\ \A p, q \in D : K[p] = K[q] => p = q
  /\ \A j \in n + 1 .. Len(row) : \E p \in D : K[p] = j

LEMMA ReleasedOnce ==
  ASSUME NEW f \in Seq(Pages), NEW d \in Seq(Pages), NEW g, NEW h, NEW D, NEW K,
         NEW L, NEW R, NEW B, OwnedOnce(f, g, L, R, B),
         NEW r \in L, NEW b \in Nat, b = B[r], NEW c \in Nat, c = Len(R[r]), NEW n \in b..c,
         GivenBack(R[r], b, n, d, g, h, D, K)
  PROVE  OwnedOnce(f \o d, h, L \ {r}, R, B)
<1> DEFINE u == f \o d
           M == L \ {r}
<1>0. /\ Len(d) = n - b /\ \A i \in 1..Len(d) : d[i] = R[r][b + i]
      /\ DOMAIN h = DOMAIN g \cup D /\ \A p \in DOMAIN g : p \notin D /\ h[p] = g[p]
      /\ \A p \in D : K[p] \in n + 1 .. c /\ h[p] = R[r][K[p]]
      /\ \A p, q \in D : K[p] = K[q] => p = q
      /\ \A j \in n + 1 .. c : \E p \in D : K[p] = j
  BY DEF GivenBack
<1>1. /\ \A i \in 1..Len(f) : i \in 1..Len(u) /\ u[i] = f[i]
      /\ \A i \in 1..Len(d) : Len(f) + i \in 1..Len(u) /\ u[Len(f) + i] = d[i]
      /\ \A k \in 1..Len(u) : k \in 1..Len(f) \/ \E i \in 1..Len(d) : k = Len(f) + i
  BY Extended
<1> HIDE DEF u
<1>2. /\ FreeOnce(f) /\ TreeOnce(g) /\ RowsOnce(L, R, B) /\ FreeNotTree(f, g)
      /\ FreeNotRow(f, L, R, B) /\ TreeNotRow(g, L, R, B) /\ Covered(f, g, L, R, B)
  BY DEF OwnedOnce
<1>3. /\ \A i \in 1..Len(d) : b + i \in Own(r, R, B) /\ b + i <= n
      /\ \A j \in n + 1 .. c : j \in Own(r, R, B) /\ j > n
      /\ \A j \in Own(r, R, B) : j \in n + 1 .. c \/ \E i \in 1..Len(d) : j = b + i
  <2>1. \A i \in 1..Len(d) : b + i \in b + 1 .. c /\ b + i <= n
    BY <1>0
  <2>2. \A j \in n + 1 .. c : j \in b + 1 .. c /\ j > n
    OBVIOUS
  <2>3. ASSUME NEW j \in b + 1 .. c, j \notin n + 1 .. c PROVE \E i \in 1..Len(d) : j = b + i
    <3>1. j - b \in 1..Len(d) /\ j = b + (j - b)
      BY <1>0, <2>3
    <3> QED BY <3>1
  <2> QED BY <2>1, <2>2, <2>3 DEF Own
(* A page of the list now, and a page of the tree.                           *)
<1>4. ASSUME NEW k \in 1..Len(u)
      PROVE  \/ k \in 1..Len(f) /\ u[k] = f[k]
             \/ \E i \in 1..Len(d) : k = Len(f) + i /\ u[k] = R[r][b + i]
  <2>1. CASE k \in 1..Len(f)
    BY <1>1, <2>1
  <2>2. CASE \E i \in 1..Len(d) : k = Len(f) + i
    <3>1. PICK i \in 1..Len(d) : k = Len(f) + i
      BY <2>2
    <3>2. u[k] = d[i] /\ d[i] = R[r][b + i]
      BY <1>0, <1>1, <3>1
    <3> QED BY <3>1, <3>2
  <2> QED BY <1>1, <2>1, <2>2
<1>5. ASSUME NEW p \in DOMAIN h
      PROVE  \/ p \in DOMAIN g /\ h[p] = g[p]
             \/ p \in D /\ K[p] \in Own(r, R, B) /\ K[p] > n /\ h[p] = R[r][K[p]]
  BY <1>0, <1>3
<1>6. FreeOnce(u)
  <2>1. ASSUME NEW i \in 1..Len(u), NEW j \in 1..Len(u), u[i] = u[j] PROVE i = j
    <3>1. CASE i \in 1..Len(f) /\ u[i] = f[i] /\ j \in 1..Len(f) /\ u[j] = f[j]
      BY <1>2, <2>1, <3>1 DEF FreeOnce
    <3>2. CASE /\ \E k \in 1..Len(d) : i = Len(f) + k /\ u[i] = R[r][b + k]
               /\ \E k \in 1..Len(d) : j = Len(f) + k /\ u[j] = R[r][b + k]
      <4>1. PICK k \in 1..Len(d) : i = Len(f) + k /\ u[i] = R[r][b + k]
        BY <3>2
      <4>2. PICK m \in 1..Len(d) : j = Len(f) + m /\ u[j] = R[r][b + m]
        BY <3>2
      <4>3. /\ b + k \in Own(r, R, B) /\ b + m \in Own(r, R, B)
            /\ R[r][b + k] = R[r][b + m]
        BY <1>3, <2>1, <4>1, <4>2
      <4>4. b + k = b + m
        BY <1>2, <4>3 DEF RowsOnce
      <4>5. k = m
        BY <4>4
      <4> QED BY <4>1, <4>2, <4>5
    <3>3. CASE i \in 1..Len(f) /\ u[i] = f[i] /\ \E k \in 1..Len(d) : u[j] = R[r][b + k]
      <4>1. PICK k \in 1..Len(d) : u[j] = R[r][b + k]
        BY <3>3
      <4>2. b + k \in Own(r, R, B) /\ f[i] = R[r][b + k] /\ FreeNotRow(f, L, R, B)
        BY <1>2, <1>3, <2>1, <3>3, <4>1
      <4> QED BY <3>3, <4>2 DEF FreeNotRow
    <3>4. CASE j \in 1..Len(f) /\ u[j] = f[j] /\ \E k \in 1..Len(d) : u[i] = R[r][b + k]
      <4>1. PICK k \in 1..Len(d) : u[i] = R[r][b + k]
        BY <3>4
      <4>2. b + k \in Own(r, R, B) /\ f[j] = R[r][b + k] /\ FreeNotRow(f, L, R, B)
        BY <1>2, <1>3, <2>1, <3>4, <4>1
      <4> QED BY <3>4, <4>2 DEF FreeNotRow
    <3>5. \/ i \in 1..Len(f) /\ u[i] = f[i]
          \/ \E k \in 1..Len(d) : i = Len(f) + k /\ u[i] = R[r][b + k]
      BY <1>4
    <3>6. \/ j \in 1..Len(f) /\ u[j] = f[j]
          \/ \E k \in 1..Len(d) : j = Len(f) + k /\ u[j] = R[r][b + k]
      BY <1>4
    <3> QED BY <3>1, <3>2, <3>3, <3>4, <3>5, <3>6
  <2> QED BY <2>1 DEF FreeOnce
<1>7. TreeOnce(h)
  <2>1. ASSUME NEW p \in DOMAIN h, NEW q \in DOMAIN h, h[p] = h[q] PROVE p = q
    <3>1. CASE p \in DOMAIN g /\ h[p] = g[p] /\ q \in DOMAIN g /\ h[q] = g[q]
      BY <1>2, <2>1, <3>1 DEF TreeOnce
    <3>2. CASE /\ p \in D /\ K[p] \in Own(r, R, B) /\ h[p] = R[r][K[p]]
               /\ q \in D /\ K[q] \in Own(r, R, B) /\ h[q] = R[r][K[q]]
      <4>1. RowsOnce(L, R, B) /\ R[r][K[p]] = R[r][K[q]]
        BY <1>2, <2>1, <3>2
      <4>2. K[p] = K[q]
        BY <3>2, <4>1 DEF RowsOnce
      <4> QED BY <1>0, <3>2, <4>2
    <3>3. CASE /\ p \in DOMAIN g /\ h[p] = g[p]
               /\ q \in D /\ K[q] \in Own(r, R, B) /\ h[q] = R[r][K[q]]
      BY <1>2, <2>1, <3>3 DEF TreeNotRow
    <3>4. CASE /\ q \in DOMAIN g /\ h[q] = g[q]
               /\ p \in D /\ K[p] \in Own(r, R, B) /\ h[p] = R[r][K[p]]
      BY <1>2, <2>1, <3>4 DEF TreeNotRow
    <3>5. \/ p \in DOMAIN g /\ h[p] = g[p]
          \/ p \in D /\ K[p] \in Own(r, R, B) /\ h[p] = R[r][K[p]]
      BY <1>5
    <3>6. \/ q \in DOMAIN g /\ h[q] = g[q]
          \/ q \in D /\ K[q] \in Own(r, R, B) /\ h[q] = R[r][K[q]]
      BY <1>5
    <3> QED BY <3>1, <3>2, <3>3, <3>4, <3>5, <3>6
  <2> QED BY <2>1 DEF TreeOnce
<1>8. RowsOnce(M, R, B)
  BY <1>2 DEF RowsOnce
<1>9. FreeNotTree(u, h)
  <2>1. ASSUME NEW i \in 1..Len(u), NEW p \in DOMAIN h, u[i] = h[p] PROVE FALSE
    <3>1. CASE i \in 1..Len(f) /\ u[i] = f[i] /\ p \in DOMAIN g /\ h[p] = g[p]
      BY <1>2, <2>1, <3>1 DEF FreeNotTree
    <3>2. CASE /\ i \in 1..Len(f) /\ u[i] = f[i]
               /\ K[p] \in Own(r, R, B) /\ h[p] = R[r][K[p]]
      BY <1>2, <2>1, <3>2 DEF FreeNotRow
    <3>3. CASE /\ \E k \in 1..Len(d) : u[i] = R[r][b + k]
               /\ p \in DOMAIN g /\ h[p] = g[p]
      <4>1. PICK k \in 1..Len(d) : u[i] = R[r][b + k]
        BY <3>3
      <4>2. b + k \in Own(r, R, B) /\ g[p] = R[r][b + k] /\ TreeNotRow(g, L, R, B)
        BY <1>2, <1>3, <2>1, <3>3, <4>1
      <4> QED BY <3>3, <4>2 DEF TreeNotRow
    <3>4. CASE /\ \E k \in 1..Len(d) : u[i] = R[r][b + k]
               /\ K[p] \in Own(r, R, B) /\ K[p] > n /\ h[p] = R[r][K[p]]
      <4>1. PICK k \in 1..Len(d) : u[i] = R[r][b + k]
        BY <3>4
      <4>2. b + k \in Own(r, R, B) /\ b + k <= n /\ R[r][b + k] = R[r][K[p]]
        BY <1>3, <2>1, <3>4, <4>1
      <4>3. RowsOnce(L, R, B) /\ K[p] \in Own(r, R, B)
        BY <1>2, <3>4
      <4>4. b + k = K[p]
        BY <4>2, <4>3 DEF RowsOnce
      <4>5. b + k \in Int /\ n \in Int /\ K[p] > n /\ b + k <= n
        BY <3>4, <4>2
      <4> QED BY <4>4, <4>5
    <3>5. \/ i \in 1..Len(f) /\ u[i] = f[i]
          \/ \E k \in 1..Len(d) : i = Len(f) + k /\ u[i] = R[r][b + k]
      BY <1>4
    <3>6. \/ p \in DOMAIN g /\ h[p] = g[p]
          \/ p \in D /\ K[p] \in Own(r, R, B) /\ K[p] > n /\ h[p] = R[r][K[p]]
      BY <1>5
    <3> QED BY <3>1, <3>2, <3>3, <3>4, <3>5, <3>6
  <2> QED BY <2>1 DEF FreeNotTree
<1>10. FreeNotRow(u, M, R, B)
  <2>1. ASSUME NEW i \in 1..Len(u), NEW s \in M, NEW j \in Own(s, R, B), u[i] = R[s][j]
        PROVE  FALSE
    <3>1. s \in L /\ s # r
      OBVIOUS
    <3>2. CASE i \in 1..Len(f) /\ u[i] = f[i]
      BY <1>2, <2>1, <3>1, <3>2 DEF FreeNotRow
    <3>3. CASE \E k \in 1..Len(d) : u[i] = R[r][b + k]
      <4>1. PICK k \in 1..Len(d) : u[i] = R[r][b + k]
        BY <3>3
      <4>2. b + k \in Own(r, R, B) /\ R[r][b + k] = R[s][j] /\ RowsOnce(L, R, B)
        BY <1>2, <1>3, <2>1, <4>1
      <4> QED BY <2>1, <3>1, <4>2 DEF RowsOnce
    <3>4. \/ i \in 1..Len(f) /\ u[i] = f[i]
          \/ \E k \in 1..Len(d) : i = Len(f) + k /\ u[i] = R[r][b + k]
      BY <1>4
    <3> QED BY <3>2, <3>3, <3>4
  <2> QED BY <2>1 DEF FreeNotRow
<1>11. TreeNotRow(h, M, R, B)
  <2>1. ASSUME NEW p \in DOMAIN h, NEW s \in M, NEW j \in Own(s, R, B), h[p] = R[s][j]
        PROVE  FALSE
    <3>1. s \in L /\ s # r
      OBVIOUS
    <3>2. CASE p \in DOMAIN g /\ h[p] = g[p]
      BY <1>2, <2>1, <3>1, <3>2 DEF TreeNotRow
    <3>3. CASE K[p] \in Own(r, R, B) /\ h[p] = R[r][K[p]]
      <4>1. RowsOnce(L, R, B) /\ R[r][K[p]] = R[s][j] /\ j \in Own(s, R, B)
        BY <1>2, <2>1, <3>3
      <4> QED BY <3>1, <3>3, <4>1 DEF RowsOnce
    <3> QED BY <1>5, <3>2, <3>3
  <2> QED BY <2>1 DEF TreeNotRow
<1>12. Covered(u, h, M, R, B)
  <2> SUFFICES ASSUME NEW a \in Pages
               PROVE  \/ \E i \in 1..Len(u) : u[i] = a
                      \/ \E p \in DOMAIN h : h[p] = a
                      \/ \E s \in M : \E j \in Own(s, R, B) : R[s][j] = a
    BY DEF Covered
  <2>1. CASE \E i \in 1..Len(f) : f[i] = a
    BY <1>1, <2>1
  <2>2. CASE \E p \in DOMAIN g : g[p] = a
    BY <1>0, <2>2
  <2>3. CASE \E s \in L : \E j \in Own(s, R, B) : R[s][j] = a
    <3>1. PICK s \in L : \E j \in Own(s, R, B) : R[s][j] = a
      BY <2>3
    <3>2. PICK j \in Own(s, R, B) : R[s][j] = a
      BY <3>1
    <3>3. CASE s # r
      BY <3>2, <3>3
    <3>4. CASE s = r /\ j \in n + 1 .. c
      <4>1. PICK p \in D : K[p] = j
        BY <1>0, <3>4
      <4>2. p \in DOMAIN h /\ h[p] = a
        BY <1>0, <3>2, <3>4, <4>1
      <4> QED BY <4>2
    <3>5. CASE s = r /\ \E i \in 1..Len(d) : j = b + i
      <4>1. PICK i \in 1..Len(d) : j = b + i
        BY <3>5
      <4>2. Len(f) + i \in 1..Len(u) /\ u[Len(f) + i] = d[i]
        BY <1>1
      <4>3. d[i] = R[r][b + i]
        BY <1>0
      <4>4. u[Len(f) + i] = a
        BY <3>2, <3>5, <4>1, <4>2, <4>3
      <4> QED BY <4>2, <4>4
    <3> QED BY <1>3, <3>3, <3>4, <3>5
  <2> QED BY <1>2, <2>1, <2>2, <2>3 DEF Covered
<1>13. OwnedOnce(u, h, M, R, B)
  BY <1>6, <1>7, <1>8, <1>9, <1>10, <1>11, <1>12 DEF OwnedOnce
<1> QED BY <1>13 DEF u

(* Requests whose pages are as they were, and new ones that own none yet.    *)
LEMMA SameOwned ==
  ASSUME NEW f, NEW g, NEW L, NEW M, NEW R, NEW Q, NEW B, NEW C, OwnedOnce(f, g, L, R, B),
         L \subseteq M, \A s \in L : Q[s] = R[s] /\ C[s] = B[s],
         \A s \in M \ L : Own(s, Q, C) = {}
  PROVE  OwnedOnce(f, g, M, Q, C)
<1>1. \A s \in L : Own(s, Q, C) = Own(s, R, B)
  BY DEF Own
<1>2. \A s \in M : \A j \in Own(s, Q, C) : s \in L /\ j \in Own(s, R, B) /\ Q[s][j] = R[s][j]
  BY <1>1
<1>3. \A s \in L : \A j \in Own(s, R, B) : s \in M /\ j \in Own(s, Q, C) /\ Q[s][j] = R[s][j]
  BY <1>1
<1>4. RowsOnce(M, Q, C)
  BY <1>2 DEF OwnedOnce, RowsOnce
<1>5. FreeNotRow(f, M, Q, C)
  BY <1>2 DEF OwnedOnce, FreeNotRow
<1>6. TreeNotRow(g, M, Q, C)
  BY <1>2 DEF OwnedOnce, TreeNotRow
<1>7. Covered(f, g, M, Q, C)
  <2> SUFFICES ASSUME NEW a \in Pages
               PROVE  \/ \E i \in 1..Len(f) : f[i] = a
                      \/ \E p \in DOMAIN g : g[p] = a
                      \/ \E s \in M : \E j \in Own(s, Q, C) : Q[s][j] = a
    BY DEF Covered
  <2>1. CASE \E s \in L : \E j \in Own(s, R, B) : R[s][j] = a
    BY <1>3, <2>1
  <2> QED BY <2>1 DEF OwnedOnce, Covered
<1> QED BY <1>4, <1>5, <1>6, <1>7 DEF OwnedOnce

-----------------------------------------------------------------------------
(* What eviction gives back: the pages of the prefixes that end on the leaf's *)
(* edge, each once.                                                          *)
LEMMA EvictedPagesOfEdge ==
  ASSUME NEW t, NEW V, NEW P, NEW S, IsTree(t, V, P, S), NEW n \in t.nodes, n # Root
  PROVE  LET e == EvictedPages(t, n)
         IN /\ e \in Seq(P) /\ Edge(t, n) \subseteq DOMAIN t.page
            /\ \A k \in 1..Len(e) : \E p \in Edge(t, n) : e[k] = t.page[p]
            /\ \A p \in Edge(t, n) : \E k \in 1..Len(e) : e[k] = t.page[p]
            /\ TreeOnce(t.page) => \A j, k \in 1..Len(e) : e[j] = e[k] => j = k
<1> DEFINE T == {m \in t.nodes : IsStrictPrefix(m, n)}
           e == EvictedPages(t, n)
           w == PagesOf(t, n)
<1>1. t.nodes \subseteq Seq(V) /\ Root \in t.nodes /\ n \in Seq(V) /\ Closed(t, V)
      /\ DOMAIN t.page \subseteq Seq(V)
  BY DEF IsTree
<1>2. Len(n) \in Nat /\ IsPrefix(n, n) /\ IsPrefix(Root, n)
  BY <1>1, LenProperties, RootIsPrefix
<1>3. T # {} /\ T \subseteq Seq(V) /\ \A m \in T : Len(m) <= Len(n)
  BY <1>1, <1>2 DEF IsStrictPrefix, IsPrefix
<1>4. \E m \in T : \A k \in T : Len(k) <= Len(m)
  <2> HIDE DEF T
  <2> QED BY <1>2, <1>3, LongestExists
<1>5. Parent(t, n) \in T /\ \A k \in T : Len(k) <= Len(Parent(t, n))
  BY <1>4 DEF Parent
<1>6. PICK top \in Nat : top = Len(Parent(t, n)) /\ top <= Len(n)
  <2>1. Len(Parent(t, n)) \in Nat /\ Len(Parent(t, n)) <= Len(n)
    BY <1>3, <1>5, LenProperties
  <2> QED BY <2>1
<1>7. w \in Seq(P) /\ Len(w) = Len(n)
  BY <1>1, <1>2, PagesOfNode
<1>8. \A i \in 1..Len(n) : w[i] = t.page[SubSeq(n, 1, i)]
  BY DEF PagesOf
<1>9. e = SubSeq(w, top + 1, Len(n))
  BY <1>6 DEF EvictedPages
<1> HIDE DEF w, e, T
<1>10. e \in Seq(P)
  BY <1>1, EvictedPagesArePages DEF e
<1>11. Len(e) = Len(n) - top /\ \A k \in 1..Len(e) : e[k] = w[top + k]
  BY <1>2, <1>6, <1>7, <1>9
<1>12. ASSUME NEW p \in Edge(t, n)
       PROVE  /\ p \in DOMAIN t.page /\ p \in Seq(V) /\ Len(p) \in Nat
              /\ top < Len(p) /\ Len(p) <= Len(n) /\ p = SubSeq(n, 1, Len(p))
  <2>1. /\ p \in DOMAIN t.page /\ IsPrefix(p, n) /\ p \in Seq(V)
        /\ \A m \in t.nodes : IsStrictPrefix(m, n) => Len(m) < Len(p)
    BY <1>1 DEF Edge
  <2>2. Len(Parent(t, n)) < Len(p)
    BY <1>5, <2>1 DEF T
  <2>3. p = SubSeq(n, 1, Len(p)) /\ Len(p) <= Len(n) /\ Len(p) \in Nat
    BY <1>1, <2>1, PrefixIsSubSeq, PrefixPointwise, LenProperties
  <2> QED BY <1>6, <2>1, <2>2, <2>3
<1>13. ASSUME NEW k \in 1..Len(e)
       PROVE  /\ SubSeq(n, 1, top + k) \in Edge(t, n)
              /\ Len(SubSeq(n, 1, top + k)) = top + k
              /\ e[k] = t.page[SubSeq(n, 1, top + k)]
  <2> DEFINE q == SubSeq(n, 1, top + k)
  <2>1. top + k \in 0..Len(n) /\ top + k \in 1..Len(n) /\ top < top + k
    BY <1>2, <1>6, <1>11
  <2>2. q \in Seq(V) /\ Len(q) = top + k /\ IsPrefix(q, n)
    BY <1>1, <2>1, FirstElements, SubSeqIsPrefix
  <2>3. e[k] = t.page[q]
    BY <1>8, <1>11, <2>1
  <2> HIDE DEF q
  <2>4. q # Root
    BY <2>1, <2>2, RootIsPrefix
  <2>5. q \in DOMAIN t.page
    BY <1>1, <2>2, <2>4 DEF Closed
  <2>6. ASSUME NEW m \in t.nodes, IsStrictPrefix(m, n) PROVE Len(m) < Len(q)
    <3>1. m \in T /\ Len(m) \in Nat
      BY <1>1, <2>6, LenProperties DEF T
    <3>2. Len(m) <= top
      BY <1>5, <1>6, <3>1
    <3> QED BY <2>1, <2>2, <3>1, <3>2
  <2>7. q \in Edge(t, n)
    BY <2>2, <2>5, <2>6 DEF Edge
  <2> QED BY <2>2, <2>3, <2>7 DEF q
<1>14. \A k \in 1..Len(e) : \E p \in Edge(t, n) : e[k] = t.page[p]
  BY <1>13
<1>15. ASSUME NEW p \in Edge(t, n) PROVE \E k \in 1..Len(e) : e[k] = t.page[p]
  <2>1. PICK k \in Int : k = Len(p) - top
    BY <1>12
  <2>2. k \in 1..Len(e) /\ top + k = Len(p)
    BY <1>2, <1>6, <1>11, <1>12, <2>1
  <2>3. SubSeq(n, 1, top + k) = p
    BY <1>12, <2>2
  <2> QED BY <1>13, <2>2, <2>3
<1>16. ASSUME TreeOnce(t.page), NEW j \in 1..Len(e), NEW k \in 1..Len(e), e[j] = e[k]
       PROVE  j = k
  <2>1. PICK p, q : /\ p \in Edge(t, n) /\ Len(p) = top + j /\ e[j] = t.page[p]
                    /\ q \in Edge(t, n) /\ Len(q) = top + k /\ e[k] = t.page[q]
    BY <1>13
  <2>2. p \in DOMAIN t.page /\ q \in DOMAIN t.page /\ t.page[p] = t.page[q]
    BY <1>12, <1>16, <2>1
  <2>3. p = q
    BY <1>16, <2>2 DEF TreeOnce
  <2>4. top + j = top + k
    BY <2>1, <2>3
  <2> QED BY <1>6, <2>4
<1>17. Edge(t, n) \subseteq DOMAIN t.page
  BY <1>12
<1> QED BY <1>10, <1>14, <1>15, <1>16, <1>17 DEF e

-----------------------------------------------------------------------------
(* The owners of the scheduler's pages.                                     *)

RowOf == [r \in Reqs |-> req[r].row]

SharedOf == [r \in Reqs |-> Len(req[r].handle)]

PagesInv == OwnedOnce(freePages, tree.page, Live, RowOf, SharedOf)

LEMMA InitPages == Init => PagesInv
<1> SUFFICES ASSUME Init PROVE PagesInv
  OBVIOUS
<1>1. Live = {}
  BY DEF Init, NoReq, Live
<1>2. freePages = [i \in 1..NumPages |-> i] /\ NumPages \in Nat
  BY Sizes DEF Init
<1>3. Len(freePages) = NumPages
  BY <1>2
<1>4. DOMAIN tree.page = {}
  BY DEF Init, EmptyTree
<1>5. FreeOnce(freePages) /\ FreeNotTree(freePages, tree.page) /\ TreeOnce(tree.page)
  BY <1>2, <1>3, <1>4 DEF FreeOnce, FreeNotTree, TreeOnce
<1>6. /\ RowsOnce(Live, RowOf, SharedOf) /\ FreeNotRow(freePages, Live, RowOf, SharedOf)
      /\ TreeNotRow(tree.page, Live, RowOf, SharedOf)
  BY <1>1 DEF RowsOnce, FreeNotRow, TreeNotRow
<1>7. Covered(freePages, tree.page, Live, RowOf, SharedOf)
  <2>1. \A a \in Pages : \E i \in 1..Len(freePages) : freePages[i] = a
    BY <1>2, <1>3 DEF Pages
  <2> QED BY <2>1 DEF Covered
<1> QED BY <1>5, <1>6, <1>7 DEF PagesInv, OwnedOnce

(* Steps that move no page.                                                  *)
LEMMA PagesStay ==
  ASSUME PagesInv, freePages' = freePages, tree'.page = tree.page,
         Live \subseteq Live', Live' \subseteq Reqs,
         \A r \in Live : req'[r].row = req[r].row /\ req'[r].handle = req[r].handle,
         \A r \in Live' \ Live :
           Len(req'[r].row) \in Nat /\ Len(req'[r].row) = Len(req'[r].handle)
  PROVE  PagesInv'
<1>1. \A r \in Live : RowOf'[r] = RowOf[r] /\ SharedOf'[r] = SharedOf[r]
  BY DEF RowOf, SharedOf
<1>2. ASSUME NEW r \in Live' \ Live PROVE Own(r, RowOf', SharedOf') = {}
  <2>1. PICK k \in Nat : Len(RowOf'[r]) = k /\ SharedOf'[r] = k
    BY DEF RowOf, SharedOf
  <2>2. k + 1 .. k = {}
    OBVIOUS
  <2> QED BY <2>1, <2>2 DEF Own
<1>3. OwnedOnce(freePages, tree.page, Live', RowOf', SharedOf')
  BY <1>1, <1>2, SameOwned DEF PagesInv
<1> QED BY <1>3 DEF PagesInv

LEMMA IdlePages ==
  ASSUME PagesInv, Idles
  PROVE  PagesInv'
<1>1. req' = req /\ tree' = tree /\ freePages' = freePages
  BY DEF Idles, cache
<1>2. Live' = Live /\ Live \subseteq Reqs
  BY <1>1 DEF Live
<1> QED BY <1>1, <1>2, PagesStay

LEMMA QuietPages ==
  ASSUME IInv, PagesInv,
         \/ (\E r \in Reqs : Submit(r)) \/ ProcessMsg
         \/ ContinueChunk \/ TryAllocate \/ Starved
         \/ AdmitWithoutSlot \/ AdmitWithFreeSlot \/ AdmitWithShedSlot
  PROVE  PagesInv'
<1>1. req \in [Reqs -> ReqRecord] /\ IsTree(tree, Vocab, Pages, Slots) /\ Live' \subseteq Reqs
  BY DEF IInv, Typed, Live
<1>2. CASE (\E r \in Reqs : Submit(r)) \/ ProcessMsg
  <2>1. /\ tree' = tree /\ freePages' = freePages /\ Live' = Live
        /\ \A q \in Live : req'[q] = req[q]
    BY <1>2, MessageFacts DEF Live
  <2> QED BY <1>1, <2>1, PagesStay
<1>4. CASE ContinueChunk
  <2>1. PICK r \in Reqs : \E new :
          /\ req[r].stage = "live" /\ req' = [req EXCEPT ![r] = new] /\ new.stage = "live"
          /\ new.handle = req[r].handle /\ new.row = req[r].row
    BY <1>4, ContinueFacts
  <2>2. tree' = tree /\ freePages' = freePages
    BY <1>4, ContinueFacts
  <2>3. Live' = Live /\ \A q \in Live : req'[q].row = req[q].row /\ req'[q].handle = req[q].handle
    BY <1>1, <2>1 DEF Live
  <2> QED BY <1>1, <2>2, <2>3, PagesStay
<1>5. CASE TryAllocate
  <2>1. freePages' = freePages
    BY <1>5, TryAllocateFacts
  <2>2. PICK r \in Reqs, h \in Seq(Vocab) : \E walked :
          /\ req[r].stage = "pending"
          /\ IsTree(walked, Vocab, Pages, Slots) /\ walked.page = tree.page
          /\ \/ tree' = Lock(walked, h)
             \/ tree' = walked
          /\ \/ \E new : req' = [req EXCEPT ![r] = new] /\ new.stage = "pending"
             \/ req' = req
    BY <1>5, TryAllocateFacts
  <2>3. tree'.page = tree.page
    BY <2>2, LockResult
  <2>4. Live' = Live /\ \A q \in Live : req'[q] = req[q]
    BY <1>1, <2>2 DEF Live
  <2> QED BY <1>1, <2>1, <2>3, <2>4, PagesStay
<1>6. CASE Starved
  <2>1. PICK r \in Reqs : \E new :
          /\ req[r].stage = "pending" /\ tree' = Unlock(tree, req[r].handle)
          /\ req' = [req EXCEPT ![r] = new] /\ new.stage = "pending"
    BY <1>6, StarvedFacts
  <2>2. freePages' = freePages
    BY <1>6, StarvedFacts
  <2>3. tree'.page = tree.page
    BY <1>1, <2>1, UnlockResult
  <2>4. Live' = Live /\ \A q \in Live : req'[q] = req[q]
    BY <1>1, <2>1 DEF Live
  <2> QED BY <1>1, <2>2, <2>3, <2>4, PagesStay
<1>7. CASE AdmitWithoutSlot \/ AdmitWithFreeSlot \/ AdmitWithShedSlot
  <2>1. PICK r \in Reqs : \E new :
          /\ req[r].stage = "pending" /\ Len(req[r].handle) = Len(req[r].row)
          /\ req' = [req EXCEPT ![r] = new] /\ new.stage = "live"
          /\ new.handle = req[r].handle /\ new.row = req[r].row
    BY <1>7, AdmitFacts
  <2>2. tree'.page = tree.page /\ freePages' = freePages
    BY <1>7, AdmitFacts
  <2>3. /\ Live' = Live \cup {r} /\ r \notin Live
        /\ \A q \in Reqs : req'[q].row = req[q].row /\ req'[q].handle = req[q].handle
    BY <1>1, <2>1 DEF Live
  <2>4. Len(req'[r].row) \in Nat /\ Len(req'[r].row) = Len(req'[r].handle)
    BY <1>1, <2>1, <2>3, ReqFields
  <2> QED BY <1>1, <2>2, <2>3, <2>4, PagesStay DEF Live
<1> QED BY <1>2, <1>4, <1>5, <1>6, <1>7

LEMMA EvictPages ==
  ASSUME Settled, PagesInv, Evicts
  PROVE  PagesInv'
<1>1. IsTree(tree, Vocab, Pages, Slots) /\ freePages \in Seq(Pages)
  BY DEF Settled, Typed
<1>2. PICK n \in UnlockedLeaves(tree) :
        /\ tree' = RemoveLeaf(tree, n) /\ freePages' = freePages \o EvictedPages(tree, n)
  BY EvictFacts
<1>3. req' = req /\ Live' = Live /\ RowOf' = RowOf /\ SharedOf' = SharedOf
  BY EvictFacts DEF Live, RowOf, SharedOf
<1>4. /\ n \in tree.nodes /\ n # Root
      /\ DOMAIN tree'.page = DOMAIN tree.page \ Edge(tree, n)
      /\ \A q \in DOMAIN tree'.page : tree'.page[q] = tree.page[q]
  BY <1>1, <1>2, RemoveLeafFields
<1> DEFINE e == EvictedPages(tree, n)
           E == Edge(tree, n)
<1>5. TreeOnce(tree.page)
  BY DEF PagesInv, OwnedOnce
<1>6. /\ e \in Seq(Pages) /\ E \subseteq DOMAIN tree.page
      /\ \A k \in 1..Len(e) : \E p \in E : e[k] = tree.page[p]
      /\ \A p \in E : \E k \in 1..Len(e) : e[k] = tree.page[p]
      /\ \A j, k \in 1..Len(e) : e[j] = e[k] => j = k
  BY <1>1, <1>4, <1>5, EvictedPagesOfEdge
<1>7. freePages' = freePages \o e
  BY <1>2
<1> HIDE DEF e, E
<1>8. DOMAIN tree'.page = DOMAIN tree.page \ E
  BY <1>4 DEF E
<1>9. OwnedOnce(freePages \o e, tree'.page, Live, RowOf, SharedOf)
  BY <1>1, <1>4, <1>6, <1>8, EvictedOnce DEF PagesInv
<1> QED BY <1>3, <1>7, <1>9 DEF PagesInv

(* The prefixes an insertion adds: those longer than what matched.           *)
LEMMA NewPrefixes ==
  ASSUME NEW t, NEW V, NEW P, NEW S, IsTree(t, V, P, S), NEW ids \in Seq(V),
         NEW n \in Nat, n = Len(Matched(t, ids))
  PROVE  LET D == (Prefixes(ids) \ {Root}) \ DOMAIN t.page
         IN /\ \A p \in D : Len(p) \in n + 1 .. Len(ids)
            /\ \A p, q \in D : Len(p) = Len(q) => p = q
            /\ \A j \in n + 1 .. Len(ids) : \E p \in D : Len(p) = j
<1> DEFINE D == (Prefixes(ids) \ {Root}) \ DOMAIN t.page
           m == Matched(t, ids)
<1>1. /\ m \in Seq(V) /\ IsPrefix(m, ids) /\ \E k \in t.nodes : IsPrefix(m, k)
      /\ \A q \in Seq(V), k \in t.nodes : IsPrefix(q, ids) /\ IsPrefix(q, k) => IsPrefix(q, m)
      /\ n = Len(m)
  BY MatchedIsLongest
<1>2. t.nodes \subseteq Seq(V) /\ Closed(t, V)
  BY DEF IsTree
<1> HIDE DEF m
<1>3. \A p \in Seq(V) : p \in D <=> IsPrefix(p, ids) /\ p # Root /\ p \notin DOMAIN t.page
  BY PrefixesMembers
<1>4. D \subseteq Seq(V)
  BY PrefixesMembers
<1> HIDE DEF D
<1>5. ASSUME NEW p \in D PROVE Len(p) \in n + 1 .. Len(ids)
  <2>1. p \in Seq(V) /\ IsPrefix(p, ids) /\ p # Root /\ p \notin DOMAIN t.page
    BY <1>3, <1>4
  <2>2. Len(p) \in Nat /\ Len(p) <= Len(ids) /\ Len(ids) \in Nat
    BY <2>1, PrefixPointwise, LenProperties
  <2>3. ~ (Len(p) <= Len(m))
    <3>1. ASSUME Len(p) <= Len(m) PROVE FALSE
      <4>1. IsPrefix(p, m)
        BY <1>1, <2>1, <3>1, PrefixesNested
      <4>2. PICK k \in t.nodes : IsPrefix(m, k)
        BY <1>1
      <4>3. IsPrefix(p, k)
        BY <1>1, <1>2, <2>1, <4>1, <4>2, PrefixTransitive
      <4> QED BY <1>2, <2>1, <4>3 DEF Closed
    <3> QED BY <3>1
  <2> QED BY <1>1, <2>2, <2>3
<1>6. ASSUME NEW p \in D, NEW q \in D, Len(p) = Len(q) PROVE p = q
  <2>1. p \in Seq(V) /\ IsPrefix(p, ids) /\ q \in Seq(V) /\ IsPrefix(q, ids)
    BY <1>3, <1>4
  <2>2. p = SubSeq(ids, 1, Len(p)) /\ q = SubSeq(ids, 1, Len(q))
    BY <2>1, PrefixIsSubSeq
  <2> QED BY <1>6, <2>2
<1>7. ASSUME NEW j \in n + 1 .. Len(ids) PROVE \E p \in D : Len(p) = j
  <2> DEFINE p == SubSeq(ids, 1, j)
  <2>1. j \in 0..Len(ids) /\ j > n /\ j \in Nat
    BY LenProperties
  <2>2. p \in Seq(V) /\ Len(p) = j /\ IsPrefix(p, ids)
    BY <2>1, FirstElements, SubSeqIsPrefix
  <2> HIDE DEF p
  <2>3. p # Root
    BY <2>1, <2>2, RootIsPrefix
  <2>4. p \notin DOMAIN t.page
    <3>1. ASSUME p \in DOMAIN t.page PROVE FALSE
      <4>1. PICK k \in t.nodes : IsPrefix(p, k)
        BY <1>2, <2>2, <3>1 DEF Closed
      <4>2. IsPrefix(p, m)
        BY <1>1, <2>2, <4>1
      <4>3. Len(p) <= Len(m)
        BY <1>1, <2>2, <4>2, PrefixPointwise
      <4> QED BY <1>1, <2>1, <2>2, <4>3
    <3> QED BY <3>1
  <2> QED BY <1>3, <2>2, <2>3, <2>4
<1> QED BY <1>5, <1>6, <1>7 DEF D

(* What a request matched when it was admitted is matched when it is over.   *)
LEMMA HandleMatched ==
  ASSUME IInv, LocksInv, HandlesFit, NEW r \in Live,
         NEW ids \in Seq(Vocab), ids = SubSeq(req[r].ids, 1, req[r].cached),
         Len(ids) = req[r].cached
  PROVE  Len(req[r].handle) <= Len(Matched(tree, ids))
<1>1. /\ req \in [Reqs -> ReqRecord] /\ IsTree(tree, Vocab, Pages, Slots)
      /\ r \in Reqs /\ r \in Locked
  BY DEF IInv, Typed, Live, Locked
<1>2. PICK h \in Seq(Vocab), s \in Seq(Vocab), c \in Nat :
        h = req[r].handle /\ s = req[r].ids /\ c = req[r].cached
  BY <1>1, ReqFields
<1>3. h \in tree.nodes /\ Len(h) <= c /\ IsPrefix(h, s)
  BY <1>1, <1>2 DEF LocksInv, CountsLocks, Handles, HandlesFit, HandleFits
<1>4. c \in 0..Len(s)
  <2>1. c <= Len(s) /\ Len(s) \in Nat
    BY <1>1, <1>2, ReqFields DEF IInv, LengthsOK, ReqLengths
  <2> QED BY <2>1
<1>5. IsPrefix(ids, s)
  BY <1>2, <1>4, SubSeqIsPrefix
<1>6. IsPrefix(h, ids)
  BY <1>2, <1>3, <1>5, PrefixesNested
<1>7. IsPrefix(h, Matched(tree, ids)) /\ Matched(tree, ids) \in Seq(Vocab)
  <2>1. IsPrefix(h, h)
    BY <1>2, RootIsPrefix
  <2> QED BY <1>1, <1>3, <1>6, <2>1, MatchedIsLongest
<1>8. Len(h) <= Len(Matched(tree, ids))
  BY <1>7, PrefixPointwise
<1> QED BY <1>2, <1>8

LEMMA CleanupPages ==
  ASSUME IInv, RowsSettled, LocksInv, HandlesFit, PagesInv, Cleanup
  PROVE  PagesInv'
<1>1. /\ req \in [Reqs -> ReqRecord] /\ IsTree(tree, Vocab, Pages, Slots)
      /\ freePages \in Seq(Pages) /\ finished \subseteq Reqs
  BY DEF IInv, Typed
<1>2. PICK r \in finished, ids \in Seq(Vocab), n \in Nat :
        /\ r \in Live /\ ids = SubSeq(req[r].ids, 1, req[r].cached)
        /\ Len(ids) = req[r].cached
        /\ n = IF CacheType = "naive" THEN Len(ids) ELSE Len(Matched(tree, ids))
        /\ n <= Len(ids)
        /\ tree' = IF CacheType = "naive" THEN tree
                   ELSE Unlock(Insert(tree, ids, req[r].row, req[r].slot), req[r].handle)
        /\ freePages' = freePages \o Duplicates(r, n)
        /\ \E new : req' = [req EXCEPT ![r] = new] /\ new.stage = "done"
  <2>1. PICK r \in finished, ids \in Seq(Vocab), n \in Nat : \E new :
          /\ r \in Live /\ ~ req[r].chunked /\ finished' = finished \ {r}
          /\ ids = SubSeq(req[r].ids, 1, req[r].cached)
          /\ Len(ids) = req[r].cached /\ Len(ids) <= Len(req[r].row)
          /\ n = IF CacheType = "naive" THEN Len(ids) ELSE Len(Matched(tree, ids))
          /\ n <= Len(ids)
          /\ tree' = IF CacheType = "naive" THEN tree
                     ELSE Unlock(Insert(tree, ids, req[r].row, req[r].slot), req[r].handle)
          /\ freePages' = freePages \o Duplicates(r, n)
          /\ rows' = Append(rows, LeftInRow(r))
          /\ req' = [req EXCEPT ![r] = new]
          /\ new.stage = "done" /\ new.slot = None /\ new.cached = 0 /\ new.chunked = FALSE
    BY CleanupFacts
  <2> QED BY <2>1
<1>3. pc = "cleanup" /\ r \in Reqs
  BY <1>1, <1>2, CleanupFacts
<1>4. Live' = Live \ {r} /\ \A q \in Live' : req'[q] = req[q]
  BY <1>1, <1>2 DEF Live
<1>5. PICK row \in Seq(Pages), slot \in Slots \cup {None}, c \in Nat, b \in Nat :
        /\ row = req[r].row /\ slot = req[r].slot /\ c = Len(req[r].row)
        /\ b = Len(req[r].handle)
  BY <1>1, <1>3, ReqFields
<1>6. c = Len(ids) /\ c = req[r].cached /\ c = Len(row)
  BY <1>2, <1>3, <1>5 DEF RowsSettled, RowFull
<1>7. /\ IsPrefix(req[r].handle, req[r].ids) /\ b <= c /\ req[r].handle \in Seq(Vocab)
      /\ req[r].ids \in Seq(Vocab) /\ req[r].handle \in tree.nodes
  <2>1. r \in Locked
    BY <1>2 DEF Locked
  <2>2. req[r].handle \in tree.nodes
    BY <1>3, <2>1 DEF LocksInv, CountsLocks, Handles
  <2>3. HandleFits(req[r])
    BY <1>2 DEF HandlesFit
  <2>4. IsPrefix(req[r].handle, req[r].ids) /\ b <= c
    BY <1>5, <1>6, <2>3 DEF HandleFits
  <2> QED BY <1>1, <1>3, <2>2, <2>4, ReqFields
<1>8. b <= n
  <2>1. CASE CacheType = "naive"
    BY <1>2, <1>6, <1>7, <2>1
  <2>2. CASE CacheType # "naive"
    <3>1. Len(req[r].handle) <= Len(Matched(tree, ids))
      BY <1>2, HandleMatched
    <3> QED BY <1>2, <1>5, <2>2, <3>1
  <2> QED BY <2>1, <2>2
<1> DEFINE d == Duplicates(r, n)
<1>9. d \in Seq(Pages) /\ Len(d) = n - b /\ \A i \in 1..Len(d) : d[i] = row[b + i]
  <2>1. d = SubSeq(row, b + 1, n) /\ n <= Len(row)
    BY <1>2, <1>5, <1>6 DEF Duplicates
  <2> HIDE DEF d
  <2> QED BY <1>8, <2>1
<1>10. freePages' = freePages \o d
  BY <1>2
<1> HIDE DEF d
<1>11. \E D, K : GivenBack(row, b, n, d, tree.page, tree'.page, D, K)
  <2>1. CASE CacheType = "naive"
    <3>1. tree' = tree /\ n = Len(row)
      BY <1>2, <1>6, <2>1
    <3>2. n + 1 .. Len(row) = {}
      BY <3>1
    <3>3. GivenBack(row, b, n, d, tree.page, tree'.page, {}, <<>>)
      BY <1>9, <3>1, <3>2 DEF GivenBack
    <3> QED BY <3>3
  <2>2. CASE CacheType # "naive"
    <3> DEFINE u == Insert(tree, ids, row, slot)
               D == (Prefixes(ids) \ {Root}) \ DOMAIN tree.page
               K == [p \in D |-> Len(p)]
    <3>1. tree' = Unlock(u, req[r].handle)
      BY <1>2, <1>5, <2>2
    <3>2. IsTree(u, Vocab, Pages, Slots)
      <4>1. Len(ids) <= Len(row)
        BY <1>6
      <4> QED BY <1>1, <4>1, InsertResult
    <3>3. /\ DOMAIN u.page = DOMAIN tree.page \cup (Prefixes(ids) \ {Root})
          /\ \A q \in DOMAIN u.page :
               u.page[q] = IF q \in DOMAIN tree.page THEN tree.page[q] ELSE row[Len(q)]
      BY <1>1, InsertPages
    <3>4. /\ \A p \in D : Len(p) \in n + 1 .. Len(ids)
          /\ \A p, q \in D : Len(p) = Len(q) => p = q
          /\ \A j \in n + 1 .. Len(ids) : \E p \in D : Len(p) = j
      <4>1. n = Len(Matched(tree, ids))
        BY <1>2, <2>2
      <4> QED BY <1>1, <4>1, NewPrefixes
    <3> HIDE DEF u
    <3>5. tree'.page = u.page
      BY <3>1, <3>2, UnlockResult
    <3>6. DOMAIN u.page = DOMAIN tree.page \cup D /\ \A p \in D : p \notin DOMAIN tree.page
      BY <3>3
    <3> HIDE DEF D
    <3>7. GivenBack(row, b, n, d, tree.page, tree'.page, D, K)
      BY <1>6, <1>9, <3>3, <3>4, <3>5, <3>6 DEF GivenBack
    <3> QED BY <3>7
  <2> QED BY <2>1, <2>2
<1>12. OwnedOnce(freePages \o d, tree'.page, Live', RowOf, SharedOf)
  <2>1. RowOf[r] = row /\ SharedOf[r] = b /\ n \in b..c
    BY <1>2, <1>3, <1>5, <1>6, <1>8 DEF RowOf, SharedOf
  <2>2. PICK D, K : GivenBack(RowOf[r], b, n, d, tree.page, tree'.page, D, K)
    BY <1>11, <2>1
  <2>3. OwnedOnce(freePages, tree.page, Live, RowOf, SharedOf)
    BY DEF PagesInv
  <2> QED BY <1>1, <1>2, <1>4, <1>6, <1>9, <2>1, <2>2, <2>3, ReleasedOnce
<1>13. OwnedOnce(freePages \o d, tree'.page, Live', RowOf', SharedOf')
  <2>1. \A s \in Live' : RowOf'[s] = RowOf[s] /\ SharedOf'[s] = SharedOf[s]
    BY <1>4 DEF RowOf, SharedOf, Live
  <2> QED BY <1>12, <2>1, SameOwned
<1> QED BY <1>10, <1>13 DEF PagesInv

LEMMA CorePages ==
  ASSUME IInv, RowsSettled, LocksInv, HandlesFit, PagesInv, CoreStep
  PROVE  PagesInv'
<1>1. CASE StartStep \/ StopAdmission \/ EndStep \/ RunWhenIdle
  BY <1>1, IdleSteps, IdlePages
<1>2. CASE EvictForSlot
  BY <1>2, EvictForSlotEvicts, InvSettled, EvictPages
<1> QED BY <1>1, <1>2, QuietPages, CleanupPages DEF CoreStep, Select

(* The pages that a request is given go from the list to its row.            *)
LEMMA TakenPages ==
  ASSUME Settled, RowsSettled, HandlesFit, PagesInv, NEW r, NEW n, Takes(r, n)
  PROVE  PagesInv'
<1>1. /\ req \in [Reqs -> ReqRecord] /\ freePages \in Seq(Pages)
      /\ r \in Reqs /\ n \in 0..Len(freePages)
  BY DEF Settled, Typed, Takes
<1>2. /\ pc = "alloc" /\ prepared \in Nat /\ prepared + 1 \in 1..Len(batch) /\ tree' = tree
      /\ batch[prepared + 1] = r /\ freePages' = SubSeq(freePages, n + 1, Len(freePages))
  BY DEF Takes
<1>3. /\ \A q \in Reqs \ {r} : req'[q] = req[q]
      /\ req'[r].handle = req[r].handle /\ Len(req'[r].row) = req[r].cached + n
      /\ \A i \in 1..req[r].cached : req'[r].row[i] = req[r].row[i]
      /\ \A i \in 1..n : req'[r].row[req[r].cached + i] = freePages[i]
      /\ Live' = Live /\ r \in Live
  BY TakenReq DEF Settled
<1>4. PICK c \in Nat, b \in Nat : c = req[r].cached /\ b = Len(req[r].handle)
  BY <1>1, ReqFields
<1>5. Len(req[r].row) = c
  <2>1. \A i \in 1..prepared : batch[i] # r
    <3>1. \A i \in 1..prepared : i \in 1..Len(batch) /\ i # prepared + 1
      BY <1>2
    <3> QED BY <1>2, <3>1 DEF RowsSettled
  <2> QED BY <1>2, <1>3, <1>4, <2>1 DEF RowsSettled, RowFull
<1>6. b <= c
  BY <1>3, <1>4 DEF HandlesFit, HandleFits
<1>7. SharedOf' = SharedOf
  <2>1. \A s \in Reqs : req'[s].handle = req[s].handle
    BY <1>3
  <2> QED BY <2>1 DEF SharedOf
<1>8. \A s \in Reqs : RowOf'[s] = req'[s].row /\ RowOf[s] = req[s].row
  BY DEF RowOf
<1>9. OwnedOnce(SubSeq(freePages, n + 1, Len(freePages)), tree.page, Live, RowOf', SharedOf)
  <2>1. \A s \in Live \ {r} : RowOf'[s] = RowOf[s]
    BY <1>3, <1>8 DEF Live
  <2>2. b = SharedOf[r]
    BY <1>1, <1>4 DEF SharedOf
  <2>3. c = Len(RowOf[r]) /\ Len(RowOf'[r]) = c + n
    BY <1>1, <1>3, <1>4, <1>5, <1>8
  <2>4. /\ \A i \in 1..c : RowOf'[r][i] = RowOf[r][i]
        /\ \A i \in 1..n : RowOf'[r][c + i] = freePages[i]
    BY <1>1, <1>3, <1>4, <1>8
  <2>5. OwnedOnce(freePages, tree.page, Live, RowOf, SharedOf)
    BY DEF PagesInv
  <2>6. Allocated(freePages, n, Live, RowOf, RowOf', r, c)
    BY <2>1, <2>3, <2>4 DEF Allocated
  <2> QED BY <1>1, <1>3, <1>6, <2>2, <2>5, <2>6, AllocatedOnce
<1> QED BY <1>2, <1>3, <1>7, <1>9 DEF PagesInv

(* A page that is in one place, and there once, has one owner.               *)
LEMMA OneOwner ==
  ASSUME Settled, PagesInv
  PROVE  PageOwnership
<1> SUFFICES ASSUME NEW p \in Pages PROVE Cardinality(Owners(p)) = 1
  BY DEF PageOwnership
<1>1. DOMAIN freePages = 1..Len(freePages)
  BY DEF Settled, Typed
<1>2. /\ FreeOnce(freePages) /\ TreeOnce(tree.page) /\ RowsOnce(Live, RowOf, SharedOf)
      /\ FreeNotTree(freePages, tree.page) /\ FreeNotRow(freePages, Live, RowOf, SharedOf)
      /\ TreeNotRow(tree.page, Live, RowOf, SharedOf)
      /\ Covered(freePages, tree.page, Live, RowOf, SharedOf)
  BY DEF PagesInv, OwnedOnce
<1>3. \A r \in Live : /\ Own(r, RowOf, SharedOf) = Len(req[r].handle) + 1 .. Len(req[r].row)
                      /\ RowOf[r] = req[r].row
  BY DEF Own, RowOf, SharedOf, Live
<1> DEFINE InFree(x) == \E i \in 1..Len(freePages) : freePages[i] = p /\ x = <<"free", i>>
           InTree(x) == \E q \in DOMAIN tree.page : tree.page[q] = p /\ x = <<"tree", q>>
           InRow(x) == \E r \in Live : \E i \in Own(r, RowOf, SharedOf) :
                         RowOf[r][i] = p /\ x = <<"row", r, i>>
<1>4. \A x : x \in Owners(p) <=> InFree(x) \/ InTree(x) \/ InRow(x)
  <2> DEFINE F == {<<"free", i>> : i \in {i \in DOMAIN freePages : freePages[i] = p}}
             T == {<<"tree", q>> : q \in {q \in DOMAIN tree.page : tree.page[q] = p}}
             Taken(r) == {<<"row", r, i>> :
               i \in {i \in Len(req[r].handle) + 1 .. Len(req[r].row) : req[r].row[i] = p}}
             W == UNION {Taken(r) : r \in Live}
  <2>1. Owners(p) = F \cup T \cup W
    BY DEF Owners
  <2>2. \A x : x \in F <=> InFree(x)
    BY <1>1
  <2>3. \A x : x \in T <=> InTree(x)
    OBVIOUS
  <2>4. \A r \in Live : \A x :
          x \in Taken(r) <=> \E i \in Own(r, RowOf, SharedOf) :
                               RowOf[r][i] = p /\ x = <<"row", r, i>>
    BY <1>3
  <2> HIDE DEF Taken
  <2>5. \A x : x \in W <=> InRow(x)
    BY <2>4
  <2> HIDE DEF F, T, W, InFree, InTree, InRow
  <2> QED BY <2>1, <2>2, <2>3, <2>5
<1>5. ASSUME NEW x, NEW y, InFree(x), InFree(y) PROVE x = y
  BY <1>2, <1>5 DEF FreeOnce
<1>6. ASSUME NEW x, NEW y, InTree(x), InTree(y) PROVE x = y
  BY <1>2, <1>6 DEF TreeOnce
<1>7. ASSUME NEW x, NEW y, InRow(x), InRow(y) PROVE x = y
  BY <1>2, <1>7 DEF RowsOnce
<1>8. ASSUME NEW x, NEW y PROVE ~ (InFree(x) /\ InTree(y))
  BY <1>2 DEF FreeNotTree
<1>9. ASSUME NEW x, NEW y PROVE ~ (InFree(x) /\ InRow(y))
  BY <1>2 DEF FreeNotRow
<1>10. ASSUME NEW x, NEW y PROVE ~ (InTree(x) /\ InRow(y))
  BY <1>2 DEF TreeNotRow
<1>11. \E x : InFree(x) \/ InTree(x) \/ InRow(x)
  <2>1. CASE \E i \in 1..Len(freePages) : freePages[i] = p
    <3>1. PICK i \in 1..Len(freePages) : freePages[i] = p
      BY <2>1
    <3>2. InFree(<<"free", i>>)
      BY <3>1
    <3> QED BY <3>2
  <2>2. CASE \E q \in DOMAIN tree.page : tree.page[q] = p
    <3>1. PICK q \in DOMAIN tree.page : tree.page[q] = p
      BY <2>2
    <3>2. InTree(<<"tree", q>>)
      BY <3>1
    <3> QED BY <3>2
  <2>3. CASE \E r \in Live : \E i \in Own(r, RowOf, SharedOf) : RowOf[r][i] = p
    <3>1. PICK r \in Live : \E i \in Own(r, RowOf, SharedOf) : RowOf[r][i] = p
      BY <2>3
    <3>2. PICK i \in Own(r, RowOf, SharedOf) : RowOf[r][i] = p
      BY <3>1
    <3>3. InRow(<<"row", r, i>>)
      BY <3>2
    <3> QED BY <3>3
  <2> QED BY <1>2, <2>1, <2>2, <2>3 DEF Covered
<1> HIDE DEF InFree, InTree, InRow
<1>12. PICK x : x \in Owners(p)
  BY <1>4, <1>11
<1>13. \A y : y \in Owners(p) => y = x
  BY <1>4, <1>5, <1>6, <1>7, <1>8, <1>9, <1>10, <1>12
<1>14. Owners(p) = {x}
  BY <1>12, <1>13
<1> QED BY <1>14, FS_Singleton

-----------------------------------------------------------------------------
(* The K/V in the pages.                                                    *)

RowHolds(x, f) == \A i \in 1..x.cached : f[x.row[i]] = SubSeq(x.ids, 1, i)

TreeHolds(t, f) == \A p \in DOMAIN t.page : f[t.page[p]] = p

Contents(f) == TreeHolds(tree, f) /\ \A r \in Live : RowHolds(req[r], f)

LEMMA ContentsAreContext == Contents(kv) => ContextCorrect
BY DEF Contents, ContextCorrect, TreeHolds, RowHolds

(* A sequence and one it begins start alike.                                 *)
LEMMA SameStart ==
  ASSUME NEW V, NEW s \in Seq(V), NEW t \in Seq(V), IsPrefix(s, t), NEW i \in 0..Len(s)
  PROVE  SubSeq(s, 1, i) = SubSeq(t, 1, i)
<1>1. i <= Len(t) /\ i \in Nat /\ Len(t) \in Nat /\ Len(s) \in Nat
  BY PrefixPointwise, LenProperties
<1>2. i \in 0..Len(t)
  BY <1>1
<1> DEFINE p == SubSeq(s, 1, i)
           q == SubSeq(t, 1, i)
<1>3. p \in Seq(V) /\ Len(p) = i /\ IsPrefix(p, s)
  BY FirstElements, SubSeqIsPrefix
<1>4. q \in Seq(V) /\ Len(q) = i /\ IsPrefix(q, t)
  BY <1>2, FirstElements, SubSeqIsPrefix
<1> HIDE DEF p, q
<1>5. IsPrefix(p, t)
  BY <1>3, PrefixTransitive
<1>6. p = SubSeq(t, 1, Len(p)) /\ q = SubSeq(t, 1, Len(q))
  BY <1>3, <1>4, <1>5, PrefixIsSubSeq
<1> QED BY <1>3, <1>4, <1>6 DEF p, q

LEMMA InitContents == ASSUME NEW f, Init PROVE Contents(f)
BY DEF Init, EmptyTree, NoReq, Contents, TreeHolds, RowHolds, Live

(* Steps that write no page and leave what is behind each request.           *)
LEMMA ContentsStay ==
  ASSUME NEW f, Contents(f), tree'.page = tree.page,
         \A r \in Live' : /\ r \in Live /\ req'[r].cached = req[r].cached
                          /\ req'[r].row = req[r].row /\ req'[r].ids = req[r].ids
  PROVE  Contents(f)'
BY DEF Contents, TreeHolds, RowHolds

LEMMA IdleContents ==
  ASSUME NEW f, Contents(f), Idles
  PROVE  Contents(f)'
BY ContentsStay DEF Idles, cache, Live

LEMMA QuietContents ==
  ASSUME NEW f, IInv, Contents(f),
         \/ (\E r \in Reqs : Submit(r)) \/ ProcessMsg
         \/ TryAllocate \/ Starved
  PROVE  Contents(f)'
<1>1. req \in [Reqs -> ReqRecord] /\ IsTree(tree, Vocab, Pages, Slots)
  BY DEF IInv, Typed
<1>2. CASE (\E r \in Reqs : Submit(r)) \/ ProcessMsg
  <2>1. tree' = tree /\ \A q \in Live' : q \in Live /\ req'[q] = req[q]
    BY <1>2, MessageFacts DEF Live
  <2> QED BY <2>1, ContentsStay
<1>4. CASE TryAllocate
  <2>2. PICK r \in Reqs, h \in Seq(Vocab) : \E walked :
          /\ req[r].stage = "pending"
          /\ IsTree(walked, Vocab, Pages, Slots) /\ walked.page = tree.page
          /\ \/ tree' = Lock(walked, h)
             \/ tree' = walked
          /\ \/ \E new : req' = [req EXCEPT ![r] = new] /\ new.stage = "pending"
             \/ req' = req
    BY <1>4, TryAllocateFacts
  <2>3. tree'.page = tree.page
    BY <2>2, LockResult
  <2>4. \A q \in Live' : q \in Live /\ req'[q] = req[q]
    BY <1>1, <2>2 DEF Live
  <2> QED BY <2>3, <2>4, ContentsStay
<1>5. CASE Starved
  <2>1. PICK r \in Reqs : \E new :
          /\ req[r].stage = "pending" /\ tree' = Unlock(tree, req[r].handle)
          /\ req' = [req EXCEPT ![r] = new] /\ new.stage = "pending"
    BY <1>5, StarvedFacts
  <2>3. tree'.page = tree.page
    BY <1>1, <2>1, UnlockResult
  <2>4. \A q \in Live' : q \in Live /\ req'[q] = req[q]
    BY <1>1, <2>1 DEF Live
  <2> QED BY <2>3, <2>4, ContentsStay
<1> QED BY <1>2, <1>4, <1>5

(* Steps that write no page: one request has its ids or its row changed, not *)
(* in what is behind it.                                                     *)
LEMMA ContentsOfOne ==
  ASSUME NEW f, Contents(f), tree'.page = tree.page,
         NEW r, RowHolds(req'[r], f), \A q \in Live' : q = r \/ (q \in Live /\ req'[q] = req[q])
  PROVE  Contents(f)'
<1>1. \A q \in Live' : RowHolds(req'[q], f)
  BY DEF Contents
<1> QED BY <1>1 DEF Contents, TreeHolds, RowHolds

(* A prefill that goes on: what is behind a request stays, the sequence      *)
(* grows at its end.                                                         *)
LEMMA BehindStays ==
  ASSUME IInv, HandlesFit, ContinueChunk
  PROVE  \A r \in Live' :
           /\ r \in Live /\ req'[r].cached = req[r].cached
           /\ req'[r].row = req[r].row /\ req'[r].slot = req[r].slot
           /\ \A i \in 0..req[r].cached : SubSeq(req'[r].ids, 1, i) = SubSeq(req[r].ids, 1, i)
<1>1. req \in [Reqs -> ReqRecord] /\ ReqLengths
  BY DEF IInv, Typed, LengthsOK
<1>2. CASE ContinueChunk
  <2>1. PICK r \in Reqs : \E new, total :
          /\ req[r].stage = "live" /\ req[r].chunked
          /\ total \in req[r].cached..InputLen(r)
          /\ req' = [req EXCEPT ![r] = new] /\ new.cached = req[r].cached
          /\ new.ids = SubSeq(req[r].prompt, 1, total) /\ new.row = req[r].row
          /\ new.slot = req[r].slot
    BY <1>2, ContinueFacts
  <2>2. PICK total \in Int :
          /\ req[r].cached <= total /\ total <= InputLen(r)
          /\ req'[r].ids = SubSeq(req[r].prompt, 1, total)
          /\ req'[r].cached = req[r].cached /\ req'[r].row = req[r].row
          /\ req'[r].slot = req[r].slot
    BY <1>1, <2>1
  <2>3. PICK c \in Nat, ids \in Seq(Vocab), prompt \in Seq(Vocab) :
          c = req[r].cached /\ ids = req[r].ids /\ prompt = req[r].prompt
    BY <1>1, ReqFields
  <2>4. r \in Live /\ c <= Len(ids) /\ IsPrefix(ids, prompt) /\ Len(ids) \in Nat
    BY <1>1, <2>1, <2>3, LenProperties DEF Live, HandlesFit, HandleFits, ReqLengths
  <2>5. total \in 0..Len(prompt) /\ Len(prompt) \in Nat
    BY <2>2, <2>3, LenProperties DEF InputLen
  <2> DEFINE new == SubSeq(prompt, 1, total)
  <2>6. new \in Seq(Vocab) /\ Len(new) = total /\ IsPrefix(new, prompt)
    BY <2>5, FirstElements, SubSeqIsPrefix
  <2> HIDE DEF new
  <2>7. \A i \in 0..c : SubSeq(new, 1, i) = SubSeq(ids, 1, i)
    <3> TAKE i \in 0..c
    <3>1. i \in 0..Len(ids) /\ i \in 0..Len(new)
      BY <2>2, <2>3, <2>4, <2>6
    <3> QED BY <2>4, <2>6, <3>1, SameStart
  <2>8. \A q \in Live' : q \in Live /\ (q = r \/ req'[q] = req[q])
    BY <1>1, <2>1 DEF Live
  <2> QED BY <2>2, <2>3, <2>7, <2>8 DEF new
<1> QED BY <1>2

LEMMA GrowContents ==
  ASSUME NEW f, Typed, Contents(f), tree'.page = tree.page,
         \A r \in Live' :
           /\ r \in Live /\ req'[r].cached = req[r].cached
           /\ \A i \in 1..req[r].cached : req'[r].row[i] = req[r].row[i]
           /\ \A i \in 0..req[r].cached : SubSeq(req'[r].ids, 1, i) = SubSeq(req[r].ids, 1, i)
  PROVE  Contents(f)'
<1>1. req \in [Reqs -> ReqRecord]
  BY DEF Typed
<1>2. ASSUME NEW r \in Live' PROVE RowHolds(req'[r], f)
  <2>1. /\ r \in Live /\ req'[r].cached = req[r].cached
        /\ \A i \in 1..req[r].cached : req'[r].row[i] = req[r].row[i]
        /\ \A i \in 0..req[r].cached : SubSeq(req'[r].ids, 1, i) = SubSeq(req[r].ids, 1, i)
    OBVIOUS
  <2>2. PICK c \in Nat : c = req[r].cached
    BY <1>1, <2>1, ReqFields DEF Live
  <2>3. \A i \in 1..c : i \in 0..c
    OBVIOUS
  <2> QED BY <2>1, <2>2, <2>3 DEF Contents, RowHolds
<1> QED BY <1>2 DEF Contents, TreeHolds

LEMMA ContinueContents ==
  ASSUME NEW f, IInv, HandlesFit, Contents(f), ContinueChunk
  PROVE  Contents(f)'
<1>1. tree' = tree
  BY ContinueFacts
<1> QED BY <1>1, BehindStays, GrowContents DEF IInv

(* New pages go behind what is there.                                        *)
LEMMA TakenContents ==
  ASSUME NEW f, Settled, Contents(f), NEW r, NEW n, Takes(r, n)
  PROVE  Contents(f)'
<1>1. tree' = tree
  BY DEF Takes
<1>2. /\ Live' = Live /\ r \in Live /\ Live \subseteq Reqs /\ \A q \in Reqs \ {r} : req'[q] = req[q]
      /\ Alike(req'[r], req[r]) /\ \A i \in 1..req[r].cached : req'[r].row[i] = req[r].row[i]
  BY TakenReq DEF Settled, Live
<1>3. RowHolds(req'[r], f)
  BY <1>2 DEF Contents, RowHolds, Alike
<1>4. \A q \in Live' : q = r \/ (q \in Live /\ req'[q] = req[q])
  BY <1>2
<1> QED BY <1>1, <1>3, <1>4, ContentsOfOne

(* A request that joins has behind it what the prefix cache had.             *)
LEMMA AdmitContents ==
  ASSUME NEW f, IInv, HandlesFit, Pinned, Contents(f),
         AdmitWithoutSlot \/ AdmitWithFreeSlot \/ AdmitWithShedSlot
  PROVE  Contents(f)'
<1>1. /\ req \in [Reqs -> ReqRecord] /\ tree'.page = tree.page
      /\ pc = "slot" /\ IsTree(tree, Vocab, Pages, Slots)
  BY AdmitFacts DEF IInv, Typed
<1>2. PICK r \in Reqs : \E new, total :
        /\ r = Current /\ total \in Len(req[r].handle)..InputLen(r)
        /\ req' = [req EXCEPT ![r] = new] /\ new.cached = Len(req[r].handle)
        /\ new.ids = SubSeq(req[r].prompt, 1, total) /\ new.row = req[r].row
  BY AdmitFacts
<1>3. PICK total \in Int :
        /\ Len(req[r].handle) <= total /\ total <= InputLen(r)
        /\ req'[r].ids = SubSeq(req[r].prompt, 1, total)
        /\ req'[r].cached = Len(req[r].handle) /\ req'[r].row = req[r].row
  BY <1>1, <1>2
<1>4. PICK h \in Seq(Vocab), prompt \in Seq(Vocab) :
        h = req[r].handle /\ prompt = req[r].prompt
  BY <1>1, ReqFields
<1>5. IsPrefix(h, prompt) /\ Points(tree, h, req[r].row) /\ Len(h) \in Nat
  <2>1. r \in Locked
    BY <1>1, <1>2 DEF Locked
  <2>2. Points(tree, req[r].handle, req[r].row)
    BY <2>1 DEF Pinned
  <2>3. IsPrefix(req[r].handle, req[r].prompt)
    BY <1>1, <1>2 DEF HandlesFit
  <2> QED BY <1>4, <2>2, <2>3, LenProperties
<1>6. total \in 0..Len(prompt) /\ Len(prompt) \in Nat /\ Len(h) <= total
  BY <1>3, <1>4, <1>5, LenProperties DEF InputLen
<1> DEFINE new == SubSeq(prompt, 1, total)
<1>7. new \in Seq(Vocab) /\ Len(new) = total /\ IsPrefix(new, prompt)
  BY <1>6, FirstElements, SubSeqIsPrefix
<1> HIDE DEF new
<1>8. ASSUME NEW i \in 1..Len(h) PROVE f[req[r].row[i]] = SubSeq(new, 1, i)
  <2>1. i \in 0..Len(h) /\ i \in 0..Len(new)
    BY <1>5, <1>6, <1>7
  <2>2. SubSeq(new, 1, i) = SubSeq(h, 1, i)
    BY <1>5, <1>7, <2>1, SameStart
  <2> DEFINE q == SubSeq(h, 1, i)
  <2>3. q \in DOMAIN tree.page /\ tree.page[q] = req[r].row[i]
    BY <1>5 DEF Points
  <2> HIDE DEF q
  <2>4. f[tree.page[q]] = q
    BY <2>3 DEF Contents, TreeHolds
  <2>5. f[req[r].row[i]] = q
    BY <2>3, <2>4
  <2> QED BY <2>2, <2>5 DEF q
<1>9. RowHolds(req'[r], f)
  BY <1>3, <1>4, <1>8 DEF RowHolds, new
<1>10. \A q \in Live' : q = r \/ (q \in Live /\ req'[q] = req[q])
  BY <1>1, <1>2 DEF Live
<1> QED BY <1>1, <1>9, <1>10, ContentsOfOne

LEMMA EvictContents ==
  ASSUME NEW f, Settled, Contents(f), Evicts
  PROVE  Contents(f)'
<1>1. PICK n \in UnlockedLeaves(tree) : tree' = RemoveLeaf(tree, n)
  BY EvictFacts
<1>2. IsTree(tree, Vocab, Pages, Slots) /\ req' = req
  BY EvictFacts DEF Settled, Typed
<1>3. /\ DOMAIN tree'.page \subseteq DOMAIN tree.page
      /\ \A q \in DOMAIN tree'.page : tree'.page[q] = tree.page[q]
  BY <1>1, <1>2, RemoveLeafFields
<1> QED BY <1>2, <1>3 DEF Contents, TreeHolds, RowHolds, Live

(* The insertion of a finished request: the pages it adds to the tree hold   *)
(* the prefixes they are now found by.                                       *)
LEMMA CleanupContents ==
  ASSUME NEW f, IInv, Contents(f), Cleanup
  PROVE  Contents(f)'
<1>1. req \in [Reqs -> ReqRecord] /\ IsTree(tree, Vocab, Pages, Slots)
  BY CleanupFacts DEF IInv, Typed
<1>2. PICK r \in finished, ids \in Seq(Vocab) :
        /\ r \in Live /\ ids = SubSeq(req[r].ids, 1, req[r].cached)
        /\ Len(ids) = req[r].cached /\ Len(ids) <= Len(req[r].row)
        /\ tree' = IF CacheType = "naive" THEN tree
                   ELSE Unlock(Insert(tree, ids, req[r].row, req[r].slot), req[r].handle)
        /\ \E new : req' = [req EXCEPT ![r] = new] /\ new.stage = "done"
  BY CleanupFacts
<1>3. r \in Reqs /\ \A q \in Live' : q \in Live /\ req'[q] = req[q]
  BY <1>1, <1>2 DEF Live
<1>4. CASE CacheType = "naive"
  BY <1>1, <1>2, <1>3, <1>4, ContentsStay
<1>5. CASE CacheType # "naive"
  <2>1. PICK row \in Seq(Pages), slot \in Slots \cup {None}, all \in Seq(Vocab), c \in Nat :
          row = req[r].row /\ slot = req[r].slot /\ all = req[r].ids /\ c = req[r].cached
    BY <1>1, <1>3, ReqFields
  <2> DEFINE u == Insert(tree, ids, row, slot)
  <2>2. tree' = Unlock(u, req[r].handle)
    BY <1>2, <1>5, <2>1
  <2>3. IsTree(u, Vocab, Pages, Slots)
    <3>1. Len(ids) <= Len(row)
      BY <1>2, <2>1
    <3> QED BY <1>1, <3>1, InsertResult
  <2>4. /\ DOMAIN u.page = DOMAIN tree.page \cup (Prefixes(ids) \ {Root})
        /\ \A q \in DOMAIN u.page :
             u.page[q] = IF q \in DOMAIN tree.page THEN tree.page[q] ELSE row[Len(q)]
    BY <1>1, InsertPages
  <2> HIDE DEF u
  <2>5. tree'.page = u.page
    BY <2>2, <2>3, UnlockResult
  <2>6. c <= Len(all) /\ ids = SubSeq(all, 1, c) /\ Len(ids) = c
    BY <1>2, <1>3, <2>1 DEF IInv, LengthsOK, ReqLengths
  <2>7. ASSUME NEW q \in Prefixes(ids) \ {Root} PROVE f[row[Len(q)]] = q
    <3>1. q \in Seq(Vocab) /\ IsPrefix(q, ids) /\ q # Root
      BY <2>7, PrefixesMembers
    <3>2. Len(q) \in 1..c /\ Len(q) \in 0..Len(ids) /\ q = SubSeq(ids, 1, Len(q))
      <4>1. Len(q) <= Len(ids) /\ Len(q) \in Nat /\ q = SubSeq(ids, 1, Len(q)) /\ Len(q) > 0
        BY <3>1, PrefixPointwise, PrefixIsSubSeq, LenProperties, RootIsPrefix
      <4> QED BY <2>6, <4>1
    <3>3. SubSeq(ids, 1, Len(q)) = SubSeq(all, 1, Len(q))
      <4>1. c \in 0..Len(all)
        BY <2>6, LenProperties
      <4>2. IsPrefix(ids, all)
        BY <2>6, <4>1, SubSeqIsPrefix
      <4> QED BY <3>2, <4>2, SameStart
    <3>4. RowHolds(req[r], f)
      BY <1>2 DEF Contents
    <3> QED BY <2>1, <3>2, <3>3, <3>4 DEF RowHolds
  <2>8. TreeHolds(tree, f)
    BY DEF Contents
  <2>9. TreeHolds(u, f)
    <3> SUFFICES ASSUME NEW q \in DOMAIN u.page PROVE f[u.page[q]] = q
      BY DEF TreeHolds
    <3>1. CASE q \in DOMAIN tree.page
      BY <2>4, <2>8, <3>1 DEF TreeHolds
    <3>2. CASE q \notin DOMAIN tree.page
      BY <2>4, <2>7, <3>2
    <3> QED BY <3>1, <3>2
  <2>10. TreeHolds(tree', f)
    BY <1>1, <2>5, <2>9 DEF TreeHolds
  <2>11. \A q \in Live' : RowHolds(req'[q], f)
    BY <1>1, <1>3 DEF Contents
  <2> QED BY <2>10, <2>11 DEF Contents
<1> QED BY <1>4, <1>5

LEMMA CoreContents ==
  ASSUME NEW f, IInv, HandlesFit, Pinned, Contents(f), CoreStep
  PROVE  Contents(f)'
<1>1. CASE StartStep \/ StopAdmission \/ EndStep \/ RunWhenIdle
  BY <1>1, IdleSteps, IdleContents
<1>2. CASE EvictForSlot
  BY <1>2, EvictForSlotEvicts, InvSettled, EvictContents
<1> QED BY <1>1, <1>2, QuietContents, ContinueContents, AdmitContents, CleanupContents
        DEF CoreStep, Select

-----------------------------------------------------------------------------
(* The recurrent states in the slots.                                       *)

SlotHolds(x, f) == x.slot # None /\ f[x.slot] = SubSeq(x.ids, 1, x.cached)

SnapsHold(t, f) == \A n \in SnapshotNodes(t) : f[t.snap[n]] = n

(* A prefix hit forks a snapshot that is there.                              *)
ForkReady ==
  pc = "slot" /\ req[Current].handle # Root => req[Current].handle \in SnapshotNodes(tree)

States ==
  /\ state \in [Slots -> Seq(Vocab)]
  /\ CacheType = "hybrid" => /\ \A r \in Live : SlotHolds(req[r], state)
                             /\ SnapsHold(tree, state)
                             /\ ForkReady

LEMMA StatesAreCorrect == States => StateCorrect
BY DEF States, StateCorrect, SlotHolds, SnapsHold, ForkReady

LEMMA InitStates == Init => States
<1> SUFFICES ASSUME Init PROVE States
  OBVIOUS
<1>1. state \in [Slots -> Seq(Vocab)]
  BY DEF Init
<1>2. Live = {} /\ pc # "slot"
  BY DEF Init, NoReq, Live
<1>3. SnapshotNodes(tree) = {}
  BY DEF Init, EmptyTree, SnapshotNodes
<1> QED BY <1>1, <1>2, <1>3 DEF States, SnapsHold, ForkReady

(* Steps that write no slot.                                                 *)
LEMMA StatesStay ==
  ASSUME States, state' = state, pc' # "slot" \/ ForkReady',
         \A n \in tree'.nodes : tree'.snap[n] # None =>
           n \in tree.nodes /\ tree'.snap[n] = tree.snap[n],
         \A r \in Live' :
           /\ r \in Live /\ req'[r].cached = req[r].cached /\ req'[r].slot = req[r].slot
           /\ SubSeq(req'[r].ids, 1, req[r].cached) = SubSeq(req[r].ids, 1, req[r].cached)
  PROVE  States'
<1>1. CacheType = "hybrid" => \A r \in Live' : SlotHolds(req'[r], state')
  BY DEF States, SlotHolds
<1>2. CacheType = "hybrid" => SnapsHold(tree', state')
  BY DEF States, SnapsHold, SnapshotNodes
<1>3. ForkReady'
  BY DEF ForkReady
<1> QED BY <1>1, <1>2, <1>3 DEF States

LEMMA IdleStates ==
  ASSUME States, Idles
  PROVE  States'
<1>1. req' = req /\ tree' = tree /\ state' = state
  BY DEF Idles, cache, data
<1>2. pc' # "slot" \/ ForkReady' \/ CacheType # "hybrid"
  BY <1>1 DEF Idles, States, ForkReady, Current
<1>3. Live' = Live /\ SnapshotNodes(tree') = SnapshotNodes(tree)
  BY <1>1 DEF Live
<1> QED BY <1>1, <1>2, <1>3 DEF States, ForkReady, SnapsHold

LEMMA TakenStates ==
  ASSUME Settled, States, NEW r, NEW n, Takes(r, n)
  PROVE  States'
<1>1. tree' = tree /\ state' = state /\ pc' # "slot"
  BY DEF Takes
<1>2. /\ Live' = Live /\ Live \subseteq Reqs /\ \A q \in Reqs \ {r} : req'[q] = req[q]
      /\ Alike(req'[r], req[r])
  BY TakenReq DEF Settled, Live
<1>3. \A q \in Live' : /\ q \in Live /\ req'[q].cached = req[q].cached
                       /\ req'[q].slot = req[q].slot /\ req'[q].ids = req[q].ids
  BY <1>2 DEF Alike
<1> QED BY <1>1, <1>3, StatesStay

LEMMA QuietStates ==
  ASSUME IInv, HandlesFit, States,
         \/ (\E r \in Reqs : Submit(r)) \/ ProcessMsg
         \/ ContinueChunk \/ Starved
  PROVE  States'
<1>1. req \in [Reqs -> ReqRecord] /\ IsTree(tree, Vocab, Pages, Slots)
  BY DEF IInv, Typed
<1>2. CASE (\E r \in Reqs : Submit(r)) \/ ProcessMsg
  <2>1. /\ pc' = "recv" /\ tree' = tree /\ state' = state
        /\ \A q \in Live' : q \in Live /\ req'[q] = req[q]
    BY <1>2, MessageFacts DEF Live
  <2> QED BY <2>1, StatesStay
<1>5. CASE ContinueChunk
  <2>1. tree' = tree /\ state' = state /\ pc' # "slot"
    BY <1>5, ContinueFacts
  <2>2. ASSUME NEW r \in Live'
        PROVE  /\ r \in Live /\ req'[r].cached = req[r].cached /\ req'[r].slot = req[r].slot
               /\ SubSeq(req'[r].ids, 1, req[r].cached) = SubSeq(req[r].ids, 1, req[r].cached)
    <3>1. /\ r \in Live /\ req'[r].cached = req[r].cached /\ req'[r].slot = req[r].slot
          /\ \A i \in 0..req[r].cached : SubSeq(req'[r].ids, 1, i) = SubSeq(req[r].ids, 1, i)
      BY <1>5, BehindStays
    <3>2. PICK c \in Nat : c = req[r].cached
      BY <1>1, <3>1, ReqFields DEF Live
    <3>3. c \in 0..c
      OBVIOUS
    <3> QED BY <3>1, <3>2, <3>3
  <2> QED BY <2>1, <2>2, StatesStay
<1>6. CASE Starved
  <2>1. PICK r \in Reqs : \E new :
          /\ req[r].stage = "pending" /\ tree' = Unlock(tree, req[r].handle)
          /\ req' = [req EXCEPT ![r] = new] /\ new.stage = "pending"
    BY <1>6, StarvedFacts
  <2>2. state' = state /\ pc' # "slot"
    BY <1>6, StarvedFacts DEF SelectBatch
  <2>3. tree'.nodes = tree.nodes /\ tree'.snap = tree.snap
    BY <1>1, <2>1, UnlockResult
  <2>4. \A q \in Live' : q \in Live /\ req'[q] = req[q]
    BY <1>1, <2>1 DEF Live
  <2> QED BY <2>2, <2>3, <2>4, StatesStay
<1> QED BY <1>2, <1>5, <1>6

LEMMA TryAllocateStates ==
  ASSUME IInv, States, TryAllocate
  PROVE  States'
<1>1. req \in [Reqs -> ReqRecord] /\ state' = state
  BY TryAllocateFacts DEF IInv, Typed
<1>2. PICK r \in Reqs, h \in Seq(Vocab) : \E walked :
        /\ r = Current /\ req[r].stage = "pending"
        /\ IsTree(walked, Vocab, Pages, Slots) /\ h \in walked.nodes
        /\ CacheType = "hybrid" /\ h # Root => walked.snap[h] # None
        /\ \A n \in tree.nodes : walked.snap[n] = tree.snap[n]
        /\ \A n \in walked.nodes \ tree.nodes : walked.snap[n] = None
        /\ \/ /\ tree' = Lock(walked, h) /\ pc' = "slot"
              /\ UNCHANGED <<pending, batch, chunked_list, budget, reserved>>
              /\ \E new : /\ req' = [req EXCEPT ![r] = new]
                          /\ new.stage = "pending" /\ new.handle = h
           \/ tree' = walked /\ SelectBatch /\ UNCHANGED req
  BY TryAllocateFacts
<1>3. PICK walked :
        /\ IsTree(walked, Vocab, Pages, Slots) /\ h \in walked.nodes
        /\ CacheType = "hybrid" /\ h # Root => walked.snap[h] # None
        /\ \A n \in tree.nodes : walked.snap[n] = tree.snap[n]
        /\ \A n \in walked.nodes \ tree.nodes : walked.snap[n] = None
        /\ \/ /\ tree' = Lock(walked, h) /\ pc' = "slot"
              /\ UNCHANGED <<pending, batch, chunked_list, budget, reserved>>
              /\ \E new : /\ req' = [req EXCEPT ![r] = new]
                          /\ new.stage = "pending" /\ new.handle = h
           \/ tree' = walked /\ SelectBatch /\ UNCHANGED req
  BY <1>2
<1>4. tree'.nodes = walked.nodes /\ tree'.snap = walked.snap
  BY <1>3, LockResult
<1>5. \A n \in tree'.nodes : tree'.snap[n] # None =>
        n \in tree.nodes /\ tree'.snap[n] = tree.snap[n]
  BY <1>3, <1>4
<1>6. \A q \in Live' : q \in Live /\ req'[q] = req[q]
  BY <1>1, <1>2, <1>3 DEF Live
<1>7. CASE tree' = walked /\ SelectBatch /\ UNCHANGED req
  <2>1. pc' # "slot"
    BY <1>7 DEF SelectBatch
  <2> QED BY <1>1, <1>5, <1>6, <2>1, StatesStay
<1>8. CASE /\ pc' = "slot" /\ UNCHANGED <<pending, batch>>
           /\ \E new : req' = [req EXCEPT ![r] = new] /\ new.handle = h
  <2>1. Current' = r
    BY <1>2, <1>8 DEF Current
  <2>2. req'[r].handle = h
    BY <1>1, <1>8
  <2>3. CacheType = "hybrid" => ForkReady'
    BY <1>3, <1>4, <2>1, <2>2 DEF ForkReady, SnapshotNodes
  <2>4. \A q \in Live' : SlotHolds(req[q], state) => SlotHolds(req'[q], state')
    BY <1>1, <1>6
  <2>5. SnapsHold(tree, state) => SnapsHold(tree', state')
    BY <1>1, <1>5 DEF SnapsHold, SnapshotNodes
  <2> QED BY <1>1, <1>6, <2>3, <2>4, <2>5 DEF States
<1> QED BY <1>3, <1>7, <1>8

(* The prefix that is about to be forked is locked, so it is not evicted.    *)
LEMMA EvictStates ==
  ASSUME Settled, LocksInv, States, Evicts
  PROVE  States'
<1>1. PICK n \in UnlockedLeaves(tree) : tree' = RemoveLeaf(tree, n)
  BY EvictFacts
<1>2. /\ IsTree(tree, Vocab, Pages, Slots) /\ state' = state /\ req' = req /\ pc' = pc
      /\ Current' = Current
  BY EvictFacts DEF Settled, Typed, Current
<1>3. /\ n \in tree.nodes /\ n # Root /\ tree.ref[n] = 0 /\ tree'.nodes = tree.nodes \ {n}
      /\ \A m \in tree'.nodes : tree'.snap[m] = tree.snap[m]
  BY <1>1, <1>2, RemoveLeafFields, RemoveLeafResult
<1>4. CacheType = "hybrid" => ForkReady'
  <2>1. ASSUME CacheType = "hybrid", pc = "slot", req[Current].handle # Root
        PROVE  req[Current].handle \in SnapshotNodes(tree) /\ req[Current].handle # n
    <3>1. Current \in Locked /\ Current \in Reqs
      BY <2>1, LockedReqs
    <3>2. Handles[Current] = req[Current].handle
      BY <3>1 DEF Handles
    <3>3. req[Current].handle \in SnapshotNodes(tree)
      BY <2>1 DEF States, ForkReady
    <3>4. ASSUME req[Current].handle = n PROVE FALSE
      <4>1. n \in Seq(Vocab)
        BY <1>2, <1>3 DEF IsTree
      <4>2. IsPrefix(n, Handles[Current])
        BY <3>2, <3>4, <4>1, RootIsPrefix
      <4>3. CountsLocks(tree, Locked, Handles)
        BY DEF LocksInv
      <4> QED BY <1>3, <3>1, <4>2, <4>3, LockedNodeCounts
    <3> QED BY <3>3, <3>4
  <2> QED BY <1>2, <1>3, <2>1 DEF ForkReady, SnapshotNodes
<1>5. \A r \in Live' : r \in Live /\ req'[r] = req[r]
  BY <1>2 DEF Live
<1>6. SnapsHold(tree, state) => SnapsHold(tree', state')
  BY <1>2, <1>3 DEF SnapsHold, SnapshotNodes
<1> QED BY <1>2, <1>4, <1>5, <1>6 DEF States

(* The slot a request is given starts at the prefix that it matched.         *)
LEMMA ForkedState ==
  ASSUME IInv, States, SlotOwnership, CacheType = "hybrid", pc = "slot",
         AdmitWithFreeSlot \/ AdmitWithShedSlot
  PROVE  \E s \in Slots :
           /\ state' = [state EXCEPT ![s] = req[Current].handle]
           /\ \E new : req' = [req EXCEPT ![Current] = new] /\ new.slot = s
           /\ \A n \in tree'.nodes : /\ n \in tree.nodes
                                     /\ tree'.snap[n] = tree.snap[n] \/ tree'.snap[n] = None
<1>1. /\ IsTree(tree, Vocab, Pages, Slots) /\ freePages \in Seq(Pages) /\ freeSlots \subseteq Slots
  BY DEF IInv, Typed
<1>2. ASSUME NEW s, ForkState(s) PROVE state' = [state EXCEPT ![s] = req[Current].handle]
  <2>1. CASE req[Current].handle = Root
    BY <1>2, <2>1 DEF ForkState, Root
  <2>2. CASE req[Current].handle # Root
    <3>1. state[tree.snap[req[Current].handle]] = req[Current].handle
      BY <2>2 DEF States, ForkReady, SnapsHold
    <3> QED BY <1>2, <2>2, <3>1 DEF ForkState
  <2> QED BY <2>1, <2>2
<1>3. CASE AdmitWithFreeSlot
  <2>1. PICK s \in freeSlots : /\ Admit(s) /\ freeSlots' = freeSlots \ {s} /\ ForkState(s)
                               /\ UNCHANGED <<tree, freePages>>
    BY <1>3 DEF AdmitWithFreeSlot
  <2>2. \E new : req' = [req EXCEPT ![Current] = new] /\ new.slot = s
    BY <1>1, <2>1, AdmitKeepsIInv
  <2> QED BY <1>1, <1>2, <2>1, <2>2
<1>4. CASE AdmitWithShedSlot
  <2>1. PICK n \in Sheddable : /\ tree' = DropSnapshot(tree, n) /\ Admit(tree.snap[n])
                               /\ ForkState(tree.snap[n])
                               /\ UNCHANGED <<freePages, freeSlots>>
    BY <1>4 DEF AdmitWithShedSlot
  <2>2. n \in SnapshotNodes(tree)
    BY <2>1 DEF Sheddable
  <2>3. /\ IsTree(tree', Vocab, Pages, Slots) /\ tree'.nodes = tree.nodes
        /\ tree.snap[n] \in Slots /\ tree'.snap[n] = None
        /\ \A m \in tree.nodes \ {n} : tree'.snap[m] = tree.snap[m]
    BY <2>1, <2>2, DropSnapshotResult DEF IInv
  <2>4. \E new : req' = [req EXCEPT ![Current] = new] /\ new.slot = tree.snap[n]
    BY <1>1, <2>1, <2>3, AdmitKeepsIInv
  <2> QED BY <1>2, <2>1, <2>3, <2>4
<1> QED BY <1>3, <1>4

LEMMA AdmitStates ==
  ASSUME IInv, HandlesFit, SlotOwnership, States,
         AdmitWithoutSlot \/ AdmitWithFreeSlot \/ AdmitWithShedSlot
  PROVE  States'
<1>1. req \in [Reqs -> ReqRecord] /\ pc = "slot" /\ pc' = "admit"
  BY AdmitFacts DEF IInv, Typed
<1>2. CASE AdmitWithoutSlot
  <2>1. CacheType # "hybrid" /\ state' = state
    BY <1>2 DEF AdmitWithoutSlot
  <2> QED BY <2>1 DEF States
<1>3. CASE AdmitWithFreeSlot \/ AdmitWithShedSlot
  <2>1. CacheType = "hybrid"
    BY <1>3 DEF AdmitWithFreeSlot, AdmitWithShedSlot
  <2>2. PICK s \in Slots :
           /\ state' = [state EXCEPT ![s] = req[Current].handle]
           /\ \E new : req' = [req EXCEPT ![Current] = new] /\ new.slot = s
           /\ \A n \in tree'.nodes : /\ n \in tree.nodes
                                     /\ tree'.snap[n] = tree.snap[n] \/ tree'.snap[n] = None
    BY <1>1, <1>3, <2>1, ForkedState
  <2>3. PICK r \in Reqs : \E new, total :
          /\ r = Current /\ total \in Len(req[r].handle)..InputLen(r)
          /\ req' = [req EXCEPT ![r] = new] /\ new.cached = Len(req[r].handle)
          /\ new.ids = SubSeq(req[r].prompt, 1, total) /\ new.row = req[r].row
    BY AdmitFacts
  <2>4. PICK total \in Int :
          /\ Len(req[r].handle) <= total /\ total <= InputLen(r)
          /\ req'[r].ids = SubSeq(req[r].prompt, 1, total)
          /\ req'[r].cached = Len(req[r].handle)
    BY <1>1, <2>3
  <2>5. PICK h \in Seq(Vocab), prompt \in Seq(Vocab) :
          h = req[r].handle /\ prompt = req[r].prompt
    BY <1>1, ReqFields
  <2>6. IsPrefix(h, prompt) /\ Len(h) \in Nat /\ IsPrefix(h, h)
    BY <1>1, <2>3, <2>5, LenProperties, RootIsPrefix DEF HandlesFit
  <2>7. total \in 0..Len(prompt) /\ Len(prompt) \in Nat /\ Len(h) <= total
    BY <2>4, <2>5, <2>6, LenProperties DEF InputLen
  <2> DEFINE ids == SubSeq(prompt, 1, total)
  <2>8. ids \in Seq(Vocab) /\ Len(ids) = total /\ IsPrefix(ids, prompt)
    BY <2>7, FirstElements, SubSeqIsPrefix
  <2> HIDE DEF ids
  <2>9. SubSeq(ids, 1, Len(h)) = h
    <3>1. IsPrefix(h, ids)
      BY <2>6, <2>7, <2>8, PrefixesNested
    <3> QED BY <2>8, <3>1, PrefixIsSubSeq
  <2>10. req'[r].slot = s /\ \A q \in Reqs \ {r} : req'[q] = req[q]
    BY <1>1, <2>2, <2>3
  <2>11. /\ \A n \in tree'.nodes : tree'.snap[n] # s
         /\ \A q \in Reqs \ {r} : req[q].slot # s
    <3>1. SlotOwnership'
      BY <1>3, AdmitSlots
    <3>2. s # None
      BY NoneAssumption
    <3>3. /\ \A n \in tree'.nodes : tree'.snap[n] # s
          /\ \A q \in Reqs \ {r} : req'[q].slot # s
      BY <2>10, <3>1, <3>2 DEF SlotOwnership
    <3> QED BY <2>10, <3>3
  <2>12. /\ state' \in [Slots -> Seq(Vocab)] /\ state'[s] = h
         /\ \A t \in Slots \ {s} : state'[t] = state[t]
    BY <2>2, <2>3, <2>5 DEF States
  <2>13. SlotHolds(req'[r], state')
    BY <2>4, <2>5, <2>9, <2>10, <2>12, NoneAssumption DEF SlotHolds, ids
  <2>14. ASSUME NEW q \in Live', q # r PROVE SlotHolds(req'[q], state')
    <3>1. q \in Live /\ q \in Reqs /\ req'[q] = req[q] /\ req[q].slot # s
      BY <2>10, <2>11, <2>14 DEF Live
    <3>2. SlotHolds(req[q], state)
      BY <2>1, <3>1 DEF States
    <3>3. req[q].slot \in Slots \ {s}
      BY <1>1, <3>1, <3>2, ReqFields DEF SlotHolds
    <3> QED BY <2>12, <3>1, <3>2, <3>3 DEF SlotHolds
  <2>15. SnapsHold(tree', state')
    <3> SUFFICES ASSUME NEW n \in SnapshotNodes(tree') PROVE state'[tree'.snap[n]] = n
      BY DEF SnapsHold
    <3>1. /\ n \in SnapshotNodes(tree) /\ tree'.snap[n] = tree.snap[n] /\ tree.snap[n] # s
          /\ tree.snap[n] # None
      BY <2>2, <2>11 DEF SnapshotNodes
    <3>2. tree.snap[n] \in Slots \ {s}
      BY <3>1 DEF IInv, Typed, IsTree, SnapshotNodes
    <3>3. state[tree.snap[n]] = n
      BY <2>1, <3>1 DEF States, SnapsHold
    <3> QED BY <2>12, <3>1, <3>2, <3>3
  <2>16. ForkReady'
    BY <1>1 DEF ForkReady
  <2> QED BY <2>12, <2>13, <2>14, <2>15, <2>16 DEF States
<1> QED BY <1>2, <1>3

(* A finished request's slot is at the end of the node that takes it.        *)
LEMMA CleanupStates ==
  ASSUME IInv, States, Cleanup
  PROVE  States'
<1>1. /\ req \in [Reqs -> ReqRecord] /\ IsTree(tree, Vocab, Pages, Slots)
      /\ state' = state /\ pc' = "cleanup"
  BY CleanupFacts DEF IInv, Typed
<1>2. PICK r \in finished, ids \in Seq(Vocab) :
        /\ r \in Live /\ ids = SubSeq(req[r].ids, 1, req[r].cached)
        /\ Len(ids) = req[r].cached /\ Len(ids) <= Len(req[r].row)
        /\ tree' = IF CacheType = "naive" THEN tree
                   ELSE Unlock(Insert(tree, ids, req[r].row, req[r].slot), req[r].handle)
        /\ \E new : req' = [req EXCEPT ![r] = new] /\ new.stage = "done"
  BY CleanupFacts
<1>3. r \in Reqs /\ \A q \in Live' : q \in Live /\ req'[q] = req[q]
  BY <1>1, <1>2 DEF Live
<1>4. ForkReady'
  BY <1>1 DEF ForkReady
<1>5. ASSUME CacheType = "hybrid" PROVE SnapsHold(tree', state')
  <2>1. PICK row \in Seq(Pages), slot \in Slots \cup {None} :
          row = req[r].row /\ slot = req[r].slot
    BY <1>1, <1>3, ReqFields
  <2> DEFINE u == Insert(tree, ids, row, slot)
             Old(n) == IF n \in tree.nodes THEN tree.snap[n] ELSE None
  <2>2. tree' = Unlock(u, req[r].handle)
    BY <1>2, <1>5, <2>1
  <2>3. /\ IsTree(u, Vocab, Pages, Slots)
        /\ KeepsSlot(tree, ids) => /\ u.snap[ids] = slot
                                   /\ \A n \in u.nodes \ {ids} : u.snap[n] = Old(n)
        /\ ~ KeepsSlot(tree, ids) => \A n \in u.nodes : u.snap[n] = Old(n)
    <3>1. Len(ids) <= Len(row)
      BY <1>2, <2>1
    <3> QED BY <1>1, <3>1, InsertResult
  <2>4. tree'.nodes = u.nodes /\ tree'.snap = u.snap
    BY <2>2, <2>3, UnlockResult
  <2> HIDE DEF u
  <2> SUFFICES ASSUME NEW n \in SnapshotNodes(tree') PROVE state[tree'.snap[n]] = n
    BY <1>1 DEF SnapsHold
  <2>5. n \in u.nodes /\ tree'.snap[n] = u.snap[n] /\ u.snap[n] # None
    BY <2>4 DEF SnapshotNodes
  <2>6. CASE u.snap[n] = Old(n)
    <3>1. n \in SnapshotNodes(tree) /\ u.snap[n] = tree.snap[n]
      BY <2>5, <2>6 DEF SnapshotNodes
    <3> QED BY <1>5, <2>5, <3>1 DEF States, SnapsHold
  <2>7. CASE n = ids /\ u.snap[n] = slot
    <3>1. SlotHolds(req[r], state)
      BY <1>2, <1>5 DEF States
    <3> QED BY <1>2, <2>1, <2>5, <2>7, <3>1 DEF SlotHolds
  <2> QED BY <2>3, <2>5, <2>6, <2>7
<1> QED BY <1>1, <1>3, <1>4, <1>5 DEF States

LEMMA CoreStates ==
  ASSUME IInv, LocksInv, HandlesFit, SlotOwnership, States, CoreStep
  PROVE  States'
<1>1. CASE StartStep \/ StopAdmission \/ EndStep \/ RunWhenIdle
  BY <1>1, IdleSteps, IdleStates
<1>2. CASE EvictForSlot
  BY <1>2, EvictForSlotEvicts, InvSettled, EvictStates
<1> QED BY <1>1, <1>2, QuietStates, TryAllocateStates, AdmitStates, CleanupStates
        DEF CoreStep, Select

===============================================================================
