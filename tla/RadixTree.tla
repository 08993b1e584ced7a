------------------------------ MODULE RadixTree ------------------------------
(***************************************************************************)
(* The radix tree of kvcache/radix_manager.py as a value and the           *)
(* operations on it as operators.                                          *)
(*                                                                         *)
(* A node of the tree is the sequence of tokens that leads from the root   *)
(* to its end: the root is <<>>, the parent of a node is the longest node  *)
(* that is a strict prefix of it, and the node's own key is the rest.      *)
(* Splitting an edge is then one more node on the way to an old one, and a *)
(* handle that points to the deeper end keeps its meaning, as it does in   *)
(* the code, where _split_at keeps `self` at the deeper end.               *)
(*                                                                         *)
(* A tree is a record                                                      *)
(*   nodes      the nodes, the root among them                             *)
(*   page       for every cached prefix, the page of its last token        *)
(*   ref        a node's ref_count                                         *)
(*   snap       a node's mamba_slot, or None                               *)
(*   evictable, protected   the two counters of size_info                  *)
(*                                                                         *)
(* Timestamps are left out: eviction takes the coldest node, and which one *)
(* is coldest is left open (the caller picks any that qualifies).          *)
(***************************************************************************)
EXTENDS Integers, Sequences, FiniteSets, SequencesExt

CONSTANT None

Root == <<>>

EmptyTree ==
  [nodes |-> {Root}, page |-> <<>>,
   ref |-> [n \in {Root} |-> 1], snap |-> [n \in {Root} |-> None],
   evictable |-> 0, protected |-> 0]

(* The nodes from n up to, but not including, the root. *)
Chain(t, n) == {m \in t.nodes : m # Root /\ IsPrefix(m, n)}

Parent(t, n) ==
  CHOOSE m \in t.nodes : /\ IsStrictPrefix(m, n)
                         /\ \A k \in t.nodes : IsStrictPrefix(k, n) => Len(k) <= Len(m)

(* RadixTreeNode.length: the tokens on the edge into n. *)
Length(t, n) == Len(n) - Len(Parent(t, n))

(* The cached prefixes that end on that edge. *)
Edge(t, n) ==
  {p \in DOMAIN t.page :
     IsPrefix(p, n) /\ \A m \in t.nodes : IsStrictPrefix(m, n) => Len(m) < Len(p)}

(* Mutant: eviction takes leaves that live requests have locked. *)
AllLeaves(t) == {n \in t.nodes \ {Root} : ~ \E m \in t.nodes : IsStrictPrefix(n, m)}

(* Mutant: eviction takes inner nodes too. *)
UnlockedNodes(t) == {n \in t.nodes : t.ref[n] = 0}

UnlockedLeaves(t) ==
  {n \in t.nodes : t.ref[n] = 0 /\ ~ \E m \in t.nodes : IsStrictPrefix(n, m)}

SnapshotNodes(t) == {n \in t.nodes : t.snap[n] # None}

(* The pages of the first Len(p) tokens of p, in order. *)
PagesOf(t, p) == [i \in 1..Len(p) |-> t.page[SubSeq(p, 1, i)]]

-----------------------------------------------------------------------------
(* How far _walk gets along ids: the longest prefix of ids in the cache. *)
Matched(t, ids) ==
  CHOOSE p \in Prefixes(ids) :
    /\ p = Root \/ p \in DOMAIN t.page
    /\ \A q \in Prefixes(ids) : q = Root \/ q \in DOMAIN t.page => Len(q) <= Len(p)

(* Mutant: the new upper node starts with no lock. *)
SplitUnlocked(t, p) ==
  IF p \in t.nodes THEN t
  ELSE [t EXCEPT !.nodes = @ \cup {p},
                 !.ref = [n \in t.nodes \cup {p} |-> IF n = p THEN 0 ELSE @[n]],
                 !.snap = [n \in t.nodes \cup {p} |-> IF n = p THEN None ELSE @[n]]]

(* _split_at: p becomes a node of its own above the node whose edge it cuts; *)
(* it takes over that node's ref_count, the snapshot stays below.            *)
Split(t, p) ==
  IF p \in t.nodes THEN t
  ELSE LET below == CHOOSE n \in t.nodes :
                      /\ IsStrictPrefix(p, n)
                      /\ \A m \in t.nodes : IsStrictPrefix(p, m) => Len(n) <= Len(m)
       IN [t EXCEPT !.nodes = @ \cup {p},
                    !.ref = [n \in t.nodes \cup {p} |-> IF n = p THEN @[below] ELSE @[n]],
                    !.snap = [n \in t.nodes \cup {p} |-> IF n = p THEN None ELSE @[n]]]

Walk(t, ids) == Split(t, Matched(t, ids))

-----------------------------------------------------------------------------
(* The sum of f over its domain: the number of units that make it up. *)
Total(f) == Cardinality(UNION {{x} \X (1..f[x]) : x \in DOMAIN f})

TotalLength(t, N) == Total([n \in N |-> Length(t, n)])

NewlyLocked(t, h) == {n \in Chain(t, h) : t.ref[n] = 0}

Lock(t, h) ==
  LET moved == TotalLength(t, NewlyLocked(t, h))
  IN [t EXCEPT !.ref = [n \in t.nodes |-> IF n \in Chain(t, h) THEN @[n] + 1 ELSE @[n]],
               !.evictable = @ - moved,
               !.protected = @ + moved]

(* Mutant: every unlock gives its whole chain back to the evictable size. *)
NewlyUnlockedAll(t, h) == Chain(t, h)

NewlyUnlocked(t, h) == {n \in Chain(t, h) : t.ref[n] = 1}

Unlock(t, h) ==
  LET moved == TotalLength(t, NewlyUnlocked(t, h))
  IN [t EXCEPT !.ref = [n \in t.nodes |-> IF n \in Chain(t, h) THEN @[n] - 1 ELSE @[n]],
               !.evictable = @ + moved,
               !.protected = @ - moved]

-----------------------------------------------------------------------------
(* The nodes that may carry the handle of a match that ended at node n: the  *)
(* node itself, or in a hybrid cache its deepest ancestor with a snapshot.   *)
SnapshotAncestor(t, n) ==
  CHOOSE m \in t.nodes :
    /\ m = Root \/ (m \in Chain(t, n) /\ t.snap[m] # None)
    /\ \A k \in Chain(t, n) : t.snap[k] # None => Len(k) <= Len(m)

-----------------------------------------------------------------------------
(* Mutant: the new node's value starts at the first page of the sequence. *)
InsertedPageUnsliced(p, pages, q) == pages[Len(q) - Len(p)]

(* indices[prefix_len:], the value of the node that insert_prefix adds. *)
InsertedPage(p, pages, q) == pages[Len(q)]

(* insert_prefix on a tree that _walk has split at p, the part of ids that   *)
(* is cached already.                                                        *)
AddLeaf(t, p, ids, pages, slot) ==
  [t EXCEPT !.nodes = @ \cup {ids},
            !.page = [q \in DOMAIN @ \cup (Prefixes(ids) \ {Root}) |->
                        IF q \in DOMAIN @ THEN @[q] ELSE InsertedPage(p, pages, q)],
            !.ref = [n \in t.nodes \cup {ids} |-> IF n = ids THEN 0 ELSE @[n]],
            !.snap = [n \in t.nodes \cup {ids} |-> IF n = ids THEN slot ELSE @[n]],
            !.evictable = @ + Len(ids) - Len(p)]

Adopt(t, n, slot) ==
  IF t.snap[n] = None THEN [t EXCEPT !.snap[n] = slot] ELSE t

Insert(t, ids, pages, slot) ==
  LET p == Matched(t, ids)
      walked == Split(t, p)
  IN IF p # ids THEN AddLeaf(walked, p, ids, pages, slot) ELSE Adopt(walked, ids, slot)

(* Mutant: a slot the tree does not adopt goes nowhere. *)
KeepsSlotAlways(t, ids) == TRUE

(* Whether the tree keeps the slot that comes with ids, or it goes back.    *)
KeepsSlot(t, ids) ==
  Matched(t, ids) # ids \/ Walk(t, ids).snap[ids] = None

-----------------------------------------------------------------------------
(* One turn of the loop of _evict_leaves. *)
RemoveLeaf(t, n) ==
  [t EXCEPT !.nodes = @ \ {n},
            !.page = Restrict(@, DOMAIN @ \ Edge(t, n)),
            !.ref = Restrict(@, t.nodes \ {n}),
            !.snap = Restrict(@, t.nodes \ {n}),
            !.evictable = @ - Length(t, n)]

(* Mutant: eviction frees the pages of the whole path. *)
EvictedPath(t, n) == PagesOf(t, n)

EvictedPages(t, n) ==
  SubSeq(PagesOf(t, n), Len(Parent(t, n)) + 1, Len(n))

DropSnapshot(t, n) == [t EXCEPT !.snap[n] = None]
=============================================================================
