--------------------------- MODULE DataProofs ---------------------------
(***************************************************************************)
(* Data that the code walks through step by step: the arena of names, for  *)
(* every set of segments and every arena, and folds over sequences, for    *)
(* every step Op.  What intern preserves and returns; that segments and    *)
(* find undo each other, so an id and its path name each other; that a     *)
(* fold is the last of a row of steps; what joining sets and adding        *)
(* entries does to orders, to open scopes and to what the positions of a   *)
(* stream say.  segments, find, FoldLeft and ScopesAt are recursive: that  *)
(* the recursion has a solution, and what it is, goes by the least         *)
(* counterexample.                                                         *)
(*                                                                         *)
(* A module that has a fold takes the lemmas about folds as an instance of *)
(* this one, with the step of its own fold for Op.                         *)
(***************************************************************************)
EXTENDS NameTree, Ordering, EntryStream, FiniteSetTheorems, WellFoundedInduction, TLAPS

CONSTANT Op(_, _, _)   \* what is fixed, what there is so far, the next element

(* A non-empty set of numbers has a least element.                         *)
LEMMA LeastOfNat ==
    ASSUME NEW T \in SUBSET Nat, T # {}
    PROVE  \E x \in T : \A y \in T : x <= y
<1>1. PICK x \in T : \A y \in T : ~ (<< y, x >> \in OpToRel(<, Nat))
  BY NatLessThanWellFounded, WFMin
<1>2. ASSUME NEW y \in T PROVE x <= y
  <2>1. << y, x >> \notin OpToRel(<, Nat)
    BY <1>1
  <2>2. ~(y < x)
    BY <2>1 DEF OpToRel
  <2> QED
    BY <2>2
<1> QED
  BY <1>2

-----------------------------------------------------------------------------
(* What interning a new segment does to each node: the parent's table gets *)
(* the entry, the last node is the new leaf, nothing else changes.         *)
LEMMA PushedNodes ==
    ASSUME NEW S, NEW t \in Seq(Node(S)), NEW p \in Ids(t), NEW s \in S, ~Known(t, p, s)
    PROVE  LET u == Interned(t, p, s)
           IN  /\ Len(u) = Len(t) + 1
               /\ NodeAt(u, Len(t)) = Leaf(p, s)
               /\ \A id \in Ids(t) : id # p => NodeAt(u, id) = NodeAt(t, id)
               /\ NodeAt(u, p) = [NodeAt(t, p) EXCEPT !.children = Linked(@, s, Len(t))]
<1> DEFINE v == [t EXCEPT ![p + 1].children = Linked(@, s, Len(t))]
<1>1. Interned(t, p, s) = Append(v, Leaf(p, s))
  BY DEF Interned
<1>2. p + 1 \in 1 .. Len(t) /\ Len(t) \in Nat
  BY DEF Ids
<1>3. /\ DOMAIN v = DOMAIN t
      /\ v[p + 1] = [t[p + 1] EXCEPT !.children = Linked(@, s, Len(t))]
      /\ \A i \in 1 .. Len(t) : i # p + 1 => v[i] = t[i]
  BY <1>2
<1>4. Len(v) = Len(t)
  BY <1>2, <1>3
<1> QED
  BY <1>1, <1>2, <1>3, <1>4 DEF Ids, NodeAt

(* The empty table of children is a table over any segments.               *)
LEMMA NoChildren == \A S : [x \in {} |-> Root] \in UNION {[T -> Nat] : T \in SUBSET S}
<1>1. [x \in {} |-> Root] \in [{} -> Nat]
  OBVIOUS
<1> QED
  BY <1>1

-----------------------------------------------------------------------------
(* NameTree::new: an arena of the root alone.                              *)
LEMMA NewArena == ASSUME NEW S PROVE IsArena(NewTree, S) /\ LinksAgree(NewTree)
<1>1. Leaf(NoParent, RootSegment) \in Node(S)
  BY NoChildren DEF Leaf, Node
<1>2. Len(NewTree) = 1 /\ NewTree[1] = Leaf(NoParent, RootSegment) /\ NewTree \in Seq(Node(S))
  BY <1>1 DEF NewTree
<1>3. Ids(NewTree) = {Root} /\ NodeAt(NewTree, Root) = Leaf(NoParent, RootSegment)
  BY <1>2 DEF Ids, Root, NodeAt
<1>4. NodeAt(NewTree, Root).parent = NoParent /\ DOMAIN NodeAt(NewTree, Root).children = {}
  BY <1>3 DEF Leaf
<1> QED
  BY <1>2, <1>3, <1>4 DEF IsArena, LinksAgree, LinkedUp, LinkedDown

(* intern keeps the arena an arena.                                        *)
LEMMA InternArena ==
    ASSUME NEW S, NEW t, IsArena(t, S), NEW p \in Ids(t), NEW s \in S
    PROVE  IsArena(Interned(t, p, s), S)
<1>0. t \in Seq(Node(S)) /\ Len(t) >= 1 /\ NodeAt(t, Root).parent = NoParent
  BY DEF IsArena
<1>1. CASE Known(t, p, s)
  BY <1>1 DEF Interned
<1>2. CASE ~Known(t, p, s)
  <2> DEFINE v == [t EXCEPT ![p + 1].children = Linked(@, s, Len(t))]
  <2>1. Interned(t, p, s) = Append(v, Leaf(p, s))
    BY <1>2 DEF Interned
  <2>2. Len(t) \in Nat /\ p + 1 \in 1 .. Len(t) /\ p \in Nat
    BY <1>0 DEF Ids
  <2>3. t[p + 1] \in Node(S)
    BY <1>0, <2>2
  <2>4. PICK T \in SUBSET S : t[p + 1].children \in [T -> Nat]
    BY <2>3 DEF Node
  <2>5. Linked(t[p + 1].children, s, Len(t)) \in [T \cup {s} -> Nat]
    BY <2>2, <2>4 DEF Linked
  <2>6. Linked(t[p + 1].children, s, Len(t)) \in UNION {[D -> Nat] : D \in SUBSET S}
    BY <2>5
  <2>7. [t[p + 1] EXCEPT !.children = Linked(@, s, Len(t))] \in Node(S)
    BY <2>3, <2>6 DEF Node
  <2>8. v \in Seq(Node(S))
    BY <1>0, <2>2, <2>7
  <2>9. Leaf(p, s) \in Node(S)
    BY <2>2, NoChildren DEF Leaf, Node
  <2>10. Interned(t, p, s) \in Seq(Node(S)) /\ Len(Interned(t, p, s)) >= 1
    BY <2>1, <2>8, <2>9, <1>0
  <2>11. NodeAt(Interned(t, p, s), Root).parent = NoParent
    <3>1. Root \in Ids(t) /\ NodeAt(t, Root) \in Node(S)
      BY <1>0 DEF Root, Ids, NodeAt
    <3>2. CASE Root = p
      <4>1. NodeAt(Interned(t, p, s), p) = [NodeAt(t, p) EXCEPT !.children = Linked(@, s, Len(t))]
        BY <1>0, <1>2, PushedNodes
      <4> QED
        BY <4>1, <3>1, <3>2, <1>0 DEF Node
    <3>3. CASE Root # p
      BY <1>0, <1>2, <3>1, <3>3, PushedNodes
    <3> QED
      BY <3>2, <3>3
  <2> QED
    BY <2>10, <2>11 DEF IsArena
<1> QED
  BY <1>1, <1>2

(* intern never invalidates an id that was given out, and gives out an id. *)
LEMMA InternIds ==
    ASSUME NEW S, NEW t, IsArena(t, S), LinksAgree(t), NEW p \in Ids(t), NEW s \in S
    PROVE  /\ Ids(t) \subseteq Ids(Interned(t, p, s))
           /\ InternedId(t, p, s) \in Ids(Interned(t, p, s))
<1>0. t \in Seq(Node(S))
  BY DEF IsArena
<1>1. CASE Known(t, p, s)
  <2>1. NodeAt(t, p).children[s] \in Ids(t)
    BY <1>1 DEF LinksAgree, LinkedDown, Known
  <2> QED
    BY <1>1, <2>1 DEF Interned, InternedId
<1>2. CASE ~Known(t, p, s)
  <2>1. Len(Interned(t, p, s)) = Len(t) + 1
    BY <1>0, <1>2, PushedNodes
  <2> QED
    BY <1>0, <1>2, <2>1 DEF InternedId, Ids
<1> QED
  BY <1>1, <1>2

-----------------------------------------------------------------------------
(* The step that matters: a new segment under p.  The new leaf is linked   *)
(* both ways; the parent's table gained that entry and kept the others.    *)
LEMMA LinksPushed ==
    ASSUME NEW S, NEW t, IsArena(t, S), LinksAgree(t),
           NEW p \in Ids(t), NEW s \in S, ~Known(t, p, s)
    PROVE  LinksAgree(Interned(t, p, s))
<1> DEFINE u == Interned(t, p, s)
           n == Len(t)
           New(id) == NodeAt(u, id)
           Old(id) == NodeAt(t, id)
<1>1. t \in Seq(Node(S)) /\ n \in Nat \ {0} /\ p \in 0 .. n - 1
  BY DEF IsArena, Ids
<1>2. /\ Len(u) = n + 1
      /\ New(n) = Leaf(p, s)
      /\ \A id \in Ids(t) : id # p => New(id) = Old(id)
      /\ New(p) = [Old(p) EXCEPT !.children = Linked(@, s, n)]
  BY <1>1, PushedNodes
<1>3. Ids(u) = Ids(t) \cup {n} /\ n \notin Ids(t)
  BY <1>1, <1>2 DEF Ids
<1>4. \A id \in Ids(t) : Old(id) \in Node(S)
  BY <1>1 DEF Ids, NodeAt
<1>5. /\ New(n).parent = p /\ New(n).segment = s
      /\ DOMAIN New(n).children = {}
  BY <1>2 DEF Leaf
<1>6. /\ New(p).parent = Old(p).parent /\ New(p).segment = Old(p).segment
      /\ New(p).children = Linked(Old(p).children, s, n)
  <2>1. Old(p) \in Node(S)
    BY <1>4
  <2> QED
    BY <1>2, <2>1 DEF Node
<1>7. \A id \in Ids(t) : New(id).parent = Old(id).parent /\ New(id).segment = Old(id).segment
  BY <1>2, <1>6
<1>8. /\ DOMAIN New(p).children = DOMAIN Old(p).children \cup {s}
      /\ New(p).children[s] = n
      /\ \A x \in DOMAIN Old(p).children : x # s => New(p).children[x] = Old(p).children[x]
  BY <1>6 DEF Linked
<1>9. s \notin DOMAIN Old(p).children
  BY DEF Known
<1>up. \A id \in Ids(t) \ {Root} :
         /\ Old(id).parent \in 0 .. id - 1
         /\ Old(id).segment \in DOMAIN Old(Old(id).parent).children
         /\ Old(Old(id).parent).children[Old(id).segment] = id
  BY DEF LinksAgree, LinkedUp
<1>down. \A id \in Ids(t) : \A x \in DOMAIN Old(id).children :
           /\ Old(id).children[x] \in Ids(t) \ {Root}
           /\ Old(Old(id).children[x]).parent = id
           /\ Old(Old(id).children[x]).segment = x
  BY DEF LinksAgree, LinkedDown
<1> HIDE DEF n, New, Old, u
<1>10. ASSUME NEW id \in Ids(u), id # Root
       PROVE  /\ New(id).parent \in 0 .. id - 1
              /\ New(id).segment \in DOMAIN New(New(id).parent).children
              /\ New(New(id).parent).children[New(id).segment] = id
  <2>1. CASE id = n
    BY <1>1, <1>5, <1>8, <2>1
  <2>2. CASE id \in Ids(t)
    <3>1. /\ Old(id).parent \in 0 .. id - 1
          /\ Old(id).segment \in DOMAIN Old(Old(id).parent).children
          /\ Old(Old(id).parent).children[Old(id).segment] = id
      BY <2>2, <1>10, <1>up
    <3>2. Old(id).parent \in Ids(t)
      BY <3>1, <2>2 DEF Ids
    <3>3. CASE Old(id).parent = p
      BY <3>1, <3>3, <1>7, <1>8, <1>9, <2>2
    <3>4. CASE Old(id).parent # p
      <4>1. New(Old(id).parent) = Old(Old(id).parent)
        BY <1>2, <3>2, <3>4
      <4> QED
        BY <3>1, <4>1, <1>7, <2>2
    <3> QED
      BY <3>3, <3>4
  <2> QED
    BY <2>1, <2>2, <1>3
<1>11. ASSUME NEW id \in Ids(u), NEW x \in DOMAIN New(id).children
       PROVE  /\ New(id).children[x] \in Ids(u) /\ New(id).children[x] # Root
              /\ New(New(id).children[x]).parent = id
              /\ New(New(id).children[x]).segment = x
  <2>1. id # n
    BY <1>5, <1>11
  <2>2. id \in Ids(t)
    BY <2>1, <1>3
  <2>3. CASE id = p /\ x = s
    BY <2>3, <1>8, <1>3, <1>5, <1>1 DEF Root
  <2>4. CASE ~(id = p /\ x = s)
    <3>1. x \in DOMAIN Old(id).children /\ New(id).children[x] = Old(id).children[x]
      <4>1. CASE id = p
        BY <4>1, <2>4, <1>8, <1>11
      <4>2. CASE id # p
        <5>1. New(id) = Old(id)
          BY <4>2, <2>2, <1>2
        <5> QED
          BY <5>1, <1>11
      <4> QED
        BY <4>1, <4>2
    <3>2. /\ Old(id).children[x] \in Ids(t) \ {Root}
          /\ Old(Old(id).children[x]).parent = id
          /\ Old(Old(id).children[x]).segment = x
      BY <2>2, <3>1, <1>down
    <3> QED
      BY <3>1, <3>2, <1>3, <1>7
  <2> QED
    BY <2>3, <2>4
<1> QED
  BY <1>10, <1>11 DEF LinksAgree, LinkedUp, LinkedDown, New, u

(* intern keeps the links in agreement.                                    *)
LEMMA InternLinks ==
    ASSUME NEW S, NEW t, IsArena(t, S), LinksAgree(t), NEW p \in Ids(t), NEW s \in S
    PROVE  LinksAgree(Interned(t, p, s))
<1>1. CASE Known(t, p, s)
  BY <1>1 DEF Interned
<1>2. CASE ~Known(t, p, s)
  BY <1>2, LinksPushed
<1> QED
  BY <1>1, <1>2

(* In an arena whose links agree no parent has two children of one         *)
(* segment, so two signals of a file have the same NameId exactly when     *)
(* they have the same path (intern, lib.rs:138-152).                       *)
THEOREM SiblingsDiffer ==
    ASSUME NEW t, LinksAgree(t),
           NEW i \in Ids(t) \ {Root}, NEW j \in Ids(t) \ {Root},
           NodeAt(t, i).parent = NodeAt(t, j).parent,
           NodeAt(t, i).segment = NodeAt(t, j).segment
    PROVE  i = j
BY DEF LinksAgree, LinkedUp

-----------------------------------------------------------------------------
(* Paths.                                                                  *)

(* The equations that segments and find solve.                             *)
PathsUpTo(g, t, n) ==
    g = [id \in 0 .. n - 1 |->
            IF NodeAt(t, id).parent = NoParent
            THEN <<>>
            ELSE Append(g[NodeAt(t, id).parent], NodeAt(t, id).segment)]

FoundUpTo(g, t, path, n) ==
    g = [k \in 0 .. n |->
            IF k = 0 THEN Root
            ELSE IF g[k - 1] # NotFound /\ Known(t, g[k - 1], path[k])
                 THEN NodeAt(t, g[k - 1]).children[path[k]]
                 ELSE NotFound]

(* An arena whose links agree is a forest of one tree: the walk up from    *)
(* any node but the root goes to a smaller id.                             *)
Rooted(t) ==
    /\ Len(t) \in Nat \ {0}
    /\ NodeAt(t, Root).parent = NoParent
    /\ \A id \in Ids(t) \ {Root} : NodeAt(t, id).parent \in 0 .. id - 1

(* Arenas are rooted.                                                      *)
LEMMA ArenaRooted == ASSUME NEW S, NEW t, IsArena(t, S), LinksAgree(t) PROVE Rooted(t)
<1>1. t \in Seq(Node(S)) /\ Len(t) >= 1 /\ NodeAt(t, Root).parent = NoParent
  BY DEF IsArena
<1>2. Len(t) \in Nat \ {0}
  BY <1>1
<1> QED
  BY <1>1, <1>2 DEF Rooted, LinksAgree, LinkedUp

(* The walk up has a result for every id.                                  *)
LEMMA PathsExist == ASSUME NEW t, Rooted(t) PROVE \E g : PathsUpTo(g, t, Len(t))
<1> DEFINE bad == {n \in 0 .. Len(t) : ~ \E g : PathsUpTo(g, t, n)}
<1>1. Len(t) \in Nat /\ Root = 0
  BY DEF Rooted, Root
<1>2. SUFFICES ASSUME bad # {} PROVE FALSE
  BY <1>1
<1>3. PICK n \in bad : \A m \in bad : n <= m
  <2>1. bad \in SUBSET Nat
    BY <1>1
  <2> HIDE DEF bad
  <2> QED
    BY <1>2, <2>1, LeastOfNat
<1>4. n # 0
  <2> DEFINE g == [id \in 0 .. -1 |-> <<>>]
  <2>1. PathsUpTo(g, t, 0)
    BY DEF PathsUpTo
  <2> QED
    BY <2>1, <1>3
<1>5. n \in 1 .. Len(t) /\ n - 1 \in 0 .. Len(t) /\ n - 1 \notin bad
  BY <1>1, <1>3, <1>4
<1>6. PICK g : PathsUpTo(g, t, n - 1)
  BY <1>5
<1> DEFINE last == n - 1
           parent == NodeAt(t, last).parent
           h == [id \in 0 .. n - 1 |->
                   IF id = last
                   THEN IF parent = NoParent THEN <<>> ELSE Append(g[parent], NodeAt(t, last).segment)
                   ELSE g[id]]
<1>7. PathsUpTo(h, t, n)
  <2>1. \A id \in 0 .. n - 1 : id \in Ids(t)
    BY <1>1, <1>5 DEF Ids
  <2>2. \A id \in 0 .. n - 1 : NodeAt(t, id).parent = NoParent \/ NodeAt(t, id).parent \in 0 .. id - 1
    BY <2>1 DEF Rooted
  <2>3. ASSUME NEW id \in 0 .. n - 1
        PROVE  h[id] = IF NodeAt(t, id).parent = NoParent
                       THEN <<>>
                       ELSE Append(h[NodeAt(t, id).parent], NodeAt(t, id).segment)
    <3>1. CASE NodeAt(t, id).parent = NoParent
      <4>1. id # last => id \in 0 .. (n - 1) - 1
        BY <1>1, <1>5
      <4>2. id # last => g[id] = <<>>
        BY <4>1, <3>1, <1>6 DEF PathsUpTo
      <4> QED
        BY <3>1, <4>2
    <3>2. CASE NodeAt(t, id).parent # NoParent
      <4>1. NodeAt(t, id).parent \in 0 .. id - 1
        BY <2>2, <3>2
      <4>2. NodeAt(t, id).parent \in 0 .. n - 1 /\ NodeAt(t, id).parent # last
        BY <4>1, <1>1, <1>5
      <4>3. h[NodeAt(t, id).parent] = g[NodeAt(t, id).parent]
        BY <4>2
      <4>4. id # last => id \in 0 .. (n - 1) - 1
        BY <1>1, <1>5
      <4>5. id # last => g[id] = Append(g[NodeAt(t, id).parent], NodeAt(t, id).segment)
        BY <4>4, <3>2, <1>6 DEF PathsUpTo
      <4> QED
        BY <3>2, <4>3, <4>5
    <3> QED
      BY <3>1, <3>2
  <2> HIDE DEF parent
  <2>4. DOMAIN h = 0 .. n - 1 /\ h = [id \in 0 .. n - 1 |-> h[id]]
    OBVIOUS
  <2> HIDE DEF h
  <2>5. h = [id \in 0 .. n - 1 |->
                IF NodeAt(t, id).parent = NoParent
                THEN <<>>
                ELSE Append(h[NodeAt(t, id).parent], NodeAt(t, id).segment)]
    BY <2>3, <2>4
  <2> QED
    BY <2>5 DEF PathsUpTo
<1> QED
  BY <1>3, <1>7

(* segments: the root has the empty path, every other node its parent's    *)
(* and its own segment.                                                    *)
LEMMA SegmentsSteps ==
    ASSUME NEW t, Rooted(t)
    PROVE  /\ Segments(t, Root) = <<>>
           /\ \A id \in Ids(t) \ {Root} :
                Segments(t, id) = Append(Segments(t, NodeAt(t, id).parent), NodeAt(t, id).segment)
<1> DEFINE path == CHOOSE g : PathsUpTo(g, t, Len(t))
<1>1. PathsUpTo(path, t, Len(t))
  BY PathsExist
<1>2. ASSUME NEW id PROVE Segments(t, id) = path[id]
  BY DEF Segments, PathsUpTo, Ids
<1> HIDE DEF path
<1>3. Root \in Ids(t) /\ Ids(t) = 0 .. Len(t) - 1
  BY DEF Rooted, Root, Ids
<1>4. \A id \in Ids(t) :
         path[id] = IF NodeAt(t, id).parent = NoParent
                    THEN <<>>
                    ELSE Append(path[NodeAt(t, id).parent], NodeAt(t, id).segment)
  BY <1>1, <1>3 DEF PathsUpTo
<1>5. \A id \in Ids(t) \ {Root} : NodeAt(t, id).parent # NoParent
  BY <1>3 DEF Rooted, NoParent
<1>6. NodeAt(t, Root).parent = NoParent
  BY DEF Rooted
<1> QED
  BY <1>2, <1>3, <1>4, <1>5, <1>6

(* find has a result for every path.                                       *)
LEMMA FoundExist ==
    ASSUME NEW t, NEW path, NEW len \in Nat
    PROVE  \E g : FoundUpTo(g, t, path, len)
<1> DEFINE bad == {n \in 0 .. len : ~ \E g : FoundUpTo(g, t, path, n)}
<1>1. SUFFICES ASSUME bad # {} PROVE FALSE
  OBVIOUS
<1>2. PICK n \in bad : \A m \in bad : n <= m
  <2>1. bad \in SUBSET Nat
    OBVIOUS
  <2> HIDE DEF bad
  <2> QED
    BY <1>1, <2>1, LeastOfNat
<1>3. n # 0
  <2> DEFINE g == [k \in 0 .. 0 |-> Root]
  <2>1. FoundUpTo(g, t, path, 0)
    BY DEF FoundUpTo
  <2> QED
    BY <2>1, <1>2
<1>4. n \in 1 .. len /\ n - 1 \in 0 .. len /\ n - 1 \notin bad
  BY <1>2, <1>3
<1>5. PICK g : FoundUpTo(g, t, path, n - 1)
  BY <1>4
<1> DEFINE next(x, k) == IF x # NotFound /\ Known(t, x, path[k])
                         THEN NodeAt(t, x).children[path[k]]
                         ELSE NotFound
           h == [k \in 0 .. n |-> IF k = n THEN next(g[n - 1], n) ELSE g[k]]
<1> HIDE DEF next
<1>6. \A k \in 0 .. n - 1 : g[k] = IF k = 0 THEN Root ELSE next(g[k - 1], k)
  BY <1>5 DEF FoundUpTo, next
<1>7. \A k \in 0 .. n : h[k] = IF k = 0 THEN Root ELSE next(h[k - 1], k)
  BY <1>4, <1>6
<1>8. h = [k \in 0 .. n |-> h[k]]
  OBVIOUS
<1> HIDE DEF h
<1>9. h = [k \in 0 .. n |-> IF k = 0 THEN Root ELSE next(h[k - 1], k)]
  BY <1>7, <1>8
<1>10. FoundUpTo(h, t, path, n)
  BY <1>9 DEF FoundUpTo, next
<1> QED
  BY <1>2, <1>10

(* One step down from an id, or from nowhere.                              *)
StepDown(t, id, s) ==
    IF id # NotFound /\ Known(t, id, s) THEN NodeAt(t, id).children[s] ELSE NotFound

(* find goes down segment by segment from the root.                        *)
LEMMA FindSteps ==
    ASSUME NEW X, NEW t, NEW path \in Seq(X), NEW s \in X
    PROVE  /\ Find(t, <<>>) = Root
           /\ Find(t, Append(path, s)) = StepDown(t, Find(t, path), s)
<1> DEFINE At(p) == CHOOSE g : FoundUpTo(g, t, p, Len(p))
           n == Len(path)
           longer == Append(path, s)
<1>1. ASSUME NEW p PROVE Find(t, p) = At(p)[Len(p)]
  BY DEF Find, FoundUpTo
<1>2. ASSUME NEW p, Len(p) \in Nat PROVE FoundUpTo(At(p), t, p, Len(p))
  BY <1>2, FoundExist
<1> HIDE DEF At
<1>3. ASSUME NEW p, Len(p) \in Nat
      PROVE  \A k \in 0 .. Len(p) : At(p)[k] = IF k = 0 THEN Root ELSE StepDown(t, At(p)[k - 1], p[k])
  BY <1>2, <1>3 DEF FoundUpTo, StepDown
<1>4. n \in Nat /\ Len(longer) = n + 1 /\ longer[n + 1] = s /\ \A k \in 1 .. n : longer[k] = path[k]
  OBVIOUS
<1>5. Len(<<>>) = 0
  OBVIOUS
<1>6. Find(t, <<>>) = Root
  BY <1>1, <1>3, <1>5
<1> DEFINE bad == {k \in 0 .. n : At(longer)[k] # At(path)[k]}
<1> HIDE DEF longer
<1>7. bad = {}
  <2> SUFFICES ASSUME bad # {} PROVE FALSE
    OBVIOUS
  <2>1. PICK k \in bad : \A m \in bad : k <= m
    <3>1. bad \in SUBSET Nat
      BY <1>4
    <3> HIDE DEF bad
    <3> QED
      BY <3>1, LeastOfNat
  <2>2. k \in 0 .. n /\ k \in 0 .. n + 1
    BY <1>4
  <2>3. k # 0
    BY <1>3, <1>4, <2>2
  <2>4. k - 1 \in 0 .. n /\ k - 1 \notin bad
    BY <1>4, <2>1, <2>2, <2>3
  <2>5. At(longer)[k - 1] = At(path)[k - 1] /\ longer[k] = path[k]
    BY <2>2, <2>3, <2>4, <1>4
  <2>6. At(path)[k] = StepDown(t, At(path)[k - 1], path[k])
    <3>1. Len(path) \in Nat /\ k \in 0 .. Len(path)
      BY <1>4, <2>2
    <3> QED
      BY <1>3, <2>3, <3>1
  <2>7. At(longer)[k] = StepDown(t, At(longer)[k - 1], longer[k])
    <3>1. Len(longer) \in Nat /\ k \in 0 .. Len(longer)
      BY <1>4, <2>2
    <3> QED
      BY <1>3, <2>3, <3>1
  <2> QED
    BY <2>1, <2>5, <2>6, <2>7
<1>8. At(longer)[n] = At(path)[n]
  BY <1>4, <1>7
<1>9. At(longer)[n + 1] = StepDown(t, At(longer)[n], s)
  <2>1. n + 1 \in 0 .. n + 1 /\ n + 1 # 0 /\ (n + 1) - 1 = n
    BY <1>4
  <2> QED
    BY <2>1, <1>3, <1>4
<1>10. Find(t, longer) = StepDown(t, Find(t, path), s)
  BY <1>1, <1>4, <1>8, <1>9
<1> QED
  BY <1>6, <1>10 DEF longer

(* A path is a sequence of segments.                                       *)
LEMMA SegmentsTyped ==
    ASSUME NEW S, NEW t, IsArena(t, S), LinksAgree(t), NEW id \in Ids(t)
    PROVE  Segments(t, id) \in Seq(S)
<1> DEFINE bad == {i \in Ids(t) : Segments(t, i) \notin Seq(S)}
<1>1. Rooted(t)
  BY ArenaRooted
<1>2. Ids(t) \in SUBSET Nat
  BY DEF Ids
<1>3. SUFFICES ASSUME bad # {} PROVE FALSE
  OBVIOUS
<1>4. PICK i \in bad : \A m \in bad : i <= m
  <2>1. bad \in SUBSET Nat
    BY <1>2
  <2> HIDE DEF bad
  <2> QED
    BY <1>3, <2>1, LeastOfNat
<1>5. i # Root
  <2>1. Segments(t, Root) = <<>>
    BY <1>1, SegmentsSteps
  <2>2. <<>> \in Seq(S)
    OBVIOUS
  <2>3. Segments(t, Root) \in Seq(S)
    BY <2>1, <2>2
  <2> QED
    BY <2>3, <1>4
<1> DEFINE parent == NodeAt(t, i).parent
           segment == NodeAt(t, i).segment
<1>6. parent \in 0 .. i - 1 /\ i \in Ids(t)
  BY <1>1, <1>4, <1>5 DEF Rooted
<1>7. parent \in Ids(t) /\ ~(i <= parent)
  BY <1>6, <1>2 DEF Ids
<1>8. Segments(t, parent) \in Seq(S)
  BY <1>4, <1>7
<1>9. segment \in S
  <2>1. segment \in DOMAIN NodeAt(t, parent).children
    BY <1>5, <1>6 DEF LinksAgree, LinkedUp
  <2>2. NodeAt(t, parent) \in Node(S)
    BY <1>7 DEF IsArena, Ids, NodeAt
  <2> QED
    BY <2>1, <2>2 DEF Node
<1>10. Segments(t, i) = Append(Segments(t, parent), segment)
  BY <1>1, <1>5, <1>6, SegmentsSteps
<1> QED
  BY <1>4, <1>8, <1>9, <1>10

(* find undoes segments.                                                   *)
LEMMA PathLeadsBack ==
    ASSUME NEW S, NEW t, IsArena(t, S), LinksAgree(t), NEW id \in Ids(t)
    PROVE  Find(t, Segments(t, id)) = id
<1> DEFINE bad == {i \in Ids(t) : Find(t, Segments(t, i)) # i}
<1>1. Rooted(t)
  BY ArenaRooted
<1>2. Ids(t) \in SUBSET Nat /\ Root \in Ids(t)
  BY <1>1 DEF Ids, Rooted, Root
<1>3. SUFFICES ASSUME bad # {} PROVE FALSE
  OBVIOUS
<1>4. PICK i \in bad : \A m \in bad : i <= m
  <2>1. bad \in SUBSET Nat
    BY <1>2
  <2> HIDE DEF bad
  <2> QED
    BY <1>3, <2>1, LeastOfNat
<1>5. i # Root
  <2>1. Segments(t, Root) = <<>>
    BY <1>1, SegmentsSteps
  <2>2. Find(t, <<>>) = Root
    <3>1. <<>> \in Seq({1}) /\ 1 \in {1}
      OBVIOUS
    <3> QED
      BY <3>1, FindSteps
  <2>3. Find(t, Segments(t, Root)) = Root
    BY <2>1, <2>2
  <2> QED
    BY <2>3, <1>4
<1> DEFINE parent == NodeAt(t, i).parent
           segment == NodeAt(t, i).segment
<1>6. /\ parent \in 0 .. i - 1 /\ i \in Ids(t)
      /\ segment \in DOMAIN NodeAt(t, parent).children
      /\ NodeAt(t, parent).children[segment] = i
  BY <1>4, <1>5 DEF LinksAgree, LinkedUp
<1>7. parent \in Ids(t) /\ ~(i <= parent) /\ parent # NotFound
  BY <1>6, <1>2 DEF Ids, NotFound
<1>8. Find(t, Segments(t, parent)) = parent
  BY <1>4, <1>7
<1>9. Segments(t, i) = Append(Segments(t, parent), segment)
  BY <1>1, <1>5, <1>6, SegmentsSteps
<1>10. Segments(t, parent) \in Seq(S \cup {segment}) /\ segment \in S \cup {segment}
  <2>1. Segments(t, parent) \in Seq(S)
    BY <1>7, SegmentsTyped
  <2> QED
    BY <2>1
<1> HIDE DEF parent, segment
<1>11. Find(t, Segments(t, i)) = StepDown(t, parent, segment)
  BY <1>8, <1>9, <1>10, FindSteps
<1> QED
  BY <1>4, <1>6, <1>7, <1>11 DEF StepDown, Known

(* segments undoes find: the id of a path, where there is one, has it.     *)
LEMMA FoundHasPath ==
    ASSUME NEW S, NEW t, IsArena(t, S), LinksAgree(t), NEW X, NEW path \in Seq(X),
           Find(t, path) # NotFound
    PROVE  Find(t, path) \in Ids(t) /\ Segments(t, Find(t, path)) = path
<1> DEFINE n == Len(path)
           upTo(k) == SubSeq(path, 1, k)
           holds(k) == LET id == Find(t, upTo(k))
                       IN  id # NotFound => id \in Ids(t) /\ Segments(t, id) = upTo(k)
           bad == {k \in 0 .. n : ~holds(k)}
<1>0. n \in Nat /\ upTo(n) = path
  OBVIOUS
<1>1. Rooted(t)
  BY ArenaRooted
<1>2. Root \in Ids(t)
  BY <1>1 DEF Ids, Rooted, Root
<1>3. bad = {}
  <2> SUFFICES ASSUME bad # {} PROVE FALSE
    OBVIOUS
  <2>1. PICK k \in bad : \A m \in bad : k <= m
    <3>1. bad \in SUBSET Nat
      BY <1>0
    <3> HIDE DEF bad
    <3> QED
      BY <3>1, LeastOfNat
  <2>2. k # 0
    <3>1. upTo(0) = <<>> /\ <<>> \in Seq({1}) /\ 1 \in {1}
      OBVIOUS
    <3>2. Find(t, upTo(0)) = Root
      BY <3>1, FindSteps
    <3>3. Segments(t, Root) = <<>>
      BY <1>1, SegmentsSteps
    <3> QED
      BY <3>1, <3>2, <3>3, <1>2, <2>1
  <2>3. k \in 1 .. n /\ k - 1 \in 0 .. n /\ k - 1 \notin bad
    BY <1>0, <2>1, <2>2
  <2>4. holds(k - 1) /\ ~holds(k)
    BY <2>1, <2>3
  <2> DEFINE before == upTo(k - 1)
             id == Find(t, before)
             s == path[k]
  <2>5. before \in Seq(X) /\ s \in X /\ upTo(k) = Append(before, s)
    BY <2>3
  <2>6. Find(t, upTo(k)) = StepDown(t, id, s)
    <3>1. ASSUME NEW p \in Seq(X), NEW x \in X
          PROVE  Find(t, Append(p, x)) = StepDown(t, Find(t, p), x)
      BY FindSteps
    <3> HIDE DEF s, before
    <3>2. Find(t, Append(before, s)) = StepDown(t, Find(t, before), s)
      BY <3>1, <2>5
    <3> QED
      BY <2>5, <3>2
  <2>7. /\ id # NotFound /\ Known(t, id, s)
        /\ Find(t, upTo(k)) = NodeAt(t, id).children[s]
    BY <2>4, <2>6 DEF StepDown
  <2>8. id \in Ids(t) /\ Segments(t, id) = before
    BY <2>4, <2>7
  <2> DEFINE child == NodeAt(t, id).children[s]
  <2> HIDE DEF id, s, before
  <2>9. child \in Ids(t) \ {Root} /\ NodeAt(t, child).parent = id /\ NodeAt(t, child).segment = s
    BY <2>7, <2>8 DEF LinksAgree, LinkedDown, Known
  <2>10. Segments(t, child) = Append(before, s)
    BY <1>1, <2>8, <2>9, SegmentsSteps
  <2> QED
    BY <2>4, <2>5, <2>7, <2>9, <2>10
<1>4. n \notin bad /\ n \in 0 .. n
  BY <1>0, <1>3
<1> QED
  BY <1>0, <1>4

(* An id and its path name each other, also between two trees: find of a   *)
(* path gives the id that has it, and gives none only if none has it.      *)
THEOREM FindExact ==
    ASSUME NEW S, NEW t, IsArena(t, S), LinksAgree(t), NEW X, NEW path \in Seq(X)
    PROVE  \A id \in Ids(t) : Find(t, path) = id <=> Segments(t, id) = path
<1> TAKE id \in Ids(t)
<1>1. id # NotFound
  BY DEF Ids, NotFound
<1>2. Find(t, path) = id => Segments(t, id) = path
  BY <1>1, FoundHasPath
<1>3. Segments(t, id) = path => Find(t, path) = id
  BY PathLeadsBack
<1> QED
  BY <1>2, <1>3

(* An arena over some segments is one over more.                           *)
LEMMA ArenaWider ==
    ASSUME NEW S, NEW T, S \subseteq T, NEW t, IsArena(t, S)
    PROVE  IsArena(t, T)
<1>1. t \in Seq(Node(S)) /\ Len(t) >= 1 /\ NodeAt(t, Root).parent = NoParent
  BY DEF IsArena
<1>2. Node(S) \subseteq Node(T)
  <2> SUFFICES ASSUME NEW node \in Node(S) PROVE node \in Node(T)
    OBVIOUS
  <2>1. PICK D \in SUBSET S : node.children \in [D -> Nat]
    BY DEF Node
  <2>2. D \in SUBSET T
    BY <2>1
  <2>3. node.children \in UNION {[E -> Nat] : E \in SUBSET T}
    BY <2>1, <2>2
  <2> QED
    BY <2>3 DEF Node
<1>3. t \in Seq(Node(T))
  BY <1>1, <1>2
<1> QED
  BY <1>1, <1>3 DEF IsArena

(* intern leaves the path of every id that was given out as it was, and    *)
(* the id it returns has the path of the parent and the segment.           *)
THEOREM InternPaths ==
    ASSUME NEW S, NEW t, IsArena(t, S), LinksAgree(t), NEW p \in Ids(t), NEW s \in S
    PROVE  LET u == Interned(t, p, s)
           IN  /\ \A id \in Ids(t) : Segments(u, id) = Segments(t, id)
               /\ Segments(u, InternedId(t, p, s)) = Append(Segments(t, p), s)
<1> DEFINE u == Interned(t, p, s)
           new == InternedId(t, p, s)
<1>1. IsArena(u, S) /\ LinksAgree(u) /\ Ids(t) \subseteq Ids(u) /\ new \in Ids(u)
  BY InternArena, InternLinks, InternIds
<1>2. Rooted(t) /\ Rooted(u)
  BY <1>1, ArenaRooted
<1>3. \A id \in Ids(t) : NodeAt(u, id).parent = NodeAt(t, id).parent
                         /\ NodeAt(u, id).segment = NodeAt(t, id).segment
  <2>1. CASE Known(t, p, s)
    BY <2>1 DEF Interned
  <2>2. CASE ~Known(t, p, s)
    <3>1. t \in Seq(Node(S)) /\ \A id \in Ids(t) : NodeAt(t, id) \in Node(S)
      BY DEF IsArena, Ids, NodeAt
    <3>2. /\ \A id \in Ids(t) : id # p => NodeAt(u, id) = NodeAt(t, id)
          /\ NodeAt(u, p) = [NodeAt(t, p) EXCEPT !.children = Linked(@, s, Len(t))]
      BY <3>1, <2>2, PushedNodes
    <3> QED
      BY <3>1, <3>2 DEF Node
  <2> QED
    BY <2>1, <2>2
<1>4. new # Root /\ NodeAt(u, new).parent = p /\ NodeAt(u, new).segment = s
  <2>1. CASE Known(t, p, s)
    BY <2>1 DEF Interned, InternedId, Known, LinksAgree, LinkedDown
  <2>2. CASE ~Known(t, p, s)
    <3>1. t \in Seq(Node(S)) /\ Len(t) >= 1
      BY DEF IsArena
    <3>2. NodeAt(u, Len(t)) = Leaf(p, s) /\ new = Len(t)
      BY <3>1, <2>2, PushedNodes DEF InternedId
    <3> QED
      BY <3>1, <3>2 DEF Leaf, Root
  <2> QED
    BY <2>1, <2>2
<1> HIDE DEF u, new
<1> DEFINE bad == {id \in Ids(t) : Segments(u, id) # Segments(t, id)}
<1>5. bad = {}
  <2> SUFFICES ASSUME bad # {} PROVE FALSE
    OBVIOUS
  <2>1. PICK id \in bad : \A m \in bad : id <= m
    <3>1. bad \in SUBSET Nat
      BY DEF Ids
    <3> HIDE DEF bad
    <3> QED
      BY <3>1, LeastOfNat
  <2>2. id # Root
    BY <1>2, <2>1, SegmentsSteps
  <2> DEFINE parent == NodeAt(t, id).parent
  <2>3. id \in Ids(t) /\ id \in Ids(u) /\ parent \in 0 .. id - 1
    BY <1>1, <1>2, <2>1, <2>2 DEF Rooted
  <2>4. parent \in Ids(t) /\ ~(id <= parent)
    BY <2>3 DEF Ids
  <2>5. Segments(u, parent) = Segments(t, parent)
    BY <2>1, <2>4
  <2>6. Segments(t, id) = Append(Segments(t, parent), NodeAt(t, id).segment)
    BY <1>2, <2>2, <2>3, SegmentsSteps
  <2>7. Segments(u, id) = Append(Segments(u, NodeAt(u, id).parent), NodeAt(u, id).segment)
    BY <1>2, <2>2, <2>3, SegmentsSteps
  <2> QED
    BY <1>3, <2>1, <2>3, <2>5, <2>6, <2>7
<1>6. \A id \in Ids(t) : Segments(u, id) = Segments(t, id)
  BY <1>5
<1>7. Segments(u, new) = Append(Segments(u, p), s)
  BY <1>1, <1>2, <1>4, SegmentsSteps
<1> QED
  BY <1>6, <1>7 DEF u, new

-----------------------------------------------------------------------------
(* Folds over sequences, with any operator Op; an instance of this module  *)
(* gives the lemmas for the operator of a fold of the models.  The first   *)
(* argument of Op is what stays the same while the fold goes on.           *)
Fold(with, base, seq) == FoldLeft(LAMBDA acc, x : Op(with, acc, x), base, seq)

(* Induction up to n: a set of numbers that has 0 and the successors of    *)
(* its elements has all of them.                                           *)
LEMMA UpTo ==
    ASSUME NEW n \in Nat, NEW T, 0 \in T, \A k \in 1 .. n : k - 1 \in T => k \in T
    PROVE  \A k \in 0 .. n : k \in T
<1> DEFINE bad == {k \in 0 .. n : k \notin T}
<1>1. SUFFICES ASSUME bad # {} PROVE FALSE
  OBVIOUS
<1>2. PICK k \in bad : \A m \in bad : k <= m
  <2>1. bad \in SUBSET Nat
    OBVIOUS
  <2> HIDE DEF bad
  <2> QED
    BY <1>1, <2>1, LeastOfNat
<1>3. k \in 1 .. n /\ k - 1 \in 0 .. n /\ k - 1 \notin bad
  BY <1>2
<1> QED
  BY <1>2, <1>3

(* The greatest element of a set up to n + 1 that has n + 1, and of any    *)
(* other one that is not empty.                                            *)
LEMMA MaxUpTo ==
    ASSUME NEW n \in Nat, NEW T \in SUBSET (1 .. n + 1), n + 1 \in T
    PROVE  Max(T) = n + 1
<1>1. \A y \in T : n + 1 >= y
  OBVIOUS
<1>2. \A x \in T : (\A y \in T : x >= y) => x = n + 1
  <2> SUFFICES ASSUME NEW x \in T, \A y \in T : x >= y PROVE x = n + 1
    OBVIOUS
  <2>1. x >= n + 1 /\ n + 1 >= x /\ x \in Nat
    BY <1>1
  <2> QED
    BY <2>1
<1> QED
  BY <1>1, <1>2 DEF Max

(* The greatest element of a set is one of it.                             *)
LEMMA MaxElement ==
    ASSUME NEW n \in Nat, NEW T \in SUBSET (1 .. n), T # {}
    PROVE  Max(T) \in T
<1> DEFINE holds == {k \in 0 .. n : \A U \in SUBSET (1 .. k) : U # {} => Max(U) \in U}
<1>1. 0 \in holds
  <2>1. \A U \in SUBSET (1 .. 0) : U = {}
    OBVIOUS
  <2>2. \A U \in SUBSET (1 .. 0) : U # {} => Max(U) \in U
    BY <2>1
  <2>3. 0 \in 0 .. n
    OBVIOUS
  <2> QED
    BY <2>2, <2>3
<1>2. ASSUME NEW k \in 1 .. n, k - 1 \in holds PROVE k \in holds
  <2> SUFFICES ASSUME NEW U \in SUBSET (1 .. k), U # {} PROVE Max(U) \in U
    OBVIOUS
  <2>1. CASE k \in U
    <3>1. Max(U) = (k - 1) + 1
      <4>1. k - 1 \in Nat /\ U \in SUBSET (1 .. (k - 1) + 1) /\ (k - 1) + 1 \in U
        BY <2>1
      <4> QED
        BY <4>1, MaxUpTo
    <3> QED
      BY <2>1, <3>1
  <2>2. CASE k \notin U
    <3>1. U \in SUBSET (1 .. k - 1)
      BY <2>2
    <3> QED
      BY <1>2, <3>1
  <2> QED
    BY <2>1, <2>2
<1> HIDE DEF holds
<1>3. n \in holds
  BY <1>1, <1>2, UpTo
<1> QED
  BY <1>3 DEF holds

(* The equation that FoldLeft solves, on all sets of positions up to n.    *)
Folded(g, with, base, seq, n) ==
    g = [s \in SUBSET (1 .. n) |->
            IF s = {} THEN base ELSE Op(with, g[s \ {Max(s)}], seq[Max(s)])]

(* It has a solution.                                                      *)
LEMMA FoldExists ==
    ASSUME NEW with, NEW base, NEW seq, NEW n \in Nat
    PROVE  \E g : Folded(g, with, base, seq, n)
<1> DEFINE holds == {k \in 0 .. n : \E g : Folded(g, with, base, seq, k)}
<1>1. 0 \in holds
  <2> DEFINE g == [s \in SUBSET (1 .. 0) |-> base]
  <2>1. \A s \in SUBSET (1 .. 0) : s = {}
    OBVIOUS
  <2>2. Folded(g, with, base, seq, 0)
    BY <2>1 DEF Folded
  <2> HIDE DEF g
  <2> QED
    BY <2>2
<1>2. ASSUME NEW k \in 1 .. n, k - 1 \in holds PROVE k \in holds
  <2>1. PICK g : Folded(g, with, base, seq, k - 1)
    BY <1>2
  <2> DEFINE h == [s \in SUBSET (1 .. k) |-> IF k \in s THEN Op(with, g[s \ {k}], seq[k]) ELSE g[s]]
  <2>2. ASSUME NEW s \in SUBSET (1 .. k), s # {}
        PROVE  h[s] = Op(with, h[s \ {Max(s)}], seq[Max(s)])
    <3>1. CASE k \in s
      <4>1. Max(s) = (k - 1) + 1
        <5>1. k - 1 \in Nat /\ s \in SUBSET (1 .. (k - 1) + 1) /\ (k - 1) + 1 \in s
          BY <3>1
        <5> QED
          BY <5>1, MaxUpTo
      <4>2. Max(s) = k /\ s \ {k} \in SUBSET (1 .. k) /\ k \notin s \ {k}
        BY <4>1
      <4>3. h[s \ {k}] = g[s \ {k}]
        BY <4>2
      <4> QED
        BY <3>1, <4>2, <4>3
    <3>2. CASE k \notin s
      <4>1. k - 1 \in Nat /\ s \in SUBSET (1 .. k - 1)
        BY <3>2
      <4>2. Max(s) \in s
        BY <4>1, <2>2, MaxElement
      <4>3. s \ {Max(s)} \in SUBSET (1 .. k) /\ k \notin s \ {Max(s)}
        BY <3>2
      <4>4. h[s] = g[s] /\ h[s \ {Max(s)}] = g[s \ {Max(s)}]
        BY <3>2, <4>3
      <4>5. g[s] = Op(with, g[s \ {Max(s)}], seq[Max(s)])
        BY <2>1, <2>2, <4>1 DEF Folded
      <4> QED
        BY <4>4, <4>5
    <3> QED
      BY <3>1, <3>2
  <2>3. h[{}] = base
    <3>1. {} \in SUBSET (1 .. k) /\ {} \in SUBSET (1 .. k - 1) /\ k \notin {}
      OBVIOUS
    <3>2. g[{}] = base
      BY <2>1, <3>1 DEF Folded
    <3> QED
      BY <3>1, <3>2
  <2>4. h = [s \in SUBSET (1 .. k) |-> h[s]]
    OBVIOUS
  <2> HIDE DEF h
  <2>5. h = [s \in SUBSET (1 .. k) |->
                IF s = {} THEN base ELSE Op(with, h[s \ {Max(s)}], seq[Max(s)])]
    BY <2>2, <2>3, <2>4
  <2>6. Folded(h, with, base, seq, k)
    BY <2>5 DEF Folded
  <2> QED
    BY <2>6
<1> HIDE DEF holds
<1>3. n \in holds
  BY <1>1, <1>2, UpTo
<1> QED
  BY <1>3 DEF holds

(* acc[k] is what there is after k elements, acc[n] the result.            *)
FoldedBy(acc, with, base, seq, n) ==
    /\ acc[0] = base
    /\ \A k \in 1 .. n : acc[k] = Op(with, acc[k - 1], seq[k])
    /\ Fold(with, base, seq) = acc[n]

(* FoldLeft goes from base to its result by one Op per element, in order.  *)
LEMMA FoldSteps ==
    ASSUME NEW with, NEW base, NEW seq, NEW n \in Nat, DOMAIN seq = 1 .. n
    PROVE  \E acc : FoldedBy(acc, with, base, seq, n)
<1> DEFINE iter == CHOOSE g : Folded(g, with, base, seq, n)
           acc == [k \in 0 .. n |-> iter[1 .. k]]
<1>1. Fold(with, base, seq) = iter[1 .. n]
  BY DEF Fold, FoldLeft, MapThenFoldSet, Folded
<1>2. Folded(iter, with, base, seq, n)
  BY FoldExists
<1> HIDE DEF iter
<1>3. acc[0] = base
  <2>1. 1 .. 0 = {} /\ {} \in SUBSET (1 .. n) /\ 0 \in 0 .. n
    OBVIOUS
  <2>2. iter[{}] = base
    BY <1>2, <2>1 DEF Folded
  <2> QED
    BY <2>1, <2>2
<1>4. ASSUME NEW k \in 1 .. n PROVE acc[k] = Op(with, acc[k - 1], seq[k])
  <2>1. /\ 1 .. k \in SUBSET (1 .. n) /\ 1 .. k # {}
        /\ (1 .. k) \ {k} = 1 .. k - 1 /\ k \in 0 .. n /\ k - 1 \in 0 .. n
    <3>1. k \in 1 .. k /\ \A i \in 1 .. k : i \in 1 .. n
      OBVIOUS
    <3>2. \A i : i \in (1 .. k) \ {k} <=> i \in 1 .. k - 1
      OBVIOUS
    <3>3. k \in 0 .. n /\ k - 1 \in 0 .. n
      OBVIOUS
    <3> QED
      BY <3>1, <3>2, <3>3
  <2>2. Max(1 .. k) = k
    <3>1. k - 1 \in Nat /\ (k - 1) + 1 = k /\ k \in 1 .. k
      OBVIOUS
    <3>2. Max(1 .. k) = (k - 1) + 1
      BY <3>1, MaxUpTo
    <3> QED
      BY <3>1, <3>2
  <2>3. iter[1 .. k] = Op(with, iter[(1 .. k) \ {k}], seq[k])
    BY <1>2, <2>1, <2>2 DEF Folded
  <2> QED
    BY <2>1, <2>3
<1>5. acc[n] = iter[1 .. n]
  OBVIOUS
<1> HIDE DEF acc
<1>6. FoldedBy(acc, with, base, seq, n)
  BY <1>1, <1>3, <1>4, <1>5 DEF FoldedBy
<1> QED
  BY <1>6

-----------------------------------------------------------------------------
(* The elements of a finite set in order.                                  *)

(* The place of an element is among those of its set.                      *)
LEMMA PlaceInside ==
    ASSUME NEW S, IsFiniteSet(S), NEW R, NEW x \in S, << x, x >> \notin R
    PROVE  Place(S, R, x) \in 1 .. Cardinality(S)
<1> DEFINE P == {y \in S : << y, x >> \in R}
<1>1. P \subseteq S \ {x}
  OBVIOUS
<1>2. IsFiniteSet(S \ {x}) /\ Cardinality(S \ {x}) = Cardinality(S) - 1
  BY FS_RemoveElement
<1>3. Cardinality(P) \in Nat /\ Cardinality(P) <= Cardinality(S) - 1
  <2> HIDE DEF P
  <2>1. IsFiniteSet(P) /\ Cardinality(P) <= Cardinality(S \ {x})
    BY <1>1, <1>2, FS_Subset
  <2> QED
    BY <1>2, <2>1, FS_CardinalityType
<1>4. Cardinality(S) \in Nat
  BY FS_CardinalityType
<1> QED
  BY <1>3, <1>4 DEF Place

(* Nothing has an order, the empty one.                                    *)
LEMMA OrderNothing == \A R : InOrder({}, R) = <<>>
BY FS_EmptySet DEF InOrder

(* Only the order among the elements matters.                              *)
LEMMA OrderAgree ==
    ASSUME NEW S, NEW R, NEW Q, \A x, y \in S : << x, y >> \in R <=> << x, y >> \in Q
    PROVE  InOrder(S, R) = InOrder(S, Q)
<1>1. ASSUME NEW x \in S
      PROVE  Place(S, R, x) = Place(S, Q, x)
  <2>1. {y \in S : << y, x >> \in R} = {y \in S : << y, x >> \in Q}
    OBVIOUS
  <2> QED
    BY <2>1 DEF Place
<1>2. ASSUME NEW k
      PROVE  {y \in S : Place(S, R, y) = k} = {y \in S : Place(S, Q, y) = k}
  BY <1>1
<1> QED
  BY <1>2 DEF InOrder

(* A set before another one: its elements come first, then the others.     *)
AllBefore(S, T, R) ==
    /\ \A x \in S \cup T : << x, x >> \notin R
    /\ \A x \in S, y \in T : << x, y >> \in R /\ << y, x >> \notin R

OrderJoined(S, T, R) ==
    /\ Cardinality(S \cup T) = Cardinality(S) + Cardinality(T)
    /\ \A k \in 1 .. Cardinality(S) : InOrder(S \cup T, R)[k] = InOrder(S, R)[k]
    /\ \A k \in 1 .. Cardinality(T) :
         InOrder(S \cup T, R)[Cardinality(S) + k] = InOrder(T, R)[k]

(* What is wholly before comes first, and keeps its order.                 *)
LEMMA OrderJoin ==
    ASSUME NEW S, NEW T, IsFiniteSet(S), IsFiniteSet(T), NEW R, AllBefore(S, T, R)
    PROVE  OrderJoined(S, T, R)
<1> DEFINE n == Cardinality(S)
           m == Cardinality(T)
           U == S \cup T
<1>p. /\ \A x \in U : << x, x >> \notin R
      /\ \A x \in S, y \in T : << x, y >> \in R /\ << y, x >> \notin R
  BY DEF AllBefore
<1>0. S \cap T = {} /\ n \in Nat /\ m \in Nat
  <2>1. S \cap T = {}
    BY <1>p
  <2> QED
    BY <2>1, FS_CardinalityType
<1>1. IsFiniteSet(U) /\ Cardinality(U) = n + m
  <2>1. Cardinality(S \cap T) = 0
    BY <1>0, FS_EmptySet
  <2>2. IsFiniteSet(S \cup T) /\ Cardinality(S \cup T) = n + m - Cardinality(S \cap T)
    BY FS_Union
  <2> QED
    BY <1>0, <2>1, <2>2
<1>2. ASSUME NEW x \in S
      PROVE  Place(U, R, x) = Place(S, R, x) /\ Place(S, R, x) \in 1 .. n
  <2>1. {y \in U : << y, x >> \in R} = {y \in S : << y, x >> \in R}
    BY <1>p
  <2>2. Place(U, R, x) = Place(S, R, x)
    BY <2>1 DEF Place
  <2>3. Place(S, R, x) \in 1 .. n
    <3>1. << x, x >> \notin R
      BY <1>p
    <3> QED
      BY <3>1, PlaceInside
  <2> QED
    BY <2>2, <2>3
<1>3. ASSUME NEW x \in T
      PROVE  Place(U, R, x) = n + Place(T, R, x) /\ Place(T, R, x) \in 1 .. m
  <2> DEFINE P == {y \in T : << y, x >> \in R}
  <2>1. {y \in U : << y, x >> \in R} = S \cup P
    BY <1>p
  <2>2. P \subseteq T /\ S \cap P = {}
    BY <1>0
  <2> HIDE DEF P
  <2>3. IsFiniteSet(P)
    BY <2>2, FS_Subset
  <2>4. Cardinality(S \cup P) = n + Cardinality(P)
    <3>1. Cardinality(S \cap P) = 0
      BY <2>2, FS_EmptySet
    <3>2. Cardinality(S \cup P) = n + Cardinality(P) - Cardinality(S \cap P)
      BY <2>3, FS_Union
    <3>3. Cardinality(P) \in Nat
      BY <2>3, FS_CardinalityType
    <3> QED
      BY <1>0, <3>1, <3>2, <3>3
  <2>5. Place(U, R, x) = n + Cardinality(P) + 1 /\ Cardinality(P) \in Nat
    BY <2>1, <2>3, <2>4, FS_CardinalityType DEF Place
  <2>6. Place(T, R, x) = Cardinality(P) + 1
    BY DEF Place, P
  <2>7. Place(T, R, x) \in 1 .. m
    <3>1. << x, x >> \notin R
      BY <1>p
    <3> QED
      BY <3>1, PlaceInside
  <2> QED
    BY <1>0, <2>5, <2>6, <2>7
<1>4. ASSUME NEW k \in 1 .. n
      PROVE  InOrder(U, R)[k] = InOrder(S, R)[k]
  <2>1. {y \in U : Place(U, R, y) = k} = {y \in S : Place(S, R, y) = k}
    BY <1>0, <1>2, <1>3
  <2>2. k \in 1 .. Cardinality(U)
    BY <1>0, <1>1
  <2>3. InOrder(U, R)[k] = CHOOSE x \in {y \in U : Place(U, R, y) = k} : TRUE
    BY <2>2 DEF InOrder
  <2>4. InOrder(S, R)[k] = CHOOSE x \in {y \in S : Place(S, R, y) = k} : TRUE
    BY DEF InOrder
  <2> QED
    BY <2>1, <2>3, <2>4
<1>5. ASSUME NEW k \in 1 .. m
      PROVE  InOrder(U, R)[n + k] = InOrder(T, R)[k]
  <2>1. {y \in U : Place(U, R, y) = n + k} = {y \in T : Place(T, R, y) = k}
    BY <1>0, <1>2, <1>3
  <2>2. n + k \in 1 .. Cardinality(U)
    BY <1>0, <1>1
  <2>3. InOrder(U, R)[n + k] = CHOOSE x \in {y \in U : Place(U, R, y) = n + k} : TRUE
    BY <2>2 DEF InOrder
  <2>4. InOrder(T, R)[k] = CHOOSE x \in {y \in T : Place(T, R, y) = k} : TRUE
    BY DEF InOrder
  <2> QED
    BY <2>1, <2>3, <2>4
<1> QED
  BY <1>1, <1>4, <1>5 DEF OrderJoined

(* One element is in order by itself.                                      *)
LEMMA OrderOne ==
    ASSUME NEW x, NEW R, << x, x >> \notin R
    PROVE  Cardinality({x}) = 1 /\ InOrder({x}, R)[1] = x
<1>1. IsFiniteSet({x}) /\ Cardinality({x}) = 1
  BY FS_Singleton
<1>2. Place({x}, R, x) \in 1 .. Cardinality({x})
  BY <1>1, PlaceInside
<1>3. {y \in {x} : Place({x}, R, y) = 1} = {x}
  BY <1>1, <1>2
<1>4. InOrder({x}, R)[1] = CHOOSE z \in {y \in {x} : Place({x}, R, y) = 1} : TRUE
  <2>1. 1 \in 1 .. Cardinality({x})
    BY <1>1
  <2> QED
    BY <2>1 DEF InOrder
<1>5. (CHOOSE y \in {x} : TRUE) = x
  OBVIOUS
<1> QED
  BY <1>1, <1>3, <1>4, <1>5

(* A strict order of all elements.                                         *)
IsStrictOrder(S, R) ==
    /\ \A x \in S : << x, x >> \notin R
    /\ \A x, y \in S : x # y => << x, y >> \in R \/ << y, x >> \in R
    /\ \A x, y, z \in S : << x, y >> \in R /\ << y, z >> \in R => << x, z >> \in R

(* Every element has a place of its own, so every place has an element:    *)
(* the elements in order are all of them, each one once, and the earlier   *)
(* is before the later.                                                    *)
LEMMA OrderIsOnto ==
    ASSUME NEW S, IsFiniteSet(S), NEW R, IsStrictOrder(S, R)
    PROVE  LET f == InOrder(S, R)
               n == Cardinality(S)
           IN  /\ f \in [1 .. n -> S] /\ n \in Nat
               /\ \A x \in S : Place(S, R, x) \in 1 .. n /\ f[Place(S, R, x)] = x
               /\ \A k \in 1 .. n : Place(S, R, f[k]) = k
               /\ \A i, j \in 1 .. n : i < j <=> << f[i], f[j] >> \in R
<1> DEFINE f == InOrder(S, R)
           n == Cardinality(S)
           place == [x \in S |-> Place(S, R, x)]
<1>0. n \in Nat /\ \A x \in S : << x, x >> \notin R
  BY FS_CardinalityType DEF IsStrictOrder
<1>1. place \in [S -> 1 .. n]
  BY <1>0, PlaceInside
<1>2. ASSUME NEW x \in S, NEW y \in S, << x, y >> \in R
      PROVE  place[x] < place[y]
  <2> DEFINE P == {z \in S : << z, x >> \in R}
             Q == {z \in S : << z, y >> \in R}
  <2>1. P \subseteq Q /\ x \in Q /\ x \notin P
    BY <1>2 DEF IsStrictOrder
  <2>2. Q \subseteq S
    OBVIOUS
  <2>3. place[x] = Cardinality(P) + 1 /\ place[y] = Cardinality(Q) + 1
    BY DEF Place
  <2> HIDE DEF P, Q
  <2>4. IsFiniteSet(Q)
    BY <2>2, FS_Subset
  <2>5. IsFiniteSet(P) /\ Cardinality(P) <= Cardinality(Q) /\ Cardinality(P) # Cardinality(Q)
    BY <2>1, <2>4, FS_Subset
  <2> QED
    BY <2>3, <2>4, <2>5, FS_CardinalityType
<1>3. \A x, y \in S : place[x] = place[y] => x = y
  <2> SUFFICES ASSUME NEW x \in S, NEW y \in S, place[x] = place[y], x # y PROVE FALSE
    OBVIOUS
  <2>1. << x, y >> \in R \/ << y, x >> \in R
    BY DEF IsStrictOrder
  <2>2. place[x] < place[y] \/ place[y] < place[x]
    BY <1>2, <2>1
  <2> HIDE DEF place
  <2> QED
    BY <1>1, <2>2
<1>4. \A k \in 1 .. n : \E x \in S : place[x] = k
  <2> HIDE DEF place
  <2>1. place \in Injection(S, 1 .. n)
    BY <1>1, <1>3 DEF Injection, IsInjective
  <2>2. IsFiniteSet(1 .. n) /\ Cardinality(1 .. n) = n
    BY <1>0, FS_Interval
  <2>3. place \in Surjection(S, 1 .. n)
    <3>1. Cardinality(S) = Cardinality(1 .. n)
      BY <2>2
    <3> QED
      BY <2>1, <2>2, <3>1, FS_Injection
  <2> QED
    BY <2>3 DEF Surjection
<1>5. ASSUME NEW x \in S
      PROVE  f[place[x]] = x
  <2>1. {y \in S : Place(S, R, y) = place[x]} = {x}
    BY <1>3
  <2>2. place[x] \in 1 .. n
    BY <1>1
  <2>3. f[place[x]] = CHOOSE z \in {y \in S : Place(S, R, y) = place[x]} : TRUE
    BY <2>2 DEF InOrder
  <2>4. (CHOOSE z \in {x} : TRUE) = x
    OBVIOUS
  <2> QED
    BY <2>1, <2>3, <2>4
<1>6. ASSUME NEW k \in 1 .. n
      PROVE  f[k] \in S /\ place[f[k]] = k
  <2> HIDE DEF f, place
  <2> QED
    BY <1>4, <1>5
<1>7. f \in [1 .. n -> S]
  <2>1. f = [k \in 1 .. n |-> f[k]]
    BY DEF InOrder
  <2> QED
    BY <1>6, <2>1
<1>8. ASSUME NEW i \in 1 .. n, NEW j \in 1 .. n
      PROVE  i < j <=> << f[i], f[j] >> \in R
  <2>1. /\ f[i] \in S /\ f[j] \in S /\ place[f[i]] = i /\ place[f[j]] = j
    BY <1>6
  <2> HIDE DEF f, place
  <2>2. << f[i], f[j] >> \in R => i < j
    BY <1>2, <2>1
  <2>3. << f[j], f[i] >> \in R => j < i
    BY <1>2, <2>1
  <2>4. i # j => << f[i], f[j] >> \in R \/ << f[j], f[i] >> \in R
    BY <2>1 DEF IsStrictOrder
  <2> QED
    BY <2>2, <2>3, <2>4
<1>9. /\ \A x \in S : Place(S, R, x) \in 1 .. n /\ f[Place(S, R, x)] = x
      /\ \A k \in 1 .. n : Place(S, R, f[k]) = k
  <2>1. \A x \in S : place[x] = Place(S, R, x)
    OBVIOUS
  <2> HIDE DEF place, f
  <2> QED
    BY <1>1, <1>5, <1>6, <2>1
<1> HIDE DEF f, n
<1> QED
  BY <1>0, <1>7, <1>8, <1>9 DEF f, n

-----------------------------------------------------------------------------
(* What an entry does to the scopes that are open.                         *)
ScopeStep(e, open) ==
    CASE e.kind = "scope"                 -> Append(open, e.name)
      [] e.kind = "up" /\ open # <<>>     -> Front(open)
      [] OTHER                            -> open

OpenUpTo(f, s, m) ==
    f = [k \in 0 .. m |-> IF k = 0 THEN <<>> ELSE ScopeStep(s[k], f[k - 1])]

(* The scopes can be computed for every length.                            *)
LEMMA OpenExists == ASSUME NEW s, NEW m \in Nat PROVE \E f : OpenUpTo(f, s, m)
<1> DEFINE holds == {k \in 0 .. m : \E f : OpenUpTo(f, s, k)}
<1>1. 0 \in holds
  <2> DEFINE f == [k \in 0 .. 0 |-> <<>>]
  <2>1. f = [k \in 0 .. 0 |-> IF k = 0 THEN <<>> ELSE ScopeStep(s[k], f[k - 1])]
    OBVIOUS
  <2>2. OpenUpTo(f, s, 0)
    BY <2>1 DEF OpenUpTo
  <2> HIDE DEF f
  <2> QED
    BY <2>2
<1>2. ASSUME NEW k \in 1 .. m, k - 1 \in holds PROVE k \in holds
  <2>1. PICK f : OpenUpTo(f, s, k - 1)
    BY <1>2
  <2> DEFINE g == [i \in 0 .. k |-> IF i = k THEN ScopeStep(s[k], f[k - 1]) ELSE f[i]]
  <2>2. \A i \in 0 .. k - 1 : f[i] = IF i = 0 THEN <<>> ELSE ScopeStep(s[i], f[i - 1])
    BY <2>1 DEF OpenUpTo
  <2>3. \A i \in 0 .. k : g[i] = IF i = 0 THEN <<>> ELSE ScopeStep(s[i], g[i - 1])
    <3> SUFFICES ASSUME NEW i \in 0 .. k
                 PROVE  g[i] = IF i = 0 THEN <<>> ELSE ScopeStep(s[i], g[i - 1])
      OBVIOUS
    <3>1. CASE i = k
      <4>1. k # 0 /\ g[k - 1] = f[k - 1] /\ g[k] = ScopeStep(s[k], f[k - 1])
        OBVIOUS
      <4> QED
        BY <3>1, <4>1
    <3>2. CASE i # k
      <4>1. i \in 0 .. k - 1 /\ g[i] = f[i] /\ (i # 0 => g[i - 1] = f[i - 1])
        BY <3>2
      <4> QED
        BY <2>2, <4>1
    <3> QED
      BY <3>1, <3>2
  <2>4. g = [i \in 0 .. k |-> g[i]]
    OBVIOUS
  <2> HIDE DEF g
  <2>5. OpenUpTo(g, s, k)
    BY <2>3, <2>4 DEF OpenUpTo
  <2> QED
    BY <2>5
<1> HIDE DEF holds
<1>3. m \in holds
  BY <1>1, <1>2, UpTo
<1> QED
  BY <1>3 DEF holds

Alike(s, u, n) == \A k \in 1 .. n : s[k] = u[k]

(* Streams that agree up to some length have the same scopes open there.   *)
LEMMA OpenAgree ==
    ASSUME NEW s, NEW u, NEW f, NEW g, NEW m \in Nat, NEW l \in Nat,
           OpenUpTo(f, s, m), OpenUpTo(g, u, l), NEW n \in Nat, n <= m, n <= l,
           Alike(s, u, n)
    PROVE  Alike(f, g, n) /\ f[n] = g[n]
<1> DEFINE holds == {k \in 0 .. n : f[k] = g[k]}
<1>1. f[0] = <<>> /\ g[0] = <<>>
  BY DEF OpenUpTo
<1>2. \A k \in 1 .. n : f[k] = ScopeStep(s[k], f[k - 1]) /\ g[k] = ScopeStep(u[k], g[k - 1])
  <2>1. \A k \in 1 .. n : k \in 0 .. m /\ k \in 0 .. l /\ k # 0
    OBVIOUS
  <2>2. \A k \in 0 .. m : f[k] = IF k = 0 THEN <<>> ELSE ScopeStep(s[k], f[k - 1])
    BY DEF OpenUpTo
  <2>3. \A k \in 0 .. l : g[k] = IF k = 0 THEN <<>> ELSE ScopeStep(u[k], g[k - 1])
    BY DEF OpenUpTo
  <2> QED
    BY <2>1, <2>2, <2>3
<1>3. 0 \in holds
  BY <1>1
<1>4. ASSUME NEW k \in 1 .. n, k - 1 \in holds PROVE k \in holds
  <2>1. s[k] = u[k] /\ f[k - 1] = g[k - 1]
    BY <1>4 DEF Alike
  <2> QED
    BY <1>2, <2>1
<1> HIDE DEF holds
<1>5. \A k \in 0 .. n : k \in holds
  BY <1>3, <1>4, UpTo
<1>6. \A k \in 0 .. n : f[k] = g[k]
  BY <1>5 DEF holds
<1> QED
  BY <1>6 DEF Alike

(* So a scope is opened or closed by one entry after the other.            *)
LEMMA ScopesSteps ==
    ASSUME NEW s
    PROVE  /\ ScopesAt(s, 1) = <<>>
           /\ \A p \in Nat \ {0} : ScopesAt(s, p + 1) = ScopeStep(s[p], ScopesAt(s, p))
           /\ \A u : \A p \in Nat \ {0} :
                Alike(s, u, p - 1) => ScopesAt(s, p) = ScopesAt(u, p)
<1> DEFINE F(x, m) == CHOOSE f : OpenUpTo(f, x, m)
<1>1. \A x, p : ScopesAt(x, p) = F(x, p - 1)[p - 1]
  BY DEF ScopesAt, OpenUpTo, ScopeStep
<1>2. \A x : \A m \in Nat : OpenUpTo(F(x, m), x, m)
  BY OpenExists
<1> HIDE DEF F
<1>3. ScopesAt(s, 1) = <<>>
  <2>1. OpenUpTo(F(s, 0), s, 0)
    BY <1>2
  <2>2. F(s, 0)[0] = <<>>
    BY <2>1 DEF OpenUpTo
  <2>3. 1 - 1 = 0
    OBVIOUS
  <2> QED
    BY <1>1, <2>2, <2>3
<1>4. ASSUME NEW p \in Nat \ {0}
      PROVE  ScopesAt(s, p + 1) = ScopeStep(s[p], ScopesAt(s, p))
  <2>1. p \in Nat /\ p - 1 \in Nat /\ (p + 1) - 1 = p
    OBVIOUS
  <2>2. OpenUpTo(F(s, p), s, p) /\ OpenUpTo(F(s, p - 1), s, p - 1)
    BY <1>2, <2>1
  <2>3. F(s, p)[p - 1] = F(s, p - 1)[p - 1]
    <3>1. p - 1 <= p
      OBVIOUS
    <3>2. p - 1 <= p - 1
      OBVIOUS
    <3>3. OpenUpTo(F(s, p), s, p)
      BY <2>2
    <3>4. OpenUpTo(F(s, p - 1), s, p - 1)
      BY <2>2
    <3>5. Alike(s, s, p - 1)
      BY DEF Alike
    <3>6. p - 1 \in Nat
      BY <2>1
    <3> QED
      BY <3>1, <3>2, <3>3, <3>4, <3>5, <3>6, OpenAgree
  <2>4. F(s, p)[p] = ScopeStep(s[p], F(s, p)[p - 1])
    BY <2>1, <2>2 DEF OpenUpTo
  <2>5. ScopesAt(s, p + 1) = F(s, p)[p] /\ ScopesAt(s, p) = F(s, p - 1)[p - 1]
    BY <1>1, <2>1
  <2>6. p - 1 \in 0 .. p - 1
    BY <2>1
  <2> QED
    BY <2>3, <2>4, <2>5, <2>6
<1>5. ASSUME NEW u, NEW p \in Nat \ {0}, Alike(s, u, p - 1)
      PROVE  ScopesAt(s, p) = ScopesAt(u, p)
  <2>1. p - 1 \in Nat /\ p - 1 <= p - 1 /\ p - 1 \in 0 .. p - 1
    OBVIOUS
  <2>2. OpenUpTo(F(s, p - 1), s, p - 1) /\ OpenUpTo(F(u, p - 1), u, p - 1)
    BY <1>2, <2>1
  <2>3. F(s, p - 1)[p - 1] = F(u, p - 1)[p - 1]
    <3>1. p - 1 <= p - 1
      BY <2>1
    <3>2. OpenUpTo(F(s, p - 1), s, p - 1)
      BY <2>2
    <3>3. OpenUpTo(F(u, p - 1), u, p - 1)
      BY <2>2
    <3>4. p - 1 \in Nat
      BY <2>1
    <3> QED
      BY <1>5, <3>1, <3>2, <3>3, <3>4, OpenAgree
  <2> QED
    BY <1>1, <2>1, <2>3
<1> QED
  BY <1>3, <1>4, <1>5

-----------------------------------------------------------------------------
(* What the positions of a stream say, one entry at a time: who owns an    *)
(* annotation, where it is settled, which table a reference means.         *)

(* A stream and the same with one entry more.                              *)
Longer(s, u, e, n) ==
    /\ n \in Nat /\ Len(s) = n /\ Len(u) = n + 1
    /\ DOMAIN s = 1 .. n /\ DOMAIN u = 1 .. n + 1
    /\ \A p \in 1 .. n : u[p] = s[p]
    /\ u[n + 1] = e

(* The longer stream has the entries of some kinds where the other one     *)
(* has them, and the new one perhaps.                                      *)
LEMMA PositionsLonger ==
    ASSUME NEW s, NEW u, NEW e, NEW n, Longer(s, u, e, n), NEW kinds
    PROVE  /\ Positions(s, kinds) \subseteq 1 .. n
           /\ Positions(u, kinds) = Positions(s, kinds) \cup (IF e.kind \in kinds THEN {n + 1} ELSE {})
BY DEF Longer, Positions

(* The variable before a position depends on what is before it.            *)
LEMMA OwnerLonger ==
    ASSUME NEW s, NEW u, NEW e, NEW n, Longer(s, u, e, n), NEW p \in 1 .. n + 1
    PROVE  Owner(u, p) = Owner(s, p)
<1> DEFINE K == {"scope", "up", "var"}
           B == {q \in Positions(s, K) : q < p}
<1>1. n \in Nat /\ \A q \in 1 .. n : u[q] = s[q]
  BY DEF Longer
<1>2. Positions(s, K) \subseteq 1 .. n
      /\ Positions(u, K) \subseteq Positions(s, K) \cup {n + 1}
      /\ Positions(s, K) \subseteq Positions(u, K)
  BY PositionsLonger
<1>3. {q \in Positions(u, K) : q < p} = B
  <2> HIDE DEF K
  <2> QED
    BY <1>1, <1>2
<1>4. B # {} => Max(B) \in 1 .. n
  <2>1. B \in SUBSET (1 .. n)
    BY <1>2
  <2> HIDE DEF B
  <2> QED
    BY <1>1, <2>1, MaxElement
<1> QED
  BY <1>1, <1>3, <1>4 DEF Owner

(* The variable of an annotation after a new entry.                        *)
LEMMA OwnerNext ==
    ASSUME NEW s, NEW u, NEW e, NEW n, Longer(s, u, e, n)
    PROVE  Owner(u, n + 2) = IF e.kind = "var" THEN n + 1
                             ELSE IF e.kind \in {"scope", "up"} THEN 0
                             ELSE Owner(s, n + 1)
<1> DEFINE K == {"scope", "up", "var"}
           B == {q \in Positions(u, K) : q < n + 2}
           A == {q \in Positions(s, K) : q < n + 1}
<1>1. n \in Nat /\ \A q \in 1 .. n : u[q] = s[q]
  BY DEF Longer
<1>2. /\ Positions(s, K) \subseteq 1 .. n
      /\ Positions(u, K) = Positions(s, K) \cup (IF e.kind \in K THEN {n + 1} ELSE {})
  BY PositionsLonger
<1>3. CASE e.kind \in K
  <2>1. n + 1 \in B /\ B \in SUBSET (1 .. n + 1)
    BY <1>1, <1>2, <1>3
  <2>2. Max(B) = n + 1
    <3> HIDE DEF B
    <3> QED
      BY <1>1, <2>1, MaxUpTo
  <2>3. u[n + 1] = e
    BY DEF Longer
  <2> QED
    BY <1>3, <2>1, <2>2, <2>3 DEF Owner
<1>4. CASE e.kind \notin K
  <2>1. A = B /\ A \in SUBSET (1 .. n)
    BY <1>1, <1>2, <1>4
  <2>2. A # {} => Max(A) \in 1 .. n
    <3> HIDE DEF A
    <3> QED
      BY <1>1, <2>1, MaxElement
  <2> QED
    BY <1>1, <1>4, <2>1, <2>2 DEF Owner
<1> QED
  BY <1>3, <1>4

(* It is a variable before that position, or none.                         *)
LEMMA OwnerIs ==
    ASSUME NEW s, NEW n \in Nat, DOMAIN s = 1 .. n, NEW p \in 1 .. n + 1
    PROVE  \/ Owner(s, p) = 0
           \/ /\ Owner(s, p) \in Positions(s, {"var"}) /\ Owner(s, p) < p
              /\ \A q \in Positions(s, {"var"}) : q < p => q <= Owner(s, p)
<1> DEFINE K == {"scope", "up", "var"}
           B == {q \in Positions(s, K) : q < p}
<1>1. CASE B # {} /\ s[Max(B)].kind = "var"
  <2>1. B \in SUBSET (1 .. n)
    BY DEF Positions
  <2>2. Max(B) \in B /\ \A q \in B : q <= Max(B)
    <3>1. Max(B) \in B
      <4> HIDE DEF B
      <4> QED
        BY <1>1, <2>1, MaxElement
    <3>2. \A q \in B : q <= Max(B)
      <4> HIDE DEF B
      <4>1. \E x \in B : \A y \in B : x >= y
        <5> DEFINE T == {k \in 0 .. n : n - k \in B}
        <5>1. T \in SUBSET Nat
          OBVIOUS
        <5>2. PICK z \in B : TRUE
          BY <1>1
        <5>3. n - z \in T
          BY <2>1, <5>2
        <5>4. PICK t \in T : \A y \in T : t <= y
          <6> HIDE DEF T
          <6> QED
            BY <5>1, <5>3, LeastOfNat
        <5>5. ASSUME NEW y \in B PROVE n - t >= y
          <6>1. y \in 1 .. n
            BY <2>1
          <6>2. n - y \in T /\ t \in 0 .. n
            BY <5>4, <6>1
          <6>3. t <= n - y
            BY <5>4, <6>2
          <6> QED
            BY <6>1, <6>2, <6>3
        <5> QED
          BY <5>4, <5>5
      <4>2. \A y \in B : Max(B) >= y
        BY <4>1 DEF Max
      <4> QED
        BY <2>1, <3>1, <4>2
    <3> QED
      BY <3>1, <3>2
  <2>3. Owner(s, p) = Max(B)
    BY <1>1 DEF Owner
  <2>4. \A q \in Positions(s, {"var"}) : q < p => q \in B
    BY DEF Positions
  <2> HIDE DEF B
  <2>5. Max(B) \in Positions(s, {"var"}) /\ Max(B) < p
    BY <1>1, <2>2 DEF B, Positions
  <2> QED
    BY <2>2, <2>3, <2>4, <2>5
<1>2. CASE ~(B # {} /\ s[Max(B)].kind = "var")
  BY <1>2 DEF Owner
<1> QED
  BY <1>1, <1>2

-----------------------------------------------------------------------------
Stops == {"scope", "up", "var", "close"}

(* Where a structural annotation is settled, said of the entries between.  *)
SettledAt(s, n, p, m) ==
    /\ m \in p + 1 .. n + 1
    /\ m <= n => s[m].kind \in Stops
    /\ \A q \in p + 1 .. n : q < m => s[q].kind \notin Stops

(* There is one such place.                                                *)
LEMMA SettledIs ==
    ASSUME NEW s, NEW n \in Nat, DOMAIN s = 1 .. n, Len(s) = n, NEW p \in 1 .. n
    PROVE  /\ SettledAt(s, n, p, Settled(s, p))
           /\ \A m : SettledAt(s, n, p, m) => Settled(s, p) = m
<1> DEFINE T == {q \in Positions(s, Stops) : q > p} \cup {n + 1}
<1>1. Settled(s, p) = Min(T)
  BY DEF Settled, Stops
<1>2. T \in SUBSET Nat /\ T # {} /\ \A q \in T : q \in p + 1 .. n + 1
  BY DEF Positions
<1>3. PICK x \in T : \A y \in T : x <= y
  <2> HIDE DEF T
  <2> QED
    BY <1>2, LeastOfNat
<1>4. Min(T) \in T /\ \A y \in T : Min(T) <= y
  <2> HIDE DEF T
  <2> QED
    BY <1>3 DEF Min
<1>5. \A q \in p + 1 .. n : s[q].kind \in Stops => q \in T
  BY DEF Positions
<1>6. \A q \in T : q <= n => s[q].kind \in Stops
  BY DEF Positions
<1>7. n + 1 \in T
  OBVIOUS
<1> HIDE DEF T
<1>8. SettledAt(s, n, p, Min(T))
  <2>1. Min(T) \in p + 1 .. n + 1 /\ (Min(T) <= n => s[Min(T)].kind \in Stops)
    BY <1>2, <1>4, <1>6
  <2>2. ASSUME NEW q \in p + 1 .. n, q < Min(T) PROVE s[q].kind \notin Stops
    <3>1. q \in T => Min(T) <= q
      BY <1>4
    <3>2. Min(T) \in p + 1 .. n + 1 /\ q \in p + 1 .. n
      BY <1>2, <1>4
    <3> QED
      BY <1>5, <2>2, <3>1, <3>2
  <2> QED
    BY <2>1, <2>2 DEF SettledAt
<1>9. ASSUME NEW m, SettledAt(s, n, p, m)
      PROVE  Min(T) = m
  <2> DEFINE k == Min(T)
  <2>1. /\ k \in p + 1 .. n + 1 /\ m \in p + 1 .. n + 1
        /\ k <= n => s[k].kind \in Stops
        /\ m <= n => s[m].kind \in Stops
        /\ \A q \in p + 1 .. n : q < k => s[q].kind \notin Stops
        /\ \A q \in p + 1 .. n : q < m => s[q].kind \notin Stops
    BY <1>8, <1>9 DEF SettledAt
  <2> HIDE DEF k
  <2>2. ~(k < m)
    BY <2>1
  <2>3. ~(m < k)
    BY <2>1
  <2>4. k = m
    BY <2>1, <2>2, <2>3
  <2> QED
    BY <2>4 DEF k
<1> QED
  BY <1>1, <1>8, <1>9

(* A settled annotation stays settled where it is; another one is settled  *)
(* by the new entry, or not.                                               *)
LEMMA SettledLonger ==
    ASSUME NEW s, NEW u, NEW e, NEW n, Longer(s, u, e, n), NEW p \in 1 .. n
    PROVE  /\ Settled(s, p) \in p + 1 .. n + 1
           /\ Settled(u, p) = IF Settled(s, p) <= n THEN Settled(s, p)
                              ELSE IF e.kind \in Stops THEN n + 1 ELSE n + 2
<1>1. /\ n \in Nat /\ n + 1 \in Nat /\ Len(s) = n /\ Len(u) = n + 1
      /\ DOMAIN s = 1 .. n /\ DOMAIN u = 1 .. n + 1 /\ p \in 1 .. n + 1
      /\ \A q \in 1 .. n : u[q] = s[q]
      /\ u[n + 1] = e
  BY DEF Longer
<1> DEFINE m == Settled(s, p)
           k == IF m <= n THEN m ELSE IF e.kind \in Stops THEN n + 1 ELSE n + 2
<1>2. SettledAt(s, n, p, m)
  BY <1>1, SettledIs
<1>3. SettledAt(u, n + 1, p, k)
  <2> HIDE DEF m
  <2>0. /\ m \in p + 1 .. n + 1 /\ (m <= n => s[m].kind \in Stops)
        /\ \A q \in p + 1 .. n : q < m => s[q].kind \notin Stops
    BY <1>2 DEF SettledAt
  <2>1. CASE m <= n
    BY <1>1, <2>0, <2>1 DEF SettledAt
  <2>2. CASE ~(m <= n)
    <3>1. \A q \in p + 1 .. n : u[q].kind \notin Stops
      BY <1>1, <2>0, <2>2
    <3> QED
      BY <1>1, <2>0, <2>2, <3>1 DEF SettledAt
  <2> QED
    BY <2>1, <2>2
<1>4. Settled(u, p) = k
  <2> HIDE DEF k
  <2> QED
    BY <1>1, <1>3, SettledIs
<1> QED
  BY <1>2, <1>4 DEF SettledAt

(* A new annotation is not settled.                                        *)
LEMMA SettledNew ==
    ASSUME NEW s, NEW u, NEW e, NEW n, Longer(s, u, e, n)
    PROVE  Settled(u, n + 1) = n + 2
<1>1. /\ n \in Nat /\ n + 1 \in Nat /\ Len(u) = n + 1 /\ DOMAIN u = 1 .. n + 1
      /\ n + 1 \in 1 .. n + 1
  BY DEF Longer
<1>2. SettledAt(u, n + 1, n + 1, n + 2)
  <2>1. n + 2 \in (n + 1) + 1 .. (n + 1) + 1 /\ ~(n + 2 <= n + 1)
    BY <1>1
  <2>2. \A q \in (n + 1) + 1 .. n + 1 : FALSE
    BY <1>1
  <2> QED
    BY <2>1, <2>2 DEF SettledAt
<1> QED
  BY <1>1, <1>2, SettledIs

-----------------------------------------------------------------------------
(* The tables that a reference may mean.                                   *)
LEMMA DefinitionsLonger ==
    ASSUME NEW s, NEW u, NEW e, NEW n, Longer(s, u, e, n)
    PROVE  /\ \A p \in 1 .. n : Definitions(u, p) = Definitions(s, p)
           /\ Definitions(u, n + 1) = {q \in Positions(s, {"def"}) : s[q].handle = e.handle}
<1>1. /\ n \in Nat /\ u[n + 1] = e
      /\ \A q \in 1 .. n : u[q] = s[q]
  BY DEF Longer
<1>2. /\ Positions(s, {"def"}) \subseteq 1 .. n
      /\ Positions(u, {"def"}) \subseteq Positions(s, {"def"}) \cup {n + 1}
      /\ Positions(s, {"def"}) \subseteq Positions(u, {"def"})
  BY PositionsLonger
<1>3. ASSUME NEW p \in 1 .. n
      PROVE  Definitions(u, p) = Definitions(s, p)
  BY <1>1, <1>2 DEF Definitions
<1>4. Definitions(u, n + 1) = {q \in Positions(s, {"def"}) : s[q].handle = e.handle}
  BY <1>1, <1>2 DEF Definitions
<1> QED
  BY <1>3, <1>4

-----------------------------------------------------------------------------
(* The order in which annotations take effect.                             *)

(* Positions of the order of annotations.                                  *)
LEMMA EarliestIs ==
    ASSUME NEW s, NEW p \in DOMAIN s, NEW q \in DOMAIN s
    PROVE  << p, q >> \in Earliest(s) <=> Earlier(s, p, q)
<1>1. << p, q >> \in (DOMAIN s) \X (DOMAIN s) /\ << p, q >>[1] = p /\ << p, q >>[2] = q
  OBVIOUS
<1> QED
  BY <1>1 DEF Earliest

(* An annotation takes effect after the entries of the stream, or where it *)
(* is settled.                                                             *)
LEMMA EffectiveIs ==
    ASSUME NEW s, NEW n \in Nat, DOMAIN s = 1 .. n, Len(s) = n, NEW p \in 1 .. n
    PROVE  /\ Effective(s, p) \in p .. n + 1
           /\ s[p].kind # "struct" => Effective(s, p) = p
           /\ s[p].kind = "struct" => Effective(s, p) = Settled(s, p)
<1>1. Settled(s, p) \in p + 1 .. n + 1
  BY SettledIs DEF SettledAt
<1> QED
  BY <1>1 DEF Effective

(* This order is strict.                                                   *)
LEMMA EarliestStrict ==
    ASSUME NEW s, NEW n \in Nat, DOMAIN s = 1 .. n, Len(s) = n, NEW S \in SUBSET (1 .. n)
    PROVE  IsStrictOrder(S, Earliest(s)) /\ IsFiniteSet(S)
<1>1. ASSUME NEW p \in S PROVE Effective(s, p) \in Nat /\ p \in Nat
  <2>1. p \in 1 .. n
    OBVIOUS
  <2>2. Effective(s, p) \in p .. n + 1
    BY <2>1, EffectiveIs
  <2> QED
    BY <2>1, <2>2
<1>2. \A p, q \in S : << p, q >> \in Earliest(s) <=> Earlier(s, p, q)
  BY EarliestIs
<1>3. \A x \in S : ~Earlier(s, x, x)
  BY <1>1 DEF Earlier
<1>4. \A x, y \in S : x # y => Earlier(s, x, y) \/ Earlier(s, y, x)
  BY <1>1 DEF Earlier
<1>5. \A x, y, z \in S : Earlier(s, x, y) /\ Earlier(s, y, z) => Earlier(s, x, z)
  BY <1>1 DEF Earlier
<1>6. IsFiniteSet(S)
  <2>1. IsFiniteSet(1 .. n)
    BY FS_Interval
  <2> QED
    BY <2>1, FS_Subset
<1> QED
  BY <1>2, <1>3, <1>4, <1>5, <1>6 DEF IsStrictOrder

(* A new entry does not change the order of those before it: either what   *)
(* an annotation is settled by is there, or it is still the last.          *)
LEMMA EarlierLonger ==
    ASSUME NEW s, NEW u, NEW e, NEW n, Longer(s, u, e, n), NEW p \in 1 .. n, NEW q \in 1 .. n
    PROVE  Earlier(u, p, q) <=> Earlier(s, p, q)
<1>1. /\ n \in Nat /\ Len(s) = n /\ DOMAIN s = 1 .. n
      /\ \A r \in 1 .. n : u[r] = s[r]
  BY DEF Longer
<1> DEFINE c == IF e.kind \in Stops THEN n + 1 ELSE n + 2
<1>2. ASSUME NEW r \in 1 .. n
      PROVE  /\ Effective(s, r) \in r .. n + 1
             /\ Effective(u, r) = IF Effective(s, r) <= n THEN Effective(s, r) ELSE c
  <2>1. Effective(s, r) \in r .. n + 1
    BY <1>1, EffectiveIs
  <2>2. CASE s[r].kind = "struct"
    BY <1>1, <2>2, SettledLonger DEF Effective
  <2>3. CASE s[r].kind # "struct"
    BY <1>1, <2>3 DEF Effective
  <2> QED
    BY <2>1, <2>2, <2>3
<1>3. c \in Nat /\ c >= n + 1
  BY <1>1
<1> HIDE DEF c
<1> QED
  BY <1>1, <1>2, <1>3 DEF Earlier
=========================================================================
