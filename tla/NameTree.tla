------------------------------ MODULE NameTree ------------------------------
(***************************************************************************)
(* The arena of hierarchical names (NameTree, src/src/lib.rs).  A node     *)
(* holds one path segment, its parent and a table of its children; a       *)
(* NameId is the position of a node.  Signals keep NameIds only, so every  *)
(* lookup, every display and every comparison of two files relies on an id *)
(* and its path naming each other.                                         *)
(*                                                                         *)
(* The operators take the arena as an argument: every module about a       *)
(* hierarchy has trees of its own.                                         *)
(***************************************************************************)
EXTENDS Integers, Sequences

Root == 0
NoParent == -1

(* A vector is a sequence; the node with id n is its element n + 1.        *)
NodeAt(t, id) == t[id + 1]
Ids(t) == 0 .. Len(t) - 1

Leaf(parent, segment) ==
    [segment |-> segment, parent |-> parent, children |-> [s \in {} |-> Root]]

RootSegment == <<>>

NewTree == << Leaf(NoParent, RootSegment) >>

Known(t, parent, segment) == segment \in DOMAIN NodeAt(t, parent).children

Linked(children, segment, id) ==
    [s \in DOMAIN children \cup {segment} |-> IF s = segment THEN id ELSE children[s]]

(* Mutant: the table gets the position after the push, one past the node.  *)
InternedLate(t, parent, segment) ==
    IF Known(t, parent, segment)
    THEN t
    ELSE Append([t EXCEPT ![parent + 1].children = Linked(@, segment, Len(t) + 1)],
                Leaf(parent, segment))

(* The arena after intern(parent, segment), and the id the call returns.   *)
Interned(t, parent, segment) ==
    IF Known(t, parent, segment)
    THEN t
    ELSE Append([t EXCEPT ![parent + 1].children = Linked(@, segment, Len(t))],
                Leaf(parent, segment))

InternedId(t, parent, segment) ==
    IF Known(t, parent, segment)
    THEN NodeAt(t, parent).children[segment]
    ELSE Len(t)

(* Mutant: the walk up is not reversed.                                    *)
SegmentsUpwards(t, leaf) ==
    LET path[id \in Ids(t)] ==
          IF NodeAt(t, id).parent = NoParent
          THEN <<>>
          ELSE << NodeAt(t, id).segment >> \o path[NodeAt(t, id).parent]
    IN  path[leaf]

(* The path of an id: the segments from below the root down to it.         *)
Segments(t, leaf) ==
    LET path[id \in Ids(t)] ==
          IF NodeAt(t, id).parent = NoParent
          THEN <<>>
          ELSE Append(path[NodeAt(t, id).parent], NodeAt(t, id).segment)
    IN  path[leaf]

(* The id of a path, or NotFound when some segment is missing.             *)
NotFound == -1

Find(t, path) ==
    LET at[k \in 0 .. Len(path)] ==
          IF k = 0 THEN Root
          ELSE IF at[k - 1] # NotFound /\ Known(t, at[k - 1], path[k])
               THEN NodeAt(t, at[k - 1]).children[path[k]]
               ELSE NotFound
    IN  at[Len(path)]

-----------------------------------------------------------------------------
Node(S) == [segment : S \cup {RootSegment},
            parent : {NoParent} \cup Nat,
            children : UNION {[T -> Nat] : T \in SUBSET S}]

(* An arena over the segments S: the first node, the root, has no parent,  *)
(* the walks up (segments, UpScope) end there.                             *)
IsArena(t, S) ==
    /\ t \in Seq(Node(S))
    /\ Len(t) >= 1
    /\ NodeAt(t, Root).parent = NoParent

(* The two directions of the links agree: a node is in the table of its    *)
(* parent, under its segment, and a table leads to children only.  Parents *)
(* come before children, so every walk up ends.                            *)
LinkedUp(t) ==
    \A id \in Ids(t) \ {Root} :
        /\ NodeAt(t, id).parent \in 0 .. id - 1
        /\ NodeAt(t, id).segment \in DOMAIN NodeAt(t, NodeAt(t, id).parent).children
        /\ NodeAt(t, NodeAt(t, id).parent).children[NodeAt(t, id).segment] = id

LinkedDown(t) ==
    \A id \in Ids(t) : \A s \in DOMAIN NodeAt(t, id).children :
        LET child == NodeAt(t, id).children[s]
        IN  /\ child \in Ids(t) \ {Root}
            /\ NodeAt(t, child).parent = id
            /\ NodeAt(t, child).segment = s

LinksAgree(t) == LinkedUp(t) /\ LinkedDown(t)
=============================================================================
