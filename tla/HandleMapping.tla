---------------------------- MODULE HandleMapping ----------------------------
(***************************************************************************)
(* Which handles of one side a comparison compares with which handles of   *)
(* the other (build_handle_mapping, src/src/diff.rs).  The sides number    *)
(* their handles and their names independently; they have in common only   *)
(* the paths.  Each side is [map, tree]: handle -> sequence of variables,  *)
(* each with a name in tree.  A filter may have dropped variables, whose   *)
(* paths are still in the tree.  Both maps are iterated in any order.      *)
(***************************************************************************)
EXTENDS NameTree, SequencesExt

VARIABLES a, b,           \* the two sides, opened and filtered
          unindexed,      \* handles of b that are not in the index yet
          index,          \* name in b's tree -> the handles that use it
          unmapped,       \* handles of a that are left
          mapping         \* handle of a -> handles of b

NamesOf(side, h) == [k \in DOMAIN side.map[h] |-> side.map[h][k].name]

-----------------------------------------------------------------------------
Empty == [n \in {} |-> <<>>]

Start ==
    /\ unindexed' = DOMAIN b.map
    /\ index' = Empty
    /\ unmapped' = DOMAIN a.map
    /\ mapping' = Empty

(* build_name_id_to_handles                                                *)
HandlesNamed(idx, name) == IF name \in DOMAIN idx THEN idx[name] ELSE <<>>

Pushed(h, idx, name) ==
    [n \in DOMAIN idx \cup {name} |->
        IF n = name THEN Append(HandlesNamed(idx, n), h) ELSE idx[n]]

IndexHandle(h) ==
    /\ h \in unindexed
    /\ index' = FoldLeft(LAMBDA idx, name : Pushed(h, idx, name), index, NamesOf(b, h))
    /\ unindexed' = unindexed \ {h}
    /\ UNCHANGED << unmapped, mapping >>

(* The handles of b for one name of a: its path, looked up in b's tree.    *)
Counterparts(name) == HandlesNamed(index, Find(b.tree, Segments(a.tree, name)))

AddAll(found, handles) ==
    FoldLeft(LAMBDA acc, h : IF Contains(acc, h) THEN acc ELSE Append(acc, h), found, handles)

(* Mutant: the last name of a handle decides.                              *)
HandlesForLast(names) ==
    IF names = <<>> THEN <<>> ELSE AddAll(<<>>, Counterparts(Last(names)))

HandlesFor(names) ==
    FoldLeft(LAMBDA found, name : AddAll(found, Counterparts(name)), <<>>, names)

(* A handle without counterpart has no entry.                              *)
Entry(h, handles) ==
    IF handles = <<>>
    THEN mapping
    ELSE [g \in DOMAIN mapping \cup {h} |-> IF g = h THEN handles ELSE mapping[g]]

MapHandle(h) ==
    /\ unindexed = {}
    /\ h \in unmapped
    /\ mapping' = Entry(h, HandlesFor(NamesOf(a, h)))
    /\ unmapped' = unmapped \ {h}
    /\ UNCHANGED << unindexed, index >>

Next ==
    \/ \E h \in unindexed : IndexHandle(h)
    \/ \E h \in unmapped : MapHandle(h)

-----------------------------------------------------------------------------
Paths(side, h) == {Segments(side.tree, side.map[h][k].name) : k \in DOMAIN side.map[h]}

(* When the maps have been walked, a handle of a is mapped to exactly the  *)
(* handles of b that share a path with it, whatever the order of the walks *)
(* and however the trees number their nodes (diff.rs:170-202); and to each *)
(* once: the comparison compares once per entry.                           *)
MappingExact ==
    \A h \in DOMAIN a.map \ unmapped :
        LET shared == {g \in DOMAIN b.map : Paths(a, h) \cap Paths(b, g) # {}}
        IN  IF h \in DOMAIN mapping
            THEN ToSet(mapping[h]) = shared /\ shared # {} /\ IsInjective(mapping[h])
            ELSE shared = {}
=============================================================================
