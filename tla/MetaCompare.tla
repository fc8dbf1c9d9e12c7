----------------------------- MODULE MetaCompare -----------------------------
(***************************************************************************)
(* The comparison of names and of metadata that precedes the comparison of *)
(* values (compare_signal_names and compare_signal_meta, src/src/diff.rs). *)
(* Both go by what is displayed, where the mapping of the handles goes by  *)
(* paths.  The lookup tables are HashMaps filled from HashMaps: of the     *)
(* variables of a side that are displayed alike, one is compared.          *)
(***************************************************************************)
EXTENDS NameTree, SequencesExt

CONSTANTS FlatName(_),    \* a path as format_path displays it
          Implicit        \* the direction that was not declared

Fields == {"type", "size", "direction", "enum"}     \* enum: the attributes

VarsOf(side) == UNION {ToSet(side.map[h]) : h \in DOMAIN side.map}
Displayed(side, var) == FlatName(Segments(side.tree, var.name))
NamesShown(side) == {Displayed(side, v) : v \in VarsOf(side)}

(* Mutant: a name that a filter dropped is still in the tree.              *)
OnlyInTree(x, y) == NamesShown(x) \ {FlatName(Segments(y.tree, id)) : id \in Ids(y.tree)}

(* compare_signal_names, one way                                           *)
OnlyIn(x, y) == NamesShown(x) \ NamesShown(y)

(* The table of a side whose handles are iterated in this order: a later   *)
(* variable replaces an earlier one that is displayed alike.               *)
Entered(side, found, var) ==
    [name \in DOMAIN found \cup {Displayed(side, var)} |->
        IF name = Displayed(side, var) THEN var ELSE found[name]]

EnteredAll(side, table, vars) ==
    FoldLeft(LAMBDA found, var : Entered(side, found, var), table, vars)

Lookup(side, order) ==
    FoldLeft(LAMBDA found, h : EnteredAll(side, found, side.map[h]), << >>, order)

(* Mutant: a direction is compared although a side does not declare it.    *)
DiffersPlain(field, v, w) == v[field] # w[field]

Differs(field, v, w) ==
    /\ v[field] # w[field]
    /\ field = "direction" => Implicit \notin {v.direction, w.direction}

MetaDiffs(entries1, entries2) ==
    {d \in (DOMAIN entries1 \cap DOMAIN entries2) \X Fields :
        Differs(d[2], entries1[d[1]], entries2[d[1]])}
=============================================================================
