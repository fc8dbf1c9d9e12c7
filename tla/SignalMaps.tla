----------------------------- MODULE SignalMaps -----------------------------
(***************************************************************************)
(* From the hierarchies of several files to one hierarchy, and back to     *)
(* what each reader has to read (src/src/lib.rs, diff.rs, cat.rs).         *)
(*                                                                         *)
(* open_wave_files opens every file and merge_signal_maps puts their       *)
(* handles side by side in one numbering; apply_filter drops the variables *)
(* no pattern matches; and a handle that is left goes back, through the    *)
(* offsets, to the reader that owns it: reader_include_sets for a          *)
(* comparison, merge_changes for wavecat.  The maps are HashMaps: the      *)
(* handles of a file come in any order.                                    *)
(***************************************************************************)
EXTENDS NameTree, FiniteSets, SequencesExt

CONSTANTS Inputs,         \* the sequences of files to open
          FlatName(_),    \* a path as format_path displays it
          None,           \* no enum attribute, no error
          All             \* no patterns, or no include set

(* A file is [map, tree]: handle -> sequence of variables, with names in   *)
(* tree.  A variable is a record with its name and its metadata, of which  *)
(* only enum matters here: None or [table, mapping], its enum attribute.   *)
(* A table name is its parts around "::": one of two parts or more is      *)
(* qualified.                                                              *)
VARIABLES files,      \* the hierarchies that were opened
          phase,      \* "merging", "filtering", "reading" or "refused"
          current,    \* the file whose handles are being merged
          todo,       \* its handles that are left
          map,        \* the merged map: handle -> sequence of variables
          tree,       \* the merged tree
          offsets,    \* first handle of each file
          seen,       \* flat name -> index of the file it was found in
          enums,      \* qualified enum name -> mapping
          refusal,    \* what the error is about, None before one
          kept        \* the flat names the patterns match, All without patterns

vars == << files, phase, current, todo, map, tree, offsets, seen, enums, refusal, kept >>

(* A hierarchy as it was opened: its tree is linked (module Hierarchies),  *)
(* and every handle has variables whose names are nodes of the tree.       *)
SegmentsIn(t) == UNION {DOMAIN NodeAt(t, id).children : id \in Ids(t)}

IsTree(t) ==
    /\ t \in Seq(ToSet(t)) /\ Len(t) >= 1
    /\ \A node \in ToSet(t) :
         /\ node \in [segment : SegmentsIn(t) \cup {RootSegment}, parent : {NoParent} \cup Nat,
                      children : {node.children}]
         /\ node.children \in [DOMAIN node.children -> Nat]
    /\ NodeAt(t, Root).parent = NoParent
    /\ LinksAgree(t)

IsHierarchy(file) ==
    /\ IsTree(file.tree)
    /\ DOMAIN file.map \subseteq Nat /\ IsFiniteSet(DOMAIN file.map)
    /\ \A h \in DOMAIN file.map :
         /\ file.map[h] \in Seq(ToSet(file.map[h])) /\ file.map[h] # <<>>
         /\ \A v \in ToSet(file.map[h]) : "name" \in DOMAIN v /\ v.name \in Ids(file.tree)

(* At least one file is opened.  A reader numbers its handles from 0, and  *)
(* each of them is declared by some variable.                              *)
ASSUME OpenedFiles ==
    \A fs \in Inputs :
       /\ DOMAIN fs = 1 .. Len(fs) /\ Len(fs) \in Nat \ {0}
       /\ \A i \in DOMAIN fs :
            /\ IsHierarchy(fs[i])
            /\ DOMAIN fs[i].map = 0 .. Cardinality(DOMAIN fs[i].map) - 1

(* Opening a file has checked its own tables: under one qualified name     *)
(* there is one mapping (lib.rs:490-493, 865; module Hierarchies,          *)
(* ConflictReported).                                                      *)
Qualified(table) == Len(table) > 1

EnumsOf(file) ==
    {v.enum : v \in UNION {ToSet(file.map[h]) : h \in DOMAIN file.map}} \ {None}

TablesAgree(file) ==
    \A x, y \in EnumsOf(file) : Qualified(x.table) /\ x.table = y.table => x.mapping = y.mapping

ASSUME TablesChecked == \A fs \in Inputs : \A i \in DOMAIN fs : TablesAgree(fs[i])

(* None and All are neither errors nor sets of names or handles.           *)
LocalHandles == UNION {UNION {DOMAIN fs[i].map : i \in DOMAIN fs} : fs \in Inputs}

Displays ==
    UNION {UNION {{FlatName(Segments(fs[i].tree, id)) : id \in Ids(fs[i].tree)} :
                    i \in DOMAIN fs} : fs \in Inputs}

ASSUME NoneAndAll ==
    /\ None \notin [kind : {"duplicate"}, name : Displays, first : Nat, second : Nat]
    /\ \A names \in SUBSET Displays : names # All
    /\ \A hs \in SUBSET LocalHandles : hs # All

Bind(f, key, value) == [k \in DOMAIN f \cup {key} |-> IF k = key THEN value ELSE f[k]]
Nothing == [k \in {} |-> None]

Handles(i) == DOMAIN files[i].map
PathIn(file, var) == Segments(file.tree, var.name)
FileFlat(i, var) == FlatName(PathIn(files[i], var))

(* Every variable that is declared, with the file it is in.                *)
Declared ==
    UNION {UNION {{<< i, h, k >> : k \in DOMAIN files[i].map[h]} : h \in Handles(i)} :
             i \in DOMAIN files}
VarAt(d) == files[d[1]].map[d[2]][d[3]]

-----------------------------------------------------------------------------
(* merge_signal_maps                                                       *)

(* A single file is taken as it is.                                        *)
Init ==
    /\ files \in Inputs
    /\ current = 1
    /\ seen = Nothing /\ enums = Nothing /\ refusal = None /\ kept = All
    /\ offsets = << 0 >>
    /\ IF Len(files) = 1
       THEN /\ phase = "filtering" /\ todo = {}
            /\ map = files[1].map /\ tree = files[1].tree
       ELSE /\ phase = "merging" /\ todo = Handles(1)
            /\ map = Nothing /\ tree = NewTree

(* The variables of one handle, in order; the first clash is the error.    *)
InternPath(t, path) ==
    FoldLeft(LAMBDA acc, s : [tree |-> Interned(acc.tree, acc.id, s),
                              id   |-> InternedId(acc.tree, acc.id, s)],
             [tree |-> t, id |-> Root], path)

(* Mutant: the names seen are forgotten when the next file is begun.       *)
SeenHere(flat, acc) == flat \in DOMAIN acc.seen /\ acc.seen[flat] = current

SeenBefore(flat, acc) == flat \in DOMAIN acc.seen

(* The attribute is the text "enum <table>: <mapping>", and the name that  *)
(* is checked is the text up to the first colon: of a qualified name only  *)
(* the part before its first "::", which is never qualified.               *)
NameChecked(table) == << Head(table) >>

Checked(enum) == enum # None /\ Qualified(NameChecked(enum.table))

Conflicts(enum, known) ==
    /\ Checked(enum)
    /\ NameChecked(enum.table) \in DOMAIN known
    /\ known[NameChecked(enum.table)] # enum.mapping

MergeVar(acc, var) ==
    LET path == PathIn(files[current], var)
        flat == FlatName(path)
        leaf == InternPath(acc.tree, path)
    IN  IF acc.refusal # None
        THEN acc
        ELSE IF SeenBefore(flat, acc)
        THEN [acc EXCEPT !.refusal = [kind |-> "duplicate", name |-> flat,
                                      first |-> acc.seen[flat], second |-> current]]
        ELSE IF Conflicts(var.enum, acc.enums)
        THEN [acc EXCEPT !.refusal = [kind |-> "enum", name |-> var.enum.table]]
        ELSE [acc EXCEPT !.tree  = leaf.tree,
                         !.seen  = Bind(@, flat, current),
                         !.enums = IF Checked(var.enum)
                                   THEN Bind(@, NameChecked(var.enum.table), var.enum.mapping)
                                   ELSE @,
                         !.vars  = Append(@, [var EXCEPT !.name = leaf.id])]

MergeHandle(h) ==
    /\ phase = "merging"
    /\ h \in todo
    /\ LET merged == FoldLeft(MergeVar,
                              [tree |-> tree, seen |-> seen, enums |-> enums,
                               vars |-> <<>>, refusal |-> None],
                              files[current].map[h])
       IN  IF merged.refusal # None
           THEN /\ phase' = "refused"
                /\ refusal' = merged.refusal
                /\ UNCHANGED << todo, map, tree, seen, enums >>
           ELSE /\ todo' = todo \ {h}
                /\ map' = Bind(map, Last(offsets) + h, merged.vars)
                /\ tree' = merged.tree
                /\ seen' = merged.seen
                /\ enums' = merged.enums
                /\ UNCHANGED << phase, refusal >>
    /\ UNCHANGED << files, current, offsets, kept >>

(* The next file starts after the largest handle of this one; a file       *)
(* without signals still takes one.                                        *)
Span(i) == (IF Handles(i) = {} THEN 0 ELSE Max(Handles(i))) + 1

NextFile ==
    /\ phase = "merging"
    /\ todo = {}
    /\ IF current < Len(files)
       THEN /\ current' = current + 1
            /\ todo' = Handles(current + 1)
            /\ offsets' = Append(offsets, Last(offsets) + Span(current))
            /\ UNCHANGED phase
       ELSE /\ phase' = "filtering"
            /\ UNCHANGED << current, todo, offsets >>
    /\ UNCHANGED << files, map, tree, seen, enums, refusal, kept >>

-----------------------------------------------------------------------------
(* Mutant: the filter keeps or drops a handle whole, with all its names.   *)
RetainedWhole(names) ==
    LET stays == {h \in DOMAIN map : \E k \in DOMAIN map[h] :
                                        FlatName(Segments(tree, map[h][k].name)) \in names}
    IN  [h \in stays |-> map[h]]

(* apply_filter: the variables whose display matches, and the handles that *)
(* still have one.                                                         *)
Matching(vs, names) ==
    FoldLeft(LAMBDA acc, v : IF FlatName(Segments(tree, v.name)) \in names THEN Append(acc, v)
                                                                          ELSE acc,
             <<>>, vs)

Retained(names) ==
    LET stays == {h \in DOMAIN map : Matching(map[h], names) # <<>>}
    IN  [h \in stays |-> Matching(map[h], names)]

NoFilter ==
    /\ phase = "filtering"
    /\ phase' = "reading"
    /\ UNCHANGED << files, current, todo, map, tree, offsets, seen, enums, refusal, kept >>

Filter(names) ==
    /\ phase = "filtering"
    /\ map' = Retained(names)
    /\ kept' = names
    /\ phase' = "reading"
    /\ UNCHANGED << files, current, todo, tree, offsets, seen, enums, refusal >>

-----------------------------------------------------------------------------
(* What each reader reads.                                                 *)

(* reader_signal_count: the handles of a file are 0 .. count - 1.          *)
Count(i) == Cardinality(Handles(i))

SourceCount == FoldLeft(LAMBDA sum, file : sum + Cardinality(DOMAIN file.map), 0, files)

(* The binary search of reader_include_sets: the last offset not after h.  *)
ReaderOf(h) == Max({i \in DOMAIN offsets : offsets[i] <= h})

(* Mutant: the reader is given merged handles.                             *)
DiffIncludeMerged(i) ==
    IF Cardinality(DOMAIN map) = SourceCount
    THEN All
    ELSE {g \in DOMAIN map : ReaderOf(g) = i}

(* All, or the local handles reader i is to read, for a comparison ...     *)
DiffInclude(i) ==
    IF Cardinality(DOMAIN map) = SourceCount
    THEN All
    ELSE {h - offsets[i] : h \in {g \in DOMAIN map : ReaderOf(g) = i}}

(* ... and for wavecat with several files (merge_changes).                 *)
CatInclude(i) ==
    LET local == {h - offsets[i] : h \in DOMAIN map \cap offsets[i] .. offsets[i] + Count(i) - 1}
    IN  IF Cardinality(local) # Count(i) THEN local ELSE All

-----------------------------------------------------------------------------
FlatNames == {FileFlat(d[1], VarAt(d)) : d \in Declared}

Next ==
    \/ \E h \in todo : MergeHandle(h)
    \/ NextFile
    \/ NoFilter
    \/ \E names \in SUBSET FlatNames : Filter(names)

Spec == Init /\ [][Next]_vars

-----------------------------------------------------------------------------
(* Every merged handle is one handle of one file, found by its offset, and *)
(* carries the paths and metadata of that handle, in their order: nothing  *)
(* is renamed, lost or attached elsewhere by the offsets, by interning in  *)
(* another tree or by the filter, and the ranges of the files do not meet  *)
(* (lib.rs:961-1037, 336-348).                                             *)
Stays(var, i) == kept = All \/ FileFlat(i, var) \in kept

Staying(i, l) == {k \in DOMAIN files[i].map[l] : Stays(files[i].map[l][k], i)}

Described(t, var) == [var EXCEPT !.name = Segments(t, @)]

CopyOf(h, i, l) ==
    /\ Len(map[h]) = Cardinality(Staying(i, l))
    /\ \A k \in Staying(i, l) :
         Described(tree, map[h][Cardinality({j \in Staying(i, l) : j <= k})])
           = Described(files[i].tree, files[i].map[l][k])

MergedFaithful ==
    /\ \A i, j \in DOMAIN offsets : i < j => offsets[i] + Count(i) <= offsets[j]
    /\ \A h \in DOMAIN map :
         LET i     == ReaderOf(h)
             local == h - offsets[i]
         IN  local \in Handles(i) /\ CopyOf(h, i, local)

(* Files that are opened together display no name in two of them, and an   *)
(* error for a duplicate names a signal and two files that have it,        *)
(* whatever the order in which the maps are iterated (lib.rs:963-966,      *)
(* 990-998, README.md:30-31).  Of a file that itself displays a name twice *)
(* the documentation says nothing and the code refuses it: the second half *)
(* is about files that do not.                                             *)
Displayed(d) == FileFlat(d[1], VarAt(d))

OnceInEach ==
    \A d, e \in Declared : d[1] = e[1] /\ Displayed(d) = Displayed(e) => d = e

Shared(i, j, name) ==
    /\ i # j
    /\ \E d, e \in Declared :
         d[1] = i /\ e[1] = j /\ Displayed(d) = name /\ Displayed(e) = name

RefusedIffShared ==
    Len(files) > 1 =>
        /\ phase \in {"filtering", "reading"} =>
             \A i, j \in DOMAIN files : \A name \in FlatNames : ~Shared(i, j, name)
        /\ phase = "refused" /\ refusal.kind = "duplicate" /\ OnceInEach =>
             Shared(refusal.first, refusal.second, refusal.name)

(* Filtering reaches the readers exactly: each reader, of a comparison or  *)
(* of wavecat, reads the handles that still have a name, no others and no  *)
(* fewer; reading everything is chosen only when that is the same.         *)
Wanted(i) == {l \in Handles(i) : \E k \in DOMAIN files[i].map[l] : Stays(files[i].map[l][k], i)}
Read(include, i) == IF include = All THEN Handles(i) ELSE include

SelectionExact ==
    phase = "reading" =>
        \A i \in DOMAIN files :
            /\ Read(DiffInclude(i), i) = Wanted(i)
            /\ Len(files) > 1 => Read(CatInclude(i), i) = Wanted(i)

(* The doc of merge_signal_maps (lib.rs:964-966): it errors "if qualified  *)
(* enum definitions conflict across files".                                *)
EnumsConflict ==
    \E d, e \in Declared :
        /\ d[1] # e[1]
        /\ VarAt(d).enum # None /\ VarAt(e).enum # None
        /\ VarAt(d).enum.table = VarAt(e).enum.table
        /\ Qualified(VarAt(d).enum.table)
        /\ VarAt(d).enum.mapping # VarAt(e).enum.mapping

EnumConflictsRefused ==
    EnumsConflict => phase \notin {"filtering", "reading"}
=============================================================================
