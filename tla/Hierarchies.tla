----------------------------- MODULE Hierarchies -----------------------------
(***************************************************************************)
(* Opening one waveform file (open_wave_file, src/src/lib.rs): the format  *)
(* decides who reads the hierarchy.  Whoever does leaves a map from        *)
(* handles to variables and a tree of names, which all that follows uses   *)
(* without asking for the format again.                                    *)
(***************************************************************************)
EXTENDS Declarations

CONSTANTS FstEntries, VcdEntries,  \* what the hierarchies of files are made of
          Names                    \* names of scopes and variables

NamesIn(e) ==
    /\ e.kind \in {"scope", "var"} => e.name \in Names
    /\ e.kind = "var" => Tight(e.name) \in Names

ASSUME NamesAssumption ==
    (\A e \in FstEntries : NamesIn(e)) /\ (\A e \in VcdEntries : NamesIn(e))

(* None is no handle, of either format.                                    *)
ASSUME NoneAssumption ==
    None \notin Nat /\ \A e \in FstEntries : e.kind = "var" => e.code # None

VARIABLES format,                                \* "fst" or "vcd"
          stream, noSpace,
          map, tree, tables, enums,
          done, scope, last, pending, conflict,  \* build_hierarchy
          phase, depth, pos, frames, ids         \* the parser, walk

fstOnly == << done, scope, last, pending, conflict >>
vcdOnly == << phase, depth, pos, frames, ids >>
vars == << format, stream, noSpace, map, tree, tables, enums, fstOnly, vcdOnly >>

Fst == INSTANCE FstHierarchy WITH Entries <- FstEntries
Vcd == INSTANCE VcdHierarchy WITH Entries <- VcdEntries, header <- stream

Init == format \in {"fst", "vcd"} /\ Fst!Init /\ Vcd!Init

ReadFst == format = "fst" /\ Fst!Next /\ UNCHANGED << format, vcdOnly >>
ReadVcd == format = "vcd" /\ Vcd!Next /\ UNCHANGED << format, fstOnly >>

Next == ReadFst \/ ReadVcd

Spec == Init /\ [][Next]_vars

-----------------------------------------------------------------------------
(* What either reader keeps between two entries: annotations are pending   *)
(* only for a variable that is there to carry them, and the handles of a   *)
(* VCD file are 0 .. n - 1, as many as its reader reports.                 *)
TypeOK == IF format = "fst" THEN Fst!TypeOK ELSE Vcd!TypeOK

(* Every signal has the names and, on each of them, the annotations that   *)
(* the file declares, in order: an annotation before a scope is not given  *)
(* to the variable before it, an alias does not get those of another name  *)
(* of the signal, and none is lost at the end of a scope or of the file.   *)
(* Both formats are held to one reading of the declarations (AttrsDeclared *)
(* of module Declarations).                                                *)
AsDeclared == IF format = "fst" THEN Fst!AsDeclared ELSE Vcd!AsDeclared

(* A file is refused exactly when two of its enum tables disagree on a     *)
(* qualified name, also when the disagreement is not with the latest one.  *)
ConflictReported == IF format = "fst" THEN Fst!ConflictReported ELSE Vcd!ConflictReported

(* At every moment the parents and the tables of children of the tree      *)
(* agree, so no two ids are one path and every walk up ends at the root.   *)
TreeLinked == LinksAgree(tree)

(* find undoes segments: the path of every id leads back to that id.  This *)
(* is what lets build_handle_mapping look up a name of one file in the     *)
(* tree of the other (diff.rs:182-184).                                    *)
RoundTrip == \A id \in Ids(tree) : Find(tree, Segments(tree, id)) = id
=============================================================================
