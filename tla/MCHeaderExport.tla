-------------------------- MODULE MCHeaderExport ----------------------------
(* A lone file of up to four entries over all kinds of entries, or five    *)
(* over the kinds that matter for structure; two files of up to three, the *)
(* first also of four over fewer kinds.  Files are well nested and define  *)
(* a table or a path once, before use, as the writers of both formats do.  *)
(* The hierarchies of FST files have up to four names of two signals, in   *)
(* scopes nested up to two deep; the scales are those around the bounds.   *)
EXTENDS OutputFile

E(kind, name, code, handle) == [kind |-> kind, name |-> name, code |-> code, handle |-> handle]
Plain(kind) == E(kind, "-", 0, 0)
VarA == E("var", "a", 0, 0)
VarB == E("var", "b", 1, 0)
VarC == E("var", "c", 0, 0)
Structure == {E("scope", "s", 0, 0), Plain("up"), Plain("struct"), Plain("close")}
Enums == {E("def", "-", 0, 5), E("ref", "-", 0, 5)}
Paths == {E("path", "-", 0, 5), E("stem", "-", 0, 5)}

WellFormed(s) ==
    /\ IsHierarchy(s)
    /\ \A p, q \in Positions(s, {"var"}) : VarPath(s, p) = VarPath(s, q) => p = q

Files(entries, n) == {s \in BoundedSeq(entries, n) : WellFormed(s)}

LoneInputs ==
    {<< s >> : s \in Files(Structure \cup Enums \cup Paths \cup {VarA, VarB, Plain("misc"), Plain("comment")}, 4)
                     \cup Files(Structure \cup Enums \cup {VarA, VarB}, 5)}

OverlayInputs ==
    LET scopes == {E("scope", "s", 0, 0), Plain("up"), Plain("struct")}
    IN  (Files(Structure \cup Enums \cup {VarA, VarB}, 3) \cup Files(scopes \cup {VarA}, 4))
          \X Files(scopes \cup Enums \cup {VarC}, 3)

MCInputs == LoneInputs \cup OverlayInputs

MCNameOrder == << "a", "b", "e" >>
FstPaths ==
    {<< n >> : n \in {"a", "b", "e"}} \cup ({"a", "b"} \X {"a", "b"})
      \cup {<< "a", "a", "b" >>, << "a", "b", "a" >>, << "b", "a", "e" >>, << "b", "a", "b" >>}
Shown == {1, 2} \X FstPaths
MCHierarchies == {{}} \cup {{u, v, w, x} : u, v, w, x \in Shown}

MCScales ==
    {[form |-> "none"]} \cup {[form |-> "fst", exponent |-> e] : e \in {-16, -15, -13, -9, -1, 2, 3}}
      \cup {[form |-> "vcd", factor |-> f, unit |-> u] : f \in {1, 10, 100, 1000}, u \in {-15, -9, 0}}
=============================================================================
