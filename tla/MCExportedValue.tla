--------------------------- MODULE MCExportedValue ---------------------------
(* Numbers and tolerances so that distances fall below, on and above every *)
(* tolerance, the four special floats, and texts of all kinds.  Exported   *)
(* vectors are narrower than, as wide as and wider than declared; strings  *)
(* are empty, plain, with blanks and with what is a state in upper case.   *)
EXTENDS ExportedValue
MCFinite == -1 .. 2
MCTolerances == 0 .. 2
MCSizes == 0 .. 3
MCRealText(f) == ToString(f)
MCCharacters ==
    States \cup Uppercase \cup {"u", Blank, Code, "a", "b"} \cup {ToString(f) : f \in Floats}
MCStrings == {<<>>, << "a" >>, << "X" >>, << "a", "b" >>, << Blank, "a" >>, << "a", Blank >>, << "a", Blank, "b" >>}
=============================================================================
