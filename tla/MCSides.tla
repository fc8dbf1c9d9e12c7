------------------------------- MODULE MCSides -------------------------------
(* Files of up to two handles; paths share scopes, one pair of paths is    *)
(* displayed alike (an escaped name with and without the space before its  *)
(* range), one handle has two names, and one qualified enum table comes    *)
(* with either of two mappings, in different files. The first side has     *)
(* aliases, names the second does not have, a name displayed twice with    *)
(* different metadata, and handles a filter dropped; either side may       *)
(* declare no direction.                                                   *)
EXTENDS Sides, MCFiles
CONSTANTS t, u, a, b, bTight, Q, wire, real, in, out

Var(path, type, size, direction, enum) ==
    [path |-> path, type |-> type, size |-> size, direction |-> direction, enum |-> enum]
Plain(path) == Var(path, wire, 1, Implicit, None)
Enum(path, m) == Var(path, wire, 1, in, [table |-> << Q, t >>, mapping |-> m])

DisplayedName(path) == IF path = << t, bTight >> THEN << t, b >> ELSE path

VarLists == { << Plain(<< t, a >>) >>,
              << Var(<< t, b >>, real, 2, out, None) >>,
              << Enum(<< t, bTight >>, 1) >>,
              << Enum(<< u >>, 2), Plain(<< u, a >>) >>,
              << Enum(<< b >>, 1), Plain(<< t, a >>) >> }

(* The files whose own enum tables agree: the others are not opened.       *)
Opened(lists) == {f \in {FileOf(l) : l \in lists} : TablesAgree(f)}

SmallFiles == Opened(BoundedSeq(VarLists, 2))
TinyFiles == Opened(BoundedSeq(VarLists, 1))

FewFiles == Opened(BoundedSeq({ << Plain(<< t, a >>) >>, << Enum(<< t, bTight >>, 1) >>,
                                << Enum(<< u >>, 2), Plain(<< u, a >>) >> }, 2))

MCInputs == {<< f >> : f \in SmallFiles} \cup (SmallFiles \X FewFiles)
              \cup (TinyFiles \X TinyFiles \X TinyFiles)

Whole == FileOf(<< << Var(<< u, a >>, wire, 2, out, None), Plain(<< t, b >>) >>,
                   << Plain(<< b >>), Var(<< b >>, real, 1, out, None), Plain(<< t >>) >>,
                   << Plain(<< t, a >>) >> >>)
MCFirstSides == {FileOf(<< << Plain(<< t, a >>), Var(<< t, b >>, real, 2, in, None) >>,
                           << Var(<< t, bTight >>, real, 1, in, None) >> >>),
                 [Whole EXCEPT !.map = [h \in {0, 2} |-> Whole.map[h]]],
                 [Whole EXCEPT !.map = [h \in {0, 1} |-> Whole.map[h]]]}
=============================================================================
