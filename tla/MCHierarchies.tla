---------------------------- MODULE MCHierarchies ----------------------------
(* Files over one scope name, two signals with two or three names, one of  *)
(* them a bit select, one enum handle with two mappings of a qualified     *)
(* table, and for FST a plain table.                                       *)
EXTENDS Hierarchies
CONSTANTS s, x, y, T

Name(base, range) == [base |-> base, range |-> range, spaced |-> TRUE]
Var(code, base, range) == [kind |-> "var", code |-> code, name |-> Name(base, range)]
Def(table, m) == [kind |-> "def", handle |-> 1, table |-> table, mapping |-> m]

Common == { [kind |-> "scope", name |-> s], [kind |-> "up"],
            [kind |-> "struct"], [kind |-> "close"], [kind |-> "misc"],
            Def(<< s, T >>, 1), Def(<< s, T >>, 2), [kind |-> "ref", handle |-> 1] }

MCFstEntries == Common \cup {Var(0, x, "range"), Var(0, y, "range"), Def(<< T >>, 3)}
MCVcdEntries == Common \cup {Var("A", x, "range"), Var("B", x, "range"), Var("A", y, "bit"),
                             [kind |-> "malformed"]}
MCNames == {s} \cup {Name(b, r) : b \in {x, y}, r \in {"range", "bit"}}
             \cup {Tight(Name(b, r)) : b \in {x, y}, r \in {"range", "bit"}}
=============================================================================
