---------------------------- MODULE Declarations ----------------------------
(***************************************************************************)
(* What a waveform file declares before its values, and how both readers   *)
(* of hierarchies record it (src/src/lib.rs).  An FST hierarchy and a VCD  *)
(* header are streams of the same entries:                                 *)
(*   scope    opens a scope; up closes the innermost one                   *)
(*   var      a variable: the signal it shows (code) and its name          *)
(*   struct   an array, pack or enum annotation of a declaration           *)
(*   close    the end of such an annotation                                *)
(*   misc     any other annotation                                         *)
(*   def      an enum table: its handle, its name and its mapping          *)
(*   ref      a use of an enum table by the variable before                *)
(* EntryStream and the second half of this module say which annotations    *)
(* belong to which variable by the positions in the stream alone; the      *)
(* builders find it out with a handle, a list of pending annotations and   *)
(* early clearing.                                                         *)
(***************************************************************************)
EXTENDS NameTree, Ordering, EntryStream

CONSTANTS None,        \* no variable, no error
          MaxEntries   \* bound on the entries of a stream

ASSUME EntriesBound == MaxEntries \in Nat

(* A name is its base, the kind of brackets after it ("none", "bit" or     *)
(* "range") and whether a space precedes the brackets.                     *)
Tight(name) == [name EXCEPT !.spaced = FALSE]

(* A table name is its parts around "::".                                  *)
Qualified(table) == Len(table) > 1

Bind(f, key, value) == [k \in DOMAIN f \cup {key} |-> IF k = key THEN value ELSE f[k]]
Nothing == [k \in {} |-> None]

-----------------------------------------------------------------------------
(* Recording.  A map takes a handle to its variables, each [name, attrs].  *)
VarsOf(map, handle) == IF handle \in DOMAIN map THEN map[handle] ELSE <<>>

WithVar(map, handle, leaf) ==
    Bind(map, handle, Append(VarsOf(map, handle), [name |-> leaf, attrs |-> <<>>]))

PushAttr(map, handle, attr) ==
    [map EXCEPT ![handle][Len(map[handle])].attrs = Append(@, attr)]

(* Pending annotations go to the last variable, or nowhere.                *)
Flushed(map, last, pending) ==
    IF last = None
    THEN map
    ELSE FoldLeft(LAMBDA m, attr : PushAttr(m, last, attr), map, pending)

Conflicts(known, e) ==
    /\ Qualified(e.table)
    /\ e.table \in DOMAIN known
    /\ known[e.table] # e.mapping

Registered(known, e) ==
    IF Qualified(e.table) /\ e.table \notin DOMAIN known
    THEN Bind(known, e.table, e.mapping)
    ELSE known

EnumAttr(e) == << "enum", e.table, e.mapping >>
StructAttr(p) == << "struct", p >>
MiscAttr(p) == << "misc", p >>

-----------------------------------------------------------------------------
(* The same by positions (EntryStream).                                    *)
AttrAt(stream, p) ==
    CASE stream[p].kind = "struct" -> StructAttr(p)
      [] stream[p].kind = "misc"   -> MiscAttr(p)
      [] stream[p].kind = "def"    -> EnumAttr(stream[p])
      [] stream[p].kind = "ref"    -> EnumAttr(stream[Max(Definitions(stream, p))])

AttrsDeclared(stream, kinds, v) ==
    LET order == InOrder(Attached(stream, kinds, v), Earliest(stream))
    IN  [k \in DOMAIN order |-> AttrAt(stream, order[k])]

(* The variables that show a signal, with names spelt by Spelt and those   *)
(* annotations that the format knows.                                      *)
SignalDeclared(stream, kinds, Spelt(_), code) ==
    LET order == Ascending({v \in Positions(stream, {"var"}) : stream[v].code = code})
    IN  [k \in DOMAIN order |->
           [path  |-> Append(ScopesAt(stream, order[k]), Spelt(stream[order[k]].name)),
            attrs |-> AttrsDeclared(stream, kinds, order[k])]]

CodesDeclared(stream) == {stream[v].code : v \in Positions(stream, {"var"})}

EnumsDisagree(stream) ==
    \E p, q \in Positions(stream, {"def"}) :
        /\ Qualified(stream[p].table)
        /\ stream[p].table = stream[q].table
        /\ stream[p].mapping # stream[q].mapping

Recorded(tree, vs) ==
    [k \in DOMAIN vs |-> [path |-> Segments(tree, vs[k].name), attrs |-> vs[k].attrs]]
=============================================================================
