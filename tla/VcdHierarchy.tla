---------------------------- MODULE VcdHierarchy ----------------------------
(***************************************************************************)
(* The hierarchy of a VCD file: parse_header and parse_scope               *)
(* (src/src/vcd/parser.rs) read the commands of the header into nested     *)
(* scopes, and VcdHierarchyBuilder::walk (src/src/lib.rs) visits them.     *)
(* The parser is done before the walk starts.  A call of walk is a frame:  *)
(* its scope, its last variable and its pending annotations are its own.   *)
(***************************************************************************)
EXTENDS Declarations

CONSTANT Entries       \* the commands a header is made of

VARIABLES header,      \* the commands read before $enddefinitions
          noSpace,     \* NameOptions.no_range_space
          phase,       \* "parsing", "walking", "built" or "refused"
          depth,       \* scopes the parser has open
          pos,         \* the next item of the walk
          frames,      \* the calls of walk, outermost first
          map, ids, tree, tables, enums

vars == << header, noSpace, phase, depth, pos, frames, map, ids, tree, tables, enums >>

Frame(scope) == [scope |-> scope, last |-> None, pending |-> <<>>]

Init ==
    /\ header = <<>> /\ noSpace \in BOOLEAN
    /\ phase = "parsing" /\ depth = 0
    /\ pos = 1 /\ frames = << Frame(Root) >>
    /\ map = Nothing /\ ids = Nothing /\ tree = NewTree
    /\ tables = Nothing /\ enums = Nothing

-----------------------------------------------------------------------------
(* parse_header and parse_scope                                            *)
ParseCommand(e) ==
    /\ phase = "parsing"
    /\ Len(header) < MaxEntries
    /\ e.kind = "up" => depth > 0
    /\ header' = Append(header, e)
    /\ depth' = CASE e.kind = "scope" -> depth + 1
                  [] e.kind = "up"    -> depth - 1
                  [] OTHER            -> depth
    /\ UNCHANGED << noSpace, phase, pos, frames, map, ids, tree, tables, enums >>

(* $upscope with no scope open, $enddefinitions with one, or the end of    *)
(* the file before it.                                                     *)
ParseFail ==
    /\ phase = "parsing"
    /\ phase' = "refused"
    /\ UNCHANGED << header, noSpace, depth, pos, frames, map, ids, tree, tables, enums >>

EndDefinitions ==
    /\ phase = "parsing"
    /\ depth = 0
    /\ phase' = "walking"
    /\ UNCHANGED << header, noSpace, depth, pos, frames, map, ids, tree, tables, enums >>

-----------------------------------------------------------------------------
(* walk                                                                    *)
Top == Last(frames)
Walks(kind) ==
    /\ phase = "walking"
    /\ pos <= Len(header)
    /\ header[pos].kind = kind
    /\ pos' = pos + 1
    /\ UNCHANGED << header, noSpace, phase, depth >>

Item == header[pos]
SetTop(frame) == [frames EXCEPT ![Len(frames)] = frame]

Cleared(frame) == [frame EXCEPT !.pending = <<>>]

(* The recursive call, and its return to the frame that made it, which     *)
(* forgets the variable before the scope.                                  *)
WalkScope ==
    /\ Walks("scope")
    /\ tree' = Interned(tree, Top.scope, Item.name)
    /\ frames' = Append(SetTop(Cleared(Top)), Frame(InternedId(tree, Top.scope, Item.name)))
    /\ UNCHANGED << map, ids, tables, enums >>

WalkReturn ==
    /\ Walks("up")
    /\ Len(frames) > 1
    /\ map' = Flushed(map, Top.last, Top.pending)
    /\ frames' = [k \in 1 .. Len(frames) - 1 |->
                    IF k = Len(frames) - 1 THEN [frames[k] EXCEPT !.last = None] ELSE frames[k]]
    /\ UNCHANGED << ids, tree, tables, enums >>

(* A bit select keeps its space, a range follows the option; brackets that *)
(* are part of the name token have no space before them.                   *)
SpeltVcd(name) == IF noSpace /\ name.range = "range" THEN Tight(name) ELSE name

(* Mutant: an alias gets a handle of its own.                              *)
HandleFresh(code) == Cardinality(DOMAIN ids) + Len(header)

(* Handles are given in order of first use of an identifier code.          *)
HandleOf(code) == IF code \in DOMAIN ids THEN ids[code] ELSE Cardinality(DOMAIN ids)

WalkVar ==
    /\ Walks("var")
    /\ LET handle == HandleOf(Item.code)
           leaf   == SpeltVcd(Item.name)
       IN  /\ ids' = Bind(ids, Item.code, handle)
           /\ tree' = Interned(tree, Top.scope, leaf)
           /\ map' = WithVar(Flushed(map, Top.last, Top.pending), handle,
                             InternedId(tree, Top.scope, leaf))
           /\ frames' = SetTop([Top EXCEPT !.last = handle, !.pending = <<>>])
    /\ UNCHANGED << tables, enums >>

WalkAttributeEnd ==
    /\ Walks("close")
    /\ map' = Flushed(map, Top.last, Top.pending)
    /\ frames' = SetTop(Cleared(Top))
    /\ UNCHANGED << ids, tree, tables, enums >>

Disagrees(e) == Conflicts(enums, e)

(* A definition is an annotation of the variable before it as well.        *)
WalkEnumTable ==
    /\ Walks("def")
    /\ ~Disagrees(Item)
    /\ enums' = Registered(enums, Item)
    /\ tables' = Bind(tables, Item.handle, Item)
    /\ map' = IF Top.last # None THEN PushAttr(map, Top.last, EnumAttr(Item)) ELSE map
    /\ UNCHANGED << frames, ids, tree >>

(* A conflict ends the walk at once.                                       *)
WalkConflict ==
    /\ phase = "walking"
    /\ pos <= Len(header)
    /\ Item.kind = "def"
    /\ Disagrees(Item)
    /\ phase' = "refused"
    /\ UNCHANGED << header, noSpace, depth, pos, frames, map, ids, tree, tables, enums >>

WalkEnumRef ==
    /\ Walks("ref")
    /\ map' = IF Top.last # None /\ Item.handle \in DOMAIN tables
              THEN PushAttr(map, Top.last, EnumAttr(tables[Item.handle]))
              ELSE map
    /\ UNCHANGED << frames, ids, tree, tables, enums >>

WalkStructural ==
    /\ Walks("struct")
    /\ frames' = IF Top.last # None
                 THEN SetTop([Top EXCEPT !.pending = Append(@, StructAttr(pos))])
                 ELSE frames
    /\ UNCHANGED << map, ids, tree, tables, enums >>

(* Any other annotation goes to the variable before it at once.            *)
WalkMisc ==
    /\ Walks("misc")
    /\ map' = IF Top.last # None THEN PushAttr(map, Top.last, MiscAttr(pos)) ELSE map
    /\ UNCHANGED << frames, ids, tree, tables, enums >>

(* An enum table whose text is not a table is passed over.                 *)
WalkMalformed ==
    /\ Walks("malformed")
    /\ UNCHANGED << frames, map, ids, tree, tables, enums >>

WalkEnd ==
    /\ phase = "walking"
    /\ pos > Len(header)
    /\ map' = Flushed(map, Top.last, Top.pending)
    /\ frames' = SetTop(Cleared(Top))
    /\ phase' = "built"
    /\ UNCHANGED << header, noSpace, depth, pos, ids, tree, tables, enums >>

Next ==
    \/ \E e \in Entries : ParseCommand(e)
    \/ ParseFail \/ EndDefinitions
    \/ WalkScope \/ WalkReturn \/ WalkVar \/ WalkAttributeEnd \/ WalkEnumTable \/ WalkConflict
    \/ WalkEnumRef \/ WalkStructural \/ WalkMisc \/ WalkMalformed \/ WalkEnd

Spec == Init /\ [][Next]_vars

-----------------------------------------------------------------------------
(* Handles are 0 .. n - 1, one for each identifier code, and all of them   *)
(* have variables: the number of codes is the number of signals a reader   *)
(* reports, which the choice of include sets relies on (diff.rs:252-257).  *)
TypeOK ==
    /\ DOMAIN map = 0 .. Cardinality(DOMAIN ids) - 1
    /\ {ids[c] : c \in DOMAIN ids} = DOMAIN map
    /\ phase = "walking" =>
         Len(frames) = 1 + Len(ScopesAt(header, pos))
    /\ \A k \in DOMAIN frames : frames[k].pending # <<>> => frames[k].last \in DOMAIN map

(* Every signal has the names and, on each of them, the annotations that   *)
(* the header declares, in order. The VCD header of a hierarchy gives the  *)
(* same as its FST form (FstHierarchy), apart from definitions and other   *)
(* annotations, which only VCD attaches, and from the space before a bit   *)
(* select, which no_range_space removes in FST (lib.rs:452) and not in VCD *)
(* (lib.rs:829).                                                           *)
AsDeclared ==
    phase = "built" =>
        /\ DOMAIN ids = CodesDeclared(header)
        /\ \A c \in DOMAIN ids :
             Recorded(tree, map[ids[c]])
               = SignalDeclared(header, {"struct", "ref", "misc", "def"}, SpeltVcd, c)

(* A header without nesting errors is refused exactly when two of its      *)
(* tables disagree on a qualified name.                                    *)
ConflictReported ==
    /\ phase = "built" => ~EnumsDisagree(header)
    /\ (phase = "refused" /\ pos > 1) => EnumsDisagree(header)
=============================================================================
