---------------------------- MODULE FstHierarchy ----------------------------
(***************************************************************************)
(* build_hierarchy (src/src/lib.rs): one pass over the hierarchy of an FST *)
(* file.  The closure that gets the entries cannot stop the reader, so a   *)
(* conflict between enum tables is remembered and reported at the end.     *)
(***************************************************************************)
EXTENDS Declarations

CONSTANT Entries       \* the entries a stream is made of

VARIABLES stream,      \* the entries read so far
          noSpace,     \* NameOptions.no_range_space
          done,        \* the hierarchy has been read
          map, tree, scope, last, pending, tables, enums, conflict

vars == << stream, noSpace, done, map, tree, scope, last, pending, tables, enums, conflict >>

Init ==
    /\ stream = <<>>
    /\ noSpace \in BOOLEAN
    /\ done = FALSE
    /\ map = Nothing /\ tree = NewTree /\ scope = Root
    /\ last = None /\ pending = <<>>
    /\ tables = Nothing /\ enums = Nothing /\ conflict = FALSE

SpeltFst(name) == IF noSpace THEN Tight(name) ELSE name

Here == Len(stream) + 1

Reads(e) ==
    /\ ~done
    /\ Len(stream) < MaxEntries
    /\ stream' = Append(stream, e)
    /\ UNCHANGED << noSpace, done >>

(* Mutant: the pending annotations go to the variable before the scope.    *)
ClearBeforeScopeFlush ==
    /\ map' = Flushed(map, last, pending)
    /\ pending' = <<>>

(* What is pending before a scope describes the scope.                     *)
ClearBeforeScope ==
    /\ pending' = <<>>
    /\ UNCHANGED map

FstScope(e) ==
    /\ e.kind = "scope"
    /\ Reads(e)
    /\ ClearBeforeScope
    /\ tree' = Interned(tree, scope, e.name)
    /\ scope' = InternedId(tree, scope, e.name)
    /\ last' = None
    /\ UNCHANGED << tables, enums, conflict >>

(* An up at the root stays there.                                          *)
FstUpScope(e) ==
    /\ e.kind = "up"
    /\ Reads(e)
    /\ map' = Flushed(map, last, pending)
    /\ pending' = <<>>
    /\ scope' = IF NodeAt(tree, scope).parent = NoParent THEN Root ELSE NodeAt(tree, scope).parent
    /\ last' = None
    /\ UNCHANGED << tree, tables, enums, conflict >>

FstVar(e) ==
    /\ e.kind = "var"
    /\ Reads(e)
    /\ tree' = Interned(tree, scope, SpeltFst(e.name))
    /\ map' = WithVar(Flushed(map, last, pending), e.code, InternedId(tree, scope, SpeltFst(e.name)))
    /\ last' = e.code
    /\ pending' = <<>>
    /\ UNCHANGED << scope, tables, enums, conflict >>

FstAttributeEnd(e) ==
    /\ e.kind = "close"
    /\ Reads(e)
    /\ map' = Flushed(map, last, pending)
    /\ pending' = <<>>
    /\ UNCHANGED << tree, scope, last, tables, enums, conflict >>

(* Mutant: the latest table decides whether there was a conflict.          *)
FstEnumTableLatest(e) ==
    /\ e.kind = "def"
    /\ Reads(e)
    /\ conflict' = Conflicts(enums, e)
    /\ enums' = Registered(enums, e)
    /\ tables' = Bind(tables, e.handle, e)
    /\ UNCHANGED << map, tree, scope, last, pending >>

(* Only the first conflict is kept; the table is entered all the same.     *)
FstEnumTable(e) ==
    /\ e.kind = "def"
    /\ Reads(e)
    /\ conflict' = (conflict \/ Conflicts(enums, e))
    /\ enums' = IF conflict THEN enums ELSE Registered(enums, e)
    /\ tables' = Bind(tables, e.handle, e)
    /\ UNCHANGED << map, tree, scope, last, pending >>

FstEnumTableRef(e) ==
    /\ e.kind = "ref"
    /\ Reads(e)
    /\ map' = IF last # None /\ e.handle \in DOMAIN tables
              THEN PushAttr(map, last, EnumAttr(tables[e.handle]))
              ELSE map
    /\ UNCHANGED << tree, scope, last, pending, tables, enums, conflict >>

(* An array, pack or enum annotation, kept only after a variable.          *)
FstStructural(e) ==
    /\ e.kind = "struct"
    /\ Reads(e)
    /\ pending' = IF last # None THEN Append(pending, StructAttr(Here)) ELSE pending
    /\ UNCHANGED << map, tree, scope, last, tables, enums, conflict >>

FstOther(e) ==
    /\ e.kind = "misc"
    /\ Reads(e)
    /\ UNCHANGED << map, tree, scope, last, pending, tables, enums, conflict >>

FstEnd ==
    /\ ~done
    /\ done' = TRUE
    /\ map' = Flushed(map, last, pending)
    /\ pending' = <<>>
    /\ UNCHANGED << stream, noSpace, tree, scope, last, tables, enums, conflict >>

Next ==
    \/ \E e \in Entries : \/ FstScope(e) \/ FstUpScope(e) \/ FstVar(e) \/ FstAttributeEnd(e)
                          \/ FstEnumTable(e) \/ FstEnumTableRef(e) \/ FstStructural(e)
                          \/ FstOther(e)
    \/ FstEnd

Spec == Init /\ [][Next]_vars

-----------------------------------------------------------------------------
(* The handle that annotations go to has a variable to carry them, and     *)
(* nothing is pending without one.                                         *)
TypeOK ==
    /\ scope \in Ids(tree)
    /\ last # None => last \in DOMAIN map /\ map[last] # <<>>
    /\ pending # <<>> => last # None
    /\ \A h \in DOMAIN map : \A k \in DOMAIN map[h] : map[h][k].name \in Ids(tree)

(* Every signal has the names and, on each of them, the annotations that   *)
(* the stream declares, in order: an annotation before a scope is not      *)
(* given to the variable before it, an alias does not get those of another *)
(* name of the signal, and none is lost at a scope's or the file's end.    *)
AsDeclared ==
    done => /\ DOMAIN map = CodesDeclared(stream)
            /\ \A h \in DOMAIN map :
                 Recorded(tree, map[h]) = SignalDeclared(stream, {"struct", "ref"}, SpeltFst, h)

(* The file is refused exactly when two of its tables disagree on a        *)
(* qualified name, also when the disagreement is not with the latest one.  *)
ConflictReported == done => (conflict <=> EnumsDisagree(stream))
=============================================================================
