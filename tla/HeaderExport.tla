---------------------------- MODULE HeaderExport ----------------------------
(***************************************************************************)
(* The declarations of an exported VCD file (src/src/output_header.rs):    *)
(* write_header reads the hierarchies of all inputs again and copies their *)
(* commands in order, without the variables that are not selected and what *)
(* belongs to those.  A definition that others may refer to outlives its   *)
(* variable: it is hoisted, written by a first pass over all inputs.  With *)
(* several inputs the annotations before a file's first declaration are    *)
(* hoisted too.                                                            *)
(*                                                                         *)
(* The commands are the entries of Declarations and three more kinds:      *)
(* path, the name of a source file, with its handle; stem, a position in   *)
(* such a file; comment.  An FST entry is one command of the same kind     *)
(* (fst_command).  Names that the merged hierarchy spells otherwise and    *)
(* the writer's layout are left out.                                       *)
(***************************************************************************)
EXTENDS Declarations

CONSTANTS Inputs,      \* the possible sequences of files
          HandleCount  \* signals of each file, so the offset between two files

(* The entries of a hierarchy: an up closes a scope that is open, in the   *)
(* end all are closed; a table or a path has one definition, before its    *)
(* uses.                                                                   *)
IsEntry(e) == e = [kind |-> e.kind, name |-> e.name, code |-> e.code, handle |-> e.handle]

Nested(s) ==
    /\ \A p \in Positions(s, {"up"}) : ScopesAt(s, p) # <<>>
    /\ ScopesAt(s, Len(s) + 1) = <<>>

DefinedOnce(s, definition, use) ==
    /\ \A p, q \in Positions(s, {definition}) : s[p].handle = s[q].handle => p = q
    /\ \A p \in Positions(s, {use}) :
         \E q \in Positions(s, {definition}) : q < p /\ s[q].handle = s[p].handle

IsHierarchy(s) ==
    /\ s \in Seq(ToSet(s)) /\ \A p \in DOMAIN s : IsEntry(s[p])
    /\ Nested(s) /\ DefinedOnce(s, "def", "ref") /\ DefinedOnce(s, "path", "stem")

ASSUME InputAssumption ==
    \A fs \in Inputs : fs \in Seq(ToSet(fs)) /\ \A f \in DOMAIN fs : IsHierarchy(fs[f])

VARIABLES files,       \* the inputs, each a sequence of entries
          selected,    \* the << handle, path >> to export
          pass,        \* "definitions" or "rest"
          file, pos,   \* the next command
          pending,     \* positions of annotations whose declaration is to come
          emitter,     \* what the closure emit captures, see NewFile
          out,         \* the commands written
          result       \* "running", "ok" or "error"

vars == << files, selected, pass, file, pos, pending, emitter, out, result >>

Offset(f) == (f - 1) * HandleCount

VarPath(s, p) == Append(ScopesAt(s, p), s[p].name)
AllVars(fs) ==
    UNION {{<< Offset(f) + fs[f][p].code, VarPath(fs[f], p) >> :
              p \in Positions(fs[f], {"var"})} : f \in DOMAIN fs}

(* A lone file all of whose variables are exported has nothing to hoist.   *)
DefinitionsNeeded(fs, sel) ==
    Len(fs) # 1 \/ Cardinality(Positions(fs[1], {"var"})) # Cardinality(sel)

(* variable: whether the variable before is "kept", "dropped", or "none"   *)
(* as a scope began or ended.  The numbers given to enum tables and source *)
(* paths last for the whole export.                                        *)
NewFile(enumIds, pathIds) ==
    [scopes |-> <<>>, preamble |-> TRUE, variable |-> "none",
     enumIds |-> enumIds, pathIds |-> pathIds]

Init ==
    /\ files \in Inputs
    /\ selected \in SUBSET AllVars(files)
    /\ pass = IF DefinitionsNeeded(files, selected) THEN "definitions" ELSE "rest"
    /\ file = 1 /\ pos = 1 /\ pending = <<>>
    /\ emitter = NewFile(Nothing, Nothing)
    /\ out = <<>> /\ result = "running"

-----------------------------------------------------------------------------
(* One command through emit.                                               *)
IsDefinition(e) == e.kind \in {"def", "path"}
IsAttribute(e) == e.kind \notin {"scope", "up", "var", "comment"}

Hoisted(m, e) ==
    \/ Len(files) > 1 /\ m.preamble /\ IsAttribute(e)
    \/ IsDefinition(e) /\ m.variable = "dropped"

Dropped(m, e, scopeNote) ==
    IsAttribute(e) /\ m.variable = "dropped" /\ ~Hoisted(m, e) /\ ~scopeNote

ExportedCode(e) == Offset(file) + e.code

(* Mutant: one selected place of a signal selects all of that name.        *)
KeptByName(m, e) == \E s \in selected : s[1] = ExportedCode(e) /\ Last(s[2]) = e.name

Kept(m, e) == << ExportedCode(e), Append(m.scopes, e.name) >> \in selected

(* Mutant: the handles of the inputs are taken to be one numbering.        *)
KeyLocal(handle) == << 1, handle >>

Key(handle) == << file, handle >>
Numbered(known, handle) ==
    IF Key(handle) \in DOMAIN known THEN known
    ELSE Bind(known, Key(handle), Cardinality(DOMAIN known) + 1)

After(m, e) ==
    CASE e.kind = "scope" ->
           [m EXCEPT !.scopes = Append(@, e.name), !.variable = "none", !.preamble = FALSE]
      [] e.kind = "up" -> [m EXCEPT !.scopes = Front(@), !.variable = "none"]
      [] e.kind = "var" ->
           [m EXCEPT !.preamble = FALSE, !.variable = IF Kept(m, e) THEN "kept" ELSE "dropped"]
      [] e.kind \in {"def", "ref"} -> [m EXCEPT !.enumIds = Numbered(@, e.handle)]
      [] e.kind \in {"path", "stem"} -> [m EXCEPT !.pathIds = Numbered(@, e.handle)]
      [] OTHER -> m

Rewritten(m, e) ==
    CASE e.kind = "var" -> [e EXCEPT !.code = ExportedCode(e)]
      [] e.kind \in {"def", "ref"} -> [e EXCEPT !.handle = m.enumIds[Key(e.handle)]]
      [] e.kind \in {"path", "stem"} -> [e EXCEPT !.handle = m.pathIds[Key(e.handle)]]
      [] OTHER -> e

Writes(m, e) ==
    /\ e.kind = "var" => Kept(m, e)
    /\ Hoisted(m, e) <=> pass = "definitions"

(* The written command remembers its place in the inputs as `from`.        *)
Emit(state, p, scopeNote) ==
    LET m == state.emitter
        e == files[file][p]
        n == After(m, e)
    IN  IF Dropped(m, e, scopeNote) THEN state
        ELSE [emitter |-> n,
              out |-> IF Writes(m, e)
                      THEN Append(state.out, [command |-> Rewritten(n, e), from |-> << file, p >>])
                      ELSE state.out]

-----------------------------------------------------------------------------
(* visit_annotated                                                         *)
Entry == files[file][pos]
More == result = "running" /\ pos <= Len(files[file])

Hold ==
    /\ More
    /\ (IsAttribute(Entry) /\ Entry.kind # "close") \/ Entry.kind = "comment"
    /\ pending' = Append(pending, pos)
    /\ pos' = pos + 1
    /\ UNCHANGED << files, selected, pass, file, emitter, out, result >>

(* A structural annotation in front of a scope is the scope's.             *)
EmitPending(nextIsScope) ==
    FoldLeft(LAMBDA state, p : Emit(state, p, nextIsScope /\ files[file][p].kind = "struct"),
             [emitter |-> emitter, out |-> out], pending)

Declare ==
    /\ More
    /\ Entry.kind \in {"scope", "up", "var", "close"}
    /\ LET state == Emit(EmitPending(Entry.kind = "scope"), pos, FALSE)
       IN  emitter' = state.emitter /\ out' = state.out
    /\ pending' = <<>>
    /\ pos' = pos + 1
    /\ UNCHANGED << files, selected, pass, file, result >>

EndOfFile ==
    /\ result = "running"
    /\ pos > Len(files[file])
    /\ LET state == EmitPending(FALSE)
       IN  /\ out' = state.out
           /\ emitter' = NewFile(state.emitter.enumIds, state.emitter.pathIds)
    /\ pending' = <<>> /\ pos' = 1
    /\ IF file < Len(files)
       THEN file' = file + 1 /\ UNCHANGED << pass, result >>
       ELSE /\ file' = 1
            /\ IF pass = "definitions" THEN pass' = "rest" /\ UNCHANGED result
                                       ELSE result' = "ok" /\ UNCHANGED pass
    /\ UNCHANGED << files, selected >>

(* A command that VCD cannot express, or a write that fails.               *)
Fail ==
    /\ result = "running"
    /\ result' = "error"
    /\ UNCHANGED << files, selected, pass, file, pos, pending, emitter, out >>

Next == Hold \/ Declare \/ EndOfFile \/ Fail

Spec == Init /\ [][Next]_vars

-----------------------------------------------------------------------------
Written == [q \in DOMAIN out |-> out[q].command]
Sources == [q \in DOMAIN out |-> out[q].from]

Injective(f) == \A a, b \in DOMAIN f : f[a] = f[b] => a = b

(* The order of the inputs, and within an input that of its entries.       *)
InputOrder(s, t) == s[1] < t[1] \/ (s[1] = t[1] /\ s[2] < t[2])

StructureKinds == {"scope", "up", "var"}

IsExported(f, p) ==
    files[f][p].kind = "var" =>
        << Offset(f) + files[f][p].code, VarPath(files[f], p) >> \in selected

(* What an annotation refers to: the latest definition of its handle.      *)
Referent(s, p) ==
    LET kind == IF s[p].kind = "ref" THEN "def" ELSE "path"
        defs == {q \in Positions(s, {kind}) : q < p /\ s[q].handle = s[p].handle}
    IN  IF s[p].kind \notin {"ref", "stem"} \/ defs = {} THEN 0 ELSE Max(defs)

Annotations == {"struct", "misc", "def", "ref", "path", "stem"}

AttachedInOrder(s, v) == InOrder(Attached(s, Annotations, v), Earliest(s))

(* "Preserve source hierarchy order and GTKWave annotations when exporting *)
(* VCD" (output_header.rs:4): an exported variable has the annotations it  *)
(* had, in their order, and they refer to the same tables and paths.  The  *)
(* rules that say which annotation belongs to which variable are those of  *)
(* the readers (Declarations).                                             *)
AnnotationsKept ==
    result = "ok" =>
        \A q \in Positions(Written, {"var"}) :
            LET f == Sources[q][1]
                source == files[f]
                was == AttachedInOrder(source, Sources[q][2])
                is  == AttachedInOrder(Written, q)
            IN  /\ [k \in DOMAIN is |-> Sources[is[k]]] = [k \in DOMAIN was |-> << f, was[k] >>]
                /\ \A k \in DOMAIN is :
                     LET r == Referent(Written, is[k])
                     IN  IF r = 0 THEN Referent(source, was[k]) = 0
                                  ELSE Sources[r] = << f, Referent(source, was[k]) >>

(* The same for files in which no structural annotation is left open by   *)
(* the export: what settles it, a declaration or the end of the annotation, *)
(* is exported too, or nothing follows.                                    *)
LeftOpen(f, p) ==
    LET q == Settled(files[f], p)
    IN  IF q > Len(files[f]) THEN f < Len(files) ELSE ~IsExported(f, q)

AnnotationsKeptIfClosed ==
    (\A f \in DOMAIN files : \A p \in Positions(files[f], {"struct"}) : ~LeftOpen(f, p))
        => AnnotationsKept

(* "scope annotations and shared definitions must survive removal of the   *)
(* preceding variable" (output_header.rs:310-311): a structural annotation *)
(* that described a scope is written and describes that scope.             *)
KeepsScope(f, p) ==
    \E q \in DOMAIN out :
        /\ Sources[q] = << f, p >>
        /\ DescribesScope(Written, q)
        /\ Sources[Settled(Written, q)] = << f, Settled(files[f], p) >>

ScopeNotes(f) == {p \in Positions(files[f], {"struct"}) : DescribesScope(files[f], p)}

(* With several inputs, annotations in front of a file's first declaration  *)
(* are excepted: they are written after the declarations of the file before *)
(* it.                                                                     *)
InPreamble(f, p) == Positions(SubSeq(files[f], 1, p), {"scope", "var"}) = {}

(* The exported file declares the selected variables and no other, in the  *)
(* order of the inputs, each in its own scope and with the handle its      *)
(* changes are exported under; every scope is kept, with the structural    *)
(* annotations that described it (write_header).                           *)
DeclarationsKept ==
    result = "ok" =>
        /\ {Sources[q] : q \in Positions(Written, StructureKinds)} =
             UNION {{<< f, p >> : p \in {x \in Positions(files[f], StructureKinds) : IsExported(f, x)}} :
                      f \in DOMAIN files}
        /\ \A q, r \in Positions(Written, StructureKinds) : q < r => InputOrder(Sources[q], Sources[r])
        /\ \A q \in Positions(Written, {"var"}) :
             LET s == Sources[q]
             IN  /\ VarPath(Written, q) = VarPath(files[s[1]], s[2])
                 /\ Written[q].code = Offset(s[1]) + files[s[1]][s[2]].code
        /\ \A f \in DOMAIN files :
             \A p \in ScopeNotes(f) : Len(files) = 1 \/ ~InPreamble(f, p) => KeepsScope(f, p)
=============================================================================
