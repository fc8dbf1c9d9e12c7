----------------------------- MODULE OutputFile -----------------------------
(***************************************************************************)
(* How an export begins (write_wave_file and create_fst_body of            *)
(* src/src/output.rs): the time scales of the inputs are compared, what    *)
(* the format cannot express is refused, and only then is the output file  *)
(* created, over one that may exist.  A VCD file gets the declarations of  *)
(* its inputs (HeaderExport); an FST file gets scopes and variables made   *)
(* of the sorted paths of the hierarchy, scopes being opened and closed as *)
(* the paths go, and later variables of a signal as aliases of the first.  *)
(*                                                                         *)
(* selected is the hierarchy's signal map: which names show which handle.  *)
(***************************************************************************)
EXTENDS HeaderExport

CONSTANTS Hierarchies,  \* the possible signal maps of an FST export
          Scales,       \* the time scales of inputs, see Exponent
          NameOrder,    \* all names, sorted
          FstNames      \* names of variables whose type and width FST can declare

ASSUME OutputAssumption ==
    /\ None \notin Int
    /\ \A fs \in Inputs : 1 \in DOMAIN fs   \* "Invalid reader offsets" otherwise
    /\ NameOrder \in Seq(ToSet(NameOrder))
    /\ \A shown \in Hierarchies :
         /\ IsFiniteSet(shown)
         /\ \A v \in shown : v[2] \in Seq(ToSet(NameOrder)) \ {<<>>}

VARIABLES format,       \* of the output: "vcd" or "fst"
          scales,       \* the time scales of the inputs
          stage,        \* "opened", then "refused", "vcd" or "fst", then "done" or "failed"
          scale,        \* the time scale written, as the exponent it means
          open,         \* scopes: those that are open in the output
          ids,          \* handle -> the signal of the output
          todo,         \* the << handle, path >> not declared yet
          calls         \* the declarations given to the FST writer

outputVars == << format, scales, stage, scale, open, ids, todo, calls >>

-----------------------------------------------------------------------------
(* Time scales.  An FST file has an exponent, a VCD file a factor and a    *)
(* unit, or nothing for 1 ns.                                              *)
DefaultExponent == -9
Power(factor) == CASE factor = 1 -> 0 [] factor = 10 -> 1 [] factor = 100 -> 2

Exponent(s) ==
    CASE s.form = "fst" -> s.exponent
      [] s.form = "none" -> DefaultExponent
      [] OTHER -> IF s.factor \in {1, 10, 100} THEN s.unit + Power(s.factor) ELSE None

Agree == \A i \in DOMAIN scales : Exponent(scales[i]) # None
                                    /\ Exponent(scales[i]) = Exponent(scales[1])

Units == {-15, -12, -9, -6, -3, 0}

(* Mutant: the third power of a unit is left out.                          *)
VcdScalesBelow(exponent) ==
    {[form |-> "vcd", factor |-> IF exponent = unit THEN 1 ELSE 10, unit |-> unit] :
        unit \in {u \in Units : exponent \in u .. u + 1}}

(* vcd_timescale                                                           *)
VcdScales(exponent) ==
    {[form |-> "vcd", factor |-> CHOOSE f \in {1, 10, 100} : Power(f) = exponent - unit, unit |-> unit] :
        unit \in {u \in Units : exponent \in u .. u + 2}}

-----------------------------------------------------------------------------
(* The hierarchy of an FST file.                                           *)
Rank(name) == CHOOSE k \in DOMAIN NameOrder : NameOrder[k] = name

Precedes(p, q) ==
    \E k \in 0 .. Min({Len(p), Len(q)}) :
        /\ SubSeq(p, 1, k) = SubSeq(q, 1, k)
        /\ \/ k = Len(p)
           \/ k < Len(q) /\ Rank(p[k + 1]) < Rank(q[k + 1])

(* Maps are iterated in any order, so of equal paths any may come first.   *)
First(set) == {v \in set : \A w \in set : v[2] = w[2] \/ Precedes(v[2], w[2])}

(* Mutant: only what a signal is shown as first is checked.                *)
ExpressibleFirst(set) ==
    \A v \in set : (\A w \in set : w[1] = v[1] => w = v \/ Precedes(v[2], w[2])) => Last(v[2]) \in FstNames

Expressible(set) == \A v \in set : Last(v[2]) \in FstNames

(* Mutant: the scopes that are open are compared as far as both go on.     *)
CommonLength(parents) == Min({Len(open), Len(parents)})

Common(parents) ==
    Max({k \in 0 .. Min({Len(open), Len(parents)}) : SubSeq(open, 1, k) = SubSeq(parents, 1, k)})

Call(kind, name, code) == [kind |-> kind, name |-> name, code |-> code]
Ups(n) == [k \in 1 .. n |-> Call("up", None, None)]

SignalOf(handle) == IF handle \in DOMAIN ids THEN ids[handle] ELSE Cardinality(DOMAIN ids) + 1

Declared(v) ==
    LET parents == Front(v[2])
        common == Common(parents)
        opened == SubSeq(parents, common + 1, Len(parents))
    IN  Ups(Len(open) - common)
          \o [k \in DOMAIN opened |-> Call("scope", opened[k], None)]
          \o << Call("var", Last(v[2]), SignalOf(v[1])) >>

-----------------------------------------------------------------------------
NothingYet ==
    /\ pass = "definitions" /\ file = 1 /\ pos = 1 /\ pending = <<>>
    /\ emitter = NewFile(Nothing, Nothing) /\ out = <<>> /\ result = "running"

(* Declarations for VCD, a hierarchy for FST, or any scales of empty files. *)
OutputInit ==
    /\ stage = "opened" /\ scale = None
    /\ open = <<>> /\ ids = Nothing /\ todo = {} /\ calls = <<>>
    /\ \/ Init /\ format = "vcd" /\ scales = [f \in DOMAIN files |-> [form |-> "none"]]
       \/ /\ NothingYet /\ files = << <<>> >> /\ selected \in Hierarchies
          /\ format = "fst" /\ scales = << [form |-> "none"] >>
       \/ /\ scales \in {<< s >> : s \in Scales} \cup (Scales \X Scales)
          /\ NothingYet /\ files = [f \in DOMAIN scales |-> <<>>] /\ selected = {}
          /\ format \in {"vcd", "fst"}

Writable ==
    /\ Agree
    /\ IF format = "vcd" THEN VcdScales(Exponent(scales[1])) # {} ELSE Expressible(selected)

Refuse ==
    /\ stage = "opened" /\ ~Writable
    /\ stage' = "refused"
    /\ UNCHANGED << vars, format, scales, scale, open, ids, todo, calls >>

CreateVcd ==
    /\ stage = "opened" /\ format = "vcd" /\ Writable
    /\ stage' = "vcd"
    /\ \E s \in VcdScales(Exponent(scales[1])) : scale' = Exponent(s)
    /\ UNCHANGED << vars, format, scales, open, ids, todo, calls >>

CreateFst ==
    /\ stage = "opened" /\ format = "fst" /\ Writable
    /\ stage' = "fst"
    /\ scale' = Exponent(scales[1])
    /\ todo' = selected
    /\ UNCHANGED << vars, format, scales, open, ids, calls >>

WriteHeader == stage = "vcd" /\ Next /\ UNCHANGED outputVars

DeclareVar ==
    /\ stage = "fst"
    /\ \E v \in First(todo) :
         /\ calls' = calls \o Declared(v)
         /\ open' = Front(v[2])
         /\ ids' = Bind(ids, v[1], SignalOf(v[1]))
         /\ todo' = todo \ {v}
    /\ UNCHANGED << vars, format, scales, stage, scale >>

CloseScopes ==
    /\ stage = "fst" /\ todo = {}
    /\ calls' = calls \o Ups(Len(open))
    /\ open' = <<>>
    /\ stage' = "done"
    /\ UNCHANGED << vars, format, scales, scale, ids, todo >>

(* The writer fails.                                                       *)
FailFst ==
    /\ stage = "fst" /\ stage' = "failed"
    /\ UNCHANGED << vars, format, scales, scale, open, ids, todo, calls >>

OutputNext ==
    \/ Refuse \/ CreateVcd \/ CreateFst \/ WriteHeader
    \/ DeclareVar \/ CloseScopes \/ FailFst

OutputSpec == OutputInit /\ [][OutputNext]_<< vars, outputVars >>

-----------------------------------------------------------------------------
(* An output file is created, over what it may replace, only if it can be  *)
(* written: its time scale means that of every input, and in an FST file   *)
(* every variable, aliases too, has a type and a width the writer has      *)
(* ("every declaration must be validated, not just the representative      *)
(* variable", tests/output_tests.rs:491-492); a VCD file can have every    *)
(* scale from 1 fs to 100 s.                                               *)
CreatedIfWritable ==
    /\ stage \notin {"opened", "refused"} =>
         /\ \A i \in DOMAIN scales : Exponent(scales[i]) = scale
         /\ format = "fst" => \A v \in selected : Last(v[2]) \in FstNames
    /\ stage = "refused" =>
         \/ \E i, j \in DOMAIN scales : Exponent(scales[i]) # Exponent(scales[j])
         \/ \E i \in DOMAIN scales : Exponent(scales[i]) \notin -15 .. 2
         \/ format = "fst" /\ \E v \in selected : Last(v[2]) \notin FstNames

(* An exported FST file has the variables of the hierarchy: read from its  *)
(* start, with scopes opened and closed, it has every path once for each   *)
(* signal shown there, and names share a signal as they shared a handle;   *)
(* every scope is opened once, and all are closed (output.rs:533-567).     *)
VarsWritten == Positions(calls, {"var"})
ScopePath(p) == Append(ScopesAt(calls, p), calls[p].name)

FstDeclares ==
    stage = "done" =>
        /\ Cardinality(VarsWritten) = Cardinality(selected)
        /\ {<< ids[v[1]], v[2] >> : v \in selected}
             = {<< calls[p].code, VarPath(calls, p) >> : p \in VarsWritten}
        /\ Injective(ids)
        /\ \A p, q \in Positions(calls, {"scope"}) : ScopePath(p) = ScopePath(q) => p = q
        /\ Cardinality(Positions(calls, {"scope"})) = Cardinality(Positions(calls, {"up"}))
=============================================================================
