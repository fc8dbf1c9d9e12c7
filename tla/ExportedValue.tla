---------------------------- MODULE ExportedValue ----------------------------
(***************************************************************************)
(* A value that is exported, read back and compared with its original      *)
(* (src/src/output.rs, src/src/vcd/write.rs).  A file that is exported     *)
(* alone keeps its reals as numbers up to the writer; files that are       *)
(* exported together go through merge_changes, which has texts only.  A    *)
(* VCD file gets what the declaration of the signal asks for; an FST file  *)
(* gets four-state digits of exactly the declared width.                   *)
(*                                                                         *)
(* Texts are sequences of characters here, the text of a real being one.   *)
(* A text that is no number is its own spelling.                           *)
(***************************************************************************)
EXTENDS ValueCompare, SequencesExt

CONSTANTS Sizes,      \* declared widths
          VcdDigits,  \* longest vector of a VCD source
          Characters, \* of texts
          Strings,    \* values of string signals, sequences of characters
          RealText(_),  \* how Rust writes a real
          Refused     \* written is this after an error

States == {"0", "1", "x", "z"}
Lower(chars) == [i \in DOMAIN chars |-> CASE chars[i] = "X" -> "x" [] chars[i] = "Z" -> "z"
                                           [] OTHER -> chars[i]]
Uppercase == {"X", "Z"}
Blank == "blank"
Code == "!"

(* Rust writes no two floats the same way, and none with a blank.          *)
ASSUME ExportAssumption ==
    /\ States \cup Uppercase \cup {"u", Blank, Code} \subseteq Characters
    /\ Strings \subseteq Seq(Characters) /\ Refused \notin Seq(Characters)
    /\ Sizes \subseteq Nat
    /\ \A f \in Floats : RealText(f) \in Characters \ {Blank}
    /\ \A f, g \in Floats : RealText(f) = RealText(g) => f = g

VARIABLES export,     \* what is exported, None if the second value is of another file
          stage,      \* "opened", "written", "refused" or "given": both values known
          written     \* what the output file holds of the value

exportVars == << valueVars, export, stage, written >>

-----------------------------------------------------------------------------
(* Changes as the sources deliver them, and as text.                       *)
Real(f) == [form |-> "number", float |-> f]
Bytes(chars) == [form |-> "text", chars |-> chars]

RealChars(f) == << RealText(f) >>
CharsOf(change) == IF change.form = "number" THEN RealChars(change.float) ELSE change.chars

Parsed(chars) ==
    IF \E f \in Floats : RealChars(f) = chars THEN CHOOSE f \in Floats : RealChars(f) = chars
                                              ELSE None
AsText(chars) == Text(Parsed(chars), IF Parsed(chars) = None THEN chars ELSE "plain")

(* An FST file has values of the declared kind and width, of any case and  *)
(* also of more states than four; a VCD file has lower-case four-state     *)
(* digits of any width once it is parsed, and may give a vector a real.    *)
FstChanges(var) ==
    CASE var.type = "real"   -> {Real(f) : f \in Floats}
      [] var.type = "string" -> {Bytes(s) : s \in Strings}
      [] OTHER               -> {Bytes(d) : d \in [1 .. var.size -> States \cup {"X", "u"}]}

VcdChanges(var) ==
    CASE var.type = "real"   -> {Real(f) : f \in Floats}
      [] var.type = "string" -> {Bytes(s) : s \in {t \in Strings : t # <<>> /\ ~Contains(t, Blank)}}
      [] OTHER               -> {Real(f) : f \in Floats}
                                  \cup {Bytes(d) : d \in BoundedSeq(States, VcdDigits) \ {<<>>}}

Declarations ==
    {[type |-> "vector", size |-> n] : n \in Sizes}
      \cup {[type |-> "real", size |-> 64], [type |-> "string", size |-> 0]}

SourceChanges(source, var) == IF source = "fst" THEN FstChanges(var) ELSE VcdChanges(var)

ExportsOf(source, var) ==
    [format : {source}, var : {var}, alone : BOOLEAN, target : {"vcd", "fst"},
     change : SourceChanges(source, var)]

Exports == UNION {ExportsOf(source, var) : source \in {"fst", "vcd"}, var \in Declarations}

(* The original as a comparison reads it.                                  *)
Original(e) ==
    IF e.format = "fst" /\ e.change.form = "number"
    THEN Number(e.change.float)
    ELSE AsText(CharsOf(e.change))

ExportInit ==
    \/ /\ ValuesInit /\ export = None /\ stage = "given" /\ written = None
    \/ /\ export \in Exports /\ stage = "opened" /\ written = None
       /\ isReal = [s \in Operands |-> export.var.type = "real"]
       /\ value = [s \in Operands |-> Original(export)]
       /\ epsilon \in Tolerances \cup {None}
       /\ same = "unknown"

-----------------------------------------------------------------------------
(* Body::change                                                            *)
OutputValue == IF export.alone THEN export.change ELSE Bytes(CharsOf(export.change))

(* Mutant: a vector of the full width is too long.                         *)
WidthFitsBelow(chars) == chars # <<>> /\ Len(chars) < export.var.size

WidthFits(chars) == chars # <<>> /\ Len(chars) <= export.var.size

FourState(chars) == ToSet(chars) \subseteq States \cup Uppercase

WrittenReal(v) ==
    LET float == IF v.form = "number" THEN v.float ELSE Parsed(v.chars)
    IN  IF export.var.type = "real" /\ float # None THEN RealChars(float) ELSE Refused

WrittenString(chars) == IF chars # <<>> /\ ~Contains(chars, Blank) THEN chars ELSE Refused

WrittenDigits(chars) == IF WidthFits(chars) /\ FourState(chars) THEN Lower(chars) ELSE Refused

(* Mutant: short vectors are extended with zeros whatever their states.    *)
ExtendedWithZeros(chars) == [i \in 1 .. export.var.size - Len(chars) |-> "0"] \o chars

(* "Short VCD vectors extend 0/1 with zero, and x/z with that state."      *)
Extended(chars) ==
    LET fill == IF Head(chars) \in {"x", "z"} THEN Head(chars) ELSE "0"
    IN  [i \in 1 .. export.var.size - Len(chars) |-> fill] \o chars

(* No FST file is created with a signal that is not a vector of some width. *)
WrittenFst(v) ==
    IF v.form = "number" \/ export.var.type # "vector" \/ WrittenDigits(v.chars) = Refused
    THEN Refused
    ELSE Extended(WrittenDigits(v.chars))

WrittenVcd(v) ==
    CASE v.form = "number" \/ export.var.type = "real" -> WrittenReal(v)
      [] v.form = "text" /\ export.var.type = "string" -> WrittenString(v.chars)
      [] OTHER                                         -> WrittenDigits(v.chars)

Write ==
    /\ stage = "opened"
    /\ written' = IF export.target = "fst" THEN WrittenFst(OutputValue) ELSE WrittenVcd(OutputValue)
    /\ stage' = IF written' = Refused THEN "refused" ELSE "written"
    /\ UNCHANGED << valueVars, export >>

(* A VCD line is the value, a blank and the code of the signal; the value  *)
(* that is read is the first token that is not empty.                      *)
FirstToken(chars) ==
    LET start == SelectInSeq(chars, LAMBDA c : c # Blank)
        rest  == SubSeq(chars, start, Len(chars))
    IN  SubSeq(rest, 1, SelectInSeq(rest, LAMBDA c : c = Blank) - 1)

Back == IF export.target = "fst" THEN written ELSE FirstToken(written \o << Blank, Code, Blank >>)

ReadBack ==
    /\ stage = "written"
    /\ value' = [value EXCEPT ![2] = AsText(Back)]
    /\ stage' = "given"
    /\ UNCHANGED << isReal, epsilon, same, export, written >>

CompareBoth == stage = "given" /\ CompareValues /\ UNCHANGED << export, stage, written >>

ExportNext == Write \/ ReadBack \/ CompareBoth

ExportSpec == ExportInit /\ [][ExportNext]_exportVars

-----------------------------------------------------------------------------
Exported == export # None /\ stage = "given"

(* What is read back is what was exported: the same text in a VCD file,    *)
(* digits in lower case; in an FST file digits of the declared width that  *)
(* mean the same vector, each digit in its place from the right and the    *)
(* leftmost one extended, a 0 or 1 as 0 (output.rs:284-336).               *)
ExportFaithful ==
    Exported =>
        LET chars == Lower(CharsOf(export.change))
            short == export.var.size - Len(chars)
        IN  IF export.target = "vcd"
            THEN Back = IF export.var.type = "vector" THEN chars ELSE CharsOf(export.change)
            ELSE /\ Len(Back) = export.var.size
                 /\ \A i \in DOMAIN Back :
                      Back[i] = IF i > short THEN chars[i - short]
                                ELSE IF chars[1] \in {"0", "1"} THEN "0" ELSE chars[1]

(* A converted file compares equal to its source: a four-state vector of   *)
(* the declared width in either format, a real or a string in a VCD file   *)
(* are exported, and the comparison of the copy with the original finds no *)
(* difference, under any tolerance (tests/output_tests.rs:49-66).          *)
Convertible ==
    \/ /\ export.var.type = "vector"
       /\ export.change.form = "text"
       /\ export.change.chars \in [1 .. export.var.size -> States]
       /\ export.var.size > 0
    \/ /\ export.var.type = "real" /\ export.target = "vcd"
    \/ /\ export.var.type = "string" /\ export.target = "vcd"
       /\ export.change.chars # <<>> /\ ~Contains(export.change.chars, Blank)

ConvertedSame == (export # None /\ Convertible) => stage # "refused" /\ same # "no"
=============================================================================
