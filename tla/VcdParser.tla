------------------------------ MODULE VcdParser ------------------------------
(***************************************************************************)
(* The VCD parser's way through its input (src/src/vcd/parser.rs): next    *)
(* finds the byte a command begins with, and the parse_ functions read the *)
(* fields of the command, most of them tokens between white space.  Vector *)
(* values are read from the buffer of the input, of whatever length it     *)
(* has, and all else byte by byte; the line number is kept up on both      *)
(* ways, late by one byte so that an error at the end of a line is still   *)
(* on it.                                                                  *)
(*                                                                         *)
(* The environment supplies the bytes as they are read.  A capital letter  *)
(* is a word of the language: D dumpvars, E end, C comment, M timescale,   *)
(* S scope, U upscope, V var, A attrbegin, G attrend, F enddefinitions,    *)
(* T a known type of scope, variable or attribute (as are S, V and A in    *)
(* the place of one); u is a unit of time.                                 *)
(* A word is one byte, so MaxToken stands for all buffer sizes.            *)
(***************************************************************************)
EXTENDS IdCode, FiniteSets

CONSTANTS Forms,       \* the kinds of inputs
          MaxToken,    \* size of the token buffers
          None

(* An input is of some bytes and has a beginning and a bound on its length. *)
ASSUME ParserBounds ==
    /\ MaxToken \in Nat \ {0}
    /\ \A f \in Forms : /\ DOMAIN f = {"bytes", "opening", "length"}
                       /\ f.opening \in Seq(ToSet(f.opening)) /\ f.length \in Nat

Newline == "n"
White == {" ", Newline}
Values == {"0", "1"}          \* bytes of a vector; also the digits

VARIABLES ignore,      \* ignore_unknown_attributes
          form,        \* the kind of the input
          input,       \* the bytes read so far
          atEof,       \* the end of the input was seen
          line, endOfLine,
          simulation,  \* simulation_command, as the place of its begin in commands
          fields,      \* what is left to read of the command
          token,       \* the bytes of the field being read
          command,     \* the fields read of the command
          skipped,     \* this command comes after an attribute that was skipped
          commands,    \* the commands returned
          status,      \* "between", "reading", "ended" or "error"
          error        \* the kind of error and its line

parserVars == << ignore, form, input, atEof, line, endOfLine, simulation, fields, token,
                 command, skipped, commands, status, error >>

ParserInit ==
    /\ ignore \in BOOLEAN /\ form \in Forms
    /\ input = <<>> /\ atEof = FALSE
    /\ line = 1 /\ endOfLine = FALSE
    /\ simulation = None
    /\ fields = <<>> /\ token = <<>> /\ command = <<>> /\ skipped = FALSE
    /\ commands = <<>> /\ status = "between" /\ error = None

-----------------------------------------------------------------------------
(* The grammar.                                                            *)
FieldsOf(byte) ==
    CASE byte = "$" -> << "keyword" >>
      [] byte = "#" -> << "number" >>
      [] byte \in Values -> << "id" >>
      [] byte = "b" -> << "bits", "id" >>
      [] byte = "r" -> << "number", "id" >>
      [] byte = "s" -> << "string", "id" >>

Starts == {"$", "#", "b", "r", "s"} \cup Values

FieldsOfKeyword(word) ==
    CASE word = << "C" >> -> << "text" >>
      [] word = << "M" >> -> << "scale", "end" >>
      [] word = << "S" >> -> << "scope type", "string", "end" >>
      [] word \in {<< "U" >>, << "F" >>, << "G" >>} -> << "end" >>
      [] word = << "V" >> -> << "var type", "number", "id", "string", "index" >>
      [] word = << "A" >> -> << "attribute", "string", "rest" >>
      [] OTHER -> <<>>

Keywords == {<< k >> : k \in {"D", "E", "C", "M", "S", "U", "F", "V", "A", "G"}}
IsNumber(word) == word # <<>> /\ ToSet(word) \subseteq Values
End == << "$", "E" >>

(* A scale is a number and a unit, together or in two tokens.              *)
ScaleDigits(word) == SelectInSeq(word, LAMBDA byte : byte \notin Values) - 1
Glued(word) == ~IsNumber(word)
ScaleUnit == << "u" >>

(* An index is a bracket and a number; the other bracket is implied.       *)
IsIndex(word) == Head(word) = "["
IndexValid(word) == IsNumber(Tail(word))

(* Two known types of each kind; of the attributes one is "misc", whose    *)
(* subtypes are known too.                                                 *)
Types(field) ==
    CASE field = "scope type" -> {<< "T" >>, << "S" >>}
      [] field = "var type"   -> {<< "T" >>, << "V" >>}
      [] field = "attribute"  -> {<< "T" >>, << "A" >>}

Misc == << "T" >>
MiscSubtype == << "0" >>

(* Why a field that is complete is refused, or None.                       *)
Refused(field, word) ==
    CASE field = "keyword" /\ word \notin Keywords -> "unknown command"
      [] field = "keyword" /\ word = << "E" >> /\ simulation = None -> "unmatched end"
      [] field = "number" /\ ~IsNumber(word) -> "not a number"
      [] field = "id" /\ IdOf(word) = Overflow -> "identifier too long"
      [] field = "scale" /\ Glued(word) /\ ScaleDigits(word) = 0 -> "not a number"
      [] field = "scale" /\ Glued(word) /\ SubSeq(word, ScaleDigits(word) + 1, Len(word)) # ScaleUnit
           -> "unknown unit"
      [] field = "unit" /\ word # ScaleUnit -> "unknown unit"
      [] field \in {"scope type", "var type"} /\ word \notin Types(field) -> "unknown type"
      [] field = "attribute" /\ word \notin Types(field) /\ ~ignore -> "unknown type"
      [] field = "misc subtype" /\ word # MiscSubtype /\ ~ignore -> "unknown subtype"
      [] field = "index" /\ IsIndex(word) /\ ~IndexValid(word) -> "invalid index"
      [] field = "index" /\ word # End /\ ~IsIndex(word) -> "expected end"
      [] field = "end" /\ word # End -> "expected end"
      [] OTHER -> None

(* What is read after a field.                                             *)
Remaining(field, word, rest) ==
    CASE field = "keyword" -> FieldsOfKeyword(word)
      [] field = "index" /\ word # End -> << "end" >>
      [] field = "scale" /\ ~Glued(word) -> << "unit" >> \o rest
      [] field = "attribute" /\ word \notin Types(field) -> << "skip" >>
      [] field = "attribute" /\ word = Misc -> << "misc subtype", "rest" >>
      [] field \in {"rest", "skip"} /\ word # End -> << field >>
      [] OTHER -> rest

(* What a field that is complete means.                                    *)
Canonical(digits) == SubSeq(digits, Min({Len(digits)} \cup {k \in DOMAIN digits : digits[k] # "0"}),
                            Len(digits))

Trimmed(text) ==
    LET inner == {k \in DOMAIN text : text[k] \notin White}
    IN  IF inner = {} THEN <<>> ELSE SubSeq(text, Min(inner), Max(inner))

Meanings(field, word) ==
    CASE field = "number" -> << Canonical(word) >>
      [] field = "id" -> << IdOf(word) >>
      [] field = "text" -> << Trimmed(word) >>
      [] field = "index" /\ IsIndex(word) -> << << "[" >> \o Canonical(Tail(word)) >>
      [] field = "scale" /\ Glued(word) ->
           << Canonical(SubSeq(word, 1, ScaleDigits(word))), ScaleUnit >>
      [] field = "scale" -> << Canonical(word) >>
      [] field = "end" -> <<>>
      [] OTHER -> << word >>

(* An annotation has a name and a number, which its words leave open: the  *)
(* last word is the number, unless it is the only word and is none.        *)
NameAndArg(words) ==
    LET arg == IF words # <<>> /\ IsNumber(Last(words)) THEN Canonical(Last(words)) ELSE << "0" >>
        name == IF Len(words) = 1 /\ ~IsNumber(words[1]) THEN words
                ELSE IF words = <<>> THEN <<>> ELSE Front(words)
    IN  << name, arg >>

IsAttribute(fieldsRead) ==
    Len(fieldsRead) > 2 /\ fieldsRead[1] = << "$" >> /\ fieldsRead[2] = << "A" >>

(* The command its fields make.                                            *)
Returned(fieldsRead) ==
    IF IsAttribute(fieldsRead)
    THEN SubSeq(fieldsRead, 1, 4) \o NameAndArg(SubSeq(fieldsRead, 5, Len(fieldsRead) - 1))
    ELSE fieldsRead

-----------------------------------------------------------------------------
(* Reading.                                                                *)
Running == status \in {"between", "reading"}
Field == Head(fields)

CountLine == line' = IF endOfLine THEN line + 1 ELSE line

(* What the input may go on with.                                          *)
Following == IF Len(input) < Len(form.opening) THEN {form.opening[Len(input) + 1]} ELSE form.bytes

ReadByte(byte) ==
    /\ Running
    /\ Len(input) < form.length
    /\ input' = Append(input, byte)
    /\ CountLine
    /\ endOfLine' = (byte = Newline)
    /\ UNCHANGED << ignore, form, atEof >>

(* The line of an error is that of the byte read last.                     *)
Fail(kind) ==
    /\ status' = "error"
    /\ error' = << kind, line' >>
    /\ UNCHANGED << simulation, fields, token, command, skipped, commands >>

(* The end of the input is an error inside a command, even after all of    *)
(* its bytes: a token ends with white space.                               *)
EndOfInput ==
    /\ Running
    /\ Len(input) >= Len(form.opening)
    /\ atEof' = TRUE
    /\ CountLine
    /\ endOfLine' = FALSE
    /\ IF status = "between" /\ ~skipped
       THEN status' = "ended" /\ UNCHANGED error
       ELSE status' = "error" /\ error' = << "end of file", None >>
    /\ UNCHANGED << ignore, form, input, simulation, fields, token, command, skipped, commands >>

SkipBlank ==
    /\ status = "between"
    /\ \E byte \in Following \cap White : ReadByte(byte)
    /\ UNCHANGED << simulation, fields, token, command, skipped, commands, status, error >>

Begin ==
    /\ status = "between"
    /\ \E byte \in Following \ White :
         /\ ReadByte(byte)
         /\ IF byte \in Starts
            THEN /\ status' = "reading"
                 /\ fields' = FieldsOf(byte)
                 /\ command' = << << byte >> >>
                 /\ UNCHANGED << simulation, token, skipped, commands, error >>
            ELSE Fail("unexpected character")

SimulationAfter(word) ==
    CASE Field = "keyword" /\ word = << "D" >> -> Len(commands) + 1
      [] Field = "keyword" /\ word = << "E" >> -> None
      [] OTHER -> simulation

SkippedAfter(left) == IF left = <<>> THEN Field = "skip" ELSE skipped

(* The command is returned when its last field is complete; one that was   *)
(* skipped is replaced by the next.                                        *)
CompleteField(word) ==
    IF Refused(Field, word) # None
    THEN Fail(Refused(Field, word))
    ELSE LET left == Remaining(Field, word, Tail(fields))
             whole == IF Field = "keyword" /\ word = << "E" >>
                      THEN << << "$" >>, word, simulation >>
                      ELSE command \o Meanings(Field, word)
         IN  /\ fields' = left
             /\ token' = <<>>
             /\ simulation' = SimulationAfter(word)
             /\ command' = IF left = <<>> THEN <<>> ELSE whole
             /\ commands' = IF left = <<>> /\ Field # "skip" THEN Append(commands, Returned(whole))
                                                           ELSE commands
             /\ skipped' = SkippedAfter(left)
             /\ status' = IF left = <<>> THEN "between" ELSE "reading"
             /\ UNCHANGED error

Unbounded == {"string", "misc subtype"}
Full == Field \notin Unbounded /\ Len(token) = MaxToken

TokenByte ==
    /\ status = "reading" /\ Field \notin {"bits", "text"}
    /\ \E byte \in Following \ White :
         /\ ReadByte(byte)
         /\ IF Full
            THEN Fail("token too long")
            ELSE /\ token' = Append(token, byte)
                 /\ UNCHANGED << simulation, fields, command, skipped, commands, status, error >>

TokenBlank ==
    /\ status = "reading" /\ Field # "text"
    /\ \E byte \in Following \cap White : ReadByte(byte)
    /\ IF token = <<>>
       THEN UNCHANGED << simulation, fields, token, command, skipped, commands, status, error >>
       ELSE CompleteField(token)

(* Mutant: a line that ended before the run is not counted.                *)
RunLineForgotten == UNCHANGED << line, endOfLine >>

RunLine == CountLine /\ endOfLine' = FALSE

(* Mutant: bytes after the first that is no value are taken as well.       *)
TakenAll(run) == run

(* Up to the first byte that is no value, and with it.                     *)
Taken(run) ==
    LET bad == {k \in DOMAIN run : run[k] \notin Values}
    IN  IF bad = {} THEN run ELSE SubSeq(run, 1, Min(bad))

Runs ==
    IF Len(input) >= Len(form.opening)
    THEN BoundedSeq(form.bytes \ White, form.length - Len(input)) \ {<<>>}
    ELSE {run \in {SubSeq(form.opening, Len(input) + 1, q) :
                     q \in Len(input) + 1 .. Len(form.opening)} : ToSet(run) \cap White = {}}

(* parse_vector: the white-space-free beginning of what the buffer holds.  *)
VectorRun ==
    /\ status = "reading" /\ Field = "bits"
    /\ \E run \in Runs :
         /\ run = Taken(run)
         /\ input' = input \o run
         /\ RunLine
         /\ IF Last(run) \notin Values
            THEN Fail("invalid value")
            ELSE /\ token' = token \o run
                 /\ UNCHANGED << simulation, fields, command, skipped, commands, status, error >>
    /\ UNCHANGED << ignore, form, atEof >>

(* read_string_command: a text ends with the bytes of $end, wherever.      *)
TextByte ==
    /\ status = "reading" /\ Field = "text"
    /\ \E byte \in Following :
         /\ ReadByte(byte)
         /\ IF IsSuffix(End, Append(token, byte))
            THEN CompleteField(SubSeq(token, 1, Len(token) - 1))
            ELSE /\ token' = Append(token, byte)
                 /\ UNCHANGED << simulation, fields, command, skipped, commands, status, error >>

ParserNext ==
    \/ EndOfInput \/ SkipBlank \/ Begin
    \/ TokenByte \/ TokenBlank \/ VectorRun \/ TextByte

ParserSpec == ParserInit /\ [][ParserNext]_parserVars

-----------------------------------------------------------------------------
Newlines(bytes) == Cardinality({p \in DOMAIN bytes : bytes[p] = Newline})

(* The line number is that of the byte read last, whether bytes came one   *)
(* by one or by the run, "so that errors at the end of the line refer to   *)
(* the correct line number" (parser.rs:133-134, 428-429).                  *)
LineExact ==
    /\ line = 1 + Newlines(IF atEof \/ input = <<>> THEN input ELSE Front(input))
    /\ endOfLine = (~atEof /\ input # <<>> /\ Last(input) = Newline)
=============================================================================
