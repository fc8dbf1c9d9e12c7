------------------------------ MODULE VcdWriter ------------------------------
(***************************************************************************)
(* The VCD writer (src/src/vcd/write.rs), and the parser on what it wrote. *)
(* The commands are those the parser returns, and what the hierarchy of an *)
(* FST file adds to them: a name with its range in it, and words of any    *)
(* length.  Once the file is closed it is the input of the parser.         *)
(***************************************************************************)
EXTENDS VcdParserReference

CONSTANTS Given,       \* the commands that may be written
          Added,       \* those of a variable that gets its code from the writer
          MaxWritten   \* bound on the commands of a file

VARIABLES phase,       \* "writing" or "reading"
          written,     \* the commands written
          scopeDepth, nextIdCode

writerVars == << phase, written, scopeDepth, nextIdCode >>

Is(c, keyword) == c[1] = << "$" >> /\ c[2] = << keyword >>

-----------------------------------------------------------------------------
(* The text of a command.                                                  *)
Indent(depth) == [i \in 1 .. depth + 1 |-> " "]

Line(words) == FoldLeft(LAMBDA text, word : text \o word \o << " " >>, <<>>, words) \o End

Index(c) == IF c[7] = End THEN <<>> ELSE << c[7] >>

TextOf(c) ==
    CASE c[1] = << "#" >>            -> c[1] \o c[2]
      [] c[1][1] \in Values          -> c[1] \o IdText(c[2])
      [] c[1][1] \in {"b", "r", "s"} -> c[1] \o c[2] \o << " " >> \o IdText(c[3])
      [] Is(c, "D") -> c[1] \o c[2]
      [] Is(c, "E") -> End
      [] Is(c, "C") -> c[1] \o c[2] \o << Newline, " " >> \o c[3] \o << Newline >> \o End
      [] Is(c, "M") -> c[1] \o c[2] \o << Newline >> \o c[3] \o c[4] \o << Newline >> \o End
      [] Is(c, "F") -> Line(<< c[1] \o c[2] >>)
      [] Is(c, "U") -> Indent(scopeDepth - 1) \o Line(<< c[1] \o c[2] >>)
      [] Is(c, "G") -> Indent(scopeDepth) \o Line(<< c[1] \o c[2] >>)
      [] Is(c, "S") -> Indent(scopeDepth) \o Line(<< c[1] \o c[2], c[3], c[4] >>)
      [] Is(c, "A") -> Indent(scopeDepth) \o Line(<< c[1] \o c[2], c[3], c[4] >> \o c[5] \o << c[6] >>)
      [] Is(c, "V") -> Indent(scopeDepth)
                         \o Line(<< c[1] \o c[2], c[3], c[4], IdText(c[5]), c[6] >> \o Index(c))

NextAfter(id) == IF id >= nextIdCode THEN (id + 1) % (MaxId + 1) ELSE nextIdCode

Depth(c) == scopeDepth + (CASE Is(c, "S") -> 1 [] Is(c, "U") -> -1 [] OTHER -> 0)

(* Scopes and simulation commands are closed where one is open.            *)
OpenBegin ==
    LET begins == {k \in DOMAIN written : Is(written[k], "D")}
        ends   == {k \in DOMAIN written : Is(written[k], "E")}
    IN  IF begins = {} \/ \E e \in ends : e > Max(begins) THEN 0 ELSE Max(begins)

Allowed(c) ==
    /\ Is(c, "U") => scopeDepth > 0
    /\ Is(c, "E") => OpenBegin # 0 /\ c[3] = OpenBegin

-----------------------------------------------------------------------------
EmptyFile ==
    [bytes |-> White \cup ToSet(IdChars), opening |-> <<>>, length |-> 0]

WriterInit ==
    /\ written = <<>> /\ scopeDepth = 0 /\ nextIdCode = 0
    /\ \/ ParserInit /\ phase = "reading"
       \/ /\ ignore \in BOOLEAN /\ form = EmptyFile
          /\ input = <<>> /\ atEof = FALSE /\ line = 1 /\ endOfLine = FALSE /\ simulation = None
          /\ fields = <<>> /\ token = <<>> /\ command = <<>> /\ skipped = FALSE
          /\ commands = <<>> /\ status = "between" /\ error = None
          /\ phase = "writing"

Write(c) ==
    /\ phase = "writing" /\ Len(written) < MaxWritten
    /\ written' = Append(written, c)
    /\ LET text == form.opening \o TextOf(c) \o << Newline >>
       IN  form' = [form EXCEPT !.opening = text, !.length = Len(text)]
    /\ scopeDepth' = Depth(c)
    /\ nextIdCode' = IF Is(c, "V") THEN NextAfter(c[5]) ELSE nextIdCode
    /\ UNCHANGED << phase, ignore, input, atEof, line, endOfLine, simulation, fields, token,
                    command, skipped, commands, status, error >>

WriteCommand == \E c \in Given : Allowed(c) /\ Write(c)

(* add_var                                                                 *)
AddVar == \E c \in Added : Write([c EXCEPT ![5] = nextIdCode])

Close ==
    /\ phase = "writing" /\ phase' = "reading"
    /\ UNCHANGED << parserVars, written, scopeDepth, nextIdCode >>

Read == phase = "reading" /\ ParserNext /\ UNCHANGED writerVars

WriterNext == WriteCommand \/ AddVar \/ Close \/ Read

WriterSpec == WriterInit /\ [][WriterNext]_<< parserVars, writerVars >>

-----------------------------------------------------------------------------
(* What the reader cannot take back: a word of an annotation that does not *)
(* fit its buffer, and the largest code there is.                          *)
WhyUnreadable(c) ==
    CASE Is(c, "A") /\ \E k \in DOMAIN c[5] : Len(c[5][k]) > MaxToken -> "token too long"
      [] Is(c, "V") /\ c[5] = MaxId -> "identifier too long"
      [] OTHER -> None

(* A variable as it is displayed: its name, a space and its index.         *)
Displayed(c) ==
    IF Is(c, "V") /\ c[7] # End
    THEN [c EXCEPT ![6] = c[6] \o << " " >> \o c[7], ![7] = End]
    ELSE c

Variables == {k \in DOMAIN written : Is(written[k], "V")}

(* "writing the header is lossless" (parser.rs:1549): the commands written *)
(* are read back, each whole and with its own fields, up to the first that *)
(* cannot be, and that is an error; and a variable that got its code from  *)
(* the writer shares it with none before.                                  *)
WrittenIsRead ==
    written # <<>> /\ ~Running =>
        LET bad == Min({k \in DOMAIN written : WhyUnreadable(written[k]) # None}
                         \cup {Len(written) + 1})
        IN  /\ [k \in DOMAIN commands |-> Displayed(commands[k])]
                 = [k \in 1 .. bad - 1 |-> Displayed(written[k])]
            /\ IF bad > Len(written) THEN error = None
                                    ELSE error[1] = WhyUnreadable(written[bad])
            /\ \A k \in Variables :
                 [written[k] EXCEPT ![5] = 0] \in Added
                   => \A j \in Variables : j < k => written[j][5] # written[k][5]
=============================================================================
