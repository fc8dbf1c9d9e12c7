------------------------------ MODULE CatOutput ------------------------------
(***************************************************************************)
(* How wavecat prints value changes as text (src/src/cat.rs).  There are   *)
(* three printers for one job: write_signals gets the changes of an FST    *)
(* file in a callback it cannot stop, write_vcd_signals pulls those of a   *)
(* VCD file, and write_signals_wave_multi gets the merged changes of       *)
(* several readers, whose senders have applied the window, with the final  *)
(* times of the readers among them.  With `sort` the lines of one time are *)
(* held back and written in the order of their names.                      *)
(*                                                                         *)
(* A name is a number, its place in lexical order.  Writing fails after a  *)
(* number of lines that is chosen beforehand; reading fails anywhere.      *)
(***************************************************************************)
EXTENDS Ordering, Sequences, SequencesExt

CONSTANTS Changes,      \* the possible streams, sequences of [time, handle, value]
          Names,        \* handle -> sequence of names, for the selected handles
          Start, End,   \* the window; End may be Nil
          Nil,          \* also the handle of a final time
          MaxLines      \* bound on the lines that can be written

ASSUME LinesBound == MaxLines \in Nat

(* A stream is a sequence, times and the places of names are numbers.      *)
ASSUME PrintAssumption ==
    /\ \A s \in Changes : s \in Seq(ToSet(s)) /\ \A i \in DOMAIN s : s[i].time \in Nat
    /\ \A handle \in DOMAIN Names : Names[handle] \in Seq(Nat)
    /\ Start \in Nat /\ End \in Nat \cup {Nil} /\ Nil \notin Nat

Printers == {"fst", "vcd", "multi"}

VARIABLES printer, sort, changes,
          room,         \* lines that can be written before writing fails
          nextChange,   \* the place of the next change
          current,      \* current_time: the time of the lines held back
          batch,        \* the lines held back, as << name, value >>
          text,         \* the lines written, as << time, name, value >>
          failed,       \* write_error of write_signals
          answer        \* "running", "ok" or "error"

printVars == << printer, sort, changes, room, nextChange, current, batch, text, failed, answer >>

Selected(c) == c.handle # Nil /\ c.handle \in DOMAIN Names
LinesOf(c) == [k \in DOMAIN Names[c.handle] |-> << c.time, Names[c.handle][k], c.value >>]

AfterEnd(c) == End # Nil /\ c.time > End
InWindow(c) == c.time >= Start /\ ~AfterEnd(c)

(* The senders of several readers apply the window, and send final times   *)
(* that are inside it or at its start.                                     *)
Possible(p, s) ==
    \A i \in DOMAIN s : IF p = "multi" THEN InWindow(s[i]) ELSE s[i].handle # Nil

PrintInit ==
    /\ printer \in Printers /\ sort \in BOOLEAN
    /\ changes \in {s \in Changes : Possible(printer, s)}
    /\ room \in 0 .. MaxLines
    /\ nextChange = 1 /\ current = Nil /\ batch = <<>> /\ text = <<>>
    /\ failed = FALSE /\ answer = "running"

-----------------------------------------------------------------------------
(* The lines held back, in the order of their names; lines of one name     *)
(* stay in the order of the changes (sort_by is stable).                   *)
SortedBy(s, Before(_, _)) ==
    LET before == {pair \in (DOMAIN s) \X (DOMAIN s) :
                     LET i == pair[1] j == pair[2]
                     IN  Before(s[i], s[j]) \/ (~Before(s[j], s[i]) /\ i < j)}
        order  == InOrder(DOMAIN s, before)
    IN  [k \in DOMAIN s |-> s[order[k]]]

(* Mutant: the lines are ordered by name and value.                        *)
SortedBatchByValue ==
    SortedBy(batch, LAMBDA a, b : a[1] < b[1] \/ (a[1] = b[1] /\ a[2] < b[2]))

SortedBatch == SortedBy(batch, LAMBDA a, b : a[1] < b[1])

HeldLines == [k \in DOMAIN batch |-> << current, SortedBatch[k][1], SortedBatch[k][2] >>]

(* Writing lines: what fits is written; the rest is the error.             *)
Fits(lines) == Len(text) + Len(lines) <= room
Printed(lines) == text \o SubSeq(lines, 1, IF Fits(lines) THEN Len(lines) ELSE room - Len(text))

(* The lines of the time before are due when a change of another time      *)
(* comes.  The printers of one reader look only at selected changes.       *)
Due(c) == sort /\ current # Nil /\ current # c.time

TimeSeen(c) == printer = "multi" \/ Selected(c)

(* What a write error does: the FST callback remembers it and ignores the  *)
(* rest of the file; the other printers stop.                              *)
OnWriteError ==
    IF printer = "fst" THEN failed' = TRUE /\ UNCHANGED answer
                       ELSE answer' = "error" /\ UNCHANGED failed

Change == changes[nextChange]

Take ==
    /\ answer = "running"
    /\ nextChange <= Len(changes)
    /\ nextChange' = nextChange + 1
    /\ UNCHANGED << printer, sort, changes, room >>

(* A change before the window, after it in an FST file, or after an error. *)
Skip ==
    /\ Take
    /\ \/ failed
       \/ printer = "fst" /\ ~InWindow(Change)
       \/ printer = "vcd" /\ Change.time < Start
    /\ UNCHANGED << current, batch, text, failed, answer >>

(* A VCD file is not read past the first change after the window.          *)
StopAfterEnd ==
    /\ answer = "running"
    /\ printer = "vcd"
    /\ nextChange <= Len(changes)
    /\ Change.time >= Start /\ AfterEnd(Change)
    /\ nextChange' = Len(changes) + 1
    /\ UNCHANGED << printer, sort, changes, room, current, batch, text, failed, answer >>

PrintUnsorted ==
    /\ ~sort
    /\ Take
    /\ ~failed /\ InWindow(Change)
    /\ IF Selected(Change)
       THEN /\ text' = Printed(LinesOf(Change))
            /\ IF Fits(LinesOf(Change)) THEN UNCHANGED << failed, answer >> ELSE OnWriteError
       ELSE UNCHANGED << text, failed, answer >>
    /\ UNCHANGED << current, batch >>

Held(c, held) ==
    IF Selected(c)
    THEN held \o [k \in DOMAIN Names[c.handle] |-> << Names[c.handle][k], c.value >>]
    ELSE held

PrintSorted ==
    /\ sort
    /\ Take
    /\ ~failed /\ InWindow(Change)
    /\ IF ~TimeSeen(Change)
       THEN UNCHANGED << current, batch, text, failed, answer >>
       ELSE IF ~Due(Change)
       THEN /\ current' = Change.time
            /\ batch' = Held(Change, batch)
            /\ UNCHANGED << text, failed, answer >>
       ELSE /\ text' = Printed(HeldLines)
            /\ IF Fits(HeldLines)
               THEN /\ current' = Change.time
                    /\ batch' = Held(Change, <<>>)
                    /\ UNCHANGED << failed, answer >>
               ELSE /\ batch' = <<>>
                    /\ OnWriteError
                    /\ UNCHANGED current

LastLines == IF sort /\ current # Nil THEN HeldLines ELSE <<>>

Finish ==
    /\ answer = "running"
    /\ nextChange > Len(changes)
    /\ IF failed
       THEN /\ answer' = "error"
            /\ UNCHANGED << text, batch >>
       ELSE /\ text' = Printed(LastLines)
            /\ batch' = <<>>
            /\ answer' = IF Fits(LastLines) THEN "ok" ELSE "error"
    /\ UNCHANGED << printer, sort, changes, room, nextChange, current, failed >>

(* A read error, of any reader, ends the printing; lines held back are     *)
(* dropped.                                                                *)
ReadFail ==
    /\ answer = "running"
    /\ answer' = "error"
    /\ UNCHANGED << printer, sort, changes, room, nextChange, current, batch, text, failed >>

PrintNext == Skip \/ StopAfterEnd \/ PrintUnsorted \/ PrintSorted \/ Finish \/ ReadFail

PrintSpec == PrintInit /\ [][PrintNext]_printVars

-----------------------------------------------------------------------------
(* The lines to print: those of the selected changes in the window.  A     *)
(* reader of VCD stops at the first change after it.                       *)
Considered ==
    LET past == {i \in DOMAIN changes : AfterEnd(changes[i])}
    IN  IF printer = "vcd" /\ past # {} THEN SubSeq(changes, 1, Min(past) - 1) ELSE changes

Wanted ==
    FlattenSeq([i \in DOMAIN Considered |->
                  IF InWindow(Considered[i]) /\ Selected(Considered[i])
                  THEN LinesOf(Considered[i]) ELSE <<>>])

InTimeOrder == \A i, j \in DOMAIN changes : i < j => changes[i].time <= changes[j].time

Ordered(lines) ==
    IF sort THEN SortedBy(lines, LAMBDA a, b : a[1] < b[1] \/ (a[1] = b[1] /\ a[2] < b[2]))
            ELSE lines

(* The three printers agree: of a stream in time order all of them print   *)
(* the same text, in file order or sorted by time and then name, all of it *)
(* if they succeed and a first part of it if they fail.  Sorting loses and *)
(* repeats nothing, of a stream in any order: a printer that succeeds has  *)
(* printed every line as often as it is wanted (cat.rs:54-129, 266-370).   *)
Times(line, lines) == Cardinality({i \in DOMAIN lines : lines[i] = line})

PrintsWanted ==
    /\ InTimeOrder => /\ IsPrefix(text, Ordered(Wanted))
                      /\ answer = "ok" => text = Ordered(Wanted)
    /\ answer = "ok" =>
         \A line \in ToSet(text) \cup ToSet(Wanted) : Times(line, text) = Times(line, Wanted)
=============================================================================
