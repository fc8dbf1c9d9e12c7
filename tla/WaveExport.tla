------------------------------- MODULE WaveExport -------------------------------
(***************************************************************************)
(* Writing a waveform file (write_wave_file of src/output.rs): the changes *)
(* of the sources (visit_changes) are copied for the window Start..End; at *)
(* Start the output first sets each signal to its latest earlier value.    *)
(*                                                                         *)
(* A source item is a change, or with no handle a time at which nothing    *)
(* changes: a bare timestamp of a VCD file, the end time of an FST file,   *)
(* the final-time marker of a merged reader (module KWayMerge).            *)
(***************************************************************************)
EXTENDS Integers, Sequences, FiniteSets

CONSTANTS
  Handles, Selected,  \* source handles, and those left in hierarchy.signal_map
  Values, NoValue,
  Exports,            \* the pairs of what the sources hold and how they are exported
  MayFail             \* whether readers and writers may fail

NoHandle == 0
NoTime == -1
NoEnd == -1
Item == [time : Nat, handle : Handles \cup {NoHandle}, value : Values \cup {NoValue}]

\* loneVcd: one VCD reader; otherwise one FST reader or merged readers.  fst: the output
\* format is FST.  start, end: the window; NoEnd is None.  write_wave_file refuses a start
\* past the end before it writes anything.
Setting ==
  {s \in [loneVcd : BOOLEAN, fst : BOOLEAN, start : Nat, end : Nat \cup {NoEnd}] :
     s.end # NoEnd => s.start <= s.end}

ASSUME ExportAssumption ==
  /\ Handles \subseteq Nat \ {0} /\ Selected \subseteq Handles
  /\ \A e \in Exports : e[1] \in Seq(Item) /\ e[2] \in Setting
  /\ MayFail \in BOOLEAN

\* An FST file has an end time, and merged readers end with a marker: each thread sends
\* one as its last item.
ASSUME EndsWithTime ==
  \A e \in Exports : ~e[2].loneVcd => e[1] # << >> /\ e[1][Len(e[1])].handle = NoHandle

VARIABLES
  items,        \* what the sources hold
  setting,      \* how it is exported
  pos, now,     \* items read; current_time of a VCD reader
  initial,      \* initial: handle -> latest value before Start
  current,      \* current: the last time written
  initialOpen,  \* initial_open: $dumpvars is not closed
  finalTime,    \* final_time
  out,          \* the commands written
  pc, result

source == <<items, setting>>
vars == <<source, pos, now, initial, current, initialOpen, finalTime, out, pc, result>>

LoneVcd == setting.loneVcd
Fst     == setting.fst
Start   == setting.start
End     == setting.end

-------------------------------------------------------------------------------
(* The commands of the output. A dump sets the initial values. *)

TimeCmd(t)      == [op |-> "time", time |-> t, handle |-> NoHandle, value |-> NoValue, dump |-> << >>]
ChangeCmd(h, v) == [op |-> "change", time |-> NoTime, handle |-> h, value |-> v, dump |-> << >>]
DumpCmd(init)   == [op |-> "dump", time |-> NoTime, handle |-> NoHandle, value |-> NoValue, dump |-> init]
EndCmd == [op |-> "end", time |-> NoTime, handle |-> NoHandle, value |-> NoValue, dump |-> << >>]

Later(s, t) == IF s < t THEN t ELSE s
PastEnd(t) == End # NoEnd /\ t > End
Clamped(t) == IF PastEnd(t) THEN End ELSE t

HasNext == pos < Len(items)
Next1   == items[pos + 1]

\* The output opens at Start if a value is known there, else at the first change.
FirstTime(t) == IF initial = << >> THEN t ELSE Start

Opening(t) == IF current = NoTime THEN <<TimeCmd(FirstTime(t)), DumpCmd(initial)>> ELSE << >>
Reached(t) == IF current = NoTime THEN FirstTime(t) ELSE current
DumpOpen   == current = NoTime \/ initialOpen

\* A new time first closes $dumpvars.
Advance(t) ==
  IF Reached(t) # t
  THEN (IF DumpOpen THEN <<EndCmd>> ELSE << >>) \o <<TimeCmd(t)>>
  ELSE << >>

\* What writing change x adds to the output.
ChangeCommands(x) == Opening(x.time) \o Advance(x.time) \o <<ChangeCmd(x.handle, x.value)>>

\* Mutant: an FST file may end at time 0.
LastTimeAnyFormat == IF End # NoEnd THEN End ELSE finalTime

\* The last timestamp; fst-writer needs a positive one to keep the initial values.
LastTime ==
  LET last == IF End # NoEnd THEN End ELSE finalTime
  IN IF Fst THEN Later(1, last) ELSE last

\* What is written once the sources are exhausted.
Closing ==
  (IF current = NoTime THEN <<TimeCmd(Start), DumpCmd(initial)>> ELSE << >>)
  \o (IF DumpOpen THEN <<EndCmd>> ELSE << >>)
  \o (IF (IF current = NoTime THEN Start ELSE current) < LastTime THEN <<TimeCmd(LastTime)>> ELSE << >>)

-------------------------------------------------------------------------------
Init ==
  /\ \E e \in Exports : items = e[1] /\ setting = e[2]
  /\ pos = 0 /\ now = 0 /\ initial = << >> /\ current = NoTime /\ initialOpen = FALSE
  /\ finalTime = Start /\ out = << >> /\ pc = "read" /\ result = "none"

\* Reading an item that is not passed to the closure, or only moves final_time.
Pass == pc = "read" /\ HasNext /\ pos' = pos + 1
        /\ UNCHANGED <<source, initial, current, initialOpen, out, pc, result>>

\* A VCD timestamp sets the current time; a merged marker or the end time of an FST
\* file is emitted as a time without a change.
BareTime ==
  /\ HasNext /\ Next1.handle = NoHandle /\ ~(LoneVcd /\ PastEnd(Next1.time))
  /\ IF LoneVcd
     THEN now' = Next1.time /\ UNCHANGED finalTime
     ELSE finalTime' = Later(finalTime, Clamped(Next1.time)) /\ UNCHANGED now
  /\ Pass

\* A change of a signal that is not selected is not passed to the closure.
NotSelected ==
  /\ HasNext /\ Next1.handle \in Handles \ Selected /\ ~PastEnd(Next1.time)
  /\ now' = Next1.time /\ UNCHANGED finalTime
  /\ Pass

\* A change past End: a VCD reader stops at its timestamp, others read on.
SkipPastEnd ==
  /\ ~LoneVcd /\ HasNext /\ Next1.handle # NoHandle /\ PastEnd(Next1.time)
  /\ UNCHANGED <<now, finalTime>>
  /\ Pass

StopPastEnd ==
  /\ pc = "read" /\ LoneVcd /\ HasNext /\ PastEnd(Next1.time)
  /\ now' = Next1.time /\ pc' = "close"
  /\ UNCHANGED <<source, pos, initial, current, initialOpen, finalTime, out, result>>

Emitted == pc = "read" /\ HasNext /\ Next1.handle \in Selected /\ ~PastEnd(Next1.time)

\* Mutant: the first earlier value of a signal is kept.
RememberFirst ==
  /\ Emitted /\ Next1.time < Start
  /\ initial' = IF Next1.handle \in DOMAIN initial THEN initial
                ELSE [h \in DOMAIN initial \cup {Next1.handle} |->
                        IF h = Next1.handle THEN Next1.value ELSE initial[h]]
  /\ pos' = pos + 1 /\ now' = Next1.time /\ finalTime' = Later(finalTime, Next1.time)
  /\ UNCHANGED <<source, current, initialOpen, out, pc, result>>

\* A change before Start replaces the initial value of its signal.
Remember ==
  /\ Emitted /\ Next1.time < Start
  /\ initial' = [h \in DOMAIN initial \cup {Next1.handle} |->
                   IF h = Next1.handle THEN Next1.value ELSE initial[h]]
  /\ pos' = pos + 1 /\ now' = Next1.time /\ finalTime' = Later(finalTime, Next1.time)
  /\ UNCHANGED <<source, current, initialOpen, out, pc, result>>

\* Mutant: a time that decreases is written.
DecreasesNever == FALSE

\* "Waveform timestamps must not decrease".
Decreases == current # NoTime /\ Next1.time < current

WriteChange ==
  /\ Emitted /\ Next1.time >= Start /\ ~Decreases
  /\ out' = out \o ChangeCommands(Next1)
  /\ initialOpen' = (DumpOpen /\ Reached(Next1.time) = Next1.time)
  /\ current' = Next1.time
  /\ initial' = IF current = NoTime THEN << >> ELSE initial
  /\ pos' = pos + 1 /\ now' = Next1.time /\ finalTime' = Later(finalTime, Next1.time)
  /\ UNCHANGED <<source, pc, result>>

RejectDecrease ==
  /\ Emitted /\ Next1.time >= Start /\ Decreases
  /\ pc' = "returned" /\ result' = "error"
  /\ UNCHANGED <<source, pos, now, initial, current, initialOpen, finalTime, out>>

\* The end of a VCD file: its current time is emitted without a change.
EndOfItems ==
  /\ pc = "read" /\ ~HasNext
  /\ pc' = "close"
  /\ UNCHANGED <<source, pos, now, initial, current, initialOpen, finalTime, out, result>>

FinalEmit == finalTime' = IF LoneVcd THEN Later(finalTime, Clamped(now)) ELSE finalTime

FinalTime ==
  /\ pc = "close" /\ FinalEmit
  /\ pc' = "finish"
  /\ UNCHANGED <<source, pos, now, initial, current, initialOpen, out, result>>

Finish ==
  /\ pc = "finish"
  /\ out' = out \o Closing
  /\ initialOpen' = FALSE /\ pc' = "returned" /\ result' = "ok"
  /\ UNCHANGED <<source, pos, now, initial, current, finalTime>>

\* A reader error, a value that does not fit its signal, or an I/O error: some of the
\* commands due were written.
Fail ==
  /\ MayFail /\ pc \in {"read", "finish"}
  /\ LET due == IF pc = "finish" THEN Closing
                ELSE IF Emitted /\ Next1.time >= Start /\ ~Decreases THEN ChangeCommands(Next1)
                ELSE << >>
     IN \E n \in 0..Len(due) : out' = out \o SubSeq(due, 1, n)
  /\ pc' = "returned" /\ result' = "error"
  /\ UNCHANGED <<source, pos, now, initial, current, initialOpen, finalTime>>

Done == pc = "returned" /\ UNCHANGED vars

Next ==
  \/ BareTime \/ NotSelected \/ SkipPastEnd \/ StopPastEnd \/ Remember
  \/ WriteChange \/ RejectDecrease \/ EndOfItems \/ FinalTime \/ Finish \/ Fail \/ Done

Spec == Init /\ [][Next]_vars

-------------------------------------------------------------------------------
(* Properties. *)

Positions(op) == {n \in DOMAIN out : out[n].op = op}

\* The timestamps of the output increase strictly, whatever the sources hold: no reader
\* of the output meets a time twice or a time that goes back.  They stay in the window,
\* but for the time 1 that an FST file needs when the window ends at 0.
Ordered(s) ==
  \A n \in DOMAIN s : s[n].op = "time" =>
    /\ Start <= s[n].time /\ (PastEnd(s[n].time) => Fst /\ s[n].time = 1)
    /\ \A m \in 1..(n - 1) : s[m].op = "time" => s[m].time < s[n].time

\* A finished output has one $dumpvars, right after its first timestamp, and one $end,
\* with no other timestamp between them.
Dumped(s) ==
  /\ 2 \in DOMAIN s /\ s[1].op = "time" /\ \A n \in DOMAIN s : s[n].op = "dump" <=> n = 2
  /\ \E e \in DOMAIN s : /\ \A n \in DOMAIN s : s[n].op = "end" <=> n = e
                        /\ \A n \in 2..e : s[n].op # "time"

\* What is written is in order, also when it ends early, and complete when it is not.
TimesIncrease == Ordered(out) /\ (result = "ok" => Dumped(out))

Monotone == \A m, n \in DOMAIN items : m <= n => items[m].time <= items[n].time

\* The value signal h has at time t, in the sources and in the output.
SourceValue(h, t) ==
  LET S == {n \in DOMAIN items : items[n].handle = h /\ items[n].time <= t}
  IN IF S = {} THEN NoValue ELSE items[CHOOSE n \in S : \A m \in S : m <= n].value

TimeAt(n) == out[CHOOSE m \in 1..n : out[m].op = "time" /\ \A i \in (m + 1)..n : out[i].op # "time"].time
Sets(n, h) == (out[n].op = "change" /\ out[n].handle = h) \/ (out[n].op = "dump" /\ h \in DOMAIN out[n].dump)
OutputValue(h, t) ==
  LET S == {n \in DOMAIN out : Sets(n, h) /\ TimeAt(n) <= t}
      n == CHOOSE n \in S : \A m \in S : m <= n
  IN IF S = {} THEN NoValue ELSE IF out[n].op = "dump" THEN out[n].dump[h] ELSE out[n].value

\* At every time of the window, every selected signal has in the output the value it has
\* in the sources (whose times do not decrease).
Faithful ==
  result = "ok" /\ Monotone =>
    \A h \in Selected :
      \A t \in {items[n].time : n \in DOMAIN items} \cup {Start, LastTime} :
        t >= Start /\ ~PastEnd(t) => OutputValue(h, t) = SourceValue(h, t)

\* The output ends at End, or without End at the last time of the sources, even if
\* nothing changes there.
EndsAtLastTime ==
  result = "ok" /\ Monotone =>
    LET expected == IF End # NoEnd THEN End
                    ELSE IF items = << >> THEN Start ELSE Later(Start, items[Len(items)].time)
    IN TimeAt(Len(out)) = IF Fst THEN Later(1, expected) ELSE expected

=============================================================================
