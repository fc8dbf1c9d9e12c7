---------------------------- MODULE WaveExportProofs ----------------------------
(***************************************************************************)
(* For all sources, windows, formats, values and failures: the timestamps  *)
(* of an exported file increase and a finished file is complete            *)
(* (TimesIncrease); and if the times of the sources do not decrease, at    *)
(* every time of the window every selected signal has its value in the     *)
(* file (Faithful), which ends at the end of the window or at the last     *)
(* time of the sources (EndsAtLastTime).                                   *)
(*                                                                         *)
(* The commands of a step are appended one by one, with a lemma for each   *)
(* kind of command.  The first invariant, IInv, says what current and      *)
(* initialOpen know of the order of the output (Good): a lemma about a     *)
(* command says what it makes of Ordered, and of the two states of         *)
(* $dumpvars, Opened and Dumped.                                           *)
(*                                                                         *)
(* The second, FInv, is about values.  Shown(s, c, p) is what is true      *)
(* while reading goes on: the commands s, whose time is c, give every      *)
(* signal at every time of the window the value that the first p items     *)
(* give it.  Times after c are included: the next command never changes    *)
(* what was shown, only the last of the values.                            *)
(***************************************************************************)
EXTENDS WaveExport, TLAPS, SequenceTheorems

Initials == UNION {[S -> Values \cup {NoValue}] : S \in SUBSET Selected}

Command == [op : {"time", "change", "dump", "end"}, time : Nat \cup {NoTime},
            handle : Handles \cup {NoHandle}, value : Values \cup {NoValue},
            dump : Initials \cup {<< >>}]

\* $dumpvars was written and is open.
Opened(s) ==
  /\ 2 \in DOMAIN s /\ s[1].op = "time" /\ \A n \in DOMAIN s : s[n].op = "dump" <=> n = 2
  /\ \A n \in DOMAIN s : s[n].op # "end" /\ (s[n].op = "time" => n = 1)

InLimits(t) == Start <= t /\ (PastEnd(t) => Fst /\ t = 1)
Before(s, t) == \A n \in DOMAIN s : s[n].op = "time" => s[n].time < t
UpTo(s, t) == \A n \in DOMAIN s : s[n].op = "time" => s[n].time <= t

\* The output s has reached time c, or is empty; open says that $dumpvars is not closed.
Good(s, c, open) ==
  \/ c = NoTime /\ s = << >> /\ ~open
  \/ /\ c \in Nat /\ Start <= c /\ ~PastEnd(c)
     /\ Ordered(s) /\ UpTo(s, c)
     /\ IF open THEN Opened(s) ELSE Dumped(s)

Typed ==
  /\ items \in Seq(Item) /\ setting \in Setting
  /\ pos \in Nat /\ now \in Nat /\ finalTime \in Nat
  /\ initial \in Initials /\ current \in Nat \cup {NoTime} /\ initialOpen \in BOOLEAN
  /\ out \in Seq(Command)
  /\ pc \in {"read", "close", "finish", "returned"}

IInv ==
  /\ Typed
  /\ pc # "returned" => Good(out, current, initialOpen) /\ result = "none"
  /\ pc = "returned" => TimesIncrease

-------------------------------------------------------------------------------
(* One command more. *)

\* The provers lose their way in the elements of concatenations: as a name,
\* Cat is opaque to them wherever its definition is not cited.
Output == Seq(Command)
Cat(x, y) == x \o y

\* Four parts of an output may be written one at a time.
LEMMA InParts ==
  \A a, b, c, d \in Output :
     /\ Cat(Cat(b, c), d) \in Output
     /\ Cat(a, Cat(Cat(b, c), d)) = Cat(Cat(Cat(a, b), c), d)
<1>1. \A x, y \in Output : Cat(x, y) \in Output
  BY ConcatProperties DEF Output, Cat
<1>2. \A x, y, z \in Output : Cat(Cat(x, y), z) = Cat(x, Cat(y, z))
  BY ConcatAssociative DEF Output, Cat
<1> QED
  BY <1>1, <1>2

LEMMA CommandsTyped ==
  /\ \A t \in Nat : TimeCmd(t) \in Command
  /\ \A h \in Handles, v \in Values \cup {NoValue} : ChangeCmd(h, v) \in Command
  /\ \A i \in Initials : DumpCmd(i) \in Command
  /\ EndCmd \in Command
  BY DEF TimeCmd, ChangeCmd, DumpCmd, EndCmd, Command, NoTime

LEMMA TimesTyped ==
  ASSUME NEW s \in Seq(Command), NEW n \in DOMAIN s
  PROVE  s[n].time \in Nat \cup {NoTime}
<1>1. s[n] \in Command
  BY ElementOfSeq
<1> QED
  BY <1>1 DEF Command

LEMMA TimeKeepsOrder ==
  ASSUME NEW s \in Seq(Command), NEW t \in Nat, Ordered(s), InLimits(t), Before(s, t)
  PROVE  Ordered(Append(s, TimeCmd(t))) /\ UpTo(Append(s, TimeCmd(t)), t)
<1> DEFINE a == Append(s, TimeCmd(t))
<1>1. /\ Len(a) = Len(s) + 1 /\ Len(s) \in Nat /\ DOMAIN a = 1..Len(s) + 1 /\ DOMAIN s = 1..Len(s)
      /\ \A n \in DOMAIN s : a[n] = s[n]
      /\ a[Len(s) + 1] = TimeCmd(t)
  BY CommandsTyped
<1>2. TimeCmd(t).op = "time" /\ TimeCmd(t).time = t
  BY DEF TimeCmd
<1>3. \A n \in DOMAIN s : s[n].time \in Nat \cup {NoTime}
  BY TimesTyped
<1> HIDE DEF a
<1>4. Ordered(a)
  BY <1>1, <1>2, <1>3 DEF Ordered, InLimits, Before
<1>5. UpTo(a, t)
  BY <1>1, <1>2, <1>3 DEF UpTo, Before, NoTime
<1> QED
  BY <1>4, <1>5 DEF a

LEMMA OthersKeepOrder ==
  ASSUME NEW s \in Seq(Command), NEW c \in Command, c.op # "time", Ordered(s)
  PROVE  /\ Ordered(Append(s, c))
         /\ \A t : UpTo(s, t) => UpTo(Append(s, c), t)
<1> DEFINE a == Append(s, c)
<1>1. /\ Len(a) = Len(s) + 1 /\ Len(s) \in Nat /\ DOMAIN a = 1..Len(s) + 1 /\ DOMAIN s = 1..Len(s)
      /\ \A n \in DOMAIN s : a[n] = s[n]
      /\ a[Len(s) + 1] = c
  OBVIOUS
<1> HIDE DEF a
<1>2. Ordered(a)
  BY <1>1 DEF Ordered
<1>3. \A t : UpTo(s, t) => UpTo(a, t)
  BY <1>1 DEF UpTo
<1> QED
  BY <1>2, <1>3 DEF a

\* What becomes of $dumpvars.
LEMMA DumpState ==
  ASSUME NEW s \in Seq(Command), NEW c \in Command
  PROVE  /\ Opened(s) /\ c.op = "change" => Opened(Append(s, c))
         /\ Opened(s) /\ c.op = "end" => Dumped(Append(s, c))
         /\ Dumped(s) /\ c.op \in {"time", "change"} => Dumped(Append(s, c))
<1> DEFINE a == Append(s, c)
<1>1. /\ Len(a) = Len(s) + 1 /\ Len(s) \in Nat /\ DOMAIN a = 1..Len(s) + 1 /\ DOMAIN s = 1..Len(s)
      /\ \A n \in DOMAIN s : a[n] = s[n]
      /\ a[Len(s) + 1] = c
  OBVIOUS
<1> HIDE DEF a
<1>2. Opened(s) /\ c.op = "change" => Opened(a)
  BY <1>1 DEF Opened
<1>3. ASSUME Opened(s), c.op = "end"
      PROVE  Dumped(a)
  <2>1. 2 \in DOMAIN a /\ a[1].op = "time" /\ \A n \in DOMAIN a : a[n].op = "dump" <=> n = 2
    BY <1>1, <1>3 DEF Opened
  <2>2. \A n \in DOMAIN a : a[n].op = "end" <=> n = Len(s) + 1
    BY <1>1, <1>3 DEF Opened
  <2>3. \A n \in 2..Len(s) + 1 : a[n].op # "time"
    BY <1>1, <1>3 DEF Opened
  <2> QED
    BY <1>1, <2>1, <2>2, <2>3 DEF Dumped
<1>4. ASSUME Dumped(s), c.op \in {"time", "change"}
      PROVE  Dumped(a)
  <2>1. PICK e \in DOMAIN s : /\ \A n \in DOMAIN s : s[n].op = "end" <=> n = e
                              /\ \A n \in 2..e : s[n].op # "time"
    BY <1>4 DEF Dumped
  <2>2. 2 \in DOMAIN a /\ a[1].op = "time" /\ \A n \in DOMAIN a : a[n].op = "dump" <=> n = 2
    BY <1>1, <1>4 DEF Dumped
  <2>3. e \in DOMAIN a /\ \A n \in DOMAIN a : a[n].op = "end" <=> n = e
    BY <1>1, <1>4, <2>1
  <2>4. \A n \in 2..e : a[n].op # "time"
    BY <1>1, <2>1
  <2> QED
    BY <2>2, <2>3, <2>4 DEF Dumped
<1> QED
  BY <1>2, <1>3, <1>4 DEF a

-------------------------------------------------------------------------------
(* The parts of a step. *)

LEMMA WindowOpen ==
  ASSUME setting \in Setting
  PROVE  Start \in Nat /\ End \in Nat \cup {NoEnd} /\ ~PastEnd(Start)
  BY DEF Setting, Start, End, PastEnd, NoEnd

\* A window opens with its first timestamp and $dumpvars.
LEMMA OpensGood ==
  ASSUME setting \in Setting, initial \in Initials,
         NEW t \in Nat, Start <= t, ~PastEnd(t)
  PROVE  /\ <<TimeCmd(t), DumpCmd(initial)>> \in Seq(Command)
         /\ Good(<<TimeCmd(t), DumpCmd(initial)>>, t, TRUE)
<1> DEFINE d == DumpCmd(initial)
           s == <<TimeCmd(t), d>>
<1>1. TimeCmd(t) \in Command /\ d \in Command
  BY CommandsTyped
<1>2. s \in Seq(Command)
  BY <1>1
<1>3. TimeCmd(t).op = "time" /\ TimeCmd(t).time = t /\ d.op = "dump"
  BY DEF TimeCmd, DumpCmd
<1>4. DOMAIN s = 1..2 /\ s[1] = TimeCmd(t) /\ s[2] = d
  OBVIOUS
<1>5. t \in Nat /\ Start \in Nat
  BY WindowOpen
<1> HIDE DEF d, s
<1>6. Ordered(s) /\ UpTo(s, t)
  BY <1>3, <1>4, <1>5 DEF Ordered, UpTo
<1>7. Opened(s)
  BY <1>3, <1>4 DEF Opened
<1> QED
  BY <1>2, <1>6, <1>7 DEF Good, d, s

\* Closing $dumpvars, if it is open.
DumpEnded(s, open) == IF open THEN Append(s, EndCmd) ELSE s

LEMMA EndsGood ==
  ASSUME NEW s \in Seq(Command), NEW c \in Nat, NEW open \in BOOLEAN, Good(s, c, open)
  PROVE  DumpEnded(s, open) \in Seq(Command) /\ Good(DumpEnded(s, open), c, FALSE)
<1>1. EndCmd \in Command /\ EndCmd.op = "end"
  BY CommandsTyped DEF EndCmd
<1>2. CASE ~open
  BY <1>2 DEF DumpEnded
<1>3. CASE open
  <2>1. DumpEnded(s, open) = Append(s, EndCmd) /\ Append(s, EndCmd) \in Seq(Command)
    BY <1>1, <1>3 DEF DumpEnded
  <2>2. c # NoTime
    BY DEF NoTime
  <2>3. Ordered(s) /\ UpTo(s, c) /\ Opened(s) /\ Start <= c /\ ~PastEnd(c)
    BY <1>3, <2>2 DEF Good
  <2>4. Ordered(Append(s, EndCmd)) /\ UpTo(Append(s, EndCmd), c)
    BY <1>1, <2>3, OthersKeepOrder
  <2>5. Dumped(Append(s, EndCmd))
    BY <1>1, <2>3, DumpState
  <2> QED
    BY <1>3, <2>1, <2>3, <2>4, <2>5 DEF Good
<1> QED
  BY <1>2, <1>3

\* Moving to a later time.
LEMMA TimeGood ==
  ASSUME NEW s \in Seq(Command), NEW c \in Nat, Good(s, c, FALSE),
         NEW t \in Nat, c < t, InLimits(t)
  PROVE  LET a == Append(s, TimeCmd(t))
         IN  a \in Seq(Command) /\ Ordered(a) /\ UpTo(a, t) /\ Dumped(a)
<1>1. TimeCmd(t) \in Command /\ TimeCmd(t).op = "time"
  BY CommandsTyped DEF TimeCmd
<1>2. Append(s, TimeCmd(t)) \in Seq(Command)
  BY <1>1
<1>3. Ordered(s) /\ UpTo(s, c) /\ Dumped(s)
  BY DEF Good, NoTime
<1>4. \A n \in DOMAIN s : s[n].time \in Nat \cup {NoTime}
  BY TimesTyped
<1>5. Before(s, t)
  BY <1>3, <1>4 DEF Before, UpTo, NoTime
<1>6. Ordered(Append(s, TimeCmd(t))) /\ UpTo(Append(s, TimeCmd(t)), t)
  BY <1>3, <1>5, TimeKeepsOrder
<1>7. Dumped(Append(s, TimeCmd(t)))
  BY <1>1, <1>3, DumpState
<1> QED
  BY <1>2, <1>6, <1>7

\* An opened window, or the one that is open already.
Started(t) == IF current = NoTime THEN <<TimeCmd(t), DumpCmd(initial)>> ELSE << >>
StartedAt(t) == IF current = NoTime THEN t ELSE current

LEMMA StartsGood ==
  ASSUME Typed, Good(out, current, initialOpen),
         NEW t \in Nat, Start <= t, ~PastEnd(t)
  PROVE  /\ Started(t) \in Seq(Command) /\ StartedAt(t) \in Nat /\ DumpOpen \in BOOLEAN
         /\ out \o Started(t) \in Seq(Command)
         /\ Good(out \o Started(t), StartedAt(t), DumpOpen)
<1>1. CASE current = NoTime
  <2>1. out = << >>
    BY <1>1 DEF Good, NoTime
  <2>2. /\ <<TimeCmd(t), DumpCmd(initial)>> \in Seq(Command)
        /\ Good(<<TimeCmd(t), DumpCmd(initial)>>, t, TRUE)
    BY OpensGood DEF Typed
  <2>3. << >> \o <<TimeCmd(t), DumpCmd(initial)>> = <<TimeCmd(t), DumpCmd(initial)>>
    OBVIOUS
  <2> QED
    BY <1>1, <2>1, <2>2, <2>3 DEF Started, StartedAt, DumpOpen
<1>2. CASE current # NoTime
  <2>1. out \o << >> = out /\ << >> \in Seq(Command)
    BY DEF Typed
  <2> QED
    BY <1>2, <2>1 DEF Started, StartedAt, DumpOpen, Typed
<1> QED
  BY <1>1, <1>2

\* The output as a change at time t finds it: opened, and advanced to t.
OpenedFor(t) == out \o Opening(t)
AdvancedTo(t) ==
  IF Reached(t) = t THEN OpenedFor(t) ELSE Append(DumpEnded(OpenedFor(t), DumpOpen), TimeCmd(t))

\* An output ends with a part of at most one command.
LEMMA LastPart ==
  ASSUME NEW s \in Seq(Command)
  PROVE  /\ Cat(s, << >>) = s
         /\ \A c \in Command : <<c>> \in Seq(Command) /\ Cat(s, <<c>>) = Append(s, c)
  BY DEF Cat

\* A change may be written to a window that is or becomes open.
LEMMA ChangeOpens ==
  ASSUME Typed, Good(out, current, initialOpen), NEW t \in Nat, Start <= t, ~PastEnd(t),
         current = NoTime \/ current <= t
  PROVE  /\ Opening(t) = Started(FirstTime(t)) /\ Reached(t) = StartedAt(FirstTime(t))
         /\ FirstTime(t) \in Nat /\ Start <= FirstTime(t) /\ ~PastEnd(FirstTime(t))
         /\ Opening(t) \in Seq(Command) /\ OpenedFor(t) \in Seq(Command)
         /\ Reached(t) \in Nat /\ Reached(t) <= t /\ DumpOpen \in BOOLEAN
         /\ Good(OpenedFor(t), Reached(t), DumpOpen)
<1>1. Start \in Nat /\ ~PastEnd(Start) /\ FirstTime(t) \in Nat
      /\ Start <= FirstTime(t) /\ FirstTime(t) <= t /\ ~PastEnd(FirstTime(t))
  BY WindowOpen DEF Typed, FirstTime
<1>2. Opening(t) = Started(FirstTime(t)) /\ Reached(t) = StartedAt(FirstTime(t))
  BY DEF Opening, Started, Reached, StartedAt
<1>3. Reached(t) <= t
  BY <1>1 DEF Reached, Typed
<1> QED
  BY <1>1, <1>2, <1>3, StartsGood DEF OpenedFor

\* Advancing closes $dumpvars when time moves on.
LEMMA AdvanceGood ==
  ASSUME Typed, Good(out, current, initialOpen), NEW t \in Nat, Start <= t, ~PastEnd(t),
         current = NoTime \/ current <= t
  PROVE  /\ Advance(t) \in Seq(Command) /\ AdvancedTo(t) = Cat(OpenedFor(t), Advance(t))
         /\ AdvancedTo(t) \in Seq(Command)
         /\ Good(AdvancedTo(t), t, DumpOpen /\ Reached(t) = t)
<1> DEFINE s == OpenedFor(t)
           c == Reached(t)
           E == IF DumpOpen THEN <<EndCmd>> ELSE << >>
<1>1. s \in Seq(Command) /\ c \in Nat /\ c <= t /\ DumpOpen \in BOOLEAN /\ Good(s, c, DumpOpen)
  BY ChangeOpens
<1>2. CASE c = t
  <2>1. Advance(t) = << >> /\ AdvancedTo(t) = s /\ Cat(s, << >>) = s
    BY <1>1, <1>2, LastPart DEF Advance, AdvancedTo
  <2> QED
    BY <1>1, <1>2, <2>1
<1>3. CASE c # t
  <2>1. EndCmd \in Command /\ TimeCmd(t) \in Command
    BY CommandsTyped
  <2>2. /\ Advance(t) = Cat(E, <<TimeCmd(t)>>)
        /\ E \in Seq(Command) /\ <<TimeCmd(t)>> \in Seq(Command)
        /\ AdvancedTo(t) = Append(DumpEnded(s, DumpOpen), TimeCmd(t))
    BY <1>3, <2>1 DEF Advance, AdvancedTo, Cat
  <2>3. DumpEnded(s, DumpOpen) \in Seq(Command) /\ Good(DumpEnded(s, DumpOpen), c, FALSE)
    <3> HIDE DEF s, c
    <3> QED
      BY <1>1, EndsGood
  <2>4. c < t /\ InLimits(t)
    BY <1>1, <1>3 DEF InLimits
  <2>5. /\ AdvancedTo(t) \in Seq(Command)
        /\ Ordered(AdvancedTo(t)) /\ UpTo(AdvancedTo(t), t) /\ Dumped(AdvancedTo(t))
    <3> HIDE DEF s, c
    <3> QED
      BY <1>1, <2>2, <2>3, <2>4, TimeGood
  <2>6. DumpEnded(s, DumpOpen) = Cat(s, E)
    <3> HIDE DEF s
    <3> QED
      BY <1>1, <2>1, LastPart DEF DumpEnded
  <2>7. AdvancedTo(t) = Cat(Cat(s, E), <<TimeCmd(t)>>)
    BY <2>1, <2>2, <2>3, <2>6, LastPart
  <2>8. Advance(t) \in Seq(Command) /\ Cat(s, Advance(t)) = Cat(Cat(s, E), <<TimeCmd(t)>>)
    <3> HIDE DEF s, E
    <3>1. Cat(E, <<TimeCmd(t)>>) \in Seq(Command)
      BY <2>2, ConcatProperties DEF Cat
    <3>2. Cat(s, Cat(E, <<TimeCmd(t)>>)) = Cat(Cat(s, E), <<TimeCmd(t)>>)
      BY <1>1, <2>2, ConcatAssociative DEF Cat
    <3> QED
      BY <2>2, <3>1, <3>2
  <2> QED
    BY <1>3, <2>4, <2>5, <2>7, <2>8 DEF Good
<1> QED
  BY <1>2, <1>3

\* What a change adds to the output, in parts.
LEMMA ChangeInParts ==
  ASSUME Typed, Good(out, current, initialOpen), NEW x \in Item,
         x.handle \in Handles, Start <= x.time, ~PastEnd(x.time),
         current = NoTime \/ current <= x.time
  PROVE  /\ ChangeCommands(x) \in Seq(Command)
         /\ out \o ChangeCommands(x) = Append(AdvancedTo(x.time), ChangeCmd(x.handle, x.value))
<1> DEFINE t == x.time
           C == ChangeCmd(x.handle, x.value)
<1>1. t \in Nat /\ C \in Command
  BY CommandsTyped DEF Item
<1>2. out \in Output /\ Opening(t) \in Output /\ Advance(t) \in Output /\ <<C>> \in Output
      /\ AdvancedTo(t) \in Output /\ AdvancedTo(t) = Cat(OpenedFor(t), Advance(t))
  BY <1>1, ChangeOpens, AdvanceGood DEF Typed, Output
<1> HIDE DEF C
<1>3. ChangeCommands(x) = Cat(Cat(Opening(t), Advance(t)), <<C>>) /\ OpenedFor(t) = Cat(out, Opening(t))
  BY DEF ChangeCommands, OpenedFor, Cat, C
<1>4. /\ Cat(Cat(Opening(t), Advance(t)), <<C>>) \in Output
      /\ Cat(out, Cat(Cat(Opening(t), Advance(t)), <<C>>)) = Cat(AdvancedTo(t), <<C>>)
  BY <1>2, <1>3, InParts
<1>5. Cat(AdvancedTo(t), <<C>>) = Append(AdvancedTo(t), C)
  BY <1>1, <1>2, LastPart DEF Output
<1>6. out \o ChangeCommands(x) = Cat(out, ChangeCommands(x))
  BY DEF Cat
<1> QED
  BY <1>3, <1>4, <1>5, <1>6 DEF C, Output

\* What a change makes of the output.
LEMMA ChangeGood ==
  ASSUME Typed, Good(out, current, initialOpen), NEW x \in Item,
         x.handle \in Selected, Start <= x.time, ~PastEnd(x.time),
         current = NoTime \/ current <= x.time,
         Handles \subseteq Nat \ {0}, Selected \subseteq Handles
  PROVE  /\ ChangeCommands(x) \in Seq(Command)
         /\ out \o ChangeCommands(x) \in Seq(Command)
         /\ Good(out \o ChangeCommands(x), x.time, DumpOpen /\ Reached(x.time) = x.time)
<1> DEFINE t == x.time
           C == ChangeCmd(x.handle, x.value)
           s == AdvancedTo(t)
           o == DumpOpen /\ Reached(t) = t
<1>1. t \in Nat /\ C \in Command /\ C.op = "change"
  BY CommandsTyped DEF Item, ChangeCmd
<1>2. /\ ChangeCommands(x) \in Seq(Command)
      /\ out \o ChangeCommands(x) = Append(s, C)
  BY ChangeInParts
<1>3. s \in Seq(Command) /\ Good(s, t, o) /\ o \in BOOLEAN
  BY <1>1, ChangeOpens, AdvanceGood
<1> HIDE DEF s, C, o
<1>4. t # NoTime /\ Ordered(s) /\ UpTo(s, t)
  BY <1>1, <1>3 DEF Good, NoTime
<1>5. Ordered(Append(s, C)) /\ UpTo(Append(s, C), t)
  BY <1>1, <1>3, <1>4, OthersKeepOrder
<1>6. IF o THEN Opened(Append(s, C)) ELSE Dumped(Append(s, C))
  BY <1>1, <1>3, <1>4, DumpState DEF Good
<1>7. Append(s, C) \in Seq(Command)
  BY <1>1, <1>3
<1> QED
  BY <1>1, <1>2, <1>5, <1>6, <1>7 DEF Good, o

\* What the end adds, in parts.
EndedOut == DumpEnded(out \o Started(Start), DumpOpen)
ClosedOut == IF StartedAt(Start) < LastTime THEN Append(EndedOut, TimeCmd(LastTime)) ELSE EndedOut

LEMMA CloseInParts ==
  ASSUME Typed, Good(out, current, initialOpen)
  PROVE  /\ Closing \in Seq(Command) /\ out \o Closing = ClosedOut
         /\ Start <= StartedAt(Start) /\ StartedAt(Start) \in Nat /\ LastTime \in Nat
         /\ EndedOut \in Seq(Command) /\ Good(EndedOut, StartedAt(Start), FALSE)
<1> DEFINE O == Started(Start)
           c == StartedAt(Start)
           E == IF DumpOpen THEN <<EndCmd>> ELSE << >>
           L == IF c < LastTime THEN <<TimeCmd(LastTime)>> ELSE << >>
           s == out \o O
<1>1. Start \in Nat /\ End \in Nat \cup {NoEnd} /\ ~PastEnd(Start) /\ Start <= Start
  BY WindowOpen DEF Typed
<1>2. /\ O \in Seq(Command) /\ c \in Nat /\ DumpOpen \in BOOLEAN
      /\ s \in Seq(Command) /\ Good(s, c, DumpOpen)
  BY <1>1, StartsGood
<1>3. EndedOut \in Seq(Command) /\ Good(EndedOut, c, FALSE)
  <2> HIDE DEF s, c
  <2>1. EndedOut = DumpEnded(s, DumpOpen)
    BY DEF EndedOut, s
  <2> QED
    BY <1>2, <2>1, EndsGood
<1>4. Start <= c
  <2> HIDE DEF c
  <2> QED
    BY <1>2, <1>3 DEF Good, NoTime
<1>5. LastTime \in Nat
  BY <1>1 DEF LastTime, Later, Typed, NoEnd
<1>6. EndCmd \in Command /\ TimeCmd(LastTime) \in Command
  BY <1>5, CommandsTyped
<1>7. E \in Seq(Command) /\ L \in Seq(Command)
  BY <1>6
<1>8. EndedOut = Cat(Cat(out, O), E)
  <2>1. Cat(out, O) = s /\ EndedOut = DumpEnded(s, DumpOpen)
    BY DEF Cat, EndedOut
  <2> HIDE DEF s
  <2> QED
    BY <1>2, <1>6, <2>1, LastPart DEF DumpEnded
<1>9. ClosedOut = Cat(EndedOut, L)
  BY <1>3, <1>6, LastPart DEF ClosedOut
<1>10. Closing = Cat(Cat(O, E), L) /\ out \o Closing = Cat(out, Closing)
  BY DEF Closing, Started, StartedAt, Cat
<1> HIDE DEF O, E, L
<1>11. out \in Output /\ O \in Output /\ E \in Output /\ L \in Output
  BY <1>2, <1>7 DEF Typed, Output
<1>12. /\ Cat(Cat(O, E), L) \in Output
       /\ Cat(out, Cat(Cat(O, E), L)) = Cat(Cat(Cat(out, O), E), L)
  BY <1>11, InParts
<1> QED
  BY <1>2, <1>3, <1>4, <1>5, <1>8, <1>9, <1>10, <1>12 DEF Output

\* The end completes the output.
LEMMA CloseGood ==
  ASSUME Typed, Good(out, current, initialOpen)
  PROVE  /\ Closing \in Seq(Command) /\ out \o Closing \in Seq(Command)
         /\ Ordered(out \o Closing) /\ Dumped(out \o Closing)
<1> DEFINE c == StartedAt(Start)
<1>1. /\ Closing \in Seq(Command) /\ out \o Closing = ClosedOut
      /\ Start <= c /\ c \in Nat /\ LastTime \in Nat
      /\ EndedOut \in Seq(Command) /\ Good(EndedOut, c, FALSE)
  BY CloseInParts
<1> HIDE DEF c
<1>2. CASE c < LastTime
  <2>1. InLimits(LastTime)
    <3>1. Start \in Nat /\ End \in Nat \cup {NoEnd} /\ finalTime \in Nat
      BY WindowOpen DEF Typed
    <3> QED
      BY <1>1, <1>2, <3>1 DEF LastTime, Later, InLimits, PastEnd, NoEnd
  <2>2. ClosedOut = Append(EndedOut, TimeCmd(LastTime))
    BY <1>2 DEF ClosedOut, c
  <2> QED
    BY <1>1, <1>2, <2>1, <2>2, TimeGood
<1>3. CASE ~(c < LastTime)
  <2>1. ClosedOut = EndedOut
    BY <1>3 DEF ClosedOut, c
  <2> QED
    BY <1>1, <2>1 DEF Good, NoTime
<1> QED
  BY <1>2, <1>3

\* A first part of an ordered output is ordered.
LEMMA PartOrdered ==
  ASSUME NEW s \in Seq(Command), NEW d \in Seq(Command), Ordered(s \o d), NEW n \in 0..Len(d)
  PROVE  s \o SubSeq(d, 1, n) \in Seq(Command) /\ Ordered(s \o SubSeq(d, 1, n))
<1> DEFINE p == SubSeq(d, 1, n)
           a == s \o p
           b == s \o d
<1>1. p \in Seq(Command) /\ Len(p) = n /\ \A i \in 1..n : p[i] = d[i]
  BY SubSeqProperties
<1>2. /\ a \in Seq(Command) /\ Len(a) = Len(s) + n
      /\ \A i \in 1..Len(s) : a[i] = s[i]
      /\ \A i \in 1..n : a[Len(s) + i] = d[i]
  <2> HIDE DEF p
  <2>1. /\ a \in Seq(Command) /\ Len(a) = Len(s) + Len(p)
        /\ \A i \in 1..Len(s) + Len(p) : a[i] = IF i <= Len(s) THEN s[i] ELSE p[i - Len(s)]
    BY <1>1, ConcatProperties
  <2>2. \A i \in 1..n : a[Len(s) + i] = p[i]
    <3> TAKE i \in 1..n
    <3>1. Len(s) \in Nat /\ n \in Nat
      OBVIOUS
    <3> HIDE DEF a
    <3>2. Len(s) + i \in 1..Len(s) + Len(p) /\ ~(Len(s) + i <= Len(s)) /\ Len(s) + i - Len(s) = i
      BY <1>1, <3>1
    <3> QED
      BY <2>1, <3>2
  <2>3. \A i \in 1..Len(s) : a[i] = s[i]
    <3>1. Len(s) \in Nat /\ n \in Nat
      OBVIOUS
    <3> HIDE DEF a
    <3> QED
      BY <1>1, <2>1, <3>1
  <2> QED
    BY <1>1, <2>1, <2>2, <2>3
<1>3. /\ Len(b) = Len(s) + Len(d)
      /\ \A i \in 1..Len(s) : b[i] = s[i]
      /\ \A i \in 1..Len(d) : b[Len(s) + i] = d[i]
      /\ b \in Seq(Command)
  BY ConcatProperties
<1>4. Len(s) \in Nat /\ Len(d) \in Nat /\ n \in Nat /\ n <= Len(d)
  OBVIOUS
<1> HIDE DEF p, a, b
<1>5. DOMAIN a = 1..Len(s) + n /\ DOMAIN b = 1..Len(s) + Len(d)
  BY <1>2, <1>3, LenProperties
<1>6. \A i \in DOMAIN a : i \in DOMAIN b /\ a[i] = b[i]
  <2> TAKE i \in DOMAIN a
  <2>1. CASE i <= Len(s)
    BY <2>1, <1>2, <1>3, <1>4, <1>5
  <2>2. CASE ~(i <= Len(s))
    <3>1. i - Len(s) \in 1..n /\ i - Len(s) \in 1..Len(d) /\ i = Len(s) + (i - Len(s))
      BY <2>2, <1>4, <1>5
    <3>2. a[Len(s) + (i - Len(s))] = d[i - Len(s)] /\ b[Len(s) + (i - Len(s))] = d[i - Len(s)]
      BY <3>1, <1>2, <1>3
    <3> QED
      BY <3>1, <3>2, <1>4, <1>5
  <2> QED
    BY <2>1, <2>2
<1>7. Ordered(a)
  <2> SUFFICES ASSUME NEW i \in DOMAIN a, a[i].op = "time"
               PROVE  /\ Start <= a[i].time /\ (PastEnd(a[i].time) => Fst /\ a[i].time = 1)
                      /\ \A m \in 1..(i - 1) : a[m].op = "time" => a[m].time < a[i].time
    BY DEF Ordered
  <2>1. i \in DOMAIN b /\ a[i] = b[i] /\ \A m \in 1..(i - 1) : a[m] = b[m]
    BY <1>4, <1>5, <1>6
  <2> QED
    BY <2>1 DEF Ordered, b
<1> QED
  BY <1>2, <1>7 DEF a, p

-------------------------------------------------------------------------------
(* The invariant. *)

LEMMA NextItem ==
  ASSUME Typed, HasNext
  PROVE  Next1 \in Item /\ Next1.time \in Nat /\ pos + 1 \in Nat
<1>1. pos + 1 \in 1..Len(items)
  BY DEF Typed, HasNext
<1>2. Next1 \in Item
  BY <1>1 DEF Typed, Next1
<1> QED
  BY <1>1, <1>2 DEF Item

LEMMA GoodIsOrdered ==
  ASSUME NEW s \in Seq(Command), NEW c, NEW open, Good(s, c, open)
  PROVE  Ordered(s)
  BY DEF Good, Ordered

\* What is said of the next state with the window of this one.
LEMMA SameWindow ==
  ASSUME UNCHANGED setting, Typed',
         pc' # "returned" => Good(out', current', initialOpen') /\ result' = "none",
         pc' = "returned" => Ordered(out') /\ (result' = "ok" => Dumped(out'))
  PROVE  IInv'
<1>1. (pc # "returned" => Good(out, current, initialOpen) /\ result = "none")'
  BY DEF Good, Ordered, UpTo, Opened, Dumped, Start, End, PastEnd, Fst
<1>2. (pc = "returned" => TimesIncrease)'
  BY DEF TimesIncrease, Ordered, Dumped, Start, End, PastEnd, Fst
<1> QED
  BY <1>1, <1>2 DEF IInv

LEMMA InitInv == ExportAssumption /\ Init => IInv
<1> SUFFICES ASSUME ExportAssumption, Init
             PROVE  IInv
  OBVIOUS
<1>1. items \in Seq(Item) /\ setting \in Setting
  BY DEF Init, ExportAssumption
<1>2. << >> \in Initials
  <2>1. << >> \in [{} -> Values \cup {NoValue}]
    OBVIOUS
  <2> QED
    BY <2>1 DEF Initials
<1>3. Typed
  <2>1. Start \in Nat /\ << >> \in Seq(Command)
    BY <1>1, WindowOpen
  <2>2. /\ pos = 0 /\ now = 0 /\ initial = << >> /\ current = NoTime /\ initialOpen = FALSE
        /\ finalTime = Start /\ out = << >> /\ pc = "read"
    BY DEF Init
  <2> QED
    BY <1>1, <1>2, <2>1, <2>2 DEF Typed
<1>4. Good(out, current, initialOpen)
  BY DEF Init, Good
<1> QED
  BY <1>3, <1>4 DEF Init, IInv

LEMMA StepInv == ExportAssumption /\ IInv /\ [Next]_vars => IInv'
<1> SUFFICES ASSUME ExportAssumption, IInv, [Next]_vars
             PROVE  IInv'
  OBVIOUS
<1> USE DEF IInv
<1>0. Handles \subseteq Nat \ {0} /\ Selected \subseteq Handles
  BY DEF ExportAssumption
<1>1. Start \in Nat /\ End \in Nat \cup {NoEnd} /\ ~PastEnd(Start)
  BY WindowOpen DEF Typed
\* Steps that write nothing and leave the window as it is.
<1>2. ASSUME Typed', UNCHANGED <<source, current, initialOpen, out, result>>,
             pc # "returned", pc' # "returned"
      PROVE  IInv'
  BY <1>2, SameWindow DEF source
<1>3. CASE BareTime
  <2>1. now' \in Nat /\ finalTime' \in Nat /\ pos' \in Nat
    BY <1>1, <1>3, NextItem DEF BareTime, Pass, Later, Clamped, PastEnd, NoEnd, Typed
  <2> QED
    BY <1>2, <1>3, <2>1 DEF BareTime, Pass, source, Typed
<1>4. CASE NotSelected
  <2>1. now' \in Nat /\ finalTime' \in Nat /\ pos' \in Nat
    BY <1>4, NextItem DEF NotSelected, Pass, Typed
  <2> QED
    BY <1>2, <1>4, <2>1 DEF NotSelected, Pass, source, Typed
<1>5. CASE SkipPastEnd
  <2>1. pos' \in Nat
    BY <1>5, NextItem DEF SkipPastEnd, Pass
  <2> QED
    BY <1>2, <1>5, <2>1 DEF SkipPastEnd, Pass, source, Typed
<1>6. CASE StopPastEnd
  <2>1. now' \in Nat
    BY <1>6, NextItem DEF StopPastEnd
  <2> QED
    BY <1>2, <1>6, <2>1 DEF StopPastEnd, source, Typed
<1>7. CASE Remember
  <2>1. Next1 \in Item /\ Next1.time \in Nat /\ pos + 1 \in Nat /\ Next1.handle \in Selected
        /\ Next1.value \in Values \cup {NoValue}
    BY <1>7, NextItem DEF Remember, Emitted, Item
  <2>2. initial' \in Initials
    <3>1. PICK S \in SUBSET Selected : initial \in [S -> Values \cup {NoValue}]
      BY DEF Typed, Initials
    <3>2. initial' \in [S \cup {Next1.handle} -> Values \cup {NoValue}]
      BY <1>7, <2>1, <3>1 DEF Remember
    <3> QED
      BY <2>1, <3>1, <3>2 DEF Initials
  <2>3. finalTime' \in Nat
    BY <1>7, <2>1 DEF Remember, Later, Typed
  <2> QED
    BY <1>2, <1>7, <2>1, <2>2, <2>3 DEF Remember, Emitted, source, Typed
<1>8. CASE WriteChange
  <2> DEFINE x == Next1
             open == DumpOpen /\ Reached(x.time) = x.time
  <2>1. /\ x \in Item /\ x.time \in Nat /\ pos + 1 \in Nat /\ x.handle \in Selected
        /\ Start <= x.time /\ ~PastEnd(x.time)
        /\ current = NoTime \/ current <= x.time
    BY <1>1, <1>8, NextItem DEF WriteChange, Emitted, Decreases, Typed
  <2>2. pc = "read" /\ pc' = "read" /\ result' = "none" /\ Good(out, current, initialOpen)
    BY <1>8 DEF WriteChange, Emitted
  <2>3. out \o ChangeCommands(x) \in Seq(Command) /\ Good(out \o ChangeCommands(x), x.time, open)
    <3> HIDE DEF x, IInv
    <3> QED
      BY <1>0, <2>1, <2>2, ChangeGood DEF IInv
  <2>4. out' = out \o ChangeCommands(x) /\ current' = x.time /\ initialOpen' = open
    BY <1>8 DEF WriteChange
  <2>5. open \in BOOLEAN
    BY <2>1 DEF DumpOpen, Typed
  <2>6. initial' \in Initials
    <3>1. << >> \in [{} -> Values \cup {NoValue}]
      OBVIOUS
    <3> QED
      BY <1>8, <3>1 DEF WriteChange, Initials, Typed
  <2>7. now' \in Nat /\ finalTime' \in Nat /\ pos' \in Nat
    BY <1>8, <2>1 DEF WriteChange, Later, Typed
  <2>8. UNCHANGED <<items, setting>>
    BY <1>8 DEF WriteChange, source
  <2> HIDE DEF open, x
  <2>9. Typed'
    BY <2>1, <2>2, <2>3, <2>4, <2>5, <2>6, <2>7, <2>8 DEF Typed
  <2> QED
    BY <2>2, <2>3, <2>4, <2>8, <2>9, SameWindow
<1>9. CASE RejectDecrease
  <2>1. Typed' /\ UNCHANGED <<setting, out>> /\ pc' = "returned" /\ result' = "error"
    BY <1>9 DEF RejectDecrease, source, Typed
  <2>2. Ordered(out)
    BY <1>9, GoodIsOrdered DEF RejectDecrease, Emitted, Typed
  <2> QED
    BY <2>1, <2>2, SameWindow
<1>10. CASE EndOfItems
  BY <1>2, <1>10 DEF EndOfItems, source, Typed
<1>11. CASE FinalTime
  <2>1. finalTime' \in Nat
    BY <1>1, <1>11 DEF FinalTime, FinalEmit, Later, Clamped, PastEnd, NoEnd, Typed
  <2> QED
    BY <1>2, <1>11, <2>1 DEF FinalTime, source, Typed
<1>12. CASE Finish
  <2>1. pc = "finish" /\ Good(out, current, initialOpen)
    BY <1>12 DEF Finish
  <2>2. /\ out \o Closing \in Seq(Command)
        /\ Ordered(out \o Closing) /\ Dumped(out \o Closing)
    BY <2>1, CloseGood
  <2>3. Typed' /\ UNCHANGED setting /\ out' = out \o Closing /\ pc' = "returned"
    BY <1>12, <2>2 DEF Finish, source, Typed
  <2> QED
    BY <2>2, <2>3, SameWindow
<1>13. CASE Fail
  <2> DEFINE due == IF pc = "finish" THEN Closing
                    ELSE IF Emitted /\ Next1.time >= Start /\ ~Decreases THEN ChangeCommands(Next1)
                    ELSE << >>
  <2>1. Good(out, current, initialOpen) /\ out \in Seq(Command)
    BY <1>13 DEF Fail, Typed
  <2>2. due \in Seq(Command) /\ Ordered(out \o due)
    <3>1. CASE pc = "finish"
      BY <2>1, <3>1, CloseGood
    <3>2. CASE pc # "finish" /\ Emitted /\ Next1.time >= Start /\ ~Decreases
      <4>1. /\ Next1 \in Item /\ Next1.time \in Nat /\ Next1.handle \in Selected
            /\ Start <= Next1.time /\ ~PastEnd(Next1.time)
            /\ current = NoTime \/ current <= Next1.time
        BY <1>1, <3>2, NextItem DEF Emitted, Decreases, Typed
      <4>2. /\ ChangeCommands(Next1) \in Seq(Command)
            /\ out \o ChangeCommands(Next1) \in Seq(Command)
            /\ Good(out \o ChangeCommands(Next1), Next1.time, DumpOpen /\ Reached(Next1.time) = Next1.time)
        <5> HIDE DEF IInv
        <5> QED
          BY <1>0, <2>1, <4>1, ChangeGood DEF IInv
      <4>3. Ordered(out \o ChangeCommands(Next1))
        BY <4>2, GoodIsOrdered
      <4> QED
        BY <3>2, <4>2, <4>3
    <3>3. CASE pc # "finish" /\ ~(Emitted /\ Next1.time >= Start /\ ~Decreases)
      <4>1. due = << >> /\ << >> \in Seq(Command) /\ out \o << >> = out
        BY <2>1, <3>3
      <4> QED
        BY <2>1, <4>1, GoodIsOrdered
    <3> QED
      BY <3>1, <3>2, <3>3
  <2>3. /\ \E n \in 0..Len(due) : out' = out \o SubSeq(due, 1, n)
        /\ pc' = "returned" /\ result' = "error"
        /\ UNCHANGED <<source, pos, now, initial, current, initialOpen, finalTime>>
    BY <1>13 DEF Fail
  <2> HIDE DEF due
  <2>4. out' \in Seq(Command) /\ Ordered(out')
    BY <2>1, <2>2, <2>3, PartOrdered
  <2>5. Typed'
    BY <2>3, <2>4 DEF Typed, source
  <2> QED
    BY <2>3, <2>4, <2>5, SameWindow DEF source
<1>14. CASE Done \/ UNCHANGED vars
  <2>1. UNCHANGED <<items, setting, pos, now, initial, current, initialOpen, finalTime, out, pc, result>>
    BY <1>14 DEF Done, vars, source
  <2>2. Typed'
    BY <2>1 DEF Typed
  <2>3. pc = "returned" => Ordered(out) /\ (result = "ok" => Dumped(out))
    BY DEF TimesIncrease
  <2> QED
    BY <2>1, <2>2, <2>3, SameWindow
<1> QED
  BY <1>3, <1>4, <1>5, <1>6, <1>7, <1>8, <1>9, <1>10, <1>11, <1>12, <1>13, <1>14 DEF Next

\* Whatever the sources hold and wherever writing fails, the timestamps of an exported
\* file increase and stay in the window, and a finished file has one $dumpvars section
\* at its first timestamp.
THEOREM TimestampsIncrease == Spec => []TimesIncrease
<1>1. Init => IInv
  BY InitInv, ExportAssumption
<1>2. IInv /\ [Next]_vars => IInv'
  BY StepInv, ExportAssumption
<1>3. IInv => TimesIncrease
  <2> SUFFICES ASSUME IInv PROVE TimesIncrease
    OBVIOUS
  <2> QED
    BY GoodIsOrdered DEF IInv, TimesIncrease, Typed
<1> QED
  BY <1>1, <1>2, <1>3, PTL DEF Spec

-------------------------------------------------------------------------------
(* The values of the output. *)

\* The time of command n of s, once it is shown to have one.
TimeIn(s, n) == s[CHOOSE m \in 1..n : s[m].op = "time" /\ \A i \in (m + 1)..n : s[i].op # "time"].time

TimeIs(s, n, t) ==
  \E m \in 1..n : s[m].op = "time" /\ s[m].time = t /\ \A i \in (m + 1)..n : s[i].op # "time"

\* Every command of s has a time.
Clocked(s) == \A n \in DOMAIN s : \E t : TimeIs(s, n, t)

\* Command c gives signal h a value, and which.
Gives(c, h) == (c.op = "change" /\ c.handle = h) \/ (c.op = "dump" /\ h \in DOMAIN c.dump)
Given(c, h) == IF c.op = "dump" THEN c.dump[h] ELSE c.value

\* The commands of s, and the first p items, that give h a value at time t or before.
GivenBy(s, h, t) == {n \in DOMAIN s : Gives(s[n], h) /\ TimeIn(s, n) <= t}
HeldBy(p, h, t) == {n \in 1..p : items[n].handle = h /\ items[n].time <= t}

\* v is the last of the values of h, if there is one.
IsShown(s, h, t, v) ==
  IF GivenBy(s, h, t) = {} THEN v = NoValue
  ELSE \E n \in GivenBy(s, h, t) : Given(s[n], h) = v /\ \A m \in GivenBy(s, h, t) : m <= n

IsHeld(p, h, t, v) ==
  IF HeldBy(p, h, t) = {} THEN v = NoValue
  ELSE \E n \in HeldBy(p, h, t) : items[n].value = v /\ \A m \in HeldBy(p, h, t) : m <= n

InWindow(t) == Start <= t /\ ~PastEnd(t)

\* The output s has reached time c and shows the first p items.
Shown(s, c, p) ==
  /\ s # << >> /\ Clocked(s) /\ TimeIs(s, Len(s), c)
  /\ \A h \in Selected, t \in Nat :
       InWindow(t) => \E v : IsShown(s, h, t, v) /\ IsHeld(p, h, t, v)

\* The values init are those of the first p items, which are all before the window.
Known(init, p) ==
  \A h \in Selected, t \in Nat :
    InWindow(t) => IsHeld(p, h, t, IF h \in DOMAIN init THEN init[h] ELSE NoValue)

\* Before the first command the values before Start are known; then the output shows
\* what was read, and the time reached is that of an item.
Written(s, c, init, p) ==
  IF c = NoTime THEN Known(init, p)
  ELSE Shown(s, c, p) /\ \E n \in 1..p : items[n].time = c

\* All items after the first p are past the window.
Exhausted(p) == \A n \in DOMAIN items : p < n => PastEnd(items[n].time)

\* The time of the last of the first p items.
TimeAfter(p) == Later(Start, IF p = 0 THEN 0 ELSE items[p].time)

\* Where the output must end.
TrueEnd ==
  LET last == IF End # NoEnd THEN End ELSE TimeAfter(Len(items))
  IN  IF Fst THEN Later(1, last) ELSE last

\* What final_time and current_time know of the times read, without End.
TimesKept ==
  /\ current <= finalTime /\ Start <= finalTime /\ finalTime <= TimeAfter(pos)
  /\ LoneVcd => now = IF pos = 0 THEN 0 ELSE items[pos].time
  /\ ~LoneVcd /\ pos # 0 /\ items[pos].handle = NoHandle => finalTime = TimeAfter(pos)
  /\ pc # "read" => pos = Len(items)
  /\ pc = "finish" => finalTime = TimeAfter(pos)

Reading ==
  /\ pos <= Len(items) /\ Written(out, current, initial, pos)
  /\ pc # "read" => Exhausted(pos)
  /\ End = NoEnd => TimesKept

FInv ==
  /\ ~LoneVcd => items # << >> /\ items[Len(items)].handle = NoHandle
  /\ Monotone => /\ pc # "returned" => Reading
                 /\ result = "ok" => Shown(out, TrueEnd, Len(items))

-------------------------------------------------------------------------------
(* One command more. *)

\* The time of a command is unique.
LEMMA TimeUnique ==
  ASSUME NEW s, NEW n \in Nat, NEW t, TimeIs(s, n, t)
  PROVE  TimeIn(s, n) = t
<1> DEFINE P(m) == s[m].op = "time" /\ \A i \in (m + 1)..n : s[i].op # "time"
<1>1. PICK m \in 1..n : P(m) /\ s[m].time = t
  BY DEF TimeIs
<1>2. \A k \in 1..n : P(k) => k = m
  <2> SUFFICES ASSUME NEW k \in 1..n, P(k), k # m
               PROVE  FALSE
    OBVIOUS
  <2>1. k < m \/ m < k
    OBVIOUS
  <2>2. m \in (k + 1)..n \/ k \in (m + 1)..n
    BY <2>1
  <2> QED
    BY <1>1, <2>2
<1>3. (CHOOSE k \in 1..n : P(k)) = m
  BY <1>1, <1>2
<1> QED
  BY <1>1, <1>3 DEF TimeIn

\* What a command appended to s leaves alone, and what it gives.
LEMMA Appended ==
  ASSUME NEW s \in Seq(Command), NEW c \in Command
  PROVE  LET a == Append(s, c)
         IN  /\ a \in Seq(Command) /\ a # << >>
             /\ Len(s) \in Nat /\ Len(a) = Len(s) + 1
             /\ DOMAIN s = 1..Len(s) /\ DOMAIN a = 1..(Len(s) + 1)
             /\ \A n \in 1..Len(s) : a[n] = s[n]
             /\ a[Len(s) + 1] = c
  OBVIOUS

\* Earlier commands keep their time; the new one has its own, or the time reached.
LEMMA TimesAppended ==
  ASSUME NEW s \in Seq(Command), NEW c \in Command
  PROVE  LET a == Append(s, c)
         IN  /\ \A n \in DOMAIN s : \A t : TimeIs(s, n, t) => TimeIs(a, n, t)
             /\ c.op = "time" => TimeIs(a, Len(a), c.time)
             /\ c.op # "time" => \A t : TimeIs(s, Len(s), t) => TimeIs(a, Len(a), t)
             /\ Clocked(s) /\ (c.op = "time" \/ s # << >>) => Clocked(a)
<1> DEFINE a == Append(s, c)
<1>1. /\ Len(s) \in Nat /\ Len(a) = Len(s) + 1
      /\ DOMAIN s = 1..Len(s) /\ DOMAIN a = 1..(Len(s) + 1)
      /\ \A n \in 1..Len(s) : a[n] = s[n]
      /\ a[Len(s) + 1] = c
  BY Appended
<1>2. s = << >> <=> Len(s) = 0
  OBVIOUS
<1> HIDE DEF a
<1>3. \A n \in DOMAIN s : \A t : TimeIs(s, n, t) => TimeIs(a, n, t)
  BY <1>1 DEF TimeIs
<1>4. c.op = "time" => TimeIs(a, Len(a), c.time)
  BY <1>1 DEF TimeIs
<1>5. ASSUME c.op # "time", NEW t, TimeIs(s, Len(s), t)
      PROVE  TimeIs(a, Len(a), t)
  <2>1. PICK m \in 1..Len(s) : s[m].op = "time" /\ s[m].time = t
                              /\ \A i \in (m + 1)..Len(s) : s[i].op # "time"
    BY <1>5 DEF TimeIs
  <2>2. m \in 1..Len(a) /\ a[m] = s[m]
    BY <1>1
  <2>3. \A i \in (m + 1)..Len(a) : a[i].op # "time"
    <3> TAKE i \in (m + 1)..Len(a)
    <3>1. CASE i = Len(s) + 1
      BY <3>1, <1>1, <1>5
    <3>2. CASE i # Len(s) + 1
      <4>1. i \in (m + 1)..Len(s) /\ i \in 1..Len(s)
        BY <3>2, <1>1
      <4> QED
        BY <4>1, <1>1, <2>1
    <3> QED
      BY <3>1, <3>2
  <2> QED
    BY <2>1, <2>2, <2>3 DEF TimeIs
<1>6. ASSUME Clocked(s), c.op = "time" \/ s # << >>
      PROVE  Clocked(a)
  <2>1. \A n \in DOMAIN s : \E t : TimeIs(a, n, t)
    BY <1>3, <1>6 DEF Clocked
  <2>2. \E t : TimeIs(a, Len(a), t)
    <3>1. CASE c.op = "time"
      BY <3>1, <1>4
    <3>2. CASE c.op # "time"
      <4>1. Len(s) \in DOMAIN s
        BY <3>2, <1>1, <1>2, <1>6
      <4> QED
        BY <3>2, <4>1, <1>5, <1>6 DEF Clocked
    <3> QED
      BY <3>1, <3>2
  <2> QED
    BY <1>1, <2>1, <2>2 DEF Clocked
<1> QED
  BY <1>3, <1>4, <1>5, <1>6 DEF a

\* What the output gives grows by the new command, if that gives something.
LEMMA GivenAppended ==
  ASSUME NEW s \in Seq(Command), NEW c \in Command, Clocked(s), NEW h, NEW t
  PROVE  LET a == Append(s, c)
         IN  GivenBy(a, h, t) =
               GivenBy(s, h, t) \cup {n \in {Len(a)} : Gives(c, h) /\ TimeIn(a, n) <= t}
<1> DEFINE a == Append(s, c)
<1>1. /\ Len(s) \in Nat /\ Len(a) = Len(s) + 1
      /\ DOMAIN s = 1..Len(s) /\ DOMAIN a = 1..(Len(s) + 1)
      /\ \A n \in 1..Len(s) : a[n] = s[n]
      /\ a[Len(s) + 1] = c
  BY Appended
<1>2. \A n \in DOMAIN s : \A u : TimeIs(s, n, u) => TimeIs(a, n, u)
  BY TimesAppended
<1>3. \A n \in DOMAIN s : TimeIn(a, n) = TimeIn(s, n)
  <2> TAKE n \in DOMAIN s
  <2>1. n \in Nat
    BY <1>1
  <2>2. PICK u : TimeIs(s, n, u)
    BY DEF Clocked
  <2>3. TimeIs(a, n, u)
    BY <1>2, <2>2
  <2>4. TimeIn(s, n) = u
    BY <2>1, <2>2, TimeUnique
  <2> HIDE DEF a
  <2>5. TimeIn(a, n) = u
    BY <2>1, <2>3, TimeUnique
  <2> QED
    BY <2>4, <2>5
<1> HIDE DEF a
<1>4. GivenBy(a, h, t) = GivenBy(s, h, t) \cup {n \in {Len(a)} : Gives(c, h) /\ TimeIn(a, n) <= t}
  <2> DEFINE new == {n \in {Len(a)} : Gives(c, h) /\ TimeIn(a, n) <= t}
  <2>1. ASSUME NEW n \in GivenBy(a, h, t)
        PROVE  n \in GivenBy(s, h, t) \cup new
    <3>1. n \in DOMAIN a /\ Gives(a[n], h) /\ TimeIn(a, n) <= t
      BY DEF GivenBy
    <3>2. CASE n = Len(a)
      BY <3>1, <3>2, <1>1
    <3>3. CASE n # Len(a)
      <4>1. n \in DOMAIN s /\ a[n] = s[n]
        BY <3>1, <3>3, <1>1
      <4> QED
        BY <3>1, <4>1, <1>3 DEF GivenBy
    <3> QED
      BY <3>2, <3>3
  <2>2. ASSUME NEW n \in GivenBy(s, h, t)
        PROVE  n \in GivenBy(a, h, t)
    <3>1. n \in DOMAIN s /\ Gives(s[n], h) /\ TimeIn(s, n) <= t
      BY DEF GivenBy
    <3>2. n \in DOMAIN a /\ a[n] = s[n] /\ TimeIn(a, n) = TimeIn(s, n)
      BY <3>1, <1>1, <1>3
    <3> QED
      BY <3>1, <3>2 DEF GivenBy
  <2>3. ASSUME NEW n \in new
        PROVE  n \in GivenBy(a, h, t)
    <3>1. n = Len(a) /\ Gives(c, h) /\ TimeIn(a, n) <= t
      OBVIOUS
    <3>2. n \in DOMAIN a /\ a[n] = c
      BY <3>1, <1>1
    <3> QED
      BY <3>1, <3>2 DEF GivenBy
  <2> HIDE DEF new
  <2>4. GivenBy(a, h, t) \subseteq GivenBy(s, h, t) \cup new
    BY <2>1
  <2>5. GivenBy(s, h, t) \cup new \subseteq GivenBy(a, h, t)
    BY <2>2, <2>3
  <2> QED
    BY <2>4, <2>5 DEF new
<1> QED
  BY <1>4 DEF a

\* A command that gives h nothing at t or before leaves its value at t alone.
LEMMA KeepsValue ==
  ASSUME NEW s \in Seq(Command), NEW c \in Command, Clocked(s), NEW h, NEW t, NEW v,
         ~(Gives(c, h) /\ TimeIn(Append(s, c), Len(s) + 1) <= t), IsShown(s, h, t, v)
  PROVE  IsShown(Append(s, c), h, t, v)
<1> DEFINE a == Append(s, c)
<1>1. Len(a) = Len(s) + 1 /\ DOMAIN s = 1..Len(s) /\ \A n \in 1..Len(s) : a[n] = s[n]
  BY Appended
<1>2. GivenBy(a, h, t) = GivenBy(s, h, t)
  <2>1. GivenBy(a, h, t) =
          GivenBy(s, h, t) \cup {n \in {Len(a)} : Gives(c, h) /\ TimeIn(a, n) <= t}
    BY GivenAppended
  <2>2. ~(Gives(c, h) /\ TimeIn(a, Len(a)) <= t)
    BY <1>1
  <2> HIDE DEF a
  <2> QED
    BY <2>1, <2>2
<1>3. \A n \in GivenBy(s, h, t) : a[n] = s[n]
  BY <1>1 DEF GivenBy
<1> HIDE DEF a
<1>4. IsShown(a, h, t, v)
  BY <1>2, <1>3 DEF IsShown
<1> QED
  BY <1>4 DEF a

\* One that gives h a value at t or before is the last to do so.
LEMMA SetsValue ==
  ASSUME NEW s \in Seq(Command), NEW c \in Command, Clocked(s), NEW h, NEW t,
         Gives(c, h), TimeIn(Append(s, c), Len(s) + 1) <= t
  PROVE  IsShown(Append(s, c), h, t, Given(c, h))
<1> DEFINE a == Append(s, c)
<1>1. /\ Len(s) \in Nat /\ Len(a) = Len(s) + 1 /\ DOMAIN s = 1..Len(s) /\ a[Len(s) + 1] = c
  BY Appended
<1>2. GivenBy(a, h, t) = GivenBy(s, h, t) \cup {Len(s) + 1}
  <2>1. GivenBy(a, h, t) =
          GivenBy(s, h, t) \cup {n \in {Len(a)} : Gives(c, h) /\ TimeIn(a, n) <= t}
    BY GivenAppended
  <2>2. Gives(c, h) /\ TimeIn(a, Len(a)) <= t
    BY <1>1
  <2> HIDE DEF a
  <2> QED
    BY <1>1, <2>1, <2>2
<1>3. \A n \in GivenBy(s, h, t) : n <= Len(s) + 1
  BY <1>1 DEF GivenBy
<1> HIDE DEF a
<1>4. IsShown(a, h, t, Given(c, h))
  BY <1>1, <1>2, <1>3 DEF IsShown
<1> QED
  BY <1>4 DEF a

-------------------------------------------------------------------------------
(* One item more. *)

\* What the items give grows by the new item, if that is a value of h at t or before.
LEMMA HeldNext ==
  ASSUME NEW p \in Nat, NEW h, NEW t
  PROVE  HeldBy(p + 1, h, t) =
           HeldBy(p, h, t) \cup {n \in {p + 1} : items[n].handle = h /\ items[n].time <= t}
  BY DEF HeldBy

\* An item that is no value of h at t or before leaves its value at t alone.
LEMMA KeepsHeld ==
  ASSUME NEW p \in Nat, NEW h, NEW t, NEW v,
         ~(items[p + 1].handle = h /\ items[p + 1].time <= t), IsHeld(p, h, t, v)
  PROVE  IsHeld(p + 1, h, t, v)
<1>1. HeldBy(p + 1, h, t) = HeldBy(p, h, t)
  BY DEF HeldBy
<1> QED
  BY <1>1 DEF IsHeld

\* One that is such a value is the last.
LEMMA SetsHeld ==
  ASSUME NEW p \in Nat, NEW h, NEW t, items[p + 1].handle = h, items[p + 1].time <= t
  PROVE  IsHeld(p + 1, h, t, items[p + 1].value)
<1>1. HeldBy(p + 1, h, t) = HeldBy(p, h, t) \cup {p + 1}
  BY HeldNext
<1>2. \A n \in HeldBy(p, h, t) : n <= p + 1
  BY DEF HeldBy
<1> QED
  BY <1>1, <1>2 DEF IsHeld

\* An item that is not selected, or past the window, changes nothing in the window.
LEMMA SkippedShown ==
  ASSUME NEW p \in Nat,
         items[p + 1].handle \notin Selected \/ PastEnd(items[p + 1].time),
         setting \in Setting, items[p + 1].time \in Nat
  PROVE  /\ \A s, c : Shown(s, c, p) => Shown(s, c, p + 1)
         /\ \A init : Known(init, p) => Known(init, p + 1)
<1>1. \A h \in Selected, t \in Nat : InWindow(t) => ~(items[p + 1].handle = h /\ items[p + 1].time <= t)
  BY DEF InWindow, PastEnd, Setting, End, NoEnd
<1>2. \A h \in Selected, t \in Nat : \A v : InWindow(t) /\ IsHeld(p, h, t, v) => IsHeld(p + 1, h, t, v)
  BY <1>1, KeepsHeld
<1>3. ASSUME NEW s, NEW c, Shown(s, c, p)
      PROVE  Shown(s, c, p + 1)
  BY <1>2, <1>3 DEF Shown
<1>4. ASSUME NEW init, Known(init, p)
      PROVE  Known(init, p + 1)
  BY <1>2, <1>4 DEF Known
<1> QED
  BY <1>3, <1>4

\* When all items left are past the window, the output shows them all.
LEMMA AllShown ==
  ASSUME NEW p \in Nat, items \in Seq(Item), setting \in Setting, p <= Len(items), Exhausted(p),
         NEW s, NEW c, Shown(s, c, p)
  PROVE  Shown(s, c, Len(items))
<1>1. \A n \in 1..Len(items) : items[n].time \in Nat
  <2>1. \A n \in 1..Len(items) : items[n] \in Item
    OBVIOUS
  <2> QED
    BY <2>1 DEF Item
<1>2. DOMAIN items = 1..Len(items) /\ Len(items) \in Nat
  OBVIOUS
<1>3. ASSUME NEW h \in Selected, NEW t \in Nat, InWindow(t)
      PROVE  HeldBy(Len(items), h, t) = HeldBy(p, h, t)
  <2>1. \A n \in 1..Len(items) : items[n].time <= t => n <= p
    BY <1>1, <1>2, <1>3 DEF Exhausted, InWindow, PastEnd, Setting, End, NoEnd
  <2> QED
    BY <1>2, <2>1 DEF HeldBy
<1>4. \A h \in Selected, t \in Nat : \A v :
        InWindow(t) /\ IsHeld(p, h, t, v) => IsHeld(Len(items), h, t, v)
  BY <1>3 DEF IsHeld
<1> QED
  BY <1>4 DEF Shown

-------------------------------------------------------------------------------
(* The commands of a step. *)

\* A timestamp or the end of $dumpvars gives no value.
LEMMA QuietShown ==
  ASSUME NEW s \in Seq(Command), NEW c \in Command, c.op \in {"time", "end"},
         NEW t0, NEW p, Shown(s, t0, p)
  PROVE  Shown(Append(s, c), IF c.op = "time" THEN c.time ELSE t0, p)
<1>1. \A h : ~Gives(c, h)
  BY DEF Gives
<1>2. s # << >> /\ Clocked(s) /\ TimeIs(s, Len(s), t0)
  BY DEF Shown
<1>3. \A h, t, v : IsShown(s, h, t, v) => IsShown(Append(s, c), h, t, v)
  BY <1>1, <1>2, KeepsValue
<1>4. Append(s, c) # << >> /\ Clocked(Append(s, c))
  BY <1>2, Appended, TimesAppended
<1>5. TimeIs(Append(s, c), Len(Append(s, c)), IF c.op = "time" THEN c.time ELSE t0)
  BY <1>2, TimesAppended
<1> QED
  BY <1>3, <1>4, <1>5 DEF Shown

\* A change at the time reached shows its item.
LEMMA ChangeShown ==
  ASSUME NEW s \in Seq(Command), NEW p \in Nat, NEW x \in Item, x = items[p + 1],
         x.handle \in Selected, Selected \subseteq Handles, Shown(s, x.time, p)
  PROVE  Shown(Append(s, ChangeCmd(x.handle, x.value)), x.time, p + 1)
<1> DEFINE c == ChangeCmd(x.handle, x.value)
           a == Append(s, c)
<1>1. c \in Command
  BY CommandsTyped DEF Item
<1>2. /\ c.op = "change" /\ \A h : Gives(c, h) <=> h = x.handle
      /\ \A h : Given(c, h) = x.value
  BY DEF ChangeCmd, Gives, Given
<1> HIDE DEF c
<1>3. s # << >> /\ Clocked(s) /\ TimeIs(s, Len(s), x.time)
  BY DEF Shown
<1>4. a # << >> /\ Clocked(a) /\ TimeIs(a, Len(a), x.time)
  BY <1>1, <1>2, <1>3, Appended, TimesAppended
<1>5. TimeIn(a, Len(s) + 1) = x.time
  <2>1. Len(a) = Len(s) + 1 /\ Len(a) \in Nat
    BY <1>1, Appended
  <2> HIDE DEF a
  <2> QED
    BY <1>4, <2>1, TimeUnique
<1>6. ASSUME NEW h \in Selected, NEW t \in Nat, InWindow(t)
      PROVE  \E v : IsShown(a, h, t, v) /\ IsHeld(p + 1, h, t, v)
  <2>1. PICK v : IsShown(s, h, t, v) /\ IsHeld(p, h, t, v)
    BY <1>6 DEF Shown
  <2>2. CASE h = x.handle /\ x.time <= t
    <3>1. IsShown(a, h, t, Given(c, h))
      BY <1>1, <1>2, <1>3, <1>5, <2>2, SetsValue
    <3>2. IsHeld(p + 1, h, t, x.value)
      BY <2>2, SetsHeld
    <3> QED
      BY <1>2, <3>1, <3>2
  <2>3. CASE ~(h = x.handle /\ x.time <= t)
    <3>1. IsShown(a, h, t, v)
      BY <1>1, <1>2, <1>3, <1>5, <2>1, <2>3, KeepsValue
    <3>2. IsHeld(p + 1, h, t, v)
      BY <2>1, <2>3, KeepsHeld
    <3> QED
      BY <3>1, <3>2
  <2> QED
    BY <2>2, <2>3
<1>7. Shown(a, x.time, p + 1)
  <2> HIDE DEF a
  <2> QED
    BY <1>4, <1>6 DEF Shown
<1> QED
  BY <1>7 DEF a, c

\* The first timestamp and $dumpvars show the values before Start.
LEMMA OpensShown ==
  ASSUME setting \in Setting, initial \in Initials, NEW p, Known(initial, p),
         NEW t \in Nat, initial = << >> \/ t = Start
  PROVE  Shown(<<TimeCmd(t), DumpCmd(initial)>>, t, p)
<1> DEFINE d == DumpCmd(initial)
           s == <<TimeCmd(t)>>
           a == Append(s, d)
<1>1. TimeCmd(t) \in Command /\ d \in Command
  BY CommandsTyped
<1>2. /\ TimeCmd(t).op = "time" /\ TimeCmd(t).time = t /\ \A h : ~Gives(TimeCmd(t), h)
      /\ d.op = "dump" /\ (\A h : Gives(d, h) <=> h \in DOMAIN initial)
      /\ \A h : Given(d, h) = initial[h]
  BY DEF TimeCmd, DumpCmd, Gives, Given
<1>3. /\ s \in Seq(Command) /\ s # << >> /\ Len(s) = 1 /\ DOMAIN s = {1} /\ s[1] = TimeCmd(t)
      /\ a = <<TimeCmd(t), d>>
  <2>1. s \in Seq(Command) /\ s # << >> /\ Len(s) = 1 /\ s[1] = TimeCmd(t)
    BY <1>1
  <2>2. DOMAIN s = {1}
    OBVIOUS
  <2>3. a = <<TimeCmd(t), d>>
    <3> DEFINE b == <<TimeCmd(t), d>>
    <3>1. b \in Seq(Command) /\ Len(b) = 2 /\ b[1] = TimeCmd(t) /\ b[2] = d
      BY <1>1
    <3>2. a \in Seq(Command) /\ Len(a) = 2 /\ a[1] = TimeCmd(t) /\ a[2] = d
      BY <1>1, <2>1, Appended
    <3> HIDE DEF a, b
    <3>3. \A i \in 1..2 : a[i] = b[i]
      BY <3>1, <3>2
    <3>4. a = b
      BY <3>1, <3>2, <3>3, SeqEqual
    <3> QED
      BY <3>4 DEF b
  <2> QED
    BY <2>1, <2>2, <2>3
<1> HIDE DEF d, s
<1>4. TimeIs(s, 1, t) /\ Clocked(s)
  BY <1>2, <1>3 DEF TimeIs, Clocked
<1>5. a # << >> /\ Clocked(a) /\ TimeIs(a, Len(a), t)
  <2>1. TimeIs(s, Len(s), t)
    BY <1>3, <1>4
  <2> QED
    BY <1>1, <1>2, <1>3, <1>4, <2>1, Appended, TimesAppended
<1>6. TimeIn(a, Len(s) + 1) = t
  <2>1. Len(a) = Len(s) + 1 /\ Len(a) \in Nat
    BY <1>1, <1>3, Appended
  <2> HIDE DEF a
  <2> QED
    BY <1>5, <2>1, TimeUnique
<1>7. ASSUME NEW h, NEW u
      PROVE  IsShown(s, h, u, NoValue)
  BY <1>2, <1>3 DEF IsShown, GivenBy
<1>8. ASSUME NEW h \in Selected, NEW u \in Nat, InWindow(u)
      PROVE  IsShown(a, h, u, IF h \in DOMAIN initial THEN initial[h] ELSE NoValue)
  <2>1. CASE h \in DOMAIN initial
    <3>1. initial # << >>
      BY <2>1
    <3>2. t <= u
      BY <1>8, <3>1 DEF InWindow
    <3>3. IsShown(a, h, u, Given(d, h))
      BY <1>1, <1>2, <1>3, <1>4, <1>6, <2>1, <3>2, SetsValue
    <3> QED
      BY <1>2, <2>1, <3>3
  <2>2. CASE h \notin DOMAIN initial
    <3>1. IsShown(a, h, u, NoValue)
      BY <1>1, <1>2, <1>3, <1>4, <1>7, <2>2, KeepsValue
    <3> QED
      BY <2>2, <3>1
  <2> QED
    BY <2>1, <2>2
<1>9. Shown(a, t, p)
  <2> HIDE DEF a
  <2> QED
    BY <1>5, <1>8 DEF Shown, Known
<1> QED
  BY <1>3, <1>9 DEF d

\* An output that is open, or that opens now, shows what was read.
LEMMA StartsShown ==
  ASSUME Typed, Good(out, current, initialOpen), NEW p, Written(out, current, initial, p),
         NEW t \in Nat, initial = << >> \/ t = Start
  PROVE  Shown(out \o Started(t), StartedAt(t), p)
<1>1. CASE current = NoTime
  <2>1. out = << >> /\ Known(initial, p)
    BY <1>1 DEF Good, NoTime, Written
  <2>2. Shown(<<TimeCmd(t), DumpCmd(initial)>>, t, p)
    BY <2>1, OpensShown DEF Typed
  <2>3. <<TimeCmd(t), DumpCmd(initial)>> \in Seq(Command)
    BY CommandsTyped DEF Typed
  <2>4. << >> \o <<TimeCmd(t), DumpCmd(initial)>> = <<TimeCmd(t), DumpCmd(initial)>>
    BY <2>3
  <2> QED
    BY <1>1, <2>1, <2>2, <2>4 DEF Started, StartedAt
<1>2. CASE current # NoTime
  <2>1. out \o << >> = out
    BY DEF Typed
  <2> QED
    BY <1>2, <2>1 DEF Started, StartedAt, Written
<1> QED
  BY <1>1, <1>2

\* The end of $dumpvars gives no value.
LEMMA EndsShown ==
  ASSUME NEW s \in Seq(Command), NEW c, NEW p, Shown(s, c, p), NEW open \in BOOLEAN
  PROVE  Shown(DumpEnded(s, open), c, p)
<1>1. EndCmd \in Command /\ EndCmd.op = "end"
  BY CommandsTyped DEF EndCmd
<1> QED
  BY <1>1, QuietShown DEF DumpEnded

\* A timestamp gives no value.
LEMMA TimeShown ==
  ASSUME NEW s \in Seq(Command), NEW c, NEW p, Shown(s, c, p), NEW t \in Nat
  PROVE  Shown(Append(s, TimeCmd(t)), t, p)
<1>1. TimeCmd(t) \in Command /\ TimeCmd(t).op = "time" /\ TimeCmd(t).time = t
  BY CommandsTyped DEF TimeCmd
<1> QED
  BY <1>1, QuietShown

\* Writing a change shows its item.
LEMMA WriteShown ==
  ASSUME Typed, Good(out, current, initialOpen), Written(out, current, initial, pos),
         NEW x \in Item, x = items[pos + 1], x.handle \in Selected, Selected \subseteq Handles,
         Start <= x.time, ~PastEnd(x.time), current = NoTime \/ current <= x.time
  PROVE  Shown(out \o ChangeCommands(x), x.time, pos + 1)
<1> DEFINE t == x.time
           s == OpenedFor(t)
           c == Reached(t)
<1>1. t \in Nat /\ pos \in Nat
  BY DEF Item, Typed
<1>2. /\ Opening(t) = Started(FirstTime(t)) /\ c = StartedAt(FirstTime(t))
      /\ FirstTime(t) \in Nat /\ s \in Seq(Command) /\ DumpOpen \in BOOLEAN
      /\ c \in Nat /\ Good(s, c, DumpOpen)
  BY <1>1, ChangeOpens
<1>3. initial = << >> \/ FirstTime(t) = Start
  BY DEF FirstTime
<1>4. Shown(s, c, pos)
  BY <1>2, <1>3, StartsShown DEF OpenedFor
<1>5. AdvancedTo(t) \in Seq(Command) /\ Shown(AdvancedTo(t), t, pos)
  <2>1. AdvancedTo(t) \in Seq(Command)
    BY <1>1, AdvanceGood
  <2>2. CASE c = t
    BY <1>4, <2>1, <2>2 DEF AdvancedTo
  <2>3. CASE c # t
    <3> HIDE DEF s, c
    <3>1. DumpEnded(s, DumpOpen) \in Seq(Command) /\ Shown(DumpEnded(s, DumpOpen), c, pos)
      BY <1>2, <1>4, EndsGood, EndsShown
    <3>2. Shown(Append(DumpEnded(s, DumpOpen), TimeCmd(t)), t, pos)
      BY <1>1, <3>1, TimeShown
    <3> QED
      BY <2>1, <2>3, <3>2 DEF AdvancedTo, s, c
  <2> QED
    BY <2>2, <2>3
<1>6. Shown(Append(AdvancedTo(t), ChangeCmd(x.handle, x.value)), t, pos + 1)
  BY <1>1, <1>5, ChangeShown
<1>7. out \o ChangeCommands(x) = Append(AdvancedTo(t), ChangeCmd(x.handle, x.value))
  BY ChangeInParts
<1> QED
  BY <1>6, <1>7

\* The end of the output gives no value but those before Start.
LEMMA CloseShown ==
  ASSUME Typed, Good(out, current, initialOpen), NEW p, Written(out, current, initial, p)
  PROVE  Shown(out \o Closing, Later(StartedAt(Start), LastTime), p)
<1> DEFINE s == out \o Started(Start)
           c == StartedAt(Start)
<1>1. Start \in Nat /\ ~PastEnd(Start) /\ Start <= Start
  BY WindowOpen DEF Typed
<1>2. s \in Seq(Command) /\ DumpOpen \in BOOLEAN
  BY <1>1, StartsGood
<1>3. /\ out \o Closing = ClosedOut /\ c \in Nat /\ LastTime \in Nat
      /\ EndedOut \in Seq(Command)
  BY CloseInParts
<1>4. Shown(s, c, p)
  BY <1>1, StartsShown
<1>5. Shown(EndedOut, c, p)
  <2>1. EndedOut = DumpEnded(s, DumpOpen)
    BY DEF EndedOut
  <2> HIDE DEF s, c
  <2> QED
    BY <1>2, <1>4, <2>1, EndsShown
<1> HIDE DEF s, c
<1>6. CASE c < LastTime
  <2>1. Shown(Append(EndedOut, TimeCmd(LastTime)), LastTime, p)
    BY <1>3, <1>5, TimeShown
  <2> QED
    BY <1>3, <1>6, <2>1 DEF ClosedOut, Later, c
<1>7. CASE ~(c < LastTime)
  BY <1>3, <1>5, <1>7 DEF ClosedOut, Later, c
<1> QED
  BY <1>6, <1>7

\* A change before Start becomes the initial value of its signal.
LEMMA RememberKnown ==
  ASSUME NEW p \in Nat, NEW init, Known(init, p), NEW x \in Item, x = items[p + 1],
         x.time < Start, setting \in Setting
  PROVE  Known([h \in DOMAIN init \cup {x.handle} |-> IF h = x.handle THEN x.value ELSE init[h]],
               p + 1)
<1> DEFINE new == [h \in DOMAIN init \cup {x.handle} |-> IF h = x.handle THEN x.value ELSE init[h]]
           V(i, h) == IF h \in DOMAIN i THEN i[h] ELSE NoValue
<1>1. x.time \in Nat /\ Start \in Nat
  BY WindowOpen DEF Item
<1>2. ASSUME NEW h \in Selected, NEW t \in Nat, InWindow(t)
      PROVE  IsHeld(p + 1, h, t, V(new, h))
  <2>1. CASE h = x.handle
    <3>1. x.time <= t
      BY <1>1, <1>2 DEF InWindow
    <3>2. IsHeld(p + 1, h, t, x.value)
      BY <2>1, <3>1, SetsHeld
    <3>3. V(new, h) = x.value
      BY <2>1
    <3> HIDE DEF V
    <3> QED
      BY <3>2, <3>3
  <2>2. CASE h # x.handle
    <3>1. IsHeld(p, h, t, V(init, h))
      BY <1>2 DEF Known
    <3>2. V(new, h) = V(init, h)
      BY <2>2
    <3> HIDE DEF V
    <3>3. IsHeld(p + 1, h, t, V(init, h))
      BY <2>2, <3>1, KeepsHeld
    <3> QED
      BY <3>2, <3>3
  <2> QED
    BY <2>1, <2>2
<1> QED
  BY <1>2 DEF Known

-------------------------------------------------------------------------------
(* The invariant. *)

\* What is said of the next state with the sources of this one.
LEMMA SameSources ==
  ASSUME UNCHANGED source, FInv,
         Monotone /\ pc' # "returned" =>
           /\ pos' <= Len(items) /\ Written(out', current', initial', pos')
           /\ pc' # "read" => Exhausted(pos')
           /\ End = NoEnd => TimesKept',
         Monotone /\ result' = "ok" => Shown(out', TrueEnd, Len(items))
  PROVE  FInv'
<1>1. items' = items /\ setting' = setting
  BY DEF source
<1>2. (~LoneVcd => items # << >> /\ items[Len(items)].handle = NoHandle)'
  BY <1>1 DEF FInv, LoneVcd
<1>3. Monotone' <=> Monotone
  BY <1>1 DEF Monotone
<1>4. Shown(out', TrueEnd, Len(items)) <=> Shown(out, TrueEnd, Len(items))'
  BY <1>1 DEF Shown, TrueEnd, TimeAfter, IsHeld, HeldBy, InWindow, PastEnd, Start, End, Fst
<1>5. Written(out', current', initial', pos') <=> Written(out, current, initial, pos)'
  BY <1>1 DEF Written, Shown, Known, IsHeld, HeldBy, InWindow, PastEnd, Start, End
<1>6. Exhausted(pos') <=> Exhausted(pos)'
  BY <1>1 DEF Exhausted, PastEnd, End
<1>7. ASSUME Monotone, pc' # "returned"
      PROVE  Reading'
  <2>1. End' = End
    BY <1>1 DEF End
  <2> QED
    BY <1>1, <1>5, <1>6, <1>7, <2>1 DEF Reading
<1> QED
  BY <1>2, <1>3, <1>4, <1>7 DEF FInv

\* Times do not decrease: what is said of the next item and those before it.
LEMMA NextTime ==
  ASSUME Typed, Monotone, HasNext
  PROVE  /\ items[pos + 1] = Next1 /\ Next1 \in Item /\ Next1.time \in Nat
         /\ pos \in Nat /\ Len(items) \in Nat /\ pos + 1 <= Len(items)
         /\ \A n \in 1..pos : items[n].time \in Nat /\ items[n].time <= Next1.time
         /\ \A n \in DOMAIN items : pos < n => items[n].time \in Nat /\ Next1.time <= items[n].time
<1>1. items \in Seq(Item) /\ pos \in Nat /\ Len(items) \in Nat /\ pos < Len(items)
      /\ DOMAIN items = 1..Len(items)
  BY DEF Typed, HasNext
<1>2. \A n \in DOMAIN items : items[n] \in Item
  BY <1>1
<1>3. \A n \in DOMAIN items : items[n].time \in Nat
  BY <1>2 DEF Item
<1> QED
  BY <1>1, <1>2, <1>3 DEF Monotone, Next1

\* The times read, step by step, in an export without End.
LEMMA TimesStep ==
  ASSUME IInv, FInv, Monotone, pc # "returned", End = NoEnd,
         BareTime \/ NotSelected \/ Remember \/ WriteChange \/ EndOfItems \/ FinalTime
  PROVE  TimesKept'
<1>1. /\ current <= finalTime /\ Start <= finalTime /\ finalTime <= TimeAfter(pos)
      /\ LoneVcd => now = IF pos = 0 THEN 0 ELSE items[pos].time
      /\ ~LoneVcd /\ pos # 0 /\ items[pos].handle = NoHandle => finalTime = TimeAfter(pos)
      /\ pc # "read" => pos = Len(items)
      /\ pc = "finish" => finalTime = TimeAfter(pos)
      /\ pos <= Len(items)
  BY DEF FInv, Reading, TimesKept
<1>2. /\ Start \in Nat /\ pos \in Nat /\ pos <= Len(items) /\ Len(items) \in Nat
      /\ finalTime \in Nat /\ now \in Nat /\ current \in Nat \cup {NoTime}
  BY <1>1, WindowOpen DEF IInv, Typed
<1>3. \A t : ~PastEnd(t) /\ Clamped(t) = t
  BY DEF PastEnd, Clamped
<1>4. \A n \in 1..pos : items[n].time \in Nat
  <2>1. \A n \in 1..Len(items) : items[n] \in Item
    BY DEF IInv, Typed
  <2> QED
    BY <1>2, <2>1 DEF Item
\* The step reads an item.
<1>5. ASSUME HasNext, pos' = pos + 1, UNCHANGED source, pc = "read", pc' = "read",
             LoneVcd => now' = Next1.time,
             finalTime' = finalTime \/ finalTime' = Later(finalTime, Next1.time),
             ~LoneVcd /\ Next1.handle = NoHandle => finalTime' = Later(finalTime, Next1.time),
             current' = current \/ (current' = Next1.time /\ finalTime' = Later(finalTime, Next1.time))
      PROVE  TimesKept'
  <2> DEFINE t == Next1.time
  <2>1. items[pos + 1] = Next1 /\ t \in Nat /\ \A n \in 1..pos : items[n].time <= t
    BY <1>5, NextTime DEF IInv
  <2>2. TimeAfter(pos) <= Later(Start, t) /\ Later(Start, t) = TimeAfter(pos + 1)
    BY <1>2, <1>4, <2>1 DEF TimeAfter, Later
  <2>3. finalTime <= Later(Start, t)
    <3>1. TimeAfter(pos) \in Nat
      BY <1>2, <1>4 DEF TimeAfter, Later
    <3> QED
      BY <1>1, <1>2, <2>1, <2>2, <3>1 DEF Later
  <2>4. /\ items' = items /\ Start' = Start /\ LoneVcd' = LoneVcd
        /\ TimeAfter(pos)' = Later(Start, t) /\ pos' # 0 /\ items'[pos'] = Next1
    BY <1>2, <1>5, <2>1 DEF source, Start, LoneVcd, TimeAfter, Later
  <2>5. /\ current' <= finalTime' /\ Start <= finalTime' /\ finalTime' <= Later(Start, t)
        /\ finalTime' = Later(finalTime, t) => finalTime' = Later(Start, t)
    BY <1>1, <1>2, <1>5, <2>1, <2>3 DEF Later, NoTime
  <2> QED
    BY <1>5, <2>1, <2>4, <2>5 DEF TimesKept
<1>6. CASE BareTime
  BY <1>3, <1>5, <1>6 DEF BareTime, Pass
<1>7. CASE NotSelected
  <2>1. Next1.handle # NoHandle
    BY <1>7, ExportAssumption DEF NotSelected, NoHandle
  <2> QED
    BY <1>5, <1>7, <2>1 DEF NotSelected, Pass
<1>8. CASE Remember
  BY <1>5, <1>8 DEF Remember, Emitted
<1>9. CASE WriteChange
  BY <1>5, <1>9 DEF WriteChange, Emitted
<1>10. CASE EndOfItems
  <2>1. pos = Len(items) /\ UNCHANGED <<items, setting, pos, now, current, finalTime>>
        /\ pc' = "close"
    BY <1>2, <1>10 DEF EndOfItems, HasNext, source
  <2> QED
    BY <1>1, <2>1 DEF TimesKept, TimeAfter, Start, LoneVcd
<1>11. CASE FinalTime
  <2>1. pos = Len(items) /\ UNCHANGED <<items, setting, pos, now, current>> /\ pc' = "finish"
    BY <1>1, <1>11 DEF FinalTime, source
  <2>2. finalTime' = IF LoneVcd THEN Later(finalTime, now) ELSE finalTime
    BY <1>3, <1>11 DEF FinalTime, FinalEmit
  <2>3. UNCHANGED <<TimeAfter(pos), Start, LoneVcd>>
    BY <2>1 DEF TimeAfter, Start, LoneVcd
  <2>4. finalTime' = TimeAfter(pos) /\ current <= finalTime' /\ Start <= finalTime'
    <3>1. CASE LoneVcd
      <4>1. now = IF pos = 0 THEN 0 ELSE items[pos].time
        BY <1>1, <3>1
      <4>2. TimeAfter(pos) = Later(Start, now)
        BY <4>1 DEF TimeAfter
      <4> QED
        BY <1>1, <1>2, <2>2, <3>1, <4>2 DEF Later, NoTime
    <3>2. CASE ~LoneVcd
      <4>1. items # << >> /\ items[Len(items)].handle = NoHandle /\ items \in Seq(Item)
        BY <3>2 DEF FInv, IInv, Typed
      <4>2. pos # 0 /\ items[pos].handle = NoHandle
        BY <2>1, <4>1
      <4> QED
        BY <1>1, <2>2, <3>2, <4>2
    <3> QED
      BY <3>1, <3>2
  <2>5. /\ finalTime' <= TimeAfter(pos)
        /\ LoneVcd => now = IF pos = 0 THEN 0 ELSE items[pos].time
    <3>1. TimeAfter(pos) \in Nat
      BY <1>2, <1>4 DEF TimeAfter, Later
    <3> QED
      BY <1>1, <2>4, <3>1
  <2> QED
    BY <2>1, <2>3, <2>4, <2>5 DEF TimesKept
<1> QED
  BY <1>6, <1>7, <1>8, <1>9, <1>10, <1>11

\* It holds of the empty output.
LEMMA FInit == Init => FInv
<1> SUFFICES ASSUME Init PROVE FInv
  OBVIOUS
<1>0. IInv
  BY InitInv, ExportAssumption
<1>1. PICK e \in Exports : items = e[1] /\ setting = e[2]
  BY DEF Init
<1>2. ~LoneVcd => items # << >> /\ items[Len(items)].handle = NoHandle
  BY <1>1, EndsWithTime DEF LoneVcd
<1>3. /\ pos = 0 /\ now = 0 /\ initial = << >> /\ current = NoTime /\ finalTime = Start
      /\ pc = "read" /\ result = "none" /\ Start \in Nat /\ Len(items) \in Nat
  BY <1>0, WindowOpen DEF Init, IInv, Typed
<1>4. Known(initial, 0)
  BY <1>3 DEF Known, IsHeld, HeldBy
<1>5. TimesKept
  BY <1>3 DEF TimesKept, TimeAfter, Later, NoTime
<1> QED
  BY <1>2, <1>3, <1>4, <1>5 DEF FInv, Reading, Written

\* What Finish writes ends at TrueEnd.
LEMMA EndReached ==
  ASSUME IInv, FInv, Monotone, pc = "finish"
  PROVE  Later(StartedAt(Start), LastTime) = TrueEnd
<1>1. Reading /\ Typed /\ Good(out, current, initialOpen)
  BY DEF FInv, IInv
<1>2. Start \in Nat /\ End \in Nat \cup {NoEnd} /\ ~PastEnd(Start) /\ current \in Nat \cup {NoTime}
  BY <1>1, WindowOpen DEF Typed
<1>3. StartedAt(Start) \in Nat /\ ~PastEnd(StartedAt(Start)) /\ LastTime \in Nat
  BY <1>1, <1>2, CloseInParts DEF StartedAt, Good
<1>4. CASE End # NoEnd
  BY <1>2, <1>3, <1>4 DEF LastTime, TrueEnd, Later, PastEnd, NoEnd
<1>5. CASE End = NoEnd
  <2>1. /\ current <= finalTime /\ Start <= finalTime /\ finalTime = TimeAfter(pos)
        /\ pos = Len(items) /\ finalTime \in Nat
    BY <1>1, <1>5 DEF Reading, TimesKept, Typed
  <2>2. TrueEnd = LastTime /\ finalTime <= LastTime
    BY <1>2, <1>5, <2>1 DEF TrueEnd, LastTime, Later
  <2>3. StartedAt(Start) <= finalTime
    BY <2>1 DEF StartedAt
  <2> QED
    BY <1>3, <2>1, <2>2, <2>3 DEF Later
<1> QED
  BY <1>4, <1>5

\* Every step keeps it.
LEMMA FStep == IInv /\ FInv /\ [Next]_vars => FInv'
<1> SUFFICES ASSUME IInv, FInv, [Next]_vars
             PROVE  FInv'
  OBVIOUS
<1>1. Typed /\ (pc # "returned" => Good(out, current, initialOpen) /\ result = "none")
      /\ setting \in Setting /\ items \in Seq(Item) /\ pos \in Nat
      /\ Selected \subseteq Handles /\ Handles \subseteq Nat \ {0}
  BY ExportAssumption DEF IInv, Typed
<1>2. Monotone /\ pc # "returned" => Reading
  BY DEF FInv
\* A step that neither writes nor ends, and skips the next item.
<1>3. ASSUME UNCHANGED <<source, initial, current, out, pc, result>>,
             pc = "read", HasNext, pos' = pos + 1,
             Next1.handle \notin Selected \/ PastEnd(Next1.time),
             Monotone /\ End = NoEnd => TimesKept'
      PROVE  FInv'
  <2>1. ASSUME Monotone
        PROVE  pos' <= Len(items) /\ Written(out', current', initial', pos')
    <3>1. items[pos + 1] = Next1 /\ Next1.time \in Nat /\ pos + 1 <= Len(items)
      BY <1>1, <1>3, <2>1, NextTime
    <3>2. Written(out, current, initial, pos)
      BY <1>2, <1>3, <2>1 DEF Reading
    <3>3. Written(out, current, initial, pos + 1)
      <4>1. CASE current = NoTime
        BY <1>1, <1>3, <3>1, <3>2, <4>1, SkippedShown DEF Written
      <4>2. CASE current # NoTime
        <5>1. Shown(out, current, pos + 1)
          BY <1>1, <1>3, <3>1, <3>2, <4>2, SkippedShown DEF Written
        <5>2. \E n \in 1..(pos + 1) : items[n].time = current
          BY <1>1, <3>2, <4>2 DEF Written
        <5> QED
          BY <4>2, <5>1, <5>2 DEF Written
      <4> QED
        BY <4>1, <4>2
    <3> QED
      BY <1>3, <3>1, <3>3
  <2>2. result' # "ok"
    BY <1>1, <1>3
  <2> QED
    BY <1>3, <2>1, <2>2, SameSources
<1>4. CASE BareTime
  <2>1. NoHandle \notin Selected
    BY <1>1 DEF NoHandle
  <2> QED
    BY <1>3, <1>4, <2>1, TimesStep DEF BareTime, Pass
<1>5. CASE NotSelected
  BY <1>3, <1>5, TimesStep DEF NotSelected, Pass
<1>6. CASE SkipPastEnd
  <2>1. End # NoEnd
    BY <1>6 DEF SkipPastEnd, PastEnd
  <2> QED
    BY <1>3, <1>6, <2>1 DEF SkipPastEnd, Pass
<1>7. CASE StopPastEnd
  <2>1. End # NoEnd
    BY <1>7 DEF StopPastEnd, PastEnd
  <2>2. ASSUME Monotone
        PROVE  pos <= Len(items) /\ Written(out, current, initial, pos) /\ Exhausted(pos)
    <3>1. \A n \in DOMAIN items : pos < n => items[n].time \in Nat /\ Next1.time <= items[n].time
      BY <1>1, <1>7, <2>2, NextTime DEF StopPastEnd
    <3>2. Next1.time \in Nat /\ End \in Nat
      BY <1>1, <1>7, <2>1, <2>2, NextTime, WindowOpen DEF StopPastEnd
    <3>3. Exhausted(pos)
      BY <1>7, <3>1, <3>2 DEF StopPastEnd, Exhausted, PastEnd
    <3> QED
      BY <1>2, <1>7, <2>2, <3>3 DEF StopPastEnd, Reading
  <2>3. UNCHANGED <<source, pos, initial, current, out, result>> /\ result = "none"
    BY <1>1, <1>7 DEF StopPastEnd
  <2>4. End' = End
    BY <2>3 DEF source, End
  <2> QED
    BY <2>1, <2>2, <2>3, SameSources
<1>8. CASE Remember
  <2> DEFINE new == [h \in DOMAIN initial \cup {Next1.handle} |->
                       IF h = Next1.handle THEN Next1.value ELSE initial[h]]
  <2>1. /\ pc = "read" /\ HasNext /\ Next1.time < Start /\ pos' = pos + 1 /\ initial' = new
        /\ UNCHANGED <<source, current, out, pc, result>>
    BY <1>8 DEF Remember, Emitted
  <2>2. ASSUME Monotone
        PROVE  pos' <= Len(items) /\ Written(out', current', initial', pos')
    <3>1. /\ items[pos + 1] = Next1 /\ Next1 \in Item /\ Next1.time \in Nat
          /\ pos + 1 <= Len(items) /\ \A n \in 1..pos : items[n].time <= Next1.time
      BY <1>1, <2>1, <2>2, NextTime
    <3>2. Written(out, current, initial, pos)
      BY <1>2, <2>1, <2>2 DEF Reading
    <3>3. current = NoTime
      <4> SUFFICES ASSUME current # NoTime
                   PROVE  FALSE
        OBVIOUS
      <4>1. PICK n \in 1..pos : items[n].time = current
        BY <3>2 DEF Written
      <4>2. Start <= current /\ current \in Nat /\ Start \in Nat
        BY <1>1, <2>1, WindowOpen DEF Good
      <4> QED
        BY <2>1, <3>1, <4>1, <4>2
    <3>4. Known(initial, pos)
      BY <3>2, <3>3 DEF Written
    <3>5. Known(new, pos + 1)
      <4> DEFINE x == Next1
      <4>1. x \in Item /\ x = items[pos + 1] /\ x.time < Start
        BY <2>1, <3>1
      <4>2. new = [h \in DOMAIN initial \cup {x.handle} |-> IF h = x.handle THEN x.value ELSE initial[h]]
        OBVIOUS
      <4> HIDE DEF x, new
      <4> QED
        BY <1>1, <3>4, <4>1, <4>2, RememberKnown
    <3> HIDE DEF new
    <3> QED
      BY <2>1, <3>1, <3>3, <3>5 DEF Written
  <2>3. Monotone /\ End = NoEnd => TimesKept'
    BY <1>8, <2>1, TimesStep
  <2>4. result' # "ok"
    BY <1>1, <2>1
  <2> HIDE DEF new
  <2> QED
    BY <2>1, <2>2, <2>3, <2>4, SameSources
<1>9. CASE WriteChange
  <2>1. /\ pc = "read" /\ HasNext /\ Next1.handle \in Selected /\ ~PastEnd(Next1.time)
        /\ Next1.time >= Start /\ ~Decreases
        /\ out' = out \o ChangeCommands(Next1) /\ current' = Next1.time /\ pos' = pos + 1
        /\ UNCHANGED <<source, pc, result>>
    BY <1>9 DEF WriteChange, Emitted
  <2>2. ASSUME Monotone
        PROVE  pos' <= Len(items) /\ Written(out', current', initial', pos')
    <3> DEFINE x == Next1
    <3>1. x = items[pos + 1] /\ x \in Item /\ x.time \in Nat /\ pos + 1 <= Len(items)
      BY <1>1, <2>1, <2>2, NextTime
    <3>2. Written(out, current, initial, pos)
      BY <1>2, <2>1, <2>2 DEF Reading
    <3>3. current = NoTime \/ current <= x.time
      BY <1>1, <2>1, <3>1 DEF Decreases, Typed
    <3>4. Start <= x.time /\ ~PastEnd(x.time) /\ x.handle \in Selected
      BY <1>1, <2>1, <3>1, WindowOpen
    <3>5. Good(out, current, initialOpen)
      BY <1>1, <2>1
    <3>6. out' = out \o ChangeCommands(x) /\ current' = x.time /\ pos' = pos + 1
      BY <2>1
    <3> HIDE DEF x
    <3>7. Shown(out \o ChangeCommands(x), x.time, pos + 1)
      BY <1>1, <3>1, <3>2, <3>3, <3>4, <3>5, WriteShown
    <3>8. \E n \in 1..(pos + 1) : items[n].time = x.time
      BY <1>1, <3>1
    <3>9. x.time # NoTime
      BY <3>1 DEF NoTime
    <3> QED
      BY <3>1, <3>6, <3>7, <3>8, <3>9 DEF Written
  <2>3. Monotone /\ End = NoEnd => TimesKept'
    BY <1>9, <2>1, TimesStep
  <2>4. result' # "ok"
    BY <1>1, <2>1
  <2> QED
    BY <2>1, <2>2, <2>3, <2>4, SameSources
<1>10. CASE RejectDecrease
  <2>1. UNCHANGED source /\ pc' = "returned" /\ result' = "error"
    BY <1>10 DEF RejectDecrease
  <2> QED
    BY <2>1, SameSources
<1>11. CASE EndOfItems
  <2>1. /\ pc = "read" /\ ~HasNext
        /\ UNCHANGED <<source, pos, initial, current, out, result>> /\ result = "none"
    BY <1>1, <1>11 DEF EndOfItems
  <2>2. ASSUME Monotone
        PROVE  pos <= Len(items) /\ Written(out, current, initial, pos) /\ Exhausted(pos)
    BY <1>1, <1>2, <2>1, <2>2 DEF Reading, Exhausted, HasNext
  <2>3. Monotone /\ End = NoEnd => TimesKept'
    BY <1>11, <2>1, TimesStep
  <2> QED
    BY <2>1, <2>2, <2>3, SameSources
<1>12. CASE FinalTime
  <2>1. /\ pc = "close" /\ UNCHANGED <<source, pos, initial, current, out, result>>
        /\ result = "none"
    BY <1>1, <1>12 DEF FinalTime
  <2>2. ASSUME Monotone
        PROVE  pos <= Len(items) /\ Written(out, current, initial, pos) /\ Exhausted(pos)
    BY <1>2, <2>1, <2>2 DEF Reading
  <2>3. Monotone /\ End = NoEnd => TimesKept'
    BY <1>12, <2>1, TimesStep
  <2> QED
    BY <2>1, <2>2, <2>3, SameSources
<1>13. CASE Finish
  <2>1. /\ pc = "finish" /\ out' = out \o Closing /\ pc' = "returned" /\ UNCHANGED source
    BY <1>13 DEF Finish
  <2>2. ASSUME Monotone
        PROVE  Shown(out', TrueEnd, Len(items))
    <3>1. Reading /\ Good(out, current, initialOpen)
      BY <1>1, <1>2, <2>1, <2>2
    <3>2. Shown(out \o Closing, Later(StartedAt(Start), LastTime), pos)
      BY <1>1, <3>1, CloseShown DEF Reading
    <3>3. Later(StartedAt(Start), LastTime) = TrueEnd
      BY <2>1, <2>2, EndReached
    <3>4. Shown(out \o Closing, TrueEnd, Len(items))
      BY <1>1, <2>1, <3>1, <3>2, <3>3, AllShown DEF Reading
    <3> QED
      BY <2>1, <3>4
  <2> QED
    BY <2>1, <2>2, SameSources
<1>14. CASE Fail
  <2>1. UNCHANGED source /\ pc' = "returned" /\ result' = "error"
    BY <1>14 DEF Fail
  <2> QED
    BY <2>1, SameSources
<1>15. CASE Done \/ UNCHANGED vars
  <2>1. UNCHANGED <<items, setting, pos, now, initial, current, initialOpen, finalTime, out, pc, result>>
    BY <1>15 DEF Done, vars, source
  <2>2. End = NoEnd /\ TimesKept => TimesKept'
    BY <2>1 DEF TimesKept, TimeAfter, Start, LoneVcd
  <2> QED
    BY <1>2, <2>1, <2>2, SameSources DEF source, Reading, FInv
<1> QED
  BY <1>4, <1>5, <1>6, <1>7, <1>8, <1>9, <1>10, <1>11, <1>12, <1>13, <1>14, <1>15 DEF Next

-------------------------------------------------------------------------------
(* What the invariant means. *)

\* The last values that Shown compares are those of the property.
LEMMA ShownIsFaithful ==
  ASSUME Typed, Monotone, Shown(out, TrueEnd, Len(items)), NEW h \in Selected,
         NEW t \in Nat, InWindow(t)
  PROVE  OutputValue(h, t) = SourceValue(h, t)
<1>1. PICK v : IsShown(out, h, t, v) /\ IsHeld(Len(items), h, t, v)
  BY DEF Shown
<1>2. OutputValue(h, t) = v
  <2> DEFINE S == {n \in DOMAIN out : Sets(n, h) /\ TimeAt(n) <= t}
             L == CHOOSE n \in S : \A m \in S : m <= n
  <2>1. S = GivenBy(out, h, t)
    BY DEF GivenBy, Sets, TimeAt, Gives, TimeIn
  <2>2. S \subseteq Nat
    BY DEF Typed
  <2>3. OutputValue(h, t) = IF S = {} THEN NoValue ELSE Given(out[L], h)
    BY DEF OutputValue, Given
  <2>4. IF S = {} THEN v = NoValue
        ELSE \E n \in S : Given(out[n], h) = v /\ \A m \in S : m <= n
    BY <1>1, <2>1 DEF IsShown
  <2> HIDE DEF S
  <2>5. CASE S = {}
    BY <2>3, <2>4, <2>5
  <2>6. CASE S # {}
    <3>1. PICK n \in S : Given(out[n], h) = v /\ \A m \in S : m <= n
      BY <2>4, <2>6
    <3>2. \A k \in S : (\A m \in S : m <= k) => k = n
      BY <2>2, <3>1
    <3>3. L = n
      BY <3>1, <3>2
    <3> QED
      BY <2>3, <2>6, <3>1, <3>3
  <2> QED
    BY <2>5, <2>6
<1>3. SourceValue(h, t) = v
  <2> DEFINE S == {n \in DOMAIN items : items[n].handle = h /\ items[n].time <= t}
             L == CHOOSE n \in S : \A m \in S : m <= n
  <2>1. S = HeldBy(Len(items), h, t)
    BY DEF HeldBy, Typed
  <2>2. S \subseteq Nat
    BY DEF Typed
  <2>3. SourceValue(h, t) = IF S = {} THEN NoValue ELSE items[L].value
    BY DEF SourceValue
  <2>4. IF S = {} THEN v = NoValue
        ELSE \E n \in S : items[n].value = v /\ \A m \in S : m <= n
    BY <1>1, <2>1 DEF IsHeld
  <2> HIDE DEF S
  <2>5. CASE S = {}
    BY <2>3, <2>4, <2>5
  <2>6. CASE S # {}
    <3>1. PICK n \in S : items[n].value = v /\ \A m \in S : m <= n
      BY <2>4, <2>6
    <3>2. \A k \in S : (\A m \in S : m <= k) => k = n
      BY <2>2, <3>1
    <3>3. L = n
      BY <3>1, <3>2
    <3> QED
      BY <2>3, <2>6, <3>1, <3>3
  <2> QED
    BY <2>5, <2>6
<1> QED
  BY <1>2, <1>3

\* The invariant holds the two properties of a finished output.
LEMMA FInvMeans == IInv /\ FInv => Faithful /\ EndsAtLastTime
<1> SUFFICES ASSUME IInv, FInv, result = "ok", Monotone
             PROVE  Faithful /\ EndsAtLastTime
  BY DEF Faithful, EndsAtLastTime
<1>1. Typed /\ Shown(out, TrueEnd, Len(items))
  BY DEF IInv, FInv
<1>2. Start \in Nat /\ End \in Nat \cup {NoEnd} /\ finalTime \in Nat
  BY <1>1, WindowOpen DEF Typed
<1>3. \A n \in DOMAIN items : items[n].time \in Nat
  <2>1. \A n \in DOMAIN items : items[n] \in Item
    BY <1>1 DEF Typed
  <2> QED
    BY <2>1 DEF Item
<1>4. LastTime \in Nat
  BY <1>2 DEF LastTime, Later, NoEnd
<1>5. Faithful
  <2> SUFFICES ASSUME NEW h \in Selected,
                      NEW t \in {items[n].time : n \in DOMAIN items} \cup {Start, LastTime},
                      t >= Start, ~PastEnd(t)
               PROVE  OutputValue(h, t) = SourceValue(h, t)
    BY DEF Faithful
  <2>1. t \in Nat
    BY <1>2, <1>3, <1>4
  <2>2. InWindow(t)
    BY <1>2, <2>1 DEF InWindow
  <2> QED
    BY <1>1, <2>1, <2>2, ShownIsFaithful
<1>6. EndsAtLastTime
  <2>1. Len(out) \in Nat /\ Len(items) \in Nat /\ (items = << >> <=> Len(items) = 0)
    BY <1>1 DEF Typed
  <2>2. TimeAt(Len(out)) = TrueEnd
    <3>1. TimeIs(out, Len(out), TrueEnd)
      BY <1>1 DEF Shown
    <3>2. TimeIn(out, Len(out)) = TrueEnd
      BY <2>1, <3>1, TimeUnique
    <3> QED
      BY <3>2 DEF TimeAt, TimeIn
  <2>3. TimeAfter(Len(items)) = IF items = << >> THEN Start ELSE Later(Start, items[Len(items)].time)
    BY <1>2, <2>1 DEF TimeAfter, Later
  <2> QED
    BY <2>2, <2>3 DEF EndsAtLastTime, TrueEnd
<1> QED
  BY <1>5, <1>6

\* At every time of the window, every selected signal has in a finished export the value
\* it has in the sources, if their times do not decrease: for all sources, windows,
\* selections and formats.
THEOREM ExportIsFaithful == Spec => []Faithful
<1>1. Init => IInv /\ FInv
  BY InitInv, ExportAssumption, FInit
<1>2. IInv /\ FInv /\ [Next]_vars => (IInv /\ FInv)'
  BY StepInv, ExportAssumption, FStep
<1>3. IInv /\ FInv => Faithful
  BY FInvMeans
<1> QED
  BY <1>1, <1>2, <1>3, PTL DEF Spec

\* A finished export ends at End, or without End at the last time of its sources, even if
\* nothing changes there.
THEOREM EndIsReached == Spec => []EndsAtLastTime
<1>1. Init => IInv /\ FInv
  BY InitInv, ExportAssumption, FInit
<1>2. IInv /\ FInv /\ [Next]_vars => (IInv /\ FInv)'
  BY StepInv, ExportAssumption, FStep
<1>3. IInv /\ FInv => EndsAtLastTime
  BY FInvMeans
<1> QED
  BY <1>1, <1>2, <1>3, PTL DEF Spec

=============================================================================
