------------------------------ MODULE DiffCompare ------------------------------
(***************************************************************************)
(* The streaming comparison of wavediff (src/diff.rs): two sender threads  *)
(* push batches of signal changes through bounded channels, the main       *)
(* thread matches the changes of set 1 against those of set 2              *)
(* (compare_signal_channels), and diff_wave_sets joins the senders and     *)
(* picks the result.                                                       *)
(*                                                                         *)
(* A channel is the sequence its sender will send, the number of batches   *)
(* sent and the number received.  A signal is its handle: the names that   *)
(* share a handle are written together and are not told apart.             *)
(***************************************************************************)
EXTENDS Integers, Sequences, FiniteSets

CONSTANTS
  Handles1, Handles2,  \* handles of the two merged hierarchies
  SignalMap2,          \* keys of hier2.signal_map: the handles left by --filter
  Mapping,             \* handle_mapping: handle of set 1 -> its handles in set 2
  Values, NoValue,     \* signal values; NoValue is Rust's None
  Close,               \* approx_eq, as a set of pairs of values
  ChannelBound,        \* CHANNEL_BOUND
  Inputs,              \* the pairs of batch streams the senders may produce
  FailureSets,         \* which senders may stop with a reader error
  WriterMayFail        \* whether a writeln! may return an error

Side == 1..2
NoTime == -1

Change(H) == [handle : H, value : Values]
Batch(H)  == [time : Nat, changes : Seq(Change(H))]

ASSUME DiffAssumption ==
  /\ Mapping \in [Handles1 -> Seq(Handles2)]
  /\ SignalMap2 \subseteq Handles2
  /\ NoValue \notin Values
  /\ Close \subseteq Values \X Values
  /\ ChannelBound \in Nat \ {0}
  /\ \A in \in Inputs : in[1] \in Seq(Batch(Handles1)) /\ in[2] \in Seq(Batch(Handles2))
  /\ FailureSets \subseteq SUBSET Side
  /\ WriterMayFail \in BOOLEAN

\* A batch is only flushed when it holds a change.
ASSUME BatchesNotEmpty ==
  \A in \in Inputs : \A s \in Side : \A n \in DOMAIN in[s] : in[s][n].changes # << >>

\* A handle is mapped to each of its counterparts once (HandleMapping!MappingExact).
ASSUME MappedOnce ==
  \A h \in Handles1 : \A m, n \in DOMAIN Mapping[h] : Mapping[h][m] = Mapping[h][n] => m = n

VARIABLES
  stream,       \* stream[s]: the batches sender s produces before its file ends or fails
  fails,        \* senders whose reader ends with an error
  sent, recvd,  \* batches sent to and received from each channel
  sender,       \* each sender thread: "running", "ok" or "err" once it returned
  rxOpen,       \* both receivers alive: compare_signal_channels has not returned
  pc,           \* where compare_signal_channels is
  k, j,         \* current change of the set 1 batch, current handle of its mapping
  found,        \* found: first value of the target in the batch just read
  sawTime,      \* saw_time_in_source2
  buffered2,    \* buffered2: (time, handle) -> value
  matched,      \* matched_at_current_time
  prevTime,     \* prev_time
  source2Ended, \* source2_ended
  hasDiff,      \* has_differences
  rows,         \* the difference rows written so far
  cmp,          \* what compare_signal_channels returned
  result        \* what diff_wave_sets returned

channels   == <<stream, fails, sent, recvd, sender, rxOpen>>
cursor     == <<k, j, found, sawTime>>
comparison == <<buffered2, matched, prevTime, source2Ended, hasDiff, rows>>
vars == <<channels, pc, cursor, comparison, cmp, result>>

-------------------------------------------------------------------------------
(* Streams, batches and rows. *)

BatchHandles(b) == {b.changes[i].handle : i \in DOMAIN b.changes}
BatchKeys(b)    == {<<b.time, h>> : h \in BatchHandles(b)}

\* The value the first, or the last, change of batch b gives handle h.
FirstValue(b, h) ==
  b.changes[CHOOSE i \in DOMAIN b.changes :
              /\ b.changes[i].handle = h
              /\ \A m \in DOMAIN b.changes : b.changes[m].handle = h => i <= m].value
LastValue(b, h) ==
  b.changes[CHOOSE i \in DOMAIN b.changes :
              /\ b.changes[i].handle = h
              /\ \A m \in DOMAIN b.changes : b.changes[m].handle = h => m <= i].value

\* buffered2 after every change of batch b was inserted: later inserts overwrite.
Inserted(buf, b) ==
  [key \in DOMAIN buf \cup BatchKeys(b) |->
     IF key \in BatchKeys(b) THEN LastValue(b, key[2]) ELSE buf[key]]

\* Mutant: everything at time t is evicted, matched or not.
EvictedWhole(buf, t, hs) ==
  [key \in {e \in DOMAIN buf : e[1] # t} |-> buf[key]]

\* buffered2 without the entries of the handles in hs at time t.
Evicted(buf, t, hs) ==
  [key \in DOMAIN buf \ {<<t, h>> : h \in hs} |-> buf[key]]

\* Mutant: entries are only evicted when set 1 ends.
EvictedAtNever(t) == buffered2

\* buffered2 when set 1 moves on to a batch at time t.
EvictedAt(t) ==
  IF prevTime \notin {NoTime, t} THEN Evicted(buffered2, prevTime, matched) ELSE buffered2

Row(kind, t, h1, h2, v1, v2) ==
  [kind |-> kind, time |-> t, h1 |-> h1, h2 |-> h2, v1 |-> v1, v2 |-> v2]
OnlyIn2(t, h, v) == Row("only_2", t, 0, h, NoValue, v)

-------------------------------------------------------------------------------
(* What the comparator is looking at. *)

Closed(s)    == sender[s] # "running" /\ recvd[s] = sent[s]
HasNext(s)   == recvd[s] < sent[s]
NextBatch(s) == stream[s][recvd[s] + 1]

Batch1   == stream[1][recvd[1]]
Change1  == Batch1.changes[k]
T1       == Batch1.time
Handles2Of(h) == Mapping[h]
Handle2  == Handles2Of(Change1.handle)[j]
Key      == <<T1, Handle2>>

\* Mutant: a batch past the time counts as one at the time.
AtTimeOrLater(b) == b.time >= T1

AtTime(b) == b.time = T1

HasChange == k <= Len(Batch1.changes)
HasPair   == HasChange /\ j <= Len(Handles2Of(Change1.handle))

\* found.or_else(|| buffered2.get(..)): the value of set 2 to compare with, if any.
HasValue2 == found # NoValue \/ Key \in DOMAIN buffered2
Value2    == IF found # NoValue THEN found ELSE buffered2[Key]

\* Mutant: a change that set 2 lacks is passed over.
PairRowsLenient ==
  IF HasValue2 /\ <<Change1.value, Value2>> \notin Close
  THEN {Row("ne", T1, Change1.handle, Handle2, Change1.value, Value2)}
  ELSE {}

\* The rows that the comparison of the current pair writes.
PairRows ==
  IF HasValue2
  THEN IF <<Change1.value, Value2>> \in Close
       THEN {}
       ELSE {Row("ne", T1, Change1.handle, Handle2, Change1.value, Value2)}
  ELSE {Row(IF sawTime THEN "not_in_2" ELSE "missing_time",
            T1, Change1.handle, Handle2, Change1.value, NoValue)}

\* The rows of the entries left in the buffer once set 1 has ended.
LeftoverRows ==
  {OnlyIn2(key[1], key[2], buffered2[key]) :
     key \in {e \in DOMAIN buffered2 : e[2] \in SignalMap2}}

\* The rows of a batch of set 2 that no change of set 1 made the comparator read.
DrainRows(b) ==
  {OnlyIn2(b.time, b.changes[i].handle, b.changes[i].value) :
     i \in {m \in DOMAIN b.changes : b.changes[m].handle \in SignalMap2}}

\* The rows the comparator's next step writes.
RowsDue ==
  CASE pc = "compare"                -> PairRows
    [] pc = "leftover"               -> LeftoverRows
    [] pc = "drain" /\ HasNext(2)    -> DrainRows(NextBatch(2))
    [] OTHER                         -> {}

-------------------------------------------------------------------------------
Init ==
  /\ stream \in Inputs /\ fails \in FailureSets
  /\ sent = [s \in Side |-> 0] /\ recvd = [s \in Side |-> 0]
  /\ sender = [s \in Side |-> "running"] /\ rxOpen = TRUE
  /\ pc = "batch1" /\ k = 1 /\ j = 1 /\ found = NoValue /\ sawTime = FALSE
  /\ buffered2 = << >> /\ matched = {} /\ prevTime = NoTime
  /\ source2Ended = FALSE /\ hasDiff = FALSE /\ rows = {}
  /\ cmp = "none" /\ result = "none"

-------------------------------------------------------------------------------
(* The sender threads. *)

\* Mutant: the receivers outlive compare_signal_channels.
CanSendWhileRoom(s) == sent[s] - recvd[s] < ChannelBound

\* tx.send blocks while the channel is full; once the receiver is gone it
\* returns an error, which the sender ignores.
CanSend(s) == rxOpen => sent[s] - recvd[s] < ChannelBound

Send(s) ==
  /\ sender[s] = "running" /\ sent[s] < Len(stream[s])
  /\ CanSend(s)
  /\ sent' = [sent EXCEPT ![s] = @ + 1]
  /\ UNCHANGED <<stream, fails, recvd, sender, rxOpen, pc, cursor, comparison, cmp, result>>

\* Mutant: the thread returns before its last batch is sent.
FinishEarly(s) ==
  /\ sender[s] = "running"
  /\ sender' = [sender EXCEPT ![s] = IF s \in fails THEN "err" ELSE "ok"]
  /\ UNCHANGED <<stream, fails, sent, recvd, rxOpen, pc, cursor, comparison, cmp, result>>

\* The reader reached its end, or stopped with an error: the thread drops its
\* channel end and returns.
Finish(s) ==
  /\ sender[s] = "running" /\ sent[s] = Len(stream[s])
  /\ sender' = [sender EXCEPT ![s] = IF s \in fails THEN "err" ELSE "ok"]
  /\ UNCHANGED <<stream, fails, sent, recvd, rxOpen, pc, cursor, comparison, cmp, result>>

-------------------------------------------------------------------------------
(* compare_signal_channels. *)

Receive(s) == recvd' = [recvd EXCEPT ![s] = @ + 1]

\* for batch1 in &rx1: a new time evicts what was matched at the previous one.
TakeBatch1 ==
  /\ pc = "batch1" /\ HasNext(1)
  /\ Receive(1)
  /\ LET t == NextBatch(1).time IN
     /\ buffered2' = EvictedAt(t)
     /\ matched' = IF prevTime = t THEN matched ELSE {}
     /\ prevTime' = t
  /\ k' = 1 /\ j' = 1 /\ pc' = "pair"
  /\ UNCHANGED <<stream, fails, sent, sender, rxOpen, found, sawTime,
                 source2Ended, hasDiff, rows, cmp, result>>

\* Set 1 ended: evict what was matched at its last time.
EndOfSet1 ==
  /\ pc = "batch1" /\ Closed(1)
  /\ buffered2' = Evicted(buffered2, prevTime, matched)
  /\ pc' = "leftover"
  /\ UNCHANGED <<channels, cursor, matched, prevTime, source2Ended, hasDiff, rows, cmp, result>>

\* The two for loops over the changes of the batch and the handles of a change.
NextChange ==
  /\ pc = "pair" /\ HasChange /\ ~HasPair
  /\ k' = k + 1 /\ j' = 1
  /\ UNCHANGED <<channels, pc, found, sawTime, comparison, cmp, result>>

BatchDone ==
  /\ pc = "pair" /\ ~HasChange
  /\ pc' = "batch1"
  /\ UNCHANGED <<channels, cursor, comparison, cmp, result>>

Lookup ==
  /\ pc = "pair" /\ HasPair
  /\ found' = NoValue /\ sawTime' = FALSE
  /\ pc' = IF Key \notin DOMAIN buffered2 /\ ~source2Ended THEN "read_ahead" ELSE "compare"
  /\ UNCHANGED <<channels, k, j, comparison, cmp, result>>

\* Read one batch of set 2 into the buffer; stop at the target or past its time.
ReadAhead ==
  /\ pc = "read_ahead" /\ HasNext(2)
  /\ Receive(2)
  /\ LET b   == NextBatch(2)
         hit == Key \in BatchKeys(b)
     IN /\ found' = IF hit THEN FirstValue(b, Handle2) ELSE found
        /\ sawTime' = (sawTime \/ AtTime(b))
        /\ buffered2' = Inserted(buffered2, b)
        /\ pc' = IF hit \/ b.time > T1 THEN "compare" ELSE "read_ahead"
  /\ UNCHANGED <<stream, fails, sent, sender, rxOpen, k, j,
                 matched, prevTime, source2Ended, hasDiff, rows, cmp, result>>

EndOfSet2 ==
  /\ pc = "read_ahead" /\ Closed(2)
  /\ source2Ended' = TRUE /\ pc' = "compare"
  /\ UNCHANGED <<channels, cursor, buffered2, matched, prevTime, hasDiff, rows, cmp, result>>

\* Compare the pair, or report that set 2 lacks it, and go on to the next pair.
Compare ==
  /\ pc = "compare"
  /\ matched' = IF HasValue2 THEN matched \cup {Handle2} ELSE matched
  /\ rows' = rows \cup PairRows
  /\ hasDiff' = (hasDiff \/ PairRows # {})
  /\ j' = j + 1 /\ pc' = "pair"
  /\ UNCHANGED <<channels, k, found, sawTime, buffered2, prevTime, source2Ended, cmp, result>>

Verdict(differs) == IF differs THEN "differ" ELSE "same"

\* Report the unmatched buffer entries; with set 2 already at its end, return.
Leftover ==
  /\ pc = "leftover"
  /\ rows' = rows \cup LeftoverRows
  /\ hasDiff' = (hasDiff \/ LeftoverRows # {})
  /\ buffered2' = << >>
  /\ IF source2Ended
     THEN pc' = "returned" /\ cmp' = Verdict(hasDiff') /\ rxOpen' = FALSE
     ELSE pc' = "drain" /\ UNCHANGED <<cmp, rxOpen>>
  /\ UNCHANGED <<stream, fails, sent, recvd, sender, cursor,
                 matched, prevTime, source2Ended, result>>

DrainBatch ==
  /\ pc = "drain" /\ HasNext(2)
  /\ Receive(2)
  /\ rows' = rows \cup DrainRows(NextBatch(2))
  /\ hasDiff' = (hasDiff \/ DrainRows(NextBatch(2)) # {})
  /\ UNCHANGED <<stream, fails, sent, sender, rxOpen, pc, cursor,
                 buffered2, matched, prevTime, source2Ended, cmp, result>>

DrainEnd ==
  /\ pc = "drain" /\ Closed(2)
  /\ pc' = "returned" /\ cmp' = Verdict(hasDiff) /\ rxOpen' = FALSE
  /\ UNCHANGED <<stream, fails, sent, recvd, sender, cursor, comparison, result>>

\* A writeln! fails after some of the due rows: `?` returns and drops the receivers.
WriteError ==
  /\ WriterMayFail /\ RowsDue # {}
  /\ \E part \in SUBSET RowsDue : rows' = rows \cup part
  /\ hasDiff' = TRUE
  /\ pc' = "returned" /\ cmp' = "error" /\ rxOpen' = FALSE
  /\ UNCHANGED <<stream, fails, sent, recvd, sender, cursor,
                 buffered2, matched, prevTime, source2Ended, result>>

-------------------------------------------------------------------------------
\* Mutant: the results of the threads are dropped.
JoinedResultOfComparison == cmp

\* diff_wave_sets joins both threads before it looks at any result.
JoinedResult ==
  IF cmp = "error" \/ \E s \in Side : sender[s] = "err" THEN "error" ELSE cmp

Join ==
  /\ pc = "returned" /\ \A s \in Side : sender[s] # "running"
  /\ result' = JoinedResult
  /\ pc' = "joined"
  /\ UNCHANGED <<channels, cursor, comparison, cmp>>

\* diff_wave_sets has returned.
Done == pc = "joined" /\ UNCHANGED vars

Sender(s) == Send(s) \/ Finish(s)
Comparator ==
  \/ TakeBatch1 \/ EndOfSet1 \/ NextChange \/ BatchDone
  \/ Lookup \/ ReadAhead \/ EndOfSet2 \/ Compare
  \/ Leftover \/ DrainBatch \/ DrainEnd \/ WriteError \/ Join

Next == (\E s \in Side : Sender(s)) \/ Comparator \/ Done

\* The operating system keeps scheduling every thread that is not blocked.
Fairness == (\A s \in Side : WF_vars(Sender(s))) /\ WF_vars(Comparator)

Spec == Init /\ [][Next]_vars /\ Fairness

-------------------------------------------------------------------------------
(* Properties. *)

Changes(s) == UNION {{<<n, i>> : i \in DOMAIN stream[s][n].changes} : n \in DOMAIN stream[s]}
TimeOf(s, c)   == stream[s][c[1]].time
HandleOf(s, c) == stream[s][c[1]].changes[c[2]].handle
ValueOf(s, c)  == stream[s][c[1]].changes[c[2]].value

MappedTo(h1) == {Mapping[h1][m] : m \in DOMAIN Mapping[h1]}

\* Change c1 of set 1 is compared with change c2 of set 2: same time, mapped handle.
Counterparts(c1, c2) ==
  /\ TimeOf(1, c1) = TimeOf(2, c2)
  /\ HandleOf(2, c2) \in MappedTo(HandleOf(1, c1))

Keys2 == Nat \X Handles2

ChannelsOK ==
  /\ stream \in Inputs /\ fails \in FailureSets
  /\ sent \in [Side -> Nat] /\ recvd \in [Side -> Nat]
  /\ sender \in [Side -> {"running", "ok", "err"}] /\ rxOpen \in BOOLEAN
  /\ \A s \in Side : /\ recvd[s] <= sent[s] /\ sent[s] <= Len(stream[s])
                     /\ sender[s] # "running" => sent[s] = Len(stream[s])

ComparatorOK ==
  /\ pc \in {"batch1", "pair", "read_ahead", "compare",
              "leftover", "drain", "returned", "joined"}
  /\ k \in Nat \ {0} /\ j \in Nat \ {0}
  /\ found \in Values \cup {NoValue} /\ sawTime \in BOOLEAN
  /\ DOMAIN buffered2 \subseteq Keys2 /\ \A key \in DOMAIN buffered2 : buffered2[key] \in Values
  /\ matched \subseteq Handles2 /\ prevTime \in Nat \cup {NoTime}
  /\ source2Ended \in BOOLEAN /\ hasDiff \in BOOLEAN
  /\ cmp \in {"none", "same", "differ", "error"}
  /\ result \in {"none", "same", "differ", "error"}

\* The cursors point into the batch being compared.
CursorOK ==
  /\ pc \in {"pair", "read_ahead", "compare"} => recvd[1] > 0 /\ prevTime = T1
  /\ pc \in {"read_ahead", "compare"} => HasPair

\* Every variable has its type: received batches were sent, sent ones are of the
\* stream, and a comparison is about a change and a handle that exist.
TypeOK == ChannelsOK /\ ComparatorOK /\ CursorOK

\* No reader or writer failure is ever presented as a comparison result, however
\* the threads interleave (exit code 2 is not mistaken for 0 or 1).
ErrorNeverHidden ==
  result \in {"same", "differ"} => fails = {} /\ cmp = result

\* A change of set 2 that was received is still buffered, was reported, or has a
\* counterpart among the changes of set 1 received so far: eviction and
\* overwriting lose nothing that was never compared.
NothingLost ==
  \A c2 \in Changes(2) :
    c2[1] <= recvd[2] /\ HandleOf(2, c2) \in SignalMap2 =>
      \/ <<TimeOf(2, c2), HandleOf(2, c2)>> \in DOMAIN buffered2
      \/ hasDiff
      \/ \E c1 \in Changes(1) : c1[1] <= recvd[1] /\ Counterparts(c1, c2)

\* The answer "same" is right for all streams, even with repeated values and with
\* times that go back: every change of set 1 has an equal counterpart for each
\* handle it is mapped to, and every change of set 2 has a counterpart.
Agreement ==
  /\ \A c1 \in Changes(1) : \A h2 \in MappedTo(HandleOf(1, c1)) :
       \E c2 \in Changes(2) :
         /\ TimeOf(2, c2) = TimeOf(1, c1) /\ HandleOf(2, c2) = h2
         /\ <<ValueOf(1, c1), ValueOf(2, c2)>> \in Close
  /\ \A c2 \in Changes(2) : HandleOf(2, c2) \in SignalMap2 =>
       \E c1 \in Changes(1) : Counterparts(c1, c2)
SameIsSound == result = "same" => Agreement

\* Inputs in time order, in which a signal changes at most once at a time: changes come
\* by increasing time, and those of one time are of different signals.
InOrder(batches) ==
  /\ \A m, n \in DOMAIN batches : m < n => batches[m].time <= batches[n].time
  /\ \A m, n \in DOMAIN batches :
       \A i \in DOMAIN batches[m].changes, l \in DOMAIN batches[n].changes :
         /\ batches[m].time = batches[n].time /\ <<m, i>> # <<n, l>>
         => batches[m].changes[i].handle # batches[n].changes[l].handle
OrderlyInputs == {in \in Inputs : \A s \in Side : InOrder(in[s])}
Orderly == stream \in OrderlyInputs

\* Rows are true and written once: "(not in file2)" is only said of a time at which
\* file 2 has a change, and of orderly streams no row is written twice: what the next
\* step will write was not written before.
RowsTrue ==
  /\ \A r \in rows : r.kind = "not_in_2" => \E c2 \in Changes(2) : TimeOf(2, c2) = r.time
  /\ Orderly => RowsDue \cap rows = {}

\* The comparison always returns and both threads are joined, after failures too.
Termination == <>(pc = "joined")

-------------------------------------------------------------------------------
(* What the documentation says of the comparison. *)

\* README.md: exit code 0 means that the files are identical, so a file compared
\* with itself does not differ.
SelfDiffIsSame == stream[1] = stream[2] => result # "differ"

-------------------------------------------------------------------------------
(* The comparison implements DiffSpec, which promises the most for orderly   *)
(* streams.                                                                  *)

\* A reported row, without the reason given for a value missing in file 2.
Difference(r) ==
  IF r.kind \in {"not_in_2", "missing_time"} THEN [r EXCEPT !.kind = "only_1"] ELSE r

\* The changes of a stream as facts (time, handle, value), and the differences of two
\* streams, fact by fact.
Facts(batches) ==
  UNION {{<<batches[n].time, batches[n].changes[i].handle, batches[n].changes[i].value>> :
            i \in DOMAIN batches[n].changes} : n \in DOMAIN batches}

Differences(F1, F2) ==
  LET At(t, h) == {f \in F2 : f[1] = t /\ f[2] = h}
      Only1 == UNION {{Row("only_1", f[1], f[2], h2, f[3], NoValue) :
                         h2 \in {h \in MappedTo(f[2]) : At(f[1], h) = {}}} : f \in F1}
      Unequal == UNION {{Row("ne", f[1], f[2], g[2], f[3], g[3]) :
                           g \in {e \in F2 : /\ e[1] = f[1] /\ e[2] \in MappedTo(f[2])
                                             /\ <<f[3], e[3]>> \notin Close}} : f \in F1}
      Only2 == {OnlyIn2(g[1], g[2], g[3]) :
                  g \in {e \in F2 : /\ e[2] \in SignalMap2
                                    /\ \A f \in F1 : f[1] = e[1] => e[2] \notin MappedTo(f[2])}}
  IN Only1 \cup Unequal \cup Only2

Expected == [in \in Inputs |-> Differences(Facts(in[1]), Facts(in[2]))]

Abstract == INSTANCE DiffSpec WITH
  MayFail <- WriterMayFail \/ FailureSets # {{}},
  orderly <- Orderly, expected <- Expected[stream], report <- {Difference(r) : r \in rows}, verdict <- result

\* Every run of the threads reports the differences and decides as DiffSpec says.
Implements == Abstract!Spec

=============================================================================
