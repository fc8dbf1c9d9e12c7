-------------------------------- MODULE SendMerged --------------------------------
(***************************************************************************)
(* One side of a comparison (send_merged_wave_changes, send_wave_changes   *)
(* and read_and_send_signals of src/diff.rs): a thread per reader filters  *)
(* the changes of its file and groups them into batches of one time; the   *)
(* merging thread forwards the batches of all readers, earliest first, to  *)
(* the channel of the comparison. A single reader sends there directly.    *)
(*                                                                         *)
(* A change is its reader and its position in the file; its value and its  *)
(* offset-adjusted handle go with it unchanged.                            *)
(***************************************************************************)
EXTENDS Integers, Sequences, FiniteSets

CONSTANTS
  MaxReaders,    \* bound on readers.len()
  BatchSize,     \* BATCH_SIZE
  ChannelBound,  \* CHANNEL_BOUND
  Start, Ends,   \* the time windows: start, and the ends; NoEnd is None
  Include,       \* Include[r]: the local handles that are sent
  VcdReaders,    \* readers of VCD files; the others read FST files
  Inputs,        \* what the files may hold: for each reader a sequence of changes
  FailureSets    \* which readers may fail after their last change

NoEnd == -1
RawChange == [time : Nat, handle : Nat]

\* Times never decrease within one file.
Monotone(f) == \A m, n \in DOMAIN f : m <= n => f[m].time <= f[n].time

ASSUME SendAssumption ==
  /\ MaxReaders \in Nat \ {0} /\ BatchSize \in Nat \ {0} /\ ChannelBound \in Nat \ {0}
  /\ Start \in Nat /\ Ends \subseteq Nat \cup {NoEnd}
  /\ Include \in [1..MaxReaders -> SUBSET Nat] /\ VcdReaders \subseteq 1..MaxReaders
  /\ \A in \in Inputs : /\ in \in Seq(Seq(RawChange)) /\ Len(in) \in 1..MaxReaders
                       /\ \A r \in DOMAIN in : Monotone(in[r])
  /\ FailureSets \subseteq SUBSET (1..MaxReaders)

VARIABLES
  file, fails,  \* the content of each file, and the readers that fail
  end,          \* the end of the window
  pos,          \* changes read from each file
  batch,        \* the pending batch of each reader thread
  inner,        \* inner channels: the batches in flight
  thread,       \* "reading", "last" (end of the loop), then "ok" or "err"
  pc, cur,      \* where the merging thread is, and the reader it receives from
  heads,        \* heads[r]: no batch or one
  out, recvd,   \* batches sent to the comparison, and how many it received
  rxOpen,       \* the comparison holds its receiver
  result        \* what send_merged_wave_changes returned

readers == <<file, fails, end, pos, batch, thread>>
vars == <<readers, inner, pc, cur, heads, out, recvd, rxOpen, result>>

-------------------------------------------------------------------------------
Readers == DOMAIN file
\* A lone reader holds the channel of the comparison itself.
Direct == Len(file) = 1

(* Changes and batches. *)

Time(x)  == file[x[1]][x[2]].time
BatchTime(b) == Time(b[1])

PastEnd(t) == end # NoEnd /\ t > end
Selected(r, c) == c.time >= Start /\ ~PastEnd(c.time) /\ c.handle \in Include[r]
StopsAt(r, c)  == r \in VcdReaders /\ c.time >= Start /\ PastEnd(c.time)

HasNext(r) == pos[r] < Len(file[r])
NextChange(r) == file[r][pos[r] + 1]

\* Mutant: a batch is cut at its size only.
BatchFull(r) == batch[r] # << >> /\ Len(batch[r]) >= BatchSize

\* The pending batch goes out before the next change joins it.
BatchComplete(r) ==
  batch[r] # << >> /\ (NextChange(r).time # BatchTime(batch[r]) \/ Len(batch[r]) >= BatchSize)

\* Sending to the comparison: it blocks while the channel is full, and does not fail.
OuterRoom == rxOpen => Len(out) - recvd < ChannelBound

\* flush_batch of reader r.
Flush(r) ==
  IF Direct
  THEN OuterRoom /\ out' = Append(out, batch[r]) /\ UNCHANGED inner
  ELSE /\ Len(inner[r]) < ChannelBound
       /\ inner' = [inner EXCEPT ![r] = Append(@, batch[r])] /\ UNCHANGED out

Init ==
  /\ file \in Inputs /\ end \in Ends /\ fails \in FailureSets /\ fails \subseteq Readers
  /\ pos = [r \in Readers |-> 0] /\ batch = [r \in Readers |-> << >>]
  /\ inner = [r \in Readers |-> << >>] /\ thread = [r \in Readers |-> "reading"]
  /\ pc = (IF Direct THEN "direct" ELSE "fill") /\ cur = 1
  /\ heads = [r \in Readers |-> << >>]
  /\ out = << >> /\ recvd = 0 /\ rxOpen = TRUE /\ result = "running"

-------------------------------------------------------------------------------
(* The reader threads. *)

\* A change before Start, past End (FST) or of a handle filtered away.
Skip(r) ==
  /\ thread[r] = "reading" /\ HasNext(r) /\ ~Selected(r, NextChange(r))
  /\ ~StopsAt(r, NextChange(r))
  /\ pos' = [pos EXCEPT ![r] = @ + 1]
  /\ UNCHANGED <<file, fails, end, batch, thread, inner, pc, cur, heads, out, recvd, rxOpen, result>>

Read(r) ==
  /\ thread[r] = "reading" /\ HasNext(r) /\ Selected(r, NextChange(r))
  /\ pos' = [pos EXCEPT ![r] = @ + 1]
  /\ LET x == <<r, pos[r] + 1>> IN
       IF BatchComplete(r)
       THEN Flush(r) /\ batch' = [batch EXCEPT ![r] = <<x>>]
       ELSE batch' = [batch EXCEPT ![r] = Append(@, x)] /\ UNCHANGED <<inner, out>>
  /\ UNCHANGED <<file, fails, end, thread, pc, cur, heads, recvd, rxOpen, result>>

\* The file ends, or the reader fails and `?` drops the pending batch.
EndOfFile(r) ==
  /\ thread[r] = "reading" /\ ~HasNext(r)
  /\ thread' = [thread EXCEPT ![r] = IF r \in fails THEN "err" ELSE "last"]
  /\ UNCHANGED <<file, fails, end, pos, batch, inner, pc, cur, heads, out, recvd, rxOpen, result>>

\* A VCD reader stops at the first change past End, before any failure beyond it.
StopPastEnd(r) ==
  /\ thread[r] = "reading" /\ HasNext(r) /\ StopsAt(r, NextChange(r))
  /\ thread' = [thread EXCEPT ![r] = "last"]
  /\ UNCHANGED <<file, fails, end, pos, batch, inner, pc, cur, heads, out, recvd, rxOpen, result>>

LastFlush(r) ==
  /\ thread[r] = "last" /\ batch[r] # << >>
  /\ Flush(r) /\ batch' = [batch EXCEPT ![r] = << >>]
  /\ UNCHANGED <<file, fails, end, pos, thread, pc, cur, heads, recvd, rxOpen, result>>

\* Mutant: the thread returns without its last batch.
ReturnEarly(r) ==
  /\ thread[r] = "last"
  /\ thread' = [thread EXCEPT ![r] = "ok"]
  /\ UNCHANGED <<file, fails, end, pos, batch, inner, pc, cur, heads, out, recvd, rxOpen, result>>

Return(r) ==
  /\ thread[r] = "last" /\ batch[r] = << >>
  /\ thread' = [thread EXCEPT ![r] = "ok"]
  /\ UNCHANGED <<file, fails, end, pos, batch, inner, pc, cur, heads, out, recvd, rxOpen, result>>

-------------------------------------------------------------------------------
(* The merging thread. *)

Finished(r) == thread[r] \in {"ok", "err"}

AfterReceive ==
  IF pc = "fill" /\ cur < Len(file)
  THEN cur' = cur + 1 /\ UNCHANGED pc
  ELSE pc' = "merge" /\ UNCHANGED cur

Receive ==
  /\ pc \in {"fill", "refill"} /\ inner[cur] # << >>
  /\ heads' = [heads EXCEPT ![cur] = <<Head(inner[cur])>>]
  /\ inner' = [inner EXCEPT ![cur] = Tail(@)]
  /\ AfterReceive
  /\ UNCHANGED <<readers, out, recvd, rxOpen, result>>

Disconnected ==
  /\ pc \in {"fill", "refill"} /\ inner[cur] = << >> /\ Finished(cur)
  /\ AfterReceive
  /\ UNCHANGED <<readers, inner, heads, out, recvd, rxOpen, result>>

\* Mutant: the last reader wins among equal times.
IsMinLast(r) ==
  heads[r] # << >> /\ \A q \in Readers : heads[q] # << >> =>
    \/ BatchTime(heads[r][1]) < BatchTime(heads[q][1])
    \/ BatchTime(heads[r][1]) = BatchTime(heads[q][1]) /\ r >= q

\* min_by_key: the smallest time, the first reader among equals.
IsMin(r) ==
  heads[r] # << >> /\ \A q \in Readers : heads[q] # << >> =>
    \/ BatchTime(heads[r][1]) < BatchTime(heads[q][1])
    \/ BatchTime(heads[r][1]) = BatchTime(heads[q][1]) /\ r <= q

Forward ==
  /\ pc = "merge" /\ OuterRoom
  /\ \E r \in Readers :
       /\ IsMin(r)
       /\ out' = Append(out, heads[r][1])
       /\ heads' = [heads EXCEPT ![r] = << >>]
       /\ cur' = r
  /\ pc' = "refill"
  /\ UNCHANGED <<readers, inner, recvd, rxOpen, result>>

AllForwarded ==
  /\ pc = "merge" /\ \A r \in Readers : heads[r] = << >>
  /\ pc' = "join"
  /\ UNCHANGED <<readers, inner, cur, heads, out, recvd, rxOpen, result>>

\* The threads are joined in order and the first error is returned; a lone reader
\* runs in this thread.
Join ==
  /\ pc \in {"join", "direct"} /\ \A r \in Readers : Finished(r)
  /\ result' = IF \E r \in Readers : thread[r] = "err" THEN "err" ELSE "ok"
  /\ pc' = "returned"
  /\ UNCHANGED <<readers, inner, cur, heads, out, recvd, rxOpen>>

-------------------------------------------------------------------------------
(* The comparison at the other end of the channel. *)

Consume ==
  /\ rxOpen /\ recvd < Len(out)
  /\ recvd' = recvd + 1
  /\ UNCHANGED <<readers, inner, pc, cur, heads, out, rxOpen, result>>

DropReceiver ==
  /\ rxOpen /\ rxOpen' = FALSE
  /\ UNCHANGED <<readers, inner, pc, cur, heads, out, recvd, result>>

Done == pc = "returned" /\ (rxOpen => recvd = Len(out)) /\ UNCHANGED vars

Reader(r) == Skip(r) \/ Read(r) \/ EndOfFile(r) \/ StopPastEnd(r) \/ LastFlush(r) \/ Return(r)
Merger == Receive \/ Disconnected \/ Forward \/ AllForwarded \/ Join
Next == (\E r \in Readers : Reader(r)) \/ Merger \/ Consume \/ DropReceiver \/ Done

\* The threads keep running, and the comparison keeps receiving until it drops its end.
Fairness == (\A r \in 1..MaxReaders : WF_vars(r \in Readers /\ Reader(r))) /\ WF_vars(Merger) /\ WF_vars(Consume)
Spec == Init /\ [][Next]_vars /\ Fairness

-------------------------------------------------------------------------------
(* Properties. *)

\* When no error is returned, every selected change in the window went to the comparison.
WindowComplete ==
  result = "ok" =>
    \A r \in Readers : \A n \in DOMAIN file[r] : Selected(r, file[r][n]) =>
      \E m \in DOMAIN out : \E i \in DOMAIN out[m] : out[m][i] = <<r, n>>

\* The order in which the comparison gets changes: by time, then by reader, and those of
\* one reader as in its file.
Before(x, y) ==
  \/ Time(x) < Time(y)
  \/ Time(x) = Time(y) /\ (x[1] < y[1] \/ (x[1] = y[1] /\ x[2] < y[2]))

\* A batch as the comparison expects it: not empty, of one time, of changes it asked for.
IsBatch(b) ==
  /\ b # << >> /\ Len(b) <= BatchSize
  /\ \A i \in DOMAIN b : /\ Time(b[i]) = BatchTime(b)
                         /\ Selected(b[i][1], file[b[i][1]][b[i][2]])
  /\ \A i, j \in DOMAIN b : i < j => Before(b[i], b[j])

\* Whatever the interleaving, also when readers fail: what was sent so far is in order, so
\* no change is sent twice, and none overtakes an earlier one of a slower reader.
SentInOrder ==
  /\ \A m \in DOMAIN out : IsBatch(out[m])
  /\ \A m, n \in DOMAIN out : m < n =>
       \A i \in DOMAIN out[m], j \in DOMAIN out[n] : Before(out[m][i], out[n][j])

================================================================================
