------------------------------- MODULE KWayMerge -------------------------------
(***************************************************************************)
(* Merging the changes of several files (merge_changes of src/cat.rs,      *)
(* kway_merge_channels of src/lib.rs): one thread per reader sends its     *)
(* changes through a bounded channel; the merging thread keeps one head    *)
(* per channel and passes the head with the smallest time to on_change.    *)
(*                                                                         *)
(* An item is a reader and a position in what that reader sends; the last  *)
(* item of a reader that does not fail is its final-timestamp marker.      *)
(***************************************************************************)
EXTENDS Integers, Sequences, FiniteSets

CONSTANTS
  NReaders,       \* readers.len()
  ChannelBound,   \* CHANNEL_BOUND
  Inputs,         \* the times the readers may send: functions from readers to sequences
  FailureSets,    \* which readers may stop with an error
  StopsOnClosed,  \* readers whose loop breaks when a send fails (VCD), others go on (FST)
  OnChangeMayFail \* whether on_change may return an error

Readers == 1..NReaders

\* Times never decrease within one file.
Monotone(ts) == \A m, n \in DOMAIN ts : m <= n => ts[m] <= ts[n]

ASSUME MergeAssumption ==
  /\ NReaders \in Nat \ {0} /\ ChannelBound \in Nat \ {0}
  /\ \A in \in Inputs : in \in [Readers -> Seq(Nat)] /\ \A r \in Readers : Monotone(in[r])
  /\ FailureSets \subseteq SUBSET Readers /\ StopsOnClosed \subseteq Readers
  /\ OnChangeMayFail \in BOOLEAN

VARIABLES
  times,       \* times[r][n]: time of the n-th item of reader r
  fails,       \* readers that end with an error
  sent, recvd, \* items sent to and received from each channel
  thread,      \* each reader thread: "running", "ok" or "err"
  rxOpen,      \* the receivers have not been dropped
  pc,          \* where the merging thread is
  cur,         \* the reader it receives from
  head,        \* heads[r]: "none", "item" (the last one received) or "end"
  out,         \* items passed to on_change
  result       \* what merge_changes returned

threads == <<times, fails, sent, thread>>
vars == <<threads, recvd, rxOpen, pc, cur, head, out, result>>

-------------------------------------------------------------------------------
\* Mutant: a reader that has returned has nothing left in its channel.
ClosedEarly(r) == thread[r] # "running"

Closed(r)   == thread[r] # "running" /\ recvd[r] = sent[r]
HasNext(r)  == recvd[r] < sent[r]
HeadTime(r) == times[r][recvd[r]]
ItemTime(x) == times[x[1]][x[2]]

Init ==
  /\ times \in Inputs /\ fails \in FailureSets
  /\ \A r \in Readers \ fails : times[r] # << >>  \* at least the marker
  /\ sent = [r \in Readers |-> 0] /\ recvd = [r \in Readers |-> 0]
  /\ thread = [r \in Readers |-> "running"] /\ rxOpen = TRUE
  /\ pc = "fill" /\ cur = 1 /\ head = [r \in Readers |-> "none"]
  /\ out = << >> /\ result = "none"

-------------------------------------------------------------------------------
(* The reader threads (send_cat_changes). *)

\* The next item is sent when the channel has room.
Send(r) ==
  /\ thread[r] = "running" /\ sent[r] < Len(times[r]) /\ rxOpen
  /\ sent[r] - recvd[r] < ChannelBound
  /\ sent' = [sent EXCEPT ![r] = @ + 1]
  /\ UNCHANGED <<times, fails, thread, recvd, rxOpen, pc, cur, head, out, result>>

\* Mutant: the receivers are kept until merge_changes returns.
SendFailsNever(r) == FALSE /\ UNCHANGED vars

\* The receivers are gone: a VCD reader stops and returns Ok, a FST reader reads on.
SendFails(r) ==
  /\ thread[r] = "running" /\ sent[r] < Len(times[r]) /\ ~rxOpen
  /\ IF r \in StopsOnClosed
     THEN thread' = [thread EXCEPT ![r] = "ok"] /\ UNCHANGED sent
     ELSE sent' = [sent EXCEPT ![r] = @ + 1] /\ UNCHANGED thread
  /\ UNCHANGED <<times, fails, recvd, rxOpen, pc, cur, head, out, result>>

\* The file ended, and its marker was sent, or the reader failed.
Finish(r) ==
  /\ thread[r] = "running" /\ sent[r] = Len(times[r])
  /\ thread' = [thread EXCEPT ![r] = IF r \in fails THEN "err" ELSE "ok"]
  /\ UNCHANGED <<times, fails, sent, recvd, rxOpen, pc, cur, head, out, result>>

-------------------------------------------------------------------------------
(* The merging thread. *)

\* heads are first filled in reader order; afterwards only the taken one is refilled.
AfterReceive ==
  IF pc = "fill" /\ cur < NReaders
  THEN pc' = "fill" /\ cur' = cur + 1
  ELSE pc' = "merge" /\ UNCHANGED cur

Receive ==
  /\ pc \in {"fill", "refill"} /\ HasNext(cur)
  /\ recvd' = [recvd EXCEPT ![cur] = @ + 1]
  /\ head' = [head EXCEPT ![cur] = "item"]
  /\ AfterReceive
  /\ UNCHANGED <<threads, rxOpen, out, result>>

\* rx.recv().ok() is None: the reader has returned and its channel is empty.
Disconnected ==
  /\ pc \in {"fill", "refill"} /\ Closed(cur)
  /\ head' = [head EXCEPT ![cur] = "end"]
  /\ AfterReceive
  /\ UNCHANGED <<threads, recvd, rxOpen, out, result>>

\* Mutant: the last reader among equals.
IsMinLast(r) ==
  head[r] = "item" /\ \A q \in Readers : head[q] = "item" =>
    HeadTime(r) < HeadTime(q) \/ (HeadTime(r) = HeadTime(q) /\ r >= q)

\* min_by_key: the smallest time, the first reader among equals.
IsMin(r) ==
  head[r] = "item" /\ \A q \in Readers : head[q] = "item" =>
    HeadTime(r) < HeadTime(q) \/ (HeadTime(r) = HeadTime(q) /\ r <= q)

Deliver ==
  /\ pc = "merge"
  /\ \E r \in Readers :
       /\ IsMin(r)
       /\ out' = Append(out, <<r, recvd[r]>>)
       /\ head' = [head EXCEPT ![r] = "none"]
       /\ cur' = r
  /\ pc' = "refill"
  /\ UNCHANGED <<threads, recvd, rxOpen, result>>

\* on_change fails: the merge returns the error and the receivers are dropped.
DeliverFails ==
  /\ OnChangeMayFail
  /\ pc = "merge" /\ \E r \in Readers : head[r] = "item"
  /\ pc' = "failed" /\ rxOpen' = FALSE
  /\ UNCHANGED <<threads, recvd, cur, head, out, result>>

AllMerged ==
  /\ pc = "merge" /\ \A r \in Readers : head[r] # "item"
  /\ pc' = "merged"
  /\ UNCHANGED <<threads, recvd, rxOpen, cur, head, out, result>>

\* Mutant: only the merge is asked for its result.
JoinedResultOfMerge == IF pc = "failed" THEN "error" ELSE "ok"

\* merge_result? before thread_result?
JoinedResult ==
  IF pc = "failed" \/ \E r \in Readers : thread[r] = "err" THEN "error" ELSE "ok"

Join ==
  /\ pc \in {"merged", "failed"} /\ \A r \in Readers : thread[r] # "running"
  /\ result' = JoinedResult /\ pc' = "returned"
  /\ UNCHANGED <<threads, recvd, rxOpen, cur, head, out>>

Done == pc = "returned" /\ UNCHANGED vars

Reader(r) == Send(r) \/ SendFails(r) \/ Finish(r)
Merger == Receive \/ Disconnected \/ Deliver \/ DeliverFails \/ AllMerged \/ Join
Next == (\E r \in Readers : Reader(r)) \/ Merger \/ Done

\* Every thread that is not blocked keeps running.
Fairness == (\A r \in Readers : WF_vars(Reader(r))) /\ WF_vars(Merger)
Spec == Init /\ [][Next]_vars /\ Fairness

-------------------------------------------------------------------------------
(* Properties. *)

\* Every variable has its type; a reader that has not met a closed channel has sent
\* all its items when it returns.
TypeOK ==
  /\ times \in Inputs /\ fails \in FailureSets
  /\ sent \in [Readers -> Nat] /\ recvd \in [Readers -> Nat]
  /\ thread \in [Readers -> {"running", "ok", "err"}] /\ rxOpen \in BOOLEAN
  /\ pc \in {"fill", "refill", "merge", "merged", "failed", "returned"}
  /\ cur \in Readers /\ head \in [Readers -> {"none", "item", "end"}]
  /\ out \in Seq(Readers \X (Nat \ {0})) /\ result \in {"none", "ok", "error"}
  /\ \A r \in Readers :
       /\ recvd[r] <= sent[r] /\ sent[r] <= Len(times[r])
       /\ thread[r] # "running" /\ rxOpen => sent[r] = Len(times[r])

\* x comes before y in the merge of the files: by time, then file, then position.
Before(x, y) ==
  \/ ItemTime(x) < ItemTime(y)
  \/ ItemTime(x) = ItemTime(y) /\ (x[1] < y[1] \/ (x[1] = y[1] /\ x[2] < y[2]))

\* The changes come out in time order, and changes of one time in the order of the
\* files, so that the output does not depend on how the reader threads run.
MergeSorted ==
  \A m, n \in DOMAIN out : m < n => Before(out[m], out[n])

\* When merge_changes returns Ok, every change and every final timestamp of every
\* file came out.
NothingDropped ==
  result = "ok" => \A r \in Readers : \A n \in DOMAIN times[r] :
                     \E m \in DOMAIN out : out[m] = <<r, n>>

\* A reader error or an output error is returned, never a silent truncation.
FailureReturned == result = "ok" => fails = {}

\* merge_changes always returns: a failed output unblocks and joins every reader.
Termination == <>(pc = "returned")

=============================================================================
