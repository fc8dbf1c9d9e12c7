---------------------------- MODULE SendMergedProofs ----------------------------
(***************************************************************************)
(* No selected change of the window is lost between a file and the         *)
(* comparison (WindowComplete), for any number of readers, any files,      *)
(* windows and filters, any batch size and channel bound, and every        *)
(* interleaving of the threads.                                            *)
(*                                                                         *)
(* The inductive invariant says where a change is: not read yet, in the    *)
(* pending batch of its thread, in its inner channel, in the head the      *)
(* merging thread holds, or sent (Placed); and what has been emptied when  *)
(* each thread stops looking (AllRead, AllFlushed, Refilled, Drained).     *)
(*                                                                         *)
(* The second half shows in which order the changes are sent               *)
(* (SentInOrder): what was sent precedes what is still to come             *)
(* (Frontier), because the batches of each reader stand in a line.         *)
(***************************************************************************)
EXTENDS SendMerged, TLAPS, SequenceTheorems

Batch == Seq(Nat \X Nat)
HeadOf == {q \in Seq(Batch) : Len(q) <= 1}

\* Change x is in batch b; in a batch of q.
In(b, x) == \E i \in DOMAIN b : b[i] = x
InSome(q, x) == \E m \in DOMAIN q : In(q[m], x)

Typed ==
  /\ file \in Inputs /\ end \in Ends
  /\ pos \in [Readers -> Nat] /\ batch \in [Readers -> Batch]
  /\ inner \in [Readers -> Seq(Batch)] /\ heads \in [Readers -> HeadOf]
  /\ out \in Seq(Batch)
  /\ thread \in [Readers -> {"reading", "last", "ok", "err"}]
  /\ pc \in {"direct", "fill", "refill", "merge", "join", "returned"} /\ cur \in Readers

Placed(r, n) ==
  \/ pos[r] < n
  \/ In(batch[r], <<r, n>>)
  \/ InSome(inner[r], <<r, n>>) \/ InSome(heads[r], <<r, n>>)
  \/ InSome(out, <<r, n>>)

\* Nothing selected is lost.
AllPlaced == \A r \in Readers : \A n \in DOMAIN file[r] : Selected(r, file[r][n]) => Placed(r, n)

\* A loop that ended without an error has read all that is selected.
AllRead ==
  \A r \in Readers : thread[r] \in {"last", "ok"} =>
    \A n \in DOMAIN file[r] : Selected(r, file[r][n]) => n <= pos[r]

\* A thread that returned without an error has sent its last batch.
AllFlushed == \A r \in Readers : thread[r] = "ok" => batch[r] = << >>

\* The merging thread receives from a reader only without a head of it, and takes none
\* for exhausted whose channel may still bring a batch.
Waiting(r) == (pc = "fill" /\ cur <= r) \/ (pc = "refill" /\ r = cur)
Asked(r) == (pc = "fill" /\ r < cur) \/ (pc = "refill" /\ r # cur) \/ pc = "merge"

Refilled ==
  \A r \in Readers : /\ Waiting(r) => heads[r] = << >>
                     /\ Asked(r) /\ heads[r] = << >> => inner[r] = << >> /\ Finished(r)

\* When it is done, the channels and the heads are empty, and so they are without it.
Drained ==
  /\ pc \in {"direct", "join", "returned"} =>
       \A r \in Readers : heads[r] = << >> /\ inner[r] = << >>
  /\ pc \in {"join", "returned"} => \A r \in Readers : Finished(r)
  /\ pc = "direct" => Direct
  /\ result = "ok" => pc = "returned" /\ \A r \in Readers : thread[r] = "ok"

IInv == Typed /\ AllPlaced /\ AllRead /\ AllFlushed /\ Refilled /\ Drained

-------------------------------------------------------------------------------
(* Batches in sequences. *)

\* Appending a change to a batch keeps what is in it and adds the change.
LEMMA InAppend ==
  ASSUME NEW S, NEW b \in Seq(S), NEW y \in S
  PROVE  /\ \A x : In(b, x) => In(Append(b, y), x)
         /\ In(Append(b, y), y)
<1>1. /\ DOMAIN b = 1..Len(b) /\ Len(b) \in Nat /\ DOMAIN Append(b, y) = 1..(Len(b) + 1)
      /\ \A i \in DOMAIN b : Append(b, y)[i] = b[i]
      /\ Append(b, y)[Len(b) + 1] = y
  OBVIOUS
<1> QED
  BY <1>1 DEF In

\* A batch sent to a channel joins those that are in it.
LEMMA InSomeAppend ==
  ASSUME NEW q \in Seq(Batch), NEW b \in Batch, NEW x
  PROVE  InSome(q, x) \/ In(b, x) => InSome(Append(q, b), x)
<1>1. /\ DOMAIN q = 1..Len(q) /\ Len(q) \in Nat /\ DOMAIN Append(q, b) = 1..(Len(q) + 1)
      /\ \A m \in DOMAIN q : Append(q, b)[m] = q[m]
      /\ Append(q, b)[Len(q) + 1] = b
  OBVIOUS
<1> QED
  BY <1>1 DEF InSome

\* A batch that is received goes from the channel to the head.
LEMMA InSomeReceived ==
  ASSUME NEW q \in Seq(Batch), q # << >>, NEW x, InSome(q, x)
  PROVE  InSome(<<Head(q)>>, x) \/ InSome(Tail(q), x)
<1>1. PICK m \in DOMAIN q : In(q[m], x)
  BY DEF InSome
<1>2. Len(q) \in Nat /\ DOMAIN q = 1..Len(q) /\ Len(q) # 0
  OBVIOUS
<1>3. CASE m = 1
  <2>1. Head(q) = q[1] /\ DOMAIN <<Head(q)>> = {1} /\ <<Head(q)>>[1] = Head(q)
    BY <1>2
  <2> QED
    BY <1>1, <1>3, <2>1 DEF InSome
<1>4. CASE m # 1
  <2>1. Tail(q) \in Seq(Batch) /\ Len(Tail(q)) = Len(q) - 1
    BY <1>2
  <2>2. m - 1 \in DOMAIN Tail(q) /\ Tail(q)[m - 1] = q[m]
    BY <1>1, <1>2, <1>4, <2>1
  <2> QED
    BY <1>1, <2>2 DEF InSome
<1> QED
  BY <1>3, <1>4

\* Nothing is in an empty sequence, and of one batch only what is in that.
LEMMA InSomeSmall ==
  /\ \A x : ~In(<< >>, x) /\ ~InSome(<< >>, x)
  /\ \A q \in Seq(Batch) : \A x : Len(q) = 1 /\ InSome(q, x) => In(q[1], x)
<1>1. \A x : ~In(<< >>, x) /\ ~InSome(<< >>, x)
  BY DEF In, InSome
<1>2. ASSUME NEW q \in Seq(Batch), NEW x, Len(q) = 1, InSome(q, x)
      PROVE  In(q[1], x)
  <2>1. DOMAIN q = {1}
    BY <1>2
  <2> QED
    BY <1>2, <2>1 DEF InSome
<1> QED
  BY <1>1, <1>2

-------------------------------------------------------------------------------
(* The files. *)

\* What the inputs are: at least one file, each of changes in the order of their times.
LEMMA FilesTyped ==
  ASSUME file \in Inputs
  PROVE  /\ file \in Seq(Seq(RawChange)) /\ Len(file) \in Nat /\ Len(file) >= 1
         /\ Readers = 1..Len(file) /\ 1 \in Readers
         /\ \A r \in Readers : /\ file[r] \in Seq(RawChange) /\ Monotone(file[r])
                               /\ Len(file[r]) \in Nat /\ DOMAIN file[r] = 1..Len(file[r])
                               /\ \A n \in DOMAIN file[r] : file[r][n].time \in Nat
<1>1. /\ file \in Seq(Seq(RawChange)) /\ Len(file) \in 1..MaxReaders /\ MaxReaders \in Nat
      /\ \A r \in DOMAIN file : Monotone(file[r])
  BY SendAssumption
<1>2. Len(file) \in Nat /\ Len(file) >= 1 /\ Readers = 1..Len(file) /\ 1 \in Readers
  BY <1>1 DEF Readers
<1>3. ASSUME NEW r \in Readers
      PROVE  /\ file[r] \in Seq(RawChange) /\ Monotone(file[r])
             /\ Len(file[r]) \in Nat /\ DOMAIN file[r] = 1..Len(file[r])
             /\ \A n \in DOMAIN file[r] : file[r][n].time \in Nat
  <2>1. file[r] \in Seq(RawChange) /\ Monotone(file[r])
    BY <1>1, <1>2 DEF Readers
  <2>2. \A n \in DOMAIN file[r] : file[r][n] \in RawChange
    BY <2>1
  <2> QED
    BY <2>1, <2>2 DEF RawChange
<1> QED
  BY <1>1, <1>2, <1>3

\* After a change past the end, where a VCD reader stops, nothing is selected.
LEMMA NothingAfterEnd ==
  ASSUME Typed, NEW r \in Readers, HasNext(r), StopsAt(r, NextChange(r))
  PROVE  \A n \in DOMAIN file[r] : Selected(r, file[r][n]) => n <= pos[r]
<1>1. /\ Monotone(file[r]) /\ Len(file[r]) \in Nat /\ DOMAIN file[r] = 1..Len(file[r])
      /\ \A n \in DOMAIN file[r] : file[r][n].time \in Nat
  BY FilesTyped DEF Typed
<1>2. pos[r] \in Nat /\ pos[r] + 1 \in DOMAIN file[r]
  BY <1>1 DEF Typed, HasNext
<1>3. end \in Nat /\ file[r][pos[r] + 1].time > end
  <2>1. end \in Nat \cup {NoEnd}
    BY SendAssumption DEF Typed
  <2> QED
    BY <2>1 DEF StopsAt, PastEnd, NextChange
<1>4. \A n \in DOMAIN file[r] : pos[r] < n => file[r][n].time > end
  BY <1>1, <1>2, <1>3 DEF Monotone
<1>5. \A n \in DOMAIN file[r] : Selected(r, file[r][n]) => ~(file[r][n].time > end)
  BY <1>3 DEF Selected, PastEnd, NoEnd
<1> QED
  BY <1>1, <1>2, <1>4, <1>5

-------------------------------------------------------------------------------
(* The steps. *)

\* What flush_batch of reader r does with its batch.
LEMMA Flushed ==
  ASSUME Typed, NEW r \in Readers, Flush(r)
  PROVE  /\ inner' \in [Readers -> Seq(Batch)] /\ out' \in Seq(Batch)
         /\ \A q \in Readers : q # r => inner'[q] = inner[q]
         /\ Direct => inner' = inner
         /\ \A q \in Readers : \A x : InSome(inner[q], x) => InSome(inner'[q], x)
         /\ \A x : InSome(out, x) => InSome(out', x)
         /\ \A x : In(batch[r], x) => InSome(inner'[r], x) \/ InSome(out', x)
<1>1. batch[r] \in Batch /\ out \in Seq(Batch) /\ \A q \in Readers : inner[q] \in Seq(Batch)
  BY DEF Typed
<1>2. CASE Direct
  <2>1. out' = Append(out, batch[r]) /\ inner' = inner
    BY <1>2 DEF Flush
  <2>2. out' \in Seq(Batch)
    BY <1>1, <2>1
  <2>3. \A x : InSome(out, x) \/ In(batch[r], x) => InSome(out', x)
    BY <1>1, <2>1, InSomeAppend
  <2> QED
    BY <2>1, <2>2, <2>3 DEF Typed
<1>3. CASE ~Direct
  <2>1. out' = out /\ inner' = [inner EXCEPT ![r] = Append(@, batch[r])]
    BY <1>3 DEF Flush
  <2>2. inner \in [Readers -> Seq(Batch)]
    BY DEF Typed
  <2>3. inner'[r] = Append(inner[r], batch[r]) /\ \A q \in Readers : q # r => inner'[q] = inner[q]
    BY <2>1, <2>2
  <2>4. inner' \in [Readers -> Seq(Batch)]
    <3>1. Append(inner[r], batch[r]) \in Seq(Batch)
      BY <1>1
    <3> QED
      BY <2>1, <2>2, <3>1
  <2>5. \A x : InSome(inner[r], x) \/ In(batch[r], x) => InSome(inner'[r], x)
    BY <1>1, <2>3, InSomeAppend
  <2> QED
    BY <1>1, <1>3, <2>1, <2>3, <2>4, <2>5
<1> QED
  BY <1>2, <1>3

\* A change that was placed keeps its place unless something moves it.
LEMMA StillPlaced ==
  ASSUME AllPlaced, UNCHANGED <<file, end>>,
         \A r \in Readers : \A n \in DOMAIN file[r] :
           /\ pos[r] < n /\ ~(pos'[r] < n) /\ Selected(r, file[r][n]) => In(batch'[r], <<r, n>>)
           /\ In(batch[r], <<r, n>>) =>
                \/ In(batch'[r], <<r, n>>) \/ InSome(inner'[r], <<r, n>>) \/ InSome(out', <<r, n>>)
           /\ InSome(inner[r], <<r, n>>) => InSome(inner'[r], <<r, n>>) \/ InSome(heads'[r], <<r, n>>)
           /\ InSome(heads[r], <<r, n>>) => InSome(heads'[r], <<r, n>>) \/ InSome(out', <<r, n>>)
           /\ InSome(out, <<r, n>>) => InSome(out', <<r, n>>)
  PROVE  AllPlaced'
<1>1. file' = file /\ end' = end
  OBVIOUS
<1> SUFFICES ASSUME NEW r \in Readers, NEW n \in DOMAIN file[r], Selected(r, file[r][n])
             PROVE  Placed(r, n)'
  BY <1>1 DEF AllPlaced, Readers, Selected, PastEnd
<1>2. Placed(r, n)
  BY DEF AllPlaced
<1> DEFINE x == <<r, n>>
<1>3. \/ pos'[r] < n \/ In(batch'[r], x) \/ InSome(inner'[r], x) \/ InSome(heads'[r], x)
      \/ InSome(out', x)
  BY <1>2 DEF Placed
<1> QED
  BY <1>3 DEF Placed, In, InSome

\* Before the threads start every change is still to be read.
LEMMA InitInv == Init => IInv
<1> SUFFICES ASSUME Init PROVE IInv
  OBVIOUS
<1>1. file \in Inputs /\ end \in Ends
  BY DEF Init
<1>2. Readers = 1..Len(file) /\ 1 \in Readers
  BY <1>1, FilesTyped
<1>3. /\ pos = [r \in Readers |-> 0] /\ batch = [r \in Readers |-> << >>]
      /\ inner = [r \in Readers |-> << >>] /\ heads = [r \in Readers |-> << >>]
      /\ thread = [r \in Readers |-> "reading"] /\ out = << >> /\ cur = 1
      /\ pc = (IF Direct THEN "direct" ELSE "fill") /\ result = "running"
  BY DEF Init
<1>4. Typed
  <2>1. << >> \in Batch /\ << >> \in Seq(Batch) /\ << >> \in HeadOf
    BY DEF Batch, HeadOf
  <2> QED
    BY <1>1, <1>2, <1>3, <2>1 DEF Typed
<1>5. AllPlaced
  <2>1. \A r \in Readers : \A n \in DOMAIN file[r] : pos[r] < n
    BY <1>1, <1>3, FilesTyped
  <2> QED
    BY <2>1 DEF AllPlaced, Placed
<1>6. AllRead /\ AllFlushed /\ Refilled /\ Drained
  BY <1>2, <1>3 DEF AllRead, AllFlushed, Refilled, Waiting, Asked, Drained
<1> QED
  BY <1>4, <1>5, <1>6 DEF IInv

\* A step of reader r touches no other reader, and its inner channel only to send.
LEMMA ReaderKeeps ==
  ASSUME IInv, NEW r \in Readers, ~Finished(r), Typed',
         UNCHANGED <<file, fails, end, pc, cur, heads, result>>,
         \A q \in Readers : q # r => inner'[q] = inner[q] /\ thread'[q] = thread[q]
                                     /\ pos'[q] = pos[q] /\ batch'[q] = batch[q],
         Direct => inner' = inner
  PROVE  Refilled' /\ Drained'
<1>1. Readers' = Readers /\ Direct' = Direct
  BY DEF Readers, Direct
<1>2. \A q \in Readers : /\ Waiting(q)' <=> Waiting(q)
                         /\ Asked(q)' <=> Asked(q)
                         /\ heads'[q] = heads[q]
                         /\ q # r => (Finished(q)' <=> Finished(q))
  BY DEF Waiting, Asked, Finished
<1>3. Refilled'
  <2> SUFFICES ASSUME NEW q \in Readers
               PROVE  /\ Waiting(q)' => heads'[q] = << >>
                      /\ Asked(q)' /\ heads'[q] = << >> => inner'[q] = << >> /\ Finished(q)'
    BY <1>1 DEF Refilled
  <2>1. /\ Waiting(q) => heads[q] = << >>
        /\ Asked(q) /\ heads[q] = << >> => inner[q] = << >> /\ Finished(q)
    BY DEF IInv, Refilled
  <2> QED
    BY <1>2, <2>1
<1>4. Drained'
  <2>1. pc \notin {"join", "returned"} /\ result # "ok"
    BY DEF IInv, Drained
  <2>2. pc = "direct" => Direct /\ inner' = inner
    BY DEF IInv, Drained
  <2> QED
    BY <1>1, <2>1, <2>2 DEF IInv, Drained
<1> QED
  BY <1>3, <1>4

\* The next change of a reader.
LEMMA NextTyped ==
  ASSUME Typed, NEW r \in Readers, HasNext(r)
  PROVE  /\ pos[r] \in Nat /\ pos[r] + 1 \in DOMAIN file[r] /\ <<r, pos[r] + 1>> \in Nat \X Nat
         /\ NextChange(r) = file[r][pos[r] + 1]
         /\ \A n \in DOMAIN file[r] : n \in Nat /\ (pos[r] < n /\ ~(pos[r] + 1 < n) => n = pos[r] + 1)
<1>1. Len(file[r]) \in Nat /\ DOMAIN file[r] = 1..Len(file[r]) /\ r \in Nat
  BY FilesTyped DEF Typed
<1> QED
  BY <1>1 DEF Typed, HasNext, NextChange

\* A change outside the window or the filter is passed over: none is selected.
LEMMA SkipInv ==
  ASSUME IInv, NEW r \in Readers, Skip(r)
  PROVE  IInv'
<1>1. /\ thread[r] = "reading" /\ HasNext(r) /\ ~Selected(r, NextChange(r))
      /\ pos' = [pos EXCEPT ![r] = @ + 1]
      /\ UNCHANGED <<file, fails, end, batch, thread, inner, pc, cur, heads, out, recvd, rxOpen, result>>
  BY DEF Skip
<1>2. /\ pos[r] \in Nat /\ NextChange(r) = file[r][pos[r] + 1] /\ pos \in [Readers -> Nat]
      /\ \A n \in DOMAIN file[r] : n \in Nat /\ (pos[r] < n /\ ~(pos[r] + 1 < n) => n = pos[r] + 1)
  BY <1>1, NextTyped DEF IInv, Typed
<1>3. pos' \in [Readers -> Nat] /\ pos'[r] = pos[r] + 1 /\ \A q \in Readers : q # r => pos'[q] = pos[q]
  BY <1>1, <1>2
<1>4. Typed'
  BY <1>1, <1>3 DEF IInv, Typed, Readers
<1>5. AllPlaced'
  <2>1. \A q \in Readers : \A n \in DOMAIN file[q] : pos[q] < n /\ ~(pos'[q] < n) => ~Selected(q, file[q][n])
    BY <1>1, <1>2, <1>3
  <2> QED
    BY <1>1, <2>1, StillPlaced DEF IInv
<1>6. AllRead' /\ AllFlushed'
  BY <1>1, <1>3 DEF IInv, AllRead, AllFlushed, Readers, Selected, PastEnd
<1>7. Refilled' /\ Drained'
  BY <1>1, <1>3, <1>4, ReaderKeeps DEF Finished
<1> QED
  BY <1>4, <1>5, <1>6, <1>7 DEF IInv

\* A change is pushed to the batch, and a full batch is sent (or its channel is gone).
LEMMA ReadInv ==
  ASSUME IInv, NEW r \in Readers, Read(r)
  PROVE  IInv'
<1> DEFINE x == <<r, pos[r] + 1>>
<1>1. /\ thread[r] = "reading" /\ HasNext(r)
      /\ pos' = [pos EXCEPT ![r] = @ + 1]
      /\ UNCHANGED <<file, fails, end, thread, pc, cur, heads, recvd, rxOpen, result>>
      /\ IF BatchComplete(r)
         THEN Flush(r) /\ batch' = [batch EXCEPT ![r] = <<x>>]
         ELSE batch' = [batch EXCEPT ![r] = Append(@, x)] /\ UNCHANGED <<inner, out>>
  BY DEF Read
<1>2. /\ pos[r] \in Nat /\ x \in Nat \X Nat /\ pos \in [Readers -> Nat]
      /\ batch \in [Readers -> Batch] /\ batch[r] \in Batch
      /\ inner \in [Readers -> Seq(Batch)] /\ out \in Seq(Batch)
      /\ \A n \in DOMAIN file[r] : n \in Nat /\ (pos[r] < n /\ ~(pos[r] + 1 < n) => n = pos[r] + 1)
  BY <1>1, NextTyped DEF IInv, Typed
<1>3. pos' \in [Readers -> Nat] /\ pos'[r] = pos[r] + 1 /\ \A q \in Readers : q # r => pos'[q] = pos[q]
  BY <1>1, <1>2
<1> HIDE DEF x
\* The change is in the batch; what was there is sent or still there.
<1>4. /\ batch' \in [Readers -> Batch] /\ \A q \in Readers : q # r => batch'[q] = batch[q]
      /\ In(batch'[r], x)
      /\ inner' \in [Readers -> Seq(Batch)] /\ out' \in Seq(Batch)
      /\ \A q \in Readers : q # r => inner'[q] = inner[q]
      /\ Direct => inner' = inner
      /\ \A q \in Readers : \A y : InSome(inner[q], y) => InSome(inner'[q], y)
      /\ \A y : InSome(out, y) => InSome(out', y)
      /\ \A y : In(batch[r], y) => In(batch'[r], y) \/ InSome(inner'[r], y) \/ InSome(out', y)
  <2>1. CASE BatchComplete(r)
    <3>1. batch'[r] = <<x>> /\ <<x>> \in Batch /\ In(<<x>>, x)
      BY <1>1, <1>2, <2>1 DEF Batch, In
    <3>2. batch' \in [Readers -> Batch] /\ \A q \in Readers : q # r => batch'[q] = batch[q]
      BY <1>1, <1>2, <2>1, <3>1
    <3> QED
      BY <1>1, <2>1, <3>1, <3>2, Flushed DEF IInv
  <2>2. CASE ~BatchComplete(r)
    <3>1. batch'[r] = Append(batch[r], x) /\ Append(batch[r], x) \in Batch
      BY <1>1, <1>2, <2>2 DEF Batch
    <3>2. batch' \in [Readers -> Batch] /\ \A q \in Readers : q # r => batch'[q] = batch[q]
      BY <1>1, <1>2, <2>2, <3>1
    <3>3. In(batch'[r], x) /\ \A y : In(batch[r], y) => In(batch'[r], y)
      BY <1>2, <3>1, InAppend DEF Batch
    <3> QED
      BY <1>1, <1>2, <2>2, <3>2, <3>3
  <2> QED
    BY <2>1, <2>2
<1>5. Typed'
  BY <1>1, <1>3, <1>4 DEF IInv, Typed, Readers
<1>6. AllPlaced'
  <2>1. \A q \in Readers : \A n \in DOMAIN file[q] : pos[q] < n /\ ~(pos'[q] < n) => In(batch'[q], <<q, n>>)
    BY <1>2, <1>3, <1>4 DEF x
  <2>2. \A q \in Readers : \A y : In(batch[q], y) => In(batch'[q], y) \/ InSome(inner'[q], y) \/ InSome(out', y)
    BY <1>4
  <2> QED
    BY <1>1, <1>4, <2>1, <2>2, StillPlaced DEF IInv
<1>7. AllRead' /\ AllFlushed'
  BY <1>1, <1>3, <1>4 DEF IInv, AllRead, AllFlushed, Readers, Selected, PastEnd
<1>8. Refilled' /\ Drained'
  BY <1>1, <1>3, <1>4, <1>5, ReaderKeeps DEF Finished
<1> QED
  BY <1>5, <1>6, <1>7, <1>8 DEF IInv

\* A thread leaves its loop at the end of its file, past the window, or with an error.
LEMMA EndOfFileInv ==
  ASSUME IInv, NEW r \in Readers, EndOfFile(r) \/ StopPastEnd(r)
  PROVE  IInv'
<1>1. /\ thread[r] = "reading" /\ thread' \in [Readers -> {"reading", "last", "ok", "err"}]
      /\ thread'[r] \in {"last", "err"} /\ \A q \in Readers : q # r => thread'[q] = thread[q]
      /\ UNCHANGED <<file, fails, end, pos, batch, inner, pc, cur, heads, out, recvd, rxOpen, result>>
  BY DEF EndOfFile, StopPastEnd, IInv, Typed
<1>2. \A n \in DOMAIN file[r] : Selected(r, file[r][n]) => n <= pos[r]
  <2>1. CASE EndOfFile(r)
    <3>1. Len(file[r]) \in Nat /\ DOMAIN file[r] = 1..Len(file[r]) /\ pos[r] \in Nat
      BY FilesTyped DEF IInv, Typed
    <3>2. ~(pos[r] < Len(file[r]))
      BY <2>1 DEF EndOfFile, HasNext
    <3> QED
      BY <3>1, <3>2
  <2>2. CASE StopPastEnd(r)
    BY <2>2, NothingAfterEnd DEF StopPastEnd, IInv
  <2> QED
    BY <2>1, <2>2
<1>3. Typed'
  BY <1>1 DEF IInv, Typed, Readers
<1>4. AllPlaced'
  BY <1>1, StillPlaced DEF IInv
<1>5. AllRead' /\ AllFlushed'
  BY <1>1, <1>2 DEF IInv, AllRead, AllFlushed, Readers, Selected, PastEnd
<1>6. Refilled' /\ Drained'
  BY <1>1, <1>3, ReaderKeeps DEF Finished
<1> QED
  BY <1>3, <1>4, <1>5, <1>6 DEF IInv

\* The rest of the batch is sent after the loop.
LEMMA LastFlushInv ==
  ASSUME IInv, NEW r \in Readers, LastFlush(r)
  PROVE  IInv'
<1>1. /\ thread[r] = "last" /\ Flush(r) /\ batch' = [batch EXCEPT ![r] = << >>]
      /\ UNCHANGED <<file, fails, end, pos, thread, pc, cur, heads, recvd, rxOpen, result>>
  BY DEF LastFlush
<1>2. /\ batch' \in [Readers -> Batch] /\ batch'[r] = << >>
      /\ \A q \in Readers : q # r => batch'[q] = batch[q]
  <2>1. << >> \in Batch /\ batch \in [Readers -> Batch]
    BY DEF Batch, IInv, Typed
  <2> QED
    BY <1>1, <2>1
<1>3. /\ inner' \in [Readers -> Seq(Batch)] /\ out' \in Seq(Batch)
      /\ \A q \in Readers : q # r => inner'[q] = inner[q]
      /\ Direct => inner' = inner
      /\ \A q \in Readers : \A y : InSome(inner[q], y) => InSome(inner'[q], y)
      /\ \A y : InSome(out, y) => InSome(out', y)
      /\ \A y : In(batch[r], y) => InSome(inner'[r], y) \/ InSome(out', y)
  BY <1>1, Flushed DEF IInv
<1>4. Typed'
  BY <1>1, <1>2, <1>3 DEF IInv, Typed, Readers
<1>5. AllPlaced'
  <2>1. \A q \in Readers : \A y : In(batch[q], y) => In(batch'[q], y) \/ InSome(inner'[q], y) \/ InSome(out', y)
    BY <1>2, <1>3
  <2> QED
    BY <1>1, <1>3, <2>1, StillPlaced DEF IInv
<1>6. AllRead' /\ AllFlushed'
  BY <1>1, <1>2 DEF IInv, AllRead, AllFlushed, Readers, Selected, PastEnd
<1>7. Refilled' /\ Drained'
  BY <1>1, <1>2, <1>3, <1>4, ReaderKeeps DEF Finished
<1> QED
  BY <1>4, <1>5, <1>6, <1>7 DEF IInv

\* Its last batch sent, a thread returns without an error.
LEMMA ReturnInv ==
  ASSUME IInv, NEW r \in Readers, Return(r)
  PROVE  IInv'
<1>1. /\ thread[r] = "last" /\ batch[r] = << >>
      /\ thread' \in [Readers -> {"reading", "last", "ok", "err"}]
      /\ thread'[r] = "ok" /\ \A q \in Readers : q # r => thread'[q] = thread[q]
      /\ UNCHANGED <<file, fails, end, pos, batch, inner, pc, cur, heads, out, recvd, rxOpen, result>>
  BY DEF Return, IInv, Typed
<1>2. Typed'
  BY <1>1 DEF IInv, Typed, Readers
<1>3. AllPlaced'
  BY <1>1, StillPlaced DEF IInv
<1>4. AllRead' /\ AllFlushed'
  BY <1>1 DEF IInv, AllRead, AllFlushed, Readers, Selected, PastEnd
<1>5. Refilled' /\ Drained'
  BY <1>1, <1>2, ReaderKeeps DEF Finished
<1> QED
  BY <1>2, <1>3, <1>4, <1>5 DEF IInv

\* After an answer of channel cur, every other reader is as it was, and the next one asked
\* has no head.
LEMMA NextAsked ==
  ASSUME IInv, pc \in {"fill", "refill"}, AfterReceive, Typed',
         UNCHANGED <<readers, out, result>>,
         \A q \in Readers : q # cur => inner'[q] = inner[q] /\ heads'[q] = heads[q],
         heads'[cur] = << >> => inner'[cur] = << >> /\ Finished(cur)
  PROVE  Refilled' /\ Drained'
<1>1. Readers' = Readers /\ Direct' = Direct /\ \A q \in Readers : Finished(q)' <=> Finished(q)
  BY DEF readers, Readers, Direct, Finished
<1>2. Readers = 1..Len(file) /\ Len(file) \in Nat /\ cur \in Readers
  BY FilesTyped DEF IInv, Typed
<1>3. \A q \in Readers : /\ (pc = "fill" /\ cur <= q) \/ (pc = "refill" /\ q = cur) => heads[q] = << >>
                         /\ (pc = "fill" /\ q < cur) \/ (pc = "refill" /\ q # cur) =>
                              (heads[q] = << >> => inner[q] = << >> /\ Finished(q))
  BY DEF IInv, Refilled, Waiting, Asked
<1>4. Refilled'
  <2> SUFFICES ASSUME NEW q \in Readers
               PROVE  /\ Waiting(q)' => heads'[q] = << >>
                      /\ Asked(q)' /\ heads'[q] = << >> => inner'[q] = << >> /\ Finished(q)
    BY <1>1 DEF Refilled
  <2>1. CASE pc = "fill" /\ cur < Len(file)
    <3>1. pc' = "fill" /\ cur' = cur + 1
      BY <2>1 DEF AfterReceive
    <3>2. /\ Waiting(q)' => q # cur /\ cur <= q
          /\ Asked(q)' => q = cur \/ q < cur
      BY <1>2, <3>1 DEF Waiting, Asked
    <3> QED
      BY <1>3, <2>1, <3>2
  <2>2. CASE ~(pc = "fill" /\ cur < Len(file))
    <3>1. pc' = "merge" /\ ~Waiting(q)'
      BY <2>2 DEF AfterReceive, Waiting
    <3>2. q = cur \/ (heads[q] = << >> => inner[q] = << >> /\ Finished(q))
      BY <1>2, <1>3, <2>2
    <3> QED
      BY <3>1, <3>2
  <2> QED
    BY <2>1, <2>2
<1>5. Drained'
  <2>1. pc' \notin {"direct", "join", "returned"} /\ result # "ok"
    BY DEF AfterReceive, IInv, Drained
  <2> QED
    BY <2>1 DEF Drained
<1> QED
  BY <1>4, <1>5

\* The merging thread takes a batch, or learns that a channel is closed and empty.
LEMMA ReceiveInv ==
  ASSUME IInv, Receive \/ Disconnected
  PROVE  IInv'
<1>1. /\ pc \in {"fill", "refill"} /\ AfterReceive
      /\ UNCHANGED <<file, fails, end, pos, batch, thread, out, recvd, rxOpen, result>>
  BY DEF Receive, Disconnected, readers
<1>2. /\ cur \in Readers /\ inner \in [Readers -> Seq(Batch)] /\ heads \in [Readers -> HeadOf]
      /\ Readers = 1..Len(file) /\ Len(file) \in Nat
  BY FilesTyped DEF IInv, Typed
<1>3. heads[cur] = << >>
  BY <1>1, <1>2 DEF IInv, Refilled, Waiting
<1>4. /\ inner' \in [Readers -> Seq(Batch)] /\ heads' \in [Readers -> HeadOf]
      /\ \A q \in Readers : q # cur => inner'[q] = inner[q] /\ heads'[q] = heads[q]
      /\ heads'[cur] = << >> => inner'[cur] = << >> /\ Finished(cur)
      /\ \A q \in Readers : \A y : InSome(inner[q], y) => InSome(inner'[q], y) \/ InSome(heads'[q], y)
      /\ \A q \in Readers : \A y : InSome(heads[q], y) => InSome(heads'[q], y)
  <2>1. CASE Receive
    <3> DEFINE i == inner[cur]
    <3>1. /\ i # << >> /\ heads' = [heads EXCEPT ![cur] = <<Head(i)>>]
          /\ inner' = [inner EXCEPT ![cur] = Tail(i)]
      BY <2>1 DEF Receive
    <3>2. i \in Seq(Batch) /\ Tail(i) \in Seq(Batch) /\ <<Head(i)>> \in HeadOf
      <4>1. i \in Seq(Batch)
        BY <1>2
      <4> HIDE DEF i
      <4>2. Head(i) \in Batch /\ Tail(i) \in Seq(Batch)
        BY <3>1, <4>1
      <4>3. \A b \in Batch : <<b>> \in Seq(Batch) /\ Len(<<b>>) = 1
        OBVIOUS
      <4> QED
        BY <4>1, <4>2, <4>3 DEF HeadOf
    <3>3. <<Head(i)>> # << >>
      OBVIOUS
    <3> HIDE DEF i
    <3>4. /\ inner'[cur] = Tail(i) /\ heads'[cur] = <<Head(i)>>
          /\ inner' \in [Readers -> Seq(Batch)] /\ heads' \in [Readers -> HeadOf]
          /\ \A q \in Readers : q # cur => inner'[q] = inner[q] /\ heads'[q] = heads[q]
      BY <1>2, <3>1, <3>2
    <3>5. \A y : InSome(i, y) => InSome(inner'[cur], y) \/ InSome(heads'[cur], y)
      BY <3>1, <3>2, <3>4, InSomeReceived
    <3>6. \A y : ~InSome(heads[cur], y)
      BY <1>3, InSomeSmall
    <3> QED
      BY <3>3, <3>4, <3>5, <3>6 DEF i
  <2>2. CASE Disconnected
    BY <1>2, <2>2 DEF Disconnected
  <2> QED
    BY <2>1, <2>2
<1>5. pc' \in {"fill", "merge"} /\ cur' \in Readers
  BY <1>1, <1>2 DEF AfterReceive
<1>6. Typed'
  BY <1>1, <1>4, <1>5 DEF IInv, Typed, Readers
<1>7. AllPlaced'
  BY <1>1, <1>4, StillPlaced DEF IInv
<1>8. AllRead' /\ AllFlushed'
  BY <1>1 DEF IInv, AllRead, AllFlushed, Readers, Selected, PastEnd
<1>9. Refilled' /\ Drained'
  BY <1>1, <1>4, <1>6, NextAsked DEF readers
<1> QED
  BY <1>6, <1>7, <1>8, <1>9 DEF IInv

\* The head with the least time is sent to the comparison.
LEMMA ForwardInv ==
  ASSUME IInv, Forward
  PROVE  IInv'
<1>1. PICK r \in Readers : /\ IsMin(r) /\ out' = Append(out, heads[r][1])
                           /\ heads' = [heads EXCEPT ![r] = << >>] /\ cur' = r
  BY DEF Forward
<1>2. /\ pc = "merge" /\ pc' = "refill"
      /\ UNCHANGED <<file, fails, end, pos, batch, thread, inner, recvd, rxOpen, result>>
  BY DEF Forward, readers
<1>3. /\ heads \in [Readers -> HeadOf] /\ out \in Seq(Batch)
      /\ heads[r] \in Seq(Batch) /\ heads[r] # << >> /\ Len(heads[r]) = 1
  <2>1. heads \in [Readers -> HeadOf] /\ out \in Seq(Batch) /\ heads[r] # << >>
    BY <1>1 DEF IInv, Typed, IsMin
  <2>2. heads[r] \in Seq(Batch) /\ Len(heads[r]) <= 1
    BY <2>1 DEF HeadOf
  <2>3. \A h \in Seq(Batch) : h # << >> /\ Len(h) <= 1 => Len(h) = 1
    <3> SUFFICES ASSUME NEW h \in Seq(Batch), h # << >>, Len(h) <= 1 PROVE Len(h) = 1
      OBVIOUS
    <3>1. \A k \in Nat : k # 0 /\ k <= 1 => k = 1
      OBVIOUS
    <3>2. Len(h) \in Nat /\ Len(h) # 0
      BY EmptySeq
    <3> QED
      BY <3>1, <3>2, Zenon
  <2> QED
    BY <2>1, <2>2, <2>3
<1>4. /\ heads' \in [Readers -> HeadOf] /\ heads'[r] = << >>
      /\ \A q \in Readers : q # r => heads'[q] = heads[q]
  <2>1. << >> \in HeadOf
    BY DEF HeadOf
  <2> QED
    BY <1>1, <1>3, <2>1
<1>5. heads[r][1] \in Batch
  BY <1>3
<1>6. out' \in Seq(Batch)
  BY <1>1, <1>3, <1>5
<1>7. Typed'
  BY <1>1, <1>2, <1>4, <1>6 DEF IInv, Typed, Readers
<1>8. AllPlaced'
  <2>1. \A y : InSome(out, y) \/ In(heads[r][1], y) => InSome(out', y)
    BY <1>1, <1>3, <1>5, InSomeAppend
  <2>2. \A y : InSome(heads[r], y) => In(heads[r][1], y)
    BY <1>3, InSomeSmall
  <2>3. \A q \in Readers : \A y : InSome(heads[q], y) => InSome(heads'[q], y) \/ InSome(out', y)
    BY <1>4, <2>1, <2>2
  <2> QED
    BY <1>2, <2>1, <2>3, StillPlaced DEF IInv
<1>9. AllRead' /\ AllFlushed'
  BY <1>2 DEF IInv, AllRead, AllFlushed, Readers, Selected, PastEnd
<1>10. Refilled'
  <2>1. \A q \in Readers : heads[q] = << >> => inner[q] = << >> /\ Finished(q)
    BY <1>2 DEF IInv, Refilled, Asked
  <2>2. Readers' = Readers /\ \A q \in Readers : (Finished(q)' <=> Finished(q)) /\ inner'[q] = inner[q]
    BY <1>2 DEF Readers, Finished
  <2>3. \A q \in Readers : (Waiting(q)' => q = r) /\ (Asked(q)' => q # r)
    BY <1>1, <1>2 DEF Waiting, Asked
  <2> QED
    BY <1>4, <2>1, <2>2, <2>3 DEF Refilled
<1>11. Drained'
  BY <1>2 DEF IInv, Drained
<1> QED
  BY <1>7, <1>8, <1>9, <1>10, <1>11 DEF IInv

\* All heads are exhausted and the threads are joined.
LEMMA EndInv ==
  ASSUME IInv, AllForwarded \/ Join
  PROVE  IInv'
<1>1. UNCHANGED <<file, fails, end, pos, batch, thread, inner, cur, heads, out>>
  BY DEF AllForwarded, Join, readers
<1>2. \A r \in Readers : heads[r] = << >> /\ inner[r] = << >> /\ Finished(r)
  BY DEF AllForwarded, Join, IInv, Refilled, Asked, Drained
<1>3. pc' \in {"join", "returned"}
      /\ (result' = "ok" => pc' = "returned" /\ \A r \in Readers : thread[r] = "ok")
  <2>1. CASE AllForwarded
    BY <2>1 DEF AllForwarded, IInv, Drained
  <2>2. CASE Join
    BY <2>2 DEF Join, Finished
  <2> QED
    BY <2>1, <2>2
<1>4. Typed'
  BY <1>1, <1>3 DEF IInv, Typed, Readers
<1>5. AllPlaced'
  BY <1>1, StillPlaced DEF IInv
<1>6. AllRead' /\ AllFlushed'
  BY <1>1 DEF IInv, AllRead, AllFlushed, Readers, Selected, PastEnd
<1>7. Refilled' /\ Drained'
  BY <1>1, <1>2, <1>3 DEF Refilled, Waiting, Asked, Drained, Readers, Finished
<1> QED
  BY <1>4, <1>5, <1>6, <1>7 DEF IInv

\* The comparison takes what was sent or goes away: neither touches the threads.
LEMMA OtherInv ==
  ASSUME IInv, UNCHANGED <<readers, inner, pc, cur, heads, out, result>>
  PROVE  IInv'
<1>1. UNCHANGED <<file, fails, end, pos, batch, thread, inner, pc, cur, heads, out, result>>
  BY DEF readers
<1>2. Typed'
  BY <1>1 DEF IInv, Typed, Readers
<1>3. AllPlaced'
  BY <1>1, StillPlaced DEF IInv
<1>4. AllRead' /\ AllFlushed'
  BY <1>1 DEF IInv, AllRead, AllFlushed, Readers, Selected, PastEnd
<1>5. Refilled' /\ Drained'
  BY <1>1 DEF IInv, Refilled, Waiting, Asked, Drained, Readers, Direct, Finished
<1> QED
  BY <1>2, <1>3, <1>4, <1>5 DEF IInv

\* Every step of a thread, of the merge and of the comparison keeps the invariant.
LEMMA StepInv == IInv /\ [Next]_vars => IInv'
<1> SUFFICES ASSUME IInv, [Next]_vars PROVE IInv'
  OBVIOUS
<1>1. ASSUME NEW r \in Readers, Reader(r)
      PROVE  IInv'
  BY <1>1, SkipInv, ReadInv, EndOfFileInv, LastFlushInv, ReturnInv DEF Reader
<1>2. CASE Merger
  BY <1>2, ReceiveInv, ForwardInv, EndInv DEF Merger
<1>3. CASE Consume \/ DropReceiver \/ Done \/ UNCHANGED vars
  BY <1>3, OtherInv DEF Consume, DropReceiver, Done, vars
<1> QED
  BY <1>1, <1>2, <1>3 DEF Next

\* However the reader threads, the merging thread and the comparison interleave: when
\* no error is returned, every selected change of the window was sent to the comparison.
THEOREM NothingLost == Spec => []WindowComplete
<1>1. IInv => WindowComplete
  <2> SUFFICES ASSUME IInv, result = "ok",
                      NEW r \in Readers, NEW n \in DOMAIN file[r], Selected(r, file[r][n])
               PROVE  InSome(out, <<r, n>>)
    BY DEF WindowComplete, InSome, In
  <2>1. heads[r] = << >> /\ inner[r] = << >> /\ batch[r] = << >> /\ n <= pos[r]
    BY DEF IInv, Drained, AllFlushed, AllRead
  <2>2. file \in Inputs /\ pos[r] \in Nat
    BY DEF IInv, Typed
  <2>3. DOMAIN file[r] = 1..Len(file[r]) /\ Len(file[r]) \in Nat
    BY <2>2, FilesTyped
  <2>4. n \in Nat /\ ~(pos[r] < n)
    BY <2>1, <2>2, <2>3
  <2>5. Placed(r, n)
    BY DEF IInv, AllPlaced
  <2> QED
    BY <2>1, <2>4, <2>5, InSomeSmall DEF Placed
<1> QED
  BY <1>1, InitInv, StepInv, PTL DEF Spec

-------------------------------------------------------------------------------
(* The order of what is sent.  The batches of reader r that are on their   *)
(* way are the head and the inner channel, in one line: receiving from the *)
(* channel leaves the line as it is.                                       *)

\* The operators of the model, of a file f and the end e of a window.
Chosen(e, r, c) == c.time >= Start /\ ~(e # NoEnd /\ c.time > e) /\ c.handle \in Include[r]
TimeOf(f, x) == f[x[1]][x[2]].time
Precedes(f, x, y) ==
  \/ TimeOf(f, x) < TimeOf(f, y)
  \/ TimeOf(f, x) = TimeOf(f, y) /\ (x[1] < y[1] \/ (x[1] = y[1] /\ x[2] < y[2]))

\* A batch of reader r.
RunOf(f, e, r, b) ==
  /\ b \in Batch /\ b # << >> /\ Len(b) <= BatchSize
  /\ \A x : In(b, x) => /\ x = <<r, x[2]>> /\ x[2] \in DOMAIN f[r] /\ Chosen(e, r, f[r][x[2]])
                        /\ TimeOf(f, x) = TimeOf(f, b[1])
  /\ \A i, j \in DOMAIN b : i < j => b[i][2] < b[j][2]

\* The line l, the pending batch b and the position p of reader r follow its file.
Lined(f, e, r, l, b, p) ==
  /\ b # << >> => RunOf(f, e, r, b)
  /\ \A k \in DOMAIN l : RunOf(f, e, r, l[k])
  /\ \A x : In(b, x) \/ InSome(l, x) => x[2] <= p
  /\ \A x, y : InSome(l, x) /\ In(b, y) => x[2] < y[2]
  /\ \A j, k \in DOMAIN l : j < k => \A x, y : In(l[j], x) /\ In(l[k], y) => x[2] < y[2]

\* Change y may still come from reader r: it is on its way or, while the thread lives, in
\* its batch or ahead of it in its file.
Ahead(f, r, l, b, p, live, y) ==
  \/ InSome(l, y)
  \/ live /\ (In(b, y) \/ \E n \in DOMAIN f[r] : p < n /\ y = <<r, n>>)

Line(r) == heads[r] \o inner[r]
Coming(r, y) == Ahead(file, r, Line(r), batch[r], pos[r], thread[r] \in {"reading", "last"}, y)

Rows == \A r \in Readers : Lined(file, end, r, Line(r), batch[r], pos[r])
OutRuns == \A m \in DOMAIN out : \E r \in Readers : RunOf(file, end, r, out[m])
OutOrdered ==
  \A m, n \in DOMAIN out : m < n => \A x, y : In(out[m], x) /\ In(out[n], y) => Precedes(file, x, y)

\* All that was sent precedes all that is to come.
Frontier == \A r \in Readers : \A x, y : InSome(out, x) /\ Coming(r, y) => Precedes(file, x, y)

\* A lone reader has no merging thread.
Alone == Direct => pc \in {"direct", "join", "returned"}

SInv == Rows /\ OutRuns /\ OutOrdered /\ Frontier /\ Alone

\* What is in a sequence that grew is what was in it or what was added.
LEMMA InAppended ==
  /\ \A S : \A b \in Seq(S), z \in S : \A x : In(Append(b, z), x) => In(b, x) \/ x = z
  /\ \A q \in Seq(Batch), b \in Batch : \A x : InSome(Append(q, b), x) => InSome(q, x) \/ In(b, x)
<1>1. ASSUME NEW S, NEW q \in Seq(S), NEW z \in S
      PROVE  /\ DOMAIN Append(q, z) = DOMAIN q \cup {Len(q) + 1}
             /\ \A k \in DOMAIN q : Append(q, z)[k] = q[k]
             /\ Append(q, z)[Len(q) + 1] = z
  <2>1. /\ Append(q, z) \in Seq(S) /\ Len(Append(q, z)) = Len(q) + 1
        /\ \A k \in 1 .. Len(q) : Append(q, z)[k] = q[k]
        /\ Append(q, z)[Len(q) + 1] = z
    BY AppendProperties
  <2>2. Len(q) \in Nat /\ DOMAIN q = 1 .. Len(q) /\ DOMAIN Append(q, z) = 1 .. Len(q) + 1
    BY <2>1, LenProperties
  <2> QED
    BY <2>1, <2>2
<1>2. ASSUME NEW S, NEW b \in Seq(S), NEW z \in S, NEW x, In(Append(b, z), x)
      PROVE  In(b, x) \/ x = z
  BY <1>1, <1>2 DEF In
<1>3. ASSUME NEW q \in Seq(Batch), NEW b \in Batch, NEW x, InSome(Append(q, b), x)
      PROVE  InSome(q, x) \/ In(b, x)
  BY <1>1, <1>3 DEF InSome
<1> QED
  BY <1>2, <1>3

\* The last of a sequence that grew.
LEMMA AppendAt ==
  ASSUME NEW S, NEW q \in Seq(S), NEW z \in S
  PROVE  /\ Append(q, z) \in Seq(S) /\ Len(q) \in Nat
         /\ DOMAIN q = 1 .. Len(q) /\ DOMAIN Append(q, z) = 1 .. Len(q) + 1
         /\ Len(Append(q, z)) = Len(q) + 1
         /\ \A k \in 1 .. Len(q) : Append(q, z)[k] = q[k]
         /\ Append(q, z)[Len(q) + 1] = z
BY AppendProperties, LenProperties

\* A batch that is sent joins the end of the line.
LEMMA LinedSent ==
  ASSUME NEW f, NEW e, NEW r, NEW l \in Seq(Batch), NEW b, NEW p, b # << >>,
         Lined(f, e, r, l, b, p)
  PROVE  Lined(f, e, r, Append(l, b), << >>, p)
<1>1. RunOf(f, e, r, b) /\ b \in Batch
  BY DEF Lined, RunOf
<1>2. /\ Len(l) \in Nat /\ DOMAIN l = 1 .. Len(l) /\ DOMAIN Append(l, b) = 1 .. Len(l) + 1
      /\ \A k \in 1 .. Len(l) : Append(l, b)[k] = l[k]
      /\ Append(l, b)[Len(l) + 1] = b
  BY <1>1, AppendAt
<1>3. \A x : InSome(Append(l, b), x) => InSome(l, x) \/ In(b, x)
  BY <1>1, InAppended
<1>4. \A k \in DOMAIN Append(l, b) : RunOf(f, e, r, Append(l, b)[k])
  BY <1>1, <1>2 DEF Lined
<1>5. \A x : ~In(<< >>, x)
  BY InSomeSmall
<1>6. ASSUME NEW j \in DOMAIN Append(l, b), NEW k \in DOMAIN Append(l, b), j < k,
             NEW x, NEW y, In(Append(l, b)[j], x), In(Append(l, b)[k], y)
      PROVE  x[2] < y[2]
  <2>1. j \in DOMAIN l /\ Append(l, b)[j] = l[j]
    BY <1>2, <1>6
  <2>2. CASE k \in DOMAIN l
    BY <1>2, <1>6, <2>1, <2>2 DEF Lined
  <2>3. CASE k = Len(l) + 1
    <3>1. In(b, y) /\ InSome(l, x)
      BY <1>2, <1>6, <2>1, <2>3 DEF InSome
    <3> QED
      BY <3>1 DEF Lined
  <2> QED
    BY <1>2, <2>2, <2>3
<1> QED
  BY <1>3, <1>4, <1>5, <1>6 DEF Lined

\* The first of the line leaves it.
LEMMA LinedServed ==
  ASSUME NEW f, NEW e, NEW r, NEW l \in Seq(Batch), NEW b, NEW p, l # << >>,
         Lined(f, e, r, l, b, p)
  PROVE  /\ Lined(f, e, r, Tail(l), b, p)
         /\ \A x : InSome(Tail(l), x) => InSome(l, x)
         /\ RunOf(f, e, r, l[1]) /\ \A x : In(l[1], x) => InSome(l, x)
         /\ \A x, y : In(l[1], x) /\ InSome(Tail(l), y) => x[2] < y[2]
<1>1. Len(l) \in Nat /\ Len(l) # 0 /\ DOMAIN l = 1 .. Len(l)
  BY EmptySeq, LenProperties
<1>2. /\ DOMAIN Tail(l) = 1 .. Len(l) - 1
      /\ \A k \in DOMAIN Tail(l) : Tail(l)[k] = l[k + 1] /\ k + 1 \in DOMAIN l
  <2>1. Tail(l) \in Seq(Batch) /\ Len(Tail(l)) = Len(l) - 1
        /\ \A k \in 1 .. Len(Tail(l)) : Tail(l)[k] = l[k + 1]
    BY HeadTailProperties
  <2>2. DOMAIN Tail(l) = 1 .. Len(Tail(l))
    BY <2>1, LenProperties
  <2> QED
    BY <1>1, <2>1, <2>2
<1>3. \A x : InSome(Tail(l), x) => InSome(l, x)
  BY <1>2 DEF InSome
<1>4. RunOf(f, e, r, l[1]) /\ \A x : In(l[1], x) => InSome(l, x)
  BY <1>1 DEF Lined, InSome
<1>5. ASSUME NEW x, NEW y, In(l[1], x), InSome(Tail(l), y)
      PROVE  x[2] < y[2]
  <2>1. PICK k \in DOMAIN Tail(l) : In(Tail(l)[k], y)
    BY <1>5 DEF InSome
  <2>2. 1 \in DOMAIN l /\ k + 1 \in DOMAIN l /\ 1 < k + 1 /\ In(l[k + 1], y)
    BY <1>1, <1>2, <2>1
  <2> QED
    BY <1>5, <2>2 DEF Lined
<1>6. ASSUME NEW j \in DOMAIN Tail(l), NEW k \in DOMAIN Tail(l), j < k,
             NEW x, NEW y, In(Tail(l)[j], x), In(Tail(l)[k], y)
      PROVE  x[2] < y[2]
  <2>1. /\ j + 1 \in DOMAIN l /\ k + 1 \in DOMAIN l /\ j + 1 < k + 1
        /\ In(l[j + 1], x) /\ In(l[k + 1], y)
    BY <1>1, <1>2, <1>6
  <2> QED
    BY <2>1 DEF Lined
<1>7. Lined(f, e, r, Tail(l), b, p)
  BY <1>2, <1>3, <1>6 DEF Lined
<1> QED
  BY <1>3, <1>4, <1>5, <1>7

\* The next selected change joins the pending batch, if it is empty, or not full and of
\* the same time.
LEMMA LinedRead ==
  ASSUME NEW f, NEW e, NEW r \in Nat, NEW l \in Seq(Batch), NEW b \in Batch, NEW p \in Nat,
         Lined(f, e, r, l, b, p), p + 1 \in DOMAIN f[r], Chosen(e, r, f[r][p + 1]),
         b # << >> => Len(b) < BatchSize /\ f[r][p + 1].time = TimeOf(f, b[1]),
         \A x : In(b, x) \/ InSome(l, x) => x[2] \in Nat
  PROVE  Lined(f, e, r, l, Append(b, <<r, p + 1>>), p + 1)
<1> DEFINE z == <<r, p + 1>>
           c == Append(b, z)
<1>1. z \in Nat \X Nat /\ z[1] = r /\ z[2] = p + 1
  OBVIOUS
<1>2. TimeOf(f, z) = f[r][p + 1].time
  BY DEF TimeOf
<1>3. z = <<r, z[2]>> /\ z[2] \in DOMAIN f[r] /\ Chosen(e, r, f[r][z[2]])
  BY <1>1
<1> HIDE DEF z
<1>4. /\ c \in Batch /\ Len(c) = Len(b) + 1 /\ Len(b) \in Nat
      /\ DOMAIN b = 1 .. Len(b) /\ DOMAIN c = 1 .. Len(b) + 1
      /\ \A k \in 1 .. Len(b) : c[k] = b[k]
      /\ c[Len(b) + 1] = z
  BY <1>1, AppendAt DEF Batch
<1>5. \A x : In(c, x) => In(b, x) \/ x = z
  BY <1>1, InAppended DEF Batch
<1>6. c # << >> /\ Len(c) <= BatchSize
  <2>1. BatchSize \in Nat \ {0}
    BY SendAssumption
  <2>2. b # << >> \/ Len(b) = 0
    BY EmptySeq
  <2>3. << >> \in Seq(Nat \X Nat) /\ Len(<< >>) = 0
    BY EmptySeq
  <2> HIDE DEF c
  <2> QED
    BY <1>4, <2>1, <2>2, <2>3
<1>7. TimeOf(f, c[1]) = TimeOf(f, z)
  <2>1. CASE b = << >>
    <3>1. Len(b) = 0
      BY <2>1, EmptySeq
    <3> QED
      BY <1>4, <3>1
  <2>2. CASE b # << >>
    <3>1. 1 \in 1 .. Len(b)
      BY <2>2, EmptySeq DEF Batch
    <3> QED
      BY <1>2, <1>4, <2>2, <3>1
  <2> QED
    BY <2>1, <2>2
<1>8. ASSUME NEW x, In(c, x)
      PROVE  /\ x = <<r, x[2]>> /\ x[2] \in DOMAIN f[r] /\ Chosen(e, r, f[r][x[2]])
             /\ TimeOf(f, x) = TimeOf(f, c[1])
  <2>1. CASE x = z
    BY <1>3, <1>7, <2>1
  <2>2. CASE In(b, x)
    <3>1. b # << >>
      BY <2>2, InSomeSmall
    <3>2. RunOf(f, e, r, b)
      BY <3>1 DEF Lined
    <3>3. TimeOf(f, x) = TimeOf(f, z)
      BY <1>2, <2>2, <3>1, <3>2 DEF RunOf
    <3> QED
      BY <1>7, <2>2, <3>2, <3>3 DEF RunOf
  <2> QED
    BY <1>5, <1>8, <2>1, <2>2
<1>9. \A x : In(b, x) \/ InSome(l, x) => x[2] \in Nat /\ x[2] <= p
  BY DEF Lined
<1>10. ASSUME NEW i \in DOMAIN c, NEW j \in DOMAIN c, i < j
       PROVE  c[i][2] < c[j][2]
  <2>1. i \in DOMAIN b /\ c[i] = b[i]
    BY <1>4, <1>10
  <2>2. CASE j \in DOMAIN b
    <3>1. RunOf(f, e, r, b)
      BY <1>4, <2>2 DEF Lined
    <3> QED
      BY <1>4, <1>10, <2>1, <2>2, <3>1 DEF RunOf
  <2>3. CASE j = Len(b) + 1
    <3>1. In(b, b[i])
      BY <2>1 DEF In
    <3>2. b[i][2] \in Nat /\ b[i][2] <= p
      BY <1>9, <3>1
    <3> QED
      BY <1>1, <1>4, <2>1, <2>3, <3>2
  <2> QED
    BY <1>4, <2>2, <2>3
<1>11. RunOf(f, e, r, c)
  BY <1>4, <1>6, <1>8, <1>10 DEF RunOf
<1> HIDE DEF c
<1>12. \A x : In(c, x) \/ InSome(l, x) => x[2] <= p + 1
  BY <1>1, <1>5, <1>9
<1>13. \A x, y : InSome(l, x) /\ In(c, y) => x[2] < y[2]
  <2> SUFFICES ASSUME NEW x, NEW y, InSome(l, x), In(c, y) PROVE x[2] < y[2]
    OBVIOUS
  <2>1. CASE In(b, y)
    BY <2>1 DEF Lined
  <2>2. CASE y = z
    BY <1>1, <1>9, <2>2
  <2> QED
    BY <1>5, <2>1, <2>2
<1>14. Lined(f, e, r, l, c, p + 1)
  BY <1>11, <1>12, <1>13 DEF Lined
<1> QED
  BY <1>14 DEF c, z

\* Sending to the channel, receiving from it and sending on, seen in the line.
LEMMA Lines ==
  ASSUME NEW h \in HeadOf, NEW q \in Seq(Batch)
  PROVE  /\ h \o q \in Seq(Batch)
         /\ \A b \in Batch : h \o Append(q, b) = Append(h \o q, b)
         /\ h = << >> /\ q # << >> => <<Head(q)>> \o Tail(q) = h \o q
         /\ h # << >> => /\ h \o q # << >> /\ h[1] = (h \o q)[1]
                         /\ << >> \o q = Tail(h \o q)
<1>1. h \in Seq(Batch) /\ Len(h) <= 1
  BY DEF HeadOf
<1>2. h \o q \in Seq(Batch)
  BY <1>1, ConcatProperties
<1>3. ASSUME NEW b \in Batch
      PROVE  h \o Append(q, b) = Append(h \o q, b)
  <2>1. <<b>> \in Seq(Batch)
    OBVIOUS
  <2>2. Append(q, b) = q \o <<b>> /\ Append(h \o q, b) = (h \o q) \o <<b>>
    BY <1>2, AppendIsConcat
  <2> QED
    BY <1>1, <2>1, <2>2, ConcatAssociative
<1>4. ASSUME h = << >>, q # << >>
      PROVE  <<Head(q)>> \o Tail(q) = h \o q
  <2>1. h \o q = q
    BY <1>4, ConcatEmptySeq
  <2>2. /\ Head(q) \in Batch /\ Tail(q) \in Seq(Batch) /\ Len(Tail(q)) = Len(q) - 1
        /\ Len(q) \in Nat \ {0} /\ Head(q) = q[1]
        /\ \A i \in 1 .. Len(Tail(q)) : Tail(q)[i] = q[i + 1]
    BY <1>4, HeadTailProperties, EmptySeq
  <2> DEFINE g == <<Head(q)>>
  <2>3. g \in Seq(Batch) /\ Len(g) = 1 /\ g[1] = q[1]
    BY <2>2
  <2> HIDE DEF g
  <2>4. /\ g \o Tail(q) \in Seq(Batch) /\ Len(g \o Tail(q)) = Len(g) + Len(Tail(q))
        /\ \A i \in 1 .. Len(g) + Len(Tail(q)) :
             (g \o Tail(q))[i] = IF i <= Len(g) THEN g[i] ELSE Tail(q)[i - Len(g)]
    BY <2>2, <2>3, ConcatProperties
  <2>5. Len(g \o Tail(q)) = Len(q)
    BY <2>2, <2>3, <2>4
  <2>6. ASSUME NEW i \in 1 .. Len(q)
        PROVE  q[i] = (g \o Tail(q))[i]
    <3>1. (g \o Tail(q))[i] = IF i <= 1 THEN q[1] ELSE Tail(q)[i - 1]
      BY <2>2, <2>3, <2>4, <2>6
    <3>2. CASE i = 1
      <4>1. (g \o Tail(q))[1] = q[1]
        <5>1. 1 \in 1 .. Len(g) + Len(Tail(q)) /\ 1 <= Len(g)
          BY <2>2, <2>3
        <5>2. (g \o Tail(q))[1] = g[1]
          BY <2>4, <5>1
        <5> QED
          BY <2>3, <5>2
      <4> QED
        BY <3>2, <4>1
    <3>3. CASE i # 1
      <4>1. i - 1 \in 1 .. Len(Tail(q)) /\ ~(i <= 1) /\ (i - 1) + 1 = i
        BY <2>2, <3>3
      <4>2. (g \o Tail(q))[i] = Tail(q)[i - 1]
        BY <3>1, <4>1
      <4>3. Tail(q)[i - 1] = q[(i - 1) + 1]
        BY <2>2, <4>1
      <4> QED
        BY <4>1, <4>2, <4>3
    <3> QED
      BY <3>2, <3>3
  <2>7. q = g \o Tail(q)
    BY <2>4, <2>5, <2>6, SeqEqual
  <2> QED
    BY <2>1, <2>7 DEF g
<1>5. ASSUME h # << >>
      PROVE  /\ h \o q # << >> /\ h[1] = (h \o q)[1]
             /\ << >> \o q = Tail(h \o q)
  <2>1. Len(h) = 1
    <3>1. \A k \in Nat : k # 0 /\ k <= 1 => k = 1
      OBVIOUS
    <3>2. Len(h) \in Nat /\ Len(h) # 0
      BY <1>1, <1>5, EmptySeq
    <3> QED
      BY <1>1, <3>1, <3>2, Zenon
  <2>2. /\ Len(q) \in Nat /\ Len(h \o q) = 1 + Len(q)
        /\ (h \o q)[1] = h[1]
        /\ \A k \in 1 .. Len(q) : (h \o q)[k + 1] = q[k]
    <3>1. /\ Len(q) \in Nat /\ Len(h \o q) = 1 + Len(q)
          /\ \A i \in 1 .. 1 + Len(q) : (h \o q)[i] = IF i <= 1 THEN h[i] ELSE q[i - 1]
      <4>1. /\ Len(h \o q) = Len(h) + Len(q)
            /\ \A i \in 1 .. Len(h) + Len(q) :
                 (h \o q)[i] = IF i <= Len(h) THEN h[i] ELSE q[i - Len(h)]
        BY <1>1, ConcatProperties
      <4> QED
        BY <2>1, <4>1, LenProperties
    <3>2. \A k \in 1 .. Len(q) : k + 1 \in 1 .. 1 + Len(q) /\ ~(k + 1 <= 1) /\ (k + 1) - 1 = k
      BY <3>1
    <3>3. 1 \in 1 .. 1 + Len(q)
      BY <3>1
    <3> QED
      BY <3>1, <3>2, <3>3
  <2>3. h \o q # << >>
    BY <1>2, <2>2, EmptySeq
  <2>4. /\ Tail(h \o q) \in Seq(Batch) /\ Len(Tail(h \o q)) = Len(q)
        /\ \A k \in 1 .. Len(q) : Tail(h \o q)[k] = (h \o q)[k + 1]
    BY <1>2, <2>2, <2>3, HeadTailProperties
  <2>5. Tail(h \o q) = q
    BY <2>2, <2>4, SeqEqual
  <2>6. << >> \o q = q
    BY ConcatEmptySeq
  <2> QED
    BY <2>2, <2>3, <2>5, <2>6
<1> QED
  BY <1>2, <1>3, <1>4, <1>5

\* What is in batches has the type of a change.
LEMMA Elements ==
  /\ \A b \in Batch : \A x : In(b, x) => x \in Nat \X Nat
  /\ \A q \in Seq(Batch) : \A x : InSome(q, x) => x \in Nat \X Nat
<1>1. ASSUME NEW b \in Batch, NEW x, In(b, x)
      PROVE  x \in Nat \X Nat
  BY <1>1, ElementOfSeq, LenProperties DEF In, Batch
<1>2. ASSUME NEW q \in Seq(Batch), NEW x, InSome(q, x)
      PROVE  x \in Nat \X Nat
  <2>1. PICK m \in DOMAIN q : In(q[m], x)
    BY <1>2 DEF InSome
  <2>2. q[m] \in Batch
    BY ElementOfSeq, LenProperties
  <2> QED
    BY <1>1, <2>1, <2>2
<1> QED
  BY <1>1, <1>2

\* The state of a reader has the types that the lemmas on lines ask for.
LEMMA LineTyped ==
  ASSUME Typed, NEW r \in Readers
  PROVE  /\ Line(r) \in Seq(Batch) /\ batch[r] \in Batch /\ pos[r] \in Nat /\ r \in Nat
         /\ heads[r] \in HeadOf /\ inner[r] \in Seq(Batch) /\ out \in Seq(Batch)
         /\ file[r] \in Seq(RawChange) /\ Monotone(file[r])
         /\ Len(file[r]) \in Nat /\ DOMAIN file[r] = 1 .. Len(file[r])
         /\ \A n \in DOMAIN file[r] : file[r][n].time \in Nat
<1>1. /\ batch[r] \in Batch /\ pos[r] \in Nat /\ heads[r] \in HeadOf
      /\ inner[r] \in Seq(Batch) /\ out \in Seq(Batch) /\ file \in Inputs
  BY DEF Typed
<1>2. Line(r) \in Seq(Batch)
  BY <1>1, Lines DEF Line
<1>3. Readers = 1 .. Len(file) /\ Len(file) \in Nat
  BY <1>1, FilesTyped
<1>4. r \in Nat
  BY <1>3
<1> QED
  BY <1>1, <1>2, <1>4, FilesTyped

\* Changes of one file come in its order.
LEMMA SameReader ==
  ASSUME NEW f, NEW r, NEW x, NEW y, Monotone(f[r]),
         \A n \in DOMAIN f[r] : n \in Nat /\ f[r][n].time \in Nat,
         x = <<r, x[2]>>, y = <<r, y[2]>>, x[2] \in DOMAIN f[r], y[2] \in DOMAIN f[r], x[2] < y[2]
  PROVE  Precedes(f, x, y) /\ TimeOf(f, x) <= TimeOf(f, y)
<1>1. x[1] = r /\ y[1] = r
  OBVIOUS
<1> DEFINE s == f[r][x[2]].time
           t == f[r][y[2]].time
<1>2. TimeOf(f, x) = s /\ TimeOf(f, y) = t
  BY <1>1 DEF TimeOf
<1>3. s \in Nat /\ t \in Nat /\ x[2] \in Nat /\ y[2] \in Nat
  OBVIOUS
<1>4. x[2] <= y[2]
  BY <1>3
<1>5. s <= t
  BY <1>4 DEF Monotone
<1> HIDE DEF s, t
<1>6. s < t \/ s = t
  BY <1>3, <1>5
<1> QED
  BY <1>1, <1>2, <1>5, <1>6 DEF Precedes

\* What is still to come from a reader with a batch in line is not before that batch.
LEMMA AfterHead ==
  ASSUME NEW f, NEW e, NEW r, NEW l \in Seq(Batch), NEW b \in Batch, NEW p \in Nat, NEW live, NEW y,
         Lined(f, e, r, l, b, p), l # << >>, Ahead(f, r, l, b, p, live, y), Monotone(f[r]),
         \A n \in DOMAIN f[r] : n \in Nat /\ f[r][n].time \in Nat
  PROVE  /\ y = <<r, y[2]>> /\ y[2] \in DOMAIN f[r]
         /\ TimeOf(f, l[1][1]) \in Nat /\ TimeOf(f, y) \in Nat
         /\ TimeOf(f, l[1][1]) <= TimeOf(f, y)
         /\ \A x : In(l[1], x) => In(l[1], y) \/ x[2] < y[2]
<1> DEFINE g == l[1]
           h == g[1]
<1>1. /\ RunOf(f, e, r, g) /\ \A x : In(g, x) => InSome(l, x)
      /\ \A x, z : In(g, x) /\ InSome(Tail(l), z) => x[2] < z[2]
  BY LinedServed
<1>2. g \in Batch /\ g # << >>
  BY <1>1 DEF RunOf
<1>3. In(g, h)
  <2>1. 1 \in DOMAIN g
    BY <1>2, EmptySeq, LenProperties DEF Batch
  <2> QED
    BY <2>1 DEF In
<1>4. /\ h = <<r, h[2]>> /\ h[2] \in DOMAIN f[r]
      /\ \A x : In(g, x) => x = <<r, x[2]>> /\ x[2] \in DOMAIN f[r] /\ TimeOf(f, x) = TimeOf(f, h)
  BY <1>1, <1>3 DEF RunOf
<1>5. y = <<r, y[2]>> /\ y[2] \in DOMAIN f[r] /\ (In(g, y) \/ \A x : In(g, x) => x[2] < y[2])
  <2>1. CASE InSome(l, y)
    <3>1. PICK k \in DOMAIN l : In(l[k], y)
      BY <2>1 DEF InSome
    <3>2. RunOf(f, e, r, l[k])
      BY DEF Lined
    <3>3. Len(l) \in Nat \ {0} /\ DOMAIN l = 1 .. Len(l)
      BY EmptySeq, LenProperties
    <3>4. k = 1 \/ (1 \in DOMAIN l /\ 1 < k)
      BY <3>3
    <3>5. In(g, y) \/ \A x : In(g, x) => x[2] < y[2]
      BY <3>1, <3>4 DEF Lined
    <3> QED
      BY <3>1, <3>2, <3>5 DEF RunOf
  <2>2. CASE In(b, y)
    <3>1. RunOf(f, e, r, b)
      BY <2>2, InSomeSmall DEF Lined
    <3>2. \A x : In(g, x) => x[2] < y[2]
      BY <1>1, <2>2 DEF Lined
    <3> QED
      BY <2>2, <3>1, <3>2 DEF RunOf
  <2>3. CASE \E n \in DOMAIN f[r] : p < n /\ y = <<r, n>>
    <3>1. PICK n \in DOMAIN f[r] : p < n /\ y = <<r, n>>
      BY <2>3
    <3>2. y[2] = n /\ n \in Nat
      BY <3>1
    <3>3. ASSUME NEW x, In(g, x)
          PROVE  x[2] < y[2]
      <4>1. x[2] \in Nat /\ x[2] <= p
        BY <1>1, <1>4, <3>3 DEF Lined
      <4> QED
        BY <3>1, <3>2, <4>1
    <3> QED
      BY <3>1, <3>2, <3>3
  <2> QED
    BY <2>1, <2>2, <2>3 DEF Ahead
<1>6. TimeOf(f, h) \in Nat /\ TimeOf(f, y) \in Nat
  BY <1>4, <1>5 DEF TimeOf
<1>7. TimeOf(f, h) <= TimeOf(f, y)
  <2>1. CASE In(g, y)
    <3>1. TimeOf(f, y) = TimeOf(f, h)
      BY <1>4, <2>1
    <3> QED
      BY <1>6, <3>1
  <2>2. CASE \A x : In(g, x) => x[2] < y[2]
    BY <1>3, <1>4, <1>5, <2>2, SameReader
  <2> QED
    BY <1>5, <2>1, <2>2
<1> QED
  BY <1>5, <1>6, <1>7

\* A step that sends nothing keeps the order, if nothing new is to come.
LEMMA NothingSent ==
  ASSUME SInv, Rows', Alone', file' = file, end' = end, out' = out,
         \A q \in Readers : \A y : Coming(q, y)' => Coming(q, y)
  PROVE  SInv'
<1>1. Readers' = Readers
  BY DEF Readers
<1>2. OutRuns' /\ OutOrdered'
  BY <1>1 DEF SInv, OutRuns, OutOrdered
<1>3. Frontier'
  BY <1>1 DEF SInv, Frontier
<1> QED
  BY <1>2, <1>3 DEF SInv

\* A step that sends a batch keeps the order, if the batch was to come and precedes all
\* that is to come after it.
LEMMA BatchSent ==
  ASSUME SInv, Rows', Alone', file' = file, end' = end, out \in Seq(Batch),
         NEW r \in Readers, NEW b, out' = Append(out, b), RunOf(file, end, r, b),
         \A x : In(b, x) => Coming(r, x),
         \A q \in Readers : \A y : Coming(q, y)' => Coming(q, y),
         \A q \in Readers : \A x, y : In(b, x) /\ Coming(q, y)' => Precedes(file, x, y)
  PROVE  SInv'
<1>1. Readers' = Readers /\ b \in Batch
  BY DEF Readers, RunOf
<1>2. /\ Len(out) \in Nat /\ DOMAIN out = 1 .. Len(out) /\ DOMAIN out' = 1 .. Len(out) + 1
      /\ \A k \in 1 .. Len(out) : out'[k] = out[k]
      /\ out'[Len(out) + 1] = b
  BY <1>1, AppendAt
<1>3. OutRuns'
  <2>1. ASSUME NEW m \in DOMAIN out'
        PROVE  \E q \in Readers : RunOf(file, end, q, out'[m])
    <3>1. CASE m \in DOMAIN out
      BY <1>2, <3>1 DEF SInv, OutRuns
    <3>2. CASE m = Len(out) + 1
      BY <1>2, <3>2
    <3> QED
      BY <1>2, <3>1, <3>2
  <2> QED
    BY <1>1, <2>1 DEF OutRuns
<1>4. OutOrdered'
  <2>1. ASSUME NEW m \in DOMAIN out', NEW n \in DOMAIN out', m < n,
               NEW x, NEW y, In(out'[m], x), In(out'[n], y)
        PROVE  Precedes(file, x, y)
    <3>1. m \in DOMAIN out /\ In(out[m], x)
      BY <1>2, <2>1
    <3>2. CASE n \in DOMAIN out
      BY <1>2, <2>1, <3>1, <3>2 DEF SInv, OutOrdered
    <3>3. CASE n = Len(out) + 1
      <4>1. InSome(out, x) /\ Coming(r, y)
        BY <1>2, <2>1, <3>1, <3>3 DEF InSome
      <4> QED
        BY <4>1 DEF SInv, Frontier
    <3> QED
      BY <1>2, <3>2, <3>3
  <2> QED
    BY <2>1 DEF OutOrdered
<1>5. Frontier'
  <2>1. ASSUME NEW q \in Readers, NEW x, NEW y, InSome(out', x), Coming(q, y)'
        PROVE  Precedes(file, x, y)
    <3>1. InSome(out, x) \/ In(b, x)
      BY <1>1, <2>1, InAppended
    <3>2. CASE InSome(out, x)
      BY <2>1, <3>2 DEF SInv, Frontier
    <3>3. CASE In(b, x)
      BY <2>1, <3>3
    <3> QED
      BY <3>1, <3>2, <3>3
  <2> QED
    BY <1>1, <2>1 DEF Frontier
<1> QED
  BY <1>3, <1>4, <1>5 DEF SInv

\* The readers but r are as they were.
OthersKept(r) ==
  \A q \in Readers : q # r => /\ heads'[q] = heads[q] /\ inner'[q] = inner[q]
                              /\ batch'[q] = batch[q] /\ pos'[q] = pos[q] /\ thread'[q] = thread[q]

\* A step of reader r leaves the lines of the others.
LEMMA OthersRows ==
  ASSUME SInv, NEW r \in Readers, OthersKept(r), file' = file, end' = end,
         Lined(file, end, r, Line(r)', batch'[r], pos'[r])
  PROVE  /\ Rows'
         /\ \A q \in Readers : \A y : q # r /\ Coming(q, y)' => Coming(q, y)
<1>1. \A q \in Readers : q # r => Line(q)' = Line(q)
  BY DEF OthersKept, Line
<1>2. Readers' = Readers
  BY DEF Readers
<1>3. Rows'
  <2>1. ASSUME NEW q \in Readers
        PROVE  Lined(file', end', q, Line(q)', batch'[q], pos'[q])
    <3>1. CASE q = r
      BY <3>1
    <3>2. CASE q # r
      BY <1>1, <3>2 DEF OthersKept, SInv, Rows
    <3> QED
      BY <3>1, <3>2
  <2> QED
    BY <1>2, <2>1 DEF Rows
<1>4. ASSUME NEW q \in Readers, NEW y, q # r, Coming(q, y)'
      PROVE  Coming(q, y)
  BY <1>1, <1>4 DEF OthersKept, Coming
<1> QED
  BY <1>3, <1>4

\* Nothing changes in what was read, or is on its way.
LEMMA RowsUnchanged ==
  ASSUME SInv, Alone', UNCHANGED <<file, end, pos, batch, thread, out>>,
         \A q \in Readers : Line(q)' = Line(q)
  PROVE  SInv'
<1>1. Readers' = Readers
  BY DEF Readers
<1>2. Rows'
  BY <1>1 DEF SInv, Rows
<1>3. \A q \in Readers : \A y : Coming(q, y)' => Coming(q, y)
  BY DEF Coming
<1> QED
  BY <1>2, <1>3, NothingSent

\* A step of the reader that leaves its file and its batch alone.
LEMMA ThreadStep ==
  ASSUME SInv, NEW r \in Readers, EndOfFile(r) \/ StopPastEnd(r) \/ Return(r)
  PROVE  SInv'
<1>1. /\ UNCHANGED <<file, end, pos, batch, inner, pc, heads, out>>
      /\ thread[r] \in {"reading", "last"}
      /\ \E t : thread' = [thread EXCEPT ![r] = t]
  BY DEF EndOfFile, StopPastEnd, Return
<1>2. Readers' = Readers /\ Alone' /\ \A q \in Readers : Line(q)' = Line(q)
  BY <1>1 DEF Readers, Line, SInv, Alone, Direct
<1>3. Rows'
  BY <1>1, <1>2 DEF SInv, Rows
<1>4. \A q \in Readers : thread'[q] \in {"reading", "last"} => thread[q] \in {"reading", "last"}
  BY <1>1
<1>5. \A q \in Readers : \A y : Coming(q, y)' => Coming(q, y)
  BY <1>1, <1>2, <1>4 DEF Coming, Ahead
<1> QED
  BY <1>1, <1>2, <1>3, <1>5, NothingSent

\* What the model says of the next change, in terms of the file.
LEMMA NextTaken ==
  ASSUME NEW r \in Readers, Typed, HasNext(r)
  PROVE  /\ pos[r] + 1 \in DOMAIN file[r]
         /\ Selected(r, NextChange(r)) => Chosen(end, r, file[r][pos[r] + 1])
         /\ NextChange(r).time = file[r][pos[r] + 1].time
<1>1. pos[r] + 1 \in DOMAIN file[r]
  BY LineTyped DEF HasNext
<1> QED
  BY <1>1 DEF Selected, PastEnd, Chosen, NextChange

\* A change that is skipped is no longer to come.
LEMMA SkipStep ==
  ASSUME SInv, Typed, NEW r \in Readers, Skip(r)
  PROVE  SInv'
<1>1. /\ pos' = [pos EXCEPT ![r] = @ + 1]
      /\ UNCHANGED <<file, end, batch, thread, inner, pc, heads, out>>
  BY DEF Skip
<1>2. /\ pos[r] \in Nat /\ pos'[r] = pos[r] + 1
      /\ Line(r) \in Seq(Batch) /\ batch[r] \in Batch
      /\ \A n \in DOMAIN file[r] : n \in Nat
  <2>1. pos \in [Readers -> Nat]
    BY DEF Typed
  <2> QED
    BY <1>1, <2>1, LineTyped
<1>3. OthersKept(r) /\ Line(r)' = Line(r) /\ Alone'
  BY <1>1 DEF OthersKept, Line, SInv, Alone, Direct, Typed
<1>4. Lined(file, end, r, Line(r), batch[r], pos[r])
  BY DEF SInv, Rows
<1>5. \A x : In(batch[r], x) \/ InSome(Line(r), x) => x[2] \in Nat /\ x[2] <= pos[r]
  BY <1>2, <1>4, Elements DEF Lined
<1>6. \A x : In(batch[r], x) \/ InSome(Line(r), x) => x[2] <= pos[r] + 1
  BY <1>2, <1>5
<1>7. Lined(file, end, r, Line(r), batch[r], pos[r] + 1)
  BY <1>4, <1>6 DEF Lined
<1>8. /\ Rows'
      /\ \A q \in Readers : \A y : q # r /\ Coming(q, y)' => Coming(q, y)
  BY <1>1, <1>2, <1>3, <1>7, OthersRows
<1>9. ASSUME NEW y, Coming(r, y)'
      PROVE  Coming(r, y)
  <2>1. \A n \in DOMAIN file[r] : pos[r] + 1 < n => pos[r] < n
    BY <1>2
  <2> QED
    BY <1>1, <1>2, <1>3, <1>9, <2>1 DEF Coming, Ahead
<1> QED
  BY <1>1, <1>3, <1>8, <1>9, NothingSent

\* The next change joins the batch.
LEMMA JoinStep ==
  ASSUME SInv, Typed, NEW r \in Readers, Read(r), ~BatchComplete(r)
  PROVE  SInv'
<1> DEFINE z == <<r, pos[r] + 1>>
<1>1. /\ HasNext(r) /\ Selected(r, NextChange(r)) /\ thread[r] = "reading"
      /\ pos' = [pos EXCEPT ![r] = @ + 1] /\ batch' = [batch EXCEPT ![r] = Append(@, z)]
      /\ UNCHANGED <<file, end, thread, inner, pc, heads, out>>
  BY DEF Read
<1>2. /\ pos[r] \in Nat /\ r \in Nat /\ Line(r) \in Seq(Batch) /\ batch[r] \in Batch
      /\ \A n \in DOMAIN file[r] : n \in Nat
  BY LineTyped
<1>3. pos'[r] = pos[r] + 1 /\ batch'[r] = Append(batch[r], z)
  BY <1>1 DEF Typed
<1>4. OthersKept(r) /\ Line(r)' = Line(r) /\ Alone'
  BY <1>1 DEF OthersKept, Line, SInv, Alone, Direct, Typed
<1>5. Lined(file, end, r, Line(r), batch[r], pos[r])
  BY DEF SInv, Rows
<1>6. \A x : In(batch[r], x) \/ InSome(Line(r), x) => x[2] \in Nat
  BY <1>2, Elements
<1>7. /\ pos[r] + 1 \in DOMAIN file[r] /\ Chosen(end, r, file[r][pos[r] + 1])
      /\ NextChange(r).time = file[r][pos[r] + 1].time
  BY <1>1, NextTaken
<1>8. batch[r] # << >> => /\ Len(batch[r]) < BatchSize
                          /\ file[r][pos[r] + 1].time = TimeOf(file, batch[r][1])
  <2>1. Len(batch[r]) \in Nat /\ BatchSize \in Nat
    BY <1>2, SendAssumption, LenProperties DEF Batch
  <2> QED
    BY <1>7, <2>1 DEF BatchComplete, BatchTime, Time, TimeOf
<1>9. Lined(file, end, r, Line(r), Append(batch[r], z), pos[r] + 1)
  BY <1>2, <1>5, <1>6, <1>7, <1>8, LinedRead
<1>10. z \in Nat \X Nat
  BY <1>2
<1> HIDE DEF z
<1>11. /\ Rows'
       /\ \A q \in Readers : \A y : q # r /\ Coming(q, y)' => Coming(q, y)
  BY <1>1, <1>3, <1>4, <1>9, OthersRows
<1>12. ASSUME NEW y, Coming(r, y)'
       PROVE  Coming(r, y)
  <2>1. \A n \in DOMAIN file[r] : pos[r] + 1 < n => pos[r] < n
    BY <1>2
  <2>2. In(Append(batch[r], z), y) => In(batch[r], y) \/ y = z
    BY <1>2, <1>10, InAppended DEF Batch
  <2>3. pos[r] < pos[r] + 1
    BY <1>2
  <2> QED
    BY <1>1, <1>3, <1>4, <1>7, <1>12, <2>1, <2>2, <2>3 DEF Coming, Ahead, z
<1> QED
  BY <1>1, <1>4, <1>11, <1>12, NothingSent

\* The batch is sent: to the inner channel, or by a lone reader to the comparison.  The next
\* one is empty, or begins with the change that was read.
LEMMA FlushStep ==
  ASSUME SInv, IInv, NEW r \in Readers, Flush(r), batch[r] # << >>,
         thread[r] \in {"reading", "last"},
         UNCHANGED <<file, end, thread, pc, heads>>,
         \A q \in Readers : q # r => batch'[q] = batch[q] /\ pos'[q] = pos[q],
         Lined(file, end, r, Line(r), batch[r], pos[r])
           => \A l \in Seq(Batch) : Lined(file, end, r, l, << >>, pos[r])
                => Lined(file, end, r, l, batch'[r], pos'[r]),
         \A y : In(batch'[r], y) => /\ y = <<r, y[2]>> /\ y[2] \in DOMAIN file[r] /\ pos[r] < y[2],
         \A n \in DOMAIN file[r] : pos'[r] < n => pos[r] < n
  PROVE  SInv'
<1>1. /\ Line(r) \in Seq(Batch) /\ batch[r] \in Batch /\ pos[r] \in Nat
      /\ heads[r] \in HeadOf /\ inner[r] \in Seq(Batch) /\ out \in Seq(Batch)
      /\ Monotone(file[r])
      /\ \A n \in DOMAIN file[r] : n \in Nat /\ file[r][n].time \in Nat
  BY LineTyped DEF IInv
<1>2. Lined(file, end, r, Line(r), batch[r], pos[r])
  BY DEF SInv, Rows
<1>3. RunOf(file, end, r, batch[r])
  BY <1>2 DEF Lined
<1>4. Alone'
  BY DEF SInv, Alone, Direct
<1>5. \A y : In(batch'[r], y) => Coming(r, y)
  BY DEF Coming, Ahead
<1>6. CASE Direct
  <2>1. out' = Append(out, batch[r]) /\ UNCHANGED inner /\ OthersKept(r)
    BY <1>6 DEF Flush, OthersKept
  <2>2. Line(r) = << >> /\ Line(r)' = Line(r)
    <3>1. heads[r] = << >> /\ inner[r] = << >>
      BY <1>6 DEF SInv, Alone, IInv, Drained
    <3> QED
      BY <2>1, <3>1, ConcatEmptySeq DEF Line
  <2>3. \A x : ~InSome(<< >>, x) /\ ~In(<< >>, x)
    BY InSomeSmall
  <2>4. Lined(file, end, r, << >>, << >>, pos[r])
    BY <2>3 DEF Lined
  <2>5. /\ Rows'
        /\ \A q \in Readers : \A y : q # r /\ Coming(q, y)' => Coming(q, y)
    <3>1. << >> \in Seq(Batch)
      BY EmptySeq
    <3>2. Lined(file, end, r, << >>, batch'[r], pos'[r])
      BY <1>2, <2>4, <3>1
    <3>3. Lined(file, end, r, Line(r)', batch'[r], pos'[r])
      BY <2>2, <3>2
    <3> QED
      BY <2>1, <3>3, OthersRows
  <2>6. ASSUME NEW y, Coming(r, y)'
        PROVE  Coming(r, y) /\ y = <<r, y[2]>> /\ y[2] \in DOMAIN file[r] /\ pos[r] < y[2]
    BY <1>5, <2>2, <2>3, <2>6 DEF Coming, Ahead
  <2>7. \A q \in Readers : q = r
    <3>1. Readers = 1 .. 1
      BY <1>6, FilesTyped DEF IInv, Typed, Direct
    <3> QED
      BY <3>1
  <2>8. ASSUME NEW x, NEW y, In(batch[r], x), Coming(r, y)'
        PROVE  Precedes(file, x, y)
    <3>1. x = <<r, x[2]>> /\ x[2] \in DOMAIN file[r] /\ x[2] \in Nat /\ x[2] <= pos[r]
      BY <1>1, <1>2, <1>3, <2>8 DEF Lined, RunOf
    <3>2. y = <<r, y[2]>> /\ y[2] \in DOMAIN file[r] /\ pos[r] < y[2]
      BY <2>6, <2>8
    <3>3. x[2] < y[2]
      BY <1>1, <3>1, <3>2
    <3> QED
      BY <1>1, <3>1, <3>2, <3>3, SameReader
  <2>9. \A x : In(batch[r], x) => Coming(r, x)
    BY DEF Coming, Ahead
  <2>10. \A q \in Readers : \A y : Coming(q, y)' => Coming(q, y)
    BY <2>5, <2>6
  <2>11. \A q \in Readers : \A x, y : In(batch[r], x) /\ Coming(q, y)' => Precedes(file, x, y)
    BY <2>7, <2>8
  <2> QED
    BY <1>1, <1>3, <1>4, <2>1, <2>5, <2>9, <2>10, <2>11, BatchSent
<1>7. CASE ~Direct
  <2>1. inner' = [inner EXCEPT ![r] = Append(@, batch[r])] /\ out' = out
    BY <1>7 DEF Flush
  <2>2. inner'[r] = Append(inner[r], batch[r]) /\ OthersKept(r)
    BY <2>1 DEF IInv, Typed, OthersKept
  <2>3. Line(r)' = Append(Line(r), batch[r])
    <3>1. heads[r] \o Append(inner[r], batch[r]) = Append(heads[r] \o inner[r], batch[r])
      BY <1>1, Lines
    <3> QED
      BY <2>2, <3>1 DEF Line
  <2>4. Append(Line(r), batch[r]) \in Seq(Batch)
    BY <1>1
  <2>5. Lined(file, end, r, Append(Line(r), batch[r]), << >>, pos[r])
    BY <1>1, <1>2, LinedSent
  <2>6. /\ Rows'
        /\ \A q \in Readers : \A y : q # r /\ Coming(q, y)' => Coming(q, y)
    BY <1>2, <2>2, <2>3, <2>4, <2>5, OthersRows
  <2>7. ASSUME NEW y, Coming(r, y)'
        PROVE  Coming(r, y)
    <3>1. InSome(Append(Line(r), batch[r]), y) => InSome(Line(r), y) \/ In(batch[r], y)
      BY <1>1, InAppended
    <3> QED
      BY <1>5, <2>3, <2>7, <3>1 DEF Coming, Ahead
  <2> QED
    BY <1>4, <2>1, <2>6, <2>7, NothingSent
<1> QED
  BY <1>6, <1>7

\* The batch is full or of another time: it is sent, and the next change begins a new one.
LEMMA ReadStep ==
  ASSUME SInv, IInv, NEW r \in Readers, Read(r), BatchComplete(r)
  PROVE  SInv'
<1> DEFINE z == <<r, pos[r] + 1>>
<1>1. /\ HasNext(r) /\ Selected(r, NextChange(r)) /\ thread[r] = "reading"
      /\ Flush(r) /\ batch[r] # << >>
      /\ pos' = [pos EXCEPT ![r] = @ + 1] /\ batch' = [batch EXCEPT ![r] = <<z>>]
      /\ UNCHANGED <<file, end, thread, pc, heads>>
  BY DEF Read, BatchComplete
<1>2. /\ pos[r] \in Nat /\ r \in Nat /\ \A n \in DOMAIN file[r] : n \in Nat
      /\ pos'[r] = pos[r] + 1 /\ batch'[r] = <<z>>
      /\ \A q \in Readers : q # r => batch'[q] = batch[q] /\ pos'[q] = pos[q]
  <2>1. pos[r] \in Nat /\ r \in Nat /\ \A n \in DOMAIN file[r] : n \in Nat
    BY LineTyped DEF IInv
  <2>2. pos \in [Readers -> Nat] /\ batch \in [Readers -> Batch]
    BY DEF IInv, Typed
  <2> HIDE DEF z
  <2> QED
    BY <1>1, <2>1, <2>2
<1>3. pos[r] + 1 \in DOMAIN file[r] /\ Chosen(end, r, file[r][pos[r] + 1])
  BY <1>1, NextTaken DEF IInv
<1>4. << >> \in Batch /\ Append(<< >>, z) = <<z>>
  BY EmptySeq DEF Batch
<1>5. ASSUME NEW l \in Seq(Batch), Lined(file, end, r, l, << >>, pos[r])
      PROVE  Lined(file, end, r, l, batch'[r], pos'[r])
  <2>1. \A x : In(<< >>, x) \/ InSome(l, x) => x[2] \in Nat
    BY <1>4, Elements
  <2>2. Lined(file, end, r, l, Append(<< >>, z), pos[r] + 1)
    BY <1>2, <1>3, <1>4, <1>5, <2>1, LinedRead
  <2> QED
    BY <1>2, <1>4, <2>2
<1>6. ASSUME NEW y, In(batch'[r], y)
      PROVE  y = <<r, y[2]>> /\ y[2] \in DOMAIN file[r] /\ pos[r] < y[2]
  <2>1. y = z
    <3>1. DOMAIN <<z>> = {1} /\ <<z>>[1] = z
      OBVIOUS
    <3> HIDE DEF z
    <3> QED
      BY <1>2, <1>6, <3>1 DEF In
  <2> QED
    BY <1>2, <1>3, <2>1
<1>7. \A n \in DOMAIN file[r] : pos'[r] < n => pos[r] < n
  BY <1>2
<1> QED
  BY <1>1, <1>2, <1>5, <1>6, <1>7, FlushStep

\* The last batch of a thread is sent.
LEMMA LastStep ==
  ASSUME SInv, IInv, NEW r \in Readers, LastFlush(r)
  PROVE  SInv'
<1>1. /\ thread[r] = "last" /\ Flush(r) /\ batch[r] # << >>
      /\ batch' = [batch EXCEPT ![r] = << >>]
      /\ UNCHANGED <<file, end, pos, thread, pc, heads>>
  BY DEF LastFlush
<1>2. /\ pos'[r] = pos[r] /\ batch'[r] = << >>
      /\ \A q \in Readers : q # r => batch'[q] = batch[q] /\ pos'[q] = pos[q]
  BY <1>1 DEF IInv, Typed
<1>3. \A y : ~In(batch'[r], y)
  BY <1>2, InSomeSmall
<1> QED
  BY <1>1, <1>2, <1>3, FlushStep

\* Receiving moves a batch from the channel to the head: the line is the same.
LEMMA ReceiveStep ==
  ASSUME SInv, IInv, Receive \/ Disconnected
  PROVE  SInv'
<1>1. /\ pc \in {"fill", "refill"} /\ AfterReceive
      /\ UNCHANGED <<file, end, pos, batch, thread, out>>
  BY DEF Receive, Disconnected, readers
<1>2. cur \in Readers /\ inner \in [Readers -> Seq(Batch)] /\ heads \in [Readers -> HeadOf]
  BY DEF IInv, Typed
<1>3. Alone'
  BY <1>1 DEF AfterReceive, SInv, Alone, Direct
<1>4. CASE Receive
  <2>1. /\ inner[cur] # << >>
        /\ heads' = [heads EXCEPT ![cur] = <<Head(inner[cur])>>]
        /\ inner' = [inner EXCEPT ![cur] = Tail(@)]
    BY <1>4 DEF Receive
  <2>2. heads[cur] = << >>
    <3>1. Waiting(cur)
      <4>1. cur \in Nat
        BY <1>2, LineTyped DEF IInv
      <4> QED
        BY <1>1, <4>1 DEF Waiting
    <3> QED
      BY <1>2, <3>1 DEF IInv, Refilled
  <2>3. <<Head(inner[cur])>> \o Tail(inner[cur]) = heads[cur] \o inner[cur]
    BY <1>2, <2>1, <2>2, Lines
  <2>4. ASSUME NEW q \in Readers
        PROVE  Line(q)' = Line(q)
    <3>1. CASE q = cur
      <4>1. heads'[q] = <<Head(inner[cur])>> /\ inner'[q] = Tail(inner[cur])
        BY <1>2, <2>1, <3>1
      <4> QED
        BY <2>3, <3>1, <4>1 DEF Line
    <3>2. CASE q # cur
      <4>1. heads'[q] = heads[q] /\ inner'[q] = inner[q]
        BY <1>2, <2>1, <3>2
      <4> QED
        BY <4>1 DEF Line
    <3> QED
      BY <3>1, <3>2
  <2> QED
    BY <1>1, <1>3, <2>4, RowsUnchanged
<1>5. CASE Disconnected
  <2>1. \A q \in Readers : Line(q)' = Line(q)
    BY <1>5 DEF Disconnected, Line
  <2> QED
    BY <1>1, <1>3, <2>1, RowsUnchanged
<1> QED
  BY <1>4, <1>5

\* The head with the least time, of the first reader among equals, precedes all that is to come.
LEMMA ForwardStep ==
  ASSUME SInv, IInv, Forward
  PROVE  SInv'
<1>1. PICK r \in Readers : IsMin(r) /\ out' = Append(out, heads[r][1])
                           /\ heads' = [heads EXCEPT ![r] = << >>]
  BY DEF Forward
<1>2. pc = "merge" /\ UNCHANGED <<file, end, pos, batch, thread, inner>>
  BY DEF Forward, readers
<1>3. \A q \in Readers :
        /\ Line(q) \in Seq(Batch) /\ batch[q] \in Batch /\ pos[q] \in Nat /\ q \in Nat
        /\ heads[q] \in HeadOf /\ inner[q] \in Seq(Batch)
        /\ Monotone(file[q])
        /\ \A n \in DOMAIN file[q] : n \in Nat /\ file[q][n].time \in Nat
        /\ Lined(file, end, q, Line(q), batch[q], pos[q])
  BY LineTyped DEF IInv, SInv, Rows
<1>4. out \in Seq(Batch) /\ ~Direct /\ Alone'
  BY <1>2 DEF IInv, Typed, SInv, Alone, Direct
<1> DEFINE b == heads[r][1]
<1>5. \A q \in Readers : heads[q] # << >> => Line(q) # << >> /\ Line(q)[1] = heads[q][1]
  BY <1>3, Lines DEF Line
<1>6. heads[r] # << >> /\ Line(r) # << >> /\ Line(r)[1] = b
  BY <1>1, <1>5 DEF IsMin
<1>7. Line(r)' = Tail(Line(r))
  <2>1. heads'[r] = << >> /\ inner'[r] = inner[r]
    BY <1>1, <1>2 DEF IInv, Typed
  <2>2. << >> \o inner[r] = Tail(heads[r] \o inner[r])
    BY <1>3, <1>6, Lines
  <2> QED
    BY <2>1, <2>2 DEF Line
<1>8. OthersKept(r)
  BY <1>1, <1>2 DEF OthersKept, IInv, Typed
<1>9. /\ Lined(file, end, r, Tail(Line(r)), batch[r], pos[r])
      /\ \A x : InSome(Tail(Line(r)), x) => InSome(Line(r), x)
      /\ RunOf(file, end, r, b) /\ \A x : In(b, x) => InSome(Line(r), x)
      /\ \A x, y : In(b, x) /\ InSome(Tail(Line(r)), y) => x[2] < y[2]
  BY <1>3, <1>6, LinedServed
<1>10. /\ Rows'
       /\ \A q \in Readers : \A y : q # r /\ Coming(q, y)' => Coming(q, y)
  BY <1>2, <1>7, <1>8, <1>9, OthersRows
<1>11. \A x : In(b, x) => Coming(r, x)
  BY <1>9 DEF Coming, Ahead
<1>12. \A y : Coming(r, y)' => Coming(r, y)
  BY <1>2, <1>7, <1>9 DEF Coming, Ahead
<1>13. /\ b \in Batch /\ b # << >>
       /\ \A x : In(b, x) => /\ x = <<r, x[2]>> /\ x[2] \in DOMAIN file[r]
                             /\ TimeOf(file, x) = TimeOf(file, b[1])
  BY <1>9 DEF RunOf
<1>14. \A g : BatchTime(g) = TimeOf(file, g[1])
  BY DEF BatchTime, Time, TimeOf
<1> HIDE DEF b
<1>15. ASSUME NEW x, NEW y, In(b, x), Coming(r, y)'
       PROVE  Precedes(file, x, y)
  <2>1. /\ y = <<r, y[2]>> /\ y[2] \in DOMAIN file[r]
    <3>1. Coming(r, y)
      BY <1>12, <1>15
    <3>2. Ahead(file, r, Line(r), batch[r], pos[r], thread[r] \in {"reading", "last"}, y)
      BY <3>1 DEF Coming
    <3> QED
      BY <1>3, <1>6, <3>2, AfterHead
  <2>2. x[2] < y[2]
    <3>1. CASE InSome(Tail(Line(r)), y)
      BY <1>9, <1>15, <3>1
    <3>2. CASE In(batch[r], y)
      BY <1>3, <1>9, <1>15, <3>2 DEF Lined
    <3>3. CASE \E n \in DOMAIN file[r] : pos[r] < n /\ y = <<r, n>>
      <4>1. PICK n \in DOMAIN file[r] : pos[r] < n /\ y = <<r, n>>
        BY <3>3
      <4>2. y[2] = n /\ n \in Nat /\ pos[r] \in Nat /\ x[2] \in Nat
        BY <1>3, <1>13, <1>15, <4>1
      <4>3. x[2] <= pos[r]
        BY <1>3, <1>9, <1>15 DEF Lined
      <4> QED
        BY <4>1, <4>2, <4>3
    <3> QED
      BY <1>2, <1>7, <1>15, <3>1, <3>2, <3>3 DEF Coming, Ahead
  <2> QED
    BY <1>3, <1>13, <1>15, <2>1, <2>2, SameReader
<1>16. ASSUME NEW q \in Readers, NEW x, NEW y, q # r, In(b, x), Coming(q, y)
       PROVE  Precedes(file, x, y)
  <2>1. heads[q] # << >>
    <3> SUFFICES ASSUME heads[q] = << >> PROVE FALSE
      OBVIOUS
    <3>1. inner[q] = << >> /\ Finished(q)
      BY <1>2 DEF IInv, Refilled, Asked
    <3>2. Line(q) = << >>
      BY <3>1, ConcatEmptySeq DEF Line
    <3>3. thread[q] \notin {"reading", "last"}
      BY <3>1 DEF Finished
    <3> QED
      BY <1>16, <3>2, <3>3, InSomeSmall DEF Coming, Ahead
  <2> DEFINE g == heads[q][1]
             s == TimeOf(file, b[1])
             t == TimeOf(file, g[1])
             u == TimeOf(file, y)
  <2>2. Line(q) # << >> /\ Line(q)[1] = g
    BY <1>5, <2>1
  <2>3. y = <<q, y[2]>> /\ t \in Nat /\ u \in Nat /\ t <= u
    <3>1. Ahead(file, q, Line(q), batch[q], pos[q], thread[q] \in {"reading", "last"}, y)
      BY <1>16 DEF Coming
    <3>2. /\ y = <<q, y[2]>>
          /\ TimeOf(file, Line(q)[1][1]) \in Nat /\ TimeOf(file, y) \in Nat
          /\ TimeOf(file, Line(q)[1][1]) <= TimeOf(file, y)
      BY <1>3, <2>2, <3>1, AfterHead
    <3> QED
      BY <2>2, <3>2
  <2>4. s < t \/ (s = t /\ r <= q)
    BY <1>1, <1>14, <2>1 DEF IsMin, b
  <2>5. x[1] = r /\ y[1] = q /\ TimeOf(file, x) = s
    BY <1>13, <1>16, <2>3
  <2>6. s \in Nat
    BY <1>3, <1>13, <1>16, <2>5 DEF TimeOf
  <2>7. r \in Nat /\ q \in Nat
    BY <1>3
  <2> HIDE DEF g, s, t, u
  <2>8. s < u \/ (s = u /\ r < q)
    BY <1>16, <2>3, <2>4, <2>6, <2>7
  <2> QED
    BY <2>5, <2>8 DEF Precedes, u
<1>17. \A q \in Readers : \A y : Coming(q, y)' => Coming(q, y)
  BY <1>10, <1>12
<1>18. \A q \in Readers : \A x, y : In(b, x) /\ Coming(q, y)' => Precedes(file, x, y)
  BY <1>15, <1>16, <1>17
<1>19. RunOf(file, end, r, b) /\ out' = Append(out, b)
  BY <1>1, <1>9 DEF b
<1> QED
  BY <1>2, <1>4, <1>10, <1>11, <1>17, <1>18, <1>19, BatchSent

\* Every step keeps the order.
LEMMA NextOrdered == IInv /\ SInv /\ [Next]_vars => SInv'
<1> SUFFICES ASSUME IInv, SInv, [Next]_vars PROVE SInv'
  OBVIOUS
<1>1. ASSUME NEW r \in Readers, Reader(r)
      PROVE  SInv'
  <2>1. Typed
    BY DEF IInv
  <2>2. CASE Read(r)
    BY <2>1, <2>2, JoinStep, ReadStep
  <2> QED
    BY <1>1, <2>1, <2>2, SkipStep, ThreadStep, LastStep DEF Reader
<1>2. ASSUME UNCHANGED <<file, end, pos, batch, thread, inner, heads, out>>,
             pc' = pc \/ pc' \in {"join", "returned"}
      PROVE  SInv'
  <2>1. Alone' /\ \A q \in Readers : Line(q)' = Line(q)
    BY <1>2 DEF SInv, Alone, Direct, Line
  <2> QED
    BY <1>2, <2>1, RowsUnchanged
<1>3. CASE Merger
  <2>1. CASE Receive \/ Disconnected \/ Forward
    BY <2>1, ReceiveStep, ForwardStep
  <2>2. CASE AllForwarded \/ Join
    BY <1>2, <2>2 DEF AllForwarded, Join, readers
  <2> QED
    BY <1>3, <2>1, <2>2 DEF Merger
<1>4. CASE Consume \/ DropReceiver \/ Done \/ UNCHANGED vars
  BY <1>2, <1>4 DEF Consume, DropReceiver, Done, vars, readers
<1> QED
  BY <1>1, <1>3, <1>4 DEF Next

\* Nothing was read or sent at the start.
LEMMA InitOrdered == Init => SInv
<1> SUFFICES ASSUME Init PROVE SInv
  OBVIOUS
<1>1. out = << >> /\ \A r \in Readers : batch[r] = << >> /\ Line(r) = << >>
  <2>1. \A r \in Readers : heads[r] = << >> /\ inner[r] = << >>
    BY DEF Init
  <2> QED
    BY <2>1, ConcatEmptySeq DEF Init, Line
<1>2. \A x : ~In(<< >>, x) /\ ~InSome(<< >>, x)
  BY InSomeSmall
<1>3. Rows
  BY <1>1, <1>2 DEF Rows, Lined
<1>4. OutRuns /\ OutOrdered /\ Frontier
  BY <1>1, <1>2 DEF OutRuns, OutOrdered, Frontier
<1>5. Alone
  BY DEF Init, Alone
<1> QED
  BY <1>3, <1>4, <1>5 DEF SInv

\* However the threads interleave and whichever readers fail, the comparison gets batches
\* that are not empty, of one time and of selected changes, in the order of time, reader
\* and position.  With NothingLost: it gets the selected changes in the one order that the
\* files determine.  The comparison assumes this of its inputs (BatchesNotEmpty, and the times
\* of Orderly, in DiffCompare).
THEOREM SentOrdered == Spec => []SentInOrder
<1>1. IInv /\ SInv => SentInOrder
  <2> SUFFICES ASSUME IInv, SInv PROVE SentInOrder
    OBVIOUS
  <2>1. \A x, y : Precedes(file, x, y) <=> Before(x, y)
    BY DEF Precedes, Before, Time, TimeOf
  <2>2. ASSUME NEW m \in DOMAIN out
        PROVE  IsBatch(out[m])
    <3>1. PICK r \in Readers : RunOf(file, end, r, out[m])
      BY DEF SInv, OutRuns
    <3> DEFINE b == out[m]
    <3>2. ASSUME NEW i \in DOMAIN b
          PROVE  /\ In(b, b[i]) /\ b[i] = <<r, b[i][2]>> /\ b[i][2] \in DOMAIN file[r]
                 /\ Chosen(end, r, file[r][b[i][2]]) /\ TimeOf(file, b[i]) = TimeOf(file, b[1])
      <4>1. In(b, b[i])
        BY DEF In
      <4> QED
        BY <3>1, <4>1 DEF RunOf
    <3>3. b # << >> /\ Len(b) <= BatchSize
      BY <3>1 DEF RunOf
    <3>4. ASSUME NEW i \in DOMAIN b
          PROVE  Time(b[i]) = BatchTime(b) /\ Selected(b[i][1], file[b[i][1]][b[i][2]])
      <4>1. b[i][1] = r
        BY <3>2
      <4> QED
        BY <3>2, <4>1 DEF Time, TimeOf, BatchTime, Selected, PastEnd, Chosen
    <3>5. ASSUME NEW i \in DOMAIN b, NEW j \in DOMAIN b, i < j
          PROVE  Before(b[i], b[j])
      <4>1. b[i][2] < b[j][2]
        BY <3>1, <3>5 DEF RunOf
      <4>2. Monotone(file[r]) /\ \A n \in DOMAIN file[r] : n \in Nat /\ file[r][n].time \in Nat
        BY LineTyped DEF IInv
      <4> QED
        BY <2>1, <3>2, <4>1, <4>2, SameReader
    <3> QED
      BY <3>3, <3>4, <3>5 DEF IsBatch
  <2>3. ASSUME NEW m \in DOMAIN out, NEW n \in DOMAIN out, m < n,
               NEW i \in DOMAIN out[m], NEW j \in DOMAIN out[n]
        PROVE  Before(out[m][i], out[n][j])
    <3>1. In(out[m], out[m][i]) /\ In(out[n], out[n][j])
      BY DEF In
    <3> QED
      BY <2>1, <2>3, <3>1 DEF SInv, OutOrdered
  <2> QED
    BY <2>2, <2>3 DEF SentInOrder
<1> QED
  BY <1>1, InitInv, StepInv, InitOrdered, NextOrdered, PTL DEF Spec

=============================================================================
