------------------------------ MODULE InputProofs ------------------------------
(***************************************************************************)
(* How changes come in.  The merge of any number of files is sorted and    *)
(* complete, for all contents in time order, channel bounds and failures.  *)
(* Its inductive invariant separates, for each reader, the items that came *)
(* out (the first taken[r]) from those to come: every item to come is      *)
(* after every item that came out.                                         *)
(*                                                                         *)
(* And the line number of the VCD parser is right for every input and      *)
(* every way it is buffered: the second half, whose invariant is LInv.     *)
(***************************************************************************)
EXTENDS KWayMerge, VcdParser, FiniteSetTheorems, SequenceTheorems, TLAPS

\* How many items of reader r came out: all received, but for the one in its head.
TakenOut(r) == IF head[r] = "item" THEN recvd[r] - 1 ELSE recvd[r]

\* Which heads are known at each point of the merge, and that an ended one has no more.
HeadsOK ==
  /\ \A r \in Readers : /\ head[r] = "item" => recvd[r] > 0
                        /\ head[r] = "end" => recvd[r] = Len(times[r])
  /\ pc = "fill" => /\ out = << >>
                    /\ \A r \in Readers : r < cur => head[r] # "none"
                    /\ \A r \in Readers : r >= cur => head[r] = "none"
  /\ pc = "refill" => head[cur] = "none" /\ \A r \in Readers \ {cur} : head[r] # "none"
  /\ pc \in {"merge", "merged"} => \A r \in Readers : head[r] # "none"
  /\ pc \in {"fill", "refill", "merge", "merged"} => rxOpen
  /\ pc = "merged" => \A r \in Readers : head[r] = "end"
  /\ pc # "returned" => result = "none"
  /\ result = "ok" => rxOpen /\ \A r \in Readers : head[r] = "end" /\ thread[r] = "ok"
  /\ \A r \in Readers : thread[r] = "ok" /\ rxOpen => r \notin fails

\* The items that came out are the taken ones.
OutOK ==
  /\ \A r \in Readers : \A m \in DOMAIN out : out[m][1] = r => out[m][2] <= TakenOut(r)
  /\ \A r \in Readers : \A n \in 1..TakenOut(r) : \E m \in DOMAIN out : out[m] = <<r, n>>

\* Every item to come is after every item that came out.
Frontier ==
  \A m \in DOMAIN out : \A q \in Readers : \A n \in (TakenOut(q) + 1)..Len(times[q]) :
    Before(out[m], <<q, n>>)

IInv == TypeOK /\ HeadsOK /\ OutOK /\ Frontier /\ MergeSorted

-------------------------------------------------------------------------------
\* The files are sequences of natural numbers.
LEMMA TimesType ==
  ASSUME TypeOK, NEW r \in Readers
  PROVE  /\ times[r] \in Seq(Nat) /\ Len(times[r]) \in Nat
         /\ DOMAIN times[r] = 1..Len(times[r])
         /\ \A n \in 1..Len(times[r]) : times[r][n] \in Nat
         /\ \A m, n \in 1..Len(times[r]) : m <= n => times[r][m] <= times[r][n]
<1>1. times \in [Readers -> Seq(Nat)] /\ Monotone(times[r])
  BY MergeAssumption DEF TypeOK
<1>2. times[r] \in Seq(Nat)
  BY <1>1
<1> QED BY <1>1, <1>2 DEF Monotone

\* The initial states are well typed.
LEMMA InitTypeOK == Init => TypeOK
<1> SUFFICES ASSUME Init PROVE TypeOK
  OBVIOUS
<1>1. \A r \in Readers : Len(times[r]) \in Nat
  BY MergeAssumption DEF Init
<1>2. 1 \in Readers
  BY MergeAssumption DEF Readers
<1>3. out \in Seq(Readers \X (Nat \ {0}))
  BY DEF Init
<1> QED BY <1>1, <1>2, <1>3 DEF Init, TypeOK

\* Every action keeps the types.
LEMMA NextTypeOK == TypeOK /\ HeadsOK /\ [Next]_vars => TypeOK'
<1> SUFFICES ASSUME TypeOK, HeadsOK, [Next]_vars PROVE TypeOK'
  OBVIOUS
<1>s. \A r \in Readers : Len(times[r]) \in Nat
  BY TimesType
<1>1. ASSUME NEW r \in Readers, Reader(r) PROVE TypeOK'
  <2>1. CASE Send(r)
    BY <1>s, <2>1 DEF TypeOK, Send
  <2>2. CASE SendFails(r)
    <3>1. CASE r \in StopsOnClosed
      BY <1>s, <2>2, <3>1 DEF TypeOK, SendFails
    <3>2. CASE r \notin StopsOnClosed
      <4>1. sent' = [sent EXCEPT ![r] = @ + 1] /\ sent[r] < Len(times[r])
        BY <2>2, <3>2 DEF SendFails
      <4>2. UNCHANGED <<times, fails, thread, recvd, rxOpen, pc, cur, head, out, result>>
        BY <2>2, <3>2 DEF SendFails
      <4>3. thread[r] = "running"
        BY <2>2 DEF SendFails
      <4> QED BY <1>s, <4>1, <4>2, <4>3 DEF TypeOK
    <3> QED BY <3>1, <3>2
  <2>3. CASE Finish(r)
    BY <1>s, <2>3 DEF TypeOK, Finish
  <2> QED BY <1>1, <2>1, <2>2, <2>3 DEF Reader
<1>a. ASSUME AfterReceive PROVE pc' \in {"fill", "merge"} /\ cur' \in Readers
  BY <1>a, MergeAssumption DEF AfterReceive, TypeOK, Readers
<1>2. CASE Receive
  BY <1>2, <1>a DEF TypeOK, Receive, HasNext, threads
<1>3. CASE Disconnected
  BY <1>3, <1>a DEF TypeOK, Disconnected, threads
<1>4. CASE Deliver
  <2>1. PICK r \in Readers : /\ IsMin(r) /\ out' = Append(out, <<r, recvd[r]>>)
                             /\ head' = [head EXCEPT ![r] = "none"] /\ cur' = r
    BY <1>4 DEF Deliver
  <2>2. recvd[r] \in Nat \ {0}
    BY <2>1 DEF IsMin, HeadsOK, TypeOK
  <2>3. out' \in Seq(Readers \X (Nat \ {0}))
    BY <2>1, <2>2 DEF TypeOK
  <2>4. pc' = "refill" /\ UNCHANGED <<threads, recvd, rxOpen, result>>
    BY <1>4 DEF Deliver
  <2>5. head' \in [Readers -> {"none", "item", "end"}] /\ cur' \in Readers
    BY <2>1 DEF TypeOK
  <2> QED BY <2>3, <2>4, <2>5 DEF TypeOK, threads
<1>5. CASE DeliverFails
  <2>1. UNCHANGED <<threads, recvd, cur, head, out, result>>
    BY <1>5 DEF DeliverFails
  <2>2. pc' = "failed" /\ rxOpen' = FALSE
    BY <1>5 DEF DeliverFails
  <2> QED BY <2>1, <2>2 DEF TypeOK, threads
<1>6. CASE AllMerged
  BY <1>6 DEF TypeOK, AllMerged, threads
<1>7. CASE Join
  BY <1>7 DEF TypeOK, Join, JoinedResult, threads
<1>8. CASE UNCHANGED vars
  BY <1>8 DEF TypeOK, vars, threads
<1> QED BY <1>1, <1>2, <1>3, <1>4, <1>5, <1>6, <1>7, <1>8 DEF Next, Merger, Done

\* No head is known at first.
LEMMA InitHeadsOK == Init => HeadsOK
  BY MergeAssumption DEF Init, HeadsOK, Readers

\* A head is the item after those that came out.
LEMMA NextHeadsOK == TypeOK /\ HeadsOK /\ [Next]_vars => HeadsOK'
<1> SUFFICES ASSUME TypeOK, HeadsOK, [Next]_vars PROVE HeadsOK'
  OBVIOUS
<1>s. \A r \in Readers : Len(times[r]) \in Nat
  BY TimesType
<1>1. ASSUME NEW r \in Readers, Reader(r) PROVE HeadsOK'
  <2>1. CASE Send(r)
    BY <2>1 DEF TypeOK, HeadsOK, Send
  <2>2. CASE SendFails(r)
    BY <2>2 DEF TypeOK, HeadsOK, SendFails
  <2>3. CASE Finish(r)
    BY <2>3 DEF TypeOK, HeadsOK, Finish
  <2> QED BY <1>1, <2>1, <2>2, <2>3 DEF Reader
<1>2. CASE Receive
  <2> USE <1>2 DEF Receive, HasNext, AfterReceive, threads
  <2>1. CASE pc = "fill" /\ cur < NReaders
    BY <1>s, <2>1 DEF TypeOK, HeadsOK, Readers
  <2>2. CASE pc = "fill" /\ ~(cur < NReaders)
    BY <1>s, <2>2, MergeAssumption DEF TypeOK, HeadsOK, Readers
  <2>3. CASE pc = "refill"
    BY <1>s, <2>3 DEF TypeOK, HeadsOK
  <2> QED BY <2>1, <2>2, <2>3
<1>3. CASE Disconnected
  <2> USE <1>3 DEF Disconnected, Closed, AfterReceive, threads
  <2>0. recvd[cur] = Len(times[cur])
    BY DEF TypeOK, HeadsOK
  <2>1. CASE pc = "fill" /\ cur < NReaders
    BY <2>0, <2>1 DEF TypeOK, HeadsOK, Readers
  <2>2. CASE pc = "fill" /\ ~(cur < NReaders)
    BY <2>0, <2>2, MergeAssumption DEF TypeOK, HeadsOK, Readers
  <2>3. CASE pc = "refill"
    BY <2>0, <2>3 DEF TypeOK, HeadsOK
  <2> QED BY <2>1, <2>2, <2>3
<1>4. CASE Deliver
  <2>1. PICK r \in Readers : /\ IsMin(r) /\ out' = Append(out, <<r, recvd[r]>>)
                             /\ head' = [head EXCEPT ![r] = "none"] /\ cur' = r
    BY <1>4 DEF Deliver
  <2> QED BY <1>4, <2>1 DEF TypeOK, HeadsOK, Deliver, threads
<1>5. CASE DeliverFails \/ AllMerged
  BY <1>5 DEF TypeOK, HeadsOK, DeliverFails, AllMerged, threads
<1>6. CASE Join
  BY <1>6 DEF TypeOK, HeadsOK, Join, JoinedResult, threads
<1>7. CASE UNCHANGED vars
  BY <1>7 DEF TypeOK, HeadsOK, vars, threads
<1> QED BY <1>1, <1>2, <1>3, <1>4, <1>5, <1>6, <1>7 DEF Next, Merger, Done

-------------------------------------------------------------------------------
\* Only Deliver takes an item: the next one of a reader whose head is the smallest.
TakenUnchanged == out' = out /\ \A q \in Readers : TakenOut(q)' = TakenOut(q)
TakesFrom(r) ==
  /\ pc = "merge" /\ IsMin(r)
  /\ recvd[r] = TakenOut(r) + 1 /\ out' = Append(out, <<r, TakenOut(r) + 1>>)
  /\ TakenOut(r)' = TakenOut(r) + 1 /\ \A q \in Readers \ {r} : TakenOut(q)' = TakenOut(q)

\* Not more items came out than a file has.
LEMMA TakenType ==
  ASSUME TypeOK, HeadsOK, NEW r \in Readers
  PROVE  TakenOut(r) \in Nat /\ TakenOut(r) <= Len(times[r])
  BY TimesType DEF TypeOK, HeadsOK, TakenOut

\* A step takes no item, or the next one of one reader.
LEMMA TakenStep ==
  ASSUME TypeOK, HeadsOK, [Next]_vars
  PROVE  times' = times /\ (TakenUnchanged \/ \E r \in Readers : TakesFrom(r))
<1> USE DEF TakenUnchanged, TakenOut
<1>1. ASSUME NEW r \in Readers, Reader(r) PROVE times' = times /\ TakenUnchanged
  BY <1>1 DEF Reader, Send, SendFails, Finish
<1>2. CASE Receive
  <2>1. head[cur] = "none" /\ cur \in Readers
    BY <1>2 DEF Receive, HeadsOK, TypeOK, Readers
  <2> QED BY <1>2, <2>1 DEF Receive, threads, TypeOK
<1>3. CASE Disconnected
  <2>1. head[cur] = "none" /\ cur \in Readers
    BY <1>3 DEF Disconnected, HeadsOK, TypeOK, Readers
  <2> QED BY <1>3, <2>1 DEF Disconnected, threads, TypeOK
<1>4. CASE Deliver
  <2>1. PICK r \in Readers : /\ IsMin(r) /\ out' = Append(out, <<r, recvd[r]>>)
                             /\ head' = [head EXCEPT ![r] = "none"] /\ cur' = r
    BY <1>4 DEF Deliver
  <2>2. recvd[r] \in Nat /\ head[r] = "item" /\ pc = "merge" /\ recvd' = recvd
    BY <1>4, <2>1 DEF Deliver, IsMin, TypeOK
  <2>3. recvd[r] = TakenOut(r) + 1
    BY <2>2
  <2>4. \A q \in Readers : head'[q] = IF q = r THEN "none" ELSE head[q]
    BY <2>1 DEF TypeOK
  <2>5. TakesFrom(r)
    BY <2>1, <2>2, <2>3, <2>4 DEF TakesFrom
  <2> QED BY <1>4, <2>5 DEF Deliver, threads
<1>5. CASE DeliverFails \/ AllMerged \/ Join \/ UNCHANGED vars
  BY <1>5 DEF DeliverFails, AllMerged, Join, vars, threads
<1> QED BY <1>1, <1>2, <1>3, <1>4, <1>5 DEF Next, Merger, Done

\* What came out is a prefix of every file.
LEMMA NextOutOK == TypeOK /\ HeadsOK /\ OutOK /\ [Next]_vars => OutOK'
<1> SUFFICES ASSUME TypeOK, HeadsOK, OutOK, [Next]_vars PROVE OutOK'
  OBVIOUS
<1>1. CASE TakenUnchanged
  <2>1. \A m \in DOMAIN out : out[m][1] \in Readers
    BY DEF TypeOK
  <2> QED BY <1>1, <2>1 DEF TakenUnchanged, OutOK
<1>2. ASSUME NEW r \in Readers, TakesFrom(r) PROVE OutOK'
  <2>1. out \in Seq(Readers \X (Nat \ {0})) /\ Len(out) \in Nat /\ DOMAIN out = 1..Len(out)
    BY DEF TypeOK
  <2>2. /\ DOMAIN out' = 1..(Len(out) + 1)
        /\ \A m \in 1..Len(out) : out'[m] = out[m]
        /\ out'[Len(out) + 1] = <<r, TakenOut(r) + 1>>
    BY <1>2, <2>1 DEF TakesFrom
  <2>3. \A q \in Readers : TakenOut(q) \in Nat
    BY TakenType
  <2>4. \A q \in Readers : TakenOut(q)' = IF q = r THEN TakenOut(r) + 1 ELSE TakenOut(q)
    BY <1>2 DEF TakesFrom
  <2>5. ASSUME NEW q \in Readers, NEW m \in DOMAIN out', out'[m][1] = q
        PROVE  out'[m][2] <= TakenOut(q)'
    <3>1. CASE m \in 1..Len(out)
      <4>1. out[m][2] \in Nat /\ out[m][2] <= TakenOut(q)
        BY <2>1, <2>2, <2>5, <3>1 DEF OutOK
      <4>2. TakenOut(q) \in Nat /\ TakenOut(q)' \in Nat /\ TakenOut(q) <= TakenOut(q)'
        BY <2>3, <2>4
      <4> QED BY <2>2, <3>1, <4>1, <4>2
    <3>2. CASE m = Len(out) + 1
      BY <2>2, <2>3, <2>4, <2>5, <3>2
    <3> QED BY <2>1, <2>2, <3>1, <3>2
  <2>6. ASSUME NEW q \in Readers, NEW n \in 1..(TakenOut(q)')
        PROVE  \E m \in DOMAIN out' : out'[m] = <<q, n>>
    <3>1. CASE n \in 1..TakenOut(q)
      <4>1. PICK m \in DOMAIN out : out[m] = <<q, n>>
        BY <3>1 DEF OutOK
      <4>2. m \in 1..Len(out)
        BY <2>1, <4>1
      <4>3. m \in DOMAIN out' /\ out'[m] = <<q, n>>
        BY <2>1, <2>2, <4>1, <4>2
      <4> QED BY <4>3
    <3>2. CASE q = r /\ n = TakenOut(r) + 1
      BY <2>1, <2>2, <3>2
    <3> QED BY <2>3, <2>4, <3>1, <3>2
  <2> QED BY <2>5, <2>6 DEF OutOK
<1> QED BY <1>1, <1>2, TakenStep

\* What is to come stays behind what came out.
LEMMA NextFrontier == TypeOK /\ HeadsOK /\ Frontier /\ [Next]_vars => Frontier'
<1> SUFFICES ASSUME TypeOK, HeadsOK, Frontier, [Next]_vars PROVE Frontier'
  OBVIOUS
<1>0. times' = times
  BY TakenStep
<1>1. CASE TakenUnchanged
  BY <1>0, <1>1 DEF TakenUnchanged, Frontier, Before, ItemTime
<1>2. ASSUME NEW r \in Readers, TakesFrom(r) PROVE Frontier'
  <2>1. out \in Seq(Readers \X (Nat \ {0})) /\ Len(out) \in Nat /\ DOMAIN out = 1..Len(out)
    BY DEF TypeOK
  <2>2. /\ DOMAIN out' = 1..(Len(out) + 1)
        /\ \A m \in 1..Len(out) : out'[m] = out[m]
        /\ out'[Len(out) + 1] = <<r, TakenOut(r) + 1>>
    BY <1>2, <2>1 DEF TakesFrom
  <2>3. \A q \in Readers : TakenOut(q) \in Nat /\ Len(times[q]) \in Nat
    BY TakenType, TimesType
  <2>4. \A q \in Readers : TakenOut(q)' = IF q = r THEN TakenOut(r) + 1 ELSE TakenOut(q)
    BY <1>2 DEF TakesFrom
  <2>5. SUFFICES ASSUME NEW m \in DOMAIN out', NEW q \in Readers,
                        NEW n \in (TakenOut(q)' + 1)..Len(times[q])
                 PROVE  Before(out'[m], <<q, n>>)
    BY <1>0 DEF Frontier, Before, ItemTime
  <2>6. n \in (TakenOut(q) + 1)..Len(times[q]) /\ n \in 1..Len(times[q])
    BY <2>3, <2>4
  <2>7. CASE m \in 1..Len(out)
    BY <2>1, <2>2, <2>6, <2>7 DEF Frontier
  <2>8. CASE m = Len(out) + 1
    <3>1. out'[m] = <<r, TakenOut(r) + 1>> /\ recvd[r] = TakenOut(r) + 1
      BY <1>2, <2>2, <2>8 DEF TakesFrom
    <3>2. TakenOut(r) + 1 \in 1..Len(times[r])
      BY <2>3, <3>1 DEF TypeOK
    <3>3. CASE q = r
      <4>1. TakenOut(r) + 1 < n
        BY <2>3, <2>4, <3>3
      <4>2. times[r][TakenOut(r) + 1] <= times[r][n] /\ times[r][TakenOut(r) + 1] \in Nat
            /\ times[r][n] \in Nat
        <5>1. TakenOut(r) + 1 <= n /\ n \in 1..Len(times[r])
          BY <2>3, <2>6, <3>3, <4>1
        <5> HIDE DEF TakenOut
        <5> DEFINE k == TakenOut(r) + 1
        <5>2. k \in 1..Len(times[r]) /\ k <= n
          BY <3>2, <5>1
        <5> HIDE DEF k
        <5>3. times[r][k] <= times[r][n] /\ times[r][k] \in Nat /\ times[r][n] \in Nat
          BY <5>1, <5>2, TimesType
        <5> QED BY <5>3 DEF k
      <4> QED BY <3>1, <3>3, <4>1, <4>2 DEF Before, ItemTime
    <3>4. CASE q # r
      <4>1. head[q] = "item" /\ recvd[q] = TakenOut(q) + 1
        <5>1. head[q] # "none" /\ TakenOut(q) # Len(times[q])
          BY <1>2, <2>3, <2>6 DEF TakesFrom, HeadsOK
        <5>2. head[q] = "item"
          BY <5>1 DEF HeadsOK, TypeOK, TakenOut
        <5> QED BY <5>2 DEF TakenOut, TypeOK
      <4>2. times[q][recvd[q]] <= times[q][n] /\ times[q][recvd[q]] \in Nat
            /\ times[q][n] \in Nat
        <5>1. recvd[q] \in 1..Len(times[q]) /\ n \in 1..Len(times[q]) /\ recvd[q] <= n
          BY <2>3, <2>6, <4>1
        <5> QED BY <5>1, TimesType
      <4>3. times[r][recvd[r]] \in Nat
        BY <3>1, <3>2, TimesType
      <4>4. \/ times[r][recvd[r]] < times[q][recvd[q]]
            \/ times[r][recvd[r]] = times[q][recvd[q]] /\ r < q
        BY <1>2, <3>4, <4>1, MergeAssumption DEF TakesFrom, IsMin, HeadTime, Readers
      <4> QED BY <3>1, <4>2, <4>3, <4>4 DEF Before, ItemTime
    <3> QED BY <3>3, <3>4
  <2> QED BY <2>1, <2>2, <2>7, <2>8
<1> QED BY <1>1, <1>2, TakenStep

\* So the item taken goes to the end of a sorted output.
LEMMA NextMergeSorted ==
  TypeOK /\ HeadsOK /\ Frontier /\ MergeSorted /\ [Next]_vars => MergeSorted'
<1> SUFFICES ASSUME TypeOK, HeadsOK, Frontier, MergeSorted, [Next]_vars PROVE MergeSorted'
  OBVIOUS
<1>0. times' = times
  BY TakenStep
<1>1. CASE TakenUnchanged
  BY <1>0, <1>1 DEF TakenUnchanged, MergeSorted, Before, ItemTime
<1>2. ASSUME NEW r \in Readers, TakesFrom(r) PROVE MergeSorted'
  <2>1. out \in Seq(Readers \X (Nat \ {0})) /\ Len(out) \in Nat /\ DOMAIN out = 1..Len(out)
    BY DEF TypeOK
  <2>2. /\ DOMAIN out' = 1..(Len(out) + 1)
        /\ \A m \in 1..Len(out) : out'[m] = out[m]
        /\ out'[Len(out) + 1] = <<r, TakenOut(r) + 1>>
    BY <1>2, <2>1 DEF TakesFrom
  <2>3. SUFFICES ASSUME NEW m \in DOMAIN out', NEW n \in DOMAIN out', m < n
                 PROVE  Before(out'[m], out'[n])
    BY <1>0 DEF MergeSorted, Before, ItemTime
  <2>4. m \in 1..Len(out)
    BY <2>1, <2>2, <2>3
  <2>5. CASE n \in 1..Len(out)
    BY <2>1, <2>2, <2>3, <2>4, <2>5 DEF MergeSorted
  <2>6. CASE n = Len(out) + 1
    <3>1. TakenOut(r) \in Nat /\ Len(times[r]) \in Nat /\ TakenOut(r) + 1 <= Len(times[r])
      BY <1>2, TakenType, TimesType DEF TakesFrom, TypeOK
    <3>2. Before(out[m], <<r, TakenOut(r) + 1>>)
      BY <2>1, <2>4, <3>1 DEF Frontier
    <3> QED BY <2>2, <2>4, <2>6, <3>2
  <2> QED BY <2>1, <2>2, <2>5, <2>6
<1> QED BY <1>1, <1>2, TakenStep

-------------------------------------------------------------------------------
\* So the invariant holds in every behaviour.
LEMMA SpecIInv == Spec => []IInv
<1>1. Init => IInv
  <2>1. Init => OutOK /\ Frontier /\ MergeSorted
    BY DEF Init, OutOK, Frontier, MergeSorted, TakenOut
  <2> QED BY <2>1, InitTypeOK, InitHeadsOK DEF IInv
<1>2. IInv /\ [Next]_vars => IInv'
  BY NextTypeOK, NextHeadsOK, NextOutOK, NextFrontier, NextMergeSorted DEF IInv
<1> QED BY <1>1, <1>2, PTL DEF Spec

\* Every variable has its type, and a reader that returns having met no closed channel
\* has sent every item of its file.
THEOREM MergeTyped == Spec => []TypeOK
<1>1. IInv => TypeOK
  BY DEF IInv
<1> QED BY <1>1, SpecIInv, PTL

\* What comes out of kway_merge_channels is ordered by time, then file, then position.
THEOREM MergeIsSorted == Spec => []MergeSorted
<1>1. IInv => MergeSorted
  BY DEF IInv
<1> QED BY <1>1, SpecIInv, PTL

\* When merge_changes returns Ok, every change and every final-timestamp marker of
\* every file was passed to on_change.
THEOREM MergeIsComplete == Spec => []NothingDropped
<1>1. IInv => NothingDropped
  <2> SUFFICES ASSUME IInv, result = "ok", NEW r \in Readers
               PROVE  \A n \in DOMAIN times[r] : \E m \in DOMAIN out : out[m] = <<r, n>>
    BY DEF NothingDropped
  <2>1. TakenOut(r) = Len(times[r])
    BY DEF IInv, HeadsOK, TakenOut
  <2>2. DOMAIN times[r] = 1..Len(times[r])
    BY TimesType DEF IInv
  <2> QED BY <2>1, <2>2 DEF IInv, OutOK
<1> QED BY <1>1, SpecIInv, PTL

\* merge_changes returns Ok only if no reader failed.
THEOREM MergeReportsFailure == Spec => []FailureReturned
<1>1. IInv => FailureReturned
  BY MergeAssumption DEF IInv, HeadsOK, TypeOK, FailureReturned
<1> QED BY <1>1, SpecIInv, PTL

-------------------------------------------------------------------------------
(* The lines of the VCD parser.                                            *)

(* All bytes of the inputs.                                                *)
Alphabet == UNION {f.bytes \cup ToSet(f.opening) : f \in Forms}

(* The line number lags behind by the newline that was read last; after    *)
(* the end of the input nothing is read.                                   *)
LInv ==
    /\ input \in Seq(Alphabet) /\ form \in Forms
    /\ atEof => ~Running
    /\ LineExact

(* The newlines of an input are finitely many.                             *)
LEMMA NewlinesAreNat ==
    ASSUME NEW S, NEW s \in Seq(S)
    PROVE  /\ IsFiniteSet({p \in DOMAIN s : s[p] = Newline}) /\ Newlines(s) \in Nat
<1>1. DOMAIN s = 1 .. Len(s) /\ Len(s) \in Nat
  OBVIOUS
<1>2. IsFiniteSet(DOMAIN s)
  BY <1>1, FS_Interval
<1>3. IsFiniteSet({p \in DOMAIN s : s[p] = Newline})
  BY <1>2, FS_Subset
<1> QED
  BY <1>3, FS_CardinalityType DEF Newlines

(* A byte more is a newline more exactly if it is one.                     *)
LEMMA NewlinesOfFront ==
    ASSUME NEW S, NEW s \in Seq(S), s # <<>>
    PROVE  /\ Front(s) \in Seq(S)
           /\ Newlines(s) = IF Last(s) = Newline THEN Newlines(Front(s)) + 1 ELSE Newlines(Front(s))
<1> DEFINE n == Len(s)
           At(t) == {p \in DOMAIN t : t[p] = Newline}
<1>1. /\ n \in Nat \ {0} /\ DOMAIN s = 1 .. n /\ Last(s) = s[n]
      /\ \A p \in 1 .. n : s[p] \in S
  BY DEF Last
<1>2. Front(s) = [p \in 1 .. n - 1 |-> s[p]]
  BY <1>1 DEF Front
<1>3. Front(s) \in Seq(S) /\ DOMAIN Front(s) = 1 .. n - 1
  BY <1>1, <1>2
<1>4. n \notin At(Front(s))
  BY <1>1, <1>3
<1>5. At(s) = IF Last(s) = Newline THEN At(Front(s)) \cup {n} ELSE At(Front(s))
  BY <1>1, <1>2, <1>3
<1>6. Newlines(s) = Cardinality(At(s)) /\ Newlines(Front(s)) = Cardinality(At(Front(s)))
  BY DEF Newlines
<1>7. IsFiniteSet(At(Front(s)))
  BY <1>3, NewlinesAreNat
<1> HIDE DEF At, n
<1>8. Cardinality(At(Front(s)) \cup {n}) = Cardinality(At(Front(s))) + 1
  BY <1>4, <1>7, FS_AddElement
<1> QED
  BY <1>3, <1>5, <1>6, <1>8

(* Bytes that are no newlines do not count.                                *)
LEMMA NoNewlines ==
    ASSUME NEW S, NEW s \in Seq(S), NEW t \in Seq(S), t # <<>>,
           \A p \in DOMAIN t : t[p] # Newline
    PROVE  /\ s \o t \in Seq(S) /\ s \o t # <<>> /\ Last(s \o t) # Newline
           /\ Newlines(Front(s \o t)) = Newlines(s)
<1>1. /\ s \o t \in Seq(S) /\ Len(s \o t) = Len(s) + Len(t)
      /\ Len(s) \in Nat /\ Len(t) \in Nat \ {0}
      /\ \A p \in 1 .. Len(s) : (s \o t)[p] = s[p]
      /\ \A p \in 1 .. Len(t) : (s \o t)[Len(s) + p] = t[p]
  BY ConcatProperties
<1>2. \A p \in Len(s) + 1 .. Len(s) + Len(t) : (s \o t)[p] # Newline
  <2> TAKE p \in Len(s) + 1 .. Len(s) + Len(t)
  <2>1. p - Len(s) \in 1 .. Len(t) /\ Len(s) + (p - Len(s)) = p
    BY <1>1
  <2>2. (s \o t)[p] = t[p - Len(s)]
    BY <1>1, <2>1
  <2> QED
    BY <2>1, <2>2
<1>3. s \o t # <<>> /\ Last(s \o t) # Newline
  BY <1>1, <1>2 DEF Last
<1>4. {p \in DOMAIN (s \o t) : (s \o t)[p] = Newline} = {p \in DOMAIN s : s[p] = Newline}
  <2>1. DOMAIN (s \o t) = 1 .. Len(s) + Len(t) /\ DOMAIN s = 1 .. Len(s)
    BY <1>1
  <2> DEFINE u == s \o t
  <2>2. /\ \A p \in 1 .. Len(s) : u[p] = s[p]
        /\ \A p \in Len(s) + 1 .. Len(s) + Len(t) : u[p] # Newline
        /\ DOMAIN u = 1 .. Len(s) + Len(t)
    BY <1>1, <1>2, <2>1
  <2> HIDE DEF u
  <2> SUFFICES {p \in DOMAIN u : u[p] = Newline} = {p \in DOMAIN s : s[p] = Newline}
    BY DEF u
  <2> QED
    BY <1>1, <2>1, <2>2
<1>5. Newlines(s \o t) = Newlines(s)
  BY <1>4 DEF Newlines
<1>6. Newlines(s \o t) = Newlines(Front(s \o t))
  BY <1>1, <1>3, NewlinesOfFront
<1> QED
  BY <1>1, <1>3, <1>5, <1>6

(* While it reads, the parser has counted the newlines but the last byte.  *)
LEMMA Lagging ==
    ASSUME LInv, Running
    PROVE  /\ (IF endOfLine THEN line + 1 ELSE line) = 1 + Newlines(input)
           /\ ~atEof /\ endOfLine \in BOOLEAN
<1>1. ~atEof /\ input \in Seq(Alphabet)
  BY DEF LInv
<1>2. /\ line = 1 + Newlines(IF input = <<>> THEN input ELSE Front(input))
      /\ endOfLine = (input # <<>> /\ Last(input) = Newline)
  BY <1>1 DEF LInv, LineExact
<1>3. CASE input = <<>>
  <2>1. Newlines(input) \in Nat
    BY <1>1, NewlinesAreNat
  <2> QED
    BY <1>1, <1>2, <1>3, <2>1
<1>4. CASE input # <<>>
  <2>1. /\ Front(input) \in Seq(Alphabet)
        /\ Newlines(input) = IF Last(input) = Newline THEN Newlines(Front(input)) + 1
                                                      ELSE Newlines(Front(input))
    BY <1>1, <1>4, NewlinesOfFront
  <2>2. Newlines(Front(input)) \in Nat
    BY <2>1, NewlinesAreNat
  <2>3. line = 1 + Newlines(Front(input))
    BY <1>2, <1>4
  <2>4. CASE Last(input) = Newline
    <3>1. endOfLine = TRUE
      BY <1>2, <1>4, <2>4
    <3> QED
      BY <1>1, <2>1, <2>2, <2>3, <2>4, <3>1
  <2>5. CASE Last(input) # Newline
    <3>1. endOfLine = FALSE
      BY <1>2, <1>4, <2>5
    <3> QED
      BY <1>1, <2>1, <2>2, <2>3, <2>5, <3>1
  <2> QED
    BY <2>4, <2>5
<1> QED
  BY <1>3, <1>4

(* A byte that is read is counted when the next one is.                    *)
LEMMA ByteRead ==
    ASSUME LInv, NEW byte \in Following, ReadByte(byte)
    PROVE  LInv'
<1>1. /\ input \in Seq(Alphabet) /\ form \in Forms /\ Running
      /\ input' = Append(input, byte) /\ form' = form /\ atEof' = atEof
      /\ line' = IF endOfLine THEN line + 1 ELSE line
      /\ endOfLine' = (byte = Newline)
  BY DEF LInv, ReadByte, CountLine
<1>2. byte \in Alphabet
  <2>1. form.opening \in Seq(ToSet(form.opening)) /\ Len(input) \in Nat
    BY <1>1, ParserBounds
  <2>2. byte \in form.bytes \cup ToSet(form.opening)
    <3>1. CASE Len(input) < Len(form.opening)
      <4>1. byte = form.opening[Len(input) + 1] /\ Len(input) + 1 \in 1 .. Len(form.opening)
        BY <2>1, <3>1 DEF Following
      <4> QED
        BY <2>1, <4>1
    <3>2. CASE ~(Len(input) < Len(form.opening))
      BY <3>2 DEF Following
    <3> QED
      BY <3>1, <3>2
  <2> QED
    BY <1>1, <2>2 DEF Alphabet
<1>3. /\ input' \in Seq(Alphabet) /\ input' # <<>> /\ Last(input') = byte
      /\ Front(input') = input
  <2>1. /\ input' \in Seq(Alphabet) /\ Len(input') = Len(input) + 1 /\ Len(input) \in Nat
        /\ \A p \in 1 .. Len(input) : input'[p] = input[p]
        /\ input'[Len(input) + 1] = byte
    BY <1>1, <1>2, AppendProperties
  <2>2. Front(input') = [p \in 1 .. Len(input) |-> input[p]]
    BY <2>1 DEF Front
  <2>3. input = [p \in 1 .. Len(input) |-> input[p]]
    BY <1>1
  <2> QED
    BY <2>1, <2>2, <2>3 DEF Last
<1>4. line' = 1 + Newlines(input) /\ ~atEof'
  BY <1>1, Lagging
<1>5. LineExact'
  <2>1. line' = 1 + Newlines(Front(input'))
    BY <1>3, <1>4
  <2>2. endOfLine' = (~atEof' /\ input' # <<>> /\ Last(input') = Newline)
    BY <1>1, <1>3, <1>4
  <2> QED
    BY <1>3, <1>4, <2>1, <2>2 DEF LineExact, Newlines
<1> QED
  BY <1>1, <1>3, <1>4, <1>5 DEF LInv

(* A run of values has no newline in it.                                   *)
LEMMA RunOfBytes ==
    ASSUME form \in Forms, input \in Seq(Alphabet), NEW run \in Runs
    PROVE  run \in Seq(Alphabet) /\ run # <<>> /\ \A p \in DOMAIN run : run[p] # Newline
<1>1. Newline \in White
  BY DEF White
<1>2. CASE Len(input) >= Len(form.opening)
  <2>1. run \in BoundedSeq(form.bytes \ White, form.length - Len(input)) /\ run # <<>>
    BY <1>2 DEF Runs
  <2>2. form.length - Len(input) \in Int
    BY ParserBounds
  <2>3. run \in UNION {[1 .. m -> form.bytes \ White] : m \in 0 .. form.length - Len(input)}
    BY <2>1 DEF BoundedSeq, SeqOf
  <2>4. run \in Seq(form.bytes \ White)
    <3>1. PICK m \in 0 .. form.length - Len(input) : run \in [1 .. m -> form.bytes \ White]
      BY <2>3
    <3> QED
      BY <2>2, <3>1
  <2>5. form.bytes \subseteq Alphabet
    BY DEF Alphabet
  <2> QED
    BY <1>1, <2>1, <2>4, <2>5
<1>3. CASE ~(Len(input) >= Len(form.opening))
  <2>1. PICK q \in Len(input) + 1 .. Len(form.opening) :
          run = SubSeq(form.opening, Len(input) + 1, q) /\ ToSet(run) \cap White = {}
    BY <1>3 DEF Runs
  <2>2. form.opening \in Seq(Alphabet)
    <3>1. form.opening \in Seq(ToSet(form.opening)) /\ ToSet(form.opening) \subseteq Alphabet
      BY ParserBounds DEF Alphabet
    <3> QED
      BY <3>1
  <2>3. run \in Seq(Alphabet) /\ run # <<>>
    BY <2>1, <2>2
  <2> QED
    BY <1>1, <2>1, <2>3 DEF ToSet
<1> QED
  BY <1>2, <1>3

LEMMA InitLInv == ParserInit => LInv
<1> SUFFICES ASSUME ParserInit PROVE LInv
  OBVIOUS
<1>1. Newlines(<<>>) = 0
  BY FS_EmptySet DEF Newlines
<1>2. input = <<>> /\ line = 1 /\ endOfLine = FALSE /\ atEof = FALSE /\ form \in Forms
  BY DEF ParserInit
<1>3. LineExact
  <2>1. (IF atEof \/ input = <<>> THEN input ELSE Front(input)) = <<>>
    BY <1>2
  <2>2. line = 1 + Newlines(IF atEof \/ input = <<>> THEN input ELSE Front(input))
    BY <1>1, <1>2, <2>1
  <2>3. endOfLine = (~atEof /\ input # <<>> /\ Last(input) = Newline)
    BY <1>2
  <2> QED
    BY <2>2, <2>3 DEF LineExact
<1> QED
  BY <1>2, <1>3 DEF LInv

LEMMA NextLInv == LInv /\ [ParserNext]_parserVars => LInv'
<1> SUFFICES ASSUME LInv, [ParserNext]_parserVars PROVE LInv'
  OBVIOUS
<1>1. CASE EndOfInput
  <2>1. /\ atEof' = TRUE /\ endOfLine' = FALSE /\ input' = input /\ form' = form
        /\ line' = (IF endOfLine THEN line + 1 ELSE line)
        /\ status' \in {"ended", "error"} /\ Running
    BY <1>1 DEF EndOfInput, CountLine
  <2>2. line' = 1 + Newlines(input)
    BY <2>1, Lagging
  <2>3. LineExact'
    BY <2>1, <2>2 DEF LineExact, Newlines
  <2> QED
    BY <2>1, <2>3 DEF LInv, Running
<1>2. CASE SkipBlank \/ Begin \/ TokenByte \/ TokenBlank \/ TextByte
  <2>1. \E byte \in Following : ReadByte(byte)
    BY <1>2 DEF SkipBlank, Begin, TokenByte, TokenBlank, TextByte
  <2> QED
    BY <2>1, ByteRead
<1>3. CASE VectorRun
  <2>1. PICK run \in Runs : input' = input \o run
    BY <1>3 DEF VectorRun
  <2>2. /\ line' = (IF endOfLine THEN line + 1 ELSE line) /\ endOfLine' = FALSE
        /\ form' = form /\ atEof' = atEof /\ Running
    BY <1>3 DEF VectorRun, RunLine, CountLine, Running
  <2>3. input \in Seq(Alphabet) /\ form \in Forms
    BY DEF LInv
  <2>4. run \in Seq(Alphabet) /\ run # <<>> /\ \A p \in DOMAIN run : run[p] # Newline
    BY <2>3, RunOfBytes
  <2>5. /\ input' \in Seq(Alphabet) /\ input' # <<>> /\ Last(input') # Newline
        /\ Newlines(Front(input')) = Newlines(input)
    BY <2>1, <2>3, <2>4, NoNewlines
  <2>6. line' = 1 + Newlines(input) /\ ~atEof'
    BY <2>2, Lagging
  <2>7. LineExact'
    BY <2>2, <2>5, <2>6 DEF LineExact, Newlines
  <2> QED
    BY <2>2, <2>3, <2>5, <2>6, <2>7 DEF LInv
<1>4. CASE UNCHANGED parserVars
  BY <1>4 DEF parserVars, LInv, LineExact, Newlines, Running
<1> QED
  BY <1>1, <1>2, <1>3, <1>4 DEF ParserNext

(* At every moment the parser's line is that of the byte it read last,     *)
(* whether it came from read_byte or with a run of parse_vector, so errors *)
(* name the right line (parser.rs:133-137, 428-451).                       *)
THEOREM LinesExact == ParserSpec => []LineExact
<1>1. LInv => LineExact
  BY DEF LInv
<1> QED
  BY <1>1, InitLInv, NextLInv, PTL DEF ParserSpec
===============================================================================
