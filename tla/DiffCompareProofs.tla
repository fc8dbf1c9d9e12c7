---------------------------- MODULE DiffCompareProofs ----------------------------
(***************************************************************************)
(* Proofs about DiffCompare, for all streams, mappings, channel bounds and *)
(* failures: every variable keeps its type, and the answer "same" is sound *)
(* (SameIsSound, NothingLost and ErrorNeverHidden); the comparison         *)
(* implements DiffSpec (Implements): of orderly streams it reports the     *)
(* differences and nothing else, and its rows are true and written once    *)
(* (RowsTrue).  The last part is about the comparison of two values, which *)
(* is the relation Close here and module ValueCompare in detail, and about *)
(* values that are exported and read back before (module ExportedValue).   *)
(*                                                                         *)
(* The inductive invariant says where a value in the buffer comes from     *)
(* (ProvenanceOK), why an entry may be evicted (MatchedOK), what has been  *)
(* compared so far (ForwardOK) and what each phase of the comparator has   *)
(* behind it (PhaseOK).                                                    *)
(***************************************************************************)
EXTENDS DiffCompare, ExportedValue, WellFoundedInduction, TLAPS

-------------------------------------------------------------------------------
(* Least and greatest elements of sets of numbers. *)

\* A non-empty set of natural numbers has a least element.
LEMMA LeastOfNat ==
  ASSUME NEW T \in SUBSET Nat, T # {}
  PROVE  \E x \in T : \A y \in T : x <= y
<1>1. \E x \in T : \A y \in T : ~ (<<y, x>> \in OpToRel(<, Nat))
  BY NatLessThanWellFounded, WFMin
<1>2. PICK x \in T : \A y \in T : ~ (<<y, x>> \in OpToRel(<, Nat))
  BY <1>1
<1>3. ASSUME NEW y \in T PROVE x <= y
  <2>1. <<y, x>> \notin OpToRel(<, Nat)
    BY <1>2
  <2>2. ~(y < x)
    BY <2>1 DEF OpToRel
  <2> QED BY <2>2
<1> QED BY <1>3

\* A non-empty set of numbers between 1 and n has a greatest element.
LEMMA GreatestUpTo ==
  ASSUME NEW n \in Nat, NEW T \in SUBSET (1..n), T # {}
  PROVE  \E x \in T : \A y \in T : y <= x
<1> DEFINE U == {n - i : i \in T}
<1>1. U \in SUBSET Nat /\ U # {}
  <2>1. \A i \in T : n - i \in Nat
    OBVIOUS
  <2>2. PICK i \in T : TRUE
    OBVIOUS
  <2>3. n - i \in U
    OBVIOUS
  <2> QED BY <2>1, <2>3
<1>2. PICK u \in U : \A w \in U : u <= w
  BY <1>1, LeastOfNat
<1>3. PICK x \in T : u = n - x
  OBVIOUS
<1>4. ASSUME NEW y \in T PROVE y <= x
  BY <1>2, <1>3, n - y \in U
<1> QED BY <1>4

-------------------------------------------------------------------------------
(* Streams. *)

Handles(s) == IF s = 1 THEN Handles1 ELSE Handles2

\* The streams are sequences of batches over the handles of their side.
LEMMA StreamType ==
  ASSUME stream \in Inputs
  PROVE  /\ stream[1] \in Seq(Batch(Handles1))
         /\ stream[2] \in Seq(Batch(Handles2))
  BY DiffAssumption

\* A change is a batch and a position in it.
LEMMA ChangesDef ==
  ASSUME NEW s \in Side
  PROVE  /\ \A n \in DOMAIN stream[s] : \A i \in DOMAIN stream[s][n].changes :
              <<n, i>> \in Changes(s)
         /\ \A c \in Changes(s) : /\ c = <<c[1], c[2]>>
                                 /\ c[1] \in DOMAIN stream[s]
                                 /\ c[2] \in DOMAIN stream[s][c[1]].changes
  BY DEF Changes

\* FirstValue and LastValue of a handle in a batch are values of that handle in it.
LEMMA BatchValues ==
  ASSUME NEW b \in Batch(Handles2), NEW h \in BatchHandles(b)
  PROVE  /\ \E i \in DOMAIN b.changes :
              b.changes[i].handle = h /\ b.changes[i].value = FirstValue(b, h)
         /\ \E i \in DOMAIN b.changes :
              b.changes[i].handle = h /\ b.changes[i].value = LastValue(b, h)
<1> DEFINE D == DOMAIN b.changes
           T == {i \in D : b.changes[i].handle = h}
<1>1. b.changes \in Seq(Change(Handles2)) /\ D = 1..Len(b.changes) /\ Len(b.changes) \in Nat
  BY DEF Batch
<1>2. T # {} /\ T \in SUBSET (1..Len(b.changes)) /\ T \in SUBSET Nat
  BY <1>1 DEF BatchHandles
<1>3. \E i \in D : b.changes[i].handle = h /\ \A m \in D : b.changes[m].handle = h => i <= m
  <2>1. PICK x \in T : \A y \in T : x <= y
    BY <1>2, LeastOfNat
  <2> QED BY <2>1
<1>4. \E i \in D : b.changes[i].handle = h /\ \A m \in D : b.changes[m].handle = h => m <= i
  <2>1. PICK x \in T : \A y \in T : y <= x
    BY <1>1, <1>2, GreatestUpTo
  <2> QED BY <2>1
<1> QED BY <1>3, <1>4 DEF FirstValue, LastValue

-------------------------------------------------------------------------------
(* Type correctness. *)

\* Side 1 and side 2.
LEMMA SideDef == Side = {1, 2}
  BY DEF Side

\* What the type invariant says of the batches being compared.
LEMMA Batch1Type ==
  ASSUME ChannelsOK, recvd[1] > 0
  PROVE  /\ Batch1 \in Batch(Handles1) /\ T1 \in Nat
         /\ Batch1.changes \in Seq(Change(Handles1))
         /\ HasChange /\ k \in Nat \ {0} =>
              /\ k \in DOMAIN Batch1.changes
              /\ Change1 \in Change(Handles1)
              /\ Handles2Of(Change1.handle) \in Seq(Handles2)
         /\ HasPair /\ k \in Nat \ {0} /\ j \in Nat \ {0} =>
              /\ j \in DOMAIN Mapping[Change1.handle]
              /\ Handle2 \in Handles2 /\ Key = <<T1, Handle2>>
<1>1. stream[1] \in Seq(Batch(Handles1)) /\ recvd[1] \in 1..Len(stream[1])
  BY StreamType, SideDef DEF ChannelsOK
<1>2. Batch1 \in Batch(Handles1)
  BY <1>1 DEF Batch1
<1>3. T1 \in Nat /\ Batch1.changes \in Seq(Change(Handles1))
  BY <1>2 DEF Batch, T1
<1>4. ASSUME HasChange, k \in Nat \ {0}
      PROVE  /\ k \in DOMAIN Batch1.changes
             /\ Change1 \in Change(Handles1)
             /\ Handles2Of(Change1.handle) \in Seq(Handles2)
  <2>1. k \in DOMAIN Batch1.changes
    BY <1>3, <1>4 DEF HasChange
  <2>2. Change1 \in Change(Handles1)
    BY <1>3, <2>1 DEF Change1
  <2>3. Change1.handle \in Handles1
    BY <2>2 DEF Change
  <2> QED BY <2>1, <2>2, <2>3, DiffAssumption DEF Handles2Of
<1>5. ASSUME HasPair, k \in Nat \ {0}, j \in Nat \ {0}
      PROVE  j \in DOMAIN Mapping[Change1.handle] /\ Handle2 \in Handles2
  <2>1. Handles2Of(Change1.handle) \in Seq(Handles2)
    BY <1>4, <1>5 DEF HasPair
  <2> QED BY <1>5, <2>1 DEF HasPair, Handle2, Handles2Of
<1> QED BY <1>2, <1>3, <1>4, <1>5 DEF Key

\* A batch of set 2 about to be received.
LEMMA NextBatch2Type ==
  ASSUME ChannelsOK, HasNext(2)
  PROVE  /\ NextBatch(2) \in Batch(Handles2)
         /\ recvd[2] + 1 \in DOMAIN stream[2]
         /\ NextBatch(2).time \in Nat
         /\ NextBatch(2).changes \in Seq(Change(Handles2))
<1>1. stream[2] \in Seq(Batch(Handles2)) /\ recvd[2] + 1 \in 1..Len(stream[2])
  BY StreamType, SideDef DEF ChannelsOK, HasNext
<1>2. NextBatch(2) \in Batch(Handles2)
  BY <1>1 DEF NextBatch
<1> QED BY <1>1, <1>2 DEF Batch

\* Buffering a batch keeps the buffer a function from keys to values.
LEMMA InsertedType ==
  ASSUME NEW b \in Batch(Handles2), DOMAIN buffered2 \subseteq Keys2,
         \A key \in DOMAIN buffered2 : buffered2[key] \in Values
  PROVE  /\ DOMAIN Inserted(buffered2, b) \subseteq Keys2
         /\ \A key \in DOMAIN Inserted(buffered2, b) : Inserted(buffered2, b)[key] \in Values
<1>1. b.time \in Nat /\ b.changes \in Seq(Change(Handles2))
  BY DEF Batch
<1>c. \A i \in DOMAIN b.changes : /\ b.changes[i].handle \in Handles2
                                 /\ b.changes[i].value \in Values
  <2>1. \A i \in DOMAIN b.changes : b.changes[i] \in Change(Handles2)
    BY <1>1
  <2> QED BY <2>1 DEF Change
<1>2. BatchHandles(b) \subseteq Handles2
  BY <1>c DEF BatchHandles
<1>3. BatchKeys(b) \subseteq Keys2 /\ \A key \in BatchKeys(b) : key[2] \in BatchHandles(b)
  BY <1>1, <1>2 DEF BatchKeys, Keys2
<1>4. \A h \in BatchHandles(b) : LastValue(b, h) \in Values /\ FirstValue(b, h) \in Values
  BY <1>c, BatchValues
<1> QED BY <1>3, <1>4 DEF Inserted

\* The initial states are well typed.
LEMMA InitTypeOK == Init => TypeOK
<1> SUFFICES ASSUME Init PROVE TypeOK
  OBVIOUS
<1>1. ChannelsOK
  <2>1. Len(stream[1]) \in Nat /\ Len(stream[2]) \in Nat
    BY StreamType DEF Init
  <2> QED BY <2>1, SideDef DEF Init, ChannelsOK
<1>2. ComparatorOK
  <2>1. DOMAIN buffered2 = {}
    BY DEF Init
  <2>2. \A key \in DOMAIN buffered2 : buffered2[key] \in Values
    BY <2>1
  <2>3. DOMAIN buffered2 \subseteq Keys2
    BY <2>1
  <2>4. k \in Nat \ {0} /\ j \in Nat \ {0}
    BY DEF Init
  <2> QED BY <2>2, <2>3, <2>4, Zenon DEF Init, ComparatorOK
<1>3. CursorOK
  BY DEF Init, CursorOK
<1> QED BY <1>1, <1>2, <1>3 DEF TypeOK

\* Every action keeps the types: one step per action.
LEMMA NextTypeOK == TypeOK /\ [Next]_vars => TypeOK'
<1> SUFFICES ASSUME TypeOK, [Next]_vars PROVE TypeOK'
  OBVIOUS
<1> USE DEF TypeOK
<1>s. Len(stream[1]) \in Nat /\ Len(stream[2]) \in Nat
  BY StreamType DEF ChannelsOK
<1>1. ASSUME NEW s \in Side, Send(s) PROVE TypeOK'
  <2>1. ChannelsOK'
    BY <1>1, <1>s, SideDef DEF ChannelsOK, Send
  <2>2. ComparatorOK'
    BY <1>1, ZenonT(40) DEF ComparatorOK, Send, comparison, cursor
  <2>3. CursorOK'
    BY <1>1 DEF CursorOK, Send, comparison, cursor, T1, Batch1, HasPair, HasChange, Change1, Handles2Of
  <2> QED BY <2>1, <2>2, <2>3
<1>2. ASSUME NEW s \in Side, Finish(s) PROVE TypeOK'
  <2>1. ChannelsOK'
    BY <1>2, <1>s, SideDef DEF ChannelsOK, Finish
  <2>2. ComparatorOK'
    BY <1>2, ZenonT(40) DEF ComparatorOK, Finish, comparison, cursor
  <2>3. CursorOK'
    BY <1>2 DEF CursorOK, Finish, comparison, cursor, T1, Batch1, HasPair, HasChange, Change1, Handles2Of
  <2> QED BY <2>1, <2>2, <2>3
<1>3. ASSUME TakeBatch1 PROVE TypeOK'
  <2>1. ChannelsOK'
    BY <1>3, <1>s, SideDef DEF ChannelsOK, TakeBatch1, Receive, HasNext
  <2>2. ComparatorOK'
    <3>1. DOMAIN Evicted(buffered2, prevTime, matched) \subseteq DOMAIN buffered2
      BY DEF Evicted
    <3>2. \A key \in DOMAIN Evicted(buffered2, prevTime, matched) :
            Evicted(buffered2, prevTime, matched)[key] = buffered2[key]
      BY DEF Evicted
    <3>3. DOMAIN buffered2' \subseteq Keys2 /\ \A key \in DOMAIN buffered2' : buffered2'[key] \in Values
      BY <1>3, <3>1, <3>2 DEF ComparatorOK, TakeBatch1, EvictedAt
    <3>4. NextBatch(1).time \in Nat
      <4>1. stream[1] \in Seq(Batch(Handles1)) /\ recvd[1] + 1 \in 1..Len(stream[1])
        BY <1>3, StreamType, SideDef DEF ChannelsOK, HasNext, TakeBatch1
      <4>2. NextBatch(1) \in Batch(Handles1)
        BY <4>1 DEF NextBatch
      <4> QED BY <4>2 DEF Batch
    <3>5. k' \in Nat \ {0} /\ j' \in Nat \ {0}
      BY <1>3 DEF TakeBatch1
    <3> QED BY <1>3, <3>3, <3>4, <3>5, ZenonT(40) DEF ComparatorOK, TakeBatch1
  <2>3. CursorOK'
    <3>1. recvd' = [recvd EXCEPT ![1] = recvd[1] + 1] /\ 1 \in Side /\ recvd[1] \in Nat
      BY <1>3, SideDef DEF TakeBatch1, Receive, ChannelsOK
    <3>2. recvd'[1] = recvd[1] + 1
      BY <3>1, SideDef DEF ChannelsOK
    <3> QED BY <1>3, <3>1, <3>2 DEF CursorOK, TakeBatch1, NextBatch, T1, Batch1
  <2> QED BY <2>1, <2>2, <2>3
<1>4. ASSUME EndOfSet1 PROVE TypeOK'
  <2>1. ChannelsOK'
    BY <1>4 DEF ChannelsOK, EndOfSet1, channels
  <2>2. ComparatorOK'
    <3>1. DOMAIN Evicted(buffered2, prevTime, matched) \subseteq DOMAIN buffered2
      BY DEF Evicted
    <3>2. \A key \in DOMAIN Evicted(buffered2, prevTime, matched) :
            Evicted(buffered2, prevTime, matched)[key] = buffered2[key]
      BY DEF Evicted
    <3>3. DOMAIN buffered2' \subseteq Keys2 /\ \A key \in DOMAIN buffered2' : buffered2'[key] \in Values
      BY <1>4, <3>1, <3>2 DEF ComparatorOK, EndOfSet1
    <3> QED BY <1>4, <3>3, ZenonT(40) DEF ComparatorOK, EndOfSet1, cursor
  <2>3. CursorOK'
    BY <1>4 DEF CursorOK, EndOfSet1
  <2> QED BY <2>1, <2>2, <2>3
<1>5. ASSUME NextChange PROVE TypeOK'
  <2>1. ChannelsOK'
    BY <1>5 DEF ChannelsOK, NextChange, channels
  <2>2. ComparatorOK'
    <3>1. k' \in Nat \ {0} /\ j' \in Nat \ {0}
      BY <1>5 DEF NextChange, ComparatorOK
    <3> QED BY <1>5, <3>1, ZenonT(40) DEF ComparatorOK, NextChange, comparison
  <2>3. CursorOK'
    BY <1>5 DEF CursorOK, NextChange, comparison, channels, T1, Batch1
  <2> QED BY <2>1, <2>2, <2>3
<1>6. ASSUME BatchDone PROVE TypeOK'
  <2>1. ChannelsOK'
    BY <1>6 DEF ChannelsOK, BatchDone, channels
  <2>2. ComparatorOK'
    BY <1>6, ZenonT(40) DEF ComparatorOK, BatchDone, comparison, cursor, channels
  <2>3. CursorOK'
    BY <1>6 DEF CursorOK, BatchDone
  <2> QED BY <2>1, <2>2, <2>3
<1>7. ASSUME Lookup PROVE TypeOK'
  <2>1. ChannelsOK'
    BY <1>7 DEF ChannelsOK, Lookup, channels
  <2>2. ComparatorOK'
    BY <1>7, ZenonT(40) DEF ComparatorOK, Lookup, comparison, cursor, channels
  <2>3. CursorOK'
    BY <1>7 DEF CursorOK, Lookup, comparison, cursor, channels, T1, Batch1, HasPair, HasChange, Change1, Handles2Of
  <2> QED BY <2>1, <2>2, <2>3
<1>8. ASSUME ReadAhead PROVE TypeOK'
  <2>1. ChannelsOK'
    BY <1>8, <1>s, SideDef DEF ChannelsOK, ReadAhead, Receive, HasNext
  <2>2. ComparatorOK'
    <3>1. NextBatch(2) \in Batch(Handles2) /\ NextBatch(2).time \in Nat
      BY <1>8, NextBatch2Type DEF ReadAhead
    <3>2. DOMAIN buffered2' \subseteq Keys2 /\ \A key \in DOMAIN buffered2' : buffered2'[key] \in Values
      BY <1>8, <3>1, InsertedType DEF ReadAhead, ComparatorOK
    <3>3. found' \in Values \cup {NoValue}
      <4>1. CASE Key \in BatchKeys(NextBatch(2))
        <5>1. Key = <<T1, Handle2>> /\ Handle2 \in BatchHandles(NextBatch(2))
          BY <4>1 DEF Key, BatchKeys
        <5>2. FirstValue(NextBatch(2), Handle2) \in Values
          <6>1. PICK i \in DOMAIN NextBatch(2).changes :
                  NextBatch(2).changes[i].value = FirstValue(NextBatch(2), Handle2)
            BY <3>1, <5>1, BatchValues
          <6>2. NextBatch(2).changes[i] \in Change(Handles2)
            BY <1>8, NextBatch2Type DEF ReadAhead
          <6> QED BY <6>1, <6>2 DEF Change
        <5> QED BY <1>8, <4>1, <5>2 DEF ReadAhead
      <4>2. CASE Key \notin BatchKeys(NextBatch(2))
        BY <1>8, <4>2 DEF ReadAhead, ComparatorOK
      <4> QED BY <4>1, <4>2
    <3>4. sawTime' \in BOOLEAN
      BY <1>8 DEF ReadAhead, ComparatorOK, AtTime
    <3>5. pc' \in {"compare", "read_ahead"}
      BY <1>8 DEF ReadAhead
    <3> QED BY <1>8, <3>2, <3>3, <3>4, <3>5, ZenonT(40) DEF ComparatorOK, ReadAhead
  <2>3. CursorOK'
    <3>1. recvd'[1] = recvd[1]
      BY <1>8, SideDef DEF ReadAhead, Receive, ChannelsOK
    <3> QED BY <1>8, <3>1 DEF CursorOK, ReadAhead, T1, Batch1, HasPair, HasChange, Change1, Handles2Of
  <2> QED BY <2>1, <2>2, <2>3
<1>9. ASSUME EndOfSet2 PROVE TypeOK'
  <2>1. ChannelsOK'
    BY <1>9 DEF ChannelsOK, EndOfSet2, channels
  <2>2. ComparatorOK'
    BY <1>9, ZenonT(40) DEF ComparatorOK, EndOfSet2, comparison, cursor, channels
  <2>3. CursorOK'
    BY <1>9 DEF CursorOK, EndOfSet2, comparison, cursor, channels, T1, Batch1, HasPair, HasChange, Change1, Handles2Of
  <2> QED BY <2>1, <2>2, <2>3
<1>10. ASSUME Compare PROVE TypeOK'
  <2>1. ChannelsOK'
    BY <1>10 DEF ChannelsOK, Compare, channels
  <2>2. ComparatorOK'
    <3>1. matched' \subseteq Handles2
      <4>1. Handle2 \in Handles2
        BY <1>10, Batch1Type DEF Compare, CursorOK, ComparatorOK
      <4> QED BY <1>10, <4>1 DEF Compare, ComparatorOK
    <3>2. j' \in Nat \ {0}
      BY <1>10 DEF Compare, ComparatorOK
    <3>3. hasDiff' \in BOOLEAN
      BY <1>10 DEF Compare, ComparatorOK
    <3> QED BY <1>10, <3>1, <3>2, <3>3, ZenonT(40) DEF ComparatorOK, Compare
  <2>3. CursorOK'
    BY <1>10 DEF CursorOK, Compare, channels, T1, Batch1
  <2> QED BY <2>1, <2>2, <2>3
<1>11. ASSUME Leftover PROVE TypeOK'
  <2>1. ChannelsOK'
    BY <1>11 DEF ChannelsOK, Leftover
  <2>2. ComparatorOK'
    <3>1. DOMAIN buffered2' = {}
      BY <1>11 DEF Leftover
    <3>2. hasDiff' \in BOOLEAN
      BY <1>11 DEF Leftover, ComparatorOK
    <3>3. /\ pc' \in {"returned", "drain"}
          /\ cmp' \in {"none", "same", "differ", "error"}
      BY <1>11 DEF Leftover, ComparatorOK, Verdict
    <3> QED BY <1>11, <3>1, <3>2, <3>3, ZenonT(40) DEF ComparatorOK, Leftover, cursor
  <2>3. CursorOK'
    BY <1>11 DEF CursorOK, Leftover
  <2> QED BY <2>1, <2>2, <2>3
<1>12. ASSUME DrainBatch PROVE TypeOK'
  <2>1. ChannelsOK'
    BY <1>12, <1>s, SideDef DEF ChannelsOK, DrainBatch, Receive, HasNext
  <2>2. ComparatorOK'
    <3>1. hasDiff' \in BOOLEAN
      BY <1>12 DEF DrainBatch, ComparatorOK
    <3> QED BY <1>12, <3>1, ZenonT(40) DEF ComparatorOK, DrainBatch, cursor
  <2>3. CursorOK'
    BY <1>12 DEF CursorOK, DrainBatch
  <2> QED BY <2>1, <2>2, <2>3
<1>13. ASSUME DrainEnd PROVE TypeOK'
  <2>1. ChannelsOK'
    BY <1>13 DEF ChannelsOK, DrainEnd
  <2>2. ComparatorOK'
    <3>1. cmp' \in {"same", "differ"}
      BY <1>13 DEF DrainEnd, Verdict
    <3> QED BY <1>13, <3>1, ZenonT(40) DEF ComparatorOK, DrainEnd, cursor, comparison
  <2>3. CursorOK'
    BY <1>13 DEF CursorOK, DrainEnd
  <2> QED BY <2>1, <2>2, <2>3
<1>14. ASSUME WriteError PROVE TypeOK'
  <2>1. ChannelsOK'
    BY <1>14 DEF ChannelsOK, WriteError
  <2>2. ComparatorOK'
    BY <1>14, ZenonT(40) DEF ComparatorOK, WriteError, comparison, cursor, channels
  <2>3. CursorOK'
    BY <1>14 DEF CursorOK, WriteError
  <2> QED BY <2>1, <2>2, <2>3
<1>15. ASSUME Join PROVE TypeOK'
  <2>1. ChannelsOK'
    BY <1>15 DEF ChannelsOK, Join, channels
  <2>2. ComparatorOK'
    <3>1. result' \in {"none", "same", "differ", "error"}
      BY <1>15 DEF Join, JoinedResult, ComparatorOK
    <3> QED BY <1>15, <3>1, ZenonT(40) DEF ComparatorOK, Join, cursor, comparison
  <2>3. CursorOK'
    BY <1>15 DEF CursorOK, Join
  <2> QED BY <2>1, <2>2, <2>3
<1>16. ASSUME UNCHANGED vars PROVE TypeOK'
  <2>1. ChannelsOK'
    BY <1>16 DEF ChannelsOK, vars, channels
  <2>2. ComparatorOK'
    BY <1>16, ZenonT(40) DEF ComparatorOK, vars, channels, cursor, comparison
  <2>3. CursorOK'
    BY <1>16 DEF CursorOK, vars, channels, cursor, comparison, T1, Batch1, HasPair, HasChange, Change1, Handles2Of
  <2> QED BY <2>1, <2>2, <2>3
<1> QED
  BY <1>1, <1>2, <1>3, <1>4, <1>5, <1>6, <1>7, <1>8, <1>9, <1>10, <1>11, <1>12, <1>13,
     <1>14, <1>15, <1>16 DEF Next, Sender, Comparator, Done

\* Every variable keeps its type in every behaviour, whatever the streams are.
THEOREM TypeCorrect == Spec => []TypeOK
  BY InitTypeOK, NextTypeOK, PTL DEF Spec

-------------------------------------------------------------------------------
(* The inductive invariant. *)

\* Set 1 has no change left to compare in what was received.
Caught == recvd[1] = 0 \/ ~HasChange

PhaseOK ==
  /\ pc = "batch1" => Caught
  /\ pc \in {"leftover", "drain"} => Closed(1) /\ Caught
  /\ source2Ended => Closed(2)
  /\ pc = "drain" => DOMAIN buffered2 = {}
  /\ pc \notin {"returned", "joined"} => cmp = "none"
  /\ pc # "joined" => result = "none"
  /\ cmp \in {"same", "differ"} =>
       /\ Closed(1) /\ Closed(2) /\ Caught
       /\ DOMAIN buffered2 = {} /\ cmp = Verdict(hasDiff)
  /\ pc = "joined" => result = JoinedResult /\ \A s \in Side : sender[s] # "running"
  /\ \A s \in Side : /\ sender[s] = "ok" => s \notin fails
                     /\ sender[s] = "err" => s \in fails

\* Change c2 of set 2 gives handle h the value v at time t.
Gives(c2, t, h, v) == TimeOf(2, c2) = t /\ HandleOf(2, c2) = h /\ ValueOf(2, c2) = v

ProvenanceOK ==
  /\ \A key \in DOMAIN buffered2 :
       \E c2 \in Changes(2) : Gives(c2, key[1], key[2], buffered2[key])
  /\ pc = "read_ahead" => found = NoValue
  /\ pc = "compare" /\ found # NoValue =>
       \E c2 \in Changes(2) : Gives(c2, T1, Handle2, found)

MatchedOK ==
  \A h \in matched : \E c1 \in Changes(1) :
    c1[1] <= recvd[1] /\ TimeOf(1, c1) = prevTime /\ h \in MappedTo(HandleOf(1, c1))

\* The comparison of change c1 of set 1 with handle number m of its mapping is over.
Compared(c1, m) ==
  \/ c1[1] < recvd[1]
  \/ c1[1] = recvd[1] /\ (c1[2] < k \/ (c1[2] = k /\ m < j))

HasEqual(c1, h2) ==
  \E c2 \in Changes(2) :
    /\ TimeOf(2, c2) = TimeOf(1, c1) /\ HandleOf(2, c2) = h2
    /\ <<ValueOf(1, c1), ValueOf(2, c2)>> \in Close

ForwardOK ==
  ~hasDiff => \A c1 \in Changes(1) : \A m \in DOMAIN Mapping[HandleOf(1, c1)] :
                Compared(c1, m) => HasEqual(c1, Mapping[HandleOf(1, c1)][m])

IInv == TypeOK /\ PhaseOK /\ ProvenanceOK /\ MatchedOK /\ ForwardOK /\ NothingLost

-------------------------------------------------------------------------------
(* What every step leaves alone. *)

\* No step changes the streams or which of them fail.
LEMMA StreamFixed == ASSUME [Next]_vars PROVE stream' = stream /\ fails' = fails
  BY DEF Next, Sender, Comparator, Done, vars, channels, Send, Finish, TakeBatch1, EndOfSet1,
         NextChange, BatchDone, Lookup, ReadAhead, EndOfSet2, Compare, Leftover, DrainBatch,
         DrainEnd, WriteError, Join

\* What is said of the streams alone stays.
LEMMA StreamFacts ==
  ASSUME stream' = stream
  PROVE  /\ \A s \in Side : Changes(s)' = Changes(s)
         /\ \A s, c : TimeOf(s, c)' = TimeOf(s, c) /\ HandleOf(s, c)' = HandleOf(s, c)
                                                   /\ ValueOf(s, c)' = ValueOf(s, c)
         /\ \A c1, h : HasEqual(c1, h)' <=> HasEqual(c1, h)
         /\ \A c2, t, h, v : Gives(c2, t, h, v)' <=> Gives(c2, t, h, v)
         /\ \A c1, c2 : Counterparts(c1, c2)' <=> Counterparts(c1, c2)
<1>1. \A s, c : TimeOf(s, c)' = TimeOf(s, c) /\ HandleOf(s, c)' = HandleOf(s, c)
                                             /\ ValueOf(s, c)' = ValueOf(s, c)
  BY DEF TimeOf, HandleOf, ValueOf
<1>2. \A s \in Side : Changes(s)' = Changes(s)
  BY DEF Changes
<1>3. \A c1, h : HasEqual(c1, h)' <=> HasEqual(c1, h)
  BY <1>1, <1>2, SideDef DEF HasEqual
<1> QED BY <1>1, <1>2, <1>3 DEF Gives, Counterparts

\* A channel whose sender has returned and that is empty stays so.
LEMMA ClosedStable ==
  ASSUME TypeOK, [Next]_vars, NEW s \in Side, Closed(s)
  PROVE  Closed(s)'
<1> USE DEF Closed, HasNext, Receive, TypeOK, ChannelsOK
<1>1. ASSUME NEW q \in Side, Sender(q) PROVE Closed(s)'
  BY <1>1 DEF Sender, Send, Finish
<1>2. CASE TakeBatch1 \/ ReadAhead \/ DrainBatch
  BY <1>2, SideDef DEF TakeBatch1, ReadAhead, DrainBatch
<1>3. CASE EndOfSet1 \/ NextChange \/ BatchDone \/ Lookup \/ EndOfSet2 \/ Compare \/ Join
  BY <1>3 DEF EndOfSet1, NextChange, BatchDone, Lookup, EndOfSet2, Compare, Join, channels
<1>4. CASE Leftover \/ DrainEnd \/ WriteError
  BY <1>4 DEF Leftover, DrainEnd, WriteError
<1>5. CASE UNCHANGED vars
  BY <1>5 DEF vars, channels
<1> QED BY <1>1, <1>2, <1>3, <1>4, <1>5 DEF Next, Comparator, Done

\* Batches are only ever added to what was received.
LEMMA ReceivedGrows ==
  ASSUME TypeOK, [Next]_vars
  PROVE  \A s \in Side : recvd[s] \in Nat /\ recvd'[s] \in Nat /\ recvd[s] <= recvd'[s]
<1> USE DEF Receive, TypeOK, ChannelsOK
<1>1. CASE TakeBatch1 \/ ReadAhead \/ DrainBatch
  BY <1>1, SideDef DEF TakeBatch1, ReadAhead, DrainBatch
<1>2. CASE ~(TakeBatch1 \/ ReadAhead \/ DrainBatch)
  BY <1>2 DEF Next, Sender, Comparator, Done, vars, channels, Send, Finish, EndOfSet1,
         NextChange, BatchDone, Lookup, EndOfSet2, Compare, Leftover, DrainEnd, WriteError, Join
<1> QED BY <1>1, <1>2

\* The change of set 1 that the comparator is at, and the handle it is at.
LEMMA CurrentPair ==
  ASSUME TypeOK, HasPair, pc \in {"pair", "read_ahead", "compare"}
  PROVE  /\ <<recvd[1], k>> \in Changes(1)
         /\ TimeOf(1, <<recvd[1], k>>) = T1 /\ T1 = prevTime
         /\ HandleOf(1, <<recvd[1], k>>) = Change1.handle
         /\ ValueOf(1, <<recvd[1], k>>) = Change1.value
         /\ j \in DOMAIN Mapping[Change1.handle] /\ Mapping[Change1.handle][j] = Handle2
         /\ Handle2 \in MappedTo(HandleOf(1, <<recvd[1], k>>))
<1>1. recvd[1] > 0 /\ prevTime = T1 /\ k \in Nat \ {0} /\ j \in Nat \ {0}
  BY DEF TypeOK, CursorOK, ComparatorOK
<1>2. k \in DOMAIN Batch1.changes /\ j \in DOMAIN Mapping[Change1.handle]
  BY <1>1, Batch1Type DEF TypeOK, HasPair
<1>3. recvd[1] \in DOMAIN stream[1]
  <2>1. recvd[1] \in 1..Len(stream[1])
    BY <1>1, SideDef, StreamType DEF TypeOK, ChannelsOK
  <2> QED BY <2>1, StreamType DEF TypeOK, ChannelsOK
<1> QED
  BY <1>1, <1>2, <1>3, ChangesDef, SideDef
  DEF TimeOf, HandleOf, ValueOf, T1, Batch1, Change1, MappedTo, Handle2, Handles2Of

\* The change of set 1 that is being compared.
LEMMA CurrentChange ==
  ASSUME TypeOK, pc = "compare"
  PROVE  /\ <<recvd[1], k>> \in Changes(1)
         /\ TimeOf(1, <<recvd[1], k>>) = T1 /\ T1 = prevTime
         /\ HandleOf(1, <<recvd[1], k>>) = Change1.handle
         /\ ValueOf(1, <<recvd[1], k>>) = Change1.value
         /\ j \in DOMAIN Mapping[Change1.handle] /\ Mapping[Change1.handle][j] = Handle2
         /\ Handle2 \in MappedTo(HandleOf(1, <<recvd[1], k>>))
<1>1. HasPair
  BY DEF TypeOK, CursorOK
<1> QED BY <1>1, CurrentPair

\* Where the changes of set 1 are, and the handles each is mapped to.
LEMMA PairTypes ==
  ASSUME TypeOK, NEW c \in Changes(1)
  PROVE  /\ c[1] \in 1..Len(stream[1]) /\ Len(stream[1]) \in Nat
         /\ c[2] \in 1..Len(stream[1][c[1]].changes)
         /\ Len(stream[1][c[1]].changes) \in Nat
         /\ DOMAIN Mapping[HandleOf(1, c)] = 1..Len(Mapping[HandleOf(1, c)])
         /\ Len(Mapping[HandleOf(1, c)]) \in Nat
         /\ HandleOf(1, c) \in Handles1
<1>1. c[1] \in DOMAIN stream[1] /\ c[2] \in DOMAIN stream[1][c[1]].changes
  BY ChangesDef, SideDef
<1>2. stream[1] \in Seq(Batch(Handles1))
  BY StreamType DEF TypeOK, ChannelsOK
<1>3. stream[1][c[1]] \in Batch(Handles1)
  BY <1>1, <1>2
<1>4. stream[1][c[1]].changes \in Seq(Change(Handles1))
  BY <1>3 DEF Batch
<1>5. stream[1][c[1]].changes[c[2]] \in Change(Handles1)
  BY <1>1, <1>4
<1>6. HandleOf(1, c) \in Handles1
  BY <1>5 DEF Change, HandleOf
<1>7. Mapping[HandleOf(1, c)] \in Seq(Handles2)
  BY <1>6, DiffAssumption
<1>8. DOMAIN stream[1] = 1..Len(stream[1]) /\ Len(stream[1]) \in Nat
  BY <1>2
<1>9. /\ DOMAIN stream[1][c[1]].changes = 1..Len(stream[1][c[1]].changes)
      /\ Len(stream[1][c[1]].changes) \in Nat
  BY <1>4
<1>10. /\ DOMAIN Mapping[HandleOf(1, c)] = 1..Len(Mapping[HandleOf(1, c)])
       /\ Len(Mapping[HandleOf(1, c)]) \in Nat
  BY <1>7
<1> QED BY <1>1, <1>6, <1>8, <1>9, <1>10

\* A step ends the comparison of at most the current pair, and never takes one back.
LEMMA ComparedStep ==
  ASSUME TypeOK, PhaseOK, [Next]_vars,
         NEW c \in Changes(1), NEW m \in DOMAIN Mapping[HandleOf(1, c)]
  PROVE  /\ Compared(c, m)' =>
              Compared(c, m) \/ (Compare /\ c = <<recvd[1], k>> /\ m = j)
         /\ Compared(c, m) => Compared(c, m)'
<1>a. recvd[1] \in Nat /\ k \in Nat /\ j \in Nat
  BY SideDef DEF TypeOK, ChannelsOK, ComparatorOK
<1>b. m \in Nat /\ c[1] \in Nat /\ c[2] \in Nat /\ c[1] > 0 /\ c[2] > 0 /\ m > 0
  BY PairTypes
<1>1. CASE TakeBatch1
  <2>1. recvd'[1] = recvd[1] + 1 /\ k' = 1 /\ j' = 1
    BY <1>1, SideDef DEF TakeBatch1, Receive, TypeOK, ChannelsOK
  <2>2. c[1] = recvd[1] => c[2] < k
    BY <1>1, <1>a, <1>b, PairTypes DEF TakeBatch1, PhaseOK, Caught, HasChange, Batch1
  <2> QED BY <1>a, <1>b, <2>1, <2>2 DEF Compared
<1>2. CASE NextChange
  <2>1. recvd' = recvd /\ k' = k + 1 /\ j' = 1
    BY <1>2 DEF NextChange, channels
  <2>2. CASE c[1] = recvd[1] /\ c[2] = k
    <3>1. HandleOf(1, c) = Change1.handle
      BY <2>2 DEF HandleOf, Change1, Batch1
    <3>2. m < j
      BY <1>2, <1>a, <1>b, <3>1, PairTypes DEF NextChange, HasPair, Handles2Of
    <3> QED BY <1>a, <1>b, <2>1, <2>2, <3>2 DEF Compared
  <2>3. CASE ~(c[1] = recvd[1] /\ c[2] = k)
    BY <1>a, <1>b, <2>1, <2>3 DEF Compared
  <2> QED BY <2>2, <2>3
<1>3. CASE Compare
  <2>1. recvd' = recvd /\ k' = k /\ j' = j + 1
    BY <1>3 DEF Compare, channels
  <2>2. c = <<c[1], c[2]>>
    BY ChangesDef, SideDef
  <2> QED BY <1>3, <1>a, <1>b, <2>1, <2>2 DEF Compared
<1>4. CASE ~(TakeBatch1 \/ NextChange \/ Compare)
  <2>1. recvd'[1] = recvd[1] /\ k' = k /\ j' = j
    BY <1>4, SideDef DEF Next, Sender, Comparator, Done, vars, channels, cursor, Send, Finish,
         EndOfSet1, BatchDone, Lookup, ReadAhead, EndOfSet2, Leftover, DrainBatch,
         DrainEnd, WriteError, Join, Receive, TypeOK, ChannelsOK
  <2> QED BY <2>1 DEF Compared
<1> QED BY <1>1, <1>2, <1>3, <1>4

\* Once set 1 is caught up with, every received change of it has been compared.
LEMMA CaughtCompared ==
  ASSUME TypeOK, Caught, NEW c \in Changes(1), c[1] <= recvd[1],
         NEW m \in DOMAIN Mapping[HandleOf(1, c)]
  PROVE  Compared(c, m)
<1>1. recvd[1] \in Nat /\ k \in Nat
  BY SideDef DEF TypeOK, ChannelsOK, ComparatorOK
<1>2. c[1] \in Nat \ {0}
  BY PairTypes
<1>3. CASE c[1] = recvd[1]
  <2>1. c[2] \in 1..Len(Batch1.changes) /\ Len(Batch1.changes) \in Nat
    BY <1>3, PairTypes DEF Batch1
  <2>2. c[2] < k
    BY <1>1, <1>2, <1>3, <2>1 DEF Caught, HasChange
  <2> QED BY <1>3, <2>2 DEF Compared
<1>4. CASE c[1] < recvd[1]
  BY <1>4 DEF Compared
<1> QED BY <1>1, <1>2, <1>3, <1>4

-------------------------------------------------------------------------------
(* The inductive invariant holds initially and is kept by every step. *)

\* Nothing has been read, compared or reported yet.
LEMMA InitIInv == Init => IInv
<1> SUFFICES ASSUME Init PROVE IInv
  OBVIOUS
<1>1. TypeOK
  BY InitTypeOK
<1>2. DOMAIN buffered2 = {} /\ matched = {}
  BY DEF Init
<1>3. recvd[1] = 0 /\ recvd[2] = 0
  BY SideDef DEF Init
<1>4. PhaseOK
  BY <1>3 DEF PhaseOK, Init, Caught
<1>5. ProvenanceOK /\ MatchedOK
  BY <1>2 DEF ProvenanceOK, MatchedOK, Init
<1>6. ForwardOK
  <2>1. \A c1 \in Changes(1) : c1[1] \in Nat \ {0}
    <3>1. DOMAIN stream[1] \in SUBSET (Nat \ {0})
      BY <1>1, StreamType DEF TypeOK, ChannelsOK
    <3> QED BY <3>1, ChangesDef, SideDef
  <2>2. ASSUME NEW c1 \in Changes(1), NEW m PROVE ~Compared(c1, m)
    BY <1>3, <2>1 DEF Compared
  <2> QED BY <2>2 DEF ForwardOK
<1>7. NothingLost
  <2>1. \A c2 \in Changes(2) : c2[1] \in Nat \ {0}
    <3>1. DOMAIN stream[2] \in SUBSET (Nat \ {0})
      BY <1>1, StreamType DEF TypeOK, ChannelsOK
    <3> QED BY <3>1, ChangesDef, SideDef
  <2> QED BY <1>3, <2>1 DEF NothingLost
<1> QED BY <1>1, <1>4, <1>5, <1>6, <1>7 DEF IInv

\* The phases and what is over in each of them.
LEMMA NextPhaseOK == ASSUME TypeOK, PhaseOK, [Next]_vars PROVE PhaseOK'
<1> USE DEF PhaseOK
<1>a. \A s \in Side : Closed(s) => Closed(s)'
  BY ClosedStable
<1>b. 1 \in Side /\ 2 \in Side
  BY SideDef
<1>1. ASSUME NEW s \in Side, Sender(s) PROVE PhaseOK'
  <2>1. UNCHANGED <<pc, cursor, comparison, cmp, result, recvd, stream, fails>>
    BY <1>1 DEF Sender, Send, Finish
  <2>2. Caught' = Caught
    BY <2>1 DEF Caught, HasChange, Batch1, cursor
  <2>3. pc # "joined" \/ ~ Sender(s)
    BY <1>b DEF Sender, Send, Finish
  <2>4. \A q \in Side : /\ sender'[q] = "ok" => q \notin fails
                        /\ sender'[q] = "err" => q \in fails
    BY <1>1 DEF Sender, Send, Finish, TypeOK, ChannelsOK
  <2> QED BY <1>1, <1>a, <1>b, <2>1, <2>2, <2>3, <2>4 DEF cursor, comparison
<1>2. CASE TakeBatch1
  BY <1>2, <1>a, <1>b DEF TakeBatch1
<1>3. CASE EndOfSet1
  <2>1. Caught' = Caught
    BY <1>3 DEF EndOfSet1, Caught, HasChange, Batch1, cursor, channels
  <2> QED BY <1>3, <1>a, <1>b, <2>1 DEF EndOfSet1, channels
<1>4. CASE NextChange \/ Lookup
  BY <1>4, <1>a, <1>b DEF NextChange, Lookup, channels, comparison
<1>5. CASE BatchDone
  <2>1. Caught'
    BY <1>5 DEF BatchDone, Caught, HasChange, Batch1, cursor, channels
  <2> QED BY <1>5, <1>a, <1>b, <2>1 DEF BatchDone, channels, comparison
<1>6. CASE ReadAhead
  BY <1>6, <1>a, <1>b DEF ReadAhead
<1>7. CASE EndOfSet2
  BY <1>7, <1>a, <1>b DEF EndOfSet2, channels
<1>8. CASE Compare
  BY <1>8, <1>a, <1>b DEF Compare, channels
<1>9. CASE Leftover
  <2>1. Caught' = Caught
    BY <1>9 DEF Leftover, Caught, HasChange, Batch1, cursor
  <2>2. DOMAIN buffered2' = {}
    BY <1>9 DEF Leftover
  <2>3. cmp' \in {"none", "same", "differ"} /\ (cmp' # "none" => cmp' = Verdict(hasDiff'))
    BY <1>9 DEF Leftover, Verdict
  <2>4. Verdict(hasDiff)' = Verdict(hasDiff')
    BY DEF Verdict
  <2>5. CASE source2Ended
    BY <1>9, <1>a, <1>b, <2>1, <2>2, <2>3, <2>4, <2>5 DEF Leftover
  <2>6. CASE ~source2Ended
    BY <1>9, <1>a, <1>b, <2>1, <2>2, <2>3, <2>4, <2>6 DEF Leftover
  <2> QED BY <2>5, <2>6
<1>10. CASE DrainBatch
  <2>1. recvd'[1] = recvd[1]
    BY <1>10, SideDef DEF DrainBatch, Receive, TypeOK, ChannelsOK
  <2>2. Caught' = Caught
    BY <1>10, <2>1 DEF DrainBatch, Caught, HasChange, Batch1, cursor
  <2> QED BY <1>10, <1>a, <1>b, <2>2 DEF DrainBatch
<1>11. CASE DrainEnd
  <2>1. Caught' = Caught
    BY <1>11 DEF DrainEnd, Caught, HasChange, Batch1, cursor
  <2>2. Verdict(hasDiff)' = Verdict(hasDiff') /\ hasDiff' = hasDiff
    BY <1>11 DEF Verdict, DrainEnd, comparison
  <2>3. cmp' = Verdict(hasDiff')
    BY <1>11, <2>2 DEF DrainEnd
  <2> QED BY <1>11, <1>a, <1>b, <2>1, <2>2, <2>3 DEF DrainEnd, comparison, Verdict
<1>12. CASE WriteError
  <2>1. pc \in {"compare", "leftover", "drain"}
    BY <1>12 DEF WriteError, RowsDue
  <2>2. result' = "none" /\ source2Ended' = source2Ended /\ pc' = "returned" /\ cmp' = "error"
    BY <1>12, <2>1 DEF WriteError
  <2>3. UNCHANGED <<sender, fails>>
    BY <1>12 DEF WriteError
  <2> QED BY <1>a, <1>b, <2>2, <2>3
<1>13. CASE Join
  <2>1. Caught' = Caught
    BY <1>13 DEF Join, Caught, HasChange, Batch1, cursor, channels
  <2>2. JoinedResult' = JoinedResult
    BY <1>13 DEF Join, JoinedResult, channels
  <2>3. Verdict(hasDiff)' = Verdict(hasDiff)
    BY <1>13 DEF Join, comparison, Verdict
  <2> QED BY <1>13, <1>a, <1>b, <2>1, <2>2, <2>3 DEF Join, channels, comparison
<1>14. CASE UNCHANGED vars
  <2>1. Caught' = Caught /\ JoinedResult' = JoinedResult /\ Verdict(hasDiff)' = Verdict(hasDiff)
    BY <1>14 DEF vars, Caught, HasChange, Batch1, cursor, channels, JoinedResult, comparison, Verdict
  <2>2. UNCHANGED <<pc, cmp, result, buffered2, source2Ended, sender, fails>>
    BY <1>14 DEF vars, channels, comparison
  <2> QED BY <1>a, <1>b, <2>1, <2>2
<1> QED
  BY <1>1, <1>2, <1>3, <1>4, <1>5, <1>6, <1>7, <1>8, <1>9, <1>10, <1>11, <1>12, <1>13, <1>14
  DEF Next, Comparator, Done

\* What is buffered and matched was received, at that time.
LEMMA NextProvenanceOK == ASSUME TypeOK, PhaseOK, ProvenanceOK, [Next]_vars PROVE ProvenanceOK'
<1> USE DEF ProvenanceOK
<1>a. stream' = stream
  BY StreamFixed
<1>b. /\ Changes(2)' = Changes(2)
      /\ \A c2, t, h, v : Gives(c2, t, h, v)' <=> Gives(c2, t, h, v)
  BY <1>a, StreamFacts, SideDef
<1>c. ASSUME NEW key \in DOMAIN Evicted(buffered2, prevTime, matched)
      PROVE  key \in DOMAIN buffered2 /\ Evicted(buffered2, prevTime, matched)[key] = buffered2[key]
  BY DEF Evicted
<1>1. ASSUME NEW s \in Side, Sender(s) PROVE ProvenanceOK'
  <2>1. UNCHANGED <<pc, found, buffered2, recvd, k, j>>
    BY <1>1 DEF Sender, Send, Finish, cursor, comparison
  <2>2. T1' = T1 /\ Handle2' = Handle2
    BY <1>a, <2>1 DEF T1, Batch1, Handle2, Change1, Handles2Of
  <2> QED BY <1>b, <2>1, <2>2
<1>2. CASE TakeBatch1
  <2>1. \A key \in DOMAIN buffered2' : key \in DOMAIN buffered2 /\ buffered2'[key] = buffered2[key]
    BY <1>2, <1>c DEF TakeBatch1, EvictedAt
  <2> QED BY <1>2, <1>b, <2>1 DEF TakeBatch1
<1>3. CASE EndOfSet1
  <2>1. \A key \in DOMAIN buffered2' : key \in DOMAIN buffered2 /\ buffered2'[key] = buffered2[key]
    BY <1>3, <1>c DEF EndOfSet1
  <2> QED BY <1>3, <1>b, <2>1 DEF EndOfSet1
<1>4. CASE NextChange \/ BatchDone \/ Compare
  BY <1>4, <1>b DEF NextChange, BatchDone, Compare, comparison
<1>5. CASE Lookup
  BY <1>5, <1>b DEF Lookup, comparison
<1>6. CASE ReadAhead
  <2> DEFINE b == NextBatch(2)
             n == recvd[2] + 1
  <2>1. b \in Batch(Handles2) /\ n \in DOMAIN stream[2] /\ b = stream[2][n]
    BY <1>6, NextBatch2Type DEF TypeOK, ReadAhead, NextBatch
  <2>2. ASSUME NEW i \in DOMAIN b.changes
        PROVE  /\ <<n, i>> \in Changes(2)
               /\ Gives(<<n, i>>, b.time, b.changes[i].handle, b.changes[i].value)
    BY <2>1, ChangesDef, SideDef DEF Gives, TimeOf, HandleOf, ValueOf
  <2>3. ASSUME NEW key \in BatchKeys(b)
        PROVE  key = <<b.time, key[2]>> /\ key[1] = b.time /\ key[2] \in BatchHandles(b)
    BY DEF BatchKeys
  <2>4. ASSUME NEW key \in DOMAIN buffered2'
        PROVE  \E c2 \in Changes(2) : Gives(c2, key[1], key[2], buffered2'[key])
    <3>1. CASE key \in BatchKeys(b)
      <4>1. buffered2'[key] = LastValue(b, key[2])
        BY <1>6, <3>1 DEF ReadAhead, Inserted
      <4>2. PICK i \in DOMAIN b.changes :
              b.changes[i].handle = key[2] /\ b.changes[i].value = LastValue(b, key[2])
        BY <2>1, <2>3, <3>1, BatchValues
      <4>3. key[1] = b.time
        BY <2>3, <3>1
      <4>4. <<n, i>> \in Changes(2) /\ Gives(<<n, i>>, key[1], key[2], buffered2'[key])
        BY <2>2, <4>1, <4>2, <4>3
      <4> HIDE DEF n
      <4> QED BY <4>4
    <3>2. CASE key \notin BatchKeys(b)
      <4>1. key \in DOMAIN buffered2 /\ buffered2'[key] = buffered2[key]
        BY <1>6, <2>4, <3>2 DEF ReadAhead, Inserted
      <4> QED BY <4>1
    <3> QED BY <3>1, <3>2
  <2>5. ASSUME pc' = "compare", found' # NoValue
        PROVE  \E c2 \in Changes(2) : Gives(c2, T1, Handle2, found')
    <3>1. Key \in BatchKeys(b) /\ found' = FirstValue(b, Handle2)
      BY <1>6, <2>5 DEF ReadAhead
    <3>2. b.time = T1 /\ Handle2 \in BatchHandles(b)
      BY <2>3, <3>1 DEF Key
    <3>3. PICK i \in DOMAIN b.changes :
            b.changes[i].handle = Handle2 /\ b.changes[i].value = FirstValue(b, Handle2)
      BY <2>1, <3>2, BatchValues
    <3> QED BY <2>2, <3>1, <3>2, <3>3
  <2>6. T1' = T1 /\ Handle2' = Handle2
    <3>1. recvd'[1] = recvd[1]
      BY <1>6, SideDef DEF ReadAhead, Receive, TypeOK, ChannelsOK
    <3> QED BY <1>6, <3>1 DEF ReadAhead, T1, Batch1, Handle2, Change1, Handles2Of
  <2>7. pc' = "read_ahead" => found' = NoValue
    BY <1>6 DEF ReadAhead
  <2> QED BY <1>b, <2>4, <2>5, <2>6, <2>7
<1>7. CASE EndOfSet2
  <2>1. UNCHANGED <<buffered2, found>> /\ pc = "read_ahead" /\ pc' = "compare"
    BY <1>7 DEF EndOfSet2, cursor
  <2> QED BY <1>b, <2>1
<1>8. CASE Leftover
  <2>1. DOMAIN buffered2' = {} /\ pc' \in {"returned", "drain"}
    BY <1>8 DEF Leftover
  <2> QED BY <2>1
<1>9. CASE DrainBatch \/ DrainEnd \/ WriteError \/ Join
  <2>1. buffered2' = buffered2 /\ pc' \in {"drain", "returned", "joined"}
    BY <1>9 DEF DrainBatch, DrainEnd, WriteError, Join, comparison
  <2> QED BY <1>b, <2>1
<1>10. CASE UNCHANGED vars
  <2>1. UNCHANGED <<pc, found, buffered2, recvd, k, j>>
    BY <1>10 DEF vars, channels, cursor, comparison
  <2>2. T1' = T1 /\ Handle2' = Handle2
    BY <1>a, <2>1 DEF T1, Batch1, Handle2, Change1, Handles2Of
  <2> QED BY <1>b, <2>1, <2>2
<1> QED
  BY <1>1, <1>2, <1>3, <1>4, <1>5, <1>6, <1>7, <1>8, <1>9, <1>10 DEF Next, Comparator, Done

\* Only look-ups that found an equal value mark an entry.
LEMMA NextMatchedOK == ASSUME TypeOK, MatchedOK, [Next]_vars PROVE MatchedOK'
<1> USE DEF MatchedOK
<1>a. stream' = stream
  BY StreamFixed
<1>b. /\ Changes(1)' = Changes(1)
      /\ \A c : TimeOf(1, c)' = TimeOf(1, c) /\ HandleOf(1, c)' = HandleOf(1, c)
      /\ \A h : MappedTo(h)' = MappedTo(h)
  BY <1>a, StreamFacts, SideDef DEF MappedTo
<1>c. recvd[1] \in Nat /\ recvd'[1] \in Nat /\ recvd[1] <= recvd'[1]
  BY ReceivedGrows, SideDef
<1>d. \A c \in Changes(1) : c[1] \in Nat
  <2>1. DOMAIN stream[1] \in SUBSET Nat
    BY StreamType DEF TypeOK, ChannelsOK
  <2> QED BY <2>1, ChangesDef, SideDef
<1>1. CASE TakeBatch1
  <2>1. CASE prevTime = NextBatch(1).time
    BY <1>1, <1>b, <1>c, <1>d, <2>1 DEF TakeBatch1
  <2>2. CASE prevTime # NextBatch(1).time
    BY <1>1, <2>2 DEF TakeBatch1
  <2> QED BY <2>1, <2>2
<1>2. CASE Compare
  <2> DEFINE c1 == <<recvd[1], k>>
  <2>1. /\ c1 \in Changes(1) /\ TimeOf(1, c1) = prevTime
        /\ Handle2 \in MappedTo(HandleOf(1, c1))
    BY <1>2, CurrentChange DEF Compare
  <2>6. /\ matched' \subseteq matched \cup {Handle2}
        /\ UNCHANGED <<recvd, prevTime>>
    BY <1>2 DEF Compare, channels
  <2>7. c1[1] <= recvd'[1]
    BY <1>c, <2>6
  <2> QED BY <1>b, <2>1, <2>6, <2>7
<1>3. CASE ~(TakeBatch1 \/ Compare)
  <2>1. UNCHANGED <<matched, prevTime>>
    BY <1>3 DEF Next, Sender, Comparator, Done, vars, comparison, Send, Finish, EndOfSet1,
         NextChange, BatchDone, Lookup, ReadAhead, EndOfSet2, Leftover, DrainBatch,
         DrainEnd, WriteError, Join
  <2> QED BY <1>b, <1>c, <1>d, <2>1
<1> QED BY <1>1, <1>2, <1>3

\* Without a difference, every look-up so far found an equal value.
LEMMA NextForwardOK ==
  ASSUME TypeOK, PhaseOK, ProvenanceOK, ForwardOK, [Next]_vars
  PROVE  ForwardOK'
<1>a. stream' = stream
  BY StreamFixed
<1>b. /\ Changes(1)' = Changes(1)
      /\ \A c : HandleOf(1, c)' = HandleOf(1, c)
      /\ \A c, h : HasEqual(c, h)' <=> HasEqual(c, h)
  BY <1>a, StreamFacts, SideDef
<1>c. SUFFICES ASSUME ~hasDiff', ~hasDiff, NEW c \in Changes(1),
                      NEW m \in DOMAIN Mapping[HandleOf(1, c)], Compared(c, m)'
               PROVE  HasEqual(c, Mapping[HandleOf(1, c)][m])
  <2>1. hasDiff => hasDiff'
    BY DEF Next, Sender, Comparator, Done, vars, comparison, Send, Finish, TakeBatch1, EndOfSet1,
           NextChange, BatchDone, Lookup, ReadAhead, EndOfSet2, Compare, Leftover, DrainBatch,
           DrainEnd, WriteError, Join
  <2> QED BY <1>b, <2>1 DEF ForwardOK
<1>1. CASE Compared(c, m)
  BY <1>1, <1>c DEF ForwardOK
<1>2. CASE Compare /\ c = <<recvd[1], k>> /\ m = j
  <2>1. pc = "compare" /\ HasValue2 /\ <<Change1.value, Value2>> \in Close
    BY <1>2, <1>c DEF Compare, PairRows
  <2>2. /\ TimeOf(1, c) = T1 /\ ValueOf(1, c) = Change1.value
        /\ Mapping[HandleOf(1, c)][m] = Handle2
    BY <1>2, <2>1, CurrentChange
  <2>3. \E c2 \in Changes(2) : Gives(c2, T1, Handle2, Value2)
    BY <2>1 DEF ProvenanceOK, HasValue2, Value2, Key
  <2> QED BY <2>1, <2>2, <2>3 DEF Gives, HasEqual
<1> QED BY <1>1, <1>2, <1>c, ComparedStep

\* A received change leaves the buffer only matched or reported.
LEMMA NextNothingLost ==
  ASSUME TypeOK, PhaseOK, MatchedOK, NothingLost, [Next]_vars
  PROVE  NothingLost'
<1>a. stream' = stream
  BY StreamFixed
<1>b. /\ Changes(1)' = Changes(1) /\ Changes(2)' = Changes(2)
      /\ \A s, c : TimeOf(s, c)' = TimeOf(s, c) /\ HandleOf(s, c)' = HandleOf(s, c)
      /\ \A c1, c2 : Counterparts(c1, c2)' <=> Counterparts(c1, c2)
  BY <1>a, StreamFacts, SideDef
<1>c. /\ recvd[1] \in Nat /\ recvd'[1] \in Nat /\ recvd[1] <= recvd'[1]
      /\ recvd[2] \in Nat /\ recvd'[2] \in Nat /\ recvd[2] <= recvd'[2]
  BY ReceivedGrows, SideDef
<1>d. /\ \A c \in Changes(1) : c[1] \in Nat
      /\ \A c \in Changes(2) : c[1] \in Nat
  <2>1. DOMAIN stream[1] \in SUBSET Nat /\ DOMAIN stream[2] \in SUBSET Nat
    BY StreamType DEF TypeOK, ChannelsOK
  <2> QED BY <2>1, ChangesDef, SideDef
<1> DEFINE key(c) == <<TimeOf(2, c), HandleOf(2, c)>>
           Met(c) == \E c1 \in Changes(1) : c1[1] <= recvd[1] /\ Counterparts(c1, c)
           MetNow(c) == \E c1 \in Changes(1) : c1[1] <= recvd'[1] /\ Counterparts(c1, c)
<1>e. SUFFICES ASSUME NEW c2 \in Changes(2), c2[1] <= recvd'[2], HandleOf(2, c2) \in SignalMap2
               PROVE  key(c2) \in DOMAIN buffered2' \/ hasDiff' \/ MetNow(c2)
  BY <1>b DEF NothingLost
<1>f. Met(c2) => MetNow(c2)
  BY <1>c, <1>d
<1>g. c2[1] <= recvd[2] => key(c2) \in DOMAIN buffered2 \/ hasDiff \/ Met(c2)
  BY <1>e DEF NothingLost
<1>h. ASSUME key(c2) \in DOMAIN buffered2, key(c2) \notin DOMAIN Evicted(buffered2, prevTime, matched)
      PROVE  Met(c2)
  <2>1. PICK h \in matched : key(c2) = <<prevTime, h>>
    BY <1>h DEF Evicted
  <2>2. TimeOf(2, c2) = prevTime /\ HandleOf(2, c2) = h
    BY <2>1
  <2> QED BY <2>1, <2>2 DEF MatchedOK, Counterparts
<1>1. CASE TakeBatch1
  <2>1. recvd'[2] = recvd[2] /\ hasDiff' = hasDiff
    BY <1>1, SideDef DEF TakeBatch1, Receive, TypeOK, ChannelsOK
  <2>2. DOMAIN buffered2' = DOMAIN buffered2
        \/ DOMAIN buffered2' = DOMAIN Evicted(buffered2, prevTime, matched)
    BY <1>1 DEF TakeBatch1, EvictedAt
  <2> QED BY <1>e, <1>f, <1>g, <1>h, <2>1, <2>2
<1>2. CASE EndOfSet1
  <2>1. /\ recvd' = recvd /\ hasDiff' = hasDiff
        /\ buffered2' = Evicted(buffered2, prevTime, matched)
    BY <1>2 DEF EndOfSet1, channels
  <2> QED BY <1>e, <1>f, <1>g, <1>h, <2>1
<1>3. CASE ReadAhead
  <2>1. recvd'[2] = recvd[2] + 1 /\ hasDiff' = hasDiff
    BY <1>3, SideDef DEF ReadAhead, Receive, TypeOK, ChannelsOK
  <2>2. DOMAIN buffered2' = DOMAIN buffered2 \cup BatchKeys(NextBatch(2))
    BY <1>3 DEF ReadAhead, Inserted
  <2>3. CASE c2[1] = recvd[2] + 1
    <3>1. c2[2] \in DOMAIN NextBatch(2).changes
      BY <2>3, ChangesDef, SideDef DEF NextBatch
    <3>2. key(c2) \in BatchKeys(NextBatch(2))
      BY <2>3, <3>1 DEF BatchKeys, BatchHandles, TimeOf, HandleOf, NextBatch
    <3> QED BY <2>2, <3>2
  <2>4. CASE c2[1] # recvd[2] + 1
    BY <1>c, <1>d, <1>e, <1>f, <1>g, <2>1, <2>2, <2>4
  <2> QED BY <2>3, <2>4
<1>4. CASE DrainBatch
  <2>1. /\ recvd'[2] = recvd[2] + 1 /\ buffered2' = buffered2
        /\ hasDiff' = (hasDiff \/ DrainRows(NextBatch(2)) # {})
    BY <1>4, SideDef DEF DrainBatch, Receive, TypeOK, ChannelsOK
  <2>2. CASE c2[1] = recvd[2] + 1
    <3>1. /\ c2[2] \in DOMAIN NextBatch(2).changes
          /\ NextBatch(2).changes[c2[2]].handle \in SignalMap2
      BY <1>e, <2>2, ChangesDef, SideDef DEF NextBatch, HandleOf
    <3>2. DrainRows(NextBatch(2)) # {}
      BY <3>1 DEF DrainRows
    <3> QED BY <2>1, <3>2
  <2>3. CASE c2[1] # recvd[2] + 1
    <3>1. c2[1] <= recvd[2]
      BY <1>c, <1>d, <1>e, <2>1, <2>3
    <3>2. hasDiff \in BOOLEAN
      BY DEF TypeOK, ComparatorOK
    <3> QED BY <1>f, <1>g, <2>1, <3>1, <3>2
  <2> QED BY <2>2, <2>3
<1>5. CASE Leftover
  <2>1. recvd' = recvd /\ hasDiff' = (hasDiff \/ LeftoverRows # {})
    BY <1>5 DEF Leftover
  <2>2. CASE key(c2) \in DOMAIN buffered2
    <3>1. key(c2)[2] \in SignalMap2
      BY <1>e
    <3>2. LeftoverRows # {}
      BY <2>2, <3>1 DEF LeftoverRows
    <3> QED BY <2>1, <3>2
  <2>3. CASE key(c2) \notin DOMAIN buffered2
    BY <1>e, <1>f, <1>g, <2>1, <2>3
  <2> QED BY <2>2, <2>3
<1>6. CASE ~(TakeBatch1 \/ EndOfSet1 \/ ReadAhead \/ DrainBatch \/ Leftover)
  <2>1. recvd' = recvd /\ buffered2' = buffered2
    BY <1>6 DEF Next, Sender, Comparator, Done, vars, channels, comparison, Send, Finish,
         NextChange, BatchDone, Lookup, EndOfSet2, Compare, DrainEnd, WriteError, Join
  <2>2. hasDiff => hasDiff'
    BY <1>6 DEF Next, Sender, Comparator, Done, vars, comparison, Send, Finish,
         NextChange, BatchDone, Lookup, EndOfSet2, Compare, DrainEnd, WriteError, Join
  <2> QED BY <1>e, <1>f, <1>g, <2>1, <2>2
<1> QED BY <1>1, <1>2, <1>3, <1>4, <1>5, <1>6

\* The conjuncts together.
LEMMA NextIInv == IInv /\ [Next]_vars => IInv'
  BY NextTypeOK, NextPhaseOK, NextProvenanceOK, NextMatchedOK, NextForwardOK, NextNothingLost
  DEF IInv

\* So the invariant holds in every behaviour.
LEMMA SpecIInv == Spec => []IInv
  BY InitIInv, NextIInv, PTL DEF Spec

-------------------------------------------------------------------------------
(* The theorems. *)

\* A comparison result is only returned when no reader and no writer failed.
THEOREM ErrorsReported == Spec => []ErrorNeverHidden
<1>1. IInv => ErrorNeverHidden
  <2> SUFFICES ASSUME IInv, result \in {"same", "differ"} PROVE fails = {} /\ cmp = result
    BY DEF ErrorNeverHidden
  <2>1. result = JoinedResult /\ \A s \in Side : sender[s] # "running"
    BY DEF IInv, PhaseOK
  <2>2. cmp = result /\ \A s \in Side : sender[s] = "ok"
    BY <2>1 DEF JoinedResult, IInv, TypeOK, ChannelsOK
  <2>3. \A s \in Side : s \notin fails
    BY <2>2 DEF IInv, PhaseOK
  <2>4. fails \subseteq Side
    BY DiffAssumption DEF IInv, TypeOK, ChannelsOK
  <2> QED BY <2>2, <2>3, <2>4
<1> QED BY <1>1, SpecIInv, PTL

\* No received change of set 2 is lost without having been compared or reported.
THEOREM BufferComplete == Spec => []NothingLost
<1>1. IInv => NothingLost
  BY DEF IInv
<1> QED BY <1>1, SpecIInv, PTL

\* When wavediff answers "same", the two streams agree, change by change.
THEOREM SameSound == Spec => []SameIsSound
<1>1. IInv => SameIsSound
  <2> SUFFICES ASSUME IInv, result = "same" PROVE Agreement
    BY DEF SameIsSound
  <2>1. cmp = "same"
    BY DEF IInv, PhaseOK, JoinedResult
  <2>2. Closed(1) /\ Closed(2) /\ Caught /\ DOMAIN buffered2 = {} /\ ~hasDiff
    BY <2>1 DEF IInv, PhaseOK, Verdict
  <2>3. recvd[1] = Len(stream[1]) /\ recvd[2] = Len(stream[2])
    BY <2>2, SideDef DEF Closed, IInv, TypeOK, ChannelsOK
  <2>4. stream[1] \in Seq(Batch(Handles1)) /\ stream[2] \in Seq(Batch(Handles2))
    BY StreamType DEF IInv, TypeOK, ChannelsOK
  <2>5. ASSUME NEW c1 \in Changes(1), NEW h2 \in MappedTo(HandleOf(1, c1))
        PROVE  HasEqual(c1, h2)
    <3>1. c1[1] <= recvd[1]
      BY <2>3, <2>4, ChangesDef, SideDef
    <3>2. PICK m \in DOMAIN Mapping[HandleOf(1, c1)] : Mapping[HandleOf(1, c1)][m] = h2
      BY DEF MappedTo
    <3>3. Compared(c1, m)
      BY <2>2, <3>1, CaughtCompared DEF IInv
    <3> QED BY <2>2, <3>2, <3>3 DEF IInv, ForwardOK
  <2>6. ASSUME NEW c2 \in Changes(2), HandleOf(2, c2) \in SignalMap2
        PROVE  \E c1 \in Changes(1) : Counterparts(c1, c2)
    <3>1. c2[1] <= recvd[2]
      BY <2>3, <2>4, ChangesDef, SideDef
    <3> QED BY <2>2, <2>6, <3>1 DEF IInv, NothingLost
  <2> QED BY <2>5, <2>6 DEF Agreement, HasEqual
<1> QED BY <1>1, SpecIInv, PTL

-------------------------------------------------------------------------------
(* The refinement.  What is buffered of orderly streams is what was read   *)
(* of set 2, but for what was matched at an earlier time (StillBuffered),  *)
(* and a matched change is gone from the buffer once its time is over      *)
(* (Settled).  So a value that is missing when a pair is compared is       *)
(* missing in set 2 (Sought), and what is left over has no counterpart in  *)
(* set 1.                                                                  *)

KeyOf(c2) == <<TimeOf(2, c2), HandleOf(2, c2)>>
Read(c2)  == c2[1] <= recvd[2]
Returned  == pc \in {"returned", "joined"}

\* Change c2 is what change c1 is to be compared with for handle h2.
Target(c1, h2, c2) == TimeOf(2, c2) = TimeOf(1, c1) /\ HandleOf(2, c2) = h2
Lacking(c1, h2)    == \A c2 \in Changes(2) : ~Target(c1, h2, c2)
Unequal(c1, c2)    == <<ValueOf(1, c1), ValueOf(2, c2)>> \notin Close
Unmatched(c2) ==
  HandleOf(2, c2) \in SignalMap2 /\ \A c1 \in Changes(1) : ~Counterparts(c1, c2)

\* The differences, change by change.
OnlyIn1(c1, h2) == Row("only_1", TimeOf(1, c1), HandleOf(1, c1), h2, ValueOf(1, c1), NoValue)
NotEqual(c1, c2) ==
  Row("ne", TimeOf(1, c1), HandleOf(1, c1), HandleOf(2, c2), ValueOf(1, c1), ValueOf(2, c2))
OnlyIn2Of(c2) == OnlyIn2(TimeOf(2, c2), HandleOf(2, c2), ValueOf(2, c2))

IsDifference(d) ==
  \/ \E c1 \in Changes(1) : \E h2 \in MappedTo(HandleOf(1, c1)) :
       Lacking(c1, h2) /\ d = OnlyIn1(c1, h2)
  \/ \E c1 \in Changes(1), c2 \in Changes(2) :
       Counterparts(c1, c2) /\ Unequal(c1, c2) /\ d = NotEqual(c1, c2)
  \/ \E c2 \in Changes(2) : Unmatched(c2) /\ d = OnlyIn2Of(c2)

Report == {Difference(r) : r \in rows}

\* Row r is about change c1 and handle number m of its mapping; about change c2 of set 2.
OfPair(r, c1, m) ==
  /\ r.kind \in {"ne", "not_in_2", "missing_time"}
  /\ r.kind = "not_in_2" => \E c2 \in Changes(2) : TimeOf(2, c2) = r.time
  /\ r.time = TimeOf(1, c1) /\ r.h1 = HandleOf(1, c1) /\ r.h2 = Mapping[HandleOf(1, c1)][m]
OfChange2(r, c2) == r.kind = "only_2" /\ r.time = TimeOf(2, c2) /\ r.h2 = HandleOf(2, c2)

-------------------------------------------------------------------------------
(* What holds of all streams. *)

TimeKept == prevTime = IF recvd[1] = 0 THEN NoTime ELSE T1

VerdictKept ==
  /\ cmp # "error" => (hasDiff <=> rows # {})
  /\ cmp = "error" => WriterMayFail
  /\ pc = "returned" => cmp # "none"

SawTrue == pc \in {"read_ahead", "compare"} /\ sawTime => \E c2 \in Changes(2) : TimeOf(2, c2) = T1

BufferRead == \A key \in DOMAIN buffered2 : \E c2 \in Changes(2) : Read(c2) /\ KeyOf(c2) = key

RowOrigins ==
  \A r \in rows :
    \/ \E c1 \in Changes(1) : \E m \in DOMAIN Mapping[HandleOf(1, c1)] :
         OfPair(r, c1, m) /\ (Compared(c1, m) \/ Returned)
    \/ /\ pc = "drain" \/ Returned
       /\ \E c2 \in Changes(2) : OfChange2(r, c2) /\ (Read(c2) \/ Returned)

-------------------------------------------------------------------------------
(* What holds of orderly streams. *)

StillBuffered ==
  pc \notin {"drain", "returned", "joined"} =>
    \A c2 \in Changes(2) : Read(c2) =>
      \/ KeyOf(c2) \in DOMAIN buffered2
      \/ \E c1 \in Changes(1) : Counterparts(c1, c2) /\ (TimeOf(1, c1) < prevTime \/ pc = "leftover")

Settled ==
  \A c1 \in Changes(1) : \A m \in DOMAIN Mapping[HandleOf(1, c1)] : Compared(c1, m) =>
    \A c2 \in Changes(2) : Target(c1, Mapping[HandleOf(1, c1)][m], c2) =>
      /\ Read(c2)
      /\ \/ KeyOf(c2) \notin DOMAIN buffered2
         \/ pc # "leftover" /\ TimeOf(2, c2) = prevTime /\ HandleOf(2, c2) \in matched

Sought ==
  /\ pc = "read_ahead" => Key \notin DOMAIN buffered2
  /\ pc = "compare" => IF HasValue2 THEN Key \in DOMAIN buffered2
                                    ELSE Lacking(<<recvd[1], k>>, Handle2)

PairsReported ==
  cmp # "error" =>
    \A c1 \in Changes(1) : \A m \in DOMAIN Mapping[HandleOf(1, c1)] : Compared(c1, m) =>
      LET h2 == Mapping[HandleOf(1, c1)][m] IN
      /\ Lacking(c1, h2) => OnlyIn1(c1, h2) \in Report
      /\ \A c2 \in Changes(2) : Target(c1, h2, c2) /\ Unequal(c1, c2) => NotEqual(c1, c2) \in Report

LeftoversReported ==
  pc = "drain" \/ cmp \in {"same", "differ"} =>
    \A c2 \in Changes(2) : Read(c2) /\ Unmatched(c2) => OnlyIn2Of(c2) \in Report

RowsExpected == \A d \in Report : IsDifference(d)

OrderlyInv ==
  StillBuffered /\ Settled /\ Sought /\ PairsReported /\ LeftoversReported /\ RowsExpected

RInv ==
  /\ TimeKept /\ VerdictKept /\ SawTrue /\ BufferRead /\ RowOrigins
  /\ Orderly => OrderlyInv

-------------------------------------------------------------------------------
(* The streams. *)

\* The parts of a change of set 2 have their types.
LEMMA Change2Types ==
  ASSUME TypeOK, NEW c \in Changes(2)
  PROVE  /\ TimeOf(2, c) \in Nat /\ HandleOf(2, c) \in Handles2 /\ ValueOf(2, c) \in Values
         /\ c[1] \in 1..Len(stream[2]) /\ Len(stream[2]) \in Nat
<1>1. c[1] \in DOMAIN stream[2] /\ c[2] \in DOMAIN stream[2][c[1]].changes
  BY ChangesDef, SideDef
<1>2. stream[2] \in Seq(Batch(Handles2))
  BY StreamType DEF TypeOK, ChannelsOK
<1>3. stream[2][c[1]] \in Batch(Handles2)
  BY <1>1, <1>2
<1>4. stream[2][c[1]].time \in Nat /\ stream[2][c[1]].changes \in Seq(Change(Handles2))
  BY <1>3 DEF Batch
<1>5. stream[2][c[1]].changes[c[2]] \in Change(Handles2)
  BY <1>1, <1>4
<1> QED BY <1>1, <1>2, <1>4, <1>5 DEF Change, TimeOf, HandleOf, ValueOf

\* Of an orderly stream, later batches have no earlier times, and a signal changes at
\* most once at a time.
LEMMA OrderFacts ==
  ASSUME Orderly, NEW s \in Side
  PROVE  /\ \A m, n \in DOMAIN stream[s] : m < n => stream[s][m].time <= stream[s][n].time
         /\ \A c, d \in Changes(s) :
              TimeOf(s, c) = TimeOf(s, d) /\ HandleOf(s, c) = HandleOf(s, d) => c = d
<1>1. InOrder(stream[s])
  BY DEF Orderly, OrderlyInputs
<1>2. ASSUME NEW c \in Changes(s), NEW d \in Changes(s),
             TimeOf(s, c) = TimeOf(s, d), HandleOf(s, c) = HandleOf(s, d)
      PROVE  c = d
  <2>1. /\ c = <<c[1], c[2]>> /\ c[1] \in DOMAIN stream[s] /\ c[2] \in DOMAIN stream[s][c[1]].changes
        /\ d = <<d[1], d[2]>> /\ d[1] \in DOMAIN stream[s] /\ d[2] \in DOMAIN stream[s][d[1]].changes
    BY ChangesDef
  <2>2. stream[s][c[1]].time = stream[s][d[1]].time
    BY <1>2 DEF TimeOf
  <2>3. stream[s][c[1]].changes[c[2]].handle = stream[s][d[1]].changes[d[2]].handle
    BY <1>2 DEF HandleOf
  <2> QED BY <1>1, <2>1, <2>2, <2>3 DEF InOrder
<1> QED BY <1>1, <1>2 DEF InOrder

\* The counterpart of a change under handle number m of its mapping.
LEMMA TargetCounterpart ==
  ASSUME NEW c1 \in Changes(1), NEW c2 \in Changes(2)
  PROVE  Counterparts(c1, c2) <=>
           \E m \in DOMAIN Mapping[HandleOf(1, c1)] : Target(c1, Mapping[HandleOf(1, c1)][m], c2)
  BY DEF Counterparts, Target, MappedTo

\* The facts of a stream are its changes.
Tells(s, c, f) == f[1] = TimeOf(s, c) /\ f[2] = HandleOf(s, c) /\ f[3] = ValueOf(s, c)

LEMMA FactsAreChanges ==
  ASSUME NEW s \in Side
  PROVE  /\ \A f \in Facts(stream[s]) : \E c \in Changes(s) : Tells(s, c, f)
         /\ \A c \in Changes(s) : \E f \in Facts(stream[s]) : Tells(s, c, f)
<1>1. ASSUME NEW f \in Facts(stream[s]) PROVE \E c \in Changes(s) : Tells(s, c, f)
  <2>1. PICK n \in DOMAIN stream[s] : \E i \in DOMAIN stream[s][n].changes :
          f = <<stream[s][n].time, stream[s][n].changes[i].handle, stream[s][n].changes[i].value>>
    BY DEF Facts
  <2>2. PICK i \in DOMAIN stream[s][n].changes :
          f = <<stream[s][n].time, stream[s][n].changes[i].handle, stream[s][n].changes[i].value>>
    BY <2>1
  <2>3. <<n, i>> \in Changes(s)
    BY ChangesDef
  <2> QED BY <2>2, <2>3 DEF TimeOf, HandleOf, ValueOf, Tells
<1>2. ASSUME NEW c \in Changes(s) PROVE \E f \in Facts(stream[s]) : Tells(s, c, f)
  <2>1. <<TimeOf(s, c), HandleOf(s, c), ValueOf(s, c)>> \in Facts(stream[s])
    BY ChangesDef DEF Facts, TimeOf, HandleOf, ValueOf
  <2> QED BY <2>1 DEF Tells
<1> QED BY <1>1, <1>2

\* The differences of the facts of the two streams are the differences of their changes.
LEMMA ExpectedChanges ==
  ASSUME TypeOK
  PROVE  \A d : d \in Expected[stream] <=> IsDifference(d)
<1> DEFINE F1 == Facts(stream[1])
           F2 == Facts(stream[2])
           At(t, h) == {f \in F2 : f[1] = t /\ f[2] = h}
           Only1(d) == \E f \in F1 : \E h2 \in MappedTo(f[2]) :
                         At(f[1], h2) = {} /\ d = Row("only_1", f[1], f[2], h2, f[3], NoValue)
           Differ(d) == \E f \in F1 : \E g \in F2 :
                          /\ g[1] = f[1] /\ g[2] \in MappedTo(f[2]) /\ <<f[3], g[3]>> \notin Close
                          /\ d = Row("ne", f[1], f[2], g[2], f[3], g[3])
           Only2(d) == \E g \in F2 : /\ g[2] \in SignalMap2
                                     /\ \A f \in F1 : f[1] = g[1] => g[2] \notin MappedTo(f[2])
                                     /\ d = OnlyIn2(g[1], g[2], g[3])
<1>1. Expected[stream] = Differences(F1, F2)
  BY DEF Expected, TypeOK, ChannelsOK
<1>2. ASSUME NEW d PROVE d \in Differences(F1, F2) <=> Only1(d) \/ Differ(d) \/ Only2(d)
  <2> HIDE DEF F1, F2
  <2>1. d \in UNION {{Row("only_1", f[1], f[2], h2, f[3], NoValue) :
                         h2 \in {h \in MappedTo(f[2]) : At(f[1], h) = {}}} : f \in F1}
        <=> Only1(d)
    <3> DEFINE Rows(f) == {Row("only_1", f[1], f[2], h2, f[3], NoValue) :
                             h2 \in {h \in MappedTo(f[2]) : At(f[1], h) = {}}}
    <3>1. \A f : d \in Rows(f) <=> \E h2 \in MappedTo(f[2]) :
            At(f[1], h2) = {} /\ d = Row("only_1", f[1], f[2], h2, f[3], NoValue)
      <4> HIDE DEF At
      <4> QED OBVIOUS
    <3>2. d \in UNION {Rows(f) : f \in F1} <=> \E f \in F1 : d \in Rows(f)
      <4> HIDE DEF Rows
      <4> QED OBVIOUS
    <3> HIDE DEF Rows, At
    <3>3. d \in UNION {Rows(f) : f \in F1} <=> Only1(d)
      BY <3>1, <3>2
    <3> QED BY <3>3 DEF Rows
  <2>2. d \in UNION {{Row("ne", f[1], f[2], g[2], f[3], g[3]) :
                         g \in {e \in F2 : /\ e[1] = f[1] /\ e[2] \in MappedTo(f[2])
                                           /\ <<f[3], e[3]>> \notin Close}} : f \in F1}
        <=> Differ(d)
    OBVIOUS
  <2>3. d \in {OnlyIn2(g[1], g[2], g[3]) :
                 g \in {e \in F2 : /\ e[2] \in SignalMap2
                                   /\ \A f \in F1 : f[1] = e[1] => e[2] \notin MappedTo(f[2])}}
        <=> Only2(d)
    OBVIOUS
  <2> HIDE DEF Only1, Differ, Only2
  <2> QED BY <2>1, <2>2, <2>3 DEF Differences
<1>3. /\ \A f \in F1 : \E c \in Changes(1) : Tells(1, c, f)
      /\ \A c \in Changes(1) : \E f \in F1 : Tells(1, c, f)
      /\ \A f \in F2 : \E c \in Changes(2) : Tells(2, c, f)
      /\ \A c \in Changes(2) : \E f \in F2 : Tells(2, c, f)
  BY FactsAreChanges, SideDef
<1> HIDE DEF F1, F2
<1>4. ASSUME NEW c1, NEW h2 PROVE Lacking(c1, h2) <=> At(TimeOf(1, c1), h2) = {}
  BY <1>3 DEF Lacking, Target, Tells
<1>5. ASSUME NEW d
      PROVE  Only1(d) <=> \E c1 \in Changes(1) : \E h2 \in MappedTo(HandleOf(1, c1)) :
                            Lacking(c1, h2) /\ d = OnlyIn1(c1, h2)
  <2> HIDE DEF At
  <2> DEFINE Only1Change(c1, h2) == Lacking(c1, h2) /\ d = OnlyIn1(c1, h2)
  <2>1. ASSUME NEW f \in F1, NEW c1 \in Changes(1), Tells(1, c1, f), NEW h2
        PROVE  /\ MappedTo(f[2]) = MappedTo(HandleOf(1, c1))
               /\ At(f[1], h2) = {} <=> Lacking(c1, h2)
               /\ Row("only_1", f[1], f[2], h2, f[3], NoValue) = OnlyIn1(c1, h2)
    BY <1>4, <2>1 DEF Tells, OnlyIn1
  <2>2. ASSUME Only1(d)
        PROVE  \E c1 \in Changes(1) : \E h2 \in MappedTo(HandleOf(1, c1)) : Only1Change(c1, h2)
    <3>1. PICK f \in F1 : \E h2 \in MappedTo(f[2]) :
            At(f[1], h2) = {} /\ d = Row("only_1", f[1], f[2], h2, f[3], NoValue)
      BY <2>2
    <3>2. PICK c1 \in Changes(1) : Tells(1, c1, f)
      BY <1>3
    <3> QED BY <2>1, <3>1, <3>2
  <2>3. ASSUME NEW c1 \in Changes(1), NEW h2 \in MappedTo(HandleOf(1, c1)), Only1Change(c1, h2)
        PROVE  Only1(d)
    <3>1. PICK f \in F1 : Tells(1, c1, f)
      BY <1>3
    <3> QED BY <2>1, <2>3, <3>1
  <2> QED BY <2>2, <2>3
<1>6. ASSUME NEW d
      PROVE  Differ(d) <=> \E c1 \in Changes(1), c2 \in Changes(2) :
                             Counterparts(c1, c2) /\ Unequal(c1, c2) /\ d = NotEqual(c1, c2)
  <2>1. ASSUME NEW f \in F1, NEW c1 \in Changes(1), Tells(1, c1, f),
               NEW g \in F2, NEW c2 \in Changes(2), Tells(2, c2, g)
        PROVE  /\ g[1] = f[1] /\ g[2] \in MappedTo(f[2]) <=> Counterparts(c1, c2)
               /\ <<f[3], g[3]>> \notin Close <=> Unequal(c1, c2)
               /\ Row("ne", f[1], f[2], g[2], f[3], g[3]) = NotEqual(c1, c2)
    BY <2>1 DEF Tells, NotEqual, Counterparts, Unequal
  <2>2. ASSUME Differ(d)
        PROVE  \E c1 \in Changes(1), c2 \in Changes(2) :
                 Counterparts(c1, c2) /\ Unequal(c1, c2) /\ d = NotEqual(c1, c2)
    <3>1. PICK f \in F1, g \in F2 :
            /\ g[1] = f[1] /\ g[2] \in MappedTo(f[2]) /\ <<f[3], g[3]>> \notin Close
            /\ d = Row("ne", f[1], f[2], g[2], f[3], g[3])
      BY <2>2
    <3>2. PICK c1 \in Changes(1), c2 \in Changes(2) : Tells(1, c1, f) /\ Tells(2, c2, g)
      BY <1>3
    <3> QED BY <2>1, <3>1, <3>2
  <2>3. ASSUME NEW c1 \in Changes(1), NEW c2 \in Changes(2),
               Counterparts(c1, c2), Unequal(c1, c2), d = NotEqual(c1, c2)
        PROVE  Differ(d)
    <3>1. PICK f \in F1, g \in F2 : Tells(1, c1, f) /\ Tells(2, c2, g)
      BY <1>3
    <3> QED BY <2>1, <2>3, <3>1
  <2> QED BY <2>2, <2>3
<1>7. ASSUME NEW d PROVE Only2(d) <=> \E c2 \in Changes(2) : Unmatched(c2) /\ d = OnlyIn2Of(c2)
  <2>1. ASSUME NEW g \in F2, NEW c2 \in Changes(2), Tells(2, c2, g)
        PROVE  /\ g[2] \in SignalMap2
                  /\ (\A f \in F1 : f[1] = g[1] => g[2] \notin MappedTo(f[2])) <=> Unmatched(c2)
               /\ OnlyIn2(g[1], g[2], g[3]) = OnlyIn2Of(c2)
    <3>1. g[1] = TimeOf(2, c2) /\ g[2] = HandleOf(2, c2) /\ g[3] = ValueOf(2, c2)
      BY <2>1 DEF Tells
    <3>2. (\A f \in F1 : f[1] = g[1] => g[2] \notin MappedTo(f[2]))
          <=> \A c1 \in Changes(1) : ~Counterparts(c1, c2)
      BY <1>3, <3>1 DEF Tells, Counterparts
    <3> QED BY <3>1, <3>2 DEF Unmatched, OnlyIn2Of
  <2> QED BY <1>3, <2>1
<1> HIDE DEF Only1, Differ, Only2
<1> QED BY <1>1, <1>2, <1>5, <1>6, <1>7 DEF IsDifference

\* What is said of the differences stays, as the streams do.
LEMMA DifferenceFacts ==
  ASSUME stream' = stream
  PROVE  /\ Orderly' <=> Orderly
         /\ \A c1, h, c2 : Target(c1, h, c2)' <=> Target(c1, h, c2)
         /\ \A c1, h : Lacking(c1, h)' <=> Lacking(c1, h)
         /\ \A c1, c2 : Unequal(c1, c2)' <=> Unequal(c1, c2)
         /\ \A c2 : (Unmatched(c2)' <=> Unmatched(c2)) /\ KeyOf(c2)' = KeyOf(c2)
         /\ \A c1, h : OnlyIn1(c1, h)' = OnlyIn1(c1, h)
         /\ \A c1, c2 : NotEqual(c1, c2)' = NotEqual(c1, c2)
         /\ \A c2 : OnlyIn2Of(c2)' = OnlyIn2Of(c2)
         /\ \A d : IsDifference(d)' <=> IsDifference(d)
<1>1. /\ Changes(1)' = Changes(1) /\ Changes(2)' = Changes(2)
      /\ \A s, c : TimeOf(s, c)' = TimeOf(s, c) /\ HandleOf(s, c)' = HandleOf(s, c)
                                              /\ ValueOf(s, c)' = ValueOf(s, c)
      /\ \A c1, c2 : Counterparts(c1, c2)' <=> Counterparts(c1, c2)
  BY StreamFacts, SideDef
<1>2. Orderly' <=> Orderly
  BY DEF Orderly
<1>3. \A c1, h, c2 : Target(c1, h, c2)' <=> Target(c1, h, c2)
  BY <1>1 DEF Target
<1>4. \A c1, h : Lacking(c1, h)' <=> Lacking(c1, h)
  BY <1>1, <1>3 DEF Lacking
<1>5. \A c1, c2 : Unequal(c1, c2)' <=> Unequal(c1, c2)
  BY <1>1 DEF Unequal
<1>6. \A c2 : (Unmatched(c2)' <=> Unmatched(c2)) /\ KeyOf(c2)' = KeyOf(c2)
  BY <1>1 DEF Unmatched, KeyOf
<1>7. /\ \A c1, h : OnlyIn1(c1, h)' = OnlyIn1(c1, h)
      /\ \A c1, c2 : NotEqual(c1, c2)' = NotEqual(c1, c2)
      /\ \A c2 : OnlyIn2Of(c2)' = OnlyIn2Of(c2)
  BY <1>1 DEF OnlyIn1, NotEqual, OnlyIn2Of, Row, OnlyIn2
<1>8. \A d : IsDifference(d)' <=> IsDifference(d)
  BY <1>1, <1>4, <1>5, <1>6, <1>7 DEF IsDifference, MappedTo
<1> QED BY <1>2, <1>3, <1>4, <1>5, <1>6, <1>7, <1>8

-------------------------------------------------------------------------------
(* What holds of all streams is kept by every step. *)

\* The time of the last batch taken from set 1 is kept.
LEMMA NextTimeKept == ASSUME TypeOK, TimeKept, [Next]_vars PROVE TimeKept'
<1>1. stream' = stream
  BY StreamFixed
<1>2. CASE TakeBatch1
  <2>1. recvd[1] \in Nat /\ recvd'[1] = recvd[1] + 1 /\ prevTime' = NextBatch(1).time
    BY <1>2, SideDef DEF TakeBatch1, Receive, TypeOK, ChannelsOK
  <2> QED BY <1>1, <2>1 DEF TimeKept, T1, Batch1, NextBatch
<1>3. CASE ~TakeBatch1
  <2>1. recvd'[1] = recvd[1] /\ prevTime' = prevTime
    BY <1>3, SideDef DEF Next, Sender, Comparator, Done, vars, channels, comparison, Send, Finish,
         EndOfSet1, NextChange, BatchDone, Lookup, ReadAhead, EndOfSet2, Compare, Leftover,
         DrainBatch, DrainEnd, WriteError, Join, Receive, TypeOK, ChannelsOK
  <2> QED BY <1>1, <2>1 DEF TimeKept, T1, Batch1
<1> QED BY <1>2, <1>3

\* A step writes rows that are due, and takes none back.
LEMMA RowsStep ==
  ASSUME [Next]_vars
  PROVE  /\ rows \subseteq rows' /\ rows' \subseteq rows \cup RowsDue
         /\ rows' # rows => pc \in {"compare", "leftover", "drain"}
<1>1. CASE Compare \/ Leftover
  BY <1>1 DEF Compare, Leftover, RowsDue
<1>2. CASE DrainBatch
  BY <1>2 DEF DrainBatch, RowsDue
<1>3. CASE WriteError
  <2>1. PICK part \in SUBSET RowsDue : rows' = rows \cup part
    BY <1>3 DEF WriteError
  <2>2. pc \in {"compare", "leftover", "drain"}
    BY <1>3 DEF WriteError, RowsDue
  <2> QED BY <2>1, <2>2
<1>4. CASE ~(Compare \/ Leftover \/ DrainBatch \/ WriteError)
  <2>1. rows' = rows
    BY <1>4 DEF Next, Sender, Comparator, Done, vars, comparison, Send, Finish, TakeBatch1,
         EndOfSet1, NextChange, BatchDone, Lookup, ReadAhead, EndOfSet2, DrainEnd, Join
  <2> QED BY <2>1
<1> QED BY <1>1, <1>2, <1>3, <1>4

\* A difference is known exactly when a row was written.
LEMMA NextVerdictKept == ASSUME TypeOK, PhaseOK, VerdictKept, [Next]_vars PROVE VerdictKept'
<1> USE DEF VerdictKept
<1>1. CASE Compare
  BY <1>1 DEF Compare, PhaseOK
<1>2. CASE Leftover
  <2>1. hasDiff' = (hasDiff \/ LeftoverRows # {}) /\ rows' = rows \cup LeftoverRows
    BY <1>2 DEF Leftover
  <2>2. cmp = "none" /\ cmp' \in {"none", "same", "differ"}
    BY <1>2 DEF Leftover, PhaseOK, Verdict
  <2>3. pc' = "returned" => cmp' # "none"
    BY <1>2 DEF Leftover, Verdict
  <2> QED BY <2>1, <2>2, <2>3
<1>3. CASE DrainBatch
  BY <1>3 DEF DrainBatch, PhaseOK
<1>4. CASE DrainEnd
  BY <1>4 DEF DrainEnd, PhaseOK, Verdict, comparison
<1>5. CASE WriteError
  BY <1>5 DEF WriteError
<1>6. CASE ~(Compare \/ Leftover \/ DrainBatch \/ DrainEnd \/ WriteError)
  <2>1. UNCHANGED <<hasDiff, rows, cmp>> /\ (pc' = "returned" => pc = "returned")
    BY <1>6 DEF Next, Sender, Comparator, Done, vars, comparison, Send, Finish, TakeBatch1,
         EndOfSet1, NextChange, BatchDone, Lookup, ReadAhead, EndOfSet2, Join
  <2> QED BY <2>1
<1> QED BY <1>1, <1>2, <1>3, <1>4, <1>5, <1>6

\* A time was seen in set 2 only when a batch of set 2 has it, and with it a change.
LEMMA NextSawTrue == ASSUME TypeOK, SawTrue, [Next]_vars PROVE SawTrue'
<1>a. stream' = stream
  BY StreamFixed
<1>b. Changes(2)' = Changes(2) /\ \A c : TimeOf(2, c)' = TimeOf(2, c)
  BY <1>a, StreamFacts, SideDef
<1>1. CASE ReadAhead
  <2>1. T1' = T1 /\ pc = "read_ahead"
    BY <1>1, <1>a, SideDef DEF ReadAhead, Receive, T1, Batch1, TypeOK, ChannelsOK
  <2>2. CASE sawTime
    BY <1>b, <2>1, <2>2 DEF SawTrue
  <2>3. CASE sawTime' /\ ~sawTime
    <3>1. NextBatch(2).time = T1
      BY <1>1, <2>3 DEF ReadAhead, AtTime
    <3>2. /\ NextBatch(2).changes \in Seq(Change(Handles2)) /\ recvd[2] + 1 \in DOMAIN stream[2]
      BY <1>1, NextBatch2Type DEF ReadAhead, TypeOK
    <3>3. NextBatch(2).changes # << >>
      BY <3>2, BatchesNotEmpty, SideDef DEF NextBatch, TypeOK, ChannelsOK
    <3>4. 1 \in DOMAIN stream[2][recvd[2] + 1].changes
      BY <3>2, <3>3 DEF NextBatch
    <3>5. <<recvd[2] + 1, 1>> \in Changes(2)
      BY <3>2, <3>4, ChangesDef, SideDef
    <3>6. TimeOf(2, <<recvd[2] + 1, 1>>) = T1
      BY <3>1 DEF TimeOf, NextBatch
    <3> QED BY <1>b, <2>1, <3>5, <3>6 DEF SawTrue
  <2> QED BY <2>2, <2>3 DEF SawTrue
<1>2. CASE Lookup
  BY <1>2 DEF Lookup, SawTrue
<1>3. CASE ~(ReadAhead \/ Lookup)
  <2>1. pc' \in {"read_ahead", "compare"} =>
          pc \in {"read_ahead", "compare"} /\ sawTime' = sawTime /\ recvd'[1] = recvd[1]
    BY <1>3, SideDef DEF Next, Sender, Comparator, Done, vars, channels, cursor, Send, Finish,
         TakeBatch1, EndOfSet1, NextChange, BatchDone, EndOfSet2, Compare, Leftover,
         DrainBatch, DrainEnd, WriteError, Join, Receive, TypeOK, ChannelsOK
  <2>2. pc' \in {"read_ahead", "compare"} => T1' = T1
    BY <1>a, <2>1 DEF T1, Batch1
  <2> QED BY <1>b, <2>1, <2>2 DEF SawTrue
<1> QED BY <1>1, <1>2, <1>3

\* What is buffered was read.
LEMMA NextBufferRead == ASSUME TypeOK, BufferRead, [Next]_vars PROVE BufferRead'
<1>a. stream' = stream
  BY StreamFixed
<1>b. Changes(2)' = Changes(2) /\ \A c : KeyOf(c)' = KeyOf(c)
  BY <1>a, StreamFacts, DifferenceFacts, SideDef
<1>c. \A c \in Changes(2) : Read(c) => Read(c)'
  BY ReceivedGrows, Change2Types, SideDef DEF Read
<1>d. SUFFICES ASSUME NEW key \in DOMAIN buffered2', key \notin DOMAIN buffered2
               PROVE  \E c2 \in Changes(2) : Read(c2)' /\ KeyOf(c2) = key
  BY <1>b, <1>c DEF BufferRead
<1>1. CASE ReadAhead
  <2>1. key \in BatchKeys(NextBatch(2))
    BY <1>1, <1>d DEF ReadAhead, Inserted
  <2>2. PICK i \in DOMAIN NextBatch(2).changes :
          key = <<NextBatch(2).time, NextBatch(2).changes[i].handle>>
    BY <2>1 DEF BatchKeys, BatchHandles
  <2>3. recvd[2] + 1 \in DOMAIN stream[2] /\ recvd[2] \in Nat /\ recvd'[2] = recvd[2] + 1
    BY <1>1, NextBatch2Type, SideDef DEF ReadAhead, Receive, TypeOK, ChannelsOK
  <2>4. PICK c2 \in Changes(2) : c2 = <<recvd[2] + 1, i>>
    BY <2>2, <2>3, ChangesDef, SideDef DEF NextBatch
  <2>5. KeyOf(c2) = key
    BY <2>2, <2>4 DEF KeyOf, TimeOf, HandleOf, NextBatch
  <2>6. Read(c2)'
    BY <2>3, <2>4 DEF Read
  <2> QED BY <2>5, <2>6
<1>2. CASE ~ReadAhead
  <2>1. DOMAIN Evicted(buffered2, prevTime, matched) \subseteq DOMAIN buffered2
    BY DEF Evicted
  <2>2. DOMAIN buffered2' \subseteq DOMAIN buffered2
    BY <1>2, <2>1 DEF Next, Sender, Comparator, Done, vars, comparison, Send, Finish, TakeBatch1,
         EvictedAt, EndOfSet1, NextChange, BatchDone, Lookup, EndOfSet2, Compare, Leftover,
         DrainBatch, DrainEnd, WriteError, Join
  <2> QED BY <1>d, <2>2
<1> QED BY <1>1, <1>2

\* What the rows that are due are about.
LEMMA DueOrigins ==
  ASSUME TypeOK, PhaseOK, ProvenanceOK, SawTrue, BufferRead, NEW r \in RowsDue
  PROVE  \/ pc = "compare" /\ OfPair(r, <<recvd[1], k>>, j)
         \/ pc = "leftover" /\ \E c2 \in Changes(2) : OfChange2(r, c2) /\ Read(c2)
         \/ /\ pc = "drain" /\ HasNext(2)
            /\ \E c2 \in Changes(2) : OfChange2(r, c2) /\ c2[1] = recvd[2] + 1
<1>1. CASE pc = "compare"
  <2>1. r \in PairRows
    BY <1>1 DEF RowsDue
  <2>2. /\ r.kind \in {"ne", "not_in_2", "missing_time"} /\ (r.kind = "not_in_2" => sawTime)
        /\ r.time = T1 /\ r.h1 = Change1.handle /\ r.h2 = Handle2
    BY <2>1 DEF PairRows, Row
  <2> QED BY <1>1, <2>2, CurrentChange DEF OfPair, SawTrue
<1>2. CASE pc = "leftover"
  <2>1. PICK key \in DOMAIN buffered2 : r = OnlyIn2(key[1], key[2], buffered2[key])
    BY <1>2 DEF RowsDue, LeftoverRows
  <2>2. PICK c2 \in Changes(2) : Read(c2) /\ KeyOf(c2) = key
    BY DEF BufferRead
  <2> QED BY <1>2, <2>1, <2>2 DEF OfChange2, KeyOf, OnlyIn2, Row
<1>3. CASE pc = "drain" /\ HasNext(2)
  <2>1. PICK i \in DOMAIN NextBatch(2).changes :
          r = OnlyIn2(NextBatch(2).time, NextBatch(2).changes[i].handle, NextBatch(2).changes[i].value)
    BY <1>3 DEF RowsDue, DrainRows
  <2>2. PICK c2 \in Changes(2) : c2 = <<recvd[2] + 1, i>>
    BY <1>3, <2>1, NextBatch2Type, ChangesDef, SideDef DEF NextBatch, TypeOK
  <2> QED BY <1>3, <2>1, <2>2 DEF OfChange2, OnlyIn2, Row, TimeOf, HandleOf, NextBatch
<1> QED BY <1>1, <1>2, <1>3 DEF RowsDue

\* Every row is about a pair that was compared, or a change of set 2 that was read.
LEMMA NextRowOrigins ==
  ASSUME TypeOK, PhaseOK, ProvenanceOK, SawTrue, BufferRead, RowOrigins, [Next]_vars
  PROVE  RowOrigins'
<1>a. stream' = stream
  BY StreamFixed
<1>b. /\ Changes(1)' = Changes(1) /\ Changes(2)' = Changes(2)
      /\ \A s, c : TimeOf(s, c)' = TimeOf(s, c) /\ HandleOf(s, c)' = HandleOf(s, c)
  BY <1>a, StreamFacts, SideDef
<1>c. \A r, c1, m, c2 : (OfPair(r, c1, m)' <=> OfPair(r, c1, m)) /\ (OfChange2(r, c2)' <=> OfChange2(r, c2))
  BY <1>b DEF OfPair, OfChange2
<1>d. \A c \in Changes(2) : Read(c) => Read(c)'
  BY ReceivedGrows, Change2Types, SideDef DEF Read
<1>e. /\ Returned => Returned'
      /\ pc = "drain" => pc' = "drain" \/ Returned'
  BY DEF Returned, Next, Sender, Comparator, Done, vars, Send, Finish, TakeBatch1, EndOfSet1,
         NextChange, BatchDone, Lookup, ReadAhead, EndOfSet2, Compare, Leftover, DrainBatch,
         DrainEnd, WriteError, Join
<1>f. SUFFICES ASSUME NEW r \in rows'
      PROVE  \/ \E c1 \in Changes(1) : \E m \in DOMAIN Mapping[HandleOf(1, c1)] :
                  OfPair(r, c1, m) /\ (Compared(c1, m)' \/ Returned')
             \/ /\ pc' = "drain" \/ Returned'
                /\ \E c2 \in Changes(2) : OfChange2(r, c2) /\ (Read(c2)' \/ Returned')
  BY <1>b, <1>c DEF RowOrigins
<1>1. CASE r \in rows
  <2>1. CASE \E c1 \in Changes(1) : \E m \in DOMAIN Mapping[HandleOf(1, c1)] :
               OfPair(r, c1, m) /\ (Compared(c1, m) \/ Returned)
    BY <1>e, <2>1, ComparedStep
  <2>2. CASE /\ pc = "drain" \/ Returned
             /\ \E c2 \in Changes(2) : OfChange2(r, c2) /\ (Read(c2) \/ Returned)
    BY <1>d, <1>e, <2>2
  <2> QED BY <1>1, <2>1, <2>2 DEF RowOrigins
<1>2. CASE r \notin rows
  <2>1. r \in RowsDue /\ rows' # rows
    BY <1>2, <1>f, RowsStep
  <2>2. CASE pc = "compare" /\ OfPair(r, <<recvd[1], k>>, j)
    <3>1. PICK c1 \in Changes(1) : c1 = <<recvd[1], k>> /\ j \in DOMAIN Mapping[HandleOf(1, c1)]
      BY <2>2, CurrentChange
    <3>a. PICK m \in DOMAIN Mapping[HandleOf(1, c1)] : m = j
      BY <3>1
    <3>2. Compare \/ WriteError
      BY <2>1, <2>2 DEF Next, Sender, Comparator, Done, vars, comparison, Send, Finish, TakeBatch1,
         EndOfSet1, NextChange, BatchDone, Lookup, ReadAhead, EndOfSet2, Leftover, DrainBatch,
         DrainEnd, Join
    <3>3. Compare => Compared(c1, m)'
      <4> SUFFICES ASSUME Compare PROVE Compared(c1, m)'
        OBVIOUS
      <4>1. recvd' = recvd /\ k' = k /\ j' = j + 1 /\ j \in Nat
        BY DEF Compare, channels, TypeOK, ComparatorOK
      <4> QED BY <3>1, <3>a, <4>1 DEF Compared
    <3>4. WriteError => Returned'
      BY DEF WriteError, Returned
    <3>5. OfPair(r, c1, m)
      BY <2>2, <3>1, <3>a
    <3> QED BY <3>2, <3>3, <3>4, <3>5
  <2>3. CASE pc = "leftover" /\ \E c2 \in Changes(2) : OfChange2(r, c2) /\ Read(c2)
    <3>1. pc' = "drain" \/ Returned'
      BY <2>1, <2>3 DEF Returned, Next, Sender, Comparator, Done, vars, comparison, Send, Finish,
         TakeBatch1, EndOfSet1, NextChange, BatchDone, Lookup, ReadAhead, EndOfSet2, Compare,
         Leftover, DrainBatch, DrainEnd, WriteError, Join
    <3> QED BY <1>d, <2>3, <3>1
  <2>4. CASE /\ pc = "drain"
             /\ \E c2 \in Changes(2) : OfChange2(r, c2) /\ c2[1] = recvd[2] + 1
    <3>1. DrainBatch \/ WriteError
      BY <2>1, <2>4 DEF Next, Sender, Comparator, Done, vars, comparison, Send, Finish, TakeBatch1,
         EndOfSet1, NextChange, BatchDone, Lookup, ReadAhead, EndOfSet2, Compare, Leftover,
         DrainEnd, Join
    <3>2. DrainBatch => recvd'[2] = recvd[2] + 1 /\ recvd[2] \in Nat
      BY SideDef DEF DrainBatch, Receive, TypeOK, ChannelsOK
    <3>3. WriteError => Returned'
      BY DEF WriteError, Returned
    <3> QED BY <1>e, <2>4, <3>1, <3>2, <3>3 DEF Read
  <2> QED BY <2>1, <2>2, <2>3, <2>4, DueOrigins
<1> QED BY <1>1, <1>2

-------------------------------------------------------------------------------
(* What holds of orderly streams is kept by every step. *)

\* Set 1 goes on to a batch at a later time, or at the same.
LEMMA TimeAdvances ==
  ASSUME TypeOK, TimeKept, Orderly, TakeBatch1
  PROVE  /\ NextBatch(1).time \in Nat /\ prevTime <= NextBatch(1).time
         /\ prevTime = NoTime <=> recvd[1] = 0
<1>1. /\ recvd[1] \in Nat /\ recvd[1] + 1 \in 1..Len(stream[1])
      /\ stream[1] \in Seq(Batch(Handles1)) /\ Len(stream[1]) \in Nat
  BY StreamType, SideDef DEF TakeBatch1, HasNext, TypeOK, ChannelsOK
<1>2. \A n \in DOMAIN stream[1] : stream[1][n].time \in Nat
  <2>1. \A n \in DOMAIN stream[1] : stream[1][n] \in Batch(Handles1)
    BY <1>1
  <2> QED BY <2>1 DEF Batch
<1>3. CASE recvd[1] = 0
  BY <1>1, <1>2, <1>3 DEF TimeKept, NoTime, NextBatch
<1>4. CASE recvd[1] # 0
  <2>1. recvd[1] \in DOMAIN stream[1] /\ recvd[1] + 1 \in DOMAIN stream[1] /\ recvd[1] < recvd[1] + 1
    BY <1>1, <1>4
  <2>2. prevTime = stream[1][recvd[1]].time
    BY <1>4 DEF TimeKept, T1, Batch1
  <2> QED BY <1>2, <1>4, <2>1, <2>2, OrderFacts, SideDef DEF NoTime, NextBatch
<1> QED BY <1>3, <1>4

\* The changes of the batch of set 2 about to be received, by key.
LEMMA NextBatchKeys ==
  ASSUME TypeOK, HasNext(2)
  PROVE  \A key : key \in BatchKeys(NextBatch(2)) <=>
           \E c2 \in Changes(2) : c2[1] = recvd[2] + 1 /\ KeyOf(c2) = key
<1>1. ASSUME NEW key \in BatchKeys(NextBatch(2))
      PROVE  \E c2 \in Changes(2) : c2[1] = recvd[2] + 1 /\ KeyOf(c2) = key
  <2>1. PICK i \in DOMAIN NextBatch(2).changes :
          key = <<NextBatch(2).time, NextBatch(2).changes[i].handle>>
    BY DEF BatchKeys, BatchHandles
  <2>2. PICK c2 \in Changes(2) : c2 = <<recvd[2] + 1, i>>
    BY <2>1, NextBatch2Type, ChangesDef, SideDef DEF NextBatch, TypeOK
  <2> QED BY <2>1, <2>2 DEF KeyOf, TimeOf, HandleOf, NextBatch
<1>2. ASSUME NEW c2 \in Changes(2), c2[1] = recvd[2] + 1
      PROVE  KeyOf(c2) \in BatchKeys(NextBatch(2))
  <2>1. c2[2] \in DOMAIN NextBatch(2).changes
    BY <1>2, ChangesDef, SideDef DEF NextBatch
  <2> QED BY <1>2, <2>1 DEF BatchKeys, BatchHandles, KeyOf, TimeOf, HandleOf, NextBatch
<1> QED BY <1>1, <1>2

\* What was read of set 2 is buffered, but for what was matched at an earlier time.
LEMMA NextStillBuffered ==
  ASSUME TypeOK, MatchedOK, TimeKept, Orderly, StillBuffered, [Next]_vars
  PROVE  StillBuffered'
<1>a. stream' = stream
  BY StreamFixed
<1>b. /\ Changes(1)' = Changes(1) /\ Changes(2)' = Changes(2)
      /\ \A s, c : TimeOf(s, c)' = TimeOf(s, c)
      /\ \A c : KeyOf(c)' = KeyOf(c)
      /\ \A c1, c2 : Counterparts(c1, c2)' <=> Counterparts(c1, c2)
  BY <1>a, StreamFacts, DifferenceFacts, SideDef
<1>c. SUFFICES ASSUME pc' \notin {"drain", "returned", "joined"}, NEW c2 \in Changes(2), Read(c2)',
                      KeyOf(c2) \notin DOMAIN buffered2'
      PROVE  \E c1 \in Changes(1) :
               Counterparts(c1, c2) /\ (TimeOf(1, c1) < prevTime' \/ pc' = "leftover")
  BY <1>b DEF StillBuffered
<1>d. pc \notin {"drain", "returned", "joined"}
  BY <1>c DEF Next, Sender, Comparator, Done, vars, Send, Finish, TakeBatch1, EndOfSet1,
         NextChange, BatchDone, Lookup, ReadAhead, EndOfSet2, Compare, Leftover, DrainBatch,
         DrainEnd, WriteError, Join
<1>e. \A c1 \in Changes(1) : TimeOf(1, c1) \in Nat
  <2>1. \A n \in DOMAIN stream[1] : stream[1][n].time \in Nat
    <3>1. \A n \in DOMAIN stream[1] : stream[1][n] \in Batch(Handles1)
      BY StreamType DEF TypeOK, ChannelsOK
    <3> QED BY <3>1 DEF Batch
  <2> QED BY <2>1, ChangesDef, SideDef DEF TimeOf
<1>f. ASSUME KeyOf(c2) \in DOMAIN buffered2,
             KeyOf(c2) \notin DOMAIN Evicted(buffered2, prevTime, matched)
      PROVE  \E c1 \in Changes(1) : Counterparts(c1, c2) /\ TimeOf(1, c1) = prevTime
  <2>1. PICK h \in matched : KeyOf(c2) = <<prevTime, h>>
    BY <1>f DEF Evicted
  <2>2. TimeOf(2, c2) = prevTime /\ HandleOf(2, c2) = h
    BY <2>1 DEF KeyOf
  <2> QED BY <2>1, <2>2 DEF MatchedOK, Counterparts
<1>1. CASE TakeBatch1
  <2>1. Read(c2) /\ prevTime' = NextBatch(1).time /\ pc # "leftover"
    BY <1>1, <1>c, SideDef DEF TakeBatch1, Receive, Read, TypeOK, ChannelsOK
  <2>2. prevTime \in Int /\ prevTime' \in Nat /\ prevTime <= prevTime'
    BY <1>1, <2>1, TimeAdvances DEF TypeOK, ComparatorOK, NoTime
  <2>3. CASE KeyOf(c2) \notin DOMAIN buffered2
    BY <1>d, <1>e, <2>1, <2>2, <2>3 DEF StillBuffered
  <2>4. CASE KeyOf(c2) \in DOMAIN buffered2
    <3>1. prevTime # prevTime' /\ KeyOf(c2) \notin DOMAIN Evicted(buffered2, prevTime, matched)
      BY <1>1, <1>c, <2>1, <2>4 DEF TakeBatch1, EvictedAt
    <3> QED BY <1>e, <1>f, <2>2, <2>4, <3>1
  <2> QED BY <2>3, <2>4
<1>2. CASE EndOfSet1
  <2>1. Read(c2) /\ pc' = "leftover" /\ KeyOf(c2) \notin DOMAIN Evicted(buffered2, prevTime, matched)
    BY <1>2, <1>c DEF EndOfSet1, Read, channels
  <2> QED BY <1>d, <1>f, <2>1 DEF StillBuffered
<1>3. CASE ReadAhead
  <2>1. /\ DOMAIN buffered2' = DOMAIN buffered2 \cup BatchKeys(NextBatch(2))
        /\ prevTime' = prevTime /\ pc = "read_ahead"
        /\ recvd[2] \in Nat /\ recvd'[2] = recvd[2] + 1 /\ HasNext(2)
    BY <1>3, SideDef DEF ReadAhead, Inserted, Receive, TypeOK, ChannelsOK
  <2>2. c2[1] # recvd[2] + 1
    BY <1>c, <2>1, NextBatchKeys
  <2>3. Read(c2)
    BY <1>c, <2>1, <2>2, Change2Types DEF Read
  <2> QED BY <1>c, <1>d, <2>1, <2>3 DEF StillBuffered
<1>4. CASE ~(TakeBatch1 \/ EndOfSet1 \/ ReadAhead)
  <2>1. /\ recvd' = recvd /\ buffered2' = buffered2 /\ prevTime' = prevTime
        /\ pc = "leftover" <=> pc' = "leftover"
    BY <1>4, <1>c, <1>d DEF Next, Sender, Comparator, Done, vars, channels, comparison, Send, Finish,
         NextChange, BatchDone, Lookup, EndOfSet2, Compare, Leftover, DrainBatch,
         DrainEnd, WriteError, Join
  <2> QED BY <1>c, <1>d, <2>1 DEF StillBuffered, Read
<1> QED BY <1>1, <1>2, <1>3, <1>4

\* A compared change was read, and leaves the buffer with its time.
LEMMA NextSettled ==
  ASSUME TypeOK, PhaseOK, TimeKept, BufferRead, Orderly, Sought, Settled, [Next]_vars
  PROVE  Settled'
<1>a. stream' = stream
  BY StreamFixed
<1>b. /\ Changes(1)' = Changes(1) /\ Changes(2)' = Changes(2)
      /\ \A s, c : TimeOf(s, c)' = TimeOf(s, c) /\ HandleOf(s, c)' = HandleOf(s, c)
      /\ \A c : KeyOf(c)' = KeyOf(c)
      /\ \A c1, h, c2 : Target(c1, h, c2)' <=> Target(c1, h, c2)
  BY <1>a, StreamFacts, DifferenceFacts, SideDef
<1>c. \A c \in Changes(2) : Read(c) => Read(c)'
  BY ReceivedGrows, Change2Types, SideDef DEF Read
<1>d. SUFFICES
        ASSUME NEW c1 \in Changes(1), NEW m \in DOMAIN Mapping[HandleOf(1, c1)], Compared(c1, m)',
               NEW c2 \in Changes(2), Target(c1, Mapping[HandleOf(1, c1)][m], c2)
        PROVE  /\ Read(c2)'
               /\ \/ KeyOf(c2) \notin DOMAIN buffered2'
                  \/ pc' # "leftover" /\ TimeOf(2, c2) = prevTime' /\ HandleOf(2, c2) \in matched'
  BY <1>b DEF Settled
<1>e. Compared(c1, m) =>
        /\ Read(c2)
        /\ \/ KeyOf(c2) \notin DOMAIN buffered2
           \/ pc # "leftover" /\ TimeOf(2, c2) = prevTime /\ HandleOf(2, c2) \in matched
  BY <1>d DEF Settled
<1>f. DOMAIN Evicted(buffered2, prevTime, matched) = DOMAIN buffered2 \ {<<prevTime, h>> : h \in matched}
  BY DEF Evicted
<1>1. CASE Compare
  <2>1. /\ recvd' = recvd /\ buffered2' = buffered2 /\ prevTime' = prevTime /\ pc' = "pair"
        /\ matched \subseteq matched' /\ (HasValue2 => Handle2 \in matched') /\ pc = "compare"
    BY <1>1 DEF Compare, channels
  <2>2. CASE Compared(c1, m)
    BY <1>c, <1>e, <2>1, <2>2
  <2>3. CASE c1 = <<recvd[1], k>> /\ m = j
    <3>1. /\ TimeOf(1, c1) = T1 /\ T1 = prevTime /\ Mapping[HandleOf(1, c1)][m] = Handle2
      BY <2>1, <2>3, CurrentChange
    <3>2. TimeOf(2, c2) = T1 /\ HandleOf(2, c2) = Handle2
      BY <1>d, <3>1 DEF Target
    <3>3. HasValue2 /\ Key \in DOMAIN buffered2
      BY <1>d, <2>1, <2>3, <3>1 DEF Sought, Lacking
    <3>4. PICK d2 \in Changes(2) : Read(d2) /\ KeyOf(d2) = Key
      BY <3>3 DEF BufferRead
    <3>5. d2 = c2
      BY <3>2, <3>4, OrderFacts, SideDef DEF KeyOf, Key
    <3> QED BY <1>c, <2>1, <3>1, <3>2, <3>3, <3>4, <3>5
  <2> QED BY <1>d, <2>2, <2>3, ComparedStep
<1>2. CASE ~Compare
  <2>1. /\ Read(c2)
        /\ \/ KeyOf(c2) \notin DOMAIN buffered2
           \/ pc # "leftover" /\ TimeOf(2, c2) = prevTime /\ HandleOf(2, c2) \in matched
    BY <1>2, <1>d, <1>e, ComparedStep
  <2>2. KeyOf(c2) \notin DOMAIN buffered2 \/ KeyOf(c2) \in {<<prevTime, h>> : h \in matched}
    BY <2>1 DEF KeyOf
  <2>3. CASE TakeBatch1
    <3>1. Compared(c1, m)
      BY <1>2, <1>d, ComparedStep
    <3>2. recvd[1] # 0
      <4>1. c1[1] \in Nat /\ c1[1] > 0
        BY PairTypes
      <4>2. recvd[1] \in Nat
        BY SideDef DEF TypeOK, ChannelsOK
      <4> QED BY <3>1, <4>1, <4>2 DEF Compared
    <3>3. CASE prevTime = NextBatch(1).time
      BY <1>c, <2>1, <2>3, <3>3 DEF TakeBatch1, EvictedAt
    <3>4. CASE prevTime # NextBatch(1).time
      <4>1. buffered2' = Evicted(buffered2, prevTime, matched)
        BY <2>3, <3>2, <3>4, TimeAdvances DEF TakeBatch1, EvictedAt
      <4> QED BY <1>c, <1>f, <2>1, <2>2, <4>1
    <3> QED BY <3>3, <3>4
  <2>4. CASE EndOfSet1
    <3>1. buffered2' = Evicted(buffered2, prevTime, matched)
      BY <2>4 DEF EndOfSet1
    <3> QED BY <1>c, <1>f, <2>1, <2>2, <3>1
  <2>5. CASE ReadAhead
    <3>1. /\ DOMAIN buffered2' = DOMAIN buffered2 \cup BatchKeys(NextBatch(2)) /\ HasNext(2)
          /\ prevTime' = prevTime /\ matched' = matched /\ pc' # "leftover"
          /\ recvd[2] \in Nat
      BY <2>5, SideDef DEF ReadAhead, Inserted, TypeOK, ChannelsOK
    <3>2. KeyOf(c2) \notin BatchKeys(NextBatch(2))
      <4>1. SUFFICES ASSUME NEW d2 \in Changes(2), d2[1] = recvd[2] + 1, KeyOf(d2) = KeyOf(c2)
                     PROVE  FALSE
        BY <3>1, NextBatchKeys
      <4>2. d2 = c2
        BY <4>1, OrderFacts, SideDef DEF KeyOf
      <4> QED BY <2>1, <3>1, <4>1, <4>2 DEF Read
    <3> QED BY <1>c, <2>1, <3>1, <3>2
  <2>6. CASE Leftover
    <3>1. DOMAIN buffered2' = {}
      BY <2>6 DEF Leftover
    <3> QED BY <1>c, <2>1, <3>1
  <2>7. CASE ~(TakeBatch1 \/ EndOfSet1 \/ ReadAhead \/ Leftover)
    <3>1. /\ buffered2' = buffered2 /\ prevTime' = prevTime /\ matched' = matched
          /\ pc' = "leftover" => pc = "leftover"
      BY <1>2, <2>7 DEF Next, Sender, Comparator, Done, vars, comparison, Send, Finish,
         NextChange, BatchDone, Lookup, EndOfSet2, DrainBatch, DrainEnd, WriteError, Join
    <3> QED BY <1>c, <2>1, <3>1
  <2> QED BY <2>3, <2>4, <2>5, <2>6, <2>7
<1> QED BY <1>1, <1>2

\* A change to be compared with that was read is in the buffer.
LEMMA ReadTargetBuffered ==
  ASSUME TypeOK, Orderly, StillBuffered, pc \in {"pair", "read_ahead", "compare"}, HasPair,
         NEW c2 \in Changes(2), Read(c2), Target(<<recvd[1], k>>, Handle2, c2)
  PROVE  Key \in DOMAIN buffered2
<1>1. TimeOf(2, c2) = T1 /\ T1 = prevTime /\ HandleOf(2, c2) = Handle2
  BY CurrentPair DEF Target
<1>2. T1 \in Nat
  BY Batch1Type DEF TypeOK, CursorOK
<1>3. \A c1 \in Changes(1) : Counterparts(c1, c2) => ~(TimeOf(1, c1) < prevTime)
  BY <1>1, <1>2 DEF Counterparts
<1>4. KeyOf(c2) \in DOMAIN buffered2
  BY <1>3 DEF StillBuffered
<1> QED BY <1>1, <1>4 DEF Key, KeyOf

\* A value that is missing when a pair is compared is missing in set 2.
LEMMA NextSought ==
  ASSUME TypeOK, PhaseOK, ProvenanceOK, Orderly, StillBuffered, Sought, [Next]_vars
  PROVE  Sought'
<1>a. stream' = stream
  BY StreamFixed
<1>b. \A c1, h : Lacking(c1, h)' <=> Lacking(c1, h)
  BY <1>a, DifferenceFacts
<1>c. \A c \in Changes(2) : Closed(2) => Read(c)
  BY Change2Types, SideDef DEF Closed, Read, TypeOK, ChannelsOK
<1> DEFINE Same == /\ recvd'[1] = recvd[1] /\ k' = k
                   /\ Key' = Key /\ Handle2' = Handle2
<1>d. ASSUME recvd'[1] = recvd[1], k' = k, j' = j PROVE Same
  BY <1>a, <1>d DEF Key, T1, Batch1, Handle2, Change1, Handles2Of
<1>e. ASSUME Same, Lacking(<<recvd[1], k>>, Handle2) PROVE Lacking(<<recvd[1], k>>, Handle2)'
  <2>1. Lacking(<<recvd[1], k>>, Handle2)' <=> Lacking(<<recvd'[1], k'>>, Handle2')
    <3> DEFINE c1 == <<recvd[1], k>>
    <3>1. \A s, c : TimeOf(s, c)' = TimeOf(s, c) /\ HandleOf(s, c)' = HandleOf(s, c)
      BY <1>a, StreamFacts
    <3>2. Changes(2)' = Changes(2)
      BY <1>a, StreamFacts, SideDef
    <3> QED BY <1>e, <3>1, <3>2 DEF Lacking, Target, TimeOf
  <2> QED BY <1>e, <2>1
<1> HIDE DEF Same
<1>1. CASE Lookup
  <2>1. /\ pc = "pair" /\ HasPair /\ found' = NoValue /\ buffered2' = buffered2
        /\ recvd'[1] = recvd[1] /\ k' = k /\ j' = j
        /\ pc' = IF Key \notin DOMAIN buffered2 /\ ~source2Ended THEN "read_ahead" ELSE "compare"
    BY <1>1 DEF Lookup, comparison, channels
  <2>2. Same /\ Key' = Key
    BY <1>d, <2>1 DEF Same
  <2>3. HasValue2' <=> Key \in DOMAIN buffered2
    BY <2>1, <2>2 DEF HasValue2
  <2>4. ASSUME Key \notin DOMAIN buffered2, source2Ended
        PROVE  Lacking(<<recvd[1], k>>, Handle2)
    BY <1>c, <2>1, <2>4, ReadTargetBuffered DEF PhaseOK, Lacking
  <2> QED BY <1>e, <2>1, <2>2, <2>3, <2>4 DEF Sought
<1>2. CASE ReadAhead
  <2> DEFINE b == NextBatch(2)
  <2>1. /\ pc = "read_ahead" /\ HasNext(2) /\ HasPair /\ found = NoValue
        /\ Key \notin DOMAIN buffered2
    BY <1>2 DEF ReadAhead, TypeOK, CursorOK, ProvenanceOK, Sought
  <2>2. /\ recvd[2] \in Nat /\ recvd'[1] = recvd[1] /\ k' = k /\ j' = j
        /\ DOMAIN buffered2' = DOMAIN buffered2 \cup BatchKeys(b)
        /\ pc' = IF Key \in BatchKeys(b) \/ b.time > T1 THEN "compare" ELSE "read_ahead"
        /\ Key \notin BatchKeys(b) => found' = NoValue
    BY <1>2, <2>1, SideDef DEF ReadAhead, Receive, Inserted, TypeOK, ChannelsOK
  <2>3. Same /\ Key' = Key
    BY <1>d, <2>2 DEF Same
  <2>4. CASE Key \in BatchKeys(b)
    BY <2>2, <2>3, <2>4 DEF Sought, HasValue2
  <2>5. CASE Key \notin BatchKeys(b) /\ ~(b.time > T1)
    BY <2>1, <2>2, <2>3, <2>5 DEF Sought
  <2>6. CASE Key \notin BatchKeys(b) /\ b.time > T1
    <3>1. ~HasValue2' /\ pc' = "compare"
      BY <2>1, <2>2, <2>3, <2>6 DEF HasValue2
    <3>2. ASSUME NEW c2 \in Changes(2), Target(<<recvd[1], k>>, Handle2, c2)
          PROVE  FALSE
      <4>1. KeyOf(c2) = Key /\ TimeOf(2, c2) = T1
        BY <2>1, <3>2, CurrentPair DEF Target, KeyOf, Key
      <4>2. ~Read(c2)
        BY <2>1, <3>2, ReadTargetBuffered
      <4>3. c2[1] # recvd[2] + 1
        BY <2>1, <2>6, <4>1, NextBatchKeys
      <4>4. /\ recvd[2] + 1 \in DOMAIN stream[2] /\ c2[1] \in DOMAIN stream[2]
            /\ recvd[2] + 1 < c2[1]
        <5>1. c2[1] \in Nat
          BY Change2Types
        <5> QED BY <2>1, <2>2, <4>2, <4>3, <5>1, NextBatch2Type, ChangesDef, SideDef DEF TypeOK, Read
      <4>5. b.time <= TimeOf(2, c2)
        BY <4>4, OrderFacts, SideDef DEF NextBatch, TimeOf
      <4>6. T1 \in Nat /\ b.time \in Nat
        BY <2>1, NextBatch2Type, Batch1Type DEF TypeOK, CursorOK
      <4> HIDE DEF b
      <4> QED BY <2>6, <4>1, <4>5, <4>6
    <3>3. Lacking(<<recvd[1], k>>, Handle2)
      BY <3>2 DEF Lacking
    <3> QED BY <1>e, <2>3, <3>1, <3>3 DEF Sought
  <2> QED BY <2>4, <2>5, <2>6
<1>3. CASE EndOfSet2
  <2>1. /\ pc = "read_ahead" /\ HasPair /\ found = NoValue /\ Key \notin DOMAIN buffered2
        /\ Closed(2)
    BY <1>3 DEF EndOfSet2, TypeOK, CursorOK, ProvenanceOK, Sought
  <2>2. /\ recvd'[1] = recvd[1] /\ k' = k /\ j' = j /\ found' = found /\ buffered2' = buffered2
        /\ pc' = "compare"
    BY <1>3 DEF EndOfSet2, cursor, channels
  <2>3. Same /\ Key' = Key
    BY <1>d, <2>2 DEF Same
  <2>4. Lacking(<<recvd[1], k>>, Handle2)
    BY <1>c, <2>1, ReadTargetBuffered DEF Lacking
  <2>5. ~HasValue2'
    BY <2>1, <2>2, <2>3 DEF HasValue2
  <2> QED BY <1>e, <2>2, <2>3, <2>4, <2>5 DEF Sought
<1>4. CASE ~(Lookup \/ ReadAhead \/ EndOfSet2)
  <2>1. CASE pc' \notin {"read_ahead", "compare"}
    BY <2>1 DEF Sought
  <2>2. CASE pc' \in {"read_ahead", "compare"}
    <3>1. /\ recvd'[1] = recvd[1] /\ k' = k /\ j' = j /\ found' = found /\ buffered2' = buffered2
          /\ pc' = pc
      BY <1>4, <2>2, SideDef DEF Next, Sender, Comparator, Done, vars, comparison, cursor, channels,
         Send, Finish, TakeBatch1, EndOfSet1, NextChange, BatchDone, Compare, Leftover,
         DrainBatch, DrainEnd, WriteError, Join
    <3>2. Same /\ Key' = Key
      BY <1>d, <3>1 DEF Same
    <3>3. HasValue2' <=> HasValue2
      BY <3>1, <3>2 DEF HasValue2
    <3> QED BY <1>e, <3>1, <3>2, <3>3 DEF Sought
  <2> QED BY <2>1, <2>2
<1> QED BY <1>1, <1>2, <1>3, <1>4

\* The value of set 2 that a change is compared with is the one of its target.
LEMMA ValueOfTarget ==
  ASSUME TypeOK, ProvenanceOK, Orderly, pc = "compare"
  PROVE  /\ HasValue2 => \E c2 \in Changes(2) :
              Target(<<recvd[1], k>>, Handle2, c2) /\ ValueOf(2, c2) = Value2
         /\ HasValue2 => \A c2 \in Changes(2) :
              Target(<<recvd[1], k>>, Handle2, c2) => ValueOf(2, c2) = Value2
<1>1. HasValue2 => \E c2 \in Changes(2) : Gives(c2, T1, Handle2, Value2)
  BY DEF ProvenanceOK, HasValue2, Value2, Key
<1>2. TimeOf(1, <<recvd[1], k>>) = T1
  BY CurrentChange
<1> QED BY <1>1, <1>2, OrderFacts, SideDef DEF Gives, Target

\* The value buffered under the key of a change is the value of that change.
LEMMA BufferedValue ==
  ASSUME ProvenanceOK, Orderly, NEW c2 \in Changes(2), KeyOf(c2) \in DOMAIN buffered2
  PROVE  buffered2[KeyOf(c2)] = ValueOf(2, c2)
<1>1. PICK d2 \in Changes(2) : Gives(d2, TimeOf(2, c2), HandleOf(2, c2), buffered2[KeyOf(c2)])
  BY DEF ProvenanceOK, KeyOf
<1>2. d2 = c2
  BY <1>1, OrderFacts, SideDef DEF Gives
<1> QED BY <1>1, <1>2 DEF Gives

\* Every row that is due is a difference.
LEMMA DueExpected ==
  ASSUME TypeOK, PhaseOK, ProvenanceOK, Orderly, Settled, Sought, NEW r \in RowsDue
  PROVE  IsDifference(Difference(r))
<1>a. ASSUME pc \in {"leftover", "drain"},
             NEW c1 \in Changes(1), NEW c2 \in Changes(2), Counterparts(c1, c2)
      PROVE  Read(c2) /\ (pc = "leftover" => KeyOf(c2) \notin DOMAIN buffered2)
  <2>1. PICK m \in DOMAIN Mapping[HandleOf(1, c1)] : Target(c1, Mapping[HandleOf(1, c1)][m], c2)
    BY <1>a, TargetCounterpart
  <2>2. c1[1] <= recvd[1]
    BY <1>a, PairTypes, SideDef DEF PhaseOK, Closed, TypeOK, ChannelsOK
  <2>3. Compared(c1, m)
    BY <1>a, <2>2, CaughtCompared DEF PhaseOK
  <2> QED BY <1>a, <2>1, <2>3 DEF Settled
<1>1. CASE pc = "compare"
  <2> DEFINE c1 == <<recvd[1], k>>
  <2>1. /\ c1 \in Changes(1) /\ TimeOf(1, c1) = T1 /\ HandleOf(1, c1) = Change1.handle
        /\ ValueOf(1, c1) = Change1.value /\ Handle2 \in MappedTo(HandleOf(1, c1))
    BY <1>1, CurrentChange
  <2> HIDE DEF c1
  <2>2. r \in PairRows
    BY <1>1 DEF RowsDue
  <2>3. CASE HasValue2
    <3>1. r = Row("ne", T1, Change1.handle, Handle2, Change1.value, Value2)
          /\ <<Change1.value, Value2>> \notin Close
      BY <2>2, <2>3 DEF PairRows
    <3>2. PICK c2 \in Changes(2) : Target(c1, Handle2, c2) /\ ValueOf(2, c2) = Value2
      BY <1>1, <2>3, ValueOfTarget DEF c1
    <3>3. Counterparts(c1, c2) /\ Unequal(c1, c2) /\ r = NotEqual(c1, c2)
      BY <2>1, <3>1, <3>2 DEF Counterparts, Unequal, Target, NotEqual
    <3>4. Difference(r) = r
      BY <3>1 DEF Difference, Row
    <3> QED BY <2>1, <3>3, <3>4 DEF IsDifference
  <2>4. CASE ~HasValue2
    <3>1. Lacking(c1, Handle2)
      BY <1>1, <2>4 DEF Sought, c1
    <3>2. PICK kind \in {"not_in_2", "missing_time"} :
            r = Row(kind, T1, Change1.handle, Handle2, Change1.value, NoValue)
      BY <2>2, <2>4 DEF PairRows
    <3>3. Difference(r) = OnlyIn1(c1, Handle2)
      BY <2>1, <3>2 DEF Difference, Row, OnlyIn1
    <3> QED BY <2>1, <3>1, <3>3 DEF IsDifference
  <2> QED BY <2>3, <2>4
<1>2. CASE pc = "leftover"
  <2>1. PICK key \in DOMAIN buffered2 : key[2] \in SignalMap2 /\ r = OnlyIn2(key[1], key[2], buffered2[key])
    BY <1>2 DEF RowsDue, LeftoverRows
  <2>2. PICK c2 \in Changes(2) : Gives(c2, key[1], key[2], buffered2[key])
    BY DEF ProvenanceOK
  <2>3. KeyOf(c2) = key
    <3>1. key \in Keys2
      BY DEF TypeOK, ComparatorOK
    <3> QED BY <2>2, <3>1 DEF Gives, KeyOf, Keys2
  <2>4. Unmatched(c2)
    BY <1>2, <1>a, <2>1, <2>2, <2>3 DEF Unmatched, Gives
  <2>5. Difference(r) = OnlyIn2Of(c2)
    BY <2>1, <2>2 DEF Gives, Difference, OnlyIn2, Row, OnlyIn2Of
  <2> QED BY <2>4, <2>5 DEF IsDifference
<1>3. CASE pc = "drain" /\ HasNext(2)
  <2>1. PICK i \in DOMAIN NextBatch(2).changes :
          /\ NextBatch(2).changes[i].handle \in SignalMap2
          /\ r = OnlyIn2(NextBatch(2).time, NextBatch(2).changes[i].handle, NextBatch(2).changes[i].value)
    BY <1>3 DEF RowsDue, DrainRows
  <2>2. PICK c2 \in Changes(2) : c2 = <<recvd[2] + 1, i>>
    BY <1>3, <2>1, NextBatch2Type, ChangesDef, SideDef DEF NextBatch, TypeOK
  <2>3. r = OnlyIn2Of(c2) /\ HandleOf(2, c2) \in SignalMap2
    BY <2>1, <2>2 DEF OnlyIn2Of, TimeOf, HandleOf, ValueOf, NextBatch
  <2>4. ~Read(c2)
    BY <2>2, SideDef DEF Read, TypeOK, ChannelsOK
  <2>5. Unmatched(c2)
    BY <1>3, <1>a, <2>3, <2>4 DEF Unmatched
  <2>6. Difference(r) = r
    BY <2>3 DEF Difference, OnlyIn2Of, OnlyIn2, Row
  <2> QED BY <2>3, <2>5, <2>6 DEF IsDifference
<1> QED BY <1>1, <1>2, <1>3 DEF RowsDue

\* What was reported stays reported, and what is due and written is reported.
LEMMA ReportStep ==
  ASSUME [Next]_vars
  PROVE  /\ Report \subseteq Report'
         /\ \A d \in Report' : d \in Report \/ \E r \in RowsDue : d = Difference(r)
         /\ \A r \in rows' : Difference(r) \in Report'
  BY RowsStep DEF Report, Difference

\* Nothing but differences is reported.
LEMMA NextRowsExpected ==
  ASSUME TypeOK, PhaseOK, ProvenanceOK, Orderly, Settled, Sought, RowsExpected, [Next]_vars
  PROVE  RowsExpected'
<1>1. \A d : IsDifference(d)' <=> IsDifference(d)
  BY StreamFixed, DifferenceFacts
<1> QED BY <1>1, ReportStep, DueExpected DEF RowsExpected

\* A compared pair that differs is reported.
LEMMA NextPairsReported ==
  ASSUME TypeOK, PhaseOK, ProvenanceOK, Orderly, Sought, PairsReported, [Next]_vars
  PROVE  PairsReported'
<1>a. stream' = stream
  BY StreamFixed
<1>b. /\ Changes(1)' = Changes(1) /\ Changes(2)' = Changes(2)
      /\ \A s, c : HandleOf(s, c)' = HandleOf(s, c)
      /\ \A c1, h, c2 : Target(c1, h, c2)' <=> Target(c1, h, c2)
      /\ \A c1, h : (Lacking(c1, h)' <=> Lacking(c1, h)) /\ OnlyIn1(c1, h)' = OnlyIn1(c1, h)
      /\ \A c1, c2 : (Unequal(c1, c2)' <=> Unequal(c1, c2)) /\ NotEqual(c1, c2)' = NotEqual(c1, c2)
  BY <1>a, StreamFacts, DifferenceFacts, SideDef
<1>c. cmp' # "error" => cmp # "error"
  BY DEF PhaseOK, Next, Sender, Comparator, Done, vars, Send, Finish, TakeBatch1, EndOfSet1,
         NextChange, BatchDone, Lookup, ReadAhead, EndOfSet2, Compare, Leftover, DrainBatch,
         DrainEnd, WriteError, Join
<1>d. SUFFICES
        ASSUME cmp' # "error", NEW c1 \in Changes(1), NEW m \in DOMAIN Mapping[HandleOf(1, c1)],
               Compared(c1, m)'
        PROVE  LET h2 == Mapping[HandleOf(1, c1)][m] IN
               /\ Lacking(c1, h2) => OnlyIn1(c1, h2) \in Report'
               /\ \A c2 \in Changes(2) :
                    Target(c1, h2, c2) /\ Unequal(c1, c2) => NotEqual(c1, c2) \in Report'
  BY <1>b DEF PairsReported
<1> DEFINE h2 == Mapping[HandleOf(1, c1)][m]
<1>1. CASE Compared(c1, m)
  BY <1>1, <1>c, <1>d, ReportStep DEF PairsReported
<1>2. CASE Compare /\ c1 = <<recvd[1], k>> /\ m = j
  <2>1. /\ TimeOf(1, c1) = T1 /\ HandleOf(1, c1) = Change1.handle /\ ValueOf(1, c1) = Change1.value
        /\ h2 = Handle2
    BY <1>2, CurrentChange DEF Compare
  <2>2. \A r \in PairRows : Difference(r) \in Report'
    BY <1>2, ReportStep DEF Compare
  <2> HIDE DEF h2
  <2>3. ASSUME Lacking(c1, h2) PROVE OnlyIn1(c1, h2) \in Report'
    <3>1. ~HasValue2
      BY <1>2, <2>1, <2>3, ValueOfTarget DEF Lacking, Compare
    <3>2. PICK r \in PairRows : \E kind \in {"not_in_2", "missing_time"} :
            r = Row(kind, T1, Change1.handle, Handle2, Change1.value, NoValue)
      BY <3>1 DEF PairRows
    <3>3. Difference(r) = OnlyIn1(c1, h2)
      BY <2>1, <3>2 DEF Difference, Row, OnlyIn1
    <3> QED BY <2>2, <3>3
  <2>4. ASSUME NEW c2 \in Changes(2), Target(c1, h2, c2), Unequal(c1, c2)
        PROVE  NotEqual(c1, c2) \in Report'
    <3>1. HasValue2
      BY <1>2, <2>1, <2>4 DEF Sought, Lacking, Compare
    <3>2. ValueOf(2, c2) = Value2
      BY <1>2, <2>1, <2>4, <3>1, ValueOfTarget DEF Compare
    <3>3. NotEqual(c1, c2) \in PairRows
      BY <2>1, <2>4, <3>1, <3>2 DEF PairRows, NotEqual, Unequal, Target
    <3>4. Difference(NotEqual(c1, c2)) = NotEqual(c1, c2)
      BY DEF Difference, NotEqual, Row
    <3> QED BY <2>2, <3>3, <3>4
  <2> QED BY <2>3, <2>4 DEF h2
<1> QED BY <1>d, <1>1, <1>2, ComparedStep

\* A change of set 2 without a counterpart is reported once set 1 is over.
LEMMA NextLeftoversReported ==
  ASSUME TypeOK, PhaseOK, ProvenanceOK, Orderly, StillBuffered, LeftoversReported, [Next]_vars
  PROVE  LeftoversReported'
<1>a. stream' = stream
  BY StreamFixed
<1>b. /\ Changes(2)' = Changes(2)
      /\ \A c2 : (Unmatched(c2)' <=> Unmatched(c2)) /\ OnlyIn2Of(c2)' = OnlyIn2Of(c2)
  BY <1>a, StreamFacts, DifferenceFacts, SideDef
<1>c. SUFFICES
        ASSUME pc' = "drain" \/ cmp' \in {"same", "differ"}, NEW c2 \in Changes(2), Read(c2)',
               Unmatched(c2)
        PROVE  OnlyIn2Of(c2) \in Report'
  BY <1>b DEF LeftoversReported
<1>d. Difference(OnlyIn2Of(c2)) = OnlyIn2Of(c2)
  BY DEF Difference, OnlyIn2Of, OnlyIn2, Row
<1>1. CASE Leftover
  <2>1. Read(c2) /\ pc = "leftover" /\ LeftoverRows \subseteq rows'
    BY <1>1, <1>c DEF Leftover, Read
  <2>2. KeyOf(c2) \in DOMAIN buffered2
    BY <1>c, <2>1 DEF StillBuffered, Unmatched
  <2>3. OnlyIn2Of(c2) = OnlyIn2(KeyOf(c2)[1], KeyOf(c2)[2], buffered2[KeyOf(c2)])
        /\ KeyOf(c2)[2] \in SignalMap2
    BY <1>c, <2>2, BufferedValue DEF OnlyIn2Of, KeyOf, Unmatched
  <2>4. OnlyIn2Of(c2) \in LeftoverRows
    BY <2>2, <2>3 DEF LeftoverRows
  <2> QED BY <1>d, <2>1, <2>4, ReportStep
<1>2. CASE DrainBatch
  <2>1. /\ pc = "drain" /\ DrainRows(NextBatch(2)) \subseteq rows'
        /\ recvd[2] \in Nat /\ recvd'[2] = recvd[2] + 1
    BY <1>2, SideDef DEF DrainBatch, Receive, TypeOK, ChannelsOK
  <2>2. CASE Read(c2)
    BY <1>c, <2>1, <2>2, ReportStep DEF LeftoversReported
  <2>3. CASE ~Read(c2)
    <3>1. c2[1] = recvd[2] + 1
      BY <1>c, <2>1, <2>3, Change2Types DEF Read
    <3>2. c2[2] \in DOMAIN NextBatch(2).changes /\ c2 = <<c2[1], c2[2]>>
      BY <3>1, ChangesDef, SideDef DEF NextBatch
    <3>3. OnlyIn2Of(c2) \in DrainRows(NextBatch(2))
      BY <1>c, <3>1, <3>2 DEF DrainRows, OnlyIn2Of, Unmatched, TimeOf, HandleOf, ValueOf, NextBatch
    <3> QED BY <1>d, <2>1, <3>3, ReportStep
  <2> QED BY <2>2, <2>3
<1>3. CASE ~(Leftover \/ DrainBatch)
  <2>1. pc = "drain" \/ cmp \in {"same", "differ"}
    BY <1>3, <1>c DEF Next, Sender, Comparator, Done, vars, channels, Send, Finish, TakeBatch1,
         EndOfSet1, NextChange, BatchDone, Lookup, ReadAhead, EndOfSet2, Compare, DrainEnd,
         WriteError, Join
  <2>2. recvd'[2] = recvd[2]
    BY <1>3, <2>1, SideDef DEF Next, Sender, Comparator, Done, vars, channels, Send, Finish, TakeBatch1,
         EndOfSet1, NextChange, BatchDone, Lookup, ReadAhead, EndOfSet2, Compare, DrainEnd,
         WriteError, Join, Receive, TypeOK, ChannelsOK, PhaseOK
  <2> QED BY <1>c, <2>1, <2>2, ReportStep DEF LeftoversReported, Read
<1> QED BY <1>1, <1>2, <1>3

-------------------------------------------------------------------------------
(* The invariant of both kinds. *)

\* Nothing was read, compared or written.
LEMMA InitRInv == Init => RInv
<1> SUFFICES ASSUME Init PROVE RInv
  OBVIOUS
<1>1. DOMAIN buffered2 = {} /\ rows = {} /\ recvd[1] = 0 /\ recvd[2] = 0 /\ pc = "batch1"
  BY SideDef DEF Init
<1>2. TypeOK
  BY InitTypeOK
<1>3. TimeKept /\ VerdictKept /\ SawTrue /\ BufferRead /\ RowOrigins /\ Sought
  BY <1>1 DEF Init, TimeKept, VerdictKept, SawTrue, BufferRead, RowOrigins, Sought
<1>4. StillBuffered
  <2>1. \A c2 \in Changes(2) : ~Read(c2)
    BY <1>1, <1>2, Change2Types DEF Read
  <2> QED BY <2>1 DEF StillBuffered
<1>5. Settled /\ PairsReported
  <2>1. ASSUME NEW c1 \in Changes(1), NEW m PROVE ~Compared(c1, m)
    BY <1>1, <1>2, PairTypes DEF Compared
  <2> QED BY <2>1 DEF Settled, PairsReported
<1>6. LeftoversReported /\ RowsExpected
  BY <1>1 DEF LeftoversReported, RowsExpected, Report, Init
<1> QED BY <1>3, <1>4, <1>5, <1>6 DEF RInv, OrderlyInv

\* The conjuncts together.
LEMMA NextRInv == IInv /\ RInv /\ [Next]_vars => RInv'
<1> SUFFICES ASSUME IInv, RInv, [Next]_vars PROVE RInv'
  OBVIOUS
<1>1. TypeOK /\ PhaseOK /\ ProvenanceOK /\ MatchedOK
  BY DEF IInv
<1>2. TimeKept' /\ VerdictKept' /\ SawTrue' /\ BufferRead' /\ RowOrigins'
  BY <1>1, NextTimeKept, NextVerdictKept, NextSawTrue, NextBufferRead, NextRowOrigins DEF RInv
<1>3. ASSUME Orderly' PROVE OrderlyInv'
  <2>1. Orderly /\ OrderlyInv /\ TimeKept /\ BufferRead
    BY <1>3, StreamFixed, DifferenceFacts DEF RInv
  <2> QED
    BY <1>1, <2>1, NextStillBuffered, NextSettled, NextSought, NextPairsReported,
       NextLeftoversReported, NextRowsExpected DEF OrderlyInv
<1> QED BY <1>2, <1>3 DEF RInv

\* So the invariant holds in every behaviour.
LEMMA SpecRInv == Spec => [](IInv /\ RInv)
<1>1. Init => IInv /\ RInv
  BY InitIInv, InitRInv
<1>2. IInv /\ RInv /\ [Next]_vars => (IInv /\ RInv)'
  BY NextIInv, NextRInv
<1> QED BY <1>1, <1>2, PTL DEF Spec

-------------------------------------------------------------------------------
(* The theorems. *)

\* A row is never false in what it says of file 2, and never written twice for orderly
\* streams: its pair was compared before, or its change of set 2 was read before.
THEOREM RowsAreTrue == Spec => []RowsTrue
<1>1. IInv /\ RInv => RowsTrue
  <2> SUFFICES ASSUME IInv, RInv PROVE RowsTrue
    OBVIOUS
  <2>1. TypeOK /\ PhaseOK /\ ProvenanceOK /\ SawTrue /\ BufferRead /\ RowOrigins
    BY DEF IInv, RInv
  <2>2. ASSUME NEW r \in rows, r.kind = "not_in_2"
        PROVE  \E c2 \in Changes(2) : TimeOf(2, c2) = r.time
    BY <2>1, <2>2 DEF RowOrigins, OfPair, OfChange2
  <2>3. ASSUME Orderly, NEW r \in RowsDue, r \in rows PROVE FALSE
    <3>1. CASE pc = "compare" /\ OfPair(r, <<recvd[1], k>>, j)
      <4>1. PICK d1 \in Changes(1) : d1 = <<recvd[1], k>> /\ j \in DOMAIN Mapping[HandleOf(1, d1)]
        BY <2>1, <3>1, CurrentChange
      <4>2. PICK c1 \in Changes(1) : \E m \in DOMAIN Mapping[HandleOf(1, c1)] :
              OfPair(r, c1, m) /\ Compared(c1, m)
        BY <2>1, <2>3, <3>1 DEF RowOrigins, OfPair, OfChange2, Returned
      <4>3. PICK m \in DOMAIN Mapping[HandleOf(1, c1)] : OfPair(r, c1, m) /\ Compared(c1, m)
        BY <4>2
      <4>4. c1 = d1
        BY <2>3, <3>1, <4>1, <4>3, OrderFacts, SideDef DEF OfPair
      <4>5. m = j
        BY <2>1, <3>1, <4>1, <4>3, <4>4, PairTypes, MappedOnce DEF OfPair
      <4>6. recvd[1] \in Nat /\ k \in Nat /\ j \in Nat
        BY <2>1, SideDef DEF TypeOK, ChannelsOK, ComparatorOK
      <4> QED BY <4>1, <4>3, <4>4, <4>5, <4>6 DEF Compared
    <3>2. CASE pc = "leftover" /\ \E c2 \in Changes(2) : OfChange2(r, c2) /\ Read(c2)
      BY <2>1, <2>3, <3>2 DEF RowOrigins, OfPair, OfChange2, Returned
    <3>3. CASE pc = "drain" /\ \E c2 \in Changes(2) : OfChange2(r, c2) /\ c2[1] = recvd[2] + 1
      <4>1. PICK c2 \in Changes(2) : OfChange2(r, c2) /\ c2[1] = recvd[2] + 1
        BY <3>3
      <4>2. PICK d2 \in Changes(2) : OfChange2(r, d2) /\ Read(d2)
        BY <2>1, <2>3, <3>3, <4>1 DEF RowOrigins, OfPair, OfChange2, Returned
      <4>3. c2 = d2
        BY <2>3, <4>1, <4>2, OrderFacts, SideDef DEF OfChange2
      <4> QED BY <2>1, <4>1, <4>2, <4>3, SideDef DEF Read, TypeOK, ChannelsOK
    <3> QED BY <2>1, <3>1, <3>2, <3>3, DueOrigins
  <2> QED BY <2>2, <2>3 DEF RowsTrue
<1> QED BY <1>1, SpecRInv, PTL

\* When the comparison decides, it has reported every difference.
LEMMA DecidedReport ==
  ASSUME IInv, RInv, Orderly, cmp \in {"same", "differ"}
  PROVE  Report = Expected[stream]
<1>1. TypeOK /\ PhaseOK /\ PairsReported /\ LeftoversReported /\ RowsExpected
  BY DEF IInv, RInv, OrderlyInv
<1>2. Closed(1) /\ Closed(2) /\ Caught
  BY <1>1 DEF PhaseOK
<1>3. \A c1 \in Changes(1) : \A m \in DOMAIN Mapping[HandleOf(1, c1)] : Compared(c1, m)
  <2>1. \A c1 \in Changes(1) : c1[1] <= recvd[1]
    BY <1>1, <1>2, PairTypes, SideDef DEF Closed, TypeOK, ChannelsOK
  <2> QED BY <1>1, <1>2, <2>1, CaughtCompared
<1>4. \A c2 \in Changes(2) : Read(c2)
  BY <1>1, <1>2, Change2Types, SideDef DEF Closed, Read, TypeOK, ChannelsOK
<1>5. ASSUME NEW d, IsDifference(d) PROVE d \in Report
  <2>1. CASE \E c1 \in Changes(1) : \E h2 \in MappedTo(HandleOf(1, c1)) :
               Lacking(c1, h2) /\ d = OnlyIn1(c1, h2)
    BY <1>1, <1>3, <2>1 DEF PairsReported, MappedTo
  <2>2. CASE \E c1 \in Changes(1), c2 \in Changes(2) :
               Counterparts(c1, c2) /\ Unequal(c1, c2) /\ d = NotEqual(c1, c2)
    <3>1. PICK c1 \in Changes(1), c2 \in Changes(2) :
            Counterparts(c1, c2) /\ Unequal(c1, c2) /\ d = NotEqual(c1, c2)
      BY <2>2
    <3>2. PICK m \in DOMAIN Mapping[HandleOf(1, c1)] : Target(c1, Mapping[HandleOf(1, c1)][m], c2)
      BY <3>1, TargetCounterpart
    <3> QED BY <1>1, <1>3, <3>1, <3>2 DEF PairsReported
  <2>3. CASE \E c2 \in Changes(2) : Unmatched(c2) /\ d = OnlyIn2Of(c2)
    BY <1>1, <1>4, <2>3 DEF LeftoversReported
  <2> QED BY <1>5, <2>1, <2>2, <2>3 DEF IsDifference
<1>6. \A d : d \in Report <=> IsDifference(d)
  BY <1>1, <1>5 DEF RowsExpected
<1> QED BY <1>1, <1>6, ExpectedChanges

\* The joined result is the verdict of DiffSpec: an error only when something may fail,
\* and otherwise the answer the report gives.
LEMMA JoinImplements ==
  ASSUME IInv, RInv, Join
  PROVE  Abstract!Decide \/ Abstract!Fail
<1>1. result = "none" /\ result' = JoinedResult /\ rows' = rows /\ stream' = stream
  BY DEF Join, IInv, PhaseOK, comparison, channels
<1>2. (Orderly' <=> Orderly) /\ Expected[stream]' = Expected[stream] /\ Report' = Report
  BY <1>1, DifferenceFacts DEF Expected, Report, Differences, Facts, Difference, MappedTo
<1>3. CASE JoinedResult = "error"
  <2>1. cmp = "error" => WriterMayFail
    BY DEF RInv, VerdictKept
  <2>2. (\E s \in Side : sender[s] = "err") => FailureSets # {{}}
    BY DEF IInv, TypeOK, ChannelsOK, PhaseOK
  <2>3. WriterMayFail \/ FailureSets # {{}}
    BY <1>3, <2>1, <2>2, DiffAssumption DEF JoinedResult, IInv, TypeOK, ComparatorOK, RInv, VerdictKept
  <2> QED BY <1>1, <1>2, <1>3, <2>3 DEF Abstract!Fail, Report
<1>4. CASE JoinedResult # "error"
  <2>1. cmp \in {"same", "differ"} /\ JoinedResult = cmp
    BY <1>4 DEF Join, JoinedResult, RInv, VerdictKept, IInv, TypeOK, ComparatorOK
  <2>2. cmp = Verdict(hasDiff) /\ (hasDiff <=> rows # {})
    BY <2>1 DEF IInv, PhaseOK, RInv, VerdictKept
  <2>3. JoinedResult = IF Report = {} THEN "same" ELSE "differ"
    BY <2>1, <2>2 DEF Report, Verdict
  <2>4. Orderly => Report = Expected[stream]
    BY <2>1, DecidedReport
  <2> QED BY <1>1, <1>2, <2>3, <2>4 DEF Abstract!Decide, Report
<1> QED BY <1>3, <1>4

\* Every run of the threads is one of DiffSpec: of orderly streams the comparison
\* reports the differences of the two files, all of them before it decides and nothing
\* else, and it answers once.
THEOREM Refines == Spec => Implements
<1>1. Init => Abstract!Init
  BY DEF Init, Abstract!Init
<1>2. IInv /\ RInv /\ RInv' /\ [Next]_vars => [Abstract!Next]_(Abstract!vars)
  <2> SUFFICES ASSUME IInv, RInv, RInv', [Next]_vars
               PROVE  Abstract!Next \/ UNCHANGED Abstract!vars
    OBVIOUS
  <2>1. stream' = stream
    BY StreamFixed
  <2>2. (Orderly' <=> Orderly) /\ Expected[stream]' = Expected[stream]
    BY <2>1, DifferenceFacts DEF Expected, Differences, Facts, MappedTo
  <2>3. CASE Join
    BY <2>3, JoinImplements DEF Abstract!Next
  <2>4. CASE ~Join
    <3>1. result' = result
      BY <2>4 DEF Next, Sender, Comparator, Done, vars, Send, Finish, TakeBatch1, EndOfSet1,
         NextChange, BatchDone, Lookup, ReadAhead, EndOfSet2, Compare, Leftover, DrainBatch,
         DrainEnd, WriteError
    <3>2. CASE rows' = rows
      BY <2>2, <3>1, <3>2 DEF Abstract!vars, Difference
    <3>3. CASE rows' # rows
      <4>1. result = "none"
        BY <3>3, RowsStep DEF IInv, PhaseOK
      <4>2. Report \subseteq Report'
        BY ReportStep
      <4>3. Orderly => Report' \subseteq Expected[stream]
        <5> SUFFICES ASSUME Orderly PROVE Report' \subseteq Expected[stream]
          OBVIOUS
        <5>1. RowsExpected'
          BY <2>2 DEF RInv, OrderlyInv
        <5>2. \A d : IsDifference(d)' <=> IsDifference(d)
          BY <2>1, DifferenceFacts
        <5> QED BY <5>1, <5>2, ExpectedChanges DEF RowsExpected, IInv
      <4> QED BY <2>2, <3>1, <4>1, <4>2, <4>3 DEF Abstract!Next, Abstract!Report, Report
    <3> QED BY <3>2, <3>3
  <2> QED BY <2>3, <2>4
<1> QED BY <1>1, <1>2, SpecRInv, PTL DEF Spec, Implements, Abstract!Spec

-------------------------------------------------------------------------------
(* Which pairs of values are Close: what approx_eq of module ValueCompare  *)
(* says of two values, for every set of numbers and tolerances.            *)

(* A verdict, once given, is the one approx_eq computes of the values.     *)
Judged ==
    same # "unknown" => same = IF SameValue(value[1], value[2]) THEN "yes" ELSE "no"

ValuesInv == ValuesOK /\ Judged

\* No verdict has been given at first.
LEMMA InitValues == ValuesInit => ValuesInv
  BY DEF ValuesInit, ValuesInv, ValuesOK, Judged

\* The one action gives the verdict of approx_eq.
LEMMA NextValues == ValuesInv /\ [CompareValues]_valueVars => ValuesInv'
<1> SUFFICES ASSUME ValuesInv, [CompareValues]_valueVars PROVE ValuesInv'
  OBVIOUS
<1>1. CASE CompareValues
  <2>1. UNCHANGED << isReal, value, epsilon >>
    BY <1>1 DEF CompareValues
  <2>2. SameValue(value[1], value[2])' <=> SameValue(value[1], value[2])
    BY <2>1 DEF SameValue
  <2>3. same' = IF SameValue(value[1], value[2]) THEN "yes" ELSE "no"
    BY <1>1 DEF CompareValues
  <2>4. Judged'
    BY <2>2, <2>3 DEF Judged
  <2>5. ValuesOK'
    BY <2>1, <2>3 DEF ValuesInv, ValuesOK
  <2> QED
    BY <2>4, <2>5 DEF ValuesInv
<1>2. CASE UNCHANGED valueVars
  <2>1. UNCHANGED << isReal, value, epsilon, same >>
    BY <1>2 DEF valueVars
  <2>2. SameValue(value[1], value[2])' <=> SameValue(value[1], value[2])
    BY <2>1 DEF SameValue
  <2>3. Judged'
    BY <2>1, <2>2 DEF ValuesInv, Judged
  <2>4. ValuesOK'
    BY <2>1 DEF ValuesInv, ValuesOK
  <2> QED
    BY <2>3, <2>4 DEF ValuesInv
<1> QED
  BY <1>1, <1>2

\* So the invariant holds in every behaviour.
LEMMA SpecValues == ValuesSpec => []ValuesInv
  BY InitValues, NextValues, PTL DEF ValuesSpec

(* What is delivered for a real whose number is ordinary: that number, or  *)
(* its text.                                                               *)
LEMMA OrdinaryReal ==
    ASSUME NEW format \in {"fst", "vcd"}, NEW v \in Delivered(format, TRUE), Ordinary(v.float)
    PROVE  /\ v.form \in {"number", "text"}
           /\ v.spelling = "plain"
           /\ v.float \in Int /\ v.float # NaN /\ v.float # NegZero
           /\ IsFinite(v.float) /\ Magnitude(v.float) = v.float
           /\ v.float # None
<1>1. v.form \in {"number", "text"} /\ v.spelling = "plain"
  BY DEF Delivered, RealTexts, Number, Text
<1>2. v.float \in Int /\ v.float # NaN /\ v.float # NegZero /\ v.float # None
  BY FloatsAssumption DEF Ordinary
<1> QED
  BY <1>1, <1>2 DEF Ordinary, IsFinite, Magnitude

(* Two finite numbers of which one is the other's distance away or less.   *)
LEMMA WithinOrdinary ==
    ASSUME NEW f \in Int, NEW g \in Int, NEW eps \in Int, IsFinite(f), IsFinite(g),
           Magnitude(f) = f, Magnitude(g) = g
    PROVE  Within(f, g, eps) <=> (f - g <= eps /\ g - f <= eps)
  BY DEF Within

(* Reals are the same exactly if they are at most the tolerance apart,     *)
(* whatever the formats of the two files (approx_eq, diff.rs:84-108).      *)
THEOREM ByDistance == ValuesSpec => []RealsByDistance
<1>1. ValuesInv => RealsByDistance
  <2> SUFFICES ASSUME ValuesInv, same # "unknown", isReal[1], isReal[2],
                      Ordinary(value[1].float), Ordinary(value[2].float)
               PROVE  LET allowed == IF epsilon = None THEN 0 ELSE epsilon
                          f == value[1].float
                          g == value[2].float
                      IN  same = "yes" <=> (f - g <= allowed /\ g - f <= allowed)
    BY DEF RealsByDistance
  <2> DEFINE allowed == IF epsilon = None THEN 0 ELSE epsilon
  <2>1. isReal[1] = TRUE /\ isReal[2] = TRUE
    BY DEF ValuesInv, ValuesOK, Operands
  <2>2. PICK format1 \in {"fst", "vcd"} : value[1] \in Delivered(format1, TRUE)
    BY <2>1 DEF ValuesInv, ValuesOK, Operands
  <2>3. PICK format2 \in {"fst", "vcd"} : value[2] \in Delivered(format2, TRUE)
    BY <2>1 DEF ValuesInv, ValuesOK, Operands
  <2> PICK v : v = value[1]
    OBVIOUS
  <2> PICK w : w = value[2]
    OBVIOUS
  <2>4. /\ v.form \in {"number", "text"} /\ v.spelling = "plain"
        /\ v.float \in Int /\ v.float # NaN /\ v.float # NegZero /\ v.float # None
        /\ IsFinite(v.float) /\ Magnitude(v.float) = v.float
    BY <2>2, OrdinaryReal
  <2>5. /\ w.form \in {"number", "text"} /\ w.spelling = "plain"
        /\ w.float \in Int /\ w.float # NaN /\ w.float # NegZero /\ w.float # None
        /\ IsFinite(w.float) /\ Magnitude(w.float) = w.float
    BY <2>3, OrdinaryReal
  <2>6. same = "yes" <=> SameValue(v, w)
    BY DEF ValuesInv, Judged
  <2>7. Equal(v, w) <=> v.float = w.float
    BY <2>4, <2>5 DEF Equal, FloatEq
  <2>8. SameValue(v, w) <=> (v.float - w.float <= allowed /\ w.float - v.float <= allowed)
    <3>1. CASE epsilon = None
      <4>1. SameValue(v, w) <=> v.float = w.float
        BY <2>7, <3>1 DEF SameValue, UseEpsilon
      <4> QED
        BY <4>1, <3>1, <2>4, <2>5
    <3>2. CASE epsilon # None
      <4>1. epsilon \in Nat
        BY <3>2, FloatsAssumption DEF ValuesInv, ValuesOK
      <4>2. SameValue(v, w) <=> ApproxEq(v, w, epsilon)
        BY <3>2 DEF SameValue, UseEpsilon
      <4>3. Within(v.float, w.float, epsilon)
              <=> (v.float - w.float <= epsilon /\ w.float - v.float <= epsilon)
        BY <4>1, <2>4, <2>5, WithinOrdinary
      <4>4. ApproxEq(v, w, epsilon)
              <=> (v.float = w.float \/ Within(v.float, w.float, epsilon))
        <5>1. v.float = w.float => Within(v.float, w.float, epsilon)
          BY <4>1, <4>3, <2>4, <2>5
        <5> QED
          BY <5>1, <2>4, <2>5, <2>7 DEF ApproxEq
      <4> QED
        BY <4>1, <4>2, <4>3, <4>4, <3>2, <2>4, <2>5
    <3> QED
      BY <3>1, <3>2
  <2> QED
    BY <2>6, <2>8
<1> QED
  BY <1>1, SpecValues, PTL

(* A vector is the same only digit by digit, whatever the tolerance: real  *)
(* is what both hierarchies must say of a signal (diff.rs:409-410).        *)
THEOREM VectorsByDigit == ValuesSpec => []VectorsExact
<1>1. ValuesInv => VectorsExact
  <2> SUFFICES ASSUME ValuesInv, same # "unknown", ~isReal[1], ~isReal[2]
               PROVE  same = "yes" <=> value[1] = value[2]
    BY DEF VectorsExact
  <2>1. value[1] \in Texts /\ value[2] \in Texts
    BY DEF ValuesInv, ValuesOK, Operands, Delivered
  <2> PICK v : v = value[1]
    OBVIOUS
  <2> PICK w : w = value[2]
    OBVIOUS
  <2>2. same = "yes" <=> Equal(v, w)
    BY DEF ValuesInv, Judged, SameValue, UseEpsilon
  <2>3. /\ v = [form |-> "text", float |-> v.float, spelling |-> v.spelling]
        /\ w = [form |-> "text", float |-> w.float, spelling |-> w.spelling]
    BY <2>1 DEF Texts, Text
  <2>4. Equal(v, w) <=> v = w
    BY <2>3 DEF Equal
  <2> QED
    BY <2>2, <2>4
<1> QED
  BY <1>1, SpecValues, PTL

-------------------------------------------------------------------------------
(*********************************************************************************)
(* A value that is exported, read back and compared (module ExportedValue), for  *)
(* every set of numbers, widths and strings and every way of writing reals.      *)

Result == IF export.target = "fst" THEN WrittenFst(OutputValue) ELSE WrittenVcd(OutputValue)

Stages == {"opened", "refused", "written", "given"}

(* What is on file is what the writer makes of the change, what is read    *)
(* back is the second value, and a verdict is that of approx_eq.           *)
ExportInv ==
    export # None =>
        /\ export \in Exports /\ stage \in Stages
        /\ DOMAIN value = Operands /\ value[1] = Original(export)
        /\ isReal = [s \in Operands |-> export.var.type = "real"]
        /\ stage # "opened" => written = Result
        /\ stage # "opened" => (stage = "refused" <=> written = Refused)
        /\ stage # "given" => same = "unknown"
        /\ stage = "given" => value[2] = AsText(Back)
        /\ same = "no" => ~SameValue(value[1], value[2])

LEMMA ExportStart == ExportInit => ExportInv
BY DEF ExportInit, ExportInv, Operands, Stages

LEMMA ExportStep == ExportInv /\ [ExportNext]_exportVars => ExportInv'
<1> SUFFICES ASSUME ExportInv, [ExportNext]_exportVars PROVE ExportInv'
  OBVIOUS
<1>0. CASE export = None
  BY <1>0 DEF ExportInv, ExportNext, Write, ReadBack, CompareBoth, exportVars
<1>1. CASE export # None /\ Write
  <2>1. /\ UNCHANGED << isReal, value, epsilon, same, export >> /\ same = "unknown"
        /\ stage' \in {"refused", "written"}
        /\ stage' = "refused" <=> written' = Refused
    BY <1>1 DEF Write, valueVars, ExportInv
  <2>2. written' = Result'
    <3>1. Result' = Result
      BY <2>1 DEF Result, WrittenFst, WrittenVcd, OutputValue, WrittenReal, WrittenString,
                  WrittenDigits, WidthFits, Extended
    <3>2. written' = Result
      BY <1>1 DEF Write, Result
    <3> QED
      BY <3>1, <3>2
  <2>3. Original(export)' = Original(export)
    BY <2>1 DEF Original
  <2> QED
    BY <1>1, <2>1, <2>2, <2>3 DEF ExportInv, Stages
<1>2. CASE export # None /\ ReadBack
  <2>1. /\ UNCHANGED << isReal, epsilon, same, export, written >>
        /\ stage = "written" /\ stage' = "given" /\ same = "unknown"
        /\ value' = [value EXCEPT ![2] = AsText(Back)]
    BY <1>2 DEF ReadBack, ExportInv
  <2>2. DOMAIN value' = Operands /\ value'[1] = value[1] /\ value'[2] = AsText(Back)
    BY <1>2, <2>1 DEF ExportInv, Operands
  <2>3. Back' = Back /\ Result' = Result /\ Original(export)' = Original(export)
    BY <2>1 DEF Result, WrittenFst, WrittenVcd, OutputValue, WrittenReal, WrittenString,
                WrittenDigits, WidthFits, Extended, Back, Original
  <2>4. AsText(Back)' = AsText(Back)
    BY <2>3
  <2> QED
    BY <1>2, <2>1, <2>2, <2>3, <2>4 DEF ExportInv, Stages
<1>3. CASE export # None /\ CompareBoth
  <2>1. /\ UNCHANGED << isReal, value, epsilon, export, stage, written >>
        /\ stage = "given"
        /\ same' = "no" => ~SameValue(value[1], value[2])
    BY <1>3 DEF CompareBoth, CompareValues
  <2>2. /\ Back' = Back /\ Result' = Result /\ Original(export)' = Original(export)
        /\ SameValue(value[1], value[2])' = SameValue(value[1], value[2])
    BY <2>1 DEF Result, WrittenFst, WrittenVcd, OutputValue, WrittenReal, WrittenString,
                WrittenDigits, WidthFits, Extended, Back, Original, SameValue
  <2>3. AsText(Back)' = AsText(Back)
    BY <2>2
  <2> QED
    BY <1>3, <2>1, <2>2, <2>3 DEF ExportInv
<1>4. CASE UNCHANGED exportVars
  <2>1. UNCHANGED << isReal, value, epsilon, same, export, stage, written >>
    BY <1>4 DEF exportVars, valueVars
  <2>2. /\ Back' = Back /\ Result' = Result /\ Original(export)' = Original(export)
        /\ SameValue(value[1], value[2])' = SameValue(value[1], value[2])
    BY <2>1 DEF Result, WrittenFst, WrittenVcd, OutputValue, WrittenReal, WrittenString,
                WrittenDigits, WidthFits, Extended, Back, Original, SameValue
  <2> QED
    BY <2>1, <2>2 DEF ExportInv
<1> QED
  BY <1>0, <1>1, <1>2, <1>3, <1>4 DEF ExportNext

LEMMA SpecExport == ExportSpec => []ExportInv
BY ExportStart, ExportStep, PTL DEF ExportSpec

-------------------------------------------------------------------------------
(* Characters and texts. *)
LEMMA Alphabet ==
    /\ Blank \in Characters /\ Code \in Characters /\ States \cup {"X", "u"} \subseteq Characters
    /\ States \cup Uppercase \subseteq Characters
    /\ Strings \subseteq Seq(Characters) /\ Refused \notin Seq(Characters) /\ Sizes \subseteq Nat
    /\ \A f \in Floats : RealText(f) \in Characters /\ RealText(f) # Blank
BY ExportAssumption DEF Uppercase

LEMMA TextOf ==
    ASSUME NEW S, NEW T, S \subseteq T, NEW n \in Nat, NEW chars \in [1 .. n -> S]
    PROVE  chars \in Seq(T) /\ Len(chars) = n
OBVIOUS

LEMMA Joined ==
    ASSUME NEW S, NEW s \in Seq(S), NEW t \in Seq(S)
    PROVE  /\ s \o t \in Seq(S) /\ Len(s \o t) = Len(s) + Len(t)
           /\ \A i \in 1 .. Len(s) + Len(t) :
                (s \o t)[i] = IF i <= Len(s) THEN s[i] ELSE t[i - Len(s)]
OBVIOUS

LEMMA OneCharacter ==
    ASSUME NEW S, NEW c \in S
    PROVE  << c >> \in Seq(S) /\ Len(<< c >>) = 1 /\ << c >>[1] = c
OBVIOUS

LEMMA ThreeCharacters ==
    ASSUME NEW S, NEW c \in S, NEW d \in S
    PROVE  << c, d, c >> \in Seq(S) /\ Len(<< c, d, c >>) = 3 /\ << c, d, c >>[1] = c
OBVIOUS

NoBlank(chars) == \A i \in DOMAIN chars : chars[i] # Blank

(* The text of a change: of a vector, digits, of a real, one character.    *)
LEMMA ChangeForms ==
    ASSUME NEW e \in Exports
    PROVE  /\ e.var.type \in {"vector", "real", "string"} /\ e.var.size \in Nat
           /\ e.target \in {"vcd", "fst"} /\ e.alone \in BOOLEAN /\ e.format \in {"fst", "vcd"}
           /\ \/ /\ e.change.form = "number" /\ e.change.float \in Floats
                 /\ e.var.type # "string"
              \/ /\ e.change.form = "text" /\ e.change.chars \in Seq(Characters)
                 /\ e.var.type # "real"
                 /\ e.var.type = "vector" => NoBlank(e.change.chars)
<1>1. PICK source \in {"fst", "vcd"}, var \in Declarations :
          e \in ExportsOf(source, var)
  BY DEF Exports
<1>2. e.var = var /\ e.change \in SourceChanges(source, var) /\ e.format = source
      /\ e.target \in {"vcd", "fst"} /\ e.alone \in BOOLEAN
  BY <1>1 DEF ExportsOf
<1>3. var.type \in {"vector", "real", "string"} /\ var.size \in Nat
  BY Alphabet DEF Declarations
<1>4. ASSUME var.type = "real"
      PROVE  e.change.form = "number" /\ e.change.float \in Floats
  <2>1. PICK f \in Floats : e.change = Real(f)
    BY <1>2, <1>4 DEF SourceChanges, FstChanges, VcdChanges
  <2> QED
    BY <2>1 DEF Real
<1>5. ASSUME var.type = "string"
      PROVE  e.change.form = "text" /\ e.change.chars \in Seq(Characters)
  <2>1. PICK s \in Strings : e.change = Bytes(s)
    BY <1>2, <1>5 DEF SourceChanges, FstChanges, VcdChanges
  <2> QED
    BY <2>1, Alphabet DEF Bytes
<1>6. ASSUME var.type = "vector"
      PROVE  \/ e.change.form = "number" /\ e.change.float \in Floats
             \/ /\ e.change.form = "text" /\ e.change.chars \in Seq(Characters)
                /\ NoBlank(e.change.chars)
  <2>1. CASE \E f \in Floats : e.change = Real(f)
    BY <2>1 DEF Real
  <2>2. CASE \E n \in Nat : \E d \in [1 .. n -> States \cup {"X", "u"}] : e.change = Bytes(d)
    <3>0. PICK n \in Nat : \E d \in [1 .. n -> States \cup {"X", "u"}] : e.change = Bytes(d)
      BY <2>2
    <3>1. PICK d \in [1 .. n -> States \cup {"X", "u"}] : e.change = Bytes(d)
      BY <3>0
    <3>2. d \in Seq(Characters)
      BY Alphabet, TextOf
    <3>3. NoBlank(d)
      BY DEF NoBlank, States, Blank
    <3> QED
      BY <3>1, <3>2, <3>3 DEF Bytes
  <2>3. CASE source = "fst"
    BY <1>2, <1>3, <1>6, <2>2, <2>3 DEF SourceChanges, FstChanges
  <2>4. CASE source = "vcd"
    <3>1. \/ \E f \in Floats : e.change = Real(f)
          \/ \E d \in BoundedSeq(States, VcdDigits) : e.change = Bytes(d)
      BY <1>2, <1>6, <2>4 DEF SourceChanges, VcdChanges
    <3>2. ASSUME NEW d \in BoundedSeq(States, VcdDigits)
          PROVE  \E n \in Nat : d \in [1 .. n -> States \cup {"X", "u"}]
      <4>1. PICK n \in 0 .. VcdDigits : d \in [1 .. n -> States]
        BY DEF BoundedSeq, SeqOf
      <4> QED
        BY <4>1
    <3> QED
      BY <3>1, <3>2, <2>1, <2>2
  <2> QED
    BY <2>3, <2>4
<1> QED
  BY <1>2, <1>3, <1>4, <1>5, <1>6

(* The text of a real can be read as that real, and the text of what a     *)
(* text is read as is that text.                                           *)
LEMMA ParsedBack ==
    /\ \A f \in Floats : Parsed(RealChars(f)) = f
    /\ \A chars : Parsed(chars) # None => Parsed(chars) \in Floats /\ RealChars(Parsed(chars)) = chars
<1>1. \A f, g \in Floats : RealChars(f) = RealChars(g) => f = g
  BY ExportAssumption DEF RealChars
<1>2. None \notin Floats
  BY FloatsAssumption DEF Floats
<1> QED
  BY <1>1 DEF Parsed

(* The first token of a line is its value, if the value has no blanks.     *)
LEMMA ValueIsFirst ==
    ASSUME NEW chars \in Seq(Characters), chars # <<>>, NoBlank(chars)
    PROVE  FirstToken(chars \o << Blank, Code, Blank >>) = chars
<1> DEFINE tail == << Blank, Code, Blank >>
           line == chars \o tail
           n    == Len(chars)
<1>0. tail \in Seq(Characters) /\ Len(tail) = 3 /\ tail[1] = Blank
  BY Alphabet, ThreeCharacters
<1> HIDE DEF tail
<1>1. /\ n \in Nat /\ n > 0 /\ Len(line) = n + 3 /\ line \in Seq(Characters)
      /\ \A i \in 1 .. n : line[i] = chars[i]
      /\ line[n + 1] = Blank
  <2>1. n \in Nat /\ n > 0
    OBVIOUS
  <2>2. /\ line \in Seq(Characters) /\ Len(line) = n + 3
        /\ \A i \in 1 .. n + 3 : line[i] = IF i <= n THEN chars[i] ELSE tail[i - n]
    <3>1. /\ line \in Seq(Characters) /\ Len(line) = n + Len(tail)
          /\ \A i \in 1 .. n + Len(tail) : line[i] = IF i <= n THEN chars[i] ELSE tail[i - n]
      BY <1>0, Joined
    <3> QED
      BY <1>0, <3>1
  <2>3. \A i \in 1 .. n : line[i] = chars[i]
    BY <2>1, <2>2
  <2>4. line[n + 1] = tail[(n + 1) - n]
    BY <2>1, <2>2
  <2> QED
    BY <1>0, <2>1, <2>2, <2>3, <2>4
<1> HIDE DEF line
<1>2. \A i \in 1 .. n : line[i] # Blank
  BY <1>1 DEF NoBlank
<1>3. SelectInSeq(line, LAMBDA c : c # Blank) = 1
  <2> DEFINE places == {i \in 1 .. Len(line) : line[i] # Blank}
  <2>1. 1 \in places /\ \A i \in places : 1 <= i /\ i \in Nat
    BY <1>1, <1>2
  <2>2. Min(places) = 1
    <3> HIDE DEF places
    <3> QED BY <2>1 DEF Min
  <2> QED
    BY <2>1, <2>2 DEF SelectInSeq
<1>4. SubSeq(line, 1, Len(line)) = line
  BY <1>1
<1>5. SelectInSeq(line, LAMBDA c : c = Blank) = n + 1
  <2> DEFINE places == {i \in 1 .. Len(line) : line[i] = Blank}
  <2>1. n + 1 \in places /\ \A i \in places : n + 1 <= i /\ i \in Nat
    BY <1>1, <1>2
  <2>2. Min(places) = n + 1
    <3> HIDE DEF places
    <3> QED BY <2>1, <1>1 DEF Min
  <2> QED
    BY <2>1, <2>2 DEF SelectInSeq
<1>6. SubSeq(line, 1, n) = chars
  BY <1>1
<1>7. FirstToken(line) = SubSeq(line, 1, (n + 1) - 1)
  BY <1>3, <1>4, <1>5 DEF FirstToken
<1> QED
  BY <1>1, <1>6, <1>7 DEF line, tail

(* Digits that are written are those of the change in lower case.          *)
LEMMA DigitsWritten ==
    ASSUME NEW chars \in Seq(Characters), WrittenDigits(chars) # Refused
    PROVE  /\ WrittenDigits(chars) = Lower(chars)
           /\ chars # <<>> /\ Len(chars) <= export.var.size
           /\ Lower(chars) \in Seq(States) /\ Len(Lower(chars)) = Len(chars)
<1>1. /\ WrittenDigits(chars) = Lower(chars)
      /\ chars # <<>> /\ Len(chars) <= export.var.size
      /\ ToSet(chars) \subseteq States \cup Uppercase
  BY DEF WrittenDigits, WidthFits, FourState
<1>2. \A i \in 1 .. Len(chars) : chars[i] \in States \cup Uppercase
  BY <1>1 DEF ToSet
<1>3. \A i \in 1 .. Len(chars) : Lower(chars)[i] \in States
  BY <1>2 DEF Lower, States, Uppercase
<1>4. Lower(chars) = [i \in 1 .. Len(chars) |-> Lower(chars)[i]]
  BY DEF Lower
<1>5. Lower(chars) \in [1 .. Len(chars) -> States]
  BY <1>3, <1>4
<1> QED
  BY <1>1, <1>5, TextOf

(* What a VCD file gets is the text of the change, digits in lower case.   *)
LEMMA VcdText ==
    ASSUME export \in Exports, export.target = "vcd", Result # Refused
    PROVE  /\ Result = IF export.var.type = "vector" THEN Lower(CharsOf(export.change))
                                                     ELSE CharsOf(export.change)
           /\ Result \in Seq(Characters) /\ Result # <<>> /\ NoBlank(Result)
<1> DEFINE v == OutputValue
           text == CharsOf(export.change)
<1>1. Result = WrittenVcd(v)
  BY ChangeForms DEF Result
<1>2. /\ v.form = "number" => v.float \in Floats /\ text = RealChars(v.float)
      /\ v.form # "number" => v.form = "text" /\ v.chars = text
  BY ChangeForms DEF OutputValue, CharsOf, Bytes
<1>3. text \in Seq(Characters) /\ (export.var.type # "string" => NoBlank(text))
  <2>1. CASE export.change.form = "number"
    <3>1. text = << RealText(export.change.float) >> /\ export.change.float \in Floats
      BY <2>1, ChangeForms DEF CharsOf, RealChars
    <3> QED
      BY <3>1, ExportAssumption DEF NoBlank
  <2>2. CASE export.change.form = "text"
    <3>1. text = export.change.chars
      BY <2>2 DEF CharsOf
    <3> QED
      BY <2>2, <3>1, ChangeForms
  <2> QED
    BY <2>1, <2>2, ChangeForms
<1>4. CASE v.form = "number" \/ export.var.type = "real"
  <2> DEFINE float == IF v.form = "number" THEN v.float ELSE Parsed(v.chars)
  <2>1. WrittenVcd(v) = WrittenReal(v)
    BY <1>4 DEF WrittenVcd
  <2>2. export.var.type = "real" /\ float # None /\ WrittenReal(v) = RealChars(float)
    BY <1>1, <2>1 DEF WrittenReal
  <2>3. RealChars(float) = text
    BY <1>2, <2>2, ParsedBack
  <2>4. text # <<>>
    <3>1. Len(text) = 1
      BY <2>3, OneCharacter DEF RealChars
    <3> QED
      BY <3>1
  <2> QED
    BY <1>1, <1>3, <2>1, <2>2, <2>3, <2>4
<1>5. CASE v.form # "number" /\ export.var.type = "string"
  <2>1. WrittenVcd(v) = WrittenString(text)
    BY <1>2, <1>5 DEF WrittenVcd
  <2>2. WrittenString(text) = text /\ text # <<>> /\ ~Contains(text, Blank)
    BY <1>1, <2>1 DEF WrittenString
  <2>3. NoBlank(text)
    BY <1>3, <2>2 DEF NoBlank, Contains
  <2> QED
    BY <1>1, <1>3, <1>5, <2>1, <2>2, <2>3
<1>6. CASE v.form # "number" /\ export.var.type = "vector"
  <2>1. WrittenVcd(v) = WrittenDigits(text)
    BY <1>2, <1>6 DEF WrittenVcd
  <2>2. /\ Result = Lower(text) /\ text # <<>>
        /\ Lower(text) \in Seq(States) /\ Len(Lower(text)) = Len(text)
    BY <1>1, <1>3, <2>1, DigitsWritten
  <2>3. Lower(text) \in Seq(Characters) /\ NoBlank(Lower(text))
    <3>1. Lower(text) \in [1 .. Len(Lower(text)) -> States]
      BY <2>2
    <3>2. Lower(text) \in Seq(Characters)
      BY <2>2, <3>1, Alphabet, TextOf
    <3>3. NoBlank(Lower(text))
      BY <3>1 DEF States, NoBlank, Blank
    <3> QED
      BY <3>2, <3>3
  <2>4. Lower(text) # <<>>
    BY <1>3, <2>2
  <2> QED
    BY <1>6, <2>2, <2>3, <2>4
<1> QED
  BY <1>4, <1>5, <1>6, ChangeForms

(* What an FST file gets: digits of the declared width, the last of them   *)
(* those of the change.                                                    *)
LEMMA FstDigits ==
    ASSUME export \in Exports, export.target = "fst", Result # Refused
    PROVE  LET chars == Lower(CharsOf(export.change))
               short == export.var.size - Len(chars)
           IN  /\ chars \in Seq(States) /\ chars # <<>> /\ short \in Nat
               /\ Result = Extended(chars)
               /\ Len(Result) = export.var.size
               /\ \A i \in DOMAIN Result :
                    Result[i] = IF i > short THEN chars[i - short]
                                ELSE IF chars[1] \in {"0", "1"} THEN "0" ELSE chars[1]
<1> DEFINE v     == OutputValue
           text  == CharsOf(export.change)
           chars == Lower(text)
           short == export.var.size - Len(chars)
           fill  == IF Head(chars) \in {"x", "z"} THEN Head(chars) ELSE "0"
<1>1. Result = WrittenFst(v)
  BY DEF Result
<1>2. v.form # "number" /\ WrittenDigits(v.chars) # Refused /\ Result = Extended(WrittenDigits(v.chars))
  BY <1>1 DEF WrittenFst
<1>3. v.chars = text
  BY <1>2, ChangeForms DEF OutputValue, CharsOf, Bytes
<1>4. text \in Seq(Characters)
  BY ChangeForms, ExportAssumption DEF CharsOf, RealChars
<1>5. /\ Result = Extended(chars) /\ text # <<>> /\ Len(text) <= export.var.size
      /\ chars \in Seq(States) /\ Len(chars) = Len(text)
  BY <1>2, <1>3, <1>4, DigitsWritten
<1>6. chars # <<>> /\ short \in Nat /\ Len(chars) \in Nat /\ Len(chars) > 0
  BY <1>4, <1>5, ChangeForms
<1>7. chars[1] \in States /\ Head(chars) = chars[1]
  BY <1>5, <1>6
<1>8. fill = IF chars[1] \in {"0", "1"} THEN "0" ELSE chars[1]
  BY <1>7 DEF States
<1>9. Result = [i \in 1 .. short |-> fill] \o chars
  BY <1>5 DEF Extended
<1> HIDE DEF chars, short, fill
<1> DEFINE zeros == [i \in 1 .. short |-> fill]
           S == States \cup {fill}
<1>10. zeros \in Seq(S) /\ Len(zeros) = short /\ chars \in Seq(S)
  <2>1. zeros \in [1 .. short -> S] /\ chars \in [1 .. Len(chars) -> States]
    BY <1>5
  <2> QED
    BY <1>6, <2>1, TextOf
<1>11. /\ Len(Result) = short + Len(chars) /\ DOMAIN Result = 1 .. short + Len(chars)
       /\ \A i \in 1 .. short + Len(chars) :
            Result[i] = IF i > short THEN chars[i - short] ELSE fill
  <2>1. Result = zeros \o chars
    BY <1>5, <1>9
  <2>2. /\ Result \in Seq(S) /\ Len(Result) = Len(zeros) + Len(chars)
        /\ \A i \in 1 .. Len(zeros) + Len(chars) :
             Result[i] = IF i <= Len(zeros) THEN zeros[i] ELSE chars[i - Len(zeros)]
    <3> HIDE DEF zeros, S
    <3> QED
      BY <1>10, <2>1, Joined
  <2>3. \A i \in 1 .. short : zeros[i] = fill
    OBVIOUS
  <2>4. \A i \in 1 .. short + Len(chars) :
            Result[i] = IF i > short THEN chars[i - short] ELSE fill
    <3> HIDE DEF zeros
    <3> QED
      BY <1>6, <1>10, <2>2, <2>3
  <2>5. Len(Result) = short + Len(chars) /\ DOMAIN Result = 1 .. short + Len(chars)
    <3> HIDE DEF zeros, S
    <3> QED
      BY <1>10, <2>2
  <2> QED
    BY <2>4, <2>5
<1>12. short + Len(chars) = export.var.size
  BY <1>6, ChangeForms DEF short
<1> QED
  BY <1>5, <1>6, <1>8, <1>11, <1>12 DEF chars, short

(* So what is read back is what was written.                               *)
LEMMA BackIsWritten ==
    ASSUME export \in Exports, written = Result, Result # Refused
    PROVE  Back = Result
<1>1. CASE export.target = "fst"
  BY <1>1 DEF Back
<1>2. CASE export.target = "vcd"
  BY <1>2, VcdText, ValueIsFirst DEF Back
<1> QED
  BY <1>1, <1>2, ChangeForms

(* What is read back from an exported file is what was exported: the same  *)
(* text in a VCD file, digits in lower case; the same digits, extended to  *)
(* the declared width, in an FST file.                                     *)
THEOREM ExportedFaithfully == ExportSpec => []ExportFaithful
<1>1. ExportInv => ExportFaithful
  <2> SUFFICES ASSUME ExportInv, Exported PROVE ExportFaithful
    BY DEF ExportFaithful
  <2>1. export \in Exports /\ written = Result /\ Result # Refused
    BY DEF ExportInv, Exported
  <2>2. Back = Result
    BY <2>1, BackIsWritten
  <2>3. CASE export.target = "vcd"
    BY <2>1, <2>2, <2>3, VcdText DEF ExportFaithful
  <2>4. CASE export.target = "fst"
    BY <2>1, <2>2, <2>4, FstDigits DEF ExportFaithful
  <2> QED
    BY <2>1, <2>3, <2>4, ChangeForms
<1> QED
  BY <1>1, SpecExport, PTL

(* A four-state vector of the declared width in either format, a real or a *)
(* string in a VCD file are exported, with their own text.                 *)
LEMMA ConvertibleWritten ==
    ASSUME export \in Exports, Convertible
    PROVE  Result = CharsOf(export.change) /\ Result # Refused
<1> DEFINE v    == OutputValue
           text == CharsOf(export.change)
<1>1. CASE export.var.type = "vector"
  <2>1. /\ export.change.form = "text" /\ text \in [1 .. export.var.size -> States]
        /\ export.var.size \in Nat /\ export.var.size > 0
    BY <1>1, ChangeForms DEF Convertible, CharsOf
  <2>2. text \in Seq(Characters) /\ Len(text) = export.var.size /\ text # <<>>
    <3>1. text \in Seq(Characters) /\ Len(text) = export.var.size
      BY <2>1, Alphabet, TextOf
    <3> QED
      BY <2>1, <3>1
  <2>3. Lower(text) = text
    <3>1. \A i \in DOMAIN text : text[i] \in States
      BY <2>1
    <3>2. \A i \in DOMAIN text : Lower(text)[i] = text[i]
      BY <3>1 DEF Lower, States
    <3> QED
      BY <2>1, <3>2 DEF Lower
  <2>4. ToSet(text) \subseteq States \cup Uppercase
    BY <2>1 DEF ToSet
  <2>5. WrittenDigits(text) = text /\ text # Refused
    BY <2>2, <2>3, <2>4, ExportAssumption DEF WrittenDigits, WidthFits, FourState
  <2>6. v.form = "text" /\ v.chars = text
    BY <2>1 DEF OutputValue, Bytes, CharsOf
  <2>7. CASE export.target = "vcd"
    BY <1>1, <2>5, <2>6, <2>7 DEF Result, WrittenVcd
  <2>8. CASE export.target = "fst"
    <3>1. Result = Extended(text)
      BY <1>1, <2>5, <2>6, <2>8 DEF Result, WrittenFst
    <3>2. PICK fill : Extended(text) = [i \in 1 .. export.var.size - Len(text) |-> fill] \o text
      BY DEF Extended
    <3>3. [i \in 1 .. export.var.size - Len(text) |-> fill] = <<>>
      BY <2>1, <2>2
    <3>4. <<>> \o text = text
      BY <2>2
    <3> QED
      BY <2>5, <3>1, <3>2, <3>3, <3>4
  <2> QED
    BY <2>7, <2>8, ChangeForms
<1>2. CASE export.var.type = "real"
  <2>1. export.target = "vcd" /\ export.change.form = "number" /\ export.change.float \in Floats
    BY <1>2, ChangeForms DEF Convertible
  <2> DEFINE float == IF v.form = "number" THEN v.float ELSE Parsed(v.chars)
  <2>2. float = export.change.float /\ text = RealChars(export.change.float)
    BY <2>1, ParsedBack DEF OutputValue, Bytes, CharsOf
  <2>3. float # None
    BY <2>1, <2>2, FloatsAssumption DEF Floats
  <2>4. WrittenReal(v) = text
    BY <1>2, <2>2, <2>3 DEF WrittenReal
  <2>5. Result = text
    BY <1>2, <2>1, <2>4 DEF Result, WrittenVcd
  <2>6. text \in Seq(Characters)
    BY <2>1, <2>2, ExportAssumption DEF RealChars
  <2> QED
    BY <2>5, <2>6, ExportAssumption
<1>3. CASE export.var.type = "string"
  <2>1. /\ export.target = "vcd" /\ export.change.form = "text"
        /\ text = export.change.chars /\ text \in Seq(Characters)
        /\ text # <<>> /\ ~Contains(text, Blank)
    BY <1>3, ChangeForms DEF Convertible, CharsOf
  <2>2. v.form = "text" /\ v.chars = text
    BY <2>1 DEF OutputValue, Bytes, CharsOf
  <2>3. Result = WrittenString(text)
    BY <1>3, <2>1, <2>2 DEF Result, WrittenVcd
  <2> QED
    BY <2>1, <2>3, ExportAssumption DEF WrittenString
<1> QED
  BY <1>1, <1>2, <1>3, ChangeForms

(* A converted file compares equal to its source, under any tolerance.     *)
THEOREM ConversionExact == ExportSpec => []ConvertedSame
<1>1. ExportInv => ConvertedSame
  <2> SUFFICES ASSUME ExportInv, export # None, Convertible
               PROVE  stage # "refused" /\ same # "no"
    BY DEF ConvertedSame
  <2>1. export \in Exports /\ stage \in Stages
    BY DEF ExportInv
  <2>2. Result = CharsOf(export.change) /\ Result # Refused
    BY <2>1, ConvertibleWritten
  <2>3. stage # "refused"
    BY <2>2 DEF ExportInv
  <2>4. ASSUME stage = "given" PROVE SameValue(value[1], value[2])
    <3> DEFINE text == CharsOf(export.change)
    <3>1. value[2] = AsText(text)
      BY <2>1, <2>2, <2>4, BackIsWritten DEF ExportInv
    <3>2. value[1] = Original(export)
      BY DEF ExportInv
    <3>3. CASE export.format = "fst" /\ export.change.form = "number"
      <4>1. /\ value[1].form = "number" /\ value[1].float = export.change.float
            /\ value[1].spelling = "plain"
        BY <3>2, <3>3 DEF Original, Number
      <4>2. Parsed(text) = export.change.float /\ Parsed(text) # None
        BY <2>1, <3>3, ChangeForms, ParsedBack, FloatsAssumption DEF CharsOf, Floats
      <4>3. /\ value[2].form = "text" /\ value[2].float = export.change.float
            /\ value[2].spelling = "plain"
        BY <3>1, <4>2 DEF AsText, Text
      <4> QED
        BY <4>1, <4>3 DEF SameValue, ApproxEq, Equal
    <3>4. CASE ~(export.format = "fst" /\ export.change.form = "number")
      <4>1. value[1] = AsText(text)
        BY <3>2, <3>4 DEF Original
      <4>2. value[1] = value[2] /\ value[2].form = "text"
        BY <3>1, <4>1 DEF AsText, Text
      <4> QED
        BY <4>2 DEF SameValue, ApproxEq, Equal
    <3> QED
      BY <3>3, <3>4
  <2>5. same # "no"
    BY <2>4 DEF ExportInv
  <2> QED
    BY <2>3, <2>5
<1> QED
  BY <1>1, SpecExport, PTL
===============================================================================
