------------------------------ MODULE MCKWayMerge ------------------------------
(* Small instances of KWayMerge: up to three files with times 1 and 2. *)
EXTENDS KWayMerge, SequencesExt

TwoTimes == {ts \in BoundedSeq(1..2, 2) : Monotone(ts)}
AllInputs == [Readers -> TwoTimes]
AllFailures == SUBSET Readers
=============================================================================
