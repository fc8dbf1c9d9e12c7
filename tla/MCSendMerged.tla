------------------------------ MODULE MCSendMerged ------------------------------
(* Small instances of SendMerged: an FST and a VCD reader, times 0 to 3 with the *)
(* window 1..2, and a handle that the filter removed.                            *)
EXTENDS SendPlan

Changes(T, H) == {[time |-> t, handle |-> h] : t \in T, h \in H}
Files(C, n) == {f \in BoundedSeq(C, n) : Monotone(f)}

FilteredHandle1 == [r \in 1..MaxReaders |-> {0}]

\* Reader 1 reads an FST file, reader 2 a VCD file.
TwoFiles ==
  {<<f, g>> :
     f \in Files(Changes({0, 1, 2}, {0}), 3) \cup Files(Changes({1, 2}, {0, 1}), 2)
           \cup Files(Changes({1, 3}, {0}), 2),
     g \in Files(Changes({1, 2, 3}, {0}), 3)}
\* A lone reader.
OneFile == {<<f>> : f \in Files(Changes({0, 1, 2, 3}, {0, 1}), 4)}
MCInputs == TwoFiles \cup OneFile
MCEnds == {2, NoEnd}
AllFailures == SUBSET (1..MaxReaders)
=============================================================================
