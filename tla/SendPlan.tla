--------------------------------- MODULE SendPlan ---------------------------------
(***************************************************************************)
(* SendMerged implements BatchSource: what reaches the comparison does not *)
(* depend on how the threads interleave, not even when a reader fails. The *)
(* auxiliary variable plan holds the stream that the files determine; no   *)
(* step of SendMerged looks at it.                                         *)
(***************************************************************************)
EXTENDS SendMerged, SequencesExt

VARIABLE plan

\* A VCD reader that stops at End does not meet the failure of its file.
Failing(r) == r \in fails /\ \A n \in DOMAIN file[r] : ~StopsAt(r, file[r][n])

\* The selected changes of reader r, in runs of one time cut at BATCH_SIZE.
Kept(r) == SelectSeq([n \in DOMAIN file[r] |-> <<r, n>>], LAMBDA x : Selected(r, file[r][x[2]]))

Joins(bs, x) == bs # << >> /\ BatchTime(Last(bs)) = Time(x) /\ Len(Last(bs)) < BatchSize
Grouped(xs) ==
  FoldLeft(LAMBDA bs, x : IF Joins(bs, x) THEN Append(Front(bs), Append(Last(bs), x))
                          ELSE Append(bs, <<x>>), << >>, xs)

\* The batches reader r sends: all of them, but for the last one if it fails.
Batches(r) ==
  LET bs == Grouped(Kept(r)) IN IF Failing(r) /\ bs # << >> THEN Front(bs) ELSE bs

\* The batches of all readers by time, then reader, then position in the file.
Earlier(b, c) ==
  \/ BatchTime(b) < BatchTime(c)
  \/ /\ BatchTime(b) = BatchTime(c)
     /\ b[1][1] < c[1][1] \/ (b[1][1] = c[1][1] /\ b[1][2] < c[1][2])
MergedStream == SortSeq(FlattenSeq([r \in Readers |-> Batches(r)]), Earlier)

PlannedInit == Init /\ plan = MergedStream
PlannedNext == Next /\ UNCHANGED plan
PlannedSpec == PlannedInit /\ [][PlannedNext]_<<vars, plan>> /\ Fairness

Source == INSTANCE BatchSource WITH
  stream <- plan, fails <- \E r \in Readers : Failing(r), status <- result

\* The comparison gets the selected changes of all files, batched by time, in one order
\* that only the files determine, and then the result of the readers.
Implements == Source!Spec

=============================================================================
