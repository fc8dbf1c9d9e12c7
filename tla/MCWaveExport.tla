----------------------------- MODULE MCWaveExport -----------------------------
(* Small instances of WaveExport: up to four items at times 0 to 3. *)
EXTENDS WaveExport, SequencesExt

ItemsAt(T, H) ==
  {x \in [time : T, handle : H \cup {NoHandle}, value : Values \cup {NoValue}] :
     x.handle = NoHandle <=> x.value = NoValue}
NonDecreasing(xs) == \A m, n \in DOMAIN xs : m <= n => xs[m].time <= xs[n].time

\* A VCD file with any commands.
AnyVcd == BoundedSeq(ItemsAt({0, 1, 2, 3}, {1, 3}), 3) \cup
          {xs \in BoundedSeq(ItemsAt({0, 1, 2, 3}, {1, 2}), 4) : NonDecreasing(xs)}

\* Merged readers: changes and markers of several files, the last item being a marker.
AnyMerged ==
  {xs \in BoundedSeq(ItemsAt({0, 1, 2}, {1, 2}), 4) : NonDecreasing(xs)}
  \cup BoundedSeq(ItemsAt({0, 2}, {1, 3}), 3)
EndsWithMarker == {xs \in AnyMerged : xs # << >> /\ Last(xs).handle = NoHandle}

Set(loneVcd, fst, start, end) == [loneVcd |-> loneVcd, fst |-> fst, start |-> start, end |-> end]

MCExports == (AnyVcd \X {Set(TRUE, FALSE, 1, 2), Set(TRUE, FALSE, 1, NoEnd)})
               \cup (EndsWithMarker \X {Set(FALSE, TRUE, 0, NoEnd), Set(FALSE, TRUE, 0, 0),
                                      Set(FALSE, FALSE, 1, 1)})
=============================================================================
