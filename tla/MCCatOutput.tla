---------------------------- MODULE MCCatOutput -----------------------------
(* Streams of up to three changes of two selected signals, one of them with *)
(* two names, and one signal that is not selected, at times 0 to 3, also   *)
(* decreasing, with the window 1 .. 2.                                     *)
EXTENDS CatOutput
MCNames == (0 :> << 2, 1 >>) @@ (1 :> << 3 >>)
Change3 == [time : 0 .. 3, handle : {0, 1}, value : {8}]
Later == {[time |-> t, handle |-> 0, value |-> 7] : t \in 1 .. 2}
Unselected == {[time |-> t, handle |-> 2, value |-> 9] : t \in 1 .. 2}
Finals == {[time |-> 2, handle |-> Nil, value |-> 0]}
MCChanges == BoundedSeq(Change3 \cup Later \cup Unselected \cup Finals, 3)
=============================================================================
