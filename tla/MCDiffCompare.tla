----------------------------- MODULE MCDiffCompare -----------------------------
(* Small instances of DiffCompare. *)
EXTENDS DiffCompare, SequencesExt

Equal == {<<v, v>> : v \in Values}

\* One name of handle 1 of set 1 and the one of its handle 2 share handle 2 of set 2.
AliasMapping == [h \in Handles1 |-> IF h = 1 THEN <<1, 2>> ELSE <<2>>]

Chg(h, v) == [handle |-> h, value |-> v]
Bat(t, c) == [time |-> t, changes |-> c]

-------------------------------------------------------------------------------
(* Streams of files that change a signal at most once at a time, in time order. *)
Times == 1..2
Contents == {f \in [Times \X (1..2) -> Values \cup {NoValue}] :
               \A t \in Times : f[<<t, 2>>] # 1}

\* The batches of time t, the handles in the given order, split or not by BATCH_SIZE.
TimeBatches(f, t, order, split) ==
  LET used == SelectSeq(order, LAMBDA h : f[<<t, h>>] # NoValue)
      chg(n) == Chg(used[n], f[<<t, used[n]>>])
  IN IF used = << >> THEN << >>
     ELSE IF split THEN [n \in DOMAIN used |-> Bat(t, <<chg(n)>>)]
     ELSE <<Bat(t, [n \in DOMAIN used |-> chg(n)])>>

StreamOf(f, order, split) ==
  TimeBatches(f, 1, order, split) \o TimeBatches(f, 2, order, split)

\* At time 2 only signal 1 of set 1 changes, to 0.
InOrderInputs ==
  {<<StreamOf(f, <<1, 2>>, FALSE), StreamOf(g, order, split)>> :
     f \in {c \in Contents : c[<<2, 2>>] = NoValue /\ c[<<2, 1>>] # 1}, g \in Contents,
     order \in {<<1, 2>>, <<2, 1>>}, split \in BOOLEAN}

-------------------------------------------------------------------------------
(* Streams of files with repeated values at one time or times that go back. *)
Menu1 == {Bat(1, <<Chg(1, 0)>>), Bat(2, <<Chg(1, 0)>>), Bat(1, <<Chg(1, 0), Chg(1, 1)>>)}
Menu2 == Menu1 \cup {Bat(1, <<Chg(2, 0)>>), Bat(2, <<Chg(2, 0), Chg(1, 0)>>),
                     Bat(1, <<Chg(2, 0), Chg(1, 0), Chg(1, 1)>>)}

AnyInputs == BoundedSeq(Menu1, 2) \X BoundedSeq(Menu2, 2)

MCInputs == InOrderInputs \cup AnyInputs

-------------------------------------------------------------------------------
(* Files for the statements of the documentation. *)
Direct == [h \in Handles1 |-> <<h>>]

\* A file compared with itself; signal 2 changes twice at time 1.
SelfInputs == {<<f, f>> : f \in BoundedSeq({Bat(1, <<Chg(1, 0), Chg(2, 0), Chg(2, 1)>>),
                                            Bat(1, <<Chg(1, 0)>>), Bat(2, <<Chg(2, 0)>>)}, 2)}

=============================================================================
