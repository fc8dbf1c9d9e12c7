--------------------------- MODULE OutputFileProofs ---------------------------
(***************************************************************************)
(* The creation of an output file, for all inputs, time scales and         *)
(* hierarchies.  It is created exactly if it can be written                *)
(* (CreatedIfWritable): the invariant adds which format each stage is of.  *)
(* An FST file declares the hierarchy (FstDeclares): the invariant follows *)
(* the sorted paths.  Those declared come before those to do; the scopes   *)
(* that are open are around the last one; a scope that was left is around  *)
(* none to do, for what is between two paths of a scope is in it           *)
(* (Between); and every name has its variable.                             *)
(*                                                                         *)
(* The printers write the lines of the changes in the window, sorted       *)
(* within a time if asked to (PrintsWanted): the text is that of a first   *)
(* part of the changes, and the lines held and still to come are of its    *)
(* last time or a later one.                                               *)
(*                                                                         *)
(* The declarations of a VCD file are those of the inputs                  *)
(* (DeclarationsKept), with their annotations (AnnotationsKeptIfClosed).   *)
(* Each pass has places of the inputs to write; the invariant XInv says    *)
(* that it has written those before the first entry not emitted, in their  *)
(* order, and that the emitter knows what that entry's place tells.  An    *)
(* entry in the output then stands to the others as it did in its file.    *)
(***************************************************************************)
EXTENDS OutputFile, CatOutput, DataProofs, TLAPS

Stages ==
    /\ format \in {"vcd", "fst"} /\ 1 \in DOMAIN scales
    /\ stage \in {"opened", "refused", "vcd", "fst", "done", "failed"}
    /\ stage = "vcd" => format = "vcd"
    /\ stage \in {"fst", "done", "failed"} => format = "fst"

IInv == Stages /\ CreatedIfWritable

-----------------------------------------------------------------------------
(* Units reach every exponent from 1 fs to 100 s, and no other.            *)
LEMMA UnitsReach ==
    ASSUME NEW e
    PROVE  (\E unit \in Units : e \in unit .. unit + 2) <=> e \in -15 .. 2
<1>1. ASSUME NEW unit \in Units, e \in unit .. unit + 2
      PROVE  e \in -15 .. 2
  BY <1>1 DEF Units
<1>2. ASSUME e \in -15 .. 2
      PROVE  \E unit \in Units : e \in unit .. unit + 2
  BY <1>2 DEF Units
<1> QED
  BY <1>1, <1>2

(* The power of ten of a factor is the one it was chosen for.              *)
LEMMA FactorOf ==
    ASSUME NEW d \in 0 .. 2
    PROVE  LET f == CHOOSE f \in {1, 10, 100} : Power(f) = d
           IN  f \in {1, 10, 100} /\ Power(f) = d
<1>1. Power(1) = 0 /\ Power(10) = 1 /\ Power(100) = 2
  BY DEF Power
<1>2. \E f \in {1, 10, 100} : Power(f) = d
  BY <1>1
<1> QED
  BY <1>2

(* vcd_timescale returns a scale that means the exponent, if there is one. *)
LEMMA VcdScalesExact ==
    ASSUME NEW e
    PROVE  /\ VcdScales(e) # {} <=> e \in -15 .. 2
           /\ \A s \in VcdScales(e) : Exponent(s) = e
<1>1. VcdScales(e) # {} <=> \E unit \in Units : e \in unit .. unit + 2
  BY DEF VcdScales
<1>2. ASSUME NEW s \in VcdScales(e)
      PROVE  Exponent(s) = e
  <2>1. PICK unit \in Units :
            /\ e \in unit .. unit + 2
            /\ s = [form |-> "vcd", unit |-> unit,
                    factor |-> CHOOSE f \in {1, 10, 100} : Power(f) = e - unit]
    BY DEF VcdScales
  <2>2. unit \in Int /\ e \in Int /\ e - unit \in 0 .. 2
    BY <2>1 DEF Units
  <2>3. s.factor \in {1, 10, 100} /\ Power(s.factor) = e - unit
    BY <2>1, <2>2, FactorOf
  <2>4. s.form = "vcd" /\ s.unit = unit
    BY <2>1
  <2>5. Exponent(s) = s.unit + Power(s.factor)
    BY <2>3, <2>4 DEF Exponent
  <2> QED
    BY <2>2, <2>3, <2>4, <2>5
<1> QED
  BY <1>1, <1>2, UnitsReach

(* No step of the export of declarations changes what was selected.        *)
LEMMA SelectionStays == Next => UNCHANGED selected
BY DEF Next, Hold, Declare, EndOfFile, Fail

-----------------------------------------------------------------------------
LEMMA InitInv == OutputInit => IInv
<1> SUFFICES ASSUME OutputInit
             PROVE  IInv
  OBVIOUS
<1>1. 1 \in DOMAIN scales
  <2>1. CASE Init /\ format = "vcd" /\ scales = [f \in DOMAIN files |-> [form |-> "none"]]
    BY <2>1, OutputAssumption DEF Init
  <2>2. CASE scales = << [form |-> "none"] >>
    BY <2>2
  <2>3. CASE scales \in {<< s >> : s \in Scales} \cup (Scales \X Scales)
    BY <2>3
  <2> QED
    BY <2>1, <2>2, <2>3 DEF OutputInit
<1>2. format \in {"vcd", "fst"} /\ stage = "opened"
  BY DEF OutputInit
<1> QED
  BY <1>1, <1>2 DEF IInv, Stages, CreatedIfWritable

(* The property of the next state, whose inputs are those of this one.     *)
LEMMA SameInputs ==
    ASSUME UNCHANGED << selected, format, scales >>,
           Stages',
           stage' \notin {"opened", "refused"} =>
             /\ \A i \in DOMAIN scales : Exponent(scales[i]) = scale'
             /\ format = "fst" => \A v \in selected : Last(v[2]) \in FstNames,
           stage' = "refused" =>
             \/ \E i, j \in DOMAIN scales : Exponent(scales[i]) # Exponent(scales[j])
             \/ \E i \in DOMAIN scales : Exponent(scales[i]) \notin -15 .. 2
             \/ format = "fst" /\ \E v \in selected : Last(v[2]) \notin FstNames
    PROVE  IInv'
BY DEF IInv, CreatedIfWritable, Exponent, Last

LEMMA StepInv == IInv /\ [OutputNext]_<< vars, outputVars >> => IInv'
<1> SUFFICES ASSUME IInv, [OutputNext]_<< vars, outputVars >>
             PROVE  IInv'
  OBVIOUS
<1>0. Stages /\ CreatedIfWritable
  BY DEF IInv
<1>1. CASE Refuse
  <2>1. /\ stage' = "refused" /\ UNCHANGED << selected, format, scales >>
        /\ ~Writable
    BY <1>1 DEF Refuse, vars
  <2>2. Stages'
    BY <1>0, <2>1 DEF Stages
  <2>3. \/ \E i, j \in DOMAIN scales : Exponent(scales[i]) # Exponent(scales[j])
        \/ \E i \in DOMAIN scales : Exponent(scales[i]) \notin -15 .. 2
        \/ format = "fst" /\ \E v \in selected : Last(v[2]) \notin FstNames
    <3>1. 1 \in DOMAIN scales
      BY <1>0 DEF Stages
    <3>2. CASE ~Agree
      BY <3>1, <3>2, OutputAssumption DEF Agree
    <3>3. CASE Agree /\ format = "vcd"
      <4>1. VcdScales(Exponent(scales[1])) = {}
        BY <2>1, <3>3 DEF Writable
      <4> QED
        BY <3>1, <4>1, VcdScalesExact
    <3>4. CASE Agree /\ format # "vcd"
      BY <1>0, <2>1, <3>4 DEF Writable, Expressible, Stages
    <3> QED
      BY <3>2, <3>3, <3>4
  <2> QED
    BY <2>1, <2>2, <2>3, SameInputs
<1>2. CASE CreateVcd
  <2>1. /\ stage' = "vcd" /\ format = "vcd" /\ Agree
        /\ UNCHANGED << selected, format, scales >>
        /\ \E s \in VcdScales(Exponent(scales[1])) : scale' = Exponent(s)
    BY <1>2 DEF CreateVcd, Writable, vars
  <2>2. scale' = Exponent(scales[1])
    BY <2>1, VcdScalesExact
  <2>3. \A i \in DOMAIN scales : Exponent(scales[i]) = scale'
    BY <2>1, <2>2 DEF Agree
  <2>4. Stages'
    BY <1>0, <2>1 DEF Stages
  <2> QED
    BY <2>1, <2>3, <2>4, SameInputs
<1>3. CASE CreateFst
  <2>1. /\ stage' = "fst" /\ format = "fst" /\ Agree /\ Expressible(selected)
        /\ UNCHANGED << selected, format, scales >>
        /\ scale' = Exponent(scales[1])
    BY <1>3 DEF CreateFst, Writable, vars
  <2>2. \A i \in DOMAIN scales : Exponent(scales[i]) = scale'
    BY <2>1 DEF Agree
  <2>3. Stages'
    BY <1>0, <2>1 DEF Stages
  <2> QED
    BY <2>1, <2>2, <2>3, SameInputs DEF Expressible
<1>4. ASSUME UNCHANGED << selected, format, scales, scale >>,
             \/ UNCHANGED stage
             \/ stage = "fst" /\ stage' \in {"done", "failed"}
      PROVE  IInv'
  <2>1. Stages'
    BY <1>0, <1>4 DEF Stages
  <2> QED
    BY <1>0, <1>4, <2>1, SameInputs DEF CreatedIfWritable
<1>5. CASE WriteHeader
  BY <1>4, <1>5, SelectionStays DEF WriteHeader, outputVars
<1>6. CASE DeclareVar
  BY <1>4, <1>6 DEF DeclareVar, vars
<1>7. CASE CloseScopes
  BY <1>4, <1>7 DEF CloseScopes, vars
<1>8. CASE FailFst
  BY <1>4, <1>8 DEF FailFst, vars
<1>9. CASE UNCHANGED << vars, outputVars >>
  BY <1>4, <1>9 DEF vars, outputVars
<1> QED
  BY <1>1, <1>2, <1>3, <1>5, <1>6, <1>7, <1>8, <1>9 DEF OutputNext

(* An output file is created exactly if the time scales of its inputs      *)
(* agree and the format can express them and every variable: whatever      *)
(* exists in its place is not replaced by a file that cannot be written.   *)
THEOREM CreatedExactly == OutputSpec => []CreatedIfWritable
<1>1. IInv => CreatedIfWritable
  BY DEF IInv
<1> QED
  BY <1>1, InitInv, StepInv, PTL DEF OutputSpec

-----------------------------------------------------------------------------
(* Paths and the scopes around them.                                       *)
NamesKnown == ToSet(NameOrder)
Below(P, q) == Len(P) < Len(q) /\ \A i \in 1 .. Len(P) : q[i] = P[i]

(* The names of paths have ranks.                                          *)
LEMMA RankTyped == \A name \in NamesKnown : Rank(name) \in Int
<1>1. NameOrder \in Seq(NamesKnown)
  BY OutputAssumption DEF NamesKnown
<1>2. \A name \in NamesKnown : \E k \in DOMAIN NameOrder : NameOrder[k] = name
  BY DEF NamesKnown, ToSet
<1>3. DOMAIN NameOrder \subseteq Int
  BY <1>1
<1> QED
  BY <1>2, <1>3 DEF Rank

(* A first part of a sequence.                                             *)
LEMMA FirstPart ==
    ASSUME NEW X, NEW s \in Seq(X), NEW k \in 0 .. Len(s)
    PROVE  /\ SubSeq(s, 1, k) \in Seq(X) /\ Len(SubSeq(s, 1, k)) = k
           /\ \A i \in 1 .. k : SubSeq(s, 1, k)[i] = s[i]
OBVIOUS

(* One sequence after the other.                                           *)
Joins(s, a, b, X) ==
    /\ s \in Seq(X) /\ Len(s) = Len(a) + Len(b)
    /\ \A i \in 1 .. Len(a) : s[i] = a[i]
    /\ \A i \in 1 .. Len(b) : s[Len(a) + i] = b[i]

LEMMA TwoParts ==
    ASSUME NEW X, NEW a \in Seq(X), NEW b \in Seq(X)
    PROVE  Joins(a \o b, a, b, X)
BY DEF Joins

(* The lesser of two numbers.                                              *)
LEMMA LesserOf == \A a, b \in Int : Min({a, b}) \in {a, b} /\ Min({a, b}) <= a /\ Min({a, b}) <= b
<1> SUFFICES ASSUME NEW a \in Int, NEW b \in Int
             PROVE  Min({a, b}) \in {a, b} /\ Min({a, b}) <= a /\ Min({a, b}) <= b
  OBVIOUS
<1>1. \E x \in {a, b} : \A y \in {a, b} : x <= y
  <2>1. CASE a <= b
    BY <2>1
  <2>2. CASE b <= a
    BY <2>2
  <2> QED
    BY <2>1, <2>2
<1> QED
  BY <1>1 DEF Min

(* The order of paths, element by element.                                 *)
LEMMA PrecedesIs ==
    ASSUME NEW p \in Seq(NamesKnown), NEW q \in Seq(NamesKnown), Precedes(p, q)
    PROVE  \E k \in 0 .. Len(p) :
             /\ k <= Len(q) /\ \A i \in 1 .. k : p[i] = q[i]
             /\ \/ k = Len(p)
                \/ k < Len(p) /\ k < Len(q) /\ Rank(p[k + 1]) < Rank(q[k + 1])
<1>1. Len(p) \in Nat /\ Len(q) \in Nat
  OBVIOUS
<1>2. PICK k \in 0 .. Min({Len(p), Len(q)}) :
         /\ SubSeq(p, 1, k) = SubSeq(q, 1, k)
         /\ k = Len(p) \/ (k < Len(q) /\ Rank(p[k + 1]) < Rank(q[k + 1]))
  BY DEF Precedes
<1>3. k \in 0 .. Len(p) /\ k \in 0 .. Len(q)
  <2> DEFINE a == Len(p)
             b == Len(q)
             m == Min({a, b})
  <2>1. a \in Int /\ b \in Int
    BY <1>1
  <2> HIDE DEF a, b
  <2>2. m \in {a, b} /\ m <= a /\ m <= b
    BY <2>1, LesserOf
  <2>3. k \in 0 .. m
    BY DEF a, b
  <2> HIDE DEF m
  <2> QED
    BY <2>1, <2>2, <2>3 DEF a, b
<1>4. \A i \in 1 .. k : p[i] = q[i]
  <2>1. \A i \in 1 .. k : SubSeq(p, 1, k)[i] = p[i]
    BY <1>3, FirstPart
  <2>2. \A i \in 1 .. k : SubSeq(q, 1, k)[i] = q[i]
    BY <1>3, FirstPart
  <2> QED
    BY <1>2, <2>1, <2>2
<1> QED
  BY <1>1, <1>2, <1>3, <1>4

NotAfter(p, q) == p = q \/ Precedes(p, q)

(* What is between two paths in a scope is in that scope.                  *)
LEMMA Between ==
    ASSUME NEW w \in Seq(NamesKnown), NEW v \in Seq(NamesKnown), NEW u \in Seq(NamesKnown),
           NEW P \in Seq(NamesKnown), NotAfter(w, v), NotAfter(v, u), Below(P, w), Below(P, u)
    PROVE  Below(P, v)
<1>1. CASE w = v
  BY <1>1
<1>2. CASE v = u
  BY <1>2
<1>3. CASE Precedes(w, v) /\ Precedes(v, u)
  <2>1. PICK k \in 0 .. Len(w) :
             /\ k <= Len(v) /\ \A i \in 1 .. k : w[i] = v[i]
             /\ \/ k = Len(w)
                \/ k < Len(w) /\ k < Len(v) /\ Rank(w[k + 1]) < Rank(v[k + 1])
    BY <1>3, PrecedesIs
  <2>2. PICK j \in 0 .. Len(v) :
             /\ j <= Len(u) /\ \A i \in 1 .. j : v[i] = u[i]
             /\ \/ j = Len(v)
                \/ j < Len(v) /\ j < Len(u) /\ Rank(v[j + 1]) < Rank(u[j + 1])
    BY <1>3, PrecedesIs
  <2>3. /\ Len(P) \in Nat /\ Len(w) \in Nat /\ Len(v) \in Nat /\ Len(u) \in Nat
        /\ Len(P) < Len(w) /\ Len(P) < Len(u)
        /\ \A i \in 1 .. Len(P) : w[i] = P[i] /\ u[i] = P[i]
    BY DEF Below
  <2>4. CASE Len(P) <= k
    <3>1. Len(P) < Len(v)
      BY <2>1, <2>3, <2>4
    <3>2. \A i \in 1 .. Len(P) : v[i] = P[i]
      BY <2>1, <2>3, <2>4
    <3> QED
      BY <3>1, <3>2 DEF Below
  <2>5. CASE k < Len(P)
    <3>1. /\ k + 1 \in 1 .. Len(v) /\ k + 1 \in 1 .. Len(P)
          /\ w[k + 1] = u[k + 1] /\ Rank(w[k + 1]) < Rank(v[k + 1])
      BY <2>1, <2>3, <2>5
    <3>2. Rank(v[k + 1]) \in Int /\ Rank(u[k + 1]) \in Int
      <4>1. v[k + 1] \in NamesKnown /\ u[k + 1] \in NamesKnown
        BY <2>3, <3>1
      <4> QED
        BY <4>1, RankTyped
    <3>3. v[k + 1] # u[k + 1]
      BY <3>1, <3>2
    <3>4. j <= k
      BY <2>2, <3>1, <3>3
    <3>5. j < Len(v) /\ Rank(v[j + 1]) < Rank(u[j + 1])
      BY <2>2, <3>1, <3>4
    <3>6. CASE j = k
      BY <3>1, <3>2, <3>5, <3>6
    <3>7. CASE j < k
      <4>1. j + 1 \in 1 .. k /\ j + 1 \in 1 .. Len(P) /\ j + 1 \in 1 .. Len(u)
        BY <2>1, <2>2, <2>3, <2>5, <3>7
      <4>2. v[j + 1] = w[j + 1] /\ u[j + 1] = P[j + 1] /\ w[j + 1] = P[j + 1]
        BY <2>1, <2>3, <4>1
      <4>3. Rank(u[j + 1]) \in Int
        <5>1. u[j + 1] \in NamesKnown
          BY <4>1
        <5> QED
          BY <5>1, RankTyped
      <4> QED
        BY <3>5, <4>2, <4>3
    <3> QED
      BY <3>4, <3>6, <3>7
  <2> QED
    BY <2>1, <2>3, <2>4, <2>5
<1> QED
  BY <1>1, <1>2, <1>3 DEF NotAfter

-----------------------------------------------------------------------------
(* Closing scopes one after the other, and opening them.                   *)
Leaves(s, l, n) == \A i \in 1 .. n : s[l + i].kind = "up"
Enters(s, l, n, q, c) == \A i \in 1 .. n : s[l + i].kind = "scope" /\ s[l + i].name = q[c + i]
LeftBy(s, l, n, o) == \A i \in 0 .. n : ScopesAt(s, l + i + 1) = SubSeq(o, 1, Len(o) - i)
EnteredBy(s, l, n, q, c) == \A i \in 0 .. n : ScopesAt(s, l + i + 1) = SubSeq(q, 1, c + i)

(* Closing n scopes leaves the outer ones.                                 *)
LEMMA ScopesClosed ==
    ASSUME NEW s, NEW l \in Nat, NEW X, NEW opened \in Seq(X), ScopesAt(s, l + 1) = opened,
           NEW n \in Nat, n <= Len(opened), Leaves(s, l, n)
    PROVE  LeftBy(s, l, n, opened)
<1> DEFINE holds == {i \in 0 .. n : ScopesAt(s, l + i + 1) = SubSeq(opened, 1, Len(opened) - i)}
<1>1. 0 \in holds
  <2>1. SubSeq(opened, 1, Len(opened)) = opened
    OBVIOUS
  <2>2. l + 0 + 1 = l + 1 /\ Len(opened) - 0 = Len(opened) /\ 0 \in 0 .. n
    OBVIOUS
  <2> QED
    BY <2>1, <2>2
<1>2. ASSUME NEW i \in 1 .. n, i - 1 \in holds PROVE i \in holds
  <2> DEFINE o == SubSeq(opened, 1, Len(opened) - (i - 1))
  <2>1. ScopesAt(s, l + i) = o
    <3>1. l + (i - 1) + 1 = l + i
      OBVIOUS
    <3> QED
      BY <1>2, <3>1
  <2>2. ScopesAt(s, (l + i) + 1) = ScopeStep(s[l + i], ScopesAt(s, l + i))
    <3>1. l + i \in Nat \ {0}
      OBVIOUS
    <3> QED
      BY <3>1, ScopesSteps
  <2>3. o # <<>> /\ Front(o) = SubSeq(opened, 1, Len(opened) - i)
    <3> DEFINE k == Len(opened) - (i - 1)
    <3>1. k \in 1 .. Len(opened) /\ Len(opened) - i = k - 1
      OBVIOUS
    <3> HIDE DEF k
    <3>2. /\ SubSeq(opened, 1, k) # <<>> /\ Len(SubSeq(opened, 1, k)) = k
          /\ SubSeq(SubSeq(opened, 1, k), 1, k - 1) = SubSeq(opened, 1, k - 1)
      BY <3>1
    <3> QED
      BY <3>1, <3>2 DEF Front, k
  <2>4. s[l + i].kind = "up"
    BY DEF Leaves
  <2> HIDE DEF o
  <2>5. ScopeStep(s[l + i], o) = Front(o)
    BY <2>3, <2>4 DEF ScopeStep
  <2>6. ScopesAt(s, l + i + 1) = SubSeq(opened, 1, Len(opened) - i)
    BY <2>1, <2>2, <2>3, <2>5
  <2> QED
    BY <2>6
<1> HIDE DEF holds
<1>3. \A i \in 0 .. n : i \in holds
  BY <1>1, <1>2, UpTo
<1> QED
  BY <1>3 DEF holds, LeftBy

(* Opening scopes one by one gets to the last.                             *)
LEMMA ScopesOpened ==
    ASSUME NEW s, NEW l \in Nat, NEW X, NEW around \in Seq(X), NEW c \in 0 .. Len(around),
           ScopesAt(s, l + 1) = SubSeq(around, 1, c), NEW n \in Nat, c + n = Len(around),
           Enters(s, l, n, around, c)
    PROVE  EnteredBy(s, l, n, around, c)
<1> DEFINE holds == {i \in 0 .. n : ScopesAt(s, l + i + 1) = SubSeq(around, 1, c + i)}
<1>1. 0 \in holds
  <2>2. l + 0 + 1 = l + 1 /\ c + 0 = c /\ 0 \in 0 .. n
    OBVIOUS
  <2> QED
    BY <2>2
<1>2. ASSUME NEW i \in 1 .. n, i - 1 \in holds PROVE i \in holds
  <2> DEFINE o == SubSeq(around, 1, c + (i - 1))
  <2>1. ScopesAt(s, l + i) = o
    <3>1. l + (i - 1) + 1 = l + i
      OBVIOUS
    <3> QED
      BY <1>2, <3>1
  <2>2. ScopesAt(s, (l + i) + 1) = ScopeStep(s[l + i], ScopesAt(s, l + i))
    <3>1. l + i \in Nat \ {0}
      OBVIOUS
    <3> QED
      BY <3>1, ScopesSteps
  <2>3. Append(o, around[c + i]) = SubSeq(around, 1, c + i)
    <3>1. c + i \in 0 .. Len(around) /\ c + (i - 1) \in 0 .. Len(around)
      OBVIOUS
    <3> QED
      BY <3>1
  <2>4. s[l + i].kind = "scope" /\ s[l + i].name = around[c + i]
    BY DEF Enters
  <2> HIDE DEF o
  <2>5. ScopeStep(s[l + i], o) = Append(o, around[c + i])
    BY <2>4 DEF ScopeStep
  <2>6. ScopesAt(s, l + i + 1) = SubSeq(around, 1, c + i)
    BY <2>1, <2>2, <2>3, <2>5
  <2> QED
    BY <2>6
<1> HIDE DEF holds
<1>3. \A i \in 0 .. n : i \in holds
  BY <1>1, <1>2, UpTo
<1> QED
  BY <1>3 DEF holds, EnteredBy

-----------------------------------------------------------------------------
(* The calls that declare one variable.                                    *)
KindsOfCalls == {"up", "scope", "var"}
Calls == [kind : KindsOfCalls, name : NamesKnown \cup {None}, code : Nat \cup {None}]
FullPaths == Seq(NamesKnown) \ {<<>>}

(* The scopes o and q have the first c in common, and no more.             *)
Agreeing(o, q, c) ==
    /\ c \in 0 .. Len(o) /\ c \in 0 .. Len(q)
    /\ \A i \in 1 .. c : o[i] = q[i]
    /\ \A k \in 0 .. Len(o) : k <= Len(q) /\ (\A i \in 1 .. k : o[i] = q[i]) => k <= c

(* A set of numbers up to m that is not empty has a greatest one.          *)
LEMMA GreatestOf ==
    ASSUME NEW m \in Nat, NEW K \in SUBSET (0 .. m), K # {}
    PROVE  Max(K) \in K /\ \A k \in K : k <= Max(K)
<1> DEFINE away == {m - k : k \in K}
<1>1. away \in SUBSET Nat /\ away # {}
  <2>1. \A k \in K : k \in 0 .. m
    OBVIOUS
  <2>2. \A k \in K : m - k \in Nat
    BY <2>1
  <2> QED
    BY <2>2
<1>2. PICK d \in away : \A e \in away : d <= e
  <2> HIDE DEF away
  <2> QED
    BY <1>1, LeastOfNat
<1>3. PICK x \in K : d = m - x
  BY <1>2
<1>4. \A y \in K : x >= y
  <2> SUFFICES ASSUME NEW y \in K PROVE x >= y
    OBVIOUS
  <2>1. d <= m - y /\ x \in Nat /\ y \in Nat
    BY <1>2
  <2> QED
    BY <1>3, <2>1
<1>5. Max(K) \in K /\ \A y \in K : Max(K) >= y
  BY <1>3, <1>4 DEF Max
<1>6. K \in SUBSET Nat
  OBVIOUS
<1> QED
  BY <1>5, <1>6

(* So have the scopes that are open and those of the next path.            *)
LEMMA CommonIs ==
    ASSUME open \in Seq(NamesKnown), NEW q \in Seq(NamesKnown)
    PROVE  Agreeing(open, q, Common(q))
<1> DEFINE a == Len(open)
           b == Len(q)
           m == Min({a, b})
           K == {k \in 0 .. m : SubSeq(open, 1, k) = SubSeq(q, 1, k)}
<1>1. a \in Nat /\ b \in Nat
  OBVIOUS
<1>2. m \in Nat /\ m <= a /\ m <= b
  <2>1. m \in {a, b} /\ m <= a /\ m <= b
    <3>1. a \in Int /\ b \in Int
      BY <1>1
    <3> HIDE DEF a, b
    <3> QED
      BY <3>1, LesserOf
  <2> HIDE DEF a, b
  <2> QED
    BY <1>1, <2>1
<1>3. Common(q) = Max(K)
  BY DEF Common
<1> HIDE DEF m
<1>4. K \in SUBSET (0 .. m) /\ 0 \in K
  <2>1. SubSeq(open, 1, 0) = SubSeq(q, 1, 0)
    OBVIOUS
  <2> QED
    BY <1>2, <2>1
<1>5. Max(K) \in K /\ \A k \in K : k <= Max(K)
  <2> HIDE DEF K
  <2> QED
    BY <1>2, <1>4, GreatestOf
<1>6. \A k \in 0 .. m : (\A i \in 1 .. k : open[i] = q[i]) <=> k \in K
  <2> SUFFICES ASSUME NEW k \in 0 .. m
               PROVE  (\A i \in 1 .. k : open[i] = q[i]) <=> SubSeq(open, 1, k) = SubSeq(q, 1, k)
    OBVIOUS
  <2>1. k \in 0 .. Len(open) /\ k \in 0 .. Len(q)
    BY <1>1, <1>2
  <2> DEFINE x == SubSeq(open, 1, k)
             y == SubSeq(q, 1, k)
  <2>2. x \in Seq(NamesKnown) /\ Len(x) = k /\ \A i \in 1 .. k : x[i] = open[i]
    BY <2>1, FirstPart
  <2>3. y \in Seq(NamesKnown) /\ Len(y) = k /\ \A i \in 1 .. k : y[i] = q[i]
    BY <2>1, FirstPart
  <2> HIDE DEF x, y
  <2>4. (\A i \in 1 .. k : x[i] = y[i]) <=> x = y
    BY <2>2, <2>3
  <2> QED
    BY <2>2, <2>3, <2>4 DEF x, y
<1>7. \A k \in K : k \in 0 .. m
  BY <1>4
<1> HIDE DEF K
<1>8. Common(q) \in 0 .. m /\ \A i \in 1 .. Common(q) : open[i] = q[i]
  BY <1>3, <1>5, <1>6, <1>7
<1>9. ASSUME NEW k \in 0 .. Len(open), k <= Len(q), \A i \in 1 .. k : open[i] = q[i]
      PROVE  k <= Common(q)
  <2>1. k \in 0 .. m
    <3>1. m \in {a, b}
      <4>1. a \in Int /\ b \in Int
        BY <1>1
      <4> HIDE DEF a, b
      <4> QED
        BY <4>1, LesserOf DEF m
    <3> QED
      BY <1>1, <1>2, <1>9, <3>1
  <2> QED
    BY <1>3, <1>5, <1>6, <1>9, <2>1
<1> QED
  BY <1>1, <1>2, <1>8, <1>9 DEF Agreeing

(* What a path gets: scopes left, scopes entered, a variable.              *)
Three(o, path, c, code) ==
    LET entered == SubSeq(Front(path), c + 1, Len(Front(path)))
    IN  Ups(Len(o) - c)
          \o [k \in DOMAIN entered |-> Call("scope", entered[k], None)]
          \o << Call("var", Last(path), code) >>

(* These are the calls that declare a variable.                            *)
LEMMA DeclaredIs == \A v : Declared(v) = Three(open, v[2], Common(Front(v[2])), SignalOf(v[1]))
BY DEF Declared, Three

(* A path is the scopes around it and a name.                              *)
LEMMA PathParts ==
    ASSUME NEW path \in FullPaths
    PROVE  /\ Front(path) \in Seq(NamesKnown) /\ Len(path) \in Nat /\ Len(Front(path)) = Len(path) - 1
           /\ \A i \in 1 .. Len(path) - 1 : Front(path)[i] = path[i]
           /\ Last(path) \in NamesKnown /\ Last(path) = path[Len(path)]
           /\ Append(Front(path), Last(path)) = path
<1>1. path \in Seq(NamesKnown) /\ Len(path) \in Nat /\ Len(path) # 0
  BY DEF FullPaths
<1> DEFINE q == Front(path)
           x == Last(path)
<1>2. q \in Seq(NamesKnown) /\ Len(q) = Len(path) - 1 /\ \A i \in 1 .. Len(path) - 1 : q[i] = path[i]
  <2>1. Len(path) - 1 \in 0 .. Len(path)
    BY <1>1
  <2> QED
    BY <1>1, <2>1, FirstPart DEF Front
<1>3. x \in NamesKnown /\ x = path[Len(path)]
  BY <1>1 DEF Last
<1> HIDE DEF q, x
<1>4. Append(q, x) = path
  BY <1>1, <1>2, <1>3
<1> QED
  BY <1>1, <1>2, <1>3, <1>4 DEF q, x

(* What the three parts of the calls are.                                  *)
IsThree(d, n1, n2, path, c, code) ==
    /\ d \in Seq(Calls) /\ Len(d) = n1 + n2 + 1
    /\ \A i \in 1 .. n1 : d[i].kind = "up"
    /\ \A i \in 1 .. n2 : d[n1 + i] = Call("scope", Front(path)[c + i], None)
    /\ d[n1 + n2 + 1] = Call("var", Last(path), code)

(* The calls have these parts.                                             *)
LEMMA ThreeIs ==
    ASSUME NEW o \in Seq(NamesKnown), NEW path \in FullPaths, NEW c, NEW code \in Nat,
           Agreeing(o, Front(path), c), NEW n1 \in Nat, NEW n2 \in Nat,
           c + n1 = Len(o), c + n2 = Len(Front(path))
    PROVE  IsThree(Three(o, path, c, code), n1, n2, path, c, code)
<1> DEFINE q == Front(path)
           e == SubSeq(q, c + 1, Len(q))
           f == Ups(Len(o) - c)
           g == [k \in DOMAIN e |-> Call("scope", e[k], None)]
           h == << Call("var", Last(path), code) >>
<1>1. q \in Seq(NamesKnown) /\ Last(path) \in NamesKnown
  BY PathParts
<1>2. c \in Nat /\ c <= Len(o) /\ c <= Len(q) /\ n1 \in Nat /\ n2 \in Nat
  BY <1>1 DEF Agreeing
<1>3. /\ Call("up", None, None) \in Calls
      /\ \A x \in NamesKnown : Call("scope", x, None) \in Calls
      /\ Call("var", Last(path), code) \in Calls
  BY <1>1 DEF Calls, KindsOfCalls, Call
<1>4. f \in Seq(Calls) /\ Len(f) = n1 /\ \A i \in 1 .. n1 : f[i] = Call("up", None, None)
  BY <1>2, <1>3 DEF Ups
<1>5. e \in Seq(NamesKnown) /\ Len(e) = n2 /\ \A i \in 1 .. n2 : e[i] = q[c + i]
  <2> DEFINE k == Len(q)
  <2>1. q \in Seq(NamesKnown) /\ k \in Nat /\ c + n2 = k
    BY <1>1, <1>2
  <2>2. e = SubSeq(q, c + 1, k)
    OBVIOUS
  <2> HIDE DEF q, e
  <2> QED
    BY <1>2, <2>1, <2>2
<1>6. g \in Seq(Calls) /\ Len(g) = n2 /\ \A i \in 1 .. n2 : g[i] = Call("scope", q[c + i], None)
  <2> HIDE DEF e, q
  <2>1. DOMAIN e = 1 .. n2 /\ \A i \in 1 .. n2 : e[i] \in NamesKnown
    BY <1>2, <1>5
  <2>2. \A i \in 1 .. n2 : Call("scope", e[i], None) \in Calls
    BY <1>3, <2>1
  <2>3. g = [k \in 1 .. n2 |-> Call("scope", e[k], None)]
    BY <2>1
  <2> HIDE DEF g
  <2>4. g \in Seq(Calls) /\ Len(g) = n2 /\ \A i \in 1 .. n2 : g[i] = Call("scope", e[i], None)
    BY <2>2, <2>3
  <2> QED
    BY <1>5, <2>4
<1>7. h \in Seq(Calls) /\ Len(h) = 1 /\ h[1] = Call("var", Last(path), code)
  BY <1>3
<1>8. Three(o, path, c, code) = f \o g \o h
  BY DEF Three
<1>9. Call("up", None, None).kind = "up"
  BY DEF Call
<1> DEFINE d == f \o g \o h
<1> HIDE DEF f, g, h, q
<1>10. /\ d \in Seq(Calls) /\ Len(d) = n1 + n2 + 1
       /\ \A i \in 1 .. n1 : d[i] = f[i]
       /\ \A i \in 1 .. n2 : d[n1 + i] = g[i]
       /\ d[n1 + n2 + 1] = h[1]
  <2> DEFINE x == f \o g
  <2>1. /\ x \in Seq(Calls) /\ Len(x) = n1 + n2
        /\ \A i \in 1 .. n1 : x[i] = f[i]
        /\ \A i \in 1 .. n2 : x[n1 + i] = g[i]
    <3>1. f \in Seq(Calls)
      BY <1>4
    <3>2. g \in Seq(Calls)
      BY <1>6
    <3>3. /\ x \in Seq(Calls) /\ Len(x) = Len(f) + Len(g)
          /\ \A i \in 1 .. Len(f) : x[i] = f[i]
          /\ \A i \in 1 .. Len(g) : x[Len(f) + i] = g[i]
      BY <3>1, <3>2, TwoParts DEF Joins
    <3>4. Len(f) = n1 /\ Len(g) = n2
      BY <1>4, <1>6
    <3> HIDE DEF x
    <3> QED
      BY <3>3, <3>4
  <2> HIDE DEF x
  <2> DEFINE y == x \o h
  <2>2. /\ y \in Seq(Calls) /\ Len(y) = n1 + n2 + 1
        /\ \A i \in 1 .. n1 + n2 : y[i] = x[i]
        /\ y[n1 + n2 + 1] = h[1]
    <3>1. /\ y \in Seq(Calls) /\ Len(y) = Len(x) + Len(h)
          /\ \A i \in 1 .. Len(x) : y[i] = x[i]
          /\ \A i \in 1 .. Len(h) : y[Len(x) + i] = h[i]
      <4>1. x \in Seq(Calls)
        BY <2>1
      <4>2. h \in Seq(Calls)
        BY <1>7
      <4> QED
        BY <4>1, <4>2, TwoParts DEF Joins
    <3>2. Len(x) = n1 + n2 /\ Len(h) = 1
      BY <1>7, <2>1
    <3> HIDE DEF y
    <3>3. 1 \in 1 .. Len(h)
      BY <3>2
    <3>4. y[Len(x) + 1] = h[1]
      BY <3>1, <3>3
    <3> QED
      BY <3>1, <3>2, <3>4
  <2> HIDE DEF y
  <2>3. \A i \in 1 .. n2 : n1 + i \in 1 .. n1 + n2
    BY <1>2
  <2>4. \A i \in 1 .. n1 : i \in 1 .. n1 + n2
    BY <1>2
  <2> QED
    BY <2>1, <2>2, <2>3, <2>4 DEF x, y
<1> HIDE DEF d
<1> QED
  BY <1>4, <1>6, <1>7, <1>8, <1>9, <1>10 DEF d, q, IsThree

(* The scope that is opened at p.                                          *)
Opened(s, p) == Append(ScopesAt(s, p), s[p].name)

(* Adding these calls, and what is then added to the calls s.              *)
Grows(u, s, o, path, c, code) == u = s \o Three(o, path, c, code)

Grown(u, s, l, n1, n2, c, path, code) ==
    /\ u \in Seq(Calls) /\ Len(u) = l + n1 + n2 + 1
    /\ \A k \in 1 .. l : u[k] = s[k]
    /\ \A k \in 1 .. l : ScopesAt(u, k) = ScopesAt(s, k)
    /\ \A i \in 1 .. n1 : u[l + i].kind = "up"
    /\ \A i \in 1 .. n2 : /\ u[l + n1 + i].kind = "scope"
                          /\ Opened(u, l + n1 + i) = SubSeq(Front(path), 1, c + i)
    /\ u[l + n1 + n2 + 1].kind = "var" /\ u[l + n1 + n2 + 1].code = code
    /\ VarPath(u, l + n1 + n2 + 1) = path
    /\ ScopesAt(u, l + n1 + n2 + 2) = Front(path)

(* The calls after those that declare a variable.                          *)
LEMMA GrownIs ==
    ASSUME NEW s \in Seq(Calls), NEW o \in Seq(NamesKnown), NEW path \in FullPaths, NEW c,
           NEW code \in Nat, Agreeing(o, Front(path), c), ScopesAt(s, Len(s) + 1) = o,
           NEW l \in Nat, Len(s) = l, NEW n1 \in Nat, NEW n2 \in Nat,
           c + n1 = Len(o), c + n2 = Len(Front(path)),
           NEW u, Grows(u, s, o, path, c, code)
    PROVE  Grown(u, s, l, n1, n2, c, path, code)
<1> DEFINE q == Front(path)
           d == Three(o, path, c, code)
           m == l + n1
           z == l + n1 + n2 + 1
<1>1. q \in Seq(NamesKnown) /\ Last(path) \in NamesKnown /\ Append(q, Last(path)) = path
  BY PathParts
<1>2. /\ c \in Nat /\ c <= Len(o) /\ c <= Len(q) /\ n1 \in Nat /\ n2 \in Nat /\ l \in Nat
      /\ c + n2 = Len(q) /\ n1 <= Len(o) /\ c = Len(o) - n1
  BY <1>1 DEF Agreeing
<1>3. \A i \in 1 .. c : o[i] = q[i]
  BY DEF Agreeing
<1>4. /\ d \in Seq(Calls) /\ Len(d) = n1 + n2 + 1
      /\ \A i \in 1 .. n1 : d[i].kind = "up"
      /\ \A i \in 1 .. n2 : d[n1 + i] = Call("scope", q[c + i], None)
      /\ d[n1 + n2 + 1] = Call("var", Last(path), code)
  <2>1. IsThree(Three(o, path, c, code), n1, n2, path, c, code)
    BY ThreeIs
  <2> QED
    BY <2>1 DEF IsThree
<1> HIDE DEF d
<1>5. /\ u \in Seq(Calls) /\ Len(u) = Len(s) + Len(d)
      /\ \A i \in 1 .. Len(s) : u[i] = s[i]
      /\ \A i \in 1 .. Len(d) : u[Len(s) + i] = d[i]
  <2>1. u = s \o d
    BY DEF d, Grows
  <2>2. d \in Seq(Calls)
    BY <1>4
  <2>3. Joins(s \o d, s, d, Calls)
    BY <2>2, TwoParts
  <2> QED
    BY <2>1, <2>3 DEF Joins
<1>6. /\ Len(u) = l + n1 + n2 + 1 /\ \A i \in 1 .. l : u[i] = s[i]
      /\ \A i \in 1 .. n1 : u[l + i].kind = "up"
      /\ \A i \in 1 .. n2 : u[m + i] = Call("scope", q[c + i], None)
      /\ u[z] = Call("var", Last(path), code)
  <2>0. Len(u) = l + (n1 + n2 + 1) /\ \A i \in 1 .. l : u[i] = s[i]
    BY <1>4, <1>5
  <2>1. Len(u) = l + n1 + n2 + 1 /\ \A i \in 1 .. l : u[i] = s[i]
    <3>1. l \in Nat /\ n1 \in Nat /\ n2 \in Nat
      BY <1>2
    <3>2. l + (n1 + n2 + 1) = l + n1 + n2 + 1
      BY <3>1
    <3> QED
      BY <2>0, <3>2
  <2>2. \A i \in 1 .. n1 + n2 + 1 : u[l + i] = d[i]
    BY <1>4, <1>5
  <2>3. \A i \in 1 .. n1 : i \in 1 .. n1 + n2 + 1
    BY <1>2
  <2>4. \A i \in 1 .. n2 : n1 + i \in 1 .. n1 + n2 + 1 /\ l + (n1 + i) = m + i
    BY <1>2
  <2>5. n1 + n2 + 1 \in 1 .. n1 + n2 + 1 /\ l + (n1 + n2 + 1) = z
    BY <1>2
  <2> HIDE DEF m, z
  <2>6. \A i \in 1 .. n2 : u[m + i] = d[n1 + i]
    BY <2>2, <2>4
  <2>7. u[z] = d[n1 + n2 + 1]
    BY <2>2, <2>5
  <2> QED
    BY <1>4, <2>1, <2>2, <2>3, <2>6, <2>7
<1>7. /\ \A i \in 1 .. n2 : u[m + i].kind = "scope" /\ u[m + i].name = q[c + i]
      /\ u[z].kind = "var" /\ u[z].name = Last(path) /\ u[z].code = code
  <2>1. \A x : Call("scope", x, None).kind = "scope" /\ Call("scope", x, None).name = x
    BY DEF Call
  <2>2. \A x : LET y == Call("var", x, code) IN y.kind = "var" /\ y.name = x /\ y.code = code
    BY DEF Call
  <2> HIDE DEF m, q, z
  <2> QED
    BY <1>6, <2>1, <2>2
<1>8. \A k \in 1 .. l + 1 : ScopesAt(u, k) = ScopesAt(s, k)
  <2> SUFFICES ASSUME NEW k \in 1 .. l + 1 PROVE ScopesAt(u, k) = ScopesAt(s, k)
    OBVIOUS
  <2>1. Alike(u, s, k - 1) /\ k \in Nat \ {0}
    BY <1>2, <1>6 DEF Alike
  <2> QED
    BY <2>1, ScopesSteps
<1>9. ScopesAt(u, l + 1) = o
  BY <1>2, <1>8
<1>10. \A i \in 0 .. n1 : ScopesAt(u, l + i + 1) = SubSeq(o, 1, Len(o) - i)
  <2>1. Leaves(u, l, n1)
    BY <1>6 DEF Leaves
  <2>2. n1 <= Len(o)
    BY <1>2
  <2>3. LeftBy(u, l, n1, o)
    BY <1>9, <2>1, <2>2, ScopesClosed
  <2> QED
    BY <2>3 DEF LeftBy
<1>11. ScopesAt(u, m + 1) = SubSeq(q, 1, c)
  <2>1. ScopesAt(u, m + 1) = SubSeq(o, 1, c)
    <3>1. n1 \in 0 .. n1 /\ Len(o) - n1 = c /\ l + n1 + 1 = m + 1
      BY <1>2
    <3> HIDE DEF m
    <3> QED
      BY <1>10, <3>1
  <2>2. SubSeq(o, 1, c) = SubSeq(q, 1, c)
    <3> DEFINE x == SubSeq(o, 1, c)
               y == SubSeq(q, 1, c)
    <3>1. c \in 0 .. Len(o) /\ c \in 0 .. Len(q)
      BY <1>1, <1>2
    <3>2. x \in Seq(NamesKnown) /\ Len(x) = c /\ \A i \in 1 .. c : x[i] = o[i]
      BY <3>1, FirstPart
    <3>3. y \in Seq(NamesKnown) /\ Len(y) = c /\ \A i \in 1 .. c : y[i] = q[i]
      BY <1>1, <3>1, FirstPart
    <3> HIDE DEF x, y
    <3> QED
      BY <1>3, <3>2, <3>3 DEF x, y
  <2> QED
    BY <2>1, <2>2
<1>12. \A i \in 0 .. n2 : ScopesAt(u, m + i + 1) = SubSeq(q, 1, c + i)
  <2>1. Enters(u, m, n2, q, c)
    BY <1>7 DEF Enters
  <2>2. c \in 0 .. Len(q) /\ m \in Nat /\ c + n2 = Len(q)
    BY <1>1, <1>2
  <2>3. q \in Seq(NamesKnown)
    BY <1>1
  <2> HIDE DEF m, q
  <2>4. EnteredBy(u, m, n2, q, c)
    BY <1>11, <2>1, <2>2, <2>3, ScopesOpened
  <2> QED
    BY <2>4 DEF EnteredBy
<1>13. ASSUME NEW i \in 1 .. n2 PROVE Opened(u, m + i) = SubSeq(q, 1, c + i)
  <2>1. ScopesAt(u, m + i) = SubSeq(q, 1, c + (i - 1))
    <3>1. i - 1 \in 0 .. n2 /\ m + (i - 1) + 1 = m + i
      BY <1>2
    <3> HIDE DEF m, q
    <3> QED
      BY <1>12, <3>1
  <2>2. Append(SubSeq(q, 1, c + (i - 1)), q[c + i]) = SubSeq(q, 1, c + i)
    <3> DEFINE k == c + i
    <3>1. k \in 1 .. Len(q) /\ c + (i - 1) = k - 1
      BY <1>2
    <3>2. q \in Seq(NamesKnown)
      BY <1>1
    <3> HIDE DEF q, k
    <3>3. Append(SubSeq(q, 1, k - 1), q[k]) = SubSeq(q, 1, k)
      BY <3>1, <3>2
    <3> QED
      BY <3>1, <3>3 DEF k
  <2> QED
    BY <1>7, <2>1, <2>2 DEF Opened
<1>14. ScopesAt(u, z) = q
  <2>1. n2 \in 0 .. n2 /\ m + n2 + 1 = z
    BY <1>2
  <2>2. SubSeq(q, 1, c + n2) = q
    <3> HIDE DEF q
    <3> QED
      BY <1>1, <1>2
  <2> HIDE DEF m, q, z
  <2> QED
    BY <1>12, <2>1, <2>2
<1>15. VarPath(u, z) = path
  BY <1>1, <1>7, <1>14 DEF VarPath
<1>16. ScopesAt(u, z + 1) = q
  <2>1. z \in Nat \ {0}
    BY <1>2
  <2>2. ScopesAt(u, z + 1) = ScopeStep(u[z], ScopesAt(u, z))
    BY <2>1, ScopesSteps
  <2> QED
    BY <1>7, <1>14, <2>2 DEF ScopeStep
<1>17. z + 1 = l + n1 + n2 + 2
  BY <1>2
<1>18. \A k \in 1 .. l : ScopesAt(u, k) = ScopesAt(s, k)
  BY <1>2, <1>8
<1>19. ScopesAt(u, l + n1 + n2 + 2) = q
  BY <1>16, <1>17
<1>20. \A i \in 1 .. n2 : u[m + i].kind = "scope" /\ Opened(u, m + i) = SubSeq(q, 1, c + i)
  BY <1>7, <1>13
<1>21. u[z].kind = "var" /\ u[z].code = code
  BY <1>7
<1> QED
  BY <1>5, <1>6, <1>20, <1>21, <1>15, <1>18, <1>19 DEF Grown

(* P is one of the scopes o or all of them.                                *)
Within(P, o) == Len(P) <= Len(o) /\ \A i \in 1 .. Len(P) : o[i] = P[i]

(* What holds between the calls s, the open scopes o, the signals m and    *)
(* the names t still to do of sel: those done come before those to do; a   *)
(* scope that is open is around one done; a scope that was opened is open, *)
(* or around nothing to do, and was opened once; scopes that are open make *)
(* the difference between opened and closed; every handle has a signal of  *)
(* its own; and every name done has a variable of its own.                 *)
Shape(sel, t) == IsFiniteSet(sel) /\ t \subseteq sel /\ \A v \in sel : v[2] \in FullPaths
SortedSoFar(sel, t) == \A w \in sel \ t, v \in t : NotAfter(w[2], v[2])
Inside(sel, t, o) == o # <<>> => \E w \in sel \ t : Below(o, w[2])
ScopesLeft(s, o, t) ==
    \A p \in Positions(s, {"scope"}) :
        /\ Opened(s, p) \in Seq(NamesKnown)
        /\ Within(Opened(s, p), o) \/ \A v \in t : ~Below(Opened(s, p), v[2])
ScopesOnce(s) ==
    \A p, q \in Positions(s, {"scope"}) : Opened(s, p) = Opened(s, q) => p = q
Balanced(s, o) == Cardinality(Positions(s, {"scope"})) = Cardinality(Positions(s, {"up"})) + Len(o)
IdsGiven(m, sel, t) ==
    /\ DOMAIN m = {w[1] : w \in sel \ t} /\ IsFiniteSet(DOMAIN m)
    /\ \A h \in DOMAIN m : m[h] \in 1 .. Cardinality(DOMAIN m)
    /\ Injective(m)
Matches(f, s, m, sel, t) ==
    /\ f \in [sel \ t -> Positions(s, {"var"})]
    /\ \A v, w \in sel \ t : f[v] = f[w] => v = w
    /\ \A p \in Positions(s, {"var"}) : \E w \in sel \ t : f[w] = p
    /\ \A w \in sel \ t : s[f[w]].code = m[w[1]] /\ VarPath(s, f[w]) = w[2]
VarsGiven(s, m, sel, t) == \E f \in [sel \ t -> Positions(s, {"var"})] : Matches(f, s, m, sel, t)
Walked(s, o) == s \in Seq(Calls) /\ o \in Seq(NamesKnown) /\ ScopesAt(s, Len(s) + 1) = o

(* Where the calls of each kind are.                                       *)
KindsAre(u, s, l, n1, n2) ==
    /\ Positions(u, {"up"}) = Positions(s, {"up"}) \cup (l + 1 .. l + n1)
    /\ Positions(u, {"scope"}) = Positions(s, {"scope"}) \cup (l + n1 + 1 .. l + n1 + n2)
    /\ Positions(u, {"var"}) = Positions(s, {"var"}) \cup {l + n1 + n2 + 1}
    /\ \A kind : Positions(s, {kind}) \subseteq 1 .. l

LEMMA GrownKinds ==
    ASSUME NEW s \in Seq(Calls), NEW l \in Nat, Len(s) = l, NEW n1 \in Nat, NEW n2 \in Nat,
           NEW u, NEW c, NEW path, NEW code, Grown(u, s, l, n1, n2, c, path, code)
    PROVE  KindsAre(u, s, l, n1, n2)
<1>1. DOMAIN s = 1 .. l
  OBVIOUS
<1>2. DOMAIN u = 1 .. l + n1 + n2 + 1
  BY DEF Grown
<1>3. \A k \in 1 .. l : u[k] = s[k]
  BY DEF Grown
<1>4. \A k \in l + 1 .. l + n1 : u[k].kind = "up"
  <2> SUFFICES ASSUME NEW k \in l + 1 .. l + n1 PROVE u[k].kind = "up"
    OBVIOUS
  <2>1. k - l \in 1 .. n1 /\ l + (k - l) = k
    OBVIOUS
  <2>2. \A i \in 1 .. n1 : u[l + i].kind = "up"
    BY DEF Grown
  <2> QED
    BY <2>1, <2>2
<1>5. \A k \in l + n1 + 1 .. l + n1 + n2 : u[k].kind = "scope"
  <2> SUFFICES ASSUME NEW k \in l + n1 + 1 .. l + n1 + n2 PROVE u[k].kind = "scope"
    OBVIOUS
  <2>1. k - l - n1 \in 1 .. n2 /\ l + n1 + (k - l - n1) = k
    OBVIOUS
  <2>2. \A i \in 1 .. n2 : u[l + n1 + i].kind = "scope"
    BY DEF Grown
  <2> QED
    BY <2>1, <2>2
<1>6. u[l + n1 + n2 + 1].kind = "var"
  BY DEF Grown
<1> DEFINE R1 == 1 .. l
           R2 == l + 1 .. l + n1
           R3 == l + n1 + 1 .. l + n1 + n2
           z == l + n1 + n2 + 1
<1>7. DOMAIN u = R1 \cup R2 \cup R3 \cup {z}
  BY <1>2
<1> DEFINE up == "up"
           scope == "scope"
           var == "var"
<1>8. up # scope /\ up # var /\ scope # var
  OBVIOUS
<1>9. /\ \A k \in R1 : u[k] = s[k]
      /\ \A k \in R2 : u[k].kind = up
      /\ \A k \in R3 : u[k].kind = scope
      /\ u[z].kind = var
      /\ DOMAIN s = R1
  BY <1>1, <1>3, <1>4, <1>5, <1>6
<1> HIDE DEF R1, R2, R3, z, up, scope, var
<1>10. \A k, kind : k \in Positions(s, {kind}) <=> k \in R1 /\ s[k].kind = kind
  BY <1>9 DEF Positions
<1>11. \A k, kind : k \in Positions(u, {kind}) <=> k \in DOMAIN u /\ u[k].kind = kind
  BY DEF Positions
<1>12. ASSUME NEW k
       PROVE  k \in Positions(u, {up}) <=> k \in Positions(s, {up}) \/ k \in R2
  <2>1. k \in Positions(u, {up}) <=> k \in DOMAIN u /\ u[k].kind = up
    BY <1>11
  <2>2. k \in Positions(s, {up}) <=> k \in R1 /\ s[k].kind = up
    BY <1>10
  <2>3. CASE k \in R1
    BY <1>7, <1>8, <1>9, <2>1, <2>2, <2>3
  <2>4. CASE k \in R2
    BY <1>7, <1>8, <1>9, <2>1, <2>2, <2>4
  <2>5. CASE k \in R3
    BY <1>7, <1>8, <1>9, <2>1, <2>2, <2>5
  <2>6. CASE k = z
    BY <1>7, <1>8, <1>9, <2>1, <2>2, <2>6
  <2> QED
    BY <1>7, <2>1, <2>2, <2>3, <2>4, <2>5, <2>6
<1>13. ASSUME NEW k
       PROVE  k \in Positions(u, {scope}) <=> k \in Positions(s, {scope}) \/ k \in R3
  <2>1. k \in Positions(u, {scope}) <=> k \in DOMAIN u /\ u[k].kind = scope
    BY <1>11
  <2>2. k \in Positions(s, {scope}) <=> k \in R1 /\ s[k].kind = scope
    BY <1>10
  <2>3. CASE k \in R1
    BY <1>7, <1>8, <1>9, <2>1, <2>2, <2>3
  <2>4. CASE k \in R2
    BY <1>7, <1>8, <1>9, <2>1, <2>2, <2>4
  <2>5. CASE k \in R3
    BY <1>7, <1>8, <1>9, <2>1, <2>2, <2>5
  <2>6. CASE k = z
    BY <1>7, <1>8, <1>9, <2>1, <2>2, <2>6
  <2> QED
    BY <1>7, <2>1, <2>2, <2>3, <2>4, <2>5, <2>6
<1>14. ASSUME NEW k
       PROVE  k \in Positions(u, {var}) <=> k \in Positions(s, {var}) \/ k = z
  <2>1. k \in Positions(u, {var}) <=> k \in DOMAIN u /\ u[k].kind = var
    BY <1>11
  <2>2. k \in Positions(s, {var}) <=> k \in R1 /\ s[k].kind = var
    BY <1>10
  <2>3. CASE k \in R1
    BY <1>7, <1>8, <1>9, <2>1, <2>2, <2>3
  <2>4. CASE k \in R2
    BY <1>7, <1>8, <1>9, <2>1, <2>2, <2>4
  <2>5. CASE k \in R3
    BY <1>7, <1>8, <1>9, <2>1, <2>2, <2>5
  <2>6. CASE k = z
    BY <1>7, <1>8, <1>9, <2>1, <2>2, <2>6
  <2> QED
    BY <1>7, <2>1, <2>2, <2>3, <2>4, <2>5, <2>6
<1>15. \A kind : Positions(s, {kind}) \subseteq R1
  BY <1>10
<1>16. /\ Positions(u, {up}) = Positions(s, {up}) \cup R2
       /\ Positions(u, {scope}) = Positions(s, {scope}) \cup R3
       /\ Positions(u, {var}) = Positions(s, {var}) \cup {z}
  BY <1>12, <1>13, <1>14
<1> QED
  BY <1>15, <1>16 DEF KindsAre, R1, R2, R3, z, up, scope, var

(* Numbers behind a set of them add up.                                    *)
Counted(S, a, n) ==
    /\ IsFiniteSet(S) /\ Cardinality(S) \in Nat
    /\ Cardinality(S \cup (a + 1 .. a + n)) = Cardinality(S) + n

LEMMA CountBehind ==
    ASSUME NEW l \in Nat, NEW S \in SUBSET (1 .. l), NEW a \in Nat, l <= a, NEW n \in Nat
    PROVE  Counted(S, a, n)
<1> DEFINE I == a + 1 .. a + n
<1>1. IsFiniteSet(S)
  <2> DEFINE J == 1 .. l
  <2>1. IsFiniteSet(J)
    BY FS_Interval
  <2>2. S \in SUBSET J
    OBVIOUS
  <2> HIDE DEF J
  <2> QED
    BY <2>1, <2>2, FS_Subset
<1>2. IsFiniteSet(I) /\ Cardinality(I) = n
  <2>1. a + 1 \in Int /\ a + n \in Int
    OBVIOUS
  <2>2. IsFiniteSet(I) /\ Cardinality(I) = IF a + 1 > a + n THEN 0 ELSE (a + n) - (a + 1) + 1
    BY <2>1, FS_Interval
  <2> QED
    BY <2>2
<1>3. S \cap I = {}
  OBVIOUS
<1>4. Cardinality(S) \in Nat
  BY <1>1, FS_CardinalityType
<1>5. Cardinality(S \cup I) = Cardinality(S) + Cardinality(I) - Cardinality(S \cap I)
  <2> HIDE DEF I
  <2> QED
    BY <1>1, <1>2, FS_Union
<1>6. Cardinality(S \cap I) = 0
  BY <1>3, FS_EmptySet
<1> HIDE DEF I
<1>7. Cardinality(S \cup I) = Cardinality(S) + n
  BY <1>2, <1>4, <1>5, <1>6
<1> QED
  BY <1>1, <1>4, <1>7 DEF Counted, I

(* Scopes opened and closed still differ by those that are open.           *)
LEMMA GrownBalanced ==
    ASSUME NEW s \in Seq(Calls), NEW l \in Nat, Len(s) = l, NEW n1 \in Nat, NEW n2 \in Nat,
           NEW u, NEW c \in Nat, NEW path, NEW code, Grown(u, s, l, n1, n2, c, path, code),
           NEW o, c + n1 = Len(o), c + n2 = Len(Front(path)), Balanced(s, o)
    PROVE  Balanced(u, Front(path))
<1>1. KindsAre(u, s, l, n1, n2)
  BY GrownKinds
<1> DEFINE U == Positions(s, {"up"})
           S == Positions(s, {"scope"})
<1>2. U \in SUBSET (1 .. l) /\ S \in SUBSET (1 .. l)
  BY <1>1 DEF KindsAre
<1>3. /\ Positions(u, {"up"}) = U \cup (l + 1 .. l + n1)
      /\ Positions(u, {"scope"}) = S \cup (l + n1 + 1 .. l + n1 + n2)
  BY <1>1 DEF KindsAre
<1>4. Cardinality(S) = Cardinality(U) + Len(o)
  BY DEF Balanced
<1> HIDE DEF U, S
<1>5. Counted(U, l, n1)
  BY <1>2, CountBehind
<1>6. Counted(S, l + n1, n2)
  <2>1. l + n1 \in Nat /\ l <= l + n1
    OBVIOUS
  <2> QED
    BY <1>2, <2>1, CountBehind
<1>7. Cardinality(Positions(u, {"up"})) = Cardinality(U) + n1 /\ Cardinality(U) \in Nat
  BY <1>3, <1>5 DEF Counted
<1>8. Cardinality(Positions(u, {"scope"})) = Cardinality(S) + n2
  BY <1>3, <1>6 DEF Counted
<1>9. Cardinality(Positions(u, {"scope"})) = Cardinality(Positions(u, {"up"})) + Len(Front(path))
  BY <1>4, <1>7, <1>8
<1> QED
  BY <1>9 DEF Balanced

(* What is around a path is a scope of it.                                 *)
LEMMA FrontBelow ==
    ASSUME NEW path \in FullPaths
    PROVE  /\ Below(Front(path), path)
           /\ \A P \in Seq(NamesKnown) : Below(P, path) <=> Within(P, Front(path))
<1> DEFINE q == Front(path)
           n == Len(path)
<1>1. /\ q \in Seq(NamesKnown) /\ n \in Nat /\ Len(q) = n - 1
      /\ \A i \in 1 .. n - 1 : q[i] = path[i]
  BY PathParts
<1> HIDE DEF q
<1>2. Below(q, path)
  BY <1>1 DEF Below
<1>3. ASSUME NEW P \in Seq(NamesKnown) PROVE Below(P, path) <=> Within(P, q)
  BY <1>1 DEF Below, Within
<1> QED
  BY <1>2, <1>3 DEF q

(* The next name, none to do being before it.                              *)
IsFirst(v, t) == \A w \in t : NotAfter(v[2], w[2])

(* Having done it, the names are still done in order.                      *)
LEMMA NextSorted ==
    ASSUME NEW sel, NEW t, Shape(sel, t), NEW v \in t, IsFirst(v, t), SortedSoFar(sel, t)
    PROVE  /\ Shape(sel, t \ {v}) /\ SortedSoFar(sel, t \ {v})
           /\ Inside(sel, t \ {v}, Front(v[2]))
<1>1. v \in sel /\ v[2] \in FullPaths
  BY DEF Shape
<1>2. Shape(sel, t \ {v})
  BY DEF Shape
<1>3. SortedSoFar(sel, t \ {v})
  BY DEF SortedSoFar, IsFirst
<1>4. Inside(sel, t \ {v}, Front(v[2]))
  <2>1. v \in sel \ (t \ {v}) /\ Below(Front(v[2]), v[2])
    BY <1>1, FrontBelow
  <2> QED
    BY <2>1 DEF Inside
<1> QED
  BY <1>2, <1>3, <1>4

(* A scope that was opened and is left has no later path in it.            *)
LEMMA LeftForGood ==
    ASSUME NEW sel, NEW t, Shape(sel, t), NEW v \in t, IsFirst(v, t), SortedSoFar(sel, t),
           NEW o \in Seq(NamesKnown), Inside(sel, t, o),
           NEW P \in Seq(NamesKnown), Within(P, o), ~Within(P, Front(v[2])),
           NEW x \in t
    PROVE  ~Below(P, x[2])
<1> SUFFICES ASSUME Below(P, x[2]) PROVE FALSE
  OBVIOUS
<1>1. v[2] \in FullPaths /\ x[2] \in FullPaths
  BY DEF Shape
<1>2. Len(P) \in Nat /\ Len(o) \in Nat /\ Len(P) <= Len(o)
  BY DEF Within
<1>3. Len(P) # 0
  <2> SUFFICES ASSUME Len(P) = 0 PROVE FALSE
    OBVIOUS
  <2>1. Front(v[2]) \in Seq(NamesKnown)
    BY <1>1, PathParts
  <2>2. Len(Front(v[2])) \in Nat
    BY <2>1
  <2>3. Within(P, Front(v[2]))
    BY <2>2 DEF Within
  <2> QED
    BY <2>3
<1>4. o # <<>>
  BY <1>2, <1>3
<1>5. PICK w \in sel \ t : Below(o, w[2])
  BY <1>4 DEF Inside
<1>6. w[2] \in FullPaths
  BY DEF Shape
<1>7. Below(P, w[2])
  <2>1. Len(w[2]) \in Nat
    BY <1>6 DEF FullPaths
  <2> QED
    BY <1>2, <1>5, <2>1 DEF Below, Within
<1>8. NotAfter(w[2], v[2]) /\ NotAfter(v[2], x[2])
  BY DEF SortedSoFar, IsFirst
<1>9. Below(P, v[2])
  <2>1. w[2] \in Seq(NamesKnown) /\ v[2] \in Seq(NamesKnown) /\ x[2] \in Seq(NamesKnown)
    BY <1>1, <1>6 DEF FullPaths
  <2> QED
    BY <1>7, <1>8, <2>1, Between
<1> QED
  BY <1>1, <1>9, FrontBelow

(* Entering scopes.                                                        *)
Entered(u, l, n, c, q) ==
    \A i \in 1 .. n : Opened(u, l + i) = SubSeq(q, 1, c + i)

(* What is entered on the way to a path are the scopes of the path.        *)
LEMMA EnteredParts ==
    ASSUME NEW q \in Seq(NamesKnown), NEW c \in Nat, NEW n \in Nat, c + n = Len(q),
           NEW u, NEW l, Entered(u, l, n, c, q), NEW i \in 1 .. n
    PROVE  /\ Opened(u, l + i) \in Seq(NamesKnown) /\ Len(Opened(u, l + i)) = c + i
           /\ Within(Opened(u, l + i), q)
<1>1. Opened(u, l + i) = SubSeq(q, 1, c + i)
  BY DEF Entered
<1> DEFINE x == SubSeq(q, 1, c + i)
<1>2. c + i \in 0 .. Len(q)
  OBVIOUS
<1>3. x \in Seq(NamesKnown) /\ Len(x) = c + i /\ \A k \in 1 .. c + i : x[k] = q[k]
  BY <1>2, FirstPart
<1> HIDE DEF x
<1>4. Within(x, q)
  BY <1>2, <1>3 DEF Within
<1> QED
  BY <1>1, <1>3, <1>4 DEF x

(* No scope is opened that was opened before.                              *)
LEMMA GrownScopes ==
    ASSUME NEW s \in Seq(Calls), NEW l \in Nat, Len(s) = l, NEW n1 \in Nat, NEW n2 \in Nat,
           NEW u, NEW c \in Nat, NEW code, NEW sel, NEW t, NEW v \in t, NEW o \in Seq(NamesKnown),
           Grown(u, s, l, n1, n2, c, v[2], code),
           Agreeing(o, Front(v[2]), c), c + n1 = Len(o), c + n2 = Len(Front(v[2])),
           Shape(sel, t), IsFirst(v, t), SortedSoFar(sel, t), Inside(sel, t, o),
           ScopesLeft(s, o, t), ScopesOnce(s)
    PROVE  ScopesLeft(u, Front(v[2]), t \ {v}) /\ ScopesOnce(u)
<1> DEFINE q == Front(v[2])
           S == Positions(s, {"scope"})
           m == l + n1
           N == m + 1 .. m + n2
<1>1. v[2] \in FullPaths /\ q \in Seq(NamesKnown)
  BY PathParts DEF Shape
<1>2. Positions(u, {"scope"}) = S \cup N /\ S \subseteq 1 .. l
  <2>1. KindsAre(u, s, l, n1, n2)
    BY GrownKinds
  <2> QED
    BY <2>1 DEF KindsAre
<1>3. \A p \in S : Opened(u, p) = Opened(s, p)
  <2>1. \A p \in 1 .. l : u[p] = s[p] /\ ScopesAt(u, p) = ScopesAt(s, p)
    BY DEF Grown
  <2> QED
    BY <1>2, <2>1 DEF Opened
<1>4. Entered(u, m, n2, c, q)
  BY DEF Grown, Entered
<1>5. \A p \in S : /\ Opened(s, p) \in Seq(NamesKnown)
                   /\ Within(Opened(s, p), o) \/ \A w \in t : ~Below(Opened(s, p), w[2])
  BY DEF ScopesLeft
<1>6. \A p, r \in S : Opened(s, p) = Opened(s, r) => p = r
  BY DEF ScopesOnce
<1>7. \A p \in N : \E i \in 1 .. n2 : p = m + i
  <2> SUFFICES ASSUME NEW p \in N PROVE \E i \in 1 .. n2 : p = m + i
    OBVIOUS
  <2>1. p - m \in 1 .. n2 /\ p = m + (p - m)
    OBVIOUS
  <2> QED
    BY <2>1
<1>8. \A i \in 1 .. n2 :
         /\ Opened(u, m + i) \in Seq(NamesKnown) /\ Len(Opened(u, m + i)) = c + i
         /\ Within(Opened(u, m + i), q)
  <2>1. c + n2 = Len(q)
    OBVIOUS
  <2> HIDE DEF q, m
  <2> QED
    BY <1>1, <1>4, <2>1, EnteredParts
<1> HIDE DEF S, N, q, m
<1>9. ASSUME NEW p \in Positions(u, {"scope"})
      PROVE  /\ Opened(u, p) \in Seq(NamesKnown)
             /\ Within(Opened(u, p), q) \/ \A w \in t \ {v} : ~Below(Opened(u, p), w[2])
  <2>1. CASE p \in S
    <3>1. Opened(u, p) = Opened(s, p) /\ Opened(s, p) \in Seq(NamesKnown)
      BY <1>3, <1>5, <2>1
    <3>2. CASE \A w \in t : ~Below(Opened(s, p), w[2])
      BY <3>1, <3>2
    <3>3. CASE Within(Opened(s, p), o) /\ ~Within(Opened(s, p), q)
      <4>1. \A x \in t : ~Below(Opened(s, p), x[2])
        BY <3>1, <3>3, LeftForGood DEF q
      <4> QED
        BY <3>1, <4>1
    <3> QED
      BY <1>5, <2>1, <3>1, <3>2, <3>3
  <2>2. CASE p \in N
    BY <1>7, <1>8, <2>2
  <2> QED
    BY <1>2, <2>1, <2>2
<1>10. ASSUME NEW p \in S, NEW r \in N, Opened(u, p) = Opened(u, r) PROVE FALSE
  <2>1. PICK i \in 1 .. n2 : r = m + i
    BY <1>7
  <2> DEFINE P == Opened(s, p)
  <2>2. P \in Seq(NamesKnown) /\ Len(P) = c + i /\ Within(P, q)
    BY <1>3, <1>8, <1>10, <2>1
  <2>3. Below(P, v[2])
    BY <1>1, <2>2, FrontBelow DEF q
  <2>4. Within(P, o)
    BY <1>5, <2>3
  <2> HIDE DEF P
  <2>5. c + i \in 0 .. Len(o) /\ c + i <= Len(q) /\ \A k \in 1 .. c + i : o[k] = q[k]
    BY <2>2, <2>4 DEF Within
  <2>6. c + i <= c
    <3>1. \A k \in 0 .. Len(o) : k <= Len(q) /\ (\A j \in 1 .. k : o[j] = q[j]) => k <= c
      BY DEF Agreeing, q
    <3> QED
      BY <2>5, <3>1
  <2> QED
    BY <2>6
<1>11. ASSUME NEW p \in Positions(u, {"scope"}), NEW r \in Positions(u, {"scope"}),
              Opened(u, p) = Opened(u, r)
       PROVE  p = r
  <2>1. CASE p \in S /\ r \in S
    BY <1>3, <1>6, <1>11, <2>1
  <2>2. CASE p \in N /\ r \in N
    <3>1. PICK i \in 1 .. n2 : p = m + i
      BY <1>7, <2>2
    <3>2. PICK j \in 1 .. n2 : r = m + j
      BY <1>7, <2>2
    <3>3. c + i = c + j
      BY <1>8, <1>11, <3>1, <3>2
    <3> QED
      BY <3>1, <3>2, <3>3
  <2> QED
    BY <1>2, <1>10, <1>11, <2>1, <2>2
<1>12. ScopesLeft(u, q, t \ {v})
  BY <1>9 DEF ScopesLeft
<1>13. ScopesOnce(u)
  BY <1>11 DEF ScopesOnce
<1> QED
  BY <1>12, <1>13 DEF q

(* The signal of a handle, the next number if it has none yet.             *)
Given(m, h) == IF h \in DOMAIN m THEN m[h] ELSE Cardinality(DOMAIN m) + 1

IdsGrown(m, n, sel, t, v) ==
    /\ Given(m, v[1]) \in Nat
    /\ IdsGiven(n, sel, t \ {v})
    /\ \A w \in sel \ t : n[w[1]] = m[w[1]]
    /\ n[v[1]] = Given(m, v[1])

(* The signal of the next variable.                                        *)
LEMMA NextIds ==
    ASSUME NEW sel, NEW t, t \subseteq sel, NEW v \in t, NEW m, IdsGiven(m, sel, t)
    PROVE  IdsGrown(m, Bind(m, v[1], Given(m, v[1])), sel, t, v)
<1> DEFINE D == DOMAIN m
           h == v[1]
           g == Given(m, h)
           n == Bind(m, h, g)
           l == Cardinality(D)
<1>1. /\ D = {w[1] : w \in sel \ t} /\ IsFiniteSet(D)
      /\ \A k \in D : m[k] \in 1 .. l
      /\ \A j, k \in D : m[j] = m[k] => j = k
  BY DEF IdsGiven, Injective
<1>2. DOMAIN n = D \cup {h} /\ \A k \in D \cup {h} : n[k] = IF k = h THEN g ELSE m[k]
  BY DEF Bind
<1>3. sel \ (t \ {v}) = (sel \ t) \cup {v}
  OBVIOUS
<1>4. l \in Nat /\ IsFiniteSet(D \cup {h})
      /\ Cardinality(D \cup {h}) = IF h \in D THEN l ELSE l + 1
  BY <1>1, FS_AddElement, FS_CardinalityType
<1>5. g = IF h \in D THEN m[h] ELSE l + 1
  BY DEF Given
<1>6. DOMAIN n = {w[1] : w \in sel \ (t \ {v})}
  BY <1>1, <1>2, <1>3
<1>7. \A w \in sel \ t : w[1] \in D
  BY <1>1
<1> HIDE DEF D, h, g, n, l
<1>8. g \in Nat
  BY <1>1, <1>4, <1>5
<1>9. \A k \in D : n[k] = m[k]
  BY <1>2, <1>5
<1>10. n[h] = g
  BY <1>2
<1>11. ASSUME NEW k \in DOMAIN n PROVE n[k] \in 1 .. Cardinality(DOMAIN n)
  <2>1. CASE h \in D
    BY <1>1, <1>2, <1>4, <1>9, <2>1
  <2>2. CASE h \notin D
    BY <1>1, <1>2, <1>4, <1>5, <1>9, <1>10, <2>2
  <2> QED
    BY <2>1, <2>2
<1>12. ASSUME NEW j \in DOMAIN n, NEW k \in DOMAIN n, n[j] = n[k] PROVE j = k
  <2>1. CASE h \in D
    BY <1>1, <1>2, <1>9, <1>12, <2>1
  <2>2. CASE h \notin D
    BY <1>1, <1>2, <1>4, <1>5, <1>9, <1>10, <1>12, <2>2
  <2> QED
    BY <2>1, <2>2
<1>13. IdsGiven(n, sel, t \ {v})
  BY <1>2, <1>4, <1>6, <1>11, <1>12 DEF IdsGiven, Injective
<1>14. \A w \in sel \ t : n[w[1]] = m[w[1]]
  BY <1>7, <1>9
<1> QED
  BY <1>8, <1>10, <1>13, <1>14 DEF h, g, n, IdsGrown

(* The variable of the next path.                                          *)
LEMMA NextVar ==
    ASSUME NEW sel, NEW t, t \subseteq sel, NEW v \in t,
           NEW s, NEW u, NEW l \in Nat, NEW z \in Nat, z > l, NEW m, NEW n,
           \A w \in sel \ t : n[w[1]] = m[w[1]],
           \A p \in 1 .. l : u[p] = s[p] /\ ScopesAt(u, p) = ScopesAt(s, p),
           Positions(s, {"var"}) \subseteq 1 .. l,
           Positions(u, {"var"}) = Positions(s, {"var"}) \cup {z},
           u[z].code = n[v[1]], VarPath(u, z) = v[2],
           VarsGiven(s, m, sel, t)
    PROVE  VarsGiven(u, n, sel, t \ {v})
<1> DEFINE V == Positions(s, {"var"})
           W == Positions(u, {"var"})
           D == sel \ t
           E == sel \ (t \ {v})
<1>1. PICK f \in [D -> V] : Matches(f, s, m, sel, t)
  BY DEF VarsGiven
<1>2. /\ \A x, y \in D : f[x] = f[y] => x = y
      /\ \A p \in V : \E x \in D : f[x] = p
      /\ \A x \in D : s[f[x]].code = m[x[1]] /\ VarPath(s, f[x]) = x[2]
  BY <1>1 DEF Matches
<1>3. E = D \cup {v} /\ v \notin D /\ W = V \cup {z} /\ z \notin V
  OBVIOUS
<1>4. \A p \in V : u[p] = s[p] /\ VarPath(u, p) = VarPath(s, p)
  BY DEF VarPath
<1>5. \A w \in D : n[w[1]] = m[w[1]]
  OBVIOUS
<1> HIDE DEF V, W, D, E
<1> DEFINE g == [x \in E |-> IF x = v THEN z ELSE f[x]]
<1>6. g \in [E -> W]
  BY <1>1, <1>3
<1>7. g[v] = z /\ \A x \in D : g[x] = f[x] /\ f[x] \in V
  BY <1>1, <1>3
<1> HIDE DEF g
<1>8. \A x, y \in E : g[x] = g[y] => x = y
  BY <1>2, <1>3, <1>7
<1>9. \A p \in W : \E x \in E : g[x] = p
  BY <1>2, <1>3, <1>7
<1>10. \A x \in E : u[g[x]].code = n[x[1]] /\ VarPath(u, g[x]) = x[2]
  <2> SUFFICES ASSUME NEW x \in E PROVE u[g[x]].code = n[x[1]] /\ VarPath(u, g[x]) = x[2]
    OBVIOUS
  <2>1. CASE x = v
    BY <1>7, <2>1
  <2>2. CASE x \in D
    BY <1>2, <1>4, <1>5, <1>7, <2>2
  <2> QED
    BY <1>3, <2>1, <2>2
<1>11. Matches(g, u, n, sel, t \ {v})
  BY <1>6, <1>8, <1>9, <1>10 DEF Matches, E, W
<1>12. g \in [sel \ (t \ {v}) -> Positions(u, {"var"})]
  BY <1>6 DEF E, W
<1> QED
  BY <1>11, <1>12 DEF VarsGiven

(* All of that, for the calls made so far.                                 *)
HierarchyKept(s, o, sel, t, m) ==
    /\ Shape(sel, t) /\ Walked(s, o)
    /\ SortedSoFar(sel, t) /\ Inside(sel, t, o)
    /\ ScopesLeft(s, o, t) /\ ScopesOnce(s) /\ Balanced(s, o)
    /\ IdsGiven(m, sel, t) /\ VarsGiven(s, m, sel, t)

(* Nothing declared yet.                                                   *)
LEMMA KeptAtFirst ==
    ASSUME NEW sel, Shape(sel, sel)
    PROVE  HierarchyKept(<<>>, <<>>, sel, sel, Nothing)
<1>1. Walked(<<>>, <<>>)
  <2>1. Len(<<>>) + 1 = 1
    OBVIOUS
  <2>2. ScopesAt(<<>>, 1) = <<>>
    BY ScopesSteps
  <2> QED
    BY <2>1, <2>2 DEF Walked
<1>2. SortedSoFar(sel, sel) /\ Inside(sel, sel, <<>>)
  BY DEF SortedSoFar, Inside
<1>3. \A kind : Positions(<<>>, {kind}) = {}
  BY DEF Positions
<1>4. ScopesLeft(<<>>, <<>>, sel) /\ ScopesOnce(<<>>)
  BY <1>3 DEF ScopesLeft, ScopesOnce
<1>5. Balanced(<<>>, <<>>)
  <2>1. Cardinality({}) = 0 /\ Len(<<>>) = 0
    BY FS_EmptySet
  <2>2. Positions(<<>>, {"scope"}) = {} /\ Positions(<<>>, {"up"}) = {}
    BY <1>3
  <2>3. Cardinality(Positions(<<>>, {"scope"})) = Cardinality(Positions(<<>>, {"up"})) + Len(<<>>)
    <3> DEFINE a == Cardinality(Positions(<<>>, {"scope"}))
               b == Cardinality(Positions(<<>>, {"up"}))
    <3>1. a = 0 /\ b = 0
      BY <2>1, <2>2
    <3> HIDE DEF a, b
    <3>2. a = b + Len(<<>>)
      BY <2>1, <3>1
    <3> QED
      BY <3>2 DEF a, b
  <2> QED
    BY <2>3 DEF Balanced
<1>6. IdsGiven(Nothing, sel, sel)
  <2>1. DOMAIN Nothing = {} /\ {w[1] : w \in sel \ sel} = {} /\ IsFiniteSet({})
    BY FS_EmptySet DEF Nothing
  <2> QED
    BY <2>1 DEF IdsGiven, Injective
<1>7. VarsGiven(<<>>, Nothing, sel, sel)
  <2> DEFINE f == [x \in {} |-> None]
  <2>1. f \in [sel \ sel -> Positions(<<>>, {"var"})]
    BY <1>3
  <2>2. Matches(f, <<>>, Nothing, sel, sel)
    BY <1>3, <2>1 DEF Matches
  <2> QED
    BY <2>1, <2>2 DEF VarsGiven
<1> QED
  BY <1>1, <1>2, <1>4, <1>5, <1>6, <1>7 DEF HierarchyKept

(* One path more.                                                          *)
LEMMA KeptByDeclaring ==
    ASSUME NEW s, NEW o, NEW sel, NEW t, NEW m, HierarchyKept(s, o, sel, t, m),
           NEW v \in t, IsFirst(v, t), NEW c, Agreeing(o, Front(v[2]), c),
           NEW u, Grows(u, s, o, v[2], c, Given(m, v[1]))
    PROVE  HierarchyKept(u, Front(v[2]), sel, t \ {v}, Bind(m, v[1], Given(m, v[1])))
<1> DEFINE q == Front(v[2])
           g == Given(m, v[1])
           n == Bind(m, v[1], g)
           l == Len(s)
           n1 == Len(o) - c
           n2 == Len(q) - c
           z == l + n1 + n2 + 1
<1>1. /\ Shape(sel, t) /\ s \in Seq(Calls) /\ o \in Seq(NamesKnown) /\ ScopesAt(s, Len(s) + 1) = o
      /\ SortedSoFar(sel, t) /\ Inside(sel, t, o)
      /\ ScopesLeft(s, o, t) /\ ScopesOnce(s) /\ Balanced(s, o)
      /\ IdsGiven(m, sel, t) /\ VarsGiven(s, m, sel, t) /\ t \subseteq sel
  BY DEF HierarchyKept, Walked, Shape
<1>2. v[2] \in FullPaths
  BY <1>1 DEF Shape
<1>3. q \in Seq(NamesKnown)
  BY <1>2, PathParts
<1>4. /\ g \in Nat /\ IdsGiven(n, sel, t \ {v}) /\ n[v[1]] = g
      /\ \A w \in sel \ t : n[w[1]] = m[w[1]]
  <2>1. t \subseteq sel /\ IdsGiven(m, sel, t)
    BY <1>1
  <2>2. IdsGrown(m, Bind(m, v[1], Given(m, v[1])), sel, t, v)
    BY <2>1, NextIds
  <2> QED
    BY <2>2 DEF IdsGrown
<1>5. c \in Nat /\ l \in Nat /\ n1 \in Nat /\ n2 \in Nat /\ c + n1 = Len(o) /\ c + n2 = Len(q)
  <2>1. c \in 0 .. Len(o) /\ c \in 0 .. Len(q)
    BY DEF Agreeing
  <2>2. Len(o) \in Nat /\ Len(q) \in Nat /\ l \in Nat
    BY <1>1, <1>3
  <2> HIDE DEF l, q
  <2> QED
    BY <2>1, <2>2
<1>6. Agreeing(o, q, c) /\ Grows(u, s, o, v[2], c, g) /\ Len(s) = l
  OBVIOUS
<1> HIDE DEF n1, n2, l, g, n
<1>7. Grown(u, s, l, n1, n2, c, v[2], g)
  BY <1>1, <1>2, <1>4, <1>5, <1>6, GrownIs
<1>8. KindsAre(u, s, l, n1, n2)
  BY <1>1, <1>5, <1>6, <1>7, GrownKinds
<1>9. ScopesLeft(u, q, t \ {v}) /\ ScopesOnce(u)
  <2>1. s \in Seq(Calls) /\ o \in Seq(NamesKnown)
    BY <1>1
  <2>2. Shape(sel, t) /\ SortedSoFar(sel, t) /\ Inside(sel, t, o)
    BY <1>1
  <2>3. ScopesLeft(s, o, t) /\ ScopesOnce(s)
    BY <1>1
  <2>4. l \in Nat /\ Len(s) = l /\ n1 \in Nat /\ n2 \in Nat /\ c \in Nat
    BY <1>5, <1>6
  <2>5. c + n1 = Len(o) /\ c + n2 = Len(Front(v[2]))
    BY <1>5
  <2> QED
    BY <1>7, <2>1, <2>2, <2>3, <2>4, <2>5, GrownScopes
<1>10. Balanced(u, q)
  BY <1>1, <1>5, <1>6, <1>7, GrownBalanced
<1>11. Shape(sel, t \ {v}) /\ SortedSoFar(sel, t \ {v}) /\ Inside(sel, t \ {v}, q)
  BY <1>1, NextSorted
<1>12. Walked(u, q)
  <2>1. u \in Seq(Calls) /\ Len(u) = l + n1 + n2 + 1 /\ ScopesAt(u, l + n1 + n2 + 2) = q
    BY <1>7 DEF Grown
  <2>2. Len(u) + 1 = l + n1 + n2 + 2
    BY <1>5, <2>1
  <2> QED
    BY <1>3, <2>1, <2>2 DEF Walked
<1>13. VarsGiven(u, n, sel, t \ {v})
  <2>1. \A p \in 1 .. l : u[p] = s[p] /\ ScopesAt(u, p) = ScopesAt(s, p)
    BY <1>7 DEF Grown
  <2>2. Positions(s, {"var"}) \subseteq 1 .. l
    BY <1>8 DEF KindsAre
  <2>3. Positions(u, {"var"}) = Positions(s, {"var"}) \cup {z}
    BY <1>8 DEF KindsAre
  <2>4. u[z].code = n[v[1]]
    BY <1>4, <1>7 DEF Grown
  <2>5. VarPath(u, z) = v[2]
    BY <1>7 DEF Grown
  <2>6. z \in Nat /\ z > l
    BY <1>5
  <2>7. VarsGiven(s, m, sel, t) /\ t \subseteq sel
    BY <1>1
  <2>8. \A w \in sel \ t : n[w[1]] = m[w[1]]
    BY <1>4
  <2> HIDE DEF z
  <2> QED
    BY <1>5, <2>1, <2>2, <2>3, <2>4, <2>5, <2>6, <2>7, <2>8, NextVar
<1>14. HierarchyKept(u, q, sel, t \ {v}, n)
  BY <1>4, <1>9, <1>10, <1>11, <1>12, <1>13 DEF HierarchyKept
<1> QED
  BY <1>14 DEF n, g

(* The calls that close scopes.                                            *)
LEMMA UpsAre ==
    ASSUME NEW n \in Nat
    PROVE  Ups(n) \in Seq(Calls) /\ Len(Ups(n)) = n /\ \A i \in 1 .. n : Ups(n)[i].kind = "up"
<1>1. Call("up", None, None) \in Calls /\ Call("up", None, None).kind = "up"
  BY DEF Call, Calls, KindsOfCalls
<1> QED
  BY <1>1 DEF Ups

(* They add nothing else.                                                  *)
OnlyUps(u, s, l, n) ==
    /\ Positions(u, {"up"}) = Positions(s, {"up"}) \cup (l + 1 .. l + n)
    /\ \A kind : kind # "up" => Positions(u, {kind}) = Positions(s, {kind})
    /\ \A kind : Positions(s, {kind}) \subseteq 1 .. l

(* Adding them adds nothing else.                                          *)
LEMMA ClosedKinds ==
    ASSUME NEW s \in Seq(Calls), NEW l \in Nat, Len(s) = l, NEW n \in Nat,
           NEW u \in Seq(Calls), Len(u) = l + n, Alike(u, s, l), Leaves(u, l, n)
    PROVE  OnlyUps(u, s, l, n)
<1> DEFINE R == 1 .. l
           T == l + 1 .. l + n
           up == "up"
<1>1. DOMAIN s = R /\ DOMAIN u = R \cup T
  OBVIOUS
<1>2. \A k \in T : u[k].kind = up
  <2> SUFFICES ASSUME NEW k \in T PROVE u[k].kind = up
    OBVIOUS
  <2>1. k - l \in 1 .. n /\ l + (k - l) = k
    OBVIOUS
  <2> QED
    BY <2>1 DEF Leaves
<1>3. \A k \in R : u[k] = s[k]
  BY DEF Alike
<1> HIDE DEF R, T, up
<1>4. \A k, kind : k \in Positions(s, {kind}) <=> k \in R /\ s[k].kind = kind
  BY <1>1 DEF Positions
<1>5. \A k, kind : k \in Positions(u, {kind}) <=> k \in R \cup T /\ u[k].kind = kind
  BY <1>1 DEF Positions
<1>6. ASSUME NEW k PROVE k \in Positions(u, {up}) <=> k \in Positions(s, {up}) \/ k \in T
  <2>1. k \in Positions(u, {up}) <=> k \in R \cup T /\ u[k].kind = up
    BY <1>5
  <2>2. k \in Positions(s, {up}) <=> k \in R /\ s[k].kind = up
    BY <1>4
  <2> QED
    BY <1>2, <1>3, <2>1, <2>2
<1>7. ASSUME NEW k, NEW kind, kind # up
      PROVE  k \in Positions(u, {kind}) <=> k \in Positions(s, {kind})
  <2>1. k \in Positions(u, {kind}) <=> k \in R \cup T /\ u[k].kind = kind
    BY <1>5
  <2>2. k \in Positions(s, {kind}) <=> k \in R /\ s[k].kind = kind
    BY <1>4
  <2> QED
    BY <1>2, <1>3, <1>7, <2>1, <2>2
<1>8. \A kind : Positions(s, {kind}) \subseteq R
  BY <1>4
<1>9. Positions(u, {up}) = Positions(s, {up}) \cup T
  BY <1>6
<1>10. ASSUME NEW kind, kind # up PROVE Positions(u, {kind}) = Positions(s, {kind})
  <2>1. \A k : k \in Positions(u, {kind}) <=> k \in Positions(s, {kind})
    BY <1>7, <1>10
  <2> QED
    BY <2>1
<1> QED
  BY <1>8, <1>9, <1>10 DEF R, T, up, OnlyUps

(* The last scopes are closed.                                             *)
LEMMA KeptByClosing ==
    ASSUME NEW s, NEW o, NEW sel, NEW m, HierarchyKept(s, o, sel, {}, m)
    PROVE  HierarchyKept(s \o Ups(Len(o)), <<>>, sel, {}, m)
<1> DEFINE u == s \o Ups(Len(o))
           l == Len(s)
           n == Len(o)
<1>1. /\ Shape(sel, {}) /\ s \in Seq(Calls) /\ o \in Seq(NamesKnown) /\ ScopesAt(s, Len(s) + 1) = o
      /\ ScopesLeft(s, o, {}) /\ ScopesOnce(s) /\ Balanced(s, o)
      /\ IdsGiven(m, sel, {}) /\ VarsGiven(s, m, sel, {})
  BY DEF HierarchyKept, Walked
<1>2. l \in Nat /\ n \in Nat
  BY <1>1
<1>3. Ups(n) \in Seq(Calls) /\ Len(Ups(n)) = n /\ \A i \in 1 .. n : Ups(n)[i].kind = "up"
  <2> HIDE DEF n
  <2> QED
    BY <1>2, UpsAre
<1>4. Joins(u, s, Ups(n), Calls)
  <2>1. Ups(n) \in Seq(Calls)
    BY <1>3
  <2> QED
    BY <1>1, <2>1, TwoParts
<1> HIDE DEF u, l, n
<1>5. u \in Seq(Calls) /\ Len(u) = l + n /\ \A k \in 1 .. l : u[k] = s[k]
  BY <1>3, <1>4 DEF Joins, l
<1>6. Leaves(u, l, n)
  BY <1>3, <1>4 DEF Joins, Leaves, l
<1>7. /\ Positions(u, {"up"}) = Positions(s, {"up"}) \cup (l + 1 .. l + n)
      /\ \A kind : kind # "up" => Positions(u, {kind}) = Positions(s, {kind})
      /\ \A kind : Positions(s, {kind}) \subseteq 1 .. l
  <2>1. Len(s) = l /\ s \in Seq(Calls)
    BY <1>1 DEF l
  <2>2. Alike(u, s, l)
    BY <1>5 DEF Alike
  <2>3. u \in Seq(Calls) /\ Len(u) = l + n
    BY <1>5
  <2>4. OnlyUps(u, s, l, n)
    BY <1>2, <1>6, <2>1, <2>2, <2>3, ClosedKinds
  <2> QED
    BY <2>4 DEF OnlyUps
<1>8. Positions(u, {"scope"}) = Positions(s, {"scope"}) /\ Positions(u, {"var"}) = Positions(s, {"var"})
  <2>1. "scope" # "up" /\ "var" # "up"
    OBVIOUS
  <2> QED
    BY <1>7, <2>1
<1>9. \A k \in 1 .. l + 1 : ScopesAt(u, k) = ScopesAt(s, k)
  <2> SUFFICES ASSUME NEW k \in 1 .. l + 1 PROVE ScopesAt(u, k) = ScopesAt(s, k)
    OBVIOUS
  <2>1. Alike(u, s, k - 1) /\ k \in Nat \ {0}
    BY <1>2, <1>5 DEF Alike
  <2> QED
    BY <2>1, ScopesSteps
<1>10. ScopesAt(u, l + n + 1) = <<>>
  <2>1. ScopesAt(u, l + 1) = o
    <3>1. l + 1 \in 1 .. l + 1
      BY <1>2
    <3> QED
      BY <1>1, <1>9, <3>1 DEF l
  <2>2. n <= Len(o) /\ Len(o) - n = 0 /\ n \in 0 .. n
    BY <1>2 DEF n
  <2>3. LeftBy(u, l, n, o)
    BY <1>1, <1>2, <1>6, <2>1, <2>2, ScopesClosed
  <2>4. ScopesAt(u, l + n + 1) = SubSeq(o, 1, 0)
    BY <2>2, <2>3 DEF LeftBy
  <2>5. SubSeq(o, 1, 0) = <<>>
    BY <1>1
  <2> QED
    BY <2>4, <2>5
<1>11. Walked(u, <<>>)
  <2>1. <<>> \in Seq(NamesKnown)
    OBVIOUS
  <2>2. Len(u) + 1 = l + n + 1
    BY <1>5
  <2> QED
    BY <1>5, <1>10, <2>1, <2>2 DEF Walked
<1>12. \A k \in 1 .. l : ScopesAt(u, k) = ScopesAt(s, k)
  BY <1>2, <1>9
<1>13. \A p \in 1 .. l : Opened(u, p) = Opened(s, p) /\ VarPath(u, p) = VarPath(s, p)
  BY <1>5, <1>12 DEF Opened, VarPath
<1>14. ScopesLeft(u, <<>>, {}) /\ ScopesOnce(u)
  <2>1. \A p \in Positions(s, {"scope"}) : Opened(u, p) = Opened(s, p)
    BY <1>7, <1>13
  <2> QED
    BY <1>1, <1>8, <2>1 DEF ScopesLeft, ScopesOnce
<1>15. Balanced(u, <<>>)
  <2> DEFINE U == Positions(s, {"up"})
             S == Positions(s, {"scope"})
  <2>1. U \in SUBSET (1 .. l) /\ Cardinality(S) = Cardinality(U) + n
    BY <1>1, <1>7 DEF Balanced, n
  <2> HIDE DEF U, S
  <2>2. l <= l
    BY <1>2
  <2>3. Counted(U, l, n)
    BY <1>2, <2>1, <2>2, CountBehind
  <2>4. Positions(u, {"up"}) = U \cup (l + 1 .. l + n) /\ Positions(u, {"scope"}) = S
    BY <1>7, <1>8 DEF U, S
  <2>5. Cardinality(Positions(u, {"up"})) = Cardinality(U) + n /\ Cardinality(U) \in Nat
    BY <2>3, <2>4 DEF Counted
  <2>6. Cardinality(Positions(u, {"scope"})) = Cardinality(Positions(u, {"up"})) + Len(<<>>)
    <3>1. Len(<<>>) = 0
      OBVIOUS
    <3> QED
      BY <1>2, <2>1, <2>4, <2>5, <3>1
  <2> QED
    BY <2>6 DEF Balanced
<1>16. VarsGiven(u, m, sel, {})
  <2>1. PICK f \in [sel \ {} -> Positions(s, {"var"})] : Matches(f, s, m, sel, {})
    BY <1>1 DEF VarsGiven
  <2>2. \A p \in Positions(s, {"var"}) : u[p] = s[p] /\ VarPath(u, p) = VarPath(s, p)
    BY <1>5, <1>7, <1>13
  <2>3. Matches(f, u, m, sel, {})
    BY <1>8, <2>1, <2>2 DEF Matches
  <2> QED
    BY <1>8, <2>1, <2>3 DEF VarsGiven
<1>17. SortedSoFar(sel, {}) /\ Inside(sel, {}, <<>>)
  BY DEF SortedSoFar, Inside
<1> QED
  BY <1>1, <1>11, <1>14, <1>15, <1>16, <1>17 DEF HierarchyKept, u, n

(* The hierarchy is kept from the creation of the file on.                 *)
HInv ==
    /\ stage = "opened" /\ format = "fst" =>
         Shape(selected, selected) /\ calls = <<>> /\ open = <<>> /\ ids = Nothing
    /\ stage \in {"fst", "done"} => HierarchyKept(calls, open, selected, todo, ids)
    /\ stage = "done" => todo = {} /\ open = <<>>

(* Nothing is declared when an output file is created.                     *)
LEMMA InitHInv == OutputInit => HInv
<1> SUFFICES ASSUME OutputInit PROVE HInv
  OBVIOUS
<1>1. stage = "opened" /\ calls = <<>> /\ open = <<>> /\ ids = Nothing
  BY DEF OutputInit
<1>2. ASSUME format = "fst" PROVE Shape(selected, selected)
  <2>1. selected \in Hierarchies \cup {{}}
    BY <1>2 DEF OutputInit
  <2>2. CASE selected \in Hierarchies
    BY <2>2, OutputAssumption DEF Shape, FullPaths, NamesKnown
  <2>3. CASE selected = {}
    BY <2>3, FS_EmptySet DEF Shape
  <2> QED
    BY <2>1, <2>2, <2>3
<1> QED
  BY <1>1, <1>2 DEF HInv

(* Every step keeps the hierarchy, declaring it path by path.              *)
LEMMA StepHInv == HInv /\ [OutputNext]_<< vars, outputVars >> => HInv'
<1> SUFFICES ASSUME HInv, [OutputNext]_<< vars, outputVars >> PROVE HInv'
  OBVIOUS
<1>1. CASE CreateFst
  <2>1. /\ stage = "opened" /\ format = "fst" /\ stage' = "fst" /\ todo' = selected
        /\ UNCHANGED << selected, format, open, ids, calls >>
    BY <1>1 DEF CreateFst, vars
  <2>2. HierarchyKept(calls', open', selected', todo', ids')
    BY <2>1, KeptAtFirst DEF HInv
  <2> QED
    BY <2>1, <2>2 DEF HInv
<1>2. CASE DeclareVar
  <2>1. PICK v \in First(todo) :
          /\ calls' = calls \o Declared(v)
          /\ open' = Front(v[2])
          /\ ids' = Bind(ids, v[1], SignalOf(v[1]))
          /\ todo' = todo \ {v}
    BY <1>2 DEF DeclareVar
  <2>2. stage = "fst" /\ stage' = "fst" /\ UNCHANGED << selected, format >>
    BY <1>2 DEF DeclareVar, vars
  <2>3. HierarchyKept(calls, open, selected, todo, ids)
    BY <2>2 DEF HInv
  <2>4. v \in todo /\ IsFirst(v, todo)
    BY <2>1 DEF First, IsFirst, NotAfter
  <2>5. SignalOf(v[1]) = Given(ids, v[1])
    BY DEF SignalOf, Given
  <2> DEFINE c == Common(Front(v[2]))
  <2>6. Agreeing(open, Front(v[2]), c)
    <3>1. open \in Seq(NamesKnown) /\ v[2] \in FullPaths
      BY <2>3, <2>4 DEF HierarchyKept, Walked, Shape
    <3>2. Front(v[2]) \in Seq(NamesKnown)
      BY <3>1, PathParts
    <3> QED
      BY <3>1, <3>2, CommonIs
  <2>7. Grows(calls', calls, open, v[2], c, Given(ids, v[1]))
    BY <2>1, <2>5, DeclaredIs DEF Grows
  <2> HIDE DEF c
  <2>8. HierarchyKept(calls', Front(v[2]), selected, todo \ {v}, Bind(ids, v[1], Given(ids, v[1])))
    BY <2>3, <2>4, <2>6, <2>7, KeptByDeclaring
  <2>9. HierarchyKept(calls', open', selected', todo', ids')
    BY <2>1, <2>2, <2>5, <2>8
  <2> QED
    BY <2>2, <2>9 DEF HInv
<1>3. CASE CloseScopes
  <2>1. /\ stage = "fst" /\ stage' = "done" /\ todo = {} /\ todo' = {} /\ open' = <<>>
        /\ calls' = calls \o Ups(Len(open))
        /\ UNCHANGED << selected, ids >>
    BY <1>3 DEF CloseScopes, vars
  <2>2. HierarchyKept(calls, open, selected, {}, ids)
    BY <2>1 DEF HInv
  <2>3. HierarchyKept(calls', open', selected', todo', ids')
    BY <2>1, <2>2, KeptByClosing
  <2> QED
    BY <2>1, <2>3 DEF HInv
<1>4. ASSUME stage' \notin {"opened", "fst", "done"} PROVE HInv'
  BY <1>4 DEF HInv
<1>5. CASE Refuse \/ CreateVcd \/ FailFst
  <2>1. stage' \in {"refused", "vcd", "failed"}
    BY <1>5 DEF Refuse, CreateVcd, FailFst
  <2> QED
    BY <1>4, <2>1
<1>6. CASE WriteHeader
  <2>1. stage' = "vcd"
    BY <1>6 DEF WriteHeader, outputVars
  <2> QED
    BY <1>4, <2>1
<1>7. CASE UNCHANGED << vars, outputVars >>
  <2>1. UNCHANGED << stage, format, selected, calls, open, ids, todo >>
    BY <1>7 DEF vars, outputVars
  <2>2. HierarchyKept(calls', open', selected', todo', ids') <=> HierarchyKept(calls, open, selected, todo, ids)
    BY <2>1
  <2> QED
    BY <2>1, <2>2 DEF HInv
<1> QED
  BY <1>1, <1>2, <1>3, <1>5, <1>6, <1>7 DEF OutputNext

(* A bijection between the names of the hierarchy and the variables.       *)
LEMMA KeptDeclares == HInv => FstDeclares
<1> SUFFICES ASSUME HInv, stage = "done" PROVE FstDeclares
  BY DEF FstDeclares
<1>1. HierarchyKept(calls, <<>>, selected, {}, ids)
  BY DEF HInv
<1>2. /\ IsFiniteSet(selected) /\ ScopesOnce(calls) /\ Balanced(calls, <<>>) /\ Injective(ids)
      /\ VarsGiven(calls, ids, selected, {})
  BY <1>1 DEF HierarchyKept, Shape, IdsGiven
<1>3. selected \ {} = selected
  OBVIOUS
<1>4. PICK f \in [selected -> VarsWritten] : Matches(f, calls, ids, selected, {})
  BY <1>2, <1>3 DEF VarsGiven, VarsWritten
<1>5. /\ \A v, w \in selected : f[v] = f[w] => v = w
      /\ \A p \in VarsWritten : \E w \in selected : f[w] = p
      /\ \A w \in selected : calls[f[w]].code = ids[w[1]] /\ VarPath(calls, f[w]) = w[2]
  BY <1>3, <1>4 DEF Matches, VarsWritten
<1>6. Cardinality(VarsWritten) = Cardinality(selected)
  <2>1. f \in Bijection(selected, VarsWritten)
    BY <1>4, <1>5 DEF Bijection, Injection, Surjection, IsInjective
  <2> QED
    BY <1>2, <2>1, FS_Bijection DEF ExistsBijection
<1>7. {<< ids[v[1]], v[2] >> : v \in selected} = {<< calls[p].code, VarPath(calls, p) >> : p \in VarsWritten}
  <2>1. ASSUME NEW v \in selected
        PROVE  \E p \in VarsWritten : << ids[v[1]], v[2] >> = << calls[p].code, VarPath(calls, p) >>
    BY <1>4, <1>5
  <2>2. ASSUME NEW p \in VarsWritten
        PROVE  \E v \in selected : << ids[v[1]], v[2] >> = << calls[p].code, VarPath(calls, p) >>
    BY <1>5
  <2> QED
    BY <2>1, <2>2
<1>8. \A p, q \in Positions(calls, {"scope"}) : ScopePath(p) = ScopePath(q) => p = q
  BY <1>2 DEF ScopesOnce, ScopePath, Opened
<1>9. Cardinality(Positions(calls, {"scope"})) = Cardinality(Positions(calls, {"up"}))
  <2> DEFINE a == Cardinality(Positions(calls, {"scope"}))
             U == Positions(calls, {"up"})
             b == Cardinality(U)
  <2>1. a = b + Len(<<>>) /\ Len(<<>>) = 0
    BY <1>2 DEF Balanced
  <2>2. b \in Nat
    <3>1. calls \in Seq(Calls)
      BY <1>1 DEF HierarchyKept, Walked
    <3>2. U \subseteq DOMAIN calls /\ IsFiniteSet(DOMAIN calls)
      <4>1. DOMAIN calls = 1 .. Len(calls) /\ Len(calls) \in Nat
        BY <3>1
      <4>2. IsFiniteSet(1 .. Len(calls))
        BY <4>1, FS_Interval
      <4> QED
        BY <4>1, <4>2 DEF Positions
    <3> HIDE DEF U
    <3>3. IsFiniteSet(U)
      BY <3>2, FS_Subset
    <3> QED
      BY <3>3, FS_CardinalityType
  <2> HIDE DEF a, b
  <2>3. a = b
    BY <2>1, <2>2
  <2> QED
    BY <2>3 DEF a, b
<1> QED
  BY <1>2, <1>6, <1>7, <1>8, <1>9 DEF FstDeclares

(* An exported FST file declares the hierarchy: every path once for each   *)
(* signal shown there, names sharing a signal as they shared a handle,     *)
(* every scope opened once and all closed, for every hierarchy and every   *)
(* order of its names (output.rs:533-567).                                 *)
THEOREM HierarchyDeclared == OutputSpec => []FstDeclares
BY InitHInv, StepHInv, KeptDeclares, PTL DEF OutputSpec

-----------------------------------------------------------------------------
(* The printers of value changes (CatOutput), for all streams and names.   *)

(* One sequence after another.                                             *)
LEMMA Joined ==
    ASSUME NEW X, NEW s \in Seq(X), NEW t \in Seq(X)
    PROVE  /\ s \o t \in Seq(X)
           /\ Len(s \o t) = Len(s) + Len(t)
           /\ DOMAIN (s \o t) = 1 .. Len(s) + Len(t)
           /\ \A i \in 1 .. Len(s) : (s \o t)[i] = s[i]
           /\ \A i \in 1 .. Len(t) : (s \o t)[Len(s) + i] = t[i]
OBVIOUS

(* Sequences of the same elements are the same.                            *)
LEMMA SameElements ==
    ASSUME NEW X, NEW s \in Seq(X), NEW t \in Seq(X), Len(s) = Len(t),
           \A i \in 1 .. Len(s) : s[i] = t[i]
    PROVE  s = t
OBVIOUS

(* It does not matter which two of three are joined first.                 *)
LEMMA JoinedThrice ==
    ASSUME NEW X, NEW s \in Seq(X), NEW t \in Seq(X), NEW u \in Seq(X)
    PROVE  (s \o t) \o u = s \o (t \o u)
<1>1. s \o t \in Seq(X) /\ t \o u \in Seq(X)
  OBVIOUS
<1>2. (s \o t) \o u \in Seq(X) /\ s \o (t \o u) \in Seq(X)
  BY <1>1, Joined
<1>3. Len((s \o t) \o u) = Len(s) + Len(t) + Len(u) /\ Len(s \o (t \o u)) = Len(s) + Len(t) + Len(u)
  BY <1>1, Joined
<1>4. ASSUME NEW i \in 1 .. Len(s) + Len(t) + Len(u)
      PROVE  ((s \o t) \o u)[i] = (s \o (t \o u))[i]
  BY <1>1
<1> QED
  BY <1>2, <1>3, <1>4, SameElements

(* What was cut off a sequence that follows leaves a first part.           *)
LEMMA CutPrefix ==
    ASSUME NEW X, NEW s \in Seq(X), NEW t \in Seq(X), NEW c \in Int, c <= Len(t)
    PROVE  /\ s \o SubSeq(t, 1, c) \in Seq(X)
           /\ IsPrefix(s \o SubSeq(t, 1, c), s \o t)
<1> DEFINE cut == SubSeq(t, 1, c)
           u == s \o cut
           v == s \o t
<1>1. /\ cut \in Seq(X) /\ Len(cut) <= Len(t)
      /\ \A i \in 1 .. Len(cut) : cut[i] = t[i]
  <2>1. CASE c >= 1
    BY <2>1
  <2>2. CASE ~(c >= 1)
    BY <2>2
  <2> QED
    BY <2>1, <2>2
<1> HIDE DEF cut
<1>2. /\ u \in Seq(X) /\ v \in Seq(X) /\ Len(u) = Len(s) + Len(cut) /\ Len(v) = Len(s) + Len(t)
      /\ \A i \in 1 .. Len(u) : u[i] = v[i]
  BY <1>1
<1> HIDE DEF u, v
<1>3. SubSeq(u, 1, Len(u)) = SubSeq(v, 1, Len(u)) /\ Len(u) <= Len(v)
  <2>1. Len(u) \in Nat /\ Len(v) \in Nat /\ Len(u) <= Len(v)
    BY <1>1, <1>2
  <2>2. SubSeq(u, 1, Len(u)) \in Seq(X) /\ SubSeq(v, 1, Len(u)) \in Seq(X)
    BY <1>2, <2>1
  <2>3. Len(SubSeq(u, 1, Len(u))) = Len(u) /\ Len(SubSeq(v, 1, Len(u))) = Len(u)
    BY <1>2, <2>1
  <2>4. \A i \in 1 .. Len(u) : SubSeq(u, 1, Len(u))[i] = SubSeq(v, 1, Len(u))[i]
    BY <1>2, <2>1
  <2> QED
    BY <2>1, <2>2, <2>3, <2>4, SameElements
<1> QED
  BY <1>2, <1>3 DEF IsPrefix, u, v, cut

(* A first part of a first part is one.                                    *)
LEMMA PrefixJoined ==
    ASSUME NEW X, NEW p \in Seq(X), NEW s \in Seq(X), NEW t \in Seq(X), IsPrefix(p, s)
    PROVE  IsPrefix(p, s \o t)
<1>1. Len(p) <= Len(s) /\ SubSeq(p, 1, Len(p)) = SubSeq(s, 1, Len(p))
  BY DEF IsPrefix
<1>2. Len(p) \in Nat /\ Len(s) \in Nat /\ s \o t \in Seq(X) /\ Len(s \o t) = Len(s) + Len(t)
  OBVIOUS
<1>3. SubSeq(s \o t, 1, Len(p)) = SubSeq(s, 1, Len(p))
  <2> DEFINE a == SubSeq(s \o t, 1, Len(p))
             b == SubSeq(s, 1, Len(p))
  <2>1. a \in Seq(X) /\ b \in Seq(X) /\ Len(a) = Len(p) /\ Len(b) = Len(p)
    BY <1>1, <1>2
  <2>2. \A i \in 1 .. Len(p) : a[i] = b[i]
    BY <1>1, <1>2
  <2> HIDE DEF a, b
  <2>3. a = b
    BY <2>1, <2>2, SameElements
  <2> QED
    BY <2>3 DEF a, b
<1> QED
  BY <1>1, <1>2, <1>3 DEF IsPrefix

(* The equation that FlattenSeq solves, up to part n.                      *)
Flattening(f, parts, n) ==
    f = [i \in 1 .. n |-> IF i = 1 THEN parts[i] ELSE f[i - 1] \o parts[i]]

(* It has a solution.                                                      *)
LEMMA FlatteningExists ==
    ASSUME NEW parts, NEW n \in Nat
    PROVE  \E f : Flattening(f, parts, n)
<1> DEFINE holds == {k \in 0 .. n : \E f : Flattening(f, parts, k)}
<1>1. 0 \in holds
  <2> DEFINE f == [i \in 1 .. 0 |-> i]
  <2>1. \A i : i \notin 1 .. 0
    OBVIOUS
  <2>2. Flattening(f, parts, 0)
    BY <2>1 DEF Flattening
  <2> HIDE DEF f
  <2> QED
    BY <2>2
<1>2. ASSUME NEW k \in 1 .. n, k - 1 \in holds PROVE k \in holds
  <2>1. PICK f : Flattening(f, parts, k - 1)
    BY <1>2
  <2> DEFINE g == [i \in 1 .. k |-> IF i < k THEN f[i]
                                    ELSE IF i = 1 THEN parts[i] ELSE f[i - 1] \o parts[i]]
  <2>2. ASSUME NEW i \in 1 .. k
        PROVE  g[i] = IF i = 1 THEN parts[i] ELSE g[i - 1] \o parts[i]
    <3>1. CASE i < k
      <4>1. i \in 1 .. k - 1 /\ g[i] = f[i]
        BY <3>1
      <4>2. i # 1 => g[i - 1] = f[i - 1]
        BY <3>1
      <4>3. f[i] = IF i = 1 THEN parts[i] ELSE f[i - 1] \o parts[i]
        BY <2>1, <4>1 DEF Flattening
      <4> QED
        BY <4>1, <4>2, <4>3
    <3>2. CASE i = k
      <4>1. i # 1 => g[i - 1] = f[i - 1]
        BY <3>2
      <4> QED
        BY <3>2, <4>1
    <3> QED
      BY <3>1, <3>2
  <2>3. g = [i \in 1 .. k |-> g[i]]
    OBVIOUS
  <2> HIDE DEF g
  <2>4. Flattening(g, parts, k)
    BY <2>2, <2>3 DEF Flattening
  <2> QED
    BY <2>4
<1> HIDE DEF holds
<1>3. n \in holds
  BY <1>1, <1>2, UpTo
<1> QED
  BY <1>3 DEF holds

(* What FlattenSeq does, part by part.                                     *)
Flattened(acc, parts, n, X) ==
    /\ acc \in [0 .. n -> Seq(X)] /\ acc[0] = <<>>
    /\ \A k \in 1 .. n : acc[k] = acc[k - 1] \o parts[k]
    /\ FlattenSeq(parts) = acc[n]

(* FlattenSeq joins its parts, one after the other.                        *)
LEMMA FlattenSteps ==
    ASSUME NEW X, NEW n \in Nat, NEW parts \in [1 .. n -> Seq(X)]
    PROVE  \E acc : Flattened(acc, parts, n, X)
<1> DEFINE F == CHOOSE f : Flattening(f, parts, n)
           acc == [k \in 0 .. n |-> IF k = 0 THEN <<>> ELSE F[k]]
<1>1. parts \in Seq(Seq(X)) /\ Len(parts) = n
  OBVIOUS
<1>2. FlattenSeq(parts) = IF n = 0 THEN parts ELSE F[n]
  BY <1>1 DEF FlattenSeq, Flattening
<1>3. Flattening(F, parts, n)
  BY FlatteningExists
<1> HIDE DEF F
<1>4. \A k \in 1 .. n : F[k] = IF k = 1 THEN parts[k] ELSE F[k - 1] \o parts[k]
  BY <1>3 DEF Flattening
<1>5. acc[0] = <<>> /\ \A k \in 1 .. n : acc[k] = F[k]
  OBVIOUS
<1>6. acc = [k \in 0 .. n |-> acc[k]]
  OBVIOUS
<1> HIDE DEF acc
<1>7. ASSUME NEW k \in 1 .. n PROVE acc[k] = acc[k - 1] \o parts[k]
  <2>1. CASE k = 1
    <3>1. parts[k] \in Seq(X)
      OBVIOUS
    <3>2. <<>> \o parts[k] = parts[k]
      BY <3>1
    <3>3. acc[k - 1] = <<>>
      BY <1>5, <2>1
    <3> QED
      BY <1>4, <1>5, <2>1, <3>2, <3>3
  <2>2. CASE k # 1
    <3>1. k - 1 \in 1 .. n
      BY <2>2
    <3> QED
      BY <1>4, <1>5, <2>2, <3>1
  <2> QED
    BY <2>1, <2>2
<1>8. acc[n] = FlattenSeq(parts)
  <2>1. CASE n = 0
    <3>1. parts = <<>>
      BY <1>1, <2>1
    <3> QED
      BY <1>2, <1>5, <2>1, <3>1
  <2>2. CASE n # 0
    <3>1. n \in 1 .. n
      BY <2>2
    <3> QED
      BY <1>2, <1>5, <2>2, <3>1
  <2> QED
    BY <2>1, <2>2
<1> DEFINE typed == {k \in 0 .. n : acc[k] \in Seq(X)}
<1>9. 0 \in typed
  <2>1. <<>> \in Seq(X) /\ 0 \in 0 .. n
    OBVIOUS
  <2> QED
    BY <1>5, <2>1
<1>10. ASSUME NEW k \in 1 .. n, k - 1 \in typed PROVE k \in typed
  <2>1. acc[k - 1] \in Seq(X) /\ parts[k] \in Seq(X) /\ k \in 0 .. n
    BY <1>10
  <2>2. acc[k - 1] \o parts[k] \in Seq(X)
    BY <2>1
  <2> QED
    BY <1>7, <2>1, <2>2
<1> HIDE DEF typed
<1>11. \A k \in 0 .. n : k \in typed
  BY <1>9, <1>10, UpTo
<1>12. acc \in [0 .. n -> Seq(X)]
  BY <1>6, <1>11 DEF typed
<1>13. Flattened(acc, parts, n, X)
  BY <1>5, <1>7, <1>8, <1>12 DEF Flattened
<1> QED
  BY <1>13

(* How often a line is in a sequence: in both parts of it together.        *)
LEMMA TimesJoined ==
    ASSUME NEW X, NEW s \in Seq(X), NEW t \in Seq(X), NEW x
    PROVE  Times(x, s \o t) = Times(x, s) + Times(x, t)
<1> DEFINE n == Len(s)
           m == Len(t)
           A == {i \in 1 .. n : s[i] = x}
           B == {i \in 1 .. m : t[i] = x}
           C == {i \in n + 1 .. n + m : (s \o t)[i] = x}
<1>0. n \in Nat /\ m \in Nat /\ DOMAIN s = 1 .. n /\ DOMAIN t = 1 .. m
  OBVIOUS
<1>1. Times(x, s) = Cardinality(A) /\ Times(x, t) = Cardinality(B)
  BY <1>0 DEF Times
<1>2. Times(x, s \o t) = Cardinality(A \cup C)
  <2>1. DOMAIN (s \o t) = 1 .. n + m
    BY Joined
  <2>2. \A i \in 1 .. n : (s \o t)[i] = s[i]
    BY Joined
  <2>3. {i \in 1 .. n + m : (s \o t)[i] = x} = A \cup C
    BY <1>0, <2>2
  <2> QED
    BY <2>1, <2>3 DEF Times
<1>3. IsFiniteSet(A) /\ IsFiniteSet(B) /\ IsFiniteSet(C)
  <2>1. /\ IsFiniteSet(1 .. n) /\ IsFiniteSet(1 .. m) /\ IsFiniteSet(n + 1 .. n + m)
    BY <1>0, FS_Interval
  <2>2. A \subseteq 1 .. n /\ B \subseteq 1 .. m /\ C \subseteq n + 1 .. n + m
    OBVIOUS
  <2> HIDE DEF A, B, C
  <2> QED
    BY <2>1, <2>2, FS_Subset
<1>4. Cardinality(C) = Cardinality(B)
  <2> DEFINE f == [i \in B |-> n + i]
  <2>1. \A i \in 1 .. m : (s \o t)[n + i] = t[i]
    BY Joined
  <2>2. f \in [B -> C]
    BY <1>0, <2>1
  <2>3. \A i, j \in B : f[i] = f[j] => i = j
    BY <1>0
  <2>4. \A j \in C : \E i \in B : f[i] = j
    <3> SUFFICES ASSUME NEW j \in C PROVE \E i \in B : f[i] = j
      OBVIOUS
    <3>1. j - n \in 1 .. m /\ n + (j - n) = j
      BY <1>0
    <3>2. j - n \in B
      BY <2>1, <3>1
    <3> QED
      BY <3>1, <3>2
  <2> HIDE DEF f, B, C
  <2>5. f \in Bijection(B, C)
    BY <2>2, <2>3, <2>4 DEF Bijection, Injection, Surjection, IsInjective
  <2> QED
    BY <1>3, <2>5, FS_Bijection DEF ExistsBijection
<1>5. A \cap C = {}
  BY <1>0
<1> HIDE DEF A, B, C
<1>6. Cardinality(A \cup C) = Cardinality(A) + Cardinality(C)
  <2>1. Cardinality(A \cap C) = 0
    BY <1>5, FS_EmptySet
  <2>2. Cardinality(A) \in Nat /\ Cardinality(C) \in Nat
    BY <1>3, FS_CardinalityType
  <2>3. Cardinality(A \cup C) = Cardinality(A) + Cardinality(C) - Cardinality(A \cap C)
    BY <1>3, FS_Union
  <2> QED
    BY <2>1, <2>2, <2>3
<1> QED
  BY <1>1, <1>2, <1>4, <1>6

-----------------------------------------------------------------------------
(* The values of the streams, and the lines that may be written.           *)
Values == UNION {{s[i].value : i \in DOMAIN s} : s \in Changes}

LineType == Nat \X Nat \X Values

(* The time and the name of a line are numbers.                            *)
LEMMA LineParts == \A x \in LineType : x[1] \in Nat /\ x[2] \in Nat
BY DEF LineType

(* Lines in the order of their times, names and places.                    *)
Sooner(s, i, j) ==
    \/ s[i][1] < s[j][1]
    \/ s[i][1] = s[j][1] /\ s[i][2] < s[j][2]
    \/ s[i][1] = s[j][1] /\ s[i][2] = s[j][2] /\ i < j

LineOrder(s) == {pair \in (DOMAIN s) \X (DOMAIN s) : Sooner(s, pair[1], pair[2])}

Sorted(s) == [k \in DOMAIN s |-> s[InOrder(DOMAIN s, LineOrder(s))[k]]]

(* Comparing by time, then name, then place is transitive.                 *)
LEMMA SoonerSooner ==
    ASSUME NEW a \in Nat, NEW b \in Nat, NEW c \in Nat, NEW i \in Nat, NEW j \in Nat, NEW k \in Nat,
           NEW p \in Nat, NEW q \in Nat, NEW r \in Nat,
           a < b \/ (a = b /\ p < q) \/ (a = b /\ p = q /\ i < j),
           b < c \/ (b = c /\ q < r) \/ (b = c /\ q = r /\ j < k)
    PROVE  a < c \/ (a = c /\ p < r) \/ (a = c /\ p = r /\ i < k)
OBVIOUS

(* Places of lines are compared by a strict order.                         *)
LEMMA LinesOrdered ==
    ASSUME NEW s \in Seq(LineType)
    PROVE  /\ IsStrictOrder(DOMAIN s, LineOrder(s))
           /\ IsFiniteSet(DOMAIN s) /\ Cardinality(DOMAIN s) = Len(s) /\ DOMAIN s = 1 .. Len(s)
<1> DEFINE D == DOMAIN s
<1>1. D = 1 .. Len(s) /\ Len(s) \in Nat /\ \A i \in D : s[i][1] \in Nat /\ s[i][2] \in Nat
  BY LineParts
<1>2. D \subseteq Nat
  BY <1>1
<1>3. \A i, j \in D : << i, j >> \in LineOrder(s) <=> Sooner(s, i, j)
  BY DEF LineOrder
<1> HIDE DEF D
<1>4. \A i \in D : ~Sooner(s, i, i)
  BY <1>1, <1>2 DEF Sooner
<1>5. \A i, j \in D : i # j => Sooner(s, i, j) \/ Sooner(s, j, i)
  BY <1>1, <1>2 DEF Sooner
<1>6. ASSUME NEW i \in D, NEW j \in D, NEW k \in D, Sooner(s, i, j), Sooner(s, j, k)
      PROVE  Sooner(s, i, k)
  <2>1. /\ s[i][1] \in Nat /\ s[j][1] \in Nat /\ s[k][1] \in Nat
        /\ s[i][2] \in Nat /\ s[j][2] \in Nat /\ s[k][2] \in Nat
        /\ i \in Nat /\ j \in Nat /\ k \in Nat
    BY <1>1, <1>2
  <2> DEFINE a == s[i][1] b == s[j][1] c == s[k][1] p == s[i][2] q == s[j][2] r == s[k][2]
  <2>2. /\ a < b \/ (a = b /\ p < q) \/ (a = b /\ p = q /\ i < j)
        /\ b < c \/ (b = c /\ q < r) \/ (b = c /\ q = r /\ j < k)
    BY <1>6 DEF Sooner
  <2>3. SUFFICES a < c \/ (a = c /\ p < r) \/ (a = c /\ p = r /\ i < k)
    BY DEF Sooner
  <2> HIDE DEF a, b, c, p, q, r
  <2>4. /\ a \in Nat /\ b \in Nat /\ c \in Nat /\ p \in Nat /\ q \in Nat /\ r \in Nat
        /\ i \in Nat /\ j \in Nat /\ k \in Nat
    BY <2>1 DEF a, b, c, p, q, r
  <2> QED
    BY <2>2, <2>4, SoonerSooner
<1>7. IsStrictOrder(D, LineOrder(s))
  BY <1>3, <1>4, <1>5, <1>6 DEF IsStrictOrder
<1>8. IsFiniteSet(1 .. Len(s)) /\ Cardinality(1 .. Len(s)) = Len(s)
  BY <1>1, FS_Interval
<1> QED
  BY <1>1, <1>7, <1>8 DEF D

(* Sorting permutes the lines: it keeps how often each one is there.       *)
LEMMA SortedKeeps ==
    ASSUME NEW s \in Seq(LineType)
    PROVE  /\ Sorted(s) \in Seq(LineType) /\ Len(Sorted(s)) = Len(s)
           /\ \A x : Times(x, Sorted(s)) = Times(x, s)
<1> DEFINE n == Len(s)
           R == LineOrder(s)
           order == InOrder(1 .. n, R)
<1>1. /\ n \in Nat /\ DOMAIN s = 1 .. n /\ IsFiniteSet(1 .. n) /\ Cardinality(1 .. n) = n
      /\ IsStrictOrder(1 .. n, R)
  <2>1. n \in Nat /\ DOMAIN s = 1 .. n
    OBVIOUS
  <2>2. IsFiniteSet(DOMAIN s) /\ Cardinality(DOMAIN s) = n /\ IsStrictOrder(DOMAIN s, R)
    BY LinesOrdered
  <2> QED
    BY <2>1, <2>2
<1> HIDE DEF R
<1>2. /\ order \in [1 .. n -> 1 .. n]
      /\ \A x \in 1 .. n : Place(1 .. n, R, x) \in 1 .. n /\ order[Place(1 .. n, R, x)] = x
      /\ \A k \in 1 .. n : Place(1 .. n, R, order[k]) = k
  BY <1>1, OrderIsOnto
<1>3. Sorted(s) = [k \in 1 .. n |-> s[order[k]]]
  BY <1>1 DEF Sorted, R
<1> HIDE DEF order
<1>4. ASSUME NEW k \in 1 .. n
      PROVE  order[k] \in 1 .. n /\ s[order[k]] \in LineType /\ Sorted(s)[k] = s[order[k]]
  <2>1. order[k] \in 1 .. n
    BY <1>2
  <2>2. s[order[k]] \in LineType
    BY <1>1, <2>1
  <2> QED
    BY <1>3, <2>1, <2>2
<1>5. Sorted(s) \in Seq(LineType) /\ Len(Sorted(s)) = n
  <2> DEFINE L == LineType
             f == [k \in 1 .. n |-> s[order[k]]]
  <2>1. \A k \in 1 .. n : s[order[k]] \in L
    BY <1>4
  <2> HIDE DEF L
  <2>2. f \in Seq(L) /\ Len(f) = n
    BY <1>1, <2>1
  <2> QED
    BY <1>3, <2>2 DEF L
<1>6. ASSUME NEW x PROVE Times(x, Sorted(s)) = Times(x, s)
  <2> DEFINE A == {i \in 1 .. n : s[i] = x}
             B == {k \in 1 .. n : Sorted(s)[k] = x}
             f == [k \in B |-> order[k]]
  <2>1. Times(x, s) = Cardinality(A) /\ Times(x, Sorted(s)) = Cardinality(B)
    <3>1. DOMAIN Sorted(s) = 1 .. n
      BY <1>3
    <3> QED
      BY <1>1, <3>1 DEF Times
  <2>2. f \in [B -> A]
    BY <1>4
  <2>3. \A i, j \in B : f[i] = f[j] => i = j
    BY <1>2
  <2>4. \A i \in A : \E k \in B : f[k] = i
    <3> SUFFICES ASSUME NEW i \in A PROVE \E k \in B : f[k] = i
      OBVIOUS
    <3> DEFINE k == Place(1 .. n, R, i)
    <3>1. k \in 1 .. n /\ order[k] = i
      BY <1>2
    <3> HIDE DEF k
    <3>2. k \in B
      BY <1>4, <3>1
    <3> QED
      BY <3>1, <3>2
  <2>5. IsFiniteSet(B)
    <3>1. B \subseteq 1 .. n
      OBVIOUS
    <3> HIDE DEF B
    <3> QED
      BY <1>1, <3>1, FS_Subset
  <2> HIDE DEF f, A, B
  <2>6. f \in Bijection(B, A)
    BY <2>2, <2>3, <2>4 DEF Bijection, Injection, Surjection, IsInjective
  <2>7. Cardinality(A) = Cardinality(B)
    BY <2>5, <2>6, FS_Bijection DEF ExistsBijection
  <2> QED
    BY <2>1, <2>7
<1> QED
  BY <1>5, <1>6

-----------------------------------------------------------------------------
(* Numbers moved by n keep their order.                                    *)
Moved(m, n, R, Q) == \A x, y \in 1 .. m : << x, y >> \in R <=> << n + x, n + y >> \in Q

OrderStays(m, n, R, Q) ==
    /\ IsFiniteSet(n + 1 .. n + m) /\ Cardinality(n + 1 .. n + m) = m
    /\ \A k \in 1 .. m : InOrder(n + 1 .. n + m, Q)[k] = n + InOrder(1 .. m, R)[k]

(* The order of numbers does not depend on where they begin.               *)
LEMMA OrderMoved ==
    ASSUME NEW n \in Nat, NEW m \in Nat, NEW R, NEW Q, IsStrictOrder(1 .. m, R),
           Moved(m, n, R, Q)
    PROVE  OrderStays(m, n, R, Q)
<1> DEFINE S == 1 .. m
           T == n + 1 .. n + m
<1>0. \A x, y \in S : << x, y >> \in R <=> << n + x, n + y >> \in Q
  BY DEF Moved
<1>1. IsFiniteSet(S) /\ Cardinality(S) = m /\ IsFiniteSet(T) /\ Cardinality(T) = m
  <2>1. IsFiniteSet(S) /\ Cardinality(S) = IF 1 > m THEN 0 ELSE m - 1 + 1
    BY FS_Interval
  <2>2. IsFiniteSet(T) /\ Cardinality(T) = IF n + 1 > n + m THEN 0 ELSE (n + m) - (n + 1) + 1
    BY FS_Interval
  <2> QED
    BY <2>1, <2>2
<1>2. /\ \A x \in S : n + x \in T
      /\ \A z \in T : z - n \in S /\ n + (z - n) = z
  OBVIOUS
<1>3. IsStrictOrder(T, Q)
  <2>1. \A z \in T : << z, z >> \notin Q
    BY <1>0, <1>2 DEF IsStrictOrder
  <2>2. ASSUME NEW z \in T, NEW w \in T, z # w PROVE << z, w >> \in Q \/ << w, z >> \in Q
    <3>1. z - n # w - n
      BY <2>2
    <3>2. << z - n, w - n >> \in R \/ << w - n, z - n >> \in R
      BY <1>2, <3>1 DEF IsStrictOrder
    <3> QED
      BY <1>0, <1>2, <3>2
  <2>3. ASSUME NEW z \in T, NEW w \in T, NEW v \in T, << z, w >> \in Q, << w, v >> \in Q
        PROVE  << z, v >> \in Q
    <3>1. << z - n, w - n >> \in R /\ << w - n, v - n >> \in R
      BY <1>0, <1>2, <2>3
    <3>2. << z - n, v - n >> \in R
      BY <1>2, <3>1 DEF IsStrictOrder
    <3> QED
      BY <1>0, <1>2, <3>2
  <2> QED
    BY <2>1, <2>2, <2>3 DEF IsStrictOrder
<1>4. ASSUME NEW x \in S PROVE Place(T, Q, n + x) = Place(S, R, x)
  <2> DEFINE A == {y \in S : << y, x >> \in R}
             B == {z \in T : << z, n + x >> \in Q}
             f == [y \in A |-> n + y]
  <2>1. f \in [A -> B]
    BY <1>0, <1>2
  <2>2. \A i, j \in A : f[i] = f[j] => i = j
    OBVIOUS
  <2>3. \A z \in B : \E y \in A : f[y] = z
    <3> SUFFICES ASSUME NEW z \in B PROVE \E y \in A : f[y] = z
      OBVIOUS
    <3>1. z - n \in S /\ n + (z - n) = z
      BY <1>2
    <3>2. z - n \in A
      BY <1>0, <3>1
    <3> QED
      BY <3>1, <3>2
  <2>4. IsFiniteSet(A)
    <3>1. A \subseteq S
      OBVIOUS
    <3> HIDE DEF A, S
    <3> QED
      BY <1>1, <3>1, FS_Subset
  <2>5. Place(T, Q, n + x) = Cardinality(B) + 1 /\ Place(S, R, x) = Cardinality(A) + 1
    BY DEF Place
  <2> HIDE DEF f, A, B
  <2>6. f \in Bijection(A, B)
    BY <2>1, <2>2, <2>3 DEF Bijection, Injection, Surjection, IsInjective
  <2>7. Cardinality(A) = Cardinality(B)
    BY <2>4, <2>6, FS_Bijection DEF ExistsBijection
  <2> QED
    BY <2>5, <2>7
<1>5. ASSUME NEW k \in S PROVE InOrder(T, Q)[k] = n + InOrder(S, R)[k]
  <2> DEFINE x == InOrder(S, R)[k]
  <2>0. Cardinality(S) = m /\ Cardinality(T) = m /\ S = 1 .. m
    BY <1>1
  <2> HIDE DEF S, T
  <2>1. InOrder(S, R) \in [1 .. m -> S] /\ Place(S, R, x) = k
    BY <1>1, <2>0, OrderIsOnto
  <2>2. x \in S
    BY <2>0, <2>1
  <2> HIDE DEF x
  <2>3. Place(T, Q, n + x) = k /\ n + x \in T
    BY <1>2, <1>4, <2>1, <2>2
  <2>4. InOrder(T, Q)[Place(T, Q, n + x)] = n + x
    BY <1>1, <1>3, <2>3, OrderIsOnto
  <2> QED
    BY <2>3, <2>4 DEF x
<1> QED
  BY <1>1, <1>5 DEF OrderStays

(* Lines followed by later ones are sorted apart.                          *)
LEMMA SortedJoined ==
    ASSUME NEW s \in Seq(LineType), NEW t \in Seq(LineType),
           \A i \in 1 .. Len(s), j \in 1 .. Len(t) : s[i][1] < t[j][1]
    PROVE  Sorted(s \o t) = Sorted(s) \o Sorted(t)
<1> DEFINE L == LineType
           n == Len(s)
           m == Len(t)
           u == s \o t
           S == 1 .. n
           T == n + 1 .. n + m
           Q == LineOrder(u)
<1>0. /\ n \in Nat /\ m \in Nat /\ DOMAIN s = 1 .. n /\ DOMAIN t = 1 .. m
      /\ \A i \in 1 .. n : s[i][1] \in Nat
      /\ \A i \in 1 .. m : t[i][1] \in Nat
  BY LineParts
<1>1. /\ u \in Seq(L) /\ Len(u) = n + m /\ DOMAIN u = 1 .. n + m
      /\ \A i \in 1 .. n : u[i] = s[i]
      /\ \A i \in 1 .. m : u[n + i] = t[i]
  <2> HIDE DEF L
  <2>1. s \in Seq(L) /\ t \in Seq(L)
    BY DEF L
  <2> QED
    BY <2>1, Joined
<1> HIDE DEF u
<1>2. S \cup T = 1 .. n + m
  BY <1>0
<1>3. \A i, j \in 1 .. n + m : << i, j >> \in Q <=> Sooner(u, i, j)
  BY <1>1 DEF LineOrder
<1>4. \A i, j \in 1 .. n : << i, j >> \in Q <=> << i, j >> \in LineOrder(s)
  <2>1. \A i, j \in 1 .. n : << i, j >> \in LineOrder(s) <=> Sooner(s, i, j)
    BY <1>0 DEF LineOrder
  <2>2. \A i, j \in 1 .. n : Sooner(u, i, j) <=> Sooner(s, i, j)
    BY <1>1 DEF Sooner
  <2>3. \A i \in 1 .. n : i \in 1 .. n + m
    BY <1>0
  <2> QED
    BY <1>3, <2>1, <2>2, <2>3
<1>5. \A i, j \in 1 .. m : << i, j >> \in LineOrder(t) <=> << n + i, n + j >> \in Q
  <2>1. \A i, j \in 1 .. m : << i, j >> \in LineOrder(t) <=> Sooner(t, i, j)
    BY <1>0 DEF LineOrder
  <2>2. \A i, j \in 1 .. m : Sooner(u, n + i, n + j) <=> Sooner(t, i, j)
    <3>1. \A i, j \in 1 .. m : n + i < n + j <=> i < j
      BY <1>0
    <3> QED
      BY <1>1, <3>1 DEF Sooner
  <2>3. \A i \in 1 .. m : n + i \in 1 .. n + m
    BY <1>0
  <2> QED
    BY <1>3, <2>1, <2>2, <2>3
<1>6. AllBefore(S, T, Q)
  <2>1. \A i \in S \cup T : << i, i >> \notin Q
    <3>1. IsStrictOrder(DOMAIN u, LineOrder(u))
      BY <1>1, LinesOrdered
    <3> QED
      BY <1>1, <1>2, <3>1 DEF IsStrictOrder
  <2>2. ASSUME NEW i \in S, NEW j \in T PROVE << i, j >> \in Q /\ << j, i >> \notin Q
    <3>1. j - n \in 1 .. m /\ n + (j - n) = j /\ i \in 1 .. n + m /\ j \in 1 .. n + m
      BY <1>0
    <3>2. u[i] = s[i] /\ u[j] = t[j - n]
      BY <1>1, <3>1
    <3>3. u[i][1] < u[j][1] /\ u[i][1] \in Nat /\ u[j][1] \in Nat
      BY <1>0, <3>1, <3>2
    <3>4. Sooner(u, i, j)
      BY <3>3 DEF Sooner
    <3>5. ~(u[j][1] < u[i][1]) /\ u[j][1] # u[i][1]
      <4> DEFINE a == u[i][1]
                 b == u[j][1]
      <4>1. a < b /\ a \in Nat /\ b \in Nat
        BY <3>3
      <4> HIDE DEF a, b
      <4>2. ~(b < a) /\ b # a
        BY <4>1
      <4> QED
        BY <4>2 DEF a, b
    <3>6. ~Sooner(u, j, i)
      BY <3>5 DEF Sooner
    <3> QED
      BY <1>3, <3>1, <3>4, <3>6
  <2> QED
    BY <2>1, <2>2 DEF AllBefore
<1>7. /\ IsStrictOrder(1 .. n, LineOrder(s)) /\ IsFiniteSet(1 .. n) /\ Cardinality(1 .. n) = n
      /\ IsStrictOrder(1 .. m, LineOrder(t)) /\ IsFiniteSet(1 .. m) /\ Cardinality(1 .. m) = m
  BY <1>0, LinesOrdered
<1>8. /\ IsFiniteSet(T) /\ Cardinality(T) = m
      /\ \A k \in 1 .. m : InOrder(T, Q)[k] = n + InOrder(1 .. m, LineOrder(t))[k]
  <2> DEFINE P == LineOrder(t)
  <2> HIDE DEF Q, P, n, m
  <2>1. n \in Nat /\ m \in Nat /\ IsStrictOrder(1 .. m, P)
    BY <1>0, <1>7 DEF P
  <2>2. Moved(m, n, P, Q)
    BY <1>5 DEF P, Moved
  <2>3. /\ IsFiniteSet(n + 1 .. n + m) /\ Cardinality(n + 1 .. n + m) = m
        /\ \A k \in 1 .. m : InOrder(n + 1 .. n + m, Q)[k] = n + InOrder(1 .. m, P)[k]
    <3>1. OrderStays(m, n, P, Q)
      BY <2>1, <2>2, OrderMoved
    <3> QED
      BY <3>1 DEF OrderStays
  <2> QED
    BY <2>3 DEF P
<1>9. InOrder(S, Q) = InOrder(S, LineOrder(s))
  <2> HIDE DEF Q
  <2>1. \A i, j \in S : << i, j >> \in Q <=> << i, j >> \in LineOrder(s)
    BY <1>4
  <2> HIDE DEF S
  <2> QED
    BY <2>1, OrderAgree
<1> DEFINE order == InOrder(1 .. n + m, Q)
<1>10. /\ \A k \in 1 .. n : order[k] = InOrder(1 .. n, LineOrder(s))[k]
       /\ \A k \in 1 .. m : order[n + k] = n + InOrder(1 .. m, LineOrder(t))[k]
  <2> HIDE DEF Q, S, T
  <2>1. IsFiniteSet(S)
    BY <1>7 DEF S
  <2>2. OrderJoined(S, T, Q)
    BY <1>6, <1>8, <2>1, OrderJoin
  <2>3. Cardinality(S) = n /\ Cardinality(T) = m
    BY <1>7, <1>8 DEF S
  <2>4. /\ \A k \in 1 .. n : order[k] = InOrder(S, Q)[k]
        /\ \A k \in 1 .. m : order[n + k] = InOrder(T, Q)[k]
    BY <1>2, <2>2, <2>3 DEF OrderJoined
  <2> QED
    BY <1>8, <1>9, <2>4 DEF S
<1>11. /\ Sorted(s) \in Seq(L) /\ Len(Sorted(s)) = n /\ Sorted(t) \in Seq(L) /\ Len(Sorted(t)) = m
       /\ Sorted(u) \in Seq(L) /\ Len(Sorted(u)) = n + m
  BY <1>1, SortedKeeps
<1>12. \A k \in 1 .. n + m : Sorted(u)[k] = u[order[k]]
  BY <1>1 DEF Sorted
<1>13. ASSUME NEW k \in 1 .. n PROVE Sorted(u)[k] = Sorted(s)[k]
  <2>1. order[k] \in 1 .. n /\ order[k] = InOrder(1 .. n, LineOrder(s))[k]
    <3>1. InOrder(1 .. n, LineOrder(s)) \in [1 .. n -> 1 .. n]
      BY <1>7, OrderIsOnto
    <3> QED
      BY <1>10, <3>1
  <2>2. Sorted(s)[k] = s[order[k]]
    BY <1>0, <2>1 DEF Sorted
  <2>3. k \in 1 .. n + m
    BY <1>0
  <2> HIDE DEF order
  <2> QED
    BY <1>1, <1>12, <2>1, <2>2, <2>3
<1>14. ASSUME NEW k \in 1 .. m PROVE Sorted(u)[n + k] = Sorted(t)[k]
  <2> DEFINE j == InOrder(1 .. m, LineOrder(t))[k]
  <2>1. j \in 1 .. m /\ order[n + k] = n + j
    <3>1. InOrder(1 .. m, LineOrder(t)) \in [1 .. m -> 1 .. m]
      BY <1>7, OrderIsOnto
    <3> QED
      BY <1>10, <3>1
  <2>2. Sorted(t)[k] = t[j]
    BY <1>0 DEF Sorted
  <2>3. n + k \in 1 .. n + m
    BY <1>0
  <2> HIDE DEF order, j
  <2> QED
    BY <1>1, <1>12, <2>1, <2>2, <2>3
<1> HIDE DEF L, order, Q, n, m
<1>15. Sorted(s) \o Sorted(t) \in Seq(L) /\ Len(Sorted(s) \o Sorted(t)) = n + m
  BY <1>11, Joined
<1>16. ASSUME NEW k \in 1 .. n + m PROVE Sorted(u)[k] = (Sorted(s) \o Sorted(t))[k]
  <2>1. CASE k \in 1 .. n
    BY <1>11, <1>13, <2>1, Joined
  <2>2. CASE k \notin 1 .. n
    <3>1. k - n \in 1 .. m /\ n + (k - n) = k
      BY <1>0, <2>2
    <3>2. (Sorted(s) \o Sorted(t))[n + (k - n)] = Sorted(t)[k - n]
      BY <1>11, <3>1, Joined
    <3> QED
      BY <1>14, <3>1, <3>2
  <2> QED
    BY <2>1, <2>2
<1>17. Sorted(u) = Sorted(s) \o Sorted(t)
  BY <1>11, <1>15, <1>16, SameElements
<1> QED
  BY <1>17 DEF u

PrinterTyped ==
    /\ printer \in Printers /\ sort \in BOOLEAN /\ failed \in BOOLEAN
    /\ changes \in Changes /\ Possible(printer, changes)
    /\ nextChange \in 1 .. Len(changes) + 1
    /\ current \in Nat \cup {Nil}
    /\ batch \in Seq(Nat \X Values)
    /\ text \in Seq(LineType)
    /\ room \in Nat
    /\ answer \in {"running", "ok", "error"}
    /\ failed => printer = "fst"

(* What a stream is made of.                                               *)
LEMMA StreamTyped ==
    ASSUME PrinterTyped
    PROVE  /\ Len(changes) \in Nat /\ DOMAIN changes = 1 .. Len(changes)
           /\ changes \in Seq(ToSet(changes))
           /\ \A i \in 1 .. Len(changes) :
                /\ changes[i].time \in Nat /\ changes[i].value \in Values
                /\ Selected(changes[i]) =>
                     /\ LinesOf(changes[i]) \in Seq(LineType)
                     /\ \A k \in 1 .. Len(LinesOf(changes[i])) :
                          LinesOf(changes[i])[k][1] = changes[i].time
<1>1. changes \in Seq(ToSet(changes)) /\ \A i \in DOMAIN changes : changes[i].time \in Nat
  BY PrintAssumption DEF PrinterTyped
<1>2. Len(changes) \in Nat /\ DOMAIN changes = 1 .. Len(changes)
  BY <1>1
<1>3. ASSUME NEW i \in 1 .. Len(changes)
      PROVE  changes[i].value \in Values
  BY <1>2 DEF Values, PrinterTyped
<1>4. ASSUME NEW i \in 1 .. Len(changes), Selected(changes[i])
      PROVE  /\ LinesOf(changes[i]) \in Seq(LineType)
             /\ \A k \in 1 .. Len(LinesOf(changes[i])) :
                  LinesOf(changes[i])[k][1] = changes[i].time
  <2> DEFINE names == Names[changes[i].handle]
             m == Len(names)
             t == changes[i].time
             v == changes[i].value
             f == [k \in 1 .. m |-> << t, names[k], v >>]
  <2>1. names \in Seq(Nat)
    BY <1>4, PrintAssumption DEF Selected
  <2>2. m \in Nat /\ DOMAIN names = 1 .. m /\ \A k \in 1 .. m : names[k] \in Nat
    BY <2>1
  <2>3. t \in Nat /\ v \in Values
    BY <1>1, <1>2, <1>3
  <2>4. LinesOf(changes[i]) = f
    BY <2>2 DEF LinesOf
  <2> HIDE DEF names, m, t, v
  <2>5. \A k \in 1 .. m : << t, names[k], v >> \in LineType /\ << t, names[k], v >>[1] = t
    BY <2>2, <2>3 DEF LineType
  <2>6. f \in Seq(LineType) /\ Len(f) = m /\ \A k \in 1 .. m : f[k][1] = t
    BY <2>2, <2>5
  <2> HIDE DEF f
  <2> QED
    BY <2>4, <2>6 DEF t
<1> QED
  BY <1>1, <1>2, <1>3, <1>4

(* Up to where the stream is considered.                                   *)
ConsideredTo(m) ==
    /\ m \in 0 .. Len(changes) /\ DOMAIN Considered = 1 .. m
    /\ \A i \in 1 .. m : Considered[i] = changes[i]
    /\ printer # "vcd" => m = Len(changes)
    /\ printer = "vcd" =>
         /\ \A i \in 1 .. m : ~AfterEnd(changes[i])
         /\ m < Len(changes) => AfterEnd(changes[m + 1])

(* A first part of the stream is considered: of VCD, what is before the    *)
(* first change after the window; else all of it.                          *)
LEMMA ConsideredPart == ASSUME PrinterTyped PROVE \E m : ConsideredTo(m)
<1> DEFINE n == Len(changes)
           past == {i \in DOMAIN changes : AfterEnd(changes[i])}
<1>1. n \in Nat /\ DOMAIN changes = 1 .. n /\ changes \in Seq(ToSet(changes))
  BY StreamTyped
<1>2. CASE ~(printer = "vcd" /\ past # {})
  <2>1. Considered = changes
    BY <1>2 DEF Considered
  <2>2. n \in 0 .. n
    BY <1>1
  <2>3. printer = "vcd" => \A i \in 1 .. n : ~AfterEnd(changes[i])
    BY <1>1, <1>2
  <2>4. ConsideredTo(n)
    BY <1>1, <2>1, <2>2, <2>3 DEF ConsideredTo
  <2> QED
    BY <2>4
<1>3. CASE printer = "vcd" /\ past # {}
  <2> DEFINE p == Min(past)
  <2>1. p \in past /\ \A i \in past : p <= i
    <3>1. past \in SUBSET Nat
      BY <1>1
    <3> HIDE DEF past
    <3>2. \E i \in past : \A j \in past : i <= j
      BY <1>3, <3>1, LeastOfNat
    <3> QED
      BY <3>2 DEF Min
  <2>2. Considered = SubSeq(changes, 1, p - 1)
    BY <1>3 DEF Considered
  <2>3. p \in 1 .. n /\ AfterEnd(changes[p])
    BY <1>1, <2>1
  <2>4. \A i \in 1 .. p - 1 : ~AfterEnd(changes[i])
    <3>1. \A i \in 1 .. p - 1 : i \in 1 .. n /\ ~(p <= i)
      BY <1>1, <2>3
    <3> QED
      BY <1>1, <2>1, <3>1
  <2> HIDE DEF p, past
  <2>5. /\ p - 1 \in 0 .. n
        /\ DOMAIN SubSeq(changes, 1, p - 1) = 1 .. p - 1
        /\ \A i \in 1 .. p - 1 : SubSeq(changes, 1, p - 1)[i] = changes[i]
    BY <1>1, <2>3
  <2>6. (p - 1) + 1 = p
    BY <2>3
  <2>7. ConsideredTo(p - 1)
    BY <1>3, <2>2, <2>3, <2>4, <2>5, <2>6 DEF ConsideredTo
  <2> QED
    BY <2>7
<1> QED
  BY <1>2, <1>3

(* The lines wanted of one change, and of the first k changes.             *)
Part(i) == IF i \in DOMAIN Considered /\ InWindow(changes[i]) /\ Selected(changes[i])
           THEN LinesOf(changes[i]) ELSE <<>>

Collected(f) ==
    /\ f \in [0 .. Len(changes) -> Seq(LineType)] /\ f[0] = <<>>
    /\ \A k \in 1 .. Len(changes) : f[k] = f[k - 1] \o Part(k)
    /\ Wanted = f[Len(changes)]

Collection == CHOOSE f : Collected(f)
Upto(k) == Collection[k]

(* A part has lines of its time.                                           *)
LEMMA PartTyped ==
    ASSUME PrinterTyped, NEW i \in 1 .. Len(changes)
    PROVE  /\ Part(i) \in Seq(LineType)
           /\ \A k \in 1 .. Len(Part(i)) : Part(i)[k][1] = changes[i].time
<1>1. CASE i \in DOMAIN Considered /\ InWindow(changes[i]) /\ Selected(changes[i])
  <2>1. Part(i) = LinesOf(changes[i])
    BY <1>1 DEF Part
  <2> QED
    BY <1>1, <2>1, StreamTyped
<1>2. CASE ~(i \in DOMAIN Considered /\ InWindow(changes[i]) /\ Selected(changes[i]))
  <2>1. Part(i) = <<>>
    BY <1>2 DEF Part
  <2>2. <<>> \in Seq(LineType) /\ Len(<<>>) = 0
    OBVIOUS
  <2>3. \A k : k \notin 1 .. 0
    OBVIOUS
  <2> QED
    BY <2>1, <2>2, <2>3
<1> QED
  BY <1>1, <1>2

(* The lines wanted are collected change by change.                        *)
LEMMA WantedCollected == ASSUME PrinterTyped PROVE Collected([k \in 0 .. Len(changes) |-> Upto(k)])
<1> DEFINE n == Len(changes)
           X == LineType
<1>1. n \in Nat /\ DOMAIN changes = 1 .. n
  BY StreamTyped
<1>2. PICK m : ConsideredTo(m)
  BY ConsideredPart
<1>3. /\ m \in Nat /\ m <= n /\ DOMAIN Considered = 1 .. m
      /\ \A i \in 1 .. m : i \in 1 .. n /\ Considered[i] = changes[i]
  <2>1. m \in 0 .. n
    BY <1>2 DEF ConsideredTo
  <2>2. DOMAIN Considered = 1 .. m /\ \A i \in 1 .. m : Considered[i] = changes[i]
    BY <1>2 DEF ConsideredTo
  <2> HIDE DEF n
  <2>3. m \in Nat /\ m <= n /\ \A i \in 1 .. m : i \in 1 .. n
    BY <1>1, <2>1
  <2> QED
    BY <2>2, <2>3
<1> DEFINE parts == [i \in 1 .. m |-> Part(i)]
<1>4. Wanted = FlattenSeq(parts)
  <2>1. \A i \in 1 .. m : Part(i) = IF InWindow(Considered[i]) /\ Selected(Considered[i])
                                    THEN LinesOf(Considered[i]) ELSE <<>>
    BY <1>3 DEF Part
  <2>2. parts = [i \in DOMAIN Considered |-> IF InWindow(Considered[i]) /\ Selected(Considered[i])
                                             THEN LinesOf(Considered[i]) ELSE <<>>]
    BY <1>3, <2>1
  <2> QED
    BY <2>2 DEF Wanted
<1>5. parts \in [1 .. m -> Seq(X)]
  <2>1. \A i \in 1 .. m : Part(i) \in Seq(X)
    BY <1>3, PartTyped
  <2> QED
    BY <2>1
<1> HIDE DEF parts
<1>6. PICK acc : Flattened(acc, parts, m, X)
  BY <1>3, <1>5, FlattenSteps
<1>7. /\ acc \in [0 .. m -> Seq(X)] /\ acc[0] = <<>> /\ FlattenSeq(parts) = acc[m]
      /\ \A k \in 1 .. m : acc[k] = acc[k - 1] \o Part(k)
  BY <1>6 DEF Flattened, parts
<1> DEFINE f == [k \in 0 .. n |-> IF k <= m THEN acc[k] ELSE acc[m]]
<1>8. f \in [0 .. n -> Seq(X)] /\ f[0] = <<>> /\ f[n] = acc[m]
  <2>1. \A k \in 0 .. n : k <= m => k \in 0 .. m
    BY <1>1, <1>3
  <2>2. m \in 0 .. m /\ 0 \in 0 .. n /\ n \in 0 .. n /\ 0 <= m
    BY <1>1, <1>3
  <2>3. \A k \in 0 .. n : (IF k <= m THEN acc[k] ELSE acc[m]) \in Seq(X)
    BY <1>7, <2>1, <2>2
  <2>4. n <= m => n = m
    <3>1. n \in Nat /\ m \in Nat /\ m <= n
      BY <1>1, <1>3
    <3> HIDE DEF n
    <3> QED
      BY <3>1
  <2> QED
    BY <1>7, <2>2, <2>3, <2>4
<1>9. ASSUME NEW k \in 1 .. n PROVE f[k] = f[k - 1] \o Part(k)
  <2>1. CASE k <= m
    <3>1. k \in 1 .. m /\ k - 1 <= m /\ k - 1 \in 0 .. n /\ k \in 0 .. n
      BY <1>1, <1>3, <2>1
    <3> QED
      BY <1>7, <2>1, <3>1
  <2>2. CASE ~(k <= m)
    <3>1. k \in 0 .. n /\ k - 1 \in 0 .. n /\ (k - 1 <= m => k - 1 = m)
      BY <1>1, <1>3, <2>2
    <3>2. f[k] = acc[m] /\ f[k - 1] = acc[m]
      BY <2>2, <3>1
    <3>3. Part(k) = <<>>
      BY <1>3, <2>2 DEF Part
    <3>4. acc[m] \in Seq(X)
      BY <1>3, <1>7
    <3>5. acc[m] \o <<>> = acc[m]
      BY <3>4
    <3> QED
      BY <3>2, <3>3, <3>5
  <2> QED
    BY <2>1, <2>2
<1> HIDE DEF f
<1>10. Collected(f)
  BY <1>4, <1>7, <1>8, <1>9 DEF Collected
<1> DEFINE F == Collection
<1>11. Collected(F)
  BY <1>10 DEF Collection
<1>12. \A k : Upto(k) = F[k]
  BY DEF Upto
<1> HIDE DEF F
<1>13. F = [k \in 0 .. n |-> F[k]]
  BY <1>11 DEF Collected
<1>14. F = [k \in 0 .. n |-> Upto(k)]
  BY <1>12, <1>13
<1> QED
  BY <1>11, <1>14

(* Each change adds its part to what is wanted.                            *)
LEMMA UptoSteps ==
    ASSUME PrinterTyped
    PROVE  /\ \A k \in 0 .. Len(changes) : Upto(k) \in Seq(LineType)
           /\ Upto(0) = <<>> /\ Upto(Len(changes)) = Wanted /\ Wanted \in Seq(LineType)
           /\ \A k \in 1 .. Len(changes) : Upto(k) = Upto(k - 1) \o Part(k)
<1> DEFINE n == Len(changes)
           f == [k \in 0 .. n |-> Upto(k)]
<1>1. n \in Nat
  BY StreamTyped
<1>2. Collected(f)
  BY WantedCollected
<1>3. \A k \in 0 .. n : f[k] = Upto(k)
  OBVIOUS
<1> HIDE DEF f
<1>4. /\ \A k \in 0 .. n : f[k] \in Seq(LineType)
      /\ f[0] = <<>> /\ Wanted = f[n] /\ \A k \in 1 .. n : f[k] = f[k - 1] \o Part(k)
  BY <1>2 DEF Collected
<1>5. 0 \in 0 .. n /\ n \in 0 .. n /\ \A k \in 1 .. n : k \in 0 .. n /\ k - 1 \in 0 .. n
  BY <1>1
<1> QED
  BY <1>3, <1>4, <1>5

(* What is wanted goes on after k changes with lines of later changes.     *)
GoesOn(k, m, r) ==
    /\ r \in Seq(LineType) /\ Upto(m) = Upto(k) \o r
    /\ \A j \in 1 .. Len(r) : \E i \in k + 1 .. m : r[j][1] = changes[i].time /\ Part(i) # <<>>

(* There is a rest, all of it of later changes.                            *)
LEMMA Continues ==
    ASSUME PrinterTyped, NEW k \in 0 .. Len(changes)
    PROVE  \E r : GoesOn(k, Len(changes), r)
<1> DEFINE n == Len(changes)
           T == {d \in 0 .. n - k : \E r : GoesOn(k, k + d, r)}
<1>1. n \in Nat /\ n - k \in Nat /\ k + (n - k) = n /\ k \in Nat
  BY StreamTyped
<1>2. 0 \in T
  <2>1. <<>> \in Seq(LineType) /\ Len(<<>>) = 0 /\ \A j : j \notin 1 .. 0
    OBVIOUS
  <2>2. Upto(k) \in Seq(LineType)
    BY UptoSteps
  <2>3. Upto(k) \o <<>> = Upto(k)
    BY <2>2
  <2>4. k + 0 = k /\ 0 \in 0 .. n - k
    BY <1>1
  <2>5. GoesOn(k, k, <<>>)
    BY <2>1, <2>3 DEF GoesOn
  <2> QED
    BY <2>4, <2>5
<1>3. ASSUME NEW d \in 1 .. n - k, d - 1 \in T PROVE d \in T
  <2> DEFINE m == k + d
             p == Part(m)
  <2>1. PICK r : GoesOn(k, k + (d - 1), r)
    BY <1>3
  <2>2. k + (d - 1) = m - 1 /\ m \in 1 .. n /\ m - 1 \in 0 .. n /\ m \in k + 1 .. m
    BY <1>1
  <2>3. r \in Seq(LineType) /\ Upto(m - 1) = Upto(k) \o r
    BY <2>1, <2>2 DEF GoesOn
  <2>4. \A j \in 1 .. Len(r) : \E i \in k + 1 .. m - 1 : r[j][1] = changes[i].time /\ Part(i) # <<>>
    BY <2>1, <2>2 DEF GoesOn
  <2>5. p \in Seq(LineType) /\ \A j \in 1 .. Len(p) : p[j][1] = changes[m].time
    BY <2>2, PartTyped
  <2>6. Upto(m) = Upto(m - 1) \o p /\ Upto(k) \in Seq(LineType)
    BY <2>2, UptoSteps
  <2> DEFINE s == r \o p
  <2>7. /\ s \in Seq(LineType) /\ Len(s) = Len(r) + Len(p)
        /\ \A i \in 1 .. Len(r) : s[i] = r[i]
        /\ \A i \in 1 .. Len(p) : s[Len(r) + i] = p[i]
    BY <2>3, <2>5, Joined
  <2>8. Upto(m) = Upto(k) \o s
    <3>1. Upto(k) \in Seq(LineType) /\ r \in Seq(LineType) /\ p \in Seq(LineType)
      BY <2>3, <2>5, <2>6
    <3> HIDE DEF p
    <3>2. (Upto(k) \o r) \o p = Upto(k) \o (r \o p)
      BY <3>1, JoinedThrice
    <3> QED
      BY <2>3, <2>6, <3>2
  <2>9. ASSUME NEW j \in 1 .. Len(s)
        PROVE  \E i \in k + 1 .. m : s[j][1] = changes[i].time /\ Part(i) # <<>>
    <3>1. Len(r) \in Nat /\ Len(p) \in Nat
      BY <2>3, <2>5
    <3>2. CASE j \in 1 .. Len(r)
      <4>1. PICK i \in k + 1 .. m - 1 : r[j][1] = changes[i].time /\ Part(i) # <<>>
        BY <2>4, <3>2
      <4>2. i \in k + 1 .. m
        BY <2>2
      <4> QED
        BY <2>7, <3>2, <4>1, <4>2
    <3>3. CASE j \notin 1 .. Len(r)
      <4>1. j - Len(r) \in 1 .. Len(p) /\ Len(r) + (j - Len(r)) = j
        BY <2>7, <3>1, <3>3
      <4>2. s[j] = p[j - Len(r)]
        BY <2>7, <4>1
      <4>3. p # <<>>
        BY <4>1
      <4> QED
        BY <2>2, <2>5, <4>1, <4>2, <4>3
    <3> QED
      BY <3>2, <3>3
  <2> HIDE DEF s
  <2>10. GoesOn(k, m, s)
    BY <2>7, <2>8, <2>9 DEF GoesOn
  <2> QED
    BY <2>10
<1> HIDE DEF T
<1>4. n - k \in T
  <2>1. \A d \in 0 .. n - k : d \in T
    BY <1>1, <1>2, <1>3, UpTo
  <2> QED
    BY <1>1, <2>1
<1> QED
  BY <1>1, <1>4 DEF T

-----------------------------------------------------------------------------
(* The lines held back, as they will be written.                           *)
LinesHeld == [k \in DOMAIN batch |-> << current, batch[k][1], batch[k][2] >>]

(* Lines held back have the current time.                                  *)
LEMMA LinesHeldTyped ==
    ASSUME PrinterTyped, current \in Nat
    PROVE  /\ LinesHeld \in Seq(LineType) /\ Len(LinesHeld) = Len(batch)
           /\ \A k \in 1 .. Len(LinesHeld) : LinesHeld[k][1] = current
<1> DEFINE m == Len(batch)
           f == [k \in 1 .. m |-> << current, batch[k][1], batch[k][2] >>]
<1>1. m \in Nat /\ DOMAIN batch = 1 .. m /\ \A k \in 1 .. m : batch[k][1] \in Nat /\ batch[k][2] \in Values
  BY DEF PrinterTyped
<1>2. LinesHeld = f
  BY <1>1 DEF LinesHeld
<1>3. \A k \in 1 .. m : << current, batch[k][1], batch[k][2] >> \in LineType
  BY <1>1 DEF LineType
<1>4. f \in Seq(LineType) /\ Len(f) = m /\ \A k \in 1 .. m : f[k][1] = current
  BY <1>1, <1>3
<1> HIDE DEF f
<1> QED
  BY <1>2, <1>4

(* What is written is sorted.                                              *)
LEMMA HeldSorted ==
    ASSUME PrinterTyped, current \in Nat
    PROVE  HeldLines = Sorted(LinesHeld)
<1> DEFINE m == Len(batch)
           S == 1 .. m
           R == {pair \in S \X S :
                   LET i == pair[1] j == pair[2]
                   IN  batch[i][1] < batch[j][1] \/ (~(batch[j][1] < batch[i][1]) /\ i < j)}
           Q == LineOrder(LinesHeld)
           order == InOrder(S, R)
<1>1. m \in Nat /\ DOMAIN batch = S /\ \A k \in S : batch[k][1] \in Nat
  BY DEF PrinterTyped
<1>2. /\ LinesHeld \in Seq(LineType) /\ Len(LinesHeld) = m /\ DOMAIN LinesHeld = S
      /\ \A k \in S : LinesHeld[k] = << current, batch[k][1], batch[k][2] >>
  BY <1>1, LinesHeldTyped DEF LinesHeld
<1>3. \A i, j \in S : << i, j >> \in R <=> << i, j >> \in Q
  <2> SUFFICES ASSUME NEW i \in S, NEW j \in S PROVE << i, j >> \in R <=> << i, j >> \in Q
    OBVIOUS
  <2>1. << i, j >> \in Q <=> Sooner(LinesHeld, i, j)
    BY <1>2 DEF LineOrder
  <2> DEFINE a == batch[i][1]
             b == batch[j][1]
  <2>2. LinesHeld[i][1] = current /\ LinesHeld[j][1] = current /\ LinesHeld[i][2] = a /\ LinesHeld[j][2] = b
    BY <1>2
  <2>3. << i, j >> \in R <=> a < b \/ (~(b < a) /\ i < j)
    OBVIOUS
  <2>4. a \in Nat /\ b \in Nat /\ ~(current < current)
    BY <1>1
  <2>5. Sooner(LinesHeld, i, j) <=> a < b \/ (a = b /\ i < j)
    BY <2>2, <2>4 DEF Sooner
  <2> HIDE DEF a, b, R, Q
  <2>6. (~(b < a) /\ i < j) \/ a < b <=> a < b \/ (a = b /\ i < j)
    BY <2>4
  <2> QED
    BY <2>1, <2>3, <2>5, <2>6
<1>4. order = InOrder(S, Q)
  <2> HIDE DEF R, Q, S
  <2> QED
    BY <1>3, OrderAgree
<1>5. SortedBatch = [k \in S |-> batch[order[k]]]
  <2>1. DOMAIN batch = S
    BY <1>1
  <2> HIDE DEF S
  <2> QED
    BY <2>1 DEF SortedBatch, SortedBy
<1>6. HeldLines = [k \in S |-> << current, batch[order[k]][1], batch[order[k]][2] >>]
  BY <1>1, <1>5 DEF HeldLines
<1>7. \A k \in S : order[k] \in S
  <2>1. IsStrictOrder(DOMAIN LinesHeld, Q) /\ IsFiniteSet(DOMAIN LinesHeld)
        /\ Cardinality(DOMAIN LinesHeld) = Len(LinesHeld)
    BY <1>2, LinesOrdered
  <2> HIDE DEF Q, R
  <2>2. InOrder(S, Q) \in [1 .. m -> S]
    BY <1>2, <2>1, OrderIsOnto
  <2> QED
    BY <1>4, <2>2
<1>8. Sorted(LinesHeld) = [k \in S |-> LinesHeld[order[k]]]
  BY <1>2, <1>4 DEF Sorted
<1> HIDE DEF order, S
<1> QED
  BY <1>2, <1>6, <1>7, <1>8

(* Of lines, Ordered is this order.                                        *)
LEMMA OrderedIs ==
    ASSUME PrinterTyped, NEW s \in Seq(LineType)
    PROVE  Ordered(s) = IF sort THEN Sorted(s) ELSE s
<1> DEFINE S == 1 .. Len(s)
           Lower(a, b) == a[1] < b[1] \/ (a[1] = b[1] /\ a[2] < b[2])
           R == {pair \in S \X S :
                   LET i == pair[1] j == pair[2]
                   IN  Lower(s[i], s[j]) \/ (~Lower(s[j], s[i]) /\ i < j)}
           Q == LineOrder(s)
<1>1. DOMAIN s = S /\ \A k \in S : s[k][1] \in Nat /\ s[k][2] \in Nat
  BY LineParts
<1>2. \A i, j \in S : << i, j >> \in R <=> << i, j >> \in Q
  <2> SUFFICES ASSUME NEW i \in S, NEW j \in S PROVE << i, j >> \in R <=> << i, j >> \in Q
    OBVIOUS
  <2>1. << i, j >> \in Q <=> Sooner(s, i, j)
    BY <1>1 DEF LineOrder
  <2> DEFINE a == s[i][1] b == s[j][1] c == s[i][2] d == s[j][2]
  <2>2. << i, j >> \in R <=> \/ (a < b \/ (a = b /\ c < d))
                             \/ (~(b < a \/ (b = a /\ d < c)) /\ i < j)
    OBVIOUS
  <2>3. a \in Nat /\ b \in Nat /\ c \in Nat /\ d \in Nat
    BY <1>1
  <2>4. Sooner(s, i, j) <=> a < b \/ (a = b /\ c < d) \/ (a = b /\ c = d /\ i < j)
    BY DEF Sooner
  <2> HIDE DEF a, b, c, d, R, Q
  <2>5. ~(b < a \/ (b = a /\ d < c)) <=> a < b \/ (a = b /\ c < d) \/ (a = b /\ c = d)
    BY <2>3
  <2> QED
    BY <2>1, <2>2, <2>4, <2>5
<1>3. InOrder(S, R) = InOrder(S, Q)
  <2> HIDE DEF R, Q, S
  <2> QED
    BY <1>2, OrderAgree
<1>4. Sorted(s) = [k \in S |-> s[InOrder(S, R)[k]]]
  <2>1. DOMAIN s = S
    BY <1>1
  <2> HIDE DEF S, R
  <2> QED
    BY <1>3, <2>1 DEF Sorted
<1>5. SortedBy(s, Lower) = [k \in S |-> s[InOrder(S, R)[k]]]
  <2>1. DOMAIN s = S
    BY <1>1
  <2> HIDE DEF S
  <2> QED
    BY <2>1 DEF SortedBy
<1>6. Ordered(s) = IF sort THEN SortedBy(s, Lower) ELSE s
  BY DEF Ordered
<1> QED
  BY <1>4, <1>5, <1>6

(* A flush in the middle of what is wanted: what was written, what is held *)
(* back and is written as far as it fits, what comes later.                *)
LEMMA Flushing ==
    ASSUME NEW g \in Seq(LineType), NEW h \in Seq(LineType), NEW r \in Seq(LineType),
           NEW c \in Int, c <= Len(h),
           \A i \in 1 .. Len(g), j \in 1 .. Len(h) : g[i][1] < h[j][1],
           \A i \in 1 .. Len(g \o h), j \in 1 .. Len(r) : (g \o h)[i][1] < r[j][1]
    PROVE  IsPrefix(Sorted(g) \o SubSeq(Sorted(h), 1, c), Sorted((g \o h) \o r))
<1> DEFINE a == Sorted(g)
           b == Sorted(h)
           d == Sorted(r)
<1>1. g \o h \in Seq(LineType)
  BY Joined
<1>2. /\ a \in Seq(LineType) /\ b \in Seq(LineType) /\ Len(b) = Len(h) /\ d \in Seq(LineType)
      /\ a \o b \in Seq(LineType)
  BY SortedKeeps
<1>3. Sorted(g \o h) = a \o b
  BY SortedJoined
<1>4. Sorted((g \o h) \o r) = (a \o b) \o d
  <2>1. Sorted((g \o h) \o r) = Sorted(g \o h) \o Sorted(r)
    BY <1>1, SortedJoined
  <2> QED
    BY <1>3, <2>1
<1> HIDE DEF a, b, d
<1>5. c <= Len(b)
  BY <1>2
<1>6. a \o SubSeq(b, 1, c) \in Seq(LineType) /\ IsPrefix(a \o SubSeq(b, 1, c), a \o b)
  BY <1>2, <1>5, CutPrefix
<1>7. IsPrefix(a \o SubSeq(b, 1, c), (a \o b) \o d)
  BY <1>2, <1>6, PrefixJoined
<1> QED
  BY <1>4, <1>7 DEF a, b, d

(* A VCD file is read only as long as nothing after the window was seen.   *)
NotPast ==
    printer = "vcd" /\ nextChange <= Len(changes) =>
        \A i \in 1 .. nextChange - 1 : ~AfterEnd(changes[i]) \/ changes[i].time < Start

(* g is what was written, before it was sorted.                            *)
WroteOf(g) ==
    /\ g \in Seq(LineType) /\ Upto(nextChange - 1) = g \o LinesHeld
    /\ \A x : Times(x, text) = Times(x, g)
    /\ InTimeOrder => /\ text = Sorted(g)
                      /\ \A i \in 1 .. Len(g) : current # Nil /\ g[i][1] < current

Holding ==
    /\ ~sort => text = Upto(nextChange - 1)
    /\ sort => /\ \E g : WroteOf(g)
               /\ current = Nil => batch = <<>>
               /\ current # Nil => \E i \in 1 .. nextChange - 1 : current = changes[i].time

PInv == PrinterTyped /\ NotPast /\ (answer = "running" /\ ~failed => Holding) /\ PrintsWanted

(* What is to be printed does not change.                                  *)
Same == UNCHANGED << printer, sort, changes, room >>

(* No step changes what is wanted.                                         *)
LEMMA WantedStays ==
    ASSUME Same
    PROVE  /\ Wanted' = Wanted /\ InTimeOrder' = InTimeOrder
           /\ Collection' = Collection
<1>1. Considered' = Considered
  BY DEF Same, Considered
<1>2. Wanted' = Wanted
  BY <1>1 DEF Wanted
<1>3. InTimeOrder' = InTimeOrder
  BY DEF Same, InTimeOrder
<1>4. ASSUME NEW k PROVE Part(k)' = Part(k)
  BY <1>1 DEF Same, Part
<1>5. ASSUME NEW f PROVE Collected(f)' = Collected(f)
  BY <1>2, <1>4 DEF Same, Collected
<1>6. Collection' = Collection
  BY <1>5 DEF Collection
<1> QED
  BY <1>2, <1>3, <1>6

(* What has to be shown of what was written.                               *)
Prefixed(t) == InTimeOrder => IsPrefix(t, Ordered(Wanted))
Complete(t) == /\ InTimeOrder => t = Ordered(Wanted)
               /\ \A x : Times(x, t) = Times(x, Wanted)

(* What a step has to show for PrintsWanted.                               *)
LEMMA PrintsKept ==
    ASSUME Same, Prefixed(text'), answer' = "ok" => Complete(text')
    PROVE  PrintsWanted'
<1>1. Wanted' = Wanted /\ InTimeOrder' = InTimeOrder
  BY WantedStays
<1>2. Ordered(Wanted)' = Ordered(Wanted)
  BY <1>1 DEF Same, Ordered, SortedBy
<1>3. InTimeOrder => IsPrefix(text', Ordered(Wanted))
  BY DEF Prefixed
<1>4. answer' = "ok" => (InTimeOrder => text' = Ordered(Wanted)) /\ \A x : Times(x, text') = Times(x, Wanted)
  BY DEF Complete
<1> QED
  BY <1>1, <1>2, <1>3, <1>4 DEF PrintsWanted

(* The change that is looked at is the next part.                          *)
LEMMA NextPart ==
    ASSUME PrinterTyped, NotPast, nextChange <= Len(changes)
    PROVE  /\ nextChange \in 1 .. Len(changes) /\ nextChange - 1 \in 0 .. Len(changes)
           /\ (nextChange + 1) - 1 = nextChange
           /\ Upto(nextChange) = Upto(nextChange - 1) \o Part(nextChange)
           /\ InWindow(Change) /\ Selected(Change) => Part(nextChange) = LinesOf(Change)
           /\ ~(InWindow(Change) /\ Selected(Change)) => Part(nextChange) = <<>>
<1> DEFINE n == Len(changes)
           p == nextChange
<1>1. n \in Nat /\ \A i \in 1 .. n : changes[i].time \in Nat
  BY StreamTyped
<1>2. p \in 1 .. n /\ p - 1 \in 0 .. n /\ (p + 1) - 1 = p
  BY <1>1 DEF PrinterTyped
<1>3. Upto(p) = Upto(p - 1) \o Part(p)
  BY <1>2, UptoSteps
<1>4. ~(InWindow(Change) /\ Selected(Change)) => Part(p) = <<>>
  BY DEF Part, Change
<1>5. ASSUME InWindow(Change) PROVE p \in DOMAIN Considered
  <2>1. PICK m : ConsideredTo(m)
    BY ConsideredPart
  <2>2. m \in 0 .. n /\ DOMAIN Considered = 1 .. m
    BY <2>1 DEF ConsideredTo
  <2>3. CASE printer # "vcd"
    BY <1>2, <2>1, <2>2, <2>3 DEF ConsideredTo
  <2>4. CASE printer = "vcd"
    <3>1. SUFFICES ASSUME ~(p <= m) PROVE FALSE
      BY <1>2, <2>2
    <3>2. m < n /\ m + 1 \in 1 .. p
      BY <1>1, <1>2, <2>2, <3>1
    <3>3. AfterEnd(changes[m + 1])
      BY <2>1, <2>4, <3>2 DEF ConsideredTo
    <3>4. CASE m + 1 = p
      BY <1>5, <3>3, <3>4 DEF InWindow, Change
    <3>5. CASE m + 1 # p
      <4>1. m + 1 \in 1 .. p - 1 /\ m + 1 \in 1 .. n
        BY <1>2, <2>2, <3>2, <3>5
      <4>2. changes[m + 1].time < Start
        BY <2>4, <3>3, <4>1 DEF NotPast
      <4> DEFINE t == changes[m + 1].time
                 u == changes[p].time
      <4>3. t \in Nat /\ u \in Nat /\ Start \in Nat
        BY <1>1, <1>2, <4>1, PrintAssumption
      <4>4. End \in Nat /\ t > End /\ t < Start
        BY <3>3, <4>2, PrintAssumption DEF AfterEnd
      <4>5. u >= Start /\ ~(u > End)
        BY <1>5, <4>4, PrintAssumption DEF InWindow, AfterEnd, Change
      <4> HIDE DEF t, u
      <4> QED
        BY <4>3, <4>4, <4>5
    <3> QED
      BY <3>4, <3>5
  <2> QED
    BY <2>3, <2>4
<1>6. InWindow(Change) /\ Selected(Change) => Part(p) = LinesOf(Change)
  BY <1>5 DEF Part, Change
<1> QED
  BY <1>2, <1>3, <1>4, <1>6

(* A change that adds nothing leaves what was collected.                   *)
LEMMA NothingAdded ==
    ASSUME PrinterTyped, NotPast, nextChange <= Len(changes), ~(InWindow(Change) /\ Selected(Change))
    PROVE  Upto(nextChange) = Upto(nextChange - 1)
<1>1. Upto(nextChange) = Upto(nextChange - 1) \o <<>> /\ nextChange - 1 \in 0 .. Len(changes)
  BY NextPart
<1>2. Upto(nextChange - 1) \in Seq(LineType)
  BY <1>1, UptoSteps
<1> QED
  BY <1>1, <1>2

(* What was written stands as it does if nothing is written and held.      *)
LEMMA HoldingStays ==
    ASSUME PrinterTyped, Same, Holding, UNCHANGED << current, batch, text >>,
           nextChange' \in Nat, nextChange <= nextChange',
           Upto(nextChange' - 1) = Upto(nextChange - 1)
    PROVE  Holding'
<1>1. InTimeOrder' = InTimeOrder /\ Collection' = Collection
  BY WantedStays
<1>2. Upto(nextChange - 1)' = Upto(nextChange - 1)
  BY <1>1 DEF Upto
<1>3. LinesHeld' = LinesHeld
  BY DEF LinesHeld
<1>4. ASSUME NEW g, WroteOf(g) PROVE WroteOf(g)'
  BY <1>1, <1>2, <1>3, <1>4 DEF WroteOf
<1>5. 1 .. nextChange - 1 \subseteq 1 .. nextChange' - 1
  <2>1. nextChange \in Nat /\ nextChange' \in Nat /\ nextChange <= nextChange'
    BY StreamTyped DEF PrinterTyped
  <2> DEFINE a == nextChange
             b == nextChange'
  <2>2. a \in Nat /\ b \in Nat /\ a <= b
    BY <2>1
  <2> HIDE DEF a, b
  <2>3. 1 .. a - 1 \subseteq 1 .. b - 1
    BY <2>2
  <2> QED
    BY <2>3 DEF a, b
<1> QED
  BY <1>2, <1>4, <1>5 DEF Holding, Same

(* What has been read stays read.                                          *)
LEMMA TakenTyped ==
    ASSUME PrinterTyped, Take
    PROVE  /\ Same /\ nextChange \in 1 .. Len(changes) /\ nextChange' = nextChange + 1
           /\ nextChange' \in 1 .. Len(changes) + 1 /\ nextChange' - 1 = nextChange
           /\ nextChange' \in Nat /\ nextChange <= nextChange' /\ answer = "running"
<1>1. Same /\ nextChange <= Len(changes) /\ nextChange' = nextChange + 1 /\ answer = "running"
  BY DEF Take, Same
<1>2. Len(changes) \in Nat /\ nextChange \in 1 .. Len(changes) + 1
  BY StreamTyped DEF PrinterTyped
<1> QED
  BY <1>1, <1>2

(* A step that writes nothing and does not succeed.                        *)
LEMMA WritesNothing ==
    ASSUME Same, PrintsWanted, text' = text, answer' # "ok"
    PROVE  PrintsWanted'
<1>1. Prefixed(text')
  BY DEF Prefixed, PrintsWanted
<1> QED
  BY <1>1, PrintsKept

(* Taking a change that is not past the window keeps NotPast.              *)
LEMMA StillNotPast ==
    ASSUME PrinterTyped, NotPast, Take, printer = "vcd" => ~AfterEnd(Change) \/ Change.time < Start
    PROVE  NotPast'
<1>1. Same /\ nextChange' - 1 = nextChange /\ nextChange \in 1 .. Len(changes)
  BY TakenTyped
<1>2. SUFFICES ASSUME printer = "vcd", NEW i \in 1 .. nextChange
               PROVE  ~AfterEnd(changes[i]) \/ changes[i].time < Start
  BY <1>1 DEF NotPast, Same
<1>3. CASE i = nextChange
  BY <1>2, <1>3 DEF Change
<1>4. CASE i # nextChange
  <2>1. i \in 1 .. nextChange - 1 /\ nextChange <= Len(changes)
    BY <1>1, <1>4
  <2> QED
    BY <1>2, <2>1 DEF NotPast
<1> QED
  BY <1>3, <1>4

(* A change that is skipped is not wanted.                                 *)
LEMMA SkipKept == ASSUME PInv, Skip PROVE PInv'
<1>1. /\ PrinterTyped /\ NotPast /\ Take /\ PrintsWanted
      /\ UNCHANGED << current, batch, text, failed, answer >>
  BY DEF PInv, Skip
<1>2. /\ Same /\ nextChange \in 1 .. Len(changes)
      /\ nextChange' \in 1 .. Len(changes) + 1 /\ nextChange' - 1 = nextChange
      /\ nextChange' \in Nat /\ nextChange <= nextChange' /\ answer = "running"
  BY <1>1, TakenTyped
<1>3. PrinterTyped'
  BY <1>1, <1>2 DEF PrinterTyped, Same
<1>4. NotPast'
  <2>1. printer = "vcd" => Change.time < Start
    BY <1>1 DEF Skip, PrinterTyped
  <2> QED
    BY <1>1, <2>1, StillNotPast
<1>5. ASSUME ~failed PROVE Holding'
  <2>1. ~InWindow(Change)
    <3>1. CASE printer = "vcd" /\ Change.time < Start
      <4>1. Change.time \in Nat /\ Start \in Nat
        BY <1>1, <1>2, StreamTyped, PrintAssumption DEF Change
      <4>2. ~(Change.time >= Start)
        BY <3>1, <4>1
      <4> QED
        BY <4>2 DEF InWindow
    <3>2. CASE printer = "fst" /\ ~InWindow(Change)
      BY <3>2
    <3> QED
      BY <1>5, <3>1, <3>2 DEF Skip
  <2>2. Upto(nextChange) = Upto(nextChange - 1)
    BY <1>1, <1>2, <2>1, NothingAdded
  <2>3. Holding
    BY <1>2, <1>5 DEF PInv
  <2> QED
    BY <1>1, <1>2, <2>2, <2>3, HoldingStays
<1>6. PrintsWanted'
  BY <1>1, <1>2, WritesNothing
<1> QED
  BY <1>1, <1>3, <1>4, <1>5, <1>6 DEF PInv

(* Where the reader of VCD stops, everything wanted is collected.          *)
LEMMA StopKept == ASSUME PInv, StopAfterEnd PROVE PInv'
<1> DEFINE n == Len(changes)
<1>1. /\ PrinterTyped /\ NotPast /\ PrintsWanted /\ Same /\ answer = "running"
      /\ UNCHANGED << current, batch, text, failed, answer >>
      /\ nextChange <= n /\ nextChange' = n + 1 /\ printer = "vcd"
      /\ AfterEnd(Change) /\ Change.time >= Start
  BY DEF PInv, StopAfterEnd, Same
<1>2. /\ n \in Nat /\ nextChange \in 1 .. n /\ nextChange - 1 \in 0 .. n
      /\ nextChange' - 1 = n /\ nextChange' \in Nat /\ nextChange <= nextChange'
      /\ nextChange' \in 1 .. n + 1 /\ ~(nextChange' <= n)
  <2>1. n \in Nat /\ nextChange \in 1 .. n + 1
    BY <1>1, StreamTyped DEF PrinterTyped
  <2> HIDE DEF n
  <2> QED
    BY <1>1, <2>1
<1>3. PrinterTyped'
  BY <1>1, <1>2 DEF PrinterTyped, Same
<1>4. NotPast'
  BY <1>1, <1>2 DEF NotPast, Same
<1>5. ASSUME NEW i \in nextChange .. n PROVE Part(i) = <<>>
  <2>1. PICK m : ConsideredTo(m)
    BY <1>1, ConsideredPart
  <2>2. /\ m \in 0 .. n /\ DOMAIN Considered = 1 .. m
        /\ \A j \in 1 .. m : ~AfterEnd(changes[j])
    BY <1>1, <2>1 DEF ConsideredTo
  <2>3. nextChange \notin 1 .. m
    BY <1>1, <2>2 DEF Change
  <2>4. i \notin 1 .. m
    BY <1>2, <2>2, <2>3
  <2> QED
    BY <2>2, <2>4 DEF Part
<1>6. Upto(n) = Upto(nextChange - 1)
  <2>1. PICK r : GoesOn(nextChange - 1, n, r)
    BY <1>1, <1>2, Continues
  <2>2. r \in Seq(LineType) /\ Upto(n) = Upto(nextChange - 1) \o r
    BY <2>1 DEF GoesOn
  <2>3. \A j : j \notin 1 .. Len(r)
    <3> SUFFICES ASSUME NEW j \in 1 .. Len(r) PROVE FALSE
      OBVIOUS
    <3>1. \E i \in (nextChange - 1) + 1 .. n : Part(i) # <<>>
      BY <2>1 DEF GoesOn
    <3>2. (nextChange - 1) + 1 = nextChange
      BY <1>2
    <3> QED
      BY <1>5, <3>1, <3>2
  <2>4. r = <<>>
    BY <2>2, <2>3
  <2>5. Upto(nextChange - 1) \in Seq(LineType)
    BY <1>1, <1>2, UptoSteps
  <2> QED
    BY <2>2, <2>4, <2>5
<1>7. ASSUME ~failed PROVE Holding'
  <2>1. Holding
    BY <1>1, <1>7 DEF PInv
  <2>2. Upto(nextChange' - 1) = Upto(nextChange - 1)
    BY <1>2, <1>6
  <2> QED
    BY <1>1, <1>2, <2>1, <2>2, HoldingStays
<1>8. PrintsWanted'
  BY <1>1, WritesNothing
<1> QED
  BY <1>1, <1>3, <1>4, <1>7, <1>8 DEF PInv

(* A read error leaves a first part.                                       *)
LEMMA ReadFailKept == ASSUME PInv, ReadFail PROVE PInv'
<1>1. /\ PrinterTyped /\ NotPast /\ PrintsWanted /\ Same /\ answer' = "error"
      /\ UNCHANGED << nextChange, current, batch, text, failed >>
  BY DEF PInv, ReadFail, Same
<1>2. PrinterTyped'
  BY <1>1 DEF PrinterTyped, Same
<1>3. NotPast'
  BY <1>1 DEF NotPast, Same
<1>4. PrintsWanted'
  BY <1>1, WritesNothing
<1> QED
  BY <1>1, <1>2, <1>3, <1>4 DEF PInv

(* How many of the lines are written.                                      *)
Room(lines) == IF Fits(lines) THEN Len(lines) ELSE room - Len(text)

(* As many lines are written as fit.                                       *)
LEMMA RoomLimits ==
    ASSUME PrinterTyped, NEW lines \in Seq(LineType)
    PROVE  /\ Room(lines) \in Int /\ Room(lines) <= Len(lines)
           /\ Printed(lines) = text \o SubSeq(lines, 1, Room(lines))
           /\ Printed(lines) \in Seq(LineType)
           /\ Fits(lines) => Printed(lines) = text \o lines
<1>1. Len(text) \in Nat /\ Len(lines) \in Nat /\ room \in Nat /\ text \in Seq(LineType)
  BY DEF PrinterTyped
<1>2. Room(lines) \in Int /\ Room(lines) <= Len(lines)
  <2>1. CASE Fits(lines)
    BY <1>1, <2>1 DEF Room
  <2>2. CASE ~Fits(lines)
    <3> DEFINE a == Len(text)
               b == Len(lines)
    <3>1. a \in Nat /\ b \in Nat /\ room \in Nat /\ ~(a + b <= room)
      BY <1>1, <2>2 DEF Fits
    <3> HIDE DEF a, b
    <3>2. room - a \in Int /\ room - a <= b
      BY <3>1
    <3> QED
      BY <2>2, <3>2 DEF Room, a, b
  <2> QED
    BY <2>1, <2>2
<1>3. Printed(lines) = text \o SubSeq(lines, 1, Room(lines))
  BY DEF Printed, Room
<1>4. Printed(lines) \in Seq(LineType)
  BY <1>1, <1>2, <1>3, CutPrefix
<1>5. ASSUME Fits(lines) PROVE Printed(lines) = text \o lines
  <2>1. SubSeq(lines, 1, Len(lines)) = lines
    OBVIOUS
  <2> QED
    BY <1>3, <1>5, <2>1 DEF Room
<1> QED
  BY <1>2, <1>3, <1>4, <1>5

(* Without sorting, lines are written as they come.                        *)
LEMMA UnsortedKept == ASSUME PInv, PrintUnsorted PROVE PInv'
<1> DEFINE n == Len(changes)
           p == nextChange
           lines == LinesOf(Change)
<1>1. /\ PrinterTyped /\ NotPast /\ PrintsWanted /\ Take /\ ~sort /\ ~failed /\ InWindow(Change)
      /\ UNCHANGED << current, batch >>
  BY DEF PInv, PrintUnsorted
<1>2. /\ Same /\ p \in 1 .. n /\ nextChange' \in 1 .. n + 1 /\ nextChange' - 1 = p
      /\ nextChange' \in Nat /\ p <= nextChange' /\ answer = "running"
  BY <1>1, TakenTyped
<1>3. p - 1 \in 0 .. n /\ p \in 0 .. n /\ p <= n
  BY <1>1, <1>2, StreamTyped
<1>4. text = Upto(p - 1)
  BY <1>1, <1>2 DEF PInv, Holding
<1>5. NotPast'
  BY <1>1, StillNotPast DEF InWindow
<1>6. CASE ~Selected(Change)
  <2>1. UNCHANGED << text, failed, answer >>
    BY <1>6 DEF PrintUnsorted
  <2>2. PrinterTyped'
    BY <1>1, <1>2, <2>1 DEF PrinterTyped, Same
  <2>3. Upto(p) = Upto(p - 1)
    BY <1>1, <1>3, <1>6, NothingAdded
  <2>4. Holding
    BY <1>1, <1>2 DEF PInv
  <2>5. Holding'
    BY <1>1, <1>2, <2>1, <2>3, <2>4, HoldingStays
  <2>6. PrintsWanted'
    BY <1>1, <1>2, <2>1, WritesNothing
  <2> QED
    BY <1>5, <2>2, <2>5, <2>6 DEF PInv
<1>7. CASE Selected(Change)
  <2>1. text' = Printed(lines) /\ (Fits(lines) => UNCHANGED << failed, answer >>)
        /\ (~Fits(lines) => OnWriteError)
    BY <1>7 DEF PrintUnsorted
  <2>2. lines \in Seq(LineType)
    BY <1>1, <1>2, <1>7, StreamTyped DEF Change
  <2> HIDE DEF lines
  <2>3. Upto(p) = text \o lines
    BY <1>1, <1>3, <1>4, <1>7, NextPart DEF lines
  <2>4. /\ Room(lines) \in Int /\ Room(lines) <= Len(lines)
        /\ Printed(lines) = text \o SubSeq(lines, 1, Room(lines))
        /\ Printed(lines) \in Seq(LineType)
        /\ Fits(lines) => Printed(lines) = text \o lines
    BY <1>1, <2>2, RoomLimits
  <2>5. PrinterTyped'
    <3>1. /\ failed' \in BOOLEAN /\ (failed' => printer = "fst")
          /\ answer' \in {"running", "ok", "error"} /\ text' \in Seq(LineType)
      <4>1. text' \in Seq(LineType)
        BY <2>1, <2>4
      <4>2. CASE Fits(lines)
        BY <1>1, <2>1, <4>1, <4>2 DEF PrinterTyped
      <4>3. CASE ~Fits(lines)
        BY <1>1, <2>1, <4>1, <4>3 DEF OnWriteError, PrinterTyped
      <4> QED
        BY <4>2, <4>3
    <3> QED
      BY <1>1, <1>2, <3>1 DEF PrinterTyped, Same
  <2>6. PrintsWanted'
    <3>1. text \in Seq(LineType)
      BY <1>1 DEF PrinterTyped
    <3>2. IsPrefix(text', text \o lines) /\ text' \in Seq(LineType) /\ text \o lines \in Seq(LineType)
      BY <2>1, <2>2, <2>4, <3>1, CutPrefix, Joined
    <3>3. PICK r : GoesOn(p, n, r)
      BY <1>1, <1>3, Continues
    <3>4. r \in Seq(LineType) /\ Wanted = (text \o lines) \o r /\ Wanted \in Seq(LineType)
      BY <1>1, <2>3, <3>3, UptoSteps DEF GoesOn
    <3>5. IsPrefix(text', Wanted)
      BY <3>2, <3>4, PrefixJoined
    <3>6. Ordered(Wanted) = Wanted
      BY <1>1, <3>4, OrderedIs
    <3>7. Prefixed(text')
      BY <3>5, <3>6 DEF Prefixed
    <3>8. answer' # "ok"
      BY <1>2, <2>1 DEF OnWriteError
    <3> QED
      BY <1>2, <3>7, <3>8, PrintsKept
  <2>7. ASSUME answer' = "running", ~failed' PROVE Holding'
    <3>1. Fits(lines)
      BY <2>1, <2>7 DEF OnWriteError
    <3>2. text' = Upto(p)
      BY <2>1, <2>3, <2>4, <3>1
    <3>3. Upto(nextChange - 1)' = Upto(p)
      BY <1>2, WantedStays DEF Upto
    <3> QED
      BY <1>1, <1>2, <3>2, <3>3 DEF Holding, Same
  <2> QED
    BY <1>5, <2>5, <2>6, <2>7 DEF PInv
<1> QED
  BY <1>6, <1>7

(* Lines held back at time t.                                              *)
At(t, b) == [k \in DOMAIN b |-> << t, b[k][1], b[k][2] >>]

(* The lines of a change join those held back at its time.                 *)
LEMMA HeldOfChange ==
    ASSUME PrinterTyped, nextChange \in 1 .. Len(changes), NEW b \in Seq(Nat \X Values)
    PROVE  /\ Held(Change, b) \in Seq(Nat \X Values)
           /\ At(Change.time, Held(Change, b))
                = At(Change.time, b) \o IF Selected(Change) THEN LinesOf(Change) ELSE <<>>
<1> DEFINE t == Change.time
           v == Change.value
           m == Len(b)
           X == Nat \X Values
           atb == [k \in 1 .. m |-> << t, b[k][1], b[k][2] >>]
<1>1. t \in Nat /\ v \in Values
  BY StreamTyped DEF Change
<1>2. m \in Nat /\ DOMAIN b = 1 .. m /\ \A k \in 1 .. m : b[k] \in X /\ b[k][1] \in Nat /\ b[k][2] \in Values
  OBVIOUS
<1> HIDE DEF t, v
<1>3. At(t, b) = atb
  BY <1>2 DEF At
<1>4. atb \in Seq(LineType) /\ Len(atb) = m
  <2>1. \A k \in 1 .. m : << t, b[k][1], b[k][2] >> \in LineType
    BY <1>1, <1>2 DEF LineType
  <2> QED
    BY <1>2, <2>1
<1>5. CASE ~Selected(Change)
  <2>1. Held(Change, b) = b
    BY <1>5 DEF Held
  <2>2. atb \o <<>> = atb
    BY <1>4
  <2> QED
    BY <1>3, <1>5, <2>1, <2>2 DEF t
<1>6. CASE Selected(Change)
  <2> DEFINE names == Names[Change.handle]
             l == Len(names)
             added == [k \in 1 .. l |-> << names[k], v >>]
             lines == [k \in 1 .. l |-> << t, names[k], v >>]
             both == b \o added
  <2>1. l \in Nat /\ DOMAIN names = 1 .. l /\ \A k \in 1 .. l : names[k] \in Nat
    <3>1. names \in Seq(Nat)
      BY <1>6, PrintAssumption DEF Selected
    <3> QED
      BY <3>1
  <2>2. Held(Change, b) = both
    BY <1>6, <2>1 DEF Held, v
  <2>3. LinesOf(Change) = lines
    BY <2>1 DEF LinesOf, t, v
  <2> HIDE DEF names, l
  <2>4. /\ added \in Seq(X) /\ Len(added) = l
        /\ \A k \in 1 .. l : added[k] = << names[k], v >>
    <3>1. \A k \in 1 .. l : << names[k], v >> \in X
      BY <1>1, <2>1
    <3> HIDE DEF X
    <3> QED
      BY <2>1, <3>1
  <2>5. /\ lines \in Seq(LineType) /\ Len(lines) = l
        /\ \A k \in 1 .. l : lines[k] = << t, names[k], v >>
    <3>1. \A k \in 1 .. l : << t, names[k], v >> \in LineType
      BY <1>1, <2>1 DEF LineType
    <3> QED
      BY <2>1, <3>1
  <2> HIDE DEF added, lines, both, atb, X, m
  <2>6. /\ both \in Seq(X) /\ DOMAIN both = 1 .. m + l
        /\ \A k \in 1 .. m : both[k] = b[k]
        /\ \A k \in 1 .. l : both[m + k] = added[k]
    <3>1. b \in Seq(X) /\ Len(b) = m
      BY DEF X, m
    <3>2. added \in Seq(X)
      BY <2>4
    <3>3. /\ b \o added \in Seq(X) /\ DOMAIN (b \o added) = 1 .. Len(b) + Len(added)
          /\ \A k \in 1 .. Len(b) : (b \o added)[k] = b[k]
          /\ \A k \in 1 .. Len(added) : (b \o added)[Len(b) + k] = added[k]
      <4>1. b \in Seq(X)
        BY <3>1
      <4> QED
        BY <3>2, <4>1, Joined
    <3> QED
      BY <2>4, <3>1, <3>3 DEF both
  <2>7. /\ atb \o lines \in Seq(LineType) /\ Len(atb \o lines) = m + l
        /\ \A k \in 1 .. m : (atb \o lines)[k] = atb[k]
        /\ \A k \in 1 .. l : (atb \o lines)[m + k] = lines[k]
    <3>1. atb \in Seq(LineType) /\ lines \in Seq(LineType)
      BY <1>4, <2>5
    <3>2. /\ atb \o lines \in Seq(LineType) /\ Len(atb \o lines) = Len(atb) + Len(lines)
          /\ \A k \in 1 .. Len(atb) : (atb \o lines)[k] = atb[k]
          /\ \A k \in 1 .. Len(lines) : (atb \o lines)[Len(atb) + k] = lines[k]
      BY <3>1, Joined
    <3> QED
      BY <1>4, <2>5, <3>2
  <2> DEFINE f == [k \in 1 .. m + l |-> << t, both[k][1], both[k][2] >>]
  <2>8. At(t, both) = f
    BY <2>6 DEF At
  <2>9. ASSUME NEW k \in 1 .. m + l
        PROVE  f[k] = (atb \o lines)[k]
    <3>1. CASE k \in 1 .. m
      <4>1. f[k] = << t, b[k][1], b[k][2] >>
        BY <2>6, <3>1
      <4>2. atb[k] = << t, b[k][1], b[k][2] >>
        BY <3>1 DEF atb
      <4> QED
        BY <2>7, <3>1, <4>1, <4>2
    <3>2. CASE k \notin 1 .. m
      <4>1. k - m \in 1 .. l /\ m + (k - m) = k
        BY <1>2, <2>1, <3>2
      <4>2. both[k] = << names[k - m], v >>
        BY <2>4, <2>6, <4>1
      <4>3. f[k] = << t, names[k - m], v >>
        BY <4>2
      <4>4. (atb \o lines)[k] = << t, names[k - m], v >>
        BY <2>5, <2>7, <4>1
      <4> QED
        BY <4>3, <4>4
    <3> QED
      BY <3>1, <3>2
  <2>10. f = atb \o lines
    <3>1. m + l \in Nat
      BY <1>2, <2>1
    <3>2. \A k \in 1 .. m + l : (atb \o lines)[k] \in LineType
      BY <2>7, <3>1
    <3>3. \A k \in 1 .. m + l : f[k] \in LineType
      BY <2>9, <3>2
    <3>4. f \in Seq(LineType) /\ Len(f) = m + l
      BY <3>1, <3>3, SMTT(30)
    <3> HIDE DEF f
    <3> QED
      BY <2>7, <2>9, <3>4, SameElements
  <2> QED
    BY <1>3, <1>6, <2>2, <2>3, <2>6, <2>8, <2>10 DEF t, X
<1> QED
  BY <1>5, <1>6

(* What a flush writes, with r the lines still to come.                    *)
AllPast(r) == InTimeOrder => \A j \in 1 .. Len(r) : current < r[j][1]

(* A flush writes the lines held back, sorted, after all that come before  *)
(* them in time; what fits is a first part of what is wanted.              *)
LEMMA FlushExact ==
    ASSUME PrinterTyped, sort, current \in Nat, NEW g, WroteOf(g), nextChange - 1 \in 0 .. Len(changes),
           NEW r, GoesOn(nextChange - 1, Len(changes), r), AllPast(r)
    PROVE  /\ HeldLines \in Seq(LineType) /\ LinesHeld \in Seq(LineType)
           /\ g \in Seq(LineType) /\ g \o LinesHeld \in Seq(LineType)
           /\ Upto(nextChange - 1) = g \o LinesHeld
           /\ Prefixed(Printed(HeldLines))
           /\ Fits(HeldLines) => /\ \A x : Times(x, Printed(HeldLines)) = Times(x, g \o LinesHeld)
                                 /\ InTimeOrder => Printed(HeldLines) = Sorted(g \o LinesHeld)
           /\ InTimeOrder => \A i \in 1 .. Len(g \o LinesHeld) : (g \o LinesHeld)[i][1] <= current
<1> DEFINE h == LinesHeld
           b == HeldLines
           c == Room(b)
<1>1. /\ h \in Seq(LineType) /\ Len(h) \in Nat
      /\ \A k \in 1 .. Len(h) : h[k][1] = current
  BY LinesHeldTyped
<1>2. b = Sorted(h)
  BY HeldSorted
<1>3. b \in Seq(LineType) /\ Len(b) = Len(h) /\ \A x : Times(x, b) = Times(x, h)
  BY <1>1, <1>2, SortedKeeps
<1>4. /\ g \in Seq(LineType) /\ Upto(nextChange - 1) = g \o h
      /\ \A x : Times(x, text) = Times(x, g)
      /\ InTimeOrder => text = Sorted(g) /\ \A i \in 1 .. Len(g) : g[i][1] < current
  BY DEF WroteOf
<1>5. r \in Seq(LineType) /\ Wanted = (g \o h) \o r
  BY <1>4, UptoSteps DEF GoesOn
<1> HIDE DEF h, b
<1>6. /\ g \o h \in Seq(LineType) /\ Len(g \o h) = Len(g) + Len(h)
      /\ \A i \in 1 .. Len(g) : (g \o h)[i] = g[i]
      /\ \A i \in 1 .. Len(h) : (g \o h)[Len(g) + i] = h[i]
  BY <1>1, <1>4, Joined
<1>7. /\ c \in Int /\ c <= Len(b) /\ Printed(b) = text \o SubSeq(b, 1, c)
      /\ Fits(b) => Printed(b) = text \o b
  BY <1>3, RoomLimits
<1> HIDE DEF c
<1>8. text \in Seq(LineType)
  BY DEF PrinterTyped
<1>9. InTimeOrder => \A i \in 1 .. Len(g), j \in 1 .. Len(h) : g[i][1] < h[j][1]
  BY <1>1, <1>4
<1>10. ASSUME InTimeOrder, NEW i \in 1 .. Len(g \o h) PROVE (g \o h)[i][1] <= current
  <2>1. Len(g) \in Nat /\ Len(h) \in Nat
    BY <1>1, <1>4
  <2>2. CASE i \in 1 .. Len(g)
    <3>1. g[i][1] < current /\ g[i][1] \in Nat
      BY <1>4, <1>10, <2>2, LineParts
    <3>2. g[i][1] <= current
      BY <3>1
    <3> QED
      BY <1>6, <2>2, <3>2
  <2>3. CASE i \notin 1 .. Len(g)
    <3>1. i - Len(g) \in 1 .. Len(h) /\ Len(g) + (i - Len(g)) = i
      BY <1>6, <2>1, <2>3
    <3>2. (g \o h)[i][1] = current
      BY <1>1, <1>6, <3>1
    <3> QED
      BY <3>2
  <2> QED
    BY <2>2, <2>3
<1>11. Prefixed(Printed(b))
  <2>1. SUFFICES ASSUME InTimeOrder PROVE IsPrefix(Printed(b), Ordered(Wanted))
    BY DEF Prefixed
  <2>2. \A i \in 1 .. Len(g), j \in 1 .. Len(h) : g[i][1] < h[j][1]
    BY <1>9, <2>1
  <2>3. ASSUME NEW i \in 1 .. Len(g \o h), NEW j \in 1 .. Len(r) PROVE (g \o h)[i][1] < r[j][1]
    <3>1. (g \o h)[i][1] <= current /\ current < r[j][1]
      BY <1>10, <2>1 DEF AllPast
    <3>2. (g \o h)[i][1] \in Nat /\ r[j][1] \in Nat /\ current \in Nat
      BY <1>5, <1>6, LineParts
    <3> QED
      BY <3>1, <3>2, SMTT(30)
  <2>4. c <= Len(h)
    BY <1>3, <1>7
  <2>5. IsPrefix(Sorted(g) \o SubSeq(Sorted(h), 1, c), Sorted((g \o h) \o r))
    BY <1>1, <1>4, <1>5, <1>7, <2>2, <2>3, <2>4, Flushing
  <2>6. (g \o h) \o r \in Seq(LineType)
    BY <1>5, <1>6
  <2>7. Ordered(Wanted) = Sorted((g \o h) \o r)
    BY <1>5, <2>6, OrderedIs
  <2> QED
    BY <1>2, <1>4, <1>7, <2>1, <2>5, <2>7
<1>12. ASSUME Fits(b), NEW x PROVE Times(x, Printed(b)) = Times(x, g \o h)
  <2>1. Times(x, text \o b) = Times(x, text) + Times(x, b)
    BY <1>3, <1>8, TimesJoined
  <2>2. Times(x, g \o h) = Times(x, g) + Times(x, h)
    BY <1>1, <1>4, TimesJoined
  <2> QED
    BY <1>3, <1>4, <1>7, <1>12, <2>1, <2>2
<1>13. ASSUME Fits(b), InTimeOrder PROVE Printed(b) = Sorted(g \o h)
  <2>1. \A i \in 1 .. Len(g), j \in 1 .. Len(h) : g[i][1] < h[j][1]
    BY <1>9, <1>13
  <2>2. Sorted(g \o h) = Sorted(g) \o Sorted(h)
    BY <1>1, <1>4, <2>1, SortedJoined
  <2> QED
    BY <1>2, <1>4, <1>7, <1>13, <2>2
<1> QED
  BY <1>1, <1>3, <1>4, <1>6, <1>10, <1>11, <1>12, <1>13 DEF h, b

(* A change is held back after what is held, or after what was flushed.    *)
LEMMA NowHeld ==
    ASSUME PrinterTyped, Take, sort, NEW g \in Seq(LineType), NEW b \in Seq(Nat \X Values),
           current' = Change.time, batch' = Held(Change, b),
           Upto(nextChange) = (g \o At(Change.time, b))
                                \o IF Selected(Change) THEN LinesOf(Change) ELSE <<>>,
           \A x : Times(x, text') = Times(x, g),
           InTimeOrder => text' = Sorted(g) /\ \A i \in 1 .. Len(g) : g[i][1] < Change.time
    PROVE  Holding' /\ batch' \in Seq(Nat \X Values) /\ current' \in Nat
<1> DEFINE p == nextChange
           t == Change.time
           a == At(t, b)
           lines == IF Selected(Change) THEN LinesOf(Change) ELSE <<>>
<1>1. /\ Same /\ p \in 1 .. Len(changes) /\ nextChange' - 1 = p
  BY TakenTyped
<1>2. t \in Nat
  BY <1>1, StreamTyped DEF Change
<1>3. Held(Change, b) \in Seq(Nat \X Values) /\ At(t, Held(Change, b)) = a \o lines
  BY <1>1, HeldOfChange
<1>4. lines \in Seq(LineType)
  <2>1. Selected(Change) => LinesOf(Change) \in Seq(LineType)
    BY <1>1, StreamTyped DEF Change
  <2>2. <<>> \in Seq(LineType)
    OBVIOUS
  <2> QED
    BY <2>1, <2>2
<1>5. a \in Seq(LineType)
  <2> DEFINE m == Len(b)
  <2>1. m \in Nat /\ DOMAIN b = 1 .. m /\ \A k \in 1 .. m : b[k][1] \in Nat /\ b[k][2] \in Values
    OBVIOUS
  <2> HIDE DEF t
  <2>2. \A k \in 1 .. m : << t, b[k][1], b[k][2] >> \in LineType
    BY <1>2, <2>1 DEF LineType
  <2>3. a = [k \in 1 .. m |-> << t, b[k][1], b[k][2] >>]
    BY <2>1 DEF At
  <2> QED
    BY <2>1, <2>2, <2>3
<1>6. LinesHeld' = a \o lines
  <2>1. LinesHeld' = At(t, Held(Change, b))
    BY DEF LinesHeld, At
  <2> QED
    BY <1>3, <2>1
<1>7. Upto(p) = g \o (a \o lines)
  <2> HIDE DEF a, lines
  <2>1. (g \o a) \o lines = g \o (a \o lines)
    BY <1>4, <1>5, JoinedThrice
  <2> QED
    BY <2>1 DEF a, lines
<1>8. Upto(nextChange - 1)' = Upto(p) /\ InTimeOrder' = InTimeOrder
  BY <1>1, WantedStays DEF Upto
<1>9. current' # Nil
  BY <1>2, PrintAssumption
<1>10. WroteOf(g)'
  <2>1. Upto(nextChange - 1)' = g \o LinesHeld'
    BY <1>6, <1>7, <1>8
  <2>2. InTimeOrder' => text' = Sorted(g) /\ \A i \in 1 .. Len(g) : current' # Nil /\ g[i][1] < current'
    BY <1>8, <1>9
  <2> QED
    BY <2>1, <2>2 DEF WroteOf
<1>11. \E i \in 1 .. nextChange' - 1 : current' = changes'[i].time
  <2>1. p \in 1 .. nextChange' - 1
    BY <1>1
  <2>2. current' = changes'[p].time
    BY <1>1 DEF Same, Change
  <2> QED
    BY <2>1, <2>2
<1>12. sort'
  BY <1>1 DEF Same
<1> QED
  BY <1>2, <1>3, <1>9, <1>10, <1>11, <1>12 DEF Holding

(* With sorting, lines are held back until their time is over.             *)
LEMMA SortedKept == ASSUME PInv, PrintSorted PROVE PInv'
<1> DEFINE n == Len(changes)
           p == nextChange
           t == Change.time
           lines == IF Selected(Change) THEN LinesOf(Change) ELSE <<>>
<1>1. /\ PrinterTyped /\ NotPast /\ PrintsWanted /\ Take /\ sort /\ ~failed /\ InWindow(Change)
  BY DEF PInv, PrintSorted
<1>2. /\ Same /\ p \in 1 .. n /\ nextChange' \in 1 .. n + 1 /\ nextChange' - 1 = p
      /\ nextChange' \in Nat /\ p <= nextChange' /\ answer = "running"
  BY <1>1, TakenTyped
<1>3. p - 1 \in 0 .. n /\ p \in 0 .. n /\ p <= n /\ n \in Nat
  BY <1>1, <1>2, StreamTyped
<1>4. Holding
  BY <1>1, <1>2 DEF PInv
<1>5. NotPast'
  BY <1>1, StillNotPast DEF InWindow
<1>6. CASE ~TimeSeen(Change)
  <2>1. UNCHANGED << current, batch, text, failed, answer >>
    BY <1>6 DEF PrintSorted
  <2>2. PrinterTyped'
    BY <1>1, <1>2, <2>1 DEF PrinterTyped, Same
  <2>3. Upto(p) = Upto(p - 1)
    BY <1>1, <1>3, <1>6, NothingAdded DEF TimeSeen
  <2>4. Holding'
    BY <1>1, <1>2, <1>4, <2>1, <2>3, HoldingStays
  <2>5. PrintsWanted'
    BY <1>1, <1>2, <2>1, WritesNothing
  <2> QED
    BY <1>5, <2>2, <2>4, <2>5 DEF PInv
<1>7. PICK g : WroteOf(g)
  BY <1>1, <1>4 DEF Holding
<1>8. Upto(p) = Upto(p - 1) \o lines
  BY <1>1, <1>3, NextPart
<1>9. t \in Nat /\ batch \in Seq(Nat \X Values) /\ text \in Seq(LineType)
  BY <1>1, <1>2, StreamTyped DEF PrinterTyped, Change
<1>10. CASE TimeSeen(Change) /\ ~Due(Change)
  <2>1. /\ current' = t /\ batch' = Held(Change, batch)
        /\ UNCHANGED << text, failed, answer >>
    BY <1>10 DEF PrintSorted
  <2>2. current = Nil \/ current = t
    BY <1>1, <1>10 DEF Due
  <2>3. LinesHeld = At(t, batch)
    <3>1. CASE current = t
      BY <3>1 DEF LinesHeld, At
    <3>2. CASE current = Nil
      <4>1. DOMAIN batch = {}
        BY <1>4, <1>1, <3>2 DEF Holding
      <4> QED
        BY <4>1 DEF LinesHeld, At
    <3> QED
      BY <2>2, <3>1, <3>2
  <2>4. /\ g \in Seq(LineType) /\ Upto(p - 1) = g \o At(t, batch)
        /\ \A x : Times(x, text) = Times(x, g)
        /\ InTimeOrder => text = Sorted(g) /\ \A i \in 1 .. Len(g) : current # Nil /\ g[i][1] < current
    BY <1>7, <2>3 DEF WroteOf
  <2>5. InTimeOrder => text' = Sorted(g) /\ \A i \in 1 .. Len(g) : g[i][1] < t
    BY <2>1, <2>2, <2>4
  <2>6. Upto(p) = (g \o At(t, batch)) \o lines
    BY <1>8, <2>4
  <2>7. \A x : Times(x, text') = Times(x, g)
    BY <2>1, <2>4
  <2>8. Holding' /\ batch' \in Seq(Nat \X Values) /\ current' \in Nat
    BY <1>1, <1>9, <2>1, <2>4, <2>5, <2>6, <2>7, NowHeld
  <2>9. PrinterTyped'
    BY <1>1, <1>2, <2>1, <2>8 DEF PrinterTyped, Same
  <2>10. PrintsWanted'
    BY <1>1, <1>2, <2>1, WritesNothing
  <2> QED
    BY <1>5, <2>8, <2>9, <2>10 DEF PInv
<1>11. CASE TimeSeen(Change) /\ Due(Change)
  <2> DEFINE h == LinesHeld
             u == g \o h
  <2>1. /\ text' = Printed(HeldLines)
        /\ Fits(HeldLines) => current' = t /\ batch' = Held(Change, <<>>) /\ UNCHANGED << failed, answer >>
        /\ ~Fits(HeldLines) => batch' = <<>> /\ OnWriteError /\ UNCHANGED current
    BY <1>11 DEF PrintSorted
  <2>2. current # Nil /\ current # t
    BY <1>11 DEF Due
  <2>3. current \in Nat
    BY <1>1, <2>2 DEF PrinterTyped
  <2>4. PICK i \in 1 .. p - 1 : current = changes[i].time
    BY <1>1, <1>4, <2>2 DEF Holding
  <2>5. InTimeOrder => /\ current < t
                       /\ \A j \in p .. n : t <= changes[j].time
    <3> SUFFICES ASSUME InTimeOrder
                 PROVE  current < t /\ \A j \in p .. n : t <= changes[j].time
      OBVIOUS
    <3>1. /\ DOMAIN changes = 1 .. n /\ i \in 1 .. n /\ i < p /\ p \in 1 .. n
          /\ \A j \in 1 .. n : changes[j].time \in Nat
      BY <1>1, <1>2, <2>4, StreamTyped
    <3>2. changes[i].time <= changes[p].time
      BY <3>1 DEF InTimeOrder
    <3>3. current < t
      BY <2>2, <2>3, <2>4, <1>9, <3>2 DEF Change
    <3>4. ASSUME NEW j \in p .. n PROVE t <= changes[j].time
      <4>1. CASE j = p
        BY <1>9, <4>1 DEF Change
      <4>2. CASE j # p
        <5>1. j \in 1 .. n /\ p < j
          BY <1>2, <4>2
        <5> QED
          BY <3>1, <5>1 DEF InTimeOrder, Change
      <4> QED
        BY <4>1, <4>2
    <3> QED
      BY <3>3, <3>4
  <2>6. PICK r : GoesOn(p - 1, n, r)
    BY <1>1, <1>3, Continues
  <2>7. AllPast(r)
    <3> SUFFICES ASSUME InTimeOrder, NEW j \in 1 .. Len(r) PROVE current < r[j][1]
      BY DEF AllPast
    <3>1. PICK k \in (p - 1) + 1 .. n : r[j][1] = changes[k].time
      BY <2>6 DEF GoesOn
    <3>2. k \in p .. n /\ k \in 1 .. n
      BY <1>2
    <3>3. current < t /\ t <= changes[k].time /\ changes[k].time \in Nat
      BY <1>1, <2>5, <3>2, StreamTyped
    <3> QED
      BY <1>9, <2>3, <3>1, <3>3
  <2>8. /\ HeldLines \in Seq(LineType) /\ h \in Seq(LineType)
        /\ g \in Seq(LineType) /\ u \in Seq(LineType) /\ Upto(p - 1) = u
        /\ Prefixed(Printed(HeldLines))
        /\ Fits(HeldLines) => /\ \A x : Times(x, Printed(HeldLines)) = Times(x, u)
                              /\ InTimeOrder => Printed(HeldLines) = Sorted(u)
        /\ InTimeOrder => \A k \in 1 .. Len(u) : u[k][1] <= current
    BY <1>1, <1>3, <1>7, <2>3, <2>6, <2>7, FlushExact
  <2> HIDE DEF u, h
  <2>9. Printed(HeldLines) \in Seq(LineType)
    BY <1>1, <2>8, RoomLimits
  <2>10. answer' # "ok"
    BY <1>2, <2>1 DEF OnWriteError
  <2>11. PrintsWanted'
    BY <1>2, <2>1, <2>8, <2>10, PrintsKept
  <2>12. CASE Fits(HeldLines)
    <3>1. /\ <<>> \in Seq(Nat \X Values) /\ u \o At(t, <<>>) = u
      <4>1. At(t, <<>>) = <<>>
        BY DEF At
      <4> QED
        BY <2>8, <4>1
    <3>2. Upto(p) = (u \o At(t, <<>>)) \o lines
      BY <1>8, <2>8, <3>1
    <3>3. ASSUME InTimeOrder
          PROVE  text' = Sorted(u) /\ \A k \in 1 .. Len(u) : u[k][1] < t
      <4>1. text' = Sorted(u)
        BY <2>1, <2>8, <2>12, <3>3
      <4>2. ASSUME NEW k \in 1 .. Len(u) PROVE u[k][1] < t
        <5>1. u[k][1] <= current /\ current < t
          BY <2>5, <2>8, <3>3
        <5>2. u[k][1] \in Nat
          BY <2>8, LineParts
        <5> QED
          BY <1>9, <2>3, <5>1, <5>2
      <4> QED
        BY <4>1, <4>2
    <3>4. \A x : Times(x, text') = Times(x, u)
      BY <2>1, <2>8, <2>12
    <3>5. current' = t /\ batch' = Held(Change, <<>>) /\ UNCHANGED << failed, answer >>
      BY <2>1, <2>12
    <3>6. Holding' /\ batch' \in Seq(Nat \X Values) /\ current' \in Nat
      BY <1>1, <2>8, <3>1, <3>2, <3>3, <3>4, <3>5, NowHeld
    <3>7. PrinterTyped'
      BY <1>1, <1>2, <2>1, <2>9, <3>5, <3>6 DEF PrinterTyped, Same
    <3> QED
      BY <1>5, <2>11, <3>6, <3>7 DEF PInv
  <2>13. CASE ~Fits(HeldLines)
    <3>1. batch' = <<>> /\ current' = current /\ OnWriteError
      BY <2>1, <2>13
    <3>2. <<>> \in Seq(Nat \X Values)
      OBVIOUS
    <3>3. /\ failed' \in BOOLEAN /\ (failed' => printer = "fst")
          /\ answer' \in {"running", "ok", "error"} /\ (failed' \/ answer' = "error")
      BY <1>1, <3>1 DEF OnWriteError, PrinterTyped
    <3>4. PrinterTyped'
      BY <1>1, <1>2, <2>1, <2>9, <3>1, <3>2, <3>3 DEF PrinterTyped, Same
    <3> QED
      BY <1>5, <2>11, <3>3, <3>4 DEF PInv
  <2> QED
    BY <2>12, <2>13
<1> QED
  BY <1>6, <1>10, <1>11

(* At the end the last lines are written, and nothing is left.             *)
LEMMA FinishKept == ASSUME PInv, Finish PROVE PInv'
<1> DEFINE n == Len(changes)
           p == nextChange
           lines == LastLines
<1>1. /\ PrinterTyped /\ NotPast /\ PrintsWanted /\ Same /\ answer = "running" /\ p > n
      /\ UNCHANGED << nextChange, current, failed >>
  BY DEF PInv, Finish, Same
<1>2. n \in Nat /\ p - 1 \in 0 .. n /\ p - 1 = n
  <2>1. n \in Nat /\ p \in 1 .. n + 1
    BY <1>1, StreamTyped DEF PrinterTyped
  <2> HIDE DEF n
  <2> QED
    BY <1>1, <2>1
<1>3. NotPast'
  BY <1>1 DEF NotPast, Same
<1>4. CASE failed
  <2>1. answer' = "error" /\ UNCHANGED << text, batch >>
    BY <1>4 DEF Finish
  <2>2. PrinterTyped'
    BY <1>1, <2>1 DEF PrinterTyped, Same
  <2>3. PrintsWanted'
    BY <1>1, <2>1, WritesNothing
  <2> QED
    BY <1>3, <2>1, <2>2, <2>3 DEF PInv
<1>5. CASE ~failed
  <2>1. /\ text' = Printed(lines) /\ batch' = <<>>
        /\ answer' = IF Fits(lines) THEN "ok" ELSE "error"
    BY <1>5 DEF Finish
  <2>2. Holding
    BY <1>1, <1>5 DEF PInv
  <2>3. text \in Seq(LineType)
    BY <1>1 DEF PrinterTyped
  <2>4. Upto(p - 1) = Wanted /\ Wanted \in Seq(LineType)
    BY <1>1, <1>2, UptoSteps
  <2>5. lines \in Seq(LineType) /\ Prefixed(Printed(lines)) /\ (Fits(lines) => Complete(Printed(lines)))
    <3>1. CASE ~(sort /\ current # Nil)
      <4>1. lines = <<>> /\ <<>> \in Seq(LineType)
        BY <3>1 DEF LastLines
      <4>2. Printed(lines) = text
        <5>1. SubSeq(<<>>, 1, Room(<<>>)) = <<>>
          <6>1. /\ Room(<<>>) \in Int /\ Room(<<>>) <= Len(<<>>) /\ <<>> \in Seq(LineType)
            BY <1>1, <4>1, RoomLimits
          <6>2. Len(<<>>) = 0
            OBVIOUS
          <6>3. ~(1 <= Room(<<>>))
            BY <6>1, <6>2
          <6> QED
            BY <6>1, <6>2, <6>3
        <5>2. Printed(<<>>) = text \o SubSeq(<<>>, 1, Room(<<>>))
          BY <1>1, <4>1, RoomLimits
        <5>3. text \o <<>> = text
          BY <2>3
        <5> QED
          BY <4>1, <5>1, <5>2, <5>3
      <4>3. Complete(text)
        <5>1. CASE ~sort
          <6>1. text = Wanted
            BY <2>2, <2>4, <5>1 DEF Holding
          <6>2. Ordered(Wanted) = Wanted
            BY <1>1, <2>4, <5>1, OrderedIs
          <6> QED
            BY <6>1, <6>2 DEF Complete
        <5>2. CASE sort
          <6>1. PICK g : WroteOf(g)
            BY <2>2, <5>2 DEF Holding
          <6>2. LinesHeld = <<>>
            BY <2>2, <3>1, <5>2 DEF Holding, LinesHeld
          <6>3. Wanted = g
            BY <2>4, <6>1, <6>2 DEF WroteOf
          <6>4. Ordered(Wanted) = Sorted(Wanted)
            BY <1>1, <2>4, <5>2, OrderedIs
          <6> QED
            BY <6>1, <6>3, <6>4 DEF WroteOf, Complete
        <5> QED
          BY <5>1, <5>2
      <4>4. Prefixed(text)
        BY <1>1 DEF PrintsWanted, Prefixed
      <4> QED
        BY <4>1, <4>2, <4>3, <4>4
    <3>2. CASE sort /\ current # Nil
      <4>1. lines = HeldLines /\ current \in Nat
        BY <1>1, <3>2 DEF LastLines, PrinterTyped
      <4>2. PICK g : WroteOf(g)
        BY <2>2, <3>2 DEF Holding
      <4>3. PICK r : GoesOn(p - 1, n, r)
        BY <1>1, <1>2, Continues
      <4>4. AllPast(r)
        <5>1. \A j \in 1 .. Len(r) : \E i \in (p - 1) + 1 .. n : TRUE
          BY <4>3 DEF GoesOn
        <5>2. \A i : i \notin (p - 1) + 1 .. n
          BY <1>2
        <5> QED
          BY <5>1, <5>2 DEF AllPast
      <4>5. /\ HeldLines \in Seq(LineType) /\ Upto(p - 1) = g \o LinesHeld
            /\ Prefixed(Printed(HeldLines))
            /\ Fits(HeldLines) => /\ \A x : Times(x, Printed(HeldLines)) = Times(x, g \o LinesHeld)
                                  /\ InTimeOrder => Printed(HeldLines) = Sorted(g \o LinesHeld)
        BY <1>1, <1>2, <3>2, <4>1, <4>2, <4>3, <4>4, FlushExact
      <4>6. Ordered(Wanted) = Sorted(Wanted)
        BY <1>1, <2>4, <3>2, OrderedIs
      <4>7. Fits(HeldLines) => Complete(Printed(HeldLines))
        BY <2>4, <4>5, <4>6 DEF Complete
      <4> QED
        BY <4>1, <4>5, <4>7
    <3> QED
      BY <3>1, <3>2
  <2> HIDE DEF lines
  <2>6. Printed(lines) \in Seq(LineType)
    BY <1>1, <2>5, RoomLimits
  <2>7. <<>> \in Seq(Nat \X Values)
    OBVIOUS
  <2>8. answer' \in {"running", "ok", "error"} /\ answer' # "running"
    BY <2>1
  <2>9. PrinterTyped'
    BY <1>1, <2>1, <2>6, <2>7, <2>8 DEF PrinterTyped, Same
  <2>10. answer' = "ok" => Complete(text')
    BY <2>1, <2>5
  <2>11. Prefixed(text')
    BY <2>1, <2>5
  <2>12. PrintsWanted'
    BY <1>1, <2>10, <2>11, PrintsKept
  <2> QED
    BY <1>3, <2>8, <2>9, <2>12 DEF PInv
<1> QED
  BY <1>4, <1>5

(* At the start nothing is wanted of no change.                            *)
LEMMA PrintStarts == ASSUME PrintInit PROVE PInv
<1> DEFINE n == Len(changes)
<1>1. /\ nextChange = 1 /\ current = Nil /\ batch = <<>> /\ text = <<>>
      /\ failed = FALSE /\ answer = "running" /\ printer \in Printers /\ sort \in BOOLEAN
      /\ changes \in Changes /\ Possible(printer, changes) /\ room \in 0 .. MaxLines
  BY DEF PrintInit
<1>2. PrinterTyped
  <2>1. changes \in Seq(ToSet(changes))
    BY <1>1, PrintAssumption
  <2>2. n \in Nat
    BY <2>1
  <2>3. 1 \in 1 .. n + 1
    BY <2>2
  <2>4. room \in Nat
    BY <1>1, LinesBound
  <2>5. <<>> \in Seq(Nat \X Values) /\ <<>> \in Seq(LineType)
    OBVIOUS
  <2> QED
    BY <1>1, <2>3, <2>4, <2>5 DEF PrinterTyped
<1>3. NotPast
  BY <1>1 DEF NotPast
<1>4. Upto(nextChange - 1) = <<>>
  <2>1. nextChange - 1 = 0
    BY <1>1
  <2> QED
    BY <1>2, <2>1, UptoSteps
<1>5. LinesHeld = <<>> /\ Sorted(<<>>) = <<>>
  BY <1>1 DEF LinesHeld, Sorted
<1>6. WroteOf(<<>>)
  <2>1. <<>> \in Seq(LineType) /\ <<>> \o <<>> = <<>>
    OBVIOUS
  <2>2. \A i : i \notin 1 .. Len(<<>>)
    OBVIOUS
  <2> QED
    BY <1>1, <1>4, <1>5, <2>1, <2>2 DEF WroteOf
<1>7. Holding
  BY <1>1, <1>4, <1>6 DEF Holding
<1>8. PrintsWanted
  <2>1. Wanted \in Seq(LineType)
    BY <1>2, UptoSteps
  <2>2. Ordered(Wanted) \in Seq(LineType)
    BY <1>2, <2>1, OrderedIs, SortedKeeps
  <2>3. IsPrefix(text, Ordered(Wanted))
    <3> DEFINE w == Ordered(Wanted)
    <3>1. w \in Seq(LineType)
      BY <2>2
    <3> HIDE DEF w
    <3>2. Len(w) \in Nat /\ SubSeq(w, 1, 0) = <<>> /\ SubSeq(<<>>, 1, 0) = <<>> /\ Len(<<>>) = 0
      BY <3>1
    <3>3. 0 <= Len(w)
      BY <3>2
    <3>4. IsPrefix(<<>>, w)
      BY <3>2, <3>3 DEF IsPrefix
    <3> QED
      BY <1>1, <3>4 DEF w
  <2> QED
    BY <1>1, <2>3 DEF PrintsWanted
<1> QED
  BY <1>2, <1>3, <1>7, <1>8 DEF PInv

(* All three printers print the lines that are wanted, sorted or not, and a*)
(* first part of them if they fail (cat.rs:54-129, 266-370): of every stream*)
(* and window, with any failure.                                           *)
THEOREM PrintedExactly == PrintSpec => []PrintsWanted
<1>1. PrintInit => PInv
  BY PrintStarts
<1>2. PInv /\ [PrintNext]_printVars => PInv'
  <2> SUFFICES ASSUME PInv, [PrintNext]_printVars PROVE PInv'
    OBVIOUS
  <2>1. CASE UNCHANGED printVars
    <3>1. Same /\ UNCHANGED << nextChange, current, batch, text, failed, answer >>
      BY <2>1 DEF printVars, Same
    <3>2. PrinterTyped' = PrinterTyped /\ NotPast' = NotPast
      BY <3>1 DEF PrinterTyped, NotPast, Same
    <3>3. ASSUME answer = "running", ~failed PROVE Holding'
      <4>1. PrinterTyped /\ Holding /\ nextChange' \in Nat /\ nextChange <= nextChange'
        BY <3>1, <3>3, StreamTyped DEF PInv, PrinterTyped
      <4>2. Upto(nextChange' - 1) = Upto(nextChange - 1)
        BY <3>1
      <4> QED
        BY <3>1, <4>1, <4>2, HoldingStays
    <3>4. PrintsWanted'
      <4>1. Wanted' = Wanted /\ InTimeOrder' = InTimeOrder
        BY <3>1, WantedStays
      <4>2. Ordered(Wanted)' = Ordered(Wanted)
        BY <3>1, <4>1 DEF Same, Ordered, SortedBy
      <4> QED
        BY <3>1, <4>1, <4>2 DEF PrintsWanted, PInv
    <3> QED
      BY <3>1, <3>2, <3>3, <3>4 DEF PInv
  <2> QED
    BY <2>1, SkipKept, StopKept, UnsortedKept, SortedKept, FinishKept, ReadFailKept DEF PrintNext
<1>3. PInv => PrintsWanted
  BY DEF PInv
<1> QED
  BY <1>1, <1>2, <1>3, PTL DEF PrintSpec

-----------------------------------------------------------------------------
(* What the emitter decides about an entry, by its place alone.            *)
PreambleAt(f, p) == \A q \in 1 .. p - 1 : files[f][q].kind \notin {"scope", "var"}

VariableAt(f, p) ==
    IF Owner(files[f], p) = 0 THEN "none"
    ELSE IF IsExported(f, Owner(files[f], p)) THEN "kept" ELSE "dropped"

HoistedAt(f, p) ==
    \/ Len(files) > 1 /\ PreambleAt(f, p) /\ IsAttribute(files[f][p])
    \/ IsDefinition(files[f][p]) /\ VariableAt(f, p) = "dropped"

NoteOfScope(f, p) == files[f][p].kind = "struct" /\ DescribesScope(files[f], p)

DroppedAt(f, p) ==
    /\ IsAttribute(files[f][p]) /\ VariableAt(f, p) = "dropped"
    /\ ~HoistedAt(f, p) /\ ~NoteOfScope(f, p)

KeptAt(f, p) == ~HoistedAt(f, p) /\ ~DroppedAt(f, p) /\ IsExported(f, p)

(* The places of the inputs, those that a pass writes, and those before a  *)
(* place.                                                                  *)
Places == UNION {{<< f, p >> : p \in DOMAIN files[f]} : f \in DOMAIN files}

PlacesIn(ps) ==
    {s \in Places : IF ps = "definitions" THEN HoistedAt(s[1], s[2]) ELSE KeptAt(s[1], s[2])}

Before(S, f, p) == {s \in S : InputOrder(s, << f, p >>)}

(* The commands a..b of the output come from the places P, once each and   *)
(* in the order of the inputs.                                             *)
Exactly(o, a, b, P) ==
    /\ \A q \in a .. b : o[q].from \in P
    /\ \A s \in P : \E q \in a .. b : o[q].from = s
    /\ \A q, r \in a .. b : q < r => InputOrder(o[q].from, o[r].from)

(* The output so far: all that the first pass writes, in front, then what  *)
(* the second pass writes of the entries before the place; or only a part  *)
(* of the first.                                                           *)
Laid(b, ps, o, f, p) ==
    /\ b \in 0 .. Len(o)
    /\ ps = "definitions" => b = 0
    /\ ps = "rest" => Exactly(o, 1, b, PlacesIn("definitions"))
    /\ Exactly(o, b + 1, Len(o), Before(PlacesIn(ps), f, p))

Commands(o) == [q \in DOMAIN o |-> o[q].command]

(* The second pass writes every command in the scopes of its entry, and    *)
(* goes on in those of the next one.                                       *)
ScopesCopied(b, ps, o) ==
    ps = "rest" =>
        \A q \in b + 1 .. Len(o) :
            ScopesAt(Commands(o), q) = ScopesAt(files[o[q].from[1]], o[q].from[2])

ScopesNow(ps, o, f, p) ==
    ScopesAt(Commands(o), Len(o) + 1) = IF ps = "rest" THEN ScopesAt(files[f], p) ELSE <<>>

(* A command is a copy of its entry: of the same kind, with its name, its  *)
(* code moved and its handle renumbered.                                   *)
Renumbered(c, e, f, kinds, known) ==
    e.kind \in kinds => << f, e.handle >> \in DOMAIN known /\ c.handle = known[<< f, e.handle >>]

CopyOf(c, s, m) ==
    LET e == files[s[1]][s[2]]
    IN  /\ c.kind = e.kind
        /\ e.kind \in {"scope", "var"} => c.name = e.name
        /\ e.kind = "var" => c.code = Offset(s[1]) + e.code
        /\ Renumbered(c, e, s[1], {"def", "ref"}, m.enumIds)
        /\ Renumbered(c, e, s[1], {"path", "stem"}, m.pathIds)

(* Handles are numbered from 1 on, no two alike, so their number is free.  *)
Numbering(known) ==
    /\ IsFiniteSet(DOMAIN known)
    /\ \A k \in DOMAIN known : known[k] \in 1 .. Cardinality(DOMAIN known)
    /\ Injective(known)

IsEmitter(m) ==
    /\ m = [scopes |-> m.scopes, preamble |-> m.preamble, variable |-> m.variable,
            enumIds |-> m.enumIds, pathIds |-> m.pathIds]
    /\ m.preamble \in BOOLEAN
    /\ Numbering(m.enumIds) /\ Numbering(m.pathIds)

(* The emitter knows the scopes, the preamble and the variable of the      *)
(* place.                                                                  *)
Catching(m, f, p) ==
    /\ m.scopes = ScopesAt(files[f], p)
    /\ m.preamble <=> PreambleAt(f, p)
    /\ m.variable = VariableAt(f, p)

(* Everything written is a copy of an entry.                               *)
Copies(o, m) ==
    /\ o \in Seq(ToSet(o))
    /\ \A q \in 1 .. Len(o) : o[q].from \in Places /\ CopyOf(o[q].command, o[q].from, m)

(* What is held back: the annotations and comments right before the place. *)
Waits(e) == (IsAttribute(e) /\ e.kind # "close") \/ e.kind = "comment"

HeldAt(f, p, held) ==
    /\ held \in Seq(ToSet(held)) /\ Len(held) < p
    /\ \A k \in 1 .. Len(held) :
         held[k] = p - Len(held) - 1 + k /\ Waits(files[f][held[k]])

HeldBack == HeldAt(file, pos, pending)

(* What has been written up to a place, and what is known there.           *)
Sofar(ps, m, o, f, p) ==
    /\ IsEmitter(m) /\ Copies(o, m)
    /\ \E b \in 0 .. Len(o) : Laid(b, ps, o, f, p) /\ ScopesCopied(b, ps, o)

ProgressIn(ps, m, o, f, p) == Sofar(ps, m, o, f, p) /\ Catching(m, f, p) /\ ScopesNow(ps, o, f, p)

Progress(m, o, f, p) == ProgressIn(pass, m, o, f, p)

(* The invariant: inputs are hierarchies, and while the export runs the    *)
(* output and the emitter are those of the first entry not yet emitted;    *)
(* when it is done, those of the end.                                      *)
FilesOK ==
    /\ files \in Seq(ToSet(files)) /\ files # <<>>
    /\ \A f \in DOMAIN files : IsHierarchy(files[f])

XState(ps, f, p, held, m, o, r) ==
    /\ ps \in {"definitions", "rest"} /\ r \in {"running", "ok", "error"}
    /\ r # "ok" =>
         /\ f \in DOMAIN files /\ p \in 1 .. Len(files[f]) + 1 /\ HeldAt(f, p, held)
         /\ ProgressIn(ps, m, o, f, p - Len(held))
    /\ r = "ok" => ps = "rest" /\ Sofar(ps, m, o, Len(files) + 1, 1)

XInv == FilesOK /\ XState(pass, file, pos, pending, emitter, out, result)

-----------------------------------------------------------------------------
(* Files are sequences of entries.                                         *)
LEMMA FileParts ==
    ASSUME FilesOK, NEW f \in DOMAIN files
    PROVE  /\ Len(files[f]) \in Nat /\ DOMAIN files[f] = 1 .. Len(files[f])
           /\ \A p \in 1 .. Len(files[f]) : IsEntry(files[f][p])
           /\ Len(files) \in Nat /\ DOMAIN files = 1 .. Len(files) /\ f \in 1 .. Len(files)
           /\ Nested(files[f])
<1>1. files[f] \in Seq(ToSet(files[f])) /\ files \in Seq(ToSet(files))
  BY DEF FilesOK, IsHierarchy
<1>2. Nested(files[f]) /\ \A p \in DOMAIN files[f] : IsEntry(files[f][p])
  BY DEF FilesOK, IsHierarchy
<1>3. Len(files[f]) \in Nat /\ DOMAIN files[f] = 1 .. Len(files[f])
  BY <1>1
<1>4. Len(files) \in Nat /\ DOMAIN files = 1 .. Len(files)
  BY <1>1
<1> QED
  BY <1>2, <1>3, <1>4

(* The variable before an entry changes with scopes and variables.         *)
LEMMA OwnerSteps ==
    ASSUME NEW s, NEW n \in Nat, DOMAIN s = 1 .. n, NEW p \in 1 .. n
    PROVE  /\ Owner(s, 1) = 0
           /\ Owner(s, p + 1) = IF s[p].kind = "var" THEN p
                                ELSE IF s[p].kind \in {"scope", "up"} THEN 0
                                ELSE Owner(s, p)
<1> DEFINE K == {"scope", "up", "var"}
           B == {q \in Positions(s, K) : q < p + 1}
           A == {q \in Positions(s, K) : q < p}
<1>1. Owner(s, 1) = 0
  <2>1. {q \in Positions(s, K) : q < 1} = {}
    BY DEF Positions
  <2> QED
    BY <2>1 DEF Owner
<1>2. CASE s[p].kind \in K
  <2>1. p \in B /\ B \in SUBSET (1 .. p)
    BY <1>2 DEF Positions
  <2>2. Max(B) = p
    <3> HIDE DEF B
    <3>1. p - 1 \in Nat /\ (p - 1) + 1 = p
      OBVIOUS
    <3>2. Max(B) = (p - 1) + 1
      BY <2>1, <3>1, MaxUpTo
    <3> QED
      BY <3>1, <3>2
  <2> QED
    BY <1>1, <1>2, <2>1, <2>2 DEF Owner
<1>3. CASE s[p].kind \notin K
  <2>1. A = B
    BY <1>3 DEF Positions
  <2> QED
    BY <1>1, <1>3, <2>1 DEF Owner
<1> QED
  BY <1>2, <1>3

(* What the emitter knows, from one entry to the next.                     *)
LEMMA PlaceSteps ==
    ASSUME FilesOK, NEW f \in DOMAIN files, NEW p \in 1 .. Len(files[f])
    PROVE  /\ VariableAt(f, p + 1) =
                IF files[f][p].kind = "var" THEN IF IsExported(f, p) THEN "kept" ELSE "dropped"
                ELSE IF files[f][p].kind \in {"scope", "up"} THEN "none" ELSE VariableAt(f, p)
           /\ PreambleAt(f, p + 1) <=> PreambleAt(f, p) /\ files[f][p].kind \notin {"scope", "var"}
           /\ ScopesAt(files[f], p + 1) = ScopeStep(files[f][p], ScopesAt(files[f], p))
<1>1. Len(files[f]) \in Nat /\ DOMAIN files[f] = 1 .. Len(files[f])
  BY FileParts
<1>2. Owner(files[f], p + 1) = IF files[f][p].kind = "var" THEN p
                               ELSE IF files[f][p].kind \in {"scope", "up"} THEN 0
                               ELSE Owner(files[f], p)
  BY <1>1, OwnerSteps
<1>3. PreambleAt(f, p + 1) <=> PreambleAt(f, p) /\ files[f][p].kind \notin {"scope", "var"}
  <2>1. \A q : q \in 1 .. (p + 1) - 1 <=> q \in 1 .. p - 1 \/ q = p
    BY <1>1
  <2> QED
    BY <2>1 DEF PreambleAt
<1>4. ScopesAt(files[f], p + 1) = ScopeStep(files[f][p], ScopesAt(files[f], p))
  <2>1. p \in Nat \ {0}
    BY <1>1
  <2> QED
    BY <2>1, ScopesSteps
<1>5. p # 0
  BY <1>1
<1> QED
  BY <1>2, <1>3, <1>4, <1>5 DEF VariableAt

(* At the beginning of a file nothing is known.                            *)
LEMMA PlaceFirst ==
    ASSUME FilesOK, NEW f \in DOMAIN files
    PROVE  VariableAt(f, 1) = "none" /\ PreambleAt(f, 1) /\ ScopesAt(files[f], 1) = <<>>
<1>1. Len(files[f]) \in Nat /\ DOMAIN files[f] = 1 .. Len(files[f])
  BY FileParts
<1>2. Owner(files[f], 1) = 0
  <2>1. {q \in Positions(files[f], {"scope", "up", "var"}) : q < 1} = {}
    BY <1>1 DEF Positions
  <2> QED
    BY <2>1 DEF Owner
<1>3. PreambleAt(f, 1)
  BY DEF PreambleAt
<1>4. ScopesAt(files[f], 1) = <<>>
  BY ScopesSteps
<1> QED
  BY <1>2, <1>3, <1>4 DEF VariableAt

(* The decisions of the emitter are those of the place.                    *)
LEMMA Decides ==
    ASSUME FilesOK, file \in DOMAIN files, NEW p \in 1 .. Len(files[file]), NEW m,
           IsEmitter(m), Catching(m, file, p)
    PROVE  LET e == files[file][p]
           IN  /\ Hoisted(m, e) <=> HoistedAt(file, p)
               /\ \A note : (note <=> NoteOfScope(file, p)) => (Dropped(m, e, note) <=> DroppedAt(file, p))
               /\ e.kind = "var" => (Kept(m, e) <=> IsExported(file, p))
<1> DEFINE e == files[file][p]
<1>1. Hoisted(m, e) <=> HoistedAt(file, p)
  BY DEF Hoisted, HoistedAt, Catching
<1>2. ASSUME NEW note, note <=> NoteOfScope(file, p)
      PROVE  Dropped(m, e, note) <=> DroppedAt(file, p)
  BY <1>1, <1>2 DEF Dropped, DroppedAt, Catching
<1>3. e.kind = "var" => (Kept(m, e) <=> IsExported(file, p))
  BY DEF Kept, IsExported, Catching, ExportedCode, VarPath
<1> QED
  BY <1>1, <1>2, <1>3

(* More is numbered, and what was stays.                                   *)
Extends(new, known) == \A k \in DOMAIN known : k \in DOMAIN new /\ new[k] = known[k]

(* A number for a handle, unless it has one.                               *)
LEMMA NumberedIs ==
    ASSUME NEW known, Numbering(known), NEW handle
    PROVE  /\ Numbering(Numbered(known, handle))
           /\ Extends(Numbered(known, handle), known)
           /\ << file, handle >> \in DOMAIN Numbered(known, handle)
<1> DEFINE n == Cardinality(DOMAIN known)
           key == << file, handle >>
           new == Bind(known, key, n + 1)
<1>1. n \in Nat
  BY FS_CardinalityType DEF Numbering
<1>2. CASE key \in DOMAIN known
  <2>1. Numbered(known, handle) = known
    BY <1>2 DEF Numbered, Key
  <2> QED
    BY <1>2, <2>1 DEF Extends
<1>3. CASE key \notin DOMAIN known
  <2>1. Numbered(known, handle) = new
    BY <1>3 DEF Numbered, Key
  <2>2. /\ DOMAIN new = DOMAIN known \cup {key}
        /\ new[key] = n + 1
        /\ \A k \in DOMAIN known : new[k] = known[k]
    BY <1>3 DEF Bind
  <2>3. IsFiniteSet(DOMAIN known \cup {key}) /\ Cardinality(DOMAIN known \cup {key}) = n + 1
    BY <1>3, FS_AddElement DEF Numbering
  <2> HIDE DEF new, key
  <2>4. \A k \in DOMAIN known : known[k] \in 1 .. n
    BY DEF Numbering, n
  <2>5. \A k \in DOMAIN new : new[k] \in 1 .. n + 1
    BY <1>1, <2>2, <2>4
  <2>6. Injective(known)
    BY DEF Numbering
  <2> HIDE DEF n
  <2>7. Injective(new)
    BY <1>1, <2>2, <2>4, <2>6 DEF Injective
  <2>8. Numbering(new)
    BY <2>2, <2>3, <2>5, <2>7 DEF Numbering
  <2>9. Extends(new, known)
    BY <2>2 DEF Extends
  <2> QED
    BY <2>1, <2>2, <2>8, <2>9 DEF key
<1> QED
  BY <1>2, <1>3

(* The emitter after an entry: it keeps up, and forgets no number.         *)
NextEmitter(m, n, f, p) ==
    /\ IsEmitter(n) /\ Catching(n, f, p + 1)
    /\ Extends(n.enumIds, m.enumIds) /\ Extends(n.pathIds, m.pathIds)
    /\ files[f][p].kind \in {"def", "ref"} => << f, files[f][p].handle >> \in DOMAIN n.enumIds
    /\ files[f][p].kind \in {"path", "stem"} => << f, files[f][p].handle >> \in DOMAIN n.pathIds

(* What the emitter is after an entry of each kind, field by field.        *)
Fields(m, s, pr, v, e, pa) ==
    m = [scopes |-> s, preamble |-> pr, variable |-> v, enumIds |-> e, pathIds |-> pa]

LEMMA AfterFields ==
    ASSUME NEW m, IsEmitter(m), NEW e
    PROVE  /\ e.kind = "scope" =>
                Fields(After(m, e), Append(m.scopes, e.name), FALSE, "none", m.enumIds, m.pathIds)
           /\ e.kind = "up" => Fields(After(m, e), Front(m.scopes), m.preamble, "none", m.enumIds, m.pathIds)
           /\ e.kind = "var" =>
                Fields(After(m, e), m.scopes, FALSE, IF Kept(m, e) THEN "kept" ELSE "dropped",
                       m.enumIds, m.pathIds)
           /\ e.kind \in {"def", "ref"} =>
                Fields(After(m, e), m.scopes, m.preamble, m.variable,
                       Numbered(m.enumIds, e.handle), m.pathIds)
           /\ e.kind \in {"path", "stem"} =>
                Fields(After(m, e), m.scopes, m.preamble, m.variable,
                       m.enumIds, Numbered(m.pathIds, e.handle))
           /\ e.kind \notin {"scope", "up", "var", "def", "ref", "path", "stem"} => After(m, e) = m
<1>1. Fields(m, m.scopes, m.preamble, m.variable, m.enumIds, m.pathIds)
  BY DEF IsEmitter, Fields
<1>2. CASE e.kind = "scope"
  BY <1>1, <1>2 DEF Fields, After
<1>3. CASE e.kind = "up"
  BY <1>1, <1>3 DEF Fields, After
<1>4. CASE e.kind = "var"
  BY <1>1, <1>4 DEF Fields, After
<1>5. CASE e.kind \in {"def", "ref"}
  BY <1>1, <1>5 DEF Fields, After
<1>6. CASE e.kind \in {"path", "stem"}
  BY <1>1, <1>6 DEF Fields, After
<1>7. CASE e.kind \notin {"scope", "up", "var", "def", "ref", "path", "stem"}
  BY <1>7 DEF After
<1> QED
  BY <1>2, <1>3, <1>4, <1>5, <1>6, <1>7

(* After an entry the emitter is the one of the next place.                *)
LEMMA AfterIs ==
    ASSUME FilesOK, file \in DOMAIN files, NEW p \in 1 .. Len(files[file]), NEW m,
           IsEmitter(m), Catching(m, file, p)
    PROVE  NextEmitter(m, After(m, files[file][p]), file, p)
<1> DEFINE e == files[file][p]
           n == After(m, e)
<1>1. /\ VariableAt(file, p + 1) =
            IF e.kind = "var" THEN IF IsExported(file, p) THEN "kept" ELSE "dropped"
            ELSE IF e.kind \in {"scope", "up"} THEN "none" ELSE VariableAt(file, p)
      /\ PreambleAt(file, p + 1) <=> PreambleAt(file, p) /\ e.kind \notin {"scope", "var"}
      /\ ScopesAt(files[file], p + 1) = ScopeStep(e, ScopesAt(files[file], p))
  BY PlaceSteps
<1>2. /\ m.scopes = ScopesAt(files[file], p) /\ m.variable = VariableAt(file, p)
      /\ m.preamble <=> PreambleAt(file, p)
      /\ m.preamble \in BOOLEAN /\ Numbering(m.enumIds) /\ Numbering(m.pathIds)
  BY DEF Catching, IsEmitter
<1>3. e.kind = "up" => m.scopes # <<>>
  <2>1. Nested(files[file]) /\ DOMAIN files[file] = 1 .. Len(files[file])
    BY FileParts
  <2> QED
    BY <1>2, <2>1 DEF Nested, Positions
<1>4. e.kind = "var" => (Kept(m, e) <=> IsExported(file, p))
  BY Decides
<1>5. Extends(m.enumIds, m.enumIds) /\ Extends(m.pathIds, m.pathIds)
  BY DEF Extends
<1> HIDE DEF e
<1>6. CASE e.kind = "scope"
  <2>1. Fields(n, Append(m.scopes, e.name), FALSE, "none", m.enumIds, m.pathIds)
    BY <1>6, AfterFields
  <2> HIDE DEF n
  <2>2. IsEmitter(n)
    BY <1>2, <2>1 DEF Fields, IsEmitter
  <2>3. Catching(n, file, p + 1)
    BY <1>1, <1>2, <1>6, <2>1 DEF Fields, Catching, ScopeStep
  <2> QED
    BY <1>5, <1>6, <2>1, <2>2, <2>3 DEF NextEmitter, Fields, e, n
<1>7. CASE e.kind = "up"
  <2>1. Fields(n, Front(m.scopes), m.preamble, "none", m.enumIds, m.pathIds)
    BY <1>7, AfterFields
  <2> HIDE DEF n
  <2>2. IsEmitter(n)
    BY <1>2, <2>1 DEF Fields, IsEmitter
  <2>3. Catching(n, file, p + 1)
    BY <1>1, <1>2, <1>3, <1>7, <2>1 DEF Fields, Catching, ScopeStep
  <2> QED
    BY <1>5, <1>7, <2>1, <2>2, <2>3 DEF NextEmitter, Fields, e, n
<1>8. CASE e.kind = "var"
  <2>1. Fields(n, m.scopes, FALSE, IF Kept(m, e) THEN "kept" ELSE "dropped", m.enumIds, m.pathIds)
    BY <1>8, AfterFields
  <2> HIDE DEF n
  <2>2. IsEmitter(n)
    BY <1>2, <2>1 DEF Fields, IsEmitter
  <2>3. Catching(n, file, p + 1)
    BY <1>1, <1>2, <1>4, <1>8, <2>1 DEF Fields, Catching, ScopeStep
  <2> QED
    BY <1>5, <1>8, <2>1, <2>2, <2>3 DEF NextEmitter, Fields, e, n
<1>9. CASE e.kind \in {"def", "ref"}
  <2>1. Fields(n, m.scopes, m.preamble, m.variable, Numbered(m.enumIds, e.handle), m.pathIds)
    BY <1>9, AfterFields
  <2>2. /\ Numbering(Numbered(m.enumIds, e.handle))
        /\ Extends(Numbered(m.enumIds, e.handle), m.enumIds)
        /\ << file, e.handle >> \in DOMAIN Numbered(m.enumIds, e.handle)
    BY <1>2, NumberedIs
  <2> HIDE DEF n
  <2>3. IsEmitter(n)
    BY <1>2, <2>1, <2>2 DEF Fields, IsEmitter
  <2>4. Catching(n, file, p + 1)
    BY <1>1, <1>2, <1>9, <2>1 DEF Fields, Catching, ScopeStep
  <2> QED
    BY <1>5, <1>9, <2>1, <2>2, <2>3, <2>4 DEF NextEmitter, Fields, e, n
<1>10. CASE e.kind \in {"path", "stem"}
  <2>1. Fields(n, m.scopes, m.preamble, m.variable, m.enumIds, Numbered(m.pathIds, e.handle))
    BY <1>10, AfterFields
  <2>2. /\ Numbering(Numbered(m.pathIds, e.handle))
        /\ Extends(Numbered(m.pathIds, e.handle), m.pathIds)
        /\ << file, e.handle >> \in DOMAIN Numbered(m.pathIds, e.handle)
    BY <1>2, NumberedIs
  <2> HIDE DEF n
  <2>3. IsEmitter(n)
    BY <1>2, <2>1, <2>2 DEF Fields, IsEmitter
  <2>4. Catching(n, file, p + 1)
    BY <1>1, <1>2, <1>10, <2>1 DEF Fields, Catching, ScopeStep
  <2> QED
    BY <1>5, <1>10, <2>1, <2>2, <2>3, <2>4 DEF NextEmitter, Fields, e, n
<1>11. CASE e.kind \notin {"scope", "up", "var", "def", "ref", "path", "stem"}
  <2>1. n = m
    BY <1>11, AfterFields
  <2> HIDE DEF n
  <2>2. Catching(m, file, p + 1)
    BY <1>1, <1>2, <1>11 DEF Catching, ScopeStep
  <2> QED
    BY <1>5, <1>11, <2>1, <2>2 DEF NextEmitter, e, n
<1> QED
  BY <1>6, <1>7, <1>8, <1>9, <1>10, <1>11 DEF n, e

(* The command that is written is a copy of the entry.                     *)
LEMMA RewrittenIs ==
    ASSUME FilesOK, file \in DOMAIN files, NEW p \in 1 .. Len(files[file]), NEW m, NEW n,
           NextEmitter(m, n, file, p)
    PROVE  CopyOf(Rewritten(n, files[file][p]), << file, p >>, n)
<1> DEFINE e == files[file][p]
           c == Rewritten(n, e)
<1>1. e = [kind |-> e.kind, name |-> e.name, code |-> e.code, handle |-> e.handle]
  BY FileParts DEF IsEntry
<1>2. /\ e.kind \in {"def", "ref"} => << file, e.handle >> \in DOMAIN n.enumIds
      /\ e.kind \in {"path", "stem"} => << file, e.handle >> \in DOMAIN n.pathIds
  BY DEF NextEmitter
<1> HIDE DEF e
<1>3. CASE e.kind = "var"
  BY <1>1, <1>3 DEF CopyOf, Renumbered, Rewritten, ExportedCode, e
<1>4. CASE e.kind \in {"def", "ref"}
  BY <1>1, <1>2, <1>4 DEF CopyOf, Renumbered, Rewritten, Key, e
<1>5. CASE e.kind \in {"path", "stem"}
  BY <1>1, <1>2, <1>5 DEF CopyOf, Renumbered, Rewritten, Key, e
<1>6. CASE e.kind \notin {"var", "def", "ref", "path", "stem"}
  BY <1>6 DEF CopyOf, Renumbered, Rewritten, e
<1> QED
  BY <1>3, <1>4, <1>5, <1>6

(* A copy stays one while more is numbered.                                *)
LEMMA CopyStays ==
    ASSUME NEW m, NEW n, Extends(n.enumIds, m.enumIds), Extends(n.pathIds, m.pathIds),
           NEW c, NEW s, CopyOf(c, s, m)
    PROVE  CopyOf(c, s, n)
BY DEF CopyOf, Renumbered, Extends

(* The places before the next entry.                                       *)
LEMMA BeforeNext ==
    ASSUME FilesOK, NEW f \in DOMAIN files, NEW p \in 1 .. Len(files[f]), NEW S, S \subseteq Places
    PROVE  Before(S, f, p + 1) = Before(S, f, p) \cup (IF << f, p >> \in S THEN {<< f, p >>} ELSE {})
<1>1. \A s \in Places : s = << s[1], s[2] >> /\ s[1] \in 1 .. Len(files) /\ s[2] \in 1 .. Len(files[s[1]])
  BY FileParts DEF Places
<1>2. /\ f \in 1 .. Len(files) /\ Len(files) \in Nat /\ Len(files[f]) \in Nat
      /\ \A g \in 1 .. Len(files) : Len(files[g]) \in Nat
  BY FileParts
<1>3. ASSUME NEW s \in S
      PROVE  InputOrder(s, << f, p + 1 >>) <=> InputOrder(s, << f, p >>) \/ s = << f, p >>
  <2>1. s = << s[1], s[2] >> /\ s[1] \in Nat /\ s[2] \in Nat
    BY <1>1, <1>2
  <2>2. s = << f, p >> <=> s[1] = f /\ s[2] = p
    BY <2>1
  <2>3. s[1] = f => (s[2] < p + 1 <=> s[2] < p \/ s[2] = p)
    BY <2>1
  <2> QED
    BY <2>2, <2>3 DEF InputOrder
<1> QED
  BY <1>3 DEF Before

(* A sequence with one more element.                                       *)
LEMMA AppendRow ==
    ASSUME NEW o, o \in Seq(ToSet(o)), NEW x
    PROVE  /\ Append(o, x) \in Seq(ToSet(Append(o, x)))
           /\ Len(o) \in Nat /\ DOMAIN o = 1 .. Len(o)
           /\ Len(Append(o, x)) = Len(o) + 1 /\ DOMAIN Append(o, x) = 1 .. Len(o) + 1
           /\ \A q \in 1 .. Len(o) : Append(o, x)[q] = o[q]
           /\ Append(o, x)[Len(o) + 1] = x
<1> DEFINE Y == ToSet(o) \cup {x}
           u == Append(o, x)
<1>1. o \in Seq(Y)
  OBVIOUS
<1>2. /\ Len(o) \in Nat /\ DOMAIN o = 1 .. Len(o)
      /\ u \in Seq(Y) /\ Len(u) = Len(o) + 1 /\ DOMAIN u = 1 .. Len(o) + 1
      /\ \A q \in 1 .. Len(o) : u[q] = o[q]
      /\ u[Len(o) + 1] = x
  <2> HIDE DEF Y
  <2>1. x \in Y
    BY DEF Y
  <2> QED
    BY <1>1, <2>1
<1> HIDE DEF u
<1>3. ToSet(u) = Y
  <2>1. ToSet(u) = {u[q] : q \in 1 .. Len(o) + 1} /\ ToSet(o) = {o[q] : q \in 1 .. Len(o)}
    BY <1>2 DEF ToSet
  <2>2. \A y : y \in ToSet(u) <=> y \in Y
    BY <1>2, <2>1
  <2> QED
    BY <2>2
<1> QED
  BY <1>2, <1>3 DEF u

(* A place that is the next one is written after the others.               *)
LEMMA ExactlyNext ==
    ASSUME NEW o, o \in Seq(ToSet(o)), NEW x, NEW b \in 0 .. Len(o), NEW P,
           Exactly(o, b + 1, Len(o), P), \A s \in P : InputOrder(s, x.from)
    PROVE  Exactly(Append(o, x), b + 1, Len(o) + 1, P \cup {x.from})
<1> DEFINE u == Append(o, x)
           l == Len(o)
           z == x.from
<1>1. /\ l \in Nat /\ u[l + 1] = x
      /\ \A q \in 1 .. l : u[q] = o[q]
  BY AppendRow
<1>2. b \in Nat /\ b <= l
  BY <1>1
<1>3. /\ \A q \in b + 1 .. l : o[q].from \in P
      /\ \A s \in P : \E q \in b + 1 .. l : o[q].from = s
      /\ \A q, r \in b + 1 .. l : q < r => InputOrder(o[q].from, o[r].from)
      /\ \A s \in P : InputOrder(s, z)
  BY DEF Exactly
<1> HIDE DEF u, l, z
<1>4. \A q : q \in b + 1 .. l + 1 <=> q \in b + 1 .. l \/ q = l + 1
  BY <1>1, <1>2
<1>5. (\A q \in b + 1 .. l : u[q].from = o[q].from) /\ u[l + 1].from = z
  BY <1>1, <1>2 DEF z
<1>6. \A q \in b + 1 .. l + 1 : u[q].from \in P \cup {z}
  BY <1>3, <1>4, <1>5
<1>7. \A s \in P \cup {z} : \E q \in b + 1 .. l + 1 : u[q].from = s
  <2>1. ASSUME NEW s \in P PROVE \E q \in b + 1 .. l + 1 : u[q].from = s
    <3>1. PICK q \in b + 1 .. l : o[q].from = s
      BY <1>3
    <3> QED
      BY <1>4, <1>5, <3>1
  <2>2. l + 1 \in b + 1 .. l + 1 /\ u[l + 1].from = z
    BY <1>4, <1>5
  <2> QED
    BY <2>1, <2>2
<1>8. \A q, r \in b + 1 .. l + 1 : q < r => InputOrder(u[q].from, u[r].from)
  <2> SUFFICES ASSUME NEW q \in b + 1 .. l + 1, NEW r \in b + 1 .. l + 1, q < r
               PROVE  InputOrder(u[q].from, u[r].from)
    OBVIOUS
  <2>1. q \in b + 1 .. l
    BY <1>1, <1>2
  <2>2. CASE r = l + 1
    BY <1>3, <1>5, <2>1, <2>2
  <2>3. CASE r # l + 1
    BY <1>3, <1>4, <1>5, <2>1, <2>3
  <2> QED
    BY <2>2, <2>3
<1>9. Exactly(u, b + 1, l + 1, P \cup {z})
  BY <1>6, <1>7, <1>8 DEF Exactly
<1> QED
  BY <1>9 DEF u, l, z

(* What was written before is not touched.                                 *)
LEMMA ExactlySame ==
    ASSUME NEW o, NEW u, NEW a, NEW b, \A q \in a .. b : u[q].from = o[q].from, NEW P, Exactly(o, a, b, P)
    PROVE  Exactly(u, a, b, P)
BY DEF Exactly

(* A pass writes places of the inputs.                                     *)
LEMMA PlacesInside == \A ps : PlacesIn(ps) \subseteq Places
BY DEF PlacesIn

(* An entry is written, or it has no place in this pass.                   *)
LEMMA LaidNext ==
    ASSUME FilesOK, file \in DOMAIN files, NEW p \in 1 .. Len(files[file]),
           NEW o, o \in Seq(ToSet(o)), NEW b, Laid(b, pass, o, file, p), pass \in {"definitions", "rest"}
    PROVE  /\ << file, p >> \notin PlacesIn(pass) => Laid(b, pass, o, file, p + 1)
           /\ \A c : << file, p >> \in PlacesIn(pass) =>
                Laid(b, pass, Append(o, [command |-> c, from |-> << file, p >>]), file, p + 1)
<1> DEFINE S == PlacesIn(pass)
           l == Len(o)
           here == << file, p >>
<1>1. /\ b \in 0 .. l /\ (pass = "definitions" => b = 0)
      /\ pass = "rest" => Exactly(o, 1, b, PlacesIn("definitions"))
      /\ Exactly(o, b + 1, l, Before(S, file, p))
  BY DEF Laid
<1>2. Before(S, file, p + 1) = Before(S, file, p) \cup (IF here \in S THEN {here} ELSE {})
  <2>1. S \subseteq Places
    BY PlacesInside
  <2> HIDE DEF S
  <2> QED
    BY <2>1, BeforeNext
<1>3. CASE here \notin S
  <2>1. Before(S, file, p + 1) = Before(S, file, p)
    BY <1>2, <1>3
  <2> QED
    BY <1>1, <1>3, <2>1 DEF Laid
<1>4. ASSUME here \in S, NEW c
      PROVE  Laid(b, pass, Append(o, [command |-> c, from |-> here]), file, p + 1)
  <2> DEFINE x == [command |-> c, from |-> here]
             u == Append(o, x)
  <2>1. x.from = here
    OBVIOUS
  <2>2. /\ l \in Nat /\ Len(u) = l + 1
        /\ \A q \in 1 .. l : u[q] = o[q]
    BY AppendRow
  <2>3. \A s \in Before(S, file, p) : InputOrder(s, x.from)
    BY <2>1 DEF Before
  <2> HIDE DEF x, S
  <2>4. Exactly(u, b + 1, l + 1, Before(S, file, p) \cup {x.from})
    BY <1>1, <2>3, ExactlyNext
  <2>5. Before(S, file, p + 1) = Before(S, file, p) \cup {x.from}
    BY <1>2, <1>4, <2>1
  <2>6. pass = "rest" => Exactly(u, 1, b, PlacesIn("definitions"))
    <3>1. \A q \in 1 .. b : u[q].from = o[q].from
      BY <1>1, <2>2
    <3> HIDE DEF u
    <3> QED
      BY <1>1, <3>1, ExactlySame
  <2>7. b \in 0 .. Len(u)
    BY <1>1, <2>2
  <2> HIDE DEF u
  <2>8. Laid(b, pass, u, file, p + 1)
    BY <1>1, <2>2, <2>4, <2>5, <2>6, <2>7 DEF Laid, S
  <2> QED
    BY <2>8 DEF u, x
<1> QED
  BY <1>3, <1>4

(* Only the second pass writes scopes, all of them.                        *)
LEMMA StructureInRest ==
    ASSUME FilesOK, NEW f \in DOMAIN files, NEW p \in 1 .. Len(files[f])
    PROVE  /\ << f, p >> \in PlacesIn("definitions") => files[f][p].kind \notin StructureKinds
           /\ files[f][p].kind \in {"scope", "up"} => << f, p >> \in PlacesIn("rest")
<1>1. /\ << f, p >>[1] = f /\ << f, p >>[2] = p
      /\ << f, p >> \in Places
  BY FileParts DEF Places
<1>2. HoistedAt(f, p) => files[f][p].kind \notin StructureKinds
  BY DEF HoistedAt, IsAttribute, IsDefinition, StructureKinds
<1>3. files[f][p].kind \in {"scope", "up"} => KeptAt(f, p)
  BY DEF KeptAt, HoistedAt, DroppedAt, IsAttribute, IsDefinition, IsExported
<1> QED
  BY <1>1, <1>2, <1>3 DEF PlacesIn

(* A command that is no scope leaves the scopes as they are.               *)
LEMMA ScopesSkip ==
    ASSUME FilesOK, file \in DOMAIN files, NEW p \in 1 .. Len(files[file]),
           NEW o, ScopesNow(pass, o, file, p), << file, p >> \notin PlacesIn(pass),
           pass \in {"definitions", "rest"}
    PROVE  ScopesNow(pass, o, file, p + 1)
<1>1. pass = "rest" => files[file][p].kind \notin {"scope", "up"}
  BY StructureInRest
<1>2. ScopesAt(files[file], p + 1) = ScopeStep(files[file][p], ScopesAt(files[file], p))
  BY PlaceSteps
<1> QED
  BY <1>1, <1>2 DEF ScopesNow, ScopeStep

(* A command of a pass opens and closes the scopes its entry does.         *)
LEMMA ScopesNext ==
    ASSUME FilesOK, file \in DOMAIN files, NEW p \in 1 .. Len(files[file]),
           NEW o, o \in Seq(ToSet(o)), ScopesNow(pass, o, file, p), << file, p >> \in PlacesIn(pass),
           pass \in {"definitions", "rest"}, NEW b \in 0 .. Len(o), ScopesCopied(b, pass, o),
           NEW c, c.kind = files[file][p].kind, c.kind = "scope" => c.name = files[file][p].name
    PROVE  LET u == Append(o, [command |-> c, from |-> << file, p >>])
           IN  ScopesNow(pass, u, file, p + 1) /\ ScopesCopied(b, pass, u)
<1> DEFINE x == [command |-> c, from |-> << file, p >>]
           u == Append(o, x)
           l == Len(o)
           C == Commands(o)
           D == Commands(u)
           e == files[file][p]
<1>1. /\ l \in Nat /\ Len(u) = l + 1 /\ DOMAIN o = 1 .. l /\ DOMAIN u = 1 .. l + 1
      /\ \A q \in 1 .. l : u[q] = o[q]
      /\ u[l + 1] = x
  BY AppendRow
<1>2. x.command = c /\ x.from[1] = file /\ x.from[2] = p
  OBVIOUS
<1> HIDE DEF x
<1>3. /\ \A q \in 1 .. l : D[q] = C[q]
      /\ D[l + 1] = c
  BY <1>1, <1>2 DEF Commands
<1> HIDE DEF u, C, D, l
<1>4. ASSUME NEW q \in 1 .. l + 1 PROVE ScopesAt(D, q) = ScopesAt(C, q)
  <2>1. q \in Nat \ {0} /\ Alike(D, C, q - 1)
    BY <1>1, <1>3 DEF Alike
  <2> QED
    BY <2>1, ScopesSteps
<1>5. ScopesAt(D, l + 2) = ScopeStep(c, ScopesAt(C, l + 1))
  <2>1. l + 1 \in Nat \ {0} /\ (l + 1) + 1 = l + 2 /\ l + 1 \in 1 .. l + 1
    BY <1>1
  <2>2. ScopesAt(D, (l + 1) + 1) = ScopeStep(D[l + 1], ScopesAt(D, l + 1))
    BY <2>1, ScopesSteps
  <2>3. ScopesAt(D, l + 1) = ScopesAt(C, l + 1)
    BY <1>4, <2>1
  <2> QED
    BY <1>3, <2>1, <2>2, <2>3
<1>6. ScopesAt(C, l + 1) = IF pass = "rest" THEN ScopesAt(files[file], p) ELSE <<>>
  BY DEF ScopesNow, C, l
<1>7. ScopesAt(files[file], p + 1) = ScopeStep(e, ScopesAt(files[file], p))
  BY PlaceSteps
<1>8. pass = "definitions" => c.kind \notin {"scope", "up"}
  BY StructureInRest DEF StructureKinds
<1>9. ScopeStep(c, ScopesAt(C, l + 1)) = IF pass = "rest" THEN ScopesAt(files[file], p + 1) ELSE <<>>
  <2>1. \A open_ : ScopeStep(c, open_) = ScopeStep(e, open_)
    BY DEF ScopeStep
  <2>2. pass = "definitions" => ScopeStep(c, <<>>) = <<>>
    BY <1>8 DEF ScopeStep
  <2> QED
    BY <1>6, <1>7, <2>1, <2>2
<1>10. ScopesNow(pass, u, file, p + 1)
  <2>1. Len(u) + 1 = l + 2
    BY <1>1
  <2> QED
    BY <1>5, <1>9, <2>1 DEF ScopesNow, D
<1>11. ScopesCopied(b, pass, u)
  <2> SUFFICES ASSUME pass = "rest", NEW q \in b + 1 .. l + 1
               PROVE  ScopesAt(D, q) = ScopesAt(files[u[q].from[1]], u[q].from[2])
    BY <1>1 DEF ScopesCopied, D
  <2>1. q \in 1 .. l + 1
    BY <1>1 DEF l
  <2>2. CASE q = l + 1
    BY <1>1, <1>2, <1>4, <1>6, <2>1, <2>2
  <2>3. CASE q # l + 1
    <3>1. q \in b + 1 .. l /\ u[q] = o[q]
      BY <1>1, <2>1, <2>3
    <3>2. ScopesAt(C, q) = ScopesAt(files[o[q].from[1]], o[q].from[2])
      BY <3>1 DEF ScopesCopied, C, l
    <3> QED
      BY <1>4, <2>1, <3>1, <3>2
  <2> QED
    BY <2>2, <2>3
<1> QED
  BY <1>10, <1>11 DEF u, x

(* Commands that were copied stay copies.                                  *)
LEMMA CopiesStay ==
    ASSUME FilesOK, NEW f, NEW p, NEW m, NEW n, NextEmitter(m, n, f, p), NEW o, Copies(o, m)
    PROVE  Copies(o, n)
<1>1. Extends(n.enumIds, m.enumIds) /\ Extends(n.pathIds, m.pathIds)
  BY DEF NextEmitter
<1>2. ASSUME NEW q \in 1 .. Len(o) PROVE CopyOf(o[q].command, o[q].from, n)
  BY <1>1, CopyStays DEF Copies
<1> QED
  BY <1>2 DEF Copies

(* One copy more.                                                          *)
LEMMA CopiesNext ==
    ASSUME FilesOK, file \in DOMAIN files, NEW p \in 1 .. Len(files[file]), NEW n, NEW o, Copies(o, n),
           NEW c, CopyOf(c, << file, p >>, n)
    PROVE  Copies(Append(o, [command |-> c, from |-> << file, p >>]), n)
<1> DEFINE x == [command |-> c, from |-> << file, p >>]
           u == Append(o, x)
           l == Len(o)
<1>1. /\ l \in Nat /\ Len(u) = l + 1 /\ u \in Seq(ToSet(u))
      /\ \A q \in 1 .. l : u[q] = o[q]
      /\ u[l + 1] = x
  BY AppendRow DEF Copies
<1>2. x.command = c /\ x.from = << file, p >>
  OBVIOUS
<1>3. << file, p >> \in Places
  BY FileParts DEF Places
<1> HIDE DEF x, u
<1>4. ASSUME NEW q \in 1 .. l + 1
      PROVE  u[q].from \in Places /\ CopyOf(u[q].command, u[q].from, n)
  <2>1. CASE q = l + 1
    BY <1>1, <1>2, <1>3, <2>1
  <2>2. CASE q # l + 1
    <3>1. q \in 1 .. l
      BY <1>1, <2>2
    <3> QED
      BY <1>1, <3>1 DEF Copies
  <2> QED
    BY <2>1, <2>2
<1>5. Copies(u, n)
  BY <1>1, <1>4 DEF Copies
<1> QED
  BY <1>5 DEF u, x

(* One entry through emit: the output is what it should be, one entry on.  *)
EmitState(m, o) == [emitter |-> m, out |-> o]

ProgressOf(state, f, p) == Progress(state.emitter, state.out, f, p)

LEMMA EmitKeeps ==
    ASSUME FilesOK, file \in DOMAIN files, NEW p \in 1 .. Len(files[file]), NEW state,
           ProgressOf(state, file, p), NEW note, note <=> NoteOfScope(file, p),
           pass \in {"definitions", "rest"}
    PROVE  ProgressOf(Emit(state, p, note), file, p + 1)
<1> DEFINE m == state.emitter
           o == state.out
           e == files[file][p]
           n == After(m, e)
           here == << file, p >>
           c == Rewritten(n, e)
           x == [command |-> c, from |-> here]
<1>1. /\ IsEmitter(m) /\ Copies(o, m) /\ Catching(m, file, p) /\ ScopesNow(pass, o, file, p)
      /\ \E b \in 0 .. Len(o) : Laid(b, pass, o, file, p) /\ ScopesCopied(b, pass, o)
  BY DEF ProgressOf, Progress, ProgressIn, Sofar
<1>2. PICK b \in 0 .. Len(o) : Laid(b, pass, o, file, p) /\ ScopesCopied(b, pass, o)
  BY <1>1
<1>3. o \in Seq(ToSet(o)) /\ Len(o) \in Nat
  BY <1>1 DEF Copies
<1>4. /\ Hoisted(m, e) <=> HoistedAt(file, p)
      /\ Dropped(m, e, note) <=> DroppedAt(file, p)
      /\ e.kind = "var" => (Kept(m, e) <=> IsExported(file, p))
  <2> HIDE DEF m
  <2> QED
    BY <1>1, Decides
<1>5. /\ here \in PlacesIn("definitions") <=> HoistedAt(file, p)
      /\ here \in PlacesIn("rest") <=> KeptAt(file, p)
  <2>1. here \in Places /\ here[1] = file /\ here[2] = p
    BY FileParts DEF Places
  <2> QED
    BY <2>1 DEF PlacesIn
<1>6. NextEmitter(m, n, file, p)
  <2> HIDE DEF m
  <2> QED
    BY <1>1, AfterIs
<1>7. CASE Dropped(m, e, note)
  <2>1. Emit(state, p, note) = state
    BY <1>7 DEF Emit
  <2>2. IsAttribute(e) /\ ~HoistedAt(file, p) /\ DroppedAt(file, p)
    BY <1>4, <1>7 DEF DroppedAt
  <2>3. here \notin PlacesIn(pass)
    BY <1>5, <2>2 DEF KeptAt
  <2>4. ScopesNow(pass, o, file, p + 1)
    <3> HIDE DEF o, here
    <3> QED
      BY <1>1, <2>3, ScopesSkip DEF here
  <2>5. Laid(b, pass, o, file, p + 1)
    <3> HIDE DEF o
    <3> QED
      BY <1>2, <1>3, <2>3, LaidNext
  <2>6. Catching(m, file, p + 1)
    <3>1. e.kind \notin {"scope", "up", "var"}
      BY <2>2 DEF IsAttribute
    <3>2. /\ VariableAt(file, p + 1) = VariableAt(file, p)
          /\ PreambleAt(file, p + 1) <=> PreambleAt(file, p)
          /\ ScopesAt(files[file], p + 1) = ScopesAt(files[file], p)
      BY <3>1, PlaceSteps DEF ScopeStep
    <3> QED
      BY <1>1, <3>2 DEF Catching
  <2> QED
    BY <1>1, <1>2, <2>1, <2>4, <2>5, <2>6 DEF ProgressOf, Progress, ProgressIn, Sofar
<1>8. CASE ~Dropped(m, e, note)
  <2>1. Emit(state, p, note) = EmitState(n, IF Writes(m, e) THEN Append(o, x) ELSE o)
    BY <1>8 DEF Emit, EmitState
  <2>2. Writes(m, e) <=> here \in PlacesIn(pass)
    <3>1. Writes(m, e) <=> (e.kind = "var" => IsExported(file, p)) /\ (HoistedAt(file, p) <=> pass = "definitions")
      BY <1>4 DEF Writes
    <3>2. e.kind # "var" => IsExported(file, p)
      BY DEF IsExported
    <3>3. HoistedAt(file, p) => e.kind # "var"
      BY DEF HoistedAt, IsAttribute, IsDefinition
    <3>4. ~DroppedAt(file, p)
      BY <1>4, <1>8
    <3> HIDE DEF e, here
    <3>5. CASE pass = "definitions"
      BY <1>5, <3>1, <3>3, <3>5
    <3>6. CASE pass = "rest"
      BY <1>5, <3>1, <3>2, <3>4, <3>6 DEF KeptAt
    <3> QED
      BY <3>5, <3>6
  <2>3. IsEmitter(n) /\ Catching(n, file, p + 1)
    BY <1>6 DEF NextEmitter
  <2>4. Copies(o, n)
    <3> HIDE DEF n, m, o
    <3> QED
      BY <1>1, <1>6, CopiesStay
  <2>5. CASE here \notin PlacesIn(pass)
    <3>1. ScopesNow(pass, o, file, p + 1)
      <4> HIDE DEF o, here
      <4> QED
        BY <1>1, <2>5, ScopesSkip DEF here
    <3>2. Laid(b, pass, o, file, p + 1)
      <4> HIDE DEF o
      <4> QED
        BY <1>2, <1>3, <2>5, LaidNext
    <3>3. Progress(n, o, file, p + 1)
      BY <1>2, <2>3, <2>4, <3>1, <3>2 DEF Progress, ProgressIn, Sofar
    <3> QED
      BY <2>1, <2>2, <2>5, <3>3 DEF ProgressOf, EmitState
  <2>6. CASE here \in PlacesIn(pass)
    <3> DEFINE u == Append(o, x)
    <3>1. CopyOf(c, here, n)
      <4> HIDE DEF n, m
      <4> QED
        BY <1>6, RewrittenIs
    <3>2. c.kind = e.kind /\ (e.kind = "scope" => c.name = e.name)
      BY <3>1 DEF CopyOf
    <3>3. Copies(u, n)
      <4> HIDE DEF c, n, o
      <4> QED
        BY <2>4, <3>1, CopiesNext
    <3>4. Laid(b, pass, u, file, p + 1)
      <4> HIDE DEF c, o
      <4> QED
        BY <1>2, <1>3, <2>6, LaidNext
    <3>5. ScopesNow(pass, u, file, p + 1) /\ ScopesCopied(b, pass, u)
      <4> HIDE DEF c, o
      <4> QED
        BY <1>1, <1>2, <1>3, <2>6, <3>2, ScopesNext
    <3>6. b \in 0 .. Len(u)
      BY <3>4 DEF Laid
    <3> HIDE DEF u, n
    <3>7. Progress(n, u, file, p + 1)
      BY <2>3, <3>3, <3>4, <3>5, <3>6 DEF Progress, ProgressIn, Sofar
    <3>8. Emit(state, p, note) = EmitState(n, u)
      BY <2>1, <2>2, <2>6 DEF u
    <3> QED
      BY <3>7, <3>8 DEF ProgressOf, EmitState
  <2> QED
    BY <2>5, <2>6
<1> QED
  BY <1>7, <1>8

-----------------------------------------------------------------------------
(* The annotations held back are emitted one after the other.              *)
EmitOp(next, acc, p) == Emit(acc, p, next /\ files[file][p].kind = "struct")

Emitting == INSTANCE DataProofs WITH Op <- EmitOp

(* EmitPending is a fold over what is held back.                           *)
LEMMA EmitPendingIs ==
    ASSUME NEW next
    PROVE  EmitPending(next) = Emitting!Fold(next, EmitState(emitter, out), pending)
BY DEF EmitPending, EmitState, EmitOp, Emitting!Fold, FoldLeft, Emitting!FoldLeft,
       MapThenFoldSet, Emitting!MapThenFoldSet, Max, Emitting!Max

(* What is held back describes a scope if it is structural and one is next *)
LEMMA HeldNotes ==
    ASSUME FilesOK, file \in DOMAIN files, pos \in 1 .. Len(files[file]) + 1, HeldBack,
           pos <= Len(files[file]) => files[file][pos].kind \in Stops,
           NEW k \in 1 .. Len(pending)
    PROVE  /\ pending[k] \in 1 .. Len(files[file])
           /\ NoteOfScope(file, pending[k]) <=>
                /\ pos <= Len(files[file]) /\ files[file][pos].kind = "scope"
                /\ files[file][pending[k]].kind = "struct"
<1> DEFINE s == files[file]
           n == Len(s)
           l == Len(pending)
           p == pending[k]
<1>1. n \in Nat /\ DOMAIN s = 1 .. n
  BY FileParts
<1>2. l \in Nat /\ l < pos /\ \A i \in 1 .. l : pending[i] = pos - l - 1 + i /\ Waits(s[pending[i]])
  BY DEF HeldBack, HeldAt
<1>3. p = pos - l - 1 + k /\ p \in 1 .. n /\ pos \in p + 1 .. n + 1
  BY <1>1, <1>2
<1>4. \A q \in p + 1 .. n : q < pos => s[q].kind \notin Stops
  <2> SUFFICES ASSUME NEW q \in p + 1 .. n, q < pos PROVE s[q].kind \notin Stops
    OBVIOUS
  <2>1. q - (pos - l - 1) \in 1 .. l /\ pos - l - 1 + (q - (pos - l - 1)) = q
    BY <1>1, <1>2, <1>3
  <2>2. Waits(s[q])
    BY <1>2, <2>1
  <2> QED
    BY <2>2 DEF Waits, IsAttribute, Stops
<1>5. SettledAt(s, n, p, pos)
  BY <1>3, <1>4 DEF SettledAt
<1> HIDE DEF s, n, l, p
<1>6. Settled(s, p) = pos
  BY <1>1, <1>3, <1>5, SettledIs DEF n
<1> QED
  BY <1>3, <1>6 DEF NoteOfScope, DescribesScope, s, n, p

(* After what was held back, all before the place is emitted.              *)
LEMMA PendingEmitted ==
    ASSUME FilesOK, file \in DOMAIN files, pos \in 1 .. Len(files[file]) + 1, HeldBack,
           pos <= Len(files[file]) => files[file][pos].kind \in Stops,
           pass \in {"definitions", "rest"},
           Progress(emitter, out, file, pos - Len(pending)),
           NEW next, next <=> pos <= Len(files[file]) /\ files[file][pos].kind = "scope"
    PROVE  ProgressOf(EmitPending(next), file, pos)
<1> DEFINE l == Len(pending)
           base == pos - l
<1>1. l \in Nat /\ DOMAIN pending = 1 .. l /\ l < pos
      /\ \A k \in 1 .. l : pending[k] = base - 1 + k
  BY DEF HeldBack, HeldAt
<1>2. Len(files[file]) \in Nat /\ pos \in Nat /\ base \in Nat
  <2>1. Len(files[file]) \in Nat
    BY FileParts
  <2>2. pos \in Nat
    BY <2>1
  <2> QED
    BY <1>1, <2>1, <2>2
<1>3. PICK acc : Emitting!FoldedBy(acc, next, EmitState(emitter, out), pending, l)
  <2> HIDE DEF l
  <2> QED
    BY <1>1, Emitting!FoldSteps
<1>4. /\ acc[0] = EmitState(emitter, out)
      /\ \A k \in 1 .. l : acc[k] = Emit(acc[k - 1], pending[k], next /\ files[file][pending[k]].kind = "struct")
      /\ EmitPending(next) = acc[l]
  BY <1>3, EmitPendingIs DEF Emitting!FoldedBy, EmitOp
<1> DEFINE holds == {k \in 0 .. l : ProgressOf(acc[k], file, base + k)}
<1>5. 0 \in holds
  <2>1. base + 0 = base /\ 0 \in 0 .. l
    BY <1>1
  <2> QED
    BY <1>4, <2>1 DEF ProgressOf, EmitState
<1>6. ASSUME NEW k \in 1 .. l, k - 1 \in holds PROVE k \in holds
  <2>1. pending[k] \in 1 .. Len(files[file])
        /\ (NoteOfScope(file, pending[k]) <=> next /\ files[file][pending[k]].kind = "struct")
    <3> HIDE DEF l
    <3>1. k \in 1 .. Len(pending)
      BY DEF l
    <3> QED
      BY <3>1, HeldNotes
  <2>2. pending[k] = base + (k - 1) /\ pending[k] + 1 = base + k
    <3>1. pending[k] = base - 1 + k /\ k \in Nat /\ base \in Nat
      BY <1>1, <1>2
    <3> HIDE DEF base
    <3> QED
      BY <3>1
  <2>3. ProgressOf(acc[k - 1], file, pending[k])
    BY <1>6, <2>2
  <2> HIDE DEF base, l
  <2> DEFINE note == next /\ files[file][pending[k]].kind = "struct"
             q == pending[k]
             st == acc[k - 1]
  <2>4. q \in 1 .. Len(files[file]) /\ (note <=> NoteOfScope(file, q)) /\ ProgressOf(st, file, q)
    BY <2>1, <2>3
  <2>5. acc[k] = Emit(st, q, note)
    BY <1>4
  <2> HIDE DEF note, q, st
  <2>6. ProgressOf(Emit(st, q, note), file, q + 1)
    BY <2>4, EmitKeeps
  <2>7. ProgressOf(acc[k], file, base + k)
    BY <2>2, <2>5, <2>6 DEF q
  <2>8. k \in 0 .. l
    BY <1>1 DEF l
  <2> QED
    BY <2>7, <2>8
<1> HIDE DEF holds, base
<1>7. l \in holds
  <2>1. \A k \in 1 .. l : k - 1 \in holds => k \in holds
    BY <1>6
  <2> HIDE DEF l
  <2>2. \A k \in 0 .. l : k \in holds
    BY <1>1, <1>5, <2>1, UpTo
  <2> QED
    BY <1>1, <2>2
<1>8. base + l = pos
  BY <1>1, <1>2 DEF base
<1> QED
  BY <1>4, <1>7, <1>8 DEF holds

-----------------------------------------------------------------------------
(* Before the first entry nothing of a pass is written.                    *)
LEMMA NothingLaid ==
    ASSUME FilesOK, NEW b, NEW ps, ps \in {"definitions", "rest"}, NEW o, Len(o) \in Nat, b = 0 \/ b = Len(o),
           ps = "definitions" => b = 0 /\ Len(o) = 0,
           ps = "rest" => b = Len(o) /\ Exactly(o, 1, Len(o), PlacesIn("definitions"))
    PROVE  Laid(b, ps, o, 1, 1)
<1>1. 1 \in DOMAIN files /\ Len(files) \in Nat /\ DOMAIN files = 1 .. Len(files)
  BY DEF FilesOK
<1>2. Before(PlacesIn(ps), 1, 1) = {}
  <2>1. ASSUME NEW s \in Places PROVE ~InputOrder(s, << 1, 1 >>)
    <3>1. s[1] \in 1 .. Len(files) /\ s[2] \in 1 .. Len(files[s[1]]) /\ Len(files[s[1]]) \in Nat
      BY FileParts DEF Places
    <3> QED
      BY <1>1, <3>1 DEF InputOrder
  <2> QED
    BY <2>1, PlacesInside DEF Before
<1>3. b + 1 .. Len(o) = {}
  OBVIOUS
<1>4. Exactly(o, b + 1, Len(o), {})
  BY <1>3 DEF Exactly
<1>5. b \in 0 .. Len(o)
  OBVIOUS
<1>6. ps = "rest" => Exactly(o, 1, b, PlacesIn("definitions"))
  OBVIOUS
<1>7. Exactly(o, b + 1, Len(o), Before(PlacesIn(ps), 1, 1))
  BY <1>2, <1>4
<1> QED
  BY <1>5, <1>6, <1>7 DEF Laid

(* The emitter of a file that begins is that of its first place.           *)
LEMMA NewFileCatches ==
    ASSUME FilesOK, NEW f \in DOMAIN files, NEW e, NEW g, Numbering(e), Numbering(g)
    PROVE  IsEmitter(NewFile(e, g)) /\ Catching(NewFile(e, g), f, 1)
<1>1. VariableAt(f, 1) = "none" /\ PreambleAt(f, 1) /\ ScopesAt(files[f], 1) = <<>>
  BY PlaceFirst
<1> QED
  BY <1>1 DEF NewFile, IsEmitter, Catching

(* No numbers are numbers.                                                 *)
LEMMA NothingNumbered == Numbering(Nothing)
<1>1. DOMAIN Nothing = {}
  BY DEF Nothing
<1> QED
  BY <1>1, FS_EmptySet DEF Numbering, Injective

(* The beginning of the first pass, or of the only one.                    *)
LEMMA Begins ==
    ASSUME FilesOK, pass \in {"definitions", "rest"}, file = 1, pos = 1, pending = <<>>,
           emitter = NewFile(Nothing, Nothing), out = <<>>, result = "running",
           pass = "rest" => PlacesIn("definitions") = {}
    PROVE  XInv
<1>1. 1 \in DOMAIN files /\ Len(files[1]) \in Nat
  <2>1. 1 \in DOMAIN files
    BY DEF FilesOK
  <2> QED
    BY <2>1, FileParts
<1>2. /\ Len(out) = 0 /\ out \in Seq(ToSet(out)) /\ DOMAIN out = {} /\ \A q : q \notin 1 .. 0
      /\ pending \in Seq(ToSet(pending)) /\ Len(pending) = 0
  OBVIOUS
<1>3. HeldBack /\ pos - Len(pending) = 1 /\ pos \in 1 .. Len(files[file]) + 1
  BY <1>1, <1>2 DEF HeldBack, HeldAt
<1>4. Laid(0, pass, out, 1, 1)
  <2>1. pass = "rest" => Exactly(out, 1, 0, PlacesIn("definitions"))
    BY <1>2 DEF Exactly
  <2> QED
    BY <1>2, <2>1, NothingLaid
<1>5. ScopesCopied(0, pass, out)
  BY <1>2 DEF ScopesCopied
<1>6. ScopesNow(pass, out, 1, 1)
  <2>1. ScopesAt(Commands(out), 1) = <<>> /\ ScopesAt(files[1], 1) = <<>>
    BY ScopesSteps
  <2> QED
    BY <1>2, <2>1 DEF ScopesNow
<1>7. IsEmitter(emitter) /\ Catching(emitter, 1, 1)
  BY <1>1, NothingNumbered, NewFileCatches
<1>8. Copies(out, emitter)
  BY <1>2 DEF Copies
<1>9. Progress(emitter, out, 1, 1)
  BY <1>2, <1>4, <1>5, <1>6, <1>7, <1>8 DEF Progress, ProgressIn, Sofar
<1> QED
  BY <1>1, <1>3, <1>9 DEF XInv, XState, Progress, HeldBack

(* Empty files are hierarchies.                                            *)
LEMMA EmptyFiles ==
    ASSUME files \in Seq(ToSet(files)), files # <<>>, \A f \in DOMAIN files : files[f] = <<>>
    PROVE  FilesOK
<1>1. <<>> \in Seq(ToSet(<<>>)) /\ DOMAIN <<>> = {} /\ Len(<<>>) = 0
  OBVIOUS
<1>2. \A kinds : Positions(<<>>, kinds) = {}
  BY <1>1 DEF Positions
<1>3. ScopesAt(<<>>, Len(<<>>) + 1) = <<>>
  BY <1>1, ScopesSteps
<1>4. IsHierarchy(<<>>)
  BY <1>1, <1>2, <1>3 DEF IsHierarchy, Nested, DefinedOnce
<1> QED
  BY <1>4 DEF FilesOK

(* If nothing is left out of a lone file, nothing is hoisted.              *)
LEMMA NothingHoisted ==
    ASSUME FilesOK, selected \subseteq AllVars(files), ~DefinitionsNeeded(files, selected)
    PROVE  PlacesIn("definitions") = {}
<1> DEFINE s == files[1]
           P == Positions(s, {"var"})
           of == [p \in P |-> << Offset(1) + s[p].code, VarPath(s, p) >>]
           A == AllVars(files)
<1>1. Len(files) = 1 /\ DOMAIN files = {1} /\ Cardinality(P) = Cardinality(selected)
  <2>1. Len(files) = 1 /\ files \in Seq(ToSet(files))
    BY DEF DefinitionsNeeded, FilesOK
  <2>2. DOMAIN files = 1 .. 1
    BY <2>1
  <2> QED
    BY <2>1, <2>2 DEF DefinitionsNeeded
<1>2. Len(s) \in Nat /\ DOMAIN s = 1 .. Len(s)
  BY <1>1, FileParts
<1>3. IsFiniteSet(P)
  <2>1. IsFiniteSet(1 .. Len(s)) /\ P \subseteq 1 .. Len(s)
    BY <1>2, FS_Interval DEF Positions
  <2> QED
    BY <2>1, FS_Subset
<1>4. A = {of[p] : p \in P}
  BY <1>1 DEF AllVars
<1>5. of \in Surjection(P, A)
  <2> HIDE DEF P, A
  <2> QED
    BY <1>4 DEF Surjection
<1>6. IsFiniteSet(A) /\ Cardinality(A) <= Cardinality(P)
  <2> HIDE DEF P, A, of
  <2> QED
    BY <1>3, <1>5, FS_Surjection
<1>7. selected = A
  <2> HIDE DEF A
  <2>1. Cardinality(selected) <= Cardinality(A) /\ IsFiniteSet(selected) /\ selected \subseteq A
    BY <1>6, FS_Subset DEF A
  <2>2. Cardinality(selected) \in Nat /\ Cardinality(A) \in Nat
    BY <1>6, <2>1, FS_CardinalityType
  <2>3. Cardinality(selected) = Cardinality(A)
    BY <1>1, <1>6, <2>1, <2>2
  <2> HIDE DEF P
  <2> QED
    BY <1>6, <2>1, <2>3, FS_Subset
<1>8. ASSUME NEW p \in 1 .. Len(s) PROVE IsExported(1, p)
  <2>1. CASE s[p].kind = "var"
    <3>1. p \in P
      BY <1>2, <2>1 DEF Positions
    <3>2. of[p] \in selected
      <4> HIDE DEF P, A, of
      <4> QED
        BY <1>4, <1>7, <3>1
    <3> QED
      BY <3>1, <3>2 DEF IsExported
  <2>2. CASE s[p].kind # "var"
    BY <2>2 DEF IsExported
  <2> QED
    BY <2>1, <2>2
<1>9. ASSUME NEW p \in 1 .. Len(s) PROVE ~HoistedAt(1, p)
  <2>1. Owner(s, p) = 0 \/ Owner(s, p) \in P
    <3> HIDE DEF s
    <3>1. p \in 1 .. Len(s) + 1
      BY <1>2
    <3> QED
      BY <1>2, <3>1, OwnerIs
  <2>2. Owner(s, p) = 0 \/ Owner(s, p) \in 1 .. Len(s)
    BY <1>2, <2>1 DEF Positions
  <2>3. VariableAt(1, p) # "dropped"
    BY <1>8, <2>2 DEF VariableAt
  <2> QED
    BY <1>1, <2>3 DEF HoistedAt
<1>10. \A x \in Places : x[1] = 1 /\ x[2] \in 1 .. Len(s)
  BY <1>1, <1>2 DEF Places
<1> HIDE DEF s
<1> QED
  BY <1>9, <1>10 DEF PlacesIn

(* The invariant holds in every initial state.                             *)
LEMMA InitXInv == OutputInit => XInv
<1> SUFFICES ASSUME OutputInit PROVE XInv
  OBVIOUS
<1>1. ASSUME Init PROVE XInv
  <2>1. files \in Inputs /\ 1 \in DOMAIN files
    BY <1>1, OutputAssumption DEF Init
  <2>2. FilesOK
    BY <2>1, InputAssumption DEF FilesOK
  <2>3. /\ pass = IF DefinitionsNeeded(files, selected) THEN "definitions" ELSE "rest"
        /\ file = 1 /\ pos = 1 /\ pending = <<>>
        /\ emitter = NewFile(Nothing, Nothing) /\ out = <<>> /\ result = "running"
        /\ selected \subseteq AllVars(files)
    BY <1>1 DEF Init
  <2>4. pass = "rest" => PlacesIn("definitions") = {}
    BY <2>2, <2>3, NothingHoisted
  <2> QED
    BY <2>2, <2>3, <2>4, Begins
<1>2. ASSUME NothingYet, FilesOK PROVE XInv
  BY <1>2, Begins DEF NothingYet
<1>3. CASE NothingYet /\ files = << <<>> >>
  <2>1. files \in Seq(ToSet(files)) /\ files # <<>> /\ \A f \in DOMAIN files : files[f] = <<>>
    BY <1>3 DEF ToSet
  <2> QED
    BY <1>2, <1>3, <2>1, EmptyFiles
<1>4. CASE /\ scales \in {<< s >> : s \in Scales} \cup (Scales \X Scales)
           /\ NothingYet /\ files = [f \in DOMAIN scales |-> <<>>]
  <2>1. DOMAIN scales = 1 .. 1 \/ DOMAIN scales = 1 .. 2
    BY <1>4
  <2>2. PICK n \in {1, 2} : DOMAIN scales = 1 .. n
    BY <2>1
  <2>3. files = [f \in 1 .. n |-> <<>>]
    BY <1>4, <2>2
  <2>4. files \in Seq({<<>>}) /\ DOMAIN files = 1 .. n /\ \A f \in DOMAIN files : files[f] = <<>>
    BY <2>3
  <2>5. ToSet(files) = {<<>>} /\ files # <<>>
    BY <2>4 DEF ToSet
  <2> QED
    BY <1>2, <1>4, <2>4, <2>5, EmptyFiles
<1> QED
  BY <1>1, <1>3, <1>4 DEF OutputInit

-----------------------------------------------------------------------------
(* Each step of the export keeps the invariant.  The files do not change,  *)
(* so what is said of them is the same before and after it.                *)
LEMMA FilesStay ==
    ASSUME files' = files, selected' = selected
    PROVE  /\ FilesOK => FilesOK'
           /\ \A ps, f, p, held, m, o, r : XState(ps, f, p, held, m, o, r) => XState(ps, f, p, held, m, o, r)'
<1>1. FilesOK => FilesOK'
  BY DEF FilesOK
<1>2. \A f, p : IsExported(f, p) <=> IsExported(f, p)'
  BY DEF IsExported, VarPath
<1>3. \A f, p : PreambleAt(f, p) <=> PreambleAt(f, p)'
  BY DEF PreambleAt
<1>4. \A f, p : VariableAt(f, p)' = VariableAt(f, p)
  BY <1>2 DEF VariableAt
<1>5. \A f, p : HoistedAt(f, p) <=> HoistedAt(f, p)'
  BY <1>3, <1>4 DEF HoistedAt
<1>6. \A f, p : DroppedAt(f, p) <=> DroppedAt(f, p)'
  BY <1>4, <1>5 DEF DroppedAt, NoteOfScope
<1>7. \A f, p : KeptAt(f, p) <=> KeptAt(f, p)'
  BY <1>2, <1>5, <1>6 DEF KeptAt
<1>8. Places' = Places
  BY DEF Places
<1>9. \A ps : PlacesIn(ps)' = PlacesIn(ps)
  BY <1>5, <1>7, <1>8 DEF PlacesIn
<1>10. \A b, ps, o, f, p : Laid(b, ps, o, f, p) => Laid(b, ps, o, f, p)'
  BY <1>9 DEF Laid
<1>11. \A b, ps, o : ScopesCopied(b, ps, o) => ScopesCopied(b, ps, o)'
  BY DEF ScopesCopied
<1>12. \A ps, o, f, p : ScopesNow(ps, o, f, p) => ScopesNow(ps, o, f, p)'
  BY DEF ScopesNow
<1>13. \A m, f, p : Catching(m, f, p) => Catching(m, f, p)'
  BY <1>3, <1>4 DEF Catching
<1>14. \A o, m : Copies(o, m) => Copies(o, m)'
  <2>1. \A c, s, m : CopyOf(c, s, m) <=> CopyOf(c, s, m)'
    BY DEF CopyOf, Renumbered
  <2> SUFFICES ASSUME NEW o, NEW m, Copies(o, m) PROVE Copies(o, m)'
    OBVIOUS
  <2>2. o \in Seq(ToSet(o)) /\ \A q \in 1 .. Len(o) : o[q].from \in Places /\ CopyOf(o[q].command, o[q].from, m)
    BY DEF Copies
  <2>3. \A q \in 1 .. Len(o) : o[q].from \in Places' /\ CopyOf(o[q].command, o[q].from, m)'
    BY <1>8, <2>1, <2>2
  <2> QED
    BY <2>2, <2>3 DEF Copies
<1>15. \A ps, m, o, f, p : Sofar(ps, m, o, f, p) => Sofar(ps, m, o, f, p)'
  BY <1>10, <1>11, <1>14 DEF Sofar
<1>16. \A ps, m, o, f, p : ProgressIn(ps, m, o, f, p) => ProgressIn(ps, m, o, f, p)'
  BY <1>12, <1>13, <1>15 DEF ProgressIn
<1>17. \A f, p, held : HeldAt(f, p, held) => HeldAt(f, p, held)'
  BY DEF HeldAt
<1>18. \A ps, f, p, held, m, o, r : XState(ps, f, p, held, m, o, r) => XState(ps, f, p, held, m, o, r)'
  BY <1>15, <1>16, <1>17 DEF XState
<1> QED
  BY <1>1, <1>18

(* The invariant of the next state may be shown with the files of this     *)
(* one.                                                                    *)
LEMMA StepOfState ==
    ASSUME FilesOK, files' = files, selected' = selected,
           XState(pass', file', pos', pending', emitter', out', result')
    PROVE  XInv'
<1>1. FilesOK'
  BY FilesStay
<1>2. \A ps, f, p, held, m, o, r : XState(ps, f, p, held, m, o, r) => XState(ps, f, p, held, m, o, r)'
  BY FilesStay
<1>3. XState(pass, file, pos, pending, emitter, out, result)'
  BY <1>2
<1> QED
  BY <1>1, <1>3 DEF XInv

(* An annotation or a comment is held back.                                *)
LEMMA HoldKeeps == XInv /\ Hold => XInv'
<1> SUFFICES ASSUME XInv, Hold PROVE XInv'
  OBVIOUS
<1>1. /\ FilesOK /\ pass \in {"definitions", "rest"} /\ file \in DOMAIN files
      /\ result = "running" /\ pos <= Len(files[file]) /\ Waits(files[file][pos])
      /\ pos \in 1 .. Len(files[file]) + 1 /\ HeldBack
      /\ Progress(emitter, out, file, pos - Len(pending))
  BY DEF XInv, XState, Hold, More, Waits, Entry, HeldBack, Progress
<1>2. /\ pending' = Append(pending, pos) /\ pos' = pos + 1
      /\ UNCHANGED << files, selected, pass, file, emitter, out, result >>
  BY DEF Hold
<1>3. Len(files[file]) \in Nat
  BY <1>1, FileParts
<1>4. HeldAt(file, pos + 1, Append(pending, pos))
  <2> DEFINE l == Len(pending)
             u == Append(pending, pos)
  <2>1. /\ l < pos /\ \A k \in 1 .. l : pending[k] = pos - l - 1 + k /\ Waits(files[file][pending[k]])
        /\ pending \in Seq(ToSet(pending))
    BY <1>1 DEF HeldBack, HeldAt
  <2>2. /\ u \in Seq(ToSet(u)) /\ l \in Nat /\ Len(u) = l + 1
        /\ \A k \in 1 .. l : u[k] = pending[k]
        /\ u[l + 1] = pos
    BY <2>1, AppendRow
  <2> HIDE DEF l, u
  <2>3. ASSUME NEW k \in 1 .. l + 1
        PROVE  u[k] = (pos + 1) - (l + 1) - 1 + k /\ Waits(files[file][u[k]])
    <3>1. CASE k = l + 1
      BY <1>1, <1>3, <2>2, <3>1
    <3>2. CASE k # l + 1
      <4>1. k \in 1 .. l
        BY <2>2, <3>2
      <4>2. u[k] = pos - l - 1 + k /\ Waits(files[file][u[k]])
        BY <2>1, <2>2, <4>1
      <4> QED
        BY <1>1, <1>3, <2>2, <4>1, <4>2
    <3> QED
      BY <3>1, <3>2
  <2>4. Len(u) < pos + 1
    BY <1>1, <1>3, <2>1, <2>2
  <2> QED
    BY <2>2, <2>3, <2>4 DEF HeldAt, u
<1>5. (pos + 1) - Len(Append(pending, pos)) = pos - Len(pending) /\ pos + 1 \in 1 .. Len(files[file]) + 1
  <2>1. Len(Append(pending, pos)) = Len(pending) + 1 /\ Len(pending) \in Nat
    BY <1>1 DEF HeldBack, HeldAt
  <2> QED
    BY <1>1, <1>3, <2>1
<1>6. XState(pass, file, pos + 1, Append(pending, pos), emitter, out, result)
  BY <1>1, <1>4, <1>5 DEF XState, Progress
<1>7. XState(pass', file', pos', pending', emitter', out', result')
  BY <1>2, <1>6
<1> QED
  BY <1>1, <1>2, <1>7, StepOfState

(* A declaration is emitted, after what was held back before it.           *)
LEMMA DeclareKeeps == XInv /\ Declare => XInv'
<1> SUFFICES ASSUME XInv, Declare PROVE XInv'
  OBVIOUS
<1> DEFINE scopeNext == files[file][pos].kind = "scope"
           held == EmitPending(scopeNext)
           state == Emit(held, pos, FALSE)
<1>1. /\ FilesOK /\ pass \in {"definitions", "rest"} /\ file \in DOMAIN files
      /\ result = "running" /\ pos <= Len(files[file]) /\ files[file][pos].kind \in Stops
      /\ pos \in 1 .. Len(files[file]) + 1 /\ HeldBack
      /\ Progress(emitter, out, file, pos - Len(pending))
  BY DEF XInv, XState, Declare, More, Entry, HeldBack, Progress, Stops
<1>2. /\ emitter' = state.emitter /\ out' = state.out /\ pending' = <<>> /\ pos' = pos + 1
      /\ UNCHANGED << files, selected, pass, file, result >>
  BY DEF Declare, Entry
<1>3. Len(files[file]) \in Nat
  BY <1>1, FileParts
<1>4. ProgressOf(held, file, pos)
  <2>1. scopeNext <=> pos <= Len(files[file]) /\ files[file][pos].kind = "scope"
    BY <1>1
  <2> HIDE DEF scopeNext
  <2> QED
    BY <1>1, <2>1, PendingEmitted
<1>5. ProgressOf(state, file, pos + 1)
  <2>1. ~NoteOfScope(file, pos) /\ pos \in 1 .. Len(files[file])
    BY <1>1, <1>3 DEF NoteOfScope, Stops
  <2>2. FALSE <=> NoteOfScope(file, pos)
    BY <2>1
  <2> HIDE DEF held
  <2> QED
    BY <1>1, <1>4, <2>1, <2>2, EmitKeeps
<1> HIDE DEF state
<1>6. ProgressIn(pass, state.emitter, state.out, file, (pos + 1) - Len(<<>>))
  <2>1. (pos + 1) - Len(<<>>) = pos + 1
    BY <1>1, <1>3
  <2> QED
    BY <1>5, <2>1 DEF ProgressOf, Progress
<1>7. HeldAt(file, pos + 1, <<>>) /\ pos + 1 \in 1 .. Len(files[file]) + 1
  BY <1>1, <1>3 DEF HeldAt
<1>8. XState(pass, file, pos + 1, <<>>, state.emitter, state.out, result)
  BY <1>1, <1>6, <1>7 DEF XState
<1>9. XState(pass', file', pos', pending', emitter', out', result')
  BY <1>2, <1>8
<1> QED
  BY <1>1, <1>2, <1>9, StepOfState

(* The end of a file is the beginning of the next.                         *)
LEMMA BeforeEnd ==
    ASSUME FilesOK, NEW f \in DOMAIN files, NEW ps
    PROVE  /\ Before(PlacesIn(ps), f, Len(files[f]) + 1) = Before(PlacesIn(ps), f + 1, 1)
           /\ f = Len(files) => Before(PlacesIn(ps), f, Len(files[f]) + 1) = PlacesIn(ps)
<1>1. \A s \in PlacesIn(ps) : s[1] \in 1 .. Len(files) /\ s[2] \in 1 .. Len(files[s[1]])
  BY FileParts, PlacesInside DEF Places
<1>2. /\ f \in 1 .. Len(files) /\ Len(files) \in Nat
      /\ \A g \in 1 .. Len(files) : Len(files[g]) \in Nat
  BY FileParts
<1>3. ASSUME NEW s \in PlacesIn(ps)
      PROVE  /\ InputOrder(s, << f, Len(files[f]) + 1 >>) <=> InputOrder(s, << f + 1, 1 >>)
             /\ f = Len(files) => InputOrder(s, << f, Len(files[f]) + 1 >>)
  <2>1. s[1] \in 1 .. Len(files) /\ s[2] \in Nat /\ s[2] >= 1 /\ (s[1] = f => s[2] <= Len(files[f]))
    BY <1>1, <1>2
  <2>2. s[1] < f + 1 <=> s[1] < f \/ s[1] = f
    BY <1>2, <2>1
  <2>3. s[1] = f => s[2] < Len(files[f]) + 1
    BY <1>2, <2>1
  <2> QED
    BY <1>2, <2>1, <2>2, <2>3 DEF InputOrder
<1> QED
  BY <1>3 DEF Before

(* Copies are copies whatever the emitter knows but the numbers.           *)
LEMMA CopiesOfNumbers ==
    ASSUME NEW o, NEW m, NEW n, n.enumIds = m.enumIds, n.pathIds = m.pathIds, Copies(o, m)
    PROVE  Copies(o, n)
BY DEF Copies, CopyOf

(* The end of a file: the next one, the second pass or the end of all.     *)
LEMMA EndKeeps == XInv /\ EndOfFile => XInv'
<1> SUFFICES ASSUME XInv, EndOfFile PROVE XInv'
  OBVIOUS
<1> DEFINE state == EmitPending(FALSE)
           n == NewFile(state.emitter.enumIds, state.emitter.pathIds)
           l == Len(files[file])
           o == state.out
<1>1. /\ FilesOK /\ pass \in {"definitions", "rest"} /\ file \in DOMAIN files
      /\ result = "running" /\ pos > l
      /\ pos \in 1 .. l + 1 /\ HeldBack
      /\ Progress(emitter, out, file, pos - Len(pending))
  BY DEF XInv, XState, EndOfFile, HeldBack, Progress
<1>2. /\ out' = o /\ emitter' = n /\ pending' = <<>> /\ pos' = 1
      /\ UNCHANGED << files, selected >>
  BY DEF EndOfFile
<1>3. l \in Nat /\ Len(files) \in Nat /\ file \in 1 .. Len(files) /\ DOMAIN files = 1 .. Len(files)
  BY <1>1, FileParts
<1>4. pos = l + 1 /\ ~ pos <= l
  BY <1>1, <1>3
<1>5. ProgressOf(state, file, l + 1)
  <2>1. FALSE <=> pos <= l /\ files[file][pos].kind = "scope"
    BY <1>4
  <2>2. ProgressOf(state, file, pos)
    BY <1>1, <1>4, <2>1, PendingEmitted
  <2> QED
    BY <1>4, <2>2
<1> HIDE DEF state
<1>6. /\ IsEmitter(state.emitter) /\ Copies(o, state.emitter)
      /\ ScopesNow(pass, o, file, l + 1)
      /\ \E b \in 0 .. Len(o) : Laid(b, pass, o, file, l + 1) /\ ScopesCopied(b, pass, o)
  BY <1>5 DEF ProgressOf, Progress, ProgressIn, Sofar
<1>7. Numbering(state.emitter.enumIds) /\ Numbering(state.emitter.pathIds)
  BY <1>6 DEF IsEmitter
<1>8. IsEmitter(n) /\ \A f \in DOMAIN files : Catching(n, f, 1)
  BY <1>1, <1>7, NewFileCatches
<1>9. n.enumIds = state.emitter.enumIds /\ n.pathIds = state.emitter.pathIds
  BY DEF NewFile
<1> HIDE DEF n
<1>10. Copies(o, n)
  BY <1>6, <1>9, CopiesOfNumbers
<1>11. ScopesAt(Commands(o), Len(o) + 1) = <<>>
  <2>1. ScopesAt(files[file], l + 1) = <<>>
    <3>1. Nested(files[file])
      BY <1>1, FileParts
    <3> QED
      BY <3>1 DEF Nested
  <2> QED
    BY <1>6, <2>1 DEF ScopesNow
<1>12. \A f \in DOMAIN files : ScopesAt(files[f], 1) = <<>>
  BY <1>1, PlaceFirst
<1>13. PICK b \in 0 .. Len(o) : Laid(b, pass, o, file, l + 1) /\ ScopesCopied(b, pass, o)
  BY <1>6
<1>14. \A f \in DOMAIN files : HeldAt(f, 1, <<>>) /\ 1 \in 1 .. Len(files[f]) + 1
  <2> SUFFICES ASSUME NEW f \in DOMAIN files PROVE HeldAt(f, 1, <<>>) /\ 1 \in 1 .. Len(files[f]) + 1
    OBVIOUS
  <2>1. Len(files[f]) \in Nat
    BY <1>1, FileParts
  <2> QED
    BY <2>1 DEF HeldAt
<1>15. 1 - Len(<<>>) = 1 /\ Len(o) \in Nat
  <2>1. o \in Seq(ToSet(o))
    BY <1>6 DEF Copies
  <2> QED
    BY <2>1
<1> HIDE DEF o, l
<1>16. Before(PlacesIn(pass), file, l + 1) = Before(PlacesIn(pass), file + 1, 1)
       /\ (file = Len(files) => Before(PlacesIn(pass), file, l + 1) = PlacesIn(pass))
  BY <1>1, BeforeEnd DEF l
<1>17. Laid(b, pass, o, file + 1, 1)
  BY <1>13, <1>16 DEF Laid
<1>18. Sofar(pass, n, o, file + 1, 1)
  BY <1>8, <1>10, <1>13, <1>17 DEF Sofar
<1>19. CASE file < Len(files)
  <2>1. file' = file + 1 /\ pass' = pass /\ result' = result
    BY <1>19 DEF EndOfFile
  <2>2. file + 1 \in DOMAIN files
    BY <1>3, <1>19
  <2>3. ScopesNow(pass, o, file + 1, 1)
    BY <1>11, <1>12, <2>2 DEF ScopesNow
  <2>4. ProgressIn(pass, n, o, file + 1, 1 - Len(<<>>))
    BY <1>8, <1>15, <1>18, <2>2, <2>3 DEF ProgressIn
  <2>5. XState(pass, file + 1, 1, <<>>, n, o, result)
    BY <1>1, <1>14, <2>2, <2>4 DEF XState
  <2>6. XState(pass', file', pos', pending', emitter', out', result')
    BY <1>2, <2>1, <2>5
  <2> QED
    BY <1>1, <1>2, <2>6, StepOfState
<1>20. CASE file = Len(files) /\ pass = "definitions"
  <2>1. file' = 1 /\ pass' = "rest" /\ result' = result
    BY <1>3, <1>20 DEF EndOfFile
  <2>2. 1 \in DOMAIN files
    BY <1>3
  <2>3. Exactly(o, 1, Len(o), PlacesIn("definitions"))
    <3>1. b = 0 /\ Exactly(o, b + 1, Len(o), PlacesIn("definitions"))
      BY <1>13, <1>16, <1>20 DEF Laid
    <3>2. b + 1 = 1
      BY <3>1
    <3> QED
      BY <3>1, <3>2
  <2>4. Laid(Len(o), "rest", o, 1, 1)
    <3> DEFINE lo == Len(o)
    <3>1. lo = 0 \/ lo = Len(o)
      OBVIOUS
    <3>2. "rest" = "definitions" => lo = 0 /\ Len(o) = 0
      OBVIOUS
    <3>3. "rest" = "rest" => lo = Len(o) /\ Exactly(o, 1, Len(o), PlacesIn("definitions"))
      BY <2>3
    <3>4. "rest" \in {"definitions", "rest"}
      OBVIOUS
    <3> HIDE DEF lo
    <3>5. Laid(lo, "rest", o, 1, 1)
      BY <1>1, <1>15, <3>1, <3>2, <3>3, <3>4, NothingLaid
    <3> QED
      BY <3>5 DEF lo
  <2>5. ScopesCopied(Len(o), "rest", o)
    <3>1. Len(o) + 1 .. Len(o) = {}
      BY <1>15
    <3> QED
      BY <3>1 DEF ScopesCopied
  <2>6. ScopesNow("rest", o, 1, 1)
    BY <1>11, <1>12, <2>2 DEF ScopesNow
  <2>7. Len(o) \in 0 .. Len(o)
    BY <1>15
  <2>8. ProgressIn("rest", n, o, 1, 1 - Len(<<>>))
    BY <1>8, <1>10, <1>15, <2>2, <2>4, <2>5, <2>6, <2>7 DEF ProgressIn, Sofar
  <2>9. XState("rest", 1, 1, <<>>, n, o, result)
    BY <1>1, <1>14, <2>2, <2>8 DEF XState
  <2>10. XState(pass', file', pos', pending', emitter', out', result')
    BY <1>2, <2>1, <2>9
  <2> QED
    BY <1>1, <1>2, <2>10, StepOfState
<1>21. CASE file = Len(files) /\ pass = "rest"
  <2>1. file' = 1 /\ pass' = pass /\ result' = "ok"
    BY <1>3, <1>21 DEF EndOfFile
  <2>2. XState("rest", 1, 1, <<>>, n, o, "ok")
    BY <1>18, <1>21 DEF XState
  <2>3. XState(pass', file', pos', pending', emitter', out', result')
    BY <1>2, <1>21, <2>1, <2>2
  <2> QED
    BY <1>1, <1>2, <2>3, StepOfState
<1> QED
  BY <1>1, <1>3, <1>19, <1>20, <1>21

(* What is not the export's own step changes nothing of it.                *)
LEMMA StepXInv == XInv /\ [OutputNext]_<< vars, outputVars >> => XInv'
<1> SUFFICES ASSUME XInv, [OutputNext]_<< vars, outputVars >> PROVE XInv'
  OBVIOUS
<1>1. CASE UNCHANGED vars
  <2>1. /\ FilesOK /\ XState(pass, file, pos, pending, emitter, out, result)
        /\ UNCHANGED << files, selected, pass, file, pos, pending, emitter, out, result >>
    BY <1>1 DEF XInv, vars
  <2>2. XState(pass', file', pos', pending', emitter', out', result')
    BY <2>1
  <2> QED
    BY <2>1, <2>2, StepOfState
<1>2. CASE Fail
  <2>1. /\ result = "running" /\ result' = "error"
        /\ UNCHANGED << files, selected, pass, file, pos, pending, emitter, out >>
    BY <1>2 DEF Fail
  <2>2. FilesOK /\ XState(pass, file, pos, pending, emitter, out, "error")
    BY <2>1 DEF XInv, XState
  <2>3. XState(pass', file', pos', pending', emitter', out', result')
    BY <2>1, <2>2
  <2> QED
    BY <2>1, <2>2, <2>3, StepOfState
<1>3. CASE Next
  BY <1>2, <1>3, HoldKeeps, DeclareKeeps, EndKeeps DEF Next
<1> QED
  BY <1>1, <1>3 DEF OutputNext, Refuse, CreateVcd, CreateFst, WriteHeader, DeclareVar, CloseScopes, FailFst

-----------------------------------------------------------------------------
(* What is written in the end: the places of each pass, in order.          *)
Finished(b) ==
    /\ b \in 0 .. Len(out) /\ Len(out) \in Nat /\ DOMAIN out = 1 .. Len(out)
    /\ Exactly(out, 1, b, PlacesIn("definitions"))
    /\ Exactly(out, b + 1, Len(out), PlacesIn("rest"))
    /\ \A q \in 1 .. Len(out) : out[q].from \in Places /\ CopyOf(out[q].command, out[q].from, emitter)
    /\ \A q \in b + 1 .. Len(out) :
         ScopesAt(Written, q) = ScopesAt(files[out[q].from[1]], out[q].from[2])

(* An export that has ended wrote that.                                    *)
LEMMA FinishedIs ==
    ASSUME XInv, result = "ok"
    PROVE  \E b : Finished(b)
<1>1. FilesOK /\ Sofar("rest", emitter, out, Len(files) + 1, 1)
  BY DEF XInv, XState
<1>2. PICK b \in 0 .. Len(out) :
        Laid(b, "rest", out, Len(files) + 1, 1) /\ ScopesCopied(b, "rest", out)
  BY <1>1 DEF Sofar
<1>3. Before(PlacesIn("rest"), Len(files) + 1, 1) = PlacesIn("rest")
  <2> DEFINE f == Len(files)
  <2>1. f \in DOMAIN files
    <3>1. files \in Seq(ToSet(files)) /\ files # <<>>
      BY <1>1 DEF FilesOK
    <3> QED
      BY <3>1
  <2>2. f = Len(files)
    OBVIOUS
  <2> HIDE DEF f
  <2>3. Before(PlacesIn("rest"), f + 1, 1) = PlacesIn("rest")
    BY <1>1, <2>1, <2>2, BeforeEnd
  <2> QED
    BY <2>2, <2>3
<1>4. Exactly(out, 1, b, PlacesIn("definitions")) /\ Exactly(out, b + 1, Len(out), PlacesIn("rest"))
  BY <1>2, <1>3 DEF Laid
<1>5. /\ out \in Seq(ToSet(out))
      /\ \A q \in 1 .. Len(out) :
           out[q].from \in Places /\ CopyOf(out[q].command, out[q].from, emitter)
  BY <1>1 DEF Sofar, Copies
<1>6. Len(out) \in Nat /\ DOMAIN out = 1 .. Len(out)
  BY <1>5
<1>7. \A q \in b + 1 .. Len(out) :
        ScopesAt(Written, q) = ScopesAt(files[out[q].from[1]], out[q].from[2])
  BY <1>2 DEF ScopesCopied, Written, Commands
<1> QED
  BY <1>4, <1>5, <1>6, <1>7 DEF Finished

(* What a written command has of its entry.                                *)
LEMMA WrittenIs ==
    ASSUME FilesOK, NEW b, Finished(b), NEW q \in 1 .. Len(out)
    PROVE  /\ Sources[q] = << Sources[q][1], Sources[q][2] >>
           /\ Sources[q][1] \in DOMAIN files /\ Sources[q][2] \in 1 .. Len(files[Sources[q][1]])
           /\ Sources[q] = out[q].from /\ Written[q] = out[q].command
           /\ CopyOf(Written[q], Sources[q], emitter)
           /\ q <= b => Sources[q] \in PlacesIn("definitions")
           /\ q > b => Sources[q] \in PlacesIn("rest")
<1>1. /\ b \in 0 .. Len(out) /\ Len(out) \in Nat /\ DOMAIN out = 1 .. Len(out)
      /\ out[q].from \in Places /\ CopyOf(out[q].command, out[q].from, emitter)
  BY DEF Finished
<1>2. Sources[q] = out[q].from /\ Written[q] = out[q].command
  BY <1>1 DEF Sources, Written
<1>3. \A s \in Places : s = << s[1], s[2] >> /\ s[1] \in DOMAIN files /\ s[2] \in 1 .. Len(files[s[1]])
  BY FileParts DEF Places
<1>4. q <= b => out[q].from \in PlacesIn("definitions")
  <2>1. \A r \in 1 .. b : out[r].from \in PlacesIn("definitions")
    BY DEF Finished, Exactly
  <2> QED
    BY <1>1, <2>1
<1>5. q > b => out[q].from \in PlacesIn("rest")
  <2>1. \A r \in b + 1 .. Len(out) : out[r].from \in PlacesIn("rest")
    BY DEF Finished, Exactly
  <2> QED
    BY <1>1, <2>1
<1> QED
  BY <1>1, <1>2, <1>3, <1>4, <1>5

(* Structure is written by the second pass, what is exported of it.        *)
LEMMA StructureKept ==
    ASSUME FilesOK, NEW f \in DOMAIN files, NEW p \in 1 .. Len(files[f]),
           files[f][p].kind \in StructureKinds
    PROVE  << f, p >> \in PlacesIn("rest") <=> IsExported(f, p)
<1>1. << f, p >> \in Places /\ << f, p >>[1] = f /\ << f, p >>[2] = p
  BY FileParts DEF Places
<1>2. ~IsAttribute(files[f][p]) /\ ~IsDefinition(files[f][p])
  BY DEF IsAttribute, IsDefinition, StructureKinds
<1>3. KeptAt(f, p) <=> IsExported(f, p)
  BY <1>2 DEF KeptAt, HoistedAt, DroppedAt
<1> QED
  BY <1>1, <1>3 DEF PlacesIn

(* Scopes and variables of the output come from the second pass.           *)
LEMMA StructureWritten ==
    ASSUME FilesOK, NEW b, Finished(b), NEW q \in Positions(Written, StructureKinds)
    PROVE  /\ q \in b + 1 .. Len(out)
           /\ files[Sources[q][1]][Sources[q][2]].kind = Written[q].kind
           /\ IsExported(Sources[q][1], Sources[q][2])
<1>1. q \in 1 .. Len(out) /\ Written[q].kind \in StructureKinds /\ b \in 0 .. Len(out) /\ Len(out) \in Nat
  BY DEF Positions, Written, Finished
<1> DEFINE f == Sources[q][1]
           p == Sources[q][2]
<1>2. /\ Sources[q] = << f, p >> /\ f \in DOMAIN files /\ p \in 1 .. Len(files[f])
      /\ CopyOf(Written[q], Sources[q], emitter)
      /\ q <= b => Sources[q] \in PlacesIn("definitions")
      /\ q > b => Sources[q] \in PlacesIn("rest")
  BY <1>1, WrittenIs
<1>3. files[f][p].kind = Written[q].kind
  BY <1>2 DEF CopyOf
<1> HIDE DEF f, p
<1>4. ~(q <= b)
  BY <1>1, <1>2, <1>3, StructureInRest
<1>5. q > b
  BY <1>1, <1>4
<1>6. IsExported(f, p)
  BY <1>1, <1>2, <1>3, <1>5, StructureKept
<1> QED
  BY <1>1, <1>3, <1>5, <1>6 DEF f, p

(* The second pass keeps the order of the inputs.                          *)
LEMMA RestOrder ==
    ASSUME FilesOK, NEW b, Finished(b), NEW x \in b + 1 .. Len(out), NEW y \in b + 1 .. Len(out)
    PROVE  /\ x \in 1 .. Len(out) /\ y \in 1 .. Len(out)
           /\ x < y <=> InputOrder(Sources[x], Sources[y])
           /\ x = y <=> Sources[x] = Sources[y]
<1>1. /\ b \in 0 .. Len(out) /\ Len(out) \in Nat
      /\ \A q, r \in b + 1 .. Len(out) : q < r => InputOrder(out[q].from, out[r].from)
  BY DEF Finished, Exactly
<1>2. x \in 1 .. Len(out) /\ y \in 1 .. Len(out)
  BY <1>1
<1> DEFINE s == Sources[x]
           t == Sources[y]
<1>3. /\ s = out[x].from /\ s[1] \in DOMAIN files /\ s[2] \in 1 .. Len(files[s[1]])
      /\ t = out[y].from /\ t[1] \in DOMAIN files /\ t[2] \in 1 .. Len(files[t[1]])
  BY <1>2, WrittenIs
<1>4. s[1] \in Nat /\ s[2] \in Nat /\ t[1] \in Nat /\ t[2] \in Nat
  <2> HIDE DEF s, t
  <2>1. s[1] \in 1 .. Len(files) /\ Len(files[s[1]]) \in Nat
    BY <1>3, FileParts
  <2>2. t[1] \in 1 .. Len(files) /\ Len(files[t[1]]) \in Nat
    BY <1>3, FileParts
  <2>3. s[2] \in 1 .. Len(files[s[1]]) /\ t[2] \in 1 .. Len(files[t[1]])
    BY <1>3
  <2>4. s[1] \in Nat /\ s[2] \in Nat
    BY <2>1, <2>3
  <2>5. t[1] \in Nat /\ t[2] \in Nat
    BY <2>2, <2>3
  <2> QED
    BY <2>4, <2>5
<1>5. x < y => InputOrder(s, t)
  BY <1>1, <1>3
<1>6. y < x => InputOrder(t, s)
  BY <1>1, <1>3
<1> HIDE DEF s, t
<1>7. ~(InputOrder(s, t) /\ InputOrder(t, s)) /\ ~InputOrder(s, s) /\ ~InputOrder(t, t)
  BY <1>4 DEF InputOrder
<1>8. x = y => s = t
  BY DEF s, t
<1>9. x < y \/ y < x \/ x = y
  BY <1>2
<1>10. ~(x < y /\ x = y)
  BY <1>2
<1> QED
  BY <1>2, <1>5, <1>6, <1>7, <1>8, <1>9, <1>10 DEF s, t

(* All that the second pass is to write has been written.                  *)
LEMMA RestWritten ==
    ASSUME FilesOK, NEW b, Finished(b), NEW s \in PlacesIn("rest")
    PROVE  \E x \in b + 1 .. Len(out) : Sources[x] = s
<1>1. PICK x \in b + 1 .. Len(out) : out[x].from = s
  BY DEF Finished, Exactly
<1>2. x \in DOMAIN out
  BY DEF Finished
<1> QED
  BY <1>1, <1>2 DEF Sources

(* A position of the output and the place it comes from, or both ends.     *)
Corresponds(b, f, x, p) ==
    \/ x \in b + 1 .. Len(out) /\ p \in 1 .. Len(files[f]) /\ Sources[x] = << f, p >>
    \/ x = Len(out) + 1 /\ p = Len(files[f]) + 1

(* An annotation is settled where it was, if that is written, or nothing   *)
(* comes after it.                                                         *)
LEMMA SettledWritten ==
    ASSUME FilesOK, NEW b, Finished(b), NEW f \in DOMAIN files, NEW p \in 1 .. Len(files[f]),
           NEW x \in b + 1 .. Len(out), Sources[x] = << f, p >>,
           Settled(files[f], p) <= Len(files[f]) => << f, Settled(files[f], p) >> \in PlacesIn("rest"),
           Settled(files[f], p) > Len(files[f]) => f = Len(files)
    PROVE  /\ Corresponds(b, f, Settled(Written, x), Settled(files[f], p))
           /\ Settled(files[f], p) \in p + 1 .. Len(files[f]) + 1
<1> DEFINE s == files[f]
           n == Len(s)
           t == Settled(s, p)
           w == Written
           l == Len(out)
<1>1. n \in Nat /\ DOMAIN s = 1 .. n /\ f \in Nat /\ Len(files) \in Nat /\ p \in 1 .. n
  BY FileParts
<1>2. /\ t \in p + 1 .. n + 1 /\ \A q \in p + 1 .. n : q < t => s[q].kind \notin Stops
      /\ t <= n => s[t].kind \in Stops
  <2> HIDE DEF s
  <2>1. SettledAt(s, n, p, Settled(s, p))
    BY <1>1, SettledIs
  <2> QED
    BY <2>1 DEF SettledAt
<1>3. t <= n => << f, t >> \in PlacesIn("rest")
  OBVIOUS
<1>4. t > n => f = Len(files)
  OBVIOUS
<1> HIDE DEF t
<1>5. /\ b \in 0 .. l /\ l \in Nat /\ DOMAIN out = 1 .. l
  BY DEF Finished
<1>6. x \in 1 .. l /\ p \in Nat /\ t \in Nat
  BY <1>1, <1>2, <1>5
<1>7. DOMAIN w = 1 .. l /\ Len(w) = l
  BY <1>5 DEF Written
<1>8. \A k \in 1 .. l : w[k].kind = files[Sources[k][1]][Sources[k][2]].kind
  BY WrittenIs DEF CopyOf
<1>9. ASSUME NEW k \in x + 1 .. l
      PROVE  LET z == Sources[k]
             IN  /\ z = << z[1], z[2] >> /\ z[1] \in Nat /\ z[2] \in Nat
                 /\ z[2] \in 1 .. Len(files[z[1]]) /\ z[1] <= Len(files)
                 /\ f < z[1] \/ (f = z[1] /\ p < z[2])
  <2> DEFINE z == Sources[k]
  <2>1. k \in b + 1 .. l /\ k \in 1 .. l /\ x < k
    BY <1>5, <1>6
  <2>2. InputOrder(<< f, p >>, z)
    BY <2>1, RestOrder
  <2>3. z = << z[1], z[2] >> /\ z[1] \in DOMAIN files /\ z[2] \in 1 .. Len(files[z[1]])
    BY <2>1, WrittenIs
  <2> HIDE DEF z
  <2>4. z[1] \in 1 .. Len(files) /\ Len(files[z[1]]) \in Nat
    BY <2>3, FileParts
  <2>5. << f, p >>[1] = f /\ << f, p >>[2] = p
    OBVIOUS
  <2>6. z[1] \in Nat /\ z[2] \in Nat /\ z[1] <= Len(files)
    BY <1>1, <2>3, <2>4
  <2> QED
    BY <2>2, <2>3, <2>5, <2>6 DEF InputOrder, z
<1>10. CASE t <= n
  <2>1. PICK r \in b + 1 .. l : Sources[r] = << f, t >>
    BY <1>3, <1>10, RestWritten
  <2>2. << f, p >>[1] = f /\ << f, p >>[2] = p /\ << f, t >>[1] = f /\ << f, t >>[2] = t
    OBVIOUS
  <2>3. x < r
    <3>1. InputOrder(<< f, p >>, << f, t >>)
      BY <1>1, <1>2, <1>6, <2>2 DEF InputOrder
    <3> QED
      BY <2>1, <3>1, RestOrder
  <2>4. r \in 1 .. l /\ w[r].kind \in Stops
    <3>1. r \in 1 .. l
      BY <1>5
    <3> QED
      BY <1>2, <1>8, <1>10, <2>1, <2>2, <3>1
  <2>5. ASSUME NEW k \in x + 1 .. l, k < r PROVE w[k].kind \notin Stops
    <3> DEFINE z == Sources[k]
    <3>1. /\ z = << z[1], z[2] >> /\ z[1] \in Nat /\ z[2] \in Nat
          /\ z[2] \in 1 .. Len(files[z[1]]) /\ z[1] <= Len(files)
          /\ f < z[1] \/ (f = z[1] /\ p < z[2])
      BY <1>9
    <3>2. k \in b + 1 .. l /\ k \in 1 .. l
      BY <1>5, <1>6
    <3>3. InputOrder(z, << f, t >>)
      BY <2>1, <2>5, <3>2, RestOrder
    <3>4. w[k].kind = files[z[1]][z[2]].kind
      BY <1>8, <3>2
    <3> HIDE DEF z
    <3>5. z[1] = f /\ p < z[2] /\ z[2] < t
      BY <1>1, <2>2, <3>1, <3>3 DEF InputOrder
    <3>6. z[2] \in p + 1 .. n
      BY <1>1, <1>6, <3>1, <3>5
    <3> QED
      BY <1>2, <3>4, <3>5, <3>6
  <2>6. SettledAt(w, l, x, r)
    BY <1>5, <1>6, <2>3, <2>4, <2>5 DEF SettledAt
  <2>7. Settled(w, x) = r
    <3> HIDE DEF w, l
    <3> QED
      BY <1>5, <1>6, <1>7, <2>6, SettledIs
  <2>8. t \in 1 .. n
    BY <1>1, <1>2, <1>6, <1>10
  <2> QED
    BY <1>2, <2>1, <2>7, <2>8 DEF Corresponds, t
<1>11. CASE t > n
  <2>1. t = n + 1 /\ f = Len(files)
    BY <1>1, <1>2, <1>4, <1>11
  <2>2. ASSUME NEW k \in x + 1 .. l PROVE w[k].kind \notin Stops
    <3> DEFINE z == Sources[k]
    <3>1. /\ z[1] \in Nat /\ z[2] \in Nat
          /\ z[2] \in 1 .. Len(files[z[1]]) /\ z[1] <= Len(files)
          /\ f < z[1] \/ (f = z[1] /\ p < z[2])
      BY <1>9
    <3>2. w[k].kind = files[z[1]][z[2]].kind
      BY <1>6, <1>8
    <3> HIDE DEF z
    <3>3. z[1] = f /\ p < z[2]
      BY <1>1, <2>1, <3>1
    <3>4. z[2] \in p + 1 .. n /\ z[2] < t
      BY <1>1, <1>6, <2>1, <3>1, <3>3
    <3> QED
      BY <1>2, <3>2, <3>3, <3>4
  <2>3. SettledAt(w, l, x, l + 1)
    BY <1>5, <1>6, <2>2 DEF SettledAt
  <2>4. Settled(w, x) = l + 1
    <3> HIDE DEF w, l
    <3> QED
      BY <1>5, <1>6, <1>7, <2>3, SettledIs
  <2> QED
    BY <1>2, <2>1, <2>4 DEF Corresponds, t
<1> QED
  BY <1>1, <1>6, <1>10, <1>11

(* A structural annotation of a scope and that scope stay next to another. *)
LEMMA ScopeNoteWritten ==
    ASSUME FilesOK, NEW b, Finished(b), NEW f \in DOMAIN files, NEW p \in 1 .. Len(files[f]),
           DescribesScope(files[f], p), NEW x \in b + 1 .. Len(out), Sources[x] = << f, p >>
    PROVE  /\ DescribesScope(Written, x)
           /\ Sources[Settled(Written, x)] = << f, Settled(files[f], p) >>
<1> DEFINE t == Settled(files[f], p)
           n == Len(files[f])
<1>1. n \in Nat /\ DOMAIN files[f] = 1 .. n
  BY FileParts
<1>2. t <= n /\ files[f][t].kind = "scope"
  BY DEF DescribesScope
<1>3. t \in p + 1 .. n + 1
  <2>1. SettledAt(files[f], n, p, t)
    BY <1>1, SettledIs
  <2> QED
    BY <2>1 DEF SettledAt
<1> HIDE DEF t
<1>4. t \in 1 .. n /\ ~(t > n)
  BY <1>1, <1>2, <1>3
<1>5. << f, t >> \in PlacesIn("rest")
  <2>1. files[f][t].kind \in StructureKinds /\ IsExported(f, t)
    BY <1>2 DEF StructureKinds, IsExported
  <2> QED
    BY <1>4, <2>1, StructureKept
<1>6. Corresponds(b, f, Settled(Written, x), t)
  BY <1>4, <1>5, SettledWritten DEF t
<1>7. Settled(Written, x) \in b + 1 .. Len(out) /\ Sources[Settled(Written, x)] = << f, t >>
  BY <1>1, <1>2, <1>6 DEF Corresponds
<1> DEFINE r == Settled(Written, x)
<1>8. r \in 1 .. Len(out) /\ DOMAIN out = 1 .. Len(out) /\ Len(out) \in Nat
  <2> HIDE DEF r
  <2> QED
    BY <1>7 DEF Finished, r
<1>9. CopyOf(Written[r], Sources[r], emitter)
  <2> HIDE DEF r
  <2> QED
    BY <1>8, WrittenIs
<1>10. Written[r].kind = "scope"
  BY <1>2, <1>7, <1>9 DEF CopyOf
<1>11. Len(Written) = Len(out)
  BY <1>8 DEF Written
<1>12. r <= Len(Written)
  BY <1>8, <1>11
<1> QED
  BY <1>7, <1>10, <1>12 DEF DescribesScope, t

(* So the annotations of a scope are kept, all but those in front of it    *)
(* all.                                                                    *)
LEMMA ScopeNoteKept ==
    ASSUME FilesOK, NEW b, Finished(b), NEW f \in DOMAIN files, NEW p \in ScopeNotes(f),
           Len(files) = 1 \/ ~InPreamble(f, p)
    PROVE  KeepsScope(f, p)
<1> DEFINE s == files[f]
           n == Len(s)
<1>1. n \in Nat /\ DOMAIN s = 1 .. n
  BY FileParts
<1>2. p \in 1 .. n /\ s[p].kind = "struct" /\ DescribesScope(s, p)
  BY <1>1 DEF ScopeNotes, Positions
<1>3. Len(files) > 1 => ~PreambleAt(f, p)
  <2> SUFFICES ASSUME Len(files) > 1 PROVE ~PreambleAt(f, p)
    OBVIOUS
  <2>1. ~InPreamble(f, p)
    <3>1. Len(files) \in Nat
      BY FileParts
    <3>2. \A k \in Nat : k > 1 => k # 1
      OBVIOUS
    <3>3. Len(files) # 1
      BY <3>1, <3>2, Zenon
    <3> HIDE DEF s, n
    <3> QED
      BY <3>3, Zenon
  <2>2. SubSeq(s, 1, p) = [q \in 1 .. p |-> s[q]]
    BY <1>1, <1>2
  <2>3. PICK q \in 1 .. p : s[q].kind \in {"scope", "var"}
    BY <2>1, <2>2 DEF InPreamble, Positions
  <2>4. q # p
    BY <1>2, <2>3
  <2>5. q \in 1 .. p - 1
    BY <1>1, <1>2, <2>4
  <2> QED
    BY <2>3, <2>5 DEF PreambleAt
<1>4. << f, p >> \in PlacesIn("rest")
  <2>1. << f, p >> \in Places /\ << f, p >>[1] = f /\ << f, p >>[2] = p
    BY <1>1, <1>2 DEF Places
  <2>2. ~HoistedAt(f, p) /\ ~DroppedAt(f, p) /\ IsExported(f, p)
    BY <1>2, <1>3 DEF HoistedAt, DroppedAt, NoteOfScope, IsDefinition, IsExported
  <2> QED
    BY <2>1, <2>2 DEF PlacesIn, KeptAt
<1>5. PICK q \in b + 1 .. Len(out) : Sources[q] = << f, p >>
  BY <1>4, RestWritten
<1>6. DescribesScope(Written, q) /\ Sources[Settled(Written, q)] = << f, Settled(s, p) >>
  BY <1>2, <1>5, ScopeNoteWritten
<1>7. q \in DOMAIN out
  BY DEF Finished
<1> QED
  BY <1>5, <1>6, <1>7 DEF KeepsScope

(* What the property says follows from the invariant, part by part.        *)
LEMMA KeptIfXInv == XInv => DeclarationsKept
<1> SUFFICES ASSUME XInv, result = "ok" PROVE DeclarationsKept
  BY DEF DeclarationsKept
<1>1. FilesOK
  BY DEF XInv
<1>2. PICK b : Finished(b)
  BY FinishedIs
<1> DEFINE P == Positions(Written, StructureKinds)
<1>3. {Sources[q] : q \in P} =
        UNION {{<< f, p >> : p \in {x \in Positions(files[f], StructureKinds) : IsExported(f, x)}} :
                 f \in DOMAIN files}
  <2>1. ASSUME NEW q \in P
        PROVE  \E f \in DOMAIN files : \E p \in Positions(files[f], StructureKinds) :
                 IsExported(f, p) /\ Sources[q] = << f, p >>
    <3> DEFINE f == Sources[q][1]
               p == Sources[q][2]
    <3>1. q \in 1 .. Len(out) /\ Written[q].kind \in StructureKinds
      BY <1>2 DEF Positions, Written, Finished
    <3>2. Sources[q] = << f, p >> /\ f \in DOMAIN files /\ p \in 1 .. Len(files[f])
      BY <1>1, <1>2, <3>1, WrittenIs
    <3>3. files[f][p].kind = Written[q].kind /\ IsExported(f, p)
      BY <1>1, <1>2, StructureWritten
    <3> HIDE DEF f, p
    <3>4. p \in Positions(files[f], StructureKinds)
      BY <1>1, <3>1, <3>2, <3>3, FileParts DEF Positions
    <3> QED
      BY <3>2, <3>3, <3>4
  <2>2. ASSUME NEW f \in DOMAIN files, NEW p \in Positions(files[f], StructureKinds), IsExported(f, p)
        PROVE  \E q \in P : Sources[q] = << f, p >>
    <3>1. p \in 1 .. Len(files[f]) /\ files[f][p].kind \in StructureKinds
      BY <1>1, FileParts DEF Positions
    <3>2. << f, p >> \in PlacesIn("rest")
      BY <1>1, <2>2, <3>1, StructureKept
    <3>3. PICK q \in b + 1 .. Len(out) : out[q].from = << f, p >>
      BY <1>2, <3>2 DEF Finished, Exactly
    <3>4. q \in 1 .. Len(out) /\ DOMAIN out = 1 .. Len(out)
      BY <1>2, <3>3 DEF Finished
    <3>5. Sources[q] = << f, p >> /\ CopyOf(Written[q], Sources[q], emitter)
      BY <1>1, <1>2, <3>3, <3>4, WrittenIs
    <3>6. Written[q].kind = files[f][p].kind
      BY <3>5 DEF CopyOf
    <3>7. q \in P
      BY <3>1, <3>4, <3>6 DEF Positions, Written
    <3> QED
      BY <3>5, <3>7
  <2> HIDE DEF P
  <2> QED
    BY <2>1, <2>2
<1>4. \A q, r \in P : q < r => InputOrder(Sources[q], Sources[r])
  <2> SUFFICES ASSUME NEW q \in P, NEW r \in P, q < r PROVE InputOrder(Sources[q], Sources[r])
    OBVIOUS
  <2>1. q \in b + 1 .. Len(out) /\ r \in b + 1 .. Len(out)
    BY <1>1, <1>2, StructureWritten
  <2>2. InputOrder(out[q].from, out[r].from)
    BY <1>2, <2>1 DEF Finished, Exactly
  <2>3. q \in DOMAIN out /\ r \in DOMAIN out
    BY <1>2, <2>1 DEF Finished
  <2> QED
    BY <2>2, <2>3 DEF Sources
<1>5. ASSUME NEW q \in Positions(Written, {"var"})
      PROVE  LET s == Sources[q]
             IN  /\ VarPath(Written, q) = VarPath(files[s[1]], s[2])
                 /\ Written[q].code = Offset(s[1]) + files[s[1]][s[2]].code
  <2>1. q \in P /\ Written[q].kind = "var"
    BY DEF Positions, StructureKinds
  <2>2. q \in b + 1 .. Len(out)
    BY <1>1, <1>2, <2>1, StructureWritten
  <2>3. q \in 1 .. Len(out)
    BY <1>2, <2>2 DEF Finished
  <2>4. Sources[q] = out[q].from /\ CopyOf(Written[q], Sources[q], emitter)
    BY <1>1, <1>2, <2>3, WrittenIs
  <2>5. ScopesAt(Written, q) = ScopesAt(files[Sources[q][1]], Sources[q][2])
    BY <1>2, <2>2, <2>4 DEF Finished
  <2> QED
    BY <2>1, <2>4, <2>5 DEF CopyOf, VarPath
<1>6. \A f \in DOMAIN files :
        \A p \in ScopeNotes(f) : Len(files) = 1 \/ ~InPreamble(f, p) => KeepsScope(f, p)
  BY <1>1, <1>2, ScopeNoteKept
<1> QED
  BY <1>3, <1>4, <1>5, <1>6 DEF DeclarationsKept

(* When the export of VCD declarations is done, the scopes and variables   *)
(* of the output are the exported ones of the inputs, in their order, in   *)
(* their scopes, with their names and shifted codes, and structural        *)
(* annotations still describe their scopes, but with several inputs for    *)
(* those before a file's first declaration (write_header): for all inputs  *)
(* that are hierarchies and every selection of variables.                  *)
THEOREM DeclarationsCopied == OutputSpec => []DeclarationsKept
<1>1. OutputInit => XInv
  BY InitXInv
<1>2. XInv /\ [OutputNext]_<< vars, outputVars >> => XInv'
  BY StepXInv
<1>3. XInv => DeclarationsKept
  BY KeptIfXInv
<1> QED
  BY <1>1, <1>2, <1>3, PTL DEF OutputSpec

-----------------------------------------------------------------------------
(* The variable an annotation follows is the last structure before it.     *)
LastBefore(s, n, p, z) ==
    /\ z \in 1 .. n /\ z < p /\ s[z].kind \in StructureKinds
    /\ \A y \in 1 .. n : z < y /\ y < p => s[y].kind \notin StructureKinds

(* It is found by looking at the last one, and is none if that is no       *)
(* variable.                                                               *)
LEMMA OwnerLast ==
    ASSUME NEW s, NEW n \in Nat, DOMAIN s = 1 .. n, NEW p \in 1 .. n
    PROVE  /\ \A z : LastBefore(s, n, p, z) => Owner(s, p) = IF s[z].kind = "var" THEN z ELSE 0
           /\ (\E y \in 1 .. n : y < p /\ s[y].kind \in StructureKinds) => \E z : LastBefore(s, n, p, z)
           /\ Owner(s, p) # 0 => LastBefore(s, n, p, Owner(s, p)) /\ s[Owner(s, p)].kind = "var"
<1> DEFINE B == {q \in Positions(s, StructureKinds) : q < p}
<1>1. B \in SUBSET (1 .. n)
  BY DEF Positions
<1>2. \A q : q \in B <=> q \in 1 .. n /\ s[q].kind \in StructureKinds /\ q < p
  BY DEF Positions
<1>3. Owner(s, p) = IF B # {} /\ s[Max(B)].kind = "var" THEN Max(B) ELSE 0
  BY DEF Owner, StructureKinds
<1> HIDE DEF B
<1>4. ASSUME NEW z, LastBefore(s, n, p, z)
      PROVE  B # {} /\ Max(B) = z
  <2>1. z \in B
    BY <1>2, <1>4 DEF LastBefore
  <2>2. B \in SUBSET (1 .. z)
    BY <1>2, <1>4 DEF LastBefore
  <2>3. z - 1 \in Nat /\ (z - 1) + 1 = z
    BY <1>4 DEF LastBefore
  <2>4. Max(B) = (z - 1) + 1
    BY <2>1, <2>2, <2>3, MaxUpTo
  <2> QED
    BY <2>1, <2>3, <2>4
<1>5. ASSUME B # {} PROVE LastBefore(s, n, p, Max(B))
  <2>1. B \in SUBSET (0 .. n)
    BY <1>1
  <2>2. Max(B) \in B /\ \A y \in B : y <= Max(B)
    BY <1>5, <2>1, GreatestOf
  <2> DEFINE m == Max(B)
  <2>3. m \in B /\ \A y \in B : y <= m
    BY <2>2
  <2> HIDE DEF m
  <2>4. LastBefore(s, n, p, m)
    <3>1. m \in 1 .. n
      BY <1>1, <2>3
    <3>2. ASSUME NEW y \in 1 .. n, m < y PROVE y \notin B
      BY <2>3, <3>1, <3>2
    <3> QED
      BY <1>2, <2>3, <3>1, <3>2 DEF LastBefore
  <2> QED
    BY <2>4 DEF m
<1>6. (\E y \in 1 .. n : y < p /\ s[y].kind \in StructureKinds) => B # {}
  BY <1>2
<1>7. Owner(s, p) # 0 => B # {} /\ Owner(s, p) = Max(B) /\ s[Max(B)].kind = "var"
  BY <1>3
<1> QED
  BY <1>3, <1>4, <1>5, <1>6, <1>7

(* What InputOrder says of two places.                                     *)
LEMMA PlaceOrder ==
    \A f, p, g, q : InputOrder(<< f, p >>, << g, q >>) <=> f < g \/ (f = g /\ p < q)
<1> SUFFICES ASSUME NEW f, NEW p, NEW g, NEW q
             PROVE  InputOrder(<< f, p >>, << g, q >>) <=> f < g \/ (f = g /\ p < q)
  OBVIOUS
<1>1. << f, p >>[1] = f /\ << f, p >>[2] = p /\ << g, q >>[1] = g /\ << g, q >>[2] = q
  OBVIOUS
<1> QED
  BY <1>1 DEF InputOrder

(* An entry of the second pass, its place and its kind.                    *)
LEMMA RestIs ==
    ASSUME FilesOK, NEW b, Finished(b), NEW x \in b + 1 .. Len(out)
    PROVE  \E f \in DOMAIN files : \E p \in 1 .. Len(files[f]) :
             /\ Sources[x] = << f, p >> /\ Written[x].kind = files[f][p].kind
             /\ KeptAt(f, p) /\ x \in 1 .. Len(out) /\ f \in Nat /\ p \in Nat
<1>1. b \in 0 .. Len(out) /\ Len(out) \in Nat
  BY DEF Finished
<1>2. x \in 1 .. Len(out) /\ x > b
  BY <1>1
<1>3. /\ Sources[x] = << Sources[x][1], Sources[x][2] >>
      /\ Sources[x][1] \in DOMAIN files /\ Sources[x][2] \in 1 .. Len(files[Sources[x][1]])
      /\ CopyOf(Written[x], Sources[x], emitter)
      /\ Sources[x] \in PlacesIn("rest")
  BY <1>2, WrittenIs
<1> DEFINE f == Sources[x][1]
           p == Sources[x][2]
<1>4. Written[x].kind = files[f][p].kind /\ KeptAt(f, p)
  BY <1>3 DEF CopyOf, PlacesIn
<1>5. Sources[x] = << f, p >> /\ f \in DOMAIN files /\ p \in 1 .. Len(files[f])
  BY <1>3
<1> HIDE DEF f, p
<1>6. f \in Nat /\ p \in Nat
  <2>1. Len(files[f]) \in Nat /\ f \in 1 .. Len(files)
    BY <1>5, FileParts
  <2> QED
    BY <1>5, <2>1
<1> QED
  BY <1>2, <1>4, <1>5, <1>6

(* An annotation of an exported variable is written by the second pass.    *)
LEMMA AnnotationKept ==
    ASSUME FilesOK, NEW f \in DOMAIN files, NEW p \in 1 .. Len(files[f]), IsAttribute(files[f][p]),
           NEW v, LastBefore(files[f], Len(files[f]), p, v), files[f][v].kind = "var", IsExported(f, v)
    PROVE  << f, p >> \in PlacesIn("rest")
<1>1. /\ << f, p >> \in Places /\ << f, p >>[1] = f /\ << f, p >>[2] = p
      /\ Len(files[f]) \in Nat /\ DOMAIN files[f] = 1 .. Len(files[f])
  BY FileParts DEF Places
<1>2. Owner(files[f], p) = v /\ v \in 1 .. Len(files[f]) /\ v < p
  <2>1. Owner(files[f], p) = IF files[f][v].kind = "var" THEN v ELSE 0
    BY <1>1, OwnerLast
  <2> QED
    BY <2>1 DEF LastBefore
<1>3. VariableAt(f, p) = "kept"
  BY <1>1, <1>2 DEF VariableAt
<1>4. ~PreambleAt(f, p)
  <2>1. v \in 1 .. p - 1
    BY <1>1, <1>2
  <2> QED
    BY <2>1 DEF PreambleAt
<1>5. files[f][p].kind # "var"
  BY DEF IsAttribute
<1>6. KeptAt(f, p)
  BY <1>3, <1>4, <1>5 DEF KeptAt, HoistedAt, DroppedAt, IsExported
<1> QED
  BY <1>1, <1>6 DEF PlacesIn

(* An annotation that follows a variable in the output followed it in its  *)
(* file: one in front of the file is hoisted, one of another variable is   *)
(* dropped or hoisted, unless it is about a scope.                         *)
LEMMA OwnerRead ==
    ASSUME FilesOK, NEW b, Finished(b), NEW x \in 1 .. Len(out), NEW q,
           LastBefore(Written, Len(out), x, q), Written[q].kind = "var",
           Written[x].kind \in Annotations, Written[x].kind = "struct" => ~DescribesScope(Written, x)
    PROVE  /\ x \in b + 1 .. Len(out) /\ q \in b + 1 .. Len(out)
           /\ \E f \in DOMAIN files : \E v, p \in 1 .. Len(files[f]) :
                /\ Sources[x] = << f, p >> /\ Sources[q] = << f, v >>
                /\ LastBefore(files[f], Len(files[f]), p, v)
                /\ files[f][v].kind = "var" /\ files[f][p].kind = Written[x].kind
<1> DEFINE l == Len(out)
<1>1. /\ l \in Nat /\ DOMAIN out = 1 .. l /\ b \in 0 .. l
      /\ \A y : y \in Positions(Written, StructureKinds) <=> y \in 1 .. l /\ Written[y].kind \in StructureKinds
  BY DEF Finished, Positions, Written
<1>2. /\ q \in 1 .. l /\ q < x
      /\ \A y \in 1 .. l : q < y /\ y < x => Written[y].kind \notin StructureKinds
  BY DEF LastBefore
<1>3. q \in b + 1 .. l
  <2>1. q \in Positions(Written, StructureKinds)
    BY <1>1, <1>2 DEF StructureKinds
  <2> QED
    BY <2>1, StructureWritten
<1>4. x \in b + 1 .. l
  BY <1>1, <1>2, <1>3
<1>5. PICK f \in DOMAIN files : \E v \in 1 .. Len(files[f]) :
        Sources[q] = << f, v >> /\ Written[q].kind = files[f][v].kind /\ f \in Nat /\ v \in Nat
  BY <1>3, RestIs
<1>6. PICK v \in 1 .. Len(files[f]) :
        Sources[q] = << f, v >> /\ Written[q].kind = files[f][v].kind /\ f \in Nat /\ v \in Nat
  BY <1>5
<1>7. PICK g \in DOMAIN files : \E p \in 1 .. Len(files[g]) :
        Sources[x] = << g, p >> /\ Written[x].kind = files[g][p].kind /\ KeptAt(g, p) /\ g \in Nat /\ p \in Nat
  BY <1>4, RestIs
<1>8. PICK p \in 1 .. Len(files[g]) :
        Sources[x] = << g, p >> /\ Written[x].kind = files[g][p].kind /\ KeptAt(g, p) /\ g \in Nat /\ p \in Nat
  BY <1>7
<1> DEFINE n == Len(files[g])
<1>9. n \in Nat /\ DOMAIN files[g] = 1 .. n /\ Len(files) \in Nat /\ g \in 1 .. Len(files) /\ f \in 1 .. Len(files)
  <2>1. f \in 1 .. Len(files)
    BY FileParts
  <2>2. n \in Nat /\ DOMAIN files[g] = 1 .. n /\ Len(files) \in Nat /\ g \in 1 .. Len(files)
    BY FileParts
  <2> QED
    BY <2>1, <2>2
<1>10. f < g \/ (f = g /\ v < p)
  <2>1. InputOrder(<< f, v >>, << g, p >>)
    BY <1>2, <1>3, <1>4, <1>6, <1>8, RestOrder
  <2> QED
    BY <2>1, PlaceOrder
<1>11. /\ ~HoistedAt(g, p) /\ ~DroppedAt(g, p) /\ IsAttribute(files[g][p])
       /\ ~IsDefinition(files[g][p]) \/ VariableAt(g, p) # "dropped"
       /\ ~NoteOfScope(g, p)
  <2>1. ~HoistedAt(g, p) /\ ~DroppedAt(g, p) /\ IsAttribute(files[g][p])
    BY <1>8 DEF KeptAt, IsAttribute, Annotations
  <2>2. ~NoteOfScope(g, p)
    <3> SUFFICES ASSUME NoteOfScope(g, p) PROVE FALSE
      OBVIOUS
    <3>1. DescribesScope(files[g], p) /\ files[g][p].kind = "struct"
      BY DEF NoteOfScope
    <3>2. DescribesScope(Written, x)
      BY <1>4, <1>8, <3>1, ScopeNoteWritten
    <3> QED
      BY <1>8, <3>1, <3>2
  <2> QED
    BY <2>1, <2>2 DEF HoistedAt
<1>12. VariableAt(g, p) # "dropped"
  BY <1>11 DEF DroppedAt
<1>13. \E y \in 1 .. n : y < p /\ files[g][y].kind \in StructureKinds
  <2> SUFFICES ASSUME \A y \in 1 .. n : y < p => files[g][y].kind \notin StructureKinds
               PROVE  FALSE
    OBVIOUS
  <2>1. f # g
    BY <1>2, <1>6, <1>10 DEF StructureKinds
  <2>2. Len(files) > 1
    BY <1>9, <1>10, <2>1
  <2>3. PreambleAt(g, p)
    <3>1. \A y \in 1 .. p - 1 : y \in 1 .. n /\ y < p
      BY <1>8, <1>9
    <3> QED
      BY <3>1 DEF PreambleAt, StructureKinds
  <2> QED
    BY <1>11, <2>2, <2>3 DEF HoistedAt
<1>14. PICK z : LastBefore(files[g], n, p, z)
  BY <1>9, <1>13, OwnerLast
<1>15. /\ z \in 1 .. n /\ z < p /\ files[g][z].kind \in StructureKinds
       /\ \A y \in 1 .. n : z < y /\ y < p => files[g][y].kind \notin StructureKinds
  BY <1>14 DEF LastBefore
<1>16. IsExported(g, z)
  <2> SUFFICES ASSUME ~IsExported(g, z) PROVE FALSE
    OBVIOUS
  <2>1. files[g][z].kind = "var"
    BY DEF IsExported
  <2>2. Owner(files[g], p) = z
    BY <1>9, <1>14, <2>1, OwnerLast
  <2>3. z # 0
    BY <1>9, <1>15
  <2> QED
    BY <1>12, <2>2, <2>3 DEF VariableAt
<1>17. << g, z >> \in PlacesIn("rest")
  BY <1>15, <1>16, StructureKept
<1>18. PICK y \in b + 1 .. l : Sources[y] = << g, z >>
  BY <1>17, RestWritten
<1>19. y < x
  <2>1. InputOrder(<< g, z >>, << g, p >>)
    BY <1>15, PlaceOrder
  <2> QED
    BY <1>4, <1>8, <1>18, <2>1, RestOrder
<1>20. y \in 1 .. l /\ Written[y].kind \in StructureKinds
  <2>1. y \in 1 .. l
    BY <1>1
  <2>2. CopyOf(Written[y], << g, z >>, emitter)
    BY <1>18, <2>1, WrittenIs
  <2>3. << g, z >>[1] = g /\ << g, z >>[2] = z
    OBVIOUS
  <2>4. Written[y].kind = files[g][z].kind
    BY <2>2, <2>3 DEF CopyOf
  <2> QED
    BY <1>15, <2>1, <2>4
<1>21. ~(q < y)
  BY <1>2, <1>19, <1>20
<1>22. ~(y < q)
  <2> SUFFICES ASSUME y < q PROVE FALSE
    OBVIOUS
  <2>1. InputOrder(<< g, z >>, << f, v >>)
    <3>1. y \in b + 1 .. l /\ q \in b + 1 .. l /\ y < q
      BY <1>3
    <3>2. InputOrder(Sources[y], Sources[q])
      BY <3>1, RestOrder
    <3> QED
      BY <1>6, <1>18, <3>2
  <2>2. g < f \/ (g = f /\ z < v)
    BY <2>1, PlaceOrder
  <2>3. g = f /\ z < v /\ v < p
    BY <1>6, <1>8, <1>10, <2>2
  <2> QED
    BY <1>2, <1>6, <1>15, <2>3 DEF StructureKinds
<1>23. y = q
  BY <1>2, <1>20, <1>21, <1>22
<1>24. g = f /\ z = v
  <2>1. << g, z >> = << f, v >>
    BY <1>6, <1>18, <1>23
  <2> QED
    BY <2>1
<1> QED
  BY <1>3, <1>4, <1>6, <1>8, <1>14, <1>24

(* The other way round: nothing new comes in between.                      *)
LEMMA OwnerKept ==
    ASSUME FilesOK, NEW b, Finished(b), NEW f \in DOMAIN files, NEW v, NEW p \in 1 .. Len(files[f]),
           LastBefore(files[f], Len(files[f]), p, v),
           NEW q \in b + 1 .. Len(out), Sources[q] = << f, v >>,
           NEW x \in b + 1 .. Len(out), Sources[x] = << f, p >>
    PROVE  LastBefore(Written, Len(out), x, q)
<1> DEFINE l == Len(out)
           n == Len(files[f])
<1>1. /\ l \in Nat /\ DOMAIN out = 1 .. l /\ b \in 0 .. l
      /\ \A y : y \in Positions(Written, StructureKinds) <=> y \in 1 .. l /\ Written[y].kind \in StructureKinds
  BY DEF Finished, Positions, Written
<1>2. /\ v \in 1 .. n /\ v < p /\ files[f][v].kind \in StructureKinds
      /\ \A y \in 1 .. n : v < y /\ y < p => files[f][y].kind \notin StructureKinds
  BY DEF LastBefore
<1>3. q < x
  <2>1. InputOrder(<< f, v >>, << f, p >>)
    BY <1>2, PlaceOrder
  <2> QED
    BY <2>1, RestOrder
<1>4. q \in 1 .. l /\ Written[q].kind \in StructureKinds
  <2>1. q \in 1 .. l
    BY <1>1
  <2>2. CopyOf(Written[q], << f, v >>, emitter)
    BY <2>1, WrittenIs
  <2>3. << f, v >>[1] = f /\ << f, v >>[2] = v
    OBVIOUS
  <2>4. Written[q].kind = files[f][v].kind
    BY <2>2, <2>3 DEF CopyOf
  <2> QED
    BY <1>2, <2>1, <2>4
<1>5. f \in Nat
  BY FileParts
<1>6. ASSUME NEW y \in 1 .. l, q < y, y < x, Written[y].kind \in StructureKinds PROVE FALSE
  <2>1. y \in b + 1 .. l
    BY <1>1, <1>6, StructureWritten
  <2>2. PICK g \in DOMAIN files : \E z \in 1 .. Len(files[g]) :
          Sources[y] = << g, z >> /\ Written[y].kind = files[g][z].kind /\ g \in Nat /\ z \in Nat
    BY <2>1, RestIs
  <2>3. PICK z \in 1 .. Len(files[g]) :
          Sources[y] = << g, z >> /\ Written[y].kind = files[g][z].kind /\ g \in Nat /\ z \in Nat
    BY <2>2
  <2>4. InputOrder(<< f, v >>, << g, z >>)
    BY <1>6, <2>1, <2>3, RestOrder
  <2>5. InputOrder(<< g, z >>, << f, p >>)
    BY <1>6, <2>1, <2>3, RestOrder
  <2>6. (f < g \/ (f = g /\ v < z)) /\ (g < f \/ (g = f /\ z < p))
    BY <2>4, <2>5, PlaceOrder
  <2>7. g = f /\ v < z /\ z < p
    BY <1>5, <2>3, <2>6
  <2> QED
    BY <1>2, <1>6, <2>3, <2>7
<1> QED
  BY <1>3, <1>4, <1>6 DEF LastBefore

(* Positions and their places have the same order, the ends too.           *)
LEMMA CorrespondsOrder ==
    ASSUME FilesOK, NEW b, Finished(b), NEW f \in DOMAIN files,
           NEW x, NEW p, Corresponds(b, f, x, p), NEW y, NEW r, Corresponds(b, f, y, r)
    PROVE  (x < y <=> p < r) /\ (x = y <=> p = r)
<1> DEFINE l == Len(out)
           n == Len(files[f])
<1>1. l \in Nat /\ b \in Nat /\ n \in Nat /\ f \in Nat
  <2>1. n \in Nat /\ f \in Nat
    BY FileParts
  <2> QED
    BY <2>1 DEF Finished
<1>2. \/ x \in b + 1 .. l /\ p \in 1 .. n /\ Sources[x] = << f, p >>
      \/ x = l + 1 /\ p = n + 1
  BY DEF Corresponds
<1>3. \/ y \in b + 1 .. l /\ r \in 1 .. n /\ Sources[y] = << f, r >>
      \/ y = l + 1 /\ r = n + 1
  BY DEF Corresponds
<1>4. CASE x \in b + 1 .. l /\ p \in 1 .. n /\ Sources[x] = << f, p >>
           /\ y \in b + 1 .. l /\ r \in 1 .. n /\ Sources[y] = << f, r >>
  <2>1. /\ x < y <=> InputOrder(Sources[x], Sources[y])
        /\ x = y <=> Sources[x] = Sources[y]
    BY <1>4, RestOrder
  <2>2. InputOrder(<< f, p >>, << f, r >>) <=> f < f \/ (f = f /\ p < r)
    BY PlaceOrder
  <2>3. ~(f < f)
    BY <1>1
  <2>4. << f, p >> = << f, r >> <=> p = r
    OBVIOUS
  <2> QED
    BY <1>4, <2>1, <2>2, <2>3, <2>4
<1>5. CASE x \in b + 1 .. l /\ p \in 1 .. n /\ y = l + 1 /\ r = n + 1
  BY <1>1, <1>5
<1>6. CASE x = l + 1 /\ p = n + 1 /\ y \in b + 1 .. l /\ r \in 1 .. n
  BY <1>1, <1>6
<1>7. CASE x = l + 1 /\ p = n + 1 /\ y = l + 1 /\ r = n + 1
  BY <1>1, <1>7
<1> QED
  BY <1>2, <1>3, <1>4, <1>5, <1>6, <1>7

(* No structural annotation is left open by the export.                    *)
AllClosed == \A f \in DOMAIN files : \A p \in Positions(files[f], {"struct"}) : ~LeftOpen(f, p)

(* Annotations of exported variables take effect where they did.           *)
LEMMA EffectiveWritten ==
    ASSUME FilesOK, NEW b, Finished(b), AllClosed, NEW f \in DOMAIN files, NEW p \in 1 .. Len(files[f]),
           NEW v, LastBefore(files[f], Len(files[f]), p, v), files[f][v].kind = "var", IsExported(f, v),
           NEW x \in b + 1 .. Len(out), Sources[x] = << f, p >>
    PROVE  /\ Corresponds(b, f, Effective(Written, x), Effective(files[f], p))
           /\ Written[x].kind = files[f][p].kind
           /\ files[f][p].kind = "struct" => (DescribesScope(Written, x) <=> DescribesScope(files[f], p))
<1> DEFINE s == files[f]
           n == Len(s)
           l == Len(out)
           t == Settled(s, p)
           r == Settled(Written, x)
<1>1. n \in Nat /\ DOMAIN s = 1 .. n /\ l \in Nat /\ DOMAIN out = 1 .. l /\ b \in 0 .. l /\ p \in 1 .. n
      /\ Len(files) \in Nat /\ f \in 1 .. Len(files)
  <2>1. n \in Nat /\ DOMAIN s = 1 .. n /\ Len(files) \in Nat /\ f \in 1 .. Len(files)
    BY FileParts
  <2> QED
    BY <2>1 DEF Finished
<1>2. \A y \in 1 .. l : \A z : Sources[y] = << f, z >> => Written[y].kind = s[z].kind
  <2> SUFFICES ASSUME NEW y \in 1 .. l, NEW z, Sources[y] = << f, z >> PROVE Written[y].kind = s[z].kind
    OBVIOUS
  <2>1. CopyOf(Written[y], << f, z >>, emitter)
    BY WrittenIs
  <2>2. << f, z >>[1] = f /\ << f, z >>[2] = z
    OBVIOUS
  <2> QED
    BY <2>1, <2>2 DEF CopyOf
<1>3. x \in 1 .. l /\ Written[x].kind = s[p].kind
  <2>1. x \in 1 .. l
    BY <1>1
  <2> QED
    BY <1>2, <2>1
<1>4. CASE s[p].kind # "struct"
  <2>1. Effective(Written, x) = x /\ Effective(s, p) = p
    BY <1>3, <1>4 DEF Effective
  <2>2. Corresponds(b, f, x, p)
    BY <1>1 DEF Corresponds
  <2> QED
    BY <1>3, <1>4, <2>1, <2>2
<1>5. CASE s[p].kind = "struct"
  <2>1. /\ t \in p + 1 .. n + 1 /\ (t <= n => s[t].kind \in Stops)
        /\ \A y \in p + 1 .. n : y < t => s[y].kind \notin Stops
    <3> HIDE DEF s
    <3>1. SettledAt(s, n, p, Settled(s, p))
      BY <1>1, SettledIs
    <3> QED
      BY <3>1 DEF SettledAt
  <2>2. ~LeftOpen(f, p)
    <3>1. p \in Positions(files[f], {"struct"})
      BY <1>1, <1>5 DEF Positions
    <3> QED
      BY <3>1 DEF AllClosed
  <2>3. (t > n => ~(f < Len(files))) /\ (~(t > n) => IsExported(f, t))
    BY <2>2 DEF LeftOpen
  <2> HIDE DEF t
  <2>4. t <= n => << f, t >> \in PlacesIn("rest")
    <3> SUFFICES ASSUME t <= n PROVE << f, t >> \in PlacesIn("rest")
      OBVIOUS
    <3>1. t \in 1 .. n /\ IsExported(f, t) /\ s[t].kind \in Stops /\ p < t
      BY <1>1, <2>1, <2>3
    <3>2. CASE s[t].kind \in StructureKinds
      BY <3>1, <3>2, StructureKept
    <3>3. CASE s[t].kind = "close"
      <4>1. LastBefore(s, n, t, v)
        <5>1. /\ v \in 1 .. n /\ v < p /\ s[v].kind \in StructureKinds
              /\ \A y \in 1 .. n : v < y /\ y < p => s[y].kind \notin StructureKinds
          BY DEF LastBefore
        <5>2. ASSUME NEW y \in 1 .. n, v < y, y < t PROVE s[y].kind \notin StructureKinds
          <6>1. CASE y < p
            BY <5>1, <5>2, <6>1
          <6>2. CASE y = p
            BY <1>5, <6>2 DEF StructureKinds
          <6>3. CASE y > p
            <7>1. y \in p + 1 .. n
              BY <1>1, <6>3
            <7> QED
              BY <2>1, <5>2, <7>1 DEF Stops, StructureKinds
          <6> QED
            BY <1>1, <6>1, <6>2, <6>3
        <5>3. v < t
          BY <1>1, <3>1, <5>1
        <5> QED
          BY <5>1, <5>2, <5>3 DEF LastBefore
      <4>2. IsAttribute(s[t])
        BY <3>3 DEF IsAttribute
      <4> QED
        BY <3>1, <4>1, <4>2, AnnotationKept
    <3> QED
      BY <3>1, <3>2, <3>3 DEF Stops, StructureKinds
  <2>5. t > n => f = Len(files)
    BY <1>1, <2>3
  <2>6. Corresponds(b, f, r, t)
    BY <2>4, <2>5, SettledWritten DEF t
  <2>7. \/ r \in b + 1 .. l /\ t \in 1 .. n /\ Sources[r] = << f, t >>
        \/ r = l + 1 /\ t = n + 1
    BY <2>6 DEF Corresponds
  <2>8. Len(Written) = l
    BY <1>1 DEF Written
  <2>9. Effective(Written, x) = r /\ Effective(s, p) = t
    BY <1>3, <1>5 DEF Effective, t
  <2> DEFINE inside == r <= Len(Written) /\ Written[r].kind = "scope"
             was == t <= n /\ s[t].kind = "scope"
  <2>10. (DescribesScope(Written, x) <=> inside) /\ (DescribesScope(s, p) <=> was)
    BY DEF DescribesScope, t
  <2> HIDE DEF r
  <2>11. CASE r \in b + 1 .. l /\ t \in 1 .. n /\ Sources[r] = << f, t >>
    <3>1. r \in 1 .. l
      BY <1>1, <2>11
    <3>2. Written[r].kind = s[t].kind
      BY <1>2, <2>11, <3>1
    <3>3. r <= Len(Written) /\ t <= n
      BY <1>1, <2>8, <2>11, <3>1
    <3> QED
      BY <1>3, <2>6, <2>9, <2>10, <3>2, <3>3
  <2>12. CASE r = l + 1 /\ t = n + 1
    <3>1. ~(r <= Len(Written)) /\ ~(t <= n)
      BY <1>1, <2>8, <2>12
    <3> QED
      BY <1>3, <2>6, <2>9, <2>10, <3>1
  <2> QED
    BY <2>7, <2>11, <2>12
<1> QED
  BY <1>4, <1>5

(* An entry is written once.                                               *)
LEMMA WrittenOnce ==
    ASSUME FilesOK, NEW b, Finished(b), NEW x \in 1 .. Len(out), NEW y \in 1 .. Len(out),
           Sources[x] = Sources[y]
    PROVE  x = y
<1> DEFINE s == Sources[x]
           l == Len(out)
<1>1. b \in 0 .. l /\ l \in Nat /\ \A q, r \in 1 .. b : q < r => InputOrder(out[q].from, out[r].from)
  BY DEF Finished, Exactly
<1>2. /\ s[1] \in DOMAIN files /\ s[2] \in 1 .. Len(files[s[1]])
      /\ s = out[x].from
      /\ x <= b => s \in PlacesIn("definitions")
      /\ x > b => s \in PlacesIn("rest")
  BY WrittenIs
<1>3. /\ s = out[y].from
      /\ y <= b => s \in PlacesIn("definitions")
      /\ y > b => s \in PlacesIn("rest")
  BY WrittenIs
<1>4. ~(s \in PlacesIn("definitions") /\ s \in PlacesIn("rest"))
  BY DEF PlacesIn, KeptAt
<1>5. CASE x > b /\ y > b
  <2>1. x \in b + 1 .. l /\ y \in b + 1 .. l
    BY <1>1, <1>5
  <2> QED
    BY <2>1, RestOrder
<1>6. CASE x <= b /\ y <= b
  <2>1. x \in 1 .. b /\ y \in 1 .. b
    BY <1>1, <1>6
  <2>2. s[1] \in Nat /\ s[2] \in Nat
    <3> HIDE DEF s
    <3>1. s[1] \in 1 .. Len(files) /\ Len(files[s[1]]) \in Nat
      BY <1>2, FileParts
    <3>2. s[2] \in 1 .. Len(files[s[1]])
      BY <1>2
    <3> QED
      BY <3>1, <3>2
  <2> HIDE DEF s
  <2>3. ~InputOrder(s, s)
    BY <2>2 DEF InputOrder
  <2>4. ~(x < y) /\ ~(y < x)
    BY <1>1, <1>2, <1>3, <2>1, <2>3
  <2> QED
    BY <2>4
<1> HIDE DEF s
<1>7. (x > b \/ x <= b) /\ (y > b \/ y <= b)
  BY <1>1
<1> QED
  BY <1>2, <1>3, <1>4, <1>5, <1>6, <1>7

(* The handles of tables and paths are renumbered, one number for each.    *)
RenumberedAll(definition, use, known) ==
    \A y \in 1 .. Len(out) : Written[y].kind \in {definition, use} =>
        LET k == << Sources[y][1], files[Sources[y][1]][Sources[y][2]].handle >>
        IN  k \in DOMAIN known /\ Written[y].handle = known[k]

(* The emitter numbers all of them.                                        *)
LEMMA RenumberedIs ==
    ASSUME FilesOK, NEW b, Finished(b)
    PROVE  RenumberedAll("def", "ref", emitter.enumIds) /\ RenumberedAll("path", "stem", emitter.pathIds)
<1>1. \A y \in 1 .. Len(out) : CopyOf(Written[y], Sources[y], emitter)
  BY WrittenIs
<1> QED
  BY <1>1 DEF RenumberedAll, CopyOf, Renumbered

(* What a reference can mean: definitions of its handle before it.         *)
Meant(s, definition, p) == {q \in Positions(s, {definition}) : q < p /\ s[q].handle = s[p].handle}

(* A reference means one definition, and means its copy in the output.     *)
RefersTo(definition, f, p, x) ==
    \E d \in 1 .. Len(files[f]) : \E y \in 1 .. Len(out) :
        /\ Sources[y] = << f, d >>
        /\ Meant(files[f], definition, p) = {d} /\ Meant(Written, definition, x) = {y}

(* The definition of a table or a path that is used is written, before its *)
(* use, and no other definition has its number.                            *)
LEMMA DefinitionWritten ==
    ASSUME FilesOK, NEW b, Finished(b), NEW definition \in {"def", "path"}, NEW use,
           NEW known, Injective(known), RenumberedAll(definition, use, known),
           NEW f \in DOMAIN files, DefinedOnce(files[f], definition, use),
           NEW p \in 1 .. Len(files[f]), files[f][p].kind = use,
           NEW x \in b + 1 .. Len(out), Sources[x] = << f, p >>
    PROVE  RefersTo(definition, f, p, x)
<1> DEFINE s == files[f]
           n == Len(s)
           l == Len(out)
<1>1. n \in Nat /\ DOMAIN s = 1 .. n /\ l \in Nat /\ DOMAIN out = 1 .. l /\ b \in 0 .. l
  <2>1. n \in Nat /\ DOMAIN s = 1 .. n
    BY FileParts
  <2> QED
    BY <2>1 DEF Finished
<1>2. /\ \A i, j \in Positions(s, {definition}) : s[i].handle = s[j].handle => i = j
      /\ \E i \in Positions(s, {definition}) : i < p /\ s[i].handle = s[p].handle
  <2>1. p \in Positions(s, {use})
    BY <1>1 DEF Positions
  <2> QED
    BY <2>1 DEF DefinedOnce
<1>3. PICK d \in Positions(s, {definition}) : d < p /\ s[d].handle = s[p].handle
  BY <1>2
<1>4. Meant(s, definition, p) = {d} /\ d \in 1 .. n /\ s[d].kind = definition
  <2>1. Meant(s, definition, p) = {d}
    BY <1>2, <1>3 DEF Meant
  <2> QED
    BY <1>1, <1>3, <2>1 DEF Positions
<1>5. << f, d >> \in PlacesIn("definitions") \/ << f, d >> \in PlacesIn("rest")
  <2>1. << f, d >> \in Places /\ << f, d >>[1] = f /\ << f, d >>[2] = d
    BY <1>1, <1>4 DEF Places
  <2>2. HoistedAt(f, d) \/ KeptAt(f, d)
    BY <1>4 DEF HoistedAt, KeptAt, DroppedAt, IsDefinition, IsExported
  <2> QED
    BY <2>1, <2>2 DEF PlacesIn
<1>6. \E y \in 1 .. l : Sources[y] = << f, d >> /\ y < x
  <2>1. CASE << f, d >> \in PlacesIn("definitions")
    <3>1. PICK y \in 1 .. b : out[y].from = << f, d >>
      BY <2>1 DEF Finished, Exactly
    <3>2. y \in 1 .. l /\ y < x
      BY <1>1
    <3> QED
      BY <1>1, <3>1, <3>2 DEF Sources
  <2>2. CASE << f, d >> \in PlacesIn("rest")
    <3>1. PICK y \in b + 1 .. l : Sources[y] = << f, d >>
      BY <2>2, RestWritten
    <3>2. InputOrder(<< f, d >>, << f, p >>)
      BY <1>3, PlaceOrder
    <3>3. y < x /\ y \in 1 .. l
      BY <3>1, <3>2, RestOrder
    <3> QED
      BY <3>1, <3>3
  <2> QED
    BY <1>5, <2>1, <2>2
<1>7. PICK y \in 1 .. l : Sources[y] = << f, d >> /\ y < x
  BY <1>6
<1>8. /\ << f, d >>[1] = f /\ << f, d >>[2] = d
      /\ << f, p >>[1] = f /\ << f, p >>[2] = p
      /\ \A g, h, i, j : << g, h >> = << i, j >> => g = i /\ h = j
  OBVIOUS
<1>9. x \in 1 .. l
  BY <1>1
<1>10. ASSUME NEW z \in 1 .. l
       PROVE  /\ Sources[z] = << Sources[z][1], Sources[z][2] >>
              /\ Sources[z][1] \in DOMAIN files /\ Sources[z][2] \in 1 .. Len(files[Sources[z][1]])
              /\ Written[z].kind = files[Sources[z][1]][Sources[z][2]].kind
  BY WrittenIs DEF CopyOf
<1>11. Written[x].kind = use /\ Written[y].kind = definition
  BY <1>4, <1>7, <1>8, <1>9, <1>10
<1> DEFINE key == << f, s[p].handle >>
<1>12. key \in DOMAIN known /\ Written[x].handle = known[key]
  BY <1>8, <1>9, <1>11 DEF RenumberedAll
<1>13. Written[y].handle = known[key]
  BY <1>3, <1>7, <1>8, <1>11 DEF RenumberedAll
<1>14. y \in Meant(Written, definition, x)
  <2>1. y \in Positions(Written, {definition})
    BY <1>1, <1>11 DEF Positions, Written
  <2> QED
    BY <1>7, <1>12, <1>13, <2>1 DEF Meant
<1>15. ASSUME NEW z \in Meant(Written, definition, x) PROVE z = y
  <2> DEFINE g == Sources[z][1]
             i == Sources[z][2]
             other == << g, files[g][i].handle >>
  <2>1. z \in 1 .. l /\ Written[z].kind = definition /\ Written[z].handle = Written[x].handle
    BY <1>1 DEF Meant, Positions, Written
  <2>2. other \in DOMAIN known /\ Written[z].handle = known[other]
    BY <2>1 DEF RenumberedAll
  <2>3. Sources[z] = << g, i >> /\ g \in DOMAIN files /\ i \in 1 .. Len(files[g]) /\ files[g][i].kind = definition
    BY <1>10, <2>1
  <2>4. other = key
    <3> HIDE DEF other, key
    <3> QED
      BY <1>12, <2>1, <2>2 DEF Injective
  <2> HIDE DEF g, i
  <2>5. g = f /\ files[g][i].handle = s[p].handle
    BY <1>8, <2>4
  <2>6. i \in Positions(s, {definition}) /\ s[i].handle = s[d].handle
    BY <1>1, <1>3, <2>3, <2>5 DEF Positions
  <2>7. i = d
    BY <1>2, <1>3, <2>6
  <2>8. Sources[z] = Sources[y]
    BY <1>7, <2>3, <2>5, <2>7
  <2> QED
    BY <1>7, <2>1, <2>8, WrittenOnce
<1>16. Meant(Written, definition, x) = {y}
  BY <1>14, <1>15
<1> QED
  BY <1>4, <1>7, <1>16 DEF RefersTo

-----------------------------------------------------------------------------
(* Two sets that correspond in the order of each have corresponding        *)
(* elements at every place.                                                *)
Preserves(M, A, R, Q) == \A x, y \in A : << x, y >> \in R <=> << M[x], M[y] >> \in Q

(* Elements that correspond have equally many before them.                 *)
LEMMA SamePlace ==
    ASSUME NEW A, IsFiniteSet(A), NEW R, NEW B, NEW Q, NEW M \in Bijection(A, B), Preserves(M, A, R, Q)
    PROVE  \A x \in A : Place(B, Q, M[x]) = Place(A, R, x)
<1> SUFFICES ASSUME NEW x \in A PROVE Place(B, Q, M[x]) = Place(A, R, x)
  OBVIOUS
<1> DEFINE S == {y \in A : << y, x >> \in R}
           T == {z \in B : << z, M[x] >> \in Q}
           N == [y \in S |-> M[y]]
<1>1. /\ M \in [A -> B] /\ (\A y, z \in A : M[y] = M[z] => y = z)
      /\ \A z \in B : \E y \in A : M[y] = z
      /\ \A y, z \in A : << y, z >> \in R <=> << M[y], M[z] >> \in Q
  BY DEF Bijection, Injection, Surjection, IsInjective, Preserves
<1>2. N \in [S -> T] /\ \A y \in S : N[y] = M[y]
  BY <1>1
<1>3. \A y, z \in S : N[y] = N[z] => y = z
  BY <1>1, <1>2
<1>4. \A z \in T : \E y \in S : N[y] = z
  <2> SUFFICES ASSUME NEW z \in T PROVE \E y \in S : N[y] = z
    OBVIOUS
  <2>1. PICK y \in A : M[y] = z
    BY <1>1
  <2>2. << y, x >> \in R <=> << M[y], M[x] >> \in Q
    BY <1>1
  <2>3. y \in S
    BY <2>1, <2>2
  <2> QED
    BY <1>2, <2>1, <2>3
<1>5. Place(B, Q, M[x]) = Cardinality(T) + 1 /\ Place(A, R, x) = Cardinality(S) + 1
  BY DEF Place
<1>6. IsFiniteSet(S)
  BY FS_Subset
<1> HIDE DEF N, S, T
<1>7. N \in Bijection(S, T)
  BY <1>2, <1>3, <1>4 DEF Bijection, Injection, Surjection, IsInjective
<1>8. ExistsBijection(S, T)
  BY <1>7 DEF ExistsBijection
<1>9. Cardinality(T) = Cardinality(S)
  BY <1>6, <1>8, FS_Bijection
<1> QED
  BY <1>5, <1>9

(* So the one at a place corresponds to the one at the same place.         *)
LEMMA OrderMapped ==
    ASSUME NEW A, IsFiniteSet(A), NEW R, IsStrictOrder(A, R), NEW B, IsFiniteSet(B), NEW Q, IsStrictOrder(B, Q),
           NEW M \in Bijection(A, B), Preserves(M, A, R, Q)
    PROVE  /\ DOMAIN InOrder(A, R) = DOMAIN InOrder(B, Q)
           /\ \A k \in DOMAIN InOrder(A, R) :
                /\ InOrder(A, R)[k] \in A
                /\ InOrder(B, Q)[k] = M[InOrder(A, R)[k]]
<1> DEFINE f == InOrder(A, R)
           g == InOrder(B, Q)
           n == Cardinality(A)
<1>1. Cardinality(B) = n
  <2>1. ExistsBijection(A, B)
    BY DEF ExistsBijection
  <2> QED
    BY <2>1, FS_Bijection
<1>2. /\ f \in [1 .. n -> A]
      /\ \A k \in 1 .. n : Place(A, R, f[k]) = k
  BY OrderIsOnto
<1>3. /\ g \in [1 .. Cardinality(B) -> B]
      /\ \A z \in B : g[Place(B, Q, z)] = z
  BY OrderIsOnto
<1>4. \A x \in A : M[x] \in B
  BY DEF Bijection, Injection
<1>5. \A x \in A : Place(B, Q, M[x]) = Place(A, R, x)
  BY SamePlace
<1> HIDE DEF f, g, n
<1>6. ASSUME NEW k \in 1 .. n PROVE g[k] = M[f[k]]
  <2>1. f[k] \in A /\ Place(A, R, f[k]) = k
    BY <1>2
  <2>2. Place(B, Q, M[f[k]]) = k /\ M[f[k]] \in B
    BY <1>4, <1>5, <2>1
  <2> QED
    BY <1>3, <2>2
<1>7. DOMAIN f = 1 .. n /\ DOMAIN g = 1 .. n /\ \A k \in 1 .. n : f[k] \in A
  BY <1>1, <1>2, <1>3
<1> QED
  BY <1>6, <1>7 DEF f, g

-----------------------------------------------------------------------------
(* What an annotation refers to is written, and is the only thing it can   *)
(* refer to.                                                               *)
DefinitionOf(use) == IF use = "ref" THEN "def" ELSE "path"

(* Both kinds of reference are kept.                                       *)
LEMMA ReferenceWritten ==
    ASSUME FilesOK, NEW b, Finished(b), IsEmitter(emitter), NEW f \in DOMAIN files, NEW p \in 1 .. Len(files[f]),
           files[f][p].kind \in {"ref", "stem"}, NEW x \in b + 1 .. Len(out), Sources[x] = << f, p >>
    PROVE  RefersTo(DefinitionOf(files[f][p].kind), f, p, x)
<1>1. Injective(emitter.enumIds) /\ Injective(emitter.pathIds)
  BY DEF IsEmitter, Numbering
<1>2. RenumberedAll("def", "ref", emitter.enumIds) /\ RenumberedAll("path", "stem", emitter.pathIds)
  BY RenumberedIs
<1>3. DefinedOnce(files[f], "def", "ref") /\ DefinedOnce(files[f], "path", "stem")
  BY DEF FilesOK, IsHierarchy
<1>4. "def" \in {"def", "path"} /\ "path" \in {"def", "path"}
  OBVIOUS
<1>5. files[f][p].kind = "ref" => RefersTo("def", f, p, x)
  BY <1>1, <1>2, <1>3, <1>4, DefinitionWritten
<1>6. files[f][p].kind = "stem" => RefersTo("path", f, p, x)
  BY <1>1, <1>2, <1>3, <1>4, DefinitionWritten
<1> QED
  BY <1>5, <1>6 DEF DefinitionOf

(* A reference with one meaning refers to it.                              *)
LEMMA ReferentIs ==
    ASSUME NEW s, NEW p, s[p].kind \in {"ref", "stem"}, NEW d \in Nat, Meant(s, DefinitionOf(s[p].kind), p) = {d}
    PROVE  Referent(s, p) = d
<1> DEFINE T == Meant(s, DefinitionOf(s[p].kind), p)
<1>1. Referent(s, p) = IF s[p].kind \notin {"ref", "stem"} \/ T = {} THEN 0 ELSE Max(T)
  BY DEF Referent, Meant, DefinitionOf
<1>2. T = {d} /\ T # {}
  OBVIOUS
<1> HIDE DEF T
<1>3. Max({d}) = d
  BY DEF Max
<1> QED
  BY <1>1, <1>2, <1>3

(* An exported variable has the annotations it had, and no other.          *)
LEMMA AttachedWritten ==
    ASSUME FilesOK, NEW b, Finished(b), IsEmitter(emitter), AllClosed,
           NEW q \in Positions(Written, {"var"}), NEW f \in DOMAIN files, NEW v, Sources[q] = << f, v >>
    PROVE  /\ \A x \in Attached(Written, Annotations, q) :
                /\ x \in b + 1 .. Len(out)
                /\ \E p \in Attached(files[f], Annotations, v) : Sources[x] = << f, p >>
           /\ \A p \in Attached(files[f], Annotations, v) :
                /\ p \in 1 .. Len(files[f]) /\ LastBefore(files[f], Len(files[f]), p, v)
                /\ \E x \in Attached(Written, Annotations, q) : Sources[x] = << f, p >>
           /\ files[f][v].kind = "var" /\ IsExported(f, v)
<1> DEFINE s == files[f]
           n == Len(s)
           l == Len(out)
           w == Written
<1>1. n \in Nat /\ DOMAIN s = 1 .. n /\ l \in Nat /\ DOMAIN out = 1 .. l /\ b \in 0 .. l
  <2>1. n \in Nat /\ DOMAIN s = 1 .. n
    BY FileParts
  <2> QED
    BY <2>1 DEF Finished
<1>2. DOMAIN w = 1 .. l /\ q \in 1 .. l /\ w[q].kind = "var"
  BY <1>1 DEF Written, Positions
<1>3. q \in b + 1 .. l /\ s[v].kind = "var" /\ IsExported(f, v)
  <2>1. q \in Positions(Written, StructureKinds)
    BY <1>2 DEF Positions, StructureKinds
  <2>2. << f, v >>[1] = f /\ << f, v >>[2] = v
    OBVIOUS
  <2>3. q \in b + 1 .. l /\ s[v].kind = w[q].kind /\ IsExported(f, v)
    BY <2>1, <2>2, StructureWritten
  <2> QED
    BY <1>2, <2>3
<1>4. \A y \in 1 .. l : \A z : Sources[y] = << f, z >> => w[y].kind = s[z].kind
  <2> SUFFICES ASSUME NEW y \in 1 .. l, NEW z, Sources[y] = << f, z >> PROVE w[y].kind = s[z].kind
    OBVIOUS
  <2>1. CopyOf(Written[y], << f, z >>, emitter)
    BY WrittenIs
  <2>2. << f, z >>[1] = f /\ << f, z >>[2] = z
    OBVIOUS
  <2> QED
    BY <2>1, <2>2 DEF CopyOf
<1>5. \A u, p : Definitions(u, p) = Meant(u, "def", p)
  BY DEF Definitions, Meant
<1>6. \A u, k, z : z \in Attached(u, Annotations, k) <=>
        /\ z \in DOMAIN u /\ u[z].kind \in Annotations /\ Owner(u, z) = k
        /\ u[z].kind = "struct" => ~DescribesScope(u, z)
        /\ u[z].kind = "ref" => Definitions(u, z) # {}
  BY DEF Attached, Positions
<1>7. ASSUME NEW p \in 1 .. n, LastBefore(s, n, p, v), NEW x \in b + 1 .. l, Sources[x] = << f, p >>
      PROVE  /\ w[x].kind = s[p].kind
             /\ s[p].kind = "struct" => (DescribesScope(w, x) <=> DescribesScope(s, p))
             /\ s[p].kind = "ref" => Definitions(s, p) # {} /\ Definitions(w, x) # {}
  <2>1. /\ w[x].kind = s[p].kind
        /\ s[p].kind = "struct" => (DescribesScope(w, x) <=> DescribesScope(s, p))
    BY <1>3, <1>7, EffectiveWritten
  <2>2. ASSUME s[p].kind = "ref" PROVE Definitions(s, p) # {} /\ Definitions(w, x) # {}
    <3>1. DefinitionOf(s[p].kind) = "def" /\ s[p].kind \in {"ref", "stem"}
      BY <2>2 DEF DefinitionOf
    <3>2. \E d \in 1 .. n : \E y \in 1 .. l :
            Meant(s, DefinitionOf(s[p].kind), p) = {d} /\ Meant(w, DefinitionOf(s[p].kind), x) = {y}
      <4>1. RefersTo(DefinitionOf(s[p].kind), f, p, x)
        BY <1>7, <3>1, ReferenceWritten
      <4> QED
        BY <4>1 DEF RefersTo
    <3> QED
      BY <1>5, <3>1, <3>2
  <2> QED
    BY <2>1, <2>2
<1>8. ASSUME NEW x \in Attached(w, Annotations, q)
      PROVE  x \in b + 1 .. l /\ \E p \in Attached(s, Annotations, v) : Sources[x] = << f, p >>
  <2>1. /\ x \in 1 .. l /\ w[x].kind \in Annotations /\ Owner(w, x) = q
        /\ w[x].kind = "struct" => ~DescribesScope(w, x)
    BY <1>2, <1>6
  <2>2. LastBefore(w, l, x, q)
    <3>1. Owner(w, x) # 0
      BY <1>2, <2>1
    <3> HIDE DEF w
    <3> QED
      BY <1>1, <1>2, <2>1, <3>1, OwnerLast
  <2>3. x \in b + 1 .. l
    BY <1>2, <2>1, <2>2, OwnerRead
  <2>4. \E g \in DOMAIN files : \E i, p \in 1 .. Len(files[g]) :
          /\ Sources[x] = << g, p >> /\ Sources[q] = << g, i >>
          /\ LastBefore(files[g], Len(files[g]), p, i)
    BY <1>2, <2>1, <2>2, OwnerRead
  <2>5. PICK g \in DOMAIN files : \E i, p \in 1 .. Len(files[g]) :
          /\ Sources[x] = << g, p >> /\ Sources[q] = << g, i >>
          /\ LastBefore(files[g], Len(files[g]), p, i)
    BY <2>4
  <2>6. PICK i \in 1 .. Len(files[g]), p \in 1 .. Len(files[g]) :
          /\ Sources[x] = << g, p >> /\ Sources[q] = << g, i >>
          /\ LastBefore(files[g], Len(files[g]), p, i)
    BY <2>5
  <2>7. g = f /\ i = v
    <3>1. << g, i >> = << f, v >>
      BY <2>6
    <3> QED
      BY <3>1
  <2>8. p \in 1 .. n /\ LastBefore(s, n, p, v) /\ Sources[x] = << f, p >>
    BY <2>6, <2>7
  <2>9. Owner(s, p) = v
    <3>1. Owner(s, p) = IF s[v].kind = "var" THEN v ELSE 0
      <4> HIDE DEF s
      <4> QED
        BY <1>1, <2>8, OwnerLast
    <3> QED
      BY <1>3, <3>1
  <2>10. p \in Attached(s, Annotations, v)
    <3>1. /\ w[x].kind = s[p].kind
          /\ s[p].kind = "struct" => (DescribesScope(w, x) <=> DescribesScope(s, p))
          /\ s[p].kind = "ref" => Definitions(s, p) # {} /\ Definitions(w, x) # {}
      BY <1>7, <2>3, <2>8
    <3> HIDE DEF s, w
    <3> QED
      BY <1>1, <1>6, <2>1, <2>8, <2>9, <3>1
  <2> QED
    BY <2>3, <2>8, <2>10
<1>9. ASSUME NEW p \in Attached(s, Annotations, v)
      PROVE  /\ p \in 1 .. n /\ LastBefore(s, n, p, v)
             /\ \E x \in Attached(w, Annotations, q) : Sources[x] = << f, p >>
  <2>1. /\ p \in 1 .. n /\ s[p].kind \in Annotations /\ Owner(s, p) = v
        /\ s[p].kind = "struct" => ~DescribesScope(s, p)
    <3> HIDE DEF s
    <3> QED
      BY <1>1, <1>6
  <2>2. LastBefore(s, n, p, v)
    <3>1. v # 0
      <4>1. v \in 1 .. n
        <5>1. q \in 1 .. l
          BY <1>2
        <5>2. << f, v >>[1] = f /\ << f, v >>[2] = v
          OBVIOUS
        <5>3. Sources[q][2] \in 1 .. Len(files[Sources[q][1]])
          BY <5>1, WrittenIs
        <5> QED
          BY <5>2, <5>3
      <4> QED
        BY <1>1, <4>1
    <3> HIDE DEF s
    <3> QED
      BY <1>1, <2>1, <3>1, OwnerLast
  <2>3. << f, p >> \in PlacesIn("rest")
    <3>1. IsAttribute(s[p])
      BY <2>1 DEF IsAttribute, Annotations
    <3> QED
      BY <1>3, <2>1, <2>2, <3>1, AnnotationKept
  <2>4. PICK x \in b + 1 .. l : Sources[x] = << f, p >>
    BY <2>3, RestWritten
  <2>5. LastBefore(w, l, x, q) /\ x \in 1 .. l
    <3>1. x \in 1 .. l
      BY <1>1
    <3>2. LastBefore(w, l, x, q)
      BY <1>3, <2>1, <2>2, <2>4, OwnerKept
    <3> QED
      BY <3>1, <3>2
  <2>6. Owner(w, x) = q
    <3>1. Owner(w, x) = IF w[q].kind = "var" THEN q ELSE 0
      <4> HIDE DEF w
      <4> QED
        BY <1>1, <1>2, <2>5, OwnerLast
    <3> QED
      BY <1>2, <3>1
  <2>7. x \in Attached(w, Annotations, q)
    <3>1. /\ w[x].kind = s[p].kind
          /\ s[p].kind = "struct" => (DescribesScope(w, x) <=> DescribesScope(s, p))
          /\ s[p].kind = "ref" => Definitions(s, p) # {} /\ Definitions(w, x) # {}
      BY <1>7, <2>1, <2>2, <2>4
    <3> HIDE DEF s, w
    <3> QED
      BY <1>2, <1>6, <2>1, <2>5, <2>6, <3>1
  <2> QED
    BY <2>1, <2>2, <2>4, <2>7
<1> QED
  BY <1>3, <1>8, <1>9

(* For one variable of the output.                                         *)
KeepsAnnotations(q) ==
    LET f == Sources[q][1]
        source == files[f]
        was == AttachedInOrder(source, Sources[q][2])
        is  == AttachedInOrder(Written, q)
    IN  /\ [k \in DOMAIN is |-> Sources[is[k]]] = [k \in DOMAIN was |-> << f, was[k] >>]
        /\ \A k \in DOMAIN is :
             LET r == Referent(Written, is[k])
             IN  IF r = 0 THEN Referent(source, was[k]) = 0
                          ELSE Sources[r] = << f, Referent(source, was[k]) >>

(* Its annotations are those of its entry, in order, and refer to the      *)
(* copies of what they referred to.                                        *)
LEMMA AnnotationsOfOne ==
    ASSUME FilesOK, NEW b, Finished(b), IsEmitter(emitter), AllClosed, NEW q \in Positions(Written, {"var"})
    PROVE  KeepsAnnotations(q)
<1> DEFINE f == Sources[q][1]
           v == Sources[q][2]
           s == files[f]
           w == Written
           n == Len(s)
           l == Len(out)
           A == Attached(w, Annotations, q)
           B == Attached(s, Annotations, v)
           R == Earliest(w)
           Q == Earliest(s)
           M == [x \in A |-> Sources[x][2]]
<1>1. l \in Nat /\ DOMAIN out = 1 .. l /\ b \in 0 .. l /\ DOMAIN w = 1 .. l /\ Len(w) = l
  BY DEF Finished, Written
<1>2. Sources[q] = << f, v >> /\ f \in DOMAIN files
  <2>1. q \in 1 .. l
    BY <1>1 DEF Positions
  <2> QED
    BY <2>1, WrittenIs
<1> HIDE DEF f, v
<1>3. n \in Nat /\ DOMAIN s = 1 .. n
  BY <1>2, FileParts
<1>4. /\ \A x \in A : x \in b + 1 .. l /\ \E p \in B : Sources[x] = << f, p >>
      /\ \A p \in B : p \in 1 .. n /\ LastBefore(s, n, p, v) /\ \E x \in A : Sources[x] = << f, p >>
      /\ s[v].kind = "var" /\ IsExported(f, v)
  BY <1>2, AttachedWritten
<1>5. \A i, j : << i, j >>[2] = j
  OBVIOUS
<1>6. ASSUME NEW x \in A
      PROVE  /\ x \in b + 1 .. l /\ x \in 1 .. l /\ M[x] \in B /\ M[x] \in 1 .. n /\ Sources[x] = << f, M[x] >>
             /\ Corresponds(b, f, x, M[x]) /\ Corresponds(b, f, Effective(w, x), Effective(s, M[x]))
             /\ w[x].kind = s[M[x]].kind
  <2>1. PICK p \in B : Sources[x] = << f, p >>
    BY <1>4
  <2>2. M[x] = p
    BY <1>5, <2>1
  <2>3. p \in 1 .. n /\ LastBefore(s, n, p, v) /\ x \in b + 1 .. l
    BY <1>4
  <2> HIDE DEF M, A, B
  <2>4. x \in 1 .. l
    BY <1>1, <2>3
  <2>5. Corresponds(b, f, Effective(w, x), Effective(s, p)) /\ w[x].kind = s[p].kind
    BY <1>2, <1>4, <2>1, <2>3, EffectiveWritten
  <2>6. Corresponds(b, f, x, p)
    BY <2>1, <2>3 DEF Corresponds
  <2> QED
    BY <2>1, <2>2, <2>3, <2>4, <2>5, <2>6
<1>7. M \in [A -> B] /\ \A x, y \in A : M[x] = M[y] => x = y
  <2>1. \A x \in A : M[x] \in B
    BY <1>6
  <2>2. M \in [A -> B]
    BY <2>1
  <2>3. ASSUME NEW x \in A, NEW y \in A, M[x] = M[y] PROVE x = y
    <3>1. Corresponds(b, f, x, M[x]) /\ Corresponds(b, f, y, M[y])
      BY <1>6
    <3> HIDE DEF M, A
    <3> QED
      BY <1>2, <2>3, <3>1, CorrespondsOrder
  <2> QED
    BY <2>2, <2>3
<1>8. M \in Bijection(A, B)
  <2>1. \A p \in B : \E x \in A : M[x] = p
    BY <1>4, <1>5
  <2> HIDE DEF M, A, B
  <2> QED
    BY <1>7, <2>1 DEF Bijection, Injection, Surjection, IsInjective
<1>9. Preserves(M, A, R, Q)
  <2> SUFFICES ASSUME NEW x \in A, NEW y \in A
               PROVE  << x, y >> \in R <=> << M[x], M[y] >> \in Q
    BY DEF Preserves
  <2>1. /\ x \in DOMAIN w /\ y \in DOMAIN w /\ M[x] \in DOMAIN s /\ M[y] \in DOMAIN s
        /\ Corresponds(b, f, x, M[x]) /\ Corresponds(b, f, y, M[y])
        /\ Corresponds(b, f, Effective(w, x), Effective(s, M[x]))
        /\ Corresponds(b, f, Effective(w, y), Effective(s, M[y]))
    BY <1>1, <1>3, <1>6
  <2> HIDE DEF M, A, B, w, s, R, Q
  <2>2. x < y <=> M[x] < M[y]
    BY <1>2, <2>1, CorrespondsOrder
  <2>3. /\ Effective(w, x) < Effective(w, y) <=> Effective(s, M[x]) < Effective(s, M[y])
        /\ Effective(w, x) = Effective(w, y) <=> Effective(s, M[x]) = Effective(s, M[y])
    BY <1>2, <2>1, CorrespondsOrder
  <2>4. Earlier(w, x, y) <=> Earlier(s, M[x], M[y])
    BY <2>2, <2>3 DEF Earlier
  <2>5. << x, y >> \in Earliest(w) <=> Earlier(w, x, y)
    BY <2>1, EarliestIs
  <2>6. << M[x], M[y] >> \in Earliest(s) <=> Earlier(s, M[x], M[y])
    BY <2>1, EarliestIs
  <2> QED
    BY <2>4, <2>5, <2>6 DEF R, Q
<1>10. IsStrictOrder(A, R) /\ IsFiniteSet(A)
  <2>1. A \in SUBSET (1 .. l)
    BY <1>6
  <2> HIDE DEF A, w
  <2> QED
    BY <1>1, <2>1, EarliestStrict
<1>11. IsStrictOrder(B, Q) /\ IsFiniteSet(B)
  <2>1. B \in SUBSET (1 .. n)
    BY <1>4
  <2>2. Len(s) = n
    OBVIOUS
  <2> HIDE DEF B, s
  <2> QED
    BY <1>3, <2>1, <2>2, EarliestStrict
<1> DEFINE is == InOrder(A, R)
           was == InOrder(B, Q)
<1> HIDE DEF A, B, R, Q, M
<1>12. /\ DOMAIN is = DOMAIN was
       /\ \A k \in DOMAIN is : is[k] \in A /\ was[k] = M[is[k]]
  BY <1>8, <1>9, <1>10, <1>11, OrderMapped
<1>13. AttachedInOrder(Written, q) = is /\ AttachedInOrder(s, v) = was
  BY DEF AttachedInOrder, A, B, R, Q
<1> HIDE DEF is, was
<1>14. \A k \in DOMAIN is : Sources[is[k]] = << f, was[k] >>
  BY <1>6, <1>12
<1>15. [k \in DOMAIN is |-> Sources[is[k]]] = [k \in DOMAIN was |-> << f, was[k] >>]
  BY <1>12, <1>14
<1>16. ASSUME NEW k \in DOMAIN is
       PROVE  LET r == Referent(w, is[k])
              IN  IF r = 0 THEN Referent(s, was[k]) = 0
                           ELSE Sources[r] = << f, Referent(s, was[k]) >>
  <2> DEFINE x == is[k]
             p == was[k]
  <2>1. /\ x \in b + 1 .. l /\ p \in 1 .. n /\ Sources[x] = << f, p >> /\ w[x].kind = s[p].kind
    BY <1>6, <1>12
  <2> HIDE DEF x, p
  <2>2. CASE s[p].kind \notin {"ref", "stem"}
    <3>1. Referent(w, x) = 0 /\ Referent(s, p) = 0
      BY <2>1, <2>2 DEF Referent
    <3> QED
      BY <3>1 DEF x, p
  <2>3. CASE s[p].kind \in {"ref", "stem"}
    <3>1. RefersTo(DefinitionOf(s[p].kind), f, p, x)
      BY <1>2, <2>1, <2>3, ReferenceWritten
    <3>2. PICK d \in 1 .. n : \E y \in 1 .. l :
            /\ Sources[y] = << f, d >>
            /\ Meant(s, DefinitionOf(s[p].kind), p) = {d} /\ Meant(w, DefinitionOf(s[p].kind), x) = {y}
      BY <3>1 DEF RefersTo
    <3>3. PICK y \in 1 .. l :
            /\ Sources[y] = << f, d >>
            /\ Meant(s, DefinitionOf(s[p].kind), p) = {d} /\ Meant(w, DefinitionOf(s[p].kind), x) = {y}
      BY <3>2
    <3>4. d \in Nat /\ y \in Nat /\ y # 0
      BY <1>1, <1>3
    <3>5. Referent(s, p) = d
      <4> HIDE DEF s
      <4> QED
        BY <2>3, <3>3, <3>4, ReferentIs
    <3>6. Referent(w, x) = y
      <4>1. w[x].kind \in {"ref", "stem"} /\ Meant(w, DefinitionOf(w[x].kind), x) = {y}
        BY <2>1, <2>3, <3>3
      <4> HIDE DEF w
      <4> QED
        BY <3>4, <4>1, ReferentIs
    <3> QED
      BY <3>3, <3>4, <3>5, <3>6 DEF x, p
  <2> QED
    BY <2>2, <2>3
<1> QED
  BY <1>13, <1>15, <1>16 DEF KeepsAnnotations, f, v

(* What the property says follows from the invariant.                      *)
LEMMA AnnotationsIfXInv == XInv => AnnotationsKeptIfClosed
<1> SUFFICES ASSUME XInv, AllClosed, result = "ok" PROVE AnnotationsKept
  BY DEF AnnotationsKeptIfClosed, AllClosed, AnnotationsKept
<1>1. FilesOK /\ IsEmitter(emitter)
  BY DEF XInv, XState, Sofar
<1>2. PICK b : Finished(b)
  BY FinishedIs
<1>3. \A q \in Positions(Written, {"var"}) : KeepsAnnotations(q)
  BY <1>1, <1>2, AnnotationsOfOne
<1> QED
  BY <1>3 DEF AnnotationsKept, KeepsAnnotations

(* When the export of VCD declarations is done and no structural           *)
(* annotation was left open, every exported variable has the annotations   *)
(* it had, in the order it had them, with the tables and paths they refer  *)
(* to, and no annotation of another (write_header): for all inputs that    *)
(* are hierarchies and every selection of variables.                       *)
THEOREM AnnotationsCopied == OutputSpec => []AnnotationsKeptIfClosed
<1>1. OutputInit => XInv
  BY InitXInv
<1>2. XInv /\ [OutputNext]_<< vars, outputVars >> => XInv'
  BY StepXInv
<1>3. XInv => AnnotationsKeptIfClosed
  BY AnnotationsIfXInv
<1> QED
  BY <1>1, <1>2, <1>3, PTL DEF OutputSpec
=============================================================================
