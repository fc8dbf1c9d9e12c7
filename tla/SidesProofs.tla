----------------------------- MODULE SidesProofs -----------------------------
(***************************************************************************)
(* From opened files to the handles a comparison compares, for any number  *)
(* of files of any size, any filter and any first side: the merged map is  *)
(* a copy of the files, files are opened together only when no name is     *)
(* displayed in two of them and refused for a name that is, and a handle   *)
(* is mapped to those that share a path with it.  Every step of the code   *)
(* here is a fold over a sequence; each fold is an instance of the lemmas  *)
(* of module DataProofs.                                                   *)
(***************************************************************************)
EXTENDS Sides, DataProofs, FiniteSetTheorems, TLAPS

-----------------------------------------------------------------------------
(* Opened files.                                                           *)

(* All segments of the files; every tree here is an arena over them.       *)
Alphabet == UNION {UNION {SegmentsIn(fs[i].tree) : i \in DOMAIN fs} : fs \in Inputs}

(* The tree of an opened file is an arena whose links agree.               *)
LEMMA TreeIsArena == ASSUME NEW t, IsTree(t) PROVE IsArena(t, SegmentsIn(t)) /\ LinksAgree(t)
<1>1. t \in Seq(ToSet(t)) /\ Len(t) >= 1 /\ NodeAt(t, Root).parent = NoParent /\ LinksAgree(t)
  BY DEF IsTree
<1>2. Ids(t) = 0 .. Len(t) - 1 /\ Len(t) \in Nat
  BY <1>1 DEF Ids
<1>3. ASSUME NEW i \in 1 .. Len(t) PROVE t[i] \in Node(SegmentsIn(t))
  <2>1. t[i] \in ToSet(t)
    BY <1>1
  <2>2. /\ t[i] \in [segment : SegmentsIn(t) \cup {RootSegment}, parent : {NoParent} \cup Nat,
                     children : {t[i].children}]
        /\ t[i].children \in [DOMAIN t[i].children -> Nat]
    BY <2>1 DEF IsTree
  <2>3. NodeAt(t, i - 1) = t[i] /\ i - 1 \in Ids(t)
    BY <1>2 DEF NodeAt
  <2>4. DOMAIN t[i].children \subseteq SegmentsIn(t)
    BY <2>3 DEF SegmentsIn
  <2>5. t[i].children \in UNION {[D -> Nat] : D \in SUBSET SegmentsIn(t)}
    BY <2>2, <2>4
  <2> QED
    BY <2>2, <2>5 DEF Node
<1>4. t \in Seq(Node(SegmentsIn(t)))
  BY <1>1, <1>3
<1> QED
  BY <1>1, <1>4 DEF IsArena

(* What the assumption says of the files of an input.                      *)
LEMMA Opened ==
    ASSUME NEW fs \in Inputs
    PROVE  /\ DOMAIN fs = 1 .. Len(fs) /\ Len(fs) \in Nat \ {0}
           /\ \A i \in DOMAIN fs :
                /\ IsHierarchy(fs[i])
                /\ IsArena(fs[i].tree, Alphabet) /\ LinksAgree(fs[i].tree)
                /\ DOMAIN fs[i].map \in SUBSET Nat /\ IsFiniteSet(DOMAIN fs[i].map)
<1>1. /\ DOMAIN fs = 1 .. Len(fs) /\ Len(fs) \in Nat \ {0}
      /\ \A i \in DOMAIN fs : IsHierarchy(fs[i])
  BY OpenedFiles
<1>2. ASSUME NEW i \in DOMAIN fs
      PROVE  /\ IsArena(fs[i].tree, Alphabet) /\ LinksAgree(fs[i].tree)
             /\ DOMAIN fs[i].map \in SUBSET Nat /\ IsFiniteSet(DOMAIN fs[i].map)
  <2>1. IsTree(fs[i].tree)
    BY <1>1 DEF IsHierarchy
  <2>2. IsArena(fs[i].tree, SegmentsIn(fs[i].tree)) /\ LinksAgree(fs[i].tree)
    BY <2>1, TreeIsArena
  <2>3. SegmentsIn(fs[i].tree) \subseteq Alphabet
    BY DEF Alphabet
  <2>4. IsArena(fs[i].tree, Alphabet)
    BY <2>2, <2>3, ArenaWider
  <2> QED
    BY <1>1, <2>2, <2>4 DEF IsHierarchy
<1> QED
  BY <1>1, <1>2

(* The variables of a handle.                                              *)
LEMMA VariablesOf ==
    ASSUME NEW file, IsHierarchy(file), NEW h \in DOMAIN file.map
    PROVE  /\ Len(file.map[h]) \in Nat /\ DOMAIN file.map[h] = 1 .. Len(file.map[h])
           /\ \A k \in DOMAIN file.map[h] : /\ "name" \in DOMAIN file.map[h][k]
                                            /\ file.map[h][k].name \in Ids(file.tree)
<1>1. file.map[h] \in Seq(ToSet(file.map[h]))
  BY DEF IsHierarchy
<1>2. \A v \in ToSet(file.map[h]) : "name" \in DOMAIN v /\ v.name \in Ids(file.tree)
  BY DEF IsHierarchy
<1>3. Len(file.map[h]) \in Nat /\ DOMAIN file.map[h] = 1 .. Len(file.map[h])
  BY <1>1
<1>4. \A k \in DOMAIN file.map[h] : file.map[h][k] \in ToSet(file.map[h])
  BY DEF ToSet
<1> QED
  BY <1>2, <1>3, <1>4

-----------------------------------------------------------------------------
(* Interning a path.                                                       *)

(* The tree u is t with more nodes: ids of t keep their paths.             *)
Grown(t, u) ==
    /\ IsArena(u, Alphabet) /\ LinksAgree(u)
    /\ Ids(t) \subseteq Ids(u)
    /\ \A id \in Ids(t) : Segments(u, id) = Segments(t, id)

InternOp(with, acc, s) ==
    [tree |-> Interned(acc.tree, acc.id, s), id |-> InternedId(acc.tree, acc.id, s)]

Interning == INSTANCE DataProofs WITH Op <- InternOp

(* What there is after the first k segments of a path.                     *)
InternedUpTo(t, path, k, acc) ==
    /\ Grown(t, acc.tree) /\ acc.id \in Ids(acc.tree)
    /\ Segments(acc.tree, acc.id) = SubSeq(path, 1, k)

(* One segment more.                                                       *)
LEMMA SegmentInterned ==
    ASSUME NEW t, NEW path \in Seq(Alphabet), NEW k \in 1 .. Len(path),
           NEW acc, InternedUpTo(t, path, k - 1, acc)
    PROVE  InternedUpTo(t, path, k, InternOp(0, acc, path[k]))
<1> DEFINE u == acc.tree
           p == acc.id
           s == path[k]
           v == Interned(u, p, s)
           id == InternedId(u, p, s)
<1>1. InternOp(0, acc, path[k]).tree = v /\ InternOp(0, acc, path[k]).id = id
  BY DEF InternOp
<1>2. Grown(t, u) /\ p \in Ids(u) /\ Segments(u, p) = SubSeq(path, 1, k - 1)
  BY DEF InternedUpTo
<1>3. s \in Alphabet
  OBVIOUS
<1> HIDE DEF u, p, s
<1>4. IsArena(u, Alphabet) /\ LinksAgree(u)
  BY <1>2 DEF Grown
<1>5. IsArena(v, Alphabet) /\ LinksAgree(v) /\ Ids(u) \subseteq Ids(v) /\ id \in Ids(v)
  BY <1>2, <1>3, <1>4, InternArena, InternLinks, InternIds
<1>6. /\ \A i \in Ids(u) : Segments(v, i) = Segments(u, i)
      /\ Segments(v, id) = Append(Segments(u, p), s)
  BY <1>2, <1>3, <1>4, InternPaths
<1> HIDE DEF v, id
<1>7. Grown(t, v)
  BY <1>2, <1>5, <1>6 DEF Grown
<1>8. Segments(v, id) = SubSeq(path, 1, k)
  <2>1. Append(SubSeq(path, 1, k - 1), path[k]) = SubSeq(path, 1, k)
    OBVIOUS
  <2> QED
    BY <1>2, <1>6, <2>1 DEF s
<1> QED
  BY <1>1, <1>5, <1>7, <1>8 DEF InternedUpTo

(* Interning a path gives an id that has it and disturbs no other id.      *)
LEMMA PathInterned ==
    ASSUME NEW t, IsArena(t, Alphabet), LinksAgree(t), NEW path \in Seq(Alphabet)
    PROVE  LET r == InternPath(t, path)
           IN  Grown(t, r.tree) /\ r.id \in Ids(r.tree) /\ Segments(r.tree, r.id) = path
<1> DEFINE n == Len(path)
           base == [tree |-> t, id |-> Root]
<1>1. n \in Nat /\ DOMAIN path = 1 .. n
  OBVIOUS
<1>2. InternPath(t, path) = Interning!Fold(0, base, path)
  BY DEF InternPath, InternOp, Interning!Fold, FoldLeft, MapThenFoldSet,
         Interning!FoldLeft, Interning!MapThenFoldSet, Max, Interning!Max
<1>3. PICK acc : Interning!FoldedBy(acc, 0, base, path, n)
  <2> HIDE DEF base
  <2> QED
    BY <1>1, Interning!FoldSteps
<1>4. /\ acc[0] = base
      /\ \A k \in 1 .. n : acc[k] = InternOp(0, acc[k - 1], path[k])
      /\ InternPath(t, path) = acc[n]
  BY <1>2, <1>3 DEF Interning!FoldedBy
<1> DEFINE holds == {k \in 0 .. n : InternedUpTo(t, path, k, acc[k])}
<1>5. 0 \in holds
  <2>1. Rooted(t) /\ Root \in Ids(t)
    BY ArenaRooted DEF Rooted, Root, Ids
  <2>2. Segments(t, Root) = <<>> /\ SubSeq(path, 1, 0) = <<>>
    BY <2>1, SegmentsSteps
  <2>3. Grown(t, t)
    BY DEF Grown
  <2>4. InternedUpTo(t, path, 0, base)
    BY <2>1, <2>2, <2>3 DEF InternedUpTo
  <2> QED
    BY <1>1, <1>4, <2>4
<1>6. ASSUME NEW k \in 1 .. n, k - 1 \in holds PROVE k \in holds
  <2>1. InternedUpTo(t, path, k - 1, acc[k - 1])
    BY <1>6
  <2>2. InternedUpTo(t, path, k, InternOp(0, acc[k - 1], path[k]))
    BY <2>1, SegmentInterned
  <2> QED
    BY <1>4, <2>2
<1> HIDE DEF holds
<1>7. n \in holds
  <2> HIDE DEF n
  <2> QED
    BY <1>1, <1>5, <1>6, UpTo
<1>8. SubSeq(path, 1, n) = path
  OBVIOUS
<1> QED
  BY <1>4, <1>7, <1>8 DEF holds, InternedUpTo

-----------------------------------------------------------------------------
(* Handles and offsets.                                                    *)

(* A finite set of numbers that is not empty has a greatest element.       *)
LEMMA GreatestOf ==
    ASSUME NEW T \in SUBSET Nat, IsFiniteSet(T), T # {}
    PROVE  Max(T) \in T /\ \A x \in T : x <= Max(T)
<1>1. PICK n \in Nat : ExistsSurjection(1 .. n, T)
  BY FS_NatSurjection
<1>2. PICK f : f \in Surjection(1 .. n, T)
  BY <1>1 DEF ExistsSurjection
<1>3. /\ \A k \in 1 .. n : f[k] \in T
      /\ \A x \in T : \E k \in 1 .. n : f[k] = x
  BY <1>2 DEF Surjection
<1> DEFINE holds == {k \in 0 .. n : k > 0 => \E m \in T : \A j \in 1 .. k : f[j] <= m}
<1>4. 0 \in holds
  OBVIOUS
<1>5. ASSUME NEW k \in 1 .. n, k - 1 \in holds PROVE k \in holds
  <2>1. \E m \in T : \A j \in 1 .. k : f[j] <= m
    <3>1. CASE k = 1
      <4>1. \A j \in 1 .. k : j = k
        BY <3>1
      <4>2. f[k] \in T /\ f[k] \in Nat
        BY <1>3
      <4> QED
        BY <4>1, <4>2
    <3>2. CASE k # 1
      <4>1. PICK m \in T : \A j \in 1 .. k - 1 : f[j] <= m
        BY <1>5, <3>2
      <4>2. f[k] \in T /\ f[k] \in Nat /\ m \in Nat
        BY <1>3
      <4>3. \A j \in 1 .. k : j = k \/ j \in 1 .. k - 1
        OBVIOUS
      <4>4. CASE f[k] <= m
        BY <4>1, <4>3, <4>4
      <4>5. CASE ~(f[k] <= m)
        <5>1. \A j \in 1 .. k - 1 : f[j] \in Nat
          <6>1. \A j \in 1 .. k - 1 : j \in 1 .. n
            OBVIOUS
          <6> QED
            BY <6>1, <1>3
        <5>2. \A j \in 1 .. k - 1 : f[j] <= f[k]
          BY <5>1, <4>1, <4>2, <4>5
        <5> QED
          BY <5>2, <4>2, <4>3
      <4> QED
        BY <4>4, <4>5
    <3> QED
      BY <3>1, <3>2
  <2> QED
    BY <2>1
<1> HIDE DEF holds
<1>6. n \in holds
  BY <1>4, <1>5, UpTo
<1>7. \E m \in T : \A x \in T : x <= m
  <2>1. n > 0
    <3>1. PICK x \in T : TRUE
      OBVIOUS
    <3>2. PICK k \in 1 .. n : f[k] = x
      BY <1>3, <3>1
    <3> QED
      OBVIOUS
  <2>2. PICK m \in T : \A j \in 1 .. n : f[j] <= m
    BY <1>6, <2>1 DEF holds
  <2> QED
    BY <1>3, <2>2
<1>8. \E m \in T : \A x \in T : m >= x
  BY <1>7
<1> QED
  BY <1>8 DEF Max

(* A file takes as many merged handles as its offset leaves room for.      *)
SpanOf(T) == (IF T = {} THEN 0 ELSE Max(T)) + 1

LEMMA SpanCovers ==
    ASSUME NEW T \in SUBSET Nat, IsFiniteSet(T)
    PROVE  /\ SpanOf(T) \in Nat \ {0}
           /\ \A x \in T : x < SpanOf(T)
           /\ Cardinality(T) \in Nat /\ Cardinality(T) <= SpanOf(T)
<1>1. Cardinality(T) \in Nat
  BY FS_CardinalityType
<1>2. CASE T = {}
  <2>1. SpanOf(T) = 1 /\ Cardinality(T) = 0
    BY <1>2, FS_EmptySet DEF SpanOf
  <2> QED
    BY <1>1, <1>2, <2>1
<1>3. CASE T # {}
  <2> DEFINE m == Max(T)
  <2>1. m \in T /\ \A x \in T : x <= m
    BY <1>3, GreatestOf
  <2>2. SpanOf(T) = m + 1
    BY <1>3 DEF SpanOf
  <2> HIDE DEF m
  <2>3. m \in Nat
    BY <2>1
  <2>4. Cardinality(T) <= m + 1
    BY <2>1, <2>3, FS_BoundedSetOfNaturals
  <2> QED
    BY <1>1, <2>1, <2>2, <2>3, <2>4
<1> QED
  BY <1>2, <1>3

-----------------------------------------------------------------------------
(* Merging the variables of one handle.                                    *)

LEMMA GrownFurther == ASSUME NEW t, NEW u, NEW v, Grown(t, u), Grown(u, v) PROVE Grown(t, v)
  BY DEF Grown

(* A sequence of anything is one more element long after Append.           *)
IsRow(s, n) == s = [j \in 1 .. n |-> s[j]]

LEMMA RowAppended ==
    ASSUME NEW n \in Nat, NEW s, IsRow(s, n), NEW e
    PROVE  /\ IsRow(Append(s, e), n + 1)
           /\ \A j \in 1 .. n : Append(s, e)[j] = s[j]
           /\ Append(s, e)[n + 1] = e
<1> DEFINE X == {s[j] : j \in 1 .. n} \cup {e}
<1>1. s \in Seq(X) /\ e \in X /\ Len(s) = n
  <2>1. s = [j \in 1 .. n |-> s[j]] /\ \A j \in 1 .. n : s[j] \in X
    BY DEF IsRow
  <2> HIDE DEF X
  <2>2. s \in [1 .. n -> X]
    BY <2>1
  <2>3. e \in X
    BY DEF X
  <2>4. DOMAIN s = 1 .. n
    BY <2>1
  <2> QED
    BY <2>2, <2>3, <2>4
<1> HIDE DEF X
<1>2. Append(s, e) \in Seq(X) /\ Len(Append(s, e)) = n + 1
  BY <1>1
<1>3. /\ \A j \in 1 .. n : Append(s, e)[j] = s[j]
      /\ Append(s, e)[n + 1] = e
  BY <1>1
<1>5. \A q \in Seq(X) : q = [j \in 1 .. Len(q) |-> q[j]]
  OBVIOUS
<1>6. Append(s, e) = [j \in 1 .. n + 1 |-> Append(s, e)[j]]
  BY <1>2, <1>5
<1> QED
  BY <1>3, <1>6 DEF IsRow

GrownRow(s, e, n) ==
    /\ IsRow(Append(s, e), n + 1)
    /\ \A j \in 1 .. n : Append(s, e)[j] = s[j]
    /\ Append(s, e)[n + 1] = e

LEMMA RowsAppended == \A n \in Nat : \A s, e : IsRow(s, n) => GrownRow(s, e, n)
  BY RowAppended DEF GrownRow

LEMMA RowLength == ASSUME NEW n \in Nat, NEW s, IsRow(s, n) PROVE Len(s) = n /\ DOMAIN s = 1 .. n
<1>1. s = [j \in 1 .. n |-> s[j]]
  BY DEF IsRow
<1>2. DOMAIN s = 1 .. n
  BY <1>1
<1>3. s \in Seq({s[j] : j \in 1 .. n})
  BY <1>1
<1> QED
  BY <1>2, <1>3

(* What is known of a variable of an opened file.                          *)
LEMMA VariableOf ==
    ASSUME NEW fs \in Inputs, NEW i \in DOMAIN fs, NEW h \in DOMAIN fs[i].map,
           NEW k \in DOMAIN fs[i].map[h]
    PROVE  /\ "name" \in DOMAIN fs[i].map[h][k]
           /\ PathIn(fs[i], fs[i].map[h][k]) \in Seq(Alphabet)
           /\ FlatName(PathIn(fs[i], fs[i].map[h][k])) \in Displays
<1> DEFINE file == fs[i]
           var == file.map[h][k]
<1>1. IsHierarchy(file) /\ IsArena(file.tree, Alphabet) /\ LinksAgree(file.tree)
  BY Opened
<1>2. "name" \in DOMAIN var /\ var.name \in Ids(file.tree)
  BY <1>1, VariablesOf
<1>3. Segments(file.tree, var.name) \in Seq(Alphabet)
  BY <1>1, <1>2, SegmentsTyped, ArenaRooted
<1>4. FlatName(Segments(file.tree, var.name)) \in Displays
  BY <1>2 DEF Displays
<1> QED
  BY <1>2, <1>3, <1>4 DEF PathIn

(* A variable that was merged: the same, with a name in the merged tree    *)
(* that has its path.                                                      *)
IsCopy(t, w, file, var) ==
    /\ "name" \in DOMAIN w /\ w.name \in Ids(t)
    /\ Described(t, w) = Described(file.tree, var)

(* It has the path of its original, and stays a copy in a larger tree.     *)
LEMMA CopyPath ==
    ASSUME NEW t, NEW w, NEW file, NEW var, "name" \in DOMAIN var, IsCopy(t, w, file, var)
    PROVE  Segments(t, w.name) = PathIn(file, var)
<1>1. Described(t, w).name = Segments(t, w.name)
  BY DEF IsCopy, Described
<1>2. Described(file.tree, var).name = Segments(file.tree, var.name)
  BY DEF Described
<1> QED
  BY <1>1, <1>2 DEF IsCopy, PathIn

LEMMA CopyKept ==
    ASSUME NEW t, NEW u, Grown(t, u), NEW w, NEW file, NEW var, IsCopy(t, w, file, var)
    PROVE  IsCopy(u, w, file, var)
<1>1. w.name \in Ids(u) /\ Segments(u, w.name) = Segments(t, w.name)
  BY DEF Grown, IsCopy
<1>2. Described(u, w) = Described(t, w)
  BY <1>1 DEF Described
<1> QED
  BY <1>1, <1>2 DEF IsCopy

FlatHere(var) == FileFlat(current, var)

(* The first k variables of a handle were merged, or two names clashed and *)
(* r is the error.                                                         *)
Copied(vs, k, acc) ==
    /\ Grown(tree, acc.tree)
    /\ IsRow(acc.vars, k)
    /\ \A j \in 1 .. k : IsCopy(acc.tree, acc.vars[j], files[current], vs[j])
    /\ DOMAIN acc.seen = DOMAIN seen \cup {FlatHere(vs[j]) : j \in 1 .. k}
    /\ \A flat \in DOMAIN acc.seen : acc.seen[flat] \in Nat
    /\ \A flat \in DOMAIN seen : acc.seen[flat] = seen[flat]
    /\ \A j \in 1 .. k : acc.seen[FlatHere(vs[j])] = current
    /\ \A j \in 1 .. k : FlatHere(vs[j]) \notin DOMAIN seen
    /\ \A i, j \in 1 .. k : i # j => FlatHere(vs[i]) # FlatHere(vs[j])

Duplicate(flat, i, j) == [kind |-> "duplicate", name |-> flat, first |-> i, second |-> j]

Clash(vs, k, r) ==
    \E j \in 1 .. k :
       \/ /\ FlatHere(vs[j]) \in DOMAIN seen
          /\ r = Duplicate(FlatHere(vs[j]), seen[FlatHere(vs[j])], current)
       \/ /\ \E i \in 1 .. k : i # j /\ FlatHere(vs[i]) = FlatHere(vs[j])
          /\ r = Duplicate(FlatHere(vs[j]), current, current)

MergedUpTo(vs, k, acc) ==
    /\ acc = [tree |-> acc.tree, seen |-> acc.seen, enums |-> acc.enums,
              vars |-> acc.vars, refusal |-> acc.refusal]
    /\ acc.refusal = None => Copied(vs, k, acc)
    /\ acc.refusal # None => Clash(vs, k, acc.refusal)

(* The name that is checked is one part of a table's name: no enum is ever *)
(* found to be qualified, none conflicts.                                  *)
LEMMA NeverChecked == \A enum : ~Checked(enum)
<1> TAKE enum
<1>1. Len(NameChecked(enum.table)) = 1
  BY DEF NameChecked
<1> QED
  BY <1>1 DEF Checked, Qualified

(* One variable more.                                                      *)
LEMMA VariableMerged ==
    ASSUME files \in Inputs, current \in DOMAIN files,
           IsArena(tree, Alphabet), LinksAgree(tree),
           NEW h \in Handles(current), NEW k \in DOMAIN files[current].map[h],
           NEW acc, MergedUpTo(files[current].map[h], k - 1, acc)
    PROVE  MergedUpTo(files[current].map[h], k, MergeVar(acc, files[current].map[h][k]))
<1> DEFINE file == files[current]
           vs == file.map[h]
           var == vs[k]
           path == PathIn(file, var)
           flat == FlatName(path)
           leaf == InternPath(acc.tree, path)
<1>1. /\ "name" \in DOMAIN var /\ path \in Seq(Alphabet) /\ flat \in Displays
      /\ current \in Nat /\ k \in Nat \ {0} /\ DOMAIN vs = 1 .. Len(vs)
  <2>1. DOMAIN files = 1 .. Len(files) /\ IsHierarchy(file) /\ h \in DOMAIN file.map
    BY Opened DEF Handles
  <2>2. Len(vs) \in Nat /\ DOMAIN vs = 1 .. Len(vs)
    BY <2>1, VariablesOf
  <2> QED
    BY <2>1, <2>2, VariableOf
<1>2. flat = FlatHere(var)
  BY DEF FlatHere, FileFlat
<1>3. CASE acc.refusal # None
  <2>1. MergeVar(acc, var) = acc
    BY <1>3 DEF MergeVar
  <2>2. Clash(vs, k - 1, acc.refusal)
    BY <1>3 DEF MergedUpTo
  <2>3. Clash(vs, k, acc.refusal)
    <3>1. \A j \in 1 .. k - 1 : j \in 1 .. k
      BY <1>1
    <3> QED
      BY <2>2, <3>1 DEF Clash
  <2> QED
    BY <1>3, <2>1, <2>3 DEF MergedUpTo
<1>4. CASE acc.refusal = None /\ flat \in DOMAIN acc.seen
  <2> DEFINE refused == Duplicate(flat, acc.seen[flat], current)
  <2>1. Copied(vs, k - 1, acc)
    BY <1>4 DEF MergedUpTo
  <2>2. MergeVar(acc, var) = [acc EXCEPT !.refusal = refused]
    BY <1>4 DEF MergeVar, SeenBefore, Duplicate
  <2>3. refused # None
    <3>1. acc.seen[flat] \in Nat
      BY <1>4, <2>1 DEF Copied
    <3>2. refused \in [kind : {"duplicate"}, name : Displays, first : Nat, second : Nat]
      BY <1>1, <3>1 DEF Duplicate
    <3> QED
      BY <3>2, NoneAndAll
  <2>4. Clash(vs, k, refused)
    <3>1. flat \in DOMAIN seen \/ \E i \in 1 .. k - 1 : flat = FlatHere(vs[i])
      BY <1>4, <2>1 DEF Copied
    <3>2. CASE flat \in DOMAIN seen
      <4>1. acc.seen[flat] = seen[flat]
        BY <2>1, <3>2 DEF Copied
      <4>2. refused = Duplicate(flat, seen[flat], current) /\ k \in 1 .. k
        BY <1>1, <4>1
      <4> HIDE DEF refused, flat
      <4> QED
        BY <1>2, <3>2, <4>2 DEF Clash
    <3>3. ASSUME NEW i \in 1 .. k - 1, flat = FlatHere(vs[i]) PROVE Clash(vs, k, refused)
      <4>1. i \in 1 .. k /\ k \in 1 .. k /\ i # k
        BY <1>1
      <4>2. acc.seen[flat] = current
        BY <2>1, <3>3 DEF Copied
      <4>3. refused = Duplicate(flat, current, current)
        BY <4>2
      <4> HIDE DEF refused, flat
      <4> QED
        BY <1>2, <3>3, <4>1, <4>3 DEF Clash
    <3> QED
      BY <3>1, <3>2, <3>3
  <2> HIDE DEF refused
  <2>5. acc = [tree |-> acc.tree, seen |-> acc.seen, enums |-> acc.enums,
               vars |-> acc.vars, refusal |-> acc.refusal]
    BY DEF MergedUpTo
  <2>6. MergeVar(acc, var) = [tree |-> acc.tree, seen |-> acc.seen, enums |-> acc.enums,
                              vars |-> acc.vars, refusal |-> refused]
    BY <2>2, <2>5
  <2> QED
    BY <2>3, <2>4, <2>6 DEF MergedUpTo
<1>5. CASE acc.refusal = None /\ flat \notin DOMAIN acc.seen
  <2> DEFINE w == [var EXCEPT !.name = leaf.id]
             next == [tree |-> leaf.tree, seen |-> Bind(acc.seen, flat, current),
                      enums |-> acc.enums, vars |-> Append(acc.vars, w), refusal |-> None]
  <2>1. Copied(vs, k - 1, acc)
    BY <1>5 DEF MergedUpTo
  <2>2. MergeVar(acc, var) = next
    <3>1. ~Conflicts(var.enum, acc.enums)
      BY NeverChecked DEF Conflicts
    <3>2. MergeVar(acc, var) =
            [acc EXCEPT !.tree = leaf.tree, !.seen = Bind(acc.seen, flat, current),
                        !.enums = acc.enums, !.vars = Append(acc.vars, w)]
      BY <1>5, <3>1, NeverChecked DEF MergeVar, SeenBefore
    <3>3. acc = [tree |-> acc.tree, seen |-> acc.seen, enums |-> acc.enums,
                 vars |-> acc.vars, refusal |-> None]
      BY <1>5 DEF MergedUpTo
    <3> DEFINE newSeen == Bind(acc.seen, flat, current)
               newVars == Append(acc.vars, w)
    <3> HIDE DEF leaf, flat, w, newSeen, newVars
    <3>4. [acc EXCEPT !.tree = leaf.tree, !.seen = newSeen, !.enums = acc.enums, !.vars = newVars]
            = [tree |-> leaf.tree, seen |-> newSeen, enums |-> acc.enums, vars |-> newVars,
               refusal |-> None]
      <4>1. DOMAIN acc = {"tree", "seen", "enums", "vars", "refusal"} /\ acc.refusal = None
        BY <3>3, <1>5
      <4> DEFINE r == [acc EXCEPT !.tree = leaf.tree, !.seen = newSeen,
                                  !.enums = acc.enums, !.vars = newVars]
      <4>2. r = [x \in {"tree", "seen", "enums", "vars", "refusal"} |-> r[x]]
        BY <4>1
      <4>3. r.tree = leaf.tree /\ r.seen = newSeen /\ r.enums = acc.enums
        BY <4>1
      <4>4. r.vars = newVars /\ r.refusal = None
        BY <4>1
      <4> HIDE DEF r
      <4>5. r = [tree |-> leaf.tree, seen |-> newSeen, enums |-> acc.enums, vars |-> newVars,
                 refusal |-> None]
        BY <4>2, <4>3, <4>4
      <4> QED
        BY <4>5 DEF r
    <3> QED
      BY <3>2, <3>4 DEF newSeen, newVars
  <2>3. /\ Grown(acc.tree, leaf.tree) /\ leaf.id \in Ids(leaf.tree)
        /\ Segments(leaf.tree, leaf.id) = path
    <3>1. IsArena(acc.tree, Alphabet) /\ LinksAgree(acc.tree)
      BY <2>1 DEF Copied, Grown
    <3> QED
      BY <1>1, <3>1, PathInterned
  <2>4. Grown(tree, leaf.tree)
    BY <2>1, <2>3, GrownFurther DEF Copied
  <2>5. IsCopy(leaf.tree, w, file, var)
    <3>1. w.name = leaf.id /\ DOMAIN w = DOMAIN var
      BY <1>1
    <3>2. \A x \in DOMAIN var : x # "name" => w[x] = var[x]
      OBVIOUS
    <3>3. Segments(leaf.tree, w.name) = Segments(file.tree, var.name)
      BY <2>3, <3>1 DEF PathIn
    <3> HIDE DEF w, leaf, var, file
    <3>4. Described(leaf.tree, w) = Described(file.tree, var)
      BY <3>1, <3>2, <3>3 DEF Described
    <3> QED
      BY <1>1, <2>3, <3>1, <3>4 DEF IsCopy
  <2>6. /\ IsRow(Append(acc.vars, w), k)
        /\ \A j \in 1 .. k - 1 : Append(acc.vars, w)[j] = acc.vars[j]
        /\ Append(acc.vars, w)[k] = w
    <3>1. k - 1 \in Nat /\ IsRow(acc.vars, k - 1) /\ (k - 1) + 1 = k
      BY <1>1, <2>1 DEF Copied
    <3> HIDE DEF w
    <3>2. PICK n \in Nat : n = k - 1
      BY <3>1
    <3>3. IsRow(acc.vars, n)
      BY <3>1, <3>2
    <3>4. GrownRow(acc.vars, w, n)
      BY <3>3, RowsAppended
    <3>5. GrownRow(acc.vars, w, k - 1)
      BY <3>2, <3>4
    <3> QED
      BY <3>1, <3>5 DEF GrownRow
  <2> HIDE DEF w, leaf
  <2>7. \A j \in 1 .. k : IsCopy(leaf.tree, Append(acc.vars, w)[j], file, vs[j])
    <3> TAKE j \in 1 .. k
    <3>1. CASE j = k
      BY <2>5, <2>6, <3>1
    <3>2. CASE j # k
      <4>1. j \in 1 .. k - 1
        BY <1>1, <3>2
      <4>2. IsCopy(acc.tree, acc.vars[j], file, vs[j])
        BY <2>1, <4>1 DEF Copied
      <4>3. IsCopy(leaf.tree, acc.vars[j], file, vs[j])
        BY <2>3, <4>2, CopyKept
      <4> QED
        BY <2>6, <4>1, <4>3
    <3> QED
      BY <3>1, <3>2
  <2>8. /\ DOMAIN Bind(acc.seen, flat, current) = DOMAIN acc.seen \cup {flat}
        /\ \A x \in DOMAIN acc.seen \cup {flat} : Bind(acc.seen, flat, current)[x] \in Nat
        /\ \A x \in DOMAIN acc.seen : Bind(acc.seen, flat, current)[x] = acc.seen[x]
        /\ Bind(acc.seen, flat, current)[flat] = current
    <3> HIDE DEF flat
    <3> QED
      BY <1>1, <1>5, <2>1 DEF Bind, Copied
  <2>9. /\ flat \notin DOMAIN seen
        /\ \A j \in 1 .. k - 1 : flat # FlatHere(vs[j])
    BY <1>5, <2>1 DEF Copied
  <2>10. \A j \in 1 .. k : j = k \/ j \in 1 .. k - 1
    BY <1>1
  <2>11. {FlatHere(vs[j]) : j \in 1 .. k} = {FlatHere(vs[j]) : j \in 1 .. k - 1} \cup {flat}
    <3>1. \A j \in 1 .. k - 1 : j \in 1 .. k
      BY <1>1
    <3>2. k \in 1 .. k
      BY <1>1
    <3> HIDE DEF flat, vs
    <3> QED
      BY <1>2, <2>10, <3>1, <3>2
  <2>12. Copied(vs, k, next)
    <3> HIDE DEF vs, flat, file
    <3>1. DOMAIN next.seen = DOMAIN seen \cup {FlatHere(vs[j]) : j \in 1 .. k}
      <4>1. DOMAIN acc.seen = DOMAIN seen \cup {FlatHere(vs[j]) : j \in 1 .. k - 1}
        BY <2>1 DEF Copied
      <4> QED
        BY <2>8, <2>11, <4>1
    <3>2. \A j \in 1 .. k : FlatHere(vs[j]) \notin DOMAIN seen
      BY <1>2, <2>1, <2>9, <2>10 DEF Copied
    <3>3. \A i, j \in 1 .. k : i # j => FlatHere(vs[i]) # FlatHere(vs[j])
      BY <1>2, <2>1, <2>9, <2>10 DEF Copied
    <3>4. \A x \in DOMAIN seen : next.seen[x] = seen[x]
      BY <2>1, <2>8 DEF Copied
    <3>5. \A j \in 1 .. k : next.seen[FlatHere(vs[j])] = current
      <4> TAKE j \in 1 .. k
      <4>1. CASE j = k
        BY <1>2, <2>8, <4>1
      <4>2. CASE j \in 1 .. k - 1
        BY <2>1, <2>8, <4>2 DEF Copied
      <4> QED
        BY <2>10, <4>1, <4>2
    <3> QED
      BY <2>4, <2>6, <2>7, <2>8, <3>1, <3>2, <3>3, <3>4, <3>5 DEF Copied, file
  <2> QED
    BY <2>2, <2>12 DEF MergedUpTo
<1> QED
  BY <1>3, <1>4, <1>5

MergeOp(with, acc, var) == MergeVar(acc, var)

Merging == INSTANCE DataProofs WITH Op <- MergeOp

MergeBase == [tree |-> tree, seen |-> seen, enums |-> enums, vars |-> <<>>, refusal |-> None]

MergeResult(h) == FoldLeft(MergeVar, MergeBase, files[current].map[h])

(* All variables of a handle.                                              *)
LEMMA HandleMerged ==
    ASSUME files \in Inputs, current \in DOMAIN files,
           IsArena(tree, Alphabet), LinksAgree(tree), \A flat \in DOMAIN seen : seen[flat] \in Nat,
           NEW h \in Handles(current)
    PROVE  MergedUpTo(files[current].map[h], Len(files[current].map[h]), MergeResult(h))
<1> DEFINE vs == files[current].map[h]
           n == Len(vs)
<1>1. n \in Nat /\ DOMAIN vs = 1 .. n
  <2>1. IsHierarchy(files[current]) /\ h \in DOMAIN files[current].map
    BY Opened DEF Handles
  <2> QED
    BY <2>1, VariablesOf
<1>2. MergeResult(h) = Merging!Fold(0, MergeBase, vs)
  BY DEF MergeResult, MergeOp, Merging!Fold, FoldLeft, MapThenFoldSet,
         Merging!FoldLeft, Merging!MapThenFoldSet, Max, Merging!Max
<1> HIDE DEF vs, n
<1>3. PICK acc : Merging!FoldedBy(acc, 0, MergeBase, vs, n)
  BY <1>1, Merging!FoldSteps
<1>4. /\ acc[0] = MergeBase
      /\ \A k \in 1 .. n : acc[k] = MergeVar(acc[k - 1], vs[k])
      /\ MergeResult(h) = acc[n]
  BY <1>2, <1>3 DEF Merging!FoldedBy, MergeOp
<1> DEFINE holds == {k \in 0 .. n : MergedUpTo(vs, k, acc[k])}
<1>5. 0 \in holds
  <2>1. 1 .. 0 = {} /\ 0 \in 0 .. n
    BY <1>1
  <2>2. IsRow(<<>>, 0)
    BY <2>1 DEF IsRow
  <2>3. Grown(tree, tree)
    BY DEF Grown
  <2>4. Copied(vs, 0, MergeBase)
    BY <2>1, <2>2, <2>3 DEF Copied, MergeBase
  <2>5. MergedUpTo(vs, 0, MergeBase)
    BY <2>4 DEF MergedUpTo, MergeBase
  <2> QED
    BY <1>4, <2>1, <2>5
<1>6. ASSUME NEW k \in 1 .. n, k - 1 \in holds PROVE k \in holds
  <2>1. MergedUpTo(vs, k - 1, acc[k - 1])
    BY <1>6
  <2>2. MergedUpTo(vs, k, MergeVar(acc[k - 1], vs[k]))
    BY <1>1, <2>1, VariableMerged DEF vs
  <2>3. k \in 0 .. n
    BY <1>1
  <2> QED
    BY <1>4, <2>2, <2>3
<1> HIDE DEF holds
<1>7. n \in holds
  <2>1. n \in Nat
    BY <1>1
  <2>2. \A k \in 1 .. n : k - 1 \in holds => k \in holds
    BY <1>6
  <2>3. \A k \in 0 .. n : k \in holds
    BY <1>5, <2>1, <2>2, UpTo
  <2> QED
    BY <2>1, <2>3
<1> QED
  BY <1>4, <1>7 DEF holds, vs, n

-----------------------------------------------------------------------------
(* The invariant of merging and filtering.  The operators take the state   *)
(* they are about as arguments: fs the files, c the current one, td its    *)
(* handles that are left, offs the offsets, m and t the merged map and     *)
(* tree.                                                                   *)

(* The handles of file i that were merged, and their variables.            *)
Taken(fs, c, td, i) == {l \in DOMAIN fs[i].map : i < c \/ (i = c /\ l \notin td)}

AllVars(fs) ==
    UNION {UNION {{<< i, l, k >> : k \in DOMAIN fs[i].map[l]} : l \in DOMAIN fs[i].map} :
             i \in DOMAIN fs}

At(fs, d) == fs[d[1]].map[d[2]][d[3]]
FlatAt(fs, d) == FlatName(PathIn(fs[d[1]], At(fs, d)))

TakenVars(fs, c, td) == {d \in AllVars(fs) : d[2] \in Taken(fs, c, td, d[1])}

(* Every offset leaves room for the handles of its file.                   *)
OffsetsApart(fs, c, offs) ==
    /\ offs \in Seq(Nat) /\ Len(offs) = c
    /\ \A i, j \in 1 .. c : i < j => offs[i] + SpanOf(DOMAIN fs[i].map) <= offs[j]

(* The merged map holds a copy of every handle that was merged.            *)
Keys(fs, c, td, offs) == UNION {{offs[i] + l : l \in Taken(fs, c, td, i)} : i \in 1 .. c}

HandleCopied(t, vs, file, l) ==
    /\ IsRow(vs, Len(file.map[l]))
    /\ \A k \in DOMAIN file.map[l] : IsCopy(t, vs[k], file, file.map[l][k])

MapFilled(fs, c, td, offs, m, t) ==
    /\ DOMAIN m = Keys(fs, c, td, offs)
    /\ \A i \in 1 .. c : \A l \in Taken(fs, c, td, i) : HandleCopied(t, m[offs[i] + l], fs[i], l)

(* What was seen are the names of the variables that were merged, each     *)
(* with the file it is from.                                               *)
SeenTaken(fs, c, td, sn) ==
    /\ \A flat \in DOMAIN sn : sn[flat] \in Nat
    /\ DOMAIN sn = {FlatAt(fs, d) : d \in TakenVars(fs, c, td)}
    /\ \A d \in TakenVars(fs, c, td) : sn[FlatAt(fs, d)] = d[1]
    /\ \A d, e \in TakenVars(fs, c, td) : d # e => FlatAt(fs, d) # FlatAt(fs, e)

(* An error names what two variables are displayed by, and their files.    *)
Blamed(fs, r) ==
    \E d, e \in AllVars(fs) :
       /\ d # e /\ FlatAt(fs, d) = FlatAt(fs, e)
       /\ r = Duplicate(FlatAt(fs, d), d[1], e[1])

(* After a filter: copies of the variables with a name that matched.       *)
StayingIn(file, l, names) ==
    {k \in DOMAIN file.map[l] : FlatName(PathIn(file, file.map[l][k])) \in names}

Rank(S, k) == Cardinality({j \in S : j <= k})

HandleKept(t, vs, file, l, S) ==
    /\ IsRow(vs, Cardinality(S))
    /\ \A k \in S : IsCopy(t, vs[Rank(S, k)], file, file.map[l][k])
    /\ \A j \in 1 .. Cardinality(S) : vs[j].name \in Ids(t)

MapKept(fs, offs, m, t, names) ==
    /\ \A h \in DOMAIN m : \E i \in DOMAIN fs : \E l \in DOMAIN fs[i].map :
         /\ h = offs[i] + l
         /\ StayingIn(fs[i], l, names) # {}
         /\ HandleKept(t, m[h], fs[i], l, StayingIn(fs[i], l, names))
    /\ \A i \in DOMAIN fs : \A l \in DOMAIN fs[i].map :
         StayingIn(fs[i], l, names) # {} => offs[i] + l \in DOMAIN m

SInv ==
    /\ files \in Inputs /\ current \in DOMAIN files /\ todo \subseteq DOMAIN files[current].map
    /\ phase \in {"merging", "filtering", "reading", "refused"}
    /\ IsArena(tree, Alphabet) /\ LinksAgree(tree)
    /\ OffsetsApart(files, current, offsets)
    /\ phase \in {"filtering", "reading"} => current = Len(files) /\ todo = {}
    /\ phase # "reading" => kept = All
    /\ kept = All => MapFilled(files, current, todo, offsets, map, tree)
    /\ kept # All => MapKept(files, offsets, map, tree, kept)
    /\ phase = "merging" => Len(files) > 1
    /\ Len(files) > 1 => SeenTaken(files, current, todo, seen)
    /\ phase = "refused" => Blamed(files, refusal)

(* A variable is declared where its file, its handle and its place say.    *)
LEMMA AllVarsAre ==
    ASSUME NEW fs
    PROVE  \A d : d \in AllVars(fs) <=>
                    /\ d[1] \in DOMAIN fs /\ d[2] \in DOMAIN fs[d[1]].map
                    /\ d[3] \in DOMAIN fs[d[1]].map[d[2]]
                    /\ d = << d[1], d[2], d[3] >>
  BY DEF AllVars

LEMMA DeclaredAre == Declared = AllVars(files) /\ \A d : VarAt(d) = At(files, d)
  BY DEF Declared, AllVars, Handles, VarAt, At

(* Two files do not share a merged handle.                                 *)
LEMMA KeysApart ==
    ASSUME NEW fs \in Inputs, NEW c \in DOMAIN fs, NEW offs, OffsetsApart(fs, c, offs),
           NEW i \in 1 .. c, NEW j \in 1 .. c,
           NEW l \in DOMAIN fs[i].map, NEW n \in DOMAIN fs[j].map, offs[i] + l = offs[j] + n
    PROVE  i = j /\ l = n
<1>1. /\ DOMAIN fs = 1 .. Len(fs) /\ Len(fs) \in Nat
      /\ \A x \in DOMAIN fs : DOMAIN fs[x].map \in SUBSET Nat /\ IsFiniteSet(DOMAIN fs[x].map)
  BY Opened
<1>2. i \in DOMAIN fs /\ j \in DOMAIN fs /\ c \in Nat
  BY <1>1
<1>3. l \in Nat /\ n \in Nat /\ l < SpanOf(DOMAIN fs[i].map) /\ n < SpanOf(DOMAIN fs[j].map)
  BY <1>1, <1>2, SpanCovers
<1>4. offs[i] \in Nat /\ offs[j] \in Nat
      /\ SpanOf(DOMAIN fs[i].map) \in Nat /\ SpanOf(DOMAIN fs[j].map) \in Nat
  <2>1. i \in 1 .. Len(offs) /\ j \in 1 .. Len(offs) /\ offs \in Seq(Nat)
    BY DEF OffsetsApart
  <2>2. offs[i] \in Nat /\ offs[j] \in Nat
    BY <2>1
  <2>3. \A x \in DOMAIN fs : SpanOf(DOMAIN fs[x].map) \in Nat
    BY <1>1, SpanCovers
  <2> QED
    BY <1>2, <2>2, <2>3
<1>5. /\ i < j => offs[i] + SpanOf(DOMAIN fs[i].map) <= offs[j]
      /\ j < i => offs[j] + SpanOf(DOMAIN fs[j].map) <= offs[i]
  BY DEF OffsetsApart
<1>6. i = j
  <2>1. ~(i < j)
    BY <1>3, <1>4, <1>5
  <2>2. ~(j < i)
    BY <1>3, <1>4, <1>5
  <2> QED
    BY <1>2, <2>1, <2>2
<1> QED
  BY <1>3, <1>4, <1>6

(* An opened file is a copy of itself.                                     *)
LEMMA SelfCopied ==
    ASSUME NEW file, IsHierarchy(file), NEW l \in DOMAIN file.map
    PROVE  HandleCopied(file.tree, file.map[l], file, l)
<1> DEFINE vs == file.map[l]
<1>1. vs \in Seq(ToSet(vs))
  BY DEF IsHierarchy
<1>2. vs = [j \in 1 .. Len(vs) |-> vs[j]]
  <2> DEFINE X == ToSet(vs)
  <2> HIDE DEF X
  <2>1. \A q \in Seq(X) : q = [j \in 1 .. Len(q) |-> q[j]]
    OBVIOUS
  <2> QED
    BY <1>1, <2>1 DEF X
<1>3. \A k \in DOMAIN vs : "name" \in DOMAIN vs[k] /\ vs[k].name \in Ids(file.tree)
  BY VariablesOf
<1> QED
  BY <1>2, <1>3 DEF HandleCopied, IsRow, IsCopy

(* The invariant holds when the files are open: a single one is taken as   *)
(* it is.                                                                  *)
LEMMA InitSInv == Init => SInv
<1> SUFFICES ASSUME Init PROVE SInv
  OBVIOUS
<1>1. files \in Inputs /\ current = 1 /\ seen = Nothing /\ kept = All /\ offsets = << 0 >>
  BY DEF Init
<1>2. /\ DOMAIN files = 1 .. Len(files) /\ Len(files) \in Nat \ {0} /\ 1 \in DOMAIN files
      /\ IsHierarchy(files[1]) /\ IsArena(files[1].tree, Alphabet) /\ LinksAgree(files[1].tree)
      /\ DOMAIN files[1].map \in SUBSET Nat
  BY <1>1, Opened
<1>3. OffsetsApart(files, 1, offsets)
  <2>1. offsets \in Seq(Nat) /\ Len(offsets) = 1
    BY <1>1
  <2>2. \A i, j \in 1 .. 1 : ~(i < j)
    OBVIOUS
  <2> QED
    BY <2>1, <2>2 DEF OffsetsApart
<1>4. CASE Len(files) = 1
  <2>1. phase = "filtering" /\ todo = {} /\ map = files[1].map /\ tree = files[1].tree
    BY <1>4 DEF Init
  <2>2. Taken(files, 1, {}, 1) = DOMAIN map
    BY <2>1 DEF Taken
  <2>3. offsets[1] = 0 /\ \A l \in DOMAIN map : offsets[1] + l = l
    BY <1>1, <1>2, <2>1
  <2>4. Keys(files, 1, {}, offsets) = DOMAIN map
    <3>1. Keys(files, 1, {}, offsets) = {offsets[1] + l : l \in DOMAIN map}
      <4>1. 1 .. 1 = {1}
        OBVIOUS
      <4> QED
        BY <2>2, <4>1 DEF Keys
    <3> QED
      BY <2>3, <3>1
  <2>5. \A i \in 1 .. 1 : \A l \in Taken(files, 1, {}, i) :
           HandleCopied(tree, map[offsets[i] + l], files[i], l)
    <3> TAKE i \in 1 .. 1
    <3> TAKE l \in Taken(files, 1, {}, i)
    <3>1. i = 1
      OBVIOUS
    <3>2. l \in DOMAIN map /\ offsets[i] + l = l
      BY <2>2, <2>3, <3>1
    <3> QED
      BY <1>2, <2>1, <3>1, <3>2, SelfCopied
  <2>6. MapFilled(files, current, todo, offsets, map, tree)
    BY <1>1, <2>1, <2>4, <2>5 DEF MapFilled
  <2> QED
    BY <1>1, <1>2, <1>3, <1>4, <2>1, <2>6 DEF SInv
<1>5. CASE Len(files) # 1
  <2>1. phase = "merging" /\ todo = DOMAIN files[1].map /\ map = Nothing /\ tree = NewTree
    BY <1>5 DEF Init, Handles
  <2>2. \A i \in 1 .. 1 : Taken(files, 1, todo, i) = {}
    BY <2>1 DEF Taken
  <2>3. Keys(files, 1, todo, offsets) = {}
    BY <2>2 DEF Keys
  <2>4. DOMAIN Nothing = {}
    BY DEF Nothing
  <2>5. MapFilled(files, current, todo, offsets, map, tree)
    BY <1>1, <2>1, <2>2, <2>3, <2>4 DEF MapFilled
  <2>6. TakenVars(files, 1, todo) = {}
    <3> SUFFICES ASSUME NEW d \in TakenVars(files, 1, todo) PROVE FALSE
      OBVIOUS
    <3>1. d[1] \in DOMAIN files /\ d[2] \in Taken(files, 1, todo, d[1])
      BY AllVarsAre DEF TakenVars
    <3>2. d[1] = 1
      BY <1>2, <3>1 DEF Taken
    <3> QED
      BY <2>2, <3>1, <3>2
  <2>7. SeenTaken(files, current, todo, seen)
    BY <1>1, <2>4, <2>6 DEF SeenTaken
  <2>8. IsArena(tree, Alphabet) /\ LinksAgree(tree)
    BY <2>1, NewArena
  <2>9. Len(files) > 1
    BY <1>2, <1>5
  <2> QED
    BY <1>1, <1>2, <1>3, <2>1, <2>5, <2>7, <2>8, <2>9 DEF SInv
<1> QED
  BY <1>4, <1>5

(* A clash among the variables that are being merged and those before is   *)
(* an error that names two variables.                                      *)
LEMMA ClashBlamed ==
    ASSUME files \in Inputs, current \in DOMAIN files, NEW h \in todo,
           h \in DOMAIN files[current].map, SeenTaken(files, current, todo, seen),
           NEW r, Clash(files[current].map[h], Len(files[current].map[h]), r)
    PROVE  Blamed(files, r)
<1> DEFINE vs == files[current].map[h]
           d(j) == << current, h, j >>
<1>1. DOMAIN vs = 1 .. Len(vs)
  BY Opened, VariablesOf
<1>2. \A j \in 1 .. Len(vs) : /\ d(j) \in AllVars(files) /\ d(j)[1] = current
                              /\ FlatHere(vs[j]) = FlatAt(files, d(j))
  BY <1>1, AllVarsAre DEF FlatHere, FileFlat, FlatAt, At
<1>3. PICK j \in 1 .. Len(vs) :
        \/ /\ FlatHere(vs[j]) \in DOMAIN seen
           /\ r = Duplicate(FlatHere(vs[j]), seen[FlatHere(vs[j])], current)
        \/ /\ \E i \in 1 .. Len(vs) : i # j /\ FlatHere(vs[i]) = FlatHere(vs[j])
           /\ r = Duplicate(FlatHere(vs[j]), current, current)
  BY DEF Clash
<1>4. ASSUME FlatHere(vs[j]) \in DOMAIN seen,
             r = Duplicate(FlatHere(vs[j]), seen[FlatHere(vs[j])], current)
      PROVE  Blamed(files, r)
  <2>1. PICK e \in TakenVars(files, current, todo) : FlatAt(files, e) = FlatHere(vs[j])
    BY <1>4 DEF SeenTaken
  <2>2. e \in AllVars(files) /\ seen[FlatHere(vs[j])] = e[1]
    BY <2>1 DEF TakenVars, SeenTaken
  <2>3. e # d(j)
    <3>1. e[2] \in Taken(files, current, todo, e[1]) /\ current \in Nat
      BY <2>1, Opened DEF TakenVars
    <3> QED
      BY <3>1 DEF Taken
  <2>4. r = Duplicate(FlatAt(files, e), e[1], d(j)[1])
    BY <1>2, <1>4, <2>1, <2>2
  <2>5. d(j) \in AllVars(files) /\ FlatAt(files, e) = FlatAt(files, d(j))
    BY <1>2, <2>1
  <2> HIDE DEF d
  <2> QED
    BY <2>2, <2>3, <2>4, <2>5 DEF Blamed
<1>5. ASSUME NEW i \in 1 .. Len(vs), i # j, FlatHere(vs[i]) = FlatHere(vs[j]),
             r = Duplicate(FlatHere(vs[j]), current, current)
      PROVE  Blamed(files, r)
  <2>1. d(i) # d(j)
    BY <1>5
  <2>2. d(i) \in AllVars(files) /\ d(j) \in AllVars(files)
    BY <1>2
  <2>3. FlatAt(files, d(i)) = FlatAt(files, d(j))
    BY <1>2, <1>5
  <2>4. r = Duplicate(FlatAt(files, d(i)), d(i)[1], d(j)[1])
    BY <1>2, <1>5
  <2> HIDE DEF d
  <2> QED
    BY <2>1, <2>2, <2>3, <2>4 DEF Blamed
<1> QED
  BY <1>3, <1>4, <1>5

(* What was merged after a handle is merged: that handle too.              *)
LEMMA TakenGrows ==
    ASSUME NEW fs \in Inputs, NEW c \in DOMAIN fs, NEW td, NEW h \in td, h \in DOMAIN fs[c].map
    PROVE  \A i, l : l \in Taken(fs, c, td \ {h}, i) <=> l \in Taken(fs, c, td, i) \/ (i = c /\ l = h)
<1>1. c \in Nat
  BY Opened
<1> QED
  BY <1>1 DEF Taken

LEMMA NotTakenYet ==
    ASSUME NEW fs \in Inputs, NEW c \in DOMAIN fs, NEW td, NEW h \in td
    PROVE  h \notin Taken(fs, c, td, c)
<1>1. c \in Nat
  BY Opened
<1> QED
  BY <1>1 DEF Taken

LEMMA TakenVarsGrow ==
    ASSUME NEW fs \in Inputs, NEW c \in DOMAIN fs, NEW td, NEW h \in td, h \in DOMAIN fs[c].map,
           NEW d
    PROVE  d \in TakenVars(fs, c, td \ {h})
             <=> \/ d \in TakenVars(fs, c, td)
                 \/ \E k \in DOMAIN fs[c].map[h] : d = << c, h, k >>
<1>1. \A i, l : l \in Taken(fs, c, td \ {h}, i) <=> l \in Taken(fs, c, td, i) \/ (i = c /\ l = h)
  BY TakenGrows
<1>2. ASSUME d \in TakenVars(fs, c, td \ {h}), d \notin TakenVars(fs, c, td)
      PROVE  \E k \in DOMAIN fs[c].map[h] : d = << c, h, k >>
  <2>1. d \in AllVars(fs) /\ d[1] = c /\ d[2] = h
    BY <1>1, <1>2 DEF TakenVars
  <2> QED
    BY <2>1, AllVarsAre
<1>3. ASSUME d \in TakenVars(fs, c, td) PROVE d \in TakenVars(fs, c, td \ {h})
  BY <1>1, <1>3 DEF TakenVars
<1>4. ASSUME NEW k \in DOMAIN fs[c].map[h], d = << c, h, k >> PROVE d \in TakenVars(fs, c, td \ {h})
  <2>1. d \in AllVars(fs) /\ d[1] = c /\ d[2] = h
    BY <1>4, AllVarsAre
  <2> QED
    BY <1>1, <2>1 DEF TakenVars
<1> QED
  BY <1>2, <1>3, <1>4

(* Another handle in the merged map.                                       *)
LEMMA MapGrows ==
    ASSUME NEW fs \in Inputs, NEW c \in DOMAIN fs, NEW td, NEW h \in td, h \in DOMAIN fs[c].map,
           td \subseteq DOMAIN fs[c].map,
           NEW offs, OffsetsApart(fs, c, offs), NEW m, NEW t, NEW u, Grown(t, u),
           MapFilled(fs, c, td, offs, m, t), NEW vs, HandleCopied(u, vs, fs[c], h)
    PROVE  MapFilled(fs, c, td \ {h}, offs, Bind(m, offs[c] + h, vs), u)
<1> DEFINE key == offs[c] + h
           n == Bind(m, key, vs)
<1>1. \A i, l : l \in Taken(fs, c, td \ {h}, i) <=> l \in Taken(fs, c, td, i) \/ (i = c /\ l = h)
  BY TakenGrows
<1>2. c \in 1 .. c
  BY Opened
<1>3. DOMAIN n = DOMAIN m \cup {key}
  BY DEF Bind
<1>4. Keys(fs, c, td \ {h}, offs) = Keys(fs, c, td, offs) \cup {key}
  <2>1. ASSUME NEW x \in Keys(fs, c, td \ {h}, offs) PROVE x \in Keys(fs, c, td, offs) \cup {key}
    <3>1. PICK i \in 1 .. c : x \in {offs[i] + l : l \in Taken(fs, c, td \ {h}, i)}
      BY <2>1 DEF Keys
    <3>2. PICK l \in Taken(fs, c, td \ {h}, i) : x = offs[i] + l
      BY <3>1
    <3>3. CASE i = c /\ l = h
      BY <3>2, <3>3
    <3>4. CASE ~(i = c /\ l = h)
      <4>1. l \in Taken(fs, c, td, i)
        BY <1>1, <3>2, <3>4
      <4> QED
        BY <3>2, <4>1 DEF Keys
    <3> QED
      BY <3>3, <3>4
  <2>2. ASSUME NEW x \in Keys(fs, c, td, offs) PROVE x \in Keys(fs, c, td \ {h}, offs)
    <3>1. PICK i \in 1 .. c : x \in {offs[i] + l : l \in Taken(fs, c, td, i)}
      BY <2>2 DEF Keys
    <3>2. PICK l \in Taken(fs, c, td, i) : x = offs[i] + l
      BY <3>1
    <3>3. l \in Taken(fs, c, td \ {h}, i)
      BY <1>1, <3>2
    <3> QED
      BY <3>2, <3>3 DEF Keys
  <2>3. key \in Keys(fs, c, td \ {h}, offs)
    <3>1. h \in Taken(fs, c, td \ {h}, c)
      BY <1>1
    <3> QED
      BY <1>2, <3>1 DEF Keys
  <2> QED
    BY <2>1, <2>2, <2>3
<1>5. ASSUME NEW i \in 1 .. c, NEW l \in Taken(fs, c, td \ {h}, i)
      PROVE  HandleCopied(u, n[offs[i] + l], fs[i], l)
  <2>1. CASE i = c /\ l = h
    <3>1. n[offs[i] + l] = vs
      BY <2>1 DEF Bind
    <3> QED
      BY <2>1, <3>1
  <2>2. CASE ~(i = c /\ l = h)
    <3>1. l \in Taken(fs, c, td, i)
      BY <1>1, <2>2
    <3>2. offs[i] + l # key
      BY <1>2, <2>2, <3>1, KeysApart DEF Taken
    <3>3. offs[i] + l \in DOMAIN m
      BY <3>1 DEF MapFilled, Keys
    <3>4. n[offs[i] + l] = m[offs[i] + l]
      BY <3>2, <3>3 DEF Bind
    <3>5. HandleCopied(t, m[offs[i] + l], fs[i], l)
      BY <3>1 DEF MapFilled
    <3>6. HandleCopied(u, m[offs[i] + l], fs[i], l)
      BY <3>5, CopyKept DEF HandleCopied
    <3> QED
      BY <3>4, <3>6
  <2> QED
    BY <2>1, <2>2
<1> HIDE DEF n
<1>6. DOMAIN n = Keys(fs, c, td \ {h}, offs)
  BY <1>3, <1>4 DEF MapFilled
<1> QED
  BY <1>5, <1>6 DEF MapFilled, n

(* Its names are seen.                                                     *)
LEMMA SeenGrows ==
    ASSUME files \in Inputs, current \in DOMAIN files, NEW h \in todo, h \in DOMAIN files[current].map,
           SeenTaken(files, current, todo, seen),
           NEW acc, Copied(files[current].map[h], Len(files[current].map[h]), acc)
    PROVE  SeenTaken(files, current, todo \ {h}, acc.seen)
<1> DEFINE vs == files[current].map[h]
           n == Len(vs)
           old == TakenVars(files, current, todo)
           all == TakenVars(files, current, todo \ {h})
           d(k) == << current, h, k >>
<1>1. DOMAIN vs = 1 .. n
  BY Opened, VariablesOf
<1>2. \A e : e \in all <=> e \in old \/ \E k \in 1 .. n : e = d(k)
  <2> TAKE e
  <2>1. e \in all <=> e \in old \/ \E k \in DOMAIN vs : e = << current, h, k >>
    BY TakenVarsGrow
  <2> QED
    BY <1>1, <2>1
<1>3. \A k \in 1 .. n : FlatAt(files, d(k)) = FlatHere(vs[k])
  BY DEF FlatAt, At, FlatHere, FileFlat
<1>4. /\ DOMAIN acc.seen = DOMAIN seen \cup {FlatHere(vs[j]) : j \in 1 .. n}
      /\ \A flat \in DOMAIN acc.seen : acc.seen[flat] \in Nat
      /\ \A flat \in DOMAIN seen : acc.seen[flat] = seen[flat]
      /\ \A j \in 1 .. n : acc.seen[FlatHere(vs[j])] = current
      /\ \A j \in 1 .. n : FlatHere(vs[j]) \notin DOMAIN seen
      /\ \A i, j \in 1 .. n : i # j => FlatHere(vs[i]) # FlatHere(vs[j])
  BY DEF Copied
<1>5. /\ DOMAIN seen = {FlatAt(files, e) : e \in old}
      /\ \A e \in old : seen[FlatAt(files, e)] = e[1]
      /\ \A e, g \in old : e # g => FlatAt(files, e) # FlatAt(files, g)
  BY DEF SeenTaken
<1>8. \A k \in 1 .. n : d(k)[1] = current
  OBVIOUS
<1> HIDE DEF vs, n, old, all, d
<1>6. DOMAIN acc.seen = {FlatAt(files, e) : e \in all}
  <2>1. ASSUME NEW x \in DOMAIN acc.seen PROVE \E e \in all : x = FlatAt(files, e)
    BY <1>2, <1>3, <1>4, <1>5, <2>1
  <2>2. ASSUME NEW e \in all PROVE FlatAt(files, e) \in DOMAIN acc.seen
    BY <1>2, <1>3, <1>4, <1>5, <2>2
  <2> QED
    BY <2>1, <2>2
<1>7. ASSUME NEW e \in all, NEW g \in all, e # g PROVE FlatAt(files, e) # FlatAt(files, g)
  <2>1. CASE e \in old /\ g \in old
    BY <1>5, <1>7, <2>1
  <2>2. ASSUME NEW x, NEW y, x \in old, y \notin old, y \in all
        PROVE  FlatAt(files, x) # FlatAt(files, y)
    <3>1. PICK k \in 1 .. n : y = d(k)
      BY <1>2, <2>2
    <3> QED
      BY <1>3, <1>4, <1>5, <2>2, <3>1
  <2>3. CASE e \notin old /\ g \notin old
    <3>1. PICK i \in 1 .. n : e = d(i)
      BY <1>2, <2>3
    <3>2. PICK j \in 1 .. n : g = d(j)
      BY <1>2, <2>3
    <3>3. i # j
      BY <1>7, <3>1, <3>2
    <3> QED
      BY <1>3, <1>4, <3>1, <3>2, <3>3
  <2> QED
    BY <2>1, <2>2, <2>3
<1>9. ASSUME NEW e \in all PROVE acc.seen[FlatAt(files, e)] = e[1]
  <2>1. CASE e \in old
    BY <1>4, <1>5, <2>1
  <2>2. CASE e \notin old
    <3>1. PICK k \in 1 .. n : e = d(k)
      BY <1>2, <2>2
    <3> QED
      BY <1>3, <1>4, <1>8, <3>1
  <2> QED
    BY <2>1, <2>2
<1> QED
  BY <1>4, <1>6, <1>7, <1>9 DEF SeenTaken, all

(* Merging a handle keeps the invariant.                                   *)
LEMMA MergeHandleSInv == ASSUME SInv, NEW h \in todo, MergeHandle(h) PROVE SInv'
<1> DEFINE vs == files[current].map[h]
           n == Len(vs)
           merged == MergeResult(h)
<1>1. /\ files \in Inputs /\ current \in DOMAIN files /\ todo \subseteq DOMAIN files[current].map
      /\ h \in DOMAIN files[current].map /\ h \in Handles(current)
      /\ phase = "merging" /\ Len(files) > 1 /\ kept = All
      /\ UNCHANGED << files, current, offsets, kept >>
      /\ SeenTaken(files, current, todo, seen)
  BY DEF SInv, MergeHandle, Handles
<1>2. IsArena(tree, Alphabet) /\ LinksAgree(tree) /\ OffsetsApart(files, current, offsets)
      /\ MapFilled(files, current, todo, offsets, map, tree)
  BY <1>1 DEF SInv
<1>3. MergedUpTo(vs, n, merged)
  BY <1>1, <1>2, HandleMerged DEF SeenTaken
<1>4. /\ merged.refusal # None =>
           /\ phase' = "refused" /\ refusal' = merged.refusal
           /\ UNCHANGED << todo, map, tree, seen >>
      /\ merged.refusal = None =>
           /\ todo' = todo \ {h} /\ map' = Bind(map, Last(offsets) + h, merged.vars)
           /\ tree' = merged.tree /\ seen' = merged.seen /\ phase' = phase
  BY DEF MergeHandle, MergeResult, MergeBase
<1> HIDE DEF merged
<1>5. ASSUME merged.refusal # None PROVE SInv'
  <2>1. phase' = "refused" /\ UNCHANGED << files, current, offsets, kept, todo, map, tree, seen >>
    BY <1>1, <1>4, <1>5
  <2>2. Clash(vs, n, merged.refusal)
    BY <1>3, <1>5 DEF MergedUpTo
  <2>3. Blamed(files, merged.refusal)
    BY <1>1, <2>2, ClashBlamed
  <2>4. Blamed(files', refusal')
    BY <1>4, <1>5, <2>1, <2>3
  <2> QED
    BY <1>1, <1>2, <2>1, <2>4 DEF SInv
<1>6. ASSUME merged.refusal = None PROVE SInv'
  <2>1. /\ todo' = todo \ {h} /\ map' = Bind(map, Last(offsets) + h, merged.vars)
        /\ tree' = merged.tree /\ seen' = merged.seen /\ phase' = "merging"
        /\ UNCHANGED << files, current, offsets, kept >>
    BY <1>1, <1>4, <1>6
  <2>2. Copied(vs, n, merged)
    BY <1>3, <1>6 DEF MergedUpTo
  <2>3. Grown(tree, merged.tree)
    BY <2>2 DEF Copied
  <2>4. HandleCopied(merged.tree, merged.vars, files[current], h)
    <3>1. DOMAIN vs = 1 .. n
      BY <1>1, Opened, VariablesOf
    <3> QED
      BY <2>2, <3>1 DEF Copied, HandleCopied
  <2>5. Last(offsets) = offsets[current]
    BY <1>2 DEF OffsetsApart, Last
  <2>6. MapFilled(files, current, todo \ {h}, offsets,
                  Bind(map, offsets[current] + h, merged.vars), merged.tree)
    BY <1>1, <1>2, <2>3, <2>4, MapGrows
  <2>7. MapFilled(files, current, todo', offsets, map', tree')
    BY <2>1, <2>5, <2>6
  <2>8. SeenTaken(files, current, todo', seen')
    BY <1>1, <2>1, <2>2, SeenGrows
  <2>9. IsArena(tree', Alphabet) /\ LinksAgree(tree')
    BY <2>1, <2>3 DEF Grown
  <2> QED
    BY <1>1, <1>2, <2>1, <2>7, <2>8, <2>9 DEF SInv
<1> QED
  BY <1>5, <1>6

(* What is merged of the files up to one is what is merged before its      *)
(* successor is begun.                                                     *)
LEMMA TakenNext ==
    ASSUME NEW fs \in Inputs, NEW c \in DOMAIN fs, c + 1 \in DOMAIN fs, NEW i \in DOMAIN fs
    PROVE  /\ i # c + 1 => Taken(fs, c + 1, DOMAIN fs[c + 1].map, i) = Taken(fs, c, {}, i)
           /\ i = c + 1 => Taken(fs, c + 1, DOMAIN fs[c + 1].map, i) = {}
           /\ i = c + 1 => Taken(fs, c, {}, i) = {}
<1>1. c \in Nat /\ i \in Nat
  BY Opened
<1>2. i # c + 1 => (i < c + 1 <=> (i < c \/ i = c))
  BY <1>1
<1> QED
  BY <1>1, <1>2 DEF Taken

(* Going on to the next file keeps the invariant.                          *)
LEMMA NextFileSInv == ASSUME SInv, NextFile PROVE SInv'
<1>1. /\ files \in Inputs /\ current \in DOMAIN files /\ todo = {} /\ phase = "merging"
      /\ Len(files) > 1 /\ kept = All
      /\ UNCHANGED << files, map, tree, seen, kept >>
      /\ SeenTaken(files, current, todo, seen)
      /\ IsArena(tree, Alphabet) /\ LinksAgree(tree) /\ OffsetsApart(files, current, offsets)
      /\ MapFilled(files, current, {}, offsets, map, tree)
  BY DEF SInv, NextFile
<1>2. /\ DOMAIN files = 1 .. Len(files) /\ Len(files) \in Nat /\ current \in Nat \ {0}
      /\ \A i \in DOMAIN files : DOMAIN files[i].map \in SUBSET Nat /\ IsFiniteSet(DOMAIN files[i].map)
  BY <1>1, Opened
<1>3. CASE ~(current < Len(files))
  <2>1. phase' = "filtering" /\ UNCHANGED << current, todo, offsets >>
    BY <1>3 DEF NextFile
  <2>2. current = Len(files)
    BY <1>1, <1>2, <1>3
  <2> QED
    BY <1>1, <2>1, <2>2 DEF SInv
<1>4. CASE current < Len(files)
  <2> DEFINE c == current + 1
             td == DOMAIN files[c].map
             offs == Append(offsets, Last(offsets) + Span(current))
  <2>1. current' = c /\ todo' = td /\ offsets' = offs /\ phase' = "merging"
    BY <1>1, <1>4 DEF NextFile, Handles
  <2>2. c \in DOMAIN files /\ c \in Nat /\ 1 .. c \subseteq DOMAIN files
    BY <1>2, <1>4
  <2>3. Span(current) = SpanOf(DOMAIN files[current].map)
    BY DEF Span, SpanOf, Handles
  <2>4. /\ Last(offsets) = offsets[current] /\ Last(offsets) \in Nat
        /\ offsets \in Seq(Nat) /\ Len(offsets) = current
    <3>1. offsets \in Seq(Nat) /\ Len(offsets) = current
      BY <1>1 DEF OffsetsApart
    <3> QED
      BY <1>2, <3>1 DEF Last
  <2>5. \A i \in DOMAIN files : SpanOf(DOMAIN files[i].map) \in Nat \ {0}
    BY <1>2, SpanCovers
  <2>6. /\ offs \in Seq(Nat) /\ Len(offs) = c
        /\ \A i \in 1 .. current : offs[i] = offsets[i]
        /\ offs[c] = offsets[current] + SpanOf(DOMAIN files[current].map)
    <3>1. Last(offsets) + Span(current) \in Nat
      BY <1>1, <2>3, <2>4, <2>5
    <3> QED
      BY <1>2, <2>3, <2>4, <3>1
  <2> HIDE DEF offs
  <2>7. OffsetsApart(files, c, offs)
    <3>1. ASSUME NEW i \in 1 .. c, NEW j \in 1 .. c, i < j
          PROVE  offs[i] + SpanOf(DOMAIN files[i].map) <= offs[j]
      <4>1. i \in 1 .. current
        BY <1>2, <3>1
      <4>2. CASE j # c
        <5>1. j \in 1 .. current
          BY <1>2, <4>2
        <5>2. offsets[i] + SpanOf(DOMAIN files[i].map) <= offsets[j]
          BY <1>1, <3>1, <4>1, <5>1 DEF OffsetsApart
        <5> QED
          BY <2>6, <4>1, <5>1, <5>2
      <4>3. CASE j = c /\ i = current
        <5>1. offs[j] = offs[i] + SpanOf(DOMAIN files[i].map)
          BY <2>6, <4>1, <4>3
        <5>2. offs[j] \in Nat
          BY <2>6, <4>3, <2>2
        <5> QED
          BY <5>1, <5>2
      <4>4. CASE j = c /\ i # current
        <5>1. current \in 1 .. current /\ i < current
          BY <1>2, <4>1, <4>4
        <5>2. offsets[i] + SpanOf(DOMAIN files[i].map) <= offsets[current]
          BY <1>1, <4>1, <5>1 DEF OffsetsApart
        <5>3. offs[i] = offsets[i] /\ offs[j] = offsets[current] + SpanOf(DOMAIN files[current].map)
          BY <2>6, <4>1, <4>4
        <5>4. offsets[i] \in Nat /\ offsets[current] \in Nat
          BY <2>4, <4>1, <5>1
        <5>5. SpanOf(DOMAIN files[i].map) \in Nat /\ SpanOf(DOMAIN files[current].map) \in Nat
          BY <1>1, <2>2, <2>5, <4>1, <3>1
        <5> QED
          BY <5>2, <5>3, <5>4, <5>5
      <4> QED
        BY <4>2, <4>3, <4>4
    <3> QED
      BY <2>6, <3>1 DEF OffsetsApart
  <2>8. /\ \A i \in 1 .. current : Taken(files, c, td, i) = Taken(files, current, {}, i)
        /\ Taken(files, c, td, c) = {} /\ Taken(files, current, {}, c) = {}
    <3>1. \A i \in 1 .. current : i \in DOMAIN files /\ i # c
      BY <1>2, <2>2
    <3> QED
      BY <1>1, <2>2, <3>1, TakenNext
  <2>9. MapFilled(files, c, td, offs, map, tree)
    <3>1. \A i \in 1 .. c : i \in 1 .. current \/ i = c
      BY <1>2
    <3>2. \A i \in 1 .. current : i \in 1 .. c
      BY <1>2
    <3> HIDE DEF c, td
    <3>3. ASSUME NEW x PROVE x \in Keys(files, c, td, offs) <=> x \in Keys(files, current, {}, offsets)
      <4>1. ASSUME x \in Keys(files, c, td, offs) PROVE x \in Keys(files, current, {}, offsets)
        <5>1. PICK i \in 1 .. c : x \in {offs[i] + l : l \in Taken(files, c, td, i)}
          BY <4>1 DEF Keys
        <5>2. i \in 1 .. current
          BY <2>8, <3>1, <5>1
        <5>3. x \in {offsets[i] + l : l \in Taken(files, current, {}, i)}
          BY <2>6, <2>8, <5>1, <5>2
        <5> QED
          BY <5>2, <5>3 DEF Keys
      <4>2. ASSUME x \in Keys(files, current, {}, offsets) PROVE x \in Keys(files, c, td, offs)
        <5>1. PICK i \in 1 .. current : x \in {offsets[i] + l : l \in Taken(files, current, {}, i)}
          BY <4>2 DEF Keys
        <5>2. x \in {offs[i] + l : l \in Taken(files, c, td, i)}
          BY <2>6, <2>8, <5>1
        <5> QED
          BY <3>2, <5>2 DEF Keys
      <4> QED
        BY <4>1, <4>2
    <3>4. DOMAIN map = Keys(files, c, td, offs)
      BY <1>1, <3>3 DEF MapFilled
    <3>5. ASSUME NEW i \in 1 .. c, NEW l \in Taken(files, c, td, i)
          PROVE  HandleCopied(tree, map[offs[i] + l], files[i], l)
      <4>1. i \in 1 .. current
        BY <2>8, <3>1, <3>5
      <4> QED
        BY <1>1, <2>6, <2>8, <4>1 DEF MapFilled
    <3> QED
      BY <3>4, <3>5 DEF MapFilled
  <2>10. SeenTaken(files, c, td, seen)
    <3>1. \A d : d \in AllVars(files) => (d[2] \in Taken(files, c, td, d[1])
                                            <=> d[2] \in Taken(files, current, {}, d[1]))
      BY <1>1, <2>2, AllVarsAre, TakenNext
    <3>2. TakenVars(files, c, td) = TakenVars(files, current, {})
      BY <3>1 DEF TakenVars
    <3> QED
      BY <1>1, <3>2 DEF SeenTaken
  <2> HIDE DEF td
  <2> QED
    BY <1>1, <2>1, <2>2, <2>7, <2>9, <2>10 DEF SInv, td
<1> QED
  BY <1>3, <1>4

-----------------------------------------------------------------------------
(* Filtering.                                                              *)

MatchOp(names, acc, v) ==
    IF FlatName(Segments(tree, v.name)) \in names THEN Append(acc, v) ELSE acc

MatchingFold == INSTANCE DataProofs WITH Op <- MatchOp

UpToRank(S, k) == {j \in S : j <= k}

(* The places of the variables that stay are counted from 1.               *)
LEMMA Ranks ==
    ASSUME NEW n \in Nat, NEW S \in SUBSET (1 .. n), NEW k \in 0 .. n
    PROVE  /\ IsFiniteSet(UpToRank(S, k)) /\ Cardinality(UpToRank(S, k)) \in Nat
           /\ \A j \in UpToRank(S, k) : Rank(S, j) \in 1 .. Cardinality(UpToRank(S, k))
<1>1. \A T \in SUBSET (1 .. n) : IsFiniteSet(T) /\ Cardinality(T) \in Nat
  <2>1. IsFiniteSet(1 .. n)
    BY FS_Interval
  <2> QED
    BY <2>1, FS_Subset, FS_CardinalityType
<1>2. UpToRank(S, k) \in SUBSET (1 .. n)
  BY DEF UpToRank
<1>3. ASSUME NEW j \in UpToRank(S, k) PROVE Rank(S, j) \in 1 .. Cardinality(UpToRank(S, k))
  <2>1. Rank(S, j) = Cardinality(UpToRank(S, j))
    BY DEF Rank, UpToRank
  <2>2. UpToRank(S, j) \in SUBSET UpToRank(S, k)
    <3>1. j \in Int /\ j <= k /\ k \in Int /\ \A i \in S : i \in Int
      BY DEF UpToRank
    <3>2. \A i \in S : i <= j => i <= k
      BY <3>1
    <3> QED
      BY <3>2 DEF UpToRank
  <2>3. Cardinality(UpToRank(S, j)) <= Cardinality(UpToRank(S, k))
    BY <1>1, <1>2, <2>2, FS_Subset
  <2>4. IsFiniteSet(UpToRank(S, j)) /\ Cardinality(UpToRank(S, j)) \in Nat
        /\ Cardinality(UpToRank(S, k)) \in Nat
    BY <1>1, <1>2, <2>2
  <2>5. j \in UpToRank(S, j)
    BY <1>2 DEF UpToRank
  <2>6. Cardinality(UpToRank(S, j)) # 0
    BY <2>4, <2>5, FS_EmptySet
  <2> QED
    BY <2>1, <2>3, <2>4, <2>6
<1> QED
  BY <1>1, <1>2, <1>3

LEMMA RankNext ==
    ASSUME NEW n \in Nat, NEW S \in SUBSET (1 .. n), NEW k \in 1 .. n
    PROVE  /\ k \in S => /\ UpToRank(S, k) = UpToRank(S, k - 1) \cup {k}
                         /\ Cardinality(UpToRank(S, k)) = Cardinality(UpToRank(S, k - 1)) + 1
                         /\ Rank(S, k) = Cardinality(UpToRank(S, k - 1)) + 1
           /\ k \notin S => UpToRank(S, k) = UpToRank(S, k - 1)
<1>1. \A j \in S : j <= k <=> (j <= k - 1 \/ j = k)
  OBVIOUS
<1>2. CASE k \notin S
  BY <1>1, <1>2 DEF UpToRank
<1>3. CASE k \in S
  <2>1. UpToRank(S, k) = UpToRank(S, k - 1) \cup {k}
    BY <1>1, <1>3 DEF UpToRank
  <2>2. k \notin UpToRank(S, k - 1)
    BY DEF UpToRank
  <2>3. IsFiniteSet(UpToRank(S, k - 1))
    <3>1. k - 1 \in 0 .. n
      OBVIOUS
    <3> QED
      BY <3>1, Ranks
  <2>4. Cardinality(UpToRank(S, k)) = Cardinality(UpToRank(S, k - 1)) + 1
    BY <2>1, <2>2, <2>3, FS_AddElement
  <2>5. Rank(S, k) = Cardinality(UpToRank(S, k))
    BY DEF Rank, UpToRank
  <2> QED
    BY <1>3, <2>1, <2>4, <2>5
<1> QED
  BY <1>2, <1>3

(* The first k variables of a handle went through the filter.              *)
MatchedUpTo(t, file, l, S, k, acc) ==
    /\ IsRow(acc, Cardinality(UpToRank(S, k)))
    /\ \A j \in UpToRank(S, k) : IsCopy(t, acc[Rank(S, j)], file, file.map[l][j])
    /\ \A j \in 1 .. Cardinality(UpToRank(S, k)) : acc[j].name \in Ids(t)

LEMMA VariableMatched ==
    ASSUME NEW file, IsHierarchy(file), NEW l \in DOMAIN file.map, NEW vs,
           HandleCopied(tree, vs, file, l), NEW names, NEW k \in DOMAIN file.map[l], NEW acc,
           MatchedUpTo(tree, file, l, StayingIn(file, l, names), k - 1, acc)
    PROVE  MatchedUpTo(tree, file, l, StayingIn(file, l, names), k, MatchOp(names, acc, vs[k]))
<1> DEFINE S == StayingIn(file, l, names)
           n == Len(file.map[l])
           before == Cardinality(UpToRank(S, k - 1))
<1>1. n \in Nat /\ DOMAIN file.map[l] = 1 .. n /\ "name" \in DOMAIN file.map[l][k]
  BY VariablesOf
<1>2. S \in SUBSET (1 .. n) /\ k \in 1 .. n /\ k - 1 \in 0 .. n
  BY <1>1 DEF StayingIn
<1>3. IsCopy(tree, vs[k], file, file.map[l][k])
  BY DEF HandleCopied
<1>4. Segments(tree, vs[k].name) = PathIn(file, file.map[l][k])
  BY <1>1, <1>3, CopyPath
<1>5. k \in S <=> FlatName(Segments(tree, vs[k].name)) \in names
  BY <1>4 DEF StayingIn
<1> HIDE DEF S, n
<1>6. before \in Nat /\ \A j \in UpToRank(S, k - 1) : Rank(S, j) \in 1 .. before
  BY <1>1, <1>2, Ranks
<1>7. CASE k \notin S
  <2>1. MatchOp(names, acc, vs[k]) = acc
    BY <1>5, <1>7 DEF MatchOp
  <2>2. UpToRank(S, k) = UpToRank(S, k - 1)
    BY <1>1, <1>2, <1>7, RankNext
  <2> QED
    BY <2>1, <2>2 DEF MatchedUpTo, S
<1>8. CASE k \in S
  <2> DEFINE w == vs[k]
             next == Append(acc, w)
  <2>1. MatchOp(names, acc, w) = next
    BY <1>5, <1>8 DEF MatchOp
  <2>2. /\ UpToRank(S, k) = UpToRank(S, k - 1) \cup {k}
        /\ Cardinality(UpToRank(S, k)) = before + 1
        /\ Rank(S, k) = before + 1
    BY <1>1, <1>2, <1>8, RankNext
  <2>3. /\ IsRow(acc, before)
        /\ \A j \in UpToRank(S, k - 1) : IsCopy(tree, acc[Rank(S, j)], file, file.map[l][j])
        /\ \A j \in 1 .. before : acc[j].name \in Ids(tree)
    BY DEF MatchedUpTo, S
  <2>4. w.name \in Ids(tree)
    BY <1>3 DEF IsCopy
  <2> HIDE DEF before, w
  <2>5. /\ IsRow(next, before + 1)
        /\ \A j \in 1 .. before : next[j] = acc[j]
        /\ next[before + 1] = w
    <3>1. before \in Nat /\ IsRow(acc, before)
      BY <1>6, <2>3
    <3>2. \A e : /\ IsRow(Append(acc, e), before + 1)
                 /\ \A j \in 1 .. before : Append(acc, e)[j] = acc[j]
                 /\ Append(acc, e)[before + 1] = e
      BY <3>1, RowAppended
    <3> QED
      BY <3>2
  <2> HIDE DEF next
  <2>6. \A j \in UpToRank(S, k) : IsCopy(tree, next[Rank(S, j)], file, file.map[l][j])
    <3> TAKE j \in UpToRank(S, k)
    <3>1. CASE j = k
      BY <1>3, <2>2, <2>5, <3>1 DEF w
    <3>2. CASE j # k
      <4>1. j \in UpToRank(S, k - 1)
        BY <2>2, <3>2
      <4> QED
        BY <1>6, <2>3, <2>5, <4>1
    <3> QED
      BY <3>1, <3>2
  <2>7. \A j \in 1 .. before + 1 : next[j].name \in Ids(tree)
    <3>1. \A j \in 1 .. before + 1 : j \in 1 .. before \/ j = before + 1
      BY <1>6
    <3> QED
      BY <2>3, <2>4, <2>5, <3>1
  <2>8. MatchedUpTo(tree, file, l, S, k, next)
    BY <2>2, <2>5, <2>6, <2>7 DEF MatchedUpTo
  <2> QED
    BY <2>1, <2>8 DEF S, w
<1> QED
  BY <1>7, <1>8

(* What the filter leaves of a handle are copies of the variables with a   *)
(* name that matches, in their order.                                      *)
LEMMA HandleMatched ==
    ASSUME NEW file, IsHierarchy(file), NEW l \in DOMAIN file.map, NEW vs,
           HandleCopied(tree, vs, file, l), NEW names
    PROVE  HandleKept(tree, Matching(vs, names), file, l, StayingIn(file, l, names))
<1> DEFINE S == StayingIn(file, l, names)
           n == Len(file.map[l])
<1>1. n \in Nat /\ DOMAIN file.map[l] = 1 .. n
  BY VariablesOf
<1>2. DOMAIN vs = 1 .. n
  BY <1>1, RowLength DEF HandleCopied
<1>3. S \in SUBSET (1 .. n)
  BY <1>1 DEF StayingIn
<1>4. Matching(vs, names) = MatchingFold!Fold(names, <<>>, vs)
  BY DEF Matching, MatchOp, MatchingFold!Fold, FoldLeft, MapThenFoldSet,
         MatchingFold!FoldLeft, MatchingFold!MapThenFoldSet, Max, MatchingFold!Max
<1> HIDE DEF S, n
<1>5. PICK acc : MatchingFold!FoldedBy(acc, names, <<>>, vs, n)
  BY <1>1, <1>2, MatchingFold!FoldSteps
<1>6. /\ acc[0] = <<>>
      /\ \A k \in 1 .. n : acc[k] = MatchOp(names, acc[k - 1], vs[k])
      /\ Matching(vs, names) = acc[n]
  BY <1>4, <1>5 DEF MatchingFold!FoldedBy
<1> DEFINE holds == {k \in 0 .. n : MatchedUpTo(tree, file, l, S, k, acc[k])}
<1>7. 0 \in holds
  <2>1. UpToRank(S, 0) = {} /\ 0 \in 0 .. n
    <3>1. \A j \in S : j \in 1 .. n
      BY <1>3
    <3>2. \A j \in S : ~(j <= 0)
      BY <1>1, <3>1
    <3>3. UpToRank(S, 0) = {}
      BY <3>2 DEF UpToRank
    <3>4. 0 \in 0 .. n
      BY <1>1
    <3> QED
      BY <3>3, <3>4
  <2>2. Cardinality(UpToRank(S, 0)) = 0 /\ 1 .. 0 = {}
    BY <2>1, FS_EmptySet
  <2>3. IsRow(<<>>, 0)
    BY <2>2 DEF IsRow
  <2>4. MatchedUpTo(tree, file, l, S, 0, <<>>)
    BY <2>1, <2>2, <2>3 DEF MatchedUpTo
  <2> QED
    BY <1>6, <2>1, <2>4
<1>8. ASSUME NEW k \in 1 .. n, k - 1 \in holds PROVE k \in holds
  <2>1. MatchedUpTo(tree, file, l, S, k - 1, acc[k - 1])
    BY <1>8
  <2>2. MatchedUpTo(tree, file, l, S, k, MatchOp(names, acc[k - 1], vs[k]))
    BY <1>1, <2>1, VariableMatched DEF S
  <2>3. k \in 0 .. n
    BY <1>1
  <2> QED
    BY <1>6, <2>2, <2>3
<1> HIDE DEF holds
<1>9. n \in holds
  <2>1. n \in Nat
    BY <1>1
  <2>2. \A k \in 1 .. n : k - 1 \in holds => k \in holds
    BY <1>8
  <2>3. \A k \in 0 .. n : k \in holds
    BY <1>7, <2>1, <2>2, UpTo
  <2> QED
    BY <2>1, <2>3
<1>10. UpToRank(S, n) = S
  <2>1. \A j \in S : j \in 1 .. n
    BY <1>3
  <2>2. \A j \in S : j <= n
    BY <1>1, <2>1
  <2> QED
    BY <2>2 DEF UpToRank
<1>11. MatchedUpTo(tree, file, l, S, n, Matching(vs, names))
  BY <1>6, <1>9 DEF holds
<1> QED
  BY <1>10, <1>11 DEF MatchedUpTo, HandleKept, S

(* A handle has a variable left exactly if one of its names matches.       *)
LEMMA LeftIfStaying ==
    ASSUME NEW file, IsHierarchy(file), NEW l \in DOMAIN file.map, NEW t, NEW vs, NEW names,
           HandleKept(t, vs, file, l, StayingIn(file, l, names))
    PROVE  vs # <<>> <=> StayingIn(file, l, names) # {}
<1> DEFINE S == StayingIn(file, l, names)
<1>1. IsFiniteSet(S) /\ Cardinality(S) \in Nat
  <2>1. IsFiniteSet(DOMAIN file.map[l])
    BY VariablesOf, FS_Interval
  <2>2. S \in SUBSET (DOMAIN file.map[l])
    BY DEF StayingIn
  <2> QED
    BY <2>1, <2>2, FS_Subset, FS_CardinalityType
<1>2. IsRow(vs, Cardinality(S))
  BY DEF HandleKept
<1>3. Cardinality(S) = 0 <=> S = {}
  BY <1>1, FS_EmptySet
<1>4. Len(vs) = Cardinality(S) /\ DOMAIN vs = 1 .. Cardinality(S)
  BY <1>1, <1>2, RowLength
<1>5. vs = <<>> => Cardinality(S) = 0
  BY <1>4
<1>6. Cardinality(S) = 0 => vs = <<>>
  <2>1. 1 .. 0 = {}
    OBVIOUS
  <2> QED
    BY <1>2, <2>1 DEF IsRow
<1> QED
  BY <1>3, <1>5, <1>6

(* Names that are displayed are no All, so a filter is one.                *)
LEMMA FlatsDisplayed == ASSUME files \in Inputs PROVE FlatNames \subseteq Displays
<1> SUFFICES ASSUME NEW d \in Declared PROVE FileFlat(d[1], VarAt(d)) \in Displays
  BY DEF FlatNames
<1>1. /\ d[1] \in DOMAIN files /\ d[2] \in DOMAIN files[d[1]].map
      /\ d[3] \in DOMAIN files[d[1]].map[d[2]]
  BY DeclaredAre, AllVarsAre
<1> QED
  BY <1>1, VariableOf DEF FileFlat, VarAt

(* Filtering keeps the invariant.                                          *)
LEMMA FilterSInv == ASSUME SInv, NEW names \in SUBSET FlatNames, Filter(names) PROVE SInv'
<1>1. /\ files \in Inputs /\ current \in DOMAIN files /\ todo = {} /\ phase = "filtering"
      /\ current = Len(files) /\ kept = All
      /\ MapFilled(files, current, {}, offsets, map, tree)
      /\ OffsetsApart(files, current, offsets)
  BY DEF SInv, Filter
<1>2. /\ UNCHANGED << files, current, todo, tree, offsets, seen >>
      /\ phase' = "reading" /\ kept' = names /\ map' = Retained(names)
  BY DEF Filter
<1>3. names # All
  BY <1>1, FlatsDisplayed, NoneAndAll
<1>4. /\ DOMAIN files = 1 .. current /\ current \in Nat
      /\ \A i \in DOMAIN files : IsHierarchy(files[i]) /\ Taken(files, current, {}, i) = DOMAIN files[i].map
  <2>1. DOMAIN files = 1 .. current /\ current \in Nat
    BY <1>1, Opened
  <2>2. \A i \in DOMAIN files : i < current \/ i = current
    BY <2>1
  <2> QED
    BY <1>1, <2>1, <2>2, Opened DEF Taken
<1>5. ASSUME NEW i \in DOMAIN files, NEW l \in DOMAIN files[i].map
      PROVE  LET h == offsets[i] + l
                 S == StayingIn(files[i], l, names)
             IN  /\ h \in DOMAIN map
                 /\ HandleKept(tree, Matching(map[h], names), files[i], l, S)
                 /\ Matching(map[h], names) # <<>> <=> S # {}
  <2> DEFINE h == offsets[i] + l
  <2>1. HandleCopied(tree, map[h], files[i], l) /\ h \in DOMAIN map
    BY <1>1, <1>4 DEF MapFilled, Keys
  <2>2. HandleKept(tree, Matching(map[h], names), files[i], l, StayingIn(files[i], l, names))
    BY <1>4, <2>1, HandleMatched
  <2> HIDE DEF h
  <2>3. Matching(map[h], names) # <<>> <=> StayingIn(files[i], l, names) # {}
    BY <1>4, <2>2, LeftIfStaying
  <2> QED
    BY <2>1, <2>2, <2>3 DEF h
<1>6. \A h \in DOMAIN map : \E i \in DOMAIN files : \E l \in DOMAIN files[i].map : h = offsets[i] + l
  BY <1>1, <1>4 DEF MapFilled, Keys
<1> DEFINE m == Retained(names)
<1>7. /\ \A h \in DOMAIN map : h \in DOMAIN m <=> Matching(map[h], names) # <<>>
      /\ DOMAIN m \subseteq DOMAIN map
      /\ \A h \in DOMAIN m : m[h] = Matching(map[h], names)
  BY DEF Retained
<1> HIDE DEF m
<1>8. MapKept(files, offsets, m, tree, names)
  <2>1. ASSUME NEW h \in DOMAIN m
        PROVE  \E i \in DOMAIN files : \E l \in DOMAIN files[i].map :
                 /\ h = offsets[i] + l
                 /\ StayingIn(files[i], l, names) # {}
                 /\ HandleKept(tree, m[h], files[i], l, StayingIn(files[i], l, names))
    <3>1. PICK i \in DOMAIN files : \E l \in DOMAIN files[i].map : h = offsets[i] + l
      BY <1>6, <1>7, <2>1
    <3>2. PICK l \in DOMAIN files[i].map : h = offsets[i] + l
      BY <3>1
    <3>3. /\ HandleKept(tree, Matching(map[h], names), files[i], l, StayingIn(files[i], l, names))
          /\ Matching(map[h], names) # <<>> <=> StayingIn(files[i], l, names) # {}
      BY <1>5, <3>2
    <3> QED
      BY <1>7, <2>1, <3>2, <3>3
  <2>2. ASSUME NEW i \in DOMAIN files, NEW l \in DOMAIN files[i].map,
               StayingIn(files[i], l, names) # {}
        PROVE  offsets[i] + l \in DOMAIN m
    BY <1>5, <1>7, <2>2
  <2> QED
    BY <2>1, <2>2 DEF MapKept
<1>9. MapKept(files, offsets, map', tree, kept')
  BY <1>2, <1>8 DEF m
<1> QED
  BY <1>1, <1>2, <1>3, <1>9 DEF SInv

(* The invariant holds in every state.                                     *)
LEMMA NextSInv == SInv /\ [Next]_vars => SInv'
<1> SUFFICES ASSUME SInv, [Next]_vars PROVE SInv'
  OBVIOUS
<1>1. ASSUME NEW h \in todo, MergeHandle(h) PROVE SInv'
  BY <1>1, MergeHandleSInv
<1>2. CASE NextFile
  BY <1>2, NextFileSInv
<1>3. CASE NoFilter
  BY <1>3 DEF NoFilter, SInv
<1>4. ASSUME NEW names \in SUBSET FlatNames, Filter(names) PROVE SInv'
  BY <1>4, FilterSInv
<1>5. CASE UNCHANGED vars
  <2>1. UNCHANGED << files, phase, current, todo, map, tree, offsets, seen, refusal, kept >>
    BY <1>5 DEF vars
  <2> QED
    BY <2>1 DEF SInv
<1> QED
  BY <1>1, <1>2, <1>3, <1>4, <1>5 DEF Next

LEMMA SpecSInv == SidesSpec => []SInv
<1>1. SidesInit => SInv
  BY InitSInv DEF SidesInit
<1>2. SInv /\ [SidesNext]_allVars => SInv'
  <2>1. [SidesNext]_allVars => [Next]_vars
    BY DEF SidesNext, OpenSecond, CompareNames, StartMapping, MapHandles, allVars
  <2> QED
    BY <2>1, NextSInv
<1> QED
  BY <1>1, <1>2, PTL DEF SidesSpec

-----------------------------------------------------------------------------
(* Files that are opened together display no name in two of them, and an   *)
(* error for a duplicate names a signal and two files that have it, for    *)
(* any files, which display no name twice themselves, in any order of      *)
(* their maps (merge_signal_maps).                                         *)
LEMMA DisplayedAre == \A d : Displayed(d) = FlatAt(files, d)
  BY DeclaredAre DEF Displayed, FileFlat, FlatAt

LEMMA OpenedApart ==
    ASSUME SInv, Len(files) > 1, phase \in {"filtering", "reading"},
           NEW i, NEW j, NEW name, Shared(i, j, name)
    PROVE  FALSE
<1>1. PICK d \in Declared, e \in Declared :
        d[1] = i /\ e[1] = j /\ Displayed(d) = name /\ Displayed(e) = name
  BY DEF Shared
<1>2. d # e
  BY <1>1 DEF Shared
<1>3. /\ files \in Inputs /\ current = Len(files) /\ todo = {}
      /\ SeenTaken(files, current, todo, seen)
  BY DEF SInv
<1>4. /\ DOMAIN files = 1 .. current /\ current \in Nat
  BY <1>3, Opened
<1>5. \A x \in Declared : x \in TakenVars(files, current, todo)
  <2> TAKE x \in Declared
  <2>1. /\ x \in AllVars(files) /\ x[1] \in DOMAIN files /\ x[2] \in DOMAIN files[x[1]].map
    BY DeclaredAre, AllVarsAre
  <2>2. x[1] < current \/ x[1] = current
    BY <1>4, <2>1
  <2> QED
    BY <1>3, <2>1, <2>2 DEF TakenVars, Taken
<1>6. FlatAt(files, d) # FlatAt(files, e)
  BY <1>2, <1>3, <1>5 DEF SeenTaken
<1> QED
  BY <1>1, <1>6, DisplayedAre

LEMMA RefusedShared ==
    ASSUME Blamed(files, refusal), OnceInEach
    PROVE  Shared(refusal.first, refusal.second, refusal.name)
<1>1. PICK d \in AllVars(files), e \in AllVars(files) :
        /\ d # e /\ FlatAt(files, d) = FlatAt(files, e)
        /\ refusal = Duplicate(FlatAt(files, d), d[1], e[1])
  BY DEF Blamed
<1>2. d \in Declared /\ e \in Declared /\ Displayed(d) = Displayed(e)
  BY <1>1, DeclaredAre, DisplayedAre
<1>3. d[1] # e[1]
  BY <1>1, <1>2 DEF OnceInEach
<1>4. refusal.name = Displayed(d) /\ refusal.first = d[1] /\ refusal.second = e[1]
  BY <1>1, DisplayedAre DEF Duplicate
<1> QED
  BY <1>2, <1>3, <1>4 DEF Shared

LEMMA SInvRefused == SInv => RefusedIffShared
<1> SUFFICES ASSUME SInv, Len(files) > 1 PROVE RefusedIffShared
  BY DEF RefusedIffShared
<1>1. ASSUME phase \in {"filtering", "reading"}, NEW i, NEW j, NEW name
      PROVE  ~Shared(i, j, name)
  BY <1>1, OpenedApart
<1>2. ASSUME phase = "refused", OnceInEach
      PROVE  Shared(refusal.first, refusal.second, refusal.name)
  <2>1. Blamed(files, refusal)
    BY <1>2 DEF SInv
  <2> QED
    BY <1>2, <2>1, RefusedShared
<1> QED
  BY <1>1, <1>2 DEF RefusedIffShared

THEOREM RefusedExactly == SidesSpec => []RefusedIffShared
  BY SpecSInv, SInvRefused, PTL

-----------------------------------------------------------------------------
(* The binary search finds the file a merged handle is from.               *)
LEMMA ReaderFound ==
    ASSUME files \in Inputs, current \in DOMAIN files, OffsetsApart(files, current, offsets),
           NEW i \in 1 .. current, NEW l \in DOMAIN files[i].map
    PROVE  ReaderOf(offsets[i] + l) = i
<1> DEFINE T == {j \in DOMAIN offsets : offsets[j] <= offsets[i] + l}
<1>1. /\ DOMAIN files = 1 .. Len(files) /\ Len(files) \in Nat
      /\ \A x \in DOMAIN files : DOMAIN files[x].map \in SUBSET Nat /\ IsFiniteSet(DOMAIN files[x].map)
  BY Opened
<1>2. i \in DOMAIN files /\ current \in Nat
  BY <1>1
<1>3. l \in Nat /\ l < SpanOf(DOMAIN files[i].map) /\ SpanOf(DOMAIN files[i].map) \in Nat
  BY <1>1, <1>2, SpanCovers
<1>4. DOMAIN offsets = 1 .. current /\ \A j \in 1 .. current : offsets[j] \in Nat
  BY DEF OffsetsApart
<1>5. i \in T
  <2>1. offsets[i] <= offsets[i] + l
    BY <1>3, <1>4
  <2> QED
    BY <1>4, <2>1
<1>6. \A j \in T : j <= i
  <2> SUFFICES ASSUME NEW j \in 1 .. current, offsets[j] <= offsets[i] + l, ~(j <= i) PROVE FALSE
    BY <1>4
  <2>1. i < j
    BY <1>2
  <2>2. offsets[i] + SpanOf(DOMAIN files[i].map) <= offsets[j]
    BY <2>1 DEF OffsetsApart
  <2>3. offsets[i] \in Nat /\ offsets[j] \in Nat
    BY <1>4
  <2> QED
    BY <1>3, <2>2, <2>3
<1>7. \A j \in T : j \in Int
  BY <1>4
<1> HIDE DEF T
<1>8. \A x \in T : (\A y \in T : x >= y) => x = i
  BY <1>5, <1>6, <1>7
<1>9. \A y \in T : i >= y
  BY <1>5, <1>6, <1>7
<1>10. Max(T) = i
  BY <1>5, <1>8, <1>9 DEF Max
<1> QED
  BY <1>10 DEF ReaderOf, T

(* All variables stay: their ranks are their places.                       *)
LEMMA AllRanks ==
    ASSUME NEW n \in Nat
    PROVE  Cardinality(1 .. n) = n /\ \A k \in 1 .. n : Rank(1 .. n, k) = k
<1>1. Cardinality(1 .. n) = n
  BY FS_Interval
<1>2. ASSUME NEW k \in 1 .. n PROVE Rank(1 .. n, k) = k
  <2>1. {j \in 1 .. n : j <= k} = 1 .. k
    OBVIOUS
  <2>2. Cardinality(1 .. k) = k
    BY FS_Interval
  <2> QED
    BY <2>1, <2>2 DEF Rank
<1> QED
  BY <1>1, <1>2

(* A merged handle is a copy of the handle it was made from.               *)
LEMMA KeptCopies ==
    ASSUME SInv, NEW h \in DOMAIN map
    PROVE  \E i \in 1 .. current : \E l \in DOMAIN files[i].map :
             h = offsets[i] + l /\ CopyOf(h, i, l)
<1>1. /\ files \in Inputs /\ current \in DOMAIN files
      /\ DOMAIN files = 1 .. Len(files) /\ Len(files) \in Nat
      /\ \A x \in DOMAIN files : IsHierarchy(files[x])
  BY Opened DEF SInv
<1>2. CASE kept = All
  <2>1. MapFilled(files, current, todo, offsets, map, tree)
    BY <1>2 DEF SInv
  <2>2. PICK i \in 1 .. current : \E l \in Taken(files, current, todo, i) : h = offsets[i] + l
    BY <2>1 DEF MapFilled, Keys
  <2>3. PICK l \in Taken(files, current, todo, i) : h = offsets[i] + l
    BY <2>2
  <2>4. HandleCopied(tree, map[h], files[i], l)
    BY <2>1, <2>3 DEF MapFilled
  <2>5. i \in DOMAIN files /\ l \in DOMAIN files[i].map
    BY <1>1 DEF Taken
  <2> DEFINE n == Len(files[i].map[l])
  <2>6. n \in Nat /\ DOMAIN files[i].map[l] = 1 .. n
    BY <1>1, <2>5, VariablesOf
  <2>7. Staying(i, l) = 1 .. n
    BY <1>2, <2>6 DEF Staying, Stays
  <2>8. Len(map[h]) = n
    BY <2>4, <2>6, RowLength DEF HandleCopied
  <2>9. \A k \in 1 .. n : Described(tree, map[h][k]) = Described(files[i].tree, files[i].map[l][k])
    BY <2>4, <2>6 DEF HandleCopied, IsCopy
  <2> HIDE DEF n
  <2>10. CopyOf(h, i, l)
    BY <2>6, <2>7, <2>8, <2>9, AllRanks DEF CopyOf, Rank
  <2> QED
    BY <2>3, <2>5, <2>10
<1>3. CASE kept # All
  <2>1. MapKept(files, offsets, map, tree, kept) /\ current = Len(files)
    BY <1>3 DEF SInv
  <2>2. PICK i \in DOMAIN files : \E l \in DOMAIN files[i].map :
          /\ h = offsets[i] + l
          /\ HandleKept(tree, map[h], files[i], l, StayingIn(files[i], l, kept))
    BY <2>1 DEF MapKept
  <2>3. PICK l \in DOMAIN files[i].map :
          /\ h = offsets[i] + l
          /\ HandleKept(tree, map[h], files[i], l, StayingIn(files[i], l, kept))
    BY <2>2
  <2> DEFINE S == StayingIn(files[i], l, kept)
  <2>4. Staying(i, l) = S
    BY <1>3 DEF Staying, Stays, StayingIn, FileFlat
  <2>5. Cardinality(S) \in Nat
    <3> DEFINE n == Len(files[i].map[l])
    <3>1. n \in Nat /\ DOMAIN files[i].map[l] = 1 .. n
      BY <1>1, VariablesOf
    <3> HIDE DEF n
    <3>2. IsFiniteSet(DOMAIN files[i].map[l])
      BY <3>1, FS_Interval
    <3>3. S \in SUBSET (DOMAIN files[i].map[l])
      BY DEF StayingIn
    <3> QED
      BY <3>2, <3>3, FS_Subset, FS_CardinalityType
  <2>6. Len(map[h]) = Cardinality(S)
    BY <2>3, <2>5, RowLength DEF HandleKept
  <2>7. \A k \in S : Described(tree, map[h][Rank(S, k)]) = Described(files[i].tree, files[i].map[l][k])
    BY <2>3 DEF HandleKept, IsCopy
  <2> HIDE DEF S
  <2>8. CopyOf(h, i, l)
    BY <2>4, <2>6, <2>7 DEF CopyOf, Rank
  <2> QED
    BY <1>1, <2>1, <2>3, <2>8
<1> QED
  BY <1>2, <1>3

(* Every merged handle is one handle of one file, found by its offset, and *)
(* carries its paths and metadata in order, for any files and any filter.  *)
LEMMA SInvFaithful == SInv => MergedFaithful
<1> SUFFICES ASSUME SInv PROVE MergedFaithful
  OBVIOUS
<1>1. /\ files \in Inputs /\ current \in DOMAIN files /\ OffsetsApart(files, current, offsets)
      /\ DOMAIN files = 1 .. Len(files) /\ Len(files) \in Nat
      /\ \A x \in DOMAIN files : DOMAIN files[x].map \in SUBSET Nat /\ IsFiniteSet(DOMAIN files[x].map)
  BY Opened DEF SInv
<1>2. DOMAIN offsets = 1 .. current /\ \A j \in 1 .. current : offsets[j] \in Nat
  BY <1>1 DEF OffsetsApart
<1>3. ASSUME NEW i \in DOMAIN offsets, NEW j \in DOMAIN offsets, i < j
      PROVE  offsets[i] + Count(i) <= offsets[j]
  <2>1. i \in DOMAIN files /\ i \in 1 .. current /\ j \in 1 .. current
    BY <1>1, <1>2
  <2>2. /\ SpanOf(DOMAIN files[i].map) \in Nat /\ Count(i) \in Nat
        /\ Count(i) <= SpanOf(DOMAIN files[i].map)
    BY <1>1, <2>1, SpanCovers DEF Count, Handles
  <2>3. offsets[i] + SpanOf(DOMAIN files[i].map) <= offsets[j]
    BY <1>1, <1>3, <2>1 DEF OffsetsApart
  <2>4. offsets[i] \in Nat /\ offsets[j] \in Nat
    BY <1>2, <2>1
  <2> QED
    BY <2>2, <2>3, <2>4
<1>4. ASSUME NEW h \in DOMAIN map
      PROVE  /\ h - offsets[ReaderOf(h)] \in Handles(ReaderOf(h))
             /\ CopyOf(h, ReaderOf(h), h - offsets[ReaderOf(h)])
  <2>1. PICK i \in 1 .. current : \E l \in DOMAIN files[i].map :
          h = offsets[i] + l /\ CopyOf(h, i, l)
    BY KeptCopies
  <2>2. PICK l \in DOMAIN files[i].map : h = offsets[i] + l /\ CopyOf(h, i, l)
    BY <2>1
  <2>3. ReaderOf(h) = i
    BY <1>1, <2>2, ReaderFound
  <2>4. l \in Nat /\ offsets[i] \in Nat
    BY <1>1, <1>2
  <2>5. h - offsets[i] = l
    BY <2>2, <2>4
  <2> QED
    BY <2>2, <2>3, <2>5 DEF Handles
<1> QED
  BY <1>3, <1>4 DEF MergedFaithful

THEOREM MergedExactly == SidesSpec => []MergedFaithful
  BY SpecSInv, SInvFaithful, PTL

-----------------------------------------------------------------------------
(* The mapping of the handles (build_handle_mapping).  Its operators and   *)
(* those of the comparison of names are instances of the ones here.        *)
LEMMA MappingNames ==
    \A t, x : Mapping!Segments(t, x) = Segments(t, x) /\ Mapping!Find(t, x) = Find(t, x)
  BY DEF Mapping!Segments, Mapping!Find, Mapping!NodeAt, Mapping!Ids, Mapping!NoParent,
         Mapping!NotFound, Mapping!Known, Mapping!Root,
         Segments, Find, NodeAt, Ids, NoParent, NotFound, Known, Root

LEMMA MetaNames ==
    \A side, var : Meta!Displayed(side, var) = FlatName(Segments(side.tree, var.name))
  BY DEF Meta!Displayed, Meta!Segments, Meta!NodeAt, Meta!Ids, Meta!NoParent,
         Segments, NodeAt, Ids, NoParent

(* A handle of the second side has a sequence of variables, with names in  *)
(* its tree.                                                               *)
LEMMA SecondNamed ==
    ASSUME SInv, NEW h \in DOMAIN map
    PROVE  \E n \in Nat : /\ IsRow(map[h], n) /\ DOMAIN map[h] = 1 .. n
                          /\ \A k \in 1 .. n : map[h][k].name \in Ids(tree)
<1>1. /\ files \in Inputs /\ current \in DOMAIN files
      /\ DOMAIN files = 1 .. Len(files) /\ Len(files) \in Nat
      /\ \A x \in DOMAIN files : IsHierarchy(files[x])
  BY Opened DEF SInv
<1>2. CASE kept = All
  <2>1. MapFilled(files, current, todo, offsets, map, tree)
    BY <1>2 DEF SInv
  <2>2. PICK i \in 1 .. current : \E l \in Taken(files, current, todo, i) : h = offsets[i] + l
    BY <2>1 DEF MapFilled, Keys
  <2>3. PICK l \in Taken(files, current, todo, i) : h = offsets[i] + l
    BY <2>2
  <2>4. HandleCopied(tree, map[h], files[i], l)
    BY <2>1, <2>3 DEF MapFilled
  <2>5. i \in DOMAIN files /\ l \in DOMAIN files[i].map
    BY <1>1 DEF Taken
  <2>6. Len(files[i].map[l]) \in Nat /\ DOMAIN files[i].map[l] = 1 .. Len(files[i].map[l])
    BY <1>1, <2>5, VariablesOf
  <2>7. IsRow(map[h], Len(files[i].map[l]))
        /\ \A k \in 1 .. Len(files[i].map[l]) : map[h][k].name \in Ids(tree)
    BY <2>4, <2>6 DEF HandleCopied, IsCopy
  <2> QED
    BY <2>6, <2>7, RowLength
<1>3. CASE kept # All
  <2>1. MapKept(files, offsets, map, tree, kept)
    BY <1>3 DEF SInv
  <2>2. PICK i \in DOMAIN files : \E l \in DOMAIN files[i].map :
          HandleKept(tree, map[h], files[i], l, StayingIn(files[i], l, kept))
    BY <2>1 DEF MapKept
  <2>3. PICK l \in DOMAIN files[i].map :
          HandleKept(tree, map[h], files[i], l, StayingIn(files[i], l, kept))
    BY <2>2
  <2> DEFINE S == StayingIn(files[i], l, kept)
  <2>4. Cardinality(S) \in Nat
    <3> DEFINE n == Len(files[i].map[l])
    <3>1. n \in Nat /\ DOMAIN files[i].map[l] = 1 .. n
      BY <1>1, VariablesOf
    <3> HIDE DEF n
    <3>2. IsFiniteSet(DOMAIN files[i].map[l])
      BY <3>1, FS_Interval
    <3>3. S \in SUBSET (DOMAIN files[i].map[l])
      BY DEF StayingIn
    <3> QED
      BY <3>2, <3>3, FS_Subset, FS_CardinalityType
  <2>5. IsRow(map[h], Cardinality(S))
        /\ \A k \in 1 .. Cardinality(S) : map[h][k].name \in Ids(tree)
    BY <2>3 DEF HandleKept
  <2> HIDE DEF S
  <2> QED
    BY <2>4, <2>5, RowLength
<1> QED
  BY <1>2, <1>3

(* Adding a handle unless it is there.                                     *)
AddOp(with, acc, h) == IF Contains(acc, h) THEN acc ELSE Append(acc, h)

Adding == INSTANCE DataProofs WITH Op <- AddOp

OnceOf(X, acc) == acc \in Seq(X) /\ IsInjective(acc)

LEMMA AddedOnce ==
    ASSUME NEW X, NEW acc, OnceOf(X, acc), NEW e \in X
    PROVE  LET r == AddOp(0, acc, e)
           IN  OnceOf(X, r) /\ \A x : x \in ToSet(r) <=> x \in ToSet(acc) \/ x = e
<1>1. acc \in Seq(X) /\ IsInjective(acc) /\ DOMAIN acc = 1 .. Len(acc) /\ Len(acc) \in Nat
  BY DEF OnceOf
<1>2. CASE Contains(acc, e)
  <2>1. e \in ToSet(acc)
    BY <1>1, <1>2 DEF Contains, ToSet
  <2> QED
    BY <1>2, <2>1 DEF AddOp
<1>3. CASE ~Contains(acc, e)
  <2> DEFINE r == Append(acc, e)
             n == Len(acc)
  <2>1. /\ r \in Seq(X) /\ DOMAIN r = 1 .. n + 1
        /\ \A j \in 1 .. n : r[j] = acc[j]
        /\ r[n + 1] = e
    BY <1>1
  <2>2. \A j \in 1 .. n : acc[j] # e
    BY <1>3 DEF Contains
  <2>3. \A j \in 1 .. n + 1 : j \in 1 .. n \/ j = n + 1
    BY <1>1
  <2>4. 1 .. n \subseteq 1 .. n + 1 /\ n + 1 \in 1 .. n + 1
    BY <1>1
  <2> HIDE DEF r, n
  <2>5. IsInjective(r)
    <3> SUFFICES ASSUME NEW i \in 1 .. n + 1, NEW j \in 1 .. n + 1, r[i] = r[j] PROVE i = j
      BY <2>1 DEF IsInjective
    <3>1. CASE i \in 1 .. n /\ j \in 1 .. n
      <4>1. acc[i] = acc[j]
        BY <2>1, <3>1
      <4> QED
        BY <1>1, <3>1, <4>1 DEF IsInjective, n
    <3>2. CASE i = n + 1 /\ j = n + 1
      BY <3>2
    <3>3. CASE i \in 1 .. n /\ j = n + 1
      BY <2>1, <2>2, <3>3
    <3>4. CASE i = n + 1 /\ j \in 1 .. n
      BY <2>1, <2>2, <3>4
    <3> QED
      BY <2>3, <3>1, <3>2, <3>3, <3>4
  <2>6. \A x : x \in ToSet(r) <=> x \in ToSet(acc) \/ x = e
    <3> TAKE x
    <3>1. ASSUME x \in ToSet(r) PROVE x \in ToSet(acc) \/ x = e
      <4>1. PICK j \in 1 .. n + 1 : x = r[j]
        BY <2>1, <3>1 DEF ToSet
      <4> QED
        BY <1>1, <2>1, <2>3, <4>1 DEF ToSet, n
    <3>2. ASSUME x \in ToSet(acc) PROVE x \in ToSet(r)
      <4>1. PICK j \in 1 .. n : x = acc[j]
        BY <1>1, <3>2 DEF ToSet, n
      <4> QED
        BY <2>1, <2>4, <4>1 DEF ToSet
    <3>3. e \in ToSet(r)
      BY <2>1, <2>4 DEF ToSet
    <3> QED
      BY <3>1, <3>2, <3>3
  <2> QED
    BY <1>3, <2>1, <2>5, <2>6 DEF AddOp, OnceOf, r
<1> QED
  BY <1>2, <1>3

(* Adding several: each is there once.                                     *)
AddedUpTo(X, found, handles, k, acc) ==
    /\ OnceOf(X, acc)
    /\ \A x : x \in ToSet(acc) <=> x \in ToSet(found) \/ \E j \in 1 .. k : x = handles[j]

LEMMA AllAdded ==
    ASSUME NEW X, NEW found, OnceOf(X, found), NEW handles \in Seq(X)
    PROVE  LET r == Mapping!AddAll(found, handles)
           IN  OnceOf(X, r) /\ \A x : x \in ToSet(r) <=> x \in ToSet(found) \/ x \in ToSet(handles)
<1> DEFINE n == Len(handles)
<1>1. n \in Nat /\ DOMAIN handles = 1 .. n /\ \A k \in 1 .. n : handles[k] \in X
  OBVIOUS
<1>2. Mapping!AddAll(found, handles) = Adding!Fold(0, found, handles)
  BY DEF Mapping!AddAll, AddOp, Adding!Fold, Mapping!FoldLeft, Mapping!MapThenFoldSet,
         Mapping!Max, Adding!FoldLeft, Adding!MapThenFoldSet, Adding!Max,
         Mapping!Contains, Contains
<1> HIDE DEF n
<1>3. PICK acc : Adding!FoldedBy(acc, 0, found, handles, n)
  BY <1>1, Adding!FoldSteps
<1>4. /\ acc[0] = found
      /\ \A k \in 1 .. n : acc[k] = AddOp(0, acc[k - 1], handles[k])
      /\ Mapping!AddAll(found, handles) = acc[n]
  BY <1>2, <1>3 DEF Adding!FoldedBy
<1> DEFINE holds == {k \in 0 .. n : AddedUpTo(X, found, handles, k, acc[k])}
<1>5. 0 \in holds
  <2>1. 1 .. 0 = {} /\ 0 \in 0 .. n
    BY <1>1
  <2> QED
    BY <1>4, <2>1 DEF AddedUpTo
<1>6. ASSUME NEW k \in 1 .. n, k - 1 \in holds PROVE k \in holds
  <2>1. AddedUpTo(X, found, handles, k - 1, acc[k - 1])
    BY <1>6
  <2> DEFINE before == acc[k - 1]
             e == handles[k]
  <2>2. e \in X /\ OnceOf(X, before)
    BY <1>1, <2>1 DEF AddedUpTo
  <2>3. acc[k] = AddOp(0, before, e)
    BY <1>4
  <2> HIDE DEF before, e
  <2>4. OnceOf(X, acc[k]) /\ \A x : x \in ToSet(acc[k]) <=> x \in ToSet(before) \/ x = e
    BY <2>2, <2>3, AddedOnce
  <2>5. \A j : j \in 1 .. k <=> j \in 1 .. k - 1 \/ j = k
    BY <1>1
  <2>6. AddedUpTo(X, found, handles, k, acc[k])
    BY <2>1, <2>4, <2>5 DEF AddedUpTo, before, e
  <2>7. k \in 0 .. n
    BY <1>1
  <2> QED
    BY <2>6, <2>7
<1> HIDE DEF holds
<1>7. n \in holds
  <2>1. \A k \in 1 .. n : k - 1 \in holds => k \in holds
    BY <1>6
  <2>2. \A k \in 0 .. n : k \in holds
    BY <1>1, <1>5, <2>1, UpTo
  <2>3. n \in 0 .. n
    BY <1>1
  <2> QED
    BY <2>2, <2>3
<1>8. AddedUpTo(X, found, handles, n, Mapping!AddAll(found, handles))
  BY <1>4, <1>7 DEF holds
<1>9. \A x : x \in ToSet(handles) <=> \E j \in 1 .. n : x = handles[j]
  BY <1>1 DEF ToSet
<1> QED
  BY <1>8, <1>9 DEF AddedUpTo

-----------------------------------------------------------------------------
(* The index of the second side: for every name, the handles that were     *)
(* indexed and use it.                                                     *)
Uses(m, g, name) == \E k \in DOMAIN m[g] : m[g][k].name = name

IndexOf(m, left, idx) ==
    \A name : /\ Mapping!HandlesNamed(idx, name) \in Seq(DOMAIN m)
              /\ \A g : g \in ToSet(Mapping!HandlesNamed(idx, name))
                         <=> g \in DOMAIN m /\ g \notin left /\ Uses(m, g, name)

PushOp(h, idx, name) == Mapping!Pushed(h, idx, name)

Pushing == INSTANCE DataProofs WITH Op <- PushOp

(* The first k names of one more handle are in the index.                  *)
IndexedUpTo(m, left, h, k, idx) ==
    \A name : /\ Mapping!HandlesNamed(idx, name) \in Seq(DOMAIN m)
              /\ \A g : g \in ToSet(Mapping!HandlesNamed(idx, name))
                         <=> \/ g \in DOMAIN m /\ g \notin left /\ Uses(m, g, name)
                             \/ g = h /\ \E j \in 1 .. k : m[h][j].name = name

LEMMA NamePushed ==
    ASSUME NEW m, NEW left, NEW h \in DOMAIN m, NEW k \in Nat \ {0}, NEW idx,
           IndexedUpTo(m, left, h, k - 1, idx)
    PROVE  IndexedUpTo(m, left, h, k, PushOp(h, idx, m[h][k].name))
<1> DEFINE e == m[h][k].name
           next == PushOp(h, idx, e)
<1> SUFFICES ASSUME NEW name
             PROVE  /\ Mapping!HandlesNamed(next, name) \in Seq(DOMAIN m)
                    /\ \A g : g \in ToSet(Mapping!HandlesNamed(next, name))
                               <=> \/ g \in DOMAIN m /\ g \notin left /\ Uses(m, g, name)
                                   \/ g = h /\ \E j \in 1 .. k : m[h][j].name = name
  BY DEF IndexedUpTo
<1> DEFINE s == Mapping!HandlesNamed(idx, name)
           r == Mapping!HandlesNamed(next, name)
<1>1. /\ s \in Seq(DOMAIN m)
      /\ \A g : g \in ToSet(s)
                 <=> \/ g \in DOMAIN m /\ g \notin left /\ Uses(m, g, name)
                     \/ g = h /\ \E j \in 1 .. k - 1 : m[h][j].name = name
  BY DEF IndexedUpTo
<1>2. r = IF name = e THEN Append(s, h) ELSE s
  <2> HIDE DEF e
  <2>1. CASE name = e
    BY <2>1 DEF PushOp, Mapping!Pushed, Mapping!HandlesNamed
  <2>2. CASE name # e
    BY <2>2 DEF PushOp, Mapping!Pushed, Mapping!HandlesNamed
  <2> QED
    BY <2>1, <2>2
<1> HIDE DEF s, r, next
<1>3. \A j : j \in 1 .. k <=> j \in 1 .. k - 1 \/ j = k
  OBVIOUS
<1>4. CASE name # e
  <2>1. (\E j \in 1 .. k : m[h][j].name = name) <=> (\E j \in 1 .. k - 1 : m[h][j].name = name)
    BY <1>3, <1>4
  <2> QED
    BY <1>1, <1>2, <1>4, <2>1 DEF r
<1>5. CASE name = e
  <2>1. \E j \in 1 .. k : m[h][j].name = name
    BY <1>3, <1>5
  <2> HIDE DEF e
  <2>2. r \in Seq(DOMAIN m) /\ \A g : g \in ToSet(r) <=> g \in ToSet(s) \/ g = h
    <3>1. r = Append(s, h)
      BY <1>2, <1>5
    <3>2. /\ r \in Seq(DOMAIN m) /\ DOMAIN r = 1 .. Len(s) + 1
          /\ \A j \in 1 .. Len(s) : r[j] = s[j]
          /\ r[Len(s) + 1] = h /\ Len(s) \in Nat /\ DOMAIN s = 1 .. Len(s)
      BY <1>1, <3>1
    <3>3. \A j : j \in 1 .. Len(s) + 1 <=> j \in 1 .. Len(s) \/ j = Len(s) + 1
      BY <3>2
    <3> QED
      BY <3>2, <3>3 DEF ToSet
  <2> QED
    BY <1>1, <1>3, <2>1, <2>2 DEF r
<1> QED
  BY <1>4, <1>5

(* All names of a handle.                                                  *)
LEMMA HandleIndexed ==
    ASSUME NEW m, NEW left, NEW h \in DOMAIN m, NEW n \in Nat, DOMAIN m[h] = 1 .. n,
           h \in left, NEW idx, IndexOf(m, left, idx), NEW names,
           names = [k \in DOMAIN m[h] |-> m[h][k].name]
    PROVE  IndexOf(m, left \ {h}, Pushing!Fold(h, idx, names))
<1> DEFINE result == Pushing!Fold(h, idx, names)
<1>1. DOMAIN names = 1 .. n /\ \A k \in 1 .. n : names[k] = m[h][k].name
  OBVIOUS
<1>2. PICK acc : Pushing!FoldedBy(acc, h, idx, names, n)
  BY <1>1, Pushing!FoldSteps
<1>3. /\ acc[0] = idx
      /\ \A k \in 1 .. n : acc[k] = PushOp(h, acc[k - 1], m[h][k].name)
      /\ result = acc[n]
  BY <1>1, <1>2 DEF Pushing!FoldedBy
<1> HIDE DEF result
<1> DEFINE holds == {k \in 0 .. n : IndexedUpTo(m, left, h, k, acc[k])}
<1>4. 0 \in holds
  <2>1. 1 .. 0 = {} /\ 0 \in 0 .. n
    OBVIOUS
  <2> QED
    BY <1>3, <2>1 DEF IndexedUpTo, IndexOf
<1>5. ASSUME NEW k \in 1 .. n, k - 1 \in holds PROVE k \in holds
  <2>1. IndexedUpTo(m, left, h, k - 1, acc[k - 1])
    BY <1>5
  <2>2. IndexedUpTo(m, left, h, k, PushOp(h, acc[k - 1], m[h][k].name))
    BY <2>1, NamePushed
  <2> QED
    BY <1>3, <2>2
<1> HIDE DEF holds
<1>6. n \in holds
  <2>1. \A k \in 1 .. n : k - 1 \in holds => k \in holds
    BY <1>5
  <2>2. \A k \in 0 .. n : k \in holds
    BY <1>4, <2>1, UpTo
  <2> QED
    BY <2>2
<1>7. IndexedUpTo(m, left, h, n, result)
  BY <1>3, <1>6 DEF holds
<1>8. \A name : Uses(m, h, name) <=> \E j \in 1 .. n : m[h][j].name = name
  BY DEF Uses
<1>9. \A g : g \notin left \ {h} <=> g \notin left \/ g = h
  OBVIOUS
<1>10. IndexOf(m, left \ {h}, result)
  BY <1>7, <1>8, <1>9 DEF IndexedUpTo, IndexOf
<1> QED
  BY <1>10 DEF result

-----------------------------------------------------------------------------
(* The handles of the second side that share a path with a handle of the   *)
(* first, when all of the second side is in the index.                     *)
HasPath(g, path) == \E k \in DOMAIN map[g] : Segments(tree, map[g][k].name) = path

LEMMA CounterpartsShare ==
    ASSUME SInv, IsHierarchy(first), unindexed = {}, IndexOf(map, unindexed, index),
           NEW name \in Ids(first.tree)
    PROVE  /\ Mapping!Counterparts(name) \in Seq(DOMAIN map)
           /\ \A g : g \in ToSet(Mapping!Counterparts(name))
                      <=> g \in DOMAIN map /\ HasPath(g, Segments(first.tree, name))
<1> DEFINE path == Segments(first.tree, name)
           found == Find(tree, path)
<1>1. Mapping!Counterparts(name) = Mapping!HandlesNamed(index, found)
  <2>1. Second.tree = tree
    BY DEF Second
  <2> QED
    BY <2>1, MappingNames DEF Mapping!Counterparts
<1>2. path \in Seq(SegmentsIn(first.tree))
  <2>1. IsArena(first.tree, SegmentsIn(first.tree)) /\ LinksAgree(first.tree)
    BY TreeIsArena DEF IsHierarchy
  <2> QED
    BY <2>1, SegmentsTyped
<1>3. \A id \in Ids(tree) : found = id <=> Segments(tree, id) = path
  <2>1. IsArena(tree, Alphabet) /\ LinksAgree(tree)
    BY DEF SInv
  <2> HIDE DEF path
  <2> QED
    BY <1>2, <2>1, FindExact
<1> HIDE DEF found, path
<1>4. \A g \in DOMAIN map : Uses(map, g, found) <=> HasPath(g, path)
  <2> TAKE g \in DOMAIN map
  <2>1. \A k \in DOMAIN map[g] : map[g][k].name \in Ids(tree)
    BY SecondNamed
  <2> QED
    BY <1>3, <2>1 DEF Uses, HasPath
<1>5. /\ Mapping!HandlesNamed(index, found) \in Seq(DOMAIN map)
      /\ \A g : g \in ToSet(Mapping!HandlesNamed(index, found))
                 <=> g \in DOMAIN map /\ Uses(map, g, found)
  BY DEF IndexOf
<1> QED
  BY <1>1, <1>4, <1>5 DEF path

ForOp(with, acc, name) == Mapping!AddAll(acc, Mapping!Counterparts(name))

Finding == INSTANCE DataProofs WITH Op <- ForOp

(* The handles that share a path with the first k names of a handle.       *)
SharedUpTo(h, k, acc) ==
    /\ OnceOf(DOMAIN map, acc)
    /\ \A g : g \in ToSet(acc)
               <=> g \in DOMAIN map
                   /\ \E j \in 1 .. k : HasPath(g, Segments(first.tree, first.map[h][j].name))

(* All names of a handle.                                                  *)
LEMMA HandlesShare ==
    ASSUME SInv, IsHierarchy(first), unindexed = {}, IndexOf(map, unindexed, index),
           NEW h \in DOMAIN first.map
    PROVE  SharedUpTo(h, Len(first.map[h]), Mapping!HandlesFor(Mapping!NamesOf(first, h)))
<1> DEFINE n == Len(first.map[h])
           names == Mapping!NamesOf(first, h)
           result == Mapping!HandlesFor(names)
<1>1. /\ n \in Nat /\ DOMAIN names = 1 .. n
      /\ \A k \in 1 .. n : names[k] = first.map[h][k].name /\ names[k] \in Ids(first.tree)
  BY VariablesOf DEF Mapping!NamesOf
<1>2. result = Finding!Fold(0, <<>>, names)
  BY DEF Mapping!HandlesFor, ForOp, Finding!Fold, Mapping!FoldLeft, Mapping!MapThenFoldSet,
         Mapping!Max, Finding!FoldLeft, Finding!MapThenFoldSet, Finding!Max
<1> HIDE DEF n, names
<1>3. PICK acc : Finding!FoldedBy(acc, 0, <<>>, names, n)
  BY <1>1, Finding!FoldSteps
<1>4. /\ acc[0] = <<>>
      /\ \A k \in 1 .. n : acc[k] = Mapping!AddAll(acc[k - 1], Mapping!Counterparts(names[k]))
      /\ result = acc[n]
  BY <1>2, <1>3 DEF Finding!FoldedBy, ForOp
<1> HIDE DEF result
<1> DEFINE holds == {k \in 0 .. n : SharedUpTo(h, k, acc[k])}
<1>5. 0 \in holds
  <2>1. 1 .. 0 = {} /\ 0 \in 0 .. n
    BY <1>1
  <2>2. OnceOf(DOMAIN map, <<>>) /\ ToSet(<<>>) = {}
    BY DEF OnceOf, IsInjective, ToSet
  <2> QED
    BY <1>4, <2>1, <2>2 DEF SharedUpTo
<1>6. ASSUME NEW k \in 1 .. n, k - 1 \in holds PROVE k \in holds
  <2>1. SharedUpTo(h, k - 1, acc[k - 1])
    BY <1>6
  <2> DEFINE before == acc[k - 1]
             name == names[k]
             more == Mapping!Counterparts(name)
  <2>2. name \in Ids(first.tree) /\ name = first.map[h][k].name
    BY <1>1
  <2>3. /\ more \in Seq(DOMAIN map)
        /\ \A g : g \in ToSet(more)
                   <=> g \in DOMAIN map /\ HasPath(g, Segments(first.tree, name))
    <3> HIDE DEF name
    <3> QED
      BY <2>2, CounterpartsShare
  <2>4. acc[k] = Mapping!AddAll(before, more)
    BY <1>4
  <2>5. OnceOf(DOMAIN map, before)
    BY <2>1 DEF SharedUpTo
  <2> HIDE DEF before, more, name
  <2>6. /\ OnceOf(DOMAIN map, acc[k])
        /\ \A g : g \in ToSet(acc[k]) <=> g \in ToSet(before) \/ g \in ToSet(more)
    BY <2>3, <2>4, <2>5, AllAdded
  <2>7. \A j : j \in 1 .. k <=> j \in 1 .. k - 1 \/ j = k
    BY <1>1
  <2>8. \A g : g \in ToSet(before)
               <=> g \in DOMAIN map
                   /\ \E j \in 1 .. k - 1 : HasPath(g, Segments(first.tree, first.map[h][j].name))
    BY <2>1 DEF SharedUpTo, before
  <2>9. SharedUpTo(h, k, acc[k])
    BY <2>2, <2>3, <2>6, <2>7, <2>8 DEF SharedUpTo
  <2>10. k \in 0 .. n
    BY <1>1
  <2> QED
    BY <2>9, <2>10
<1> HIDE DEF holds
<1>7. n \in holds
  <2>1. \A k \in 1 .. n : k - 1 \in holds => k \in holds
    BY <1>6
  <2>2. \A k \in 0 .. n : k \in holds
    BY <1>1, <1>5, <2>1, UpTo
  <2>3. n \in 0 .. n
    BY <1>1
  <2> QED
    BY <2>2, <2>3
<1> QED
  BY <1>4, <1>7 DEF holds, n, result, names
-----------------------------------------------------------------------------
(* The invariant of a comparison up to the values: what was reported about *)
(* names is about the sides as they are, and while the handles are mapped  *)
(* the index holds the handles that were indexed and the mapping is exact  *)
(* for those that were mapped.                                             *)
MappedExactly(h) ==
    LET shared == {g \in DOMAIN map :
                     \E k \in DOMAIN first.map[h] :
                        HasPath(g, Segments(first.tree, first.map[h][k].name))}
    IN  IF h \in DOMAIN mapping
        THEN ToSet(mapping[h]) = shared /\ shared # {} /\ IsInjective(mapping[h])
        ELSE shared = {}

MInv ==
    /\ first \in FirstSides
    /\ reported # None => phase = "reading" /\ reported.only1 = Meta!OnlyIn(first, Second)
    /\ comparing => /\ reported # None
                    /\ unindexed \subseteq DOMAIN map /\ unmapped \subseteq DOMAIN first.map
                    /\ IndexOf(map, unindexed, index)
                    /\ \A h \in DOMAIN mapping : h \notin unmapped
                    /\ \A h \in DOMAIN first.map \ unmapped : MappedExactly(h)

(* The exactness in the words of the specification.                        *)
LEMMA ExactAsStated ==
    ASSUME \A h \in DOMAIN first.map \ unmapped : MappedExactly(h)
    PROVE  Mapping!MappingExact
<1>1. \A h, g : Mapping!Paths(first, h) \cap Mapping!Paths(Second, g) # {}
                 <=> \E k \in DOMAIN first.map[h] :
                       HasPath(g, Segments(first.tree, first.map[h][k].name))
  <2> TAKE h, g
  <2>1. Mapping!Paths(first, h) = {Segments(first.tree, first.map[h][k].name) : k \in DOMAIN first.map[h]}
    BY MappingNames DEF Mapping!Paths
  <2>2. Mapping!Paths(Second, g) = {Segments(tree, map[g][k].name) : k \in DOMAIN map[g]}
    BY MappingNames DEF Mapping!Paths, Second
  <2> QED
    BY <2>1, <2>2 DEF HasPath
<1> SUFFICES ASSUME NEW h \in DOMAIN first.map \ unmapped
             PROVE  LET shared == {g \in DOMAIN map :
                                     Mapping!Paths(first, h) \cap Mapping!Paths(Second, g) # {}}
                    IN  IF h \in DOMAIN mapping
                        THEN ToSet(mapping[h]) = shared /\ shared # {} /\ IsInjective(mapping[h])
                        ELSE shared = {}
  BY DEF Mapping!MappingExact, Mapping!ToSet, ToSet, Mapping!IsInjective, IsInjective, Second
<1>2. {g \in DOMAIN map : Mapping!Paths(first, h) \cap Mapping!Paths(Second, g) # {}}
        = {g \in DOMAIN map : \E k \in DOMAIN first.map[h] :
                                HasPath(g, Segments(first.tree, first.map[h][k].name))}
  BY <1>1
<1> QED
  BY <1>2 DEF MappedExactly

LEMMA InitMInv == SidesInit => MInv
  BY DEF SidesInit, MInv

(* Once names were compared nothing is merged or filtered any more.        *)
LEMMA OpenSecondMInv == ASSUME MInv, OpenSecond PROVE MInv'
<1>1. UNCHANGED << first, reported, comparing >>
  BY DEF OpenSecond
<1>2. phase # "reading"
  BY DEF OpenSecond, Next, MergeHandle, NextFile, NoFilter, Filter
<1>3. reported = None /\ ~comparing
  BY <1>2 DEF MInv
<1> QED
  BY <1>1, <1>3 DEF MInv

LEMMA CompareNamesMInv == ASSUME MInv, NEW noAttrs \in BOOLEAN, CompareNames(noAttrs) PROVE MInv'
<1>1. /\ phase = "reading" /\ reported = None
      /\ UNCHANGED << phase, map, tree, first, comparing >>
  BY DEF CompareNames, vars
<1>2. reported'.only1 = Meta!OnlyIn(first, Second)
  BY DEF CompareNames
<1>3. Second' = Second
  BY <1>1 DEF Second
<1>4. reported'.only1 = Meta!OnlyIn(first', Second')
  BY <1>1, <1>2, <1>3
<1>5. ~comparing
  BY <1>1 DEF MInv
<1> QED
  BY <1>1, <1>4, <1>5 DEF MInv

LEMMA StartMInv == ASSUME MInv, StartMapping PROVE MInv'
<1>1. /\ reported # None /\ UNCHANGED << phase, map, tree, first, reported >>
      /\ unindexed' = DOMAIN map /\ unmapped' = DOMAIN first.map
      /\ index' = Mapping!Empty /\ mapping' = Mapping!Empty
  BY DEF StartMapping, vars, Mapping!Start, Second
<1>2. IndexOf(map, DOMAIN map, Mapping!Empty)
  <2>1. \A name : Mapping!HandlesNamed(Mapping!Empty, name) = <<>>
    BY DEF Mapping!HandlesNamed, Mapping!Empty
  <2>2. ToSet(<<>>) = {} /\ <<>> \in Seq(DOMAIN map)
    BY DEF ToSet
  <2> QED
    BY <2>1, <2>2 DEF IndexOf
<1>3. DOMAIN mapping' = {}
  BY <1>1 DEF Mapping!Empty
<1>4. Second' = Second
  BY <1>1 DEF Second
<1>5. IndexOf(map', unindexed', index')
  BY <1>1, <1>2
<1>6. reported' # None => phase' = "reading" /\ reported'.only1 = Meta!OnlyIn(first', Second')
  BY <1>1, <1>4 DEF MInv
<1> QED
  BY <1>1, <1>3, <1>5, <1>6 DEF MInv

(* One handle of the second side goes into the index ...                   *)
LEMMA IndexHandleMInv ==
    ASSUME SInv, MInv, comparing, NEW h \in unindexed, Mapping!IndexHandle(h),
           UNCHANGED << vars, first, reported, comparing >>
    PROVE  MInv'
<1>1. UNCHANGED << phase, map, tree, first, reported, comparing, unmapped, mapping >>
  BY DEF vars, Mapping!IndexHandle
<1>2. unindexed' = unindexed \ {h}
  BY DEF Mapping!IndexHandle
<1>3. h \in DOMAIN map /\ IndexOf(map, unindexed, index)
  BY DEF MInv
<1> DEFINE names == Mapping!NamesOf(Second, h)
<1>4. index' = Pushing!Fold(h, index, names)
  BY DEF Mapping!IndexHandle, PushOp, Pushing!Fold, Mapping!FoldLeft, Mapping!MapThenFoldSet,
         Mapping!Max, Pushing!FoldLeft, Pushing!MapThenFoldSet, Pushing!Max
<1>5. names = [k \in DOMAIN map[h] |-> map[h][k].name]
  BY DEF Mapping!NamesOf, Second
<1>6. PICK n \in Nat : DOMAIN map[h] = 1 .. n
  BY <1>3, SecondNamed
<1> HIDE DEF names
<1>7. IndexOf(map, unindexed \ {h}, Pushing!Fold(h, index, names))
  BY <1>3, <1>5, <1>6, HandleIndexed
<1>8. IndexOf(map', unindexed', index')
  BY <1>1, <1>2, <1>4, <1>7
<1>9. Second' = Second
  BY <1>1 DEF Second
<1>10. \A g \in DOMAIN first.map' \ unmapped' : MappedExactly(g)'
  BY <1>1 DEF MInv, MappedExactly, HasPath
<1> QED
  BY <1>1, <1>2, <1>8, <1>9, <1>10 DEF MInv

(* ... and, when the index is complete, one of the first side is mapped.   *)
LEMMA MapHandleMInv ==
    ASSUME SInv, MInv, comparing, NEW h \in unmapped, Mapping!MapHandle(h),
           UNCHANGED << vars, first, reported, comparing >>
    PROVE  MInv'
<1>1. UNCHANGED << phase, map, tree, first, reported, comparing, unindexed, index >>
  BY DEF vars, Mapping!MapHandle
<1> DEFINE handles == Mapping!HandlesFor(Mapping!NamesOf(first, h))
           shared == {g \in DOMAIN map :
                        \E k \in DOMAIN first.map[h] :
                           HasPath(g, Segments(first.tree, first.map[h][k].name))}
<1>2. unindexed = {} /\ unmapped' = unmapped \ {h} /\ mapping' = Mapping!Entry(h, handles)
  BY DEF Mapping!MapHandle
<1>3. IsHierarchy(first) /\ h \in DOMAIN first.map /\ h \notin DOMAIN mapping
  BY FirstSideOpened DEF MInv
<1>4. DOMAIN first.map[h] = 1 .. Len(first.map[h])
  BY <1>3, VariablesOf
<1>5. SharedUpTo(h, Len(first.map[h]), handles)
  <2>1. IndexOf(map, unindexed, index)
    BY DEF MInv
  <2> QED
    BY <1>2, <1>3, <2>1, HandlesShare
<1>6. handles \in Seq(DOMAIN map) /\ IsInjective(handles) /\ ToSet(handles) = shared
  BY <1>4, <1>5 DEF SharedUpTo, OnceOf, ToSet
<1> HIDE DEF handles
<1>7. shared = {} <=> handles = <<>>
  <2> HIDE DEF shared
  <2>1. handles = <<>> => ToSet(handles) = {}
    BY DEF ToSet
  <2>2. handles # <<>> => handles[1] \in ToSet(handles)
    <3>1. handles # <<>> => 1 \in DOMAIN handles
      BY <1>6
    <3> QED
      BY <3>1 DEF ToSet
  <2> QED
    BY <1>6, <2>1, <2>2
<1>8. /\ handles = <<>> => mapping' = mapping
      /\ handles # <<>> => /\ DOMAIN mapping' = DOMAIN mapping \cup {h}
                           /\ mapping'[h] = handles
                           /\ \A g \in DOMAIN mapping : g # h => mapping'[g] = mapping[g]
  BY <1>2 DEF Mapping!Entry
<1>9. \A g \in DOMAIN mapping' : g \notin unmapped'
  <2>1. \A g \in DOMAIN mapping : g \notin unmapped
    BY DEF MInv
  <2> QED
    BY <1>2, <1>8, <2>1
<1>10. MappedExactly(h)'
  BY <1>1, <1>3, <1>6, <1>7, <1>8 DEF MappedExactly, HasPath
<1>11. ASSUME NEW g \in DOMAIN first.map \ unmapped PROVE MappedExactly(g)'
  <2>1. MappedExactly(g) /\ g # h
    BY <1>11 DEF MInv
  <2>2. /\ g \in DOMAIN mapping' <=> g \in DOMAIN mapping
        /\ g \in DOMAIN mapping => mapping'[g] = mapping[g]
    BY <1>8, <2>1
  <2> QED
    BY <1>1, <2>1, <2>2 DEF MappedExactly, HasPath
<1>12. \A g \in DOMAIN first.map' \ unmapped' : MappedExactly(g)'
  <2>1. \A g \in DOMAIN first.map' \ unmapped' : g = h \/ g \in DOMAIN first.map \ unmapped
    BY <1>1, <1>2
  <2> QED
    BY <1>10, <1>11, <2>1
<1>13. Second' = Second
  BY <1>1 DEF Second
<1> QED
  BY <1>1, <1>2, <1>9, <1>12, <1>13 DEF MInv

LEMMA NextMInv == SInv /\ MInv /\ [SidesNext]_allVars => MInv'
<1> SUFFICES ASSUME SInv, MInv, [SidesNext]_allVars PROVE MInv'
  OBVIOUS
<1>1. CASE OpenSecond
  BY <1>1, OpenSecondMInv
<1>2. ASSUME NEW noAttrs \in BOOLEAN, CompareNames(noAttrs) PROVE MInv'
  BY <1>2, CompareNamesMInv
<1>3. CASE StartMapping
  BY <1>3, StartMInv
<1>4. CASE MapHandles
  <2>1. ASSUME NEW h \in unindexed, Mapping!IndexHandle(h) PROVE MInv'
    BY <1>4, <2>1, IndexHandleMInv DEF MapHandles
  <2>2. ASSUME NEW h \in unmapped, Mapping!MapHandle(h) PROVE MInv'
    BY <1>4, <2>2, MapHandleMInv DEF MapHandles
  <2> QED
    BY <1>4, <2>1, <2>2 DEF MapHandles, Mapping!Next
<1>5. CASE UNCHANGED allVars
  <2>1. UNCHANGED << phase, map, tree, first, reported, comparing, unindexed, index, unmapped, mapping >>
    BY <1>5 DEF allVars, vars, mappingVars
  <2>2. Second' = Second
    BY <2>1 DEF Second
  <2>3. comparing => \A h \in DOMAIN first.map' \ unmapped' : MappedExactly(h)'
    BY <2>1 DEF MInv, MappedExactly, HasPath
  <2> QED
    BY <2>1, <2>2, <2>3 DEF MInv
<1> QED
  BY <1>1, <1>2, <1>3, <1>4, <1>5 DEF SidesNext

LEMMA SpecMInv == SidesSpec => []MInv
<1>1. SidesInit => MInv
  BY InitMInv
<1>2. SInv /\ MInv /\ [SidesNext]_allVars => MInv'
  BY NextMInv
<1> QED
  BY <1>1, <1>2, SpecSInv, PTL DEF SidesSpec

(* For any sides, any filter and any order of the walks, a handle of the   *)
(* first side is mapped to exactly the handles of the second that share a  *)
(* path with it, each once (build_handle_mapping).                         *)
LEMMA MInvExact == MInv => MappingExact
  BY ExactAsStated DEF MInv, MappingExact

THEOREM MappedToShared == SidesSpec => []MappingExact
  BY SpecMInv, MInvExact, PTL

-----------------------------------------------------------------------------
(* No signal is left out of a comparison in silence: a name that is not    *)
(* compared is reported, unless another path is displayed like it.         *)
LEMMA MInvReported == MInv => MismatchReported
<1> SUFFICES ASSUME MInv, comparing, unmapped = {},
                    NEW h \in DOMAIN first.map, NEW k \in DOMAIN first.map[h]
             PROVE  LET var  == first.map[h][k]
                        name == Meta!Displayed(first, var)
                    IN  /\ name \in reported.only1 => ~MappedPath(h, var)
                        /\ h \notin DOMAIN mapping =>
                             \/ name \in reported.only1
                             \/ \E w \in Meta!VarsOf(Second) : Meta!Displayed(Second, w) = name
                                                               /\ Segments(tree, w.name)
                                                                    # Segments(first.tree, var.name)
  BY DEF MismatchReported
<1> DEFINE var  == first.map[h][k]
           path == Segments(first.tree, var.name)
           name == Meta!Displayed(first, var)
<1>1. name = FlatName(path)
  BY MetaNames
<1>2. \A w : Meta!Displayed(Second, w) = FlatName(Segments(tree, w.name))
  BY MetaNames DEF Second
<1>3. \A w : w \in Meta!VarsOf(Second) <=> \E g \in DOMAIN map : \E j \in DOMAIN map[g] : w = map[g][j]
  BY DEF Meta!VarsOf, Meta!ToSet, Second
<1>4. name \in Meta!NamesShown(first)
  <2>1. var \in Meta!VarsOf(first)
    BY DEF Meta!VarsOf, Meta!ToSet
  <2> QED
    BY <2>1 DEF Meta!NamesShown
<1>5. name \in reported.only1
        <=> ~ \E w \in Meta!VarsOf(Second) : Meta!Displayed(Second, w) = name
  <2>1. reported.only1 = Meta!OnlyIn(first, Second)
    BY DEF MInv
  <2> HIDE DEF name
  <2> QED
    BY <1>4, <2>1 DEF Meta!OnlyIn, Meta!NamesShown
<1>6. \A g \in DOMAIN map : path \in Mapping!Paths(Second, g) <=> HasPath(g, path)
  BY MappingNames DEF Mapping!Paths, Second, HasPath
<1> HIDE DEF name, path
<1>7. ASSUME name \in reported.only1, NEW g \in DOMAIN map, HasPath(g, path) PROVE FALSE
  <2>1. PICK j \in DOMAIN map[g] : Segments(tree, map[g][j].name) = path
    BY <1>7 DEF HasPath
  <2>2. map[g][j] \in Meta!VarsOf(Second) /\ Meta!Displayed(Second, map[g][j]) = name
    BY <1>1, <1>2, <1>3, <2>1
  <2> QED
    BY <1>5, <1>7, <2>2
<1>8. ASSUME h \notin DOMAIN mapping, name \notin reported.only1
      PROVE  \E w \in Meta!VarsOf(Second) :
               Meta!Displayed(Second, w) = name /\ Segments(tree, w.name) # path
  <2>1. PICK w \in Meta!VarsOf(Second) : Meta!Displayed(Second, w) = name
    BY <1>5, <1>8
  <2>2. PICK g \in DOMAIN map : \E j \in DOMAIN map[g] : w = map[g][j]
    BY <1>3, <2>1
  <2>3. ~HasPath(g, path)
    <3>1. MappedExactly(h)
      BY DEF MInv
    <3> QED
      BY <1>8, <3>1 DEF MappedExactly, path
  <2>4. Segments(tree, w.name) # path
    BY <2>2, <2>3 DEF HasPath
  <2> QED
    BY <2>1, <2>4
<1>9. name \in reported.only1 => ~MappedPath(h, var)
  BY <1>6, <1>7 DEF MappedPath, path
<1> QED
  BY <1>8, <1>9 DEF name, path

THEOREM NothingLeftOut == SidesSpec => []MismatchReported
  BY SpecMInv, MInvReported, PTL

-----------------------------------------------------------------------------
(* The handles the readers are told to read.                               *)
Shifted(T, n) == {n + l : l \in T}

LEMMA ShiftedSize ==
    ASSUME NEW T \in SUBSET Nat, IsFiniteSet(T), NEW n \in Nat
    PROVE  IsFiniteSet(Shifted(T, n)) /\ Cardinality(Shifted(T, n)) = Cardinality(T)
<1> DEFINE f == [l \in T |-> n + l]
<1>1. f \in Bijection(T, Shifted(T, n))
  <2>1. \A l, m \in T : n + l = n + m => l = m
    OBVIOUS
  <2>2. f \in [T -> Shifted(T, n)]
    BY DEF Shifted
  <2>3. \A y \in Shifted(T, n) : \E l \in T : f[l] = y
    BY DEF Shifted
  <2>4. \A l, m \in T : f[l] = f[m] => l = m
    BY <2>1
  <2> HIDE DEF f
  <2> QED
    BY <2>2, <2>3, <2>4 DEF Bijection, Injection, Surjection, IsInjective
<1> QED
  BY <1>1, FS_Bijection DEF ExistsBijection

(* The merged handles of the first k files, and how many there are.        *)
KeysUpTo(k) == UNION {Shifted(Handles(i), offsets[i]) : i \in 1 .. k}

SumOp(with, sum, file) == sum + Cardinality(DOMAIN file.map)

Summing == INSTANCE DataProofs WITH Op <- SumOp

CountedUpTo(k, sum) == IsFiniteSet(KeysUpTo(k)) /\ Cardinality(KeysUpTo(k)) = sum

LEMMA FileCounted ==
    ASSUME files \in Inputs, current \in DOMAIN files, OffsetsApart(files, current, offsets),
           NEW k \in 1 .. current, NEW sum, CountedUpTo(k - 1, sum)
    PROVE  CountedUpTo(k, SumOp(0, sum, files[k]))
<1> DEFINE before == KeysUpTo(k - 1)
           here == Shifted(Handles(k), offsets[k])
<1>1. /\ DOMAIN files = 1 .. Len(files) /\ Len(files) \in Nat
      /\ \A x \in DOMAIN files : DOMAIN files[x].map \in SUBSET Nat /\ IsFiniteSet(DOMAIN files[x].map)
  BY Opened
<1>2. k \in DOMAIN files /\ offsets[k] \in Nat
  BY <1>1 DEF OffsetsApart
<1>3. Handles(k) \in SUBSET Nat /\ IsFiniteSet(Handles(k)) /\ Cardinality(Handles(k)) \in Nat
  BY <1>1, <1>2, FS_CardinalityType DEF Handles
<1>4. IsFiniteSet(here) /\ Cardinality(here) = Cardinality(Handles(k))
  BY <1>2, <1>3, ShiftedSize
<1>5. IsFiniteSet(before) /\ Cardinality(before) = sum /\ sum \in Nat
  BY FS_CardinalityType DEF CountedUpTo
<1>6. KeysUpTo(k) = before \cup here
  <2>1. \A i : i \in 1 .. k <=> i \in 1 .. k - 1 \/ i = k
    BY <1>1
  <2> QED
    BY <2>1 DEF KeysUpTo
<1>7. before \cap here = {}
  <2> SUFFICES ASSUME NEW i \in 1 .. k - 1, NEW l \in Handles(i), NEW n \in Handles(k),
                      offsets[i] + l = offsets[k] + n
               PROVE  FALSE
    BY DEF KeysUpTo, Shifted
  <2>1. i \in 1 .. current /\ i # k /\ l \in DOMAIN files[i].map /\ n \in DOMAIN files[k].map
    BY <1>1 DEF Handles
  <2> QED
    BY <2>1, KeysApart
<1> HIDE DEF before, here
<1>8. /\ IsFiniteSet(before \cup here)
      /\ Cardinality(before \cup here)
           = Cardinality(before) + Cardinality(here) - Cardinality(before \cap here)
  BY <1>4, <1>5, FS_Union
<1>9. Cardinality(before \cap here) = 0
  BY <1>7, FS_EmptySet
<1>10. Cardinality(before \cup here) = sum + Cardinality(Handles(k))
  BY <1>3, <1>4, <1>5, <1>8, <1>9
<1> QED
  BY <1>6, <1>8, <1>10 DEF CountedUpTo, SumOp, Handles

LEMMA AllCounted ==
    ASSUME files \in Inputs, current = Len(files), OffsetsApart(files, current, offsets)
    PROVE  IsFiniteSet(KeysUpTo(current)) /\ Cardinality(KeysUpTo(current)) = SourceCount
<1> DEFINE n == current
<1>1. DOMAIN files = 1 .. n /\ n \in Nat /\ n \in DOMAIN files
  BY Opened
<1>2. SourceCount = Summing!Fold(0, 0, files)
  BY DEF SourceCount, SumOp, Summing!Fold, FoldLeft, MapThenFoldSet, Max,
         Summing!FoldLeft, Summing!MapThenFoldSet, Summing!Max
<1> HIDE DEF n
<1>3. PICK acc : Summing!FoldedBy(acc, 0, 0, files, n)
  BY <1>1, Summing!FoldSteps
<1>4. /\ acc[0] = 0
      /\ \A k \in 1 .. n : acc[k] = SumOp(0, acc[k - 1], files[k])
      /\ SourceCount = acc[n]
  BY <1>2, <1>3 DEF Summing!FoldedBy
<1> DEFINE holds == {k \in 0 .. n : CountedUpTo(k, acc[k])}
<1>5. 0 \in holds
  <2>1. 1 .. 0 = {} /\ 0 \in 0 .. n
    BY <1>1
  <2>2. KeysUpTo(0) = {}
    BY <2>1 DEF KeysUpTo
  <2> QED
    BY <1>4, <2>1, <2>2, FS_EmptySet DEF CountedUpTo
<1>6. ASSUME NEW k \in 1 .. n, k - 1 \in holds PROVE k \in holds
  <2>1. CountedUpTo(k - 1, acc[k - 1]) /\ k \in 0 .. n
    BY <1>1, <1>6
  <2>2. CountedUpTo(k, SumOp(0, acc[k - 1], files[k]))
    BY <1>1, <2>1, FileCounted DEF n
  <2> QED
    BY <1>4, <2>1, <2>2
<1> HIDE DEF holds
<1>7. n \in holds
  <2>1. \A k \in 1 .. n : k - 1 \in holds => k \in holds
    BY <1>6
  <2>2. \A k \in 0 .. n : k \in holds
    BY <1>1, <1>5, <2>1, UpTo
  <2>3. n \in 0 .. n
    BY <1>1
  <2> QED
    BY <2>2, <2>3
<1> QED
  BY <1>4, <1>7 DEF holds, CountedUpTo, n

(* The merged map has the handles with a name that is left, and no others. *)
LEMMA KeysWanted ==
    ASSUME SInv, phase = "reading"
    PROVE  \A h : h \in DOMAIN map
                    <=> \E i \in 1 .. current : \E l \in Wanted(i) : h = offsets[i] + l
<1>1. /\ files \in Inputs /\ current \in DOMAIN files /\ current = Len(files) /\ todo = {}
      /\ DOMAIN files = 1 .. current /\ current \in Nat
      /\ \A x \in DOMAIN files : IsHierarchy(files[x])
  BY Opened DEF SInv
<1>2. CASE kept = All
  <2>1. DOMAIN map = Keys(files, current, {}, offsets)
    BY <1>1, <1>2 DEF SInv, MapFilled
  <2>2. ASSUME NEW i \in 1 .. current
        PROVE  Taken(files, current, {}, i) = DOMAIN files[i].map /\ Wanted(i) = DOMAIN files[i].map
    <3>1. i < current \/ i = current
      BY <1>1
    <3>2. ASSUME NEW l \in DOMAIN files[i].map PROVE DOMAIN files[i].map[l] # {}
      <4>1. IsHierarchy(files[i])
        BY <1>1
      <4>2. files[i].map[l] \in Seq(ToSet(files[i].map[l])) /\ files[i].map[l] # <<>>
        BY <4>1 DEF IsHierarchy
      <4>3. \A X : \A s \in Seq(X) : s # <<>> => 1 \in DOMAIN s
        OBVIOUS
      <4> QED
        BY <4>2, <4>3
    <3> QED
      BY <1>2, <3>1, <3>2 DEF Taken, Wanted, Stays, Handles
  <2> QED
    BY <2>1, <2>2 DEF Keys
<1>3. CASE kept # All
  <2>1. MapKept(files, offsets, map, tree, kept)
    BY <1>3 DEF SInv
  <2>2. \A i \in DOMAIN files : \A l \in DOMAIN files[i].map :
          l \in Wanted(i) <=> StayingIn(files[i], l, kept) # {}
    BY <1>3 DEF Wanted, Handles, Stays, StayingIn, FileFlat
  <2>3. \A i \in DOMAIN files : Wanted(i) \subseteq DOMAIN files[i].map
    BY DEF Wanted, Handles
  <2>4. ASSUME NEW h \in DOMAIN map
        PROVE  \E i \in 1 .. current : \E l \in Wanted(i) : h = offsets[i] + l
    <3>1. PICK i \in DOMAIN files : \E l \in DOMAIN files[i].map :
            h = offsets[i] + l /\ StayingIn(files[i], l, kept) # {}
      BY <2>1, <2>4 DEF MapKept
    <3> QED
      BY <1>1, <2>2, <3>1
  <2>5. ASSUME NEW i \in 1 .. current, NEW l \in Wanted(i) PROVE offsets[i] + l \in DOMAIN map
    BY <1>1, <2>1, <2>2, <2>3, <2>5 DEF MapKept
  <2> QED
    BY <2>4, <2>5
<1> QED
  BY <1>2, <1>3

(* A comparison leaves the include sets out only if every handle is left.  *)
LEMMA AllLeft ==
    ASSUME SInv, phase = "reading", Cardinality(DOMAIN map) = SourceCount,
           NEW i \in DOMAIN files
    PROVE  Wanted(i) = Handles(i)
<1>1. /\ files \in Inputs /\ current \in DOMAIN files /\ current = Len(files)
      /\ DOMAIN files = 1 .. current /\ OffsetsApart(files, current, offsets)
  BY Opened DEF SInv
<1>2. \A j : Wanted(j) \subseteq Handles(j)
  BY DEF Wanted
<1>3. DOMAIN map \in SUBSET KeysUpTo(current)
  BY <1>2, KeysWanted DEF KeysUpTo, Shifted
<1>4. DOMAIN map = KeysUpTo(current)
  BY <1>1, <1>3, AllCounted, FS_Subset
<1>5. ASSUME NEW l \in Handles(i) PROVE l \in Wanted(i)
  <2>1. offsets[i] + l \in DOMAIN map
    BY <1>1, <1>4 DEF KeysUpTo, Shifted
  <2>2. PICK j \in 1 .. current : \E n \in Wanted(j) : offsets[i] + l = offsets[j] + n
    BY <2>1, KeysWanted
  <2>3. PICK n \in Wanted(j) : offsets[i] + l = offsets[j] + n
    BY <2>2
  <2>4. n \in DOMAIN files[j].map /\ l \in DOMAIN files[i].map /\ i \in 1 .. current
    BY <1>1, <1>2 DEF Handles
  <2>5. files \in Inputs /\ current \in DOMAIN files /\ OffsetsApart(files, current, offsets)
    BY <1>1
  <2>6. i = j /\ l = n
    BY <2>3, <2>4, <2>5, KeysApart
  <2> QED
    BY <2>3, <2>6
<1> QED
  BY <1>2, <1>5

(* Sets of handles are no All.                                             *)
LEMMA WantedIsSet == ASSUME files \in Inputs, NEW i \in DOMAIN files PROVE Wanted(i) # All
<1>1. Wanted(i) \in SUBSET LocalHandles
  BY DEF Wanted, Handles, LocalHandles
<1> QED
  BY <1>1, NoneAndAll

LEMMA ComparisonReads ==
    ASSUME SInv, phase = "reading", NEW i \in DOMAIN files
    PROVE  Read(DiffInclude(i), i) = Wanted(i)
<1>1. /\ files \in Inputs /\ current \in DOMAIN files /\ current = Len(files)
      /\ DOMAIN files = 1 .. current /\ OffsetsApart(files, current, offsets)
      /\ \A x \in DOMAIN files : DOMAIN files[x].map \in SUBSET Nat
  BY Opened DEF SInv
<1>2. CASE Cardinality(DOMAIN map) = SourceCount
  BY <1>2, AllLeft DEF Read, DiffInclude
<1>3. CASE Cardinality(DOMAIN map) # SourceCount
  <2>1. \A j \in 1 .. current : offsets[j] \in Nat
    BY <1>1 DEF OffsetsApart
  <2>2. \A j \in 1 .. current : \A l \in Wanted(j) :
          /\ l \in DOMAIN files[j].map /\ l \in Nat
          /\ ReaderOf(offsets[j] + l) = j
          /\ (offsets[j] + l) - offsets[j] = l
    <3> TAKE j \in 1 .. current
    <3> TAKE l \in Wanted(j)
    <3>1. l \in DOMAIN files[j].map /\ l \in Nat
      BY <1>1 DEF Wanted, Handles
    <3>2. ReaderOf(offsets[j] + l) = j
      BY <1>1, <3>1, ReaderFound
    <3> QED
      BY <2>1, <3>1, <3>2
  <2> DEFINE local == {h - offsets[i] : h \in {g \in DOMAIN map : ReaderOf(g) = i}}
  <2>3. ASSUME NEW x \in local PROVE x \in Wanted(i)
    <3>1. PICK h \in DOMAIN map : ReaderOf(h) = i /\ x = h - offsets[i]
      BY <2>3
    <3>2. PICK j \in 1 .. current : \E l \in Wanted(j) : h = offsets[j] + l
      BY KeysWanted
    <3>3. PICK l \in Wanted(j) : h = offsets[j] + l
      BY <3>2
    <3> QED
      BY <2>2, <3>1, <3>3
  <2>4. ASSUME NEW l \in Wanted(i) PROVE l \in local
    <3>1. offsets[i] + l \in DOMAIN map
      BY <1>1, KeysWanted
    <3> QED
      BY <1>1, <2>2, <3>1
  <2> HIDE DEF local
  <2>5. local = Wanted(i)
    BY <2>3, <2>4
  <2>6. DiffInclude(i) = local
    BY <1>3 DEF DiffInclude, local
  <2> QED
    BY <1>1, <2>5, <2>6, WantedIsSet DEF Read
<1> QED
  BY <1>2, <1>3

LEMMA CatReads ==
    ASSUME SInv, phase = "reading", NEW i \in DOMAIN files
    PROVE  Read(CatInclude(i), i) = Wanted(i)
<1>1. /\ files \in Inputs /\ current \in DOMAIN files /\ current = Len(files)
      /\ DOMAIN files = 1 .. current /\ OffsetsApart(files, current, offsets)
      /\ IsFiniteSet(Handles(i))
  BY Opened DEF SInv, Handles
<1>2. Handles(i) = 0 .. Count(i) - 1 /\ Count(i) \in Nat /\ offsets[i] \in Nat
  <2>1. DOMAIN files[i].map = 0 .. Cardinality(DOMAIN files[i].map) - 1
    BY <1>1, OpenedFiles
  <2>2. offsets[i] \in Nat
    BY <1>1 DEF OffsetsApart
  <2> QED
    BY <1>1, <2>1, <2>2, FS_CardinalityType DEF Count, Handles
<1> DEFINE range == offsets[i] .. offsets[i] + Count(i) - 1
           local == {h - offsets[i] : h \in DOMAIN map \cap range}
<1>3. \A h : h \in range <=> \E l \in Handles(i) : h = offsets[i] + l
  <2>1. \A h \in range : h - offsets[i] \in 0 .. Count(i) - 1 /\ h = offsets[i] + (h - offsets[i])
    BY <1>2
  <2>2. \A l \in 0 .. Count(i) - 1 : offsets[i] + l \in range
    BY <1>2
  <2> QED
    BY <1>2, <2>1, <2>2
<1>4. \A l \in Handles(i) : (offsets[i] + l) - offsets[i] = l
  BY <1>2
<1> HIDE DEF range
<1>5. ASSUME NEW x \in local PROVE x \in Wanted(i)
  <2>1. PICK h \in DOMAIN map : h \in range /\ x = h - offsets[i]
    BY <1>5
  <2>2. PICK l \in Handles(i) : h = offsets[i] + l
    BY <1>3, <2>1
  <2>3. PICK j \in 1 .. current : \E n \in Wanted(j) : h = offsets[j] + n
    BY KeysWanted
  <2>4. PICK n \in Wanted(j) : h = offsets[j] + n
    BY <2>3
  <2>5. n \in DOMAIN files[j].map /\ l \in DOMAIN files[i].map /\ i \in 1 .. current
    BY <1>1 DEF Wanted, Handles
  <2>6. files \in Inputs /\ current \in DOMAIN files /\ OffsetsApart(files, current, offsets)
    BY <1>1
  <2>7. offsets[i] + l = offsets[j] + n
    BY <2>2, <2>4
  <2>8. i = j /\ l = n
    BY <2>5, <2>6, <2>7, KeysApart
  <2> QED
    BY <1>4, <2>1, <2>2, <2>4, <2>8
<1>6. ASSUME NEW l \in Wanted(i) PROVE l \in local
  <2>1. l \in Handles(i)
    BY DEF Wanted
  <2>2. offsets[i] + l \in DOMAIN map
    BY <1>1, KeysWanted
  <2>3. offsets[i] + l \in range
    BY <1>3, <2>1
  <2> QED
    BY <1>4, <2>1, <2>2, <2>3
<1> HIDE DEF local
<1>7. local = Wanted(i)
  BY <1>5, <1>6
<1>8. CatInclude(i) = IF Cardinality(local) # Count(i) THEN local ELSE All
  BY DEF CatInclude, local, range
<1>9. CASE Cardinality(local) # Count(i)
  BY <1>1, <1>7, <1>8, <1>9, WantedIsSet DEF Read
<1>10. CASE Cardinality(local) = Count(i)
  <2>1. Wanted(i) \in SUBSET Handles(i)
    BY DEF Wanted
  <2>2. Wanted(i) = Handles(i)
    BY <1>1, <1>7, <1>10, <2>1, FS_Subset DEF Count
  <2> QED
    BY <1>8, <1>10, <2>2 DEF Read
<1> QED
  BY <1>9, <1>10

(* Every reader, of a comparison or of wavecat, reads exactly the handles  *)
(* that still have a name: for any files, any filter and any numbers of    *)
(* handles (reader_include_sets, merge_changes).                           *)
LEMMA SInvSelects == SInv => SelectionExact
  BY ComparisonReads, CatReads DEF SelectionExact

THEOREM SelectedExactly == SidesSpec => []SelectionExact
  BY SpecSInv, SInvSelects, PTL

-----------------------------------------------------------------------------
(* The lookup tables of compare_signal_meta.                               *)

(* A table of the variables vs of a side: an entry for each of their       *)
(* names, one of the variables with that name.                             *)
IsTable(side, V, found) ==
    /\ \A name \in DOMAIN found : found[name] \in V /\ Meta!Displayed(side, found[name]) = name
    /\ \A var \in V : Meta!Displayed(side, var) \in DOMAIN found

EnterOp(side, found, var) == Meta!Entered(side, found, var)

Entering == INSTANCE DataProofs WITH Op <- EnterOp

LEMMA VarEntered ==
    ASSUME NEW side, NEW V, NEW found, IsTable(side, V, found), NEW var
    PROVE  IsTable(side, V \cup {var}, EnterOp(side, found, var))
<1> DEFINE next == EnterOp(side, found, var)
           shown == Meta!Displayed(side, var)
<1>1. /\ DOMAIN next = DOMAIN found \cup {shown}
      /\ next[shown] = var
      /\ \A name \in DOMAIN found : name # shown => next[name] = found[name]
  BY DEF EnterOp, Meta!Entered
<1> HIDE DEF next
<1> QED
  BY <1>1 DEF IsTable, next

(* The variables of one handle.                                            *)
Firsts(vs, k) == {vs[j] : j \in 1 .. k}

LEMMA HandleEntered ==
    ASSUME NEW side, NEW V, NEW found, IsTable(side, V, found),
           NEW n \in Nat, NEW vs, DOMAIN vs = 1 .. n
    PROVE  IsTable(side, V \cup ToSet(vs), Meta!EnteredAll(side, found, vs))
<1>1. Meta!EnteredAll(side, found, vs) = Entering!Fold(side, found, vs)
  BY DEF Meta!EnteredAll, EnterOp, Entering!Fold, Meta!FoldLeft, Meta!MapThenFoldSet, Meta!Max,
         Entering!FoldLeft, Entering!MapThenFoldSet, Entering!Max
<1>2. PICK acc : Entering!FoldedBy(acc, side, found, vs, n)
  BY Entering!FoldSteps
<1>3. /\ acc[0] = found
      /\ \A k \in 1 .. n : acc[k] = EnterOp(side, acc[k - 1], vs[k])
      /\ Meta!EnteredAll(side, found, vs) = acc[n]
  BY <1>1, <1>2 DEF Entering!FoldedBy
<1> DEFINE holds == {k \in 0 .. n : IsTable(side, V \cup Firsts(vs, k), acc[k])}
<1>4. 0 \in holds
  <2>1. Firsts(vs, 0) = {} /\ 0 \in 0 .. n
    <3>1. 1 .. 0 = {}
      OBVIOUS
    <3> QED
      BY <3>1 DEF Firsts
  <2>2. V \cup Firsts(vs, 0) = V
    BY <2>1
  <2> QED
    BY <1>3, <2>1, <2>2
<1>5. ASSUME NEW k \in 1 .. n, k - 1 \in holds PROVE k \in holds
  <2> DEFINE before == V \cup Firsts(vs, k - 1)
  <2>1. IsTable(side, before, acc[k - 1])
    BY <1>5
  <2> HIDE DEF before
  <2>2. IsTable(side, before \cup {vs[k]}, EnterOp(side, acc[k - 1], vs[k]))
    BY <2>1, VarEntered
  <2>3. before \cup {vs[k]} = V \cup Firsts(vs, k)
    <3>1. \A j : j \in 1 .. k <=> j \in 1 .. k - 1 \/ j = k
      OBVIOUS
    <3> QED
      BY <3>1 DEF Firsts, before
  <2>4. k \in 0 .. n
    OBVIOUS
  <2> QED
    BY <1>3, <2>2, <2>3, <2>4
<1> HIDE DEF holds
<1>6. n \in holds
  <2>1. \A k \in 1 .. n : k - 1 \in holds => k \in holds
    BY <1>5
  <2>2. \A k \in 0 .. n : k \in holds
    BY <1>4, <2>1, UpTo
  <2> QED
    BY <2>2
<1>7. Firsts(vs, n) = ToSet(vs)
  BY DEF Firsts, ToSet
<1> QED
  BY <1>3, <1>6, <1>7 DEF holds

(* The variables of all handles, in any order of the handles.              *)
EnterAllOp(side, found, h) == Meta!EnteredAll(side, found, side.map[h])

Filling == INSTANCE DataProofs WITH Op <- EnterAllOp

VarsUpTo(side, order, k) == UNION {ToSet(side.map[order[j]]) : j \in 1 .. k}

(* Every handle is in every order of the handles.                          *)
LEMMA AnyOrderIsOnto ==
    ASSUME NEW S, IsFiniteSet(S), NEW order \in SetToSeqs(S)
    PROVE  /\ Cardinality(S) \in Nat /\ DOMAIN order = 1 .. Cardinality(S)
           /\ \A k \in 1 .. Cardinality(S) : order[k] \in S
           /\ \A h \in S : \E k \in 1 .. Cardinality(S) : order[k] = h
<1> DEFINE n == Cardinality(S)
           D == 1 .. n
<1>1. n \in Nat
  BY FS_CardinalityType
<1>2. order \in [D -> S] /\ \A i, j \in D : i # j => order[i] # order[j]
  BY DEF SetToSeqs
<1> HIDE DEF n
<1>3. Cardinality(D) = Cardinality(S)
  BY <1>1, FS_Interval DEF n
<1> HIDE DEF D
<1>4. order \in Injection(D, S)
  BY <1>2 DEF Injection, IsInjective
<1>5. order \in Surjection(D, S)
  BY <1>3, <1>4, FS_Injection
<1> QED
  BY <1>1, <1>2, <1>5 DEF Surjection, D, n

LEMMA TableFilled ==
    ASSUME NEW side, IsFiniteSet(DOMAIN side.map),
           \A h \in DOMAIN side.map : \E n \in Nat : DOMAIN side.map[h] = 1 .. n,
           NEW order \in SetToSeqs(DOMAIN side.map)
    PROVE  IsTable(side, Meta!VarsOf(side), Meta!Lookup(side, order))
<1> DEFINE n == Cardinality(DOMAIN side.map)
<1>1. /\ n \in Nat /\ DOMAIN order = 1 .. n
      /\ \A k \in 1 .. n : order[k] \in DOMAIN side.map
      /\ \A h \in DOMAIN side.map : \E k \in 1 .. n : order[k] = h
  BY AnyOrderIsOnto
<1>2. Meta!Lookup(side, order) = Filling!Fold(side, <<>>, order)
  BY DEF Meta!Lookup, EnterAllOp, Filling!Fold, Meta!FoldLeft, Meta!MapThenFoldSet, Meta!Max,
         Filling!FoldLeft, Filling!MapThenFoldSet, Filling!Max
<1> HIDE DEF n
<1>3. PICK acc : Filling!FoldedBy(acc, side, <<>>, order, n)
  BY <1>1, Filling!FoldSteps
<1>4. /\ acc[0] = <<>>
      /\ \A k \in 1 .. n : acc[k] = Meta!EnteredAll(side, acc[k - 1], side.map[order[k]])
      /\ Meta!Lookup(side, order) = acc[n]
  BY <1>2, <1>3 DEF Filling!FoldedBy, EnterAllOp
<1> DEFINE holds == {k \in 0 .. n : IsTable(side, VarsUpTo(side, order, k), acc[k])}
<1>5. 0 \in holds
  <2>1. VarsUpTo(side, order, 0) = {} /\ 0 \in 0 .. n
    <3>1. 1 .. 0 = {}
      OBVIOUS
    <3> QED
      BY <1>1, <3>1 DEF VarsUpTo
  <2>2. DOMAIN <<>> = {}
    OBVIOUS
  <2>3. IsTable(side, {}, <<>>)
    BY <2>2 DEF IsTable
  <2> QED
    BY <1>4, <2>1, <2>3
<1>6. ASSUME NEW k \in 1 .. n, k - 1 \in holds PROVE k \in holds
  <2> DEFINE before == VarsUpTo(side, order, k - 1)
             vs == side.map[order[k]]
  <2>1. IsTable(side, before, acc[k - 1])
    BY <1>6
  <2>2. PICK m \in Nat : DOMAIN vs = 1 .. m
    BY <1>1
  <2> HIDE DEF before, vs
  <2>3. IsTable(side, before \cup ToSet(vs), Meta!EnteredAll(side, acc[k - 1], vs))
    BY <2>1, <2>2, HandleEntered
  <2>4. before \cup ToSet(vs) = VarsUpTo(side, order, k)
    <3>1. \A j : j \in 1 .. k <=> j \in 1 .. k - 1 \/ j = k
      BY <1>1
    <3> QED
      BY <3>1 DEF VarsUpTo, before, vs
  <2>5. k \in 0 .. n
    BY <1>1
  <2> QED
    BY <1>4, <2>3, <2>4, <2>5 DEF vs
<1> HIDE DEF holds
<1>7. n \in holds
  <2>1. \A k \in 1 .. n : k - 1 \in holds => k \in holds
    BY <1>6
  <2>2. \A k \in 0 .. n : k \in holds
    BY <1>1, <1>5, <2>1, UpTo
  <2>3. n \in 0 .. n
    BY <1>1
  <2> QED
    BY <2>2, <2>3
<1>8. VarsUpTo(side, order, n) = Meta!VarsOf(side)
  <2>1. \A x : x \in VarsUpTo(side, order, n) <=> \E k \in 1 .. n : x \in ToSet(side.map[order[k]])
    BY DEF VarsUpTo
  <2>2. \A x : x \in Meta!VarsOf(side) <=> \E h \in DOMAIN side.map : x \in ToSet(side.map[h])
    BY DEF Meta!VarsOf, Meta!ToSet, ToSet
  <2> QED
    BY <1>1, <2>1, <2>2
<1> QED
  BY <1>4, <1>7, <1>8 DEF holds

-----------------------------------------------------------------------------
(* What was reported about metadata comes from two such tables.            *)
FromTables(side1, side2, diffs) ==
    \E order1 \in SetToSeqs(DOMAIN side1.map) : \E order2 \in SetToSeqs(DOMAIN side2.map) :
       diffs = Meta!MetaDiffs(Meta!Lookup(side1, order1), Meta!Lookup(side2, order2))

KInv == (reported # None /\ ~reported.noAttrs) => FromTables(first, Second, reported.meta)

LEMMA NextKInv == MInv /\ KInv /\ [SidesNext]_allVars => KInv'
<1> SUFFICES ASSUME MInv, KInv, [SidesNext]_allVars PROVE KInv'
  OBVIOUS
<1>1. CASE OpenSecond
  <2>1. reported' = reported
    BY <1>1 DEF OpenSecond
  <2>2. phase # "reading"
    BY <1>1 DEF OpenSecond, Next, MergeHandle, NextFile, NoFilter, Filter
  <2> QED
    BY <2>1, <2>2 DEF KInv, MInv
<1>2. ASSUME NEW noAttrs \in BOOLEAN, CompareNames(noAttrs) PROVE KInv'
  <2>1. UNCHANGED << map, tree, first >>
    BY <1>2 DEF CompareNames, vars
  <2>2. Second' = Second /\ Second.map = map
    BY <2>1 DEF Second
  <2>3. reported'.noAttrs = noAttrs
    BY <1>2 DEF CompareNames
  <2>4. ~noAttrs => FromTables(first, Second, reported'.meta)
    BY <1>2, <2>2 DEF CompareNames, FromTables
  <2>5. ~noAttrs => FromTables(first', Second', reported'.meta)
    BY <2>1, <2>2, <2>4
  <2> QED
    BY <2>3, <2>5 DEF KInv
<1>3. CASE StartMapping \/ MapHandles \/ UNCHANGED allVars
  <2>1. UNCHANGED << map, tree, first, reported >>
    BY <1>3 DEF StartMapping, MapHandles, allVars, vars
  <2>2. Second' = Second
    BY <2>1 DEF Second
  <2>3. FromTables(first', Second', reported'.meta) <=> FromTables(first, Second, reported.meta)
    BY <2>1, <2>2
  <2> QED
    BY <2>1, <2>3 DEF KInv
<1> QED
  BY <1>1, <1>2, <1>3 DEF SidesNext

LEMMA SpecKInv == SidesSpec => []KInv
<1>1. SidesInit => KInv
  BY DEF SidesInit, KInv
<1>2. MInv /\ KInv /\ [SidesNext]_allVars => KInv'
  BY NextKInv
<1> QED
  BY <1>1, <1>2, SpecMInv, PTL DEF SidesSpec

(* The handles of the second side are finitely many.                       *)
LEMMA SecondFinite == ASSUME SInv, phase = "reading" PROVE IsFiniteSet(DOMAIN map)
<1>1. files \in Inputs /\ current = Len(files) /\ OffsetsApart(files, current, offsets)
  BY DEF SInv
<1>2. \A i : Wanted(i) \subseteq Handles(i)
  BY DEF Wanted
<1>3. DOMAIN map \in SUBSET KeysUpTo(current)
  BY <1>2, KeysWanted DEF KeysUpTo, Shifted
<1> QED
  BY <1>1, <1>3, AllCounted, FS_Subset

(* A difference of metadata that is reported is one between two variables  *)
(* displayed by that name, and one that all such pairs have is reported,   *)
(* for any sides and any order of their maps (compare_signal_meta).        *)
LEMMA ReportedMeta == SInv /\ MInv /\ KInv => MetaExact
<1> SUFFICES ASSUME SInv, MInv, KInv, reported # None, ~reported.noAttrs,
                    NEW name, NEW field \in Meta!Fields
             PROVE  /\ << name, field >> \in reported.meta
                         => \E pair \in Pairs(name) : Disagree(pair, field)
                    /\ (Pairs(name) # {} /\ \A pair \in Pairs(name) : Disagree(pair, field))
                         => << name, field >> \in reported.meta
  BY DEF MetaExact
<1>1. phase = "reading" /\ first \in FirstSides /\ IsHierarchy(first)
  BY FirstSideOpened DEF MInv
<1>2. PICK order1 \in SetToSeqs(DOMAIN first.map) : \E order2 \in SetToSeqs(DOMAIN Second.map) :
        reported.meta = Meta!MetaDiffs(Meta!Lookup(first, order1), Meta!Lookup(Second, order2))
  BY DEF KInv, FromTables
<1>3. PICK order2 \in SetToSeqs(DOMAIN Second.map) :
        reported.meta = Meta!MetaDiffs(Meta!Lookup(first, order1), Meta!Lookup(Second, order2))
  BY <1>2
<1> DEFINE table1 == Meta!Lookup(first, order1)
           table2 == Meta!Lookup(Second, order2)
<1>4. IsTable(first, Meta!VarsOf(first), table1)
  <2>1. IsFiniteSet(DOMAIN first.map)
    BY <1>1 DEF IsHierarchy
  <2>2. \A h \in DOMAIN first.map : \E n \in Nat : DOMAIN first.map[h] = 1 .. n
    BY <1>1, VariablesOf
  <2> QED
    BY <2>1, <2>2, TableFilled
<1>5. IsTable(Second, Meta!VarsOf(Second), table2)
  <2>1. Second.map = map
    BY DEF Second
  <2>2. IsFiniteSet(DOMAIN Second.map)
    BY <1>1, <2>1, SecondFinite
  <2>3. \A h \in DOMAIN Second.map : \E n \in Nat : DOMAIN Second.map[h] = 1 .. n
    BY <2>1, SecondNamed
  <2> HIDE DEF Second
  <2> QED
    BY <2>2, <2>3, TableFilled
<1>6. \A v, w : Disagree(<< v, w >>, field) <=> Meta!Differs(field, v, w)
  BY DEF Disagree, Meta!Differs
<1>7. << name, field >> \in reported.meta
        <=> /\ name \in DOMAIN table1 /\ name \in DOMAIN table2
            /\ Meta!Differs(field, table1[name], table2[name])
  BY <1>3 DEF Meta!MetaDiffs
<1>8. \A v, w : << v, w >> \in Pairs(name)
                  <=> /\ v \in Meta!VarsOf(first) /\ w \in Meta!VarsOf(Second)
                      /\ Meta!Displayed(first, v) = name /\ Meta!Displayed(Second, w) = name
  BY DEF Pairs
<1> HIDE DEF table1, table2
<1> DEFINE pair == << table1[name], table2[name] >>
<1>9. name \in DOMAIN table1 /\ name \in DOMAIN table2 => pair \in Pairs(name)
  BY <1>4, <1>5, <1>8 DEF IsTable
<1>10. ASSUME << name, field >> \in reported.meta
       PROVE  \E p \in Pairs(name) : Disagree(p, field)
  <2>1. pair \in Pairs(name) /\ Disagree(pair, field)
    BY <1>6, <1>7, <1>9, <1>10
  <2> QED
    BY <2>1
<1>11. ASSUME Pairs(name) # {}, \A p \in Pairs(name) : Disagree(p, field)
       PROVE  << name, field >> \in reported.meta
  <2>1. PICK p \in Pairs(name) : TRUE
    BY <1>11
  <2>2. /\ p[1] \in Meta!VarsOf(first) /\ p[2] \in Meta!VarsOf(Second)
        /\ Meta!Displayed(first, p[1]) = name /\ Meta!Displayed(Second, p[2]) = name
    BY DEF Pairs
  <2>3. name \in DOMAIN table1 /\ name \in DOMAIN table2
    BY <1>4, <1>5, <2>2 DEF IsTable
  <2>4. Disagree(pair, field)
    BY <1>9, <1>11, <2>3
  <2> QED
    BY <1>6, <1>7, <2>3, <2>4
<1> QED
  BY <1>10, <1>11

THEOREM MetaCompared == SidesSpec => []MetaExact
  BY SpecSInv, SpecMInv, SpecKInv, ReportedMeta, PTL

=============================================================================
