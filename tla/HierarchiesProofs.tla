-------------------------- MODULE HierarchiesProofs --------------------------
(***************************************************************************)
(* The tree of names of an opened file, for every hierarchy of every size  *)
(* in either format: its links agree, and the scope in which a reader      *)
(* enters the next name (for VCD, that of every call of walk) is a node.   *)
(* Its enum tables: the file is refused exactly when two disagree.         *)
(* And its variables: each has the names and annotations that the stream   *)
(* declares by the positions of its entries.  What a reader has recorded   *)
(* after some entries is a book: for every signal a row of its variables,  *)
(* each with the annotations that have been given to it so far, while      *)
(* those that wait are pending for the last variable.  Each entry adds to  *)
(* both sides of that equation the same.                                   *)
(***************************************************************************)
EXTENDS Hierarchies, DataProofs, TLAPS

-----------------------------------------------------------------------------
(* The readers of the two formats.                                         *)

(* Both readers use the one arena of names: their instances of its         *)
(* operators are those of module NameTree.                                 *)
LEMMA FstIntern == \A t, p, s : Fst!Interned(t, p, s) = Interned(t, p, s)
                             /\ Fst!InternedId(t, p, s) = InternedId(t, p, s)
BY DEF Fst!Interned, Fst!InternedId, Fst!Known, Fst!NodeAt, Fst!Linked, Fst!Leaf, Fst!Root,
       Interned, InternedId, Known, NodeAt, Linked, Leaf, Root

(* The same for the reader of VCD headers.                                 *)
LEMMA VcdIntern == \A t, p, s : Vcd!Interned(t, p, s) = Interned(t, p, s)
                             /\ Vcd!InternedId(t, p, s) = InternedId(t, p, s)
BY DEF Vcd!Interned, Vcd!InternedId, Vcd!Known, Vcd!NodeAt, Vcd!Linked, Vcd!Leaf, Vcd!Root,
       Interned, InternedId, Known, NodeAt, Linked, Leaf, Root

(* Both start from the tree of the root alone.                             *)
LEMMA NewTrees == Fst!NewTree = NewTree /\ Vcd!NewTree = NewTree
BY DEF Fst!NewTree, Fst!Leaf, Fst!NoParent, Fst!RootSegment, Fst!Root,
       Vcd!NewTree, Vcd!Leaf, Vcd!NoParent, Vcd!RootSegment, Vcd!Root,
       NewTree, Leaf, NoParent, RootSegment, Root

(* A variable is entered under a name of Names, with or without the space  *)
(* before its range.                                                       *)
LEMMA FstSpelt == ASSUME NEW e \in FstEntries, e.kind = "var"
                  PROVE  Fst!SpeltFst(e.name) \in Names
BY NamesAssumption DEF NamesIn, Fst!SpeltFst, Fst!Tight, Tight

(* The same for VCD, which spells bit selects otherwise.                   *)
LEMMA VcdSpelt == ASSUME NEW e \in VcdEntries, e.kind = "var"
                  PROVE  Vcd!SpeltVcd(e.name) \in Names
BY NamesAssumption DEF NamesIn, Vcd!SpeltVcd, Vcd!Tight, Tight

-----------------------------------------------------------------------------
(* The calls of walk: one at least, each with a scope among the ids I.     *)
IsCall(f, I) ==
    /\ f = [scope |-> f.scope, last |-> f.last, pending |-> f.pending]
    /\ f.scope \in I

Calls(fs, I) ==
    \E n \in Nat \ {0} : /\ fs = [k \in 1 .. n |-> fs[k]]
                         /\ \A k \in 1 .. n : IsCall(fs[k], I)

(* The calls are a sequence that is not empty.                             *)
LEMMA CallsLen ==
    ASSUME NEW fs, NEW I, Calls(fs, I)
    PROVE  /\ Len(fs) \in Nat \ {0}
           /\ fs = [k \in 1 .. Len(fs) |-> fs[k]]
           /\ \A k \in 1 .. Len(fs) : IsCall(fs[k], I)
           /\ fs \in Seq({fs[k] : k \in 1 .. Len(fs)})
<1>1. PICK n \in Nat \ {0} : fs = [k \in 1 .. n |-> fs[k]] /\ \A k \in 1 .. n : IsCall(fs[k], I)
  BY DEF Calls
<1>2. DOMAIN fs = 1 .. n
  BY <1>1
<1>3. fs \in [1 .. n -> {fs[k] : k \in 1 .. n}]
  BY <1>1
<1>4. fs \in Seq({fs[k] : k \in 1 .. n})
  <2> DEFINE V == {fs[k] : k \in 1 .. n}
  <2>1. n \in Nat /\ fs \in [1 .. n -> V]
    BY <1>3
  <2> HIDE DEF V
  <2> QED
    BY <2>1
<1>5. Len(fs) = n
  BY <1>2, <1>4, <1>1
<1> QED
  BY <1>1, <1>4, <1>5

(* So there is an innermost call, with a scope of its own.                 *)
LEMMA CallsTop ==
    ASSUME NEW fs, NEW I, Calls(fs, I)
    PROVE  IsCall(fs[Len(fs)], I)
<1>1. Len(fs) \in Nat \ {0} /\ \A k \in 1 .. Len(fs) : IsCall(fs[k], I)
  BY CallsLen
<1>2. Len(fs) \in 1 .. Len(fs)
  BY <1>1
<1> QED
  BY <1>1, <1>2

(* Ids that were given out stay ids when the tree grows.                   *)
LEMMA CallsGrow ==
    ASSUME NEW fs, NEW I, NEW J, Calls(fs, I), I \subseteq J
    PROVE  Calls(fs, J)
BY DEF Calls, IsCall

(* Pending annotations and the last variable do not matter to a call's     *)
(* place in the tree.                                                      *)
LEMMA CallKept ==
    ASSUME NEW f, NEW I, IsCall(f, I), NEW x, NEW y
    PROVE  /\ IsCall([f EXCEPT !.pending = y], I)
           /\ IsCall([f EXCEPT !.last = x, !.pending = y], I)
<1>1. f = [scope |-> f.scope, last |-> f.last, pending |-> f.pending] /\ f.scope \in I
  BY DEF IsCall
<1>2. [f EXCEPT !.pending = y] = [scope |-> f.scope, last |-> f.last, pending |-> y]
  BY <1>1
<1> DEFINE g == [f EXCEPT !.last = x]
<1>3. g = [scope |-> f.scope, last |-> x, pending |-> f.pending]
  BY <1>1
<1> HIDE DEF g
<1>4. [g EXCEPT !.pending = y] = [scope |-> f.scope, last |-> x, pending |-> y]
  BY <1>3
<1>5. [f EXCEPT !.last = x, !.pending = y] = [g EXCEPT !.pending = y]
  BY DEF g
<1> QED
  BY <1>1, <1>2, <1>4, <1>5 DEF IsCall

(* The innermost call changes.                                             *)
LEMMA CallsSet ==
    ASSUME NEW fs, NEW I, Calls(fs, I), NEW f, IsCall(f, I)
    PROVE  /\ Calls([fs EXCEPT ![Len(fs)] = f], I)
           /\ Len([fs EXCEPT ![Len(fs)] = f]) = Len(fs)
<1> DEFINE n == Len(fs)
           g == [fs EXCEPT ![n] = f]
<1>1. /\ n \in Nat \ {0} /\ fs = [k \in 1 .. n |-> fs[k]]
      /\ \A k \in 1 .. n : IsCall(fs[k], I)
  BY CallsLen
<1>2. g = [k \in 1 .. n |-> g[k]] /\ \A k \in 1 .. n : g[k] = IF k = n THEN f ELSE fs[k]
  BY <1>1
<1>3. Calls(g, I)
  <2>1. \A k \in 1 .. n : IsCall(g[k], I)
    BY <1>1, <1>2
  <2> QED
    BY <1>1, <1>2, <2>1 DEF Calls
<1>4. Len(g) = n
  <2>1. Len(g) \in Nat /\ DOMAIN g = 1 .. Len(g)
    BY <1>3, CallsLen
  <2>2. DOMAIN g = 1 .. n
    BY <1>2
  <2> QED
    BY <2>1, <2>2, <1>1
<1> QED
  BY <1>3, <1>4

(* A sequence is the function of its elements.                             *)
LEMMA AsFunction == ASSUME NEW X, NEW g \in Seq(X) PROVE g = [k \in 1 .. Len(g) |-> g[k]]
<1>1. g \in [1 .. Len(g) -> X]
  OBVIOUS
<1> QED
  BY <1>1

(* A call of walk ...                                                      *)
LEMMA CallsPush ==
    ASSUME NEW fs, NEW I, Calls(fs, I), NEW f, IsCall(f, I)
    PROVE  Calls(Append(fs, f), I)
<1> DEFINE n == Len(fs)
           g == Append(fs, f)
<1>1. /\ n \in Nat \ {0} /\ fs \in Seq({fs[k] : k \in 1 .. n})
      /\ \A k \in 1 .. n : IsCall(fs[k], I)
  BY CallsLen
<1>2. fs \in Seq({fs[k] : k \in 1 .. n} \cup {f})
  BY <1>1
<1>3. /\ g \in Seq({fs[k] : k \in 1 .. n} \cup {f})
      /\ Len(g) = n + 1 /\ g[n + 1] = f
      /\ \A k \in 1 .. n : g[k] = fs[k]
  BY <1>2, <1>1
<1>4. g = [k \in 1 .. n + 1 |-> g[k]]
  BY <1>3, AsFunction
<1>5. \A k \in 1 .. n + 1 : IsCall(g[k], I)
  BY <1>1, <1>3
<1>6. n + 1 \in Nat \ {0}
  BY <1>1
<1> HIDE DEF g
<1> QED
  BY <1>4, <1>5, <1>6 DEF Calls, g

(* ... and its return.                                                     *)
LEMMA CallsPop ==
    ASSUME NEW fs, NEW I, Calls(fs, I), Len(fs) > 1
    PROVE  Calls([k \in 1 .. Len(fs) - 1 |->
                    IF k = Len(fs) - 1 THEN [fs[k] EXCEPT !.last = None] ELSE fs[k]], I)
<1> DEFINE n == Len(fs) - 1
           g == [k \in 1 .. n |-> IF k = n THEN [fs[k] EXCEPT !.last = None] ELSE fs[k]]
<1>0. Len(fs) \in Nat \ {0} /\ \A k \in 1 .. Len(fs) : IsCall(fs[k], I)
  BY CallsLen
<1>1. n \in Nat \ {0} /\ \A k \in 1 .. n : IsCall(fs[k], I)
  BY <1>0
<1>2. IsCall([fs[n] EXCEPT !.last = None], I)
  <2>1. IsCall(fs[n], I)
    BY <1>1
  <2> QED
    BY <2>1 DEF IsCall
<1>3. \A k \in 1 .. n : g[k] = IF k = n THEN [fs[n] EXCEPT !.last = None] ELSE fs[k]
  OBVIOUS
<1>4. \A k \in 1 .. n : IsCall(g[k], I)
  BY <1>1, <1>2, <1>3
<1>5. g = [k \in 1 .. n |-> g[k]]
  OBVIOUS
<1> HIDE DEF g, n
<1>6. Calls(g, I)
  BY <1>1, <1>4, <1>5 DEF Calls
<1> QED
  BY <1>6 DEF g, n

-----------------------------------------------------------------------------
(* The strengthening.  intern is called with an id of the tree and a name  *)
(* only because the scope of the reader is always such an id: for FST one  *)
(* variable that follows the links up and down, for VCD one per call.      *)
FstPlace == scope \in Ids(tree)

VcdPlace ==
    /\ stream \in Seq(VcdEntries) /\ pos \in Nat \ {0}
    /\ Calls(frames, Ids(tree))

IInv ==
    /\ format \in {"fst", "vcd"}
    /\ IsArena(tree, Names) /\ LinksAgree(tree)
    /\ format = "fst" => FstPlace
    /\ format = "vcd" => VcdPlace

(* The invariant holds when the file has been opened and nothing is read. *)
LEMMA InitIInv == Init => IInv
<1> SUFFICES ASSUME Init PROVE IInv
  OBVIOUS
<1>1. format \in {"fst", "vcd"}
  BY DEF Init
<1>2. tree = NewTree /\ stream = <<>> /\ scope = Root
  BY NewTrees DEF Init, Fst!Init, Fst!Root, Root
<1>3. pos = 1 /\ frames = << Vcd!Frame(Root) >>
  BY DEF Init, Vcd!Init, Vcd!Root, Root
<1>4. IsArena(tree, Names) /\ LinksAgree(tree)
  BY <1>2, NewArena
<1>5. Root \in Ids(tree)
  BY <1>2 DEF NewTree, Ids, Root
<1>6. Calls(frames, Ids(tree))
  <2>1. IsCall(Vcd!Frame(Root), Ids(tree))
    BY <1>5 DEF IsCall, Vcd!Frame
  <2>2. frames = [k \in 1 .. 1 |-> frames[k]] /\ frames[1] = Vcd!Frame(Root)
    BY <1>3
  <2>3. \A k \in 1 .. 1 : IsCall(frames[k], Ids(tree))
    BY <2>1, <2>2
  <2> QED
    BY <2>2, <2>3 DEF Calls
<1> QED
  BY <1>1, <1>2, <1>3, <1>4, <1>5, <1>6 DEF IInv, FstPlace, VcdPlace

(* What intern does to a tree whose links agree, in one fact.              *)
LEMMA TreeGrows ==
    ASSUME NEW t, IsArena(t, Names), LinksAgree(t), NEW p \in Ids(t), NEW s \in Names
    PROVE  LET u == Interned(t, p, s)
           IN  /\ IsArena(u, Names) /\ LinksAgree(u)
               /\ Ids(t) \subseteq Ids(u)
               /\ InternedId(t, p, s) \in Ids(u)
BY InternArena, InternIds, InternLinks

-----------------------------------------------------------------------------
(* FST: only scopes and variables touch the tree; an up follows a link of  *)
(* the tree to a parent, and stays at the root.                            *)
LEMMA FstStep == IInv /\ ReadFst => IInv'
<1> SUFFICES ASSUME IInv, ReadFst PROVE IInv'
  OBVIOUS
<1>1. format = "fst" /\ format' = "fst" /\ Fst!Next
  BY DEF ReadFst
<1>2. IsArena(tree, Names) /\ LinksAgree(tree) /\ scope \in Ids(tree)
  BY <1>1 DEF IInv, FstPlace
<1>same. ASSUME UNCHANGED << tree, scope >> PROVE IInv'
  BY <1>1, <1>2, <1>same DEF IInv, FstPlace
<1>3. ASSUME NEW e \in FstEntries, Fst!FstScope(e) PROVE IInv'
  <2>1. e.name \in Names
    BY <1>3, NamesAssumption DEF NamesIn, Fst!FstScope
  <2>2. tree' = Interned(tree, scope, e.name) /\ scope' = InternedId(tree, scope, e.name)
    BY <1>3, FstIntern DEF Fst!FstScope
  <2>3. /\ IsArena(Interned(tree, scope, e.name), Names)
        /\ LinksAgree(Interned(tree, scope, e.name))
        /\ InternedId(tree, scope, e.name) \in Ids(Interned(tree, scope, e.name))
    BY <1>2, <2>1, TreeGrows
  <2> QED
    BY <1>1, <2>2, <2>3 DEF IInv, FstPlace
<1>4. ASSUME NEW e \in FstEntries, Fst!FstUpScope(e) PROVE IInv'
  <2>1. /\ tree' = tree
        /\ scope' = IF NodeAt(tree, scope).parent = NoParent
                    THEN Root ELSE NodeAt(tree, scope).parent
    BY <1>4 DEF Fst!FstUpScope, Fst!NodeAt, Fst!NoParent, Fst!Root, NodeAt, NoParent, Root
  <2>2. Root \in Ids(tree) /\ Len(tree) \in Nat
    BY <1>2 DEF IsArena, Ids, Root
  <2>3. CASE scope = Root
    <3>1. scope' = Root
      BY <1>2, <2>1, <2>3 DEF IsArena
    <3> QED
      BY <1>1, <1>2, <2>1, <2>2, <3>1 DEF IInv, FstPlace
  <2>4. CASE scope # Root
    <3>1. NodeAt(tree, scope).parent \in 0 .. scope - 1
      BY <1>2, <2>4 DEF LinksAgree, LinkedUp
    <3>2. scope' = NodeAt(tree, scope).parent
      BY <2>1, <3>1 DEF NoParent
    <3>3. scope' \in Ids(tree)
      BY <1>2, <2>2, <3>1, <3>2 DEF Ids
    <3> QED
      BY <1>1, <1>2, <2>1, <3>3 DEF IInv, FstPlace
  <2> QED
    BY <2>3, <2>4
<1>5. ASSUME NEW e \in FstEntries, Fst!FstVar(e) PROVE IInv'
  <2>1. Fst!SpeltFst(e.name) \in Names
    BY <1>5, FstSpelt DEF Fst!FstVar
  <2>2. tree' = Interned(tree, scope, Fst!SpeltFst(e.name)) /\ scope' = scope
    BY <1>5, FstIntern DEF Fst!FstVar
  <2>3. LET u == Interned(tree, scope, Fst!SpeltFst(e.name))
        IN  IsArena(u, Names) /\ LinksAgree(u) /\ Ids(tree) \subseteq Ids(u)
    BY <1>2, <2>1, TreeGrows
  <2> QED
    BY <1>1, <1>2, <2>2, <2>3 DEF IInv, FstPlace
<1>6. ASSUME NEW e \in FstEntries,
             \/ Fst!FstAttributeEnd(e) \/ Fst!FstEnumTable(e) \/ Fst!FstEnumTableRef(e)
             \/ Fst!FstStructural(e) \/ Fst!FstOther(e)
      PROVE  IInv'
  <2>1. UNCHANGED << tree, scope >>
    BY <1>6 DEF Fst!FstAttributeEnd, Fst!FstEnumTable, Fst!FstEnumTableRef,
                Fst!FstStructural, Fst!FstOther
  <2> QED
    BY <2>1, <1>same
<1>7. CASE Fst!FstEnd
  <2>1. UNCHANGED << tree, scope >>
    BY <1>7 DEF Fst!FstEnd
  <2> QED
    BY <2>1, <1>same
<1> QED
  BY <1>1, <1>3, <1>4, <1>5, <1>6, <1>7 DEF Fst!Next

-----------------------------------------------------------------------------
(* VCD: every call of walk has its scope, which stays an id of the tree    *)
(* while the calls below it make the tree grow.                            *)
(* A step of walk visits one command of the header and goes on to the next.*)
LEMMA VcdItem ==
    ASSUME VcdPlace, NEW kind, Vcd!Walks(kind)
    PROVE  /\ Vcd!Item \in VcdEntries /\ Vcd!Item.kind = kind
           /\ stream' = stream /\ pos' \in Nat \ {0}
<1>1. stream \in Seq(VcdEntries) /\ pos \in Nat \ {0} /\ pos <= Len(stream)
  BY DEF VcdPlace, Vcd!Walks
<1>2. stream[pos] \in VcdEntries
  BY <1>1
<1> QED
  BY <1>1, <1>2 DEF Vcd!Walks, Vcd!Item

(* One step per command of the header.                                     *)
LEMMA VcdStep == IInv /\ ReadVcd => IInv'
<1> SUFFICES ASSUME IInv, ReadVcd PROVE IInv'
  OBVIOUS
<1>1. format = "vcd" /\ format' = "vcd" /\ Vcd!Next
  BY DEF ReadVcd
<1>2. IsArena(tree, Names) /\ LinksAgree(tree) /\ VcdPlace
  BY <1>1 DEF IInv
<1>3. Calls(frames, Ids(tree)) /\ Vcd!Top = frames[Len(frames)] /\ IsCall(Vcd!Top, Ids(tree))
  <2>1. Calls(frames, Ids(tree))
    BY <1>2 DEF VcdPlace
  <2>2. Vcd!Top = frames[Len(frames)]
    BY DEF Vcd!Top, Vcd!Last
  <2> QED
    BY <2>1, <2>2, CallsTop
<1>set. ASSUME NEW f, IsCall(f, Ids(tree)) PROVE Calls(Vcd!SetTop(f), Ids(tree))
  BY <1>3, <1>set, CallsSet DEF Vcd!SetTop
(* It is enough that the calls keep their scopes ...                       *)
<1>calls. ASSUME tree' = tree, stream' \in Seq(VcdEntries), pos' \in Nat \ {0},
                 Calls(frames', Ids(tree))
          PROVE  IInv'
  BY <1>1, <1>2, <1>calls DEF IInv, VcdPlace
(* ... and for most commands they do not change at all.                    *)
<1>same. ASSUME tree' = tree, frames' = frames, stream' \in Seq(VcdEntries),
                pos' \in Nat \ {0}
         PROVE  IInv'
  BY <1>same, <1>calls, <1>3
<1>here. stream \in Seq(VcdEntries) /\ pos \in Nat \ {0}
  BY <1>2 DEF VcdPlace
<1>4. ASSUME NEW e \in VcdEntries, Vcd!ParseCommand(e) PROVE IInv'
  <2>1. stream' = Append(stream, e) /\ UNCHANGED << tree, frames, pos >>
    BY <1>4 DEF Vcd!ParseCommand
  <2>2. stream' \in Seq(VcdEntries)
    BY <2>1, <1>here
  <2> QED
    BY <2>1, <2>2, <1>here, <1>same
<1>5. CASE Vcd!ParseFail \/ Vcd!EndDefinitions \/ Vcd!WalkConflict
  <2>1. UNCHANGED << stream, tree, frames, pos >>
    BY <1>5 DEF Vcd!ParseFail, Vcd!EndDefinitions, Vcd!WalkConflict
  <2> QED
    BY <2>1, <1>here, <1>same
<1>6. CASE Vcd!WalkScope
  <2>1. Vcd!Walks("scope")
    BY <1>6 DEF Vcd!WalkScope
  <2>2. /\ Vcd!Item \in VcdEntries /\ Vcd!Item.kind = "scope"
        /\ stream' = stream /\ pos' \in Nat \ {0}
    BY <2>1, <1>2, VcdItem
  <2> DEFINE p == Vcd!Top.scope
             s == Vcd!Item.name
             u == Interned(tree, p, s)
             id == InternedId(tree, p, s)
  <2>3. s \in Names /\ p \in Ids(tree)
    BY <2>2, <1>3, NamesAssumption DEF NamesIn, IsCall
  <2>4. /\ IsArena(u, Names) /\ LinksAgree(u)
        /\ Ids(tree) \subseteq Ids(u) /\ id \in Ids(u)
    BY <1>2, <2>3, TreeGrows
  <2>5. /\ tree' = u
        /\ frames' = Append(Vcd!SetTop(Vcd!Cleared(Vcd!Top)), Vcd!Frame(id))
    BY <1>6, VcdIntern DEF Vcd!WalkScope
  <2>6. IsCall(Vcd!Cleared(Vcd!Top), Ids(tree))
    BY <1>3 DEF IsCall, Vcd!Cleared
  <2>7. Calls(Vcd!SetTop(Vcd!Cleared(Vcd!Top)), Ids(u))
    BY <1>set, <2>4, <2>6, CallsGrow
  <2>8. IsCall(Vcd!Frame(id), Ids(u))
    BY <2>4 DEF IsCall, Vcd!Frame
  <2>9. Calls(frames', Ids(u))
    BY <2>5, <2>7, <2>8, CallsPush
  <2> QED
    BY <1>1, <1>here, <2>2, <2>4, <2>5, <2>9 DEF IInv, VcdPlace
<1>7. CASE Vcd!WalkReturn
  <2>1. /\ Vcd!Walks("up") /\ Len(frames) > 1 /\ tree' = tree
        /\ frames' = [k \in 1 .. Len(frames) - 1 |->
                        IF k = Len(frames) - 1 THEN [frames[k] EXCEPT !.last = None]
                        ELSE frames[k]]
    BY <1>7 DEF Vcd!WalkReturn
  <2>2. stream' = stream /\ pos' \in Nat \ {0}
    BY <2>1, <1>2, VcdItem
  <2>3. Calls(frames', Ids(tree))
    BY <2>1, <1>3, CallsPop
  <2> QED
    BY <2>1, <2>2, <2>3, <1>here, <1>calls
<1>8. CASE Vcd!WalkVar
  <2>1. Vcd!Walks("var")
    BY <1>8 DEF Vcd!WalkVar
  <2>2. /\ Vcd!Item \in VcdEntries /\ Vcd!Item.kind = "var"
        /\ stream' = stream /\ pos' \in Nat \ {0}
    BY <2>1, <1>2, VcdItem
  <2> DEFINE p == Vcd!Top.scope
             s == Vcd!SpeltVcd(Vcd!Item.name)
             u == Interned(tree, p, s)
             f == [Vcd!Top EXCEPT !.last = Vcd!HandleOf(Vcd!Item.code), !.pending = <<>>]
  <2>3. s \in Names /\ p \in Ids(tree)
    BY <2>2, <1>3, VcdSpelt DEF IsCall
  <2>4. IsArena(u, Names) /\ LinksAgree(u) /\ Ids(tree) \subseteq Ids(u)
    BY <1>2, <2>3, TreeGrows
  <2>5. tree' = u /\ frames' = Vcd!SetTop(f)
    BY <1>8, VcdIntern DEF Vcd!WalkVar
  <2>6. IsCall(f, Ids(tree))
    BY <1>3, CallKept
  <2>7. Calls(frames', Ids(u))
    BY <1>set, <2>4, <2>5, <2>6, CallsGrow
  <2> QED
    BY <1>1, <1>here, <2>2, <2>4, <2>5, <2>7 DEF IInv, VcdPlace
<1>9. CASE Vcd!WalkAttributeEnd
  <2>1. Vcd!Walks("close") /\ tree' = tree /\ frames' = Vcd!SetTop(Vcd!Cleared(Vcd!Top))
    BY <1>9 DEF Vcd!WalkAttributeEnd
  <2>2. stream' = stream /\ pos' \in Nat \ {0}
    BY <2>1, <1>2, VcdItem
  <2>3. IsCall(Vcd!Cleared(Vcd!Top), Ids(tree))
    BY <1>3 DEF IsCall, Vcd!Cleared
  <2> QED
    BY <2>1, <2>2, <2>3, <1>set, <1>here, <1>calls
<1>10. CASE Vcd!WalkStructural
  <2> DEFINE more == Append(Vcd!Top.pending, Vcd!StructAttr(pos))
             f == [Vcd!Top EXCEPT !.pending = more]
  <2>1. /\ Vcd!Walks("struct") /\ tree' = tree
        /\ frames' = Vcd!SetTop(f) \/ frames' = frames
    BY <1>10 DEF Vcd!WalkStructural
  <2>2. stream' = stream /\ pos' \in Nat \ {0}
    BY <2>1, <1>2, VcdItem
  <2> HIDE DEF more
  <2>3. IsCall(f, Ids(tree))
    BY <1>3 DEF IsCall
  <2>4. Calls(Vcd!SetTop(f), Ids(tree))
    BY <2>3, <1>set
  <2> QED
    BY <2>1, <2>2, <2>4, <1>3, <1>here, <1>calls
<1>11. CASE Vcd!WalkEnumTable \/ Vcd!WalkEnumRef \/ Vcd!WalkMisc \/ Vcd!WalkMalformed
  <2>1. PICK kind \in {"def", "ref", "misc", "malformed"} : Vcd!Walks(kind)
    BY <1>11 DEF Vcd!WalkEnumTable, Vcd!WalkEnumRef, Vcd!WalkMisc, Vcd!WalkMalformed
  <2>2. UNCHANGED << tree, frames >>
    BY <1>11 DEF Vcd!WalkEnumTable, Vcd!WalkEnumRef, Vcd!WalkMisc, Vcd!WalkMalformed
  <2>3. stream' = stream /\ pos' \in Nat \ {0}
    BY <2>1, <1>2, VcdItem
  <2> QED
    BY <2>2, <2>3, <1>here, <1>same
<1>12. CASE Vcd!WalkEnd
  <2>1. UNCHANGED << stream, pos, tree >> /\ frames' = Vcd!SetTop(Vcd!Cleared(Vcd!Top))
    BY <1>12 DEF Vcd!WalkEnd
  <2>2. IsCall(Vcd!Cleared(Vcd!Top), Ids(tree))
    BY <1>3 DEF IsCall, Vcd!Cleared
  <2> QED
    BY <2>1, <2>2, <1>set, <1>here, <1>calls
<1> QED
  BY <1>1, <1>4, <1>5, <1>6, <1>7, <1>8, <1>9, <1>10, <1>11, <1>12 DEF Vcd!Next

-----------------------------------------------------------------------------
(* Every step of either reader, and a stutter, keeps the invariant.        *)
LEMMA NextIInv == IInv /\ [Next]_vars => IInv'
<1> SUFFICES ASSUME IInv, [Next]_vars PROVE IInv'
  OBVIOUS
<1>1. CASE Next
  BY <1>1, FstStep, VcdStep DEF Next
<1>2. CASE UNCHANGED vars
  <2>1. UNCHANGED << format, tree, scope, stream, pos, frames >>
    BY <1>2 DEF vars, fstOnly, vcdOnly
  <2> QED
    BY <2>1 DEF IInv, FstPlace, VcdPlace
<1> QED
  BY <1>1, <1>2

(* Every reachable tree is an arena over the names of the file, and its    *)
(* reader's scopes are nodes of it.                                        *)
THEOREM TreeTyped == Spec => []IInv
BY InitIInv, NextIInv, PTL DEF Spec

(* Parents and tables of children agree after any entries in either format *)
(* (build_hierarchy, VcdHierarchyBuilder::walk, NameTree::intern).         *)
THEOREM TreesLinked == Spec => []TreeLinked
<1>1. IInv => TreeLinked
  BY DEF IInv, TreeLinked
<1> QED
  BY <1>1, TreeTyped, PTL

(* Also at every moment, find undoes segments: the path of each id leads   *)
(* back to it, as build_handle_mapping (diff.rs:182-184) relies on.        *)
THEOREM PathsLeadBack == Spec => []RoundTrip
<1>1. IInv => RoundTrip
  <2> SUFFICES ASSUME IInv, NEW id \in Ids(tree) PROVE Find(tree, Segments(tree, id)) = id
    BY DEF RoundTrip
  <2> QED
    BY PathLeadsBack DEF IInv
<1> QED
  BY <1>1, TreeTyped, PTL

-----------------------------------------------------------------------------
(* Conflicts between enum tables.  As long as none is found, the names     *)
(* known are those of the tables read so far, with their mappings; so a    *)
(* table that disagrees with any earlier one disagrees with what is known. *)
IsTable(s, p) == s[p].kind = "def" /\ Qualified(s[p].table)

(* The tables before position n of the stream s are known.                 *)
KnownBefore(s, n, known) ==
    \A p \in DOMAIN s : p < n /\ IsTable(s, p) =>
        s[p].table \in DOMAIN known /\ known[s[p].table] = s[p].mapping

(* What is known is of the stream.                                         *)
FromStream(s, known) ==
    \A t \in DOMAIN known :
        \E p \in DOMAIN s : IsTable(s, p) /\ s[p].table = t /\ s[p].mapping = known[t]

FstEnums ==
    /\ stream \in Seq(FstEntries) /\ conflict \in BOOLEAN
    /\ conflict => EnumsDisagree(stream)
    /\ ~conflict => KnownBefore(stream, Len(stream) + 1, enums) /\ FromStream(stream, enums)

VcdEnums ==
    /\ stream \in Seq(VcdEntries) /\ pos \in Nat \ {0}
    /\ KnownBefore(stream, pos, enums) /\ FromStream(stream, enums)
    /\ phase = "parsing" => pos = 1 /\ DOMAIN enums = {}
    /\ phase = "built" => pos > Len(stream)
    /\ phase = "refused" /\ pos > 1 => EnumsDisagree(stream)

EInv ==
    /\ format \in {"fst", "vcd"}
    /\ format = "fst" => FstEnums
    /\ format = "vcd" => VcdEnums

(* Two tables of a stream disagree; the instances of the readers say the same. *)
LEMMA DisagreeIs ==
    \A s : /\ EnumsDisagree(s) <=> \E p, q \in DOMAIN s :
                  /\ IsTable(s, p) /\ s[q].kind = "def"
                  /\ s[p].table = s[q].table /\ s[p].mapping # s[q].mapping
           /\ Fst!EnumsDisagree(s) <=> EnumsDisagree(s)
           /\ Vcd!EnumsDisagree(s) <=> EnumsDisagree(s)
BY DEF EnumsDisagree, Positions, IsTable, Qualified,
       Fst!EnumsDisagree, Fst!Positions, Fst!Qualified,
       Vcd!EnumsDisagree, Vcd!Positions, Vcd!Qualified

(* The operators of the readers' instances are those of Declarations.      *)
LEMMA EnumOperators ==
    /\ \A known, e : Fst!Conflicts(known, e) <=> Conflicts(known, e)
    /\ \A known, e : Vcd!Conflicts(known, e) <=> Conflicts(known, e)
    /\ \A known, e : Fst!Registered(known, e) = Registered(known, e)
    /\ \A known, e : Vcd!Registered(known, e) = Registered(known, e)
    /\ Fst!Nothing = Nothing /\ Vcd!Nothing = Nothing
BY DEF Conflicts, Registered, Qualified, Bind, Nothing,
       Fst!Conflicts, Fst!Registered, Fst!Qualified, Fst!Bind, Fst!Nothing,
       Vcd!Conflicts, Vcd!Registered, Vcd!Qualified, Vcd!Bind, Vcd!Nothing

(* A longer stream has the tables of the shorter one at their places.      *)
LEMMA LongerStream ==
    ASSUME NEW E, NEW s \in Seq(E), NEW e \in E
    PROVE  LET u == Append(s, e)
           IN  /\ u \in Seq(E) /\ Len(u) = Len(s) + 1 /\ u[Len(s) + 1] = e
               /\ EnumsDisagree(s) => EnumsDisagree(u)
               /\ \A known, n : KnownBefore(s, n, known) /\ n \in 1 .. Len(s) + 1
                                  => KnownBefore(u, n, known)
               /\ \A known : FromStream(s, known) => FromStream(u, known)
<1> DEFINE u == Append(s, e)
<1>1. /\ u \in Seq(E) /\ Len(u) = Len(s) + 1 /\ Len(s) \in Nat
      /\ DOMAIN s = 1 .. Len(s) /\ DOMAIN u = 1 .. Len(s) + 1
      /\ \A p \in DOMAIN s : u[p] = s[p]
      /\ u[Len(s) + 1] = e
  OBVIOUS
<1> HIDE DEF u
<1>2. DOMAIN s \subseteq DOMAIN u /\ \A p \in DOMAIN s : u[p] = s[p]
  BY <1>1
<1>3. EnumsDisagree(s) => EnumsDisagree(u)
  BY <1>2, DisagreeIs DEF IsTable
<1>4. ASSUME NEW known, NEW n \in 1 .. Len(s) + 1, KnownBefore(s, n, known)
      PROVE  KnownBefore(u, n, known)
  <2>1. \A p \in DOMAIN u : p < n => p \in DOMAIN s /\ u[p] = s[p]
    BY <1>1
  <2> QED
    BY <1>4, <2>1 DEF KnownBefore, IsTable
<1>5. ASSUME NEW known, FromStream(s, known)
      PROVE  FromStream(u, known)
  BY <1>2, <1>5 DEF FromStream, IsTable
<1> QED
  BY <1>1, <1>3, <1>4, <1>5 DEF u

(* An entry that is no table makes no difference.                          *)
LEMMA NoTable ==
    ASSUME NEW s, NEW n \in Nat, NEW known, KnownBefore(s, n, known), DOMAIN s \subseteq Nat,
           s[n].kind # "def"
    PROVE  KnownBefore(s, n + 1, known)
<1>1. \A p \in DOMAIN s : p < n + 1 => p < n \/ p = n
  OBVIOUS
<1> QED
  BY <1>1 DEF KnownBefore, IsTable

(* A table agrees with what is known, and is then known itself; or it      *)
(* disagrees with one of the stream.                                       *)
LEMMA TableRead ==
    ASSUME NEW s, NEW n \in Nat, n \in DOMAIN s, DOMAIN s \subseteq Nat, NEW known,
           KnownBefore(s, n, known), FromStream(s, known), s[n].kind = "def"
    PROVE  /\ Conflicts(known, s[n]) => EnumsDisagree(s)
           /\ ~Conflicts(known, s[n]) => /\ KnownBefore(s, n + 1, Registered(known, s[n]))
                                         /\ FromStream(s, Registered(known, s[n]))
<1> DEFINE t == s[n].table
           more == Registered(known, s[n])
<1>1. ASSUME Conflicts(known, s[n])
      PROVE  EnumsDisagree(s)
  <2>1. t \in DOMAIN known /\ known[t] # s[n].mapping
    BY <1>1 DEF Conflicts
  <2>2. PICK p \in DOMAIN s : IsTable(s, p) /\ s[p].table = t /\ s[p].mapping = known[t]
    BY <2>1 DEF FromStream
  <2> QED
    BY <2>1, <2>2, DisagreeIs
<1>2. ASSUME ~Conflicts(known, s[n])
      PROVE  KnownBefore(s, n + 1, more) /\ FromStream(s, more)
  <2>1. \A p \in DOMAIN s : p < n + 1 => p < n \/ p = n
    OBVIOUS
  <2>2. CASE Qualified(t) /\ t \notin DOMAIN known
    <3>1. /\ DOMAIN more = DOMAIN known \cup {t} /\ more[t] = s[n].mapping
          /\ \A k \in DOMAIN known : more[k] = known[k]
      BY <2>2 DEF Registered, Bind
    <3> HIDE DEF more
    <3>2. KnownBefore(s, n + 1, more)
      BY <2>1, <3>1 DEF KnownBefore
    <3>3. IsTable(s, n)
      BY <2>2 DEF IsTable
    <3>4. FromStream(s, more)
      BY <3>1, <3>3 DEF FromStream
    <3> QED
      BY <3>2, <3>4
  <2>3. CASE ~(Qualified(t) /\ t \notin DOMAIN known)
    <3>1. more = known
      BY <2>3 DEF Registered
    <3>2. IsTable(s, n) => t \in DOMAIN known /\ known[t] = s[n].mapping
      BY <1>2, <2>3 DEF Conflicts, IsTable
    <3> HIDE DEF more
    <3> QED
      BY <2>1, <3>1, <3>2 DEF KnownBefore
  <2> QED
    BY <2>2, <2>3
<1> QED
  BY <1>1, <1>2

(* Before anything is read nothing is known.                               *)
LEMMA InitEnums == Init => EInv
<1> SUFFICES ASSUME Init PROVE EInv
  OBVIOUS
<1>1. /\ format \in {"fst", "vcd"} /\ stream = <<>> /\ conflict = FALSE
      /\ enums = Nothing /\ phase = "parsing" /\ pos = 1
  BY EnumOperators DEF Init, Fst!Init, Vcd!Init
<1>2. DOMAIN enums = {} /\ DOMAIN stream = {}
  BY <1>1 DEF Nothing
<1>3. \A n : KnownBefore(stream, n, enums) /\ FromStream(stream, enums)
  BY <1>2 DEF KnownBefore, FromStream
<1>4. stream \in Seq(FstEntries) /\ stream \in Seq(VcdEntries)
  BY <1>1
<1>5. FstEnums
  BY <1>1, <1>3, <1>4 DEF FstEnums
<1>6. VcdEnums
  BY <1>1, <1>2, <1>3, <1>4 DEF VcdEnums
<1> QED
  BY <1>1, <1>5, <1>6 DEF EInv

(* An entry of an FST hierarchy.                                           *)
LEMMA FstEnumsStep == EInv /\ ReadFst => EInv'
<1> SUFFICES ASSUME EInv, ReadFst PROVE EInv'
  OBVIOUS
<1>1. format = "fst" /\ format' = "fst" /\ Fst!Next /\ FstEnums
  BY DEF ReadFst, EInv
<1>2. stream \in Seq(FstEntries) /\ Len(stream) \in Nat /\ conflict \in BOOLEAN
  BY <1>1 DEF FstEnums
<1>3. ASSUME NEW e \in FstEntries, stream' = Append(stream, e),
             \/ e.kind # "def" /\ UNCHANGED << enums, conflict >>
             \/ Fst!FstEnumTable(e)
      PROVE  FstEnums'
  <2> DEFINE s == Append(stream, e)
             n == Len(stream) + 1
  <2>1. /\ s \in Seq(FstEntries) /\ Len(s) = n /\ s[n] = e
        /\ EnumsDisagree(stream) => EnumsDisagree(s)
        /\ \A known, k : KnownBefore(stream, k, known) /\ k \in 1 .. n => KnownBefore(s, k, known)
        /\ \A known : FromStream(stream, known) => FromStream(s, known)
    BY <1>2, LongerStream
  <2>2. n \in Nat /\ n \in 1 .. n /\ DOMAIN s = 1 .. n
    BY <1>2, <2>1
  <2> HIDE DEF s, n
  <2>3. n \in DOMAIN s /\ DOMAIN s \subseteq Nat
    BY <2>2
  <2>4. ~conflict => KnownBefore(s, n, enums) /\ FromStream(s, enums)
    BY <1>1, <2>1, <2>2 DEF FstEnums, n
  <2>5. conflict => EnumsDisagree(s)
    BY <1>1, <2>1 DEF FstEnums
  <2>6. CASE e.kind # "def" /\ UNCHANGED << enums, conflict >>
    <3>1. ~conflict => KnownBefore(s, n + 1, enums)
      BY <2>1, <2>2, <2>3, <2>4, <2>6, NoTable
    <3> QED
      BY <1>2, <1>3, <2>1, <2>4, <2>5, <2>6, <3>1 DEF FstEnums, s
  <2>7. CASE Fst!FstEnumTable(e)
    <3>1. /\ e.kind = "def"
          /\ conflict' = (conflict \/ Conflicts(enums, e))
          /\ enums' = IF conflict THEN enums ELSE Registered(enums, e)
      BY <2>7, EnumOperators DEF Fst!FstEnumTable
    <3>2. ~conflict => /\ Conflicts(enums, e) => EnumsDisagree(s)
                       /\ ~Conflicts(enums, e) => /\ KnownBefore(s, n + 1, Registered(enums, e))
                                                  /\ FromStream(s, Registered(enums, e))
      BY <2>1, <2>2, <2>3, <2>4, <3>1, TableRead
    <3>3. conflict' => EnumsDisagree(s)
      BY <2>5, <3>1, <3>2
    <3>4. ~conflict' => KnownBefore(s, n + 1, enums') /\ FromStream(s, enums')
      BY <3>1, <3>2
    <3>5. conflict' \in BOOLEAN
      BY <3>1
    <3> QED
      BY <1>3, <2>1, <3>3, <3>4, <3>5 DEF FstEnums, s
  <2> QED
    BY <1>3, <2>6, <2>7
<1>4. ASSUME NEW e \in FstEntries,
             \/ Fst!FstScope(e) \/ Fst!FstUpScope(e) \/ Fst!FstVar(e) \/ Fst!FstAttributeEnd(e)
             \/ Fst!FstEnumTableRef(e) \/ Fst!FstStructural(e) \/ Fst!FstOther(e)
      PROVE  FstEnums'
  <2>1. e.kind # "def" /\ UNCHANGED << enums, conflict >> /\ stream' = Append(stream, e)
    BY <1>4 DEF Fst!FstScope, Fst!FstUpScope, Fst!FstVar, Fst!FstAttributeEnd,
                Fst!FstEnumTableRef, Fst!FstStructural, Fst!FstOther, Fst!Reads
  <2> QED
    BY <1>3, <2>1
<1>5. ASSUME NEW e \in FstEntries, Fst!FstEnumTable(e)
      PROVE  FstEnums'
  <2>1. stream' = Append(stream, e)
    BY <1>5 DEF Fst!FstEnumTable, Fst!Reads
  <2> QED
    BY <1>3, <1>5, <2>1
<1>6. ASSUME Fst!FstEnd
      PROVE  FstEnums'
  <2>1. UNCHANGED << stream, enums, conflict >>
    BY <1>6 DEF Fst!FstEnd
  <2> QED
    BY <1>1, <2>1 DEF FstEnums
<1>7. FstEnums'
  BY <1>1, <1>4, <1>5, <1>6 DEF Fst!Next
<1> QED
  BY <1>1, <1>7 DEF EInv

(* A command that is parsed, or visited by walk.                           *)
LEMMA VcdEnumsStep == EInv /\ ReadVcd => EInv'
<1> SUFFICES ASSUME EInv, ReadVcd PROVE EInv'
  OBVIOUS
<1>1. format = "vcd" /\ format' = "vcd" /\ Vcd!Next /\ VcdEnums
  BY DEF ReadVcd, EInv
<1>2. stream \in Seq(VcdEntries) /\ pos \in Nat \ {0} /\ Len(stream) \in Nat
  BY <1>1 DEF VcdEnums
<1>3. ASSUME NEW e \in VcdEntries, Vcd!ParseCommand(e)
      PROVE  VcdEnums'
  <2>1. /\ phase = "parsing" /\ stream' = Append(stream, e)
        /\ UNCHANGED << phase, pos, enums >>
    BY <1>3 DEF Vcd!ParseCommand
  <2>2. pos = 1 /\ DOMAIN enums = {}
    BY <1>1, <2>1 DEF VcdEnums
  <2>3. stream' \in Seq(VcdEntries) /\ DOMAIN stream' \subseteq Nat \ {0}
    BY <1>2, <2>1
  <2>4. KnownBefore(stream', pos, enums) /\ FromStream(stream', enums)
    BY <2>2, <2>3 DEF KnownBefore, FromStream
  <2> QED
    BY <2>1, <2>2, <2>3, <2>4 DEF VcdEnums
<1>4. ASSUME UNCHANGED << stream, pos, enums >>,
             phase = "parsing" /\ phase' \in {"refused", "walking"}
      PROVE  VcdEnums'
  BY <1>1, <1>4 DEF VcdEnums
<1>5. ASSUME Vcd!ParseFail \/ Vcd!EndDefinitions
      PROVE  VcdEnums'
  BY <1>4, <1>5 DEF Vcd!ParseFail, Vcd!EndDefinitions
<1>6. ASSUME Vcd!WalkEnd
      PROVE  VcdEnums'
  <2>1. phase' = "built" /\ pos > Len(stream) /\ UNCHANGED << stream, pos, enums >>
    BY <1>6 DEF Vcd!WalkEnd
  <2> QED
    BY <1>1, <2>1 DEF VcdEnums
<1>here. ASSUME phase = "walking", pos <= Len(stream)
         PROVE  /\ pos \in DOMAIN stream /\ DOMAIN stream \subseteq Nat /\ pos \in Nat
                /\ KnownBefore(stream, pos, enums) /\ FromStream(stream, enums)
  BY <1>1, <1>2, <1>here DEF VcdEnums
<1>7. ASSUME Vcd!WalkConflict
      PROVE  VcdEnums'
  <2>1. /\ phase = "walking" /\ pos <= Len(stream) /\ stream[pos].kind = "def"
        /\ Conflicts(enums, stream[pos]) /\ phase' = "refused"
        /\ UNCHANGED << stream, pos, enums >>
    BY <1>7, EnumOperators DEF Vcd!WalkConflict, Vcd!Disagrees, Vcd!Item
  <2>2. EnumsDisagree(stream)
    BY <1>here, <2>1, TableRead
  <2> QED
    BY <1>1, <2>1, <2>2 DEF VcdEnums
<1>8. ASSUME NEW kind, Vcd!Walks(kind)
      PROVE  /\ phase = "walking" /\ pos <= Len(stream) /\ stream[pos].kind = kind
             /\ pos' = pos + 1 /\ UNCHANGED << stream, phase >>
  BY <1>8 DEF Vcd!Walks
<1>9. ASSUME NEW kind \in {"scope", "up", "var", "close", "ref", "struct", "misc", "malformed"},
             Vcd!Walks(kind), enums' = enums
      PROVE  VcdEnums'
  <2>1. /\ phase = "walking" /\ pos <= Len(stream) /\ stream[pos].kind # "def"
        /\ pos' = pos + 1 /\ UNCHANGED << stream, phase, enums >>
    BY <1>8, <1>9
  <2>2. KnownBefore(stream, pos + 1, enums) /\ FromStream(stream, enums)
    BY <1>here, <2>1, NoTable
  <2>3. pos + 1 \in Nat \ {0}
    BY <1>2
  <2> QED
    BY <1>1, <2>1, <2>2, <2>3 DEF VcdEnums
<1>10. ASSUME Vcd!WalkEnumTable
       PROVE  VcdEnums'
  <2>1. Vcd!Walks("def")
    BY <1>10 DEF Vcd!WalkEnumTable
  <2>2. /\ phase = "walking" /\ pos <= Len(stream) /\ stream[pos].kind = "def"
        /\ pos' = pos + 1 /\ UNCHANGED << stream, phase >>
    BY <1>8, <2>1
  <2>3. ~Conflicts(enums, stream[pos]) /\ enums' = Registered(enums, stream[pos])
    BY <1>10, EnumOperators DEF Vcd!WalkEnumTable, Vcd!Disagrees, Vcd!Item
  <2>4. KnownBefore(stream, pos + 1, enums') /\ FromStream(stream, enums')
    BY <1>here, <2>2, <2>3, TableRead
  <2>5. pos + 1 \in Nat \ {0}
    BY <1>2
  <2> QED
    BY <1>1, <2>2, <2>4, <2>5 DEF VcdEnums
<1>11. ASSUME \/ Vcd!WalkScope \/ Vcd!WalkReturn \/ Vcd!WalkVar \/ Vcd!WalkAttributeEnd
              \/ Vcd!WalkEnumRef \/ Vcd!WalkStructural \/ Vcd!WalkMisc \/ Vcd!WalkMalformed
       PROVE  VcdEnums'
  <2>1. PICK kind \in {"scope", "up", "var", "close", "ref", "struct", "misc", "malformed"} :
          Vcd!Walks(kind)
    BY <1>11 DEF Vcd!WalkScope, Vcd!WalkReturn, Vcd!WalkVar, Vcd!WalkAttributeEnd,
                 Vcd!WalkEnumRef, Vcd!WalkStructural, Vcd!WalkMisc, Vcd!WalkMalformed
  <2>2. enums' = enums
    BY <1>11 DEF Vcd!WalkScope, Vcd!WalkReturn, Vcd!WalkVar, Vcd!WalkAttributeEnd,
                 Vcd!WalkEnumRef, Vcd!WalkStructural, Vcd!WalkMisc, Vcd!WalkMalformed
  <2> QED
    BY <1>9, <2>1, <2>2
<1>12. VcdEnums'
  BY <1>1, <1>3, <1>5, <1>6, <1>7, <1>10, <1>11 DEF Vcd!Next
<1> QED
  BY <1>1, <1>12 DEF EInv

(* Every step, and a stutter.                                              *)
LEMMA NextEnums == EInv /\ [Next]_vars => EInv'
<1> SUFFICES ASSUME EInv, [Next]_vars PROVE EInv'
  OBVIOUS
<1>1. CASE Next
  BY <1>1, FstEnumsStep, VcdEnumsStep DEF Next
<1>2. CASE UNCHANGED vars
  <2>1. UNCHANGED << format, stream, pos, phase, enums, conflict >>
    BY <1>2 DEF vars, fstOnly, vcdOnly
  <2> QED
    BY <2>1 DEF EInv, FstEnums, VcdEnums
<1> QED
  BY <1>1, <1>2

(* A hierarchy of any length, in either format, is refused exactly when    *)
(* two of its enum tables give one qualified name different mappings,      *)
(* whichever tables of that name stand between them (build_hierarchy,      *)
(* VcdHierarchyBuilder::walk).                                             *)
THEOREM ConflictsReported == Spec => []ConflictReported
<1>1. ASSUME NEW s, NEW known, NEW n \in Nat, KnownBefore(s, n, known),
             DOMAIN s \subseteq 1 .. n - 1
      PROVE  ~EnumsDisagree(s)
  <2>1. \A p \in DOMAIN s : p < n
    BY <1>1
  <2>2. ASSUME NEW p \in DOMAIN s, NEW q \in DOMAIN s, IsTable(s, p), s[q].kind = "def",
               s[p].table = s[q].table
        PROVE  s[p].mapping = s[q].mapping
    <3>1. IsTable(s, q)
      BY <2>2 DEF IsTable
    <3> QED
      BY <1>1, <2>1, <2>2, <3>1 DEF KnownBefore
  <2> QED
    BY <2>2, DisagreeIs
<1>2. EInv => ConflictReported
  <2> SUFFICES ASSUME EInv PROVE ConflictReported
    OBVIOUS
  <2>1. ASSUME format = "fst"
        PROVE  conflict <=> EnumsDisagree(stream)
    <3>1. FstEnums
      BY <2>1 DEF EInv
    <3>2. /\ Len(stream) + 1 \in Nat
          /\ DOMAIN stream \subseteq 1 .. (Len(stream) + 1) - 1
      BY <3>1 DEF FstEnums
    <3>3. ~conflict => ~EnumsDisagree(stream)
      BY <1>1, <3>1, <3>2 DEF FstEnums
    <3> QED
      BY <3>1, <3>3 DEF FstEnums
  <2>2. ASSUME format = "vcd"
        PROVE  /\ phase = "built" => ~EnumsDisagree(stream)
               /\ phase = "refused" /\ pos > 1 => EnumsDisagree(stream)
    <3>1. VcdEnums
      BY <2>2 DEF EInv
    <3>2. phase = "built" => pos \in Nat /\ DOMAIN stream \subseteq 1 .. pos - 1
      BY <3>1 DEF VcdEnums
    <3> QED
      BY <1>1, <3>1, <3>2 DEF VcdEnums
  <2>3. format \in {"fst", "vcd"}
    BY DEF EInv
  <2> QED
    BY <2>1, <2>2, <2>3, DisagreeIs
       DEF ConflictReported, Fst!ConflictReported, Vcd!ConflictReported
<1> QED
  BY <1>2, InitEnums, NextEnums, PTL DEF Spec

-----------------------------------------------------------------------------
(* What is recorded of an annotation does not change.                      *)
LEMMA AttrLonger ==
    ASSUME NEW s, NEW u, NEW e, NEW n, Longer(s, u, e, n), NEW p \in 1 .. n,
           s[p].kind = "ref" => Definitions(s, p) # {}
    PROVE  AttrAt(u, p) = AttrAt(s, p)
<1>1. n \in Nat /\ \A q \in 1 .. n : u[q] = s[q]
  BY DEF Longer
<1>2. Definitions(u, p) = Definitions(s, p)
  BY DefinitionsLonger
<1>3. s[p].kind = "ref" => Max(Definitions(s, p)) \in 1 .. n
  <2>1. Definitions(s, p) \in SUBSET (1 .. n)
    BY PositionsLonger DEF Definitions
  <2> QED
    BY <1>1, <2>1, MaxElement
<1> DEFINE d == Max(Definitions(s, p))
<1>4. u[p] = s[p] /\ (s[p].kind = "ref" => u[d] = s[d])
  BY <1>1, <1>3
<1>5. Max(Definitions(u, p)) = d
  BY <1>2
<1> HIDE DEF d
<1>6. CASE s[p].kind = "ref"
  BY <1>4, <1>5, <1>6 DEF AttrAt, d
<1>7. CASE s[p].kind # "ref"
  BY <1>4, <1>7 DEF AttrAt
<1> QED
  BY <1>6, <1>7

-----------------------------------------------------------------------------
(* The annotations of a variable that have been given to it, and those     *)
(* that wait for what settles them.                                        *)
Taken(s, kinds, v) ==
    {p \in Attached(s, kinds, v) : s[p].kind = "struct" => Settled(s, p) <= Len(s)}

Waiting(s) ==
    {p \in Positions(s, {"struct"}) : Owner(s, p) # 0 /\ Settled(s, p) = Len(s) + 1}

(* Annotations that readers attach to variables.                           *)
AreKinds(kinds) == kinds \subseteq {"struct", "ref", "misc", "def"} /\ "struct" \in kinds

(* What waits belongs to the last variable.                                *)
LEMMA WaitingOwner ==
    ASSUME NEW s, NEW n \in Nat, DOMAIN s = 1 .. n, Len(s) = n, NEW p \in Waiting(s)
    PROVE  Owner(s, p) = Owner(s, n + 1)
<1> DEFINE K == {"scope", "up", "var"}
<1>1. p \in 1 .. n /\ s[p].kind = "struct" /\ Settled(s, p) = n + 1
  BY DEF Waiting, Positions
<1>2. SettledAt(s, n, p, n + 1)
  BY <1>1, SettledIs
<1>3. \A q \in p .. n : s[q].kind \notin K
  <2>1. \A q \in p + 1 .. n : s[q].kind \notin Stops
    BY <1>1, <1>2 DEF SettledAt
  <2>2. \A q \in p .. n : q = p \/ q \in p + 1 .. n
    BY <1>1
  <2> QED
    BY <1>1, <2>1, <2>2 DEF Stops
<1>4. {q \in Positions(s, K) : q < p} = {q \in Positions(s, K) : q < n + 1}
  <2>1. \A q \in Positions(s, K) : q \in 1 .. n /\ s[q].kind \in K
    BY DEF Positions
  <2> HIDE DEF K
  <2> QED
    BY <1>1, <1>3, <2>1
<1> QED
  BY <1>4 DEF Owner

(* A variable has what was given to it, and what waits if it is the last.  *)
LEMMA AttachedIs ==
    ASSUME NEW s, NEW n \in Nat, DOMAIN s = 1 .. n, Len(s) = n, NEW kinds, AreKinds(kinds),
           NEW v \in 1 .. n
    PROVE  Attached(s, kinds, v) =
             Taken(s, kinds, v) \cup (IF v = Owner(s, n + 1) THEN Waiting(s) ELSE {})
<1>1. \A p \in Positions(s, kinds) : p \in 1 .. n /\ Settled(s, p) \in p + 1 .. n + 1
  BY SettledIs DEF Positions, SettledAt
<1>2. ASSUME NEW p \in Attached(s, kinds, v), p \notin Taken(s, kinds, v)
      PROVE  v = Owner(s, n + 1) /\ p \in Waiting(s)
  <2>1. p \in Positions(s, kinds) /\ Owner(s, p) = v /\ s[p].kind = "struct" /\ Settled(s, p) > n
    BY <1>1, <1>2 DEF Attached, Taken
  <2>2. p \in Waiting(s)
    BY <1>1, <2>1 DEF Waiting, Positions
  <2> QED
    BY <2>1, <2>2, WaitingOwner
<1>3. ASSUME NEW p \in Waiting(s), v = Owner(s, n + 1)
      PROVE  p \in Attached(s, kinds, v)
  <2>1. Owner(s, p) = v
    BY <1>3, WaitingOwner
  <2>2. p \in Positions(s, kinds) /\ s[p].kind = "struct" /\ ~DescribesScope(s, p)
    BY DEF Waiting, Positions, AreKinds, DescribesScope
  <2> QED
    BY <2>1, <2>2 DEF Attached
<1> QED
  BY <1>2, <1>3 DEF Taken

(* Each of them is among the entries, and a reference means a table.       *)
LEMMA AttachedRange ==
    ASSUME NEW s, NEW n \in Nat, DOMAIN s = 1 .. n, NEW kinds, NEW v
    PROVE  /\ Attached(s, kinds, v) \in SUBSET (1 .. n)
           /\ Taken(s, kinds, v) \subseteq Attached(s, kinds, v)
           /\ \A p \in Attached(s, kinds, v) : s[p].kind = "ref" => Definitions(s, p) # {}
           /\ Waiting(s) \in SUBSET (1 .. n)
           /\ \A p \in Waiting(s) : s[p].kind = "struct"
BY DEF Attached, Taken, Waiting, Positions

(* What is attached in the longer stream, of what was there before.        *)
LEMMA AttachedBefore ==
    ASSUME NEW s, NEW u, NEW e, NEW n, Longer(s, u, e, n), NEW kinds, NEW v, NEW p \in 1 .. n
    PROVE  p \in Attached(u, kinds, v) <=>
             /\ p \in Positions(s, kinds) /\ Owner(s, p) = v
             /\ s[p].kind = "struct" => \/ Settled(s, p) <= n /\ s[Settled(s, p)].kind # "scope"
                                        \/ Settled(s, p) = n + 1 /\ e.kind # "scope"
             /\ s[p].kind = "ref" => Definitions(s, p) # {}
<1>1. /\ n \in Nat /\ u[p] = s[p] /\ Len(u) = n + 1 /\ u[n + 1] = e
      /\ DOMAIN s = 1 .. n /\ DOMAIN u = 1 .. n + 1
      /\ \A q \in 1 .. n : u[q] = s[q]
  BY DEF Longer
<1>2. p \in Positions(u, kinds) <=> p \in Positions(s, kinds)
  BY <1>1 DEF Positions
<1>3. Owner(u, p) = Owner(s, p) /\ Definitions(u, p) = Definitions(s, p)
  BY <1>1, OwnerLonger, DefinitionsLonger
<1>4. /\ Settled(s, p) \in p + 1 .. n + 1
      /\ Settled(u, p) = IF Settled(s, p) <= n THEN Settled(s, p)
                         ELSE IF e.kind \in Stops THEN n + 1 ELSE n + 2
  BY SettledLonger
<1>5. ~DescribesScope(u, p) <=> \/ Settled(s, p) <= n /\ s[Settled(s, p)].kind # "scope"
                                \/ Settled(s, p) = n + 1 /\ e.kind # "scope"
  <2> DEFINE m == Settled(s, p)
  <2>1. CASE m <= n
    BY <1>1, <1>4, <2>1 DEF DescribesScope
  <2>2. CASE m = n + 1 /\ e.kind \in Stops
    BY <1>1, <1>4, <2>2 DEF DescribesScope
  <2>3. CASE m = n + 1 /\ e.kind \notin Stops
    <3>1. e.kind # "scope"
      BY <2>3 DEF Stops
    <3> QED
      BY <1>1, <1>4, <2>3, <3>1 DEF DescribesScope
  <2> QED
    BY <1>1, <1>4, <2>1, <2>2, <2>3
<1> QED
  BY <1>1, <1>2, <1>3, <1>5 DEF Attached

(* The new entry itself.                                                   *)
LEMMA AttachedNew ==
    ASSUME NEW s, NEW u, NEW e, NEW n, Longer(s, u, e, n), NEW kinds, NEW v
    PROVE  n + 1 \in Attached(u, kinds, v) <=>
             /\ e.kind \in kinds /\ Owner(s, n + 1) = v
             /\ e.kind = "ref" => {q \in Positions(s, {"def"}) : s[q].handle = e.handle} # {}
<1>1. /\ n \in Nat /\ Len(u) = n + 1 /\ u[n + 1] = e /\ DOMAIN u = 1 .. n + 1
      /\ n + 1 \in 1 .. n + 1
  BY DEF Longer
<1>2. n + 1 \in Positions(u, kinds) <=> e.kind \in kinds
  BY <1>1 DEF Positions
<1>3. Owner(u, n + 1) = Owner(s, n + 1)
  BY <1>1, OwnerLonger
<1>4. Definitions(u, n + 1) = {q \in Positions(s, {"def"}) : s[q].handle = e.handle}
  BY DefinitionsLonger
<1>5. ~DescribesScope(u, n + 1)
  BY <1>1, SettledNew DEF DescribesScope
<1> QED
  BY <1>1, <1>2, <1>3, <1>4, <1>5 DEF Attached

(* What is given to a variable with a new entry.                           *)
LEMMA TakenNext ==
    ASSUME NEW s, NEW u, NEW e, NEW n, Longer(s, u, e, n), NEW kinds, AreKinds(kinds), NEW v
    PROVE  /\ e.kind \in {"up", "var", "close"} => Taken(u, kinds, v) = Attached(s, kinds, v)
           /\ e.kind \notin {"up", "var", "close"} =>
                Taken(u, kinds, v) = Taken(s, kinds, v)
                  \cup {p \in {n + 1} : e.kind # "struct" /\ p \in Attached(u, kinds, v)}
<1>1. /\ n \in Nat /\ Len(s) = n /\ Len(u) = n + 1 /\ u[n + 1] = e
      /\ DOMAIN s = 1 .. n /\ DOMAIN u = 1 .. n + 1
      /\ \A q \in 1 .. n : u[q] = s[q]
  BY DEF Longer
<1>2. /\ Attached(u, kinds, v) \in SUBSET (1 .. n + 1)
      /\ Attached(s, kinds, v) \in SUBSET (1 .. n)
  <2>1. n + 1 \in Nat
    BY <1>1
  <2> QED
    BY <1>1, <2>1, AttachedRange
<1>3. ASSUME NEW p \in 1 .. n
      PROVE  /\ e.kind \in {"up", "var", "close"} =>
                  (p \in Taken(u, kinds, v) <=> p \in Attached(s, kinds, v))
             /\ e.kind \notin {"up", "var", "close"} =>
                  (p \in Taken(u, kinds, v) <=> p \in Taken(s, kinds, v))
  <2> DEFINE m == Settled(s, p)
             k == Settled(u, p)
  <2>1. m \in p + 1 .. n + 1
        /\ k = IF m <= n THEN m ELSE IF e.kind \in Stops THEN n + 1 ELSE n + 2
    BY SettledLonger
  <2>2. p \in Attached(u, kinds, v) <=>
             /\ p \in Positions(s, kinds) /\ Owner(s, p) = v
             /\ s[p].kind = "struct" => \/ m <= n /\ s[m].kind # "scope"
                                        \/ m = n + 1 /\ e.kind # "scope"
             /\ s[p].kind = "ref" => Definitions(s, p) # {}
    BY AttachedBefore
  <2>3. p \in Taken(u, kinds, v) <=>
             p \in Attached(u, kinds, v) /\ (s[p].kind = "struct" => k <= n + 1)
    BY <1>1 DEF Taken
  <2>4. p \in Attached(s, kinds, v) <=>
             /\ p \in Positions(s, kinds) /\ Owner(s, p) = v
             /\ s[p].kind = "struct" => ~(m <= n /\ s[m].kind = "scope")
             /\ s[p].kind = "ref" => Definitions(s, p) # {}
    BY <1>1 DEF Attached, DescribesScope
  <2>5. p \in Taken(s, kinds, v) <=>
             p \in Attached(s, kinds, v) /\ (s[p].kind = "struct" => m <= n)
    BY <1>1 DEF Taken
  <2> HIDE DEF m, k
  <2>6. CASE e.kind \in {"up", "var", "close"}
    <3>1. e.kind \in Stops /\ e.kind # "scope"
      BY <2>6 DEF Stops
    <3> QED
      BY <1>1, <2>1, <2>2, <2>3, <2>4, <2>6, <3>1
  <2>7. CASE e.kind \notin {"up", "var", "close"}
    <3>1. e.kind \in Stops <=> e.kind = "scope"
      BY <2>7 DEF Stops
    <3> QED
      BY <1>1, <2>1, <2>2, <2>3, <2>4, <2>5, <2>7, <3>1
  <2> QED
    BY <2>6, <2>7
<1>4. n + 1 \in Taken(u, kinds, v) <=> n + 1 \in Attached(u, kinds, v) /\ e.kind # "struct"
  BY <1>1, SettledNew DEF Taken
<1>5. n + 1 \in Attached(u, kinds, v) => e.kind \in kinds
  BY AttachedNew
<1>6. e.kind \in {"up", "var", "close"} => e.kind \notin kinds
  BY DEF AreKinds
<1>7. /\ Taken(u, kinds, v) \subseteq Attached(u, kinds, v)
      /\ Taken(s, kinds, v) \subseteq Attached(s, kinds, v)
  BY DEF Taken
<1>8. CASE e.kind \in {"up", "var", "close"}
  <2>1. n + 1 \notin Taken(u, kinds, v)
    BY <1>4, <1>5, <1>6, <1>8
  <2>2. \A p \in Taken(u, kinds, v) : p \in 1 .. n
    BY <1>1, <1>2, <1>7, <2>1
  <2> QED
    BY <1>2, <1>3, <1>8, <2>2
<1>9. CASE e.kind \notin {"up", "var", "close"}
  <2>1. \A p \in Taken(u, kinds, v) : p \in 1 .. n \/ p = n + 1
    BY <1>1, <1>2, <1>7
  <2>2. \A p \in Taken(s, kinds, v) : p \in 1 .. n
    BY <1>2, <1>7
  <2> QED
    BY <1>3, <1>4, <1>9, <2>1, <2>2
<1> QED
  BY <1>8, <1>9

(* Nothing precedes a variable that is to be given to it.                  *)
LEMMA TakenByNew ==
    ASSUME NEW s, NEW u, NEW e, NEW n, Longer(s, u, e, n), NEW kinds, AreKinds(kinds),
           e.kind = "var"
    PROVE  Taken(u, kinds, n + 1) = {}
<1>1. n \in Nat /\ DOMAIN s = 1 .. n /\ Len(s) = n
  BY DEF Longer
<1>2. Taken(u, kinds, n + 1) = Attached(s, kinds, n + 1)
  BY TakenNext
<1>3. ASSUME NEW p \in Attached(s, kinds, n + 1)
      PROVE  FALSE
  <2>1. p \in 1 .. n /\ Owner(s, p) = n + 1
    BY <1>1 DEF Attached, Positions
  <2>2. p \in 1 .. n + 1
    BY <1>1, <2>1
  <2>3. Owner(s, p) = 0 \/ Owner(s, p) < p
    BY <1>1, <2>2, OwnerIs
  <2> QED
    BY <1>1, <2>1, <2>3
<1> QED
  BY <1>2, <1>3

(* What waits with a new entry.                                            *)
LEMMA WaitingNext ==
    ASSUME NEW s, NEW u, NEW e, NEW n, Longer(s, u, e, n)
    PROVE  /\ e.kind \in Stops => Waiting(u) = {}
           /\ e.kind \notin Stops =>
                Waiting(u) = Waiting(s)
                  \cup {p \in {n + 1} : e.kind = "struct" /\ Owner(s, n + 1) # 0}
<1>1. /\ n \in Nat /\ Len(s) = n /\ Len(u) = n + 1 /\ u[n + 1] = e
      /\ DOMAIN s = 1 .. n /\ DOMAIN u = 1 .. n + 1 /\ n + 1 \in 1 .. n + 1
      /\ \A q \in 1 .. n : u[q] = s[q]
  BY DEF Longer
<1>2. ASSUME NEW p \in 1 .. n
      PROVE  p \in Waiting(u) <=> p \in Waiting(s) /\ e.kind \notin Stops
  <2>1. Owner(u, p) = Owner(s, p)
    BY <1>1, OwnerLonger
  <2>2. /\ Settled(s, p) \in p + 1 .. n + 1
        /\ Settled(u, p) = IF Settled(s, p) <= n THEN Settled(s, p)
                           ELSE IF e.kind \in Stops THEN n + 1 ELSE n + 2
    BY SettledLonger
  <2>3. p \in Positions(u, {"struct"}) <=> p \in Positions(s, {"struct"})
    BY <1>1 DEF Positions
  <2>4. Settled(u, p) = n + 2 <=> Settled(s, p) = n + 1 /\ e.kind \notin Stops
    BY <1>1, <2>2
  <2>5. Len(u) + 1 = n + 2
    BY <1>1
  <2> QED
    BY <1>1, <2>1, <2>3, <2>4, <2>5 DEF Waiting
<1>3. n + 1 \in Waiting(u) <=> e.kind = "struct" /\ Owner(s, n + 1) # 0
  <2>1. Owner(u, n + 1) = Owner(s, n + 1) /\ Settled(u, n + 1) = n + 2
    BY <1>1, OwnerLonger, SettledNew
  <2>2. n + 1 \in Positions(u, {"struct"}) <=> e.kind = "struct"
    BY <1>1 DEF Positions
  <2>3. Len(u) + 1 = n + 2
    BY <1>1
  <2> QED
    BY <2>1, <2>2, <2>3 DEF Waiting
<1>4. (\A p \in Waiting(u) : p \in 1 .. n \/ p = n + 1) /\ (\A p \in Waiting(s) : p \in 1 .. n)
  BY <1>1 DEF Waiting, Positions
<1>5. e.kind \in Stops => e.kind # "struct"
  BY DEF Stops
<1>6. CASE e.kind \in Stops
  BY <1>2, <1>3, <1>4, <1>5, <1>6
<1>7. CASE e.kind \notin Stops
  BY <1>2, <1>3, <1>4, <1>7
<1> QED
  BY <1>6, <1>7

-----------------------------------------------------------------------------
(* Annotations as they are recorded, and the scopes that are open.         *)

(* What is recorded of some annotations, in the order in which they take   *)
(* effect.                                                                 *)
Listed(s, S) ==
    [k \in DOMAIN InOrder(S, Earliest(s)) |-> AttrAt(s, InOrder(S, Earliest(s))[k])]

Attrs(s, n) == {AttrAt(s, p) : p \in 1 .. n}

(* It is a sequence with one element for each.                             *)
LEMMA ListedSeq ==
    ASSUME NEW s, NEW n \in Nat, DOMAIN s = 1 .. n, Len(s) = n, NEW S \in SUBSET (1 .. n)
    PROVE  /\ Cardinality(S) \in Nat
           /\ Listed(s, S) \in Seq(Attrs(s, n))
           /\ Len(Listed(s, S)) = Cardinality(S)
           /\ \A k \in 1 .. Cardinality(S) :
                /\ InOrder(S, Earliest(s))[k] \in S
                /\ Listed(s, S)[k] = AttrAt(s, InOrder(S, Earliest(s))[k])
<1> DEFINE f == InOrder(S, Earliest(s))
           c == Cardinality(S)
           A == Attrs(s, n)
           L == Listed(s, S)
<1>1. IsStrictOrder(S, Earliest(s)) /\ IsFiniteSet(S)
  BY EarliestStrict
<1>2. f \in [1 .. c -> S] /\ c \in Nat
  BY <1>1, OrderIsOnto
<1>3. L = [k \in 1 .. c |-> AttrAt(s, f[k])]
  <2>1. DOMAIN f = 1 .. c
    BY <1>2
  <2> QED
    BY <2>1 DEF Listed
<1>4. \A k \in 1 .. c : f[k] \in S /\ AttrAt(s, f[k]) \in A
  BY <1>2 DEF Attrs
<1> HIDE DEF f, c, A, L
<1>5. L \in [1 .. c -> A]
  BY <1>3, <1>4
<1>6. L \in Seq(A)
  BY <1>2, <1>5
<1>7. Len(L) = c
  BY <1>2, <1>5, <1>6
<1>8. \A k \in 1 .. c : f[k] \in S /\ L[k] = AttrAt(s, f[k])
  BY <1>3, <1>4
<1> QED
  BY <1>2, <1>6, <1>7, <1>8 DEF f, c, A, L

(* A new entry leaves it alone.                                            *)
LEMMA ListedLonger ==
    ASSUME NEW s, NEW u, NEW e, NEW n, Longer(s, u, e, n), NEW S \in SUBSET (1 .. n),
           \A p \in S : s[p].kind = "ref" => Definitions(s, p) # {}
    PROVE  Listed(u, S) = Listed(s, S)
<1>0. n \in Nat /\ DOMAIN s = 1 .. n /\ DOMAIN u = 1 .. n + 1 /\ Len(s) = n
  BY DEF Longer
<1>1. \A x, y \in S : << x, y >> \in Earliest(u) <=> << x, y >> \in Earliest(s)
  <2> SUFFICES ASSUME NEW x \in S, NEW y \in S
               PROVE  << x, y >> \in Earliest(u) <=> << x, y >> \in Earliest(s)
    OBVIOUS
  <2>1. x \in DOMAIN s /\ y \in DOMAIN s /\ x \in DOMAIN u /\ y \in DOMAIN u
    BY <1>0
  <2>2. Earlier(u, x, y) <=> Earlier(s, x, y)
    BY EarlierLonger
  <2> QED
    BY <2>1, <2>2, EarliestIs
<1>2. InOrder(S, Earliest(u)) = InOrder(S, Earliest(s))
  BY <1>1, OrderAgree
<1>3. IsStrictOrder(S, Earliest(s)) /\ IsFiniteSet(S)
  BY <1>0, EarliestStrict
<1> DEFINE f == InOrder(S, Earliest(s))
<1>4. f \in [1 .. Cardinality(S) -> S]
  BY <1>3, OrderIsOnto
<1> HIDE DEF f
<1>5. \A k \in DOMAIN f : AttrAt(u, f[k]) = AttrAt(s, f[k])
  <2>1. \A p \in S : AttrAt(u, p) = AttrAt(s, p)
    BY AttrLonger
  <2> QED
    BY <1>4, <2>1
<1>6. Listed(u, S) = [k \in DOMAIN f |-> AttrAt(u, f[k])]
  BY <1>2 DEF Listed, f
<1>7. Listed(s, S) = [k \in DOMAIN f |-> AttrAt(s, f[k])]
  BY DEF Listed, f
<1> QED
  BY <1>5, <1>6, <1>7

(* Two sequences one after the other.                                      *)
LEMMA JoinedIs ==
    ASSUME NEW A, NEW f \in Seq(A), NEW g \in Seq(A), NEW h \in Seq(A),
           Len(h) = Len(f) + Len(g),
           \A k \in 1 .. Len(f) : h[k] = f[k],
           \A k \in 1 .. Len(g) : h[Len(f) + k] = g[k]
    PROVE  h = f \o g
<1>1. /\ f \o g \in Seq(A) /\ Len(f \o g) = Len(f) + Len(g)
      /\ \A k \in 1 .. Len(f) + Len(g) : (f \o g)[k] = IF k <= Len(f) THEN f[k] ELSE g[k - Len(f)]
  OBVIOUS
<1>2. ASSUME NEW k \in 1 .. Len(f) + Len(g)
      PROVE  h[k] = (f \o g)[k]
  <2>1. CASE k <= Len(f)
    BY <1>1, <2>1
  <2>2. CASE ~(k <= Len(f))
    <3>1. k - Len(f) \in 1 .. Len(g) /\ Len(f) + (k - Len(f)) = k
      BY <2>2
    <3>2. h[k] = g[k - Len(f)]
      BY <3>1
    <3> QED
      BY <1>1, <2>2, <3>2
  <2> QED
    BY <2>1, <2>2
<1> DEFINE j == f \o g
<1>3. j \in Seq(A) /\ Len(j) = Len(h) /\ \A k \in 1 .. Len(h) : h[k] = j[k]
  BY <1>1, <1>2
<1> HIDE DEF j
<1>4. h = j
  BY <1>3
<1> QED
  BY <1>4 DEF j

(* Those that take effect later follow those that do so earlier.           *)
LEMMA ListedJoin ==
    ASSUME NEW s, NEW n \in Nat, DOMAIN s = 1 .. n, Len(s) = n,
           NEW S \in SUBSET (1 .. n), NEW T \in SUBSET (1 .. n),
           \A x \in S, y \in T : Earlier(s, x, y)
    PROVE  Listed(s, S \cup T) = Listed(s, S) \o Listed(s, T)
<1> DEFINE U == S \cup T
           R == Earliest(s)
           A == Attrs(s, n)
<1>1. U \in SUBSET (1 .. n)
  OBVIOUS
<1>2. IsStrictOrder(U, R) /\ IsFiniteSet(S) /\ IsFiniteSet(T)
  BY <1>1, EarliestStrict
<1>3. \A x \in U : << x, x >> \notin R
  BY <1>2 DEF IsStrictOrder
<1>4. ASSUME NEW x \in S, NEW y \in T
      PROVE  << x, y >> \in R /\ << y, x >> \notin R
  <2>1. << x, y >> \in R
    BY EarliestIs
  <2>2. x \in U /\ y \in U
    OBVIOUS
  <2> HIDE DEF R, U
  <2> QED
    BY <1>2, <1>3, <2>1, <2>2 DEF IsStrictOrder
<1>5. /\ Cardinality(U) = Cardinality(S) + Cardinality(T)
      /\ \A k \in 1 .. Cardinality(S) : InOrder(U, R)[k] = InOrder(S, R)[k]
      /\ \A k \in 1 .. Cardinality(T) : InOrder(U, R)[Cardinality(S) + k] = InOrder(T, R)[k]
  <2>1. AllBefore(S, T, R)
    BY <1>3, <1>4 DEF AllBefore
  <2>3. IsFiniteSet(S)
    BY <1>2
  <2>4. IsFiniteSet(T)
    BY <1>2
  <2> HIDE DEF R
  <2>5. OrderJoined(S, T, R)
    BY <2>1, <2>3, <2>4, OrderJoin
  <2> QED
    BY <2>5 DEF OrderJoined
<1> DEFINE f == Listed(s, S)
           g == Listed(s, T)
           h == Listed(s, U)
           c == Cardinality(S)
           d == Cardinality(T)
<1>l. ASSUME NEW V \in SUBSET (1 .. n)
      PROVE  /\ Cardinality(V) \in Nat /\ Listed(s, V) \in Seq(A)
             /\ Len(Listed(s, V)) = Cardinality(V)
             /\ \A k \in 1 .. Cardinality(V) : Listed(s, V)[k] = AttrAt(s, InOrder(V, R)[k])
  BY ListedSeq
<1>6. /\ c \in Nat /\ f \in Seq(A) /\ Len(f) = c
      /\ \A k \in 1 .. c : f[k] = AttrAt(s, InOrder(S, R)[k])
  BY <1>l
<1>7. /\ d \in Nat /\ g \in Seq(A) /\ Len(g) = d
      /\ \A k \in 1 .. d : g[k] = AttrAt(s, InOrder(T, R)[k])
  BY <1>l
<1>8. /\ h \in Seq(A) /\ Len(h) = Cardinality(U)
      /\ \A k \in 1 .. Cardinality(U) : h[k] = AttrAt(s, InOrder(U, R)[k])
  BY <1>1, <1>l
<1> HIDE DEF f, g, h, c, d, A, R, U
<1>9. Cardinality(U) = c + d
  BY <1>5 DEF c, d
<1>10. \A k \in 1 .. Len(f) : h[k] = f[k]
  <2>1. \A k \in 1 .. c : InOrder(U, R)[k] = InOrder(S, R)[k] /\ k \in 1 .. Cardinality(U)
    BY <1>5, <1>6, <1>7, <1>9 DEF c
  <2> QED
    BY <1>6, <1>8, <2>1
<1>11. \A k \in 1 .. Len(g) : h[Len(f) + k] = g[k]
  <2>1. \A k \in 1 .. d : /\ InOrder(U, R)[c + k] = InOrder(T, R)[k]
                          /\ c + k \in 1 .. Cardinality(U)
    BY <1>5, <1>6, <1>7, <1>9 DEF c, d
  <2> QED
    BY <1>6, <1>7, <1>8, <2>1
<1>12. h = f \o g
  <2>1. f \in Seq(A)
    BY <1>6
  <2>2. g \in Seq(A)
    BY <1>7
  <2>3. h \in Seq(A)
    BY <1>8
  <2>4. Len(h) = Len(f) + Len(g)
    BY <1>6, <1>7, <1>8, <1>9
  <2> QED
    BY <1>10, <1>11, <2>1, <2>2, <2>3, <2>4, JoinedIs
<1> QED
  BY <1>12 DEF f, g, h, U

(* One more, that takes effect last.                                       *)
LEMMA ListedPush ==
    ASSUME NEW s, NEW n \in Nat, DOMAIN s = 1 .. n, Len(s) = n,
           NEW S \in SUBSET (1 .. n), NEW m \in 1 .. n,
           \A x \in S : Earlier(s, x, m)
    PROVE  Listed(s, S \cup {m}) = Append(Listed(s, S), AttrAt(s, m))
<1> DEFINE T == {m}
           R == Earliest(s)
           A == Attrs(s, n)
           f == Listed(s, S)
           g == Listed(s, T)
<1>1. T \in SUBSET (1 .. n) /\ \A x \in S, y \in T : Earlier(s, x, y)
  OBVIOUS
<1>2. Listed(s, S \cup T) = f \o g
  <2> HIDE DEF T
  <2>1. T \in SUBSET (1 .. n)
    BY <1>1
  <2>2. \A x \in S, y \in T : Earlier(s, x, y)
    BY <1>1
  <2> QED
    BY <2>1, <2>2, ListedJoin
<1>3. << m, m >> \notin R
  BY <1>1, EarliestStrict DEF IsStrictOrder
<1>4. Cardinality(T) = 1 /\ InOrder(T, R)[1] = m
  BY <1>3, OrderOne
<1>5. g \in Seq(A) /\ Len(g) = 1 /\ g[1] = AttrAt(s, m)
  <2>1. /\ g \in Seq(A) /\ Len(g) = Cardinality(T)
        /\ \A k \in 1 .. Cardinality(T) : g[k] = AttrAt(s, InOrder(T, R)[k])
    BY <1>1, ListedSeq
  <2> HIDE DEF g, A, R, T
  <2> QED
    BY <1>4, <2>1
<1>6. f \in Seq(A) /\ AttrAt(s, m) \in A
  BY ListedSeq DEF Attrs
<1> DEFINE a == AttrAt(s, m)
<1> HIDE DEF f, g, A, a
<1>7. f \o g = Append(f, a)
  <2>1. /\ Append(f, a) \in Seq(A) /\ Len(Append(f, a)) = Len(f) + 1
        /\ \A k \in 1 .. Len(f) : Append(f, a)[k] = f[k]
        /\ Append(f, a)[Len(f) + 1] = a
    BY <1>6 DEF a
  <2>2. \A k \in 1 .. Len(g) : Append(f, a)[Len(f) + k] = g[k]
    BY <1>5, <2>1 DEF a
  <2>3. Len(Append(f, a)) = Len(f) + Len(g)
    BY <1>5, <2>1
  <2> DEFINE h == Append(f, a)
  <2> HIDE DEF h
  <2>4. h = f \o g
    BY <1>5, <1>6, <2>1, <2>2, <2>3, JoinedIs DEF h
  <2> QED
    BY <2>4 DEF h
<1> QED
  BY <1>2, <1>7 DEF f, g, a, T

(* Nothing.                                                                *)
LEMMA ListedNothing == \A s : Listed(s, {}) = <<>>
BY OrderNothing DEF Listed

-----------------------------------------------------------------------------
(* The annotations that a variable has been given, as recorded.            *)
AttrsTaken(s, kinds, v) == Listed(s, Taken(s, kinds, v))
Pending(s) == Listed(s, Waiting(s))

(* The annotations that it is declared to have are those of Listed.        *)
LEMMA DeclaredIs ==
    ASSUME NEW s, NEW kinds, NEW v
    PROVE  AttrsDeclared(s, kinds, v) = Listed(s, Attached(s, kinds, v))
BY DEF AttrsDeclared, Listed

(* They are what it has been given, then what waits, for the last one.     *)
LEMMA AttrsFlushed ==
    ASSUME NEW s, NEW n \in Nat, DOMAIN s = 1 .. n, Len(s) = n, NEW kinds, AreKinds(kinds),
           NEW v \in 1 .. n
    PROVE  /\ v = Owner(s, n + 1) => AttrsDeclared(s, kinds, v) = AttrsTaken(s, kinds, v) \o Pending(s)
           /\ v # Owner(s, n + 1) => AttrsDeclared(s, kinds, v) = AttrsTaken(s, kinds, v)
<1> DEFINE S == Taken(s, kinds, v)
           T == Waiting(s)
<1>1. Attached(s, kinds, v) = S \cup (IF v = Owner(s, n + 1) THEN T ELSE {})
  BY AttachedIs
<1>2. S \in SUBSET (1 .. n)
  BY AttachedRange
<1>3. T \in SUBSET (1 .. n)
  BY AttachedRange
<1>4. \A x \in S, y \in T : Earlier(s, x, y)
  <2> SUFFICES ASSUME NEW x \in S, NEW y \in T PROVE Earlier(s, x, y)
    OBVIOUS
  <2>1. x \in 1 .. n /\ y \in 1 .. n
    BY <1>2, <1>3
  <2>2. Effective(s, x) \in x .. n
    <3>1. s[x].kind = "struct" => Settled(s, x) <= n
      BY DEF Taken
    <3> QED
      BY <2>1, <3>1, EffectiveIs
  <2>3. Effective(s, y) = n + 1
    <3>1. s[y].kind = "struct" /\ Settled(s, y) = n + 1
      BY DEF Waiting, Positions
    <3> QED
      BY <2>1, <3>1, EffectiveIs
  <2> QED
    BY <2>1, <2>2, <2>3 DEF Earlier
<1> HIDE DEF S, T
<1>5. Listed(s, S \cup T) = Listed(s, S) \o Listed(s, T)
  BY <1>2, <1>3, <1>4, ListedJoin
<1>6. CASE v = Owner(s, n + 1)
  <2>1. Attached(s, kinds, v) = S \cup T
    BY <1>1, <1>6
  <2> QED
    BY <1>5, <1>6, <2>1, DeclaredIs DEF S, T, AttrsTaken, Pending
<1>7. CASE v # Owner(s, n + 1)
  <2>1. Attached(s, kinds, v) = S
    BY <1>1, <1>7
  <2> QED
    BY <1>7, <2>1, DeclaredIs DEF S, AttrsTaken
<1> QED
  BY <1>6, <1>7

(* What a variable has been given after one more entry.                    *)
LEMMA AttrsNext ==
    ASSUME NEW s, NEW u, NEW e, NEW n, Longer(s, u, e, n), NEW kinds, AreKinds(kinds), NEW v
    PROVE  /\ e.kind \in {"up", "var", "close"} =>
                AttrsTaken(u, kinds, v) = AttrsDeclared(s, kinds, v)
           /\ e.kind \notin {"up", "var", "close"} =>
                AttrsTaken(u, kinds, v) =
                  IF e.kind # "struct" /\ n + 1 \in Attached(u, kinds, v)
                  THEN Append(AttrsTaken(s, kinds, v), AttrAt(u, n + 1))
                  ELSE AttrsTaken(s, kinds, v)
<1>1. /\ n \in Nat /\ Len(s) = n /\ Len(u) = n + 1 /\ u[n + 1] = e /\ n + 1 \in Nat
      /\ DOMAIN s = 1 .. n /\ DOMAIN u = 1 .. n + 1 /\ n + 1 \in 1 .. n + 1
      /\ \A q \in 1 .. n : u[q] = s[q]
  BY DEF Longer
<1>2. /\ Attached(s, kinds, v) \in SUBSET (1 .. n)
      /\ Taken(s, kinds, v) \subseteq Attached(s, kinds, v)
      /\ \A p \in Attached(s, kinds, v) : s[p].kind = "ref" => Definitions(s, p) # {}
  BY <1>1, AttachedRange
<1>3. Listed(u, Attached(s, kinds, v)) = Listed(s, Attached(s, kinds, v))
  BY <1>2, ListedLonger
<1> DEFINE S == Taken(s, kinds, v)
<1>4. S \in SUBSET (1 .. n) /\ S \in SUBSET (1 .. n + 1)
  BY <1>1, <1>2
<1>5. Listed(u, S) = Listed(s, S)
  <2>1. \A p \in S : s[p].kind = "ref" => Definitions(s, p) # {}
    BY <1>2
  <2>2. S \in SUBSET (1 .. n)
    BY <1>4
  <2> HIDE DEF S
  <2> QED
    BY <2>1, <2>2, ListedLonger
<1>6. CASE e.kind \in {"up", "var", "close"}
  <2>1. Taken(u, kinds, v) = Attached(s, kinds, v)
    BY <1>6, TakenNext
  <2> QED
    BY <1>3, <1>6, <2>1, DeclaredIs DEF AttrsTaken
<1>7. CASE e.kind \notin {"up", "var", "close"}
  <2>1. Taken(u, kinds, v) =
          S \cup {p \in {n + 1} : e.kind # "struct" /\ p \in Attached(u, kinds, v)}
    BY <1>7, TakenNext
  <2>2. CASE e.kind # "struct" /\ n + 1 \in Attached(u, kinds, v)
    <3>1. Taken(u, kinds, v) = S \cup {n + 1}
      BY <2>1, <2>2
    <3>2. ASSUME NEW x \in S PROVE Earlier(u, x, n + 1)
      <4>1. x \in 1 .. n /\ (s[x].kind = "struct" => Settled(s, x) <= n)
        BY <1>1, <1>4 DEF Taken
      <4>2. Effective(u, x) \in x .. n
        <5>1. CASE s[x].kind = "struct"
          <6>1. Settled(u, x) = Settled(s, x) /\ Settled(s, x) \in x + 1 .. n + 1
            BY <4>1, <5>1, SettledLonger
          <6>2. u[x].kind = "struct"
            BY <1>1, <4>1, <5>1
          <6> QED
            BY <1>1, <4>1, <5>1, <6>1, <6>2 DEF Effective
        <5>2. CASE s[x].kind # "struct"
          BY <1>1, <4>1, <5>2 DEF Effective
        <5> QED
          BY <5>1, <5>2
      <4>3. Effective(u, n + 1) = n + 1
        BY <1>1, <2>2 DEF Effective
      <4> QED
        BY <1>1, <4>1, <4>2, <4>3 DEF Earlier
    <3>3. S \in SUBSET (1 .. n + 1)
      BY <1>4
    <3>4. \A x \in S : Earlier(u, x, n + 1)
      BY <3>2
    <3> HIDE DEF S
    <3>5. Listed(u, S \cup {n + 1}) = Append(Listed(u, S), AttrAt(u, n + 1))
      BY <1>1, <3>3, <3>4, ListedPush
    <3> QED
      BY <1>5, <1>7, <2>2, <3>1, <3>5 DEF AttrsTaken, S
  <2>3. CASE ~(e.kind # "struct" /\ n + 1 \in Attached(u, kinds, v))
    <3>1. Taken(u, kinds, v) = S
      BY <2>1, <2>3
    <3> QED
      BY <1>5, <1>7, <2>3, <3>1 DEF AttrsTaken
  <2> QED
    BY <2>2, <2>3
<1> QED
  BY <1>6, <1>7

(* A new variable has no annotations yet.                                  *)
LEMMA AttrsFirst ==
    ASSUME NEW s, NEW u, NEW e, NEW n, Longer(s, u, e, n), NEW kinds, AreKinds(kinds),
           e.kind = "var"
    PROVE  AttrsTaken(u, kinds, n + 1) = <<>>
BY TakenByNew, ListedNothing DEF AttrsTaken

(* What waits after one more entry.                                        *)
LEMMA PendingNext ==
    ASSUME NEW s, NEW u, NEW e, NEW n, Longer(s, u, e, n)
    PROVE  /\ e.kind \in Stops => Pending(u) = <<>>
           /\ e.kind \notin Stops =>
                Pending(u) = IF e.kind = "struct" /\ Owner(s, n + 1) # 0
                             THEN Append(Pending(s), StructAttr(n + 1))
                             ELSE Pending(s)
<1>1. /\ n \in Nat /\ Len(s) = n /\ Len(u) = n + 1 /\ u[n + 1] = e /\ n + 1 \in Nat
      /\ DOMAIN s = 1 .. n /\ DOMAIN u = 1 .. n + 1 /\ n + 1 \in 1 .. n + 1
      /\ \A q \in 1 .. n : u[q] = s[q]
  BY DEF Longer
<1> DEFINE S == Waiting(s)
<1>2. S \in SUBSET (1 .. n) /\ \A p \in S : s[p].kind = "struct"
  BY <1>1, AttachedRange
<1>3. Listed(u, S) = Listed(s, S)
  <2>1. \A p \in S : s[p].kind = "ref" => Definitions(s, p) # {}
    BY <1>2
  <2>2. S \in SUBSET (1 .. n)
    BY <1>2
  <2> HIDE DEF S
  <2> QED
    BY <2>1, <2>2, ListedLonger
<1>4. CASE e.kind \in Stops
  <2>1. Waiting(u) = {}
    BY <1>4, WaitingNext
  <2> QED
    BY <1>4, <2>1, ListedNothing DEF Pending
<1>5. CASE e.kind \notin Stops
  <2>1. Waiting(u) = S \cup {p \in {n + 1} : e.kind = "struct" /\ Owner(s, n + 1) # 0}
    BY <1>5, WaitingNext
  <2>2. CASE e.kind = "struct" /\ Owner(s, n + 1) # 0
    <3>1. Waiting(u) = S \cup {n + 1}
      BY <2>1, <2>2
    <3>2. ASSUME NEW x \in S PROVE Earlier(u, x, n + 1)
      <4>1. x \in 1 .. n /\ u[x].kind = "struct" /\ Settled(s, x) = n + 1
        BY <1>1, <1>2 DEF Waiting
      <4>2. Settled(u, x) = n + 2
        BY <1>1, <1>5, <4>1, SettledLonger
      <4>3. Settled(u, n + 1) = n + 2 /\ u[n + 1].kind = "struct"
        BY <1>1, <2>2, SettledNew
      <4>4. Effective(u, x) = n + 2 /\ Effective(u, n + 1) = n + 2
        BY <4>1, <4>2, <4>3 DEF Effective
      <4> QED
        BY <1>1, <4>1, <4>4 DEF Earlier
    <3>3. S \in SUBSET (1 .. n + 1)
      BY <1>1, <1>2
    <3>4. \A x \in S : Earlier(u, x, n + 1)
      BY <3>2
    <3>5. AttrAt(u, n + 1) = StructAttr(n + 1)
      BY <1>1, <2>2 DEF AttrAt
    <3> HIDE DEF S
    <3>6. Listed(u, S \cup {n + 1}) = Append(Listed(u, S), AttrAt(u, n + 1))
      BY <1>1, <3>3, <3>4, ListedPush
    <3> QED
      BY <1>3, <1>5, <2>2, <3>1, <3>5, <3>6 DEF Pending, S
  <2>3. CASE ~(e.kind = "struct" /\ Owner(s, n + 1) # 0)
    <3>1. Waiting(u) = S
      BY <2>1, <2>3
    <3> QED
      BY <1>3, <1>5, <2>3, <3>1 DEF Pending
  <2> QED
    BY <2>2, <2>3
<1> QED
  BY <1>4, <1>5

(* The tables that are known by their handles: the latest of each.         *)
TablesOf(t, s) ==
    /\ DOMAIN t = {s[q].handle : q \in Positions(s, {"def"})}
    /\ \A h \in DOMAIN t : t[h] = s[Max({q \in Positions(s, {"def"}) : s[q].handle = h})]

(* A definition replaces the one before of its handle.                     *)
LEMMA TablesNext ==
    ASSUME NEW s, NEW u, NEW e, NEW n, Longer(s, u, e, n), NEW t, TablesOf(t, s)
    PROVE  /\ e.kind = "def" => TablesOf(Bind(t, e.handle, e), u)
           /\ e.kind # "def" => TablesOf(t, u)
<1>1. /\ n \in Nat /\ u[n + 1] = e
      /\ \A q \in 1 .. n : u[q] = s[q]
  BY DEF Longer
<1> DEFINE D == Positions(s, {"def"})
           E == Positions(u, {"def"})
           of(h) == {q \in D : s[q].handle = h}
           more(h) == {q \in E : u[q].handle = h}
<1>2. D \in SUBSET (1 .. n) /\ E = D \cup (IF e.kind = "def" THEN {n + 1} ELSE {})
  BY PositionsLonger
<1>3. DOMAIN t = {s[q].handle : q \in D} /\ \A h \in DOMAIN t : t[h] = s[Max(of(h))]
  BY DEF TablesOf
<1> HIDE DEF D, E
<1>4. ASSUME NEW h \in DOMAIN t, more(h) = of(h)
      PROVE  u[Max(more(h))] = t[h]
  <2>1. of(h) # {} /\ of(h) \in SUBSET (1 .. n)
    BY <1>2, <1>3
  <2>2. Max(of(h)) \in 1 .. n
    <3> HIDE DEF of
    <3> QED
      BY <1>1, <2>1, MaxElement
  <2>3. Max(more(h)) = Max(of(h))
    BY <1>4
  <2> QED
    BY <1>1, <1>3, <2>2, <2>3
<1>5. CASE e.kind = "def"
  <2> DEFINE b == Bind(t, e.handle, e)
  <2>1. /\ DOMAIN b = DOMAIN t \cup {e.handle} /\ b[e.handle] = e
        /\ \A h \in DOMAIN t : h # e.handle => b[h] = t[h]
    BY DEF Bind
  <2>2. E = D \cup {n + 1}
    BY <1>2, <1>5
  <2>3. DOMAIN b = {u[q].handle : q \in E}
    <3>1. \A q \in D : u[q].handle = s[q].handle
      BY <1>1, <1>2
    <3> HIDE DEF b
    <3> QED
      BY <1>1, <1>3, <2>1, <2>2, <3>1
  <2>4. ASSUME NEW h \in DOMAIN b
        PROVE  b[h] = u[Max(more(h))]
    <3>1. CASE h = e.handle
      <4>1. n + 1 \in more(h) /\ more(h) \in SUBSET (1 .. n + 1)
        <5>1. n + 1 \in E /\ \A q \in E : q \in 1 .. n + 1
          BY <1>1, <1>2, <2>2
        <5> QED
          BY <1>1, <3>1, <5>1
      <4>2. Max(more(h)) = n + 1
        <5> HIDE DEF more
        <5> QED
          BY <1>1, <4>1, MaxUpTo
      <4> HIDE DEF b
      <4> QED
        BY <1>1, <2>1, <3>1, <4>2
    <3>2. CASE h # e.handle
      <4>1. h \in DOMAIN t /\ b[h] = t[h]
        BY <2>1, <3>2
      <4>2. more(h) = of(h)
        BY <1>1, <1>2, <2>2, <3>2
      <4> HIDE DEF b, more
      <4> QED
        BY <1>4, <4>1, <4>2
    <3> QED
      BY <3>1, <3>2
  <2> HIDE DEF b
  <2>5. TablesOf(b, u)
    BY <2>3, <2>4 DEF TablesOf, E
  <2> QED
    BY <1>5, <2>5 DEF b
<1>6. CASE e.kind # "def"
  <2>1. E = D
    BY <1>2, <1>6
  <2>2. DOMAIN t = {u[q].handle : q \in E}
    BY <1>1, <1>2, <1>3, <2>1
  <2>3. ASSUME NEW h \in DOMAIN t
        PROVE  t[h] = u[Max(more(h))]
    <3>1. more(h) = of(h)
      BY <1>1, <1>2, <2>1
    <3> QED
      BY <1>4, <3>1
  <2> QED
    BY <1>6, <2>2, <2>3 DEF TablesOf, E
<1> QED
  BY <1>5, <1>6

(* What a reference finds is the table it means.                           *)
LEMMA TableMeant ==
    ASSUME NEW s, NEW u, NEW e, NEW n, Longer(s, u, e, n), NEW t, TablesOf(t, s),
           e.kind = "ref"
    PROVE  /\ e.handle \in DOMAIN t <=> {q \in Positions(s, {"def"}) : s[q].handle = e.handle} # {}
           /\ e.handle \in DOMAIN t => AttrAt(u, n + 1) = EnumAttr(t[e.handle])
<1> DEFINE B == {q \in Positions(s, {"def"}) : s[q].handle = e.handle}
<1>1. /\ n \in Nat /\ u[n + 1] = e
      /\ \A q \in 1 .. n : u[q] = s[q]
  BY DEF Longer
<1>2. B \in SUBSET (1 .. n)
  BY PositionsLonger
<1>3. e.handle \in DOMAIN t <=> B # {}
  BY DEF TablesOf
<1>4. ASSUME e.handle \in DOMAIN t
      PROVE  AttrAt(u, n + 1) = EnumAttr(t[e.handle])
  <2>1. t[e.handle] = s[Max(B)]
    BY <1>4 DEF TablesOf
  <2>2. Max(B) \in 1 .. n
    <3>1. B # {}
      BY <1>3, <1>4
    <3> HIDE DEF B
    <3> QED
      BY <1>1, <1>2, <3>1, MaxElement
  <2>3. Definitions(u, n + 1) = B
    BY DefinitionsLonger
  <2>4. AttrAt(u, n + 1) = EnumAttr(u[Max(Definitions(u, n + 1))])
    BY <1>1 DEF AttrAt
  <2>5. u[Max(Definitions(u, n + 1))] = s[Max(B)]
    BY <1>1, <2>2, <2>3
  <2> QED
    BY <2>1, <2>4, <2>5
<1> QED
  BY <1>3, <1>4

-----------------------------------------------------------------------------
(* The book of variables, and what the readers do to it.                   *)

(* The elements of a set of positions, each one once.                      *)
LEMMA AscendingOnto ==
    ASSUME NEW n \in Nat, NEW S \in SUBSET (1 .. n)
    PROVE  /\ IsFiniteSet(S) /\ Cardinality(S) \in Nat
           /\ Ascending(S) \in [1 .. Cardinality(S) -> S]
           /\ \A i, j \in 1 .. Cardinality(S) : i < j <=> Ascending(S)[i] < Ascending(S)[j]
           /\ \A x \in S : \E i \in 1 .. Cardinality(S) : Ascending(S)[i] = x
<1> DEFINE R == {pair \in S \X S : pair[1] < pair[2]}
           f == Ascending(S)
           c == Cardinality(S)
<1>1. IsFiniteSet(S)
  <2>1. IsFiniteSet(1 .. n)
    BY FS_Interval
  <2> QED
    BY <2>1, FS_Subset
<1>2. ASSUME NEW x \in S, NEW y \in S PROVE << x, y >> \in R <=> x < y
  <2>1. << x, y >> \in S \X S /\ << x, y >>[1] = x /\ << x, y >>[2] = y
    OBVIOUS
  <2> QED
    BY <2>1
<1>3. \A x \in S : x \in Nat
  OBVIOUS
<1> HIDE DEF R
<1>4. IsStrictOrder(S, R)
  BY <1>2, <1>3 DEF IsStrictOrder
<1>5. f = InOrder(S, R)
  BY DEF Ascending, R
<1>6. /\ f \in [1 .. c -> S] /\ c \in Nat
      /\ \A x \in S : Place(S, R, x) \in 1 .. c /\ f[Place(S, R, x)] = x
      /\ \A i, j \in 1 .. c : i < j <=> << f[i], f[j] >> \in R
  <2> HIDE DEF f, c
  <2> QED
    BY <1>1, <1>4, <1>5, OrderIsOnto DEF c
<1> HIDE DEF f, c
<1>7. \A i, j \in 1 .. c : i < j <=> f[i] < f[j]
  <2>1. \A i \in 1 .. c : f[i] \in S
    BY <1>6
  <2> QED
    BY <1>2, <1>6, <2>1
<1> QED
  BY <1>1, <1>6, <1>7 DEF f, c

(* A greater one comes last.                                               *)
LEMMA AscendingPush ==
    ASSUME NEW n \in Nat, NEW S \in SUBSET (1 .. n)
    PROVE  /\ Cardinality(S \cup {n + 1}) = Cardinality(S) + 1
           /\ \A k \in 1 .. Cardinality(S) : Ascending(S \cup {n + 1})[k] = Ascending(S)[k]
           /\ Ascending(S \cup {n + 1})[Cardinality(S) + 1] = n + 1
<1> DEFINE T == {n + 1}
           U == S \cup T
           R == {pair \in U \X U : pair[1] < pair[2]}
           Q == {pair \in S \X S : pair[1] < pair[2]}
<1>1. IsFiniteSet(S) /\ IsFiniteSet(T)
  BY AscendingOnto, FS_Singleton
<1>2. ASSUME NEW x \in U, NEW y \in U PROVE << x, y >> \in R <=> x < y
  <2>1. << x, y >> \in U \X U /\ << x, y >>[1] = x /\ << x, y >>[2] = y
    OBVIOUS
  <2> QED
    BY <2>1
<1>3. ASSUME NEW x \in S, NEW y \in S PROVE << x, y >> \in Q <=> x < y
  <2>1. << x, y >> \in S \X S /\ << x, y >>[1] = x /\ << x, y >>[2] = y
    OBVIOUS
  <2> QED
    BY <2>1
<1>4. /\ \A x \in U : x \in Nat
      /\ \A x \in S : x < n + 1
  OBVIOUS
<1> HIDE DEF R, Q
<1>5. AllBefore(S, T, R)
  <2>1. \A x \in U : << x, x >> \notin R
    BY <1>2, <1>4
  <2>2. \A x \in S : << x, n + 1 >> \in R /\ << n + 1, x >> \notin R
    BY <1>2, <1>4
  <2> QED
    BY <2>1, <2>2 DEF AllBefore
<1>6. OrderJoined(S, T, R)
  BY <1>1, <1>5, OrderJoin
<1>7. InOrder(S, R) = InOrder(S, Q)
  <2>1. \A x, y \in S : << x, y >> \in R <=> << x, y >> \in Q
    BY <1>2, <1>3
  <2> QED
    BY <2>1, OrderAgree
<1>8. Cardinality(T) = 1 /\ InOrder(T, R)[1] = n + 1
  <2>1. << n + 1, n + 1 >> \notin R
    BY <1>2, <1>4
  <2> QED
    BY <2>1, OrderOne
<1>9. Ascending(U) = InOrder(U, R) /\ Ascending(S) = InOrder(S, R)
  <2>1. Ascending(U) = InOrder(U, R)
    BY DEF Ascending, R
  <2>2. Ascending(S) = InOrder(S, Q)
    BY DEF Ascending, Q
  <2> QED
    BY <1>7, <2>1, <2>2
<1>10. /\ Cardinality(S \cup T) = Cardinality(S) + Cardinality(T)
       /\ \A k \in 1 .. Cardinality(S) : InOrder(S \cup T, R)[k] = InOrder(S, R)[k]
       /\ \A k \in 1 .. Cardinality(T) :
            InOrder(S \cup T, R)[Cardinality(S) + k] = InOrder(T, R)[k]
  BY <1>6 DEF OrderJoined
<1>11. 1 \in 1 .. Cardinality(T)
  BY <1>8
<1> HIDE DEF T
<1>12. /\ Cardinality(U) = Cardinality(S) + 1
       /\ \A k \in 1 .. Cardinality(S) : Ascending(U)[k] = Ascending(S)[k]
       /\ Ascending(U)[Cardinality(S) + 1] = n + 1
  BY <1>8, <1>9, <1>10, <1>11
<1> QED
  BY <1>12 DEF T

-----------------------------------------------------------------------------
(* The book that readers keep: for every code, under its handle, a row of  *)
(* the variables that have it, in order, each with a name and annotations. *)
Vars(s) == Positions(s, {"var"})
VarsWith(s, c) == {v \in Vars(s) : s[v].code = c}
Entry(N, A, v) == [name |-> N[v], attrs |-> A[v]]
Row(s, c, N, A) ==
    [k \in 1 .. Cardinality(VarsWith(s, c)) |-> Entry(N, A, Ascending(VarsWith(s, c))[k])]

Booked(m, H, s, N, A) ==
    /\ DOMAIN m = {H[c] : c \in CodesDeclared(s)}
    /\ \A c \in CodesDeclared(s) : m[H[c]] = Row(s, c, N, A)

Apart(H, s) == \A c, d \in CodesDeclared(s) : H[c] = H[d] => c = d

(* A row is a sequence.                                                    *)
Entries(s, c, N, A) == {Entry(N, A, v) : v \in VarsWith(s, c)}

IsRow(r, s, c, N, A, f, l) ==
    /\ l \in Nat /\ f \in [1 .. l -> VarsWith(s, c)]
    /\ \A i, j \in 1 .. l : i < j <=> f[i] < f[j]
    /\ \A x \in VarsWith(s, c) : \E i \in 1 .. l : f[i] = x
    /\ r \in Seq(Entries(s, c, N, A))
    /\ Len(r) = l
    /\ DOMAIN r = 1 .. l
    /\ \A k \in 1 .. l : r[k] = Entry(N, A, f[k])

(* It has an element for each variable, in the order of declaration.       *)
LEMMA RowSeq ==
    ASSUME NEW s, NEW n \in Nat, DOMAIN s = 1 .. n, NEW c, NEW N, NEW A
    PROVE  IsRow(Row(s, c, N, A), s, c, N, A,
                 Ascending(VarsWith(s, c)), Cardinality(VarsWith(s, c)))
<1> DEFINE V == VarsWith(s, c)
           f == Ascending(V)
           l == Cardinality(V)
           E == Entries(s, c, N, A)
           r == Row(s, c, N, A)
<1>1. V \in SUBSET (1 .. n)
  BY DEF VarsWith, Vars, Positions
<1>2. /\ l \in Nat /\ f \in [1 .. l -> V]
      /\ \A i, j \in 1 .. l : i < j <=> f[i] < f[j]
      /\ \A x \in V : \E i \in 1 .. l : f[i] = x
  <2> HIDE DEF V
  <2> QED
    BY <1>1, AscendingOnto
<1>3. r = [k \in 1 .. l |-> Entry(N, A, f[k])]
  BY DEF Row
<1>4. \A k \in 1 .. l : Entry(N, A, f[k]) \in E
  <2>1. \A k \in 1 .. l : f[k] \in V
    BY <1>2
  <2>2. E = {Entry(N, A, v) : v \in V}
    BY DEF Entries
  <2> HIDE DEF V, f, l, E
  <2> QED
    BY <2>1, <2>2
<1> HIDE DEF f, l, E, r, V
<1>5. r \in [1 .. l -> E]
  BY <1>3, <1>4
<1>6. r \in Seq(E) /\ Len(r) = l /\ DOMAIN r = 1 .. l
  <2>1. r \in Seq(E)
    BY <1>2, <1>5
  <2> QED
    BY <1>2, <1>5, <2>1
<1>7. \A k \in 1 .. l : r[k] = Entry(N, A, f[k])
  BY <1>3
<1> QED
  BY <1>1, <1>2, <1>6, <1>7 DEF f, l, E, r, V, IsRow

(* A row depends on the names and annotations of its variables only.       *)
SameOn(S, N, A, M, B) == \A v \in S : N[v] = M[v] /\ A[v] = B[v]

(* So equal ones give an equal row.                                        *)
LEMMA RowSame ==
    ASSUME NEW s, NEW n \in Nat, DOMAIN s = 1 .. n, NEW u, NEW c,
           VarsWith(u, c) = VarsWith(s, c), NEW N, NEW A, NEW M, NEW B,
           SameOn(VarsWith(s, c), N, A, M, B)
    PROVE  Row(u, c, M, B) = Row(s, c, N, A)
<1> DEFINE f == Ascending(VarsWith(s, c))
           l == Cardinality(VarsWith(s, c))
<1>1. f \in [1 .. l -> VarsWith(s, c)]
  BY RowSeq DEF IsRow
<1>2. \A k \in 1 .. l : f[k] \in VarsWith(s, c)
  <2> HIDE DEF f, l
  <2> QED
    BY <1>1
<1>3. \A k \in 1 .. l : Entry(N, A, f[k]) = Entry(M, B, f[k])
  <2> HIDE DEF f, l
  <2> QED
    BY <1>2 DEF Entry, SameOn
<1>4. Row(u, c, M, B) = [k \in 1 .. l |-> Entry(M, B, f[k])]
  BY DEF Row
<1>5. Row(s, c, N, A) = [k \in 1 .. l |-> Entry(N, A, f[k])]
  BY DEF Row
<1> HIDE DEF f, l
<1> QED
  BY <1>3, <1>4, <1>5

(* Annotations of the same variables.                                      *)
LEMMA BookSame ==
    ASSUME NEW s, NEW n \in Nat, DOMAIN s = 1 .. n, NEW m, NEW H, NEW N, NEW A, NEW B,
           Booked(m, H, s, N, A), \A v \in Vars(s) : A[v] = B[v]
    PROVE  Booked(m, H, s, N, B)
<1>1. ASSUME NEW c \in CodesDeclared(s) PROVE m[H[c]] = Row(s, c, N, B)
  <2>1. SameOn(VarsWith(s, c), N, A, N, B)
    BY DEF VarsWith, SameOn
  <2>2. Row(s, c, N, B) = Row(s, c, N, A)
    BY <2>1, RowSame
  <2> QED
    BY <2>2 DEF Booked
<1> QED
  BY <1>1 DEF Booked

(* An annotation more.                                                     *)
Extended(e, a) == [e EXCEPT !.attrs = Append(@, a)]

(* It extends what is recorded of the variable.                            *)
LEMMA EntryExtended ==
    ASSUME NEW N, NEW A, NEW B, NEW v, NEW a, B[v] = Append(A[v], a)
    PROVE  Extended(Entry(N, A, v), a) = Entry(N, B, v)
<1> DEFINE e == Entry(N, A, v)
           g == Extended(e, a)
<1>1. e.attrs = A[v] /\ e.name = N[v] /\ DOMAIN e = {"name", "attrs"}
  BY DEF Entry
<1> HIDE DEF e
<1>2. g = [f \in {"name", "attrs"} |-> IF f = "attrs" THEN Append(e.attrs, a) ELSE e[f]]
  BY <1>1 DEF Extended
<1>3. Append(e.attrs, a) = B[v]
  BY <1>1
<1> HIDE DEF g
<1>4. g = [name |-> N[v], attrs |-> B[v]]
  BY <1>1, <1>2, <1>3
<1>5. Entry(N, B, v) = [name |-> N[v], attrs |-> B[v]]
  BY DEF Entry
<1> QED
  BY <1>4, <1>5 DEF g, e

(* PushAttr gives an annotation to the last variable of a row.             *)
LEMMA BookPush ==
    ASSUME NEW s, NEW n \in Nat, DOMAIN s = 1 .. n, NEW m, NEW H, NEW N, NEW A, NEW B, NEW a,
           Booked(m, H, s, N, A), Apart(H, s),
           NEW v \in Vars(s), \A w \in Vars(s) : w <= v,
           B[v] = Append(A[v], a), \A w \in Vars(s) : w # v => B[w] = A[w]
    PROVE  Booked(PushAttr(m, H[s[v].code], a), H, s, N, B)
<1> DEFINE c == s[v].code
           h == H[c]
           p == PushAttr(m, h, a)
           f == Ascending(VarsWith(s, c))
           l == Cardinality(VarsWith(s, c))
           r == Row(s, c, N, A)
<1>1. c \in CodesDeclared(s) /\ v \in VarsWith(s, c)
  BY DEF CodesDeclared, VarsWith, Vars
<1>r. IsRow(r, s, c, N, A, f, l)
  <2> HIDE DEF c
  <2> QED
    BY RowSeq
<1>2. /\ l \in Nat /\ f \in [1 .. l -> VarsWith(s, c)]
      /\ \A i, j \in 1 .. l : i < j <=> f[i] < f[j]
      /\ \A x \in VarsWith(s, c) : \E i \in 1 .. l : f[i] = x
      /\ Len(r) = l /\ DOMAIN r = 1 .. l
      /\ \A k \in 1 .. l : r[k] = Entry(N, A, f[k])
  <2> HIDE DEF c, r, f, l
  <2> QED
    BY <1>r DEF IsRow
<1>3. \A w \in VarsWith(s, c) : w \in Vars(s) /\ w \in 1 .. n /\ w <= v
  BY DEF VarsWith, Vars, Positions
<1>4. DOMAIN m = {H[d] : d \in CodesDeclared(s)} /\ m[h] = r
      /\ \A d \in CodesDeclared(s) : m[H[d]] = Row(s, d, N, A)
  BY <1>1 DEF Booked
<1> HIDE DEF f, l, r, c
<1>5. l \in 1 .. l /\ f[l] = v /\ \A k \in 1 .. l : k # l => f[k] # v
  <2>1. PICK i \in 1 .. l : f[i] = v
    BY <1>1, <1>2
  <2>2. \A k \in 1 .. l : f[k] \in VarsWith(s, c) /\ f[k] \in 1 .. n /\ f[k] <= v
    BY <1>2, <1>3
  <2>3. i = l
    <3>1. l \in 1 .. l /\ i <= l
      BY <1>2, <2>1
    <3>2. ~(i < l)
      <4>1. i < l <=> f[i] < f[l]
        BY <1>2, <3>1
      <4>2. f[l] <= v /\ f[l] \in 1 .. n
        BY <2>2, <3>1
      <4>3. f[i] \in 1 .. n
        BY <2>2
      <4> QED
        BY <2>1, <4>1, <4>2, <4>3
    <3> QED
      BY <1>2, <3>1, <3>2
  <2>4. \A k \in 1 .. l : k # l => f[k] # v
    <3> SUFFICES ASSUME NEW k \in 1 .. l, k # l PROVE f[k] # v
      OBVIOUS
    <3>1. k < l
      BY <1>2
    <3>2. f[k] < f[l]
      BY <1>2, <2>1, <2>3, <3>1
    <3>3. f[k] \in 1 .. n /\ f[l] = v
      BY <2>1, <2>2, <2>3
    <3> QED
      BY <3>2, <3>3
  <2> QED
    BY <2>1, <2>3, <2>4
<1> DEFINE q == [r EXCEPT ![l].attrs = Append(@, a)]
<1>6. p = [m EXCEPT ![h] = q]
  BY <1>2, <1>4 DEF PushAttr
<1>7. q = Row(s, c, N, B)
  <2>1. DOMAIN q = 1 .. l /\ q = [k \in 1 .. l |-> q[k]]
    BY <1>2
  <2>2. ASSUME NEW k \in 1 .. l PROVE q[k] = Entry(N, B, f[k])
    <3>1. CASE k = l
      <4>1. q[k] = Extended(r[l], a)
        BY <1>2, <3>1 DEF Extended
      <4>2. r[l] = Entry(N, A, v)
        BY <1>2, <1>5
      <4>3. Extended(Entry(N, A, v), a) = Entry(N, B, v)
        BY EntryExtended
      <4>4. f[k] = v
        BY <1>5, <3>1
      <4>5. q[k] = Extended(Entry(N, A, v), a)
        BY <4>1, <4>2
      <4>6. Entry(N, B, f[k]) = Entry(N, B, v)
        BY <4>4
      <4> HIDE DEF q
      <4> QED
        BY <4>3, <4>5, <4>6
    <3>2. CASE k # l
      <4>1. q[k] = r[k]
        BY <1>2, <3>2
      <4>2. B[f[k]] = A[f[k]]
        BY <1>2, <1>3, <1>5, <3>2
      <4> QED
        BY <1>2, <4>1, <4>2 DEF Entry
    <3> QED
      BY <3>1, <3>2
  <2>3. Row(s, c, N, B) = [k \in 1 .. l |-> Entry(N, B, f[k])]
    BY DEF Row, l, f
  <2> HIDE DEF q
  <2> QED
    BY <2>1, <2>2, <2>3
<1> HIDE DEF q
<1>8. DOMAIN p = DOMAIN m
  BY <1>6
<1>9. ASSUME NEW d \in CodesDeclared(s) PROVE p[H[d]] = Row(s, d, N, B)
  <2>1. H[d] \in DOMAIN m
    BY <1>4
  <2>2. CASE d = c
    BY <1>6, <1>7, <2>1, <2>2
  <2>3. CASE d # c
    <3>1. H[d] # h
      BY <1>1, <2>3 DEF Apart
    <3>2. p[H[d]] = Row(s, d, N, A)
      BY <1>4, <1>6, <2>1, <3>1
    <3>3. SameOn(VarsWith(s, d), N, A, N, B)
      <4>1. v \notin VarsWith(s, d)
        BY <2>3 DEF VarsWith, c
      <4>2. \A w \in VarsWith(s, d) : w \in Vars(s) /\ w # v
        BY <4>1 DEF VarsWith
      <4> QED
        BY <4>2 DEF SameOn
    <3>4. Row(s, d, N, B) = Row(s, d, N, A)
      BY <3>3, RowSame
    <3> QED
      BY <3>2, <3>4
  <2> QED
    BY <2>2, <2>3
<1> HIDE DEF p
<1>10. Booked(p, H, s, N, B)
  BY <1>4, <1>8, <1>9 DEF Booked
<1> QED
  BY <1>10 DEF p, h, c

(* Flushing pushes the pending annotations one after the other.            *)
POp(with, acc, x) == PushAttr(acc, with, x)
PushX == INSTANCE DataProofs WITH Op <- POp

(* So what flushing does goes by the steps of a fold.                      *)
LEMMA FlushIsFold ==
    ASSUME NEW m, NEW h, h # None, NEW pend
    PROVE  Flushed(m, h, pend) = PushX!Fold(h, m, pend)
BY DEF Flushed, PushX!Fold, POp, FoldLeft, PushX!FoldLeft, MapThenFoldSet, PushX!MapThenFoldSet,
       Max, PushX!Max

(* A sequence and more and more of another one.                            *)
LEMMA JoinPush ==
    ASSUME NEW X, NEW f \in Seq(X), NEW g \in Seq(X)
    PROVE  /\ f \o SubSeq(g, 1, 0) = f
           /\ f \o SubSeq(g, 1, Len(g)) = f \o g
           /\ \A k \in 1 .. Len(g) :
                f \o SubSeq(g, 1, k) = Append(f \o SubSeq(g, 1, k - 1), g[k])
<1>1. Len(g) \in Nat /\ DOMAIN g = 1 .. Len(g) /\ Len(f) \in Nat
  OBVIOUS
<1>2. SubSeq(g, 1, 0) = <<>>
  OBVIOUS
<1>3. f \o <<>> = f
  OBVIOUS
<1>4. SubSeq(g, 1, Len(g)) = g
  OBVIOUS
<1>5. ASSUME NEW k \in 1 .. Len(g)
      PROVE  f \o SubSeq(g, 1, k) = Append(f \o SubSeq(g, 1, k - 1), g[k])
  <2> DEFINE a == SubSeq(g, 1, k)
             b == SubSeq(g, 1, k - 1)
  <2>1. /\ a \in Seq(X) /\ Len(a) = k /\ \A i \in 1 .. k : a[i] = g[i]
        /\ b \in Seq(X) /\ Len(b) = k - 1 /\ \A i \in 1 .. k - 1 : b[i] = g[i]
        /\ k \in Nat /\ k - 1 \in Nat
    BY <1>1
  <2>2. g[k] \in X
    BY <1>1
  <2> HIDE DEF a, b
  <2>3. a = Append(b, g[k])
    <3> DEFINE c == Append(b, g[k])
    <3>1. c \in Seq(X) /\ Len(c) = k /\ \A i \in 1 .. k : c[i] = a[i]
      BY <2>1, <2>2
    <3> HIDE DEF c
    <3>2. c = a
      BY <2>1, <3>1
    <3> QED
      BY <3>2 DEF c
  <2>4. f \o Append(b, g[k]) = Append(f \o b, g[k])
    BY <2>1, <2>2
  <2> QED
    BY <2>3, <2>4 DEF a, b
<1> QED
  BY <1>2, <1>3, <1>4, <1>5

(* What is pending goes to the last variable, after what it has.           *)
LEMMA BookFlush ==
    ASSUME NEW s, NEW n \in Nat, DOMAIN s = 1 .. n, NEW m, NEW H, NEW N, NEW A, NEW B, NEW X,
           Booked(m, H, s, N, A), Apart(H, s), NEW v \in Vars(s), \A w \in Vars(s) : w <= v,
           NEW pend \in Seq(X), A[v] \in Seq(X), B[v] = A[v] \o pend,
           \A w \in Vars(s) : w # v => B[w] = A[w], H[s[v].code] # None
    PROVE  Booked(Flushed(m, H[s[v].code], pend), H, s, N, B)
<1> DEFINE h == H[s[v].code]
           l == Len(pend)
           f == A[v]
           C(k) == [w \in Vars(s) |-> IF w = v THEN f \o SubSeq(pend, 1, k) ELSE A[w]]
<1>1. l \in Nat /\ DOMAIN pend = 1 .. l
  OBVIOUS
<1>2. PICK acc : PushX!FoldedBy(acc, h, m, pend, l)
  <2> HIDE DEF l
  <2> QED
    BY <1>1, PushX!FoldSteps
<1>3. /\ acc[0] = m
      /\ \A k \in 1 .. l : acc[k] = PushAttr(acc[k - 1], h, pend[k])
      /\ Flushed(m, h, pend) = acc[l]
  BY <1>2, FlushIsFold DEF PushX!FoldedBy, POp
<1>4. /\ f \o SubSeq(pend, 1, 0) = f
      /\ f \o SubSeq(pend, 1, l) = f \o pend
      /\ \A k \in 1 .. l : f \o SubSeq(pend, 1, k) = Append(f \o SubSeq(pend, 1, k - 1), pend[k])
  <2>1. f \in Seq(X)
    OBVIOUS
  <2> HIDE DEF f, C, h
  <2>2. /\ f \o SubSeq(pend, 1, 0) = f
        /\ f \o SubSeq(pend, 1, Len(pend)) = f \o pend
    BY <2>1, JoinPush
  <2>3. \A k \in 1 .. Len(pend) :
          f \o SubSeq(pend, 1, k) = Append(f \o SubSeq(pend, 1, k - 1), pend[k])
    BY <2>1, JoinPush
  <2> QED
    BY <2>2, <2>3
<1>5. \A k, w : w \in Vars(s) => C(k)[w] = IF w = v THEN f \o SubSeq(pend, 1, k) ELSE A[w]
  OBVIOUS
<1> HIDE DEF h, l, f, C
<1> DEFINE T == {k \in 0 .. l : Booked(acc[k], H, s, N, C(k))}
<1>6. 0 \in T
  <2>1. \A w \in Vars(s) : A[w] = C(0)[w]
    BY <1>4, <1>5 DEF f
  <2>2. Booked(m, H, s, N, C(0))
    BY <2>1, BookSame
  <2> QED
    BY <1>1, <1>3, <2>2
<1>7. ASSUME NEW k \in 1 .. l, k - 1 \in T PROVE k \in T
  <2>1. C(k)[v] = Append(C(k - 1)[v], pend[k])
    BY <1>4, <1>5
  <2>2. \A w \in Vars(s) : w # v => C(k)[w] = C(k - 1)[w]
    BY <1>5
  <2>3. Booked(acc[k - 1], H, s, N, C(k - 1))
    BY <1>7
  <2>4. Booked(PushAttr(acc[k - 1], h, pend[k]), H, s, N, C(k))
    <3> DEFINE before == C(k - 1)
               after == C(k)
               x == pend[k]
               a == acc[k - 1]
    <3>1. /\ after[v] = Append(before[v], x)
          /\ \A w \in Vars(s) : w # v => after[w] = before[w]
          /\ Booked(a, H, s, N, before)
      BY <2>1, <2>2, <2>3
    <3> HIDE DEF before, after, x, a
    <3>2. Booked(PushAttr(a, H[s[v].code], x), H, s, N, after)
      BY <3>1, BookPush
    <3> QED
      BY <3>2 DEF h, before, after, x, a
  <2> QED
    BY <1>1, <1>3, <2>4
<1>8. l \in T
  <2>1. \A k \in 0 .. l : k \in T
    <3> HIDE DEF T
    <3> QED
      BY <1>1, <1>6, <1>7, UpTo
  <2> QED
    BY <1>1, <2>1
<1>9. \A w \in Vars(s) : C(l)[w] = B[w]
  BY <1>4, <1>5 DEF f
<1>10. Booked(acc[l], H, s, N, C(l))
  BY <1>8
<1>11. Booked(acc[l], H, s, N, B)
  BY <1>9, <1>10, BookSame
<1> QED
  BY <1>3, <1>11 DEF h

(* An entry that is no variable leaves the variables as they are.          *)
LEMMA BookLonger ==
    ASSUME NEW s, NEW u, NEW e, NEW n, Longer(s, u, e, n), e.kind # "var"
    PROVE  /\ Vars(u) = Vars(s) /\ CodesDeclared(u) = CodesDeclared(s)
           /\ \A c : VarsWith(u, c) = VarsWith(s, c)
           /\ \A v \in Vars(s) : v \in 1 .. n /\ u[v] = s[v]
           /\ \A m, H, N, A : Booked(m, H, s, N, A) <=> Booked(m, H, u, N, A)
<1>1. Vars(u) = Vars(s) /\ Vars(s) \subseteq 1 .. n
  BY PositionsLonger DEF Vars
<1>2. \A v \in Vars(s) : v \in 1 .. n /\ u[v] = s[v]
  BY <1>1 DEF Longer
<1>3. CodesDeclared(u) = CodesDeclared(s)
  <2>1. \A c : c \in CodesDeclared(u) <=> c \in CodesDeclared(s)
    BY <1>1, <1>2 DEF CodesDeclared, Vars
  <2> QED
    BY <2>1
<1>4. ASSUME NEW c PROVE VarsWith(u, c) = VarsWith(s, c)
  <2>1. \A v : v \in VarsWith(u, c) <=> v \in VarsWith(s, c)
    BY <1>1, <1>2 DEF VarsWith
  <2> QED
    BY <2>1
<1>5. ASSUME NEW c, NEW N, NEW A PROVE Row(u, c, N, A) = Row(s, c, N, A)
  BY <1>4 DEF Row
<1>6. ASSUME NEW m, NEW H, NEW N, NEW A
      PROVE  Booked(m, H, s, N, A) <=> Booked(m, H, u, N, A)
  BY <1>3, <1>5 DEF Booked
<1> QED
  BY <1>1, <1>2, <1>3, <1>4, <1>6

(* A new variable comes last in the row of its code.                       *)
LEMMA RowAppend ==
    ASSUME NEW s, NEW u, NEW e, NEW n, Longer(s, u, e, n), NEW c,
           VarsWith(u, c) = VarsWith(s, c) \cup {n + 1}, NEW N, NEW A, NEW M, NEW B,
           SameOn(VarsWith(s, c), N, A, M, B)
    PROVE  Row(u, c, M, B) = Append(Row(s, c, N, A), Entry(M, B, n + 1))
<1> DEFINE V == VarsWith(s, c)
           l == Cardinality(V)
           f == Ascending(V)
           g == Ascending(V \cup {n + 1})
           r == Row(s, c, N, A)
           x == Entry(M, B, n + 1)
           E == Entries(s, c, N, A)
           q == Append(r, x)
<1>1. DOMAIN s = 1 .. n /\ n \in Nat
  BY DEF Longer
<1>2. /\ l \in Nat /\ f \in [1 .. l -> V]
      /\ r \in Seq(E) /\ Len(r) = l
      /\ \A k \in 1 .. l : r[k] = Entry(N, A, f[k])
  <2>1. IsRow(r, s, c, N, A, f, l)
    BY <1>1, RowSeq
  <2> HIDE DEF r, f, l, E
  <2> QED
    BY <2>1 DEF IsRow, E
<1>3. V \in SUBSET (1 .. n)
  BY <1>1 DEF VarsWith, Vars, Positions
<1>4. /\ Cardinality(V \cup {n + 1}) = l + 1
      /\ \A k \in 1 .. l : g[k] = f[k]
      /\ g[l + 1] = n + 1
  <2> HIDE DEF V
  <2> QED
    BY <1>1, <1>3, AscendingPush
<1>5. Row(u, c, M, B) = [k \in 1 .. l + 1 |-> Entry(M, B, g[k])]
  BY <1>4 DEF Row
<1>6. SameOn(V, N, A, M, B)
  OBVIOUS
<1> HIDE DEF V, l, f, g, r, x, E, q
<1>7. \A k \in 1 .. l : Entry(M, B, g[k]) = r[k]
  <2> SUFFICES ASSUME NEW k \in 1 .. l PROVE Entry(M, B, g[k]) = r[k]
    OBVIOUS
  <2>1. f[k] \in V /\ g[k] = f[k] /\ r[k] = Entry(N, A, f[k])
    BY <1>2, <1>4
  <2> QED
    BY <1>6, <2>1 DEF SameOn, Entry
<1>8. Entry(M, B, g[l + 1]) = x
  BY <1>4 DEF x
<1>9. /\ q \in Seq(E \cup {x}) /\ Len(q) = l + 1 /\ q[l + 1] = x
      /\ \A k \in 1 .. l : q[k] = r[k]
  <2>1. r \in Seq(E \cup {x})
    BY <1>2
  <2> QED
    BY <1>2, <2>1 DEF q
<1>10. q = [k \in 1 .. l + 1 |-> q[k]]
  BY <1>9
<1>11. \A k \in 1 .. l + 1 : q[k] = Entry(M, B, g[k])
  <2> SUFFICES ASSUME NEW k \in 1 .. l + 1 PROVE q[k] = Entry(M, B, g[k])
    OBVIOUS
  <2>1. k = l + 1 \/ k \in 1 .. l
    BY <1>2
  <2> QED
    BY <1>7, <1>8, <1>9, <2>1
<1>12. q = [k \in 1 .. l + 1 |-> Entry(M, B, g[k])]
  BY <1>10, <1>11
<1> QED
  BY <1>5, <1>12 DEF q, r, x

(* The variables after a new one.                                          *)
LEMMA VarsNext ==
    ASSUME NEW s, NEW u, NEW e, NEW n, Longer(s, u, e, n), e.kind = "var"
    PROVE  /\ Vars(u) = Vars(s) \cup {n + 1}
           /\ \A v \in Vars(s) : v \in 1 .. n /\ u[v] = s[v]
           /\ CodesDeclared(u) = CodesDeclared(s) \cup {e.code}
           /\ VarsWith(u, e.code) = VarsWith(s, e.code) \cup {n + 1}
           /\ \A c : c # e.code => VarsWith(u, c) = VarsWith(s, c)
           /\ e.code \notin CodesDeclared(s) => VarsWith(s, e.code) = {}
<1>1. Vars(u) = Vars(s) \cup {n + 1} /\ Vars(s) \subseteq 1 .. n
  BY PositionsLonger DEF Vars
<1>2. (\A v \in Vars(s) : v \in 1 .. n /\ u[v] = s[v]) /\ u[n + 1] = e /\ n \in Nat
  BY <1>1 DEF Longer
<1>3. CodesDeclared(s) = {s[v].code : v \in Vars(s)} /\ CodesDeclared(u) = {u[v].code : v \in Vars(u)}
  BY DEF CodesDeclared, Vars
<1>4. CodesDeclared(u) = CodesDeclared(s) \cup {e.code}
  <2>1. \A c : c \in CodesDeclared(u) <=> c \in CodesDeclared(s) \cup {e.code}
    BY <1>1, <1>2, <1>3
  <2> QED
    BY <2>1
<1>5. VarsWith(u, e.code) = VarsWith(s, e.code) \cup {n + 1}
  <2>1. \A v : v \in VarsWith(u, e.code) <=> v \in VarsWith(s, e.code) \cup {n + 1}
    BY <1>1, <1>2 DEF VarsWith
  <2> QED
    BY <2>1
<1>6. ASSUME NEW c, c # e.code PROVE VarsWith(u, c) = VarsWith(s, c)
  <2>1. \A v : v \in VarsWith(u, c) <=> v \in VarsWith(s, c)
    BY <1>1, <1>2, <1>6 DEF VarsWith
  <2> QED
    BY <2>1
<1>7. e.code \notin CodesDeclared(s) => VarsWith(s, e.code) = {}
  BY <1>3 DEF VarsWith
<1> QED
  BY <1>1, <1>2, <1>4, <1>5, <1>6, <1>7

(* WithVar enters a variable under a handle, that of its code.             *)
LEMMA BookVar ==
    ASSUME NEW s, NEW u, NEW e, NEW n, Longer(s, u, e, n), e.kind = "var",
           NEW m, NEW H, NEW N, NEW A, Booked(m, H, s, N, A),
           NEW G, Apart(G, u), \A c \in CodesDeclared(s) : G[c] = H[c],
           NEW M, NEW B, SameOn(Vars(s), N, A, M, B), B[n + 1] = <<>>
    PROVE  Booked(WithVar(m, G[e.code], M[n + 1]), G, u, M, B)
<1> DEFINE c == e.code
           h == G[c]
           row == VarsOf(m, h)
           p == WithVar(m, h, M[n + 1])
<1>1. /\ VarsWith(u, c) = VarsWith(s, c) \cup {n + 1}
      /\ CodesDeclared(u) = CodesDeclared(s) \cup {c}
      /\ \A d : d # c => VarsWith(u, d) = VarsWith(s, d)
      /\ c \notin CodesDeclared(s) => VarsWith(s, c) = {}
  BY VarsNext
<1>0. DOMAIN s = 1 .. n /\ n \in Nat
  BY DEF Longer
<1>2. DOMAIN m = {G[d] : d \in CodesDeclared(s)}
      /\ \A d \in CodesDeclared(s) : m[G[d]] = Row(s, d, N, A)
  BY DEF Booked
<1>3. row = Row(s, c, N, A)
  <2>1. CASE c \in CodesDeclared(s)
    BY <1>2, <2>1 DEF VarsOf
  <2>2. CASE c \notin CodesDeclared(s)
    <3>1. h \notin DOMAIN m
      <4>1. \A d \in CodesDeclared(s) : d \in CodesDeclared(u) /\ d # c
        BY <1>1, <2>2
      <4>2. c \in CodesDeclared(u)
        BY <1>1
      <4>3. \A d \in CodesDeclared(s) : G[d] # h
        BY <4>1, <4>2 DEF Apart
      <4> QED
        BY <1>2, <4>3
    <3>2. row = <<>>
      BY <3>1 DEF VarsOf
    <3>3. Row(s, c, N, A) = <<>>
      <4> DEFINE r == Row(s, c, N, A)
                 l == Cardinality(VarsWith(s, c))
                 E == Entries(s, c, N, A)
      <4>1. r \in Seq(E) /\ Len(r) = l
        BY <1>0, RowSeq DEF IsRow
      <4>2. l = 0
        BY <1>1, <2>2, FS_EmptySet
      <4> HIDE DEF r, l, E
      <4>3. r = <<>>
        BY <4>1, <4>2
      <4> QED
        BY <4>3 DEF r
    <3> QED
      BY <3>2, <3>3
  <2> QED
    BY <2>1, <2>2
<1>4. Row(u, c, M, B) = Append(row, [name |-> M[n + 1], attrs |-> <<>>])
  <2>1. SameOn(VarsWith(s, c), N, A, M, B)
    BY DEF SameOn, VarsWith
  <2>2. Row(u, c, M, B) = Append(Row(s, c, N, A), Entry(M, B, n + 1))
    <3> HIDE DEF c
    <3> QED
      BY <1>1, <2>1, RowAppend
  <2>3. Entry(M, B, n + 1) = [name |-> M[n + 1], attrs |-> <<>>]
    BY DEF Entry
  <2> QED
    BY <1>3, <2>2, <2>3
<1>5. p = [k \in DOMAIN m \cup {h} |-> IF k = h THEN Row(u, c, M, B) ELSE m[k]]
  BY <1>4 DEF WithVar, Bind
<1> HIDE DEF row, p
<1>6. DOMAIN p = {G[d] : d \in CodesDeclared(u)}
  <2>1. \A k : k \in {G[d] : d \in CodesDeclared(u)} <=> k \in DOMAIN m \cup {h}
    BY <1>1, <1>2
  <2> QED
    BY <1>5, <2>1
<1>7. ASSUME NEW d \in CodesDeclared(u) PROVE p[G[d]] = Row(u, d, M, B)
  <2>1. CASE d = c
    BY <1>5, <2>1
  <2>2. CASE d # c
    <3>1. d \in CodesDeclared(s) /\ c \in CodesDeclared(u)
      BY <1>1, <2>2
    <3>2. G[d] # h /\ G[d] \in DOMAIN m
      BY <1>2, <2>2, <3>1 DEF Apart
    <3>3. p[G[d]] = Row(s, d, N, A)
      BY <1>2, <1>5, <3>1, <3>2
    <3>4. SameOn(VarsWith(s, d), N, A, M, B)
      BY DEF SameOn, VarsWith
    <3>5. VarsWith(u, d) = VarsWith(s, d)
      BY <1>1, <2>2
    <3>6. Row(u, d, M, B) = Row(s, d, N, A)
      BY <1>0, <3>4, <3>5, RowSame
    <3> QED
      BY <3>3, <3>6
  <2> QED
    BY <2>1, <2>2
<1>8. Booked(p, G, u, M, B)
  BY <1>6, <1>7 DEF Booked
<1> QED
  BY <1>8 DEF p

-----------------------------------------------------------------------------
(* The book after one more entry, of every kind.                           *)

(* What the variables have been given, and what they are declared to have. *)
Given(s, kinds) == [v \in Vars(s) |-> AttrsTaken(s, kinds, v)]
Declared(s, kinds) == [v \in Vars(s) |-> AttrsDeclared(s, kinds, v)]

(* The handle that the next annotation goes to.                            *)
LastOf(H, s) ==
    IF Owner(s, Len(s) + 1) = 0 THEN None ELSE H[s[Owner(s, Len(s) + 1)].code]

Handles(H, s) == Apart(H, s) /\ \A c \in CodesDeclared(s) : H[c] # None

(* The last variable, if there is one.                                     *)
LEMMA OwnerLast ==
    ASSUME NEW s, NEW n \in Nat, DOMAIN s = 1 .. n, Len(s) = n, NEW H, Handles(H, s)
    PROVE  LET o == Owner(s, n + 1)
           IN  /\ o = 0 <=> LastOf(H, s) = None
               /\ o # 0 => /\ o \in Vars(s) /\ \A w \in Vars(s) : w <= o
                           /\ LastOf(H, s) = H[s[o].code]
               /\ \A w \in Vars(s) : w \in 1 .. n /\ w # 0
<1> DEFINE o == Owner(s, n + 1)
<1>1. Vars(s) \subseteq 1 .. n
  BY DEF Vars, Positions
<1>2. o = 0 \/ (o \in Vars(s) /\ \A w \in Vars(s) : w < n + 1 => w <= o)
  <2>1. n + 1 \in 1 .. n + 1
    OBVIOUS
  <2> QED
    BY <2>1, OwnerIs DEF Vars
<1>3. \A w \in Vars(s) : w \in 1 .. n /\ w < n + 1 /\ w # 0
  BY <1>1
<1>4. LastOf(H, s) = IF o = 0 THEN None ELSE H[s[o].code]
  BY DEF LastOf
<1>5. o \in Vars(s) => H[s[o].code] # None
  BY DEF Handles, CodesDeclared, Vars
<1> QED
  BY <1>2, <1>3, <1>4, <1>5

(* Flushing gives every variable what it is declared to have.              *)
LEMMA AllFlushed ==
    ASSUME NEW s, NEW n \in Nat, DOMAIN s = 1 .. n, Len(s) = n, NEW kinds, AreKinds(kinds),
           NEW m, NEW H, NEW N, Booked(m, H, s, N, Given(s, kinds)), Handles(H, s)
    PROVE  Booked(Flushed(m, LastOf(H, s), Pending(s)), H, s, N, Declared(s, kinds))
<1> DEFINE o == Owner(s, n + 1)
           A == Given(s, kinds)
           B == Declared(s, kinds)
           p == Pending(s)
<1>1. /\ o = 0 <=> LastOf(H, s) = None
      /\ o # 0 => /\ o \in Vars(s) /\ \A w \in Vars(s) : w <= o
                  /\ LastOf(H, s) = H[s[o].code]
      /\ \A w \in Vars(s) : w \in 1 .. n /\ w # 0
  BY OwnerLast
<1>2. \A v \in Vars(s) : A[v] = AttrsTaken(s, kinds, v) /\ B[v] = AttrsDeclared(s, kinds, v)
  BY DEF Given, Declared
<1>3. \A v \in Vars(s) : IF v = o THEN B[v] = A[v] \o p ELSE B[v] = A[v]
  <2> SUFFICES ASSUME NEW v \in Vars(s) PROVE IF v = o THEN B[v] = A[v] \o p ELSE B[v] = A[v]
    OBVIOUS
  <2>1. v \in 1 .. n
    BY <1>1
  <2>2. /\ v = o => AttrsDeclared(s, kinds, v) = AttrsTaken(s, kinds, v) \o p
        /\ v # o => AttrsDeclared(s, kinds, v) = AttrsTaken(s, kinds, v)
    BY <2>1, AttrsFlushed
  <2> HIDE DEF A, B, o, p
  <2> QED
    BY <1>2, <2>2
<1>4. \A v \in Vars(s) : A[v] \in Seq(Attrs(s, n))
  <2> SUFFICES ASSUME NEW v \in Vars(s) PROVE AttrsTaken(s, kinds, v) \in Seq(Attrs(s, n))
    BY <1>2
  <2>1. Taken(s, kinds, v) \in SUBSET (1 .. n)
    BY AttachedRange
  <2> QED
    BY <2>1, ListedSeq DEF AttrsTaken
<1>5. p \in Seq(Attrs(s, n))
  <2>1. Waiting(s) \in SUBSET (1 .. n)
    BY AttachedRange
  <2> QED
    BY <2>1, ListedSeq DEF Pending
<1>6. Booked(m, H, s, N, A) /\ Apart(H, s) /\ \A c \in CodesDeclared(s) : H[c] # None
  BY DEF Handles
<1> HIDE DEF A, B, o, p
<1>7. CASE o = 0
  <2>1. Flushed(m, LastOf(H, s), p) = m
    BY <1>1, <1>7 DEF Flushed
  <2>2. \A v \in Vars(s) : A[v] = B[v]
    BY <1>1, <1>3, <1>7
  <2>3. Booked(m, H, s, N, B)
    BY <1>6, <2>2, BookSame
  <2> QED
    BY <2>1, <2>3 DEF B, p
<1>8. CASE o # 0
  <2>1. o \in Vars(s) /\ (\A w \in Vars(s) : w <= o) /\ LastOf(H, s) = H[s[o].code]
    BY <1>1, <1>8
  <2>2. H[s[o].code] # None
    BY <1>1, <1>8
  <2>3. A[o] \in Seq(Attrs(s, n)) /\ B[o] = A[o] \o p
        /\ \A w \in Vars(s) : w # o => B[w] = A[w]
    BY <1>3, <1>4, <2>1
  <2>4. Booked(Flushed(m, H[s[o].code], p), H, s, N, B)
    BY <1>5, <1>6, <2>1, <2>2, <2>3, BookFlush
  <2> QED
    BY <2>1, <2>4 DEF B, p
<1> QED
  BY <1>7, <1>8

(* What an entry that settles nothing adds: an annotation of the last      *)
(* variable, if the format knows it.                                       *)
Marked(m, latest, u, e, n, kinds, o) ==
    IF latest # None /\ e.kind # "struct" /\ n + 1 \in Attached(u, kinds, o)
    THEN PushAttr(m, latest, AttrAt(u, n + 1))
    ELSE m

(* And it is entered in the book.                                          *)
LEMMA BookMarked ==
    ASSUME NEW s, NEW u, NEW e, NEW n, Longer(s, u, e, n), NEW kinds, AreKinds(kinds),
           e.kind \notin {"up", "var", "close"},
           NEW m, NEW H, NEW N, Booked(m, H, s, N, Given(s, kinds)), Handles(H, s)
    PROVE  Booked(Marked(m, LastOf(H, s), u, e, n, kinds, Owner(s, n + 1)), H, u, N, Given(u, kinds))
<1> DEFINE o == Owner(s, n + 1)
           A == Given(s, kinds)
           B == Given(u, kinds)
           latest == LastOf(H, s)
           more == e.kind # "struct" /\ n + 1 \in Attached(u, kinds, o)
<1>0. DOMAIN s = 1 .. n /\ n \in Nat /\ Len(s) = n
  BY DEF Longer
<1>1. /\ o = 0 <=> latest = None
      /\ o # 0 => /\ o \in Vars(s) /\ \A w \in Vars(s) : w <= o
                  /\ latest = H[s[o].code]
      /\ \A w \in Vars(s) : w \in 1 .. n /\ w # 0
  BY <1>0, OwnerLast
<1>2. Vars(u) = Vars(s) /\ \A x, y, z, a : Booked(x, y, s, z, a) <=> Booked(x, y, u, z, a)
  BY BookLonger
<1>3. \A v \in Vars(s) : A[v] = AttrsTaken(s, kinds, v) /\ B[v] = AttrsTaken(u, kinds, v)
  BY <1>2 DEF Given
<1>4. ASSUME NEW v \in Vars(s)
      PROVE  B[v] = IF v = o /\ more THEN Append(A[v], AttrAt(u, n + 1)) ELSE A[v]
  <2>1. AttrsTaken(u, kinds, v) =
          IF e.kind # "struct" /\ n + 1 \in Attached(u, kinds, v)
          THEN Append(AttrsTaken(s, kinds, v), AttrAt(u, n + 1))
          ELSE AttrsTaken(s, kinds, v)
    BY AttrsNext
  <2>2. n + 1 \in Attached(u, kinds, v) => o = v
    BY AttachedNew
  <2> HIDE DEF A, B, o
  <2> QED
    BY <1>3, <2>1, <2>2
<1>5. Booked(m, H, s, N, A) /\ Apart(H, s)
  BY DEF Handles
<1> HIDE DEF A, B, o, latest, more
<1>6. CASE latest # None /\ more
  <2>1. o \in Vars(s) /\ (\A w \in Vars(s) : w <= o) /\ latest = H[s[o].code]
    BY <1>1, <1>6
  <2>2. B[o] = Append(A[o], AttrAt(u, n + 1)) /\ \A w \in Vars(s) : w # o => B[w] = A[w]
    BY <1>4, <1>6, <2>1
  <2>3. Booked(PushAttr(m, H[s[o].code], AttrAt(u, n + 1)), H, s, N, B)
    BY <1>0, <1>5, <2>1, <2>2, BookPush
  <2>4. Marked(m, latest, u, e, n, kinds, o) = PushAttr(m, H[s[o].code], AttrAt(u, n + 1))
    BY <1>6, <2>1 DEF Marked, more
  <2> QED
    BY <1>2, <2>3, <2>4 DEF B, latest, o
<1>7. CASE ~(latest # None /\ more)
  <2>1. \A v \in Vars(s) : A[v] = B[v]
    BY <1>1, <1>4, <1>7
  <2>2. Booked(m, H, s, N, B)
    BY <1>0, <1>5, <2>1, BookSame
  <2>3. Marked(m, latest, u, e, n, kinds, o) = m
    BY <1>7 DEF Marked, more
  <2> QED
    BY <1>2, <2>2, <2>3 DEF B, latest, o
<1> QED
  BY <1>6, <1>7

(* An entry that settles annotations, and declares nothing itself.         *)
LEMMA BookSettled ==
    ASSUME NEW s, NEW u, NEW e, NEW n, Longer(s, u, e, n), NEW kinds, AreKinds(kinds),
           e.kind \in {"up", "close"},
           NEW m, NEW H, NEW N, Booked(m, H, s, N, Given(s, kinds)), Handles(H, s)
    PROVE  Booked(Flushed(m, LastOf(H, s), Pending(s)), H, u, N, Given(u, kinds))
<1> DEFINE f == Flushed(m, LastOf(H, s), Pending(s))
<1>0. DOMAIN s = 1 .. n /\ n \in Nat /\ Len(s) = n
  BY DEF Longer
<1>1. Booked(f, H, s, N, Declared(s, kinds))
  BY <1>0, AllFlushed
<1>2. Vars(u) = Vars(s) /\ \A x, y, z, a : Booked(x, y, s, z, a) <=> Booked(x, y, u, z, a)
  BY BookLonger
<1>3. \A v \in Vars(s) : Declared(s, kinds)[v] = Given(u, kinds)[v]
  <2> SUFFICES ASSUME NEW v \in Vars(s)
               PROVE  AttrsDeclared(s, kinds, v) = AttrsTaken(u, kinds, v)
    BY <1>2 DEF Declared, Given
  <2> QED
    BY AttrsNext
<1> HIDE DEF f
<1>4. Booked(f, H, s, N, Given(u, kinds))
  BY <1>0, <1>1, <1>3, BookSame
<1> QED
  BY <1>2, <1>4 DEF f

(* A variable settles them too, and is entered without any.                *)
LEMMA BookEntered ==
    ASSUME NEW s, NEW u, NEW e, NEW n, Longer(s, u, e, n), NEW kinds, AreKinds(kinds),
           e.kind = "var",
           NEW m, NEW H, NEW N, Booked(m, H, s, N, Given(s, kinds)), Handles(H, s),
           NEW G, Apart(G, u), \A c \in CodesDeclared(s) : G[c] = H[c],
           NEW M, \A v \in Vars(s) : M[v] = N[v]
    PROVE  Booked(WithVar(Flushed(m, LastOf(H, s), Pending(s)), G[e.code], M[n + 1]),
                  G, u, M, Given(u, kinds))
<1> DEFINE f == Flushed(m, LastOf(H, s), Pending(s))
           A == Declared(s, kinds)
           B == Given(u, kinds)
<1>0. DOMAIN s = 1 .. n /\ n \in Nat /\ Len(s) = n
  BY DEF Longer
<1>1. Booked(f, H, s, N, A)
  BY <1>0, AllFlushed
<1>2. Vars(u) = Vars(s) \cup {n + 1}
  BY VarsNext
<1>3. \A v \in Vars(s) : A[v] = B[v]
  <2> SUFFICES ASSUME NEW v \in Vars(s)
               PROVE  AttrsDeclared(s, kinds, v) = AttrsTaken(u, kinds, v)
    BY <1>2 DEF Declared, Given
  <2> QED
    BY AttrsNext
<1>4. B[n + 1] = <<>>
  BY <1>2, AttrsFirst DEF Given
<1> HIDE DEF f, A, B
<1>5. SameOn(Vars(s), N, A, M, B)
  BY <1>3 DEF SameOn
<1>6. Booked(WithVar(f, G[e.code], M[n + 1]), G, u, M, B)
  BY <1>1, <1>4, <1>5, BookVar
<1> QED
  BY <1>6 DEF f, B

(* The names in the book lead to their paths P in the tree t.              *)
Named(N, t, P, s) == \A v \in Vars(s) : N[v] \in Ids(t) /\ Segments(t, N[v]) = P[v]

Kept(m, t, H, s, A, P) == \E N : Booked(m, H, s, N, A) /\ Named(N, t, P, s)

(* A tree that still has all ids, and their paths.                         *)
Grown(t, w) == Ids(t) \subseteq Ids(w) /\ \A id \in Ids(t) : Segments(w, id) = Segments(t, id)

Fits(P, Q, s) == \A v \in Vars(s) : Q[v] = P[v]

(* Names keep leading to their paths while the tree grows.                 *)
LEMMA NamedGrown ==
    ASSUME NEW N, NEW t, NEW P, NEW s, Named(N, t, P, s), NEW w, Grown(t, w),
           NEW Q, NEW u, Vars(u) = Vars(s), Fits(P, Q, s)
    PROVE  Named(N, w, Q, u)
BY DEF Named, Grown, Fits

(* What a reader knows after the entries s: the book, the last handle, the *)
(* annotations that wait, the enum tables.                                 *)
Good(m, t, tabs, latest, pend, H, s, kinds, P) ==
    /\ Kept(m, t, H, s, Given(s, kinds), P)
    /\ Handles(H, s)
    /\ latest = LastOf(H, s)
    /\ pend = Pending(s)
    /\ TablesOf(tabs, s)

(* Before the first entry.                                                 *)
LEMMA GoodStart ==
    ASSUME NEW s, s = <<>>, NEW t, NEW H, NEW kinds, NEW P
    PROVE  Good(Nothing, t, Nothing, None, <<>>, H, s, kinds, P)
<1>1. DOMAIN s = 1 .. 0 /\ Len(s) = 0 /\ DOMAIN s = {}
  OBVIOUS
<1>2. \A kind : Positions(s, kind) = {}
  BY <1>1 DEF Positions
<1>3. Vars(s) = {} /\ CodesDeclared(s) = {}
  BY <1>2 DEF Vars, CodesDeclared
<1>4. DOMAIN Nothing = {}
  BY DEF Nothing
<1> HIDE DEF Nothing
<1>5. Kept(Nothing, t, H, s, Given(s, kinds), P)
  <2>1. \A N : Booked(Nothing, H, s, N, Given(s, kinds)) /\ Named(N, t, P, s)
    BY <1>3, <1>4 DEF Booked, Named
  <2> QED
    BY <2>1 DEF Kept
<1>6. Handles(H, s)
  BY <1>3 DEF Handles, Apart
<1>7. LastOf(H, s) = None
  <2>1. {q \in Positions(s, {"scope", "up", "var"}) : q < 1} = {}
    BY <1>2
  <2>2. Owner(s, 1) = 0
    BY <2>1 DEF Owner
  <2>3. Owner(s, Len(s) + 1) = 0
    BY <1>1, <2>2
  <2> QED
    BY <2>3 DEF LastOf
<1>8. Pending(s) = <<>>
  <2>1. Waiting(s) = {}
    BY <1>2 DEF Waiting
  <2> QED
    BY <2>1, ListedNothing DEF Pending
<1>9. TablesOf(Nothing, s)
  BY <1>2, <1>4 DEF TablesOf
<1> QED
  BY <1>5, <1>6, <1>7, <1>8, <1>9 DEF Good

(* After an entry that is no variable.                                     *)
LEMMA LastNext ==
    ASSUME NEW s, NEW u, NEW e, NEW n, Longer(s, u, e, n), NEW H, Handles(H, s), e.kind # "var"
    PROVE  /\ Handles(H, u)
           /\ LastOf(H, u) = IF e.kind \in {"scope", "up"} THEN None ELSE LastOf(H, s)
<1>0. DOMAIN s = 1 .. n /\ n \in Nat /\ Len(s) = n /\ Len(u) = n + 1
  BY DEF Longer
<1>1. CodesDeclared(u) = CodesDeclared(s) /\ \A v \in Vars(s) : u[v] = s[v]
  BY BookLonger
<1>2. Owner(u, n + 2) = IF e.kind \in {"scope", "up"} THEN 0 ELSE Owner(s, n + 1)
  BY OwnerNext
<1>3. Owner(s, n + 1) # 0 => Owner(s, n + 1) \in Vars(s)
  BY <1>0, OwnerLast
<1>4. Len(u) + 1 = n + 2
  BY <1>0
<1> QED
  BY <1>0, <1>1, <1>2, <1>3, <1>4 DEF Handles, Apart, LastOf

(* An entry that settles nothing, or only by making it void.               *)
LEMMA GoodMarked ==
    ASSUME NEW s, NEW u, NEW e, NEW n, Longer(s, u, e, n), NEW kinds, AreKinds(kinds),
           e.kind \notin {"up", "var", "close"},
           NEW m, NEW t, NEW tabs, NEW latest, NEW pend, NEW H, NEW P,
           Good(m, t, tabs, latest, pend, H, s, kinds, P),
           NEW w, Grown(t, w), NEW Q, Fits(P, Q, s)
    PROVE  Good(Marked(m, latest, u, e, n, kinds, Owner(s, n + 1)), w,
                IF e.kind = "def" THEN Bind(tabs, e.handle, e) ELSE tabs,
                IF e.kind = "scope" THEN None ELSE latest,
                IF e.kind = "scope" THEN <<>>
                ELSE IF e.kind = "struct" /\ latest # None THEN Append(pend, StructAttr(n + 1))
                ELSE pend,
                H, u, kinds, Q)
<1> DEFINE m2 == Marked(m, latest, u, e, n, kinds, Owner(s, n + 1))
<1>0. DOMAIN s = 1 .. n /\ n \in Nat /\ Len(s) = n
  BY DEF Longer
<1>1. /\ Handles(H, s) /\ latest = LastOf(H, s) /\ pend = Pending(s) /\ TablesOf(tabs, s)
      /\ Kept(m, t, H, s, Given(s, kinds), P)
  BY DEF Good
<1>2. PICK N : Booked(m, H, s, N, Given(s, kinds)) /\ Named(N, t, P, s)
  BY <1>1 DEF Kept
<1>3. Booked(m2, H, u, N, Given(u, kinds))
  BY <1>1, <1>2, BookMarked
<1>4. Named(N, w, Q, u)
  <2>1. Vars(u) = Vars(s)
    BY BookLonger
  <2> QED
    BY <1>2, <2>1, NamedGrown
<1> HIDE DEF m2
<1>5. Kept(m2, w, H, u, Given(u, kinds), Q)
  BY <1>3, <1>4 DEF Kept
<1>6. Handles(H, u) /\ LastOf(H, u) = IF e.kind = "scope" THEN None ELSE latest
  BY <1>1, LastNext
<1>7. latest # None <=> Owner(s, n + 1) # 0
  BY <1>0, <1>1, OwnerLast
<1>8. Pending(u) = IF e.kind = "scope" THEN <<>>
                   ELSE IF e.kind = "struct" /\ latest # None THEN Append(pend, StructAttr(n + 1))
                   ELSE pend
  <2>1. e.kind \in Stops <=> e.kind = "scope"
    BY DEF Stops
  <2>2. /\ e.kind \in Stops => Pending(u) = <<>>
        /\ e.kind \notin Stops =>
              Pending(u) = IF e.kind = "struct" /\ Owner(s, n + 1) # 0
                           THEN Append(Pending(s), StructAttr(n + 1))
                           ELSE Pending(s)
    BY PendingNext
  <2> QED
    BY <1>1, <1>7, <2>1, <2>2
<1>9. TablesOf(IF e.kind = "def" THEN Bind(tabs, e.handle, e) ELSE tabs, u)
  BY <1>1, TablesNext
<1> QED
  BY <1>5, <1>6, <1>8, <1>9 DEF Good, m2

(* What it marks, by its kind.                                             *)
LEMMA MarkIs ==
    ASSUME NEW s, NEW u, NEW e, NEW n, Longer(s, u, e, n), NEW kinds, AreKinds(kinds),
           NEW m, NEW tabs, TablesOf(tabs, s), NEW latest
    PROVE  LET x == Marked(m, latest, u, e, n, kinds, Owner(s, n + 1))
           IN  /\ e.kind \notin kinds \ {"struct"} => x = m
               /\ e.kind = "misc" /\ "misc" \in kinds =>
                     x = IF latest # None THEN PushAttr(m, latest, MiscAttr(n + 1)) ELSE m
               /\ e.kind = "def" /\ "def" \in kinds =>
                     x = IF latest # None THEN PushAttr(m, latest, EnumAttr(e)) ELSE m
               /\ e.kind = "ref" /\ "ref" \in kinds =>
                     x = IF latest # None /\ e.handle \in DOMAIN tabs
                         THEN PushAttr(m, latest, EnumAttr(tabs[e.handle]))
                         ELSE m
<1>1. n + 1 \in Attached(u, kinds, Owner(s, n + 1)) <=>
         /\ e.kind \in kinds
         /\ e.kind = "ref" => {q \in Positions(s, {"def"}) : s[q].handle = e.handle} # {}
  BY AttachedNew
<1>2. u[n + 1] = e
  BY DEF Longer
<1>3. e.kind = "misc" => AttrAt(u, n + 1) = MiscAttr(n + 1)
  BY <1>2 DEF AttrAt
<1>4. e.kind = "def" => AttrAt(u, n + 1) = EnumAttr(e)
  BY <1>2 DEF AttrAt
<1>5. e.kind = "ref" =>
        /\ e.handle \in DOMAIN tabs <=> {q \in Positions(s, {"def"}) : s[q].handle = e.handle} # {}
        /\ e.handle \in DOMAIN tabs => AttrAt(u, n + 1) = EnumAttr(tabs[e.handle])
  BY TableMeant
<1>6. e.kind \notin kinds \ {"struct"} =>
         Marked(m, latest, u, e, n, kinds, Owner(s, n + 1)) = m
  BY <1>1 DEF Marked
<1>7. e.kind = "misc" /\ "misc" \in kinds =>
         Marked(m, latest, u, e, n, kinds, Owner(s, n + 1))
           = IF latest # None THEN PushAttr(m, latest, MiscAttr(n + 1)) ELSE m
  BY <1>1, <1>3 DEF Marked
<1>8. e.kind = "def" /\ "def" \in kinds =>
         Marked(m, latest, u, e, n, kinds, Owner(s, n + 1))
           = IF latest # None THEN PushAttr(m, latest, EnumAttr(e)) ELSE m
  BY <1>1, <1>4 DEF Marked
<1>9. e.kind = "ref" /\ "ref" \in kinds =>
         Marked(m, latest, u, e, n, kinds, Owner(s, n + 1))
           = IF latest # None /\ e.handle \in DOMAIN tabs
             THEN PushAttr(m, latest, EnumAttr(tabs[e.handle]))
             ELSE m
  BY <1>1, <1>5 DEF Marked
<1> QED
  BY <1>6, <1>7, <1>8, <1>9

(* The end of a scope, or of an annotation.                                *)
LEMMA GoodSettled ==
    ASSUME NEW s, NEW u, NEW e, NEW n, Longer(s, u, e, n), NEW kinds, AreKinds(kinds),
           e.kind \in {"up", "close"},
           NEW m, NEW t, NEW tabs, NEW latest, NEW pend, NEW H, NEW P,
           Good(m, t, tabs, latest, pend, H, s, kinds, P),
           NEW Q, Fits(P, Q, s)
    PROVE  Good(Flushed(m, latest, pend), t, tabs, IF e.kind = "up" THEN None ELSE latest, <<>>,
                H, u, kinds, Q)
<1> DEFINE m2 == Flushed(m, latest, pend)
<1>1. /\ Handles(H, s) /\ latest = LastOf(H, s) /\ pend = Pending(s) /\ TablesOf(tabs, s)
      /\ Kept(m, t, H, s, Given(s, kinds), P)
  BY DEF Good
<1>2. PICK N : Booked(m, H, s, N, Given(s, kinds)) /\ Named(N, t, P, s)
  BY <1>1 DEF Kept
<1>3. Booked(m2, H, u, N, Given(u, kinds))
  BY <1>1, <1>2, BookSettled
<1>4. Named(N, t, Q, u)
  <2>1. Vars(u) = Vars(s)
    BY BookLonger
  <2>2. Grown(t, t)
    BY DEF Grown
  <2> QED
    BY <1>2, <2>1, <2>2, NamedGrown
<1> HIDE DEF m2
<1>5. Kept(m2, t, H, u, Given(u, kinds), Q)
  BY <1>3, <1>4 DEF Kept
<1>6. Handles(H, u) /\ LastOf(H, u) = IF e.kind = "up" THEN None ELSE latest
  BY <1>1, LastNext
<1>7. Pending(u) = <<>>
  BY PendingNext DEF Stops
<1>8. TablesOf(tabs, u)
  BY <1>1, TablesNext
<1> QED
  BY <1>5, <1>6, <1>7, <1>8 DEF Good, m2

(* A variable, under its handle and with its name.                         *)
LEMMA GoodVar ==
    ASSUME NEW s, NEW u, NEW e, NEW n, Longer(s, u, e, n), NEW kinds, AreKinds(kinds),
           e.kind = "var",
           NEW m, NEW t, NEW tabs, NEW latest, NEW pend, NEW H, NEW P,
           Good(m, t, tabs, latest, pend, H, s, kinds, P),
           NEW G, Handles(G, u), \A c \in CodesDeclared(s) : G[c] = H[c],
           NEW w, Grown(t, w), NEW Q, Fits(P, Q, s),
           NEW id \in Ids(w), Segments(w, id) = Q[n + 1]
    PROVE  Good(WithVar(Flushed(m, latest, pend), G[e.code], id), w, tabs, G[e.code], <<>>,
                G, u, kinds, Q)
<1> DEFINE m2 == WithVar(Flushed(m, latest, pend), G[e.code], id)
<1>0. DOMAIN s = 1 .. n /\ n \in Nat /\ Len(s) = n /\ Len(u) = n + 1 /\ u[n + 1] = e
  BY DEF Longer
<1>1. /\ Handles(H, s) /\ latest = LastOf(H, s) /\ pend = Pending(s) /\ TablesOf(tabs, s)
      /\ Kept(m, t, H, s, Given(s, kinds), P)
  BY DEF Good
<1>2. PICK N : Booked(m, H, s, N, Given(s, kinds)) /\ Named(N, t, P, s)
  BY <1>1 DEF Kept
<1>3. Vars(u) = Vars(s) \cup {n + 1} /\ \A v \in Vars(s) : v \in 1 .. n
  BY VarsNext
<1> DEFINE M == [v \in Vars(u) |-> IF v = n + 1 THEN id ELSE N[v]]
<1>4. (\A v \in Vars(s) : M[v] = N[v]) /\ M[n + 1] = id
  BY <1>0, <1>3
<1> HIDE DEF M
<1>5. Booked(m2, G, u, M, Given(u, kinds))
  <2>1. Apart(G, u)
    BY DEF Handles
  <2>2. Booked(WithVar(Flushed(m, LastOf(H, s), Pending(s)), G[e.code], M[n + 1]),
               G, u, M, Given(u, kinds))
    BY <1>1, <1>2, <1>4, <2>1, BookEntered
  <2> QED
    BY <1>1, <1>4, <2>2
<1>6. Named(M, w, Q, u)
  <2> SUFFICES ASSUME NEW v \in Vars(u) PROVE M[v] \in Ids(w) /\ Segments(w, M[v]) = Q[v]
    BY DEF Named
  <2>1. CASE v = n + 1
    BY <1>4, <2>1
  <2>2. CASE v \in Vars(s)
    BY <1>2, <1>4, <2>2 DEF Named, Grown, Fits
  <2> QED
    BY <1>3, <2>1, <2>2
<1> HIDE DEF m2
<1>7. Kept(m2, w, G, u, Given(u, kinds), Q)
  BY <1>5, <1>6 DEF Kept
<1>8. LastOf(G, u) = G[e.code]
  <2>1. Owner(u, n + 2) = n + 1
    BY OwnerNext
  <2>2. Len(u) + 1 = n + 2 /\ n + 1 # 0
    BY <1>0
  <2> QED
    BY <1>0, <2>1, <2>2 DEF LastOf
<1>9. Pending(u) = <<>>
  BY PendingNext DEF Stops
<1>10. TablesOf(tabs, u)
  BY <1>1, TablesNext
<1> QED
  BY <1>7, <1>8, <1>9, <1>10 DEF Good, m2

(* The end of the file.                                                    *)
LEMMA GoodEnd ==
    ASSUME NEW s, NEW n \in Nat, DOMAIN s = 1 .. n, Len(s) = n, NEW kinds, AreKinds(kinds),
           NEW m, NEW t, NEW tabs, NEW latest, NEW pend, NEW H, NEW P,
           Good(m, t, tabs, latest, pend, H, s, kinds, P)
    PROVE  Kept(Flushed(m, latest, pend), t, H, s, Declared(s, kinds), P)
<1>1. /\ Handles(H, s) /\ latest = LastOf(H, s) /\ pend = Pending(s)
      /\ Kept(m, t, H, s, Given(s, kinds), P)
  BY DEF Good
<1>2. PICK N : Booked(m, H, s, N, Given(s, kinds)) /\ Named(N, t, P, s)
  BY <1>1 DEF Kept
<1>3. Booked(Flushed(m, latest, pend), H, s, N, Declared(s, kinds))
  BY <1>1, <1>2, AllFlushed
<1> QED
  BY <1>2, <1>3 DEF Kept

-----------------------------------------------------------------------------
(* The operators of the readers' instances are those of Declarations.      *)

OneOf(S) == CHOOSE x \in S : TRUE

(* The reader of FST hierarchies has the operators of Declarations.        *)
LEMMA FstDeclares ==
    /\ \A s : Fst!CodesDeclared(s) = CodesDeclared(s)
    /\ \A s, p : Fst!ScopesAt(s, p) = ScopesAt(s, p)
    /\ \A s, kinds, v : Fst!AttrsDeclared(s, kinds, v) = AttrsDeclared(s, kinds, v)
    /\ \A S : Fst!Ascending(S) = Ascending(S)
    /\ \A t, vs : Fst!Recorded(t, vs) = Recorded(t, vs)
    /\ \A t, vs : Fst!Ids(t) = Ids(t)
    /\ \A s : Fst!Positions(s, {"var"}) = Positions(s, {"var"})
<1>1. \A s, kinds : Fst!Positions(s, kinds) = Positions(s, kinds)
  BY DEF Fst!Positions, Positions
<1>2. \A s : Fst!CodesDeclared(s) = CodesDeclared(s)
  BY <1>1 DEF Fst!CodesDeclared, CodesDeclared
<1>3. \A s, p : Fst!ScopesAt(s, p) = ScopesAt(s, p)
  BY DEF Fst!ScopesAt, ScopesAt, Fst!Front, Front
<1>4. ASSUME NEW s, NEW p PROVE Fst!Owner(s, p) = Owner(s, p)
  BY DEF Fst!Owner, Owner, Fst!Positions, Positions, Fst!Max, Max
<1>5. ASSUME NEW s, NEW p PROVE Fst!Settled(s, p) = Settled(s, p)
  BY DEF Fst!Settled, Settled, Fst!Positions, Positions, Fst!Min, Min
<1>6. ASSUME NEW s, NEW p PROVE Fst!Definitions(s, p) = Definitions(s, p)
  BY DEF Fst!Definitions, Definitions, Fst!Positions, Positions
<1>7. ASSUME NEW s, NEW kinds, NEW v PROVE Fst!Attached(s, kinds, v) = Attached(s, kinds, v)
  BY <1>1, <1>4, <1>5, <1>6 DEF Fst!Attached, Attached, Fst!DescribesScope, DescribesScope
<1>8. ASSUME NEW s PROVE Fst!Earliest(s) = Earliest(s)
  BY <1>5 DEF Fst!Earliest, Earliest, Fst!Earlier, Earlier, Fst!Effective, Effective
<1>9. ASSUME NEW S, NEW R PROVE Fst!InOrder(S, R) = InOrder(S, R)
  <2>0. \A X : Fst!Cardinality(X) = Cardinality(X)
    BY DEF Fst!Cardinality, Cardinality
  <2>1. \A x : Fst!Place(S, R, x) = Place(S, R, x)
    BY <2>0 DEF Fst!Place, Place
  <2>2. \A k : {y \in S : Fst!Place(S, R, y) = k} = {y \in S : Place(S, R, y) = k}
    BY <2>1
  <2> DEFINE f == [k \in 1 .. Cardinality(S) |-> OneOf({y \in S : Fst!Place(S, R, y) = k})]
             g == [k \in 1 .. Cardinality(S) |-> OneOf({y \in S : Place(S, R, y) = k})]
  <2>3. f = g
    BY <2>2
  <2>4. Fst!InOrder(S, R) = [k \in 1 .. Fst!Cardinality(S) |-> OneOf({y \in S : Fst!Place(S, R, y) = k})]
    BY DEF Fst!InOrder, OneOf
  <2>5. InOrder(S, R) = g
    BY DEF InOrder, OneOf
  <2> QED
    BY <2>0, <2>3, <2>4, <2>5
<1>10. ASSUME NEW s, NEW p PROVE Fst!AttrAt(s, p) = AttrAt(s, p)
  BY <1>6 DEF Fst!AttrAt, AttrAt, Fst!StructAttr, StructAttr, Fst!MiscAttr, MiscAttr,
              Fst!EnumAttr, EnumAttr, Fst!Max, Max
<1>11. ASSUME NEW s, NEW kinds, NEW v PROVE Fst!AttrsDeclared(s, kinds, v) = AttrsDeclared(s, kinds, v)
  BY <1>7, <1>8, <1>9, <1>10 DEF Fst!AttrsDeclared, AttrsDeclared
<1>12. ASSUME NEW S PROVE Fst!Ascending(S) = Ascending(S)
  BY <1>9 DEF Fst!Ascending, Ascending
<1>13. ASSUME NEW t, NEW id PROVE Fst!Segments(t, id) = Segments(t, id)
  BY DEF Fst!Segments, Segments, Fst!NodeAt, NodeAt, Fst!Ids, Ids, Fst!NoParent, NoParent
<1>14. ASSUME NEW t, NEW vs PROVE Fst!Recorded(t, vs) = Recorded(t, vs)
  BY <1>13 DEF Fst!Recorded, Recorded
<1> QED
  BY <1>1, <1>2, <1>3, <1>11, <1>12, <1>14 DEF Fst!Ids, Ids

(* What the readers record with is that of Declarations as well.           *)
LEMMA FstRecords ==
    /\ Fst!Nothing = Nothing
    /\ \A m, h, p : Fst!Flushed(m, h, p) = Flushed(m, h, p)
    /\ \A m, h, x : Fst!WithVar(m, h, x) = WithVar(m, h, x)
    /\ \A m, h, a : Fst!PushAttr(m, h, a) = PushAttr(m, h, a)
    /\ \A f, k, x : Fst!Bind(f, k, x) = Bind(f, k, x)
    /\ \A e : Fst!EnumAttr(e) = EnumAttr(e)
    /\ \A p : Fst!StructAttr(p) = StructAttr(p)
<1>1. ASSUME NEW m, NEW h, NEW p PROVE Fst!Flushed(m, h, p) = Flushed(m, h, p)
  BY DEF Fst!Flushed, Flushed, Fst!PushAttr, PushAttr, Fst!FoldLeft, FoldLeft,
         Fst!MapThenFoldSet, MapThenFoldSet, Fst!Max, Max
<1>2. ASSUME NEW f, NEW k, NEW x PROVE Fst!Bind(f, k, x) = Bind(f, k, x)
  BY DEF Fst!Bind, Bind
<1>3. ASSUME NEW m, NEW h, NEW x PROVE Fst!WithVar(m, h, x) = WithVar(m, h, x)
  BY <1>2 DEF Fst!WithVar, WithVar, Fst!VarsOf, VarsOf
<1> QED
  BY <1>1, <1>2, <1>3 DEF Fst!Nothing, Nothing, Fst!PushAttr, PushAttr, Fst!EnumAttr, EnumAttr,
                          Fst!StructAttr, StructAttr

(* One more entry.                                                         *)
LEMMA LongerAppend ==
    ASSUME NEW E, NEW s \in Seq(E), NEW e \in E
    PROVE  /\ Longer(s, Append(s, e), e, Len(s))
           /\ Append(s, e) \in Seq(E)
           /\ Alike(s, Append(s, e), Len(s))
<1> DEFINE u == Append(s, e)
<1>1. /\ Len(s) \in Nat /\ DOMAIN s = 1 .. Len(s)
      /\ u \in Seq(E) /\ Len(u) = Len(s) + 1 /\ u[Len(s) + 1] = e
      /\ \A p \in 1 .. Len(s) : u[p] = s[p]
  OBVIOUS
<1>2. DOMAIN u = 1 .. Len(s) + 1
  BY <1>1
<1> HIDE DEF u
<1> QED
  BY <1>1, <1>2 DEF Longer, Alike, u

(* The scopes that are open at what both streams have.                     *)
LEMMA ScopesLonger ==
    ASSUME NEW s, NEW u, NEW e, NEW n, Longer(s, u, e, n)
    PROVE  /\ \A p \in 1 .. n + 1 : ScopesAt(u, p) = ScopesAt(s, p)
           /\ ScopesAt(u, n + 2) = ScopeStep(e, ScopesAt(s, n + 1))
<1>1. n \in Nat /\ u[n + 1] = e /\ \A p \in 1 .. n : u[p] = s[p]
  BY DEF Longer
<1>2. ASSUME NEW p \in 1 .. n + 1 PROVE ScopesAt(u, p) = ScopesAt(s, p)
  <2>1. Alike(s, u, p - 1) /\ p \in Nat \ {0}
    BY <1>1 DEF Alike
  <2> QED
    BY <2>1, ScopesSteps
<1>3. ScopesAt(u, (n + 1) + 1) = ScopeStep(u[n + 1], ScopesAt(u, n + 1))
  <2>1. n + 1 \in Nat \ {0}
    BY <1>1
  <2> QED
    BY <2>1, ScopesSteps
<1>4. (n + 1) + 1 = n + 2 /\ n + 1 \in 1 .. n + 1
  BY <1>1
<1> QED
  BY <1>1, <1>2, <1>3, <1>4

-----------------------------------------------------------------------------
(* The paths of the variables, and what is recorded of them.               *)
LEMMA RecordedIs ==
    ASSUME NEW s, NEW n \in Nat, DOMAIN s = 1 .. n, NEW kinds, NEW m, NEW t, NEW H, NEW P,
           Kept(m, t, H, s, Declared(s, kinds), P), NEW c \in CodesDeclared(s)
    PROVE  LET order == Ascending(VarsWith(s, c))
           IN  Recorded(t, m[H[c]]) =
                 [k \in DOMAIN order |->
                    [path |-> P[order[k]], attrs |-> AttrsDeclared(s, kinds, order[k])]]
<1> DEFINE V == VarsWith(s, c)
           f == Ascending(V)
           l == Cardinality(V)
           A == Declared(s, kinds)
<1>1. PICK N : Booked(m, H, s, N, A) /\ Named(N, t, P, s)
  BY DEF Kept
<1> DEFINE r == Row(s, c, N, A)
<1>2. m[H[c]] = r
  BY <1>1 DEF Booked
<1>3. IsRow(r, s, c, N, A, f, l)
  <2> HIDE DEF A
  <2> QED
    BY RowSeq
<1>4. DOMAIN f = 1 .. l
  <2> HIDE DEF V
  <2> QED
    BY DEF Ascending, InOrder
<1>5. \A v \in V : v \in Vars(s)
  BY DEF VarsWith
<1>6. \A v \in Vars(s) : A[v] = AttrsDeclared(s, kinds, v) /\ Segments(t, N[v]) = P[v]
  BY <1>1 DEF Declared, Named
<1> HIDE DEF r, f, l, A
<1>7. DOMAIN r = 1 .. l /\ f \in [1 .. l -> V] /\ \A k \in 1 .. l : r[k] = Entry(N, A, f[k])
  BY <1>3 DEF IsRow
<1> HIDE DEF V
<1>8. ASSUME NEW k \in 1 .. l
      PROVE  [path |-> Segments(t, r[k].name), attrs |-> r[k].attrs]
               = [path |-> P[f[k]], attrs |-> AttrsDeclared(s, kinds, f[k])]
  <2>1. f[k] \in Vars(s)
    BY <1>5, <1>7
  <2>2. r[k].name = N[f[k]] /\ r[k].attrs = A[f[k]]
    BY <1>7 DEF Entry
  <2> QED
    BY <1>6, <2>1, <2>2
<1>9. Recorded(t, r) = [k \in 1 .. l |-> [path |-> Segments(t, r[k].name), attrs |-> r[k].attrs]]
  BY <1>7 DEF Recorded
<1> QED
  BY <1>2, <1>4, <1>8, <1>9 DEF f, V

-----------------------------------------------------------------------------
(* The reader of FST hierarchies keeps the book.                           *)

(* What the reader of an FST hierarchy has recorded.  A code is its own    *)
(* handle.                                                                 *)
FstKinds == {"struct", "ref"}
Codes(s) == [c \in CodesDeclared(s) |-> c]
FstLeaf(o, name) == IF o THEN Tight(name) ELSE name
FstPaths(o, s) == [v \in Vars(s) |-> Append(ScopesAt(s, v), FstLeaf(o, s[v].name))]

FstOpen(o, m, t, tabs, latest, pend, s) ==
    Good(m, t, tabs, latest, pend, Codes(s), s, FstKinds, FstPaths(o, s))

FstClosed(o, m, t, s) == Kept(m, t, Codes(s), s, Declared(s, FstKinds), FstPaths(o, s))

FstBook ==
    /\ stream \in Seq(FstEntries) /\ done \in BOOLEAN
    /\ Segments(tree, scope) = ScopesAt(stream, Len(stream) + 1)
    /\ ~done => FstOpen(noSpace, map, tree, tables, last, pending, stream)
    /\ done => /\ FstClosed(noSpace, map, tree, stream)
               /\ pending = <<>>
               /\ Handles(Codes(stream), stream) /\ last = LastOf(Codes(stream), stream)

(* Codes are handles that differ.                                          *)
LEMMA CodesHandles ==
    ASSUME NEW s \in Seq(FstEntries)
    PROVE  Handles(Codes(s), s)
<1>1. \A v \in Vars(s) : s[v] \in FstEntries /\ s[v].kind = "var"
  <2>1. \A v \in DOMAIN s : s[v] \in FstEntries
    OBVIOUS
  <2> QED
    BY <2>1 DEF Vars, Positions
<1>2. \A c \in CodesDeclared(s) : c # None
  BY <1>1, NoneAssumption DEF CodesDeclared, Vars
<1> QED
  BY <1>2 DEF Handles, Apart, Codes

(* Entries that follow do not change the paths of variables.               *)
LEMMA FstFits ==
    ASSUME NEW s, NEW u, NEW e, NEW n, Longer(s, u, e, n), NEW o
    PROVE  /\ Fits(FstPaths(o, s), FstPaths(o, u), s)
           /\ e.kind = "var" =>
                FstPaths(o, u)[n + 1] = Append(ScopesAt(s, n + 1), FstLeaf(o, e.name))
           /\ e.kind # "var" => Codes(u) = Codes(s)
           /\ e.kind = "var" => \A c \in CodesDeclared(s) : Codes(u)[c] = Codes(s)[c]
           /\ e.kind = "var" => Codes(u)[e.code] = e.code
<1>1. n \in Nat /\ u[n + 1] = e
  BY DEF Longer
<1>2. Vars(u) = Vars(s) \cup (IF e.kind = "var" THEN {n + 1} ELSE {})
      /\ \A v \in Vars(s) : v \in 1 .. n /\ u[v] = s[v]
  BY BookLonger, VarsNext
<1>3. \A p \in 1 .. n + 1 : ScopesAt(u, p) = ScopesAt(s, p)
  BY ScopesLonger
<1>4. Fits(FstPaths(o, s), FstPaths(o, u), s)
  <2> SUFFICES ASSUME NEW v \in Vars(s) PROVE FstPaths(o, u)[v] = FstPaths(o, s)[v]
    BY DEF Fits
  <2>1. v \in Vars(u) /\ u[v] = s[v] /\ ScopesAt(u, v) = ScopesAt(s, v)
    BY <1>1, <1>2, <1>3
  <2> QED
    BY <2>1 DEF FstPaths
<1>5. e.kind = "var" => FstPaths(o, u)[n + 1] = Append(ScopesAt(s, n + 1), FstLeaf(o, e.name))
  <2>1. n + 1 \in 1 .. n + 1
    BY <1>1
  <2> QED
    BY <1>1, <1>2, <1>3, <2>1 DEF FstPaths
<1>6. e.kind # "var" => CodesDeclared(u) = CodesDeclared(s)
  BY BookLonger
<1>7. e.kind = "var" => CodesDeclared(u) = CodesDeclared(s) \cup {e.code}
  BY VarsNext
<1> QED
  BY <1>4, <1>5, <1>6, <1>7 DEF Codes

(* The tree grows, and a scope keeps its path.                             *)
LEMMA TreeGrown ==
    ASSUME NEW t, IsArena(t, Names), LinksAgree(t), NEW p \in Ids(t), NEW x \in Names
    PROVE  LET w == Interned(t, p, x)
           IN  /\ Grown(t, w)
               /\ InternedId(t, p, x) \in Ids(w)
               /\ Segments(w, InternedId(t, p, x)) = Append(Segments(t, p), x)
               /\ Segments(w, p) = Segments(t, p)
BY TreeGrows, InternPaths DEF Grown

(* Where an up leads.                                                      *)
LEMMA UpLeads ==
    ASSUME NEW t, IsArena(t, Names), LinksAgree(t), NEW p \in Ids(t)
    PROVE  LET up == IF NodeAt(t, p).parent = NoParent THEN Root ELSE NodeAt(t, p).parent
               open == Segments(t, p)
           IN  Segments(t, up) = IF open # <<>> THEN Front(open) ELSE open
<1>1. Rooted(t)
  BY ArenaRooted
<1>2. CASE p = Root
  <2>1. Segments(t, Root) = <<>> /\ NodeAt(t, Root).parent = NoParent
    BY <1>1, SegmentsSteps DEF Rooted
  <2> QED
    BY <1>2, <2>1
<1>3. CASE p # Root
  <2> DEFINE parent == NodeAt(t, p).parent
             above == Segments(t, parent)
             x == NodeAt(t, p).segment
  <2>1. parent \in 0 .. p - 1 /\ p \in 0 .. Len(t) - 1
    BY <1>1, <1>3 DEF Rooted, Ids
  <2>2. parent \in Ids(t) /\ parent # NoParent
    <3>1. Len(t) \in Nat
      BY <1>1 DEF Rooted
    <3> QED
      BY <2>1, <3>1 DEF Ids, NoParent
  <2>3. Segments(t, p) = Append(above, x)
    BY <1>1, <1>3, SegmentsSteps
  <2>4. above \in Seq(Names)
    BY <2>2, SegmentsTyped
  <2> HIDE DEF above, x
  <2>5. Append(above, x) # <<>> /\ Front(Append(above, x)) = above
    <3> DEFINE q == Append(above, x)
    <3>1. above \in Seq(Names \cup {x}) /\ x \in Names \cup {x}
      BY <2>4
    <3>2. q \in Seq(Names \cup {x}) /\ Len(q) = Len(above) + 1 /\ Len(above) \in Nat
      BY <3>1
    <3>3. SubSeq(q, 1, Len(above)) = above
      BY <3>1
    <3>4. Len(q) - 1 = Len(above) /\ q # <<>>
      BY <3>2
    <3> HIDE DEF q
    <3> QED
      BY <3>3, <3>4 DEF Front, q
  <2> QED
    BY <2>2, <2>3, <2>5 DEF above
<1> QED
  BY <1>2, <1>3

(* One step per entry.                                                     *)
LEMMA FstBookStep ==
    ASSUME IInv, ReadFst, FstBook
    PROVE  FstBook'
<1>1. /\ Fst!Next /\ IsArena(tree, Names) /\ LinksAgree(tree) /\ scope \in Ids(tree)
      /\ stream \in Seq(FstEntries) /\ done \in BOOLEAN
      /\ Segments(tree, scope) = ScopesAt(stream, Len(stream) + 1)
  BY DEF ReadFst, IInv, FstPlace, FstBook
<1> DEFINE s == stream
           n == Len(stream)
           o == noSpace
<1>2. n \in Nat /\ DOMAIN s = 1 .. n
  BY <1>1
<1>k. AreKinds(FstKinds)
  BY DEF AreKinds, FstKinds
(* It is enough to show what an entry leaves open.                         *)
<1>open. ASSUME NEW e \in FstEntries, Fst!Reads(e),
                FstOpen(o, map', tree', tables', last', pending', Append(s, e)),
                Segments(tree', scope') = ScopeStep(e, ScopesAt(s, n + 1))
         PROVE  FstBook'
  <2> DEFINE u == Append(s, e)
  <2>1. ~done' /\ done' = done /\ stream' = u /\ noSpace' = noSpace
    BY <1>open DEF Fst!Reads
  <2>2. Longer(s, u, e, n) /\ u \in Seq(FstEntries)
    BY <1>1, LongerAppend
  <2>3. Segments(tree', scope') = ScopesAt(u, n + 2)
    BY <1>open, <2>2, ScopesLonger
  <2>4. Len(u) + 1 = n + 2
    BY <1>2, <2>2 DEF Longer
  <2>5. FstOpen(noSpace', map', tree', tables', last', pending', stream')
    BY <1>open, <2>1
  <2> HIDE DEF u
  <2> QED
    BY <1>1, <2>1, <2>2, <2>3, <2>4, <2>5 DEF FstBook
<1>reads. ASSUME NEW e, Fst!Reads(e)
          PROVE  ~done /\ FstOpen(noSpace, map, tree, tables, last, pending, s)
  BY <1>reads DEF Fst!Reads, FstBook
(* Entries that settle nothing.                                            *)
<1>mark. ASSUME NEW e \in FstEntries, Fst!Reads(e), e.kind \notin {"up", "var", "close"},
                NEW w, Grown(tree, w)
         PROVE  LET u == Append(s, e)
                IN  FstOpen(o, Marked(map, last, u, e, n, FstKinds, Owner(s, n + 1)), w,
                            IF e.kind = "def" THEN Bind(tables, e.handle, e) ELSE tables,
                            IF e.kind = "scope" THEN None ELSE last,
                            IF e.kind = "scope" THEN <<>>
                            ELSE IF e.kind = "struct" /\ last # None
                                 THEN Append(pending, StructAttr(n + 1))
                            ELSE pending, u)
  <2> DEFINE u == Append(s, e)
  <2>1. Longer(s, u, e, n)
    BY <1>1, LongerAppend
  <2>2. Fits(FstPaths(o, s), FstPaths(o, u), s) /\ Codes(u) = Codes(s)
    <3> HIDE DEF u
    <3> QED
      BY <1>mark, <2>1, FstFits
  <2>3. Good(map, tree, tables, last, pending, Codes(s), s, FstKinds, FstPaths(o, s))
    BY <1>reads, <1>mark DEF FstOpen
  <2> HIDE DEF u
  <2>4. Good(Marked(map, last, u, e, n, FstKinds, Owner(s, n + 1)), w,
             IF e.kind = "def" THEN Bind(tables, e.handle, e) ELSE tables,
             IF e.kind = "scope" THEN None ELSE last,
             IF e.kind = "scope" THEN <<>>
             ELSE IF e.kind = "struct" /\ last # None THEN Append(pending, StructAttr(n + 1))
             ELSE pending,
             Codes(s), u, FstKinds, FstPaths(o, u))
    BY <1>k, <1>mark, <2>1, <2>2, <2>3, GoodMarked
  <2> QED
    BY <2>2, <2>4 DEF FstOpen, u
<1>is. ASSUME NEW e \in FstEntries, Fst!Reads(e)
       PROVE  LET x == Marked(map, last, Append(s, e), e, n, FstKinds, Owner(s, n + 1))
              IN  /\ e.kind # "ref" => x = map
                  /\ e.kind = "ref" =>
                       x = IF last # None /\ e.handle \in DOMAIN tables
                           THEN PushAttr(map, last, EnumAttr(tables[e.handle]))
                           ELSE map
  <2> DEFINE u == Append(s, e)
             x == Marked(map, last, u, e, n, FstKinds, Owner(s, n + 1))
  <2>1. Longer(s, u, e, n)
    BY <1>1, LongerAppend
  <2>2. TablesOf(tables, s)
    BY <1>reads, <1>is DEF FstOpen, Good
  <2>3. (e.kind # "ref" => e.kind \notin FstKinds \ {"struct"}) /\ "ref" \in FstKinds
    BY DEF FstKinds
  <2> HIDE DEF u
  <2>4. e.kind # "ref" => x = map
    BY <1>k, <2>1, <2>2, <2>3, MarkIs
  <2>5. e.kind = "ref" /\ "ref" \in FstKinds =>
          x = IF last # None /\ e.handle \in DOMAIN tables
              THEN PushAttr(map, last, EnumAttr(tables[e.handle]))
              ELSE map
    BY <1>k, <2>1, <2>2, MarkIs
  <2> QED
    BY <2>3, <2>4, <2>5 DEF u
<1>same. Grown(tree, tree)
  BY DEF Grown
<1>step. \A e : e.kind \notin {"scope", "up"} => ScopeStep(e, ScopesAt(s, n + 1)) = ScopesAt(s, n + 1)
  BY DEF ScopeStep
<1> HIDE DEF s, n, o
<1>3. ASSUME NEW e \in FstEntries, Fst!FstScope(e) PROVE FstBook'
  <2>1. /\ Fst!Reads(e) /\ e.kind = "scope" /\ e.name \in Names
        /\ map' = map /\ pending' = <<>> /\ last' = None /\ tables' = tables
        /\ tree' = Interned(tree, scope, e.name)
        /\ scope' = InternedId(tree, scope, e.name)
    BY <1>3, FstIntern, NamesAssumption DEF Fst!FstScope, Fst!ClearBeforeScope, NamesIn
  <2>2. /\ Grown(tree, tree')
        /\ Segments(tree', scope') = Append(Segments(tree, scope), e.name)
    BY <1>1, <2>1, TreeGrown
  <2>3. FstOpen(o, map', tree', tables', last', pending', Append(s, e))
    <3>1. Marked(map, last, Append(s, e), e, n, FstKinds, Owner(s, n + 1)) = map
      BY <1>is, <2>1
    <3> QED
      BY <1>mark, <2>1, <2>2, <3>1
  <2>4. Segments(tree', scope') = ScopeStep(e, ScopesAt(s, n + 1))
    BY <1>1, <2>1, <2>2 DEF ScopeStep, s, n
  <2> QED
    BY <1>open, <2>1, <2>3, <2>4
<1>4. ASSUME NEW e \in FstEntries,
             Fst!FstEnumTable(e) \/ Fst!FstEnumTableRef(e) \/ Fst!FstStructural(e) \/ Fst!FstOther(e)
      PROVE  FstBook'
  <2>1. /\ Fst!Reads(e) /\ e.kind \in {"def", "ref", "struct", "misc"}
        /\ tree' = tree /\ scope' = scope /\ last' = last
        /\ map' = IF e.kind = "ref" /\ last # None /\ e.handle \in DOMAIN tables
                  THEN PushAttr(map, last, EnumAttr(tables[e.handle])) ELSE map
        /\ pending' = IF e.kind = "struct" /\ last # None
                      THEN Append(pending, StructAttr(n + 1)) ELSE pending
        /\ tables' = IF e.kind = "def" THEN Bind(tables, e.handle, e) ELSE tables
    BY <1>4, FstRecords DEF Fst!FstEnumTable, Fst!FstEnumTableRef, Fst!FstStructural,
                            Fst!FstOther, Fst!Here, n, s
  <2>2. FstOpen(o, map', tree', tables', last', pending', Append(s, e))
    <3>1. Marked(map, last, Append(s, e), e, n, FstKinds, Owner(s, n + 1)) = map'
      BY <1>is, <2>1
    <3> QED
      BY <1>mark, <1>same, <2>1, <3>1
  <2>3. Segments(tree', scope') = ScopeStep(e, ScopesAt(s, n + 1))
    BY <1>1, <1>step, <2>1 DEF s, n
  <2> QED
    BY <1>open, <2>1, <2>2, <2>3
<1>5. ASSUME NEW e \in FstEntries, Fst!FstUpScope(e) \/ Fst!FstAttributeEnd(e) PROVE FstBook'
  <2> DEFINE u == Append(s, e)
  <2>1. /\ Fst!Reads(e) /\ e.kind \in {"up", "close"}
        /\ map' = Flushed(map, last, pending) /\ pending' = <<>>
        /\ tree' = tree /\ tables' = tables
        /\ last' = IF e.kind = "up" THEN None ELSE last
        /\ scope' = IF e.kind = "up"
                    THEN IF NodeAt(tree, scope).parent = NoParent
                         THEN Root ELSE NodeAt(tree, scope).parent
                    ELSE scope
    BY <1>5, FstRecords DEF Fst!FstUpScope, Fst!FstAttributeEnd, Fst!NodeAt, Fst!NoParent,
                            Fst!Root, NodeAt, NoParent, Root
  <2>2. Longer(s, u, e, n)
    BY <1>1, LongerAppend DEF s, n
  <2> HIDE DEF u
  <2>3. Fits(FstPaths(o, s), FstPaths(o, u), s) /\ Codes(u) = Codes(s)
    BY <2>1, <2>2, FstFits
  <2>4. Good(map, tree, tables, last, pending, Codes(s), s, FstKinds, FstPaths(o, s))
    BY <1>reads, <2>1 DEF FstOpen, o
  <2>5. Good(Flushed(map, last, pending), tree, tables, IF e.kind = "up" THEN None ELSE last, <<>>,
             Codes(s), u, FstKinds, FstPaths(o, u))
    BY <1>k, <2>1, <2>2, <2>3, <2>4, GoodSettled
  <2>6. FstOpen(o, map', tree', tables', last', pending', u)
    BY <2>1, <2>3, <2>5 DEF FstOpen
  <2>7. Segments(tree', scope') = ScopeStep(e, ScopesAt(s, n + 1))
    <3>1. CASE e.kind = "up"
      <4>1. Segments(tree, scope') =
              IF Segments(tree, scope) # <<>> THEN Front(Segments(tree, scope))
              ELSE Segments(tree, scope)
        BY <1>1, <2>1, <3>1, UpLeads
      <4> QED
        BY <1>1, <2>1, <3>1, <4>1 DEF ScopeStep, s, n
    <3>2. CASE e.kind = "close"
      BY <1>1, <1>step, <2>1, <3>2 DEF s, n
    <3> QED
      BY <2>1, <3>1, <3>2
  <2> QED
    BY <1>open, <2>1, <2>6, <2>7 DEF u
<1>6. ASSUME NEW e \in FstEntries, Fst!FstVar(e) PROVE FstBook'
  <2> DEFINE u == Append(s, e)
             leaf == FstLeaf(o, e.name)
             id == InternedId(tree, scope, leaf)
  <2>1. /\ Fst!Reads(e) /\ e.kind = "var" /\ leaf \in Names
        /\ map' = WithVar(Flushed(map, last, pending), e.code, id) /\ pending' = <<>>
        /\ tree' = Interned(tree, scope, leaf) /\ tables' = tables
        /\ last' = e.code /\ scope' = scope
    BY <1>6, FstRecords, FstIntern, FstSpelt DEF Fst!FstVar, FstLeaf, Fst!SpeltFst, Fst!Tight, Tight, o
  <2>2. Longer(s, u, e, n) /\ u \in Seq(FstEntries)
    BY <1>1, LongerAppend DEF s, n
  <2>3. /\ Grown(tree, tree')
        /\ id \in Ids(tree')
        /\ Segments(tree', id) = Append(Segments(tree, scope), leaf)
        /\ Segments(tree', scope) = Segments(tree, scope)
    BY <1>1, <2>1, TreeGrown
  <2> HIDE DEF u, id
  <2>4. /\ Fits(FstPaths(o, s), FstPaths(o, u), s)
        /\ FstPaths(o, u)[n + 1] = Append(ScopesAt(s, n + 1), leaf)
        /\ \A c \in CodesDeclared(s) : Codes(u)[c] = Codes(s)[c]
        /\ Codes(u)[e.code] = e.code
    BY <2>1, <2>2, FstFits
  <2>5. Good(map, tree, tables, last, pending, Codes(s), s, FstKinds, FstPaths(o, s))
    BY <1>reads, <2>1 DEF FstOpen, o
  <2>6. Handles(Codes(u), u)
    BY <2>2, CodesHandles
  <2>7. Segments(tree', id) = FstPaths(o, u)[n + 1]
    BY <1>1, <2>3, <2>4 DEF s, n
  <2>8. Good(WithVar(Flushed(map, last, pending), Codes(u)[e.code], id), tree', tables,
             Codes(u)[e.code], <<>>, Codes(u), u, FstKinds, FstPaths(o, u))
    BY <1>k, <2>1, <2>2, <2>3, <2>4, <2>5, <2>6, <2>7, GoodVar
  <2>9. FstOpen(o, map', tree', tables', last', pending', u)
    BY <2>1, <2>4, <2>8 DEF FstOpen
  <2>10. Segments(tree', scope') = ScopeStep(e, ScopesAt(s, n + 1))
    BY <1>1, <1>step, <2>1, <2>3 DEF s, n
  <2> QED
    BY <1>open, <2>1, <2>9, <2>10 DEF u
<1>7. CASE Fst!FstEnd
  <2>1. /\ ~done /\ done' = TRUE /\ map' = Flushed(map, last, pending) /\ pending' = <<>>
        /\ UNCHANGED << stream, noSpace, tree, scope, last >>
    BY <1>7, FstRecords DEF Fst!FstEnd
  <2>2. Good(map, tree, tables, last, pending, Codes(s), s, FstKinds, FstPaths(o, s))
    BY <2>1 DEF FstOpen, FstBook, s, o
  <2>3. Kept(Flushed(map, last, pending), tree, Codes(s), s, Declared(s, FstKinds), FstPaths(o, s))
    BY <1>2, <1>k, <2>2, GoodEnd DEF n, s
  <2>4. Handles(Codes(s), s) /\ last = LastOf(Codes(s), s)
    BY <2>2 DEF Good
  <2>5. noSpace' = noSpace /\ stream' = stream
    BY <2>1
  <2> QED
    BY <1>1, <2>1, <2>3, <2>4, <2>5 DEF FstBook, FstClosed, s, o
<1> QED
  BY <1>1, <1>3, <1>4, <1>5, <1>6, <1>7 DEF Fst!Next

(* Every signal of the book has variables, each with a name of the tree.   *)
LEMMA KeptTyped ==
    ASSUME NEW s, NEW n \in Nat, DOMAIN s = 1 .. n, NEW m, NEW t, NEW H, NEW A, NEW P,
           Kept(m, t, H, s, A, P)
    PROVE  /\ DOMAIN m = {H[c] : c \in CodesDeclared(s)}
           /\ \A c \in CodesDeclared(s) :
                /\ m[H[c]] # <<>>
                /\ \A k \in DOMAIN m[H[c]] : m[H[c]][k].name \in Ids(t)
<1>1. PICK N : Booked(m, H, s, N, A) /\ Named(N, t, P, s)
  BY DEF Kept
<1>2. ASSUME NEW c \in CodesDeclared(s)
      PROVE  /\ m[H[c]] # <<>>
             /\ \A k \in DOMAIN m[H[c]] : m[H[c]][k].name \in Ids(t)
  <2> DEFINE V == VarsWith(s, c)
             r == Row(s, c, N, A)
             f == Ascending(V)
             l == Cardinality(V)
  <2>1. m[H[c]] = r
    BY <1>1 DEF Booked
  <2>2. IsRow(r, s, c, N, A, f, l)
    BY RowSeq
  <2>3. PICK x \in V : TRUE
    BY DEF CodesDeclared, VarsWith, Vars
  <2>4. \A v \in V : N[v] \in Ids(t)
    BY <1>1 DEF Named, VarsWith
  <2> HIDE DEF r, f, l
  <2>5. /\ f \in [1 .. l -> V] /\ \A y \in V : \E i \in 1 .. l : f[i] = y
        /\ DOMAIN r = 1 .. l
        /\ \A k \in 1 .. l : r[k] = Entry(N, A, f[k])
    BY <2>2 DEF IsRow
  <2> HIDE DEF V
  <2>6. r # <<>>
    <3>1. PICK i \in 1 .. l : f[i] = x
      BY <2>3, <2>5
    <3>2. DOMAIN r # {}
      BY <2>5, <3>1
    <3> QED
      BY <3>2
  <2>7. ASSUME NEW k \in DOMAIN r PROVE r[k].name \in Ids(t)
    <3>1. f[k] \in V /\ r[k] = Entry(N, A, f[k])
      BY <2>5
    <3> QED
      BY <2>4, <3>1 DEF Entry
  <2> QED
    BY <2>1, <2>6, <2>7
<1> QED
  BY <1>1, <1>2 DEF Booked

(* The handle of the last variable is one of the book, and nothing waits   *)
(* without one.                                                            *)
LEMMA LastKnown ==
    ASSUME NEW s, NEW n \in Nat, DOMAIN s = 1 .. n, Len(s) = n, NEW H, Handles(H, s)
    PROVE  /\ LastOf(H, s) # None => \E c \in CodesDeclared(s) : LastOf(H, s) = H[c]
           /\ Pending(s) # <<>> => LastOf(H, s) # None
<1>1. LastOf(H, s) # None => \E c \in CodesDeclared(s) : LastOf(H, s) = H[c]
  BY OwnerLast DEF CodesDeclared, Vars
<1>2. ASSUME Pending(s) # <<>> PROVE LastOf(H, s) # None
  <2>1. Waiting(s) # {}
    BY <1>2, ListedNothing DEF Pending
  <2>2. PICK p \in Waiting(s) : TRUE
    BY <2>1
  <2>3. Owner(s, n + 1) = Owner(s, p) /\ Owner(s, p) # 0
    <3>1. Owner(s, p) # 0
      BY <2>2 DEF Waiting
    <3> QED
      BY <2>2, <3>1, WaitingOwner
  <2> QED
    BY <2>3, OwnerLast
<1> QED
  BY <1>1, <1>2

(* Before the hierarchy is read.                                           *)
LEMMA FstBookInit == Init => FstBook
<1> SUFFICES ASSUME Init PROVE FstBook
  OBVIOUS
<1>1. /\ stream = <<>> /\ done = FALSE /\ map = Nothing /\ tree = NewTree /\ scope = Root
      /\ last = None /\ pending = <<>> /\ tables = Nothing
  BY FstRecords, NewTrees DEF Init, Fst!Init, Fst!Root, Root
<1>2. Segments(NewTree, Root) = <<>>
  <2>1. Rooted(NewTree)
    BY NewArena, ArenaRooted
  <2> QED
    BY <2>1, SegmentsSteps
<1>3. ScopesAt(stream, Len(stream) + 1) = <<>>
  <2>1. Len(stream) + 1 = 1
    BY <1>1
  <2> QED
    BY <2>1, ScopesSteps
<1>4. FstOpen(noSpace, map, tree, tables, last, pending, stream)
  BY <1>1, GoodStart DEF FstOpen
<1>5. stream \in Seq(FstEntries)
  BY <1>1
<1> QED
  BY <1>1, <1>2, <1>3, <1>4, <1>5 DEF FstBook

(* The end of the hierarchy.                                               *)
LEMMA FstBookDeclared == FstBook => Fst!AsDeclared
<1> SUFFICES ASSUME FstBook, done PROVE Fst!AsDeclared
  BY DEF Fst!AsDeclared
<1> DEFINE s == stream
           H == Codes(s)
           P == FstPaths(noSpace, s)
<1>1. stream \in Seq(FstEntries) /\ Kept(map, tree, H, s, Declared(s, FstKinds), P)
  BY DEF FstBook, FstClosed
<1>2. DOMAIN s = 1 .. Len(s) /\ Len(s) \in Nat
  BY <1>1
<1>3. \A c \in CodesDeclared(s) : H[c] = c
  BY DEF Codes
<1> HIDE DEF H
<1>4. DOMAIN map = {H[c] : c \in CodesDeclared(s)}
  <2> DEFINE n == Len(s)
  <2>1. n \in Nat /\ DOMAIN s = 1 .. n
    BY <1>2
  <2> DEFINE A == Declared(s, FstKinds)
  <2> HIDE DEF s, P, n, A
  <2>2. /\ DOMAIN map = {H[c] : c \in CodesDeclared(s)}
        /\ \A c \in CodesDeclared(s) :
             /\ map[H[c]] # <<>>
             /\ \A k \in DOMAIN map[H[c]] : map[H[c]][k].name \in Ids(tree)
    BY <1>1, <2>1, KeptTyped DEF A
  <2> QED
    BY <2>2
<1>5. DOMAIN map = CodesDeclared(s)
  BY <1>3, <1>4
<1>6. ASSUME NEW h \in CodesDeclared(s)
      PROVE  Fst!Recorded(tree, map[h]) = Fst!SignalDeclared(stream, {"struct", "ref"}, Fst!SpeltFst, h)
  <2> DEFINE V == VarsWith(s, h)
             order == Ascending(V)
             l == Cardinality(V)
  <2>1. Recorded(tree, map[H[h]]) =
          [k \in DOMAIN order |->
             [path |-> P[order[k]], attrs |-> AttrsDeclared(s, FstKinds, order[k])]]
    <3> DEFINE n == Len(s)
    <3>1. n \in Nat /\ DOMAIN s = 1 .. n
      BY <1>2
    <3> HIDE DEF s, P, n
    <3> QED
      BY <1>1, <3>1, RecordedIs
  <2>2. Fst!SignalDeclared(stream, {"struct", "ref"}, Fst!SpeltFst, h) =
          [k \in DOMAIN order |->
             [path |-> Append(ScopesAt(s, order[k]), Fst!SpeltFst(s[order[k]].name)),
              attrs |-> AttrsDeclared(s, FstKinds, order[k])]]
    <3>1. {v \in Fst!Positions(s, {"var"}) : s[v].code = h} = V
      BY FstDeclares DEF VarsWith, Vars
    <3>2. Fst!Ascending({v \in Fst!Positions(s, {"var"}) : s[v].code = h}) = order
      BY <3>1, FstDeclares
    <3> HIDE DEF V, order
    <3> QED
      BY <3>2, FstDeclares DEF Fst!SignalDeclared, FstKinds
  <2>3. \A k \in DOMAIN order : order[k] \in Vars(s)
    <3>1. V \in SUBSET (1 .. Len(s)) /\ \A v \in V : v \in Vars(s)
      BY <1>2 DEF VarsWith, Vars, Positions
    <3> HIDE DEF V
    <3>2. order \in [1 .. l -> V]
      BY <1>2, <3>1, AscendingOnto
    <3> HIDE DEF order, l
    <3> QED
      BY <3>1, <3>2
  <2>4. \A v \in Vars(s) : P[v] = Append(ScopesAt(s, v), Fst!SpeltFst(s[v].name))
    BY DEF FstPaths, FstLeaf, Fst!SpeltFst, Fst!Tight, Tight
  <2> HIDE DEF order, P, V, l
  <2>5. \A k \in DOMAIN order :
          [path |-> P[order[k]], attrs |-> AttrsDeclared(s, FstKinds, order[k])]
            = [path |-> Append(ScopesAt(s, order[k]), Fst!SpeltFst(s[order[k]].name)),
               attrs |-> AttrsDeclared(s, FstKinds, order[k])]
    BY <2>3, <2>4
  <2>6. H[h] = h
    BY <1>3
  <2> QED
    BY <2>1, <2>2, <2>5, <2>6, FstDeclares
<1>7. DOMAIN map = Fst!CodesDeclared(stream)
  BY <1>5, FstDeclares
<1> QED
  BY <1>5, <1>6, <1>7 DEF Fst!AsDeclared

(* At every moment the last handle has a variable to carry annotations.    *)
LEMMA FstBookTyped == IInv /\ format = "fst" /\ FstBook => Fst!TypeOK
<1> SUFFICES ASSUME IInv, format = "fst", FstBook PROVE Fst!TypeOK
  OBVIOUS
<1> DEFINE s == stream
           H == Codes(s)
<1>1. s \in Seq(FstEntries) /\ done \in BOOLEAN
  BY DEF FstBook
<1>2. DOMAIN s = 1 .. Len(s) /\ Len(s) \in Nat
  BY <1>1
<1>3. scope \in Fst!Ids(tree)
  BY FstDeclares DEF IInv, FstPlace
<1>4. /\ Handles(H, s) /\ last = LastOf(H, s)
      /\ \E A : Kept(map, tree, H, s, A, FstPaths(noSpace, s))
      /\ pending = Pending(s) \/ pending = <<>>
  <2>1. CASE done
    BY <2>1 DEF FstBook, FstClosed
  <2>2. CASE ~done
    BY <2>2 DEF FstBook, FstOpen, Good
  <2> QED
    BY <1>1, <2>1, <2>2
<1> HIDE DEF H, s
<1>5. /\ DOMAIN map = {H[c] : c \in CodesDeclared(s)}
      /\ \A c \in CodesDeclared(s) :
           /\ map[H[c]] # <<>>
           /\ \A k \in DOMAIN map[H[c]] : map[H[c]][k].name \in Ids(tree)
  BY <1>2, <1>4, KeptTyped
<1>6. last # None => last \in DOMAIN map /\ map[last] # <<>>
  BY <1>2, <1>4, <1>5, LastKnown
<1>7. pending # <<>> => last # None
  BY <1>2, <1>4, LastKnown
<1>8. \A h \in DOMAIN map : \A k \in DOMAIN map[h] : map[h][k].name \in Fst!Ids(tree)
  BY <1>5, FstDeclares
<1> QED
  BY <1>3, <1>6, <1>7, <1>8 DEF Fst!TypeOK

-----------------------------------------------------------------------------
(* The calls of walk and the scopes that are open.                         *)

(* The reader of VCD headers has them, too.                                 *)
LEMMA VcdDeclares ==
    /\ \A s : Vcd!CodesDeclared(s) = CodesDeclared(s)
    /\ \A s, p : Vcd!ScopesAt(s, p) = ScopesAt(s, p)
    /\ \A s, kinds, v : Vcd!AttrsDeclared(s, kinds, v) = AttrsDeclared(s, kinds, v)
    /\ \A S : Vcd!Ascending(S) = Ascending(S)
    /\ \A t, vs : Vcd!Recorded(t, vs) = Recorded(t, vs)
    /\ \A t, vs : Vcd!Ids(t) = Ids(t)
    /\ \A s : Vcd!Positions(s, {"var"}) = Positions(s, {"var"})
<1>1. \A s, kinds : Vcd!Positions(s, kinds) = Positions(s, kinds)
  BY DEF Vcd!Positions, Positions
<1>2. \A s : Vcd!CodesDeclared(s) = CodesDeclared(s)
  BY <1>1 DEF Vcd!CodesDeclared, CodesDeclared
<1>3. \A s, p : Vcd!ScopesAt(s, p) = ScopesAt(s, p)
  BY DEF Vcd!ScopesAt, ScopesAt, Vcd!Front, Front
<1>4. ASSUME NEW s, NEW p PROVE Vcd!Owner(s, p) = Owner(s, p)
  BY DEF Vcd!Owner, Owner, Vcd!Positions, Positions, Vcd!Max, Max
<1>5. ASSUME NEW s, NEW p PROVE Vcd!Settled(s, p) = Settled(s, p)
  BY DEF Vcd!Settled, Settled, Vcd!Positions, Positions, Vcd!Min, Min
<1>6. ASSUME NEW s, NEW p PROVE Vcd!Definitions(s, p) = Definitions(s, p)
  BY DEF Vcd!Definitions, Definitions, Vcd!Positions, Positions
<1>7. ASSUME NEW s, NEW kinds, NEW v PROVE Vcd!Attached(s, kinds, v) = Attached(s, kinds, v)
  BY <1>1, <1>4, <1>5, <1>6 DEF Vcd!Attached, Attached, Vcd!DescribesScope, DescribesScope
<1>8. ASSUME NEW s PROVE Vcd!Earliest(s) = Earliest(s)
  BY <1>5 DEF Vcd!Earliest, Earliest, Vcd!Earlier, Earlier, Vcd!Effective, Effective
<1>9. ASSUME NEW S, NEW R PROVE Vcd!InOrder(S, R) = InOrder(S, R)
  <2>0. \A X : Vcd!Cardinality(X) = Cardinality(X)
    BY DEF Vcd!Cardinality, Cardinality
  <2>1. \A x : Vcd!Place(S, R, x) = Place(S, R, x)
    BY <2>0 DEF Vcd!Place, Place
  <2>2. \A k : {y \in S : Vcd!Place(S, R, y) = k} = {y \in S : Place(S, R, y) = k}
    BY <2>1
  <2> DEFINE f == [k \in 1 .. Cardinality(S) |-> OneOf({y \in S : Vcd!Place(S, R, y) = k})]
             g == [k \in 1 .. Cardinality(S) |-> OneOf({y \in S : Place(S, R, y) = k})]
  <2>3. f = g
    BY <2>2
  <2>4. Vcd!InOrder(S, R) = [k \in 1 .. Vcd!Cardinality(S) |-> OneOf({y \in S : Vcd!Place(S, R, y) = k})]
    BY DEF Vcd!InOrder, OneOf
  <2>5. InOrder(S, R) = g
    BY DEF InOrder, OneOf
  <2> QED
    BY <2>0, <2>3, <2>4, <2>5
<1>10. ASSUME NEW s, NEW p PROVE Vcd!AttrAt(s, p) = AttrAt(s, p)
  BY <1>6 DEF Vcd!AttrAt, AttrAt, Vcd!StructAttr, StructAttr, Vcd!MiscAttr, MiscAttr,
              Vcd!EnumAttr, EnumAttr, Vcd!Max, Max
<1>11. ASSUME NEW s, NEW kinds, NEW v PROVE Vcd!AttrsDeclared(s, kinds, v) = AttrsDeclared(s, kinds, v)
  BY <1>7, <1>8, <1>9, <1>10 DEF Vcd!AttrsDeclared, AttrsDeclared
<1>12. ASSUME NEW S PROVE Vcd!Ascending(S) = Ascending(S)
  BY <1>9 DEF Vcd!Ascending, Ascending
<1>13. ASSUME NEW t, NEW id PROVE Vcd!Segments(t, id) = Segments(t, id)
  BY DEF Vcd!Segments, Segments, Vcd!NodeAt, NodeAt, Vcd!Ids, Ids, Vcd!NoParent, NoParent
<1>14. ASSUME NEW t, NEW vs PROVE Vcd!Recorded(t, vs) = Recorded(t, vs)
  BY <1>13 DEF Vcd!Recorded, Recorded
<1> QED
  BY <1>1, <1>2, <1>3, <1>11, <1>12, <1>14 DEF Vcd!Ids, Ids
(* The same for VCD.                                                       *)
LEMMA VcdRecords ==
    /\ Vcd!Nothing = Nothing
    /\ \A m, h, p : Vcd!Flushed(m, h, p) = Flushed(m, h, p)
    /\ \A m, h, x : Vcd!WithVar(m, h, x) = WithVar(m, h, x)
    /\ \A m, h, a : Vcd!PushAttr(m, h, a) = PushAttr(m, h, a)
    /\ \A f, k, x : Vcd!Bind(f, k, x) = Bind(f, k, x)
    /\ \A e : Vcd!EnumAttr(e) = EnumAttr(e)
    /\ \A p : Vcd!StructAttr(p) = StructAttr(p) /\ Vcd!MiscAttr(p) = MiscAttr(p)
    /\ \A S : Vcd!Cardinality(S) = Cardinality(S)
<1>1. ASSUME NEW m, NEW h, NEW p PROVE Vcd!Flushed(m, h, p) = Flushed(m, h, p)
  BY DEF Vcd!Flushed, Flushed, Vcd!PushAttr, PushAttr, Vcd!FoldLeft, FoldLeft,
         Vcd!MapThenFoldSet, MapThenFoldSet, Vcd!Max, Max
<1>2. ASSUME NEW f, NEW k, NEW x PROVE Vcd!Bind(f, k, x) = Bind(f, k, x)
  BY DEF Vcd!Bind, Bind
<1>3. ASSUME NEW m, NEW h, NEW x PROVE Vcd!WithVar(m, h, x) = WithVar(m, h, x)
  BY <1>2 DEF Vcd!WithVar, WithVar, Vcd!VarsOf, VarsOf
<1> QED
  BY <1>1, <1>2, <1>3 DEF Vcd!Nothing, Nothing, Vcd!PushAttr, PushAttr, Vcd!EnumAttr, EnumAttr,
                          Vcd!StructAttr, StructAttr, Vcd!MiscAttr, MiscAttr,
                          Vcd!Cardinality, Cardinality


(* What is left of a call that is changed.                                 *)
LEMMA CallFields ==
    ASSUME NEW f, NEW I, IsCall(f, I), NEW x, NEW y
    PROVE  /\ LET g == [f EXCEPT !.pending = y]
              IN  g.scope = f.scope /\ g.last = f.last /\ g.pending = y
           /\ LET g == [f EXCEPT !.last = x]
              IN  g.scope = f.scope /\ g.last = x /\ g.pending = f.pending
           /\ LET g == [f EXCEPT !.last = x, !.pending = y]
              IN  g.scope = f.scope /\ g.last = x /\ g.pending = y
<1>1. f = [scope |-> f.scope, last |-> f.last, pending |-> f.pending]
  BY DEF IsCall
<1>2. [f EXCEPT !.pending = y] = [scope |-> f.scope, last |-> f.last, pending |-> y]
  BY <1>1
<1> DEFINE g == [f EXCEPT !.last = x]
<1>3. g = [scope |-> f.scope, last |-> x, pending |-> f.pending]
  BY <1>1
<1> HIDE DEF g
<1>4. [g EXCEPT !.pending = y] = [scope |-> f.scope, last |-> x, pending |-> y]
  BY <1>3
<1>5. [f EXCEPT !.last = x, !.pending = y] = [g EXCEPT !.pending = y]
  BY DEF g
<1> QED
  BY <1>2, <1>3, <1>4, <1>5 DEF g

(* The calls of walk: one for the root and one for each scope that is      *)
(* open, the others with nothing pending.                                  *)
Walked(fs, t, open) ==
    /\ open \in Seq(Names) /\ Len(fs) = 1 + Len(open)
    /\ \A k \in 1 .. Len(fs) : Segments(t, fs[k].scope) = SubSeq(open, 1, k - 1)
    /\ \A k \in 1 .. Len(fs) - 1 : fs[k].pending = <<>>

TopOf(fs) == fs[Len(fs)]

(* The innermost scope.                                                    *)
LEMMA WalkedTop ==
    ASSUME NEW fs, NEW t, Calls(fs, Ids(t)), NEW open, Walked(fs, t, open)
    PROVE  /\ IsCall(TopOf(fs), Ids(t))
           /\ Segments(t, TopOf(fs).scope) = open
<1>1. IsCall(TopOf(fs), Ids(t))
  BY CallsTop DEF TopOf
<1>2. open \in Seq(Names) /\ Len(fs) = 1 + Len(open) /\ Len(open) \in Nat
  BY DEF Walked
<1>3. Len(fs) \in 1 .. Len(fs) /\ Len(fs) - 1 = Len(open)
  BY <1>2
<1>4. Segments(t, TopOf(fs).scope) = SubSeq(open, 1, Len(open))
  BY <1>3 DEF Walked, TopOf
<1>5. SubSeq(open, 1, Len(open)) = open
  BY <1>2
<1> QED
  BY <1>1, <1>4, <1>5

(* The innermost call changes, the tree grows.                             *)
LEMMA WalkedSet ==
    ASSUME NEW fs, NEW t, Calls(fs, Ids(t)), NEW open, Walked(fs, t, open),
           NEW w, Grown(t, w), NEW f, f.scope = TopOf(fs).scope
    PROVE  /\ Walked([fs EXCEPT ![Len(fs)] = f], w, open)
           /\ TopOf([fs EXCEPT ![Len(fs)] = f]) = f
<1> DEFINE n == Len(fs)
           g == [fs EXCEPT ![n] = f]
<1>1. /\ n \in Nat \ {0} /\ fs = [k \in 1 .. n |-> fs[k]]
      /\ \A k \in 1 .. n : IsCall(fs[k], Ids(t))
  BY CallsLen
<1>2. g = [k \in 1 .. n |-> IF k = n THEN f ELSE fs[k]]
  BY <1>1
<1>3. Len(g) = n
  <2> DEFINE X == {IF k = n THEN f ELSE fs[k] : k \in 1 .. n}
  <2>1. g \in [1 .. n -> X] /\ n \in Nat
    BY <1>1, <1>2
  <2> HIDE DEF g, X, n
  <2> QED
    BY <2>1
<1>4. \A k \in 1 .. n : g[k].scope = fs[k].scope /\ (k # n => g[k] = fs[k])
  BY <1>1, <1>2 DEF TopOf
<1>5. g[n] = f
  BY <1>1, <1>2
<1> HIDE DEF g, n
<1>6. \A k \in 1 .. n : Segments(w, g[k].scope) = Segments(t, fs[k].scope)
  BY <1>1, <1>4 DEF IsCall, Grown
<1>7. \A k \in 1 .. n - 1 : k \in 1 .. n /\ k # n
  BY <1>1
<1>8. Walked(g, w, open)
  BY <1>3, <1>4, <1>6, <1>7 DEF Walked, n
<1> QED
  BY <1>3, <1>5, <1>8 DEF g, n, TopOf

(* A scope is entered.                                                     *)
LEMMA WalkedPush ==
    ASSUME NEW fs, NEW t, Calls(fs, Ids(t)), NEW open, Walked(fs, t, open),
           TopOf(fs).pending = <<>>,
           NEW x \in Names, NEW f, Segments(t, f.scope) = Append(open, x)
    PROVE  /\ Walked(Append(fs, f), t, Append(open, x))
           /\ TopOf(Append(fs, f)) = f
<1> DEFINE n == Len(fs)
           g == Append(fs, f)
           more == Append(open, x)
<1>1. n \in Nat \ {0} /\ fs \in Seq({fs[k] : k \in 1 .. n})
  BY CallsLen
<1>2. Len(g) = n + 1 /\ g[n + 1] = f /\ \A k \in 1 .. n : g[k] = fs[k]
  <2>1. fs \in Seq({fs[k] : k \in 1 .. n} \cup {f})
    BY <1>1
  <2> QED
    BY <1>1, <2>1
<1>3. open \in Seq(Names) /\ n = 1 + Len(open) /\ Len(open) \in Nat
  BY DEF Walked
<1>4. more \in Seq(Names) /\ Len(more) = n
      /\ SubSeq(more, 1, n) = more
      /\ \A k \in 1 .. n : SubSeq(more, 1, k - 1) = SubSeq(open, 1, k - 1)
  <2>1. more \in Seq(Names) /\ Len(more) = n
    BY <1>3
  <2>2. SubSeq(more, 1, n) = more
    BY <2>1
  <2>3. ASSUME NEW k \in 1 .. n PROVE SubSeq(more, 1, k - 1) = SubSeq(open, 1, k - 1)
    BY <1>3
  <2> QED
    BY <2>1, <2>2, <2>3
<1> HIDE DEF g, n, more
<1>5. ASSUME NEW k \in 1 .. n + 1 PROVE Segments(t, g[k].scope) = SubSeq(more, 1, k - 1)
  <2>1. CASE k = n + 1
    <3>1. k - 1 = n
      BY <1>1, <2>1
    <3> QED
      BY <1>2, <1>4, <2>1, <3>1 DEF more
  <2>2. CASE k # n + 1
    <3>1. k \in 1 .. n
      BY <1>1, <2>2
    <3>2. Segments(t, fs[k].scope) = SubSeq(open, 1, k - 1)
      BY <3>1 DEF Walked, n
    <3> QED
      BY <1>2, <1>4, <3>1, <3>2
  <2> QED
    BY <2>1, <2>2
<1>6. ASSUME NEW k \in 1 .. (n + 1) - 1 PROVE g[k].pending = <<>>
  <2>1. k \in 1 .. n
    BY <1>1
  <2>2. CASE k = n
    BY <1>2, <2>1, <2>2 DEF TopOf, n
  <2>3. CASE k # n
    <3>1. k \in 1 .. n - 1
      BY <1>1, <2>1, <2>3
    <3> QED
      BY <1>2, <2>1, <3>1 DEF Walked, n
  <2> QED
    BY <2>2, <2>3
<1>7. Walked(g, t, more)
  <2>1. Len(g) = 1 + Len(more) /\ Len(g) = n + 1
    BY <1>1, <1>2, <1>4
  <2> QED
    BY <1>4, <1>5, <1>6, <2>1 DEF Walked
<1> QED
  BY <1>2, <1>7 DEF g, more, TopOf

(* A scope is left.                                                        *)
LEMMA WalkedPop ==
    ASSUME NEW fs, NEW t, Calls(fs, Ids(t)), NEW open, Walked(fs, t, open), Len(fs) > 1
    PROVE  LET g == [k \in 1 .. Len(fs) - 1 |->
                       IF k = Len(fs) - 1 THEN [fs[k] EXCEPT !.last = None] ELSE fs[k]]
           IN  /\ open # <<>> /\ Walked(g, t, Front(open))
               /\ TopOf(g).last = None /\ TopOf(g).pending = <<>>
<1> DEFINE n == Len(fs) - 1
           g == [k \in 1 .. n |-> IF k = n THEN [fs[k] EXCEPT !.last = None] ELSE fs[k]]
           less == Front(open)
<1>1. Len(fs) \in Nat /\ \A k \in 1 .. Len(fs) : IsCall(fs[k], Ids(t))
  BY CallsLen
<1>2. n \in Nat \ {0} /\ \A k \in 1 .. n : k \in 1 .. Len(fs) /\ IsCall(fs[k], Ids(t))
  BY <1>1
<1>3. open \in Seq(Names) /\ n = Len(open)
  <2>1. open \in Seq(Names) /\ Len(fs) = 1 + Len(open) /\ Len(open) \in Nat
    BY DEF Walked
  <2> QED
    BY <2>1
<1>4. /\ open # <<>> /\ less \in Seq(Names) /\ n = 1 + Len(less)
      /\ \A k \in 1 .. n : SubSeq(less, 1, k - 1) = SubSeq(open, 1, k - 1)
  <2>1. less = SubSeq(open, 1, n - 1)
    BY <1>3 DEF Front
  <2>3. open # <<>>
    BY <1>2, <1>3
  <2> HIDE DEF less, n
  <2>2. less \in Seq(Names) /\ Len(less) = n - 1 /\ \A k \in 1 .. n - 1 : less[k] = open[k]
    <3>1. n - 1 \in 0 .. Len(open) /\ open \in Seq(Names)
      BY <1>2, <1>3
    <3>2. SubSeq(open, 1, n - 1) \in Seq(Names)
      BY <3>1
    <3>3. Len(SubSeq(open, 1, n - 1)) = n - 1
      BY <3>1
    <3>4. \A k \in 1 .. n - 1 : SubSeq(open, 1, n - 1)[k] = open[k]
      BY <3>1
    <3> QED
      BY <2>1, <3>2, <3>3, <3>4
  <2>4. ASSUME NEW k \in 1 .. n PROVE SubSeq(less, 1, k - 1) = SubSeq(open, 1, k - 1)
    BY <1>2, <1>3, <2>2
  <2> QED
    BY <1>2, <2>2, <2>3, <2>4
<1>5. \A k \in 1 .. n : g[k].scope = fs[k].scope /\ g[k].pending = fs[k].pending
  <2> SUFFICES ASSUME NEW k \in 1 .. n
               PROVE  g[k].scope = fs[k].scope /\ g[k].pending = fs[k].pending
    OBVIOUS
  <2>1. IsCall(fs[k], Ids(t))
    BY <1>2
  <2>2. [fs[k] EXCEPT !.last = None].scope = fs[k].scope
        /\ [fs[k] EXCEPT !.last = None].pending = fs[k].pending
    BY <2>1, CallFields
  <2>3. g[k] = IF k = n THEN [fs[k] EXCEPT !.last = None] ELSE fs[k]
    OBVIOUS
  <2> HIDE DEF g, n
  <2> QED
    BY <2>2, <2>3
<1>6. g[n].last = None
  <2>1. IsCall(fs[n], Ids(t)) /\ n \in 1 .. n
    BY <1>2
  <2>2. [fs[n] EXCEPT !.last = None].last = None
    BY <2>1, CallFields
  <2>3. g[n] = [fs[n] EXCEPT !.last = None]
    BY <2>1
  <2> QED
    BY <2>2, <2>3
<1>7. Len(g) = n
  <2> DEFINE X == {g[k] : k \in 1 .. n}
  <2>1. g \in [1 .. n -> X] /\ n \in Nat
    BY <1>2
  <2> HIDE DEF g, X, n
  <2> QED
    BY <2>1
<1>8. \A k \in 1 .. n : fs[k].pending = <<>> /\ Segments(t, fs[k].scope) = SubSeq(open, 1, k - 1)
  BY <1>2 DEF Walked
<1> HIDE DEF g, less, n
<1>9. \A k \in 1 .. n : Segments(t, g[k].scope) = SubSeq(less, 1, k - 1) /\ g[k].pending = <<>>
  BY <1>4, <1>5, <1>8
<1>10. Walked(g, t, less)
  <2>1. \A k \in 1 .. n - 1 : k \in 1 .. n
    BY <1>2
  <2> QED
    BY <1>4, <1>7, <1>9, <2>1 DEF Walked
<1>11. TopOf(g).last = None /\ TopOf(g).pending = <<>>
  <2>1. n \in 1 .. n
    BY <1>2
  <2> QED
    BY <1>6, <1>7, <1>9, <2>1 DEF TopOf
<1> QED
  BY <1>4, <1>10, <1>11 DEF g, less, n

-----------------------------------------------------------------------------
(* The reader of VCD headers keeps the book.                               *)

(* What a walk of a VCD header has recorded.  Codes get the handles        *)
(* 0 .. n - 1 when they are first used.                                    *)
VcdKinds == {"struct", "ref", "misc", "def"}
Seen(s, p) == SubSeq(s, 1, p - 1)
VcdLeaf(o, name) == IF o /\ name.range = "range" THEN Tight(name) ELSE name
VcdPaths(o, s) == [v \in Vars(s) |-> Append(ScopesAt(s, v), VcdLeaf(o, s[v].name))]

Numbered(f) ==
    /\ IsFiniteSet(DOMAIN f)
    /\ \A c \in DOMAIN f : f[c] \in 0 .. Cardinality(DOMAIN f) - 1
    /\ \A c, d \in DOMAIN f : f[c] = f[d] => c = d
    /\ \A h \in 0 .. Cardinality(DOMAIN f) - 1 : \E c \in DOMAIN f : f[c] = h

VcdOpen(o, m, t, tabs, latest, pend, h, s) ==
    Good(m, t, tabs, latest, pend, h, s, VcdKinds, VcdPaths(o, s))

VcdClosed(o, m, t, h, s) == Kept(m, t, h, s, Declared(s, VcdKinds), VcdPaths(o, s))

VcdBook ==
    /\ stream \in Seq(VcdEntries)
    /\ pos \in 1 .. Len(stream) + 1
    /\ phase \in {"parsing", "walking", "built", "refused"}
    /\ phase = "parsing" => pos = 1
    /\ Numbered(ids)
    /\ DOMAIN ids = CodesDeclared(Seen(stream, pos))
    /\ Walked(frames, tree, ScopesAt(Seen(stream, pos), pos))
    /\ phase # "built" =>
         VcdOpen(noSpace, map, tree, tables, TopOf(frames).last, TopOf(frames).pending, ids,
                 Seen(stream, pos))
    /\ phase = "built" =>
         /\ pos = Len(stream) + 1
         /\ VcdClosed(noSpace, map, tree, ids, Seen(stream, pos))
         /\ Handles(ids, Seen(stream, pos))
         /\ TopOf(frames).last = LastOf(ids, Seen(stream, pos))
         /\ TopOf(frames).pending = <<>>

(* One more item has been visited.                                         *)
LEMMA SeenLonger ==
    ASSUME NEW E, NEW s \in Seq(E), NEW p \in 1 .. Len(s)
    PROVE  /\ Longer(Seen(s, p), Seen(s, p + 1), s[p], p - 1)
           /\ Seen(s, p + 1) \in Seq(E)
           /\ Len(Seen(s, p)) = p - 1
<1>1. Len(s) \in Nat /\ p \in Nat \ {0} /\ p <= Len(s) /\ (p + 1) - 1 = p /\ p - 1 \in Nat
  OBVIOUS
<1> DEFINE a == Seen(s, p)
           b == Seen(s, p + 1)
           n == p - 1
<1>2. a = SubSeq(s, 1, n) /\ b = SubSeq(s, 1, p)
  BY <1>1 DEF Seen
<1>3. a \in Seq(E) /\ Len(a) = n /\ \A k \in 1 .. n : a[k] = s[k]
  <2>1. n \in 0 .. Len(s)
    BY <1>1
  <2> HIDE DEF n
  <2>2. Len(SubSeq(s, 1, n)) = n
    BY <1>1, <2>1
  <2>3. SubSeq(s, 1, n) \in Seq(E)
    BY <1>1, <2>1
  <2>4. \A k \in 1 .. n : SubSeq(s, 1, n)[k] = s[k]
    BY <1>1, <2>1
  <2> QED
    BY <1>2, <2>2, <2>3, <2>4
<1>4. b \in Seq(E) /\ Len(b) = p /\ \A k \in 1 .. p : b[k] = s[k]
  <2>2. Len(SubSeq(s, 1, p)) = p
    BY <1>1
  <2>3. SubSeq(s, 1, p) \in Seq(E)
    BY <1>1
  <2>4. \A k \in 1 .. p : SubSeq(s, 1, p)[k] = s[k]
    BY <1>1
  <2> QED
    BY <1>2, <2>2, <2>3, <2>4
<1> HIDE DEF a, b
<1>5. DOMAIN a = 1 .. n /\ DOMAIN b = 1 .. p
  BY <1>3, <1>4
<1> QED
  BY <1>1, <1>3, <1>4, <1>5 DEF Longer, a, b

(* Items that follow do not change the paths of variables.                 *)
LEMMA VcdFits ==
    ASSUME NEW s, NEW u, NEW e, NEW n, Longer(s, u, e, n), NEW o
    PROVE  /\ Fits(VcdPaths(o, s), VcdPaths(o, u), s)
           /\ e.kind = "var" =>
                VcdPaths(o, u)[n + 1] = Append(ScopesAt(s, n + 1), VcdLeaf(o, e.name))
           /\ CodesDeclared(u) = CodesDeclared(s) \cup (IF e.kind = "var" THEN {e.code} ELSE {})
<1>1. n \in Nat /\ u[n + 1] = e
  BY DEF Longer
<1>2. Vars(u) = Vars(s) \cup (IF e.kind = "var" THEN {n + 1} ELSE {})
      /\ \A v \in Vars(s) : v \in 1 .. n /\ u[v] = s[v]
  BY BookLonger, VarsNext
<1>3. \A p \in 1 .. n + 1 : ScopesAt(u, p) = ScopesAt(s, p)
  BY ScopesLonger
<1>4. Fits(VcdPaths(o, s), VcdPaths(o, u), s)
  <2> SUFFICES ASSUME NEW v \in Vars(s) PROVE VcdPaths(o, u)[v] = VcdPaths(o, s)[v]
    BY DEF Fits
  <2>1. v \in Vars(u) /\ u[v] = s[v] /\ ScopesAt(u, v) = ScopesAt(s, v)
    BY <1>1, <1>2, <1>3
  <2> QED
    BY <2>1 DEF VcdPaths
<1>5. e.kind = "var" => VcdPaths(o, u)[n + 1] = Append(ScopesAt(s, n + 1), VcdLeaf(o, e.name))
  <2>1. n + 1 \in 1 .. n + 1
    BY <1>1
  <2> QED
    BY <1>1, <1>2, <1>3, <2>1 DEF VcdPaths
<1>6. e.kind # "var" => CodesDeclared(u) = CodesDeclared(s)
  BY BookLonger
<1>7. e.kind = "var" => CodesDeclared(u) = CodesDeclared(s) \cup {e.code}
  BY VarsNext
<1> QED
  BY <1>4, <1>5, <1>6, <1>7

(* A code that is used again keeps its handle; a new one gets the next.    *)
LEMMA NumberedNext ==
    ASSUME NEW f, Numbered(f), NEW c
    PROVE  LET h == IF c \in DOMAIN f THEN f[c] ELSE Cardinality(DOMAIN f)
               g == Bind(f, c, h)
           IN  /\ Numbered(g) /\ DOMAIN g = DOMAIN f \cup {c} /\ g[c] = h
               /\ \A d \in DOMAIN f : g[d] = f[d]
<1> DEFINE h == IF c \in DOMAIN f THEN f[c] ELSE Cardinality(DOMAIN f)
           g == Bind(f, c, h)
           n == Cardinality(DOMAIN f)
<1>1. /\ DOMAIN g = DOMAIN f \cup {c} /\ g[c] = h
      /\ \A d \in DOMAIN f : g[d] = f[d]
  BY DEF Bind
<1>2. IsFiniteSet(DOMAIN f) /\ n \in Nat
  BY FS_CardinalityType DEF Numbered
<1>3. Numbered(g)
  <2>1. CASE c \in DOMAIN f
    <3>1. DOMAIN g = DOMAIN f
      BY <1>1, <2>1
    <3> HIDE DEF g
    <3> QED
      BY <1>1, <3>1 DEF Numbered
  <2>2. CASE c \notin DOMAIN f
    <3>1. IsFiniteSet(DOMAIN g) /\ Cardinality(DOMAIN g) = n + 1 /\ g[c] = n
      BY <1>1, <1>2, <2>2, FS_AddElement
    <3> HIDE DEF g, h, n
    <3>2. \A d \in DOMAIN f : g[d] \in 0 .. n - 1
      BY <1>1 DEF Numbered, n
    <3>3. \A d \in DOMAIN g : g[d] \in 0 .. (n + 1) - 1
      BY <1>1, <1>2, <3>1, <3>2
    <3>4. \A d, x \in DOMAIN g : g[d] = g[x] => d = x
      <4>1. \A d, x \in DOMAIN f : g[d] = g[x] => d = x
        BY <1>1 DEF Numbered
      <4>2. \A d \in DOMAIN f : g[d] # n
        BY <1>2, <3>2
      <4> QED
        BY <1>1, <3>1, <4>1, <4>2
    <3>5. ASSUME NEW k \in 0 .. (n + 1) - 1 PROVE \E d \in DOMAIN g : g[d] = k
      <4>1. CASE k = n
        BY <1>1, <3>1, <4>1
      <4>2. CASE k # n
        <5>1. k \in 0 .. n - 1
          BY <1>2, <4>2
        <5> QED
          BY <1>1, <5>1 DEF Numbered, n
      <4> QED
        BY <4>1, <4>2
    <3> QED
      BY <3>1, <3>3, <3>4, <3>5 DEF Numbered
  <2> QED
    BY <2>1, <2>2
<1> QED
  BY <1>1, <1>3

(* Numbers are handles.                                                    *)
LEMMA NumbersHandles ==
    ASSUME NEW f, Numbered(f), NEW s, DOMAIN f = CodesDeclared(s)
    PROVE  Handles(f, s)
<1>1. \A c \in DOMAIN f : f[c] \in Nat
  <2>1. Cardinality(DOMAIN f) \in Nat
    BY FS_CardinalityType DEF Numbered
  <2> QED
    BY <2>1 DEF Numbered
<1> QED
  BY <1>1, NoneAssumption DEF Handles, Apart, Numbered

(* Before the header is read.                                              *)
LEMMA VcdBookInit == Init => VcdBook
<1> SUFFICES ASSUME Init PROVE VcdBook
  OBVIOUS
<1>1. /\ stream = <<>> /\ phase = "parsing" /\ pos = 1 /\ map = Nothing /\ tree = NewTree
      /\ ids = Nothing /\ tables = Nothing
      /\ frames = << [scope |-> Root, last |-> None, pending |-> <<>>] >>
  BY VcdRecords, NewTrees DEF Init, Vcd!Init, Vcd!Frame, Vcd!Root, Root
<1>2. Segments(NewTree, Root) = <<>>
  <2>1. Rooted(NewTree)
    BY NewArena, ArenaRooted
  <2> QED
    BY <2>1, SegmentsSteps
<1>3. Seen(stream, pos) = <<>> /\ stream \in Seq(VcdEntries) /\ pos \in 1 .. Len(stream) + 1
  BY <1>1 DEF Seen
<1> DEFINE s == Seen(stream, pos)
<1>4. DOMAIN ids = {}
  BY <1>1 DEF Nothing
<1>5. CodesDeclared(s) = {}
  BY <1>3 DEF CodesDeclared, Positions
<1>6. Numbered(ids)
  <2>1. IsFiniteSet({}) /\ Cardinality({}) = 0
    BY FS_EmptySet
  <2>2. 0 .. Cardinality({}) - 1 = {}
    BY <2>1
  <2> QED
    BY <1>4, <2>1, <2>2 DEF Numbered
<1>7. Walked(frames, tree, ScopesAt(s, pos))
  <2>1. ScopesAt(s, pos) = <<>>
    BY <1>1, ScopesSteps
  <2>2. Len(frames) = 1 /\ frames[1].scope = Root /\ <<>> \in Seq(Names) /\ Len(<<>>) = 0
    BY <1>1
  <2>3. \A k \in 1 .. 1 : Segments(tree, frames[k].scope) = SubSeq(<<>>, 1, k - 1)
    <3>1. SubSeq(<<>>, 1, 1 - 1) = <<>>
      OBVIOUS
    <3>2. Segments(tree, frames[1].scope) = <<>>
      BY <1>1, <1>2, <2>2
    <3>3. \A k \in 1 .. 1 : k = 1
      OBVIOUS
    <3> QED
      BY <3>1, <3>2, <3>3
  <2> QED
    BY <2>1, <2>2, <2>3 DEF Walked
<1>8. VcdOpen(noSpace, map, tree, tables, TopOf(frames).last, TopOf(frames).pending, ids, s)
  <2>1. TopOf(frames).last = None /\ TopOf(frames).pending = <<>>
    BY <1>1 DEF TopOf
  <2> QED
    BY <1>1, <1>3, <2>1, GoodStart DEF VcdOpen
<1> QED
  BY <1>1, <1>3, <1>4, <1>5, <1>6, <1>7, <1>8 DEF VcdBook

(* One step per item.                                                      *)
LEMMA VcdBookStep ==
    ASSUME IInv, ReadVcd, VcdBook
    PROVE  VcdBook'
<1>1. /\ Vcd!Next /\ IsArena(tree, Names) /\ LinksAgree(tree)
      /\ stream \in Seq(VcdEntries) /\ Calls(frames, Ids(tree))
      /\ pos \in 1 .. Len(stream) + 1 /\ Len(stream) \in Nat
  BY DEF ReadVcd, IInv, VcdPlace, VcdBook
<1> DEFINE s == Seen(stream, pos)
           o == noSpace
           n == pos - 1
           e == stream[pos]
           u == Seen(stream, pos + 1)
           top == TopOf(frames)
           open == ScopesAt(s, n + 1)
<1>k. AreKinds(VcdKinds)
  BY DEF AreKinds, VcdKinds
<1>same. Grown(tree, tree)
  BY DEF Grown
<1>w. Walked(frames, tree, open) /\ n + 1 = pos /\ n \in Nat
  <2>1. n + 1 = pos /\ n \in Nat
    BY <1>1
  <2> QED
    BY <2>1 DEF VcdBook
(* What an item finds.                                                     *)
<1>reads. ASSUME NEW kind, Vcd!Walks(kind)
          PROVE  /\ Good(map, tree, tables, top.last, top.pending, ids, s, VcdKinds, VcdPaths(o, s))
                 /\ Longer(s, u, e, n) /\ pos \in 1 .. Len(stream)
                 /\ e \in VcdEntries /\ e.kind = kind /\ Vcd!Item = e
                 /\ Fits(VcdPaths(o, s), VcdPaths(o, u), s)
                 /\ phase = "walking" /\ phase' = phase /\ pos' = pos + 1
                 /\ stream' = stream /\ noSpace' = noSpace
                 /\ CodesDeclared(u) = CodesDeclared(s) \cup (IF e.kind = "var" THEN {e.code} ELSE {})
                 /\ ScopesAt(u, pos + 1) = ScopeStep(e, open)
                 /\ IsCall(top, Ids(tree)) /\ Segments(tree, top.scope) = open
  <2>1. /\ phase = "walking" /\ phase' = phase /\ pos' = pos + 1 /\ pos <= Len(stream)
        /\ stream' = stream /\ noSpace' = noSpace /\ e.kind = kind /\ Vcd!Item = e
    BY <1>reads DEF Vcd!Walks, Vcd!Item
  <2>2. pos \in 1 .. Len(stream)
    BY <1>1, <2>1
  <2>3. e \in VcdEntries
    BY <1>1, <2>2
  <2>4. Longer(s, u, e, n)
    BY <1>1, <2>2, SeenLonger
  <2>5. Good(map, tree, tables, top.last, top.pending, ids, s, VcdKinds, VcdPaths(o, s))
    BY <2>1 DEF VcdBook, VcdOpen
  <2> HIDE DEF s, u, e, n, o
  <2>6. /\ Fits(VcdPaths(o, s), VcdPaths(o, u), s)
        /\ CodesDeclared(u) = CodesDeclared(s) \cup (IF e.kind = "var" THEN {e.code} ELSE {})
    BY <2>4, VcdFits
  <2>7. ScopesAt(u, n + 2) = ScopeStep(e, open)
    BY <2>4, ScopesLonger
  <2>8. n + 2 = pos + 1
    BY <1>w
  <2>9. IsCall(top, Ids(tree)) /\ Segments(tree, top.scope) = open
    BY <1>1, <1>w, WalkedTop
  <2> QED
    BY <2>1, <2>2, <2>3, <2>4, <2>5, <2>6, <2>7, <2>8, <2>9
(* It is enough to show what an item leaves.                               *)
<1>open. ASSUME NEW kind, Vcd!Walks(kind),
                Good(map', tree', tables', TopOf(frames').last, TopOf(frames').pending, ids', u,
                     VcdKinds, VcdPaths(o, u)),
                Numbered(ids'), DOMAIN ids' = CodesDeclared(u),
                Walked(frames', tree', ScopeStep(e, open))
         PROVE  VcdBook'
  <2>1. /\ phase = "walking" /\ phase' = phase /\ pos' = pos + 1 /\ pos \in 1 .. Len(stream)
        /\ stream' = stream /\ noSpace' = noSpace
        /\ ScopesAt(u, pos + 1) = ScopeStep(e, open)
    BY <1>open, <1>reads
  <2>2. Seen(stream', pos') = u
    BY <2>1
  <2>3. pos' \in 1 .. Len(stream') + 1
    BY <1>1, <2>1
  <2> HIDE DEF s, u, e, n
  <2>4. Walked(frames', tree', ScopesAt(Seen(stream', pos'), pos'))
    BY <1>open, <2>1, <2>2
  <2>5. VcdOpen(noSpace', map', tree', tables', TopOf(frames').last, TopOf(frames').pending, ids',
                Seen(stream', pos'))
    BY <1>open, <2>1, <2>2 DEF VcdOpen
  <2> QED
    BY <1>1, <1>open, <2>1, <2>2, <2>3, <2>4, <2>5 DEF VcdBook
<1>step. e.kind \notin {"scope", "up"} => ScopeStep(e, open) = open
  BY DEF ScopeStep
<1>ids. ASSUME NEW kind, Vcd!Walks(kind), kind # "var", ids' = ids
        PROVE  Numbered(ids') /\ DOMAIN ids' = CodesDeclared(u)
  <2>1. Numbered(ids) /\ DOMAIN ids = CodesDeclared(s)
    BY DEF VcdBook
  <2> HIDE DEF s, u, e, o, n, top, open
  <2>2. /\ CodesDeclared(u) = CodesDeclared(s) \cup (IF e.kind = "var" THEN {e.code} ELSE {})
        /\ e.kind = kind
    BY <1>ids, <1>reads
  <2> QED
    BY <1>ids, <2>1, <2>2
<1> HIDE DEF s, o, n, e, u, top, open
(* Items that settle nothing.                                              *)
<1>mark. ASSUME NEW kind, Vcd!Walks(kind), kind \notin {"up", "var", "close"},
                NEW w, Grown(tree, w)
         PROVE  Good(Marked(map, top.last, u, e, n, VcdKinds, Owner(s, n + 1)), w,
                     IF e.kind = "def" THEN Bind(tables, e.handle, e) ELSE tables,
                     IF e.kind = "scope" THEN None ELSE top.last,
                     IF e.kind = "scope" THEN <<>>
                     ELSE IF e.kind = "struct" /\ top.last # None
                          THEN Append(top.pending, StructAttr(n + 1))
                     ELSE top.pending,
                     ids, u, VcdKinds, VcdPaths(o, u))
  <2>1. /\ Good(map, tree, tables, top.last, top.pending, ids, s, VcdKinds, VcdPaths(o, s))
        /\ Longer(s, u, e, n) /\ Fits(VcdPaths(o, s), VcdPaths(o, u), s)
        /\ e.kind \notin {"up", "var", "close"}
    BY <1>mark, <1>reads
  <2> QED
    BY <1>k, <1>mark, <2>1, GoodMarked
<1>is. ASSUME NEW kind, Vcd!Walks(kind)
       PROVE  LET x == Marked(map, top.last, u, e, n, VcdKinds, Owner(s, n + 1))
              IN  /\ kind \notin {"ref", "misc", "def"} => x = map
                  /\ kind = "misc" =>
                       x = IF top.last # None THEN PushAttr(map, top.last, MiscAttr(n + 1)) ELSE map
                  /\ kind = "def" =>
                       x = IF top.last # None THEN PushAttr(map, top.last, EnumAttr(e)) ELSE map
                  /\ kind = "ref" =>
                       x = IF top.last # None /\ e.handle \in DOMAIN tables
                           THEN PushAttr(map, top.last, EnumAttr(tables[e.handle]))
                           ELSE map
  <2> DEFINE x == Marked(map, top.last, u, e, n, VcdKinds, Owner(s, n + 1))
  <2>1. Longer(s, u, e, n) /\ TablesOf(tables, s) /\ e.kind = kind
    <3>1. Good(map, tree, tables, top.last, top.pending, ids, s, VcdKinds, VcdPaths(o, s))
          /\ Longer(s, u, e, n) /\ e.kind = kind
      BY <1>is, <1>reads
    <3> QED
      BY <3>1 DEF Good
  <2>2. /\ e.kind \notin VcdKinds \ {"struct"} => x = map
        /\ e.kind = "misc" /\ "misc" \in VcdKinds =>
             x = IF top.last # None THEN PushAttr(map, top.last, MiscAttr(n + 1)) ELSE map
        /\ e.kind = "def" /\ "def" \in VcdKinds =>
             x = IF top.last # None THEN PushAttr(map, top.last, EnumAttr(e)) ELSE map
        /\ e.kind = "ref" /\ "ref" \in VcdKinds =>
             x = IF top.last # None /\ e.handle \in DOMAIN tables
                 THEN PushAttr(map, top.last, EnumAttr(tables[e.handle]))
                 ELSE map
    BY <1>k, <2>1, MarkIs
  <2>3. /\ "misc" \in VcdKinds /\ "def" \in VcdKinds /\ "ref" \in VcdKinds
        /\ kind \notin {"ref", "misc", "def"} => kind \notin VcdKinds \ {"struct"}
    BY DEF VcdKinds
  <2> HIDE DEF x
  <2> QED
    BY <2>1, <2>2, <2>3 DEF x
(* The innermost call is replaced, or stays.                               *)
<1>set. ASSUME NEW w, Grown(tree, w), NEW f, f.scope = top.scope
        PROVE  /\ Walked([frames EXCEPT ![Len(frames)] = f], w, open)
               /\ TopOf([frames EXCEPT ![Len(frames)] = f]) = f
  <2>1. f.scope = TopOf(frames).scope
    BY <1>set DEF top
  <2> QED
    BY <1>1, <1>w, <1>set, <2>1, WalkedSet
<1>top. Vcd!Top = top
  BY DEF Vcd!Top, Vcd!Last, top, TopOf
<1>call. ASSUME NEW kind, Vcd!Walks(kind), NEW x, NEW y
         PROVE  /\ LET g == [top EXCEPT !.pending = y]
                   IN  g.scope = top.scope /\ g.last = top.last /\ g.pending = y
                /\ LET g == [top EXCEPT !.last = x, !.pending = y]
                   IN  g.scope = top.scope /\ g.last = x /\ g.pending = y
  <2>1. IsCall(top, Ids(tree))
    BY <1>call, <1>reads
  <2> QED
    BY <2>1, CallFields
<1>3. ASSUME Vcd!WalkScope PROVE VcdBook'
  <2> DEFINE f == [scope |-> InternedId(tree, top.scope, e.name), last |-> None, pending |-> <<>>]
             g == [top EXCEPT !.pending = <<>>]
             fs == [frames EXCEPT ![Len(frames)] = g]
             w == Interned(tree, top.scope, e.name)
  <2>w. Vcd!Walks("scope")
    BY <1>3 DEF Vcd!WalkScope
  <2>1. /\ e \in VcdEntries /\ e.kind = "scope" /\ Vcd!Item = e
        /\ IsCall(top, Ids(tree)) /\ Segments(tree, top.scope) = open
    BY <1>reads, <2>w
  <2>2. /\ e.name \in Names /\ tree' = w /\ frames' = Append(fs, f)
        /\ map' = map /\ ids' = ids /\ tables' = tables
    BY <1>3, <1>top, <2>1, VcdIntern, NamesAssumption
       DEF Vcd!WalkScope, Vcd!SetTop, Vcd!Cleared, Vcd!Frame, NamesIn
  <2>3. top.scope \in Ids(tree)
    BY <2>1 DEF IsCall
  <2>4. /\ Grown(tree, w)
        /\ Segments(w, InternedId(tree, top.scope, e.name)) = Append(open, e.name)
    BY <1>1, <2>1, <2>2, <2>3, TreeGrown
  <2>5. g.scope = top.scope /\ g.last = top.last /\ g.pending = <<>>
    BY <1>call, <2>w
  <2>6. IsArena(w, Names) /\ Calls(fs, Ids(w)) /\ IsCall(g, Ids(w))
    <3>1. /\ IsArena(w, Names)
          /\ Ids(tree) \subseteq Ids(w)
      BY <1>1, <2>2, <2>3, TreeGrows
    <3>2. IsCall(g, Ids(tree))
      BY <2>1, CallKept
    <3>3. IsCall(g, Ids(w)) /\ Calls(frames, Ids(w))
      BY <1>1, <3>1, <3>2, CallsGrow DEF IsCall
    <3> HIDE DEF g, w
    <3>4. Calls(fs, Ids(w))
      BY <3>3, CallsSet
    <3> QED
      BY <3>1, <3>3, <3>4
  <2> HIDE DEF g, w
  <2>7. Walked(fs, w, open) /\ TopOf(fs) = g
    BY <1>set, <2>4, <2>5
  <2>8. f.scope = InternedId(tree, top.scope, e.name) /\ f.last = None /\ f.pending = <<>>
    OBVIOUS
  <2> HIDE DEF f, fs
  <2>9. Walked(Append(fs, f), w, Append(open, e.name)) /\ TopOf(Append(fs, f)) = f
    BY <2>2, <2>4, <2>5, <2>6, <2>7, <2>8, WalkedPush
  <2>10. ScopeStep(e, open) = Append(open, e.name)
    BY <2>1 DEF ScopeStep
  <2>11. Marked(map, top.last, u, e, n, VcdKinds, Owner(s, n + 1)) = map
    BY <1>is, <2>w
  <2>12. Good(map', tree', tables', TopOf(frames').last, TopOf(frames').pending, ids', u,
              VcdKinds, VcdPaths(o, u))
    BY <1>mark, <2>w, <2>1, <2>2, <2>4, <2>8, <2>9, <2>11
  <2>13. Walked(frames', tree', ScopeStep(e, open))
    BY <2>2, <2>9, <2>10
  <2>14. Numbered(ids') /\ DOMAIN ids' = CodesDeclared(u)
    BY <1>ids, <2>w, <2>2
  <2> QED
    BY <1>open, <2>w, <2>12, <2>13, <2>14
<1>4. ASSUME Vcd!WalkReturn PROVE VcdBook'
  <2> DEFINE g == [k \in 1 .. Len(frames) - 1 |->
                     IF k = Len(frames) - 1 THEN [frames[k] EXCEPT !.last = None] ELSE frames[k]]
  <2>w. Vcd!Walks("up")
    BY <1>4 DEF Vcd!WalkReturn
  <2>1. /\ Len(frames) > 1 /\ map' = Flushed(map, top.last, top.pending) /\ frames' = g
        /\ ids' = ids /\ tree' = tree /\ tables' = tables
    BY <1>4, <1>top, VcdRecords DEF Vcd!WalkReturn
  <2>2. open # <<>> /\ Walked(g, tree, Front(open)) /\ TopOf(g).last = None /\ TopOf(g).pending = <<>>
    BY <1>1, <1>w, <2>1, WalkedPop
  <2>3. /\ Good(map, tree, tables, top.last, top.pending, ids, s, VcdKinds, VcdPaths(o, s))
        /\ Longer(s, u, e, n) /\ Fits(VcdPaths(o, s), VcdPaths(o, u), s) /\ e.kind = "up"
    BY <1>reads, <2>w
  <2> HIDE DEF g
  <2>4. Good(Flushed(map, top.last, top.pending), tree, tables,
             IF e.kind = "up" THEN None ELSE top.last, <<>>, ids, u, VcdKinds, VcdPaths(o, u))
    BY <1>k, <2>3, GoodSettled
  <2>5. ScopeStep(e, open) = Front(open)
    BY <2>2, <2>3 DEF ScopeStep
  <2>6. Numbered(ids') /\ DOMAIN ids' = CodesDeclared(u)
    BY <1>ids, <2>w, <2>1
  <2>7. Good(map', tree', tables', TopOf(frames').last, TopOf(frames').pending, ids', u,
              VcdKinds, VcdPaths(o, u))
    BY <2>1, <2>2, <2>3, <2>4
  <2>8. Walked(frames', tree', ScopeStep(e, open))
    BY <2>1, <2>2, <2>5
  <2> QED
    BY <1>open, <2>w, <2>6, <2>7, <2>8
<1>5. ASSUME Vcd!WalkAttributeEnd PROVE VcdBook'
  <2> DEFINE g == [top EXCEPT !.pending = <<>>]
             fs == [frames EXCEPT ![Len(frames)] = g]
  <2>w. Vcd!Walks("close")
    BY <1>5 DEF Vcd!WalkAttributeEnd
  <2>1. /\ map' = Flushed(map, top.last, top.pending) /\ frames' = fs
        /\ ids' = ids /\ tree' = tree /\ tables' = tables
    BY <1>5, <1>top, VcdRecords DEF Vcd!WalkAttributeEnd, Vcd!SetTop, Vcd!Cleared
  <2>2. g.scope = top.scope /\ g.last = top.last /\ g.pending = <<>>
    BY <1>call, <2>w
  <2> HIDE DEF g
  <2>3. Walked(fs, tree, open) /\ TopOf(fs) = g
    BY <1>set, <1>same, <2>2
  <2>4. /\ Good(map, tree, tables, top.last, top.pending, ids, s, VcdKinds, VcdPaths(o, s))
        /\ Longer(s, u, e, n) /\ Fits(VcdPaths(o, s), VcdPaths(o, u), s) /\ e.kind = "close"
    BY <1>reads, <2>w
  <2> HIDE DEF fs
  <2>5. Good(Flushed(map, top.last, top.pending), tree, tables,
             IF e.kind = "up" THEN None ELSE top.last, <<>>, ids, u, VcdKinds, VcdPaths(o, u))
    BY <1>k, <2>4, GoodSettled
  <2>6. Numbered(ids') /\ DOMAIN ids' = CodesDeclared(u)
    BY <1>ids, <2>w, <2>1
  <2>7. Good(map', tree', tables', TopOf(frames').last, TopOf(frames').pending, ids', u,
              VcdKinds, VcdPaths(o, u))
    BY <2>1, <2>2, <2>3, <2>4, <2>5
  <2>8. Walked(frames', tree', ScopeStep(e, open))
    BY <1>step, <2>1, <2>3, <2>4
  <2> QED
    BY <1>open, <2>w, <2>6, <2>7, <2>8
<1>6. ASSUME NEW kind \in {"def", "ref", "misc", "malformed"}, Vcd!Walks(kind),
             frames' = frames, ids' = ids, tree' = tree,
             tables' = (IF kind = "def" THEN Bind(tables, e.handle, e) ELSE tables),
             map' = Marked(map, top.last, u, e, n, VcdKinds, Owner(s, n + 1))
      PROVE  VcdBook'
  <2>1. e.kind = kind
    BY <1>6, <1>reads
  <2>2. TopOf(frames') = top
    BY <1>6 DEF top
  <2>3. Good(map', tree', tables', TopOf(frames').last, TopOf(frames').pending, ids', u,
              VcdKinds, VcdPaths(o, u))
    BY <1>6, <1>mark, <1>same, <2>1, <2>2
  <2>4. Walked(frames', tree', ScopeStep(e, open))
    BY <1>6, <1>step, <1>w, <2>1
  <2>5. Numbered(ids') /\ DOMAIN ids' = CodesDeclared(u)
    BY <1>6, <1>ids
  <2> QED
    BY <1>6, <1>open, <2>3, <2>4, <2>5
<1>7. ASSUME Vcd!WalkEnumTable PROVE VcdBook'
  <2>w. Vcd!Walks("def")
    BY <1>7 DEF Vcd!WalkEnumTable
  <2>1. Vcd!Item = e
    BY <1>reads, <2>w
  <2>2. /\ frames' = frames /\ ids' = ids /\ tree' = tree /\ tables' = Bind(tables, e.handle, e)
        /\ map' = IF top.last # None THEN PushAttr(map, top.last, EnumAttr(e)) ELSE map
    BY <1>7, <1>top, <2>1, VcdRecords DEF Vcd!WalkEnumTable
  <2>3. map' = Marked(map, top.last, u, e, n, VcdKinds, Owner(s, n + 1))
    BY <1>is, <2>w, <2>2
  <2> QED
    BY <1>6, <2>w, <2>2, <2>3
<1>8. ASSUME Vcd!WalkEnumRef PROVE VcdBook'
  <2>w. Vcd!Walks("ref")
    BY <1>8 DEF Vcd!WalkEnumRef
  <2>1. Vcd!Item = e
    BY <1>reads, <2>w
  <2>2. /\ frames' = frames /\ ids' = ids /\ tree' = tree /\ tables' = tables
        /\ map' = IF top.last # None /\ e.handle \in DOMAIN tables
                  THEN PushAttr(map, top.last, EnumAttr(tables[e.handle])) ELSE map
    BY <1>8, <1>top, <2>1, VcdRecords DEF Vcd!WalkEnumRef
  <2>3. map' = Marked(map, top.last, u, e, n, VcdKinds, Owner(s, n + 1))
    BY <1>is, <2>w, <2>2
  <2> QED
    BY <1>6, <2>w, <2>2, <2>3
<1>9. ASSUME Vcd!WalkMisc PROVE VcdBook'
  <2>w. Vcd!Walks("misc")
    BY <1>9 DEF Vcd!WalkMisc
  <2>2. /\ frames' = frames /\ ids' = ids /\ tree' = tree /\ tables' = tables
        /\ map' = IF top.last # None THEN PushAttr(map, top.last, MiscAttr(n + 1)) ELSE map
    BY <1>9, <1>top, <1>w, VcdRecords DEF Vcd!WalkMisc
  <2>3. map' = Marked(map, top.last, u, e, n, VcdKinds, Owner(s, n + 1))
    BY <1>is, <2>w, <2>2
  <2> QED
    BY <1>6, <2>w, <2>2, <2>3
<1>10. ASSUME Vcd!WalkMalformed PROVE VcdBook'
  <2>w. Vcd!Walks("malformed")
    BY <1>10 DEF Vcd!WalkMalformed
  <2>2. /\ frames' = frames /\ ids' = ids /\ tree' = tree /\ tables' = tables /\ map' = map
    BY <1>10 DEF Vcd!WalkMalformed
  <2>3. map' = Marked(map, top.last, u, e, n, VcdKinds, Owner(s, n + 1))
    BY <1>is, <2>w, <2>2
  <2> QED
    BY <1>6, <2>w, <2>2, <2>3
<1>11. ASSUME Vcd!WalkStructural PROVE VcdBook'
  <2> DEFINE g == [top EXCEPT !.pending = Append(top.pending, StructAttr(n + 1))]
             fs == [frames EXCEPT ![Len(frames)] = g]
  <2>w. Vcd!Walks("struct")
    BY <1>11 DEF Vcd!WalkStructural
  <2>1. /\ map' = map /\ ids' = ids /\ tree' = tree /\ tables' = tables
        /\ frames' = IF top.last # None THEN fs ELSE frames
    BY <1>11, <1>top, <1>w, VcdRecords DEF Vcd!WalkStructural, Vcd!SetTop
  <2>2. g.scope = top.scope /\ g.last = top.last /\ g.pending = Append(top.pending, StructAttr(n + 1))
    BY <1>call, <2>w
  <2> HIDE DEF g
  <2>3. Walked(fs, tree, open) /\ TopOf(fs) = g
    BY <1>set, <1>same, <2>2
  <2> HIDE DEF fs
  <2>4. Walked(frames', tree', open) /\ TopOf(frames') = IF top.last # None THEN g ELSE top
    BY <1>w, <2>1, <2>3 DEF top
  <2>5. e.kind = "struct"
    BY <1>reads, <2>w
  <2>6. Marked(map, top.last, u, e, n, VcdKinds, Owner(s, n + 1)) = map
    BY <1>is, <2>w
  <2>7. /\ TopOf(frames').last = top.last
        /\ TopOf(frames').pending = IF e.kind = "struct" /\ top.last # None
                                    THEN Append(top.pending, StructAttr(n + 1)) ELSE top.pending
    BY <2>2, <2>4, <2>5
  <2>8. Good(map', tree', tables', TopOf(frames').last, TopOf(frames').pending, ids', u,
              VcdKinds, VcdPaths(o, u))
    BY <1>mark, <1>same, <2>w, <2>1, <2>5, <2>6, <2>7
  <2>9. Numbered(ids') /\ DOMAIN ids' = CodesDeclared(u)
    BY <1>ids, <2>w, <2>1
  <2>10. Walked(frames', tree', ScopeStep(e, open))
    BY <1>step, <2>4, <2>5
  <2> QED
    BY <1>open, <2>w, <2>8, <2>9, <2>10
<1>12. ASSUME Vcd!WalkVar PROVE VcdBook'
  <2> DEFINE h == IF e.code \in DOMAIN ids THEN ids[e.code] ELSE Cardinality(DOMAIN ids)
             G == Bind(ids, e.code, h)
             leaf == VcdLeaf(o, e.name)
             id == InternedId(tree, top.scope, leaf)
             w == Interned(tree, top.scope, leaf)
             g == [top EXCEPT !.last = h, !.pending = <<>>]
             fs == [frames EXCEPT ![Len(frames)] = g]
  <2>w. Vcd!Walks("var")
    BY <1>12 DEF Vcd!WalkVar
  <2>1. /\ Good(map, tree, tables, top.last, top.pending, ids, s, VcdKinds, VcdPaths(o, s))
        /\ Longer(s, u, e, n) /\ Fits(VcdPaths(o, s), VcdPaths(o, u), s)
        /\ e \in VcdEntries /\ e.kind = "var" /\ Vcd!Item = e
        /\ IsCall(top, Ids(tree)) /\ Segments(tree, top.scope) = open
        /\ CodesDeclared(u) = CodesDeclared(s) \cup {e.code}
    BY <1>reads, <2>w
  <2>2. Vcd!HandleOf(e.code) = h /\ Vcd!SpeltVcd(e.name) = leaf /\ leaf \in Names
    <3>1. Vcd!HandleOf(e.code) = h
      BY VcdRecords DEF Vcd!HandleOf
    <3>2. Vcd!SpeltVcd(e.name) = leaf
      BY DEF Vcd!SpeltVcd, VcdLeaf, Vcd!Tight, Tight, o
    <3>3. leaf \in Names
      BY <2>1, NamesAssumption DEF VcdLeaf, NamesIn
    <3> QED
      BY <3>1, <3>2, <3>3
  <2>3. /\ ids' = G /\ tree' = w /\ tables' = tables /\ frames' = fs
        /\ map' = WithVar(Flushed(map, top.last, top.pending), h, id)
    <3> HIDE DEF h, leaf
    <3> QED
      BY <1>12, <1>top, <2>1, <2>2, VcdIntern, VcdRecords DEF Vcd!WalkVar, Vcd!SetTop
  <2>4. /\ Numbered(G) /\ DOMAIN G = DOMAIN ids \cup {e.code} /\ G[e.code] = h
        /\ \A d \in DOMAIN ids : G[d] = ids[d]
    <3>1. Numbered(ids)
      BY DEF VcdBook
    <3> QED
      BY <3>1, NumberedNext
  <2> HIDE DEF G, h, leaf
  <2>5. DOMAIN ids = CodesDeclared(s)
    BY DEF VcdBook, s
  <2>6. DOMAIN G = CodesDeclared(u)
    BY <2>1, <2>4, <2>5
  <2>7. Handles(G, u)
    BY <2>4, <2>6, NumbersHandles
  <2>8. g.scope = top.scope /\ g.last = h /\ g.pending = <<>>
    BY <1>call, <2>w
  <2>9. top.scope \in Ids(tree)
    BY <2>1 DEF IsCall
  <2>10. Grown(tree, w) /\ id \in Ids(w) /\ Segments(w, id) = Append(open, leaf)
    BY <1>1, <2>1, <2>2, <2>9, TreeGrown
  <2> HIDE DEF g, w, id
  <2>11. Walked(fs, w, open) /\ TopOf(fs) = g
    BY <1>set, <2>8, <2>10
  <2> HIDE DEF fs
  <2>12. Segments(w, id) = VcdPaths(o, u)[n + 1]
    BY <2>1, <2>10, VcdFits DEF open, leaf
  <2>13. Good(WithVar(Flushed(map, top.last, top.pending), G[e.code], id), w, tables, G[e.code], <<>>,
              G, u, VcdKinds, VcdPaths(o, u))
    BY <1>k, <2>1, <2>4, <2>5, <2>7, <2>10, <2>12, GoodVar
  <2>14. Good(map', tree', tables', TopOf(frames').last, TopOf(frames').pending, ids', u,
              VcdKinds, VcdPaths(o, u))
    BY <2>3, <2>4, <2>8, <2>11, <2>13
  <2>15. Walked(frames', tree', ScopeStep(e, open))
    BY <1>step, <2>1, <2>3, <2>11
  <2> QED
    BY <1>open, <2>w, <2>3, <2>4, <2>6, <2>14, <2>15
<1>13. ASSUME Vcd!WalkEnd PROVE VcdBook'
  <2> DEFINE g == [top EXCEPT !.pending = <<>>]
             fs == [frames EXCEPT ![Len(frames)] = g]
  <2>1. /\ phase = "walking" /\ phase' = "built" /\ pos > Len(stream)
        /\ map' = Flushed(map, top.last, top.pending) /\ frames' = fs
        /\ stream' = stream /\ noSpace' = noSpace /\ pos' = pos
        /\ ids' = ids /\ tree' = tree /\ tables' = tables
    BY <1>13, <1>top, VcdRecords DEF Vcd!WalkEnd, Vcd!SetTop, Vcd!Cleared
  <2>2. IsCall(top, Ids(tree))
    BY <1>1, <1>w, WalkedTop DEF top
  <2>3. g.scope = top.scope /\ g.last = top.last /\ g.pending = <<>>
    BY <2>2, CallFields
  <2> HIDE DEF g
  <2>4. Walked(fs, tree, open) /\ TopOf(fs) = g
    BY <1>set, <1>same, <2>3
  <2> HIDE DEF fs
  <2>5. Good(map, tree, tables, top.last, top.pending, ids, s, VcdKinds, VcdPaths(o, s))
    BY <2>1 DEF VcdBook, VcdOpen, s, o, top
  <2>6. pos = Len(stream) + 1
    BY <1>1, <2>1
  <2>7. DOMAIN s = 1 .. n /\ Len(s) = n
    <3>1. n \in 0 .. Len(stream)
      BY <1>1 DEF n
    <3>2. s = SubSeq(stream, 1, n)
      BY DEF s, Seen, n
    <3>3. Len(SubSeq(stream, 1, n)) = n /\ DOMAIN SubSeq(stream, 1, n) = 1 .. n
      BY <1>1, <3>1
    <3> QED
      BY <3>2, <3>3
  <2>8. Kept(Flushed(map, top.last, top.pending), tree, ids, s, Declared(s, VcdKinds), VcdPaths(o, s))
    BY <1>w, <1>k, <2>5, <2>7, GoodEnd
  <2>9. Handles(ids, s) /\ top.last = LastOf(ids, s)
    BY <2>5 DEF Good
  <2>10. Seen(stream', pos') = s
    BY <2>1 DEF s
  <2>11. Numbered(ids) /\ DOMAIN ids = CodesDeclared(s)
    BY DEF VcdBook, s
  <2>12. VcdClosed(noSpace', map', tree', ids', s)
    BY <2>1, <2>8 DEF VcdClosed, o
  <2>13. Walked(frames', tree', ScopesAt(s, pos'))
    BY <1>w, <2>1, <2>4 DEF open
  <2> QED
    BY <1>1, <2>1, <2>3, <2>4, <2>6, <2>9, <2>10, <2>11, <2>12, <2>13 DEF VcdBook
<1>14. ASSUME Vcd!ParseFail \/ Vcd!EndDefinitions \/ Vcd!WalkConflict PROVE VcdBook'
  <2>1. /\ phase # "built" /\ phase' \in {"refused", "walking"}
        /\ UNCHANGED << stream, noSpace, pos, frames, map, ids, tree, tables >>
    BY <1>14 DEF Vcd!ParseFail, Vcd!EndDefinitions, Vcd!WalkConflict
  <2> QED
    BY <2>1 DEF VcdBook
<1>15. ASSUME NEW c \in VcdEntries, Vcd!ParseCommand(c) PROVE VcdBook'
  <2>1. /\ phase = "parsing" /\ phase' = phase /\ stream' = Append(stream, c)
        /\ UNCHANGED << noSpace, pos, frames, map, ids, tree, tables >>
    BY <1>15 DEF Vcd!ParseCommand
  <2>2. pos = 1
    BY <2>1 DEF VcdBook
  <2>3. stream' \in Seq(VcdEntries) /\ Len(stream') = Len(stream) + 1
    BY <1>1, <2>1
  <2>4. Seen(stream', pos') = Seen(stream, pos)
    <3>1. SubSeq(stream', 1, 0) = <<>> /\ SubSeq(stream, 1, 0) = <<>>
      BY <1>1, <2>3
    <3>2. pos' - 1 = 0 /\ pos - 1 = 0
      BY <2>1, <2>2
    <3> QED
      BY <3>1, <3>2 DEF Seen
  <2>5. pos' \in 1 .. Len(stream') + 1
    BY <1>1, <2>1, <2>2, <2>3
  <2> QED
    BY <2>1, <2>2, <2>3, <2>4, <2>5 DEF VcdBook
<1> QED
  BY <1>1, <1>3, <1>4, <1>5, <1>7, <1>8, <1>9, <1>10, <1>11, <1>12, <1>13, <1>14, <1>15 DEF Vcd!Next

(* The end of the header.                                                  *)
LEMMA VcdBookDeclared == VcdBook => Vcd!AsDeclared
<1> SUFFICES ASSUME VcdBook, phase = "built" PROVE Vcd!AsDeclared
  BY DEF Vcd!AsDeclared
<1> DEFINE s == stream
           P == VcdPaths(noSpace, s)
<1>1. s \in Seq(VcdEntries) /\ pos = Len(s) + 1 /\ Len(s) \in Nat /\ DOMAIN s = 1 .. Len(s)
  BY DEF VcdBook
<1>2. Seen(stream, pos) = s
  <2>1. pos - 1 = Len(s)
    BY <1>1
  <2>2. SubSeq(s, 1, Len(s)) = s
    BY <1>1
  <2> QED
    BY <2>1, <2>2 DEF Seen
<1>3. Kept(map, tree, ids, s, Declared(s, VcdKinds), P) /\ DOMAIN ids = CodesDeclared(s)
  BY <1>2 DEF VcdBook, VcdClosed
<1>4. ASSUME NEW c \in DOMAIN ids
      PROVE  Vcd!Recorded(tree, map[ids[c]])
               = Vcd!SignalDeclared(stream, {"struct", "ref", "misc", "def"}, Vcd!SpeltVcd, c)
  <2> DEFINE V == VarsWith(s, c)
             order == Ascending(V)
             l == Cardinality(V)
  <2>1. Recorded(tree, map[ids[c]]) =
          [k \in DOMAIN order |->
             [path |-> P[order[k]], attrs |-> AttrsDeclared(s, VcdKinds, order[k])]]
    <3> DEFINE n == Len(s)
    <3>1. n \in Nat /\ DOMAIN s = 1 .. n
      BY <1>1
    <3> HIDE DEF s, P, n
    <3> QED
      BY <1>3, <3>1, RecordedIs
  <2>2. Vcd!SignalDeclared(stream, {"struct", "ref", "misc", "def"}, Vcd!SpeltVcd, c) =
          [k \in DOMAIN order |->
             [path |-> Append(ScopesAt(s, order[k]), Vcd!SpeltVcd(s[order[k]].name)),
              attrs |-> AttrsDeclared(s, VcdKinds, order[k])]]
    <3>1. {v \in Vcd!Positions(s, {"var"}) : s[v].code = c} = V
      BY VcdDeclares DEF VarsWith, Vars
    <3>2. Vcd!Ascending({v \in Vcd!Positions(s, {"var"}) : s[v].code = c}) = order
      BY <3>1, VcdDeclares
    <3> HIDE DEF V, order
    <3> QED
      BY <3>2, VcdDeclares DEF Vcd!SignalDeclared, VcdKinds
  <2>3. \A k \in DOMAIN order : order[k] \in Vars(s)
    <3>1. V \in SUBSET (1 .. Len(s)) /\ \A v \in V : v \in Vars(s)
      BY <1>1 DEF VarsWith, Vars, Positions
    <3> HIDE DEF V
    <3>2. order \in [1 .. l -> V]
      BY <1>1, <3>1, AscendingOnto
    <3> HIDE DEF order, l
    <3> QED
      BY <3>1, <3>2
  <2>4. \A v \in Vars(s) : P[v] = Append(ScopesAt(s, v), Vcd!SpeltVcd(s[v].name))
    BY DEF VcdPaths, VcdLeaf, Vcd!SpeltVcd, Vcd!Tight, Tight
  <2> HIDE DEF order, P, V, l
  <2>5. \A k \in DOMAIN order :
          [path |-> P[order[k]], attrs |-> AttrsDeclared(s, VcdKinds, order[k])]
            = [path |-> Append(ScopesAt(s, order[k]), Vcd!SpeltVcd(s[order[k]].name)),
               attrs |-> AttrsDeclared(s, VcdKinds, order[k])]
    BY <2>3, <2>4
  <2> QED
    BY <2>1, <2>2, <2>5, VcdDeclares
<1> QED
  BY <1>3, <1>4, VcdDeclares DEF Vcd!AsDeclared

(* At every moment the handles are 0 .. n - 1, all with variables.         *)
LEMMA VcdBookTyped == IInv /\ format = "vcd" /\ VcdBook => Vcd!TypeOK
<1> SUFFICES ASSUME IInv, format = "vcd", VcdBook PROVE Vcd!TypeOK
  OBVIOUS
<1> DEFINE n == pos - 1
           s == Seen(stream, pos)
           top == TopOf(frames)
<1>1. /\ stream \in Seq(VcdEntries) /\ Len(stream) \in Nat /\ n + 1 = pos
      /\ n \in 0 .. Len(stream) /\ n \in Nat
  BY DEF VcdBook
<1>2. DOMAIN s = 1 .. n /\ Len(s) = n /\ \A k \in 1 .. n : stream[k] = s[k]
  <2>1. s = SubSeq(stream, 1, n)
    BY DEF Seen
  <2> HIDE DEF s, n
  <2>2. Len(SubSeq(stream, 1, n)) = n /\ DOMAIN SubSeq(stream, 1, n) = 1 .. n
        /\ \A k \in 1 .. n : SubSeq(stream, 1, n)[k] = stream[k]
    BY <1>1
  <2> QED
    BY <2>1, <2>2
<1>3. ScopesAt(stream, pos) = ScopesAt(s, pos)
  <2>1. Alike(stream, s, pos - 1) /\ pos \in Nat \ {0}
    BY <1>1, <1>2 DEF Alike
  <2> QED
    BY <2>1, ScopesSteps
<1>4. Numbered(ids) /\ DOMAIN ids = CodesDeclared(s) /\ Walked(frames, tree, ScopesAt(s, pos))
  BY DEF VcdBook
<1>5. /\ Handles(ids, s) /\ top.last = LastOf(ids, s)
      /\ \E A : Kept(map, tree, ids, s, A, VcdPaths(noSpace, s))
      /\ top.pending = Pending(s) \/ top.pending = <<>>
  <2>1. CASE phase = "built"
    BY <2>1 DEF VcdBook, VcdClosed
  <2>2. CASE phase # "built"
    BY <2>2 DEF VcdBook, VcdOpen, Good
  <2> QED
    BY <2>1, <2>2
<1>6. Calls(frames, Ids(tree))
  BY DEF IInv, VcdPlace
<1> HIDE DEF s, n, top
<1>7. /\ DOMAIN map = {ids[c] : c \in CodesDeclared(s)}
      /\ \A c \in CodesDeclared(s) :
           /\ map[ids[c]] # <<>>
           /\ \A k \in DOMAIN map[ids[c]] : map[ids[c]][k].name \in Ids(tree)
  BY <1>1, <1>2, <1>5, KeptTyped
<1>8. DOMAIN map = 0 .. Cardinality(DOMAIN ids) - 1
  BY <1>4, <1>7 DEF Numbered
<1>9. phase = "walking" => Len(frames) = 1 + Len(Vcd!ScopesAt(stream, pos))
  BY <1>3, <1>4, VcdDeclares DEF Walked
<1>10. ASSUME NEW k \in DOMAIN frames, frames[k].pending # <<>> PROVE frames[k].last \in DOMAIN map
  <2>1. Len(frames) \in Nat \ {0} /\ DOMAIN frames = 1 .. Len(frames)
    <3>1. /\ Len(frames) \in Nat \ {0} /\ frames \in Seq({frames[j] : j \in 1 .. Len(frames)})
      BY <1>6, CallsLen
    <3> QED
      BY <3>1
  <2>2. k = Len(frames)
    <3>1. k \notin 1 .. Len(frames) - 1
      BY <1>4, <1>10 DEF Walked
    <3> QED
      BY <2>1, <3>1
  <2>3. Pending(s) # <<>>
    BY <1>5, <1>10, <2>2 DEF top, TopOf
  <2>4. \E c \in CodesDeclared(s) : LastOf(ids, s) = ids[c]
    BY <1>1, <1>2, <1>5, <2>3, LastKnown
  <2>5. LastOf(ids, s) \in DOMAIN map
    BY <1>7, <2>4
  <2> QED
    BY <1>5, <2>2, <2>5 DEF top, TopOf
<1> QED
  BY <1>4, <1>7, <1>8, <1>9, <1>10, VcdRecords DEF Vcd!TypeOK

-----------------------------------------------------------------------------
(* What the readers have recorded, for either format.                      *)
HInv ==
    /\ IInv
    /\ format = "fst" => FstBook
    /\ format = "vcd" => VcdBook

(* Before anything is read.                                                *)
LEMMA InitBook == Init => HInv
BY InitIInv, FstBookInit, VcdBookInit DEF HInv

(* Every step, and a stutter.                                              *)
LEMMA NextBook == HInv /\ [Next]_vars => HInv'
<1> SUFFICES ASSUME HInv, [Next]_vars PROVE HInv'
  OBVIOUS
<1>1. IInv /\ IInv'
  BY NextIInv DEF HInv
<1>2. CASE ReadFst
  <2>1. format = "fst" /\ format' = "fst"
    BY <1>2 DEF ReadFst
  <2> QED
    BY <1>1, <1>2, <2>1, FstBookStep DEF HInv
<1>3. CASE ReadVcd
  <2>1. format = "vcd" /\ format' = "vcd"
    BY <1>3 DEF ReadVcd
  <2> QED
    BY <1>1, <1>3, <2>1, VcdBookStep DEF HInv
<1>4. CASE UNCHANGED vars
  <2>1. UNCHANGED << format, stream, noSpace, map, tree, tables, done, scope, last, pending,
                     phase, pos, frames, ids >>
    BY <1>4 DEF vars, fstOnly, vcdOnly
  <2>2. FstBook => FstBook'
    BY <2>1 DEF FstBook
  <2>3. VcdBook => VcdBook'
    BY <2>1 DEF VcdBook
  <2> QED
    BY <1>1, <2>1, <2>2, <2>3 DEF HInv
<1> QED
  BY <1>2, <1>3, <1>4 DEF Next

(* For hierarchies of any length, in either format, every signal has the   *)
(* names and annotations that the file declares, in their order: early     *)
(* clearing, pending annotations and the recursion of walk attach each     *)
(* annotation to the variable it follows, once, and no other               *)
(* (build_hierarchy, VcdHierarchyBuilder::walk).                           *)
THEOREM DeclaredExactly == Spec => []AsDeclared
<1>1. HInv => AsDeclared
  <2> SUFFICES ASSUME HInv PROVE AsDeclared
    OBVIOUS
  <2>1. format \in {"fst", "vcd"}
    BY DEF HInv, IInv
  <2> QED
    BY <2>1, FstBookDeclared, VcdBookDeclared DEF HInv, AsDeclared
<1> QED
  BY <1>1, InitBook, NextBook, PTL DEF Spec

(* Pending annotations always have a variable to go to, and the handles of *)
(* a VCD file are 0 .. n - 1 for its n identifier codes, which is what the *)
(* include sets of a comparison rely on (diff.rs:252-257).                 *)
THEOREM HierarchyTyped == Spec => []TypeOK
<1>1. HInv => TypeOK
  <2> SUFFICES ASSUME HInv PROVE TypeOK
    OBVIOUS
  <2>1. format \in {"fst", "vcd"}
    BY DEF HInv, IInv
  <2> QED
    BY <2>1, FstBookTyped, VcdBookTyped DEF HInv, TypeOK
<1> QED
  BY <1>1, InitBook, NextBook, PTL DEF Spec
=============================================================================
