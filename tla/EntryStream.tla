----------------------------- MODULE EntryStream -----------------------------
(***************************************************************************)
(* What the entries of a stream mean by their positions alone: which       *)
(* scopes are open, which variable an annotation belongs to, where a       *)
(* structural annotation is settled and which table a reference means.     *)
(* Declarations says what the entries are.                                 *)
(***************************************************************************)
EXTENDS Integers, Sequences, SequencesExt

(* The scopes that are open at p, outermost first.                         *)
ScopesAt(stream, p) ==
    LET open[k \in 0 .. p - 1] ==
          IF k = 0 THEN <<>>
          ELSE CASE stream[k].kind = "scope" -> Append(open[k - 1], stream[k].name)
                 [] stream[k].kind = "up" /\ open[k - 1] # <<>> -> Front(open[k - 1])
                 [] OTHER -> open[k - 1]
    IN  open[p - 1]

Positions(stream, kinds) == {p \in DOMAIN stream : stream[p].kind \in kinds}

(* The variable an annotation follows, with no scope opened or closed in   *)
(* between; 0 when there is none.                                          *)
Owner(stream, p) ==
    LET before == {q \in Positions(stream, {"scope", "up", "var"}) : q < p}
    IN  IF before # {} /\ stream[Max(before)].kind = "var" THEN Max(before) ELSE 0

(* Where a structural annotation is settled: at the entry that shows what  *)
(* it describes.  Followed by a scope, it describes that scope.            *)
Settled(stream, p) ==
    Min({q \in Positions(stream, {"scope", "up", "var", "close"}) : q > p}
          \cup {Len(stream) + 1})

DescribesScope(stream, p) ==
    Settled(stream, p) <= Len(stream) /\ stream[Settled(stream, p)].kind = "scope"

(* The enum table a reference means: the latest definition of its handle.  *)
Definitions(stream, p) ==
    {q \in Positions(stream, {"def"}) : q < p /\ stream[q].handle = stream[p].handle}

Attached(stream, kinds, v) ==
    {p \in Positions(stream, kinds) :
        /\ Owner(stream, p) = v
        /\ stream[p].kind = "struct" => ~DescribesScope(stream, p)
        /\ stream[p].kind = "ref" => Definitions(stream, p) # {}}

Effective(stream, p) == IF stream[p].kind = "struct" THEN Settled(stream, p) ELSE p

Earlier(stream, p, q) ==
    \/ Effective(stream, p) < Effective(stream, q)
    \/ Effective(stream, p) = Effective(stream, q) /\ p < q

Earliest(stream) ==
    {pair \in (DOMAIN stream) \X (DOMAIN stream) : Earlier(stream, pair[1], pair[2])}
=============================================================================
