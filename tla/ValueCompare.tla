---------------------------- MODULE ValueCompare ----------------------------
(***************************************************************************)
(* Whether two values of a signal are the same (approx_eq of               *)
(* src/src/diff.rs).  An FST reader delivers the value of a real signal as *)
(* a number, a VCD reader delivers every value as text: a real as Rust     *)
(* writes it, a vector as its digits.  So one signal is compared as number *)
(* with number, number with text or text with text, as the inputs have it. *)
(*                                                                         *)
(* A float is a finite number or one of four others; sums and differences  *)
(* of finite numbers are exact, rounding is left out.  A text is the float *)
(* it can be parsed as, or None, and its spelling.                         *)
(***************************************************************************)
EXTENDS Integers

CONSTANTS Finite,      \* the finite numbers
          Tolerances,  \* the values of --epsilon
          Infinity, NegInfinity, NaN, NegZero,
          None

ASSUME FloatsAssumption ==
    /\ Finite \subseteq Int /\ Tolerances \subseteq Nat /\ 0 \in Finite
    /\ {Infinity, NegInfinity, NaN, NegZero} \cap Int = {}
    /\ NegZero \notin {Infinity, NegInfinity, NaN} /\ NaN \notin {Infinity, NegInfinity}
    /\ None \notin Int \cup {Infinity, NegInfinity, NaN, NegZero}

Floats == Finite \cup {Infinity, NegInfinity, NaN, NegZero}

(* "plain" is the text that Rust writes; another spelling of a number has  *)
(* leading zeros, say; a vector with an x is no number.                    *)
Number(f) == [form |-> "number", float |-> f, spelling |-> "plain"]
Text(f, spelling) == [form |-> "text", float |-> f, spelling |-> spelling]

Texts == {Text(f, s) : f \in Finite, s \in {"plain", "other"}} \cup {Text(None, "plain")}
RealTexts == {Text(f, "plain") : f \in Floats}

(* What a reader can deliver for a signal.                                 *)
Delivered(format, isReal) ==
    IF ~isReal THEN Texts ELSE IF format = "fst" THEN {Number(f) : f \in Floats} ELSE RealTexts

VARIABLES isReal,      \* for each side, whether the signal is declared real
          value,       \* the two values
          epsilon,     \* real_epsilon
          same         \* what approx_eq returns, once it has

valueVars == << isReal, value, epsilon, same >>

Operands == {1, 2}

ValuesInit ==
    /\ isReal \in [Operands -> BOOLEAN]
    /\ value \in [Operands -> Texts \cup RealTexts \cup {Number(f) : f \in Floats}]
    /\ \A s \in Operands : \E format \in {"fst", "vcd"} : value[s] \in Delivered(format, isReal[s])
    /\ epsilon \in Tolerances \cup {None}
    /\ same = "unknown"

-----------------------------------------------------------------------------
IsFinite(f) == f \in Finite \cup {NegZero}
Magnitude(f) == IF f = NegZero THEN 0 ELSE f

(* IEEE: NaN equals nothing, the zeros are equal.                          *)
FloatEq(f, g) == f # NaN /\ g # NaN /\ (f = g \/ (IsFinite(f) /\ IsFinite(g) /\ Magnitude(f) = Magnitude(g)))

(* Mutant: the difference is not taken absolutely.                         *)
WithinSigned(f, g, eps) ==
    IsFinite(f) /\ IsFinite(g) /\ Magnitude(f) - Magnitude(g) <= eps

(* The difference of infinities is infinite or NaN.                        *)
Within(f, g, eps) ==
    /\ IsFinite(f) /\ IsFinite(g)
    /\ Magnitude(f) - Magnitude(g) <= eps /\ Magnitude(g) - Magnitude(f) <= eps

(* Number against text: as texts.                                          *)
Equal(v, w) ==
    IF v.form = "number" /\ w.form = "number"
    THEN FloatEq(v.float, w.float)
    ELSE v.float = w.float /\ v.spelling = w.spelling

(* Mutant: the tolerance is used for every signal.                         *)
UseEpsilonAlways(real, eps) == eps # None

UseEpsilon(real, eps) == eps # None /\ real[1] /\ real[2]

ApproxEq(v, w, eps) ==
    IF v.form = "number" /\ w.form = "number"
    THEN Within(v.float, w.float, eps)
    ELSE Equal(v, w) \/ (v.float # None /\ w.float # None /\ Within(v.float, w.float, eps))

SameValue(v, w) == IF UseEpsilon(isReal, epsilon) THEN ApproxEq(v, w, epsilon) ELSE Equal(v, w)

CompareValues ==
    /\ same = "unknown"
    /\ same' = IF SameValue(value[1], value[2]) THEN "yes" ELSE "no"
    /\ UNCHANGED << isReal, value, epsilon >>

ValuesSpec == ValuesInit /\ [][CompareValues]_valueVars

-----------------------------------------------------------------------------
ValuesOK ==
    /\ isReal \in [Operands -> BOOLEAN]
    /\ \A s \in Operands : \E format \in {"fst", "vcd"} : value[s] \in Delivered(format, isReal[s])
    /\ epsilon \in Tolerances \cup {None}
    /\ same \in {"unknown", "yes", "no"}

Ordinary(f) == f \in Finite

(* Reals are compared by their distance and nothing else: not by the       *)
(* format of either file, "so that an FST real matches its VCD string      *)
(* equivalent" (diff.rs:56-58).  Finite numbers except -0.                 *)
RealsByDistance ==
    (same # "unknown" /\ isReal[1] /\ isReal[2] /\ Ordinary(value[1].float) /\ Ordinary(value[2].float))
        => LET allowed == IF epsilon = None THEN 0 ELSE epsilon
               f == value[1].float
               g == value[2].float
           IN  same = "yes" <=> (f - g <= allowed /\ g - f <= allowed)

(* Vectors are compared digit by digit whatever the tolerance, although    *)
(* many of them can be parsed as numbers (diff.rs:91-93, 409-410).         *)
VectorsExact ==
    (same # "unknown" /\ ~isReal[1] /\ ~isReal[2]) => (same = "yes" <=> value[1] = value[2])
=============================================================================
