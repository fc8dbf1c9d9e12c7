-------------------------------- MODULE IdCode --------------------------------
(***************************************************************************)
(* The codes of the signals in a VCD file (src/src/vcd/idcode.rs): numbers *)
(* of a machine word written in a bijective numeration, the lowest digit   *)
(* first, so that every nonempty text over the characters is one code.     *)
(***************************************************************************)
EXTENDS Integers, Sequences, SequencesExt

CONSTANTS IdChars,   \* the characters of codes in order, ID_CHAR_MIN to ID_CHAR_MAX
          MaxId,     \* the largest number of a word, u64::MAX
          Overflow

ASSUME IdBounds == IdChars \in Seq(STRING) /\ Len(IdChars) > 1 /\ MaxId \in Nat

Base == Len(IdChars)
Digit(char) == CHOOSE d \in DOMAIN IdChars : IdChars[d] = char

(* IdCode::new: one more than the code must fit the word.                  *)
IdOf(text) ==
    LET Next(char, sum) ==
          IF sum = Overflow THEN Overflow
          ELSE IF sum * Base + Digit(char) > MaxId THEN Overflow ELSE sum * Base + Digit(char)
        sum == FoldRight(Next, text, 0)
    IN  IF sum = Overflow THEN Overflow ELSE sum - 1

(* Mutant: the numeration is the ordinary one.                             *)
IdTextPositional(id) ==
    LET digits[i \in 0 .. id] ==
          << IdChars[(i % Base) + 1] >> \o IF i < Base THEN <<>> ELSE digits[i \div Base]
    IN  digits[id]

(* Display                                                                 *)
IdText(id) ==
    LET digits[i \in 0 .. id] ==
          << IdChars[(i % Base) + 1] >> \o IF i < Base THEN <<>> ELSE digits[(i \div Base) - 1]
    IN  digits[id]
=============================================================================
