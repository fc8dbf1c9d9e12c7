-------------------------- MODULE VcdParserReference -------------------------
(***************************************************************************)
(* What the parser should make of an input, token by token: no bytes, no   *)
(* buffers, no state but the place in the input.                           *)
(***************************************************************************)
EXTENDS VcdParser

Blank(s, p) == s[p] \in White
FirstWord(s, p) == Min({q \in p .. Len(s) : ~Blank(s, q)} \cup {Len(s) + 1})
WordEnd(s, p) == Min({q \in FirstWord(s, p) .. Len(s) : Blank(s, q)} \cup {Len(s) + 1}) - 1
WordAt(s, p) == SubSeq(s, FirstWord(s, p), WordEnd(s, p))
LineOf(s, p) == 1 + Newlines(SubSeq(s, 1, p - 1))

TextEnd(s, p) == Min({q \in p + 1 .. Len(s) : SubSeq(s, q - 1, q) = End} \cup {Len(s) + 1})

(* The byte where a field goes wrong, and how, or 0.                       *)
Invalid(s, field, p) ==
    {q \in FirstWord(s, p) .. WordEnd(s, p) : field = "bits" /\ s[q] \notin Values}
TooLong(s, field, p) ==
    field \notin Unbounded \cup {"bits"} /\ WordEnd(s, p) - FirstWord(s, p) >= MaxToken

Outcome(done, kind, at) == [commands |-> done, error |-> << kind, at >>]

(* rest: the fields to read from p on; taken: those read; open: the begin  *)
(* that an end would match; 0 for none.                                    *)
RECURSIVE Reading(_, _, _, _, _, _, _)
Reading(s, p, rest, taken, done, open, after) ==
    IF rest = <<>> /\ taken # <<>>
    THEN IF IsAttribute(taken) /\ taken[3] \notin Types("attribute")
         THEN Reading(s, p, <<>>, <<>>, done, open, TRUE)
         ELSE Reading(s, p, <<>>, <<>>, Append(done, Returned(taken)), open, FALSE)
    ELSE IF rest = <<>>
    THEN LET q == FirstWord(s, p)
         IN  IF q > Len(s)
             THEN IF after THEN Outcome(done, "end of file", None)
                           ELSE [commands |-> done, error |-> None]
             ELSE IF s[q] \notin Starts
             THEN Outcome(done, "unexpected character", LineOf(s, q))
             ELSE Reading(s, q + 1, FieldsOf(s[q]), << << s[q] >> >>, done, open, after)
    ELSE IF Head(rest) = "text"
    THEN IF TextEnd(s, p) > Len(s) THEN Outcome(done, "end of file", None)
         ELSE Reading(s, TextEnd(s, p) + 1, <<>>,
                      Append(taken, Trimmed(SubSeq(s, p, TextEnd(s, p) - 2))), done, open, after)
    ELSE LET field == Head(rest)
             word == WordAt(s, p)
         IN  CASE TooLong(s, field, p) ->
                    Outcome(done, "token too long", LineOf(s, FirstWord(s, p)))
               [] Invalid(s, field, p) # {} ->
                    Outcome(done, "invalid value", LineOf(s, FirstWord(s, p)))
               [] ~TooLong(s, field, p) /\ Invalid(s, field, p) = {} /\ WordEnd(s, p) = Len(s) ->
                    Outcome(done, "end of file", None)
               [] OTHER ->
                    LET next == WordEnd(s, p) + 2
                        why == Refused(field, word)
                    IN  IF field = "keyword" /\ word = << "E" >>
                        THEN IF open = 0
                             THEN Outcome(done, "unmatched end", LineOf(s, FirstWord(s, p)))
                             ELSE Reading(s, next, <<>>, << << "$" >>, word, open >>, done, 0, after)
                        ELSE IF why # None
                        THEN Outcome(done, why, LineOf(s, FirstWord(s, p)))
                        ELSE Reading(s, next, Remaining(field, word, Tail(rest)),
                                     taken \o Meanings(field, word), done,
                                     IF field = "keyword" /\ word = << "D" >>
                                     THEN Len(done) + 1 ELSE open, after)

(* The input gives the commands of its tokens up to the first error, with  *)
(* the error's line: how it was buffered does not matter, no command is    *)
(* made of an input cut short, and an error is found as soon as its token  *)
(* has been read.                                                          *)
ParsedByTokens ==
    ~Running =>
        LET whole == Reading(input, 1, <<>>, <<>>, <<>>, 0, FALSE)
        IN  commands = whole.commands /\ error = whole.error
=============================================================================
