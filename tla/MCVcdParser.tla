----------------------------- MODULE MCVcdParser -----------------------------
(* Any input of a few bytes over those that matter in the value changes;   *)
(* nested simulation commands; what follows the beginning of a variable,   *)
(* of a time scale and of an annotation, and what follows an annotation    *)
(* that was skipped.  Files of two commands of any kind, written and read. *)
EXTENDS VcdWriter

Form(bytes, opening, more) ==
    [bytes |-> bytes, opening |-> opening, length |-> Len(opening) + more]

Skipped == << "$", "A", "n", "0", "n", "$", "E", "n" >>

MCForms == { Form({" ", "n", "#", "0", "b", "r", "$", "D", "E", "C"}, <<>>, 6),
             Form({" ", "$", "D", "E"}, <<>>, 12),
             Form({" ", "$", "V", "T", "0", "[", "E"},
                  << "$", "V", " ", "T", " ", "0", " ", "0", " ", "T", " " >>, 7),
             Form({"n", "$", "T", "E", "0"}, << "$", "A", "n" >>, 6),
             Form({"n", "$", "T", "E", "0"}, << "$", "A", "n", "T", "n", "0", "n" >>, 7),
             Form({"n", "$", "A", "E", "0"}, << "$", "A", "n", "A", "n" >>, 6),
             Form({"n", "0", "u", "$", "E"}, << "$", "M", "n" >>, 7),
             Form({"n", "$", "A", "T", "E", "0"}, Skipped, 6) }

MCIdChars == << "#", "$", "0", "1", "A", "C", "D", "E", "F", "G", "M", "S", "T", "U", "V",
                "[", "b", "r", "s", "u" >>

Command(word, rest) == << << "$" >>, << word >> >> \o rest
Var(id, name, index) == Command("V", << << "T" >>, << "1", "0" >>, id, name, index >>)
Attribute(subtype, name, arg) == Command("A", << << "T" >>, << subtype >>, name, << arg >> >>)

MCGiven ==
    {Command("C", << text >>) : text \in {<<>>, << "0", " ", "n", "E" >>, << "E", "$" >>}}
      \cup {Command(word, <<>>) : word \in {"D", "F", "G", "U"}}
      \cup {Command("E", << 1 >>), Command("M", << << "1" >>, << "u" >> >>),
            Command("S", << << "T" >>, << "b", "0", "C" >> >>)}
      \cup {Var(id, << "r" >>, index) : id \in {0, 19, 20, 99}, index \in {End, << "[", "1" >>}}
      \cup {Var(7, << "T", " ", "[", "0" >>, End)}
      \cup {Command("A", << << "A" >>, << "T", "0" >>, << << "T" >> >>, << "1" >> >>),
            Command("S", << << "S" >>, << "C" >> >>), Command("V", << << "V" >>, << "0" >>, 1, << "A" >>, End >>)}
      \cup {Attribute("0", name, arg) : arg \in {"0", "1"},
              name \in {<<>>, << << "T" >> >>, << << "1" >> >>, << << "1" >>, << "1" >> >>,
                        << << "E", "T" >>, << "0" >> >>, << << "T", "0", "T" >> >>}}
      \cup {<< << "#" >>, << "1", "0" >> >>, << << "1" >>, 41 >>, << << "b" >>, << "1", "0" >>, 3 >>,
            << << "r" >>, << "1" >>, 98 >>, << << "s" >>, << "A" >>, 60 >>}

MCAdded == {Var(0, << "s" >>, End)}
=============================================================================
