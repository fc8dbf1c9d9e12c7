-------------------------------- MODULE DiffSpec --------------------------------
(***************************************************************************)
(* What a value comparison promises: it reports the differences of its two *)
(* inputs, each of them, and nothing else, then answers once: "same" when  *)
(* there are none, "differ" when there are, or "error" when reading or     *)
(* writing failed, whatever was reported before that.  Of inputs that are  *)
(* not orderly it promises only that it answers once and takes nothing     *)
(* back.                                                                   *)
(***************************************************************************)
CONSTANT MayFail

VARIABLES
  orderly,   \* whether the inputs are such that the report is determined
  expected,  \* the differences of the two inputs, fixed from the start
  report,    \* the differences reported so far
  verdict    \* "none" until the comparison returns

vars == <<orderly, expected, report, verdict>>

Init == report = {} /\ verdict = "none"

Report ==
  /\ verdict = "none"
  /\ report \subseteq report' /\ (orderly => report' \subseteq expected)
  /\ UNCHANGED <<orderly, expected, verdict>>

Decide ==
  /\ verdict = "none" /\ (orderly => report = expected)
  /\ verdict' = IF report = {} THEN "same" ELSE "differ"
  /\ UNCHANGED <<orderly, expected, report>>

Fail ==
  /\ MayFail /\ verdict = "none"
  /\ verdict' = "error"
  /\ UNCHANGED <<orderly, expected, report>>

Next == Report \/ Decide \/ Fail

Spec == Init /\ [][Next]_vars

=============================================================================
