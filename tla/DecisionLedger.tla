---------------------------- MODULE DecisionLedger ----------------------------
(***************************************************************************)
(* What the decision endpoints promise of one reciprocal pair, seen from   *)
(* outside: the engine decides once, for good, unless a user makes an      *)
(* explicit choice, which only another explicit choice replaces.           *)
(***************************************************************************)
CONSTANTS
    Undecided,  \* no decision has been stored
    Verdicts,   \* the decisions the engine can come to
    Choices     \* the decisions a user can ask for

VARIABLE decision

Init == decision = Undecided

Decide == decision = Undecided /\ decision' \in Verdicts
Choose == decision # Undecided /\ decision' \in Choices

Next == Decide \/ Choose
Spec == Init /\ [][Next]_decision

=============================================================================
