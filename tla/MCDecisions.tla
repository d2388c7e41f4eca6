------------------------------ MODULE MCDecisions ------------------------------
(* Instances of Decisions for TLC. *)
EXTENDS Decisions, TLC

\* Two profiles that make the first and the second call go ahead.
FewSetups == {[pref |-> p, dnd |-> FALSE, vip |-> FALSE] : p \in {"ASK", "PREFER_OUTGOING"}}

\* The calls of one endpoint are interchangeable.
Symmetry == Permutations(Evaluators) \cup Permutations(Responders)

=============================================================================
