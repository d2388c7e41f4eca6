---------------------------- MODULE MCCallIntents ----------------------------
(* Instances of CallIntents for TLC. *)
EXTENDS CallIntents, TLC

\* The requests are interchangeable, and so are the two users.
Symmetry == Permutations(Posts) \cup Permutations(Users)

=============================================================================
