------------------------------ MODULE MCUserStore ------------------------------
(* Instances of UserStore for TLC. *)
EXTENDS UserStore, TLC

\* People, their phones and the requests are interchangeable.
Symmetry == Permutations(Emails) \cup Permutations(Phones) \cup Permutations(Handlers)

\* A bound: once a startup has failed only the copies are still followed, and one
\* token is enough to change an account.
FewTokens == failed => Cardinality(tokens) <= 1

=============================================================================
