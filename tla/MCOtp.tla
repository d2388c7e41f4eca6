--------------------------------- MODULE MCOtp ---------------------------------
(* Instances of Otp for TLC. *)
EXTENDS Otp, TLC

\* Requests are interchangeable.
Symmetry == Permutations(Handlers)

=============================================================================
