------------------------ MODULE MCEmailVerification ------------------------
(* EmailVerification with interchangeable requests.                        *)
EXTENDS EmailVerification, TLC

Symmetry == Permutations(EmailRequest)
=============================================================================
