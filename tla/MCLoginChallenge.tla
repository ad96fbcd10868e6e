-------------------------- MODULE MCLoginChallenge --------------------------
(* LoginChallenge with model values for wallets, challenges and requests.  *)
EXTENDS LoginChallenge, TLC

Symmetry == Permutations(Address) \cup Permutations(Challenge)
              \cup Permutations(LoginRequest)
============================================================================
