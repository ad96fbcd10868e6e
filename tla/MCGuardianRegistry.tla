------------------------ MODULE MCGuardianRegistry ------------------------
(* GuardianRegistry with model values for pets, transactions and requests. *)
(* Only the deployer is ever given the verifier's role: who verifies       *)
(* changes nothing but the caller.  Two requests present one transaction,  *)
(* and no guardian is verified beside them: requests change no profile.    *)
(* The same holds of transactions that link nothing, which only the        *)
(* deployer sends.                                                         *)
EXTENDS GuardianRegistry, TLC

Symmetry == Permutations(Pet) \cup Permutations(Transaction)
              \cup Permutations(Request)
Served(r) == h[r].pc # "new"
Unverified == verifiers = {} /\ \A w \in Wallet : proof[w] = {}
Others == {t \in Transaction : tx[t] # None /\ tx[t].pet = None}
Bounds ==
  /\ verifiers \subseteq {Deployer}
  /\ \A r, s \in Request : r # s /\ Served(r) /\ Served(s) =>
       h[r].tx = h[s].tx /\ Unverified
  /\ Others # {} => Unverified /\ \A t \in Others : tx[t].from = Deployer
============================================================================
