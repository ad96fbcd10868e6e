------------------------ MODULE MCControllerHistory ------------------------
(* ControllerHistory with model values for guardians, transactions,        *)
(* requests and queries.                                                   *)
EXTENDS ControllerHistory

(* No query reads what the jobs and the guardians store at the other       *)
(* services, and no request waits for it: that is left to PetTransfer.     *)
ChainAndRequests ==
  /\ \A r \in Request : {vcJob[r], springJob[r]} \subseteq {NoJob, Queued}
  /\ \A g \in Guardian : vc[g] = "valid" => g = Genesis
============================================================================
