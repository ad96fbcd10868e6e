--------------------------- MODULE MCPetTransfer ---------------------------
(* PetTransfer with model values for transactions and requests.            *)
EXTENDS PetTransfer, TLC

Symmetry == Permutations(Tx) \cup Permutations(Request)

(* Nobody hands the pet to themselves, or claims so.                       *)
ToAnother ==
  /\ \A t \in Tx : call[t] # None => call[t].from # call[t].to
  /\ \A r \in Request : h[r].claim # None => h[r].claim.from # h[r].claim.to

(* The credential jobs and the sync jobs share no variable: only those of  *)
(* one queue are taken up.                                                 *)
OneQueueRuns ==
  \/ \A r \in Request : vcJob[r] \in {NoJob, Queued}
  \/ \A r \in Request : springJob[r] \in {NoJob, Queued}

(* A job throws, or its worker dies, but not both.                         *)
ThrowsOrStalls ==
  \A r \in Request : \A job \in {vcJob[r], springJob[r]} :
    job.made = 0 \/ job.stalls = 0
============================================================================
