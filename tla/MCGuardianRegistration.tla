---------------------- MODULE MCGuardianRegistration ----------------------
(* GuardianRegistration with model values for requests and transactions;    *)
(* the run checks liveness, so no symmetry is declared.                     *)
EXTENDS GuardianRegistration

(* The VC service's jobs and the others share no variable: only those of   *)
(* one kind are taken up.                                                  *)
OneQueueRuns ==
  \/ \A r \in Request : vcJob[r] \in {NoJob, Queued}
  \/ \A r \in Request : {moveJob[r], springJob[r]} \subseteq {NoJob, Queued}
===========================================================================
