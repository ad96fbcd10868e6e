------------------------ MODULE TransferVerification ------------------------
(***************************************************************************)
(* The nose-print check before an ownership transfer:                      *)
(* PetController.verifyTransfer moves the picture, has the ML server       *)
(* compare it, queues the record of the verification and hands out a       *)
(* proof; BlockchainProcessor records it.  The gateway keeps nothing of a  *)
(* proof and does not sign it: acceptTransfer takes what the client sends  *)
(* (see PetTransfer), so nothing is said here of the proofs it accepts.    *)
(***************************************************************************)
EXTENDS JobQueue

CONSTANTS
  Image,          \* pictures uploaded to temp/
  VerifyRequest,  \* verify-transfer requests
  Null,
  Production      \* NODE_ENV

ASSUME NullAssumption == Null \notin Image
ASSUME ProductionAssumption == Production \in BOOLEAN

VARIABLES
  temp, perm,   \* pictures in temp/ and in nose-print-photo/{petDID}/
  verification, \* verify-transfer requests: "ok" when the proof is out
  bioJob,       \* verify-biometric job of each request
  recorded      \* PetDIDRegistry: the verifications on the chain

fileVars == <<temp, perm>>
verifyVars == <<temp, perm, verification, bioJob, recorded>>

NoVerification == [pc |-> "new", image |-> Null]

VerifyInit ==
  /\ temp = Image /\ perm = {}
  /\ verification = [r \in VerifyRequest |-> NoVerification]
  /\ bioJob = [r \in VerifyRequest |-> NoJob]
  /\ recorded = {}

Verifying(r) == verification[r].pc \notin {"new", "ok", "mismatch", "error"}
Goto(r, pc) == verification' = [verification EXCEPT ![r].pc = pc]

---------------------------------------------------------------------------
(* POST verify-transfer: copyObject, deleteObject, then the checks. *)
VerifyTransfer(r, image) ==
  /\ verification[r].pc = "new"
  /\ verification' = [verification EXCEPT ![r] = [pc |-> "copy", image |-> image]]
  /\ UNCHANGED <<fileVars, bioJob, recorded>>

(* Mutant: the source is removed without having been copied.               *)
CopyImage_Removes(r) ==
  /\ verification[r].pc = "copy"
  /\ temp' = temp \ {verification[r].image}
  /\ Goto(r, "delete")
  /\ UNCHANGED <<perm, bioJob, recorded>>

(* Either call may be carried out and its answer be lost. *)
CopyImage(r) ==
  /\ verification[r].pc = "copy" /\ verification[r].image \in temp
  /\ perm' = perm \cup {verification[r].image}
  /\ \E pc \in {"delete", "error"} : Goto(r, pc)
  /\ UNCHANGED <<temp, bioJob, recorded>>

DeleteImage(r) ==
  /\ verification[r].pc = "delete"
  /\ temp' = temp \ {verification[r].image}
  /\ \E pc \in {"compare", "error"} : Goto(r, pc)
  /\ UNCHANGED <<perm, bioJob, recorded>>

(* The DID exists and the ML server finds a similarity of 50% or more, or  *)
(* less.                                                                   *)
Compare(r) ==
  /\ verification[r].pc = "compare"
  /\ \/ verification[r].image \in perm /\ Goto(r, "queue")
     \/ Goto(r, "mismatch")
  /\ UNCHANGED <<fileVars, bioJob, recorded>>

(* The proof is made after the job is on its queue. *)
QueueBiometricVerification(r) ==
  /\ verification[r].pc = "queue"
  /\ bioJob' = [bioJob EXCEPT ![r] = Queued]
  /\ Goto(r, "ok")
  /\ UNCHANGED <<fileVars, recorded>>

(* The picture is not there, S3, the node, the ML server or Redis fails,   *)
(* or the process stops; the job may be on its queue already.              *)
RequestFails(r) ==
  /\ Verifying(r)
  /\ Goto(r, "error")
  /\ \/ UNCHANGED bioJob
     \/ verification[r].pc = "queue" /\ bioJob' = [bioJob EXCEPT ![r] = Queued]
  /\ UNCHANGED <<fileVars, recorded>>

(* verify-biometric: a warning in production, an admin transaction         *)
(* otherwise, whose receipt is not waited for.                             *)
RecordVerification(r) ==
  /\ \/ /\ Waiting(bioJob[r])
        /\ bioJob' = [bioJob EXCEPT ![r] = Started(@, "record")]
        /\ UNCHANGED recorded
     \/ /\ StandsAt(bioJob[r], "record")
        /\ recorded' = IF Production THEN recorded ELSE recorded \cup {r}
        /\ bioJob' = [bioJob EXCEPT ![r] = Completed(@)]
     \/ /\ StandsAt(bioJob[r], "record") /\ ~Production
        /\ recorded' \in {recorded, recorded \cup {r}}
        /\ bioJob' = [bioJob EXCEPT ![r] = Thrown(@)]
  /\ UNCHANGED <<fileVars, verification>>

VerifyRestart ==
  /\ verification' = [r \in VerifyRequest |->
                         IF Verifying(r) THEN [verification[r] EXCEPT !.pc = "error"]
                                         ELSE verification[r]]
  /\ bioJob' = [r \in VerifyRequest |-> Stalled(bioJob[r])]
  /\ UNCHANGED <<fileVars, recorded>>

Verify(r) == \/ CopyImage(r) \/ DeleteImage(r) \/ Compare(r)
             \/ QueueBiometricVerification(r) \/ RequestFails(r)

VerifyNext ==
  \/ \E r \in VerifyRequest :
       \/ \E image \in Image : VerifyTransfer(r, image)
       \/ Verify(r) \/ RecordVerification(r)
  \/ VerifyRestart

VerifySpec == VerifyInit /\ [][VerifyNext]_verifyVars

---------------------------------------------------------------------------
(* Type invariant. *)
VerifyTypeOK ==
  /\ temp \subseteq Image /\ perm \subseteq Image
  /\ verification \in [VerifyRequest ->
                          [pc : {"new", "copy", "delete", "compare", "queue", "ok",
                                 "mismatch", "error"},
                           image : Image \cup {Null}]]
  /\ bioJob \in [VerifyRequest -> Job({"record"})]
  /\ recorded \subseteq VerifyRequest

(* No picture is lost, whatever other request uses the same one, fails or  *)
(* is cut off by a restart, and behind every proof that was handed out and *)
(* every verification on the chain there is one in permanent storage.      *)
ProofHasPicture ==
  /\ Image \subseteq temp \cup perm
  /\ \A r \in VerifyRequest :
       verification[r].pc = "ok" \/ r \in recorded => verification[r].image \in perm
=============================================================================
