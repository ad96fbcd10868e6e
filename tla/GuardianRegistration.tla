----------------------- MODULE GuardianRegistration -----------------------
(***************************************************************************)
(* Registration of one wallet as a guardian:                               *)
(* GuardianController.registerGuardian, the transaction the request names  *)
(* and the jobs that follow: the guardian's data to the VC service         *)
(* (VcProcessor), the profile picture to permanent storage                 *)
(* (ImageMoveProcessor), the sign-up at Spring (SpringProcessor).  The     *)
(* gateway looks only at the receipt, so the transaction may be another    *)
(* than registerGuardian.  Before the wallet has verified its e-mail every *)
(* request is refused: see EmailVerification.                              *)
(***************************************************************************)
EXTENDS JobQueue

CONSTANTS
  Request,      \* register requests; a request also names its jobs
  Tx,           \* transactions requests may name
  Registration, \* the one that calls registerGuardian for this wallet
  MaxRestarts   \* bound: restarts of the gateway

ASSUME TxAssumption == Registration \in Tx
ASSUME BoundAssumption == MaxRestarts \in Nat

VARIABLES
  tx,          \* the transactions
  temp, perm,  \* is the profile picture in temp/, in guardian/?
  h,           \* requests
  vcJob, moveJob, springJob,   \* jobs of each request
  vcGuardian,  \* VC service: has the guardian's data
  springUser,  \* Spring: has the user
  restarts

fileVars    == <<temp, perm>>
jobVars     == <<vcJob, moveJob, springJob>>
serviceVars == <<vcGuardian, springUser>>
vars == <<tx, temp, perm, h, vcJob, moveJob, springJob, vcGuardian,
          springUser, restarts>>

TxState == {"unsent", "pending", "mined", "reverted"}
Answer == {"ok", "refused", "sign", "empty", "lost"}
Step == {"check", "send", "confirmRaw", "confirmHash", "queueVc", "queueSpring"}

Init ==
  /\ tx = [t \in Tx |-> "unsent"] /\ temp = TRUE /\ perm = FALSE
  /\ h = [r \in Request |-> [pc |-> "new", picture |-> FALSE, tx |-> Registration]]
  /\ vcJob = [r \in Request |-> NoJob] /\ moveJob = [r \in Request |-> NoJob]
  /\ springJob = [r \in Request |-> NoJob]
  /\ vcGuardian = FALSE /\ springUser = FALSE /\ restarts = 0

InFlight(r) == h[r].pc \in Step
Receipt(r) == tx[h[r].tx]
Goto(r, pc) == h' = [h EXCEPT ![r].pc = pc]

---------------------------------------------------------------------------
(* POST guardian/register; checkAuth and the e-mail field have passed.  A  *)
(* client that was not told "ok" may send its request again; a request     *)
(* that has a job is not sent again, since it names its jobs here.         *)
RegisterGuardian(r) ==
  /\ h[r].pc \in {"new", "refused", "sign", "empty", "lost"}
  /\ vcJob[r].state = "absent"
  /\ \E picture \in BOOLEAN, t \in Tx :
       h' = [h EXCEPT ![r] = [pc |-> "check", picture |-> picture, tx |-> t]]
  /\ UNCHANGED <<tx, fileVars, jobVars, serviceVars, restarts>>

(* isGuardianRegistered, which takes an error of the node for a no. *)
CheckRegistered(r) ==
  /\ h[r].pc = "check"
  /\ \/ tx[Registration] = "mined" /\ Goto(r, "refused")
     \/ Goto(r, "send")
  /\ UNCHANGED <<tx, fileVars, jobVars, serviceVars, restarts>>

(* No signedTx, a raw transaction that the chain takes once, or the hash   *)
(* of one that was sent or not.  Every exception is caught and nothing is  *)
(* returned.                                                               *)
SendSignedTransaction(r) ==
  /\ h[r].pc = "send"
  /\ \/ /\ Receipt(r) = "unsent" /\ tx' = [tx EXCEPT ![h[r].tx] = "pending"]
        /\ Goto(r, "confirmRaw")
     \/ h' \in {[h EXCEPT ![r].pc = pc] : pc \in {"sign", "confirmHash", "empty"}}
        /\ UNCHANGED tx
  /\ UNCHANGED <<fileVars, jobVars, serviceVars, restarts>>

(* Mutant: a transaction that was sent is taken as confirmed. *)
Confirmed_OnSend(r) ==
  /\ h[r].pc \in {"confirmRaw", "confirmHash"}
  /\ Goto(r, "queueVc")
  /\ UNCHANGED <<tx, fileVars, jobVars, serviceVars, restarts>>

Confirmed(r) ==
  /\ h[r].pc \in {"confirmRaw", "confirmHash"} /\ Receipt(r) = "mined"
  /\ Goto(r, "queueVc")
  /\ UNCHANGED <<tx, fileVars, jobVars, serviceVars, restarts>>

(* Mutant: the hash is waited for without a limit, too. *)
NotConfirmed_Unbounded(r) ==
  /\ h[r].pc \in {"confirmRaw", "confirmHash"} /\ Receipt(r) = "reverted"
  /\ Goto(r, "empty")
  /\ UNCHANGED <<tx, fileVars, jobVars, serviceVars, restarts>>

(* A revert; for a hash also 30 seconds without a receipt, while tx.wait() *)
(* of a raw transaction waits without a limit ...                          *)
NotConfirmed(r) ==
  /\ \/ h[r].pc = "confirmRaw" /\ Receipt(r) = "reverted"
     \/ h[r].pc = "confirmHash"
  /\ Goto(r, "empty")
  /\ UNCHANGED <<tx, fileVars, jobVars, serviceVars, restarts>>

(* ... unless the node fails it. *)
WaitFails(r) ==
  /\ h[r].pc = "confirmRaw"
  /\ Goto(r, "empty")
  /\ UNCHANGED <<tx, fileVars, jobVars, serviceVars, restarts>>

QueueGuardianSync(r) ==
  /\ h[r].pc = "queueVc"
  /\ vcJob' = [vcJob EXCEPT ![r] = Queued]
  /\ Goto(r, "queueSpring")
  /\ UNCHANGED <<tx, fileVars, moveJob, springJob, serviceVars, restarts>>

(* queueGuardianImageMove, or queueUserRegister or queueAdminRegister. *)
QueueSpring(r) ==
  /\ h[r].pc = "queueSpring"
  /\ IF h[r].picture
       THEN moveJob' = [moveJob EXCEPT ![r] = Queued] /\ UNCHANGED springJob
       ELSE springJob' = [springJob EXCEPT ![r] = Queued] /\ UNCHANGED moveJob
  /\ Goto(r, "ok")
  /\ UNCHANGED <<tx, fileVars, vcJob, serviceVars, restarts>>

QueueFails(r) ==
  /\ h[r].pc \in {"queueVc", "queueSpring"}
  /\ Goto(r, "empty")
  /\ UNCHANGED <<tx, fileVars, jobVars, serviceVars, restarts>>

---------------------------------------------------------------------------
WalletSends(t) ==
  /\ tx[t] = "unsent" /\ tx' = [tx EXCEPT ![t] = "pending"]
  /\ UNCHANGED <<fileVars, h, jobVars, serviceVars, restarts>>

Mine(t) ==
  /\ tx[t] = "pending"
  /\ \E outcome \in {"mined", "reverted"} : tx' = [tx EXCEPT ![t] = outcome]
  /\ UNCHANGED <<fileVars, h, jobVars, serviceVars, restarts>>

---------------------------------------------------------------------------
(* sync-guardian-info: updateGuardianInfo at the VC service. *)
SyncGuardian(r) ==
  /\ \/ /\ Waiting(vcJob[r])
        /\ vcJob' = [vcJob EXCEPT ![r] = Started(@, "update")]
        /\ UNCHANGED vcGuardian
     \/ /\ StandsAt(vcJob[r], "update")
        /\ vcGuardian' = TRUE
        /\ vcJob' \in {[vcJob EXCEPT ![r] = Completed(@)],
                       [vcJob EXCEPT ![r] = Thrown(@)]}
     \/ /\ StandsAt(vcJob[r], "update")
        /\ vcJob' = [vcJob EXCEPT ![r] = Thrown(@)]
        /\ UNCHANGED vcGuardian
  /\ UNCHANGED <<tx, fileVars, h, moveJob, springJob, springUser, restarts>>

(* Mutant: the sign-up is queued before the picture is copied. *)
MovePicture_QueueFirst(r) ==
  /\ \/ /\ Waiting(moveJob[r])
        /\ moveJob' = [moveJob EXCEPT ![r] = Started(@, "copy")]
        /\ springJob' = [springJob EXCEPT ![r] = Queued]
        /\ UNCHANGED fileVars
     \/ /\ StandsAt(moveJob[r], "copy") /\ temp
        /\ perm' = TRUE
        /\ moveJob' = [moveJob EXCEPT ![r] = Moved(@, "delete")]
        /\ UNCHANGED <<temp, springJob>>
     \/ /\ StandsAt(moveJob[r], "delete")
        /\ temp' = FALSE
        /\ moveJob' = [moveJob EXCEPT ![r] = Completed(@)]
        /\ UNCHANGED <<perm, springJob>>
  /\ UNCHANGED <<tx, h, vcJob, serviceVars, restarts>>

(* move-guardian-image: copyObject, deleteObject, then queueUserRegister   *)
(* or queueAdminRegister; an error, such as a picture that is not in       *)
(* temp/ any more, sends the job back to the start.                        *)
MovePicture(r) ==
  /\ \/ /\ Waiting(moveJob[r])
        /\ moveJob' = [moveJob EXCEPT ![r] = Started(@, "copy")]
        /\ UNCHANGED <<fileVars, springJob>>
     \/ /\ StandsAt(moveJob[r], "copy") /\ temp
        /\ perm' = TRUE
        /\ moveJob' = [moveJob EXCEPT ![r] = Moved(@, "delete")]
        /\ UNCHANGED <<temp, springJob>>
     \/ /\ StandsAt(moveJob[r], "delete")
        /\ temp' = FALSE
        /\ moveJob' = [moveJob EXCEPT ![r] = Moved(@, "enqueue")]
        /\ UNCHANGED <<perm, springJob>>
     \/ /\ StandsAt(moveJob[r], "enqueue")
        /\ springJob' = [springJob EXCEPT ![r] = Queued]
        /\ moveJob' = [moveJob EXCEPT ![r] = Moved(@, "return")]
        /\ UNCHANGED fileVars
     \/ /\ StandsAt(moveJob[r], "return")
        /\ moveJob' = [moveJob EXCEPT ![r] = Completed(@)]
        /\ UNCHANGED <<fileVars, springJob>>
     \/ /\ moveJob[r].state = "active" /\ moveJob[r].at # "return"
        /\ moveJob' = [moveJob EXCEPT ![r] = Thrown(@)]
        /\ UNCHANGED <<fileVars, springJob>>
  /\ UNCHANGED <<tx, h, vcJob, serviceVars, restarts>>

(* register-user, register-admin: POST /api/auth/signup. *)
RegisterUser(r) ==
  /\ \/ /\ Waiting(springJob[r])
        /\ springJob' = [springJob EXCEPT ![r] = Started(@, "post")]
        /\ UNCHANGED springUser
     \/ /\ StandsAt(springJob[r], "post")
        /\ springUser' = TRUE
        /\ springJob' \in {[springJob EXCEPT ![r] = Completed(@)],
                           [springJob EXCEPT ![r] = Thrown(@)]}
     \/ /\ StandsAt(springJob[r], "post")
        /\ springJob' = [springJob EXCEPT ![r] = Thrown(@)]
        /\ UNCHANGED springUser
  /\ UNCHANGED <<tx, fileVars, h, vcJob, moveJob, vcGuardian, restarts>>

Restart ==
  /\ restarts < MaxRestarts /\ restarts' = restarts + 1
  /\ h' = [r \in Request |-> IF InFlight(r) THEN [h[r] EXCEPT !.pc = "lost"]
                                            ELSE h[r]]
  /\ vcJob' = [r \in Request |-> Stalled(vcJob[r])]
  /\ moveJob' = [r \in Request |-> Stalled(moveJob[r])]
  /\ springJob' = [r \in Request |-> Stalled(springJob[r])]
  /\ UNCHANGED <<tx, fileVars, serviceVars>>

Handle(r) ==
  \/ CheckRegistered(r) \/ SendSignedTransaction(r)
  \/ Confirmed(r) \/ NotConfirmed(r)
  \/ QueueGuardianSync(r) \/ QueueSpring(r) \/ QueueFails(r)
RunJobs(r) == SyncGuardian(r) \/ MovePicture(r) \/ RegisterUser(r)

Next ==
  \/ \E r \in Request : RegisterGuardian(r) \/ Handle(r) \/ WaitFails(r) \/ RunJobs(r)
  \/ \E t \in Tx : WalletSends(t) \/ Mine(t)
  \/ Restart

Spec == Init /\ [][Next]_vars

(* Handlers go on.  No client has to ask, the chain need not mine and no   *)
(* job has to end.                                                         *)
FairSpec == Spec /\ \A r \in Request : WF_vars(Handle(r))

---------------------------------------------------------------------------
Steps == {"update", "copy", "delete", "enqueue", "return", "post"}

(* Type invariant. *)
TypeOK ==
  /\ tx \in [Tx -> TxState]
  /\ temp \in BOOLEAN /\ perm \in BOOLEAN
  /\ h \in [Request -> [pc : {"new"} \cup Step \cup Answer, picture : BOOLEAN, tx : Tx]]
  /\ vcJob \in [Request -> Job(Steps)] /\ moveJob \in [Request -> Job(Steps)]
  /\ springJob \in [Request -> Job(Steps)]
  /\ vcGuardian \in BOOLEAN /\ springUser \in BOOLEAN
  /\ restarts \in 0..MaxRestarts

(* The VC service and Spring hear of a guardian only from a request whose  *)
(* transaction is mined, and it had not reverted: so if every request      *)
(* names the registration, they know only guardians the chain knows.       *)
HasJob(r) == \/ vcJob[r].state # "absent" \/ moveJob[r].state # "absent"
             \/ springJob[r].state # "absent"
OnlyConfirmedIsSynced ==
  /\ \A r \in Request : HasJob(r) => Receipt(r) = "mined"
  /\ vcGuardian \/ springUser => \E r \in Request : HasJob(r)

(* Spring is sent a picture's URL only when the picture is there, and the  *)
(* picture is never lost, though two requests may move the same one.       *)
PictureBeforeSignup ==
  /\ temp \/ perm
  /\ \A r \in Request : h[r].picture /\ springJob[r].state # "absent" => perm

(* Every request is answered, whatever the chain does with the hash it     *)
(* names; only one that sent a raw transaction may wait for as long as the *)
(* chain does not mine it.                                                 *)
MayWait(r) == h[r].pc = "confirmRaw" /\ Receipt(r) = "pending"
EveryRequestIsAnswered ==
  \A r \in Request : InFlight(r) ~> h[r].pc \in Answer \/ MayWait(r)
=============================================================================
