-------------------- MODULE GuardianRegistrationProofs --------------------
(***************************************************************************)
(* Proofs about GuardianRegistration for any number of register requests,  *)
(* attempts, stalls and restarts: nothing is synced for a request before   *)
(* its transaction is mined, and no sign-up names a picture that is not in  *)
(* permanent storage, however many jobs move the same one.  Then about     *)
(* EmailVerification, without which no wallet may register.                *)
(***************************************************************************)
EXTENDS GuardianRegistration, EmailVerification, JobQueueProofs

JobsSound ==
  \A r \in Request : /\ Sound(vcJob[r], Steps) /\ Sound(moveJob[r], Steps)
                     /\ Sound(springJob[r], Steps)

(* A move job past its copy has the picture behind it.                     *)
MovedSoFar(r) ==
  \A s \in {"delete", "enqueue", "return"} : StandsAt(moveJob[r], s) => perm

(* A request past the receipt, and every job, belong to a transaction the  *)
(* chain has executed.                                                     *)
PastReceipt(r) == h[r].pc \in {"queueVc", "queueSpring", "ok"} \/ HasJob(r)
ReceiptIsMined == \A r \in Request : PastReceipt(r) => tx[h[r].tx] = "mined"

(* The VC service's job is queued first: a request without it, which may   *)
(* be sent again with or without a picture, has no other job.              *)
VcJobFirst(r) ==
  \/ h[r].pc \in {"queueSpring", "ok"}
  \/ moveJob[r].state # "absent" \/ springJob[r].state # "absent"
  => vcJob[r].state # "absent"

IInv == /\ TypeOK /\ JobsSound /\ PictureBeforeSignup
        /\ \A r \in Request : MovedSoFar(r) /\ VcJobFirst(r)
        /\ ReceiptIsMined /\ OnlyConfirmedIsSynced

Req == [pc : {"new"} \cup Step \cup Answer, picture : BOOLEAN, tx : Tx]

(* The chain: a transaction that is mined stays so. *)
ChainGrows == tx' \in [Tx -> TxState] /\ \A t \in Tx : tx[t] = "mined" => tx'[t] = "mined"

(* Where a job stands after a step of its worker.                          *)
LEMMA WhereJobsStand ==
  ASSUME NEW j, Sound(j, Steps), NEW s, NEW t
  PROVE  /\ StandsAt(Started(j, s), t) <=> t = s
         /\ j.state = "active" => (StandsAt(Moved(j, s), t) <=> t = s)
         /\ ~StandsAt(Completed(j), t) /\ ~StandsAt(Thrown(j), t)
         /\ ~StandsAt(Stalled(j), t)
BY DEF Sound, Job, JobState, StandsAt, Started, Moved, Completed, Thrown, Stalled

---------------------------------------------------------------------------
LEMMA InitIInv == Init => IInv
<1> SUFFICES ASSUME Init PROVE IInv
  OBVIOUS
<1>1. Sound(NoJob, Steps) /\ NoJob.state = "absent" /\ NoJob.at = ""
  BY FreshIsSound DEF NoJob
<1>2. TypeOK
  <2>1. [pc |-> "new", picture |-> FALSE, tx |-> Registration] \in Req
    BY TxAssumption DEF Req
  <2>2. 0 \in 0..MaxRestarts
    BY BoundAssumption
  <2> QED BY <1>1, <2>1, <2>2 DEF Init, TypeOK, TxState, Sound, Req
<1>3. JobsSound
  BY <1>1 DEF Init, JobsSound
<1>4. PictureBeforeSignup /\ OnlyConfirmedIsSynced
  BY <1>1 DEF Init, PictureBeforeSignup, OnlyConfirmedIsSynced, HasJob
<1>5. \A r \in Request : MovedSoFar(r) /\ VcJobFirst(r)
  BY <1>1 DEF Init, MovedSoFar, VcJobFirst, StandsAt
<1>6. ReceiptIsMined
  BY <1>1 DEF Init, ReceiptIsMined, PastReceipt, HasJob
<1> QED BY <1>2, <1>3, <1>4, <1>5, <1>6 DEF IInv

(* A step that changes only a request, without passing the receipt before  *)
(* the chain has executed its transaction, and its picture and transaction *)
(* only while it has no job.                                               *)
LEMMA RequestMoves ==
  ASSUME IInv, NEW r \in Request, NEW w \in Req,
         h' = [h EXCEPT ![r] = w],
         w.pc \in {"queueVc", "queueSpring", "ok"} => tx[w.tx] = "mined",
         w.pc \notin {"queueSpring", "ok"},
         (w.picture = h[r].picture /\ w.tx = h[r].tx) \/ vcJob[r].state = "absent",
         ChainGrows,
         UNCHANGED <<temp, perm, jobVars, serviceVars, restarts>>
  PROVE  IInv'
<1> USE DEF IInv, jobVars, serviceVars
<1>1. h'[r] = w /\ h' \in [Request -> Req] /\ \A q \in Request : q # r => h'[q] = h[q]
  BY DEF TypeOK, Req
<1>2. \A q \in Request : HasJob(q)' <=> HasJob(q)
  BY DEF HasJob
<1>3. TypeOK'
  BY <1>1 DEF TypeOK, Req, ChainGrows
<1>4. JobsSound' /\ \A q \in Request : MovedSoFar(q)'
  BY DEF JobsSound, MovedSoFar
<1>5. \A q \in Request : VcJobFirst(q)'
  BY <1>1 DEF VcJobFirst
<1>6. ReceiptIsMined'
  <2>1. ASSUME NEW q \in Request, PastReceipt(q)', q # r PROVE tx'[h'[q].tx] = "mined"
    BY <1>1, <1>2, <2>1 DEF ReceiptIsMined, PastReceipt, ChainGrows, TypeOK
  <2>2. ASSUME PastReceipt(r)' PROVE tx'[h'[r].tx] = "mined"
    <3>1. CASE w.pc \in {"queueVc", "queueSpring", "ok"}
      BY <1>1, <3>1 DEF ChainGrows, Req
    <3>2. CASE HasJob(r)
      <4>1. w.tx = h[r].tx
        BY <3>2 DEF HasJob, VcJobFirst
      <4> QED BY <1>1, <3>2, <4>1 DEF ReceiptIsMined, PastReceipt, ChainGrows, Req
    <3> QED BY <1>1, <1>2, <2>2, <3>1, <3>2 DEF PastReceipt
  <2> QED BY <2>1, <2>2 DEF ReceiptIsMined
<1>7. OnlyConfirmedIsSynced'
  BY <1>2, <1>6 DEF OnlyConfirmedIsSynced, ReceiptIsMined, PastReceipt, Receipt
<1>8. PictureBeforeSignup'
  BY <1>1 DEF PictureBeforeSignup, VcJobFirst
<1> QED BY <1>3, <1>4, <1>5, <1>6, <1>7, <1>8

LEMMA RequestGoes ==
  ASSUME IInv, NEW r \in Request, NEW pc \in {"new"} \cup Step \cup Answer, Goto(r, pc),
         pc \in {"queueVc", "queueSpring", "ok"} => tx[h[r].tx] = "mined",
         pc \notin {"queueSpring", "ok"}, ChainGrows,
         UNCHANGED <<temp, perm, jobVars, serviceVars, restarts>>
  PROVE  IInv'
<1> DEFINE w == [h[r] EXCEPT !.pc = pc]
<1>1. w \in Req /\ w.pc = pc /\ w.picture = h[r].picture /\ w.tx = h[r].tx
  BY DEF IInv, TypeOK, Req
<1>2. h' = [h EXCEPT ![r] = w]
  BY DEF Goto, IInv, TypeOK
<1> HIDE DEF w
<1> QED BY <1>1, <1>2, RequestMoves

(* What stays as it is has not shrunk. *)
LEMMA ChainStays == TypeOK /\ UNCHANGED tx => ChainGrows
BY DEF TypeOK, ChainGrows

(* A request queues a job: the VC service's first, then one of the others. *)
LEMMA QueueStep ==
  ASSUME IInv, NEW r \in Request, QueueGuardianSync(r) \/ QueueSpring(r)
  PROVE  IInv'
<1> USE DEF fileVars, jobVars, serviceVars
<1>1. tx[h[r].tx] = "mined" /\ tx' = tx
  BY DEF QueueGuardianSync, QueueSpring, IInv, ReceiptIsMined, PastReceipt
<1>2. UNCHANGED <<fileVars, serviceVars, restarts>>
  BY DEF QueueGuardianSync, QueueSpring
<1>3. Sound(Queued, Steps) /\ Queued \in Job(Steps) /\ Queued.state = "waiting"
  BY FreshIsSound DEF Sound, Queued
<1>4. /\ h' \in [Request -> Req] /\ h'[r].picture = h[r].picture /\ h'[r].tx = h[r].tx
      /\ \A q \in Request : q # r => h'[q] = h[q]
  BY DEF QueueGuardianSync, QueueSpring, Goto, IInv, TypeOK, Req, Step, Answer
<1>5. /\ vcJob' = vcJob \/ vcJob' = [vcJob EXCEPT ![r] = Queued]
      /\ moveJob' = moveJob \/ moveJob' = [moveJob EXCEPT ![r] = Queued]
      /\ \/ springJob' = springJob
         \/ springJob' = [springJob EXCEPT ![r] = Queued] /\ ~h[r].picture
  BY DEF QueueGuardianSync, QueueSpring
<1>6. vcJob'[r].state # "absent"
  <2>1. CASE QueueGuardianSync(r)
    BY <1>3, <2>1 DEF QueueGuardianSync, IInv, TypeOK
  <2>2. CASE QueueSpring(r)
    BY <2>2 DEF QueueSpring, IInv, VcJobFirst
  <2> QED BY <2>1, <2>2
<1>7. TypeOK'
  BY <1>1, <1>2, <1>3, <1>4, <1>5 DEF IInv, TypeOK, Req
<1>8. JobsSound'
  BY <1>3, <1>5 DEF IInv, TypeOK, JobsSound
<1>9. \A q \in Request : MovedSoFar(q)'
  BY <1>2, <1>3, <1>5 DEF IInv, TypeOK, MovedSoFar, StandsAt
<1>10. \A q \in Request : VcJobFirst(q)'
  BY <1>4, <1>5, <1>6 DEF IInv, TypeOK, VcJobFirst
<1>11. PictureBeforeSignup'
  BY <1>2, <1>4, <1>5 DEF IInv, TypeOK, PictureBeforeSignup
<1>12. ReceiptIsMined'
  BY <1>1, <1>4, <1>5 DEF IInv, TypeOK, ReceiptIsMined, PastReceipt, HasJob
<1>13. OnlyConfirmedIsSynced'
  <2>1. HasJob(r)' /\ \A q \in Request : q # r => (HasJob(q)' <=> HasJob(q))
    BY <1>5, <1>6 DEF HasJob, IInv, TypeOK
  <2> QED BY <1>2, <1>12, <2>1 DEF IInv, OnlyConfirmedIsSynced, ReceiptIsMined, PastReceipt,
            Receipt
<1> QED BY <1>13, <1>7, <1>8, <1>9, <1>10, <1>11, <1>12 DEF IInv

LEMMA HandleStep ==
  ASSUME IInv, NEW r \in Request, RegisterGuardian(r) \/ Handle(r) \/ WaitFails(r)
  PROVE  IInv'
<1> USE DEF fileVars, jobVars, serviceVars
<1>1. \A pc \in {"check", "send", "confirmRaw", "confirmHash", "queueVc",
                 "refused", "sign", "empty"} : pc \in {"new"} \cup Step \cup Answer
  BY DEF Step, Answer
<1>2. CASE RegisterGuardian(r)
  <2>1. PICK picture \in BOOLEAN, t \in Tx :
          h' = [h EXCEPT ![r] = [pc |-> "check", picture |-> picture, tx |-> t]]
    BY <1>2 DEF RegisterGuardian
  <2> DEFINE w == [pc |-> "check", picture |-> picture, tx |-> t]
  <2>2. w \in Req /\ w.pc = "check"
    BY <1>1 DEF Req
  <2>3. /\ vcJob[r].state = "absent" /\ UNCHANGED tx
        /\ UNCHANGED <<fileVars, jobVars, serviceVars, restarts>>
    BY <1>2 DEF RegisterGuardian
  <2>4. h' = [h EXCEPT ![r] = w]
    BY <2>1
  <2> HIDE DEF w
  <2> QED BY <2>2, <2>3, <2>4, RequestMoves, ChainStays DEF IInv
<1>3. CASE CheckRegistered(r)
  <2>1. Goto(r, "refused") \/ Goto(r, "send")
    BY <1>3 DEF CheckRegistered
  <2>2. UNCHANGED tx /\ UNCHANGED <<fileVars, jobVars, serviceVars, restarts>>
    BY <1>3 DEF CheckRegistered
  <2> QED BY <1>1, <2>1, <2>2, RequestGoes, ChainStays DEF IInv
<1>4. CASE SendSignedTransaction(r)
  <2>1. ChainGrows /\ UNCHANGED <<fileVars, jobVars, serviceVars, restarts>>
    BY <1>4 DEF SendSignedTransaction, Receipt, ChainGrows, IInv, TypeOK, TxState
  <2>2. Goto(r, "confirmRaw") \/ Goto(r, "sign") \/ Goto(r, "confirmHash") \/ Goto(r, "empty")
    BY <1>4 DEF SendSignedTransaction, Goto
  <2> QED BY <1>1, <2>1, <2>2, RequestGoes
<1>5. CASE Confirmed(r)
  <2>1. /\ Goto(r, "queueVc") /\ tx[h[r].tx] = "mined" /\ UNCHANGED tx
        /\ UNCHANGED <<fileVars, jobVars, serviceVars, restarts>>
    BY <1>5 DEF Confirmed, Receipt
  <2> QED BY <1>1, <2>1, RequestGoes, ChainStays DEF IInv
<1>6. CASE NotConfirmed(r) \/ WaitFails(r) \/ QueueFails(r)
  <2>1. /\ Goto(r, "empty") /\ UNCHANGED tx
        /\ UNCHANGED <<fileVars, jobVars, serviceVars, restarts>>
    BY <1>6 DEF NotConfirmed, WaitFails, QueueFails
  <2> QED BY <1>1, <2>1, RequestGoes, ChainStays DEF IInv
<1> QED BY <1>2, <1>3, <1>4, <1>5, <1>6, QueueStep DEF Handle

LEMMA ChainStep ==
  ASSUME IInv, NEW t \in Tx, WalletSends(t) \/ Mine(t)
  PROVE  IInv'
<1> USE DEF fileVars, jobVars, serviceVars
<1>1. UNCHANGED <<fileVars, h, jobVars, serviceVars, restarts>> /\ ChainGrows
  BY DEF WalletSends, Mine, TxState, ChainGrows, IInv, TypeOK
<1>2. TypeOK' /\ JobsSound'
  BY <1>1 DEF IInv, TypeOK, JobsSound, ChainGrows
<1>3. PictureBeforeSignup' /\ \A r \in Request : MovedSoFar(r)' /\ VcJobFirst(r)'
  BY <1>1 DEF IInv, PictureBeforeSignup, MovedSoFar, VcJobFirst
<1>4. \A r \in Request : (HasJob(r)' <=> HasJob(r)) /\ (PastReceipt(r)' <=> PastReceipt(r))
  BY <1>1 DEF HasJob, PastReceipt
<1>5. ReceiptIsMined'
  BY <1>1, <1>4 DEF IInv, TypeOK, ReceiptIsMined, ChainGrows
<1>6. OnlyConfirmedIsSynced'
  BY <1>1, <1>4, <1>5 DEF IInv, OnlyConfirmedIsSynced, ReceiptIsMined, PastReceipt, Receipt
<1> QED BY <1>2, <1>3, <1>5, <1>6 DEF IInv

---------------------------------------------------------------------------
(* A step of a worker on a job of r, whatever the job: it was there, it    *)
(* stays sound, and the chain has executed the request's transaction.      *)
LEMMA WorkerStep ==
  ASSUME NEW j, Sound(j, Steps),
         NEW k, NEW s \in Steps,
         \/ Waiting(j) /\ k = Started(j, s)
         \/ j.state = "active" /\ k \in {Moved(j, s), Completed(j), Thrown(j)}
  PROVE  Sound(k, Steps) /\ j.state # "absent" /\ k.state # "absent"
BY WalkIsSound, EndIsSound, NeverAbsentAgain DEF Waiting

(* The guardian's data to the VC service, and the sign-up at Spring.       *)
LEMMA SyncStep ==
  ASSUME IInv, NEW r \in Request, SyncGuardian(r) \/ RegisterUser(r)
  PROVE  IInv'
<1> USE DEF fileVars, jobVars, serviceVars
<1>0. Sound(vcJob[r], Steps) /\ Sound(springJob[r], Steps) /\ "update" \in Steps /\ "post" \in Steps
  BY DEF IInv, JobsSound, Steps
<1>1. UNCHANGED <<tx, fileVars, h, moveJob, restarts>>
  BY DEF SyncGuardian, RegisterUser
<1>2. HasJob(r)
  BY DEF SyncGuardian, RegisterUser, Waiting, StandsAt, HasJob
<1>3. /\ \A q \in Request : Sound(vcJob'[q], Steps)
      /\ vcJob' \in [Request -> Job(Steps)] /\ vcGuardian' \in BOOLEAN
      /\ \A q \in Request : vcJob'[q].state = "absent" <=> vcJob[q].state = "absent"
  <2>1. CASE SyncGuardian(r)
    <3>1. /\ \A q \in Request : q # r => vcJob'[q] = vcJob[q]
          /\ vcJob' = [vcJob EXCEPT ![r] = vcJob'[r]]
          /\ \/ Waiting(vcJob[r]) /\ vcJob'[r] = Started(vcJob[r], "update")
             \/ vcJob[r].state = "active" /\ vcJob'[r] \in {Completed(vcJob[r]), Thrown(vcJob[r])}
          /\ vcGuardian' \in BOOLEAN
      BY <2>1 DEF SyncGuardian, StandsAt, IInv, TypeOK
    <3>2. Sound(vcJob'[r], Steps) /\ vcJob[r].state # "absent" /\ vcJob'[r].state # "absent"
      BY <1>0, <3>1, WorkerStep
    <3> QED BY <3>1, <3>2 DEF IInv, TypeOK, JobsSound, Sound
  <2>2. CASE RegisterUser(r)
    <3>1. UNCHANGED <<vcJob, vcGuardian>>
      BY <2>2 DEF RegisterUser
    <3> QED BY <3>1 DEF IInv, TypeOK, JobsSound
  <2> QED BY <2>1, <2>2
<1>4. /\ \A q \in Request : Sound(springJob'[q], Steps)
      /\ springJob' \in [Request -> Job(Steps)] /\ springUser' \in BOOLEAN
      /\ \A q \in Request : springJob'[q].state = "absent" <=> springJob[q].state = "absent"
  <2>1. CASE RegisterUser(r)
    <3>1. /\ \A q \in Request : q # r => springJob'[q] = springJob[q]
          /\ springJob' = [springJob EXCEPT ![r] = springJob'[r]]
          /\ \/ Waiting(springJob[r]) /\ springJob'[r] = Started(springJob[r], "post")
             \/ springJob[r].state = "active" /\ springJob'[r] \in {Completed(springJob[r]), Thrown(springJob[r])}
          /\ springUser' \in BOOLEAN
      BY <2>1 DEF RegisterUser, StandsAt, IInv, TypeOK
    <3>2. Sound(springJob'[r], Steps) /\ springJob[r].state # "absent" /\ springJob'[r].state # "absent"
      BY <1>0, <3>1, WorkerStep
    <3> QED BY <3>1, <3>2 DEF IInv, TypeOK, JobsSound, Sound
  <2>2. CASE SyncGuardian(r)
    <3>1. UNCHANGED <<springJob, springUser>>
      BY <2>2 DEF SyncGuardian
    <3> QED BY <3>1 DEF IInv, TypeOK, JobsSound
  <2> QED BY <2>1, <2>2
<1>5. TypeOK' /\ JobsSound'
  BY <1>1, <1>3, <1>4 DEF IInv, TypeOK, JobsSound
<1>6. PictureBeforeSignup' /\ \A q \in Request : MovedSoFar(q)' /\ VcJobFirst(q)'
  BY <1>1, <1>3, <1>4 DEF IInv, PictureBeforeSignup, MovedSoFar, VcJobFirst
<1>7. \A q \in Request : HasJob(q)' <=> HasJob(q)
  BY <1>1, <1>3, <1>4 DEF HasJob
<1>8. ReceiptIsMined' /\ OnlyConfirmedIsSynced'
  BY <1>1, <1>2, <1>7 DEF IInv, ReceiptIsMined, OnlyConfirmedIsSynced, PastReceipt, Receipt
<1> QED BY <1>5, <1>6, <1>8 DEF IInv

(* The move of the picture: it is deleted in temp/ and the sign-up queued  *)
(* only behind the copy, and nothing ever removes the copy.                *)
LEMMA MoveStep ==
  ASSUME IInv, NEW r \in Request, MovePicture(r)
  PROVE  IInv'
<1> USE DEF fileVars, jobVars, serviceVars
<1>0. Sound(moveJob[r], Steps) /\ {"copy", "delete", "enqueue", "return"} \subseteq Steps
  BY DEF IInv, JobsSound, Steps
<1>1. UNCHANGED <<tx, h, vcJob, serviceVars, restarts>>
  BY DEF MovePicture
<1>2. HasJob(r) /\ vcJob[r].state # "absent"
  <2>1. moveJob[r].state # "absent"
    BY DEF MovePicture, Waiting, StandsAt
  <2> QED BY <2>1 DEF IInv, HasJob, VcJobFirst
<1>3. /\ moveJob' = [moveJob EXCEPT ![r] = moveJob'[r]]
      /\ \A q \in Request : q # r => moveJob'[q] = moveJob[q]
  BY DEF MovePicture, IInv, TypeOK
<1>4. /\ perm => perm'
      /\ temp' \in BOOLEAN /\ perm' \in BOOLEAN
      /\ \/ temp' = temp
         \/ StandsAt(moveJob[r], "delete")
  BY DEF MovePicture, IInv, TypeOK
<1>5. \/ Waiting(moveJob[r]) /\ moveJob'[r] = Started(moveJob[r], "copy")
      \/ /\ moveJob[r].state = "active" /\ perm'
         /\ \E s \in {"delete", "enqueue", "return"} : moveJob'[r] = Moved(moveJob[r], s)
      \/ /\ moveJob[r].state = "active"
         /\ moveJob'[r] \in {Completed(moveJob[r]), Thrown(moveJob[r])}
  BY DEF MovePicture, StandsAt, IInv, TypeOK, MovedSoFar
<1>6. Sound(moveJob'[r], Steps) /\ moveJob'[r].state # "absent"
  BY <1>0, <1>5, WorkerStep
<1>7. MovedSoFar(r)'
  <2>1. CASE Waiting(moveJob[r]) /\ moveJob'[r] = Started(moveJob[r], "copy")
    BY <1>0, <2>1, WhereJobsStand DEF MovedSoFar
  <2>2. CASE perm'
    BY <2>2 DEF MovedSoFar
  <2>3. CASE moveJob'[r] \in {Completed(moveJob[r]), Thrown(moveJob[r])}
    BY <1>0, <2>3, WhereJobsStand DEF MovedSoFar
  <2> QED BY <1>5, <2>1, <2>2, <2>3
<1>8. Sound(Queued, Steps) /\ Queued.state = "waiting"
  BY FreshIsSound DEF Queued
<1>9. \/ springJob' = springJob
      \/ springJob' = [springJob EXCEPT ![r] = Queued] /\ perm
  <2>1. StandsAt(moveJob[r], "enqueue") => perm
    BY DEF IInv, MovedSoFar
  <2> QED BY <2>1 DEF MovePicture
<1>10. TypeOK'
  BY <1>1, <1>3, <1>4, <1>6, <1>8, <1>9 DEF IInv, TypeOK, Sound
<1>11. JobsSound'
  BY <1>1, <1>3, <1>6, <1>8, <1>9 DEF IInv, TypeOK, JobsSound
<1>12. \A q \in Request : MovedSoFar(q)'
  BY <1>3, <1>4, <1>7 DEF IInv, MovedSoFar
<1>13. \A q \in Request : VcJobFirst(q)'
  BY <1>1, <1>2, <1>3, <1>9 DEF IInv, TypeOK, VcJobFirst
<1>14. PictureBeforeSignup'
  <2>1. temp' \/ perm'
    BY <1>4 DEF IInv, PictureBeforeSignup, MovedSoFar
  <2>2. \A q \in Request : h'[q].picture /\ springJob'[q].state # "absent" => perm'
    BY <1>1, <1>4, <1>9 DEF IInv, TypeOK, PictureBeforeSignup
  <2> QED BY <2>1, <2>2 DEF PictureBeforeSignup
<1>15. ReceiptIsMined' /\ OnlyConfirmedIsSynced'
  <2>1. \A q \in Request : HasJob(q)' <=> HasJob(q)
    BY <1>1, <1>2, <1>3, <1>6, <1>9 DEF HasJob, IInv, TypeOK
  <2> QED BY <1>1, <2>1 DEF IInv, ReceiptIsMined, OnlyConfirmedIsSynced, PastReceipt, Receipt
<1> QED BY <1>10, <1>11, <1>12, <1>13, <1>14, <1>15 DEF IInv

LEMMA RestartStep ==
  ASSUME IInv, Restart
  PROVE  IInv'
<1> USE DEF fileVars, jobVars, serviceVars
<1>1. UNCHANGED <<tx, fileVars, serviceVars>>
  BY DEF Restart
<1>2. ASSUME NEW r \in Request
      PROVE  /\ Sound(vcJob'[r], Steps) /\ Sound(moveJob'[r], Steps)
             /\ Sound(springJob'[r], Steps)
  BY StallIsSound DEF Restart, IInv, JobsSound
<1>3. ASSUME NEW r \in Request
      PROVE  /\ vcJob'[r].state = "absent" <=> vcJob[r].state = "absent"
             /\ moveJob'[r].state = "absent" <=> moveJob[r].state = "absent"
             /\ springJob'[r].state = "absent" <=> springJob[r].state = "absent"
  BY NeverAbsentAgain DEF Restart, IInv, JobsSound
<1>4. ASSUME NEW r \in Request
      PROVE  /\ h'[r] \in Req /\ h'[r].picture = h[r].picture /\ h'[r].tx = h[r].tx
             /\ h'[r].pc = h[r].pc \/ h'[r].pc = "lost"
  BY DEF Restart, IInv, TypeOK, Req, Answer
<1>5. TypeOK'
  <2>1. h' \in [Request -> Req]
    BY <1>4 DEF Restart
  <2>2. /\ vcJob' \in [Request -> Job(Steps)] /\ moveJob' \in [Request -> Job(Steps)]
        /\ springJob' \in [Request -> Job(Steps)]
    BY <1>2 DEF Restart, Sound
  <2>3. restarts' \in 0..MaxRestarts
    BY BoundAssumption DEF Restart, IInv, TypeOK
  <2> QED BY <1>1, <2>1, <2>2, <2>3 DEF IInv, TypeOK, Req
<1>6. JobsSound'
  BY <1>2 DEF JobsSound
<1>7. PictureBeforeSignup' /\ OnlyConfirmedIsSynced'
  <2>1. \A r \in Request : HasJob(r)' <=> HasJob(r)
    BY <1>3 DEF HasJob
  <2> QED BY <1>1, <1>3, <1>4, <2>1 DEF IInv, PictureBeforeSignup, OnlyConfirmedIsSynced, Receipt
<1>8. ASSUME NEW r \in Request PROVE MovedSoFar(r)' /\ VcJobFirst(r)'
  <2>1. \A t : ~StandsAt(moveJob'[r], t)
    BY WhereJobsStand DEF Restart, IInv, JobsSound
  <2>2. VcJobFirst(r)
    BY DEF IInv
  <2> QED BY <1>3, <1>4, <2>1, <2>2 DEF MovedSoFar, VcJobFirst
<1>9. ReceiptIsMined'
  BY <1>1, <1>3, <1>4 DEF IInv, ReceiptIsMined, PastReceipt, HasJob
<1> QED BY <1>5, <1>6, <1>7, <1>8, <1>9 DEF IInv

---------------------------------------------------------------------------
LEMMA NextIInv == IInv /\ [Next]_vars => IInv'
<1> SUFFICES ASSUME IInv, [Next]_vars PROVE IInv'
  OBVIOUS
<1>1. CASE UNCHANGED vars
  BY <1>1 DEF vars, IInv, TypeOK, JobsSound, PictureBeforeSignup, MovedSoFar, VcJobFirst,
              ReceiptIsMined, PastReceipt, HasJob, Receipt, OnlyConfirmedIsSynced
<1>2. ASSUME NEW r \in Request, RegisterGuardian(r) \/ Handle(r) \/ WaitFails(r) PROVE IInv'
  BY <1>2, HandleStep
<1>3. ASSUME NEW r \in Request, RunJobs(r) PROVE IInv'
  BY <1>3, MoveStep, SyncStep DEF RunJobs
<1>4. ASSUME NEW t \in Tx, WalletSends(t) \/ Mine(t) PROVE IInv'
  BY <1>4, ChainStep
<1>5. CASE Restart
  BY <1>5, RestartStep
<1> QED BY <1>1, <1>2, <1>3, <1>4, <1>5 DEF Next

LEMMA IInvAlways == Spec => []IInv
BY InitIInv, NextIInv, PTL DEF Spec

(* Every reachable state of a guardian's registration is well typed        *)
(* (GuardianController.registerGuardian and its jobs).                     *)
THEOREM TypeCorrect == Spec => []TypeOK
<1>1. IInv => TypeOK
  BY DEF IInv
<1> QED BY <1>1, IInvAlways, PTL

(* The VC service and Spring hear of a guardian only from requests whose   *)
(* transaction is mined, whatever requests are answered, lost or sent      *)
(* again, and whatever transactions they name.                             *)
THEOREM ChainComesFirst == Spec => []OnlyConfirmedIsSynced
<1>1. IInv => OnlyConfirmedIsSynced
  BY DEF IInv
<1> QED BY <1>1, IInvAlways, PTL

(* The picture is never lost, and a sign-up that names it is queued only   *)
(* when it is in permanent storage (ImageMoveProcessor.handleGuardianImageMove). *)
THEOREM PictureIsThere == Spec => []PictureBeforeSignup
<1>1. IInv => PictureBeforeSignup
  BY DEF IInv
<1> QED BY <1>1, IInvAlways, PTL

---------------------------------------------------------------------------
(* EmailVerification, the e-mail code a wallet needs before it may         *)
(* register: first for any number of requests at once.                     *)

(* A request that is going to store, count or delete an entry has read one *)
(* and the life it gives it is never longer than that of a fresh code.     *)
HasEntry(r) ==
  email[r].pc \in {"enqueue", "drop", "ttl", "write", "del"} => email[r].data \in Entry
EmailInv ==
  /\ EmailTypeOK /\ expiry <= now + CodeTtl
  /\ \A r \in EmailRequest : HasEntry(r)
  /\ \A n \in Send : Sound(mailJob[n], {"smtp"})

LEMMA EmailIdle == Idle \in Handler /\ Idle.pc = "idle"
BY TtlAssumption DEF Idle, Handler, Pc

LEMMA EmailBegins == EmailInit => EmailInv
<1> SUFFICES ASSUME EmailInit PROVE EmailInv
  OBVIOUS
<1>1. Sound(NoJob, {"smtp"})
  BY FreshIsSound
<1>2. mailJob = [n \in Send |-> NoJob]
  BY DEF EmailInit
<1>3. mailJob \in [Send -> Job({"smtp"})]
  BY <1>1, <1>2 DEF Sound
<1>4. email = [r \in EmailRequest |-> Idle]
  BY DEF EmailInit
<1>5. email \in [EmailRequest -> Handler]
  BY <1>4, EmailIdle
<1>6. EmailTypeOK
  <2>1. 0 \in Nat /\ 0 \in 0..MaxSends /\ 0 \in 0..MaxWrong
    BY EmailBounds
  <2> QED BY <1>3, <1>5, <2>1 DEF EmailInit, EmailTypeOK
<1>7. \A r \in EmailRequest : HasEntry(r)
  BY <1>4, EmailIdle DEF HasEntry
<1>8. expiry <= now + CodeTtl
  BY TtlAssumption DEF EmailInit
<1> QED BY <1>1, <1>2, <1>6, <1>7, <1>8 DEF EmailInv

(* A step of a request that changes one handler and, of the entry and its  *)
(* life, at most what it writes.                                           *)
LEMMA EmailMoves ==
  ASSUME EmailInv, NEW r \in EmailRequest, NEW hd \in Handler,
         email' = [email EXCEPT ![r] = hd],
         hd.pc \in {"enqueue", "drop", "ttl", "write", "del"} => hd.data \in Entry,
         stored' \in Entry \cup {None}, expiry' \in Nat, expiry' <= now + CodeTtl,
         sent' \in 0..MaxSends, wrong' \in [Send -> 0..MaxWrong], used' \subseteq Send,
         registered' \in BOOLEAN, UNCHANGED <<now, mailed>>,
         \A n \in Send : Sound(mailJob'[n], {"smtp"}),
         mailJob' = [n \in Send |-> mailJob'[n]]
  PROVE  EmailInv'
<1>1. email \in [EmailRequest -> Handler]
  BY DEF EmailInv, EmailTypeOK
<1>2. email' \in [EmailRequest -> Handler]
  BY <1>1
<1>3. mailJob' \in [Send -> Job({"smtp"})]
  BY DEF Sound
<1>4. EmailTypeOK'
  BY <1>2, <1>3 DEF EmailInv, EmailTypeOK
<1>5. ASSUME NEW q \in EmailRequest PROVE HasEntry(q)'
  BY <1>1 DEF EmailInv, HasEntry
<1> QED BY <1>4, <1>5 DEF EmailInv

LEMMA EmailStep ==
  EmailInv /\ [EmailNext]_emailVars => EmailInv'
<1> SUFFICES ASSUME EmailInv, [EmailNext]_emailVars PROVE EmailInv'
  OBVIOUS
<1>c. CodeTtl \in Nat /\ CodeTtl > 0 /\ MaxSends \in Nat /\ MaxWrong \in Nat
  BY TtlAssumption, EmailBounds
<1>t. /\ now \in Nat /\ expiry \in Nat /\ sent \in 0..MaxSends
      /\ stored \in Entry \cup {None}
      /\ mailJob \in [Send -> Job({"smtp"})] /\ mailed \subseteq Send
      /\ email \in [EmailRequest -> Handler]
      /\ wrong \in [Send -> 0..MaxWrong] /\ used \subseteq Send
      /\ registered \in BOOLEAN
  BY DEF EmailInv, EmailTypeOK
<1>i. /\ expiry <= now + CodeTtl /\ \A r \in EmailRequest : HasEntry(r)
      /\ \A n \in Send : Sound(mailJob[n], {"smtp"})
      /\ mailJob = [n \in Send |-> mailJob[n]]
  BY <1>t DEF EmailInv
<1>d. Idle \in Handler /\ Idle.pc = "idle"
  BY EmailIdle
<1>1. ASSUME NEW r \in EmailRequest, SendCode(r) PROVE EmailInv'
  <2> DEFINE e == [send |-> sent + 1, attempts |-> 0]
             hd == [Idle EXCEPT !.pc = "enqueue", !.data = e]
  <2>1. /\ sent' = sent + 1 /\ stored' = e /\ expiry' = now + CodeTtl
        /\ email' = [email EXCEPT ![r] = hd]
        /\ UNCHANGED <<now, mailJob, mailed, wrong, used, registered>>
    BY <1>1 DEF SendCode, mailVars, pastVars
  <2>2. sent + 1 \in 0..MaxSends /\ sent + 1 \in Send
    BY <1>1, <1>t, <1>c DEF SendCode, Send
  <2>3. e \in Entry
    BY <2>2 DEF Entry
  <2>4. hd \in Handler /\ hd.data = e
    BY <2>3, <1>d DEF Handler, Pc
  <2>5. now + CodeTtl \in Nat /\ expiry' <= now + CodeTtl
    BY <1>t, <1>c, <2>1
  <2> HIDE DEF e, hd
  <2> QED BY <1>t, <1>i, <2>1, <2>2, <2>3, <2>4, <2>5, EmailMoves
<1>2. ASSUME NEW r \in EmailRequest, QueueMail(r) PROVE EmailInv'
  <2>1. /\ mailJob' = [mailJob EXCEPT ![email[r].data.send] = Queued]
        /\ email' = [email EXCEPT ![r] = Idle]
        /\ UNCHANGED <<now, stored, expiry, sent, mailed, wrong, used, registered>>
    BY <1>2 DEF QueueMail, redisVars, pastVars
  <2>2. Sound(Queued, {"smtp"})
    BY FreshIsSound
  <2>3. /\ \A n \in Send : Sound(mailJob'[n], {"smtp"})
        /\ mailJob' = [n \in Send |-> mailJob'[n]]
    BY <1>t, <1>i, <2>1, <2>2
  <2> QED BY <1>t, <1>i, <1>d, <2>1, <2>3, EmailMoves
<1>3. ASSUME NEW r \in EmailRequest, NEW guess \in mailed \cup {0}, CheckCode(r, guess)
      PROVE  EmailInv'
  <2>0. /\ stored # None
        /\ UNCHANGED <<now, stored, expiry, sent, mailJob, mailed, wrong, used, registered>>
    BY <1>3 DEF CheckCode, Live, redisVars, mailVars, pastVars
  <2>1. stored \in Entry
    BY <1>t, <2>0
  <2>2. ASSUME NEW p \in {"drop", "ttl", "del"}, NEW e \in Entry
        PROVE  /\ [Idle EXCEPT !.pc = p, !.data = e] \in Handler
               /\ [Idle EXCEPT !.pc = p, !.data = e].data = e
    BY <1>d DEF Handler, Pc
  <2>3. CASE stored.attempts >= 3
    <3>1. email' = [email EXCEPT ![r] = [Idle EXCEPT !.pc = "drop", !.data = stored]]
      BY <1>3, <2>3 DEF CheckCode
    <3> QED BY <1>t, <1>i, <2>0, <2>1, <2>2, <3>1, EmailMoves
  <2>4. CASE ~(stored.attempts >= 3) /\ guess # stored.send
    <3> DEFINE e == [stored EXCEPT !.attempts = stored.attempts + 1]
    <3>1. email' = [email EXCEPT ![r] = [Idle EXCEPT !.pc = "ttl", !.data = e]]
      BY <1>3, <2>4 DEF CheckCode
    <3>2. stored.attempts \in 0..3
      BY <2>1 DEF Entry
    <3>3. stored.attempts + 1 \in 0..3
      BY <2>4, <3>2
    <3>4. e \in Entry
      BY <2>1, <3>3 DEF Entry
    <3> HIDE DEF e
    <3> QED BY <1>t, <1>i, <2>0, <2>2, <3>1, <3>4, EmailMoves
  <2>5. CASE ~(stored.attempts >= 3) /\ guess = stored.send
    <3>1. email' = [email EXCEPT ![r] = [Idle EXCEPT !.pc = "del", !.data = stored]]
      BY <1>3, <2>5 DEF CheckCode
    <3> QED BY <1>t, <1>i, <2>0, <2>1, <2>2, <3>1, EmailMoves
  <2> QED BY <2>3, <2>4, <2>5
<1>4. ASSUME NEW r \in EmailRequest, DropCode(r) PROVE EmailInv'
  BY <1>4, <1>t, <1>i, <1>d, EmailMoves DEF DropCode, mailVars, pastVars
<1>5. ASSUME NEW r \in EmailRequest, ReadTtl(r) PROVE EmailInv'
  <2> DEFINE ttl == IF Live THEN expiry - now ELSE CodeTtl
             hd == [email[r] EXCEPT !.pc = "write", !.ttl = ttl]
  <2>1. /\ email' = [email EXCEPT ![r] = hd]
        /\ UNCHANGED <<now, stored, expiry, sent, mailJob, mailed, wrong, used, registered>>
    BY <1>5, <1>t DEF ReadTtl, redisVars, mailVars, pastVars
  <2>2. ttl \in 0..CodeTtl
    BY <1>t, <1>i, <1>c DEF Live
  <2>3. email[r].data \in Entry
    BY <1>5, <1>i DEF ReadTtl, HasEntry
  <2> HIDE DEF ttl
  <2>4. hd \in Handler /\ hd.data = email[r].data
    BY <1>t, <2>2 DEF Handler, Pc
  <2> HIDE DEF hd
  <2> QED BY <1>t, <1>i, <2>1, <2>3, <2>4, EmailMoves
<1>6. ASSUME NEW r \in EmailRequest, WriteAttempts(r) PROVE EmailInv'
  <2>1. /\ stored' = email[r].data /\ expiry' = now + email[r].ttl
        /\ wrong[email[r].data.send] < MaxWrong
        /\ wrong' = [wrong EXCEPT ![email[r].data.send] = wrong[email[r].data.send] + 1]
        /\ email' = [email EXCEPT ![r] = Idle]
        /\ UNCHANGED <<now, sent, mailJob, mailed, used, registered>>
    BY <1>6 DEF WriteAttempts, mailVars
  <2>2. email[r].data \in Entry
    BY <1>6, <1>i DEF WriteAttempts, HasEntry
  <2>3. email[r].data.send \in Send
    BY <2>2 DEF Entry
  <2>4. wrong[email[r].data.send] + 1 \in 0..MaxWrong
    BY <1>t, <1>c, <2>1, <2>3
  <2>5. wrong' \in [Send -> 0..MaxWrong]
    BY <1>t, <2>1, <2>4
  <2>6. email[r].ttl \in 0..CodeTtl
    BY <1>t DEF Handler
  <2>7. expiry' \in Nat /\ expiry' <= now + CodeTtl
    BY <1>t, <1>c, <2>1, <2>6
  <2> QED BY <1>t, <1>i, <1>d, <2>1, <2>2, <2>5, <2>7, EmailMoves
<1>7. ASSUME NEW r \in EmailRequest, DeleteCode(r) PROVE EmailInv'
  <2> DEFINE hd == [email[r] EXCEPT !.pc = "registerAuth"]
  <2>1. /\ stored' = None /\ used' = used \cup {email[r].data.send}
        /\ email' = [email EXCEPT ![r] = hd]
        /\ UNCHANGED <<now, expiry, sent, mailJob, mailed, wrong, registered>>
    BY <1>7, <1>t DEF DeleteCode, mailVars
  <2>2. email[r].data \in Entry
    BY <1>7, <1>i DEF DeleteCode, HasEntry
  <2>3. email[r].data.send \in Send
    BY <2>2 DEF Entry
  <2>4. hd \in Handler /\ hd.pc = "registerAuth"
    BY <1>t DEF Handler, Pc
  <2> HIDE DEF hd
  <2> QED BY <1>t, <1>i, <2>1, <2>3, <2>4, EmailMoves
<1>8. ASSUME NEW r \in EmailRequest, RegisterAuth(r) \/ RequestFails(r) PROVE EmailInv'
  <2>1. /\ email' = [email EXCEPT ![r] = Idle] /\ registered' \in BOOLEAN
        /\ UNCHANGED <<now, stored, expiry, sent, mailJob, mailed, wrong, used>>
    BY <1>8, <1>t DEF RegisterAuth, RequestFails, redisVars, mailVars,
       pastVars
  <2> QED BY <1>t, <1>i, <1>d, <2>1, EmailMoves
<1>9. ASSUME NEW n \in Send, SendMail(n) PROVE EmailInv'
  <2>1. /\ UNCHANGED <<now, stored, expiry, sent, email, wrong, used, registered>>
        /\ mailed' \subseteq mailed \cup {n}
        /\ \A m \in Send \ {n} : mailJob'[m] = mailJob[m]
        /\ mailJob' = [m \in Send |-> mailJob'[m]]
    BY <1>9, <1>t DEF SendMail, redisVars, pastVars
  <2>2. \/ Waiting(mailJob[n]) /\ mailJob'[n] = Started(mailJob[n], "smtp")
        \/ /\ StandsAt(mailJob[n], "smtp")
           /\ mailJob'[n] \in {Completed(mailJob[n]), Thrown(mailJob[n])}
    BY <1>9, <1>t DEF SendMail
  <2>3. Sound(mailJob'[n], {"smtp"})
    <3>1. CASE Waiting(mailJob[n]) /\ mailJob'[n] = Started(mailJob[n], "smtp")
      BY <1>i, <3>1, WalkIsSound
    <3>2. CASE /\ StandsAt(mailJob[n], "smtp")
               /\ mailJob'[n] \in {Completed(mailJob[n]), Thrown(mailJob[n])}
      BY <1>i, <3>2, EndIsSound DEF StandsAt
    <3> QED BY <2>2, <3>1, <3>2
  <2>4. \A m \in Send : Sound(mailJob'[m], {"smtp"})
    BY <1>i, <2>1, <2>3
  <2>5. mailJob' \in [Send -> Job({"smtp"})]
    BY <2>1, <2>4 DEF Sound
  <2> QED BY <1>t, <1>i, <2>1, <2>4, <2>5 DEF EmailInv, EmailTypeOK, HasEntry
<1>10. CASE EmailRestart
  <2>1. /\ email' = [r \in EmailRequest |-> Idle]
        /\ \A n \in Send : mailJob'[n] = Stalled(mailJob[n])
        /\ mailJob' = [n \in Send |-> mailJob'[n]]
        /\ UNCHANGED <<now, stored, expiry, sent, mailed, wrong, used, registered>>
    BY <1>10 DEF EmailRestart, redisVars, pastVars
  <2>2. \A n \in Send : Sound(mailJob'[n], {"smtp"})
    BY <1>i, <2>1, StallIsSound
  <2>3. mailJob' \in [Send -> Job({"smtp"})]
    BY <2>1, <2>2 DEF Sound
  <2>4. email' \in [EmailRequest -> Handler] /\ \A r \in EmailRequest : email'[r].pc = "idle"
    BY <1>d, <2>1
  <2> QED BY <1>t, <1>i, <2>1, <2>2, <2>3, <2>4 DEF EmailInv, EmailTypeOK, HasEntry
<1>11. CASE Tick \/ UNCHANGED emailVars
  <2>1. /\ now' \in {now, now + 1}
        /\ UNCHANGED <<stored, expiry, sent, mailJob, mailed, email, wrong, used, registered>>
    BY <1>11 DEF Tick, redisVars, mailVars, pastVars, emailVars
  <2>2. now \in Nat /\ expiry \in Nat /\ CodeTtl \in Nat /\ expiry <= now + CodeTtl
    BY <1>t, <1>i, <1>c
  <2>3. now' = now \/ now' = now + 1
    BY <2>1
  <2>4. now' \in Nat /\ expiry <= now' + CodeTtl
    BY <2>2, <2>3
  <2> QED BY <1>t, <1>i, <2>1, <2>4 DEF EmailInv, EmailTypeOK, HasEntry
<1> QED
  BY <1>1, <1>2, <1>3, <1>4, <1>5, <1>6, <1>7, <1>8, <1>9, <1>10, <1>11
     DEF EmailNext, VerifyCode

(* What the requests, Redis and the queue hold has its type. *)
THEOREM EmailTypes == EmailSpec => []EmailTypeOK
<1>1. EmailInv => EmailTypeOK
  BY DEF EmailInv
<1> QED BY <1>1, EmailBegins, EmailStep, PTL DEF EmailSpec

---------------------------------------------------------------------------
(* For any number of requests: no entry, stored or about to be written,    *)
(* counts more guesses than were made at its code; and what a request      *)
(* writes back has counted its own.                                        *)
StoredInv ==
  stored # None =>
    /\ stored.send <= sent /\ stored.attempts <= wrong[stored.send]
    /\ stored.send # sent \/ stored.send \in used => stored.attempts > 0
PendingInv(r) ==
  /\ email[r].pc \in {"ttl", "write", "del"} => email[r].data.send <= sent
  /\ email[r].pc \in {"ttl", "write"} =>
       /\ email[r].data.attempts > 0
       /\ email[r].data.attempts <= wrong[email[r].data.send] + 1
  /\ email[r].pc = "drop" => wrong[email[r].data.send] >= 3
GuessInv == /\ StoredInv /\ \A n \in used : n <= sent
            /\ \A r \in EmailRequest : PendingInv(r)

LEMMA GuessInit == EmailInit => GuessInv
BY DEF EmailInit, Idle, GuessInv, StoredInv, PendingInv

(* A step that changes one handler, in which neither the counts nor the    *)
(* number of codes go down.                                                *)
LEMMA GuessMoves ==
  ASSUME EmailInv, GuessInv, NEW r \in EmailRequest,
         \A q \in EmailRequest \ {r} : email'[q] = email[q],
         PendingInv(r)', StoredInv',
         sent' \in Nat, sent <= sent', \A n \in used' : n <= sent',
         \A n \in Send : wrong'[n] \in Nat /\ wrong[n] <= wrong'[n]
  PROVE  GuessInv'
<1>1. ASSUME NEW q \in EmailRequest, q # r PROVE PendingInv(q)'
  <2>1. email'[q] = email[q] /\ PendingInv(q) /\ HasEntry(q)
    BY <1>1 DEF EmailInv, GuessInv
  <2>2. email[q].pc \in {"drop", "ttl", "write", "del"} =>
          /\ email[q].data.send \in Send /\ email[q].data.send \in Nat
          /\ email[q].data.attempts \in Nat
    BY <2>1 DEF HasEntry, Entry, Send
  <2>3. sent \in Nat /\ \A n \in Send : wrong[n] \in Nat
    BY EmailBounds DEF EmailInv, EmailTypeOK
  <2> QED BY <2>1, <2>2, <2>3 DEF PendingInv
<1> QED BY <1>1 DEF GuessInv

LEMMA GuessStep == EmailInv /\ GuessInv /\ [EmailNext]_emailVars => GuessInv'
<1> SUFFICES ASSUME EmailInv, GuessInv, [EmailNext]_emailVars PROVE GuessInv'
  OBVIOUS
<1>t. /\ sent \in 0..MaxSends /\ MaxSends \in Nat /\ stored \in Entry \cup {None}
      /\ email \in [EmailRequest -> Handler]
      /\ wrong \in [Send -> 0..MaxWrong] /\ MaxWrong \in Nat
      /\ used \subseteq Send /\ sent \in Nat
  BY EmailBounds DEF EmailInv, EmailTypeOK
<1>w. \A n \in Send : n \in Nat /\ wrong[n] \in Nat
  BY <1>t DEF Send
<1>i. /\ StoredInv /\ \A n \in used : n <= sent
      /\ \A r \in EmailRequest : PendingInv(r) /\ HasEntry(r)
  BY DEF EmailInv, GuessInv
<1>n. None \notin Entry
  BY NoneAssumption DEF Entry, Send
<1>d. Idle.pc = "idle"
  BY DEF Idle
<1>1. ASSUME NEW r \in EmailRequest, SendCode(r) PROVE GuessInv'
  <2> DEFINE e == [send |-> sent + 1, attempts |-> 0]
             hd == [Idle EXCEPT !.pc = "enqueue", !.data = e]
  <2>1. /\ sent' = sent + 1 /\ stored' = e /\ UNCHANGED <<wrong, used>>
        /\ email' = [email EXCEPT ![r] = hd]
    BY <1>1 DEF SendCode, pastVars
  <2>2. sent + 1 \in Send /\ sent + 1 \notin used
    BY <1>1, <1>t, <1>i DEF SendCode, Send
  <2>3. StoredInv'
    BY <1>t, <1>w, <2>1, <2>2 DEF StoredInv
  <2>4. hd.pc = "enqueue"
    BY DEF Idle
  <2> HIDE DEF hd
  <2>5. PendingInv(r)'
    BY <1>t, <2>1, <2>4 DEF PendingInv
  <2>6. \A n \in used' : n <= sent'
    BY <1>t, <1>w, <1>i, <2>1
  <2> QED BY <1>t, <1>w, <2>1, <2>3, <2>5, <2>6, GuessMoves
<1>2. ASSUME NEW r \in EmailRequest,
             QueueMail(r) \/ RegisterAuth(r) \/ RequestFails(r) \/ DropCode(r)
      PROVE  GuessInv'
  <2>1. /\ email' = [email EXCEPT ![r] = Idle] /\ UNCHANGED <<sent, wrong, used>>
        /\ UNCHANGED stored \/ stored' = None
    BY <1>2 DEF QueueMail, RegisterAuth, RequestFails, DropCode, redisVars, pastVars
  <2>2. StoredInv' /\ PendingInv(r)'
    BY <1>t, <1>i, <1>d, <2>1 DEF StoredInv, PendingInv
  <2> QED BY <1>t, <1>w, <1>i, <2>1, <2>2, GuessMoves
<1>3. ASSUME NEW r \in EmailRequest, NEW guess \in mailed \cup {0}, CheckCode(r, guess)
      PROVE  GuessInv'
  <2> DEFINE e == [stored EXCEPT !.attempts = stored.attempts + 1]
             hd == IF stored.attempts >= 3 THEN [Idle EXCEPT !.pc = "drop", !.data = stored]
                   ELSE IF guess # stored.send
                     THEN [Idle EXCEPT !.pc = "ttl", !.data = e]
                   ELSE [Idle EXCEPT !.pc = "del", !.data = stored]
  <2>1. /\ stored \in Entry /\ UNCHANGED <<stored, sent, wrong, used>>
        /\ email' = [email EXCEPT ![r] = hd]
    BY <1>3, <1>t DEF CheckCode, Live, redisVars, pastVars
  <2>2. /\ stored.send \in Send /\ stored.send \in Nat /\ stored.attempts \in 0..3
        /\ stored.send <= sent /\ stored.attempts <= wrong[stored.send]
    BY <1>i, <1>n, <2>1 DEF StoredInv, Entry, Send
  <2>3. e.send = stored.send /\ e.attempts = stored.attempts + 1
    BY <2>1 DEF Entry
  <2>4. \/ stored.attempts >= 3 /\ hd.pc = "drop" /\ hd.data = stored
        \/ hd.pc = "ttl" /\ hd.data = e
        \/ hd.pc = "del" /\ hd.data = stored
    BY DEF Idle
  <2>5. email'[r] = hd
    BY <1>t, <2>1
  <2> HIDE DEF e, hd
  <2>6. PendingInv(r)'
    BY <1>t, <1>w, <2>1, <2>2, <2>3, <2>4, <2>5 DEF PendingInv
  <2>7. StoredInv'
    BY <1>i, <2>1 DEF StoredInv
  <2> QED BY <1>t, <1>w, <1>i, <2>1, <2>6, <2>7, GuessMoves
<1>4. ASSUME NEW r \in EmailRequest, ReadTtl(r) PROVE GuessInv'
  <2> DEFINE ttl == IF Live THEN expiry - now ELSE CodeTtl
             hd == [email[r] EXCEPT !.pc = "write", !.ttl = ttl]
  <2>1. /\ email' = [email EXCEPT ![r] = hd] /\ email[r].pc = "ttl"
        /\ UNCHANGED <<stored, sent, wrong, used>>
    BY <1>4, <1>t DEF ReadTtl, redisVars, pastVars
  <2>2. hd.pc = "write" /\ hd.data = email[r].data
    BY <1>t DEF Handler
  <2> HIDE DEF ttl, hd
  <2>3. email'[r] = hd
    BY <1>t, <2>1
  <2>4. StoredInv' /\ PendingInv(r)'
    BY <1>i, <2>1, <2>2, <2>3 DEF StoredInv, PendingInv
  <2> QED BY <1>t, <1>w, <1>i, <2>1, <2>4, GuessMoves
<1>5. ASSUME NEW r \in EmailRequest, WriteAttempts(r) PROVE GuessInv'
  <2> DEFINE e == email[r].data
  <2>1. /\ stored' = e /\ wrong' = [wrong EXCEPT ![e.send] = wrong[e.send] + 1]
        /\ email' = [email EXCEPT ![r] = Idle]
        /\ UNCHANGED <<sent, used>>
    BY <1>5 DEF WriteAttempts
  <2>2. /\ e \in Entry /\ e.send <= sent /\ e.attempts > 0
        /\ e.attempts <= wrong[e.send] + 1
    BY <1>5, <1>i DEF WriteAttempts, HasEntry, PendingInv
  <2>3. e.send \in Send /\ e.attempts \in 0..3
    BY <2>2 DEF Entry
  <2> HIDE DEF e
  <2>4. wrong'[e.send] = wrong[e.send] + 1 /\ \A n \in Send \ {e.send} : wrong'[n] = wrong[n]
    BY <1>t, <2>1, <2>3
  <2>5. StoredInv'
    BY <2>1, <2>2, <2>3, <2>4 DEF StoredInv
  <2>6. \A n \in Send : wrong'[n] \in Nat /\ wrong[n] <= wrong'[n]
    BY <1>w, <2>3, <2>4
  <2>7. PendingInv(r)'
    BY <1>t, <1>d, <2>1 DEF PendingInv
  <2> QED BY <1>t, <1>i, <2>1, <2>5, <2>6, <2>7, GuessMoves
<1>6. ASSUME NEW r \in EmailRequest, DeleteCode(r) PROVE GuessInv'
  <2> DEFINE hd == [email[r] EXCEPT !.pc = "registerAuth"]
  <2>1. /\ stored' = None /\ used' = used \cup {email[r].data.send} /\ UNCHANGED <<sent, wrong>>
        /\ email' = [email EXCEPT ![r] = hd]
    BY <1>6, <1>t DEF DeleteCode
  <2>2. email[r].data.send <= sent
    BY <1>6, <1>i DEF DeleteCode, PendingInv
  <2>3. hd.pc = "registerAuth"
    BY <1>t DEF Handler
  <2> HIDE DEF hd
  <2>4. PendingInv(r)' /\ StoredInv'
    BY <1>t, <2>1, <2>3 DEF PendingInv, StoredInv
  <2>5. \A n \in used' : n <= sent'
    BY <1>i, <2>1, <2>2
  <2> QED BY <1>t, <1>w, <2>1, <2>4, <2>5, GuessMoves
<1>7. ASSUME UNCHANGED <<stored, sent, wrong, used>>,
             \A r \in EmailRequest : email'[r] = email[r] \/ email'[r].pc = "idle"
      PROVE  GuessInv'
  <2>1. \A r \in EmailRequest : PendingInv(r)'
    BY <1>i, <1>7 DEF PendingInv
  <2> QED BY <1>i, <1>7, <2>1 DEF GuessInv, StoredInv
<1>8. ASSUME NEW n \in Send, SendMail(n) PROVE GuessInv'
  BY <1>7, <1>8 DEF SendMail, redisVars, pastVars
<1>9. CASE EmailRestart
  BY <1>7, <1>9, <1>d DEF EmailRestart, redisVars, pastVars
<1>10. CASE Tick \/ UNCHANGED emailVars
  BY <1>7, <1>10 DEF Tick, emailVars, redisVars, pastVars
<1> QED
  BY <1>1, <1>2, <1>3, <1>4, <1>5, <1>6, <1>8, <1>9, <1>10 DEF EmailNext, VerifyCode

LEMMA GuessAlways == EmailSpec => [](EmailInv /\ GuessInv)
BY EmailBegins, EmailStep, GuessInit, GuessStep, PTL DEF EmailSpec

(* Nobody is told that the attempts are used up before three wrong guesses *)
(* at the code were counted, for any number of requests at once.           *)
THEOREM AttemptsAreHonest == EmailSpec => []AttemptsAreGuesses
<1>1. EmailInv /\ GuessInv => AttemptsAreGuesses
  BY DEF GuessInv, StoredInv, PendingInv, AttemptsAreGuesses, Live
<1> QED BY <1>1, GuessAlways, PTL

(* A code that was replaced or accepted never returns with all of its      *)
(* attempts, for any number of requests at once.                           *)
THEOREM ReturnedCodesAreCounted == EmailSpec => []ReturnedCodeIsCounted
<1>1. EmailInv /\ GuessInv => ReturnedCodeIsCounted
  BY DEF GuessInv, StoredInv, ReturnedCodeIsCounted, Live
<1> QED BY <1>1, GuessAlways, PTL

---------------------------------------------------------------------------
(* While one request at a time is served, the count that is stored is the  *)
(* number of wrong guesses that were counted, and what a request is about  *)
(* to write back is still so when it does.  With two requests the first to *)
(* write is undone by the second: TLC refutes MaxThreeAttempts.            *)
OneAtATime == \A q, r \in EmailRequest : q = r

EntryInv == stored # None => stored.attempts = wrong[stored.send]
ReadInv(r) ==
  email[r].pc \in {"ttl", "write"} =>
    email[r].data.attempts = wrong[email[r].data.send] + 1
PastInv == \A n \in Send : (n > sent => wrong[n] = 0) /\ wrong[n] <= 3
CountInv == EntryInv /\ PastInv /\ \A r \in EmailRequest : ReadInv(r)

LEMMA CountInit == EmailInit => CountInv
BY EmailBounds DEF EmailInit, Send, Idle, CountInv, EntryInv, ReadInv, PastInv

LEMMA CountStep ==
  ASSUME OneAtATime
  PROVE  EmailInv /\ GuessInv /\ CountInv /\ [EmailNext]_emailVars => CountInv'
<1> SUFFICES ASSUME EmailInv, GuessInv, CountInv, [EmailNext]_emailVars PROVE CountInv'
  OBVIOUS
<1>t. /\ sent \in 0..MaxSends /\ MaxSends \in Nat /\ stored \in Entry \cup {None}
      /\ email \in [EmailRequest -> Handler]
      /\ wrong \in [Send -> 0..MaxWrong] /\ MaxWrong \in Nat
      /\ used \subseteq Send
  BY EmailBounds DEF EmailInv, EmailTypeOK
<1>i. EntryInv /\ PastInv /\ \A r \in EmailRequest : ReadInv(r) /\ HasEntry(r)
  BY DEF EmailInv, CountInv
<1>n. None \notin Entry
  BY NoneAssumption DEF Entry, Send
<1>d. Idle.pc = "idle"
  BY DEF Idle
(* There is no other request whose handler could be disturbed. *)
<1>o. ASSUME NEW r \in EmailRequest, ReadInv(r)', EntryInv', PastInv' PROVE CountInv'
  BY <1>o DEF CountInv, OneAtATime
<1>k. ASSUME NEW r \in EmailRequest, email' = [email EXCEPT ![r] = Idle] PROVE ReadInv(r)'
  <2>1. email'[r].pc = "idle"
    BY <1>k, <1>t, <1>d
  <2> QED BY <2>1 DEF ReadInv
<1>1. ASSUME NEW r \in EmailRequest, SendCode(r) PROVE CountInv'
  <2> DEFINE e == [send |-> sent + 1, attempts |-> 0]
  <2>1. /\ sent' = sent + 1 /\ stored' = e /\ UNCHANGED <<wrong, used>>
        /\ email' = [email EXCEPT ![r] = [Idle EXCEPT !.pc = "enqueue", !.data = e]]
    BY <1>1 DEF SendCode, pastVars
  <2>2. sent + 1 \in Send
    BY <1>1, <1>t DEF SendCode, Send
  <2>3. wrong[sent + 1] = 0
    BY <1>t, <1>i, <2>2 DEF PastInv
  <2>4. EntryInv'
    BY <2>1, <2>3 DEF EntryInv
  <2>5. PastInv'
    <3>1. \A n \in Send : n \in Nat /\ (n > sent => wrong[n] = 0) /\ wrong[n] <= 3
      BY <1>i DEF PastInv, Send
    <3> QED BY <1>t, <2>1, <3>1 DEF PastInv
  <2>6. email'[r].pc = "enqueue"
    BY <1>t, <2>1 DEF Idle
  <2> QED BY <1>o, <2>4, <2>5, <2>6 DEF ReadInv
<1>2. ASSUME NEW r \in EmailRequest,
             QueueMail(r) \/ RegisterAuth(r) \/ RequestFails(r)
      PROVE  CountInv'
  <2>1. email' = [email EXCEPT ![r] = Idle] /\ UNCHANGED <<stored, sent, wrong, used>>
    BY <1>2 DEF QueueMail, RegisterAuth, RequestFails, redisVars,
       pastVars
  <2> QED BY <1>i, <1>k, <1>o, <2>1 DEF EntryInv, PastInv
<1>3. ASSUME NEW r \in EmailRequest, NEW guess \in mailed \cup {0}, CheckCode(r, guess)
      PROVE  CountInv'
  <2>1. stored \in Entry /\ UNCHANGED <<stored, sent, wrong, used>>
    BY <1>3, <1>t DEF CheckCode, Live, redisVars, pastVars
  <2>2. stored.attempts = wrong[stored.send]
    BY <1>i, <1>n, <2>1 DEF EntryInv
  <2>3. EntryInv' /\ PastInv'
    BY <1>i, <2>1 DEF EntryInv, PastInv
  <2>4. CASE stored.attempts >= 3
    <3>1. email'[r].pc = "drop"
      BY <1>3, <1>t, <2>4 DEF CheckCode, Idle
    <3> QED BY <1>o, <2>3, <3>1 DEF ReadInv
  <2>5. CASE ~(stored.attempts >= 3) /\ guess # stored.send
    <3> DEFINE e == [stored EXCEPT !.attempts = stored.attempts + 1]
    <3>1. email'[r] = [Idle EXCEPT !.pc = "ttl", !.data = e]
      BY <1>3, <1>t, <2>5 DEF CheckCode
    <3>2. email'[r].pc = "ttl" /\ email'[r].data = e
      BY <3>1 DEF Idle
    <3>3. e.send = stored.send /\ e.attempts = stored.attempts + 1
      BY <2>1 DEF Entry
    <3>4. ReadInv(r)'
      BY <2>1, <2>2, <3>2, <3>3 DEF ReadInv
    <3> QED BY <1>o, <2>3, <3>4
  <2>6. CASE ~(stored.attempts >= 3) /\ guess = stored.send
    <3>1. email'[r] = [Idle EXCEPT !.pc = "del", !.data = stored]
      BY <1>3, <1>t, <2>6 DEF CheckCode
    <3>2. email'[r].pc = "del" /\ email'[r].data = stored
      BY <3>1 DEF Idle
    <3>3. ReadInv(r)'
      BY <2>1, <2>2, <3>2 DEF ReadInv
    <3> QED BY <1>o, <2>3, <3>3
  <2> QED BY <2>4, <2>5, <2>6
<1>4. ASSUME NEW r \in EmailRequest, DropCode(r) PROVE CountInv'
  <2>1. /\ email' = [email EXCEPT ![r] = Idle] /\ stored' = None
        /\ UNCHANGED <<sent, wrong, used>>
    BY <1>4 DEF DropCode, pastVars
  <2> QED BY <1>i, <1>k, <1>o, <2>1 DEF EntryInv, PastInv
<1>5. ASSUME NEW r \in EmailRequest, ReadTtl(r) PROVE CountInv'
  <2> DEFINE ttl == IF Live THEN expiry - now ELSE CodeTtl
  <2>1. /\ email'[r] = [email[r] EXCEPT !.pc = "write", !.ttl = ttl]
        /\ email[r].pc = "ttl" /\ UNCHANGED <<stored, sent, wrong, used>>
    BY <1>5, <1>t DEF ReadTtl, redisVars, pastVars
  <2> HIDE DEF ttl
  <2>2. email'[r].pc = "write" /\ email'[r].data = email[r].data
    BY <1>t, <2>1 DEF Handler
  <2>3. ReadInv(r)'
    BY <1>i, <2>1, <2>2 DEF ReadInv
  <2> QED BY <1>i, <1>o, <2>1, <2>3 DEF EntryInv, PastInv
<1>6. ASSUME NEW r \in EmailRequest, WriteAttempts(r) PROVE CountInv'
  <2> DEFINE e == email[r].data
  <2>1. /\ stored' = e /\ wrong' = [wrong EXCEPT ![e.send] = wrong[e.send] + 1]
        /\ email' = [email EXCEPT ![r] = Idle]
        /\ UNCHANGED <<sent, used>>
    BY <1>6 DEF WriteAttempts
  <2>2. e \in Entry /\ e.send <= sent /\ e.attempts = wrong[e.send] + 1
    BY <1>6, <1>i DEF WriteAttempts, HasEntry, ReadInv, GuessInv, PendingInv
  <2>3. e.send \in Send /\ e.send \in Nat /\ e.attempts <= 3
    BY <2>2 DEF Entry, Send
  <2> HIDE DEF e
  <2>4. wrong'[e.send] = e.attempts /\ \A n \in Send \ {e.send} : wrong'[n] = wrong[n]
    BY <1>t, <2>1, <2>2, <2>3
  <2>5. EntryInv'
    BY <2>1, <2>2, <2>4 DEF EntryInv
  <2>6. PastInv'
    <3>1. ASSUME NEW n \in Send PROVE (n > sent => wrong'[n] = 0) /\ wrong'[n] <= 3
      <4>1. CASE n = e.send
        BY <1>t, <2>2, <2>3, <2>4, <4>1
      <4>2. CASE n # e.send
        BY <1>i, <2>4, <4>2 DEF PastInv
      <4> QED BY <4>1, <4>2
    <3> QED BY <1>i, <2>1, <3>1 DEF PastInv
  <2> QED BY <1>k, <1>o, <2>1, <2>5, <2>6
<1>7. ASSUME NEW r \in EmailRequest, DeleteCode(r) PROVE CountInv'
  <2>1. /\ stored' = None /\ used' = used \cup {email[r].data.send} /\ UNCHANGED <<sent, wrong>>
        /\ email'[r] = [email[r] EXCEPT !.pc = "registerAuth"]
    BY <1>7, <1>t DEF DeleteCode
  <2>3. email'[r].pc = "registerAuth"
    BY <1>t, <2>1 DEF Handler
  <2>4. ReadInv(r)' /\ EntryInv'
    BY <2>1, <2>3 DEF ReadInv, EntryInv
  <2>5. PastInv'
    BY <1>t, <1>i, <2>1 DEF PastInv
  <2> QED BY <1>o, <2>4, <2>5
<1>8. ASSUME UNCHANGED <<stored, sent, wrong, used>>,
             \A r \in EmailRequest : email'[r] = email[r] \/ email'[r].pc = "idle"
      PROVE  CountInv'
  <2>1. \A r \in EmailRequest : ReadInv(r)'
    BY <1>i, <1>8 DEF ReadInv
  <2> QED BY <1>i, <1>8, <2>1 DEF CountInv, EntryInv, PastInv
<1>9. ASSUME NEW n \in Send, SendMail(n) PROVE CountInv'
  BY <1>8, <1>9 DEF SendMail, redisVars, pastVars
<1>10. CASE EmailRestart
  BY <1>8, <1>10, <1>d DEF EmailRestart, redisVars, pastVars
<1>11. CASE Tick \/ UNCHANGED emailVars
  BY <1>8, <1>11 DEF Tick, emailVars, redisVars, pastVars
<1> QED
  BY <1>1, <1>2, <1>3, <1>4, <1>5, <1>6, <1>7, <1>9, <1>10, <1>11
     DEF EmailNext, VerifyCode

LEMMA CountAlways ==
  ASSUME OneAtATime
  PROVE  EmailSpec => [](EmailInv /\ CountInv)
BY EmailBegins, EmailStep, GuessInit, GuessStep, CountInit, CountStep, PTL DEF EmailSpec

(* A code is not guessed at more than three times, though its entry may    *)
(* expire between the read and the write and is then written anew.         *)
THEOREM ThreeAttemptsAlone ==
  ASSUME OneAtATime PROVE EmailSpec => []MaxThreeAttempts
<1>1. CountInv => MaxThreeAttempts
  BY DEF CountInv, PastInv, MaxThreeAttempts
<1> QED BY <1>1, CountAlways, PTL

============================================================================
