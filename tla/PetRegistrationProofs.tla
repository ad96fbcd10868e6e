----------------------- MODULE PetRegistrationProofs -----------------------
(***************************************************************************)
(* Proofs about PetRegistration for any images, any number of register     *)
(* requests, attempts and stalls: whatever stops a move of images, and     *)
(* however many moves of the same files interleave, no image is lost, and  *)
(* nothing is said to other services too early.                            *)
(***************************************************************************)
EXTENDS PetRegistration, JobQueueProofs

Call == [pc : Pc, did : Did \cup {None}, tx : Tx \cup {None}, form : AnyForm]

JobsSound ==
  \A r \in Request : /\ Sound(moveJob[r], Steps) /\ Sound(linkJob[r], Steps)
                     /\ Sound(vcJob[r], Steps) /\ Sound(syncJob[r], Steps)

(* The files a move job has behind it are in permanent storage: those      *)
(* before the cursor, the one about to be deleted, all after the loop.     *)
MovedSoFar(r) ==
  /\ (StandsAt(moveJob[r], "copy") \/ StandsAt(moveJob[r], "delete")) =>
       \A i \in 1..Len(Images) : i < cursor[r] => Images[i] \in perm
  /\ StandsAt(moveJob[r], "delete") => Images[cursor[r]] \in perm
  /\ (StandsAt(moveJob[r], "enqueue") \/ StandsAt(moveJob[r], "return")) =>
       File \subseteq perm
  /\ syncJob[r].state # "absent" => File \subseteq perm

(* A request on its way has named a pet and a transaction.  One past the   *)
(* receipt, and every job there is, belong to a transaction the chain has  *)
(* executed.                                                               *)
Named ==
  \A r \in Request : /\ h[r].pc = "new" => h[r].tx = None
                     /\ h[r].pc \in {"send", "confirm"} => h[r].did \in Did /\ h[r].tx \in Tx
PastReceipt(r) ==
  \/ h[r].pc \in {"vector", "queueMove", "queueLink", "queueVc", "ok"}
  \/ moveJob[r].state # "absent" \/ linkJob[r].state # "absent"
  \/ vcJob[r].state # "absent" \/ syncJob[r].state # "absent"
ReceiptIsMined == \A r \in Request : PastReceipt(r) => Mined(r) /\ h[r].did \in Did

IInv == /\ TypeOK /\ JobsSound
        /\ NoImageLost /\ \A r \in Request : MovedSoFar(r)
        /\ Named /\ ReceiptIsMined /\ NothingBeforeChain

(* Where a job stands after a step of its worker.                          *)
LEMMA WhereJobsStand ==
  ASSUME NEW j, Sound(j, Steps), NEW s, NEW t
  PROVE  /\ StandsAt(Started(j, s), t) <=> t = s
         /\ j.state = "active" => (StandsAt(Moved(j, s), t) <=> t = s)
         /\ ~StandsAt(Completed(j), t) /\ ~StandsAt(Thrown(j), t)
         /\ ~StandsAt(Stalled(j), t)
BY DEF Sound, Job, JobState, StandsAt, Started, Moved, Completed, Thrown, Stalled

(* What is mined stays mined, and a request keeps what it has named.       *)
Kept == \A r \in Request : Mined(r) => Mined(r)' /\ h'[r].did = h[r].did

(* Work is done for the pet of a request whose transaction is mined.       *)
LEMMA WorkStays ==
  ASSUME NothingBeforeChain, Kept, NEW r \in Request,
         \/ UNCHANGED <<vector, spring, vc, perm>>
         \/ /\ Mined(r)
            /\ vector' \cup spring' \cup vc' \subseteq vector \cup spring \cup vc \cup {h[r].did}
  PROVE  NothingBeforeChain'
BY DEF NothingBeforeChain, Kept

(* The transactions move on, and those that are mined stay so. *)
TxKept == /\ tx' \in [Tx -> TxState]
          /\ \A t \in Tx : tx[t] = "mined" => tx'[t] = "mined"

LEMMA KeptByCalls ==
  ASSUME IInv, TxKept,
         \A r \in Request : \/ h'[r].tx = h[r].tx /\ h'[r].did = h[r].did
                            \/ h[r].pc = "new"
  PROVE  Kept
BY NoneAssumption DEF Kept, TxKept, Mined, IInv, Named

---------------------------------------------------------------------------
LEMMA InitIInv == Init => IInv
<1> SUFFICES ASSUME Init PROVE IInv
  OBVIOUS
<1>1. Sound(NoJob, Steps) /\ NoJob.state = "absent" /\ NoJob.at = ""
  BY FreshIsSound DEF NoJob
<1>2. NewRequest \in Call
  BY DEF Call, NewRequest, Pc, AnyForm, Plain
<1>3. TypeOK
  <2>1. 1 \in 1..Len(Images)
    BY ImagesAssumption
  <2> QED BY <1>1, <1>2, <2>1 DEF Init, TypeOK, TxState, Sound, Call
<1>4. JobsSound
  BY <1>1 DEF Init, JobsSound
<1>5. NoImageLost /\ NothingBeforeChain
  BY DEF Init, NoImageLost, NothingBeforeChain
<1>6. \A r \in Request : MovedSoFar(r)
  BY <1>1 DEF Init, MovedSoFar, StandsAt
<1>7. Named /\ ReceiptIsMined
  BY <1>1 DEF Init, Named, ReceiptIsMined, PastReceipt, NewRequest
<1> QED BY <1>3, <1>4, <1>5, <1>6, <1>7 DEF IInv

(* A step that changes only a request, without passing the receipt before  *)
(* the chain has executed the transaction.                                 *)
LEMMA RequestMoves ==
  ASSUME IInv, NEW r \in Request, NEW w \in Call,
         h' = [h EXCEPT ![r] = w], w.pc # "new",
         \/ w.tx = h[r].tx /\ w.did = h[r].did
         \/ h[r].pc = "new" /\ w.pc = "send",
         w.pc \in {"send", "confirm"} => w.did \in Did /\ w.tx \in Tx,
         w.pc \in {"vector", "queueMove", "queueLink", "queueVc", "ok"} =>
           Mined(r) /\ h[r].did \in Did,
         TxKept,
         vector' = vector \/ (Mined(r) /\ h[r].did \in Did /\ vector' = vector \cup {h[r].did}),
         UNCHANGED <<linkTx, temp, perm, jobVars, serviceVars>>
  PROVE  IInv'
<1> USE DEF jobVars, serviceVars
<1>0. TypeOK /\ h \in [Request -> Call]
  BY DEF IInv, TypeOK, Call
<1>1. h'[r] = w /\ \A q \in Request : q # r => h'[q] = h[q]
  BY <1>0
<1>2. Kept
  BY <1>1, KeptByCalls
<1>3. TypeOK'
  <2>1. h' \in [Request -> Call]
    BY <1>0
  <2> QED BY <1>0, <2>1 DEF TypeOK, TxKept, Call
<1>4. JobsSound' /\ NoImageLost' /\ \A q \in Request : MovedSoFar(q)'
  BY DEF IInv, JobsSound, NoImageLost, MovedSoFar
<1>5. Named'
  BY <1>1 DEF IInv, Named
<1>6. ReceiptIsMined'
  <2>1. ASSUME NEW q \in Request, PastReceipt(q)' PROVE (Mined(q) /\ h[q].did \in Did)'
    <3>1. PastReceipt(q) \/ (q = r /\ Mined(r) /\ h[r].did \in Did)
      BY <1>1, <2>1 DEF PastReceipt
    <3>2. Mined(q) /\ h[q].did \in Did
      BY <3>1 DEF IInv, ReceiptIsMined
    <3> QED BY <1>2, <3>2 DEF Kept
  <2> QED BY <2>1 DEF ReceiptIsMined
<1>7. NothingBeforeChain'
  <2>1. \/ UNCHANGED <<vector, spring, vc, perm>>
        \/ /\ Mined(r)
           /\ vector' \cup spring' \cup vc' \subseteq vector \cup spring \cup vc \cup {h[r].did}
    OBVIOUS
  <2> QED BY <1>2, <2>1, WorkStays DEF IInv
<1> QED BY <1>3, <1>4, <1>5, <1>6, <1>7 DEF IInv

LEMMA RequestGoes ==
  ASSUME IInv, NEW r \in Request, NEW pc \in Pc, Goto(r, pc), pc # "new",
         pc \in {"send", "confirm"} => h[r].did \in Did /\ h[r].tx \in Tx,
         pc \in {"vector", "queueMove", "queueLink", "queueVc", "ok"} =>
           Mined(r) /\ h[r].did \in Did,
         TxKept,
         vector' = vector \/ (Mined(r) /\ h[r].did \in Did /\ vector' = vector \cup {h[r].did}),
         UNCHANGED <<linkTx, temp, perm, jobVars, serviceVars>>
  PROVE  IInv'
<1> DEFINE w == [h[r] EXCEPT !.pc = pc]
<1>0. h \in [Request -> Call]
  BY DEF IInv, TypeOK, Call
<1>1. w \in Call /\ w.pc = pc /\ w.tx = h[r].tx /\ w.did = h[r].did
  BY <1>0 DEF Call
<1>2. h' = [h EXCEPT ![r] = w]
  BY <1>0 DEF Goto
<1> HIDE DEF w
<1> QED BY <1>1, <1>2, RequestMoves

(* The transactions of a step that leaves them alone, or sends one. *)
LEMMA TxMoves ==
  ASSUME TypeOK, \/ tx' = tx
                 \/ \E t \in Tx : tx[t] = "unsent" /\ tx' = [tx EXCEPT ![t] = "pending"]
  PROVE  TxKept
BY DEF TypeOK, TxState, TxKept

LEMMA HandleStep ==
  ASSUME IInv, NEW r \in Request, Handle(r)
  PROVE  IInv'
<1> USE DEF chainVars, fileVars, jobVars, serviceVars
<1>1. h[r] \in Call /\ TypeOK
  BY DEF IInv, TypeOK, Call
<1>2. \A pc \in {"send", "confirm", "vector", "queueMove", "queueLink", "queueVc",
                 "ok", "error"} : pc \in Pc
  BY DEF Pc
<1>3. CASE Register(r)
  <2>1. PICK did \in Did, t \in Tx, form \in Form :
          h' = [h EXCEPT ![r] = [pc |-> "send", did |-> did, tx |-> t, form |-> form]]
    BY <1>3 DEF Register
  <2>2. [pc |-> "send", did |-> did, tx |-> t, form |-> form] \in Call
    BY <1>2, FormAssumption DEF Call
  <2>3. UNCHANGED <<chainVars, fileVars, jobVars, serviceVars>> /\ h[r].pc = "new"
    BY <1>3 DEF Register
  <2>4. TxKept
    BY <1>1, <2>3, TxMoves
  <2> QED BY <2>1, <2>2, <2>3, <2>4, RequestMoves
<1>4. CASE Refuse(r) \/ NotConfirmed(r) \/ QueueFails(r)
  <2>1. Goto(r, "error") /\ UNCHANGED <<chainVars, fileVars, jobVars, serviceVars>>
    BY <1>4 DEF Refuse, NotConfirmed, QueueFails
  <2>2. TxKept
    BY <1>1, <2>1, TxMoves
  <2> QED BY <1>2, <2>1, <2>2, RequestGoes
<1>5. CASE SendSignedTransaction(r)
  <2>1. h[r].did \in Did /\ h[r].tx \in Tx
    BY <1>5 DEF SendSignedTransaction, IInv, Named
  <2>2. PICK pc \in {"confirm", "error"} : Goto(r, pc)
    BY <1>5 DEF SendSignedTransaction
  <2>3. UNCHANGED <<linkTx, fileVars, jobVars, serviceVars>>
    BY <1>5 DEF SendSignedTransaction
  <2>4. TxKept
    BY <1>1, <1>5, <2>1, TxMoves DEF SendSignedTransaction
  <2> QED BY <1>2, <2>1, <2>2, <2>3, <2>4, RequestGoes
<1>6. CASE Confirmed(r)
  <2>1. /\ Goto(r, "vector") /\ tx[h[r].tx] = "mined" /\ h[r].pc = "confirm"
        /\ UNCHANGED <<chainVars, fileVars, jobVars, serviceVars>>
    BY <1>6 DEF Confirmed
  <2>2. Mined(r) /\ h[r].did \in Did
    BY <2>1 DEF IInv, Named, Mined
  <2>3. TxKept
    BY <1>1, <2>1, TxMoves
  <2> QED BY <1>2, <2>1, <2>2, <2>3, RequestGoes
<1>8. CASE SaveFeatureVector(r)
  <2>1. Mined(r) /\ h[r].did \in Did
    BY <1>8 DEF SaveFeatureVector, IInv, ReceiptIsMined, PastReceipt
  <2>2. /\ vector' = vector \/ vector' = vector \cup {h[r].did}
        /\ Goto(r, "queueMove") /\ UNCHANGED <<chainVars, temp, perm, jobVars, serviceVars>>
    BY <1>8 DEF SaveFeatureVector
  <2>3. TxKept
    BY <1>1, <2>2, TxMoves
  <2> QED BY <1>2, <2>1, <2>2, <2>3, RequestGoes
<1>10. CASE QueuePetImageMove(r) \/ QueueGuardianLink(r) \/ QueuePetVCCreation(r)
  <2>1. Mined(r) /\ h[r].did \in Did /\ tx' = tx
    BY <1>10 DEF QueuePetImageMove, QueueGuardianLink, QueuePetVCCreation, IInv,
                 ReceiptIsMined, PastReceipt
  <2>2. PICK pc \in Pc : Goto(r, pc)
    <3>1. Goto(r, "queueLink") \/ Goto(r, "queueVc") \/ Goto(r, "error") \/ Goto(r, "ok")
      BY <1>10 DEF QueuePetImageMove, QueueGuardianLink, QueuePetVCCreation
    <3> QED BY <3>1, <1>2
  <2>r. /\ h'[r].tx = h[r].tx /\ h'[r].did = h[r].did
        /\ h'[r].pc \notin {"new", "send", "confirm"}
        /\ \A q \in Request : q # r => h'[q] = h[q]
    BY <1>10, <1>1 DEF QueuePetImageMove, QueueGuardianLink, QueuePetVCCreation, Goto,
                       Call, TypeOK
  <2>k. Kept
    BY <1>1, <2>1, <2>r, KeptByCalls, TxMoves
  <2>3. /\ moveJob' = moveJob \/ moveJob' = [moveJob EXCEPT ![r] = Queued]
        /\ linkJob' = linkJob \/ linkJob' = [linkJob EXCEPT ![r] = Queued]
        /\ vcJob' = vcJob \/ vcJob' = [vcJob EXCEPT ![r] = Queued]
    BY <1>10 DEF QueuePetImageMove, QueueGuardianLink, QueuePetVCCreation
  <2>4. UNCHANGED <<linkTx, fileVars, syncJob, cursor, serviceVars>>
    BY <1>10 DEF QueuePetImageMove, QueueGuardianLink, QueuePetVCCreation
  <2>5. Sound(Queued, Steps) /\ Queued \in Job(Steps) /\ Queued.state = "waiting"
    BY FreshIsSound DEF Sound, Queued
  <2>6. h' \in [Request -> Call]
    BY <1>1, <2>2 DEF Goto, TypeOK, Call
  <2>7. TypeOK'
    BY <2>1, <2>3, <2>4, <2>5, <2>6 DEF IInv, TypeOK, Call
  <2>8. JobsSound'
    BY <2>3, <2>4, <2>5 DEF IInv, TypeOK, JobsSound
  <2>9. NoImageLost' /\ \A q \in Request : MovedSoFar(q)'
    BY <2>3, <2>4, <2>5 DEF IInv, TypeOK, NoImageLost, MovedSoFar, StandsAt
  <2>10. Named'
    BY <2>r DEF IInv, Named
  <2>11. ReceiptIsMined'
    <3>1. ASSUME NEW q \in Request, PastReceipt(q)' PROVE (Mined(q) /\ h[q].did \in Did)'
      <4>1. PastReceipt(q) \/ q = r
        BY <2>r, <2>3, <2>4, <3>1 DEF PastReceipt, IInv, TypeOK
      <4>2. Mined(q) /\ h[q].did \in Did
        BY <2>1, <4>1 DEF IInv, ReceiptIsMined
      <4> QED BY <2>k, <4>2 DEF Kept
    <3> QED BY <3>1 DEF ReceiptIsMined
  <2>12. NothingBeforeChain'
    BY <2>4, <2>k, WorkStays DEF IInv
  <2> QED BY <2>7, <2>8, <2>9, <2>10, <2>11, <2>12 DEF IInv
<1> QED
  BY <1>3, <1>4, <1>5, <1>6, <1>8, <1>10 DEF Handle

LEMMA ChainStep ==
  ASSUME IInv, WalletSends \/ Mine
  PROVE  IInv'
<1>1. UNCHANGED <<fileVars, h, jobVars, serviceVars>>
  BY DEF WalletSends, Mine
<1>2. TxKept /\ linkTx' \in TxState
  BY DEF WalletSends, Mine, TxState, TxKept, IInv, TypeOK
<1>3. Kept
  BY <1>1, <1>2, KeptByCalls
<1> USE DEF fileVars, jobVars, serviceVars
<1>4. TypeOK' /\ JobsSound'
  BY <1>1, <1>2 DEF IInv, TypeOK, TxKept, JobsSound
<1>5. NoImageLost' /\ \A r \in Request : MovedSoFar(r)'
  BY <1>1 DEF IInv, NoImageLost, MovedSoFar
<1>6. Named' /\ ReceiptIsMined'
  BY <1>1, <1>3 DEF IInv, Named, ReceiptIsMined, PastReceipt, Kept
<1>7. NothingBeforeChain'
  <2>1. ASSUME NEW did \in (vector \cup spring \cup vc)'
        PROVE  \E r \in Request : h'[r].did = did /\ Mined(r)'
    BY <1>1, <1>3, <2>1 DEF IInv, NothingBeforeChain, Kept
  <2>2. perm' # {} => \E r \in Request : Mined(r)'
    BY <1>1, <1>3 DEF IInv, NothingBeforeChain, Kept
  <2> QED BY <2>1, <2>2 DEF NothingBeforeChain
<1> QED BY <1>4, <1>5, <1>6, <1>7 DEF IInv

---------------------------------------------------------------------------
(* The move of the images.  perm only grows, and only when the transaction *)
(* of the request is mined.                                                *)
LEMMA MoveStep ==
  ASSUME IInv, NEW r \in Request, RunMoveJob(r)
  PROVE  IInv'
<1> USE DEF chainVars, fileVars, jobVars, serviceVars
<1>1. /\ Sound(moveJob[r], Steps) /\ moveJob[r].state # "absent" /\ Mined(r)
      /\ cursor[r] \in 1..Len(Images) /\ Images[cursor[r]] \in File
  <2>1. moveJob[r].state # "absent"
    BY DEF RunMoveJob, StartMove, CopyImage, DeleteImage, QueuePetRegistration,
           MoveReturns, MoveFails, Waiting, StandsAt
  <2> QED BY <2>1, ImagesAssumption
       DEF IInv, TypeOK, JobsSound, ReceiptIsMined, PastReceipt, File
<1>2. UNCHANGED <<chainVars, vector, h, linkJob, vcJob, serviceVars>>
  BY DEF RunMoveJob, StartMove, CopyImage, DeleteImage, QueuePetRegistration,
         MoveReturns, MoveFails
<1>3. PICK j : moveJob' = [moveJob EXCEPT ![r] = j] /\ Sound(j, Steps) /\ j.state # "absent"
  <2>1. \A s \in {"copy", "delete", "enqueue", "return"} : s \in Steps
    BY DEF Steps
  <2>2. CASE StartMove(r)
    <3>1. moveJob' = [moveJob EXCEPT ![r] = Started(moveJob[r], "copy")]
      BY <2>2 DEF StartMove
    <3>2. Sound(Started(moveJob[r], "copy"), Steps) /\ (Started(moveJob[r], "copy")).state # "absent"
      BY <1>1, <2>1, <2>2, WalkIsSound, NeverAbsentAgain DEF StartMove
    <3> QED BY <3>1, <3>2
  <2>3. CASE CopyImage(r)
    <3>1. moveJob' = [moveJob EXCEPT ![r] = Moved(moveJob[r], "delete")]
      BY <2>3 DEF CopyImage
    <3>2. Sound(Moved(moveJob[r], "delete"), Steps) /\ (Moved(moveJob[r], "delete")).state # "absent"
      BY <1>1, <2>1, WalkIsSound, NeverAbsentAgain
    <3> QED BY <3>1, <3>2
  <2>4. CASE DeleteImage(r)
    <3>1. PICK s \in {"copy", "enqueue"} : moveJob' = [moveJob EXCEPT ![r] = Moved(moveJob[r], s)]
      BY <2>4 DEF DeleteImage
    <3>2. Sound(Moved(moveJob[r], s), Steps) /\ Moved(moveJob[r], s).state # "absent"
      BY <1>1, <2>1, WalkIsSound, NeverAbsentAgain
    <3> QED BY <3>1, <3>2
  <2>5. CASE QueuePetRegistration(r)
    <3>1. moveJob' = [moveJob EXCEPT ![r] = Moved(moveJob[r], "return")]
      BY <2>5 DEF QueuePetRegistration
    <3>2. Sound(Moved(moveJob[r], "return"), Steps) /\ (Moved(moveJob[r], "return")).state # "absent"
      BY <1>1, <2>1, WalkIsSound, NeverAbsentAgain
    <3> QED BY <3>1, <3>2
  <2>6. CASE MoveReturns(r)
    <3>1. moveJob' = [moveJob EXCEPT ![r] = Completed(moveJob[r])]
      BY <2>6 DEF MoveReturns
    <3>2. Sound(Completed(moveJob[r]), Steps) /\ (Completed(moveJob[r])).state # "absent"
      BY <1>1, <2>6, EndIsSound, NeverAbsentAgain DEF MoveReturns, StandsAt
    <3> QED BY <3>1, <3>2
  <2>7. CASE MoveFails(r)
    <3>1. moveJob' = [moveJob EXCEPT ![r] = Thrown(moveJob[r])]
      BY <2>7 DEF MoveFails
    <3>2. Sound(Thrown(moveJob[r]), Steps) /\ (Thrown(moveJob[r])).state # "absent"
      BY <1>1, <2>7, EndIsSound, NeverAbsentAgain DEF MoveFails
    <3> QED BY <3>1, <3>2
  <2> QED BY <2>2, <2>3, <2>4, <2>5, <2>6, <2>7 DEF RunMoveJob
<1>4. moveJob'[r] = j /\ \A q \in Request : q # r => moveJob'[q] = moveJob[q]
  BY <1>3 DEF IInv, TypeOK
<1>5. Sound(Queued, Steps) /\ Queued.state = "waiting"
  BY FreshIsSound DEF Queued
<1>6. \/ syncJob' = syncJob
      \/ syncJob' = [syncJob EXCEPT ![r] = Queued] /\ StandsAt(moveJob[r], "enqueue")
  BY DEF RunMoveJob, StartMove, CopyImage, DeleteImage, QueuePetRegistration,
         MoveReturns, MoveFails
<1>7. /\ perm \subseteq perm' /\ perm' \subseteq File /\ temp' \subseteq temp
      /\ cursor' \in [Request -> 1..Len(Images)]
      /\ \A q \in Request : q # r => cursor'[q] = cursor[q]
  <2>t. perm \subseteq File /\ temp \subseteq File /\ cursor \in [Request -> 1..Len(Images)]
    BY DEF IInv, TypeOK
  <2>1. CASE StartMove(r)
    <3>1. 1 \in 1..Len(Images)
      BY ImagesAssumption
    <3> QED BY <2>t, <2>1, <3>1 DEF StartMove
  <2>2. CASE CopyImage(r)
    BY <1>1, <2>t, <2>2 DEF CopyImage
  <2>3. CASE DeleteImage(r)
    <3>1. cursor' = cursor \/ (cursor[r] < Len(Images) /\ cursor' = [cursor EXCEPT ![r] = @ + 1])
      BY <2>3 DEF DeleteImage
    <3>2. cursor[r] < Len(Images) => cursor[r] + 1 \in 1..Len(Images)
      BY <1>1, ImagesAssumption
    <3>3. perm' = perm /\ temp' \subseteq temp
      BY <2>3 DEF DeleteImage
    <3> QED BY <2>t, <3>1, <3>2, <3>3
  <2>4. CASE QueuePetRegistration(r) \/ MoveReturns(r) \/ MoveFails(r)
    BY <2>t, <2>4 DEF QueuePetRegistration, MoveReturns, MoveFails
  <2> QED BY <2>1, <2>2, <2>3, <2>4 DEF RunMoveJob
<1>8. TypeOK'
  BY <1>2, <1>3, <1>5, <1>6, <1>7 DEF IInv, TypeOK, Sound
<1>9. JobsSound'
  BY <1>2, <1>3, <1>4, <1>5, <1>6 DEF IInv, TypeOK, JobsSound
<1>10. NoImageLost'
  <2>1. CASE DeleteImage(r)
    BY <2>1 DEF DeleteImage, IInv, NoImageLost, MovedSoFar
  <2>2. CASE ~DeleteImage(r)
    <3>1. temp' = temp
      BY <2>2 DEF RunMoveJob, StartMove, CopyImage, QueuePetRegistration, MoveReturns, MoveFails
    <3> QED BY <3>1, <1>7 DEF IInv, NoImageLost
  <2> QED BY <2>1, <2>2
<1>11. ASSUME NEW q \in Request, q # r PROVE MovedSoFar(q)'
  BY <1>4, <1>6, <1>7, <1>11 DEF IInv, TypeOK, MovedSoFar, StandsAt
<1>12. MovedSoFar(r)'
  <2>1. MovedSoFar(r)
    BY DEF IInv
  <2>2. CASE StartMove(r)
    <3>1. moveJob'[r] = Started(moveJob[r], "copy") /\ cursor'[r] = 1
          /\ UNCHANGED <<perm, syncJob>>
      BY <2>2 DEF StartMove, IInv, TypeOK
    <3> QED BY <1>1, <2>1, <3>1, WhereJobsStand DEF MovedSoFar
  <2>3. CASE CopyImage(r)
    <3>1. /\ moveJob'[r] = Moved(moveJob[r], "delete") /\ moveJob[r].state = "active"
          /\ StandsAt(moveJob[r], "copy")
          /\ perm' = perm \cup {Images[cursor[r]]} /\ UNCHANGED <<cursor, syncJob>>
      BY <2>3 DEF CopyImage, StandsAt, IInv, TypeOK
    <3> QED BY <1>1, <2>1, <3>1, WhereJobsStand DEF MovedSoFar
  <2>4. CASE DeleteImage(r)
    <3>1. /\ \A i \in 1..Len(Images) : i < cursor[r] => Images[i] \in perm
          /\ Images[cursor[r]] \in perm /\ moveJob[r].state = "active"
          /\ UNCHANGED <<perm, syncJob>>
      BY <2>1, <2>4 DEF DeleteImage, MovedSoFar, StandsAt
    <3>2. CASE cursor[r] < Len(Images)
      <4>1. cursor'[r] = cursor[r] + 1 /\ moveJob'[r] = Moved(moveJob[r], "copy")
        BY <2>4, <3>2 DEF DeleteImage, IInv, TypeOK
      <4>2. \A i \in 1..Len(Images) : i < cursor'[r] => Images[i] \in perm
        BY <1>1, <3>1, <4>1, ImagesAssumption
      <4>3. /\ StandsAt(moveJob'[r], "copy") /\ ~StandsAt(moveJob'[r], "delete")
            /\ ~StandsAt(moveJob'[r], "enqueue") /\ ~StandsAt(moveJob'[r], "return")
        BY <1>1, <3>1, <4>1, WhereJobsStand
      <4> QED BY <2>1, <3>1, <4>2, <4>3 DEF MovedSoFar
    <3>3. CASE ~(cursor[r] < Len(Images))
      <4>1. cursor[r] = Len(Images)
        BY <1>1, <3>3, ImagesAssumption
      <4>2. File \subseteq perm
        BY <3>1, <4>1, ImagesAssumption DEF File
      <4>3. moveJob'[r] = Moved(moveJob[r], "enqueue")
        BY <2>4, <3>3 DEF DeleteImage, IInv, TypeOK
      <4> QED BY <1>1, <3>1, <4>2, <4>3, WhereJobsStand DEF MovedSoFar
    <3> QED BY <3>2, <3>3
  <2>5. CASE QueuePetRegistration(r)
    <3>1. File \subseteq perm /\ perm' = perm
      BY <2>1, <2>5 DEF QueuePetRegistration, MovedSoFar
    <3>2. moveJob'[r] = Moved(moveJob[r], "return") /\ moveJob[r].state = "active"
      BY <2>5 DEF QueuePetRegistration, StandsAt, IInv, TypeOK
    <3> QED BY <1>1, <3>1, <3>2, WhereJobsStand DEF MovedSoFar
  <2>6. CASE MoveReturns(r) \/ MoveFails(r)
    <3>1. moveJob'[r] = Completed(moveJob[r]) \/ moveJob'[r] = Thrown(moveJob[r])
      BY <2>6 DEF MoveReturns, MoveFails, IInv, TypeOK
    <3>2. UNCHANGED <<perm, syncJob>>
      BY <2>6 DEF MoveReturns, MoveFails
    <3>3. \A t : ~StandsAt(moveJob'[r], t)
      BY <1>1, <3>1, WhereJobsStand
    <3> QED BY <2>1, <3>2, <3>3 DEF MovedSoFar
  <2> QED BY <2>2, <2>3, <2>4, <2>5, <2>6 DEF RunMoveJob
<1>13. Kept /\ Named'
  BY <1>2, TxMoves, KeptByCalls DEF IInv, Named
<1>14. ReceiptIsMined'
  <2>1. ASSUME NEW q \in Request, PastReceipt(q)' PROVE PastReceipt(q)
    BY <1>1, <1>2, <1>4, <1>6, <2>1 DEF PastReceipt, IInv, TypeOK
  <2> QED BY <1>13, <2>1 DEF IInv, ReceiptIsMined, Kept
<1>15. NothingBeforeChain'
  BY <1>1, <1>2, <1>13, WorkStays DEF IInv
<1> QED BY <1>8, <1>9, <1>10, <1>11, <1>12, <1>13, <1>14, <1>15 DEF IInv

(* The other jobs: none touches an image, and each begins when the         *)
(* transaction of its request is mined.                                    *)
LEMMA OtherJobsStep ==
  ASSUME IInv, NEW r \in Request, SyncPet(r) \/ LinkGuardian(r) \/ CreatePetVC(r)
  PROVE  IInv'
<1> USE DEF chainVars, fileVars, jobVars, serviceVars
<1>0. /\ Sound(syncJob[r], Steps) /\ Sound(linkJob[r], Steps) /\ Sound(vcJob[r], Steps)
  BY DEF IInv, JobsSound
<1>1. Mined(r) /\ h[r].did \in Did
  <2>1. syncJob[r].state # "absent" \/ linkJob[r].state # "absent" \/ vcJob[r].state # "absent"
    BY DEF SyncPet, LinkGuardian, CreatePetVC, Waiting, StandsAt
  <2> QED BY <2>1 DEF IInv, ReceiptIsMined, PastReceipt
<1>2. UNCHANGED <<tx, fileVars, h, moveJob, cursor>>
  BY DEF SyncPet, LinkGuardian, CreatePetVC
<1>3. \A s \in {"post", "broadcast", "wait", "store"} : s \in Steps
  BY DEF Steps
<1>4. /\ \A q \in Request : Sound(syncJob'[q], Steps)
      /\ syncJob' \in [Request -> Job(Steps)] /\ spring' \subseteq Did
      /\ \A q \in Request : syncJob[q].state = "absent" => syncJob'[q].state = "absent"
  <2>1. CASE SyncPet(r)
    <3>1. /\ \A q \in Request : q # r => syncJob'[q] = syncJob[q]
          /\ syncJob' = [syncJob EXCEPT ![r] = syncJob'[r]]
          /\ \/ Waiting(syncJob[r]) /\ syncJob'[r] = Started(syncJob[r], "post")
             \/ syncJob[r].state = "active" /\ syncJob'[r] \in {Completed(syncJob[r]), Thrown(syncJob[r])}
      BY <2>1 DEF SyncPet, StandsAt, IInv, TypeOK
    <3>3. Sound(syncJob'[r], Steps) /\ syncJob[r].state # "absent"
      BY <1>0, <1>3, <3>1, WalkIsSound, EndIsSound DEF Waiting
    <3>4. spring' \subseteq Did
      BY <1>1, <2>1 DEF SyncPet, IInv, TypeOK
    <3> QED BY <3>1, <3>3, <3>4 DEF IInv, TypeOK, JobsSound, Sound
  <2>2. CASE LinkGuardian(r) \/ CreatePetVC(r)
    <3>1. UNCHANGED <<syncJob, spring>>
      BY <2>2 DEF LinkGuardian, CreatePetVC
    <3> QED BY <3>1 DEF IInv, TypeOK, JobsSound
  <2> QED BY <2>1, <2>2
<1>5. /\ \A q \in Request : Sound(linkJob'[q], Steps)
      /\ linkJob' \in [Request -> Job(Steps)] /\ linkTx' \in TxState
  <2>1. CASE LinkGuardian(r)
    <3>1. /\ \A q \in Request : q # r => linkJob'[q] = linkJob[q]
          /\ linkJob' = [linkJob EXCEPT ![r] = linkJob'[r]]
          /\ \/ Waiting(linkJob[r]) /\ linkJob'[r] = Started(linkJob[r], "broadcast")
             \/ linkJob[r].state = "active" /\ linkJob'[r] \in {Moved(linkJob[r], "wait"), Completed(linkJob[r]), Thrown(linkJob[r])}
      BY <2>1 DEF LinkGuardian, StandsAt, IInv, TypeOK
    <3>3. Sound(linkJob'[r], Steps)
      BY <1>0, <1>3, <3>1, WalkIsSound, EndIsSound
    <3>4. linkTx' \in TxState
      BY <2>1 DEF LinkGuardian, IInv, TypeOK, TxState
    <3> QED BY <3>1, <3>3, <3>4 DEF IInv, TypeOK, JobsSound, Sound
  <2>2. CASE SyncPet(r) \/ CreatePetVC(r)
    <3>1. UNCHANGED <<linkJob, linkTx>>
      BY <2>2 DEF SyncPet, CreatePetVC
    <3> QED BY <3>1 DEF IInv, TypeOK, JobsSound
  <2> QED BY <2>1, <2>2
<1>6. /\ \A q \in Request : Sound(vcJob'[q], Steps)
      /\ vcJob' \in [Request -> Job(Steps)] /\ vc' \subseteq Did
  <2>1. CASE CreatePetVC(r)
    <3>1. /\ \A q \in Request : q # r => vcJob'[q] = vcJob[q]
          /\ vcJob' = [vcJob EXCEPT ![r] = vcJob'[r]]
          /\ \/ Waiting(vcJob[r]) /\ vcJob'[r] = Started(vcJob[r], "store")
             \/ vcJob[r].state = "active" /\ vcJob'[r] \in {Completed(vcJob[r]), Thrown(vcJob[r])}
      BY <2>1 DEF CreatePetVC, StandsAt, IInv, TypeOK
    <3>3. Sound(vcJob'[r], Steps)
      BY <1>0, <1>3, <3>1, WalkIsSound, EndIsSound
    <3>4. vc' \subseteq Did
      BY <1>1, <2>1 DEF CreatePetVC, IInv, TypeOK
    <3> QED BY <3>1, <3>3, <3>4 DEF IInv, TypeOK, JobsSound, Sound
  <2>2. CASE SyncPet(r) \/ LinkGuardian(r)
    <3>1. UNCHANGED <<vcJob, vc>>
      BY <2>2 DEF SyncPet, LinkGuardian
    <3> QED BY <3>1 DEF IInv, TypeOK, JobsSound
  <2> QED BY <2>1, <2>2
<1>7. TypeOK'
  BY <1>2, <1>4, <1>5, <1>6 DEF IInv, TypeOK
<1>8. JobsSound'
  BY <1>2, <1>4, <1>5, <1>6 DEF IInv, JobsSound
<1>9. NoImageLost' /\ \A q \in Request : MovedSoFar(q)'
  BY <1>2, <1>4 DEF IInv, NoImageLost, MovedSoFar
<1>10. Kept /\ Named'
  BY <1>2, TxMoves, KeptByCalls DEF IInv, Named
<1>11. ReceiptIsMined'
  <2>1. ASSUME NEW q \in Request, PastReceipt(q)' PROVE PastReceipt(q) \/ q = r
    <3>1. q # r => UNCHANGED <<syncJob[q], linkJob[q], vcJob[q]>>
      BY DEF SyncPet, LinkGuardian, CreatePetVC, IInv, TypeOK
    <3> QED BY <1>2, <2>1, <3>1 DEF PastReceipt
  <2> QED BY <1>1, <1>10, <2>1 DEF IInv, ReceiptIsMined, Kept
<1>12. NothingBeforeChain'
  <2>1. /\ vector' = vector
        /\ spring' = spring \/ spring' = spring \cup {h[r].did}
        /\ vc' = vc \/ vc' = vc \cup {h[r].did}
    BY DEF SyncPet, LinkGuardian, CreatePetVC
  <2>2. vector' \cup spring' \cup vc' \subseteq vector \cup spring \cup vc \cup {h[r].did}
    BY <2>1
  <2> QED BY <1>1, <1>10, <2>2, WorkStays DEF IInv
<1> QED BY <1>7, <1>8, <1>9, <1>10, <1>11, <1>12 DEF IInv

LEMMA RestartStep ==
  ASSUME IInv, Restart
  PROVE  IInv'
<1> USE DEF chainVars, fileVars, jobVars, serviceVars
<1>1. UNCHANGED <<chainVars, fileVars, cursor, serviceVars>>
  BY DEF Restart
<1>2. ASSUME NEW r \in Request
      PROVE  /\ Sound(moveJob'[r], Steps) /\ Sound(linkJob'[r], Steps)
             /\ Sound(vcJob'[r], Steps) /\ Sound(syncJob'[r], Steps)
  BY StallIsSound DEF Restart, IInv, JobsSound
<1>3. ASSUME NEW r \in Request
      PROVE  /\ moveJob'[r].state = "absent" <=> moveJob[r].state = "absent"
             /\ linkJob'[r].state = "absent" <=> linkJob[r].state = "absent"
             /\ vcJob'[r].state = "absent" <=> vcJob[r].state = "absent"
             /\ syncJob'[r].state = "absent" <=> syncJob[r].state = "absent"
  BY NeverAbsentAgain DEF Restart, IInv, JobsSound
<1>4. ASSUME NEW r \in Request
      PROVE  /\ h'[r] \in Call
             /\ h'[r].pc = h[r].pc \/ h'[r].pc = "error"
             /\ h'[r].tx = h[r].tx /\ h'[r].did = h[r].did
  BY DEF Restart, IInv, TypeOK, Pc, Call
<1>5. TypeOK'
  <2>1. h' \in [Request -> Call]
    BY <1>4 DEF Restart
  <2>2. /\ moveJob' \in [Request -> Job(Steps)] /\ linkJob' \in [Request -> Job(Steps)]
        /\ vcJob' \in [Request -> Job(Steps)] /\ syncJob' \in [Request -> Job(Steps)]
    BY <1>2 DEF Restart, Sound
  <2> QED BY <1>1, <2>1, <2>2 DEF IInv, TypeOK, Call
<1>6. JobsSound'
  BY <1>2 DEF JobsSound
<1>k. Kept
  BY <1>1, <1>4, TxMoves, KeptByCalls DEF IInv
<1>7. NoImageLost' /\ NothingBeforeChain'
  <2>1. ASSUME NEW did \in (vector \cup spring \cup vc)'
        PROVE  \E r \in Request : h'[r].did = did /\ Mined(r)'
    BY <1>1, <1>k, <2>1 DEF IInv, NothingBeforeChain, Kept
  <2>2. perm' # {} => \E r \in Request : Mined(r)'
    BY <1>1, <1>k DEF IInv, NothingBeforeChain, Kept
  <2> QED BY <1>1, <2>1, <2>2 DEF IInv, NoImageLost, NothingBeforeChain
<1>8. ASSUME NEW r \in Request PROVE MovedSoFar(r)'
  <2>1. \A t : ~StandsAt(moveJob'[r], t)
    BY WhereJobsStand DEF Restart, IInv, JobsSound
  <2> QED BY <1>1, <1>3, <2>1 DEF IInv, MovedSoFar
<1>9. Named' /\ ReceiptIsMined'
  <2>1. ASSUME NEW q \in Request, PastReceipt(q)' PROVE PastReceipt(q)
    BY <1>3, <1>4, <2>1 DEF PastReceipt
  <2>2. Named'
    BY <1>4 DEF IInv, Named
  <2> QED BY <1>k, <2>1, <2>2 DEF IInv, ReceiptIsMined, Kept
<1> QED BY <1>5, <1>6, <1>7, <1>8, <1>9 DEF IInv

---------------------------------------------------------------------------
LEMMA NextIInv == IInv /\ [Next]_vars => IInv'
<1> SUFFICES ASSUME IInv, [Next]_vars PROVE IInv'
  OBVIOUS
<1>1. CASE UNCHANGED vars
  BY <1>1 DEF vars, IInv, TypeOK, JobsSound, NoImageLost, MovedSoFar, Named,
              ReceiptIsMined, PastReceipt, Mined, NothingBeforeChain
<1>2. ASSUME NEW r \in Request, Handle(r) PROVE IInv'
  BY <1>2, HandleStep
<1>3. ASSUME NEW r \in Request, RunJob(r) PROVE IInv'
  BY <1>3, MoveStep, OtherJobsStep DEF RunJob
<1>4. CASE WalletSends \/ Mine
  BY <1>4, ChainStep
<1>5. CASE Restart
  BY <1>5, RestartStep
<1> QED BY <1>1, <1>2, <1>3, <1>4, <1>5 DEF Next

LEMMA IInvAlways == Spec => []IInv
BY InitIInv, NextIInv, PTL DEF Spec

(* Every reachable state of the registration is well typed, for any images *)
(* and requests (PetController.registerPet and its jobs).                  *)
THEOREM TypeCorrect == Spec => []TypeOK
<1>1. IInv => TypeOK
  BY DEF IInv
<1> QED BY <1>1, IInvAlways, PTL

(* However many jobs move the same files, and wherever they stop, every    *)
(* image is in temp/ or in permanent storage (ImageMoveProcessor).         *)
THEOREM ImagesAreKept == Spec => []NoImageLost
<1>1. IInv => NoImageLost
  BY DEF IInv
<1> QED BY <1>1, IInvAlways, PTL

(* A sync job exists only when all images are in permanent storage.        *)
THEOREM SyncFollowsImages == Spec => []SyncAfterImages
<1>1. IInv => SyncAfterImages
  BY DEF IInv, MovedSoFar, SyncAfterImages
<1> QED BY <1>1, IInvAlways, PTL

(* Nothing is stored or synced for a pet before the transaction of one of  *)
(* its requests is mined, and no image is moved before one is              *)
(* (PetController.registerPet, PetService.sendSignedTransaction).          *)
THEOREM ChainComesFirst == Spec => []NothingBeforeChain
<1>1. IInv => NothingBeforeChain
  BY DEF IInv
<1> QED BY <1>1, IInvAlways, PTL
============================================================================
