-------------------------- MODULE PetRegistration --------------------------
(***************************************************************************)
(* Registration of one pet: PetController.registerPet, the registration    *)
(* and the guardian-link transactions, and the jobs that follow: the move  *)
(* of the images from temp/ to permanent storage (ImageMoveProcessor),     *)
(* which queues the Spring sync (SpringProcessor), the guardian link       *)
(* (BlockchainProcessor) and the credential (VcProcessor).                 *)
(*                                                                         *)
(* A request is served once, so it also names the jobs it queues.  The     *)
(* client may send several for the same pet: after a timeout it presents   *)
(* the hash of the transaction.  The gateway looks into no transaction it  *)
(* is given, so a request may name any.                                    *)
(***************************************************************************)
EXTENDS JobQueue, Sequences

CONSTANTS
  Images,     \* the image files in the order they are moved, nose print first
  Did,        \* DIDs the ML server's vectors may hash to
  Tx,         \* transactions that requests may name
  Form,       \* the optional fields requests come with
  Request,    \* register requests
  None        \* what a request has not brought yet

(* link: guardianLinkSignedTx is the raw transaction, its hash or not      *)
(* given; vcMessage: given or not, and then JSON or not.                   *)
AnyForm == [link : {"none", "raw", "hash"}, vcMessage : {"none", "json", "broken"}]
Plain == [link |-> "none", vcMessage |-> "none"]

ASSUME ImagesAssumption ==
  Len(Images) \in Nat \ {0} /\ DOMAIN Images = 1..Len(Images)
ASSUME NoneAssumption == None \notin Did \cup Tx
ASSUME FormAssumption == Form \subseteq AnyForm

File == {Images[i] : i \in DOMAIN Images}
Nose == Images[1]

VARIABLES
  tx,        \* the transactions requests name, a registration or another
  linkTx,    \* the guardian-link transaction
  temp,      \* files in temp/
  perm,      \* files in permanent storage
  vector,    \* DIDs whose feature vector is in storage
  h,         \* register requests
  moveJob, linkJob, vcJob, syncJob,   \* jobs of each request
  cursor,    \* the image each move job stands at
  spring,    \* Spring: DIDs of its pets
  vc         \* VC service: DIDs whose create-pet-vc job stored a credential

chainVars   == <<tx, linkTx>>
fileVars    == <<temp, perm, vector>>
jobVars     == <<moveJob, linkJob, vcJob, syncJob, cursor>>
serviceVars == <<spring, vc>>
vars == <<tx, linkTx, temp, perm, vector, h, moveJob, linkJob, vcJob,
          syncJob, cursor, spring, vc>>

TxState == {"unsent", "pending", "mined", "reverted"}
Pc == {"new", "send", "confirm", "vector", "queueMove", "queueLink", "queueVc", "ok",
       "error"}

NewRequest == [pc |-> "new", did |-> None, tx |-> None, form |-> Plain]
InFlight(r) == h[r].pc \notin {"new", "ok", "error"}

Init ==
  /\ tx = [t \in Tx |-> "unsent"] /\ linkTx = "unsent"
  /\ temp = File /\ perm = {} /\ vector = {}
  /\ h = [r \in Request |-> NewRequest]
  /\ moveJob = [r \in Request |-> NoJob] /\ linkJob = [r \in Request |-> NoJob]
  /\ vcJob = [r \in Request |-> NoJob] /\ syncJob = [r \in Request |-> NoJob]
  /\ cursor = [r \in Request |-> 1]
  /\ spring = {} /\ vc = {}

Goto(r, pc) == h' = [h EXCEPT ![r].pc = pc]

---------------------------------------------------------------------------
(* POST /pet/register *)

(* The nose print is still in temp/ and the ML server finds a vector; its  *)
(* hash is taken for the DID and compared with nothing.  signedTx is any   *)
(* transaction.                                                            *)
Register(r) ==
  /\ h[r].pc = "new"
  /\ Nose \in temp
  /\ \E did \in Did, t \in Tx, form \in Form :
       h' = [h EXCEPT ![r] = [pc |-> "send", did |-> did, tx |-> t, form |-> form]]
  /\ UNCHANGED <<chainVars, fileVars, jobVars, serviceVars>>

(* The image is gone, its format is wrong or the ML server refuses it.     *)
Refuse(r) ==
  /\ h[r].pc = "new"
  /\ Goto(r, "error")
  /\ UNCHANGED <<chainVars, fileVars, jobVars, serviceVars>>

(* sendSignedTransaction: the raw transaction, which the chain takes once, *)
(* or the hash of one that was sent.                                       *)
SendSignedTransaction(r) ==
  /\ h[r].pc = "send"
  /\ \/ /\ tx[h[r].tx] = "unsent" /\ Goto(r, "confirm")
        /\ tx' = [tx EXCEPT ![h[r].tx] = "pending"]
     \/ tx[h[r].tx] # "unsent" /\ UNCHANGED tx /\ Goto(r, "error")
     \/ UNCHANGED tx /\ Goto(r, "confirm")
  /\ UNCHANGED <<linkTx, fileVars, jobVars, serviceVars>>

(* Mutant: the receipt is not waited for.                                  *)
Confirmed_OnSend(r) ==
  /\ h[r].pc = "confirm"
  /\ Goto(r, "vector")
  /\ UNCHANGED <<chainVars, fileVars, jobVars, serviceVars>>

Confirmed(r) ==
  /\ h[r].pc = "confirm" /\ tx[h[r].tx] = "mined"
  /\ Goto(r, "vector")
  /\ UNCHANGED <<chainVars, fileVars, jobVars, serviceVars>>

(* Reverted, or 30 seconds without a receipt. *)
NotConfirmed(r) ==
  /\ h[r].pc = "confirm"
  /\ Goto(r, "error")
  /\ UNCHANGED <<chainVars, fileVars, jobVars, serviceVars>>

(* savePetFeatureVector: an error is logged and the request goes on. *)
SaveFeatureVector(r) ==
  /\ h[r].pc = "vector"
  /\ vector' \in {vector, vector \cup {h[r].did}}
  /\ Goto(r, "queueMove")
  /\ UNCHANGED <<chainVars, temp, perm, jobVars, serviceVars>>

QueuePetImageMove(r) ==
  /\ h[r].pc = "queueMove"
  /\ moveJob' = [moveJob EXCEPT ![r] = Queued]
  /\ Goto(r, IF h[r].form.link # "none" THEN "queueLink" ELSE "queueVc")
  /\ UNCHANGED <<chainVars, fileVars, linkJob, vcJob, syncJob, cursor, serviceVars>>

QueueGuardianLink(r) ==
  /\ h[r].pc = "queueLink"
  /\ linkJob' = [linkJob EXCEPT ![r] = Queued]
  /\ Goto(r, "queueVc")
  /\ UNCHANGED <<chainVars, fileVars, moveJob, vcJob, syncJob, cursor, serviceVars>>

(* A vcMessage that is no JSON ends the request with 400, after the        *)
(* transaction and the other jobs.                                         *)
QueuePetVCCreation(r) ==
  /\ h[r].pc = "queueVc"
  /\ vcJob' = IF h[r].form.vcMessage = "json" THEN [vcJob EXCEPT ![r] = Queued]
                                             ELSE vcJob
  /\ Goto(r, IF h[r].form.vcMessage = "broken" THEN "error" ELSE "ok")
  /\ UNCHANGED <<chainVars, fileVars, moveJob, linkJob, syncJob, cursor, serviceVars>>

(* queue.add fails. *)
QueueFails(r) ==
  /\ h[r].pc \in {"queueMove", "queueLink", "queueVc"}
  /\ Goto(r, "error")
  /\ UNCHANGED <<chainVars, fileVars, jobVars, serviceVars>>

---------------------------------------------------------------------------
(* The chain.  Wallets may send a transaction themselves.                  *)
WalletSends ==
  /\ \/ /\ \E t \in Tx : tx[t] = "unsent" /\ tx' = [tx EXCEPT ![t] = "pending"]
        /\ UNCHANGED linkTx
     \/ linkTx = "unsent" /\ linkTx' = "pending" /\ UNCHANGED tx
  /\ UNCHANGED <<fileVars, h, jobVars, serviceVars>>

Mine ==
  /\ \/ /\ \E t \in Tx, outcome \in {"mined", "reverted"} :
             tx[t] = "pending" /\ tx' = [tx EXCEPT ![t] = outcome]
        /\ UNCHANGED linkTx
     \/ linkTx = "pending" /\ linkTx' \in {"mined", "reverted"} /\ UNCHANGED tx
  /\ UNCHANGED <<fileVars, h, jobVars, serviceVars>>

---------------------------------------------------------------------------
(* move-pet-images: copyObject, then deleteObject, for each image in turn; *)
(* then the Spring sync is queued.                                         *)
StartMove(r) ==
  /\ Waiting(moveJob[r])
  /\ moveJob' = [moveJob EXCEPT ![r] = Started(@, "copy")]
  /\ cursor' = [cursor EXCEPT ![r] = 1]
  /\ UNCHANGED <<chainVars, fileVars, h, linkJob, vcJob, syncJob, serviceVars>>

CopyImage(r) ==
  LET file == Images[cursor[r]] IN
  /\ StandsAt(moveJob[r], "copy")
  /\ file \in temp
  /\ perm' = perm \cup {file}
  /\ moveJob' = [moveJob EXCEPT ![r] = Moved(@, "delete")]
  /\ UNCHANGED <<chainVars, temp, vector, h, linkJob, vcJob, syncJob, cursor, serviceVars>>

(* Mutants: all of temp/ is deleted with the first image; the last image   *)
(* is left out; the cursor runs past the end.                              *)
DeleteImage_All(r) ==
  /\ StandsAt(moveJob[r], "delete")
  /\ temp' = {}
  /\ IF cursor[r] < Len(Images)
       THEN /\ cursor' = [cursor EXCEPT ![r] = @ + 1]
            /\ moveJob' = [moveJob EXCEPT ![r] = Moved(@, "copy")]
       ELSE /\ moveJob' = [moveJob EXCEPT ![r] = Moved(@, "enqueue")]
            /\ UNCHANGED cursor
  /\ UNCHANGED <<chainVars, perm, vector, h, linkJob, vcJob, syncJob, serviceVars>>
DeleteImage_Short(r) ==
  /\ StandsAt(moveJob[r], "delete")
  /\ temp' = temp \ {Images[cursor[r]]}
  /\ IF cursor[r] + 1 < Len(Images)
       THEN /\ cursor' = [cursor EXCEPT ![r] = @ + 1]
            /\ moveJob' = [moveJob EXCEPT ![r] = Moved(@, "copy")]
       ELSE /\ moveJob' = [moveJob EXCEPT ![r] = Moved(@, "enqueue")]
            /\ UNCHANGED cursor
  /\ UNCHANGED <<chainVars, perm, vector, h, linkJob, vcJob, syncJob, serviceVars>>
DeleteImage_PastEnd(r) ==
  /\ StandsAt(moveJob[r], "delete")
  /\ temp' = temp \ {Images[cursor[r]]}
  /\ cursor' = [cursor EXCEPT ![r] = @ + 1]
  /\ moveJob' = [moveJob EXCEPT ![r] =
                    Moved(@, IF cursor[r] < Len(Images) THEN "copy" ELSE "enqueue")]
  /\ UNCHANGED <<chainVars, perm, vector, h, linkJob, vcJob, syncJob, serviceVars>>

DeleteImage(r) ==
  LET file == Images[cursor[r]] IN
  /\ StandsAt(moveJob[r], "delete")
  /\ temp' = temp \ {file}
  /\ IF cursor[r] < Len(Images)
       THEN /\ cursor' = [cursor EXCEPT ![r] = @ + 1]
            /\ moveJob' = [moveJob EXCEPT ![r] = Moved(@, "copy")]
       ELSE /\ moveJob' = [moveJob EXCEPT ![r] = Moved(@, "enqueue")]
            /\ UNCHANGED cursor
  /\ UNCHANGED <<chainVars, perm, vector, h, linkJob, vcJob, syncJob, serviceVars>>

QueuePetRegistration(r) ==
  /\ StandsAt(moveJob[r], "enqueue")
  /\ syncJob' = [syncJob EXCEPT ![r] = Queued]
  /\ moveJob' = [moveJob EXCEPT ![r] = Moved(@, "return")]
  /\ UNCHANGED <<chainVars, fileVars, h, linkJob, vcJob, cursor, serviceVars>>

MoveReturns(r) ==
  /\ StandsAt(moveJob[r], "return")
  /\ moveJob' = [moveJob EXCEPT ![r] = Completed(@)]
  /\ UNCHANGED <<chainVars, fileVars, h, linkJob, vcJob, syncJob, cursor, serviceVars>>

(* S3 or Redis fails, or temp/ does not have the file: the job throws and  *)
(* Bull runs it again from the first image.                                *)
MoveFails(r) ==
  /\ moveJob[r].state = "active" /\ moveJob[r].at # "return"
  /\ moveJob' = [moveJob EXCEPT ![r] = Thrown(@)]
  /\ UNCHANGED <<chainVars, fileVars, h, linkJob, vcJob, syncJob, cursor, serviceVars>>

(* sync-pet-registration: POST /api/pet with the DID of the request. *)
SyncPet(r) ==
  /\ \/ /\ Waiting(syncJob[r])
        /\ syncJob' = [syncJob EXCEPT ![r] = Started(@, "post")]
        /\ UNCHANGED spring
     \/ /\ StandsAt(syncJob[r], "post")
        /\ h[r].did \notin spring
        /\ spring' = spring \cup {h[r].did}
        /\ syncJob' \in {[syncJob EXCEPT ![r] = Completed(@)],
                         [syncJob EXCEPT ![r] = Thrown(@)]}
     \/ /\ StandsAt(syncJob[r], "post")
        /\ syncJob' = [syncJob EXCEPT ![r] = Thrown(@)]
        /\ UNCHANGED spring
  /\ UNCHANGED <<chainVars, fileVars, h, moveJob, linkJob, vcJob, cursor, vc>>

(* guardian-link: the chain takes the raw transaction once, and tx.wait()  *)
(* waits for its receipt without a limit; a hash is waited for 30 seconds. *)
LinkGuardian(r) ==
  /\ \/ /\ Waiting(linkJob[r])
        /\ linkJob' = [linkJob EXCEPT ![r] = Started(@, "broadcast")]
        /\ UNCHANGED linkTx
     \/ /\ StandsAt(linkJob[r], "broadcast")
        /\ h[r].form.link = "raw" /\ linkTx = "unsent"
        /\ linkTx' = "pending"
        /\ linkJob' = [linkJob EXCEPT ![r] = Moved(@, "wait")]
     \/ /\ StandsAt(linkJob[r], "broadcast")
        /\ linkJob' = [linkJob EXCEPT ![r] = Thrown(@)]
        /\ UNCHANGED linkTx
     \/ /\ StandsAt(linkJob[r], "broadcast") /\ h[r].form.link = "hash"
        /\ linkTx = "mined"
        /\ linkJob' = [linkJob EXCEPT ![r] = Completed(@)]
        /\ UNCHANGED linkTx
     \/ /\ StandsAt(linkJob[r], "wait") /\ linkTx \in {"mined", "reverted"}
        /\ linkJob' = [linkJob EXCEPT ![r] =
                         IF linkTx = "mined" THEN Completed(@) ELSE Thrown(@)]
        /\ UNCHANGED linkTx
  /\ UNCHANGED <<tx, fileVars, h, moveJob, vcJob, syncJob, cursor, serviceVars>>

(* create-pet-vc: the signature is checked and the credential stored. *)
CreatePetVC(r) ==
  /\ \/ /\ Waiting(vcJob[r])
        /\ vcJob' = [vcJob EXCEPT ![r] = Started(@, "store")]
        /\ UNCHANGED vc
     \/ /\ StandsAt(vcJob[r], "store")
        /\ vc' = vc \cup {h[r].did}
        /\ vcJob' \in {[vcJob EXCEPT ![r] = Completed(@)],
                       [vcJob EXCEPT ![r] = Thrown(@)]}
     \/ /\ StandsAt(vcJob[r], "store")
        /\ vcJob' = [vcJob EXCEPT ![r] = Thrown(@)]
        /\ UNCHANGED vc
  /\ UNCHANGED <<chainVars, fileVars, h, moveJob, linkJob, syncJob, cursor, spring>>

---------------------------------------------------------------------------
(* The gateway restarts. *)
Restart ==
  /\ h' = [r \in Request |-> IF InFlight(r) THEN [h[r] EXCEPT !.pc = "error"]
                                            ELSE h[r]]
  /\ moveJob' = [r \in Request |-> Stalled(moveJob[r])]
  /\ linkJob' = [r \in Request |-> Stalled(linkJob[r])]
  /\ vcJob' = [r \in Request |-> Stalled(vcJob[r])]
  /\ syncJob' = [r \in Request |-> Stalled(syncJob[r])]
  /\ UNCHANGED <<chainVars, fileVars, cursor, serviceVars>>

Handle(r) ==
  \/ Register(r) \/ Refuse(r) \/ SendSignedTransaction(r)
  \/ Confirmed(r) \/ NotConfirmed(r) \/ SaveFeatureVector(r)
  \/ QueuePetImageMove(r) \/ QueueGuardianLink(r) \/ QueuePetVCCreation(r)
  \/ QueueFails(r)
RunMoveJob(r) ==
  \/ StartMove(r) \/ CopyImage(r) \/ DeleteImage(r)
  \/ QueuePetRegistration(r) \/ MoveReturns(r) \/ MoveFails(r)
RunJob(r) == RunMoveJob(r) \/ SyncPet(r) \/ LinkGuardian(r) \/ CreatePetVC(r)

Next ==
  \/ \E r \in Request : Handle(r) \/ RunJob(r)
  \/ WalletSends \/ Mine \/ Restart

Spec == Init /\ [][Next]_vars

---------------------------------------------------------------------------
Steps == {"copy", "delete", "enqueue", "return", "post", "broadcast", "wait", "store"}

(* Type invariant. *)
TypeOK ==
  /\ tx \in [Tx -> TxState] /\ linkTx \in TxState
  /\ temp \subseteq File /\ perm \subseteq File /\ vector \subseteq Did
  /\ h \in [Request -> [pc : Pc, did : Did \cup {None}, tx : Tx \cup {None}, form : AnyForm]]
  /\ moveJob \in [Request -> Job(Steps)] /\ linkJob \in [Request -> Job(Steps)]
  /\ vcJob \in [Request -> Job(Steps)] /\ syncJob \in [Request -> Job(Steps)]
  /\ cursor \in [Request -> 1..Len(Images)]
  /\ spring \subseteq Did /\ vc \subseteq Did

(* No image is lost: whatever fails or restarts in the middle of a move,   *)
(* and with two jobs moving the same files, every image is in one place or *)
(* the other.                                                              *)
NoImageLost == File \subseteq temp \cup perm

(* Spring hears of a pet only when all its images are where the URLs say,  *)
(* also when the job that moved them ran twice or beside another one.      *)
SyncAfterImages ==
  \A r \in Request : syncJob[r].state # "absent" => File \subseteq perm

(* Nothing leaves the gateway for a pet before a transaction that a request*)
(* for this pet has named is mined: no vector is stored, no pet synced, no *)
(* credential, and no image is moved before any is.                        *)
Mined(r) == h[r].tx \in {t \in Tx : tx[t] = "mined"}
NothingBeforeChain ==
  /\ \A did \in vector \cup spring \cup vc :
       \E r \in Request : h[r].did = did /\ Mined(r)
  /\ perm # {} => \E r \in Request : Mined(r)

============================================================================
