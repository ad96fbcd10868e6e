---------------------------- MODULE PetTransfer ----------------------------
(***************************************************************************)
(* Ownership transfer of one pet: PetController's accept-transfer, the     *)
(* transactions on the chain, and the two background jobs that follow:     *)
(* VcProcessor invalidates the old credential and stores the new one,      *)
(* SpringProcessor delegates the adoption.  Beside them VcController       *)
(* stores what a guardian signs.                                           *)
(*                                                                         *)
(* prepare-transfer stores nothing, so accept-transfer has the client's    *)
(* word alone: its message names the guardian before, and its signedTx is  *)
(* a raw transaction or the hash of one, of which the gateway learns only  *)
(* whether the chain has executed it.  A request is served once, so it     *)
(* also names the two jobs it queues.                                      *)
(***************************************************************************)
EXTENDS JobQueue

CONSTANTS
  Guardian,   \* wallet addresses
  Genesis,    \* the guardian who registered the pet
  Tx,         \* transactions, by hash
  Request,    \* accept-transfer requests
  None

ASSUME GenesisAssumption == Genesis \in Guardian

Transfer == [from : Guardian, to : Guardian]
Claim == [from : Guardian, to : Guardian, tx : Tx]

ASSUME NoneAssumption == None \notin Guardian \cup Tx \cup Transfer \cup Claim

VARIABLES
  controller,    \* PetDIDRegistry: the controller of the pet
  call,          \* what each transaction is: a changeController of the pet,
                 \* or None when it is something else, or was never signed
  tx,            \* and what has become of it
  h,             \* accept-transfer requests: where they are, what they claim
  vcJob,         \* process-vc-transfer job of each request
  springJob,     \* sync-pet-transfer job of each request
  vc,            \* VC service: the pet's credential of each guardian
  springOwner,   \* Spring: the pet's owner
  credited,      \* history: claims whose credential was stored
  reported       \* history: claims Spring has carried out

chainVars   == <<controller, call, tx>>
jobVars     == <<vcJob, springJob>>
serviceVars == <<vc, springOwner, credited, reported>>
vars == <<controller, call, tx, h, vcJob, springJob,
          vc, springOwner, credited, reported>>

TxState == {"unsent", "pending", "mined", "reverted"}
Pc == {"new", "confirm", "queueVc", "queueSpring", "ok", "error"}
NoRequest == [pc |-> "new", claim |-> None]

Init ==
  /\ controller = Genesis
  /\ call = [t \in Tx |-> None]
  /\ tx = [t \in Tx |-> "unsent"]
  /\ h = [r \in Request |-> NoRequest]
  /\ vcJob = [r \in Request |-> NoJob]
  /\ springJob = [r \in Request |-> NoJob]
  /\ vc = [g \in Guardian |-> IF g = Genesis THEN "valid" ELSE "none"]
  /\ springOwner = Genesis
  /\ credited = {} /\ reported = {}

---------------------------------------------------------------------------
(* The chain *)

(* A transaction is signed, as anything, and reaches the chain: a wallet   *)
(* sends it, or accept-transfer broadcasts it.                             *)
Broadcast(t) ==
  /\ tx[t] = "unsent"
  /\ tx' = [tx EXCEPT ![t] = "pending"]
  /\ \E a \in Transfer \cup {None} : call' = [call EXCEPT ![t] = a]
  /\ UNCHANGED controller

WalletSends(t) == Broadcast(t) /\ UNCHANGED <<h, jobVars, serviceVars>>

(* changeController: only the controller may hand the pet over.  Any       *)
(* transaction may revert.                                                 *)
Mine(t) ==
  /\ tx[t] = "pending"
  /\ \/ /\ tx' = [tx EXCEPT ![t] = "mined"]
        /\ IF call[t] = None THEN UNCHANGED controller
             ELSE controller = call[t].from /\ controller' = call[t].to
     \/ tx' = [tx EXCEPT ![t] = "reverted"] /\ UNCHANGED controller
  /\ UNCHANGED <<call, h, jobVars, serviceVars>>

---------------------------------------------------------------------------
(* The requests *)

(* POST accept-transfer up to the wait for a receipt.  The caller is the   *)
(* new guardian of claim c, its message names the one before; the          *)
(* controller is read, but a mismatch is only logged.  signedTx is a raw   *)
(* transaction, which the chain takes once, or the hash of any.            *)
AcceptTransfer(r, c) ==
  /\ h[r].pc = "new"
  /\ \/ Broadcast(c.tx) /\ h' = [h EXCEPT ![r] = [pc |-> "confirm", claim |-> c]]
     \/ /\ \E pc \in {"confirm", "error"} :  \* hash; refused or not broadcast
             h' = [h EXCEPT ![r] = [pc |-> pc, claim |-> c]]
        /\ UNCHANGED chainVars
  /\ UNCHANGED <<jobVars, serviceVars>>

(* Mutant: the transaction is taken as done once it was sent.              *)
Confirmed_OnSend(r) ==
  /\ h[r].pc = "confirm"
  /\ h' = [h EXCEPT ![r].pc = "queueVc"]
  /\ UNCHANGED <<chainVars, jobVars, serviceVars>>

(* The receipt of the transaction named arrives with status 1, whatever    *)
(* the transaction is ...                                                  *)
Confirmed(r) ==
  /\ h[r].pc = "confirm" /\ tx[h[r].claim.tx] = "mined"
  /\ h' = [h EXCEPT ![r].pc = "queueVc"]
  /\ UNCHANGED <<chainVars, jobVars, serviceVars>>

(* Mutant: the wait for the receipt has no limit.                          *)
NotConfirmed_Unbounded(r) ==
  /\ h[r].pc = "confirm" /\ tx[h[r].claim.tx] = "reverted"
  /\ h' = [h EXCEPT ![r].pc = "error"]
  /\ UNCHANGED <<chainVars, jobVars, serviceVars>>

(* ... or the transaction reverted, or 30 seconds have passed without a    *)
(* receipt: the request fails, whatever becomes of the transaction.        *)
NotConfirmed(r) ==
  /\ h[r].pc = "confirm"
  /\ h' = [h EXCEPT ![r].pc = "error"]
  /\ UNCHANGED <<chainVars, jobVars, serviceVars>>

(* Mutant: only one job is queued.                                         *)
QueueVCTransfer_Only(r) ==
  /\ h[r].pc = "queueVc"
  /\ vcJob' = [vcJob EXCEPT ![r] = Queued]
  /\ h' = [h EXCEPT ![r].pc = "ok"]
  /\ UNCHANGED <<chainVars, springJob, serviceVars>>

QueueVCTransfer(r) ==
  /\ h[r].pc = "queueVc"
  /\ vcJob' = [vcJob EXCEPT ![r] = Queued]
  /\ h' = [h EXCEPT ![r].pc = "queueSpring"]
  /\ UNCHANGED <<chainVars, springJob, serviceVars>>

QueueTransferPet(r) ==
  /\ h[r].pc = "queueSpring"
  /\ springJob' = [springJob EXCEPT ![r] = Queued]
  /\ h' = [h EXCEPT ![r].pc = "ok"]
  /\ UNCHANGED <<chainVars, vcJob, serviceVars>>

(* queue.add fails: the request ends with an error. *)
QueueFails(r) ==
  /\ h[r].pc \in {"queueVc", "queueSpring"}
  /\ h' = [h EXCEPT ![r].pc = "error"]
  /\ UNCHANGED <<chainVars, jobVars, serviceVars>>

---------------------------------------------------------------------------
(* The jobs.  A request may name another pet, or another adoption: its job *)
(* then leaves this one as it is.                                          *)

StartVcTransfer(r) ==
  /\ Waiting(vcJob[r])
  /\ vcJob' = [vcJob EXCEPT ![r] = Started(@, "invalidate")]
  /\ UNCHANGED <<chainVars, h, springJob, serviceVars>>

Revoke(g) == vc' = [vc EXCEPT ![g] = IF @ = "valid" THEN "revoked" ELSE @]

(* Mutant: the job revokes the credential of the guardian it serves.       *)
InvalidateVC_New(r) ==
  /\ StandsAt(vcJob[r], "invalidate")
  /\ Revoke(h[r].claim.to) \/ UNCHANGED vc
  /\ vcJob' = [vcJob EXCEPT ![r] = Moved(@, "store")]
  /\ UNCHANGED <<chainVars, h, springJob, springOwner, credited, reported>>

(* invalidateVC of the previous guardian.  No credential, an error answer  *)
(* and an exception are all logged, and the job goes on.                   *)
InvalidateVC(r) ==
  /\ StandsAt(vcJob[r], "invalidate")
  /\ Revoke(h[r].claim.from) \/ UNCHANGED vc
  /\ vcJob' = [vcJob EXCEPT ![r] = Moved(@, "store")]
  /\ UNCHANGED <<chainVars, h, springJob, springOwner, credited, reported>>

(* createTransferVC stores the credential of the new guardian. *)
StoreVC(r) ==
  /\ vc' = [vc EXCEPT ![h[r].claim.to] = "valid"]
  /\ credited' = credited \cup {h[r].claim}
  /\ UNCHANGED <<springOwner, reported>>

StoreTransferVC(r) ==
  /\ StandsAt(vcJob[r], "store")
  /\ StoreVC(r) \/ UNCHANGED serviceVars
  /\ \E job \in {Completed(vcJob[r]), Thrown(vcJob[r])} :
       vcJob' = [vcJob EXCEPT ![r] = job]
  /\ UNCHANGED <<chainVars, h, springJob>>

StartTransferSync(r) ==
  /\ Waiting(springJob[r])
  /\ springJob' = [springJob EXCEPT ![r] = Started(@, "delegate")]
  /\ UNCHANGED <<chainVars, h, vcJob, serviceVars>>

(* PATCH /api/adoption/{adoptionId}/delegate *)
Delegate(r) ==
  /\ springOwner' = h[r].claim.to
  /\ reported' = reported \cup {h[r].claim}
  /\ UNCHANGED <<vc, credited>>

DelegateAdoption(r) ==
  /\ StandsAt(springJob[r], "delegate")
  /\ Delegate(r) \/ UNCHANGED serviceVars
  /\ \E job \in {Completed(springJob[r]), Thrown(springJob[r])} :
       springJob' = [springJob EXCEPT ![r] = job]
  /\ UNCHANGED <<chainVars, h, vcJob>>

(* POST vc/create-vc-with-signature: a guardian has a credential of the    *)
(* pet stored that it signed itself; the chain is not asked.               *)
CreateVC(g) ==
  /\ vc' = [vc EXCEPT ![g] = "valid"]
  /\ UNCHANGED <<chainVars, h, jobVars, springOwner, credited, reported>>

---------------------------------------------------------------------------
(* The gateway restarts: requests are lost, the jobs it ran stall. *)
InFlight(r) == h[r].pc \in {"confirm", "queueVc", "queueSpring"}

Restart ==
  /\ \E r \in Request : \/ InFlight(r)
                        \/ vcJob[r].state = "active"
                        \/ springJob[r].state = "active"
  /\ h' = [r \in Request |-> IF InFlight(r) THEN [h[r] EXCEPT !.pc = "error"]
                                            ELSE h[r]]
  /\ vcJob' = [r \in Request |-> Stalled(vcJob[r])]
  /\ springJob' = [r \in Request |-> Stalled(springJob[r])]
  /\ UNCHANGED <<chainVars, serviceVars>>

Accept(r) ==
  \/ Confirmed(r) \/ NotConfirmed(r)
  \/ QueueVCTransfer(r) \/ QueueTransferPet(r) \/ QueueFails(r)
RunVcJob(r) == StartVcTransfer(r) \/ InvalidateVC(r) \/ StoreTransferVC(r)
RunSpringJob(r) == StartTransferSync(r) \/ DelegateAdoption(r)
Chain(t) == WalletSends(t) \/ Mine(t)

Next ==
  \/ \E t \in Tx : Chain(t)
  \/ \E r \in Request, c \in Claim : AcceptTransfer(r, c)
  \/ \E r \in Request : Accept(r) \/ RunVcJob(r) \/ RunSpringJob(r)
  \/ \E g \in Guardian : CreateVC(g)
  \/ Restart

Spec == Init /\ [][Next]_vars

(* The 30 second timer fires and the event loop runs every handler on.     *)
(* Nothing is assumed of the chain, nor of the jobs: the calls of their    *)
(* processors have no time limit.                                          *)
Fairness == \A r \in Request : WF_vars(Accept(r))

---------------------------------------------------------------------------
Steps == {"invalidate", "store", "delegate"}

(* Type invariant. *)
TypeOK ==
  /\ controller \in Guardian /\ springOwner \in Guardian
  /\ call \in [Tx -> Transfer \cup {None}]
  /\ tx \in [Tx -> TxState]
  /\ h \in [Request -> [pc : Pc, claim : Claim \cup {None}]]
  /\ vcJob \in [Request -> Job(Steps)] /\ springJob \in [Request -> Job(Steps)]
  /\ vc \in [Guardian -> {"none", "valid", "revoked"}]
  /\ credited \subseteq Claim /\ reported \subseteq Claim

Mined == {t \in Tx : tx[t] = "mined"}

(* What PetTransfer does is a behaviour of TransferLedger: the pet moves   *)
(* from controller to controller, and no credential is stored and no       *)
(* adoption delegated before the chain has executed the transaction that   *)
(* is claimed to be the transfer, however jobs are retried or stall.       *)
Ledger == INSTANCE TransferLedger WITH executed <- [t \in Mined |-> call[t]]
ImplementsLedger == Ledger!LedgerSpec

(* A request is answered with success only when the chain has executed the *)
(* transaction it names and both jobs are on their queues.                 *)
AnsweredTransferIsQueued ==
  \A r \in Request : h[r].pc = "ok" =>
    /\ h[r].claim.tx \in Mined
    /\ vcJob[r].state # "absent" /\ springJob[r].state # "absent"

(* A guardian who got a credential has one until a request, with an        *)
(* executed transaction behind it, says that they handed the pet on, and   *)
(* Spring names a guardian for whom such a request was made: jobs that are *)
(* retried, stall or run in any order change nothing else.                 *)
CredentialsFollowClaims ==
  /\ \A c \in credited : vc[c.to] # "none"
  /\ \A g \in Guardian : vc[g] = "revoked" =>
       \E r \in Request : /\ h[r].pc # "new" /\ h[r].claim.from = g
                         /\ h[r].claim.tx \in Mined
  /\ \/ springOwner = Genesis /\ reported = {}
     \/ \E c \in reported : c.to = springOwner

(* Every request is answered, whatever the chain does.                     *)
EveryRequestIsAnswered ==
  \A r \in Request : InFlight(r) ~> h[r].pc \in {"ok", "error"}
============================================================================
