-------------------------- MODULE GuardianRegistry --------------------------
(***************************************************************************)
(* The GuardianRegistry contract and the route that links a pet to a       *)
(* guardian (GuardianController.linkPet, GuardianService).  Wallets call   *)
(* the contract directly; a link goes through the gateway, which sends the *)
(* signed transaction, waits for one a wallet has sent, or signs with the  *)
(* admin key when it is given none.  It looks only at the receipt, so the  *)
(* transaction it is given may be of any kind.                             *)
(*                                                                         *)
(* A call that reverts changes nothing, so only those of links, whose      *)
(* receipts the gateway reads, are steps.  Timestamps, the data hash and   *)
(* the roles' own administration are left out.                             *)
(***************************************************************************)
EXTENDS Naturals, Sequences, FiniteSets

CONSTANTS
  Wallet,       \* addresses
  Deployer,     \* has DEFAULT_ADMIN_ROLE
  AdminSigner,  \* the gateway's admin key
  Pet,          \* DIDs
  Declared,     \* verification methods a guardian registers with
  Transaction,  \* transactions requests may name
  Request,      \* link-pet requests
  None

TxState == {"unsent", "pending", "mined", "reverted"}

(* A transaction links a pet, or does something else: then it has none.    *)
SignedTx == [from : Wallet, pet : Pet \cup {None}, state : TxState]

ASSUME WalletAssumption == Deployer \in Wallet /\ AdminSigner \in Wallet
ASSUME DeclaredAssumption == Declared \subseteq 0..3
ASSUME NoneAssumption ==
  None \notin Transaction \cup Pet /\ None \notin SignedTx

VARIABLES
  status,        \* _guardians: guardianAddress and isActive, ...
  method,        \* ... verificationMethod ...
  level,         \* ... and verificationLevel
  proof,         \* _verificationProofs: what was verified, "sms", "email"
  guardianPets,  \* _guardianPets
  allGuardians,  \* _allGuardians
  totalGuardians,
  verifiers,     \* wallets with VERIFIER_ROLE
  tx,            \* the transactions, None until signed
  h              \* link-pet requests

profile == <<status, method, level>>
rollVars == <<profile, proof, allGuardians, totalGuardians, verifiers>>
vars == <<profile, proof, guardianPets, allGuardians, totalGuardians,
          verifiers, tx, h>>

(* VerificationMethod *)
NONE == 0
SMS == 1
EMAIL == 2
SMS_AND_EMAIL == 3

CalculateVerificationLevel(m) ==
  CASE m = SMS_AND_EMAIL -> 100
    [] m = EMAIL -> 70
    [] m = SMS -> 60
    [] OTHER -> 0

MethodOf(seen) ==
  IF seen = {"sms", "email"} THEN SMS_AND_EMAIL
  ELSE IF "sms" \in seen THEN SMS ELSE EMAIL

NoRequest == [pc |-> "new", tx |-> None]

Init ==
  /\ status = [w \in Wallet |-> "unknown"]
  /\ method = [w \in Wallet |-> NONE] /\ level = [w \in Wallet |-> 0]
  /\ proof = [w \in Wallet |-> {}]
  /\ guardianPets = [w \in Wallet |-> <<>>]
  /\ allGuardians = <<>> /\ totalGuardians = 0
  /\ verifiers = {}
  /\ tx = [t \in Transaction |-> None]
  /\ h = [r \in Request |-> NoRequest]

---------------------------------------------------------------------------
(* The contract, called by w *)

(* Mutant: a guardian that was deactivated registers again.                *)
RegisterGuardian_Inactive(w, m) ==
  /\ status[w] # "active"
  /\ status' = [status EXCEPT ![w] = "active"]
  /\ method' = [method EXCEPT ![w] = m]
  /\ level' = [level EXCEPT ![w] = CalculateVerificationLevel(m)]
  /\ allGuardians' = Append(allGuardians, w)
  /\ totalGuardians' = totalGuardians + 1
  /\ UNCHANGED <<proof, guardianPets, verifiers, tx, h>>

RegisterGuardian(w, m) ==
  /\ status[w] = "unknown"
  /\ status' = [status EXCEPT ![w] = "active"]
  /\ method' = [method EXCEPT ![w] = m]
  /\ level' = [level EXCEPT ![w] = CalculateVerificationLevel(m)]
  /\ allGuardians' = Append(allGuardians, w)
  /\ totalGuardians' = totalGuardians + 1
  /\ UNCHANGED <<proof, guardianPets, verifiers, tx, h>>

(* Mutant: only what this call says counts for the method.                 *)
VerifyGuardian_Latest(w, g, seen) ==
  /\ w \in verifiers /\ status[g] # "unknown"
  /\ proof' = [proof EXCEPT ![g] = @ \cup seen]
  /\ method' = [method EXCEPT ![g] = MethodOf(seen)]
  /\ level' = [level EXCEPT ![g] = CalculateVerificationLevel(MethodOf(seen))]
  /\ UNCHANGED <<status, guardianPets, allGuardians, totalGuardians, verifiers, tx, h>>

(* What is verified adds up, and the method follows; an inactive guardian  *)
(* may be verified too.                                                    *)
VerifyGuardian(w, g, seen) ==
  LET m == MethodOf(proof[g] \cup seen) IN
  /\ w \in verifiers /\ status[g] # "unknown"
  /\ proof' = [proof EXCEPT ![g] = @ \cup seen]
  /\ method' = [method EXCEPT ![g] = m]
  /\ level' = [level EXCEPT ![g] = CalculateVerificationLevel(m)]
  /\ UNCHANGED <<status, guardianPets, allGuardians, totalGuardians, verifiers, tx, h>>

DeactivateGuardian(w) ==
  /\ status[w] = "active"
  /\ status' = [status EXCEPT ![w] = "inactive"]
  /\ UNCHANGED <<method, level, proof, guardianPets, allGuardians, totalGuardians, verifiers, tx, h>>

ForceDeactivateGuardian(w, g) ==
  /\ w = Deployer /\ status[g] # "unknown"
  /\ status' = [status EXCEPT ![g] = "inactive"]
  /\ UNCHANGED <<method, level, proof, guardianPets, allGuardians, totalGuardians, verifiers, tx, h>>

SetVerifierRole(w, v) ==
  /\ w = Deployer
  /\ verifiers' \in {verifiers \cup {v}, verifiers \ {v}}
  /\ UNCHANGED <<profile, proof, guardianPets, allGuardians, totalGuardians, tx, h>>

(* unlinkPet: the last pet takes the place of the first that matches.      *)
First(pets, p) == CHOOSE i \in DOMAIN pets :
                    pets[i] = p /\ \A j \in DOMAIN pets : pets[j] = p => i <= j

(* Mutant: the last pet is dropped before it was moved.                    *)
SwapAndPop_PopOnly(pets, i) == [j \in 1..(Len(pets) - 1) |-> pets[j]]

SwapAndPop(pets, i) ==
  [j \in 1..(Len(pets) - 1) |-> IF j = i THEN pets[Len(pets)] ELSE pets[j]]

UnlinkPet(w, p) ==
  /\ status[w] # "unknown"
  /\ \E i \in DOMAIN guardianPets[w] : guardianPets[w][i] = p
  /\ guardianPets' = [guardianPets EXCEPT ![w] = SwapAndPop(@, First(@, p))]
  /\ UNCHANGED <<rollVars, tx, h>>

(* Mutant: a guardian that was deactivated is still given pets.            *)
MayLink_Registered(w) == status[w] # "unknown"

(* linkPet by a transaction that was sent: an unregistered or inactive     *)
(* sender reverts it; a pet may be listed twice.                           *)
MayLink(w) == status[w] = "active"

LinkPet(t) ==
  LET w == tx[t].from IN
  /\ tx[t] # None /\ tx[t].state = "pending" /\ tx[t].pet # None
  /\ MayLink(w)
  /\ guardianPets' = [guardianPets EXCEPT ![w] = Append(@, tx[t].pet)]
  /\ tx' = [tx EXCEPT ![t].state = "mined"]
  /\ UNCHANGED <<rollVars, h>>

RevertLink(t) ==
  /\ tx[t] # None /\ tx[t].state = "pending" /\ tx[t].pet # None
  /\ ~ MayLink(tx[t].from)
  /\ tx' = [tx EXCEPT ![t].state = "reverted"]
  /\ UNCHANGED <<rollVars, guardianPets, h>>

(* A transaction that links nothing. *)
MineOther(t) ==
  /\ tx[t] # None /\ tx[t].state = "pending" /\ tx[t].pet = None
  /\ \E outcome \in {"mined", "reverted"} : tx' = [tx EXCEPT ![t].state = outcome]
  /\ UNCHANGED <<rollVars, guardianPets, h>>

---------------------------------------------------------------------------
(* POST prepare-link-pet and link-pet *)

(* A wallet signs the transaction it was prepared, or another one, and may *)
(* send it.                                                                *)
SignTx(t, w, p) ==
  /\ tx[t] = None
  /\ tx' = [tx EXCEPT ![t] = [from |-> w, pet |-> p, state |-> "unsent"]]
  /\ UNCHANGED <<rollVars, guardianPets, h>>

WalletSends(t) ==
  /\ tx[t] # None /\ tx[t].state = "unsent"
  /\ tx' = [tx EXCEPT ![t].state = "pending"]
  /\ UNCHANGED <<rollVars, guardianPets, h>>

(* The pet the route names is not compared with the one that was signed.   *)
Serve(r, pc, t) == h' = [h EXCEPT ![r] = [pc |-> pc, tx |-> t]]

(* signedTx is the raw transaction: the chain takes it once, and tx.wait() *)
(* has no limit ...                                                        *)
LinkWithRaw(r, t) ==
  /\ h[r].pc = "new" /\ tx[t] # None
  /\ IF tx[t].state = "unsent"
       THEN tx' = [tx EXCEPT ![t].state = "pending"] /\ Serve(r, "wait", t)
       ELSE UNCHANGED tx /\ Serve(r, "failed", t)
  /\ UNCHANGED <<rollVars, guardianPets>>

(* ... or the hash, of a transaction that was sent or not: 30 seconds ...  *)
LinkWithHash(r, t) ==
  /\ h[r].pc = "new" /\ tx[t] # None
  /\ Serve(r, "confirm", t)
  /\ UNCHANGED <<rollVars, guardianPets, tx>>

(* ... or missing: the admin key signs, and the sender is the admin.  A    *)
(* call that would revert fails before it is sent.                         *)
LinkByAdmin(r, p, t) ==
  /\ h[r].pc = "new" /\ tx[t] = None
  /\ MayLink(AdminSigner)
  /\ tx' = [tx EXCEPT ![t] = [from |-> AdminSigner, pet |-> p, state |-> "pending"]]
  /\ Serve(r, "wait", t)
  /\ UNCHANGED <<rollVars, guardianPets>>

Finish(r, pc) ==
  /\ h' = [h EXCEPT ![r].pc = pc]
  /\ UNCHANGED <<rollVars, guardianPets, tx>>

Waits(r) == h[r].pc \in {"wait", "confirm"}

(* Mutant: a receipt counts whatever its status.                           *)
Linked_AnyStatus(r) ==
  /\ Waits(r) /\ tx[h[r].tx].state \in {"mined", "reverted"}
  /\ Finish(r, "linked")

(* The receipt, with status 1 or 0 *)
Linked(r) == Waits(r) /\ tx[h[r].tx].state = "mined" /\ Finish(r, "linked")
Reverted(r) == Waits(r) /\ tx[h[r].tx].state = "reverted" /\ Finish(r, "failed")

ReceiptTimesOut(r) == h[r].pc = "confirm" /\ Finish(r, "failed")

(* The node cannot be reached, or no transaction is valid. *)
RpcFails(r) == (h[r].pc = "new" \/ Waits(r)) /\ Finish(r, "failed")

(* The gateway restarts, and its clients get no answer. *)
Restart ==
  /\ \E r \in Request : Waits(r)
  /\ h' = [r \in Request |-> IF Waits(r) THEN [h[r] EXCEPT !.pc = "failed"] ELSE h[r]]
  /\ UNCHANGED <<rollVars, guardianPets, tx>>

Handle(r) == Linked(r) \/ Reverted(r) \/ ReceiptTimesOut(r)
Mine(t) == LinkPet(t) \/ RevertLink(t) \/ MineOther(t)

Next ==
  \/ \E w \in Wallet, m \in Declared : RegisterGuardian(w, m)
  \/ \E w, g \in Wallet : \/ \E seen \in (SUBSET {"sms", "email"}) \ {{}} : VerifyGuardian(w, g, seen)
                          \/ ForceDeactivateGuardian(w, g) \/ SetVerifierRole(w, g)
  \/ \E w \in Wallet : DeactivateGuardian(w) \/ \E p \in Pet : UnlinkPet(w, p)
  \/ \E t \in Transaction : \/ WalletSends(t) \/ Mine(t)
                            \/ \E w \in Wallet, p \in Pet \cup {None} : SignTx(t, w, p)
  \/ \E r \in Request, t \in Transaction :
       \/ LinkWithRaw(r, t) \/ LinkWithHash(r, t)
       \/ \E p \in Pet : LinkByAdmin(r, p, t)
  \/ \E r \in Request : Handle(r) \/ RpcFails(r)
  \/ Restart

Spec == Init /\ [][Next]_vars

---------------------------------------------------------------------------
Pc == {"new", "wait", "confirm", "linked", "failed"}

(* Type invariant. *)
TypeOK ==
  /\ status \in [Wallet -> {"unknown", "active", "inactive"}]
  /\ method \in [Wallet -> 0..3] /\ level \in [Wallet -> {0, 60, 70, 100}]
  /\ proof \in [Wallet -> SUBSET {"sms", "email"}]
  /\ guardianPets \in [Wallet -> Seq(Pet)]
  /\ allGuardians \in Seq(Wallet) /\ totalGuardians \in Nat
  /\ verifiers \subseteq Wallet
  /\ tx \in [Transaction -> SignedTx \cup {None}]
  /\ h \in [Request -> [pc : Pc, tx : Transaction \cup {None}]]

(* The contract keeps a bag of pets for each guardian: its array           *)
(* implements PetBook.  So one transaction adds one entry however many     *)
(* requests present it, and a guardian that was deactivated is given no    *)
(* pet, not even by a transaction sent before, and never returns.          *)
Occurrences(pets, p) == {i \in DOMAIN pets : pets[i] = p}
Registered == {w \in Wallet : status[w] # "unknown"}
Active == {w \in Wallet : status[w] = "active"}
Mined == {t \in Transaction : tx[t] # None /\ tx[t].state = "mined"}
Executed == {t \in Mined : tx[t].pet # None}
Held == [w \in Wallet |-> [p \in Pet |-> Cardinality(Occurrences(guardianPets[w], p))]]
Book == INSTANCE PetBook WITH
          Entry <- Transaction, entered <- Registered, open <- Active,
          held <- Held, written <- Executed
ImplementsBook == Book!BookSpec

(* unlinkPet, which searches its array and swaps the last pet into the     *)
(* gap, takes one entry of the pet it is given and no other pet's.         *)
UnlinkTakesItsPet ==
  [][\A w \in Wallet, p \in Pet : UnlinkPet(w, p) => Book!Remove(w, p)]_vars

(* _allGuardians lists every wallet that ever registered, once, and the    *)
(* counter that is kept beside it agrees.                                  *)
RollIsExact ==
  /\ {allGuardians[i] : i \in DOMAIN allGuardians} = Registered
  /\ Cardinality(Registered) = totalGuardians /\ Len(allGuardians) = totalGuardians

(* Once anything of a guardian was verified, its method and level are what *)
(* all verifications together say, in whatever order and by whomever they  *)
(* were made; no later call lowers them.                                   *)
LevelFollowsProof ==
  \A w \in Wallet : proof[w] # {} =>
    /\ w \in Registered /\ method[w] = MethodOf(proof[w])
    /\ level[w] = CalculateVerificationLevel(MethodOf(proof[w]))

(* A request answered with success had its transaction mined, whatever it  *)
(* did; and each link that was executed is of somebody who had registered, *)
(* though a wallet may have sent it before it registered, after it was     *)
(* deactivated, or twice.                                                  *)
SuccessIsMined ==
  /\ \A r \in Request : h[r].pc = "linked" => h[r].tx \in Mined
  /\ \A t \in Executed : tx[t].from \in Registered
============================================================================
