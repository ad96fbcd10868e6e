----------------------- MODULE GuardianRegistryProofs -----------------------
(***************************************************************************)
(* Proofs about GuardianRegistry, for any wallets, pets, transactions and  *)
(* requests: the type invariant, the roll of guardians, the verification   *)
(* levels, the answers of the link route, and that the contract's arrays,  *)
(* with their swap-and-pop removal, implement the bags of PetBook.         *)
(***************************************************************************)
EXTENDS GuardianRegistry, FiniteSetTheorems, TLAPS

---------------------------------------------------------------------------
(* Arrays as bags *)

LEMMA OccurrencesAreFinite ==
  ASSUME NEW s \in Seq(Pet), NEW q
  PROVE  IsFiniteSet(Occurrences(s, q)) /\ Cardinality(Occurrences(s, q)) \in Nat
<1>1. DOMAIN s = 1..Len(s) /\ Len(s) \in Nat
  OBVIOUS
<1>2. IsFiniteSet(1..Len(s))
  BY <1>1, FS_Interval
<1>3. Occurrences(s, q) \in SUBSET (1..Len(s))
  BY <1>1 DEF Occurrences
<1>4. IsFiniteSet(Occurrences(s, q))
  BY <1>2, <1>3, FS_Subset
<1> QED BY <1>4, FS_CardinalityType

(* Appending a pet adds one occurrence of it. *)
LEMMA AppendAddsOne ==
  ASSUME NEW s \in Seq(Pet), NEW p \in Pet, NEW q \in Pet
  PROVE  Cardinality(Occurrences(Append(s, p), q))
           = IF q = p THEN Cardinality(Occurrences(s, q)) + 1
                      ELSE Cardinality(Occurrences(s, q))
<1>1. CASE q = p
  <2>1. Occurrences(Append(s, p), q) = Occurrences(s, q) \cup {Len(s) + 1}
    BY <1>1 DEF Occurrences
  <2>2. Len(s) + 1 \notin Occurrences(s, q)
    BY DEF Occurrences
  <2> QED BY <1>1, <2>1, <2>2, OccurrencesAreFinite, FS_AddElement
<1>2. CASE q # p
  <2>1. Occurrences(Append(s, p), q) = Occurrences(s, q)
    BY <1>2 DEF Occurrences
  <2> QED BY <1>2, <2>1
<1> QED BY <1>1, <1>2

(* Moving the last pet to the place of one and popping the array removes   *)
(* one occurrence of that pet, and of no other, wherever it stood.         *)
LEMMA SwapAndPopTakesOne ==
  ASSUME NEW s \in Seq(Pet), NEW i \in DOMAIN s, NEW q \in Pet
  PROVE  /\ SwapAndPop(s, i) \in Seq(Pet)
         /\ Cardinality(Occurrences(SwapAndPop(s, i), q))
              = IF q = s[i] THEN Cardinality(Occurrences(s, q)) - 1
                            ELSE Cardinality(Occurrences(s, q))
<1> DEFINE n == Len(s)
           t == SwapAndPop(s, i)
           old == Occurrences(s, q)
           new == Occurrences(t, q)
<1>1. n \in Nat /\ i \in 1..n /\ DOMAIN s = 1..n /\ \A j \in 1..n : s[j] \in Pet
  OBVIOUS
<1>2. t = [j \in 1..(n - 1) |-> IF j = i THEN s[n] ELSE s[j]]
  BY DEF SwapAndPop
<1>3. t \in Seq(Pet)
  BY <1>1, <1>2
<1>4. \A j : j \in new <=> j \in 1..(n - 1) /\ (IF j = i THEN s[n] ELSE s[j]) = q
  BY <1>1, <1>2 DEF Occurrences
<1>5. \A j : j \in old <=> j \in 1..n /\ s[j] = q
  BY <1>1 DEF Occurrences
<1> HIDE DEF t, old, new
<1>6. IsFiniteSet(old)
  BY OccurrencesAreFinite DEF old
<1>7. CASE q = s[i] /\ (i = n \/ s[n] = q)
  <2>1. new = old \ {n} /\ n \in old
    BY <1>1, <1>4, <1>5, <1>7
  <2> QED BY <1>3, <1>6, <1>7, <2>1, FS_RemoveElement DEF t, old, new
<1>8. CASE q = s[i] /\ i # n /\ s[n] # q
  <2>1. new = old \ {i} /\ i \in old
    BY <1>1, <1>4, <1>5, <1>8
  <2> QED BY <1>3, <1>6, <1>8, <2>1, FS_RemoveElement DEF t, old, new
<1>9. CASE q # s[i] /\ s[n] # q
  <2>1. \A j : j \in new <=> j \in old
    BY <1>1, <1>4, <1>5, <1>9
  <2>2. new = old
    BY <2>1
  <2> QED BY <1>3, <1>9, <2>2 DEF t, old, new
<1>10. CASE q # s[i] /\ s[n] = q
  <2>1. new = (old \ {n}) \cup {i} /\ n \in old /\ i \notin old
    BY <1>1, <1>4, <1>5, <1>10
  <2>2. IsFiniteSet(old \ {n}) /\ Cardinality(old \ {n}) = Cardinality(old) - 1
    BY <1>6, <2>1, FS_RemoveElement
  <2>3. Cardinality(new) = Cardinality(old \ {n}) + 1
    BY <2>1, <2>2, FS_AddElement
  <2>4. Cardinality(old) \in Nat
    BY <1>6, FS_CardinalityType
  <2> QED BY <1>3, <1>10, <2>2, <2>3, <2>4 DEF t, old, new
<1> QED BY <1>7, <1>8, <1>9, <1>10

(* A set of places has a first one: the intervals up to its members are    *)
(* well-ordered by inclusion.                                              *)
LEMMA FirstOfPlaces ==
  ASSUME NEW n \in Nat, NEW S \in SUBSET (1..n), S # {}
  PROVE  \E i \in S : \A j \in S : i <= j
<1> DEFINE R == StrictSubsetOrdering(1..n)
           T == {1..k : k \in S}
<1>1. IsFiniteSet(1..n)
  BY FS_Interval
<1>2. IsWellFoundedOn(R, FiniteSubsetsOf(1..n))
  BY <1>1, FS_StrictSubsetOrderingWellFounded
<1>3. \A k \in S : IsFiniteSet(1..k) /\ 1..k \subseteq 1..n
  BY FS_Interval
<1>4. T \subseteq FiniteSubsetsOf(1..n) /\ T # {}
  BY <1>3 DEF FiniteSubsetsOf
<1> HIDE DEF R, T
<1>5. \E x \in T : \A y \in T : <<y, x>> \notin R
  BY <1>2, <1>4, WFMin
<1>6. PICK i \in S : \A y \in T : <<y, 1..i>> \notin R
  BY <1>5 DEF T
<1>7. ASSUME NEW j \in S, j < i PROVE FALSE
  <2>1. 1..j \in T /\ 1..i \in SUBSET (1..n) /\ 1..j \in SUBSET (1..n)
    BY <1>3 DEF T
  <2>2. 1..j \subseteq 1..i
    BY <1>7
  <2>3. i \in 1..i /\ i \notin 1..j
    BY <1>7
  <2>4. <<1..j, 1..i>> \in R
    BY <2>1, <2>2, <2>3 DEF R, StrictSubsetOrdering
  <2> QED BY <1>6, <2>1, <2>4
<1>8. \A j \in S : i <= j
  BY <1>7
<1> QED BY <1>8

(* The search of unlinkPet stops at a place of the pet, when there is one. *)
LEMMA FirstIsThere ==
  ASSUME NEW s \in Seq(Pet), NEW p \in Pet, \E i \in DOMAIN s : s[i] = p
  PROVE  First(s, p) \in DOMAIN s /\ s[First(s, p)] = p
<1> DEFINE S == {i \in DOMAIN s : s[i] = p}
<1>1. S \in SUBSET (1..Len(s)) /\ S # {} /\ Len(s) \in Nat
  OBVIOUS
<1>2. \E i \in S : \A j \in S : i <= j
  BY <1>1, FirstOfPlaces
<1>3. \E i \in DOMAIN s : s[i] = p /\ \A j \in DOMAIN s : s[j] = p => i <= j
  BY <1>2
<1> QED BY <1>3 DEF First

---------------------------------------------------------------------------
(* The inductive invariant *)

RollIsFinite == IsFiniteSet(Registered)

(* An active request carries a transaction that was signed.                *)
Carries(r) == h[r].tx \in Transaction /\ tx[h[r].tx] # None
ServedCarries == \A r \in Request : h[r].pc \in {"wait", "confirm", "linked"} => Carries(r)

LinkedMined == \A r \in Request : h[r].pc = "linked" => h[r].tx \in Mined
SignersAreRegistered == \A t \in Executed : tx[t].from \in Registered

IInv == TypeOK /\ RollIsFinite /\ RollIsExact /\ LevelFollowsProof
        /\ ServedCarries /\ LinkedMined

LEMMA MethodIsVerified ==
  ASSUME NEW seen \in SUBSET {"sms", "email"}
  PROVE  MethodOf(seen) \in 1..3
BY DEF MethodOf, SMS, EMAIL, SMS_AND_EMAIL

LEMMA LevelIsTyped ==
  ASSUME NEW m PROVE CalculateVerificationLevel(m) \in {0, 60, 70, 100}
BY DEF CalculateVerificationLevel

Served == [pc : Pc, tx : Transaction \cup {None}]

(* Answering a request keeps it a request. *)
LEMMA PcSet ==
  ASSUME NEW R \in [Request -> Served], NEW r \in Request, NEW pc \in Pc
  PROVE  [R EXCEPT ![r].pc = pc] \in [Request -> Served]
BY DEF Served

LEMMA PcFailed ==
  ASSUME NEW x \in Served PROVE [x EXCEPT !.pc = "failed"] \in Served
BY DEF Served, Pc

LEMMA InitIInv == Init => IInv
<1> SUFFICES ASSUME Init PROVE IInv
  OBVIOUS
<1>1. TypeOK
  BY DEF Init, TypeOK, NoRequest, NONE, Pc
<1>2. Registered = {}
  BY DEF Init, Registered
<1>3. RollIsFinite /\ RollIsExact
  BY <1>2, FS_EmptySet DEF Init, RollIsFinite, RollIsExact
<1>4. LevelFollowsProof /\ ServedCarries /\ LinkedMined
  BY DEF Init, LevelFollowsProof, ServedCarries, LinkedMined, NoRequest
<1> QED BY <1>1, <1>3, <1>4 DEF IInv

(* Link transactions: a record is written once, and then only its state    *)
(* moves on; what was mined stays mined.                                   *)
TxKept ==
  \A t \in Transaction : tx[t] # None =>
    /\ tx'[t] # None /\ tx'[t].from = tx[t].from /\ tx'[t].pet = tx[t].pet
    /\ tx[t].state = "mined" => tx'[t].state = "mined"

LEMMA RequestsStand ==
  ASSUME IInv, TxKept, UNCHANGED h
  PROVE  ServedCarries' /\ LinkedMined'
<1>1. ServedCarries'
  BY DEF IInv, ServedCarries, Carries, TxKept
<1>2. LinkedMined'
  BY DEF IInv, LinkedMined, ServedCarries, Carries, Executed, Mined, TxKept
<1> QED BY <1>1, <1>2

LEMMA AnsweredStands ==
  ASSUME IInv, TxKept, \A r \in Request : h'[r].pc = "linked" => h'[r] = h[r]
  PROVE  LinkedMined'
BY DEF IInv, LinkedMined, ServedCarries, Carries, Executed, Mined, TxKept

LEMMA RollStands ==
  ASSUME IInv, UNCHANGED <<allGuardians, totalGuardians, Registered>>
  PROVE  RollIsFinite' /\ RollIsExact'
BY DEF IInv, RollIsFinite, RollIsExact

LEMMA LevelsStand ==
  ASSUME IInv, UNCHANGED <<status, method, level, proof>> PROVE LevelFollowsProof'
BY DEF IInv, LevelFollowsProof, Registered

LEMMA TxUntouched == ASSUME UNCHANGED tx PROVE TxKept
BY DEF TxKept

LEMMA TxMovesOn ==
  ASSUME tx \in [Transaction -> SignedTx \cup {None}],
         NEW t \in Transaction, tx[t] # None, tx[t].state # "mined",
         NEW s \in TxState, tx' = [tx EXCEPT ![t].state = s]
  PROVE  tx' \in [Transaction -> SignedTx \cup {None}] /\ TxKept
<1> DEFINE moved == [from |-> tx[t].from, pet |-> tx[t].pet, state |-> s]
<1>1. tx[t] \in SignedTx
  OBVIOUS
<1>2. [tx[t] EXCEPT !.state = s] = moved /\ moved \in SignedTx
  BY <1>1 DEF SignedTx
<1>3. tx' = [tx EXCEPT ![t] = moved]
  BY <1>2
<1>4. moved # None
  BY <1>2, NoneAssumption
<1>5. tx'[t] = moved /\ \A x \in Transaction \ {t} : tx'[x] = tx[x]
  BY <1>3
<1> HIDE DEF moved
<1>6. moved.from = tx[t].from /\ moved.pet = tx[t].pet
  BY DEF moved
<1>7. TxKept
  BY <1>4, <1>5, <1>6 DEF TxKept
<1> QED BY <1>2, <1>3, <1>7

(* One lemma for each group of actions. *)
LEMMA RegisterKeeps ==
  ASSUME IInv, NEW w \in Wallet, NEW m \in Declared, RegisterGuardian(w, m)
  PROVE  IInv'
<1> USE DEF IInv, TypeOK
<1>1. TypeOK'
  BY DeclaredAssumption, LevelIsTyped DEF RegisterGuardian
<1>2. w \notin Registered /\ Registered' = Registered \cup {w}
  BY DEF RegisterGuardian, Registered
<1>3. RollIsFinite' /\ Cardinality(Registered)' = totalGuardians'
  BY <1>2, FS_AddElement DEF RegisterGuardian, RollIsFinite, RollIsExact
<1>4. {allGuardians'[i] : i \in DOMAIN allGuardians'}
        = {allGuardians[i] : i \in DOMAIN allGuardians} \cup {w}
  <2> DEFINE a == allGuardians
  <2>1. a \in Seq(Wallet) /\ allGuardians' = Append(a, w)
    BY DEF RegisterGuardian
  <2>2. DOMAIN allGuardians' = DOMAIN a \cup {Len(a) + 1}
    BY <2>1
  <2>3. allGuardians'[Len(a) + 1] = w
        /\ \A i \in DOMAIN a : allGuardians'[i] = a[i]
    BY <2>1
  <2> QED BY <2>2, <2>3
<1>5. RollIsExact'
  <2>1. Len(allGuardians') = totalGuardians'
    BY DEF RegisterGuardian, RollIsExact
  <2>2. {allGuardians'[i] : i \in DOMAIN allGuardians'} = Registered'
    BY <1>2, <1>4 DEF RollIsExact
  <2> QED BY <1>3, <2>1, <2>2 DEF RollIsExact
<1>6. proof[w] = {}
  BY <1>2 DEF LevelFollowsProof, Registered
<1>7. LevelFollowsProof'
  BY <1>6 DEF LevelFollowsProof, RegisterGuardian, Registered
<1>8. ServedCarries' /\ LinkedMined'
  BY TxUntouched, RequestsStand DEF RegisterGuardian
<1> QED BY <1>1, <1>3, <1>5, <1>7, <1>8

LEMMA VerifyKeeps ==
  ASSUME IInv, NEW w \in Wallet, NEW g \in Wallet,
         NEW seen \in (SUBSET {"sms", "email"}) \ {{}}, VerifyGuardian(w, g, seen)
  PROVE  IInv'
<1> USE DEF IInv, TypeOK
<1> DEFINE m == MethodOf(proof[g] \cup seen)
           l == CalculateVerificationLevel(m)
<1>1. m \in 0..3
  BY MethodIsVerified
<1>2. l \in {0, 60, 70, 100}
  BY LevelIsTyped
<1>3. /\ method' = [method EXCEPT ![g] = m] /\ level' = [level EXCEPT ![g] = l]
      /\ UNCHANGED status
  BY DEF VerifyGuardian
<1>4. m = MethodOf(proof[g] \cup seen) /\ l = CalculateVerificationLevel(m)
  OBVIOUS
<1> HIDE DEF m, l
<1>5. /\ method'[g] = m /\ level'[g] = l
      /\ \A x \in Wallet \ {g} : method'[x] = method[x] /\ level'[x] = level[x]
  BY <1>3
<1>6. TypeOK'
  <2>1. proof' \in [Wallet -> SUBSET {"sms", "email"}]
    BY DEF VerifyGuardian
  <2>2. method' \in [Wallet -> 0..3] /\ level' \in [Wallet -> {0, 60, 70, 100}]
    BY <1>1, <1>2, <1>3
  <2> QED BY <1>3, <2>1, <2>2 DEF VerifyGuardian
<1>7. UNCHANGED Registered /\ g \in Registered
  BY <1>3 DEF Registered, VerifyGuardian
<1>8. RollIsFinite' /\ RollIsExact'
  BY <1>7, RollStands DEF VerifyGuardian
<1>9. proof'[g] = proof[g] \cup seen /\ \A x \in Wallet \ {g} : proof'[x] = proof[x]
  BY DEF VerifyGuardian
<1>10. LevelFollowsProof'
  BY <1>4, <1>5, <1>7, <1>9 DEF LevelFollowsProof
<1>11. ServedCarries' /\ LinkedMined'
  BY TxUntouched, RequestsStand DEF VerifyGuardian
<1> QED BY <1>6, <1>8, <1>10, <1>11

LEMMA RolesKeep ==
  ASSUME IInv, NEW w \in Wallet, NEW g \in Wallet,
         DeactivateGuardian(w) \/ ForceDeactivateGuardian(w, g) \/ SetVerifierRole(w, g)
  PROVE  IInv'
<1> USE DEF IInv, TypeOK
<1>1. UNCHANGED <<guardianPets, allGuardians, totalGuardians, proof, tx, h>>
  BY DEF DeactivateGuardian, ForceDeactivateGuardian, SetVerifierRole, profile
<1>2. \/ \E x \in Registered : status' = [status EXCEPT ![x] = "inactive"]
      \/ UNCHANGED status
  BY DEF DeactivateGuardian, ForceDeactivateGuardian, SetVerifierRole, profile, Registered
<1>3. UNCHANGED <<method, level>> /\ verifiers' \subseteq Wallet
  BY DEF DeactivateGuardian, ForceDeactivateGuardian, SetVerifierRole, profile
<1>4. TypeOK' /\ UNCHANGED Registered
  <2>1. /\ status' \in [Wallet -> {"unknown", "active", "inactive"}]
        /\ \A x \in Wallet : status'[x] = "unknown" <=> status[x] = "unknown"
    <3>1. CASE UNCHANGED status
      BY <3>1
    <3>2. ASSUME NEW x \in Registered, status' = [status EXCEPT ![x] = "inactive"]
          PROVE  /\ status' \in [Wallet -> {"unknown", "active", "inactive"}]
                 /\ \A y \in Wallet : status'[y] = "unknown" <=> status[y] = "unknown"
      BY <3>2 DEF Registered
    <3> QED BY <1>2, <3>1, <3>2
  <2>2. UNCHANGED Registered
    BY <2>1 DEF Registered
  <2>3. TypeOK'
    BY <1>1, <1>3, <2>1
  <2> QED BY <2>2, <2>3
<1>5. LevelFollowsProof'
  BY <1>1, <1>3, <1>4 DEF LevelFollowsProof
<1> QED BY <1>1, <1>4, <1>5, RollStands, TxUntouched, RequestsStand

LEMMA UnlinkKeeps ==
  ASSUME IInv, NEW w \in Wallet, NEW p \in Pet, UnlinkPet(w, p)
  PROVE  IInv'
<1> USE DEF IInv, TypeOK
<1>1. First(guardianPets[w], p) \in DOMAIN guardianPets[w]
  BY FirstIsThere DEF UnlinkPet
<1>2. SwapAndPop(guardianPets[w], First(guardianPets[w], p)) \in Seq(Pet)
  BY <1>1, SwapAndPopTakesOne
<1>3. TypeOK'
  BY <1>2 DEF UnlinkPet, rollVars, profile
<1>4. UNCHANGED <<Registered, rollVars, tx, h>>
  BY DEF UnlinkPet, Registered, rollVars, profile
<1> QED BY <1>3, <1>4, RollStands, LevelsStand, TxUntouched, RequestsStand DEF rollVars, profile

LEMMA ChainKeeps ==
  ASSUME IInv, NEW t \in Transaction,
         \/ WalletSends(t) \/ Mine(t)
         \/ \E w \in Wallet, p \in Pet \cup {None} : SignTx(t, w, p)
  PROVE  IInv'
<1> USE DEF IInv, TypeOK
<1>0. \/ \E w \in Wallet, p \in Pet \cup {None} : SignTx(t, w, p)
      \/ WalletSends(t) \/ RevertLink(t) \/ LinkPet(t) \/ MineOther(t)
  BY DEF Mine
<1>1. UNCHANGED <<Registered, rollVars, h>>
  BY DEF WalletSends, Mine, LinkPet, RevertLink, MineOther, SignTx, Registered, rollVars, profile
<1>2. TypeOK' /\ TxKept
  <2>1. CASE \E w \in Wallet, p \in Pet \cup {None} : SignTx(t, w, p)
    BY <2>1 DEF SignTx, rollVars, profile, SignedTx, TxState, TxKept
  <2>2. CASE WalletSends(t)
    BY <2>2, TxMovesOn DEF WalletSends, rollVars, profile, TxState
  <2>3. CASE RevertLink(t)
    BY <2>3, TxMovesOn DEF RevertLink, rollVars, profile, TxState
  <2>4. CASE LinkPet(t)
    <3>1. tx[t].from \in Wallet /\ tx[t].pet \in Pet
      BY <2>4 DEF LinkPet, SignedTx
    <3>2. Append(guardianPets[tx[t].from], tx[t].pet) \in Seq(Pet)
      BY <3>1
    <3>3. guardianPets' \in [Wallet -> Seq(Pet)]
      BY <2>4, <3>2 DEF LinkPet
    <3> QED BY <2>4, <3>3, TxMovesOn DEF LinkPet, rollVars, profile, TxState
  <2>5. CASE MineOther(t)
    BY <2>5, TxMovesOn DEF MineOther, rollVars, profile, TxState
  <2> QED BY <1>0, <2>1, <2>2, <2>3, <2>4, <2>5
<1> QED BY <1>1, <1>2, RollStands, LevelsStand, RequestsStand DEF rollVars, profile

(* A request is served with a transaction it carries, or ends. *)
LEMMA RouteKeeps ==
  ASSUME IInv, NEW r \in Request,
         \/ \E t \in Transaction :
              \/ LinkWithRaw(r, t) \/ LinkWithHash(r, t)
              \/ \E p \in Pet : LinkByAdmin(r, p, t)
         \/ Handle(r) \/ RpcFails(r) \/ Restart
  PROVE  IInv'
<1> USE DEF IInv, TypeOK
<1>1. UNCHANGED <<rollVars, guardianPets, Registered>>
  BY DEF LinkWithRaw, LinkWithHash, LinkByAdmin, Serve, Handle, Linked, Reverted,
         ReceiptTimesOut, RpcFails, Finish, Restart, rollVars, profile, Registered
<1>2. ASSUME NEW t \in Transaction, LinkWithRaw(r, t)
      PROVE  TypeOK' /\ ServedCarries' /\ LinkedMined'
  <2>1. tx[t] \in SignedTx
    BY <1>2 DEF LinkWithRaw
  <2>2. tx[t].from \in Wallet /\ tx[t].pet \in Pet \cup {None}
    BY <2>1 DEF SignedTx
  <2>3. tx' \in [Transaction -> SignedTx \cup {None}] /\ TxKept
    BY <1>2, TxMovesOn, TxUntouched DEF LinkWithRaw, TxState
  <2>4. PICK pc \in {"wait", "failed"} : Serve(r, pc, t)
    BY <1>2 DEF LinkWithRaw
  <2>5. TypeOK'
    BY <1>1, <2>2, <2>3, <2>4 DEF Serve, Pc, rollVars, profile
  <2>6. ServedCarries'
    BY <1>2, <2>3, <2>4 DEF Serve, ServedCarries, Carries, TxKept, LinkWithRaw
  <2>7. LinkedMined'
    <3>1. \A x \in Request : h'[x].pc = "linked" => h'[x] = h[x]
      BY <2>4 DEF Serve
    <3> QED BY <2>3, <3>1, AnsweredStands
  <2> QED BY <2>5, <2>6, <2>7
<1>3. ASSUME NEW t \in Transaction, LinkWithHash(r, t)
      PROVE  TypeOK' /\ ServedCarries' /\ LinkedMined'
  <2>1. tx[t] \in SignedTx
    BY <1>3 DEF LinkWithHash
  <2>2. tx[t].from \in Wallet /\ tx[t].pet \in Pet \cup {None}
    BY <2>1 DEF SignedTx
  <2>3. TypeOK'
    BY <1>1, <1>3, <2>2 DEF LinkWithHash, Serve, Pc, rollVars, profile
  <2>4. ServedCarries'
    BY <1>3 DEF LinkWithHash, Serve, ServedCarries, Carries
  <2>5. LinkedMined'
    BY <1>3 DEF LinkWithHash, Serve, LinkedMined, Executed, Mined
  <2> QED BY <2>3, <2>4, <2>5
<1>4. ASSUME NEW t \in Transaction, NEW p \in Pet, LinkByAdmin(r, p, t)
      PROVE  TypeOK' /\ ServedCarries' /\ LinkedMined'
  <2> DEFINE sent == [from |-> AdminSigner, pet |-> p, state |-> "pending"]
  <2>1. sent \in SignedTx /\ sent # None
    BY WalletAssumption, NoneAssumption DEF SignedTx, TxState
  <2>2. tx' = [tx EXCEPT ![t] = sent] /\ tx[t] = None
    BY <1>4 DEF LinkByAdmin
  <2>3. tx' \in [Transaction -> SignedTx \cup {None}] /\ TxKept
    BY <2>1, <2>2 DEF TxKept
  <2>4. h' = [h EXCEPT ![r] = [pc |-> "wait", tx |-> t]]
    BY <1>4 DEF LinkByAdmin, Serve
  <2>5. TypeOK'
    BY <1>1, <2>3, <2>4 DEF Pc, rollVars, profile
  <2>6. ServedCarries'
    BY <2>1, <2>2, <2>3, <2>4 DEF ServedCarries, Carries, TxKept
  <2>7. LinkedMined'
    <3>1. \A x \in Request : h'[x].pc = "linked" => h'[x] = h[x]
      BY <2>4
    <3> QED BY <2>3, <3>1, AnsweredStands
  <2> QED BY <2>5, <2>6, <2>7
<1>5. ASSUME Handle(r) \/ RpcFails(r)
      PROVE  TypeOK' /\ ServedCarries' /\ LinkedMined'
  <2>1. UNCHANGED tx
    BY <1>5 DEF Handle, Linked, Reverted, ReceiptTimesOut, RpcFails, Finish
  <2>2. PICK pc \in {"linked", "failed"} :
          /\ h' = [h EXCEPT ![r].pc = pc]
          /\ pc = "linked" => Waits(r) /\ tx[h[r].tx].state = "mined"
    BY <1>5 DEF Handle, Linked, Reverted, ReceiptTimesOut, RpcFails, Finish
  <2>6. TypeOK'
    <3>1. h \in [Request -> Served] /\ pc \in Pc
      BY DEF Served, Pc
    <3>2. h' \in [Request -> Served]
      BY <2>2, <3>1, PcSet
    <3> QED BY <1>1, <2>1, <3>2 DEF Served, rollVars, profile
  <2>4. ServedCarries'
    BY <2>1, <2>2 DEF ServedCarries, Carries, Waits
  <2>5. LinkedMined'
    BY <2>1, <2>2 DEF LinkedMined, ServedCarries, Carries, Waits, Executed, Mined
  <2> QED BY <2>4, <2>5, <2>6
<1>6. ASSUME Restart
      PROVE  TypeOK' /\ ServedCarries' /\ LinkedMined'
  <2>1. UNCHANGED tx
    BY <1>6 DEF Restart
  <2>2. TypeOK'
    <3>1. \A x \in Request : h[x] \in Served /\ [h[x] EXCEPT !.pc = "failed"] \in Served
      BY PcFailed DEF Served
    <3>2. h' = [x \in Request |-> IF Waits(x) THEN [h[x] EXCEPT !.pc = "failed"]
                                              ELSE h[x]]
      BY <1>6 DEF Restart
    <3>3. h' \in [Request -> Served]
      BY <3>1, <3>2
    <3> QED BY <1>1, <2>1, <3>3 DEF rollVars, profile, Served
  <2>3. \A x \in Request : h'[x].pc # "failed" => h'[x] = h[x]
    BY <1>6 DEF Restart
  <2> QED BY <2>1, <2>2, <2>3 DEF ServedCarries, Carries, LinkedMined, Executed, Mined
<1>7. TypeOK' /\ ServedCarries' /\ LinkedMined'
  BY <1>2, <1>3, <1>4, <1>5, <1>6
<1> QED BY <1>1, <1>7, RollStands, LevelsStand DEF rollVars, profile

LEMMA Inductive == IInv /\ [Next]_vars => IInv'
<1> SUFFICES ASSUME IInv, [Next]_vars PROVE IInv'
  OBVIOUS
<1>1. CASE UNCHANGED vars
  <2>1. UNCHANGED Registered
    BY <1>1 DEF vars, profile, Registered
  <2>2. TypeOK'
    BY <1>1 DEF vars, profile, IInv, TypeOK
  <2> QED BY <1>1, <2>1, <2>2, RollStands, LevelsStand, TxUntouched, RequestsStand
          DEF vars, profile, IInv
<1>2. CASE \E w \in Wallet, m \in Declared : RegisterGuardian(w, m)
  BY <1>2, RegisterKeeps
<1>3. CASE \E w, g \in Wallet : \E seen \in (SUBSET {"sms", "email"}) \ {{}} :
             VerifyGuardian(w, g, seen)
  BY <1>3, VerifyKeeps
<1>4. CASE \E w, g \in Wallet : \/ ForceDeactivateGuardian(w, g) \/ SetVerifierRole(w, g)
                               \/ DeactivateGuardian(w)
  BY <1>4, RolesKeep
<1>5. CASE \E w \in Wallet, p \in Pet : UnlinkPet(w, p)
  BY <1>5, UnlinkKeeps
<1>6. CASE \E t \in Transaction : \/ WalletSends(t) \/ Mine(t)
                                 \/ \E w \in Wallet, p \in Pet \cup {None} : SignTx(t, w, p)
  BY <1>6, ChainKeeps
<1>7. CASE \E r \in Request :
             \/ \E t \in Transaction :
                  \/ LinkWithRaw(r, t) \/ LinkWithHash(r, t)
                  \/ \E p \in Pet : LinkByAdmin(r, p, t)
             \/ Handle(r) \/ RpcFails(r)
  BY <1>7, RouteKeeps
<1>8. CASE Restart
  <2>1. \E r \in Request : Restart
    BY <1>8 DEF Restart
  <2> QED BY <2>1, RouteKeeps
<1> QED BY <1>1, <1>2, <1>3, <1>4, <1>5, <1>6, <1>7, <1>8 DEF Next

(* A transaction that is sent, reverted or no link keeps its signer. *)
LEMMA SignersStand ==
  ASSUME TypeOK, SignersAreRegistered, NEW t \in Transaction,
         tx[t] # None, tx[t].state # "mined", NEW s \in TxState,
         s = "mined" => tx[t].pet = None,
         tx' = [tx EXCEPT ![t].state = s], UNCHANGED status
  PROVE  SignersAreRegistered'
<1>1. TxKept
  BY TxMovesOn DEF TypeOK
<1>2. tx'[t].state = s /\ \A x \in Transaction \ {t} : tx'[x] = tx[x]
  BY DEF TypeOK, SignedTx
<1>3. \A x \in Executed' : x \in Executed
  BY <1>1, <1>2 DEF Executed, Mined, TxKept
<1>4. \A x \in Executed : tx'[x].from = tx[x].from
  BY <1>1 DEF TxKept, Executed, Mined
<1> QED BY <1>3, <1>4 DEF SignersAreRegistered, Registered

(* Only an active guardian's link is executed, and nobody's entry in the   *)
(* roll is ever removed.                                                   *)
LEMMA SignersStep ==
  IInv /\ SignersAreRegistered /\ [Next]_vars => SignersAreRegistered'
<1> SUFFICES ASSUME IInv, SignersAreRegistered, [Next]_vars
             PROVE  SignersAreRegistered'
  OBVIOUS
<1> USE DEF IInv, TypeOK
<1>1. ASSUME UNCHANGED tx, \A w \in Wallet : status[w] # "unknown" => status'[w] # "unknown"
      PROVE  SignersAreRegistered'
  BY <1>1 DEF SignersAreRegistered, Executed, Mined, Registered
<1>2. ASSUME NEW t \in Transaction, Mine(t) \/ WalletSends(t) \/
               (\E w \in Wallet, p \in Pet \cup {None} : SignTx(t, w, p))
      PROVE  SignersAreRegistered'
  <2>1. CASE \E w \in Wallet, p \in Pet \cup {None} : SignTx(t, w, p)
    BY <2>1 DEF SignTx, SignersAreRegistered, Executed, Mined, Registered, rollVars, profile
  <2>2. CASE WalletSends(t) \/ RevertLink(t) \/ MineOther(t)
    <3>1. PICK s \in TxState : /\ tx' = [tx EXCEPT ![t].state = s]
                               /\ s = "mined" => tx[t].pet = None
      BY <2>2 DEF WalletSends, RevertLink, MineOther, TxState
    <3>2. tx[t] # None /\ tx[t].state # "mined"
      BY <2>2 DEF WalletSends, RevertLink, MineOther
    <3>3. UNCHANGED status
      BY <2>2 DEF WalletSends, RevertLink, MineOther, rollVars, profile
    <3> QED BY <3>1, <3>2, <3>3, SignersStand
  <2>3. CASE LinkPet(t)
    BY <2>3 DEF LinkPet, MayLink, SignersAreRegistered, Executed, Mined, Registered,
           SignedTx, rollVars, profile
  <2> QED BY <1>2, <2>1, <2>2, <2>3 DEF Mine
<1>3. ASSUME NEW r \in Request, NEW t \in Transaction,
             \/ LinkWithRaw(r, t) \/ LinkWithHash(r, t)
             \/ \E p \in Pet : LinkByAdmin(r, p, t)
      PROVE  SignersAreRegistered'
  <2>1. CASE LinkWithRaw(r, t)
    <3>1. CASE UNCHANGED tx
      BY <1>1, <2>1, <3>1 DEF LinkWithRaw, rollVars, profile
    <3>2. CASE tx[t].state = "unsent" /\ tx' = [tx EXCEPT ![t].state = "pending"]
      BY <2>1, <3>2, SignersStand DEF LinkWithRaw, rollVars, profile, TxState
    <3> QED BY <2>1, <3>1, <3>2 DEF LinkWithRaw
  <2>2. CASE LinkWithHash(r, t)
    BY <1>1, <2>2 DEF LinkWithHash, rollVars, profile
  <2>3. CASE \E p \in Pet : LinkByAdmin(r, p, t)
    BY <2>3 DEF LinkByAdmin, SignersAreRegistered, Executed, Mined, Registered,
           rollVars, profile
  <2> QED BY <1>3, <2>1, <2>2, <2>3
<1>4. ASSUME NEW r \in Request, Handle(r) \/ RpcFails(r) \/ Restart
      PROVE  SignersAreRegistered'
  BY <1>1, <1>4 DEF Handle, Linked, Reverted, ReceiptTimesOut, RpcFails, Finish, Restart,
         rollVars, profile
<1>5. CASE \/ \E w \in Wallet, m \in Declared : RegisterGuardian(w, m)
           \/ \E w, g \in Wallet :
                \/ \E seen \in (SUBSET {"sms", "email"}) \ {{}} : VerifyGuardian(w, g, seen)
                \/ ForceDeactivateGuardian(w, g) \/ SetVerifierRole(w, g)
           \/ \E w \in Wallet : DeactivateGuardian(w) \/ \E p \in Pet : UnlinkPet(w, p)
           \/ UNCHANGED vars
  BY <1>1, <1>5 DEF RegisterGuardian, VerifyGuardian, ForceDeactivateGuardian,
         SetVerifierRole, DeactivateGuardian, UnlinkPet, vars, rollVars, profile
<1>6. CASE Restart
  BY <1>1, <1>6 DEF Restart, rollVars, profile
<1> QED BY <1>2, <1>3, <1>4, <1>5, <1>6 DEF Next

(* Every reachable state is well typed: a level is one of the four the     *)
(* contract knows, whatever was declared or verified.                      *)
THEOREM TypeCorrect == Spec => []TypeOK
<1> QED BY InitIInv, Inductive, PTL DEF Spec, IInv

(* _allGuardians and its counter list everybody who ever registered, once. *)
THEOREM RollStaysExact == Spec => []RollIsExact
<1> QED BY InitIInv, Inductive, PTL DEF Spec, IInv

(* Verifications made in any order and by any verifiers add up.            *)
THEOREM LevelStaysProven == Spec => []LevelFollowsProof
<1> QED BY InitIInv, Inductive, PTL DEF Spec, IInv

(* A request is answered with success only for a transaction that is mined,*)
(* and no link is executed for a wallet that never registered, whatever    *)
(* restarts, time-outs and repeated transactions there were.               *)
THEOREM SuccessStaysMined == Spec => []SuccessIsMined
<1>1. Init => SignersAreRegistered
  BY DEF Init, SignersAreRegistered, Executed, Mined
<1>2. IInv /\ SignersAreRegistered => SuccessIsMined
  BY DEF IInv, LinkedMined, SignersAreRegistered, SuccessIsMined
<1> QED BY <1>1, <1>2, InitIInv, Inductive, SignersStep, PTL DEF Spec

---------------------------------------------------------------------------
(* The contract implements PetBook *)

LEMMA BookStarts == Init => Book!BookInit
<1> SUFFICES ASSUME Init PROVE Book!BookInit
  OBVIOUS
<1>1. Registered = {} /\ Active = {} /\ Executed = {}
  BY DEF Init, Registered, Active, Executed, Mined
<1>2. \A w \in Wallet, p \in Pet : Occurrences(guardianPets[w], p) = {}
  BY DEF Init, Occurrences
<1>3. Held = [w \in Wallet |-> [p \in Pet |-> 0]]
  BY <1>2, FS_EmptySet DEF Held
<1> QED BY <1>1, <1>3 DEF Book!BookInit

(* One guardian's array changes, and with it the count of one pet. *)
LEMMA HeldMoves ==
  ASSUME TypeOK, NEW w \in Wallet, NEW p \in Pet, NEW n, NEW pets,
         guardianPets' = [guardianPets EXCEPT ![w] = pets],
         Cardinality(Occurrences(pets, p)) = n,
         \A q \in Pet \ {p} : Cardinality(Occurrences(pets, q))
                                = Cardinality(Occurrences(guardianPets[w], q))
  PROVE  Book!Holding(w, p, n)
<1> DEFINE Count(s, q) == Cardinality(Occurrences(s, q))
<1>1. Held = [v \in Wallet |-> [q \in Pet |-> Count(guardianPets[v], q)]]
      /\ Held' = [v \in Wallet |-> [q \in Pet |-> Count(guardianPets'[v], q)]]
  BY DEF Held
<1>2. guardianPets'[w] = pets /\ \A v \in Wallet \ {w} : guardianPets'[v] = guardianPets[v]
  BY DEF TypeOK
<1>3. Count(pets, p) = n
      /\ \A q \in Pet \ {p} : Count(pets, q) = Count(guardianPets[w], q)
  OBVIOUS
<1> HIDE DEF Count
<1>4. \A v \in Wallet, q \in Pet :
        Count(guardianPets'[v], q) = IF v = w /\ q = p THEN n ELSE Held[v][q]
  BY <1>1, <1>2, <1>3
<1>5. Held' = [v \in Wallet |-> [q \in Pet |-> IF v = w /\ q = p THEN n ELSE Held[v][q]]]
  BY <1>1, <1>4
<1> QED BY <1>5 DEF Book!Holding

LEMMA BookUntouched ==
  ASSUME UNCHANGED <<status, guardianPets, Executed>>
  PROVE  UNCHANGED Book!bookVars
BY DEF Book!bookVars, Registered, Active, Held

(* A removal takes one entry of its pet and leaves the others their places *)
(* or gives the last one a new place.                                      *)
LEMMA UnlinkRemoves ==
  ASSUME TypeOK, NEW w \in Wallet, NEW p \in Pet, UnlinkPet(w, p)
  PROVE  Book!Remove(w, p)
<1> DEFINE s == guardianPets[w]
           i == First(s, p)
           t == SwapAndPop(s, i)
<1>1. s \in Seq(Pet) /\ i \in DOMAIN s /\ s[i] = p
  BY FirstIsThere DEF UnlinkPet, TypeOK
<1>2. \A q \in Pet : Cardinality(Occurrences(t, q))
        = IF q = p THEN Cardinality(Occurrences(s, q)) - 1
                   ELSE Cardinality(Occurrences(s, q))
  BY <1>1, SwapAndPopTakesOne
<1>3. Held[w][p] = Cardinality(Occurrences(s, p))
  BY DEF Held
<1>4. guardianPets' = [guardianPets EXCEPT ![w] = t]
  BY DEF UnlinkPet
<1>5. Held[w][p] > 0
  <2>1. IsFiniteSet(Occurrences(s, p)) /\ Cardinality(Occurrences(s, p)) \in Nat
    BY <1>1, OccurrencesAreFinite
  <2>2. Occurrences(s, p) # {}
    BY <1>1 DEF Occurrences
  <2> QED BY <1>3, <2>1, <2>2, FS_EmptySet
<1> HIDE DEF s, i, t
<1>6. Book!Holding(w, p, Held[w][p] - 1)
  BY <1>2, <1>3, <1>4, HeldMoves DEF s
<1>7. w \in Registered /\ UNCHANGED <<Registered, Active, Executed>>
  BY DEF UnlinkPet, rollVars, profile, Registered, Active, Executed, Mined
<1> QED BY <1>5, <1>6, <1>7 DEF Book!Remove

LEMMA BookMoves ==
  IInv /\ [Next]_vars => [Book!BookNext]_(Book!bookVars)
<1> SUFFICES ASSUME IInv, [Next]_vars
             PROVE  Book!BookNext \/ UNCHANGED Book!bookVars
  OBVIOUS
<1> USE DEF IInv
<1>1. ASSUME NEW w \in Wallet, NEW m \in Declared, RegisterGuardian(w, m)
      PROVE  Book!Enter(w)
  <2>1. w \notin Registered /\ Registered' = Registered \cup {w} /\ Active' = Active \cup {w}
    BY <1>1 DEF RegisterGuardian, Registered, Active, TypeOK
  <2>2. UNCHANGED <<Held, Executed>>
    BY <1>1 DEF RegisterGuardian, Held, Executed, Mined
  <2> QED BY <2>1, <2>2 DEF Book!Enter
<1>2. ASSUME NEW w \in Wallet, NEW g \in Wallet,
             DeactivateGuardian(w) \/ ForceDeactivateGuardian(w, g)
      PROVE  \/ \E x \in Wallet : Book!Close(x)
             \/ UNCHANGED Book!bookVars
  <2>1. UNCHANGED <<Held, Executed, guardianPets>>
    BY <1>2 DEF DeactivateGuardian, ForceDeactivateGuardian, Held, Executed, Mined
  <2>2. PICK x \in Wallet : status[x] # "unknown" /\ status' = [status EXCEPT ![x] = "inactive"]
    BY <1>2 DEF DeactivateGuardian, ForceDeactivateGuardian
  <2>3. CASE x \in Active
    <3>1. UNCHANGED Registered /\ Active' = Active \ {x}
      BY <2>2 DEF Registered, Active, TypeOK
    <3> QED BY <2>1, <2>3, <3>1 DEF Book!Close
  <2>4. CASE x \notin Active
    <3>1. UNCHANGED status
      BY <2>2, <2>4 DEF Active, TypeOK
    <3> QED BY <2>1, <3>1, BookUntouched
  <2> QED BY <2>3, <2>4
<1>3. ASSUME NEW w \in Wallet, NEW p \in Pet, UnlinkPet(w, p)
      PROVE  Book!Remove(w, p)
  BY <1>3, UnlinkRemoves
<1>4. ASSUME NEW t \in Transaction, LinkPet(t)
      PROVE  \E w \in Wallet, p \in Pet : Book!Write(t, w, p)
  <2> DEFINE w == tx[t].from
             p == tx[t].pet
             s == guardianPets[w]
  <2>1. w \in Wallet /\ p \in Pet
    BY <1>4 DEF LinkPet, SignedTx, TypeOK
  <2>2. s \in Seq(Pet)
    BY <2>1 DEF TypeOK
  <2>3. \A q \in Pet : Cardinality(Occurrences(Append(s, p), q))
          = IF q = p THEN Cardinality(Occurrences(s, q)) + 1
                     ELSE Cardinality(Occurrences(s, q))
    BY <2>1, <2>2, AppendAddsOne
  <2>4. guardianPets' = [guardianPets EXCEPT ![w] = Append(s, p)]
    BY <1>4 DEF LinkPet
  <2>5. Held[w][p] = Cardinality(Occurrences(s, p))
    BY <2>1 DEF Held
  <2>6. w \in Active /\ t \notin Executed
    BY <1>4, <2>1 DEF LinkPet, MayLink, Active, Executed, Mined
  <2>7. Executed' = Executed \cup {t} /\ UNCHANGED <<Registered, Active>>
    <3>1. UNCHANGED status /\ tx' = [tx EXCEPT ![t].state = "mined"] /\ tx[t] # None /\ tx[t].pet # None
          /\ tx[t].state # "mined"
      BY <1>4 DEF LinkPet, rollVars, profile
    <3>2. tx'[t] # None /\ tx'[t].state = "mined" /\ tx'[t].pet # None
          /\ \A x \in Transaction \ {t} : tx'[x] = tx[x]
      <4>1. TxKept
        BY <3>1, TxMovesOn DEF TypeOK, TxState
      <4>2. tx'[t].state = "mined" /\ \A x \in Transaction \ {t} : tx'[x] = tx[x]
        BY <3>1 DEF TypeOK, SignedTx
      <4> QED BY <3>1, <4>1, <4>2 DEF TxKept
    <3> QED BY <3>1, <3>2 DEF Executed, Mined, Registered, Active
  <2> HIDE DEF w, p, s
  <2>8. Book!Holding(w, p, Held[w][p] + 1)
    BY <2>1, <2>3, <2>4, <2>5, HeldMoves DEF s
  <2> QED BY <2>1, <2>6, <2>7, <2>8 DEF Book!Write
<1>5. ASSUME NEW t \in Transaction,
             \/ WalletSends(t) \/ RevertLink(t) \/ MineOther(t)
             \/ \E w \in Wallet, p \in Pet \cup {None} : SignTx(t, w, p)
      PROVE  UNCHANGED Book!bookVars
  <2>1. UNCHANGED <<status, guardianPets>>
    BY <1>5 DEF WalletSends, RevertLink, MineOther, SignTx, rollVars, profile
  <2>2. /\ t \notin Executed /\ t \notin Executed'
        /\ \A x \in Transaction \ {t} : tx'[x] = tx[x]
    <3>1. CASE \E w \in Wallet, p \in Pet \cup {None} : SignTx(t, w, p)
      BY <3>1, NoneAssumption DEF SignTx, TypeOK, SignedTx, TxState, Executed, Mined
    <3>2. CASE WalletSends(t) \/ RevertLink(t) \/ MineOther(t)
      <4>1. PICK s \in TxState : /\ tx' = [tx EXCEPT ![t].state = s]
                                 /\ s = "mined" => tx[t].pet = None
        BY <3>2 DEF WalletSends, RevertLink, MineOther, TxState
      <4>2. tx[t] # None /\ tx[t].state # "mined"
        BY <3>2 DEF WalletSends, RevertLink, MineOther
      <4>3. TxKept
        BY <4>1, <4>2, TxMovesOn DEF TypeOK
      <4>4. tx'[t].state = s
        BY <4>1, <4>2 DEF TypeOK, SignedTx
      <4> QED BY <4>1, <4>2, <4>3, <4>4 DEF TypeOK, TxKept, Executed, Mined
    <3> QED BY <1>5, <3>1, <3>2
  <2>3. UNCHANGED Executed
    BY <2>2 DEF Executed, Mined
  <2> QED BY <2>1, <2>3, BookUntouched
<1>6. ASSUME NEW w \in Wallet, NEW g \in Wallet,
             \/ SetVerifierRole(w, g)
             \/ \E seen \in (SUBSET {"sms", "email"}) \ {{}} : VerifyGuardian(w, g, seen)
      PROVE  UNCHANGED Book!bookVars
  <2>1. UNCHANGED <<status, guardianPets, tx>>
    BY <1>6 DEF SetVerifierRole, VerifyGuardian, profile
  <2> QED BY <2>1, BookUntouched DEF Executed, Mined
<1>7. ASSUME NEW r \in Request, NEW t \in Transaction,
             \/ LinkWithRaw(r, t) \/ LinkWithHash(r, t)
             \/ \E p \in Pet : LinkByAdmin(r, p, t)
      PROVE  UNCHANGED Book!bookVars
  <2>1. UNCHANGED <<status, guardianPets>>
    BY <1>7 DEF LinkWithRaw, LinkWithHash, LinkByAdmin, rollVars, profile
  <2>2. \/ UNCHANGED tx
        \/ /\ tx[t] = None \/ (tx[t] # None /\ tx[t].state # "mined")
           /\ tx'[t] # None /\ tx'[t].state # "mined"
           /\ \A x \in Transaction \ {t} : tx'[x] = tx[x]
    <3>1. CASE LinkWithHash(r, t)
      BY <3>1 DEF LinkWithHash
    <3>2. CASE LinkWithRaw(r, t)
      <4>1. CASE tx' = [tx EXCEPT ![t].state = "pending"] /\ tx[t].state = "unsent"
        <5>1. tx[t] # None
          BY <3>2 DEF LinkWithRaw
        <5>2. tx'[t] # None
          BY <4>1, <5>1, TxMovesOn DEF TypeOK, TxState, TxKept
        <5> QED BY <4>1, <5>1, <5>2 DEF TypeOK
      <4> QED BY <3>2, <4>1 DEF LinkWithRaw
    <3>3. CASE \E p \in Pet : LinkByAdmin(r, p, t)
      BY <3>3, WalletAssumption, NoneAssumption DEF LinkByAdmin, TypeOK, SignedTx, TxState
    <3> QED BY <1>7, <3>1, <3>2, <3>3
  <2>3. UNCHANGED Executed
    BY <2>2 DEF Executed, Mined
  <2> QED BY <2>1, <2>3, BookUntouched
<1>8. ASSUME (\E r \in Request : Handle(r) \/ RpcFails(r)) \/ Restart \/ UNCHANGED vars
      PROVE  UNCHANGED Book!bookVars
  <2>1. UNCHANGED <<status, guardianPets, tx>>
    BY <1>8 DEF Handle, Linked, Reverted, ReceiptTimesOut, RpcFails, Finish, Restart,
           vars, rollVars, profile
  <2> QED BY <2>1, BookUntouched DEF Executed, Mined
<1>9. CASE Next
  BY <1>1, <1>2, <1>3, <1>4, <1>5, <1>6, <1>7, <1>8, <1>9 DEF Next, Mine, Book!BookNext
<1> QED BY <1>8, <1>9

(* The arrays of the contract are bags, for any number of guardians, pets  *)
(* and transactions.                                                       *)
THEOREM ContractKeepsBook == Spec => ImplementsBook
<1> QED BY InitIInv, Inductive, BookStarts, BookMoves, PTL
           DEF Spec, ImplementsBook, Book!BookSpec

(* unlinkPet takes one entry of its pet and none of another, wherever in   *)
(* the array it stands and however often it is listed.                     *)
THEOREM UnlinkIsExact == Spec => UnlinkTakesItsPet
<1>1. IInv /\ [Next]_vars =>
        [\A w \in Wallet, p \in Pet : UnlinkPet(w, p) => Book!Remove(w, p)]_vars
  BY UnlinkRemoves DEF IInv
<1> QED BY <1>1, InitIInv, Inductive, PTL DEF Spec, UnlinkTakesItsPet
============================================================================
