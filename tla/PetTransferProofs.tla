------------------------- MODULE PetTransferProofs -------------------------
(***************************************************************************)
(* Proofs about PetTransfer for every number of transactions, requests,    *)
(* attempts and stalls: type correctness, what an answer of success        *)
(* promises, and that the gateway's transfer implements TransferLedger.    *)
(* Then, from the same facts, about ControllerHistory for any number of    *)
(* queries and any page limit: what the gateway says of a pet's            *)
(* controllers is true of the chain.                                       *)
(***************************************************************************)
EXTENDS ControllerHistory, TransferVerification, JobQueueProofs

(* A request that was taken on has its claim.                              *)
ServedHasClaim == \A r \in Request : h[r].pc # "new" => h[r].claim \in Claim

(* Past the receipt the transaction named is mined, and a job is only on   *)
(* its queue when its request has come that far; mined is for good.        *)
Past(r) == \/ h[r].pc \in {"queueVc", "queueSpring", "ok"}
           \/ vcJob[r].state # "absent"
           \/ springJob[r].state # "absent"
QueuedIsMined ==
  \A r \in Request : Past(r) =>
    h[r].pc \notin {"new", "confirm"} /\ tx[h[r].claim.tx] = "mined"

(* The two jobs are queued one after the other.                            *)
QueuedInOrder ==
  \A r \in Request :
    /\ h[r].pc \in {"queueSpring", "ok"} => vcJob[r].state # "absent"
    /\ h[r].pc = "ok" => springJob[r].state # "absent"

JobsSound ==
  \A r \in Request : Sound(vcJob[r], Steps) /\ Sound(springJob[r], Steps)

IInv == TypeOK /\ JobsSound /\ ServedHasClaim /\ QueuedIsMined /\ QueuedInOrder

---------------------------------------------------------------------------
(* It holds initially.                                                     *)
LEMMA InitIInv == Init => IInv
<1> SUFFICES ASSUME Init PROVE IInv
  OBVIOUS
<1>1. Sound(NoJob, Steps)
  BY FreshIsSound
<1>2. TypeOK
  BY <1>1, GenesisAssumption
     DEF Init, TypeOK, TxState, Pc, NoRequest, Sound
<1>3. JobsSound
  BY <1>1 DEF Init, JobsSound
<1>4. ServedHasClaim /\ QueuedIsMined /\ QueuedInOrder
  BY DEF Init, ServedHasClaim, QueuedIsMined, QueuedInOrder, Past, NoRequest, NoJob
<1> QED BY <1>2, <1>3, <1>4 DEF IInv

(* A transaction is signed once: what it is stays, and mined is for good.  *)
LEMMA BroadcastKeeps ==
  ASSUME TypeOK, NEW t \in Tx, Broadcast(t)
  PROVE  /\ call' \in [Tx -> Transfer \cup {None}] /\ tx' \in [Tx -> TxState]
         /\ Mined' = Mined /\ UNCHANGED controller
         /\ \A x \in Tx : tx[x] = "mined" => tx'[x] = "mined" /\ call'[x] = call[x]
<1>1. /\ tx[t] = "unsent" /\ UNCHANGED controller
      /\ tx' = [tx EXCEPT ![t] = "pending"]
  BY DEF Broadcast
<1>2. PICK a \in Transfer \cup {None} : call' = [call EXCEPT ![t] = a]
  BY DEF Broadcast
<1>3. call' \in [Tx -> Transfer \cup {None}] /\ \A x \in Tx \ {t} : call'[x] = call[x]
  BY <1>2 DEF TypeOK
<1>4. /\ tx' \in [Tx -> TxState] /\ tx'[t] = "pending"
      /\ \A x \in Tx \ {t} : tx'[x] = tx[x]
  BY <1>1 DEF TypeOK, TxState
<1>5. Mined' = Mined
  BY <1>1, <1>4 DEF Mined
<1> QED BY <1>1, <1>3, <1>4, <1>5

(* What is mined is one transaction more, or the same. *)
LEMMA MineAdds ==
  ASSUME TypeOK, NEW t \in Tx, Mine(t)
  PROVE  /\ tx' \in [Tx -> TxState] /\ controller' \in Guardian /\ UNCHANGED call
         /\ \A x \in Tx : tx[x] = "mined" => tx'[x] = "mined"
         /\ \/ Mined' = Mined /\ UNCHANGED controller
            \/ /\ t \notin Mined /\ Mined' = Mined \cup {t}
               /\ IF call[t] = None THEN controller' = controller
                  ELSE controller = call[t].from /\ controller' = call[t].to
<1>1. /\ tx[t] = "pending" /\ UNCHANGED call
      /\ \/ /\ tx' = [tx EXCEPT ![t] = "mined"]
            /\ IF call[t] = None THEN UNCHANGED controller
               ELSE controller = call[t].from /\ controller' = call[t].to
         \/ tx' = [tx EXCEPT ![t] = "reverted"] /\ UNCHANGED controller
  BY DEF Mine
<1>2. /\ tx' \in [Tx -> TxState]
      /\ \A x \in Tx : tx[x] = "mined" => tx'[x] = "mined"
  BY <1>1 DEF TypeOK, TxState
<1>3. call[t] # None => call[t].to \in Guardian
  BY DEF TypeOK, Transfer
<1>4. controller' \in Guardian
  BY <1>1, <1>3 DEF TypeOK
<1>5. CASE tx' = [tx EXCEPT ![t] = "mined"]
  <2>1. t \notin Mined /\ Mined' = Mined \cup {t}
    BY <1>1, <1>5 DEF Mined, TypeOK
  <2>2. tx # [tx EXCEPT ![t] = "reverted"] => tx'[t] # "reverted"
    BY <1>5 DEF TypeOK
  <2>3. tx' # [tx EXCEPT ![t] = "reverted"]
    BY <1>5 DEF TypeOK
  <2> QED BY <1>1, <1>2, <1>4, <2>1, <2>3
<1>6. CASE tx' = [tx EXCEPT ![t] = "reverted"] /\ UNCHANGED controller
  <2>1. Mined' = Mined
    BY <1>1, <1>6 DEF Mined, TypeOK
  <2> QED BY <1>1, <1>2, <1>4, <1>6, <2>1
<1> QED BY <1>1, <1>5, <1>6

(* Steps of the chain touch neither a job nor a request.                   *)
LEMMA ChainStep ==
  ASSUME IInv, NEW t \in Tx, Chain(t)
  PROVE  IInv'
<1> USE DEF IInv, jobVars, serviceVars
<1>1. UNCHANGED <<h, jobVars, serviceVars>>
  BY DEF Chain, WalletSends, Mine
<1>2. /\ controller' \in Guardian /\ call' \in [Tx -> Transfer \cup {None}]
      /\ tx' \in [Tx -> TxState]
      /\ \A x \in Tx : tx[x] = "mined" => tx'[x] = "mined"
  <2>1. CASE WalletSends(t)
    <3>1. Broadcast(t)
      BY <2>1 DEF WalletSends
    <3> QED BY <3>1, BroadcastKeeps DEF TypeOK
  <2>2. CASE Mine(t)
    BY <2>2, MineAdds DEF TypeOK
  <2> QED BY <2>1, <2>2 DEF Chain
<1>3. TypeOK'
  BY <1>1, <1>2 DEF TypeOK
<1>4. JobsSound' /\ ServedHasClaim' /\ QueuedInOrder'
  BY <1>1 DEF JobsSound, ServedHasClaim, QueuedInOrder
<1>5. QueuedIsMined'
  <2>1. \A r \in Request : h[r].pc # "new" => h[r].claim.tx \in Tx
    BY DEF ServedHasClaim, Claim
  <2> QED BY <1>1, <1>2, <2>1 DEF QueuedIsMined, Past
<1> QED BY <1>3, <1>4, <1>5

(* A request is taken on: it had no job before.                            *)
LEMMA AcceptStep ==
  ASSUME IInv, NEW r \in Request, NEW c \in Claim, AcceptTransfer(r, c)
  PROVE  IInv'
<1> USE DEF IInv, jobVars, serviceVars
<1>1. h[r].pc = "new" /\ UNCHANGED <<jobVars, serviceVars>>
  BY DEF AcceptTransfer
<1>2. PICK l \in {"confirm", "error"} :
        h' = [h EXCEPT ![r] = [pc |-> l, claim |-> c]]
  BY DEF AcceptTransfer
<1>3. /\ controller' \in Guardian /\ call' \in [Tx -> Transfer \cup {None}]
      /\ tx' \in [Tx -> TxState]
      /\ \A x \in Tx : tx[x] = "mined" => tx'[x] = "mined"
  <2>1. CASE Broadcast(c.tx)
    <3>1. c.tx \in Tx
      BY DEF Claim
    <3> QED BY <2>1, <3>1, BroadcastKeeps DEF TypeOK
  <2>2. CASE UNCHANGED chainVars
    BY <2>2 DEF chainVars, TypeOK
  <2> QED BY <2>1, <2>2 DEF AcceptTransfer
<1>4. h'[r] = [pc |-> l, claim |-> c] /\ \A q \in Request \ {r} : h'[q] = h[q]
  BY <1>2 DEF TypeOK
<1>5. TypeOK'
  <2>1. h' \in [Request -> [pc : Pc, claim : Claim \cup {None}]]
    BY <1>2 DEF TypeOK, Pc
  <2> QED BY <1>1, <1>3, <2>1 DEF TypeOK
<1>6. JobsSound'
  BY <1>1 DEF JobsSound
<1>7. ServedHasClaim'
  BY <1>4 DEF ServedHasClaim
<1>8. QueuedIsMined'
  <2>1. ~Past(r)
    BY <1>1 DEF QueuedIsMined
  <2>2. ~Past(r)'
    BY <1>1, <1>4, <2>1 DEF Past
  <2>3. ASSUME NEW q \in Request, q # r, Past(q)'
        PROVE  h'[q].pc \notin {"new", "confirm"} /\ tx'[h'[q].claim.tx] = "mined"
    <3>1. Past(q)
      BY <1>1, <1>4, <2>3 DEF Past
    <3>2. h[q].pc \notin {"new", "confirm"} /\ tx[h[q].claim.tx] = "mined"
      BY <3>1 DEF QueuedIsMined
    <3>3. h[q].claim.tx \in Tx
      BY <3>2 DEF ServedHasClaim, Claim
    <3> QED BY <1>3, <1>4, <2>3, <3>2, <3>3
  <2> QED BY <2>2, <2>3 DEF QueuedIsMined
<1>9. QueuedInOrder'
  BY <1>1, <1>4 DEF QueuedInOrder
<1> QED BY <1>5, <1>6, <1>7, <1>8, <1>9

(* A request goes on after the receipt, or gives up.                       *)
LEMMA RequestStep ==
  ASSUME IInv, NEW r \in Request, Accept(r)
  PROVE  IInv'
<1> USE DEF IInv, chainVars, jobVars, serviceVars
<1>0. Sound(Queued, Steps) /\ Queued \in Job(Steps) /\ Queued.state # "absent"
  BY FreshIsSound DEF Sound, Queued, NoJob
<1>1. /\ UNCHANGED <<chainVars, serviceVars>>
      /\ vcJob' \in {vcJob, [vcJob EXCEPT ![r] = Queued]}
      /\ springJob' \in {springJob, [springJob EXCEPT ![r] = Queued]}
  BY DEF Accept, Confirmed, NotConfirmed, QueueVCTransfer, QueueTransferPet,
         QueueFails
<1>2. PICK l \in Pc \ {"new", "confirm"} : h' = [h EXCEPT ![r].pc = l]
  BY DEF Accept, Confirmed, NotConfirmed, QueueVCTransfer, QueueTransferPet,
         QueueFails, Pc
<1>3. /\ h'[r].pc = l /\ h'[r].claim = h[r].claim
      /\ \A q \in Request \ {r} : h'[q] = h[q]
  BY <1>2 DEF TypeOK
<1>4. TypeOK'
  <2>1. h' \in [Request -> [pc : Pc, claim : Claim \cup {None}]]
    BY <1>2 DEF TypeOK
  <2>2. vcJob' \in [Request -> Job(Steps)] /\ springJob' \in [Request -> Job(Steps)]
    BY <1>0, <1>1 DEF TypeOK
  <2> QED BY <1>1, <2>1, <2>2 DEF TypeOK
<1>5. JobsSound'
  BY <1>0, <1>1 DEF JobsSound, TypeOK
<1>6. h[r].pc # "new"
  BY DEF Accept, Confirmed, NotConfirmed, QueueVCTransfer, QueueTransferPet,
         QueueFails
<1>7. ServedHasClaim'
  BY <1>3, <1>6 DEF ServedHasClaim
<1>8. QueuedIsMined'
  <2>1. Past(r)' => tx[h[r].claim.tx] = "mined"
    <3>1. CASE Past(r)
      BY <3>1 DEF QueuedIsMined
    <3>2. CASE ~Past(r) /\ Past(r)'
      <4>1. ~NotConfirmed(r)
        BY <3>2 DEF NotConfirmed, Past, TypeOK
      <4>2. h[r].pc \notin {"queueVc", "queueSpring"}
        BY <3>2 DEF Past
      <4>3. Confirmed(r)
        BY <4>1, <4>2 DEF Accept, QueueVCTransfer, QueueTransferPet, QueueFails
      <4> QED BY <4>3 DEF Confirmed
    <3> QED BY <3>1, <3>2
  <2>2. ASSUME NEW q \in Request, q # r, Past(q)'
        PROVE  h'[q].pc \notin {"new", "confirm"} /\ tx'[h'[q].claim.tx] = "mined"
    <3>1. Past(q)
      BY <1>1, <1>3, <2>2 DEF Past, TypeOK
    <3> QED BY <1>1, <1>3, <2>2, <3>1 DEF QueuedIsMined
  <2> QED BY <1>1, <1>2, <1>3, <2>1, <2>2 DEF QueuedIsMined
<1>9. QueuedInOrder'
  <2>1. /\ l \in {"queueSpring", "ok"} => vcJob'[r].state # "absent"
        /\ l = "ok" => springJob'[r].state # "absent"
    BY <1>0, <1>1, <1>3
       DEF Accept, Confirmed, NotConfirmed, QueueVCTransfer, QueueTransferPet,
           QueueFails, QueuedInOrder, TypeOK
  <2>2. ASSUME NEW q \in Request, q # r
        PROVE  h'[q] = h[q] /\ vcJob'[q] = vcJob[q] /\ springJob'[q] = springJob[q]
    BY <1>1, <1>3, <2>2 DEF TypeOK
  <2> QED BY <1>3, <2>1, <2>2 DEF QueuedInOrder
<1> QED BY <1>4, <1>5, <1>7, <1>8, <1>9

(* The two jobs run: neither chain nor request changes, a job that was     *)
(* queued stays on record, and the services only add to what they hold.    *)
LEMMA JobStep ==
  ASSUME IInv, NEW r \in Request, RunVcJob(r) \/ RunSpringJob(r)
  PROVE  IInv'
<1> USE DEF IInv, chainVars, serviceVars
<1>1. /\ UNCHANGED <<chainVars, h>>
      /\ vcJob[r].state # "absent" \/ springJob[r].state # "absent"
  BY DEF RunVcJob, StartVcTransfer, InvalidateVC, StoreTransferVC,
         RunSpringJob, StartTransferSync, DelegateAdoption, Waiting, StandsAt
<1>2. h[r].claim \in Claim /\ h[r].claim.from \in Guardian /\ h[r].claim.to \in Guardian
  <2>1. h[r].pc # "new"
    BY <1>1 DEF QueuedIsMined, Past
  <2> QED BY <2>1 DEF ServedHasClaim, Claim
<1>3. /\ springOwner' \in Guardian /\ vc' \in [Guardian -> {"none", "valid", "revoked"}]
      /\ credited' \subseteq Claim /\ reported' \subseteq Claim
  <2>1. CASE RunVcJob(r)
    BY <1>2, <2>1 DEF RunVcJob, StartVcTransfer, InvalidateVC, Revoke,
                      StoreTransferVC, StoreVC, TypeOK
  <2>2. CASE RunSpringJob(r)
    BY <1>2, <2>2 DEF RunSpringJob, StartTransferSync, DelegateAdoption,
                      Delegate, TypeOK
  <2> QED BY <2>1, <2>2
<1>4. PICK v, s : /\ Sound(v, Steps) /\ (v.state = "absent" <=> vcJob[r].state = "absent")
                  /\ Sound(s, Steps) /\ (s.state = "absent" <=> springJob[r].state = "absent")
                  /\ vcJob' = [vcJob EXCEPT ![r] = v]
                  /\ springJob' = [springJob EXCEPT ![r] = s]
  <2>1. Sound(vcJob[r], Steps) /\ Sound(springJob[r], Steps)
    BY DEF JobsSound
  <2>2. /\ vcJob = [vcJob EXCEPT ![r] = vcJob[r]]
        /\ springJob = [springJob EXCEPT ![r] = springJob[r]]
    BY DEF TypeOK
  <2>3. CASE RunVcJob(r)
    <3>1. springJob' = springJob
      BY <2>3 DEF RunVcJob, StartVcTransfer, InvalidateVC, StoreTransferVC
    <3>2. CASE StartVcTransfer(r)
      <4>1. Sound(Started(vcJob[r], "invalidate"), Steps)
        BY <2>1, <3>2, WalkIsSound DEF StartVcTransfer, Steps
      <4> QED BY <2>1, <2>2, <3>1, <3>2, <4>1 DEF StartVcTransfer, Started,
                Waiting, Sound, Job
    <3>3. CASE InvalidateVC(r)
      <4>1. Sound(Moved(vcJob[r], "store"), Steps)
        BY <2>1, WalkIsSound DEF Steps
      <4>2. Moved(vcJob[r], "store").state = vcJob[r].state
        BY <2>1, NeverAbsentAgain
      <4> QED BY <2>1, <2>2, <3>1, <3>3, <4>1, <4>2 DEF InvalidateVC
    <3>4. CASE StoreTransferVC(r)
      <4>1. Sound(Completed(vcJob[r]), Steps) /\ Sound(Thrown(vcJob[r]), Steps)
        BY <2>1, <3>4, EndIsSound DEF StoreTransferVC, StandsAt
      <4>2. /\ vcJob[r].state # "absent"
            /\ Completed(vcJob[r]).state # "absent"
            /\ Thrown(vcJob[r]).state # "absent"
        BY <2>1, <3>4, NeverAbsentAgain DEF StoreTransferVC, StandsAt
      <4> QED BY <2>1, <2>2, <3>1, <3>4, <4>1, <4>2 DEF StoreTransferVC
    <3> QED BY <2>3, <3>2, <3>3, <3>4 DEF RunVcJob
  <2>4. CASE RunSpringJob(r)
    <3>1. vcJob' = vcJob
      BY <2>4 DEF RunSpringJob, StartTransferSync, DelegateAdoption
    <3>2. CASE StartTransferSync(r)
      <4>1. Sound(Started(springJob[r], "delegate"), Steps)
        BY <2>1, <3>2, WalkIsSound DEF StartTransferSync, Steps
      <4> QED BY <2>1, <2>2, <3>1, <3>2, <4>1 DEF StartTransferSync, Started,
                Waiting, Sound, Job
    <3>3. CASE DelegateAdoption(r)
      <4>1. Sound(Completed(springJob[r]), Steps) /\ Sound(Thrown(springJob[r]), Steps)
        BY <2>1, <3>3, EndIsSound DEF DelegateAdoption, StandsAt
      <4>2. /\ springJob[r].state # "absent"
            /\ Completed(springJob[r]).state # "absent"
            /\ Thrown(springJob[r]).state # "absent"
        BY <2>1, <3>3, NeverAbsentAgain DEF DelegateAdoption, StandsAt
      <4> QED BY <2>1, <2>2, <3>1, <3>3, <4>1, <4>2 DEF DelegateAdoption
    <3> QED BY <2>4, <3>2, <3>3 DEF RunSpringJob
  <2> QED BY <2>3, <2>4
<1>5. \A q \in Request :
        /\ Sound(vcJob'[q], Steps) /\ Sound(springJob'[q], Steps)
        /\ vcJob'[q].state = "absent" <=> vcJob[q].state = "absent"
        /\ springJob'[q].state = "absent" <=> springJob[q].state = "absent"
  BY <1>4 DEF JobsSound, TypeOK
<1>6. vcJob' \in [Request -> Job(Steps)] /\ springJob' \in [Request -> Job(Steps)]
  BY <1>4 DEF Sound, TypeOK
<1>7. TypeOK'
  BY <1>1, <1>3, <1>6 DEF TypeOK
<1>8. JobsSound'
  BY <1>5 DEF JobsSound
<1>9. ServedHasClaim'
  BY <1>1 DEF ServedHasClaim
<1>10. QueuedIsMined' /\ QueuedInOrder'
  BY <1>1, <1>5 DEF QueuedIsMined, QueuedInOrder, Past
<1> QED BY <1>7, <1>8, <1>9, <1>10

(* A restart gives up requests and stalls jobs, all at once.               *)
LEMMA RestartStep ==
  ASSUME IInv, Restart
  PROVE  IInv'
<1> USE DEF IInv, Restart, chainVars, serviceVars
<1>1. UNCHANGED <<chainVars, serviceVars>>
  OBVIOUS
<1>2. \A r \in Request :
        \/ h'[r] = h[r]
        \/ InFlight(r) /\ h'[r] = [h[r] EXCEPT !.pc = "error"]
  OBVIOUS
<1>3. \A r \in Request :
        /\ h'[r].claim = h[r].claim
        /\ \/ h'[r].pc = h[r].pc
           \/ h'[r].pc = "error" /\ h[r].pc \in {"confirm", "queueVc", "queueSpring"}
  BY <1>2 DEF InFlight, TypeOK
<1>4. \A r \in Request :
        /\ Sound(vcJob'[r], Steps) /\ Sound(springJob'[r], Steps)
        /\ vcJob'[r].state = "absent" <=> vcJob[r].state = "absent"
        /\ springJob'[r].state = "absent" <=> springJob[r].state = "absent"
  <2> SUFFICES ASSUME NEW r \in Request
               PROVE  /\ Sound(Stalled(vcJob[r]), Steps)
                      /\ Sound(Stalled(springJob[r]), Steps)
                      /\ Stalled(vcJob[r]).state = "absent" <=> vcJob[r].state = "absent"
                      /\ Stalled(springJob[r]).state = "absent" <=> springJob[r].state = "absent"
    OBVIOUS
  <2>1. Sound(vcJob[r], Steps) /\ Sound(springJob[r], Steps)
    BY DEF JobsSound
  <2> QED BY <2>1, StallIsSound, NeverAbsentAgain
<1>5. TypeOK'
  <2>1. h' \in [Request -> [pc : Pc, claim : Claim \cup {None}]]
    BY DEF TypeOK, Pc
  <2>2. vcJob' \in [Request -> Job(Steps)] /\ springJob' \in [Request -> Job(Steps)]
    BY <1>4 DEF Sound
  <2> QED BY <1>1, <2>1, <2>2 DEF TypeOK
<1>6. JobsSound'
  BY <1>4 DEF JobsSound
<1>7. ServedHasClaim'
  BY <1>1, <1>3 DEF ServedHasClaim
<1>8. QueuedIsMined'
  BY <1>1, <1>3, <1>4 DEF QueuedIsMined, Past
<1>9. QueuedInOrder'
  BY <1>3, <1>4 DEF QueuedInOrder
<1> QED BY <1>5, <1>6, <1>7, <1>8, <1>9

(* A guardian's own credential touches nothing else. *)
LEMMA CreateStep ==
  ASSUME IInv, NEW g \in Guardian, CreateVC(g)
  PROVE  IInv'
<1> USE DEF IInv, CreateVC, chainVars, jobVars
<1>1. TypeOK'
  BY DEF TypeOK
<1>2. JobsSound' /\ ServedHasClaim'
  BY DEF JobsSound, ServedHasClaim
<1>3. QueuedIsMined' /\ QueuedInOrder'
  BY DEF QueuedIsMined, QueuedInOrder, Past
<1> QED BY <1>1, <1>2, <1>3

---------------------------------------------------------------------------
(* IInv is inductive. *)
LEMMA Inductive == IInv /\ [Next]_vars => IInv'
<1> SUFFICES ASSUME IInv, [Next]_vars PROVE IInv'
  OBVIOUS
<1>1. CASE UNCHANGED vars
  BY <1>1
     DEF vars, IInv, TypeOK, JobsSound, ServedHasClaim,
         QueuedIsMined, QueuedInOrder, Past
<1>2. CASE Next
  <2>1. ASSUME \E r \in Request, c \in Claim : AcceptTransfer(r, c) PROVE IInv'
    BY <2>1, AcceptStep
  <2>2. ASSUME NEW r \in Request, Accept(r) \/ RunVcJob(r) \/ RunSpringJob(r)
        PROVE  IInv'
    BY <2>2, RequestStep, JobStep
  <2>3. ASSUME NEW g \in Guardian, CreateVC(g) PROVE IInv'
    BY <2>3, CreateStep
  <2> QED BY <1>2, <2>1, <2>2, <2>3, ChainStep, RestartStep DEF Next
<1> QED BY <1>1, <1>2

(* The state of PetTransfer is always well formed: in particular no job is *)
(* attempted, or stalls, more often than its queue allows.                 *)
THEOREM TypeCorrect == Spec => []TypeOK
<1>1. IInv => TypeOK
  BY DEF IInv
<1> QED BY <1>1, InitIInv, Inductive, PTL DEF Spec

(* A request answered with success has the transaction it names executed   *)
(* and both jobs on their queues, whatever restarts, errors and repeated   *)
(* requests there are, and whatever else is signed and mined.              *)
THEOREM AnswersAreQueued == Spec => []AnsweredTransferIsQueued
<1>1. IInv => AnsweredTransferIsQueued
  <2> SUFFICES ASSUME IInv, NEW r \in Request, h[r].pc = "ok"
               PROVE  /\ h[r].claim.tx \in Mined
                      /\ vcJob[r].state # "absent" /\ springJob[r].state # "absent"
    BY DEF AnsweredTransferIsQueued
  <2>1. tx[h[r].claim.tx] = "mined" /\ h[r].claim.tx \in Tx
    BY DEF IInv, QueuedIsMined, Past, ServedHasClaim, Claim
  <2> QED BY <2>1 DEF IInv, QueuedInOrder, Mined
<1> QED BY <1>1, InitIInv, Inductive, PTL DEF Spec

---------------------------------------------------------------------------
(* PetTransfer implements TransferLedger: mining executes, StoreVC credits *)
(* and Delegate reports a claim.                                           *)
LEMMA LedgerStarts == Init => Ledger!LedgerInit
<1> SUFFICES ASSUME Init PROVE Ledger!LedgerInit
  OBVIOUS
<1>1. Mined = {}
  BY DEF Init, Mined
<1>2. [t \in Mined |-> call[t]] = [t \in {} |-> None]
  BY <1>1
<1> QED BY <1>2 DEF Init, Ledger!LedgerInit

(* What the mined transactions are does not change with what is signed.    *)
LEMMA SignedLater ==
  ASSUME TypeOK, NEW t \in Tx, Broadcast(t)
  PROVE  [x \in Mined |-> call[x]]' = [x \in Mined |-> call[x]]
<1>1. Mined' = Mined /\ \A x \in Mined : call'[x] = call[x]
  BY BroadcastKeeps DEF Mined
<1> QED BY <1>1

LEMMA LedgerMoves ==
  IInv /\ [Next]_vars => [Ledger!LedgerNext]_(Ledger!ledgerVars)
<1> SUFFICES ASSUME IInv, [Next]_vars
             PROVE  Ledger!LedgerNext \/ UNCHANGED Ledger!ledgerVars
  OBVIOUS
<1> USE DEF jobVars, serviceVars
<1>0. ASSUME UNCHANGED <<controller, call, tx, credited, reported>>
      PROVE  UNCHANGED Ledger!ledgerVars
  BY <1>0 DEF Ledger!ledgerVars, Mined
<1>1. ASSUME NEW t \in Tx, Broadcast(t), UNCHANGED <<credited, reported>>
      PROVE  UNCHANGED Ledger!ledgerVars
  BY <1>1, SignedLater DEF Ledger!ledgerVars, Broadcast, IInv
<1>2. ASSUME NEW r \in Request, NEW c \in Claim, AcceptTransfer(r, c)
      PROVE  UNCHANGED Ledger!ledgerVars
  <2>1. c.tx \in Tx
    BY DEF Claim
  <2> QED BY <1>0, <1>1, <1>2, <2>1 DEF AcceptTransfer, chainVars
<1>3. ASSUME NEW t \in Tx, Chain(t)
      PROVE  Ledger!Execute(t) \/ UNCHANGED Ledger!ledgerVars
  <2>1. CASE WalletSends(t)
    BY <1>1, <2>1 DEF WalletSends
  <2>2. CASE Mine(t)
    <3>1. /\ UNCHANGED <<call, credited, reported>>
          /\ \/ Mined' = Mined /\ UNCHANGED controller
             \/ /\ t \notin Mined /\ Mined' = Mined \cup {t}
                /\ IF call[t] = None THEN controller' = controller
                   ELSE controller = call[t].from /\ controller' = call[t].to
      BY <2>2, MineAdds DEF Mine, IInv
    <3>2. CASE Mined' = Mined /\ UNCHANGED controller
      BY <3>1, <3>2 DEF Ledger!ledgerVars
    <3>3. CASE /\ t \notin Mined /\ Mined' = Mined \cup {t}
               /\ IF call[t] = None THEN controller' = controller
                  ELSE controller = call[t].from /\ controller' = call[t].to
      <4>1. [x \in Mined' |-> call'[x]]
              = [x \in Mined \cup {t} |-> IF x = t THEN call[t] ELSE [y \in Mined |-> call[y]][x]]
        BY <3>1, <3>3
      <4>2. call[t] \in Transfer \cup {None}
        BY DEF IInv, TypeOK
      <4>3. DOMAIN [x \in Mined |-> call[x]] = Mined
        OBVIOUS
      <4> QED BY <3>1, <3>3, <4>1, <4>2, <4>3 DEF Ledger!Execute, Ledger!Transfer, Transfer
    <3> QED BY <3>1, <3>2, <3>3
  <2> QED BY <1>3, <2>1, <2>2 DEF Chain
<1>4. ASSUME NEW r \in Request, RunVcJob(r) \/ RunSpringJob(r)
      PROVE  Ledger!LedgerNext \/ UNCHANGED Ledger!ledgerVars
  <2>1. vcJob[r].state # "absent" \/ springJob[r].state # "absent"
    BY <1>4 DEF RunVcJob, StartVcTransfer, InvalidateVC, StoreTransferVC,
           RunSpringJob, StartTransferSync, DelegateAdoption, Waiting, StandsAt
  <2>2. h[r].claim \in Claim /\ h[r].claim.tx \in Mined
    BY <2>1 DEF IInv, QueuedIsMined, Past, ServedHasClaim, Claim, Mined
  <2>3. UNCHANGED <<controller, call, tx, Mined>>
    BY <1>4 DEF RunVcJob, StartVcTransfer, InvalidateVC, StoreTransferVC,
           RunSpringJob, StartTransferSync, DelegateAdoption, chainVars, Mined
  <2>4. \/ UNCHANGED <<credited, reported>>
        \/ credited' = credited \cup {h[r].claim} /\ UNCHANGED reported
        \/ reported' = reported \cup {h[r].claim} /\ UNCHANGED credited
    BY <1>4 DEF RunVcJob, StartVcTransfer, InvalidateVC, StoreTransferVC,
           StoreVC, RunSpringJob, StartTransferSync, DelegateAdoption, Delegate
  <2>5. CASE UNCHANGED <<credited, reported>>
    BY <1>0, <2>3, <2>5
  <2>6. CASE credited' = credited \cup {h[r].claim} /\ UNCHANGED reported
    BY <2>2, <2>3, <2>6 DEF Ledger!LedgerNext, Ledger!Credit, Ledger!Claim, Claim
  <2>7. CASE reported' = reported \cup {h[r].claim} /\ UNCHANGED credited
    BY <2>2, <2>3, <2>7 DEF Ledger!LedgerNext, Ledger!Report, Ledger!Claim, Claim
  <2> QED BY <2>4, <2>5, <2>6, <2>7
<1>5. ASSUME NEW r \in Request, Accept(r)
      PROVE  UNCHANGED Ledger!ledgerVars
  BY <1>0, <1>5 DEF Accept, Confirmed, NotConfirmed, QueueVCTransfer,
         QueueTransferPet, QueueFails, chainVars
<1>6. ASSUME Restart PROVE UNCHANGED Ledger!ledgerVars
  BY <1>0, <1>6 DEF Restart, chainVars
<1>7. ASSUME NEW g \in Guardian, CreateVC(g) PROVE UNCHANGED Ledger!ledgerVars
  BY <1>0, <1>7 DEF CreateVC, chainVars
<1>8. CASE UNCHANGED vars
  BY <1>0, <1>8 DEF vars
<1>9. CASE Next
  BY <1>2, <1>3, <1>4, <1>5, <1>6, <1>7, <1>9 DEF Next, Ledger!LedgerNext
<1> QED BY <1>8, <1>9

(* The other services follow the chain, for any number of transactions and *)
(* of requests that claim them to be the transfer: what the code does is a *)
(* TransferLedger.                                                         *)
THEOREM TransferFollowsChain == Spec => ImplementsLedger
<1> QED BY InitIInv, Inductive, LedgerStarts, LedgerMoves, PTL
           DEF Spec, ImplementsLedger, Ledger!LedgerSpec

---------------------------------------------------------------------------
(* The chain only grows: what it executed stays, and at most one           *)
(* transaction is added.                                                   *)
LEMMA ChainGrows ==
  ASSUME IInv, [Next]_vars
  PROVE  /\ \A t \in Mined : call'[t] = call[t]
         /\ Mined' = Mined \/ \E t \in Tx \ Mined : Mined' = Mined \cup {t}
<1>1. ASSUME NEW t \in Tx, Broadcast(t)
      PROVE  Mined' = Mined /\ \A x \in Mined : call'[x] = call[x]
  BY <1>1, BroadcastKeeps DEF Mined, IInv
<1>2. ASSUME NEW t \in Tx, Mine(t)
      PROVE  /\ \A x \in Mined : call'[x] = call[x]
             /\ Mined' = Mined \/ (t \notin Mined /\ Mined' = Mined \cup {t})
  BY <1>2, MineAdds DEF IInv
<1>3. CASE UNCHANGED chainVars
  BY <1>3 DEF chainVars, Mined
<1>4. ASSUME NEW r \in Request, NEW c \in Claim, AcceptTransfer(r, c)
      PROVE  (\E t \in Tx : Broadcast(t)) \/ UNCHANGED chainVars
  BY <1>4 DEF AcceptTransfer, Claim
<1>5. ASSUME NEW r \in Request, Accept(r) \/ RunVcJob(r) \/ RunSpringJob(r)
      PROVE  UNCHANGED chainVars
  BY <1>5 DEF Accept, Confirmed, NotConfirmed, QueueVCTransfer, QueueTransferPet,
       QueueFails, RunVcJob, StartVcTransfer, InvalidateVC, StoreTransferVC,
       RunSpringJob, StartTransferSync, DelegateAdoption
<1>6. ASSUME NEW g \in Guardian, CreateVC(g) \/ Restart \/ UNCHANGED vars
      PROVE  UNCHANGED chainVars
  BY <1>6 DEF CreateVC, Restart, vars, chainVars
<1>7. Restart \/ UNCHANGED vars => UNCHANGED chainVars
  BY DEF Restart, vars, chainVars
<1> QED BY <1>1, <1>2, <1>3, <1>4, <1>5, <1>6, <1>7 DEF Next, Chain, WalletSends

(* What the services hold goes back to executed transactions. *)
CInv == CredentialsFollowClaims

LEMMA InitCInv == Init => CInv
BY DEF Init, CInv, CredentialsFollowClaims

(* What a request claims is settled when it is taken on. *)
LEMMA StartedStays ==
  ASSUME IInv, [Next]_vars, NEW q \in Request, h[q].pc # "new"
  PROVE  h'[q].pc # "new" /\ h'[q].claim = h[q].claim
<1> USE DEF IInv
<1>1. ASSUME NEW r \in Request, NEW c \in Claim, AcceptTransfer(r, c)
      PROVE  h'[q] = h[q]
  <2>1. PICK l : h' = [h EXCEPT ![r] = [pc |-> l, claim |-> c]] /\ h[r].pc = "new"
    BY <1>1 DEF AcceptTransfer
  <2> QED BY <2>1 DEF TypeOK
<1>2. ASSUME NEW r \in Request, Accept(r)
      PROVE  h'[q].pc # "new" /\ h'[q].claim = h[q].claim
  <2>1. PICK l \in Pc \ {"new"} : h' = [h EXCEPT ![r].pc = l]
    BY <1>2 DEF Accept, Confirmed, NotConfirmed, QueueVCTransfer, QueueTransferPet,
       QueueFails, Pc
  <2> QED BY <2>1 DEF TypeOK
<1>3. ASSUME Restart PROVE h'[q].pc # "new" /\ h'[q].claim = h[q].claim
  BY <1>3 DEF Restart, TypeOK
<1>4. ASSUME NEW r \in Request, RunVcJob(r) \/ RunSpringJob(r) PROVE UNCHANGED h
  BY <1>4 DEF RunVcJob, StartVcTransfer, InvalidateVC, StoreTransferVC,
       RunSpringJob, StartTransferSync, DelegateAdoption
<1>5. ASSUME NEW t \in Tx, Chain(t) PROVE UNCHANGED h
  BY <1>5 DEF Chain, WalletSends, Mine
<1>6. ASSUME NEW g \in Guardian, CreateVC(g) PROVE UNCHANGED h
  BY <1>6 DEF CreateVC
<1>7. CASE UNCHANGED vars
  BY <1>7 DEF vars
<1> QED BY <1>1, <1>2, <1>3, <1>4, <1>5, <1>6, <1>7 DEF Next

LEMMA CInvSteps ==
  ASSUME IInv, CInv, [Next]_vars
  PROVE  CInv'
<1> USE DEF IInv, CInv
<1>1. Mined \subseteq Mined'
  BY ChainGrows
<1>2. \A r \in Request : h[r].pc # "new" => h'[r].claim = h[r].claim
  BY StartedStays
<1>3. ASSUME NEW g \in Guardian,
             NEW r \in Request, h[r].pc # "new", h[r].claim.from = g, h[r].claim.tx \in Mined
      PROVE  \E q \in Request : /\ h'[q].pc # "new" /\ h'[q].claim.from = g
                                /\ h'[q].claim.tx \in Mined'
  <2>1. h'[r].claim = h[r].claim /\ h[r].claim # None
    BY <1>2, <1>3, NoneAssumption DEF ServedHasClaim
  <2>2. h'[r].pc # "new"
    BY <1>3, StartedStays
  <2> QED BY <1>1, <1>3, <2>1, <2>2
<1>4. CASE UNCHANGED serviceVars
  BY <1>3, <1>4 DEF CredentialsFollowClaims, serviceVars
<1>5. ASSUME NEW r \in Request, RunVcJob(r) \/ RunSpringJob(r)
      PROVE  CInv'
  <2> DEFINE c == h[r].claim
  <2>1. vcJob[r].state # "absent" \/ springJob[r].state # "absent"
    BY <1>5 DEF RunVcJob, StartVcTransfer, InvalidateVC, StoreTransferVC,
           RunSpringJob, StartTransferSync, DelegateAdoption, Waiting, StandsAt
  <2>2. /\ h[r].pc # "new" /\ c \in Claim /\ c.tx \in Mined
        /\ c.from \in Guardian /\ c.to \in Guardian
    BY <2>1 DEF QueuedIsMined, Past, ServedHasClaim, Claim, Mined
  <2>3. \/ UNCHANGED serviceVars
        \/ Revoke(c.from) /\ UNCHANGED <<springOwner, credited, reported>>
        \/ StoreVC(r) \/ Delegate(r)
    BY <1>5 DEF RunVcJob, StartVcTransfer, InvalidateVC, StoreTransferVC,
           RunSpringJob, StartTransferSync, DelegateAdoption, serviceVars
  <2> HIDE DEF c
  <2>4. CASE Revoke(c.from) /\ UNCHANGED <<springOwner, credited, reported>>
    <3>1. \A g \in Guardian :
            vc'[g] = vc[g] \/ (g = c.from /\ vc[g] = "valid" /\ vc'[g] = "revoked")
      BY <2>2, <2>4 DEF Revoke, TypeOK
    <3>2. \A d \in credited : vc'[d.to] # "none"
      BY <3>1 DEF CredentialsFollowClaims, TypeOK, Claim
    <3>3. ASSUME NEW g \in Guardian, vc'[g] = "revoked"
          PROVE  \E q \in Request : /\ h'[q].pc # "new" /\ h'[q].claim.from = g
                                    /\ h'[q].claim.tx \in Mined'
      <4>1. CASE vc[g] = "revoked"
        BY <1>3, <4>1 DEF CredentialsFollowClaims
      <4>2. CASE g = c.from
        BY <1>3, <2>2, <4>2 DEF c
      <4> QED BY <3>1, <3>3, <4>1, <4>2
    <3> QED BY <2>4, <3>2, <3>3 DEF CredentialsFollowClaims
  <2>5. CASE StoreVC(r)
    <3>1. /\ vc' = [vc EXCEPT ![c.to] = "valid"] /\ credited' = credited \cup {c}
          /\ UNCHANGED <<springOwner, reported>>
      BY <2>5 DEF StoreVC, c
    <3>2. \A g \in Guardian : vc'[g] = vc[g] \/ vc'[g] = "valid"
      BY <2>2, <3>1 DEF TypeOK
    <3>3. vc'[c.to] = "valid"
      BY <2>2, <3>1 DEF TypeOK
    <3>4. \A d \in credited : vc'[d.to] # "none"
      BY <3>2 DEF CredentialsFollowClaims, TypeOK, Claim
    <3>5. ASSUME NEW g \in Guardian, vc'[g] = "revoked"
          PROVE  \E q \in Request : /\ h'[q].pc # "new" /\ h'[q].claim.from = g
                                    /\ h'[q].claim.tx \in Mined'
      <4>1. vc[g] = "revoked"
        BY <3>2, <3>5
      <4> QED BY <1>3, <4>1 DEF CredentialsFollowClaims
    <3> QED BY <3>1, <3>3, <3>4, <3>5 DEF CredentialsFollowClaims
  <2>6. CASE Delegate(r)
    <3>1. /\ springOwner' = c.to /\ reported' = reported \cup {c}
          /\ UNCHANGED <<vc, credited>>
      BY <2>6 DEF Delegate, c
    <3> QED BY <1>3, <3>1 DEF CredentialsFollowClaims
  <2> QED BY <1>4, <2>3, <2>4, <2>5, <2>6
<1>6. ASSUME NEW g \in Guardian, CreateVC(g)
      PROVE  CInv'
  <2>1. vc' = [vc EXCEPT ![g] = "valid"] /\ UNCHANGED <<springOwner, credited, reported>>
    BY <1>6 DEF CreateVC
  <2>2. \A x \in Guardian : vc'[x] = vc[x] \/ vc'[x] = "valid"
    BY <2>1 DEF TypeOK
  <2>3. \A d \in credited : d.to \in Guardian
    BY DEF TypeOK, Claim
  <2>4. ASSUME NEW x \in Guardian, vc'[x] = "revoked"
        PROVE  \E q \in Request : /\ h'[q].pc # "new" /\ h'[q].claim.from = x
                                  /\ h'[q].claim.tx \in Mined'
    BY <1>3, <2>2, <2>4 DEF CredentialsFollowClaims
  <2>5. \A d \in credited : vc'[d.to] # "none"
    BY <2>2, <2>3 DEF CredentialsFollowClaims
  <2> QED BY <2>1, <2>4, <2>5 DEF CredentialsFollowClaims
<1>7. \/ UNCHANGED serviceVars
      \/ \E r \in Request : RunVcJob(r) \/ RunSpringJob(r)
      \/ \E g \in Guardian : CreateVC(g)
  <2>1. CASE UNCHANGED vars
    BY <2>1 DEF vars, serviceVars
  <2>2. ASSUME NEW r \in Request, NEW c \in Claim, AcceptTransfer(r, c)
        PROVE  UNCHANGED serviceVars
    BY <2>2 DEF AcceptTransfer
  <2>3. ASSUME NEW r \in Request, Accept(r) PROVE UNCHANGED serviceVars
    BY <2>3 DEF Accept, Confirmed, NotConfirmed, QueueVCTransfer,
         QueueTransferPet, QueueFails
  <2>4. ASSUME NEW t \in Tx, Chain(t) PROVE UNCHANGED serviceVars
    BY <2>4 DEF Chain, WalletSends, Mine
  <2>5. Restart => UNCHANGED serviceVars
    BY DEF Restart
  <2> QED BY <2>1, <2>2, <2>3, <2>4, <2>5 DEF Next
<1> QED BY <1>4, <1>5, <1>6, <1>7

(* A guardian keeps the credential of a claim until a request with an      *)
(* executed transaction behind it says that they handed the pet on,        *)
(* whatever is retried and in whatever order.                              *)
THEOREM CredentialsAreKept == Spec => []CredentialsFollowClaims
<1>1. IInv /\ CInv /\ [Next]_vars => IInv' /\ CInv'
  BY Inductive, CInvSteps
<1>2. CInv => CredentialsFollowClaims
  BY DEF CInv
<1> QED BY <1>1, <1>2, InitIInv, InitCInv, PTL DEF Spec

---------------------------------------------------------------------------
(* ControllerHistory: however far the indexer and each node lag behind and *)
(* whatever is mined meanwhile.                                            *)
Stage == {"new", "indexer", "events", "document", "answered", "failed"}
Answer == [source : {"none", "indexer", "chain", "document"},
           document : Guardian \cup {None}, current : Guardian \cup {None},
           total : Nat, history : Seq(Tx \cup {None})]

(* The controller after event e when the transactions are f. *)
After(f, e) == IF e = None THEN Genesis ELSE f[e].to
Entries(s) == {s[i] : i \in DOMAIN s}

(* Answer a is true of the changes s and transactions f.                   *)
HistoryIsIn(a, s) ==
  \/ BeginningOf(a.history, <<None>> \o s)
  \/ a.source = "chain" /\ BeginningOf(a.history, s)
NamesLast(a, f) == a.history # <<>> => a.current = After(f, a.history[Len(a.history)])
TotalTells(a) ==
  a.source = "indexer" => \/ Len(a.history) = a.total
                          \/ Len(a.history) = PageLimit /\ a.total > PageLimit
NamedOccurred(a, s, f) ==
  \A g \in {a.current, a.document} \ {None} :
    \E e \in Entries(s) \cup {None} : After(f, e) = g
True(a, s, f) ==
  HistoryIsIn(a, s) /\ NamesLast(a, f) /\ TotalTells(a) /\ NamedOccurred(a, s, f)

EventsAreHandedOver == Entries(changes) = HandedOver
QueriesAreTrue == \A x \in Query : True(answer[x], changes, call)

HInv == IInv /\ HistoryTypeOK /\ EventsAreHandedOver /\ QueriesAreTrue

---------------------------------------------------------------------------
(* The events *)

(* The registration comes first, then the changes. *)
LEMMA EventsAre ==
  ASSUME NEW S, NEW s \in Seq(S)
  PROVE  LET E == <<None>> \o s IN
         /\ E \in Seq(S \cup {None}) /\ Len(E) = Len(s) + 1
         /\ DOMAIN E = 1..(Len(s) + 1) /\ Len(s) \in Nat
         /\ Entries(E) = Entries(s) \cup {None}
<1> DEFINE E == <<None>> \o s
<1>1. <<None>> \in Seq(S \cup {None}) /\ s \in Seq(S \cup {None})
  OBVIOUS
<1>2. E \in Seq(S \cup {None}) /\ Len(E) = Len(s) + 1 /\ DOMAIN E = 1..(Len(s) + 1)
  BY <1>1
<1>3. E[1] = None /\ Len(s) \in Nat /\ DOMAIN s = 1..Len(s)
  BY <1>1
<1>4. \A i \in 2..(Len(s) + 1) : E[i] = s[i - 1] /\ i - 1 \in 1..Len(s)
  BY <1>1, <1>3
<1>5. \A i \in 1..Len(s) : E[i + 1] = s[i] /\ i + 1 \in 1..(Len(s) + 1)
  BY <1>1, <1>3
<1>6. \A i \in 1..(Len(s) + 1) : i = 1 \/ i \in 2..(Len(s) + 1)
  BY <1>3
<1>7. 1 \in 1..(Len(s) + 1)
  BY <1>3
<1> HIDE DEF E
<1>8. Entries(E) \subseteq Entries(s) \cup {None}
  <2> SUFFICES ASSUME NEW i \in DOMAIN E PROVE E[i] \in Entries(s) \cup {None}
    BY DEF Entries
  <2>1. CASE i = 1
    BY <1>3, <2>1
  <2>2. CASE i \in 2..(Len(s) + 1)
    BY <1>3, <1>4, <2>2 DEF Entries
  <2> QED BY <1>2, <1>6, <2>1, <2>2
<1>9. Entries(s) \cup {None} \subseteq Entries(E)
  <2>1. None \in Entries(E)
    BY <1>2, <1>3, <1>7 DEF Entries
  <2>2. ASSUME NEW i \in DOMAIN s PROVE s[i] \in Entries(E)
    BY <1>2, <1>3, <1>5 DEF Entries
  <2> QED BY <2>1, <2>2 DEF Entries
<1> QED BY <1>2, <1>3, <1>8, <1>9 DEF E

(* An event is appended to the events. *)
LEMMA EventsGrow ==
  ASSUME NEW S, NEW s \in Seq(S), NEW t \in S
  PROVE  <<None>> \o Append(s, t) = Append(<<None>> \o s, t)
<1>1. <<None>> \in Seq(S \cup {None}) /\ s \in Seq(S \cup {None}) /\ t \in S \cup {None}
  OBVIOUS
<1> QED BY <1>1

(* A beginning of E stays one when E grows, and its last entry is one of   *)
(* E's.                                                                    *)
LEMMA BeginningStays ==
  ASSUME NEW S, NEW s \in Seq(S), NEW E \in Seq(S), NEW t \in S, BeginningOf(s, E)
  PROVE  BeginningOf(s, Append(E, t))
<1>1. Len(s) \in Nat /\ Len(E) \in Nat /\ DOMAIN s = 1..Len(s) /\ DOMAIN E = 1..Len(E)
  OBVIOUS
<1>2. \A i \in 1..Len(E) : Append(E, t)[i] = E[i]
  OBVIOUS
<1>3. Len(Append(E, t)) = Len(E) + 1
  OBVIOUS
<1> QED BY <1>1, <1>2, <1>3 DEF BeginningOf

LEMMA LastIsEntry ==
  ASSUME NEW S, NEW s \in Seq(S), NEW E \in Seq(S), BeginningOf(s, E), s # <<>>
  PROVE  Len(s) \in DOMAIN s /\ s[Len(s)] \in Entries(E)
<1>1. Len(s) \in Nat /\ Len(E) \in Nat /\ DOMAIN s = 1..Len(s) /\ DOMAIN E = 1..Len(E)
  OBVIOUS
<1>2. Len(s) \in 1..Len(s)
  BY <1>1
<1>3. Len(s) \in DOMAIN E /\ s[Len(s)] = E[Len(s)]
  BY <1>1, <1>2 DEF BeginningOf
<1> QED BY <1>1, <1>2, <1>3 DEF Entries

(* One of the events is appended: what is known of the sequence. *)
LEMMA ChangesGrow ==
  ASSUME NEW S, NEW s \in Seq(S), NEW t
  PROVE  /\ Append(s, t) \in Seq(S \cup {t})
         /\ Entries(Append(s, t)) = Entries(s) \cup {t}
<1>1. s \in Seq(S \cup {t}) /\ t \in S \cup {t}
  OBVIOUS
<1>2. Append(s, t) \in Seq(S \cup {t}) /\ DOMAIN Append(s, t) = 1..(Len(s) + 1)
      /\ DOMAIN s = 1..Len(s) /\ Len(s) \in Nat
  BY <1>1
<1>3. \A i \in 1..Len(s) : Append(s, t)[i] = s[i]
  BY <1>1
<1>4. Append(s, t)[Len(s) + 1] = t
  BY <1>1
<1>5. \A e : e \in Entries(Append(s, t)) <=> e \in Entries(s) \cup {t}
  BY <1>2, <1>3, <1>4 DEF Entries
<1> QED BY <1>2, <1>5

(* What is true of the changes stays true when there is one more, and of   *)
(* transactions that agree on them.                                        *)
LEMMA TrueStays ==
  ASSUME NEW a \in Answer, NEW s \in Seq(Tx), NEW f, NEW g,
         NEW u, u = s \/ \E t \in Tx : u = Append(s, t),
         \A e \in Entries(s) \cup {None} : After(g, e) = After(f, e),
         True(a, s, f)
  PROVE  True(a, u, g)
<1> DEFINE S == Tx \cup {None}
           hist == a.history
<1>1. hist \in Seq(S) /\ s \in Seq(S) /\ <<None>> \o s \in Seq(S) /\ Tx \subseteq S
  BY DEF Answer
<1>2. Entries(<<None>> \o s) = Entries(s) \cup {None}
  BY EventsAre
<1>3. HistoryIsIn(a, s) /\ NamesLast(a, f) /\ TotalTells(a) /\ NamedOccurred(a, s, f)
  BY DEF True
<1> HIDE DEF S
<1>4. HistoryIsIn(a, u)
  <2>1. ASSUME NEW t \in Tx, u = Append(s, t) PROVE HistoryIsIn(a, u)
    <3>1. <<None>> \o u = Append(<<None>> \o s, t)
      BY <2>1, EventsGrow
    <3>2. BeginningOf(hist, <<None>> \o s) => BeginningOf(hist, Append(<<None>> \o s, t))
      BY <1>1, BeginningStays
    <3>3. BeginningOf(hist, s) => BeginningOf(hist, Append(s, t))
      BY <1>1, BeginningStays
    <3> QED BY <1>3, <2>1, <3>1, <3>2, <3>3 DEF HistoryIsIn
  <2> QED BY <1>3, <2>1
<1>5. NamesLast(a, g)
  <2> SUFFICES ASSUME hist # <<>> PROVE hist[Len(hist)] \in Entries(s) \cup {None}
    BY <1>3 DEF NamesLast
  <2>1. BeginningOf(hist, <<None>> \o s) => hist[Len(hist)] \in Entries(<<None>> \o s)
    BY <1>1, LastIsEntry
  <2>2. BeginningOf(hist, s) => hist[Len(hist)] \in Entries(s)
    BY <1>1, LastIsEntry
  <2> QED BY <1>2, <1>3, <2>1, <2>2 DEF HistoryIsIn
<1>6. NamedOccurred(a, u, g)
  <2>1. Entries(s) \subseteq Entries(u)
    <3>1. \A t \in Tx : Entries(Append(s, t)) = Entries(s) \cup {t}
      BY ChangesGrow
    <3> QED BY <3>1
  <2> QED BY <1>3, <2>1 DEF NamedOccurred
<1> QED BY <1>3, <1>4, <1>5, <1>6 DEF True

(* Nothing was said yet, or nothing that could be wrong. *)
LEMMA NothingSaid ==
  ASSUME NEW s \in Seq(Tx), NEW f
  PROVE  NoAnswer \in Answer /\ True(NoAnswer, s, f)
<1>1. NoAnswer \in Answer
  BY DEF NoAnswer, Answer
<1>2. BeginningOf(<<>>, <<None>> \o s)
  BY EventsAre DEF BeginningOf
<1>3. HistoryIsIn(NoAnswer, s) /\ NamesLast(NoAnswer, f) /\ TotalTells(NoAnswer)
  BY <1>2 DEF HistoryIsIn, NamesLast, TotalTells, NoAnswer
<1>4. NamedOccurred(NoAnswer, s, f)
  BY DEF NamedOccurred, NoAnswer
<1> QED BY <1>1, <1>3, <1>4 DEF True

---------------------------------------------------------------------------
(* It holds initially.                                                     *)
LEMMA InitHInv == HistoryInit => HInv
<1> SUFFICES ASSUME HistoryInit PROVE HInv
  OBVIOUS
<1>1. IInv /\ TypeOK
  BY InitIInv DEF HistoryInit, IInv
<1>2. Mined = {} /\ HandedOver = {} /\ changes = <<>>
  BY DEF HistoryInit, Init, Mined, HandedOver
<1>3. changes \in Seq(Tx) /\ Entries(changes) = {}
  BY <1>2 DEF Entries
<1>4. NoAnswer \in Answer /\ True(NoAnswer, changes, call)
  BY <1>3, NothingSaid
<1>5. HistoryTypeOK
  BY <1>1, <1>2, <1>4 DEF HistoryInit, HistoryTypeOK, Answer
<1>6. QueriesAreTrue
  BY <1>4 DEF QueriesAreTrue, HistoryInit
<1> QED BY <1>1, <1>2, <1>3, <1>5, <1>6 DEF HInv, EventsAreHandedOver

---------------------------------------------------------------------------
(* A step of the chain, the gateway's transfers and their jobs *)

(* The events grow by the change that is executed, if any. *)
LEMMA EventsFollow ==
  ASSUME IInv, Next, Emitted
  PROVE  \/ UNCHANGED <<changes, HandedOver>>
         \/ \E t \in Tx \ HandedOver : /\ changes' = Append(changes, t)
                                       /\ HandedOver' = HandedOver \cup {t}
<1>1. \A t \in Mined : call'[t] = call[t]
  BY ChainGrows
<1>2. CASE Mined' = Mined
  <2>1. HandedOver' = HandedOver
    BY <1>1, <1>2 DEF HandedOver
  <2> QED BY <2>1 DEF Emitted
<1>3. ASSUME NEW t \in Tx \ Mined, Mined' = Mined \cup {t}
      PROVE  \/ UNCHANGED <<changes, HandedOver>>
             \/ \E x \in Tx \ HandedOver : /\ changes' = Append(changes, x)
                                           /\ HandedOver' = HandedOver \cup {x}
  <2>1. \/ HandedOver' = HandedOver
        \/ t \notin HandedOver /\ HandedOver' = HandedOver \cup {t}
    BY <1>1, <1>3 DEF HandedOver
  <2> QED BY <2>1 DEF Emitted
<1> QED BY <1>2, <1>3, ChainGrows

LEMMA TransferKeeps ==
  ASSUME HInv, Next, Emitted, UNCHANGED queryVars
  PROVE  HInv'
<1>0. /\ IInv /\ HistoryTypeOK /\ EventsAreHandedOver /\ QueriesAreTrue
      /\ UNCHANGED <<stage, kind, answer>>
  BY DEF HInv, queryVars
<1>1. IInv' /\ TypeOK'
  BY <1>0, Inductive DEF IInv
<1>2. /\ changes \in Seq(HandedOver) /\ HandedOver \subseteq Tx /\ HandedOver \subseteq Mined
      /\ stage \in [Query -> Stage] /\ kind \in [Query -> {"none", "history", "info"}]
      /\ answer \in [Query -> Answer]
  BY <1>0 DEF HistoryTypeOK, HandedOver, Mined, Stage, Answer
<1>3. changes \in Seq(Tx)
  BY <1>2
<1>4. \A e \in Entries(changes) \cup {None} : After(call', e) = After(call, e)
  BY <1>0, <1>2, ChainGrows DEF After, EventsAreHandedOver
<1>5. /\ changes' \in Seq(HandedOver') /\ EventsAreHandedOver'
      /\ changes' = changes \/ \E t \in Tx : changes' = Append(changes, t)
  <2>1. CASE UNCHANGED <<changes, HandedOver>>
    BY <1>0, <1>2, <2>1 DEF EventsAreHandedOver
  <2>2. ASSUME NEW t \in Tx \ HandedOver, changes' = Append(changes, t),
               HandedOver' = HandedOver \cup {t}
        PROVE  changes' \in Seq(HandedOver') /\ EventsAreHandedOver'
    BY <1>0, <1>2, <2>2, ChangesGrow DEF EventsAreHandedOver
  <2> QED BY <1>0, <2>1, <2>2, EventsFollow
<1>6. HistoryTypeOK'
  BY <1>0, <1>1, <1>2, <1>5 DEF HistoryTypeOK, Stage, Answer
<1>7. QueriesAreTrue'
  <2> SUFFICES ASSUME NEW x \in Query PROVE True(answer[x], changes', call')
    BY <1>0 DEF QueriesAreTrue
  <2>1. answer[x] \in Answer /\ True(answer[x], changes, call)
    BY <1>0, <1>2 DEF QueriesAreTrue
  <2> QED BY <1>3, <1>4, <1>5, <2>1, TrueStays
<1> QED BY <1>1, <1>5, <1>6, <1>7 DEF HInv

---------------------------------------------------------------------------
(* The queries leave the chain and the transfers alone. *)

(* What the queries' steps can rely on. *)
Facts ==
  /\ Events = <<None>> \o changes
  /\ Events \in Seq(Tx \cup {None}) /\ changes \in Seq(Tx) /\ Len(changes) \in Nat
  /\ DOMAIN Events = 1..Len(Events) /\ Len(Events) = Len(changes) + 1
  /\ Entries(Events) = Entries(changes) \cup {None}
  /\ stage \in [Query -> Stage] /\ kind \in [Query -> {"none", "history", "info"}]
  /\ answer \in [Query -> Answer]
  /\ \A e \in Entries(Events) : After(call, e) \in Guardian

LEMMA FactsHold == HInv => Facts
<1> SUFFICES ASSUME HInv PROVE Facts
  OBVIOUS
<1>0. IInv /\ HistoryTypeOK /\ EventsAreHandedOver
  BY DEF HInv
<1>1. /\ changes \in Seq(HandedOver) /\ HandedOver \subseteq Tx
      /\ stage \in [Query -> Stage] /\ kind \in [Query -> {"none", "history", "info"}]
      /\ answer \in [Query -> Answer]
  BY <1>0 DEF HistoryTypeOK, HandedOver, Mined, Stage, Answer
<1>2. changes \in Seq(Tx)
  BY <1>1
<1>3. /\ Events \in Seq(Tx \cup {None}) /\ DOMAIN Events = 1..Len(Events)
      /\ Len(Events) = Len(changes) + 1 /\ Len(changes) \in Nat
      /\ Entries(Events) = Entries(changes) \cup {None}
  BY <1>2, EventsAre DEF Events
<1>4. \A t \in HandedOver : call[t].to \in Guardian
  BY <1>0 DEF IInv, HandedOver, Mined, TypeOK, Transfer
<1>5. \A e \in Entries(Events) : After(call, e) \in Guardian
  BY <1>0, <1>3, <1>4, GenesisAssumption DEF After, EventsAreHandedOver
<1> QED BY <1>1, <1>2, <1>3, <1>5 DEF Facts, Events

(* The parts that only a transfer changes. *)
LEMMA ChainStands ==
  ASSUME HInv, UNCHANGED <<vars, changes>>
  PROVE  /\ IInv' /\ TypeOK' /\ EventsAreHandedOver'
         /\ changes' \in Seq(HandedOver')
         /\ UNCHANGED <<changes, call>>
<1>1. IInv /\ EventsAreHandedOver /\ changes \in Seq(HandedOver)
  BY DEF HInv, HistoryTypeOK
<1>2. IInv' /\ TypeOK'
  BY <1>1, Inductive DEF IInv
<1>3. UNCHANGED <<HandedOver, changes, call>>
  BY DEF vars, Mined, HandedOver
<1> QED BY <1>1, <1>2, <1>3 DEF EventsAreHandedOver

(* A step of a query to an answer that is true. *)
LEMMA MoveKeeps ==
  ASSUME HInv, NEW x \in Query, NEW next \in Stage, NEW a \in Answer,
         True(a, changes, call), MovesTo(x, next, a)
  PROVE  HInv'
<1>1. Facts /\ QueriesAreTrue
  BY FactsHold DEF HInv
<1>2. /\ stage' = [stage EXCEPT ![x] = next] /\ answer' = [answer EXCEPT ![x] = a]
      /\ UNCHANGED kind /\ UNCHANGED <<vars, changes>>
  BY DEF MovesTo
<1>3. /\ IInv' /\ TypeOK' /\ EventsAreHandedOver'
      /\ changes' \in Seq(HandedOver') /\ UNCHANGED <<changes, call>>
  BY <1>2, ChainStands
<1>4. stage' \in [Query -> Stage] /\ answer' \in [Query -> Answer]
  BY <1>1, <1>2 DEF Facts
<1>5. HistoryTypeOK'
  BY <1>1, <1>2, <1>3, <1>4 DEF Facts, HistoryTypeOK, Stage, Answer
<1>6. QueriesAreTrue'
  <2> SUFFICES ASSUME NEW y \in Query PROVE True(answer'[y], changes, call)
    BY <1>3 DEF QueriesAreTrue
  <2>1. CASE y = x
    BY <1>1, <1>2, <2>1 DEF Facts
  <2>2. CASE y # x
    BY <1>1, <1>2, <2>2 DEF QueriesAreTrue, Facts
  <2> QED BY <2>1, <2>2
<1> QED BY <1>3, <1>5, <1>6 DEF HInv

LEMMA AskKeeps ==
  ASSUME HInv, NEW x \in Query, AskHistory(x) \/ AskInfo(x)
  PROVE  HInv'
<1>1. Facts /\ QueriesAreTrue /\ IInv
  BY FactsHold DEF HInv
<1>2. PICK what \in {"history", "info"}, first \in {"indexer", "document"} :
        Ask(x, what, first)
  BY DEF AskHistory, AskInfo
<1>3. /\ stage' = [stage EXCEPT ![x] = first] /\ kind' = [kind EXCEPT ![x] = what]
      /\ UNCHANGED <<vars, changes>> /\ UNCHANGED answer
  BY <1>2 DEF Ask
<1>4. /\ IInv' /\ TypeOK' /\ EventsAreHandedOver'
      /\ changes' \in Seq(HandedOver') /\ UNCHANGED <<changes, call>>
  BY <1>3, ChainStands
<1>5. stage' \in [Query -> Stage] /\ kind' \in [Query -> {"none", "history", "info"}]
  BY <1>1, <1>3 DEF Facts, Stage
<1>6. HistoryTypeOK'
  BY <1>1, <1>3, <1>4, <1>5 DEF Facts, HistoryTypeOK, Stage, Answer
<1>7. QueriesAreTrue'
  BY <1>1, <1>3, <1>4 DEF QueriesAreTrue
<1> QED BY <1>4, <1>6, <1>7 DEF HInv

(* An answer that shows a beginning of the events.                         *)
LEMMA ShowKeeps ==
  ASSUME HInv, NEW x \in Query, NEW source \in {"indexer", "chain"},
         NEW history \in Seq(Tx \cup {None}), NEW total \in Nat,
         Shows(x, source, history, total),
         BeginningOf(history, Events) \/ (source = "chain" /\ BeginningOf(history, changes)),
         source = "indexer" => \/ Len(history) = total
                               \/ Len(history) = PageLimit /\ total > PageLimit
  PROVE  HInv'
<1> DEFINE doc == answer[x].document
           cur == LastOf(history)
           a == [source |-> source, document |-> doc, current |-> cur,
                 total |-> total, history |-> history]
<1>1. Facts /\ QueriesAreTrue
  BY FactsHold DEF HInv
<1>2. answer[x] \in Answer /\ True(answer[x], changes, call)
  BY <1>1 DEF QueriesAreTrue, Facts
<1>3. history # <<>> => history[Len(history)] \in Entries(Events)
  <2> DEFINE S == Tx \cup {None}
  <2>1. history \in Seq(S) /\ Events \in Seq(S) /\ changes \in Seq(S)
    BY <1>1 DEF Facts
  <2> HIDE DEF S
  <2>2. history # <<>> => history[Len(history)] \in Entries(Events) \cup Entries(changes)
    BY <2>1, LastIsEntry
  <2> QED BY <1>1, <2>2 DEF Facts
<1>4. history # <<>> => cur = After(call, history[Len(history)])
  BY DEF LastOf, ControllerAfter, After
<1>5. cur \in Guardian \cup {None} /\ doc \in Guardian \cup {None}
  BY <1>1, <1>2, <1>3, <1>4 DEF Facts, LastOf, Answer
<1>6. history = <<>> => cur = None
  BY DEF LastOf
<1>7. doc # None => \E e \in Entries(changes) \cup {None} : After(call, e) = doc
  BY <1>2 DEF True, NamedOccurred, doc
<1> HIDE DEF doc, cur
<1>8. a \in Answer
  BY <1>5 DEF Answer
<1>9. HistoryIsIn(a, changes)
  BY <1>1 DEF HistoryIsIn, Facts
<1>10. NamesLast(a, call) /\ TotalTells(a)
  BY <1>4 DEF NamesLast, TotalTells
<1>11. NamedOccurred(a, changes, call)
  <2>1. cur # None => \E e \in Entries(changes) \cup {None} : After(call, e) = cur
    BY <1>1, <1>3, <1>4, <1>6 DEF Facts
  <2> QED BY <1>7, <2>1 DEF NamedOccurred
<1>12. True(a, changes, call)
  BY <1>9, <1>10, <1>11 DEF True
<1>13. MovesTo(x, "answered", a)
  BY DEF Shows, doc, cur
<1> HIDE DEF a
<1> QED BY <1>8, <1>12, <1>13, MoveKeeps DEF Stage

(* A page of the events is a beginning of them. *)
LEMMA PageBegins ==
  ASSUME NEW S, NEW E \in Seq(S), NEW n \in 0..Len(E)
  PROVE  /\ SubSeq(E, 1, n) \in Seq(S) /\ Len(SubSeq(E, 1, n)) = n
         /\ BeginningOf(SubSeq(E, 1, n), E)
<1>1. SubSeq(E, 1, n) \in Seq(S) /\ Len(SubSeq(E, 1, n)) = n
  OBVIOUS
<1>2. \A i \in 1..n : SubSeq(E, 1, n)[i] = E[i]
  OBVIOUS
<1>3. DOMAIN SubSeq(E, 1, n) = 1..n /\ n <= Len(E)
  BY <1>1
<1> QED BY <1>1, <1>2, <1>3 DEF BeginningOf

(* So is the registration with the first changes. *)
LEMMA RegistrationBegins ==
  ASSUME NEW S, NEW s \in Seq(S), NEW m \in 0..Len(s)
  PROVE  /\ <<None>> \o SubSeq(s, 1, m) \in Seq(S \cup {None})
         /\ BeginningOf(<<None>> \o SubSeq(s, 1, m), <<None>> \o s)
<1> DEFINE b == SubSeq(s, 1, m)
           D == <<None>> \o b
           E == <<None>> \o s
<1>1. b \in Seq(S) /\ Len(b) = m /\ \A i \in 1..m : b[i] = s[i]
  OBVIOUS
<1>2. <<None>> \in Seq(S \cup {None}) /\ s \in Seq(S \cup {None}) /\ b \in Seq(S \cup {None})
  BY <1>1
<1> HIDE DEF b
<1>3. D \in Seq(S \cup {None}) /\ Len(D) = m + 1 /\ Len(E) = Len(s) + 1
  BY <1>1, <1>2
<1>4. D[1] = None /\ E[1] = None /\ \A i \in 2..(m + 1) : D[i] = b[i - 1] /\ i - 1 \in 1..m
  BY <1>1, <1>2
<1>5. \A i \in 2..(m + 1) : E[i] = s[i - 1]
  BY <1>2
<1>6. \A i \in 1..(m + 1) : i = 1 \/ i \in 2..(m + 1)
  OBVIOUS
<1> HIDE DEF D, E
<1>7. \A i \in 1..(m + 1) : D[i] = E[i]
  BY <1>1, <1>4, <1>5, <1>6
<1>8. DOMAIN D = 1..(m + 1) /\ Len(D) <= Len(E)
  BY <1>2, <1>3
<1> QED BY <1>3, <1>7, <1>8 DEF BeginningOf, D, E, b

LEMMA HandleKeeps ==
  ASSUME HInv, NEW x \in Query, Handle(x)
  PROVE  HInv'
<1>1. Facts /\ QueriesAreTrue
  BY FactsHold DEF HInv
<1>2. answer[x] \in Answer /\ True(answer[x], changes, call)
  BY <1>1 DEF QueriesAreTrue, Facts
<1>3. CASE IndexerAnswers(x)
  <2>1. PICK n \in 0..Len(Events) : Shows(x, "indexer", Page(n), n)
    BY <1>3 DEF IndexerAnswers
  <2> DEFINE m == IF n < PageLimit THEN n ELSE PageLimit
  <2>2. m \in 0..Len(Events) /\ n \in Nat /\ (m = n \/ (m = PageLimit /\ n >= PageLimit))
    BY <1>1, PageLimitAssumption DEF Facts
  <2>3. /\ Page(n) \in Seq(Tx \cup {None}) /\ Len(Page(n)) = m
        /\ BeginningOf(Page(n), Events)
    BY <1>1, <2>2, PageBegins DEF Page, Facts
  <2>4. Len(Page(n)) = n \/ (Len(Page(n)) = PageLimit /\ n > PageLimit)
    BY <2>2, <2>3, PageLimitAssumption
  <2> QED BY <2>1, <2>2, <2>3, <2>4, ShowKeeps
<1>4. CASE ReadEvents(x)
  <2>1. PICK first \in Registrations, m \in 0..Len(changes) :
          Shows(x, "chain", first \o SubSeq(changes, 1, m), m)
    BY <1>4 DEF ReadEvents
  <2>2. /\ SubSeq(changes, 1, m) \in Seq(Tx) /\ SubSeq(changes, 1, m) \in Seq(Tx \cup {None})
        /\ BeginningOf(SubSeq(changes, 1, m), changes) /\ m \in Nat
    BY <1>1, PageBegins DEF Facts
  <2>3. CASE first = <<>>
    <3>1. first \o SubSeq(changes, 1, m) = SubSeq(changes, 1, m)
      BY <2>2, <2>3
    <3> QED BY <2>1, <2>2, <3>1, ShowKeeps
  <2>4. CASE first = <<None>>
    <3>1. /\ <<None>> \o SubSeq(changes, 1, m) \in Seq(Tx \cup {None})
          /\ BeginningOf(<<None>> \o SubSeq(changes, 1, m), Events)
      BY <1>1, RegistrationBegins DEF Facts
    <3> QED BY <2>1, <2>2, <2>4, <3>1, ShowKeeps
  <2> QED BY <2>3, <2>4 DEF Registrations
<1>5. CASE \E next \in Stage : MovesTo(x, next, answer[x])
  BY <1>2, <1>5, MoveKeeps
<1>6. CASE ReadDocument(x)
  <2>1. PICK n \in 0..Len(Events) :
          LET g == LastOf(SubSeq(Events, 1, n)) IN
          IF kind[x] = "history"
            THEN MovesTo(x, "answered",
                   [source |-> "document", document |-> None, current |-> g,
                    total |-> 0, history |-> <<>>])
            ELSE MovesTo(x, "events", [NoAnswer EXCEPT !.document = g])
    BY <1>6 DEF ReadDocument
  <2> DEFINE b == SubSeq(Events, 1, n)
             g == LastOf(b)
  <2>2. b \in Seq(Tx \cup {None}) /\ BeginningOf(b, Events)
    BY <1>1, PageBegins DEF Facts
  <2>3. b # <<>> => b[Len(b)] \in Entries(Events)
    BY <1>1, <2>2, LastIsEntry DEF Facts
  <2> HIDE DEF b
  <2>4. g = None \/ (g \in Guardian /\ \E e \in Entries(changes) \cup {None} : After(call, e) = g)
    BY <1>1, <2>3 DEF LastOf, ControllerAfter, After, Facts
  <2> HIDE DEF g
  <2> DEFINE a == [source |-> "document", document |-> None, current |-> g,
                   total |-> 0, history |-> <<>>]
             d == [NoAnswer EXCEPT !.document = g]
  <2>5. d = [source |-> "none", document |-> g, current |-> None,
             total |-> 0, history |-> <<>>]
    BY DEF NoAnswer
  <2>6. BeginningOf(<<>>, <<None>> \o changes)
    BY <1>1 DEF Facts, BeginningOf
  <2>7. a \in Answer /\ True(a, changes, call)
    <3>1. a.source = "document" /\ a.document = None /\ a.current = g /\ a.history = <<>>
      OBVIOUS
    <3>2. a \in Answer
      BY <2>4 DEF Answer
    <3> HIDE DEF a
    <3>3. HistoryIsIn(a, changes) /\ NamesLast(a, call) /\ TotalTells(a)
      BY <2>6, <3>1 DEF HistoryIsIn, NamesLast, TotalTells
    <3>4. NamedOccurred(a, changes, call)
      BY <2>4, <3>1 DEF NamedOccurred
    <3> QED BY <3>2, <3>3, <3>4 DEF True
  <2>8. d \in Answer /\ True(d, changes, call)
    <3>1. d.source = "none" /\ d.document = g /\ d.current = None /\ d.history = <<>>
      BY <2>5
    <3> HIDE DEF d
    <3>2. d \in Answer
      BY <2>4, <2>5 DEF Answer
    <3>3. HistoryIsIn(d, changes) /\ NamesLast(d, call) /\ TotalTells(d)
      BY <2>6, <3>1 DEF HistoryIsIn, NamesLast, TotalTells
    <3>4. NamedOccurred(d, changes, call)
      BY <2>4, <3>1 DEF NamedOccurred
    <3> QED BY <3>2, <3>3, <3>4 DEF True
  <2>9. MovesTo(x, "answered", a) \/ MovesTo(x, "events", d)
    BY <2>1 DEF g, b
  <2> HIDE DEF a, d
  <2> QED BY <2>7, <2>8, <2>9, MoveKeeps DEF Stage
<1>7. IndexerFails(x) \/ RangeLimit(x) \/ QueryFails(x)
        => \E next \in Stage : MovesTo(x, next, answer[x])
  <2>1. {"events", "document", "answered", "failed"} \subseteq Stage
    BY DEF Stage
  <2> QED BY <2>1 DEF IndexerFails, RangeLimit, QueryFails
<1> QED BY <1>3, <1>4, <1>5, <1>6, <1>7 DEF Handle

---------------------------------------------------------------------------
(* HInv is inductive. *)
LEMMA HInductive == HInv /\ [HistoryNext]_historyVars => HInv'
<1> SUFFICES ASSUME HInv, [HistoryNext]_historyVars PROVE HInv'
  OBVIOUS
<1>1. CASE UNCHANGED historyVars
  <2>1. UNCHANGED <<vars, changes>> /\ UNCHANGED <<stage, kind, answer>>
    BY <1>1 DEF historyVars, queryVars
  <2>2. /\ IInv' /\ TypeOK' /\ EventsAreHandedOver'
        /\ changes' \in Seq(HandedOver') /\ UNCHANGED <<changes, call>>
    BY <2>1, ChainStands
  <2>3. HistoryTypeOK'
    BY <2>1, <2>2 DEF HInv, HistoryTypeOK
  <2>4. QueriesAreTrue'
    BY <2>1, <2>2 DEF HInv, QueriesAreTrue
  <2> QED BY <2>2, <2>3, <2>4 DEF HInv
<1>2. CASE HistoryNext
  BY <1>2, TransferKeeps, AskKeeps, HandleKeeps DEF HistoryNext
<1> QED BY <1>1, <1>2

LEMMA InvImplies == HInv => HistoryTypeOK /\ AnswersAreTrue
<1> SUFFICES ASSUME HInv, NEW x \in Query PROVE
      LET a == answer[x] IN
      /\ BeginningOf(a.history, Events) \/ (a.source = "chain" /\ BeginningOf(a.history, changes))
      /\ a.history # <<>> => a.current = ControllerAfter(a.history[Len(a.history)])
      /\ a.source = "indexer" =>
           Len(a.history) = a.total \/ (Len(a.history) = PageLimit /\ a.total > PageLimit)
      /\ \A g \in {a.current, a.document} \ {None} :
           \E i \in DOMAIN Events : ControllerAfter(Events[i]) = g
  BY DEF HInv, AnswersAreTrue
<1>1. \A e : After(call, e) = ControllerAfter(e)
  BY DEF After, ControllerAfter
<1>2. Facts /\ True(answer[x], changes, call)
  BY FactsHold DEF HInv, QueriesAreTrue
<1>3. \A e \in Entries(changes) \cup {None} : \E i \in DOMAIN Events : Events[i] = e
  <2>1. Entries(Events) = Entries(changes) \cup {None}
    BY <1>2 DEF Facts
  <2> QED BY <2>1 DEF Entries
<1>4. HistoryIsIn(answer[x], changes) /\ Events = <<None>> \o changes
  BY <1>2 DEF True, Facts
<1>5. NamesLast(answer[x], call) /\ TotalTells(answer[x])
  BY <1>2 DEF True
<1>6. \A g \in {answer[x].current, answer[x].document} \ {None} :
        \E i \in DOMAIN Events : ControllerAfter(Events[i]) = g
  BY <1>1, <1>2, <1>3 DEF True, NamedOccurred
<1> QED BY <1>1, <1>4, <1>5, <1>6 DEF HistoryIsIn, NamesLast, TotalTells

(* Every reachable state of the queries is well typed, and the events are  *)
(* those of executed transfers only.                                       *)
THEOREM HistoryTypeCorrect == HistorySpec => []HistoryTypeOK
<1> QED BY InitHInv, HInductive, InvImplies, PTL DEF HistorySpec

(* What the gateway tells of a pet's history is a beginning of what the    *)
(* chain executed, and whoever it names as controller has been one,        *)
(* whichever nodes were asked and whatever happened meanwhile.             *)
THEOREM HistoriesAreTrue == HistorySpec => []AnswersAreTrue
<1> QED BY InitHInv, HInductive, InvImplies, PTL DEF HistorySpec

---------------------------------------------------------------------------
(* TransferVerification, the nose-print check that comes before a transfer *)
(* is accepted here.                                                       *)

(* A request past the copy has its picture in permanent storage; so has    *)
(* the request behind a job, and there is one behind every verification on *)
(* the chain.                                                              *)
HasPicture(r) ==
  verification[r].pc \in {"delete", "queue", "ok"} => verification[r].image \in perm
Backed(r) ==
  /\ bioJob[r].state # "absent" =>
       verification[r].pc # "new" /\ verification[r].image \in perm
  /\ r \in recorded => bioJob[r].state # "absent"
NoPictureLost == Image \subseteq temp \cup perm
VerificationInv ==
  /\ VerifyTypeOK /\ NoPictureLost
  /\ \A r \in VerifyRequest : /\ HasPicture(r) /\ Backed(r)
                              /\ Sound(bioJob[r], {"record"})

LEMMA VerificationInit == VerifyInit => VerificationInv
<1> SUFFICES ASSUME VerifyInit PROVE VerificationInv
  OBVIOUS
<1>1. \A r \in VerifyRequest : bioJob[r] = NoJob
  BY DEF VerifyInit
<1>2. \A r \in VerifyRequest : Sound(bioJob[r], {"record"}) /\ bioJob[r].state = "absent"
  <2>1. Sound(NoJob, {"record"})
    BY FreshIsSound
  <2>2. NoJob.state = "absent"
    BY DEF NoJob
  <2> QED BY <1>1, <2>1, <2>2
<1>3. bioJob \in [VerifyRequest -> Job({"record"})]
  BY <1>2 DEF Sound, VerifyInit
<1>4. VerifyTypeOK
  BY <1>3 DEF VerifyInit, VerifyTypeOK, NoVerification
<1>5. \A r \in VerifyRequest : HasPicture(r) /\ Backed(r)
  BY <1>2 DEF VerifyInit, NoVerification, HasPicture, Backed
<1> QED BY <1>2, <1>4, <1>5 DEF VerificationInv, NoPictureLost, VerifyInit

(* A request that only moves to another step.                              *)
LEMMA VerificationMoves ==
  ASSUME VerificationInv, NEW r \in VerifyRequest,
         NEW p \in {"compare", "queue", "mismatch", "error", "delete", "ok"},
         Goto(r, p), verification[r].pc # "new",
         p \in {"delete", "queue", "ok"} => verification[r].image \in perm',
         perm \subseteq perm', perm' \subseteq Image, temp' \subseteq Image,
         Image \subseteq temp' \cup perm', UNCHANGED recorded,
         \/ UNCHANGED bioJob
         \/ verification[r].image \in perm' /\ bioJob' = [bioJob EXCEPT ![r] = Queued]
  PROVE  VerificationInv'
<1>t. /\ verification \in [VerifyRequest ->
                          [pc : {"new", "copy", "delete", "compare", "queue", "ok",
                                 "mismatch", "error"},
                           image : Image \cup {Null}]]
      /\ bioJob \in [VerifyRequest -> Job({"record"})]
  BY DEF VerificationInv, VerifyTypeOK
<1>0. Sound(Queued, {"record"}) /\ Queued.state # "absent"
  BY FreshIsSound DEF Queued, NoJob
<1>1. /\ verification'[r] = [verification[r] EXCEPT !.pc = p]
      /\ \A q \in VerifyRequest \ {r} : verification'[q] = verification[q]
      /\ DOMAIN verification' = VerifyRequest
  BY <1>t DEF Goto
<1>2. verification'[r].pc = p /\ verification'[r].image = verification[r].image
  BY <1>t, <1>1
<1>3. VerifyTypeOK'
  <2>1. verification' \in [VerifyRequest ->
                              [pc : {"new", "copy", "delete", "compare", "queue", "ok",
                                     "mismatch", "error"},
                               image : Image \cup {Null}]]
    BY <1>t DEF Goto
  <2>2. bioJob' \in [VerifyRequest -> Job({"record"})]
    BY <1>t, <1>0 DEF Sound
  <2> QED BY <2>1, <2>2 DEF VerificationInv, VerifyTypeOK
<1>4. \A q \in VerifyRequest \ {r} : bioJob'[q] = bioJob[q]
  BY <1>t
<1>5. /\ Sound(bioJob'[r], {"record"})
      /\ bioJob'[r] = bioJob[r] \/ (verification[r].image \in perm' /\ bioJob'[r] = Queued)
  BY <1>t, <1>0 DEF VerificationInv
<1>6. ASSUME NEW q \in VerifyRequest
      PROVE  (HasPicture(q) /\ Backed(q) /\ Sound(bioJob[q], {"record"}))'
  <2>1. HasPicture(q) /\ Backed(q) /\ Sound(bioJob[q], {"record"})
    BY DEF VerificationInv
  <2>2. CASE q = r
    BY <1>0, <1>2, <1>5, <2>1, <2>2 DEF HasPicture, Backed
  <2>3. CASE q # r
    BY <1>1, <1>4, <2>1, <2>3 DEF HasPicture, Backed
  <2> QED BY <2>2, <2>3
<1> QED BY <1>3, <1>6 DEF VerificationInv, NoPictureLost

LEMMA VerificationStep ==
  VerificationInv /\ [VerifyNext]_verifyVars => VerificationInv'
<1> SUFFICES ASSUME VerificationInv, [VerifyNext]_verifyVars PROVE VerificationInv'
  OBVIOUS
<1> DEFINE Handlers == [pc : {"new", "copy", "delete", "compare", "queue", "ok",
                              "mismatch", "error"},
                        image : Image \cup {Null}]
<1>t. /\ temp \subseteq Image /\ perm \subseteq Image
      /\ verification \in [VerifyRequest -> Handlers]
      /\ bioJob \in [VerifyRequest -> Job({"record"})]
      /\ recorded \subseteq VerifyRequest
  BY DEF VerificationInv, VerifyTypeOK
<1>i. /\ Image \subseteq temp \cup perm
      /\ \A r \in VerifyRequest : HasPicture(r) /\ Backed(r) /\ Sound(bioJob[r], {"record"})
  BY DEF VerificationInv, NoPictureLost
<1>1. ASSUME NEW r \in VerifyRequest, NEW i \in Image, VerifyTransfer(r, i)
      PROVE  VerificationInv'
  <2>1. /\ verification[r].pc = "new"
        /\ verification' = [verification EXCEPT ![r] = [pc |-> "copy", image |-> i]]
        /\ UNCHANGED <<temp, perm, bioJob, recorded>>
    BY <1>1 DEF VerifyTransfer, fileVars
  <2>2. VerifyTypeOK'
    BY <1>t, <2>1 DEF VerifyTypeOK
  <2>3. \A q \in VerifyRequest : (HasPicture(q) /\ Backed(q))'
    BY <1>t, <1>i, <2>1 DEF HasPicture, Backed
  <2> QED BY <1>i, <2>1, <2>2, <2>3 DEF VerificationInv, NoPictureLost
<1>2. ASSUME NEW r \in VerifyRequest, CopyImage(r) PROVE VerificationInv'
  BY <1>2, <1>t, <1>i, VerificationMoves DEF CopyImage
<1>3. ASSUME NEW r \in VerifyRequest, DeleteImage(r) PROVE VerificationInv'
  <2>1. verification[r].image \in perm
    BY <1>3, <1>i DEF DeleteImage, HasPicture
  <2> QED BY <1>3, <1>t, <1>i, <2>1, VerificationMoves DEF DeleteImage
<1>4. ASSUME NEW r \in VerifyRequest, Compare(r) PROVE VerificationInv'
  BY <1>4, <1>t, <1>i, VerificationMoves DEF Compare, fileVars
<1>5. ASSUME NEW r \in VerifyRequest, QueueBiometricVerification(r) PROVE VerificationInv'
  <2>1. verification[r].image \in perm
    BY <1>5, <1>i DEF QueueBiometricVerification, HasPicture
  <2> QED BY <1>5, <1>t, <1>i, <2>1, VerificationMoves
          DEF QueueBiometricVerification, fileVars
<1>6. ASSUME NEW r \in VerifyRequest, RequestFails(r) PROVE VerificationInv'
  <2>1. verification[r].pc = "queue" => verification[r].image \in perm
    BY <1>i DEF HasPicture
  <2> QED BY <1>6, <1>t, <1>i, <2>1, VerificationMoves
          DEF RequestFails, Verifying, fileVars
<1>8. ASSUME NEW r \in VerifyRequest, RecordVerification(r) PROVE VerificationInv'
  <2>1. /\ UNCHANGED <<temp, perm, verification>>
        /\ \A q \in VerifyRequest \ {r} : bioJob'[q] = bioJob[q]
        /\ recorded' \subseteq recorded \cup {r}
        /\ bioJob'[r] \in {Started(bioJob[r], "record"), Completed(bioJob[r]), Thrown(bioJob[r])}
        /\ DOMAIN bioJob' = VerifyRequest
    BY <1>8, <1>t DEF RecordVerification, fileVars
  <2>2. /\ bioJob[r].state \in {"waiting", "active"}
        /\ Sound(bioJob'[r], {"record"}) /\ bioJob'[r].state # "absent"
    <3>1. CASE Waiting(bioJob[r]) /\ bioJob'[r] = Started(bioJob[r], "record")
      BY <1>i, <3>1, WalkIsSound, NeverAbsentAgain DEF Waiting
    <3>2. CASE /\ StandsAt(bioJob[r], "record")
               /\ bioJob'[r] \in {Completed(bioJob[r]), Thrown(bioJob[r])}
      BY <1>i, <3>2, EndIsSound, NeverAbsentAgain DEF StandsAt
    <3>3. \/ Waiting(bioJob[r]) /\ bioJob'[r] = Started(bioJob[r], "record")
          \/ /\ StandsAt(bioJob[r], "record")
             /\ bioJob'[r] \in {Completed(bioJob[r]), Thrown(bioJob[r])}
      BY <1>8, <1>t DEF RecordVerification
    <3> QED BY <3>1, <3>2, <3>3
  <2>3. bioJob' \in [VerifyRequest -> Job({"record"})]
    BY <1>8, <1>t, <2>2 DEF RecordVerification, Sound
  <2>4. VerifyTypeOK'
    BY <1>t, <2>1, <2>3 DEF VerifyTypeOK
  <2>5. ASSUME NEW q \in VerifyRequest
        PROVE  (HasPicture(q) /\ Backed(q) /\ Sound(bioJob[q], {"record"}))'
    <3>1. CASE q = r
      BY <1>i, <2>1, <2>2, <3>1 DEF HasPicture, Backed
    <3>2. CASE q # r
      BY <1>i, <2>1, <3>2 DEF HasPicture, Backed
    <3> QED BY <3>1, <3>2
  <2> QED BY <1>i, <2>1, <2>4, <2>5 DEF VerificationInv, NoPictureLost
<1>9. CASE VerifyRestart
  <2>1. /\ UNCHANGED <<temp, perm, recorded>>
        /\ \A r \in VerifyRequest : bioJob'[r] = Stalled(bioJob[r])
        /\ DOMAIN bioJob' = VerifyRequest /\ bioJob' = [r \in VerifyRequest |-> bioJob'[r]]
        /\ verification' = [r \in VerifyRequest |-> IF Verifying(r)
                              THEN [verification[r] EXCEPT !.pc = "error"] ELSE verification[r]]
    BY <1>9 DEF VerifyRestart, fileVars
  <2>2. \A r \in VerifyRequest : /\ Sound(bioJob'[r], {"record"})
                                 /\ bioJob'[r].state = "absent" <=> bioJob[r].state = "absent"
    <3> SUFFICES ASSUME NEW r \in VerifyRequest
                 PROVE  /\ Sound(bioJob'[r], {"record"})
                        /\ bioJob'[r].state = "absent" <=> bioJob[r].state = "absent"
      OBVIOUS
    <3>1. Sound(bioJob[r], {"record"}) /\ bioJob'[r] = Stalled(bioJob[r])
      BY <1>i, <2>1
    <3>2. Stalled(bioJob[r]).state = "absent" <=> bioJob[r].state = "absent"
      BY <3>1, NeverAbsentAgain
    <3> QED BY <3>1, <3>2, StallIsSound
  <2>3. VerifyTypeOK'
    <3>1. verification' \in [VerifyRequest -> Handlers]
      BY <1>t, <2>1
    <3>2. bioJob' \in [VerifyRequest -> Job({"record"})]
      BY <2>1, <2>2 DEF Sound
    <3> QED BY <1>t, <2>1, <3>1, <3>2 DEF VerifyTypeOK
  <2>4. ASSUME NEW q \in VerifyRequest PROVE (HasPicture(q) /\ Backed(q))'
    <3>1. /\ verification'[q].image = verification[q].image
          /\ \/ verification'[q].pc = verification[q].pc
             \/ verification'[q].pc = "error" /\ verification[q].pc # "new"
      BY <1>t, <2>1 DEF Verifying
    <3>2. HasPicture(q) /\ Backed(q)
      BY <1>i
    <3>3. bioJob'[q].state = "absent" <=> bioJob[q].state = "absent"
      BY <2>2
    <3> QED BY <2>1, <3>1, <3>2, <3>3 DEF HasPicture, Backed
  <2> QED BY <1>i, <2>1, <2>2, <2>3, <2>4 DEF VerificationInv, NoPictureLost
<1>10. CASE UNCHANGED verifyVars
  <2>1. UNCHANGED <<temp, perm, verification, bioJob, recorded>>
    BY <1>10 DEF verifyVars
  <2> QED BY <1>t, <1>i, <2>1
        DEF VerificationInv, NoPictureLost, VerifyTypeOK, HasPicture, Backed
<1> QED
  BY <1>1, <1>2, <1>3, <1>4, <1>5, <1>6, <1>8, <1>9, <1>10
     DEF VerifyNext, Verify

LEMMA VerificationInductive == VerifySpec => []VerificationInv
BY VerificationInit, VerificationStep, PTL DEF VerifySpec

(* What the requests, the storage and the queue hold has its type. *)
THEOREM VerificationTypes == VerifySpec => []VerifyTypeOK
<1>1. VerificationInv => VerifyTypeOK
  BY DEF VerificationInv
<1> QED BY <1>1, VerificationInductive, PTL

(* No picture is ever lost, and none is missing behind a proof that was    *)
(* handed out or a verification on the chain, however many requests verify *)
(* the same picture and whenever one fails.                                *)
THEOREM ProofsHavePictures == VerifySpec => []ProofHasPicture
<1>1. VerificationInv => ProofHasPicture
  BY DEF VerificationInv, VerifyTypeOK, NoPictureLost, HasPicture, Backed,
     ProofHasPicture
<1> QED BY <1>1, VerificationInductive, PTL

=============================================================================
