# A TLA+ model of the DogCatPaw API gateway

The repository is a NestJS gateway between a mobile client, an Ethereum-compatible
chain (Besu), a Spring backend, a VC service and an ML server. It keeps its own state
in Redis (sessions, challenges, e-mail codes, transfer records, Bull queues), in the
process (a local cache, sockets) and in object storage (`temp/` and permanent
prefixes). What is hard about it is what happens between its awaits: handlers of
different requests interleave at every round trip, jobs are retried and restarted, and
the chain, Spring, the VC service and storage are brought up to date one after the other.

The models follow the production configuration: clients sign with their wallets, and
one replica of the gateway runs (`k8s/`), so the process-local cache is one cache.

## 1. The system and its parts

| Part | State it keeps | Operations that change state | Modules |
| --- | --- | --- | --- |
| Sessions (`auth/`) | `blocked:`, `vp:token:`, `vp:verified:` and `refresh:` keys; the same VPs and verifications in the process-local cache | login, refresh, logout, logout-all; `SpringAuthGuard` fills the caches | `AuthSession`, `SessionBook`, `AuthSessionProofs` |
| Login challenge (`auth/auth.service.ts`) | one `challenge:{wallet}` key with a TTL | challenge, signature check | `LoginChallenge`, `AuthSessionProofs` |
| Job queues (Bull) | the jobs: attempts, stalls | add, start, return, throw, stall | `JobQueue`, `JobQueueProofs` |
| Pet transfer (`pet/`, `vc/`, `spring/`) | on chain: controller of the pet; VC service: credentials; Spring: owner; nothing of the gateway's own | accept-transfer, credential job, sync job, create-vc-with-signature | `PetTransfer`, `TransferLedger`, `PetTransferProofs` |
| Pet history (`pet/`, `indexer/`, `admin/`) | none of its own; reads the indexer, and, from nodes behind a load balancer, the chain's events and the DID document | history, pet information | `ControllerHistory`, `PetTransferProofs` |
| Pet registration | images, feature vector, chain, Spring, credentials | register, image-move job, link job, credential job, sync job | `PetRegistration`, `PetRegistrationProofs` |
| Transfer verification | nose prints, proofs held by clients | verify-transfer, record job | `TransferVerification`, `PetTransferProofs` |
| E-mail codes (`email/`) | `email_verify:{wallet}` with a TTL, the account at Spring | send-code, verify-code, mail job | `EmailVerification`, `GuardianRegistrationProofs` |
| Guardian registration (`guardian/`) | chain, VC service, Spring, profile picture | register, VC sync job, picture job, sign-up job | `GuardianRegistration`, `GuardianRegistrationProofs` |
| Guardian registry (`abis/gudianRegistry.sol`, `guardian/`) | on chain: profiles, levels, verifications, lists of pets, the roll of guardians; link requests | the contract's calls; prepare-link-pet, link-pet | `GuardianRegistry`, `PetBook`, `GuardianRegistryProofs` |
| Spring proxy (`spring/spring.controller.ts`, `spring.proxy.service.ts`, `common/`) | images in storage; Spring's posts | 32 routes, five of which move images first; presigned uploads | `SpringPosts`, `SpringPostsProofs` |
| Error codes (`common/const/`) | none | what a failure of Spring becomes for the client | `SpringPosts` |
| Chat and the transfer record (`chat/`, `pet.controller.ts` `transfer/*`) | sockets and rooms; Redis channels; `adoption:transfer:{id}` | connect, joinRoom, leaveRoom, sendMessage, broadcast; transfer init, data, update, cancel | `AdoptionChat`, `AdoptionChatProofs` |
| Faucet, nose embedding, the other admin routes | none of their own | one outgoing call per route | not modelled |

How they interact. `AuthSession` decides which requests reach the routes of all other
parts. `PetTransfer`, `PetRegistration`, `TransferVerification`, `EmailVerification` and
`GuardianRegistration` queue jobs and extend `JobQueue`. A client gets a proof from `TransferVerification`
and sends one to `PetTransfer`, but the gateway neither signs nor keeps it, so no model ties the two.
`ControllerHistory` extends `PetTransfer` with those who ask what became of
the pet; both users of a transfer talk in `AdoptionChat`,
where the steps of the transfer are announced. `GuardianRegistry` is the contract that
`GuardianRegistration` writes a guardian to and the link job of `PetRegistration` a pet.
Registration and posts share the `temp/` prefix of the object storage.

Which behaviours are hard, and what makes each part correct:

- **Sessions.** A request reads a VP or a verification, awaits, and writes it to the local
  cache after a logout has cleared it. The revocation of an access token must hold as long as the token
  would verify; no request that starts later may be admitted with it; a cached verification must stem
  from a VP that verifies; logout-all must reach every session whose VP names the wallet.
- **Challenge.** Requests of a wallet share one key. A signature may be tried only against
  the newest challenge, never one that was used, replaced or had expired when it was read.
- **Transfer.** The wait for a receipt has a time limit, jobs retry, processes die, and all the gateway
  learns of a transaction is whether it was executed: who gave the pet to whom is the client's word. Nothing
  outside may follow a request whose transaction the chain has not executed, a success means both
  jobs are queued, and no order of jobs takes a credential that no answered request named.
- **History.** The indexer lags or is down, nodes limit their queries and lag behind each other, and transfers are
  mined between two reads. What is shown must have been executed, from the first entry on and in that
  order, and a total must tell what is missing.
- **Registration.** A move of several images may stop anywhere and start again, beside
  another one of the same images. No image may be lost; Spring must not hear of a pet
  before its images are in place; nothing may happen before the transaction that was named is mined.
- **Verification.** The print is moved before the comparison and the queue. A proof that is
  handed out must have its picture.
- **E-mail.** GET, TTL and SETEX are separate, so guesses at once overwrite each other and a newer code, or bring back an
  accepted one. No attempt may be counted that was not made, and a code that comes back must
  come back with fewer attempts left.
- **Guardian.** Two requests of one guardian, one picture. Only after a mined transaction is anybody
  synced; sign-up follows the picture; every request is answered unless the chain keeps it waiting.
- **Registry.** Transactions are mined long after they were signed, and guardians are verified,
  deactivated and unlink pets in between; lists, counters and profiles are separate. A list must
  be the bag of what was linked and not unlinked, the roll and the levels must agree with the profiles; a
  success must have a mined transaction behind it.
- **Posts.** Two requests name one file; Spring acts after the gateway has given up. A
  post must show images that are there, and the answer must stay true.
- **Chat.** A join has three awaits while messages arrive; broadcasts get lost. A joined
  socket must not miss what was stored, nor see what is not for it; news of a transfer must
  be true although updates work on what they read before.

`PROJECT.json` lists under "hazards" each of these at its line.

## 2. How modules correspond to the code

An `async` handler is a record per request (`h`, `call`, `req`) whose `pc` names the await it
stands at: everything up to the next await is one action. A round trip that changes
another service and then fails to answer has two outcomes, applied or not. Clients are
unrestricted: any request at any time. `Restart` ends the handlers and stalls active jobs;
Redis, storage and the other services survive it.

- `AuthSession`: `vpRedis`, `verRedis`, `blockedUntil` and `refresh` are the Redis keys,
  `vpLocal` and `verLocal` the process-local cache. `LoginStart .. StoreVp .. CacheVp`,
  `RefreshRead .. RefreshMint`, `Logout .. DropVerLocal` and `LogoutAll .. ScanKey` are the
  controller's and the token service's awaits; `SpringCheck .. Respond` is the guard.
  `revoked`, `everVp` and `delivered` are history. `BringToken` is a client that sends as bearer what no login gave it as
  an access token, a refresh JWT or a Web3Token: the middleware asks neither for the type nor for the life of what it
  verifies, so such a token, of `brought`, may be valid for longer than a block entry. `ScanKey` takes one key at a time, so
  sessions come and go while the scan runs, and compares what the scan compares: the holder the VP names (`Names`).
  Cryptography is reduced to what it decides: a
  VP is one `verifyPresentation` accepts, which the wallet signed and names, or one it refuses, which names whom
  the client liked or nobody. `SameSecond` says
  whether two `sign` calls for a wallet may fall into one second and give the same JWT.
- `SessionBook`: the abstract specification of sessions: signed, bound to a presentation,
  handed out, ended, lapsed; a request is served with a session, taken for verified or
  not, and a logout ends one or all. No keys, caches, TTLs or round trips. `AuthSession`
  implements it with the mapping `serving` (what a handler does for its request, not
  how far it is) and `lapsed`.
- `LoginChallenge`: `createChallenge` (`SETEX`), `verifySignature` (`GET`, compare, `DEL`).
- `JobQueue`: what a processor sees of Bull: attempts counted when it throws, stalls
  when its worker dies. The queues are independent and any waiting job may start.
- `PetTransfer`: `AcceptTransfer .. QueueTransferPet`, the credential
  job (`InvalidateVC`, `StoreTransferVC`) and the sync job (`DelegateAdoption`). A request carries a claim: the
  guardian before and after, and a transaction that may be any (`call` says what each one is on the chain, if it is
  signed at all). `prepare-transfer` stores nothing and has no action.
  `NotConfirmed` is every way `sendSignedTransaction` throws: its time limit, which leaves
  the transaction pending, a revert, an RPC error.
- `TransferLedger`: the abstract specification: the chain executes transactions, some of which hand the pet on, and
  credentials and reports follow claims whose transaction was executed, in any order. `PetTransfer` implements it
  with the mapping `executed`, what each mined transaction is.
  `CreateVC` is the route by which a guardian stores a credential without a transfer.
- `ControllerHistory`: extends `PetTransfer` with the contract's events (`changes`) and with queries.
  `AskHistory` and `AskInfo` are the two routes; `stage` is the service a query reads next: the indexer, the
  events (`ReadEvents`), the document. `RPC_URL` is a load balancer over the Besu nodes (`k8s/configmap.yaml:28`), so each
  read is answered by a node that has executed some beginning of the chain, and the next one perhaps by a node
  that is behind it.
- `GuardianRegistry`: the calls of the contract by any wallet, one action each; transactions from signing (`SignTx`:
  a link, or anything else) to `Mine` and `MineOther`; and the route: `LinkWithRaw`, `LinkWithHash` and
  `LinkByAdmin` are the three ways `GuardianService.linkPet` goes, the first two with any transaction.
- `PetBook`: the abstract specification of the contract's lists: a bag of pets for each guardian,
  who enters once and closes for good. `GuardianRegistry` implements it with `held`, the count
  of each pet in `_guardianPets`, and `written`, the executed transactions.
- `PetRegistration`: `Register .. QueuePetVCCreation` is the controller; `StartMove`,
  `CopyImage`, `DeleteImage`, `QueuePetRegistration` is the image job with `cursor` as the
  loop's position; then the link, credential and sync jobs. A request names any transaction and any
  pet (`AnyForm` adds which optional parts it has).
- `TransferVerification`: `VerifyTransfer`, the copy and the deletion of the nose print,
  `Compare`, `QueueBiometricVerification`, and the record job, which does nothing in production.
- `EmailVerification`: one action per round trip of `verifyCode`, and `SendCode`, for any number of requests at once.
- `GuardianRegistration`: `RegisterGuardian .. QueueSpring` and the three jobs. A request brings a raw transaction or the
  hash of any; `NotConfirmed` ends the wait for a hash after its 30 seconds, while a raw transaction is waited for
  until it is executed, reverts or the node fails (`WaitFails`).
- `SpringPosts`: `BeginPost` for the routes with images and `Begin` for the others, the loop of
  `CopyImage` and `DeleteImage`, `proxyToSpring` with its four endings, and Spring, which may
  handle a request whenever it has received it. `MapHttpStatusToSpringError` and
  `NetworkCode` are the error codes, as the number in `SPRING_<number>`.
- `AdoptionChat`: `Connect` is the handshake, `HandleJoinRoom .. AnswerJoin` the awaits of
  `joinRoom`, `OnBroadcast` the `pmessage` handler; `InitTransfer`, `UpdateTransferStatus`, `StoreRecord`,
  `PublishNews`, `EmitNews` the transfer routes. `toSpring` and `toGateway` are the Redis
  channels, which forget what nobody listens to. `Step` is what updates may report, which the route does not look at; the
  proofs are for any set of them.

## 3. The runs

| Run | Instance | What it shows |
| --- | --- | --- |
| `AuthSession` | 2 wallets, 2 tokens, 2 handlers, TTLs of 1 tick, brought tokens of 2, all six endpoints | `RevokedStaysBlocked`, `NoAdmissionAfterRevocation`, `VerifiedHadVp`, `LogoutAllBlocksVpSessions`, `ImplementsSessions` |
| `LoginChallenge` | 2 wallets, 4 challenges, 3 requests, TTL 2 of 4 ticks | `OnlyFreshChallengeIsTried` |
| `PetTransfer` | 2 guardians, 2 transactions of any kind, 2 requests with any claim, 2 attempts, 1 stall | `ImplementsLedger`, `AnsweredTransferIsQueued`, `CredentialsFollowClaims` |
| `ControllerHistory` | 2 guardians, 2 transactions, 1 request, 1 query, pages of 2 entries, fair | `AnswersAreTrue`, `EveryRequestIsAnswered` |
| `PetRegistration` | 2 requests, 2 pets, 2 transactions, 2 images, 2 attempts, 1 stall, 3 forms | `NoImageLost`, `SyncAfterImages`, `NothingBeforeChain` |
| `GuardianRegistry` | 2 wallets, one of them deployer and admin key, 2 pets, 2 transactions, 2 requests | `ImplementsBook`, `UnlinkTakesItsPet`, `RollIsExact`, `LevelFollowsProof`, `SuccessIsMined` |
| `TransferVerification` | 2 images, 3 requests, 2 attempts, 1 stall | `ProofHasPicture` |
| `EmailVerification` | 2 requests at once, 2 codes, TTL 2 of 3 ticks, up to 4 guesses | `AttemptsAreGuesses`, `ReturnedCodeIsCounted` |
| `EmailVerificationAttempts` | 2 requests at once, 1 code, up to 4 guesses | violates `MaxThreeAttempts`: see section 6 |
| `GuardianRegistration` | 2 requests, the registration and another transaction, 1 restart, 1 stall, fair | `OnlyConfirmedIsSynced`, `PictureBeforeSignup`, `EveryRequestIsAnswered` |
| `SpringPosts` | 2 images, 2 requests of any route with up to 2 images, replies 200, 404 and 502 | `PostsShowImages`, `NoImageLost`, `AnswersAreTrue` |
| `AdoptionChat` | 1 socket, 2 rooms, 2 joins, 1 message, 1 adoption, 2 requests | `NoMessageMissed`, `NewsIsTrue` |

Each passing run also checks its module's type invariant, but for those of `AuthSession`, `ControllerHistory`,
`GuardianRegistry`, `GuardianRegistration` and `SpringPosts`, which are only proved (section 4). For every property of every run
`PROJECT.json` names a mutant of the code (the definitions `X_...` beside `X`) that TLC finds
to violate it.

**The bounds, and why they are enough.** Two of each actor: every hazard above is a race of
two handlers, two jobs or two requests over one key or one file, and two are what it takes.
Two attempts give a job that throws, one that succeeds after it, and one that fails for
good; a third, as in production, only repeats the second. One stall gives a job that is run again and one
that is given up. A page of two entries is full when both transfers are mined. One tick of
TTL separates an entry that lives from one that has expired. Two images are the least for
which a loop can stop halfway. Two tokens are a session that is revoked and one signed, or brought,
meanwhile; two transactions are the one a request should have named and another; two rooms are the right one and the
wrong one. In `AdoptionChat` one socket is enough: sockets share nothing but the rooms they are in, and every property
is about one socket. The clocks stop at `MaxNow`, refresh tokens at `MaxRefresh`, the life of brought tokens at
`MaxExpiry`, codes at `MaxSends`, guesses at `MaxWrong`, restarts at `MaxRestarts`; all of them beyond the point where
the first entry has expired or been replaced.

Seven runs have constraints, each of which leaves out what the properties do not tell apart; they are in the `MC` modules
with their reasons, and the proofs need none of them:

- `AuthSession`: one wallet logs in, and a login is followed only if `MaxRefresh` leaves it a refresh token to sign
  (`LoginsSign`); one session at a time has a VP, which names some wallet (`OneVpSession`), since VPs and verifications are kept
  per token; the other wallet brings one token that lives as long as may be (`OneBrought`); a request to a `DIDAuthGuard` route,
  which reads and writes nothing, is served alone (`DidAlone`).
- `PetTransfer`: nobody hands the pet to themselves or claims so (`ToAnother`); the jobs of one queue run in a behaviour, since
  those of the other share no variable with them (`OneQueueRuns`, also in `GuardianRegistration`); a job throws or stalls, but not both
  (`ThrowsOrStalls`).
- `ControllerHistory`: no job runs and no guardian stores a credential (`ChainAndRequests`): no query reads what they write.
- `PetRegistration`: two requests are served together only without the optional fields, which do not touch the images they share
  (`PlainTogether`), and name one pet with one transaction or two with two (`SameOrOther`); the jobs of one of them are run again
  (`OneRunsAgain`); transactions nobody names do not move (`OnlyNamedMove`).
- `GuardianRegistry` (`Bounds`): the deployer alone is given the verifier's role and sends what links no pet, and two requests are
  served together only with one transaction, and while nobody is verified.
- `AdoptionChat` (`TwoHandlers`): at most two of the joins and requests are between two awaits.

Where `CHECK_DEADLOCK FALSE` stands the model may really stop: every request is answered and the clock has reached its bound.

Symmetry is declared only over model values that no definition chooses from, and never in
a run that checks liveness.

**Fairness.** `FairHistorySpec` of `ControllerHistory` (the `Fairness` of `PetTransfer`) and `FairSpec` of `GuardianRegistration`
are weak fairness of the handlers of requests and of nothing else: the event loop runs every continuation, and the wait for a
receipt ends after 30 s (`pet.service.ts:86` and `145`, `guardian.service.ts:84`). The other runs check safety only. The jobs
have no fairness, since neither the `httpService.patch` of `spring.processor.ts` nor the gRPC calls of
`vc.proxy.service.ts` have a time limit, so nothing is said of a job's end. Nor has the chain: it may never mine. `EveryRequestIsAnswered`
therefore holds of `accept-transfer` whatever the chain does, and of `guardian/register` unless the request waits for a raw transaction that is still
pending: the `tx.wait()` of `guardian.service.ts:122` has no limit, and neither is the wait assumed to fail (`MayWait`).
Clients, wallets and restarts have no fairness; restarts are bounded by `MaxRestarts` where one could repeat a handler for ever.

## 4. What is proved

TLAPS proves the following for every value of the constants, under the named
assumptions of the modules only (`TtlAssumption`: a token lives at least a tick and not
longer than its block entry, which is so of the access tokens the gateway signs, 24 h and 86400 s, and assumed of no token a client brings; `StatusAssumption`: error
statuses are 400 to 599; `KindAssumption`: a chat message is not a transfer's news;
`NoneAssumption`, `BoundAssumption` and the like say what the constants are). Three small
components are proved in the module of a larger one they work beside, which extends both (for
that their definitions have names of their own): `LoginChallenge` in `AuthSessionProofs`,
`TransferVerification` in `PetTransferProofs` and `EmailVerification` in `GuardianRegistrationProofs`.

- `AuthSessionProofs`. `TypeCorrect`, `RevocationLasts` (`RevokedStaysBlocked`) and
  `RevocationRefuses` (`NoAdmissionAfterRevocation`), of the access tokens that login and refresh hand out. `TypeOK` is not inductive: a step
  needs to know that a handler's wallet or token is set where it is used (`HandlerOK`) and that
  only signed tokens have a VP (`SessionOK`); the block entry outlives the JWT only
  because tokens are not issued in the future (`IssuedBefore`, `BlockOutlives`). The inductive
  invariant `IInv` is their conjunction. The action property follows from a
  lemma on what a step does to each handler (`KeepsStep`) and from `GuardOK`: a request under the guard
  never stands at a label of the logout handlers. `VerificationsAreEarned` (`VerifiedHadVp`): every VP in a cache or
  in the hands of a handler is one a login has bound to that token (`CachesBound`, `HandlersBound`), so
  a verification written back late, after the token was dropped, is still a true one.
  `LogoutAllIsComplete` (`LogoutAllBlocksVpSessions`) needs `~SameSecond`: then a session is touched by its own
  handler only until it is handed out (`Fresh`), afterwards its VP leaves Redis only because the
  token was revoked or has expired (`Traced`), and a logout-all that finds a key without a VP may therefore skip it;
  what it still owes is a key the SCAN has to return or the token it is about to block (`Owing`). `ActorStep`
  and `TurnStep` say what a step does to the one handler that moves.
  `AuthSessionIsSessionBook` (`ImplementsSessions`, the refinement) has the same hypothesis, without which a session
  that is handed out could be bound again. It rests on all of these invariants and on one more, what a handler
  does at each label, and that the token a logout-all is about to block belongs to its wallet (`Assigned`); each
  action maps to a step of the book or a stutter (`BeginStep`, `SignStep`, `GiveStep`, `EndStep`, `GuardStep`,
  `SurroundingStep`). In the run one wallet logs in; that no logout-all ends a session that names another wallet, however
  many log in, is what the theorem adds.
  Of `LoginChallenge`: `ChallengeTypes` and `ChallengesAreFresh` (`OnlyFreshChallengeIsTried`). What is stored is the newest
  challenge of its wallet and unused (`StoredIsFresh`), although every wallet's requests share one set of
  consumed challenges; for that a challenge must have been issued to the wallet whose key is deleted with
  it (`TriedWasIssued`, `UsedWasIssued`).
- `PetTransferProofs`. `TypeCorrect`, `AnswersAreQueued` (`AnsweredTransferIsQueued`) and
  `TransferFollowsChain` (`ImplementsLedger`, the refinement). The inductive invariant says
  that a request past the receipt, or a job on a queue, belongs to a claim whose transaction is mined, and that the jobs
  are queued in order; it needs the jobs to be sound (`Sound`, lemmas in `JobQueueProofs`): a job that throws has made
  fewer than the maximum of attempts. Each action maps to a step of the ledger or a stutter.
  `CredentialsAreKept` (`CredentialsFollowClaims`) adds that what was credited or reported is a claim with a mined transaction, and that
  a credential is revoked only by the job of a request that named its holder.
  Of `ControllerHistory`: `HistoryTypeCorrect` and `HistoriesAreTrue` (`AnswersAreTrue`). The inductive invariant `HInv` takes that of
  the transfer and adds that the events are exactly the mined transactions that hand the pet on, and that each answer is
  true of the events (`QueriesAreTrue`). Since a step appends at most one event, a beginning of the
  events stays one, whatever node gave it.
  Of `TransferVerification`: `VerificationTypes` and `ProofsHavePictures` (`ProofHasPicture`). A request past the copy has its
  print in permanent storage (`HasPicture`), which no step empties, and every job and record is of a request whose
  print is there (`Backed`): that another request deletes the file from `temp/` first
  makes a copy fail, and never loses the print.
- `PetRegistrationProofs`. `TypeCorrect`, `ImagesAreKept` (`NoImageLost`), `SyncFollowsImages` (`SyncAfterImages`) and
  `ChainComesFirst` (`NothingBeforeChain`). A job that stands at a deletion has copied its image, and one that has
  passed the loop has all of them in permanent storage, for any number of images and jobs; a
  request past the receipt, and every job, means that the transaction it named is mined.
- `GuardianRegistryProofs`. `TypeCorrect`, `RollStaysExact` (`RollIsExact`), `LevelStaysProven` (`LevelFollowsProof`),
  `SuccessStaysMined` (`SuccessIsMined`), `ContractKeepsBook` (`ImplementsBook`, the refinement) and `UnlinkIsExact`
  (`UnlinkTakesItsPet`). The lemmas on arrays say how appending and swap-and-pop change the number of
  occurrences of each pet (`AppendAddsOne`, `SwapAndPopTakesOne`), wherever the pet stands. The inductive invariant
  adds that a request that is served carries a transaction (`ServedCarries`), and one answered with success a mined one (`LinkedMined`);
  that what is linked is of a registered wallet (`SignersAreRegistered`) follows from the contract's own check, since a registration is never undone.
- `GuardianRegistrationProofs`. `TypeCorrect`, `ChainComesFirst` (`OnlyConfirmedIsSynced`) and `PictureIsThere`
  (`PictureBeforeSignup`). A request may be sent again with another picture, or with none, as long as it has no job
  of the VC service; the inductive invariant says that it has no other job then (`VcJobFirst`), that a move past
  its copy has the picture behind it (`MovedSoFar`), and that every job means a mined transaction.
  Of `EmailVerification`, for any number of requests at once: `EmailTypes`, with `EmailInv`: an entry about to be written back was
  read, and never gets a longer life than a fresh one. `AttemptsAreHonest` (`AttemptsAreGuesses`) and `ReturnedCodesAreCounted`
  (`ReturnedCodeIsCounted`) rest on `GuessInv`: what a handler is about to write counts the guess it has just refused beside those
  made before its read (`PendingInv`), so an entry that a late write brings back has an attempt counted (`StoredInv`).
  `ThreeAttemptsAlone` proves `MaxThreeAttempts` under the hypothesis `OneAtATime`, a single request slot, which a request
  takes again when the last one has been answered: it is the case in which the code
  keeps its promise, for any number of codes, guesses and ticks; the run `EmailVerificationAttempts` is the
  other case. Then the entry counts every wrong guess at its code but the one that is being counted (`CountInv`).
- `AdoptionChatProofs`. `ChatTypes`, `NoMessageIsMissed` (`NoMessageMissed`) and `NewsIsAlwaysTrue` (`NewsIsTrue`). `TypeOK` is not inductive
  without `Attached`: only connected sockets are in rooms and in the hands of a join. That no message is missed goes
  through the three awaits of a join (`JoinInv`): a join that awaits the history has its socket in the room
  already (`InItsRoom`); what was stored by then is in the history (`Complete`); what is stored later is announced
  to a room the socket is in (`OnItsWay`). That news is true is inductive with where
  everything comes from (`NewsInv`): the record in Redis was stored, and so was the initiation before it (`RecordsInv`);
  so was what a handler has read and works on, although the record may be replaced or gone meanwhile
  (`RequestsInv`); so was what the channel and the sockets hold (`MessagesInv`, `HeardInv`).
- `SpringPostsProofs`. `TypeCorrect`, `AnswersStayTrue` (`AnswersAreTrue`), `ImagesAreThere`
  (`PostsShowImages`) and `ImagesAreKept` (`NoImageLost`). That an answer stays true needs what the
  reply in flight means (`ReplyTellsTruth`): before the call Spring knows nothing of the
  request; a reply of 200 means carried out; a request that was carried out answers 200 or
  a server error; and the code of a server error begins with 5 (`RetryableIsServerError`). That posts show
  their images needs the position of the loop (`ImagesMoved`): each name is placed already or
  still ahead, and all are placed from the call on.

The modules of the proofs hold the lemmas; each action of `Next` is a step of its own.

**Only model-checked**: the liveness property `EveryRequestIsAnswered`, of two modules. Every other property of a
passing run is stated by a theorem. Liveness under fairness and `ENABLED` are out of this prover's reach; so are induction over data and
recursive operators, and no module declares one.

## 5. What is not modelled, and why

- Cryptography (signatures, presentations, JWTs): reduced to what its check decides.
- Faucet, nose embedding and all admin routes but the pet information: they forward one call and keep
  nothing. Of the indexer only the transfer history, the one query the gateway makes.
- Dead code: the `sync-transfer`, `sync-user` and `deliver-vp` jobs, the `unlink` action
  of the link job and `GuardianService.unlinkPet`, which nothing calls. `unlinkPet` of the contract is modelled, since wallets
  may call it. `getVerificationHistory` and `isAuthorizedGuardian` are not in the ABI the gateway
  loads, so their calls fail, and `getPetInfo` goes on.
- `updateGuardianData`, which replaces a hash, and the roles inherited from `AccessControl` other than grant
  and revoke of the verifier. `PetDIDRegistry` has no source in the repository, only its ABI: `Mine` of
  `PetTransfer` says of `changeController` what the gateway relies on.
- Bodies, wording, logging and the layout of keys. The order of chat messages.
- Development mode (`NODE_ENV`), in which the gateway signs with an admin key; except in
  `TransferVerification`, whose `Production` switches the record job.
- Spring, the VC service, the ML server, the contracts: modelled by how the gateway uses
  them, and marked external in the map. Spring is taken to store a chat message before
  it re-publishes it, as `chat.service.ts:27` and `dto/chat-message.dto.ts` say; the class comment at
  `chat.service.ts:11` speaks of a memory queue and batches. If the history it
  returns left out what waits there, `NoMessageMissed` would not hold.

## 6. What the models brought to light

Checked by a run:

- `email.service.ts:114`: the count of wrong guesses is read, increased and written back in
  separate round trips, so guesses made at once count once (`EmailVerificationAttempts`).
  `email.controller.ts:129` says three at most, which holds for guesses one after the other
  (`ThreeAttemptsAlone`).

Behaviours of the code a reader of its comments may not expect; the models have them, and no
property claims otherwise:

- The middleware verifies a JWT and does not look at its `type`, and falls back to a Web3Token whose life the wallet
  chose (`web3-auth.middleware.ts:64`): a refresh JWT, which lives for seven days, is accepted as bearer. `blockToken`
  always blocks for 86400 s, so such a token may be revoked and be admitted again a day later; the properties of revocation are therefore about
  access tokens (`revoked \ brought`).
- Logout-all finds sessions by the `iss` or `holder` of the VP under their key, which for a VP nobody verified is the
  client's own word: a session whose VP names another wallet is missed by its owner's logout-all, and ended by the other
  wallet's. A session without a VP, and the refresh
  token, survive it. `DIDAuthGuard` never looks at block entries. Two logins in one second
  give one JWT; with `SameSecond = TRUE` a refresh in the same second replaces
  the VP by `EMPTY`, and `LogoutAllBlocksVpSessions` fails. A refresh token may be used again. A new
  challenge replaces the one a client is signing. A request admitted just before a logout writes
  the VP back to the local cache; the block entry keeps it from mattering.
- `accept-transfer`, `register` of pets and of guardians and `link-pet` accept the hash of any mined transaction: none compares
  what it did with what was asked for. What follows, credentials, jobs and Spring, therefore follows claims. Who gave
  the pet is read from the client's message; that the controller on the chain is somebody else is only logged (`pet.controller.ts:1634`).
- The proof of `verify-transfer` is not signed nor kept. `accept-transfer` asks only whether it names the caller and is not
  older than ten minutes, and a `verifiedAt` that is no date passes, since `NaN > 10` is false (`pet.controller.ts:1609`). So
  `ProofHasPicture` is about what the gateway hands out, and nothing is said of what it accepts.
- A transfer mined after the 30 seconds is never credited nor reported, since the client
  was told it failed. A failed invalidation of the old credential is ignored.
- The sync jobs of two transfers may reach Spring in either order, so it may end with the older owner; a
  retried credential job may revoke the new credential of a guardian the pet came back to. Both stay within
  `CredentialsFollowClaims`, which says no more than the code keeps. `POST vc/create-vc-with-signature` stores what a guardian signs
  without asking the chain, also after its credential was revoked (`CreateVC`).
- `pet.controller.ts:1856` says that an empty history means one must query the DID document; the code
  answers `null` as the current controller (`2031`). With more than 100 entries the current controller is the one of the
  100th, since the indexer gives the oldest first. The gRPC call has no deadline: an indexer that hangs
  never leads to the fallback.
- `pet.controller.ts:1884` says that the transfer count includes the initial registration (the example at 1754 has three entries
  counted as three). The fallback on the chain counts the `ControllerChanged` events alone (`pet.service.ts:571`), one less than its history has
  entries; the model follows the code, and `AnswersAreTrue` claims the documented count of the indexer's answers only.
- Each read may be answered by a node that is behind the one before it: a transfer that was acknowledged may be missing
  from a history asked for afterwards, and the document and the history of one answer may disagree. No property claims otherwise.
- A job whose call to Spring or to the VC service is never answered stays active: the calls have no time limit.
- `link-pet` compares nothing: the pet of the route need not be the one that was signed for, nor the sender the
  caller. Without `signedTx` the admin key signs and the pet goes to the admin's list, while the route
  answers "Pet X linked to guardian Y" (`guardian.service.ts:330`). `guardian.controller.ts:562` shows a contract that asks
  for registration only; the contract asks for an active guardian. A guardian has the level of the method it
  declared until it is first verified, which may lower it. A pet may be listed twice; `unlinkPet` of a pet that is
  not listed changes nothing and does not fail.
- An image move that stopped halfway cannot succeed when retried, since the first file is gone, and
  the pet is never synced. The credential job does not wait for the link. A failed upload of the vector
  is ignored.
- A print leaves `temp/` before the comparison. In production the record job does nothing.
- A wrong guess whose write comes late overwrites a newer code or brings back an accepted one, where `email.controller.ts:46`
  says that a new code invalidates the previous one; what is kept is `ReturnedCodeIsCounted`.
- A code may be requested again and again; a code whose key expires during a wrong guess lives for another ten
  minutes; it is deleted before the account is registered.
- A guardian registration that reached the chain and failed to queue its jobs is refused when
  retried. With a raw transaction the request waits for as long as the chain does not mine it.
  The last `catch` of the handler swallows every error (`error` comes from `console`).
- `spring.processor.ts:151` sets `attemptsMade` on the error it throws to keep Bull from retrying a
  non-retryable job; Bull counts its own attempts and retries all the same (`Thrown`).
- A post whose move stopped halfway cannot be retried with the same names. An update of
  an adoption post with the images it has already fails. 408 and 429 are called retryable at
  `spring-error-codes.ts:142` but become a final code. A request repeated after a timeout is
  carried out twice.
- `cancelTransfer` reads `pet-transfer:{id}`; the record is at `adoption:transfer:{id}`: nothing is
  ever cancelled. Two updates of a record at once: the later one drops what the earlier stored. A join whose history
  could not be read is answered with success and no messages. Sockets outlive the logout of
  their token. The news of a transfer also arrives as a chat message without a sender.

## 7. Plan

The order of work: sessions first, because every route stands behind them; then the
transfer, which is what the gateway is for; then the parts that queue jobs; then the
parts that move images and the chat; then the registry and the history; then the proofs. Done:
sections 2 to 4. Next, in this order:

1. An abstract store of images that `PetRegistration` and `SpringPosts` both implement.
2. A composition of `GuardianRegistration`, `PetRegistration` and `GuardianRegistry`, so that the link job
   meets guardians that were deactivated meanwhile.
3. A composition of `PetTransfer` and the transfer record: what COMPLETED in the record may mean; liveness of `SpringPosts` (every request is answered) and of joins.
