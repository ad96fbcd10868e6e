---------------------------- MODULE AuthSession ----------------------------
(***************************************************************************)
(* Wallet login and sessions of the gateway: AuthService, TokenService,    *)
(* AuthController, Web3AuthMiddleware and the two route guards.            *)
(*                                                                         *)
(* Sessions live in Redis (blocked:, vp:token:, vp:verified:, refresh:)    *)
(* and, for a short time, in the in-process cache of the gateway.  A       *)
(* request handler is an async function, so every await on Redis is a step *)
(* of its own and any two handlers interleave between steps.  h[r] is the  *)
(* handler that serves request r.  The challenge a login signs is the      *)
(* subject of LoginChallenge; here a login starts once it has been checked.*)
(***************************************************************************)
EXTENDS Naturals, FiniteSets

CONSTANTS
  Wallet,      \* wallet addresses
  Token,       \* the strings clients send as bearer tokens
  Req,         \* requests being served at the same time
  None,        \* null
  AccessTtl,   \* life of an access token, in clock ticks (24 h)
  BlockTtl,    \* TTL of blocked:{token}, in clock ticks (86400 s)
  MaxNow,      \* bound: the clock stops here
  MaxRefresh,  \* bound: refresh tokens signed for one wallet
  MaxExpiry,   \* bound: the latest expiry of a token a client brings
  Ops,         \* bound: the endpoints the clients call
  SameSecond   \* may two sign() calls for a wallet share their iat second?

Op == {"login", "refresh", "logout", "logoutAll", "spring", "did"}

ASSUME NoneAssumption == /\ None \notin Wallet \cup Token
                         /\ {"VP", "EMPTY", "ABSENT"} \cap (Wallet \cup {None}) = {}
ASSUME TtlAssumption == /\ AccessTtl \in Nat \ {0}
                        /\ BlockTtl \in Nat
                        /\ AccessTtl <= BlockTtl
ASSUME BoundAssumption == MaxNow \in Nat /\ MaxRefresh \in Nat /\ MaxExpiry \in Nat
ASSUME OpsAssumption == Ops \subseteq Op
ASSUME SameSecondAssumption == SameSecond \in BOOLEAN

(* What vp:token:{token} holds: nothing, the literal "EMPTY", a VP that    *)
(* verifyPresentation accepts, which the wallet that logged in has signed  *)
(* and names as iss, or one it refuses.  Login asks only for a signature of*)
(* the wallet over some data, so the iss of the latter is the client's; it *)
(* is told by the wallet it names, None when it names none.                *)
Unverifiable == Wallet \cup {None}
Vp   == {"VP"} \cup Unverifiable
Slot == Vp \cup {"ABSENT", "EMPTY"}

(* Is w the holder of the VP v that a token of the wallet own is bound to? *)
Names(v, own, w) == v = w \/ (v = "VP" /\ own = w)

VARIABLES
  now,           \* clock
  owner, until,  \* the tokens signed so far: address and expiry
  brought,       \* those that neither login nor refresh has handed out
  blockedUntil,  \* expiry of blocked:{token}; 0 when never blocked
  revoked,       \* history: tokens blockToken was called for
  vpRedis,       \* vp:token:{token} in Redis
  vpLocal,       \* ... and in the process-local cache
  verRedis,      \* vp:verified:{token} exists in Redis
  verLocal,      \* ... and in the process-local cache
  everVp,        \* history: the VPs a login has bound to the token
  delivered,     \* the tokens that clients have
  refresh,       \* refresh:{wallet}: number of the stored token, 0 for none
  signed,        \* refresh tokens signed for the wallet
  held,          \* refresh tokens clients hold
  h              \* the request handlers

sessionVars == <<blockedUntil, revoked, vpRedis, vpLocal,
                 verRedis, verLocal, everVp>>
tokenVars   == <<owner, until, brought, delivered>>
refreshVars == <<refresh, signed, held>>
vars == <<now, owner, until, brought, delivered, blockedUntil, revoked,
          vpRedis, vpLocal, verRedis, verLocal, everVp,
          refresh, signed, held, h>>

---------------------------------------------------------------------------
(* Handlers *)

Pc == {"idle", "mint", "signRefresh", "storeVp", "cacheVp",
       "block", "dropVp", "dropVpLocal", "dropVer", "dropVerLocal",
       "scan", "scanned", "readVp", "fetchVp", "fillVp", "readVer",
       "fetchVer", "fillVer", "verify", "fillVerified", "admitted",
       "verified"}

GuardPcs == {"readVp", "fetchVp", "fillVp", "readVer", "fetchVer", "fillVer",
             "verify", "fillVerified", "admitted", "verified"}

Handler == [op : Op \cup {"none"}, pc : Pc, wallet : Wallet \cup {None},
            tok : Token \cup {None}, vp : Slot,
            rt : Nat,               \* the refresh token a login has signed
            due : SUBSET Token,     \* keys SCAN has still to return
            owed : SUBSET Token]    \* history: sessions open at logout-all

Idle == [op |-> "none", pc |-> "idle", wallet |-> None, tok |-> None,
         vp |-> "ABSENT", rt |-> 0, due |-> {}, owed |-> {}]

At(r, label) == h[r].pc = label
Accepts(r, op) == h[r].pc = "idle" /\ op \in Ops
Become(r, handler) == h' = [h EXCEPT ![r] = handler]
Goto(r, label) == h' = [h EXCEPT ![r].pc = label]

Signed(t) == owner[t] # None
Expired(t) == now >= until[t]

(* The middleware takes any JWT of the gateway, whatever its type, and any *)
(* Web3Token.                                                              *)
Valid(t) == Signed(t) /\ ~Expired(t)

(* Mutant: isTokenBlocked trusts a session that is still cached.           *)
Blocked_TrustsCache(t) == now < blockedUntil[t] /\ vpLocal[t] = "ABSENT"

Blocked(t) == now < blockedUntil[t]       \* tokenService.isTokenBlocked(token)
InFlight(t) == {r \in Req : h[r].op = "spring" /\ h[r].tok = t}

(* Mutant: the TTL is shorter than the token's life.                       *)
BlockExpiry_Short == now + BlockTtl - 1

(* Expiry a SETEX of blocked:{token} gets.                                 *)
BlockExpiry == now + BlockTtl

(* sign() has no jti: the string is determined by the claims and the iat   *)
(* second, so a wallet that signs twice in a second gets the same string.  *)
MayBecome(t, w) == \/ ~Signed(t)
                   \/ /\ SameSecond /\ owner[t] = w /\ t \notin brought
                      /\ until[t] = now + AccessTtl
MayBecomeRefresh(k, w) == \/ k = signed[w] + 1 /\ k <= MaxRefresh
                          \/ SameSecond /\ k = signed[w] /\ k > 0

---------------------------------------------------------------------------
Init ==
  /\ now = 0
  /\ owner = [t \in Token |-> None]
  /\ until = [t \in Token |-> 0]
  /\ brought = {}
  /\ blockedUntil = [t \in Token |-> 0]
  /\ revoked = {}
  /\ vpRedis = [t \in Token |-> "ABSENT"]
  /\ vpLocal = [t \in Token |-> "ABSENT"]
  /\ verRedis = [t \in Token |-> FALSE]
  /\ verLocal = [t \in Token |-> FALSE]
  /\ everVp = [t \in Token |-> {}]
  /\ delivered = {}
  /\ refresh = [w \in Wallet |-> 0]
  /\ signed = [w \in Wallet |-> 0]
  /\ held = [w \in Wallet |-> {}]
  /\ h = [r \in Req |-> Idle]

(* A session reaches the client with the answer of login or refresh.       *)
Deliver(t) == delivered' = delivered \cup {t}

---------------------------------------------------------------------------
(* POST /auth/login *)

(* verifySignature has accepted and consumed the challenge.                *)
LoginStart(r, w) ==
  /\ Accepts(r, "login")
  /\ Become(r, [Idle EXCEPT !.op = "login", !.pc = "mint", !.wallet = w])
  /\ UNCHANGED <<now, tokenVars, sessionVars, refreshVars>>

(* createAccessToken, after the VC service answered; "EMPTY" when there are*)
(* no VCs or no VP signature.  A refused VP signature is a Fail after this.*)
LoginMint(r) ==
  /\ At(r, "mint") /\ h[r].op = "login"
  /\ \E t \in Token, v \in Vp \cup {"EMPTY"} :
       /\ MayBecome(t, h[r].wallet)
       /\ owner' = [owner EXCEPT ![t] = h[r].wallet]
       /\ until' = [until EXCEPT ![t] = now + AccessTtl]
       /\ Become(r, [h[r] EXCEPT !.tok = t, !.vp = v,
            !.pc = IF v = "EMPTY" THEN "signRefresh" ELSE "storeVp"])
  /\ UNCHANGED <<now, brought, delivered, sessionVars, refreshVars>>

(* createRefreshToken: the wallet has one refresh:{wallet} key.            *)
SignRefresh(r) ==
  /\ At(r, "signRefresh")
  /\ \E k \in 1..MaxRefresh :
       /\ MayBecomeRefresh(k, h[r].wallet)
       /\ signed' = [signed EXCEPT ![h[r].wallet] = k]
       /\ refresh' = [refresh EXCEPT ![h[r].wallet] = k]
       /\ IF h[r].vp = "EMPTY"
            THEN /\ Become(r, [h[r] EXCEPT !.rt = k, !.pc = "storeVp"])
                 /\ UNCHANGED <<delivered, held>>
            ELSE /\ Become(r, Idle)
                 /\ Deliver(h[r].tok)
                 /\ held' = [held EXCEPT ![h[r].wallet] = @ \cup {k}]
  /\ UNCHANGED <<now, owner, until, brought, sessionVars>>

(* setVPForToken: Redis, then the local cache.                             *)
StoreVp(r) ==
  /\ At(r, "storeVp")
  /\ vpRedis' = [vpRedis EXCEPT ![h[r].tok] = h[r].vp]
  /\ everVp' = [everVp EXCEPT ![h[r].tok] = @ \cup ({h[r].vp} \cap Vp)]
  /\ Goto(r, "cacheVp")
  /\ UNCHANGED <<now, tokenVars, refreshVars, blockedUntil,
                 revoked, vpLocal, verRedis, verLocal>>

CacheVp(r) ==
  /\ At(r, "cacheVp")
  /\ vpLocal' = [vpLocal EXCEPT ![h[r].tok] = h[r].vp]
  /\ IF h[r].vp = "EMPTY"
       THEN /\ Become(r, Idle)
            /\ Deliver(h[r].tok)
            /\ held' = [held EXCEPT ![h[r].wallet] = @ \cup ({h[r].rt} \ {0})]
       ELSE /\ Goto(r, "signRefresh")
            /\ UNCHANGED <<delivered, held>>
  /\ UNCHANGED <<now, owner, until, brought, refresh, signed, blockedUntil,
                 revoked, vpRedis, verRedis, verLocal, everVp>>

---------------------------------------------------------------------------
(* POST /auth/refresh: the stored token must be the one presented; the new *)
(* session is always stored as "EMPTY".                                    *)
RefreshRead(r, w, k) ==
  /\ Accepts(r, "refresh")
  /\ k \in held[w] /\ k = refresh[w]
  /\ Become(r, [Idle EXCEPT !.op = "refresh", !.pc = "mint", !.wallet = w])
  /\ UNCHANGED <<now, tokenVars, sessionVars, refreshVars>>

RefreshMint(r) ==
  /\ At(r, "mint") /\ h[r].op = "refresh"
  /\ \E t \in Token :
       /\ MayBecome(t, h[r].wallet)
       /\ owner' = [owner EXCEPT ![t] = h[r].wallet]
       /\ until' = [until EXCEPT ![t] = now + AccessTtl]
       /\ Become(r, [h[r] EXCEPT !.tok = t, !.vp = "EMPTY", !.pc = "storeVp"])
  /\ UNCHANGED <<now, brought, delivered, sessionVars, refreshVars>>

---------------------------------------------------------------------------
(* Mutant: the middleware decodes the JWT and does not verify it.          *)
DidRequest_Decoded(r, t) ==
  /\ Accepts(r, "did")
  /\ t \in delivered /\ Signed(t)
  /\ Become(r, [Idle EXCEPT !.op = "did", !.pc = "admitted", !.tok = t])
  /\ UNCHANGED <<now, tokenVars, sessionVars, refreshVars>>

(* A client brings a token that passes the middleware although no login    *)
(* gave it as an access token: a refresh JWT, which lives for seven days,  *)
(* or a Web3Token, which the wallet signs for as long as it likes.         *)
BringToken(t, w) ==
  /\ ~Signed(t)
  /\ \E u \in (now + 1)..MaxExpiry : until' = [until EXCEPT ![t] = u]
  /\ owner' = [owner EXCEPT ![t] = w]
  /\ brought' = brought \cup {t}
  /\ Deliver(t)
  /\ UNCHANGED <<now, h, sessionVars, refreshVars>>

(* A request to a DIDAuthGuard route: the guard has no await and looks only*)
(* at the user the middleware decoded, so admission is one step.           *)
DidRequest(r, t) ==
  /\ Accepts(r, "did")
  /\ t \in delivered /\ Valid(t)
  /\ Become(r, [Idle EXCEPT !.op = "did", !.pc = "admitted", !.tok = t])
  /\ UNCHANGED <<now, tokenVars, sessionVars, refreshVars>>

(* POST /auth/logout and /auth/logout-all are DIDAuthGuard routes.         *)
Logout(r, t) ==
  /\ Accepts(r, "logout")
  /\ t \in delivered /\ Valid(t)
  /\ Become(r, [Idle EXCEPT !.op = "logout", !.pc = "block", !.tok = t])
  /\ UNCHANGED <<now, tokenVars, sessionVars, refreshVars>>

(* The SCAN of vp:token:* returns every key that is there throughout.      *)
LogoutAll(r, t) ==
  /\ Accepts(r, "logoutAll")
  /\ t \in delivered /\ Valid(t)
  /\ Become(r, [Idle EXCEPT
       !.op = "logoutAll", !.pc = "scan", !.wallet = owner[t],
       !.due = {u \in Token : vpRedis[u] # "ABSENT"},
       !.owed = {u \in Token : Valid(u) /\ u \in delivered}])
  /\ UNCHANGED <<now, tokenVars, sessionVars, refreshVars>>

(* One key of the scan: the iss or the holder of the VP under it decides,  *)
(* not the address of the token.  "EMPTY" is no JWT: split('.')[1] is      *)
(* undefined, Buffer.from throws, and the catch moves on to the next key.  *)
ScanKey(r, t) ==
  /\ At(r, "scan")
  /\ t \in h[r].due \/ vpRedis[t] # "ABSENT"
  /\ IF Names(vpRedis[t], owner[t], h[r].wallet)
       THEN Become(r, [h[r] EXCEPT !.pc = "block", !.tok = t,
                                   !.due = @ \ {t}])
       ELSE Become(r, [h[r] EXCEPT !.due = @ \ {t}])
  /\ UNCHANGED <<now, tokenVars, sessionVars, refreshVars>>

(* Mutant: the loop ends before the SCAN has returned every key.           *)
LogoutAllEnd_Early(r) ==
  /\ At(r, "scan")
  /\ Goto(r, "scanned")
  /\ UNCHANGED <<now, tokenVars, sessionVars, refreshVars>>

LogoutAllEnd(r) ==
  /\ At(r, "scan") /\ h[r].due = {}
  /\ Goto(r, "scanned")
  /\ UNCHANGED <<now, tokenVars, sessionVars, refreshVars>>

(* blockToken *)
BlockToken(r) ==
  /\ At(r, "block")
  /\ blockedUntil' = [blockedUntil EXCEPT ![h[r].tok] = BlockExpiry]
  /\ revoked' = revoked \cup {h[r].tok}
  /\ Goto(r, "dropVp")
  /\ UNCHANGED <<now, tokenVars, refreshVars, vpRedis,
                 vpLocal, verRedis, verLocal, everVp>>

(* deleteVPForToken: Redis, then the local cache.                          *)
DropVp(r) ==
  /\ At(r, "dropVp")
  /\ vpRedis' = [vpRedis EXCEPT ![h[r].tok] = "ABSENT"]
  /\ Goto(r, "dropVpLocal")
  /\ UNCHANGED <<now, tokenVars, refreshVars, blockedUntil,
                 revoked, vpLocal, verRedis, verLocal, everVp>>

DropVpLocal(r) ==
  /\ At(r, "dropVpLocal")
  /\ vpLocal' = [vpLocal EXCEPT ![h[r].tok] = "ABSENT"]
  /\ Goto(r, IF h[r].op = "logout" THEN "dropVer" ELSE "scan")
  /\ UNCHANGED <<now, tokenVars, refreshVars, blockedUntil,
                 revoked, vpRedis, verRedis, verLocal, everVp>>

(* deleteCachedVPVerification, which only POST /logout calls.              *)
DropVer(r) ==
  /\ At(r, "dropVer")
  /\ verRedis' = [verRedis EXCEPT ![h[r].tok] = FALSE]
  /\ Goto(r, "dropVerLocal")
  /\ UNCHANGED <<now, tokenVars, refreshVars, blockedUntil,
                 revoked, vpRedis, vpLocal, verLocal, everVp>>

DropVerLocal(r) ==
  /\ At(r, "dropVerLocal")
  /\ verLocal' = [verLocal EXCEPT ![h[r].tok] = FALSE]
  /\ Become(r, Idle)
  /\ UNCHANGED <<now, tokenVars, refreshVars, blockedUntil,
                 revoked, vpRedis, vpLocal, verRedis, everVp>>

---------------------------------------------------------------------------
(* A request to a SpringAuthGuard route.  The middleware verifies the JWT  *)
(* and the guard reads blocked:{token}; the clock is far coarser than the  *)
(* round trip between the two, so they are one step.                       *)
SpringCheck(r, t) ==
  /\ Accepts(r, "spring")
  /\ t \in delivered /\ Valid(t) /\ ~Blocked(t)
  /\ Become(r, [Idle EXCEPT !.op = "spring", !.pc = "readVp", !.tok = t])
  /\ UNCHANGED <<now, tokenVars, sessionVars, refreshVars>>

(* Where canActivate goes with the VP it read: without a VP, or with       *)
(* "EMPTY", the request is admitted as not VP-verified.                    *)
AfterVp(r, v) == Become(r, [h[r] EXCEPT !.vp = v,
                   !.pc = IF v \in Vp THEN "readVer" ELSE "admitted"])

(* getVPForToken: local cache, then Redis, then fill the local cache.      *)
ReadVp(r) ==
  /\ At(r, "readVp")
  /\ IF vpLocal[h[r].tok] # "ABSENT" THEN AfterVp(r, vpLocal[h[r].tok])
                                     ELSE Goto(r, "fetchVp")
  /\ UNCHANGED <<now, tokenVars, sessionVars, refreshVars>>

FetchVp(r) ==
  /\ At(r, "fetchVp")
  /\ IF vpRedis[h[r].tok] = "ABSENT"
       THEN AfterVp(r, "ABSENT")
       ELSE Become(r, [h[r] EXCEPT !.vp = vpRedis[h[r].tok], !.pc = "fillVp"])
  /\ UNCHANGED <<now, tokenVars, sessionVars, refreshVars>>

FillVp(r) ==
  /\ At(r, "fillVp")
  /\ vpLocal' = [vpLocal EXCEPT ![h[r].tok] = h[r].vp]
  /\ AfterVp(r, h[r].vp)
  /\ UNCHANGED <<now, tokenVars, refreshVars, blockedUntil,
                 revoked, vpRedis, verRedis, verLocal, everVp>>

(* getCachedVPVerification: the same two levels.                           *)
ReadVer(r) ==
  /\ At(r, "readVer")
  /\ Goto(r, IF verLocal[h[r].tok] THEN "verified" ELSE "fetchVer")
  /\ UNCHANGED <<now, tokenVars, sessionVars, refreshVars>>

FetchVer(r) ==
  /\ At(r, "fetchVer")
  /\ Goto(r, IF verRedis[h[r].tok] THEN "fillVer" ELSE "verify")
  /\ UNCHANGED <<now, tokenVars, sessionVars, refreshVars>>

FillVer(r) ==
  /\ At(r, "fillVer")
  /\ verLocal' = [verLocal EXCEPT ![h[r].tok] = TRUE]
  /\ Goto(r, "verified")
  /\ UNCHANGED <<now, tokenVars, refreshVars, blockedUntil,
                 revoked, vpRedis, vpLocal, verRedis, everVp>>

(* Mutant: the outcome of verifyPresentation is not looked at.             *)
Verify_Unchecked(r) ==
  /\ At(r, "verify")
  /\ verRedis' = [verRedis EXCEPT ![h[r].tok] = TRUE]
  /\ Goto(r, "fillVerified")
  /\ UNCHANGED <<now, tokenVars, refreshVars, blockedUntil,
                 revoked, vpRedis, vpLocal, verLocal, everVp>>

(* verifyPresentation has no round trip; a VP it refuses ends the request  *)
(* with 401, otherwise cacheVPVerification stores the result.              *)
Verify(r) ==
  /\ At(r, "verify")
  /\ IF h[r].vp = "VP"
       THEN /\ verRedis' = [verRedis EXCEPT ![h[r].tok] = TRUE]
            /\ Goto(r, "fillVerified")
       ELSE /\ Become(r, Idle)
            /\ UNCHANGED verRedis
  /\ UNCHANGED <<now, tokenVars, refreshVars, blockedUntil,
                 revoked, vpRedis, vpLocal, verLocal, everVp>>

FillVerified(r) ==
  /\ At(r, "fillVerified")
  /\ verLocal' = [verLocal EXCEPT ![h[r].tok] = TRUE]
  /\ Goto(r, "verified")
  /\ UNCHANGED <<now, tokenVars, refreshVars, blockedUntil,
                 revoked, vpRedis, vpLocal, verRedis, everVp>>

(* The route handler runs and answers.                                     *)
Respond(r) ==
  /\ h[r].pc \in {"admitted", "verified", "scanned"}
  /\ Become(r, Idle)
  /\ UNCHANGED <<now, tokenVars, sessionVars, refreshVars>>

---------------------------------------------------------------------------
(* The environment *)

(* An exception between two awaits (Redis, VC service, a refused VP        *)
(* signature): the handler answers an error and leaves what it has written.*)
Fail(r) ==
  /\ h[r].pc \notin {"idle", "admitted", "verified", "scanned"}
  /\ Become(r, Idle)
  /\ UNCHANGED <<now, tokenVars, sessionVars, refreshVars>>

(* The gateway process restarts: handlers and the local cache are gone.    *)
Restart ==
  /\ h' = [r \in Req |-> Idle]
  /\ vpLocal' = [t \in Token |-> "ABSENT"]
  /\ verLocal' = [t \in Token |-> FALSE]
  /\ UNCHANGED <<now, tokenVars, refreshVars, blockedUntil,
                 revoked, vpRedis, verRedis, everVp>>

(* TTLs.  vp:token is stored after its JWT is signed and for as long, so it*)
(* outlives the JWT; a verification and the local entries are              *)
(* shorter-lived than a tick and may vanish at any time.                   *)
ExpireVp(t) ==
  /\ vpRedis[t] # "ABSENT" /\ Expired(t)
  /\ vpRedis' = [vpRedis EXCEPT ![t] = "ABSENT"]
  /\ UNCHANGED <<now, tokenVars, refreshVars, blockedUntil,
                 revoked, vpLocal, verRedis, verLocal, everVp, h>>

ExpireVer(t) ==
  /\ verRedis[t]
  /\ verRedis' = [verRedis EXCEPT ![t] = FALSE]
  /\ UNCHANGED <<now, tokenVars, refreshVars, blockedUntil,
                 revoked, vpRedis, vpLocal, verLocal, everVp, h>>

EvictLocal(t) ==
  /\ \/ /\ vpLocal[t] # "ABSENT"
        /\ vpLocal' = [vpLocal EXCEPT ![t] = "ABSENT"]
        /\ UNCHANGED verLocal
     \/ /\ verLocal[t]
        /\ verLocal' = [verLocal EXCEPT ![t] = FALSE]
        /\ UNCHANGED vpLocal
  /\ UNCHANGED <<now, tokenVars, refreshVars, blockedUntil,
                 revoked, vpRedis, verRedis, everVp, h>>

Tick ==
  /\ now < MaxNow
  /\ now' = now + 1
  /\ UNCHANGED <<tokenVars, sessionVars, refreshVars, h>>

---------------------------------------------------------------------------
Login(r) == (\E w \in Wallet : LoginStart(r, w)) \/ LoginMint(r)

RefreshSession(r) ==
  \/ \E w \in Wallet, k \in 1..MaxRefresh : RefreshRead(r, w, k)
  \/ RefreshMint(r)

CompleteSession(r) == SignRefresh(r) \/ StoreVp(r) \/ CacheVp(r)

EndSession(r) ==
  \/ \E t \in Token : Logout(r, t) \/ LogoutAll(r, t) \/ ScanKey(r, t)
  \/ LogoutAllEnd(r) \/ BlockToken(r) \/ DropVp(r) \/ DropVpLocal(r)
  \/ DropVer(r) \/ DropVerLocal(r)

UseSession(r) ==
  \/ \E t \in Token : DidRequest(r, t) \/ SpringCheck(r, t)
  \/ ReadVp(r) \/ FetchVp(r) \/ FillVp(r)
  \/ ReadVer(r) \/ FetchVer(r) \/ FillVer(r)
  \/ Verify(r) \/ FillVerified(r) \/ Respond(r)

Expiry ==
  \/ \E t \in Token : ExpireVp(t) \/ ExpireVer(t) \/ EvictLocal(t)
  \/ Tick

Next ==
  \/ \E r \in Req : \/ Login(r) \/ RefreshSession(r) \/ CompleteSession(r)
                    \/ EndSession(r) \/ UseSession(r) \/ Fail(r)
  \/ \E t \in Token, w \in Wallet : BringToken(t, w)
  \/ Restart
  \/ Expiry

Spec == Init /\ [][Next]_vars

---------------------------------------------------------------------------
(* Type invariant. *)
TypeOK ==
  /\ now \in Nat
  /\ owner \in [Token -> Wallet \cup {None}]
  /\ until \in [Token -> Nat]
  /\ brought \subseteq Token
  /\ blockedUntil \in [Token -> Nat]
  /\ revoked \subseteq Token
  /\ vpRedis \in [Token -> Slot] /\ vpLocal \in [Token -> Slot]
  /\ verRedis \in [Token -> BOOLEAN] /\ verLocal \in [Token -> BOOLEAN]
  /\ everVp \in [Token -> SUBSET Vp]
  /\ delivered \subseteq Token
  /\ refresh \in [Wallet -> Nat] /\ signed \in [Wallet -> Nat]
  /\ held \in [Wallet -> SUBSET Nat]
  /\ h \in [Req -> Handler]

(* An access token that logout or logout-all has blocked stays blocked for *)
(* as long as its JWT would verify, whatever expires, restarts or is signed*)
(* later.  A token that a client brings may live longer than its block.    *)
RevokedStaysBlocked == \A t \in revoked \ brought : Valid(t) => Blocked(t)

(* Once an access token is blocked no further request gets past            *)
(* SpringAuthGuard with it: only those past the check may still complete.  *)
NoAdmissionAfterRevocation ==
  [][\A t \in revoked \ brought : InFlight(t)' \subseteq InFlight(t)]_vars

(* When logout-all has answered, every session that had been handed out    *)
(* with a VP naming the wallet before the call is blocked or expired.      *)
LogoutAllBlocksVpSessions ==
  \A r \in Req : At(r, "scanned") =>
    \A t \in h[r].owed :
      (\E v \in everVp[t] : Names(v, owner[t], h[r].wallet))
        => (Blocked(t) \/ Expired(t))

(* A cached verification, in Redis or in the process, belongs to a token   *)
(* that some login bound to a VP verifyPresentation accepts.               *)
VerifiedHadVp ==
  /\ \A t \in Token : verRedis[t] \/ verLocal[t] => "VP" \in everVp[t]
  /\ \A r \in Req : At(r, "verified") => "VP" \in everVp[h[r].tok]

---------------------------------------------------------------------------
(* The gateway implements SessionBook: whatever the keys, caches and TTLs  *)
(* hold and however handlers interleave, fail or restart, no session is    *)
(* used, verified or ended, and none survives a logout-all, otherwise than *)
(* promised there.  This needs the tokens of a wallet to differ            *)
(* (~SameSecond): one that is handed out twice is bound again.             *)
Free == [kind |-> "none", for |-> None, owed |-> {}, stage |-> "open"]

HasDone(hd) ==
  \/ hd.op = "spring"    /\ hd.pc = "verified"
  \/ hd.op = "logout"    /\ hd.pc # "block"
  \/ hd.op = "logoutAll" /\ hd.pc = "scanned"

Serves(hd) ==
  IF hd.op \in {"none", "login", "refresh"} THEN Free ELSE
  [kind  |-> hd.op,
   for   |-> IF hd.op = "logoutAll" THEN hd.wallet ELSE hd.tok,
   owed  |-> IF hd.op = "logoutAll" THEN hd.owed ELSE {},
   stage |-> IF HasDone(hd) THEN "done" ELSE "open"]

serving == [r \in Req |-> Serves(h[r])]
lapsed == {t \in Token : Signed(t) /\ Expired(t)}

Sessions == INSTANCE SessionBook WITH
  Session <- Token, Request <- Req,
  holder <- owner, bound <- everVp, handed <- delivered, ended <- revoked

ImplementsSessions == Sessions!BookSpec
============================================================================
