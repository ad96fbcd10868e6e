-------------------------- MODULE AuthSessionProofs -------------------------
(***************************************************************************)
(* What AuthSession guarantees for any number of wallets, tokens and       *)
(* requests, any TTLs with AccessTtl <= BlockTtl, and with or without      *)
(* tokens signed in the same second; the promise of logout-all and the     *)
(* refinement of SessionBook need them to be apart.  Then what             *)
(* LoginChallenge guarantees of the challenges that come before a login.   *)
(***************************************************************************)
EXTENDS AuthSession, LoginChallenge, TLAPS

---------------------------------------------------------------------------
(* Handler records: what a step may do to one. *)

(* A handler that serves nothing is a handler. *)
LEMMA IdleIsHandler == Idle \in Handler
  BY NoneAssumption DEF Idle, Handler, Pc, Slot, Vp, Unverifiable, Op

(* The values of a session. *)
LEMMA SlotFacts ==
  /\ "VP" \in Vp /\ Vp \subseteq Slot /\ {"ABSENT", "EMPTY"} \subseteq Slot
  /\ "ABSENT" \notin Vp /\ "EMPTY" \notin Vp
  BY NoneAssumption DEF Slot, Vp, Unverifiable

(* A handler may move to any label. *)
LEMMA GotoHandler ==
  ASSUME NEW hd \in Handler, NEW p \in Pc
  PROVE  [hd EXCEPT !.pc = p] \in Handler
  BY DEF Handler

(* A handler may take note of a VP value and move. *)
LEMMA VpHandler ==
  ASSUME NEW hd \in Handler, NEW p \in Pc, NEW v \in Slot
  PROVE  [hd EXCEPT !.vp = v, !.pc = p] \in Handler
  BY DEF Handler

(* A handler may receive the token it has signed. *)
LEMMA TokHandler ==
  ASSUME NEW hd \in Handler, NEW p \in Pc, NEW v \in Slot, NEW t \in Token
  PROVE  [hd EXCEPT !.tok = t, !.vp = v, !.pc = p] \in Handler
  BY DEF Handler

(* A handler may receive a refresh token. *)
LEMMA RtHandler ==
  ASSUME NEW hd \in Handler, NEW p \in Pc, NEW k \in Nat
  PROVE  [hd EXCEPT !.rt = k, !.pc = p] \in Handler
  BY DEF Handler

(* A scan may turn to the key of a token. *)
LEMMA ScanHandler ==
  ASSUME NEW hd \in Handler, NEW p \in Pc, NEW t \in Token
  PROVE  /\ [hd EXCEPT !.pc = p, !.tok = t, !.due = @ \ {t}] \in Handler
         /\ [hd EXCEPT !.due = @ \ {t}] \in Handler
  BY DEF Handler

(* The fields of a handler have their types. *)
LEMMA HandlerFields ==
  ASSUME NEW hd \in Handler
  PROVE  /\ hd.pc \in Pc /\ hd.vp \in Slot /\ hd.rt \in Nat
         /\ hd.wallet \in Wallet \cup {None}
         /\ hd.tok \in Token \cup {None}
         /\ hd.due \subseteq Token
  BY DEF Handler

---------------------------------------------------------------------------
(* The strengthening.  A handler that is past the signing of its token has *)
(* one, and it stays signed; only signed tokens have a session in Redis.   *)
Tokenless == {"idle", "mint", "scan", "scanned"}

Fit(hd, own) ==
  /\ hd.pc = "mint" => hd.wallet \in Wallet
  /\ hd.pc \notin Tokenless => hd.tok \in Token /\ own[hd.tok] # None

HandlerOK == \A r \in Req : Fit(h[r], owner)

SessionOK == \A t \in Token : vpRedis[t] # "ABSENT" => Signed(t)

Base == TypeOK /\ HandlerOK /\ SessionOK

(* No access token is issued in the future, and a blocked:{token} entry    *)
(* outlives the access token it blocks.                                    *)
IssuedBefore ==
  \A t \in Token : Signed(t) /\ t \notin brought => until[t] <= now + AccessTtl
BlockOutlives ==
  \A t \in revoked : Signed(t) /\ (t \notin brought => until[t] <= blockedUntil[t])

IInv == Base /\ IssuedBefore /\ BlockOutlives

---------------------------------------------------------------------------
(* Every step of the specification keeps the type invariant. *)
LEMMA TypeStep == Base /\ [Next]_vars => TypeOK'
<1> SUFFICES ASSUME TypeOK, HandlerOK, [Next]_vars PROVE TypeOK'
  BY DEF Base
<1> USE DEF TypeOK, tokenVars, sessionVars, refreshVars, Become, Goto
<1>1. ASSUME NEW r \in Req, NEW w \in Wallet, LoginStart(r, w) PROVE TypeOK'
  <2>1. [Idle EXCEPT !.op = "login", !.pc = "mint", !.wallet = w] \in Handler
    BY IdleIsHandler DEF Handler, Pc, Op
  <2> QED BY <1>1, <2>1 DEF LoginStart
<1>2. ASSUME NEW r \in Req, LoginMint(r) PROVE TypeOK'
  <2>1. PICK t \in Token, v \in Vp \cup {"EMPTY"} :
          /\ owner' = [owner EXCEPT ![t] = h[r].wallet]
          /\ until' = [until EXCEPT ![t] = now + AccessTtl]
          /\ h' = [h EXCEPT ![r] = [h[r] EXCEPT !.tok = t, !.vp = v,
                     !.pc = IF v = "EMPTY" THEN "signRefresh" ELSE "storeVp"]]
    BY <1>2 DEF LoginMint
  <2>2. [h[r] EXCEPT !.tok = t, !.vp = v,
           !.pc = IF v = "EMPTY" THEN "signRefresh" ELSE "storeVp"] \in Handler
    BY TokHandler DEF Pc, Slot
  <2> QED BY <1>2, <2>1, <2>2, HandlerFields, TtlAssumption DEF LoginMint
<1>3. ASSUME NEW r \in Req, NEW w \in Wallet, NEW k \in 1..MaxRefresh,
             RefreshRead(r, w, k) PROVE TypeOK'
  <2>1. [Idle EXCEPT !.op = "refresh", !.pc = "mint", !.wallet = w] \in Handler
    BY IdleIsHandler DEF Handler, Pc, Op
  <2> QED BY <1>3, <2>1 DEF RefreshRead
<1>4. ASSUME NEW r \in Req, RefreshMint(r) PROVE TypeOK'
  <2>1. PICK t \in Token :
          /\ owner' = [owner EXCEPT ![t] = h[r].wallet]
          /\ until' = [until EXCEPT ![t] = now + AccessTtl]
          /\ h' = [h EXCEPT ![r] = [h[r] EXCEPT !.tok = t, !.vp = "EMPTY",
                                                !.pc = "storeVp"]]
    BY <1>4 DEF RefreshMint
  <2>2. [h[r] EXCEPT !.tok = t, !.vp = "EMPTY", !.pc = "storeVp"] \in Handler
    BY TokHandler DEF Pc, Slot
  <2> QED BY <1>4, <2>1, <2>2, HandlerFields, TtlAssumption DEF RefreshMint
<1>5. ASSUME NEW r \in Req, SignRefresh(r) PROVE TypeOK'
  <2>1. PICK k \in 1..MaxRefresh :
          /\ signed' = [signed EXCEPT ![h[r].wallet] = k]
          /\ refresh' = [refresh EXCEPT ![h[r].wallet] = k]
          /\ IF h[r].vp = "EMPTY"
               THEN /\ h' = [h EXCEPT ![r] =
                               [h[r] EXCEPT !.rt = k, !.pc = "storeVp"]]
                    /\ UNCHANGED <<delivered, held>>
               ELSE /\ h' = [h EXCEPT ![r] = Idle]
                    /\ Deliver(h[r].tok)
                    /\ held' = [held EXCEPT ![h[r].wallet] = @ \cup {k}]
    BY <1>5 DEF SignRefresh
  <2>2. k \in Nat
    BY BoundAssumption
  <2>3. [h[r] EXCEPT !.rt = k, !.pc = "storeVp"] \in Handler
    BY <2>2, RtHandler DEF Pc
  <2>4. h' \in [Req -> Handler]
    BY <2>1, <2>3, IdleIsHandler
  <2>5. held' \in [Wallet -> SUBSET Nat]
    BY <2>1, <2>2
  <2>6. h[r].tok \in Token
    BY <1>5 DEF SignRefresh, At, HandlerOK, Fit, Tokenless
  <2>7. delivered' \subseteq Token
    BY <2>1, <2>6 DEF Deliver
  <2> QED BY <1>5, <2>1, <2>2, <2>4, <2>5, <2>7 DEF SignRefresh
<1>6. ASSUME NEW r \in Req, StoreVp(r) PROVE TypeOK'
  <2>1. [h[r] EXCEPT !.pc = "cacheVp"] \in Handler
    BY GotoHandler DEF Pc
  <2>2. vpRedis' \in [Token -> Slot]
    BY <1>6, HandlerFields DEF StoreVp
  <2>3. everVp' \in [Token -> SUBSET Vp]
    BY <1>6 DEF StoreVp
  <2> QED BY <1>6, <2>1, <2>2, <2>3 DEF StoreVp
<1>7. ASSUME NEW r \in Req, CacheVp(r) PROVE TypeOK'
  <2>1. [h[r] EXCEPT !.pc = "signRefresh"] \in Handler
    BY GotoHandler DEF Pc
  <2>2. h' \in [Req -> Handler]
    BY <1>7, <2>1, IdleIsHandler DEF CacheVp
  <2>3. vpLocal' \in [Token -> Slot]
    BY <1>7, HandlerFields DEF CacheVp
  <2>4. h[r].tok \in Token
    BY <1>7 DEF CacheVp, At, HandlerOK, Fit, Tokenless
  <2>5. delivered' \subseteq Token
    BY <1>7, <2>4 DEF CacheVp, Deliver
  <2>6. held' \in [Wallet -> SUBSET Nat]
    BY <1>7, HandlerFields DEF CacheVp
  <2> QED BY <1>7, <2>2, <2>3, <2>5, <2>6 DEF CacheVp
<1>8. ASSUME NEW r \in Req, NEW t \in Token, Logout(r, t) PROVE TypeOK'
  <2>1. [Idle EXCEPT !.op = "logout", !.pc = "block", !.tok = t] \in Handler
    BY IdleIsHandler DEF Handler, Pc, Op
  <2> QED BY <1>8, <2>1 DEF Logout
<1>9. ASSUME NEW r \in Req, NEW t \in Token, LogoutAll(r, t) PROVE TypeOK'
  <2> DEFINE due == {u \in Token : vpRedis[u] # "ABSENT"}
             owed == {u \in Token : Valid(u) /\ u \in delivered}
             hd == [Idle EXCEPT !.op = "logoutAll", !.pc = "scan",
                      !.wallet = owner[t],
                      !.due = due, !.owed = owed]
  <2>1. owner[t] \in Wallet
    BY <1>9 DEF LogoutAll, Valid, Signed
  <2>2. due \subseteq Token /\ owed \subseteq Token
    OBVIOUS
  <2> HIDE DEF due, owed
  <2>3. hd \in Handler
    BY <2>1, <2>2, IdleIsHandler DEF Handler, Pc, Op
  <2>4. h' = [h EXCEPT ![r] = hd]
    BY <1>9 DEF LogoutAll, due, owed
  <2> HIDE DEF hd
  <2> QED BY <1>9, <2>3, <2>4 DEF LogoutAll
<1>10. ASSUME NEW r \in Req, NEW t \in Token, ScanKey(r, t) PROVE TypeOK'
  <2>1. [h[r] EXCEPT !.pc = "block", !.tok = t, !.due = @ \ {t}] \in Handler
    BY ScanHandler DEF Pc
  <2>2. [h[r] EXCEPT !.due = @ \ {t}] \in Handler
    BY ScanHandler DEF Pc
  <2> QED BY <1>10, <2>1, <2>2 DEF ScanKey
<1>11. ASSUME NEW r \in Req, LogoutAllEnd(r) PROVE TypeOK'
  <2>1. [h[r] EXCEPT !.pc = "scanned"] \in Handler
    BY GotoHandler DEF Pc
  <2> QED BY <1>11, <2>1 DEF LogoutAllEnd
<1>12. ASSUME NEW r \in Req, BlockToken(r) PROVE TypeOK'
  <2>1. [h[r] EXCEPT !.pc = "dropVp"] \in Handler
    BY GotoHandler DEF Pc
  <2>2. h[r].tok \in Token
    BY <1>12 DEF BlockToken, At, HandlerOK, Fit, Tokenless
  <2> QED BY <1>12, <2>1, <2>2, TtlAssumption DEF BlockToken, BlockExpiry
<1>13. ASSUME NEW r \in Req, DropVp(r) \/ DropVpLocal(r) PROVE TypeOK'
  <2>1. /\ [h[r] EXCEPT !.pc = "dropVpLocal"] \in Handler
        /\ [h[r] EXCEPT !.pc = "dropVer"] \in Handler
        /\ [h[r] EXCEPT !.pc = "scan"] \in Handler
    BY GotoHandler DEF Pc
  <2>2. "ABSENT" \in Slot
    BY DEF Slot
  <2> QED BY <1>13, <2>1, <2>2 DEF DropVp, DropVpLocal
<1>14. ASSUME NEW r \in Req, DropVer(r) \/ DropVerLocal(r) PROVE TypeOK'
  <2>1. [h[r] EXCEPT !.pc = "dropVerLocal"] \in Handler
    BY GotoHandler DEF Pc
  <2>2. DropVerLocal(r) => h[r].tok \in Token
    BY DEF DropVerLocal, At, HandlerOK, Fit, Tokenless
  <2> QED BY <1>14, <2>1, <2>2, IdleIsHandler DEF DropVer, DropVerLocal
<1>15. ASSUME NEW r \in Req, NEW t \in Token,
              DidRequest(r, t) \/ SpringCheck(r, t) PROVE TypeOK'
  <2>1. /\ [Idle EXCEPT !.op = "did", !.pc = "admitted", !.tok = t] \in Handler
        /\ [Idle EXCEPT !.op = "spring", !.pc = "readVp", !.tok = t] \in Handler
    BY IdleIsHandler DEF Handler, Pc, Op
  <2> QED BY <1>15, <2>1 DEF DidRequest, SpringCheck
<1>16. ASSUME NEW r \in Req, ReadVp(r) \/ FetchVp(r) \/ FillVp(r) PROVE TypeOK'
  <2>1. \A v \in Slot :
          [h[r] EXCEPT !.vp = v,
             !.pc = IF v \in Vp THEN "readVer" ELSE "admitted"] \in Handler
    BY VpHandler DEF Pc
  <2>2. \A v \in Slot : [h[r] EXCEPT !.vp = v, !.pc = "fillVp"] \in Handler
    BY VpHandler DEF Pc
  <2>3. [h[r] EXCEPT !.pc = "fetchVp"] \in Handler
    BY GotoHandler DEF Pc
  <2>4. h[r].tok \in Token /\ h[r].vp \in Slot
    BY <1>16, HandlerFields
    DEF ReadVp, FetchVp, FillVp, At, HandlerOK, Fit, Tokenless
  <2>5. "ABSENT" \in Slot
    BY DEF Slot
  <2> DEFINE after(v) == [h[r] EXCEPT !.vp = v,
                     !.pc = IF v \in Vp THEN "readVer" ELSE "admitted"]
  <2>0. vpLocal[h[r].tok] \in Slot /\ vpRedis[h[r].tok] \in Slot
    BY <2>4
  <2>6. CASE ReadVp(r)
    <3>1. \/ h' = [h EXCEPT ![r] = after(vpLocal[h[r].tok])]
          \/ h' = [h EXCEPT ![r] = [h[r] EXCEPT !.pc = "fetchVp"]]
      BY <2>6, <2>3 DEF ReadVp, AfterVp
    <3>2. h' \in [Req -> Handler]
      BY <3>1, <2>0, <2>1, <2>3
    <3> QED BY <2>6, <3>2 DEF ReadVp
  <2>7. CASE FetchVp(r)
    <3>1. \/ h' = [h EXCEPT ![r] = after("ABSENT")]
          \/ h' = [h EXCEPT ![r] = [h[r] EXCEPT !.vp = vpRedis[h[r].tok],
                                                 !.pc = "fillVp"]]
      BY <2>7 DEF FetchVp, AfterVp
    <3>2. h' \in [Req -> Handler]
      BY <3>1, <2>0, <2>1, <2>2, <2>5
    <3> QED BY <2>7, <3>2 DEF FetchVp
  <2>8. CASE FillVp(r)
    BY <2>1, <2>4, <2>8 DEF FillVp, AfterVp
  <2> QED BY <1>16, <2>6, <2>7, <2>8
<1>17. ASSUME NEW r \in Req, ReadVer(r) \/ FetchVer(r) \/ FillVer(r)
       PROVE TypeOK'
  <2>1. \A p \in {"verified", "fetchVer", "fillVer", "verify"} :
          [h[r] EXCEPT !.pc = p] \in Handler
    BY GotoHandler DEF Pc
  <2> QED BY <1>17, <2>1 DEF ReadVer, FetchVer, FillVer
<1>18. ASSUME NEW r \in Req,
              Verify(r) \/ FillVerified(r) \/ Respond(r) \/ Fail(r)
       PROVE TypeOK'
  <2>1. \A p \in {"fillVerified", "verified"} :
          [h[r] EXCEPT !.pc = p] \in Handler
    BY GotoHandler DEF Pc
  <2> QED BY <1>18, <2>1, IdleIsHandler DEF Verify, FillVerified, Respond, Fail
<1>19. ASSUME Restart PROVE TypeOK'
  BY <1>19, IdleIsHandler DEF Restart, Slot
<1>20. ASSUME Expiry PROVE TypeOK'
  <2>1. "ABSENT" \in Slot
    BY DEF Slot
  <2>2. ASSUME NEW t \in Token, ExpireVp(t) \/ ExpireVer(t) PROVE TypeOK'
    BY <2>1, <2>2 DEF ExpireVp, ExpireVer
  <2>3. ASSUME NEW t \in Token, EvictLocal(t) PROVE TypeOK'
    BY <2>1, <2>3 DEF EvictLocal
  <2>4. ASSUME Tick PROVE TypeOK'
    BY <2>4 DEF Tick
  <2> QED BY <1>20, <2>2, <2>3, <2>4 DEF Expiry
<1>21. ASSUME UNCHANGED vars PROVE TypeOK'
  BY <1>21 DEF vars
<1>22. ASSUME NEW t \in Token, NEW w \in Wallet, BringToken(t, w) PROVE TypeOK'
  <2>1. PICK u \in (now + 1)..MaxExpiry : until' = [until EXCEPT ![t] = u]
    BY <1>22 DEF BringToken
  <2>2. u \in Nat
    BY <2>1, BoundAssumption
  <2> QED BY <1>22, <2>1, <2>2 DEF BringToken, Deliver
<1> QED
  BY <1>1, <1>2, <1>3, <1>4, <1>5, <1>6, <1>7, <1>8, <1>9, <1>10, <1>11,
     <1>12, <1>13, <1>14, <1>15, <1>16, <1>17, <1>18, <1>19, <1>20, <1>21, <1>22
  DEF Next, Login, RefreshSession, CompleteSession, EndSession, UseSession

---------------------------------------------------------------------------
(* A signed token keeps its expiry; an access token is issued now, and is  *)
(* never one that a client has brought; the clock does not run backwards.  *)
LEMMA SigningStep ==
  ASSUME Base, [Next]_vars
  PROVE  /\ \A t \in Token :
              /\ owner[t] # None => owner'[t] # None /\ until'[t] = until[t]
              /\ owner[t] = None /\ owner'[t] # None =>
                   t \in brought' \/ until'[t] = now + AccessTtl
         /\ brought \subseteq brought'
         /\ \A t \in brought' : t \in brought \/ owner[t] = None
         /\ now' \in Nat /\ now <= now'
<1> USE DEF Base
<1> USE DEF Signed, TypeOK
<1>1. ASSUME NEW r \in Req, LoginMint(r) \/ RefreshMint(r)
      PROVE  /\ UNCHANGED <<now, brought>>
             /\ \A t \in Token :
                  /\ owner[t] # None => owner'[t] # None /\ until'[t] = until[t]
                  /\ owner[t] = None /\ owner'[t] # None => until'[t] = now + AccessTtl
  <2>1. h[r].wallet \in Wallet
    BY <1>1 DEF LoginMint, RefreshMint, At, HandlerOK, Fit
  <2>2. PICK t \in Token : /\ MayBecome(t, h[r].wallet)
                           /\ owner' = [owner EXCEPT ![t] = h[r].wallet]
                           /\ until' = [until EXCEPT ![t] = now + AccessTtl]
    BY <1>1 DEF LoginMint, RefreshMint
  <2> QED BY <1>1, <2>1, <2>2, NoneAssumption
          DEF MayBecome, LoginMint, RefreshMint
<1>2. ASSUME Tick PROVE now' \in Nat /\ now <= now' /\ UNCHANGED <<owner, until, brought>>
  BY <1>2 DEF Tick, tokenVars
<1>4. ASSUME NEW b \in Token, NEW w \in Wallet, BringToken(b, w)
      PROVE  /\ now' = now /\ brought' = brought \cup {b} /\ owner[b] = None
             /\ \A t \in Token \ {b} : owner'[t] = owner[t] /\ until'[t] = until[t]
  BY <1>4 DEF BringToken
<1>3. ASSUME [Next]_vars, ~Tick,
             ~(\E r \in Req : LoginMint(r) \/ RefreshMint(r)),
             ~(\E t \in Token, w \in Wallet : BringToken(t, w))
      PROVE  UNCHANGED <<now, owner, until, brought>>
  <2> USE <1>3 DEF tokenVars
  <2>1. ASSUME NEW r \in Req, Login(r) \/ RefreshSession(r)
        PROVE  UNCHANGED <<now, owner, until, brought>>
    BY <2>1 DEF Login, LoginStart, RefreshSession, RefreshRead
  <2>2. ASSUME NEW r \in Req, CompleteSession(r) \/ Fail(r)
        PROVE  UNCHANGED <<now, owner, until, brought>>
    BY <2>2 DEF CompleteSession, SignRefresh, StoreVp, CacheVp, Fail
  <2>3. ASSUME NEW r \in Req, EndSession(r)
        PROVE  UNCHANGED <<now, owner, until, brought>>
    BY <2>3 DEF EndSession, Logout, LogoutAll, ScanKey, LogoutAllEnd,
                BlockToken, DropVp, DropVpLocal, DropVer, DropVerLocal
  <2>4. ASSUME NEW r \in Req, UseSession(r)
        PROVE  UNCHANGED <<now, owner, until, brought>>
    BY <2>4 DEF UseSession, DidRequest, SpringCheck, ReadVp, FetchVp, FillVp,
                ReadVer, FetchVer, FillVer, Verify, FillVerified, Respond
  <2>5. Restart \/ Expiry => UNCHANGED <<now, owner, until, brought>>
    BY DEF Restart, Expiry, ExpireVp, ExpireVer, EvictLocal
  <2>6. UNCHANGED vars => UNCHANGED <<now, owner, until, brought>>
    BY DEF vars
  <2> QED BY <1>3, <2>1, <2>2, <2>3, <2>4, <2>5, <2>6 DEF Next
<1> QED BY <1>1, <1>2, <1>3, <1>4

(* A handler that has a token keeps it, signed.                            *)
LEMMA HandlerStep ==
  ASSUME Base, [Next]_vars
  PROVE  HandlerOK'
<1>0. TypeOK /\ HandlerOK /\ SessionOK
  BY DEF Base
<1>h. h \in [Req -> Handler] /\ Idle \in Handler
  BY <1>0, IdleIsHandler DEF TypeOK
<1>1. \A hd \in Handler : Fit(hd, owner) => Fit(hd, owner')
  BY SigningStep DEF Fit
<1>2. Fit(Idle, owner')
  BY DEF Fit, Idle, Tokenless
<1>3. ASSUME NEW r \in Req, NEW hd, h' = [h EXCEPT ![r] = hd], Fit(hd, owner')
      PROVE  HandlerOK'
  BY <1>0, <1>h, <1>1, <1>3 DEF HandlerOK
<1>4. ASSUME NEW r \in Req, h[r].pc \notin Tokenless,
             NEW hd, hd.pc # "mint", hd.tok = h[r].tok
      PROVE  Fit(hd, owner')
  <2>1. Fit(h[r], owner')
    BY <1>0, <1>h, <1>1 DEF HandlerOK
  <2> QED BY <1>4, <2>1 DEF Fit
<1>5. ASSUME NEW r \in Req, NEW t \in Token, Signed(t)',
             NEW hd, hd.pc # "mint", hd.tok = t
      PROVE  Fit(hd, owner')
  BY <1>5 DEF Fit, Signed
<1>6. \A t \in Token : owner[t] # None => owner'[t] # None
  BY SigningStep
<1> USE DEF Become, Goto, At, Accepts
<1>10. ASSUME NEW r \in Req, Login(r) \/ RefreshSession(r) PROVE HandlerOK'
  <2>1. ASSUME NEW w \in Wallet, LoginStart(r, w) PROVE HandlerOK'
    BY <1>3, <2>1 DEF LoginStart, Fit, Idle, Tokenless
  <2>2. ASSUME NEW w \in Wallet, NEW k \in 1..MaxRefresh, RefreshRead(r, w, k)
        PROVE  HandlerOK'
    BY <1>3, <2>2 DEF RefreshRead, Fit, Idle, Tokenless
  <2>3. ASSUME LoginMint(r) \/ RefreshMint(r) PROVE HandlerOK'
    <3>1. h[r].wallet \in Wallet
      BY <1>0, <2>3 DEF LoginMint, RefreshMint, HandlerOK, Fit
    <3>2. PICK t \in Token, v \in Slot, p \in {"signRefresh", "storeVp"} :
            /\ owner' = [owner EXCEPT ![t] = h[r].wallet]
            /\ h' = [h EXCEPT ![r] =
                       [h[r] EXCEPT !.tok = t, !.vp = v, !.pc = p]]
      BY <2>3 DEF LoginMint, RefreshMint, Slot
    <3> DEFINE hd == [h[r] EXCEPT !.tok = t, !.vp = v, !.pc = p]
    <3>3. hd.tok = t /\ hd.pc # "mint"
      BY <1>h DEF Handler
    <3>4. Signed(t)'
      BY <1>0, <3>1, <3>2, NoneAssumption DEF Signed, TypeOK
    <3> QED BY <1>3, <1>5, <3>2, <3>3, <3>4
  <2> QED BY <1>10, <2>1, <2>2, <2>3 DEF Login, RefreshSession
<1>11. ASSUME NEW r \in Req, CompleteSession(r) \/ Fail(r) PROVE HandlerOK'
  <2>1. \A p \in {"cacheVp", "signRefresh"} :
          LET hd == [h[r] EXCEPT !.pc = p]
          IN hd.tok = h[r].tok /\ hd.pc # "mint"
    BY <1>h DEF Handler
  <2>2. ASSUME SignRefresh(r) PROVE HandlerOK'
    <3>1. PICK k \in 1..MaxRefresh :
             \/ h' = [h EXCEPT ![r] = [h[r] EXCEPT !.rt = k, !.pc = "storeVp"]]
             \/ h' = [h EXCEPT ![r] = Idle]
      BY <2>2 DEF SignRefresh
    <3> DEFINE hd == [h[r] EXCEPT !.rt = k, !.pc = "storeVp"]
    <3>2. hd.tok = h[r].tok /\ hd.pc # "mint"
      BY <1>h DEF Handler
    <3>3. h[r].pc \notin Tokenless
      BY <2>2 DEF SignRefresh, Tokenless
    <3>4. Fit(hd, owner')
      BY <1>4, <3>2, <3>3
    <3> HIDE DEF hd
    <3> QED BY <1>2, <1>3, <3>1, <3>4 DEF hd
  <2>3. ASSUME StoreVp(r) \/ CacheVp(r) PROVE HandlerOK'
    <3>1. \/ h' = [h EXCEPT ![r] = Idle]
          \/ \E p \in {"cacheVp", "signRefresh"} :
               h' = [h EXCEPT ![r] = [h[r] EXCEPT !.pc = p]]
      BY <2>3 DEF StoreVp, CacheVp
    <3>2. h[r].pc \notin Tokenless
      BY <2>3 DEF StoreVp, CacheVp, Tokenless
    <3> QED BY <1>2, <1>3, <1>4, <2>1, <3>1, <3>2
  <2>4. ASSUME Fail(r) PROVE HandlerOK'
    BY <1>2, <1>3, <2>4 DEF Fail
  <2> QED BY <1>11, <2>2, <2>3, <2>4 DEF CompleteSession
<1>12. ASSUME NEW r \in Req, NEW p \in Pc \ {"mint"}, h[r].pc \notin Tokenless,
              h' = [h EXCEPT ![r] = [h[r] EXCEPT !.pc = p]]
       PROVE  HandlerOK'
  <2> DEFINE hd == [h[r] EXCEPT !.pc = p]
  <2>1. hd.tok = h[r].tok /\ hd.pc # "mint"
    BY <1>h DEF Handler
  <2> QED BY <1>3, <1>4, <1>12, <2>1
<1>13. ASSUME NEW r \in Req, NEW p \in Pc \ {"mint"}, NEW v \in Slot,
              h[r].pc \notin Tokenless,
              h' = [h EXCEPT ![r] = [h[r] EXCEPT !.vp = v, !.pc = p]]
       PROVE  HandlerOK'
  <2> DEFINE hd == [h[r] EXCEPT !.vp = v, !.pc = p]
  <2>1. hd.tok = h[r].tok /\ hd.pc # "mint"
    BY <1>h DEF Handler
  <2> QED BY <1>3, <1>4, <1>13, <2>1
<1>14. ASSUME NEW r \in Req, EndSession(r) PROVE HandlerOK'
  <2>1. ASSUME NEW t \in Token, Logout(r, t) PROVE HandlerOK'
    <3> DEFINE hd == [Idle EXCEPT !.op = "logout", !.pc = "block", !.tok = t]
    <3>1. hd.tok = t /\ hd.pc # "mint"
      BY DEF Idle
    <3> QED BY <1>3, <1>5, <1>6, <2>1, <3>1 DEF Logout, Valid, Signed
  <2>2. ASSUME NEW t \in Token, LogoutAll(r, t) PROVE HandlerOK'
    <3> DEFINE hd == [Idle EXCEPT
                 !.op = "logoutAll", !.pc = "scan", !.wallet = owner[t],
                 !.due = {u \in Token : vpRedis[u] # "ABSENT"},
                 !.owed = {u \in Token : Valid(u) /\ u \in delivered}]
    <3>1. hd.pc = "scan"
      BY DEF Idle
    <3>2. h' = [h EXCEPT ![r] = hd]
      BY <2>2 DEF LogoutAll
    <3> HIDE DEF hd
    <3> QED BY <1>3, <3>1, <3>2 DEF Fit, Tokenless
  <2>3. ASSUME NEW t \in Token, ScanKey(r, t) PROVE HandlerOK'
    <3> DEFINE hit == [h[r] EXCEPT !.pc = "block", !.tok = t, !.due = @ \ {t}]
               miss == [h[r] EXCEPT !.due = @ \ {t}]
    <3>1. hit.tok = t /\ hit.pc # "mint" /\ miss.pc = "scan"
      BY <1>h, <2>3 DEF Handler, ScanKey
    <3>2. CASE Names(vpRedis[t], owner[t], h[r].wallet)
      <4>0. h[r].wallet \in Wallet \cup {None}
        BY <1>h, HandlerFields
      <4>1. Signed(t)'
        BY <1>0, <1>6, <3>2, <4>0, NoneAssumption DEF SessionOK, Signed, Names
      <4>2. Fit(hit, owner')
        BY <1>5, <3>1, <4>1
      <4>3. h' = [h EXCEPT ![r] = hit]
        BY <2>3, <3>2 DEF ScanKey
      <4> QED BY <1>3, <4>2, <4>3
    <3>3. CASE ~Names(vpRedis[t], owner[t], h[r].wallet)
      <4>1. h' = [h EXCEPT ![r] = miss]
        BY <2>3, <3>3 DEF ScanKey
      <4>2. Fit(miss, owner')
        BY <3>1 DEF Fit, Tokenless
      <4> QED BY <1>3, <4>1, <4>2
    <3> QED BY <3>2, <3>3
  <2>4. ASSUME LogoutAllEnd(r) PROVE HandlerOK'
    <3> DEFINE hd == [h[r] EXCEPT !.pc = "scanned"]
    <3>1. hd.pc = "scanned"
      BY <1>h DEF Handler
    <3>2. Fit(hd, owner')
      BY <3>1 DEF Fit, Tokenless
    <3> QED BY <1>3, <2>4, <3>2 DEF LogoutAllEnd
  <2>5. ASSUME BlockToken(r) \/ DropVp(r) \/ DropVpLocal(r) \/ DropVer(r)
        PROVE  HandlerOK'
    <3>1. PICK p \in Pc \ {"mint"} : h' = [h EXCEPT ![r] = [h[r] EXCEPT !.pc = p]]
      BY <2>5 DEF BlockToken, DropVp, DropVpLocal, DropVer, Pc
    <3>2. h[r].pc \notin Tokenless
      BY <2>5 DEF BlockToken, DropVp, DropVpLocal, DropVer, Tokenless
    <3> QED BY <1>12, <3>1, <3>2
  <2>6. ASSUME DropVerLocal(r) PROVE HandlerOK'
    BY <1>2, <1>3, <2>6 DEF DropVerLocal
  <2> QED BY <1>14, <2>1, <2>2, <2>3, <2>4, <2>5, <2>6 DEF EndSession
<1>15. ASSUME NEW r \in Req, UseSession(r) PROVE HandlerOK'
  <2>1. ASSUME NEW t \in Token, DidRequest(r, t) \/ SpringCheck(r, t)
        PROVE  HandlerOK'
    <3> DEFINE did == [Idle EXCEPT !.op = "did", !.pc = "admitted", !.tok = t]
               spring == [Idle EXCEPT !.op = "spring", !.pc = "readVp",
                                      !.tok = t]
    <3>1. /\ did.tok = t /\ did.pc # "mint"
          /\ spring.tok = t /\ spring.pc # "mint"
      BY DEF Idle
    <3>2. h' = [h EXCEPT ![r] = did] \/ h' = [h EXCEPT ![r] = spring]
      BY <2>1 DEF DidRequest, SpringCheck
    <3>3. Signed(t)'
      BY <1>6, <2>1 DEF DidRequest, SpringCheck, Valid, Signed
    <3>4. Fit(did, owner') /\ Fit(spring, owner')
      BY <1>5, <3>1, <3>3
    <3> QED BY <1>3, <3>2, <3>4
  <2>2. ASSUME ReadVp(r) \/ FetchVp(r) \/ FillVp(r) PROVE HandlerOK'
    <3>1. h[r].pc \notin Tokenless
      BY <2>2 DEF ReadVp, FetchVp, FillVp, Tokenless
    <3>2. h[r].tok \in Token /\ h[r].vp \in Slot
      BY <1>0, <1>h, <3>1, HandlerFields DEF HandlerOK, Fit
    <3>3. /\ vpLocal[h[r].tok] \in Slot /\ vpRedis[h[r].tok] \in Slot
          /\ "ABSENT" \in Slot
      BY <1>0, <3>2 DEF TypeOK, Slot
    <3>4. \/ \E p \in Pc \ {"mint"}, v \in Slot :
               h' = [h EXCEPT ![r] = [h[r] EXCEPT !.vp = v, !.pc = p]]
          \/ \E p \in Pc \ {"mint"} : h' = [h EXCEPT ![r] = [h[r] EXCEPT !.pc = p]]
      BY <2>2, <3>2, <3>3 DEF ReadVp, FetchVp, FillVp, AfterVp, Pc
    <3> QED BY <1>12, <1>13, <3>1, <3>4
  <2>3. ASSUME ReadVer(r) \/ FetchVer(r) \/ FillVer(r) \/ Verify(r)
               \/ FillVerified(r) \/ Respond(r)
        PROVE  HandlerOK'
    <3>1. \/ h' = [h EXCEPT ![r] = Idle]
          \/ /\ h[r].pc \notin Tokenless
             /\ \E p \in Pc \ {"mint"} :
                  h' = [h EXCEPT ![r] = [h[r] EXCEPT !.pc = p]]
      BY <2>3 DEF ReadVer, FetchVer, FillVer, Verify, FillVerified, Respond,
                  Pc, Tokenless
    <3> QED BY <1>2, <1>3, <1>12, <3>1
  <2> QED BY <1>15, <2>1, <2>2, <2>3 DEF UseSession
<1>16. ASSUME Restart PROVE HandlerOK'
  BY <1>2, <1>16 DEF Restart, HandlerOK
<1>17. ASSUME Expiry \/ UNCHANGED vars PROVE HandlerOK'
  <2>1. UNCHANGED h
    BY <1>17 DEF Expiry, ExpireVp, ExpireVer, EvictLocal, Tick, vars
  <2> QED BY <1>0, <1>h, <1>1, <2>1 DEF HandlerOK
<1>18. ASSUME NEW t \in Token, NEW w \in Wallet, BringToken(t, w) PROVE HandlerOK'
  BY <1>0, <1>h, <1>1, <1>18 DEF HandlerOK, BringToken
<1> QED
  BY <1>10, <1>11, <1>14, <1>15, <1>16, <1>17, <1>18 DEF Next

(* Only StoreVp adds to vp:token:, and for a token that is signed.         *)
LEMMA SessionStep ==
  ASSUME Base, [Next]_vars
  PROVE  SessionOK'
<1>0. TypeOK /\ HandlerOK /\ SessionOK
  BY DEF Base
<1>1. \A t \in Token : owner[t] # None => owner'[t] # None
  BY SigningStep
<1>2. ASSUME NEW r \in Req, StoreVp(r) PROVE SessionOK'
  <2>1. h[r].tok \in Token /\ owner[h[r].tok] # None
    BY <1>0, <1>2 DEF StoreVp, At, HandlerOK, Fit, Tokenless
  <2> QED BY <1>0, <1>1, <1>2, <2>1 DEF StoreVp, SessionOK, Signed, TypeOK
<1>3. ASSUME NEW u \in Token, vpRedis' = [vpRedis EXCEPT ![u] = "ABSENT"]
      PROVE  SessionOK'
  BY <1>0, <1>1, <1>3 DEF SessionOK, Signed, TypeOK
<1>4. ASSUME UNCHANGED vpRedis PROVE SessionOK'
  BY <1>0, <1>1, <1>4 DEF SessionOK, Signed
<1>5. ASSUME NEW r \in Req, DropVp(r) PROVE SessionOK'
  <2>1. h[r].tok \in Token
    BY <1>0, <1>5 DEF DropVp, At, HandlerOK, Fit, Tokenless
  <2> QED BY <1>3, <1>5, <2>1 DEF DropVp
<1>6. ASSUME NEW t \in Token, ExpireVp(t) PROVE SessionOK'
  BY <1>3, <1>6 DEF ExpireVp
<1>7. ASSUME ~(\E r \in Req : StoreVp(r) \/ DropVp(r)),
             ~(\E t \in Token : ExpireVp(t))
      PROVE  UNCHANGED vpRedis
  <2> USE <1>7 DEF sessionVars
  <2>1. ASSUME NEW r \in Req,
               Login(r) \/ RefreshSession(r) \/ CompleteSession(r) \/ Fail(r)
        PROVE  UNCHANGED vpRedis
    BY <2>1 DEF Login, LoginStart, LoginMint, RefreshSession, RefreshRead,
                RefreshMint, CompleteSession, SignRefresh, CacheVp, Fail
  <2>2. ASSUME NEW r \in Req, EndSession(r) PROVE UNCHANGED vpRedis
    BY <2>2 DEF EndSession, Logout, LogoutAll, ScanKey, LogoutAllEnd,
                BlockToken, DropVpLocal, DropVer, DropVerLocal
  <2>3. ASSUME NEW r \in Req, UseSession(r) PROVE UNCHANGED vpRedis
    BY <2>3 DEF UseSession, DidRequest, SpringCheck, ReadVp, FetchVp, FillVp,
                ReadVer, FetchVer, FillVer, Verify, FillVerified, Respond
  <2>4. Restart \/ Expiry \/ UNCHANGED vars => UNCHANGED vpRedis
    BY DEF Restart, Expiry, ExpireVer, EvictLocal, Tick, vars
  <2>5. \A t \in Token, w \in Wallet : BringToken(t, w) => UNCHANGED vpRedis
    BY DEF BringToken
  <2> QED BY <2>1, <2>2, <2>3, <2>4, <2>5 DEF Next
<1> QED BY <1>2, <1>4, <1>5, <1>6, <1>7

(* The blocklist only grows, and each entry lasts as long as its token.    *)
LEMMA BlockStep ==
  ASSUME IInv, [Next]_vars
  PROVE  IssuedBefore' /\ BlockOutlives' /\ revoked \subseteq revoked'
<1>0. /\ Base /\ IssuedBefore /\ BlockOutlives
      /\ TypeOK /\ HandlerOK
  BY DEF IInv, Base
<1>1. /\ \A t \in Token :
           /\ owner[t] # None => owner'[t] # None /\ until'[t] = until[t]
           /\ owner[t] = None /\ owner'[t] # None =>
                t \in brought' \/ until'[t] = now + AccessTtl
      /\ brought \subseteq brought'
      /\ now' \in Nat /\ now <= now'
  BY <1>0, SigningStep
<1>2. IssuedBefore'
  <2> SUFFICES ASSUME NEW t \in Token, owner'[t] # None, t \notin brought'
               PROVE  until'[t] <= now' + AccessTtl
    BY DEF IssuedBefore, Signed
  <2>1. t \notin brought /\ now \in Nat /\ until[t] \in Nat
    BY <1>0, <1>1 DEF TypeOK
  <2>2. CASE owner[t] = None
    BY <1>1, <2>1, <2>2, TtlAssumption
  <2>3. CASE owner[t] # None
    <3>1. until'[t] = until[t] /\ until[t] <= now + AccessTtl
      BY <1>0, <1>1, <2>1, <2>3 DEF IssuedBefore, Signed
    <3> QED BY <1>1, <2>1, <3>1, TtlAssumption
  <2> QED BY <2>2, <2>3
<1>3. ASSUME UNCHANGED <<blockedUntil, revoked>>
      PROVE  BlockOutlives' /\ revoked \subseteq revoked'
  BY <1>0, <1>1, <1>3 DEF BlockOutlives, Signed, TypeOK
<1>4. ASSUME NEW r \in Req, BlockToken(r)
      PROVE  BlockOutlives' /\ revoked \subseteq revoked'
  <2> DEFINE tok == h[r].tok
  <2>1. tok \in Token /\ owner[tok] # None
    BY <1>0, <1>4 DEF BlockToken, At, HandlerOK, Fit, Tokenless
  <2>2. /\ revoked' = revoked \cup {tok}
        /\ blockedUntil' = [blockedUntil EXCEPT ![tok] = now + BlockTtl]
        /\ until' = until /\ brought' = brought
    BY <1>4 DEF BlockToken, BlockExpiry, tokenVars
  <2>3. tok \notin brought => until[tok] <= now + AccessTtl
    BY <1>0, <2>1 DEF IssuedBefore, Signed
  <2> HIDE DEF tok
  <2>4. tok \notin brought => until[tok] <= now + BlockTtl
    BY <1>0, <2>1, <2>3, TtlAssumption DEF TypeOK
  <2>5. ASSUME NEW t \in revoked'
        PROVE  owner'[t] # None /\ (t \notin brought => until'[t] <= blockedUntil'[t])
    BY <1>0, <1>1, <2>1, <2>2, <2>4, <2>5 DEF BlockOutlives, Signed, TypeOK
  <2> QED BY <2>2, <2>5 DEF BlockOutlives, Signed
<1>5. ASSUME ~(\E r \in Req : BlockToken(r))
      PROVE  UNCHANGED <<blockedUntil, revoked>>
  <2> USE <1>5 DEF sessionVars
  <2>1. ASSUME NEW r \in Req,
               Login(r) \/ RefreshSession(r) \/ CompleteSession(r) \/ Fail(r)
        PROVE  UNCHANGED <<blockedUntil, revoked>>
    BY <2>1 DEF Login, LoginStart, LoginMint, RefreshSession, RefreshRead,
                RefreshMint, CompleteSession, SignRefresh, StoreVp, CacheVp,
                Fail
  <2>2. ASSUME NEW r \in Req, EndSession(r)
        PROVE  UNCHANGED <<blockedUntil, revoked>>
    BY <2>2 DEF EndSession, Logout, LogoutAll, ScanKey, LogoutAllEnd,
                DropVp, DropVpLocal, DropVer, DropVerLocal
  <2>3. ASSUME NEW r \in Req, UseSession(r)
        PROVE  UNCHANGED <<blockedUntil, revoked>>
    BY <2>3 DEF UseSession, DidRequest, SpringCheck, ReadVp, FetchVp, FillVp,
                ReadVer, FetchVer, FillVer, Verify, FillVerified, Respond
  <2>4. Restart \/ Expiry \/ UNCHANGED vars
          => UNCHANGED <<blockedUntil, revoked>>
    BY DEF Restart, Expiry, ExpireVp, ExpireVer, EvictLocal, Tick, vars
  <2>5. \A t \in Token, w \in Wallet : BringToken(t, w) => UNCHANGED <<blockedUntil, revoked>>
    BY DEF BringToken
  <2> QED BY <2>1, <2>2, <2>3, <2>4, <2>5 DEF Next
<1> QED BY <1>2, <1>3, <1>4, <1>5

---------------------------------------------------------------------------
(* The initial state satisfies the inductive invariant. *)
LEMMA InitIInv == Init => IInv
<1> SUFFICES ASSUME Init PROVE IInv
  OBVIOUS
<1> USE DEF Init
<1>1. TypeOK
  BY IdleIsHandler DEF TypeOK, Slot
<1>2. HandlerOK
  BY DEF HandlerOK, Fit, Idle, Tokenless
<1>3. SessionOK /\ IssuedBefore /\ BlockOutlives
  BY DEF SessionOK, IssuedBefore, BlockOutlives, Signed
<1> QED BY <1>1, <1>2, <1>3 DEF IInv, Base

(* Every step keeps it. *)
LEMMA StepIInv == IInv /\ [Next]_vars => IInv'
  BY TypeStep, HandlerStep, SessionStep, BlockStep DEF IInv, Base

(* IInv holds in every reachable state. *)
THEOREM Inductive == Spec => []IInv
  BY InitIInv, StepIInv, PTL DEF Spec

(* The state keeps its types, whatever the constants. *)
THEOREM TypeCorrect == Spec => []TypeOK
<1>1. IInv => TypeOK
  BY DEF IInv, Base
<1> QED BY <1>1, Inductive, PTL

(* An access token that logout or logout-all has blocked stays blocked for *)
(* as long as it verifies: after restarts and evictions, with tokens signed again in *)
(* the same second, and for every pair of TTLs with AccessTtl <= BlockTtl. *)
THEOREM RevocationLasts == Spec => []RevokedStaysBlocked
<1>1. IInv => RevokedStaysBlocked
  <2> SUFFICES ASSUME IInv, NEW t \in revoked \ brought, Valid(t) PROVE Blocked(t)
    BY DEF RevokedStaysBlocked
  <2>1. /\ now \in Nat /\ t \in Token
        /\ until[t] \in Nat /\ blockedUntil[t] \in Nat
        /\ until[t] <= blockedUntil[t]
    BY DEF IInv, Base, TypeOK, BlockOutlives
  <2> QED BY <2>1 DEF Valid, Expired, Blocked
<1> QED BY <1>1, Inductive, PTL

---------------------------------------------------------------------------
(* Admission.  A handler that works for SpringAuthGuard never reaches the  *)
(* labels of the logout handlers, so the token it was admitted with stays. *)
Revoking == {"scan", "block", "dropVp", "dropVpLocal"}

GuardOK == \A r \in Req : h[r].op = "spring" => h[r].pc \notin Revoking

(* A handler serves a SpringAuthGuard request after a step only if it did  *)
(* before, with the same token, or the step is the check of the token.     *)
Admits(hd) == Valid(hd.tok) /\ ~Blocked(hd.tok)
Keeps(hd, new) == new.op = "spring" =>
  /\ new.pc \notin Revoking
  /\ (hd.op = "spring" /\ new.tok = hd.tok) \/ Admits(new)

(* How a step treats each handler. *)
LEMMA KeepsStep ==
  ASSUME TypeOK, GuardOK, [Next]_vars
  PROVE  \A q \in Req : Keeps(h[q], h'[q])
<1>h. h \in [Req -> Handler]
  BY DEF TypeOK
<1>1. \A q \in Req : Keeps(h[q], h[q])
  BY DEF GuardOK, Keeps
<1>2. ASSUME NEW r \in Req, NEW hd, h' = [h EXCEPT ![r] = hd], Keeps(h[r], hd)
      PROVE  \A q \in Req : Keeps(h[q], h'[q])
  BY <1>h, <1>1, <1>2
<1>3. ASSUME NEW r \in Req, NEW hd, h' = [h EXCEPT ![r] = hd], hd.op # "spring"
      PROVE  \A q \in Req : Keeps(h[q], h'[q])
  BY <1>2, <1>3 DEF Keeps
<1>4. ASSUME NEW r \in Req, NEW hd, h' = [h EXCEPT ![r] = hd],
             hd.op = h[r].op, hd.tok = h[r].tok, hd.pc \notin Revoking
      PROVE  \A q \in Req : Keeps(h[q], h'[q])
  BY <1>2, <1>4 DEF Keeps
<1>5. ASSUME NEW r \in Req, h' = [h EXCEPT ![r] = Idle]
      PROVE  \A q \in Req : Keeps(h[q], h'[q])
  <2>1. Idle.op # "spring"
    BY DEF Idle
  <2> QED BY <1>3, <1>5, <2>1
<1>6. ASSUME NEW r \in Req, NEW p, h' = [h EXCEPT ![r] = [h[r] EXCEPT !.pc = p]],
             p \notin Revoking \/ h[r].op # "spring"
      PROVE  \A q \in Req : Keeps(h[q], h'[q])
  <2> DEFINE hd == [h[r] EXCEPT !.pc = p]
  <2>1. hd.op = h[r].op /\ hd.tok = h[r].tok /\ hd.pc = p
    BY <1>h DEF Handler
  <2> QED BY <1>3, <1>4, <1>6, <2>1
<1>7. ASSUME NEW r \in Req, NEW p \in {"readVer", "admitted", "fillVp"}, NEW v,
             h' = [h EXCEPT ![r] = [h[r] EXCEPT !.vp = v, !.pc = p]]
      PROVE  \A q \in Req : Keeps(h[q], h'[q])
  <2> DEFINE hd == [h[r] EXCEPT !.vp = v, !.pc = p]
  <2>1. hd.op = h[r].op /\ hd.tok = h[r].tok /\ hd.pc = p
    BY <1>h DEF Handler
  <2> QED BY <1>4, <1>7, <2>1 DEF Revoking
<1> USE DEF Become, Goto, At, Accepts
<1>10. ASSUME NEW r \in Req, Login(r) \/ RefreshSession(r)
       PROVE  \A q \in Req : Keeps(h[q], h'[q])
  <2>1. ASSUME NEW w \in Wallet, LoginStart(r, w)
        PROVE  \A q \in Req : Keeps(h[q], h'[q])
    <3> DEFINE hd == [Idle EXCEPT !.op = "login", !.pc = "mint",
                                 !.wallet = w]
    <3>1. hd.op # "spring"
      BY DEF Idle
    <3> HIDE DEF hd
    <3> QED BY <1>3, <2>1, <3>1 DEF hd, LoginStart
  <2>2. ASSUME NEW w \in Wallet, NEW k \in 1..MaxRefresh, RefreshRead(r, w, k)
        PROVE  \A q \in Req : Keeps(h[q], h'[q])
    <3> DEFINE hd == [Idle EXCEPT !.op = "refresh", !.pc = "mint",
                                 !.wallet = w]
    <3>1. hd.op # "spring"
      BY DEF Idle
    <3> HIDE DEF hd
    <3> QED BY <1>3, <2>2, <3>1 DEF hd, RefreshRead
  <2>3. ASSUME LoginMint(r) \/ RefreshMint(r)
        PROVE  \A q \in Req : Keeps(h[q], h'[q])
    <3>1. PICK t \in Token, v \in Slot, p \in {"signRefresh", "storeVp"} :
            h' = [h EXCEPT ![r] = [h[r] EXCEPT !.tok = t, !.vp = v, !.pc = p]]
      BY <2>3 DEF LoginMint, RefreshMint, Slot
    <3> DEFINE hd == [h[r] EXCEPT !.tok = t, !.vp = v, !.pc = p]
    <3>2. hd.op # "spring"
      BY <1>h, <2>3 DEF Handler, LoginMint, RefreshMint
    <3> QED BY <1>3, <3>1, <3>2
  <2> QED BY <1>10, <2>1, <2>2, <2>3 DEF Login, RefreshSession
<1>11. ASSUME NEW r \in Req, CompleteSession(r) \/ Fail(r)
       PROVE  \A q \in Req : Keeps(h[q], h'[q])
  <2>1. ASSUME SignRefresh(r) PROVE \A q \in Req : Keeps(h[q], h'[q])
    <3>1. PICK k \in 1..MaxRefresh :
             \/ h' = [h EXCEPT ![r] = [h[r] EXCEPT !.rt = k, !.pc = "storeVp"]]
             \/ h' = [h EXCEPT ![r] = Idle]
      BY <2>1 DEF SignRefresh
    <3> DEFINE hd == [h[r] EXCEPT !.rt = k, !.pc = "storeVp"]
    <3>2. hd.op = h[r].op /\ hd.tok = h[r].tok /\ hd.pc = "storeVp"
      BY <1>h DEF Handler
    <3>3. hd.pc \notin Revoking
      BY <3>2 DEF Revoking
    <3> HIDE DEF hd
    <3> QED BY <1>4, <1>5, <3>1, <3>2, <3>3 DEF hd
  <2>2. ASSUME StoreVp(r) \/ CacheVp(r) \/ Fail(r)
        PROVE  \A q \in Req : Keeps(h[q], h'[q])
    BY <1>5, <1>6, <2>2 DEF StoreVp, CacheVp, Fail, Revoking
  <2> QED BY <1>11, <2>1, <2>2 DEF CompleteSession
<1>12. ASSUME NEW r \in Req, EndSession(r)
       PROVE  \A q \in Req : Keeps(h[q], h'[q])
  <2>1. ASSUME NEW t \in Token, Logout(r, t) \/ LogoutAll(r, t)
        PROVE  \A q \in Req : Keeps(h[q], h'[q])
    <3> DEFINE due == {u \in Token : vpRedis[u] # "ABSENT"}
               owed == {u \in Token : Valid(u) /\ u \in delivered}
               one == [Idle EXCEPT !.op = "logout", !.pc = "block", !.tok = t]
               all == [Idle EXCEPT
                 !.op = "logoutAll", !.pc = "scan", !.wallet = owner[t],
                 !.due = due, !.owed = owed]
    <3>1. one.op # "spring" /\ all.op # "spring"
      BY DEF Idle
    <3>2. h' = [h EXCEPT ![r] = one] \/ h' = [h EXCEPT ![r] = all]
      BY <2>1 DEF Logout, LogoutAll
    <3> HIDE DEF one, all
    <3> QED BY <1>3, <3>1, <3>2
  <2>2. ASSUME NEW t \in Token, ScanKey(r, t)
        PROVE  \A q \in Req : Keeps(h[q], h'[q])
    <3> DEFINE hit == [h[r] EXCEPT !.pc = "block", !.tok = t, !.due = @ \ {t}]
               miss == [h[r] EXCEPT !.due = @ \ {t}]
    <3>1. h[r].op # "spring"
      BY <2>2 DEF ScanKey, GuardOK, Revoking
    <3>2. hit.op # "spring" /\ miss.op # "spring"
      BY <1>h, <3>1 DEF Handler
    <3>3. h' = [h EXCEPT ![r] = hit] \/ h' = [h EXCEPT ![r] = miss]
      BY <2>2 DEF ScanKey
    <3> QED BY <1>3, <3>2, <3>3
  <2>3. ASSUME LogoutAllEnd(r) \/ BlockToken(r) \/ DropVp(r) \/ DropVpLocal(r)
               \/ DropVer(r)
        PROVE  \A q \in Req : Keeps(h[q], h'[q])
    <3>1. PICK p : /\ h' = [h EXCEPT ![r] = [h[r] EXCEPT !.pc = p]]
                   /\ p \notin Revoking \/ h[r].pc \in Revoking
      BY <2>3 DEF LogoutAllEnd, BlockToken, DropVp, DropVpLocal, DropVer,
                  Revoking
    <3> QED BY <1>6, <3>1 DEF GuardOK
  <2>4. ASSUME DropVerLocal(r) PROVE \A q \in Req : Keeps(h[q], h'[q])
    BY <1>5, <2>4 DEF DropVerLocal
  <2> QED BY <1>12, <2>1, <2>2, <2>3, <2>4 DEF EndSession
<1>13. ASSUME NEW r \in Req, UseSession(r)
       PROVE  \A q \in Req : Keeps(h[q], h'[q])
  <2>1. ASSUME NEW t \in Token, DidRequest(r, t)
        PROVE  \A q \in Req : Keeps(h[q], h'[q])
    <3> DEFINE hd == [Idle EXCEPT !.op = "did", !.pc = "admitted", !.tok = t]
    <3>1. hd.op # "spring"
      BY DEF Idle
    <3> HIDE DEF hd
    <3> QED BY <1>3, <2>1, <3>1 DEF hd, DidRequest
  <2>2. ASSUME NEW t \in Token, SpringCheck(r, t)
        PROVE  \A q \in Req : Keeps(h[q], h'[q])
    <3> DEFINE hd == [Idle EXCEPT !.op = "spring", !.pc = "readVp", !.tok = t]
    <3>1. hd.tok = t /\ hd.pc \notin Revoking
      BY DEF Idle, Revoking
    <3>2. Keeps(h[r], hd)
      BY <2>2, <3>1 DEF Keeps, Admits, SpringCheck
    <3> QED BY <1>2, <2>2, <3>2 DEF SpringCheck
  <2>3. ASSUME ReadVp(r) \/ FetchVp(r) \/ FillVp(r)
        PROVE  \A q \in Req : Keeps(h[q], h'[q])
    <3>1. \/ \E p \in {"readVer", "admitted", "fillVp"} : \E v :
               h' = [h EXCEPT ![r] = [h[r] EXCEPT !.vp = v, !.pc = p]]
          \/ h' = [h EXCEPT ![r] = [h[r] EXCEPT !.pc = "fetchVp"]]
      BY <2>3 DEF ReadVp, FetchVp, FillVp, AfterVp
    <3> QED BY <1>6, <1>7, <3>1 DEF Revoking
  <2>4. ASSUME ReadVer(r) \/ FetchVer(r) \/ FillVer(r) \/ Verify(r)
               \/ FillVerified(r) \/ Respond(r)
        PROVE  \A q \in Req : Keeps(h[q], h'[q])
    <3>1. \/ h' = [h EXCEPT ![r] = Idle]
          \/ \E p \in Pc \ Revoking :
                h' = [h EXCEPT ![r] = [h[r] EXCEPT !.pc = p]]
      BY <2>4 DEF ReadVer, FetchVer, FillVer, Verify, FillVerified, Respond,
                  Pc, Revoking
    <3> QED BY <1>5, <1>6, <3>1
  <2> QED BY <1>13, <2>1, <2>2, <2>3, <2>4 DEF UseSession
<1>14. ASSUME Restart PROVE \A q \in Req : Keeps(h[q], h'[q])
  BY <1>14 DEF Restart, Keeps, Idle
<1>15. ASSUME Expiry \/ UNCHANGED vars PROVE \A q \in Req : Keeps(h[q], h'[q])
  BY <1>1, <1>15 DEF Expiry, ExpireVp, ExpireVer, EvictLocal, Tick, vars
<1>16. ASSUME NEW t \in Token, NEW w \in Wallet, BringToken(t, w)
       PROVE  \A q \in Req : Keeps(h[q], h'[q])
  BY <1>1, <1>16 DEF BringToken
<1> QED BY <1>10, <1>11, <1>12, <1>13, <1>14, <1>15, <1>16 DEF Next

(* A blocked access token is admitted by no later request, in any interleaving of *)
(* logouts, logins, restarts and expiries.                                 *)
THEOREM RevocationRefuses == Spec => NoAdmissionAfterRevocation
<1> DEFINE Inv == IInv /\ GuardOK
           Refuses == \A t \in revoked \ brought : InFlight(t)' \subseteq InFlight(t)
<1>1. Init => GuardOK
  BY DEF Init, GuardOK, Idle, Revoking
<1>2. Inv /\ [Next]_vars => GuardOK'
  BY KeepsStep DEF IInv, Base, GuardOK, Keeps
<1>3. ASSUME Inv, [Next]_vars PROVE Refuses
  <2> SUFFICES ASSUME NEW t \in revoked \ brought, NEW q \in Req,
                      h'[q].op = "spring", h'[q].tok = t
               PROVE  h[q].op = "spring" /\ h[q].tok = t
    BY DEF InFlight
  <2>1. Keeps(h[q], h'[q])
    BY <1>3, KeepsStep DEF IInv, Base
  <2>2. ~Admits(h'[q])
    <3>1. Valid(t) => Blocked(t)
      <4>1. /\ now \in Nat /\ t \in Token
            /\ until[t] \in Nat /\ blockedUntil[t] \in Nat
            /\ until[t] <= blockedUntil[t]
        BY <1>3 DEF IInv, Base, TypeOK, BlockOutlives
      <4> QED BY <4>1 DEF Valid, Expired, Blocked
    <3> QED BY <3>1 DEF Admits
  <2> QED BY <2>1, <2>2 DEF Keeps
<1> HIDE DEF Refuses
<1>4. Inv /\ [Next]_vars => Inv'
  BY <1>2, StepIInv
<1>5. Spec => [][Refuses]_vars
  BY <1>1, <1>3, <1>4, InitIInv, PTL DEF Spec
<1> QED BY <1>5 DEF Refuses, NoAdmissionAfterRevocation

---------------------------------------------------------------------------
(* Cached verifications.  A VP in Redis, in the local cache or in the hands*)
(* of a handler is one a login has bound to the token, and a verification  *)
(* stems from one that verifyPresentation accepts.                         *)
Holding == {"cacheVp", "fillVp", "readVer", "fetchVer", "verify"}
Knowing == {"fillVer", "fillVerified", "verified"}

Binds(hd, ever) ==
  /\ hd.pc \in Holding /\ hd.vp \in Vp => hd.vp \in ever[hd.tok]
  /\ hd.pc \in Knowing => "VP" \in ever[hd.tok]

HandlersBound == \A r \in Req : Binds(h[r], everVp)
CachesBound ==
  \A t \in Token : /\ vpRedis[t] \in Vp => vpRedis[t] \in everVp[t]
                   /\ vpLocal[t] \in Vp => vpLocal[t] \in everVp[t]
                   /\ verRedis[t] => "VP" \in everVp[t]
                   /\ verLocal[t] => "VP" \in everVp[t]

(* What a handler is after it has moved, with or without a value.          *)
LEMMA MovedFields ==
  ASSUME NEW hd \in Handler, NEW p, NEW v
  PROVE  /\ [hd EXCEPT !.pc = p].pc = p
         /\ [hd EXCEPT !.pc = p].vp = hd.vp
         /\ [hd EXCEPT !.pc = p].tok = hd.tok
         /\ [hd EXCEPT !.vp = v, !.pc = p].pc = p
         /\ [hd EXCEPT !.vp = v, !.pc = p].vp = v
         /\ [hd EXCEPT !.vp = v, !.pc = p].tok = hd.tok
BY DEF Handler

(* The token of a handler that has one. *)
LEMMA TokenOf ==
  ASSUME Base, NEW r \in Req, h[r].pc \notin Tokenless
  PROVE  h[r].tok \in Token /\ owner[h[r].tok] # None
BY DEF Base, HandlerOK, Fit

(* Only StoreVp adds to what logins have bound, and nothing is taken away. *)
LEMMA EverGrows ==
  ASSUME Base, [Next]_vars
  PROVE  /\ \A t \in Token : everVp[t] \subseteq everVp'[t]
         /\ \/ everVp' = everVp
            \/ \E r \in Req : StoreVp(r)
<1> USE DEF sessionVars
<1>1. ASSUME NEW r \in Req, StoreVp(r)
      PROVE  \A t \in Token : everVp[t] \subseteq everVp'[t]
  BY <1>1 DEF StoreVp, Base, TypeOK
<1>2. ASSUME NEW r \in Req, Login(r) \/ RefreshSession(r) \/ Fail(r)
      PROVE  everVp' = everVp
  BY <1>2 DEF Login, LoginStart, LoginMint, RefreshSession, RefreshRead, RefreshMint, Fail
<1>3. ASSUME NEW r \in Req, SignRefresh(r) \/ CacheVp(r) PROVE everVp' = everVp
  BY <1>3 DEF SignRefresh, CacheVp
<1>4. ASSUME NEW r \in Req, EndSession(r) PROVE everVp' = everVp
  BY <1>4 DEF EndSession, Logout, LogoutAll, ScanKey, LogoutAllEnd,
              BlockToken, DropVp, DropVpLocal, DropVer, DropVerLocal
<1>5. ASSUME NEW r \in Req, UseSession(r) PROVE everVp' = everVp
  BY <1>5 DEF UseSession, DidRequest, SpringCheck, ReadVp, FetchVp, FillVp,
              ReadVer, FetchVer, FillVer, Verify, FillVerified, Respond
<1>6. Restart \/ Expiry \/ UNCHANGED vars => everVp' = everVp
  BY DEF Restart, Expiry, ExpireVp, ExpireVer, EvictLocal, Tick, vars
<1>7. \A t \in Token, w \in Wallet : BringToken(t, w) => everVp' = everVp
  BY DEF BringToken
<1> QED BY <1>1, <1>2, <1>3, <1>4, <1>5, <1>6, <1>7 DEF Next, CompleteSession

(* The handlers: one that begins, mints, signs or ends a session holds no  *)
(* VP it has read.                                                         *)
LEMMA ElsewhereStep ==
  ASSUME Base, NEW r \in Req,
         \/ Login(r) \/ RefreshSession(r) \/ SignRefresh(r) \/ CacheVp(r)
         \/ EndSession(r) \/ Fail(r) \/ Respond(r)
         \/ \E t \in Token : DidRequest(r, t) \/ SpringCheck(r, t)
  PROVE  /\ h'[r].pc \notin Holding \cup Knowing
         /\ \A q \in Req : q # r => h'[q] = h[q]
<1>h. h \in [Req -> Handler]
  BY DEF Base, TypeOK
<1>1. ASSUME NEW hd, h' = [h EXCEPT ![r] = hd], hd.pc \notin Holding \cup Knowing
      PROVE  /\ h'[r].pc \notin Holding \cup Knowing
             /\ \A q \in Req : q # r => h'[q] = h[q]
  BY <1>h, <1>1
<1>2. Idle.pc \notin Holding \cup Knowing
  BY DEF Idle, Holding, Knowing
<1>3. ASSUME NEW p \in Pc \ (Holding \cup Knowing), Goto(r, p)
      PROVE  /\ h'[r].pc \notin Holding \cup Knowing
             /\ \A q \in Req : q # r => h'[q] = h[q]
  BY <1>h, <1>1, <1>3, MovedFields DEF Goto
<1> USE DEF Become
<1>4. CASE Login(r) \/ RefreshSession(r)
  <2>1. ASSUME NEW o, NEW w, h' = [h EXCEPT ![r] = [Idle EXCEPT !.op = o, !.pc = "mint", !.wallet = w]]
        PROVE  h'[r].pc \notin Holding \cup Knowing /\ \A q \in Req : q # r => h'[q] = h[q]
    BY <1>1, <2>1 DEF Idle, Holding, Knowing
  <2>2. ASSUME NEW t, NEW v, NEW p \in {"signRefresh", "storeVp"},
               h' = [h EXCEPT ![r] = [h[r] EXCEPT !.tok = t, !.vp = v, !.pc = p]]
        PROVE  h'[r].pc \notin Holding \cup Knowing /\ \A q \in Req : q # r => h'[q] = h[q]
    <3> DEFINE hd == [h[r] EXCEPT !.tok = t, !.vp = v, !.pc = p]
    <3>1. hd.pc = p
      BY <1>h DEF Handler
    <3>2. p \notin Holding \cup Knowing
      BY DEF Holding, Knowing
    <3> HIDE DEF hd
    <3> QED BY <1>1, <2>2, <3>1, <3>2 DEF hd
  <2>3. LoginMint(r) \/ RefreshMint(r) =>
          \E t, v : \E p \in {"signRefresh", "storeVp"} :
             h' = [h EXCEPT ![r] = [h[r] EXCEPT !.tok = t, !.vp = v, !.pc = p]]
    BY DEF LoginMint, RefreshMint
  <2> QED BY <1>4, <2>1, <2>2, <2>3 DEF Login, RefreshSession, LoginStart, RefreshRead
<1>5. CASE SignRefresh(r)
  <2>1. PICK k : \/ h' = [h EXCEPT ![r] = [h[r] EXCEPT !.rt = k, !.pc = "storeVp"]]
                 \/ h' = [h EXCEPT ![r] = Idle]
    BY <1>5 DEF SignRefresh
  <2> DEFINE hd == [h[r] EXCEPT !.rt = k, !.pc = "storeVp"]
  <2>2. hd.pc = "storeVp"
    BY <1>h DEF Handler
  <2>3. hd.pc \notin Holding \cup Knowing
    BY <2>2 DEF Holding, Knowing
  <2> HIDE DEF hd
  <2> QED BY <1>1, <1>2, <2>1, <2>3 DEF hd
<1>6. CASE CacheVp(r) \/ Fail(r) \/ Respond(r)
  <2>1. Goto(r, "signRefresh") \/ h' = [h EXCEPT ![r] = Idle]
    BY <1>6 DEF CacheVp, Fail, Respond
  <2> QED BY <1>1, <1>2, <1>3, <2>1 DEF Pc, Holding, Knowing
<1>7. CASE EndSession(r)
  <2>1. ASSUME NEW t \in Token, Logout(r, t) \/ LogoutAll(r, t)
        PROVE  h'[r].pc \notin Holding \cup Knowing /\ \A q \in Req : q # r => h'[q] = h[q]
    <3> DEFINE due == {u \in Token : vpRedis[u] # "ABSENT"}
               owed == {u \in Token : Valid(u) /\ u \in delivered}
               one == [Idle EXCEPT !.op = "logout", !.pc = "block", !.tok = t]
               all == [Idle EXCEPT !.op = "logoutAll", !.pc = "scan", !.wallet = owner[t],
                                   !.due = due, !.owed = owed]
    <3>1. one.pc = "block" /\ all.pc = "scan"
      BY DEF Idle
    <3>2. h' = [h EXCEPT ![r] = one] \/ h' = [h EXCEPT ![r] = all]
      BY <2>1 DEF Logout, LogoutAll
    <3>3. one.pc \notin Holding \cup Knowing /\ all.pc \notin Holding \cup Knowing
      BY <3>1 DEF Holding, Knowing
    <3> HIDE DEF one, all
    <3> QED BY <1>1, <3>2, <3>3
  <2>2. ASSUME NEW t \in Token, ScanKey(r, t)
        PROVE  h'[r].pc \notin Holding \cup Knowing /\ \A q \in Req : q # r => h'[q] = h[q]
    <3> DEFINE hit == [h[r] EXCEPT !.pc = "block", !.tok = t, !.due = @ \ {t}]
               miss == [h[r] EXCEPT !.due = @ \ {t}]
    <3>1. hit.pc = "block" /\ miss.pc = "scan"
      BY <1>h, <2>2 DEF Handler, ScanKey, At
    <3>2. h' = [h EXCEPT ![r] = hit] \/ h' = [h EXCEPT ![r] = miss]
      BY <2>2 DEF ScanKey
    <3>3. hit.pc \notin Holding \cup Knowing /\ miss.pc \notin Holding \cup Knowing
      BY <3>1 DEF Holding, Knowing
    <3> HIDE DEF hit, miss
    <3> QED BY <1>1, <3>2, <3>3
  <2>3. LogoutAllEnd(r) \/ BlockToken(r) \/ DropVp(r) \/ DropVpLocal(r) \/ DropVer(r) =>
          \E p \in Pc \ (Holding \cup Knowing) : Goto(r, p)
    BY DEF LogoutAllEnd, BlockToken, DropVp, DropVpLocal, DropVer, Pc, Holding, Knowing
  <2>4. DropVerLocal(r) => h' = [h EXCEPT ![r] = Idle]
    BY DEF DropVerLocal
  <2> QED BY <1>1, <1>2, <1>3, <1>7, <2>1, <2>2, <2>3, <2>4 DEF EndSession
<1>8. CASE \E t \in Token : DidRequest(r, t) \/ SpringCheck(r, t)
  <2>1. PICK t \in Token : DidRequest(r, t) \/ SpringCheck(r, t)
    BY <1>8
  <2> DEFINE did == [Idle EXCEPT !.op = "did", !.pc = "admitted", !.tok = t]
             spring == [Idle EXCEPT !.op = "spring", !.pc = "readVp", !.tok = t]
  <2>2. did.pc \notin Holding \cup Knowing /\ spring.pc \notin Holding \cup Knowing
    BY DEF Idle, Holding, Knowing
  <2>3. h' = [h EXCEPT ![r] = did] \/ h' = [h EXCEPT ![r] = spring]
    BY <2>1 DEF DidRequest, SpringCheck
  <2> HIDE DEF did, spring
  <2> QED BY <1>1, <2>2, <2>3
<1> QED BY <1>4, <1>5, <1>6, <1>7, <1>8

(* The handlers that read: what they hold afterwards comes from a cache,   *)
(* or they held it before.                                                 *)
LEMMA HandlersBoundStep ==
  ASSUME Base, HandlersBound, CachesBound, [Next]_vars
  PROVE  HandlersBound'
<1>h. h \in [Req -> Handler]
  BY DEF Base, TypeOK
<1>1. ASSUME NEW q \in Req PROVE Binds(h[q], everVp')
  <2>1. Binds(h[q], everVp)
    BY DEF HandlersBound
  <2>2. h[q].pc \in Holding \cup Knowing => h[q].tok \in Token
    BY TokenOf DEF Holding, Knowing, Tokenless
  <2> QED BY <2>1, <2>2, EverGrows DEF Binds
<1>2. ASSUME NEW r \in Req, Binds(h'[r], everVp'), \A q \in Req : q # r => h'[q] = h[q]
      PROVE  HandlersBound'
  BY <1>1, <1>2 DEF HandlersBound
<1>3. ASSUME NEW r \in Req, h'[r].pc \notin Holding \cup Knowing,
             \A q \in Req : q # r => h'[q] = h[q]
      PROVE  HandlersBound'
  BY <1>2, <1>3 DEF Binds
<1>4. ASSUME NEW r \in Req,
             \/ Login(r) \/ RefreshSession(r) \/ SignRefresh(r) \/ CacheVp(r)
             \/ EndSession(r) \/ Fail(r) \/ Respond(r)
             \/ \E t \in Token : DidRequest(r, t) \/ SpringCheck(r, t)
      PROVE  HandlersBound'
  BY <1>3, <1>4, ElsewhereStep
<1>5. ASSUME NEW r \in Req, NEW p \in Pc, Goto(r, p), h[r].pc \notin Tokenless,
             p \in Holding => (h[r].vp \in Vp => h[r].vp \in everVp'[h[r].tok]),
             p \in Knowing => "VP" \in everVp'[h[r].tok]
      PROVE  HandlersBound'
  <2>1. h'[r] = [h[r] EXCEPT !.pc = p] /\ \A q \in Req : q # r => h'[q] = h[q]
    BY <1>h, <1>5 DEF Goto
  <2>2. h'[r].pc = p /\ h'[r].vp = h[r].vp /\ h'[r].tok = h[r].tok
    BY <1>h, <2>1, MovedFields
  <2> QED BY <1>2, <1>5, <2>1, <2>2 DEF Binds
<1>6. ASSUME NEW r \in Req, StoreVp(r) PROVE HandlersBound'
  <2>1. h[r].tok \in Token /\ h[r].pc \notin Tokenless
    BY <1>6, TokenOf DEF StoreVp, At, Tokenless
  <2>2. h[r].vp \in Vp => h[r].vp \in everVp'[h[r].tok]
    BY <1>6, <2>1 DEF StoreVp, Base, TypeOK
  <2> QED BY <1>5, <1>6, <2>1, <2>2 DEF StoreVp, Pc, Knowing
<1>7. ASSUME NEW r \in Req, NEW p \in {"fillVp", "readVer", "admitted"}, NEW v,
             h' = [h EXCEPT ![r] = [h[r] EXCEPT !.vp = v, !.pc = p]],
             v \in Vp => v \in everVp[h[r].tok], everVp' = everVp
      PROVE  HandlersBound'
  <2>1. h'[r] = [h[r] EXCEPT !.vp = v, !.pc = p] /\ \A q \in Req : q # r => h'[q] = h[q]
    BY <1>h, <1>7
  <2>2. h'[r].pc = p /\ h'[r].vp = v /\ h'[r].tok = h[r].tok
    BY <1>h, <2>1, MovedFields
  <2>3. p \notin Knowing
    BY DEF Knowing
  <2> QED BY <1>2, <1>7, <2>1, <2>2, <2>3 DEF Binds
<1>8. ASSUME NEW r \in Req, ReadVp(r) \/ FetchVp(r) \/ FillVp(r) PROVE HandlersBound'
  <2>1. h[r].tok \in Token /\ h[r].pc \notin Tokenless
    BY <1>8, TokenOf DEF ReadVp, FetchVp, FillVp, At, Tokenless
  <2>2. everVp' = everVp
    BY <1>8 DEF ReadVp, FetchVp, FillVp, sessionVars
  <2>3. /\ vpLocal[h[r].tok] \in Vp => vpLocal[h[r].tok] \in everVp[h[r].tok]
        /\ vpRedis[h[r].tok] \in Vp => vpRedis[h[r].tok] \in everVp[h[r].tok]
    BY <2>1 DEF CachesBound
  <2>4. FillVp(r) => (h[r].vp \in Vp => h[r].vp \in everVp[h[r].tok])
    BY DEF FillVp, At, HandlersBound, Binds, Holding
  <2>5. "ABSENT" \notin Vp
    BY SlotFacts
  <2>6. \/ Goto(r, "fetchVp")
        \/ \E v, p : /\ h' = [h EXCEPT ![r] = [h[r] EXCEPT !.vp = v, !.pc = p]]
                     /\ p \in {"fillVp", "readVer", "admitted"}
                     /\ v \in Vp => v \in everVp[h[r].tok]
    <3>1. CASE ReadVp(r)
      BY <2>3, <3>1 DEF ReadVp, AfterVp, Become
    <3>2. CASE FetchVp(r)
      BY <2>3, <2>5, <3>2 DEF FetchVp, AfterVp, Become
    <3>3. CASE FillVp(r)
      BY <2>4, <3>3 DEF FillVp, AfterVp, Become
    <3> QED BY <1>8, <3>1, <3>2, <3>3
  <2>7. "fetchVp" \in Pc /\ "fetchVp" \notin Holding \cup Knowing
    BY DEF Pc, Holding, Knowing
  <2> QED BY <1>5, <1>7, <2>1, <2>2, <2>6, <2>7
<1>9. ASSUME NEW r \in Req,
             ReadVer(r) \/ FetchVer(r) \/ FillVer(r) \/ Verify(r) \/ FillVerified(r)
      PROVE  HandlersBound'
  <2>1. h[r].tok \in Token /\ h[r].pc \notin Tokenless
    BY <1>9, TokenOf DEF ReadVer, FetchVer, FillVer, Verify, FillVerified, At, Tokenless
  <2>2. everVp' = everVp
    BY <1>9 DEF ReadVer, FetchVer, FillVer, Verify, FillVerified, sessionVars
  <2>3. Binds(h[r], everVp)
    BY DEF HandlersBound
  <2>4. /\ verLocal[h[r].tok] => "VP" \in everVp[h[r].tok]
        /\ verRedis[h[r].tok] => "VP" \in everVp[h[r].tok]
    BY <2>1 DEF CachesBound
  <2>5. CASE Fail(r) \/ h' = [h EXCEPT ![r] = Idle]
    <3>1. h'[r] = Idle /\ \A q \in Req : q # r => h'[q] = h[q]
      BY <1>h, <2>5 DEF Fail, Become
    <3>2. Idle.pc \notin Holding \cup Knowing
      BY DEF Idle, Holding, Knowing
    <3> QED BY <1>3, <3>1, <3>2
  <2> DEFINE May(p) ==
        /\ p \in Holding => (h[r].vp \in Vp => h[r].vp \in everVp[h[r].tok])
        /\ p \in Knowing => "VP" \in everVp[h[r].tok]
  <2>6. ASSUME NEW p \in Pc, Goto(r, p), May(p) PROVE HandlersBound'
    <3>1. /\ p \in Holding => (h[r].vp \in Vp => h[r].vp \in everVp'[h[r].tok])
          /\ p \in Knowing => "VP" \in everVp'[h[r].tok]
      BY <2>2, <2>6
    <3> QED BY <1>5, <2>1, <2>6, <3>1
  <2>7. CASE ReadVer(r)
    <3>1. May("verified") \/ ~verLocal[h[r].tok]
      BY <2>4 DEF Holding
    <3>2. May("fetchVer")
      BY <2>3, <2>7 DEF ReadVer, At, Binds, Holding, Knowing
    <3>3. {"verified", "fetchVer"} \subseteq Pc
      BY DEF Pc
    <3> QED BY <2>6, <2>7, <3>1, <3>2, <3>3 DEF ReadVer
  <2>8. CASE FetchVer(r)
    <3>1. May("fillVer") \/ ~verRedis[h[r].tok]
      BY <2>4 DEF Holding
    <3>2. May("verify")
      BY <2>3, <2>8 DEF FetchVer, At, Binds, Holding, Knowing
    <3>3. {"fillVer", "verify"} \subseteq Pc
      BY DEF Pc
    <3> QED BY <2>6, <2>8, <3>1, <3>2, <3>3 DEF FetchVer
  <2>9. CASE Verify(r)
    <3>1. h[r].vp = "VP" => May("fillVerified")
      BY <2>3, <2>9, SlotFacts DEF Verify, At, Binds, Holding
    <3>2. "fillVerified" \in Pc
      BY DEF Pc
    <3> QED BY <2>5, <2>6, <2>9, <3>1, <3>2 DEF Verify, Become
  <2>10. CASE FillVer(r) \/ FillVerified(r)
    <3>1. May("verified")
      BY <2>3, <2>10 DEF FillVer, FillVerified, At, Binds, Holding, Knowing
    <3>2. "verified" \in Pc
      BY DEF Pc
    <3> QED BY <2>6, <2>10, <3>1, <3>2 DEF FillVer, FillVerified
  <2> QED BY <1>9, <2>7, <2>8, <2>9, <2>10
<1>10. ASSUME Restart PROVE HandlersBound'
  BY <1>10 DEF Restart, HandlersBound, Binds, Idle, Holding, Knowing
<1>11. ASSUME Expiry \/ UNCHANGED vars PROVE HandlersBound'
  <2>1. UNCHANGED h
    BY <1>11 DEF Expiry, ExpireVp, ExpireVer, EvictLocal, Tick, vars
  <2> QED BY <1>1, <2>1 DEF HandlersBound
<1>12. ASSUME NEW t \in Token, NEW w \in Wallet, BringToken(t, w) PROVE HandlersBound'
  BY <1>1, <1>12 DEF HandlersBound, BringToken
<1> QED BY <1>4, <1>6, <1>8, <1>9, <1>10, <1>11, <1>12 DEF Next, CompleteSession, UseSession

(* The caches: an entry is deleted, or written from the hands of a handler.*)
LEMMA CachesBoundStep ==
  ASSUME Base, HandlersBound, CachesBound, [Next]_vars
  PROVE  CachesBound'
<1>t. TypeOK
  BY DEF Base
<1>1. ASSUME UNCHANGED <<vpRedis, vpLocal, verRedis, verLocal>> PROVE CachesBound'
  BY <1>1, EverGrows DEF CachesBound
<1>2. ASSUME NEW u \in Token, NEW v \in Slot, v \in Vp => v \in everVp'[u],
             \/ vpRedis' = [vpRedis EXCEPT ![u] = v] /\ UNCHANGED vpLocal
             \/ vpLocal' = [vpLocal EXCEPT ![u] = v] /\ UNCHANGED vpRedis,
             UNCHANGED <<verRedis, verLocal>>
      PROVE  CachesBound'
  BY <1>t, <1>2, EverGrows DEF CachesBound, TypeOK
<1>3. ASSUME NEW u \in Token, NEW b \in BOOLEAN, b => "VP" \in everVp'[u],
             \/ verRedis' = [verRedis EXCEPT ![u] = b] /\ UNCHANGED verLocal
             \/ verLocal' = [verLocal EXCEPT ![u] = b] /\ UNCHANGED verRedis,
             UNCHANGED <<vpRedis, vpLocal>>
      PROVE  CachesBound'
  BY <1>t, <1>3, EverGrows DEF CachesBound, TypeOK
<1>4. "ABSENT" \in Slot /\ "ABSENT" \notin Vp
  BY SlotFacts
<1>5. ASSUME NEW r \in Req, StoreVp(r) \/ CacheVp(r) \/ FillVp(r) PROVE CachesBound'
  <2>1. h[r].tok \in Token /\ h[r].vp \in Slot
    BY <1>t, <1>5, TokenOf, HandlerFields DEF StoreVp, CacheVp, FillVp, At, Tokenless, TypeOK
  <2>2. h[r].vp \in Vp => h[r].vp \in everVp'[h[r].tok]
    <3>1. CASE StoreVp(r)
      BY <1>t, <2>1, <3>1 DEF StoreVp, TypeOK
    <3>2. CASE CacheVp(r) \/ FillVp(r)
      <4>1. everVp' = everVp
        BY <3>2 DEF CacheVp, FillVp
      <4> QED BY <3>2, <4>1 DEF CacheVp, FillVp, At, HandlersBound, Binds, Holding
    <3> QED BY <1>5, <3>1, <3>2
  <2> QED BY <1>2, <1>5, <2>1, <2>2 DEF StoreVp, CacheVp, FillVp
<1>6. ASSUME NEW r \in Req, DropVp(r) \/ DropVpLocal(r) PROVE CachesBound'
  <2>1. h[r].tok \in Token
    BY <1>6, TokenOf DEF DropVp, DropVpLocal, At, Tokenless
  <2> QED BY <1>2, <1>4, <1>6, <2>1 DEF DropVp, DropVpLocal
<1>7. ASSUME NEW r \in Req, DropVer(r) \/ DropVerLocal(r) PROVE CachesBound'
  <2>1. h[r].tok \in Token
    BY <1>7, TokenOf DEF DropVer, DropVerLocal, At, Tokenless
  <2> QED BY <1>3, <1>7, <2>1 DEF DropVer, DropVerLocal
<1>8. ASSUME NEW r \in Req, FillVer(r) \/ Verify(r) \/ FillVerified(r) PROVE CachesBound'
  <2>1. h[r].tok \in Token
    BY <1>8, TokenOf DEF FillVer, Verify, FillVerified, At, Tokenless
  <2>2. everVp' = everVp /\ Binds(h[r], everVp)
    BY <1>8 DEF FillVer, Verify, FillVerified, HandlersBound
  <2>3. CASE Verify(r)
    <3>1. CASE h[r].vp = "VP"
      <4>1. "VP" \in everVp'[h[r].tok]
        BY <2>2, <2>3, <3>1, SlotFacts DEF Verify, At, Binds, Holding
      <4> QED BY <1>3, <2>1, <2>3, <3>1, <4>1 DEF Verify
    <3>2. CASE h[r].vp # "VP"
      BY <1>1, <2>3, <3>2 DEF Verify
    <3> QED BY <3>1, <3>2
  <2>4. CASE FillVer(r) \/ FillVerified(r)
    <3>1. "VP" \in everVp'[h[r].tok]
      BY <2>2, <2>4 DEF FillVer, FillVerified, At, Binds, Knowing
    <3> QED BY <1>3, <2>1, <2>4, <3>1 DEF FillVer, FillVerified
  <2> QED BY <1>8, <2>3, <2>4
<1>9. ASSUME NEW r \in Req,
             \/ Login(r) \/ RefreshSession(r) \/ SignRefresh(r) \/ Fail(r) \/ Respond(r)
             \/ \E t \in Token : \/ Logout(r, t) \/ LogoutAll(r, t) \/ ScanKey(r, t)
                                 \/ DidRequest(r, t) \/ SpringCheck(r, t)
             \/ LogoutAllEnd(r) \/ BlockToken(r) \/ ReadVp(r) \/ FetchVp(r)
             \/ ReadVer(r) \/ FetchVer(r)
      PROVE  CachesBound'
  <2> USE DEF sessionVars
  <2>1. Login(r) \/ RefreshSession(r) \/ SignRefresh(r) \/ Fail(r) \/ Respond(r)
          => UNCHANGED <<vpRedis, vpLocal, verRedis, verLocal>>
    BY DEF Login, LoginStart, LoginMint, RefreshSession, RefreshRead, RefreshMint,
           SignRefresh, Fail, Respond
  <2>2. (\E t \in Token : \/ Logout(r, t) \/ LogoutAll(r, t) \/ ScanKey(r, t)
                          \/ DidRequest(r, t) \/ SpringCheck(r, t))
          => UNCHANGED <<vpRedis, vpLocal, verRedis, verLocal>>
    BY DEF Logout, LogoutAll, ScanKey, DidRequest, SpringCheck
  <2>3. LogoutAllEnd(r) \/ BlockToken(r) \/ ReadVp(r) \/ FetchVp(r) \/ ReadVer(r) \/ FetchVer(r)
          => UNCHANGED <<vpRedis, vpLocal, verRedis, verLocal>>
    BY DEF LogoutAllEnd, BlockToken, ReadVp, FetchVp, ReadVer, FetchVer
  <2> QED BY <1>1, <1>9, <2>1, <2>2, <2>3
<1>10. ASSUME Restart PROVE CachesBound'
  BY <1>4, <1>10 DEF Restart, CachesBound
<1>11. ASSUME Expiry \/ UNCHANGED vars PROVE CachesBound'
  <2>1. ASSUME NEW t \in Token, ExpireVp(t) \/ ExpireVer(t) \/ EvictLocal(t) PROVE CachesBound'
    BY <1>2, <1>3, <1>4, <2>1 DEF ExpireVp, ExpireVer, EvictLocal
  <2>2. Tick \/ UNCHANGED vars => UNCHANGED <<vpRedis, vpLocal, verRedis, verLocal>>
    BY DEF Tick, vars, sessionVars
  <2> QED BY <1>1, <1>11, <2>1, <2>2 DEF Expiry
<1>12. ASSUME NEW t \in Token, NEW w \in Wallet, BringToken(t, w) PROVE CachesBound'
  BY <1>1, <1>12 DEF BringToken, sessionVars
<1> QED BY <1>5, <1>6, <1>7, <1>8, <1>9, <1>10, <1>11, <1>12
        DEF Next, CompleteSession, EndSession, UseSession

(* A cached verification belongs to a token some login has bound to a VP   *)
(* that verifies, whatever is written back late: for any tokens, requests  *)
(* and TTLs, with or without tokens signed in the same second.             *)
THEOREM VerificationsAreEarned == Spec => []VerifiedHadVp
<1> DEFINE Inv == IInv /\ HandlersBound /\ CachesBound
<1>1. Init => HandlersBound /\ CachesBound
  BY SlotFacts DEF Init, HandlersBound, CachesBound, Binds, Idle, Holding, Knowing
<1>2. Inv /\ [Next]_vars => Inv'
  BY StepIInv, HandlersBoundStep, CachesBoundStep DEF IInv
<1>3. Inv => VerifiedHadVp
  BY DEF HandlersBound, CachesBound, Binds, VerifiedHadVp, At, Knowing
<1> QED BY <1>1, <1>2, <1>3, InitIInv, PTL DEF Spec


---------------------------------------------------------------------------
(* Logout-all, when a wallet never signs twice in a second.  Until a       *)
(* session is handed out only its own handler touches it; afterwards a     *)
(* session with a VP leaves Redis only revoked or expired, so the SCAN of a*)
(* logout-all finds every session it owes an end.                          *)
Completing == {"signRefresh", "storeVp", "cacheVp"}
Unstored(hd) == \/ hd.pc = "storeVp"
                \/ hd.pc = "signRefresh" /\ hd.vp = "EMPTY"

Fresh ==
  /\ \A r \in Req : h[r].pc \in Completing => h[r].tok \notin delivered
  /\ \A q, r \in Req : q # r /\ h[q].pc \in Completing /\ h[r].pc \in Completing
                         => h[q].tok # h[r].tok
  /\ \A r \in Req : Unstored(h[r]) => everVp[h[r].tok] = {}
  /\ \A t \in Token : t \in delivered \/ everVp[t] # {} => Signed(t)
  /\ \A t \in brought : t \in delivered /\ everVp[t] = {}

Traced ==
  /\ \A t \in Token : \A v \in everVp[t] :
       vpRedis[t] = v \/ t \in revoked \/ Expired(t)
  /\ \A r \in Req : h[r].pc = "dropVp" => h[r].tok \in revoked

(* What a logout-all still owes, and what it is about to pay.              *)
Covers(hd, t) ==
  \/ hd.op = "logoutAll" /\ hd.pc \in Revoking /\ t \in hd.due
  \/ hd.pc = "block" /\ hd.tok = t
Speaks(t, w) == \E v \in everVp[t] : Names(v, owner[t], w)
Owes(hd) == \A t \in hd.owed :
  /\ t \in delivered
  /\ Speaks(t, hd.wallet) => t \in revoked \/ Expired(t) \/ Covers(hd, t)
Owing == \A r \in Req : Owes(h[r])

(* A handler that moves keeps its debt, or pays it by revoking the session *)
(* or by finding no VP of the wallet in Redis.                             *)
Minds(hd, new) ==
  \/ new.owed = {}
  \/ /\ new.owed = hd.owed /\ new.wallet = hd.wallet
     /\ \A t \in Token : Covers(hd, t) =>
          \/ Covers(new, t) \/ t \in revoked'
          \/ ~Names(vpRedis[t], owner[t], hd.wallet)
Turned(hd, new) ==
  /\ new.pc \notin Completing
  /\ new.pc = "dropVp" => new.tok \in revoked'
  /\ Minds(hd, new)

(* The fields that moving a handler leaves alone.                          *)
LEMMA KeptFields ==
  ASSUME NEW hd \in Handler, NEW p, NEW v, NEW k, NEW t
  PROVE  /\ LET new == [hd EXCEPT !.pc = p]
            IN  new.op = hd.op /\ new.wallet = hd.wallet /\ new.owed = hd.owed /\ new.due = hd.due
         /\ LET new == [hd EXCEPT !.vp = v, !.pc = p]
            IN  new.op = hd.op /\ new.wallet = hd.wallet /\ new.owed = hd.owed /\ new.due = hd.due
         /\ LET new == [hd EXCEPT !.rt = k, !.pc = p]
            IN  /\ new.owed = hd.owed /\ new.wallet = hd.wallet
                /\ new.pc = p /\ new.tok = hd.tok /\ new.vp = hd.vp
         /\ LET new == [hd EXCEPT !.tok = t, !.vp = v, !.pc = p]
            IN  /\ new.owed = hd.owed /\ new.wallet = hd.wallet
                /\ new.pc = p /\ new.tok = t /\ new.vp = v
BY DEF Handler

(* The steps that neither complete a session nor begin a logout-all.       *)
LEMMA TurnStep ==
  ASSUME Base, NEW r \in Req,
         \/ EndSession(r) \/ UseSession(r) \/ Fail(r)
         \/ \E w \in Wallet : LoginStart(r, w)
         \/ \E w \in Wallet, k \in 1..MaxRefresh : RefreshRead(r, w, k),
         ~ \E t \in Token : LogoutAll(r, t)
  PROVE  Turned(h[r], h'[r]) /\ \A q \in Req : q # r => h'[q] = h[q]
<1>h. h \in [Req -> Handler] /\ Idle \in Handler
  BY IdleIsHandler DEF Base, TypeOK
<1> DEFINE Goal == Turned(h[r], h'[r]) /\ \A q \in Req : q # r => h'[q] = h[q]
<1>1. ASSUME NEW new, h' = [h EXCEPT ![r] = new], Turned(h[r], new)
      PROVE  Goal
  BY <1>h, <1>1
<1>2. ASSUME NEW new, h' = [h EXCEPT ![r] = new], new.owed = {},
             new.pc \notin Completing, new.pc # "dropVp"
      PROVE  Goal
  BY <1>1, <1>2 DEF Turned, Minds
<1>3. ASSUME h' = [h EXCEPT ![r] = Idle] PROVE Goal
  <2>1. Idle.owed = {} /\ Idle.pc \notin Completing /\ Idle.pc # "dropVp"
    BY DEF Idle, Completing
  <2> QED BY <1>2, <1>3, <2>1
<1>4. ASSUME NEW p \in Pc \ Completing, Goto(r, p),
             p = "dropVp" => h[r].tok \in revoked',
             \A t \in Token : Covers(h[r], t) =>
                \/ h[r].op = "logoutAll" /\ p \in Revoking /\ t \in h[r].due
                \/ t \in revoked'
      PROVE  Goal
  <2> DEFINE new == [h[r] EXCEPT !.pc = p]
  <2>1. /\ new.pc = p /\ new.tok = h[r].tok /\ new.op = h[r].op
        /\ new.wallet = h[r].wallet /\ new.owed = h[r].owed /\ new.due = h[r].due
    BY <1>h, MovedFields, KeptFields
  <2>2. h' = [h EXCEPT ![r] = new]
    BY <1>4 DEF Goto
  <2> HIDE DEF new
  <2>3. \A t \in Token : Covers(h[r], t) => Covers(new, t) \/ t \in revoked'
    BY <1>4, <2>1 DEF Covers
  <2>4. Turned(h[r], new)
    BY <1>4, <2>1, <2>3 DEF Turned, Minds
  <2> QED BY <1>1, <2>2, <2>4
<1>5. ASSUME NEW p \in GuardPcs, NEW v, h[r].pc \in GuardPcs,
             h' = [h EXCEPT ![r] = [h[r] EXCEPT !.vp = v, !.pc = p]]
      PROVE  Goal
  <2> DEFINE new == [h[r] EXCEPT !.vp = v, !.pc = p]
  <2>1. new.pc = p /\ new.wallet = h[r].wallet /\ new.owed = h[r].owed
    BY <1>h, MovedFields, KeptFields
  <2>2. \A t \in Token : ~Covers(h[r], t)
    BY <1>5 DEF Covers, GuardPcs, Revoking
  <2>3. p \notin Completing /\ p # "dropVp"
    BY DEF GuardPcs, Completing
  <2> HIDE DEF new
  <2>4. Turned(h[r], new)
    BY <2>1, <2>2, <2>3 DEF Turned, Minds
  <2> QED BY <1>1, <1>5, <2>4 DEF new
<1>6. ASSUME NEW p \in GuardPcs, h[r].pc \in GuardPcs, Goto(r, p) PROVE Goal
  <2>1. p \in Pc \ Completing /\ p # "dropVp"
    BY DEF GuardPcs, Pc, Completing
  <2>2. \A t \in Token : ~Covers(h[r], t)
    BY <1>6 DEF Covers, GuardPcs, Revoking
  <2> QED BY <1>4, <1>6, <2>1, <2>2
<1> HIDE DEF Goal
<1> USE DEF Become
<1>7. ASSUME NEW w \in Wallet, NEW o,
             h' = [h EXCEPT ![r] = [Idle EXCEPT !.op = o, !.pc = "mint", !.wallet = w]]
      PROVE  Goal
  <2> DEFINE new == [Idle EXCEPT !.op = o, !.pc = "mint", !.wallet = w]
  <2>1. new.pc = "mint" /\ new.owed = {}
    BY DEF Idle
  <2> HIDE DEF new
  <2> QED BY <1>2, <1>7, <2>1 DEF new, Completing
<1>8. ASSUME NEW t \in Token, NEW o, NEW p \in {"block", "admitted", "readVp"},
             h' = [h EXCEPT ![r] = [Idle EXCEPT !.op = o, !.pc = p, !.tok = t]]
      PROVE  Goal
  <2> DEFINE new == [Idle EXCEPT !.op = o, !.pc = p, !.tok = t]
  <2>1. new.pc = p /\ new.owed = {}
    BY DEF Idle
  <2> HIDE DEF new
  <2> QED BY <1>2, <1>8, <2>1 DEF new, Completing
<1>9. ASSUME NEW t \in Token, ScanKey(r, t) PROVE Goal
  <2> DEFINE hit == [h[r] EXCEPT !.pc = "block", !.tok = t, !.due = @ \ {t}]
             miss == [h[r] EXCEPT !.due = @ \ {t}]
  <2>1. /\ hit.pc = "block" /\ hit.tok = t
        /\ miss.pc = "scan" /\ miss.tok = h[r].tok
        /\ hit.op = h[r].op /\ hit.wallet = h[r].wallet /\ hit.owed = h[r].owed
        /\ miss.op = h[r].op /\ miss.wallet = h[r].wallet /\ miss.owed = h[r].owed
        /\ hit.due = h[r].due \ {t} /\ miss.due = h[r].due \ {t}
    BY <1>h, <1>9 DEF Handler, ScanKey, At
  <2>2. IF Names(vpRedis[t], owner[t], h[r].wallet)
          THEN h' = [h EXCEPT ![r] = hit] ELSE h' = [h EXCEPT ![r] = miss]
    BY <1>9 DEF ScanKey
  <2>3. h[r].pc = "scan"
    BY <1>9 DEF ScanKey, At
  <2> HIDE DEF hit, miss
  <2>4. \A u \in Token : Covers(h[r], u) => Covers(hit, u)
    BY <2>1, <2>3 DEF Covers, Revoking
  <2>5. \A u \in Token : Covers(h[r], u) => Covers(miss, u) \/ u = t
    BY <2>1, <2>3 DEF Covers, Revoking
  <2>6. CASE Names(vpRedis[t], owner[t], h[r].wallet)
    <3>1. Turned(h[r], hit)
      BY <2>1, <2>4 DEF Turned, Minds, Completing
    <3> QED BY <1>1, <2>2, <2>6, <3>1 DEF Goal
  <2>7. CASE ~Names(vpRedis[t], owner[t], h[r].wallet)
    <3>1. Turned(h[r], miss)
      BY <2>1, <2>5, <2>7 DEF Turned, Minds, Completing
    <3> QED BY <1>1, <2>2, <2>7, <3>1 DEF Goal
  <2> QED BY <2>6, <2>7
<1>10. ASSUME EndSession(r) PROVE Goal
  <2>1. ASSUME LogoutAllEnd(r) PROVE Goal
    <3>1. \A t \in Token : ~Covers(h[r], t)
      BY <2>1 DEF LogoutAllEnd, At, Covers
    <3> QED BY <1>4, <2>1, <3>1 DEF LogoutAllEnd, Pc, Completing
  <2>2. ASSUME BlockToken(r) PROVE Goal
    <3>1. h[r].tok \in revoked' /\ Goto(r, "dropVp") /\ h[r].pc = "block"
      BY <2>2 DEF BlockToken, At
    <3>2. \A t \in Token : Covers(h[r], t) =>
            (h[r].op = "logoutAll" /\ "dropVp" \in Revoking /\ t \in h[r].due) \/ t \in revoked'
      BY <3>1 DEF Covers, Revoking
    <3> QED BY <1>4, <3>1, <3>2 DEF Pc, Completing
  <2>3. ASSUME DropVp(r) PROVE Goal
    <3>1. Goto(r, "dropVpLocal") /\ h[r].pc = "dropVp"
      BY <2>3 DEF DropVp, At
    <3>2. \A t \in Token : Covers(h[r], t) =>
            (h[r].op = "logoutAll" /\ "dropVpLocal" \in Revoking /\ t \in h[r].due) \/ t \in revoked'
      BY <3>1 DEF Covers, Revoking
    <3> QED BY <1>4, <3>1, <3>2 DEF Pc, Completing
  <2>4. ASSUME DropVpLocal(r) PROVE Goal
    <3>1. /\ h[r].pc = "dropVpLocal"
          /\ \/ h[r].op = "logout" /\ Goto(r, "dropVer")
             \/ h[r].op # "logout" /\ Goto(r, "scan")
      BY <2>4 DEF DropVpLocal, At
    <3>2. \A t \in Token : Covers(h[r], t) =>
            h[r].op = "logoutAll" /\ "scan" \in Revoking /\ t \in h[r].due
      BY <3>1 DEF Covers, Revoking
    <3> QED BY <1>4, <3>1, <3>2 DEF Pc, Completing
  <2>5. ASSUME DropVer(r) PROVE Goal
    <3>1. \A t \in Token : ~Covers(h[r], t)
      BY <2>5 DEF DropVer, At, Covers, Revoking
    <3> QED BY <1>4, <2>5, <3>1 DEF DropVer, Pc, Completing
  <2>6. ASSUME DropVerLocal(r) PROVE Goal
    BY <1>3, <2>6 DEF DropVerLocal
  <2>7. ASSUME NEW t \in Token, Logout(r, t) PROVE Goal
    BY <1>8, <2>7 DEF Logout
  <2> QED BY <1>9, <1>10, <2>1, <2>2, <2>3, <2>4, <2>5, <2>6, <2>7 DEF EndSession
<1>11. ASSUME UseSession(r) PROVE Goal
  <2>1. ASSUME NEW t \in Token, DidRequest(r, t) \/ SpringCheck(r, t) PROVE Goal
    BY <1>8, <2>1 DEF DidRequest, SpringCheck
  <2>2. ASSUME ReadVp(r) \/ FetchVp(r) \/ FillVp(r) PROVE Goal
    <3>1. h[r].pc \in GuardPcs
      BY <2>2 DEF ReadVp, FetchVp, FillVp, At, GuardPcs
    <3>2. \/ Goto(r, "fetchVp")
          \/ \E v, p : /\ p \in {"fillVp", "readVer", "admitted"}
                       /\ h' = [h EXCEPT ![r] = [h[r] EXCEPT !.vp = v, !.pc = p]]
      BY <2>2 DEF ReadVp, FetchVp, FillVp, AfterVp
    <3>3. {"fetchVp", "fillVp", "readVer", "admitted"} \subseteq GuardPcs
      BY DEF GuardPcs
    <3> QED BY <1>5, <1>6, <3>1, <3>2, <3>3
  <2>3. ASSUME ReadVer(r) \/ FetchVer(r) \/ FillVer(r) \/ Verify(r) \/ FillVerified(r)
        PROVE  Goal
    <3>1. h[r].pc \in GuardPcs
      BY <2>3 DEF ReadVer, FetchVer, FillVer, Verify, FillVerified, At, GuardPcs
    <3>2. \/ h' = [h EXCEPT ![r] = Idle]
          \/ \E p \in GuardPcs : Goto(r, p)
      BY <2>3 DEF ReadVer, FetchVer, FillVer, Verify, FillVerified, GuardPcs
    <3> QED BY <1>3, <1>6, <3>1, <3>2
  <2>4. ASSUME Respond(r) PROVE Goal
    BY <1>3, <2>4 DEF Respond
  <2> QED BY <1>11, <2>1, <2>2, <2>3, <2>4 DEF UseSession
<1> QED BY <1>3, <1>7, <1>10, <1>11 DEF Goal, LoginStart, RefreshRead, Fail

(* The steps that complete a session: the handler keeps its token, writes  *)
(* it before it hands it out, and hands it out last.                       *)
LEMMA CompleteStep ==
  ASSUME Base, NEW r \in Req, CompleteSession(r)
  PROVE  /\ h[r].pc \in Completing
         /\ \A q \in Req : q # r => h'[q] = h[q]
         /\ Minds(h[r], h'[r]) /\ h'[r].pc # "dropVp"
         /\ h'[r].pc \in Completing =>
              h'[r].tok = h[r].tok /\ (Unstored(h'[r]) => Unstored(h[r]))
         /\ StoreVp(r) => ~Unstored(h'[r])
         /\ \/ delivered' = delivered
            \/ h'[r].pc \notin Completing /\ delivered' = delivered \cup {h[r].tok}
<1>h. h \in [Req -> Handler]
  BY DEF Base, TypeOK
<1>1. h[r].pc \in Completing
  BY DEF CompleteSession, SignRefresh, StoreVp, CacheVp, At, Completing
<1>2. \A t \in Token : ~Covers(h[r], t)
  BY <1>1 DEF Covers, Completing, Revoking
<1>3. ASSUME h' = [h EXCEPT ![r] = Idle]
      PROVE  /\ \A q \in Req : q # r => h'[q] = h[q]
             /\ Minds(h[r], h'[r]) /\ h'[r].pc = "idle"
  <2>1. h'[r] = Idle /\ \A q \in Req : q # r => h'[q] = h[q]
    BY <1>h, <1>3
  <2>2. Idle.owed = {} /\ Idle.pc = "idle"
    BY DEF Idle
  <2> QED BY <2>1, <2>2 DEF Minds
<1>4. ASSUME NEW p \in {"cacheVp", "signRefresh"}, Goto(r, p)
      PROVE  /\ \A q \in Req : q # r => h'[q] = h[q]
             /\ Minds(h[r], h'[r]) /\ h'[r].pc = p
             /\ h'[r].tok = h[r].tok /\ h'[r].vp = h[r].vp
  <2>1. h'[r] = [h[r] EXCEPT !.pc = p] /\ \A q \in Req : q # r => h'[q] = h[q]
    BY <1>h, <1>4 DEF Goto
  <2>2. /\ h'[r].pc = p /\ h'[r].tok = h[r].tok /\ h'[r].vp = h[r].vp
        /\ h'[r].owed = h[r].owed /\ h'[r].wallet = h[r].wallet
    BY <1>h, <2>1, MovedFields, KeptFields
  <2> QED BY <1>2, <2>1, <2>2 DEF Minds
<1>5. CASE SignRefresh(r)
  <2>1. PICK k \in 1..MaxRefresh :
          \/ /\ h' = [h EXCEPT ![r] = [h[r] EXCEPT !.rt = k, !.pc = "storeVp"]]
             /\ h[r].vp = "EMPTY" /\ delivered' = delivered
          \/ /\ h' = [h EXCEPT ![r] = Idle]
             /\ delivered' = delivered \cup {h[r].tok}
    BY <1>5 DEF SignRefresh, Become, Deliver
  <2>2. CASE h' = [h EXCEPT ![r] = Idle] /\ delivered' = delivered \cup {h[r].tok}
    <3>1. ~StoreVp(r)
      BY <1>5 DEF SignRefresh, StoreVp, At
    <3> QED BY <1>1, <1>3, <2>2, <3>1 DEF Completing
  <2>3. CASE /\ h' = [h EXCEPT ![r] = [h[r] EXCEPT !.rt = k, !.pc = "storeVp"]]
             /\ h[r].vp = "EMPTY" /\ delivered' = delivered
    <3>1. h'[r] = [h[r] EXCEPT !.rt = k, !.pc = "storeVp"] /\ \A q \in Req : q # r => h'[q] = h[q]
      BY <1>h, <2>3
    <3>2. /\ h'[r].pc = "storeVp" /\ h'[r].tok = h[r].tok
          /\ h'[r].owed = h[r].owed /\ h'[r].wallet = h[r].wallet
      BY <1>h, <3>1, KeptFields
    <3>3. h[r].pc = "signRefresh"
      BY <1>5 DEF SignRefresh, At
    <3>4. ~StoreVp(r) /\ Unstored(h[r])
      BY <2>3, <3>3 DEF StoreVp, At, Unstored
    <3>5. Minds(h[r], h'[r])
      BY <1>2, <3>2 DEF Minds
    <3> QED BY <1>1, <2>3, <3>1, <3>2, <3>4, <3>5
  <2> QED BY <2>1, <2>2, <2>3
<1>6. CASE StoreVp(r)
  <2>1. Goto(r, "cacheVp") /\ delivered' = delivered
    BY <1>6 DEF StoreVp, tokenVars
  <2>2. /\ \A q \in Req : q # r => h'[q] = h[q]
        /\ Minds(h[r], h'[r]) /\ h'[r].pc = "cacheVp" /\ h'[r].tok = h[r].tok
    BY <1>4, <2>1
  <2>3. ~Unstored(h'[r])
    BY <2>2 DEF Unstored
  <2> QED BY <1>1, <2>1, <2>2, <2>3
<1>7. CASE CacheVp(r)
  <2>1. ~StoreVp(r)
    BY <1>7 DEF CacheVp, StoreVp, At
  <2>2. \/ h' = [h EXCEPT ![r] = Idle] /\ delivered' = delivered \cup {h[r].tok}
        \/ h[r].vp # "EMPTY" /\ Goto(r, "signRefresh") /\ delivered' = delivered
    BY <1>7 DEF CacheVp, Become, Deliver
  <2>3. CASE h' = [h EXCEPT ![r] = Idle] /\ delivered' = delivered \cup {h[r].tok}
    BY <1>1, <1>3, <2>1, <2>3 DEF Completing
  <2>4. CASE h[r].vp # "EMPTY" /\ Goto(r, "signRefresh") /\ delivered' = delivered
    <3>1. /\ \A q \in Req : q # r => h'[q] = h[q]
          /\ Minds(h[r], h'[r]) /\ h'[r].pc = "signRefresh"
          /\ h'[r].tok = h[r].tok /\ h'[r].vp = h[r].vp
      BY <1>4, <2>4
    <3>2. ~Unstored(h'[r])
      BY <2>4, <3>1 DEF Unstored
    <3> QED BY <1>1, <2>1, <2>4, <3>1, <3>2
  <2> QED BY <2>2, <2>3, <2>4
<1> QED BY <1>5, <1>6, <1>7 DEF CompleteSession

(* Signing an access token: without a second in common it is a new one.    *)
LEMMA MintStep ==
  ASSUME Base, ~SameSecond, NEW r \in Req, LoginMint(r) \/ RefreshMint(r)
  PROVE  \E t \in Token :
           /\ ~Signed(t) /\ Signed(t)' /\ h'[r].tok = t /\ h'[r].pc \in Completing
           /\ Minds(h[r], h'[r])
           /\ \A q \in Req : q # r => h'[q] = h[q]
<1>h. h \in [Req -> Handler] /\ owner \in [Token -> Wallet \cup {None}]
  BY DEF Base, TypeOK
<1>1. h[r].wallet \in Wallet /\ h[r].pc = "mint"
  BY DEF LoginMint, RefreshMint, At, Base, HandlerOK, Fit
<1>2. PICK t \in Token, v \in Slot, p \in {"signRefresh", "storeVp"} :
        /\ MayBecome(t, h[r].wallet)
        /\ owner' = [owner EXCEPT ![t] = h[r].wallet]
        /\ h' = [h EXCEPT ![r] = [h[r] EXCEPT !.tok = t, !.vp = v, !.pc = p]]
  BY DEF LoginMint, RefreshMint, Become, Slot
<1>3. ~Signed(t) /\ Signed(t)'
  BY <1>h, <1>1, <1>2, NoneAssumption DEF MayBecome, Signed
<1>4. /\ h'[r] = [h[r] EXCEPT !.tok = t, !.vp = v, !.pc = p]
      /\ \A q \in Req : q # r => h'[q] = h[q]
  BY <1>h, <1>2
<1>5. /\ h'[r].tok = t /\ h'[r].pc = p
      /\ h'[r].owed = h[r].owed /\ h'[r].wallet = h[r].wallet
  BY <1>h, <1>4, KeptFields
<1>6. Minds(h[r], h'[r])
  BY <1>1, <1>5 DEF Minds, Covers, Revoking
<1> QED BY <1>3, <1>4, <1>5, <1>6 DEF Completing

(* What lasts: an owner, an expiry, a revocation, a delivery; and which    *)
(* steps touch Redis and the deliveries.                                   *)
LEMMA LastingStep ==
  ASSUME Base, [Next]_vars
  PROVE  /\ \A t \in Token : Signed(t) => owner'[t] = owner[t]
         /\ \A t \in Token : Signed(t) /\ Expired(t) => Expired(t)'
         /\ revoked \subseteq revoked' /\ delivered \subseteq delivered'
         /\ \/ UNCHANGED <<delivered, brought>>
            \/ \E r \in Req : CompleteSession(r) /\ brought' = brought
            \/ \E t \in Token, w \in Wallet : BringToken(t, w)
         /\ \/ vpRedis' = vpRedis
            \/ \E r \in Req : StoreVp(r) \/ DropVp(r)
            \/ \E t \in Token : ExpireVp(t)
<1> DEFINE Quiet == UNCHANGED <<owner, brought, revoked, delivered, vpRedis>>
<1> USE DEF sessionVars, tokenVars
<1>1. \A t \in Token : Signed(t) /\ Expired(t) => Expired(t)'
  <2>1. ASSUME NEW t \in Token, Signed(t), Expired(t) PROVE Expired(t)'
    <3>1. until'[t] = until[t] /\ now \in Nat /\ now' \in Nat /\ now <= now' /\ until[t] \in Nat
      BY <2>1, SigningStep DEF Signed, Base, TypeOK
    <3> QED BY <2>1, <3>1 DEF Expired
  <2> QED BY <2>1
<1>2. ASSUME NEW r \in Req, LoginMint(r) \/ RefreshMint(r)
      PROVE  /\ \A t \in Token : Signed(t) => owner'[t] = owner[t]
             /\ UNCHANGED <<brought, revoked, delivered, vpRedis>>
  BY <1>2 DEF LoginMint, RefreshMint, MayBecome, Signed, Base, TypeOK
<1>3. ASSUME NEW r \in Req, Login(r) \/ RefreshSession(r) \/ Fail(r),
             ~LoginMint(r), ~RefreshMint(r)
      PROVE  Quiet
  BY <1>3 DEF Login, LoginStart, RefreshSession, RefreshRead, Fail
<1>4. ASSUME NEW r \in Req, CompleteSession(r)
      PROVE  UNCHANGED <<owner, brought, revoked>> /\ delivered \subseteq delivered'
  BY <1>4 DEF CompleteSession, SignRefresh, StoreVp, CacheVp, Deliver
<1>5. ASSUME NEW r \in Req, EndSession(r)
      PROVE  UNCHANGED <<owner, brought, delivered>> /\ revoked \subseteq revoked'
  BY <1>5 DEF EndSession, Logout, LogoutAll, ScanKey, LogoutAllEnd,
              BlockToken, DropVp, DropVpLocal, DropVer, DropVerLocal
<1>6. ASSUME NEW r \in Req, UseSession(r) PROVE Quiet
  BY <1>6 DEF UseSession, DidRequest, SpringCheck, ReadVp, FetchVp, FillVp,
              ReadVer, FetchVer, FillVer, Verify, FillVerified, Respond
<1>7. Restart \/ UNCHANGED vars => Quiet
  BY DEF Restart, vars
<1>8. Expiry => UNCHANGED <<owner, brought, revoked, delivered>>
  BY DEF Expiry, ExpireVp, ExpireVer, EvictLocal, Tick
<1>9. ASSUME NEW r \in Req, SignRefresh(r) \/ CacheVp(r) \/ (EndSession(r) /\ ~DropVp(r))
      PROVE  vpRedis' = vpRedis
  BY <1>9 DEF SignRefresh, CacheVp, EndSession, Logout, LogoutAll, ScanKey,
              LogoutAllEnd, BlockToken, DropVpLocal, DropVer, DropVerLocal
<1>10. ASSUME Expiry, ~ \E t \in Token : ExpireVp(t) PROVE vpRedis' = vpRedis
  BY <1>10 DEF Expiry, ExpireVer, EvictLocal, Tick
<1>15. ASSUME NEW u \in Token, NEW w \in Wallet, BringToken(u, w)
       PROVE  /\ \A t \in Token : Signed(t) => owner'[t] = owner[t]
              /\ UNCHANGED <<revoked, vpRedis>> /\ delivered \subseteq delivered'
  BY <1>15 DEF BringToken, Deliver, Signed, Base, TypeOK
<1>11. \A t \in Token : Signed(t) => owner'[t] = owner[t]
  BY <1>2, <1>3, <1>4, <1>5, <1>6, <1>7, <1>8, <1>15 DEF Next
<1>12. revoked \subseteq revoked' /\ delivered \subseteq delivered'
  BY <1>2, <1>3, <1>4, <1>5, <1>6, <1>7, <1>8, <1>15 DEF Next
<1>13. \/ UNCHANGED <<delivered, brought>>
       \/ \E r \in Req : CompleteSession(r) /\ brought' = brought
       \/ \E t \in Token, w \in Wallet : BringToken(t, w)
  BY <1>2, <1>3, <1>4, <1>5, <1>6, <1>7, <1>8 DEF Next
<1>14. \/ vpRedis' = vpRedis
       \/ \E r \in Req : StoreVp(r) \/ DropVp(r)
       \/ \E t \in Token : ExpireVp(t)
  BY <1>2, <1>3, <1>6, <1>7, <1>9, <1>10, <1>15 DEF Next, CompleteSession
<1> QED BY <1>1, <1>11, <1>12, <1>13, <1>14

(* A logout-all begins: it may owe any session there is, and its SCAN has  *)
(* to return every key.                                                    *)
LEMMA LogoutAllStep ==
  ASSUME Base, NEW r \in Req, NEW t \in Token, LogoutAll(r, t)
  PROVE  /\ h'[r].pc = "scan" /\ h'[r].op = "logoutAll" /\ h'[r].wallet = owner[t]
         /\ h'[r].due = {u \in Token : vpRedis[u] # "ABSENT"}
         /\ h'[r].owed = {u \in Token : Valid(u) /\ u \in delivered}
         /\ \A q \in Req : q # r => h'[q] = h[q]
         /\ UNCHANGED <<tokenVars, sessionVars>>
<1>h. h \in [Req -> Handler]
  BY DEF Base, TypeOK
<1> DEFINE due == {u \in Token : vpRedis[u] # "ABSENT"}
           owed == {u \in Token : Valid(u) /\ u \in delivered}
           new == [Idle EXCEPT !.op = "logoutAll", !.pc = "scan", !.wallet = owner[t],
                               !.due = due, !.owed = owed]
<1>1. h' = [h EXCEPT ![r] = new] /\ UNCHANGED <<tokenVars, sessionVars>>
  BY DEF LogoutAll, Become
<1> HIDE DEF due, owed
<1>2. /\ new.pc = "scan" /\ new.op = "logoutAll" /\ new.wallet = owner[t]
      /\ new.due = due /\ new.owed = owed
  BY DEF Idle
<1> HIDE DEF new
<1>3. h'[r] = new /\ \A q \in Req : q # r => h'[q] = h[q]
  BY <1>h, <1>1
<1> QED BY <1>1, <1>2, <1>3 DEF due, owed

(* Who acts in a step. *)
LEMMA ActorStep ==
  ASSUME Base, [Next]_vars
  PROVE  \/ \A q \in Req : h'[q] = h[q]
         \/ \A q \in Req : h'[q] = Idle
         \/ \E r \in Req : CompleteSession(r)
         \/ \E r \in Req : LoginMint(r) \/ RefreshMint(r)
         \/ \E r \in Req, t \in Token : LogoutAll(r, t)
         \/ \E r \in Req : /\ Turned(h[r], h'[r])
                           /\ \A q \in Req : q # r => h'[q] = h[q]
<1>1. Expiry \/ UNCHANGED vars => \A q \in Req : h'[q] = h[q]
  BY DEF Expiry, ExpireVp, ExpireVer, EvictLocal, Tick, vars
<1>4. \A t \in Token, w \in Wallet : BringToken(t, w) => \A q \in Req : h'[q] = h[q]
  BY DEF BringToken
<1>2. Restart => \A q \in Req : h'[q] = Idle
  BY DEF Restart
<1>3. ASSUME NEW r \in Req,
             \/ EndSession(r) \/ UseSession(r) \/ Fail(r)
             \/ \E w \in Wallet : LoginStart(r, w)
             \/ \E w \in Wallet, k \in 1..MaxRefresh : RefreshRead(r, w, k)
      PROVE  \/ \E t \in Token : LogoutAll(r, t)
             \/ Turned(h[r], h'[r]) /\ \A q \in Req : q # r => h'[q] = h[q]
  BY <1>3, TurnStep
<1> QED BY <1>1, <1>2, <1>3, <1>4 DEF Next, Login, RefreshSession

(* A session belongs to its handler until it is handed out. *)
LEMMA FreshStep ==
  ASSUME Base, ~SameSecond, Fresh, [Next]_vars
  PROVE  Fresh'
<1>s. \A t \in Token : Signed(t) => Signed(t)'
  BY SigningStep DEF Signed
<1>c. \A r \in Req : h[r].pc \in Completing => h[r].tok \in Token /\ Signed(h[r].tok)
  BY TokenOf DEF Completing, Tokenless, Signed
<1>u. \A hd : Unstored(hd) => hd.pc \in Completing
  BY DEF Unstored, Completing
<1>d. delivered \subseteq Token /\ delivered' \subseteq Token
  BY TypeStep DEF Base, TypeOK
<1>1. ASSUME \A r \in Req : h'[r].pc \in Completing =>
               /\ h[r].pc \in Completing /\ h'[r].tok = h[r].tok
               /\ Unstored(h'[r]) => Unstored(h[r]),
             \A t \in delivered' : t \in delivered \/ \E r \in Req :
               h[r].pc \in Completing /\ h[r].tok = t /\ h'[r].pc \notin Completing,
             \A t \in Token : everVp'[t] = everVp[t] \/ \E r \in Req :
               Unstored(h[r]) /\ h[r].tok = t /\ ~Unstored(h'[r]),
             brought' = brought
      PROVE  Fresh'
  <2>1. ASSUME NEW r \in Req, h'[r].pc \in Completing PROVE h'[r].tok \notin delivered'
    <3>1. h[r].pc \in Completing /\ h'[r].tok = h[r].tok /\ h[r].tok \notin delivered
      BY <1>1, <2>1 DEF Fresh
    <3>2. ASSUME NEW q \in Req, h[q].pc \in Completing, h'[q].pc \notin Completing
          PROVE  h[q].tok # h[r].tok
      BY <2>1, <3>1, <3>2 DEF Fresh
    <3> QED BY <1>1, <3>1, <3>2
  <2>2. ASSUME NEW q \in Req, NEW r \in Req, q # r,
               h'[q].pc \in Completing, h'[r].pc \in Completing
        PROVE  h'[q].tok # h'[r].tok
    BY <1>1, <2>2 DEF Fresh
  <2>3. ASSUME NEW r \in Req, Unstored(h'[r]) PROVE everVp'[h'[r].tok] = {}
    <3>1. /\ Unstored(h[r]) /\ h'[r].tok = h[r].tok /\ h[r].tok \in Token
          /\ h[r].pc \in Completing
      BY <1>1, <1>c, <1>u, <2>3
    <3>2. ASSUME NEW q \in Req, Unstored(h[q]), ~Unstored(h'[q]) PROVE h[q].tok # h[r].tok
      BY <1>u, <2>3, <3>1, <3>2 DEF Fresh
    <3>3. everVp[h[r].tok] = {}
      BY <3>1 DEF Fresh
    <3> QED BY <1>1, <3>1, <3>2, <3>3
  <2>4. ASSUME NEW t \in Token, t \in delivered' \/ everVp'[t] # {} PROVE Signed(t)'
    BY <1>1, <1>c, <1>s, <1>u, <2>4 DEF Fresh
  <2>5. ASSUME NEW t \in brought' PROVE t \in delivered' /\ everVp'[t] = {}
    <3>1. t \in delivered /\ t \in Token /\ everVp[t] = {}
      BY <1>1, <1>d, <2>5 DEF Fresh
    <3>2. \A r \in Req : Unstored(h[r]) => h[r].tok # t
      BY <1>u, <3>1 DEF Fresh
    <3> QED BY <1>1, <3>1, <3>2, LastingStep
  <2> QED BY <2>1, <2>2, <2>3, <2>4, <2>5 DEF Fresh
<1>2. CASE \E r \in Req : CompleteSession(r)
  <2>1. PICK r \in Req : CompleteSession(r)
    BY <1>2
  <2>2. \A q \in Req : h'[q].pc \in Completing =>
          /\ h[q].pc \in Completing /\ h'[q].tok = h[q].tok
          /\ Unstored(h'[q]) => Unstored(h[q])
    BY <2>1, CompleteStep
  <2>3. \A t \in delivered' : t \in delivered \/ \E q \in Req :
          h[q].pc \in Completing /\ h[q].tok = t /\ h'[q].pc \notin Completing
    BY <2>1, CompleteStep
  <2>4. \A t \in Token : everVp'[t] = everVp[t] \/ \E q \in Req :
          Unstored(h[q]) /\ h[q].tok = t /\ ~Unstored(h'[q])
    <3>1. CASE StoreVp(r)
      <4>1. Unstored(h[r]) /\ ~Unstored(h'[r])
        BY <2>1, <3>1, CompleteStep DEF StoreVp, At, Unstored
      <4>2. \A t \in Token : t # h[r].tok => everVp'[t] = everVp[t]
        BY <3>1 DEF StoreVp, Base, TypeOK
      <4> QED BY <4>1, <4>2
    <3>2. CASE SignRefresh(r) \/ CacheVp(r)
      BY <3>2 DEF SignRefresh, CacheVp, sessionVars
    <3> QED BY <2>1, <3>1, <3>2 DEF CompleteSession
  <2>5. brought' = brought
    BY <2>1 DEF CompleteSession, SignRefresh, StoreVp, CacheVp, tokenVars
  <2> QED BY <1>1, <2>2, <2>3, <2>4, <2>5
<1>4. CASE \E t \in Token, w \in Wallet : BringToken(t, w)
  <2>1. PICK t \in Token, w \in Wallet : BringToken(t, w)
    BY <1>4
  <2>2. /\ h' = h /\ everVp' = everVp /\ ~Signed(t)
        /\ delivered' = delivered \cup {t} /\ brought' = brought \cup {t}
    BY <2>1 DEF BringToken, Deliver, sessionVars
  <2>3. \A r \in Req : h[r].pc \in Completing => h[r].tok # t
    BY <1>c, <2>2
  <2>4. Signed(t)' /\ everVp[t] = {}
    <3>1. everVp[t] = {}
      BY <2>2 DEF Fresh
    <3>2. owner'[t] = w
      BY <2>1 DEF BringToken, Base, TypeOK
    <3> QED BY <3>1, <3>2, NoneAssumption DEF Signed
  <2>5. \A r \in Req : h'[r].pc \in Completing => h'[r].tok \notin delivered'
    BY <2>2, <2>3 DEF Fresh
  <2>6. \A u \in Token : u \in delivered' \/ everVp'[u] # {} => Signed(u)'
    BY <1>s, <2>2, <2>4 DEF Fresh
  <2>7. \A u \in brought' : u \in delivered' /\ everVp'[u] = {}
    BY <2>2, <2>4 DEF Fresh
  <2> QED BY <2>2, <2>5, <2>6, <2>7 DEF Fresh
<1>3. CASE ~(\E r \in Req : CompleteSession(r))
           /\ ~(\E t \in Token, w \in Wallet : BringToken(t, w))
  <2>1. everVp' = everVp /\ delivered' = delivered /\ brought' = brought
    BY <1>3, EverGrows, LastingStep DEF CompleteSession
  <2>2. ASSUME \A q \in Req : h'[q].pc \in Completing => h'[q] = h[q] PROVE Fresh'
    BY <1>1, <2>1, <2>2
  <2>3. ASSUME NEW r \in Req, LoginMint(r) \/ RefreshMint(r) PROVE Fresh'
    <3>1. PICK t \in Token :
            /\ ~Signed(t) /\ Signed(t)' /\ h'[r].tok = t /\ h'[r].pc \in Completing
            /\ \A q \in Req : q # r => h'[q] = h[q]
      BY <2>3, MintStep
    <3>2. t \notin delivered /\ everVp[t] = {}
      BY <3>1 DEF Fresh
    <3>3. \A q \in Req : h[q].pc \in Completing => h[q].tok # t
      BY <1>c, <3>1
    <3>4. \A q \in Req : h'[q].pc \in Completing => h'[q].tok \notin delivered'
      BY <2>1, <3>1, <3>2 DEF Fresh
    <3>5. \A p, q \in Req : p # q /\ h'[p].pc \in Completing /\ h'[q].pc \in Completing
                              => h'[p].tok # h'[q].tok
      BY <3>1, <3>3 DEF Fresh
    <3>6. \A q \in Req : Unstored(h'[q]) => everVp'[h'[q].tok] = {}
      BY <2>1, <3>1, <3>2 DEF Fresh
    <3>7. \A u \in Token : u \in delivered' \/ everVp'[u] # {} => Signed(u)'
      BY <1>s, <2>1 DEF Fresh
    <3>8. \A u \in brought' : u \in delivered' /\ everVp'[u] = {}
      BY <2>1 DEF Fresh
    <3> QED BY <3>4, <3>5, <3>6, <3>7, <3>8 DEF Fresh
  <2>4. "idle" \notin Completing /\ "scan" \notin Completing /\ Idle.pc = "idle"
    BY DEF Completing, Idle
  <2>5. ASSUME NEW r \in Req, Turned(h[r], h'[r]), \A q \in Req : q # r => h'[q] = h[q]
        PROVE  Fresh'
    BY <2>2, <2>5 DEF Turned
  <2>6. ASSUME NEW r \in Req, NEW t \in Token, LogoutAll(r, t) PROVE Fresh'
    BY <2>2, <2>4, <2>6, LogoutAllStep
  <2> QED BY <1>3, <2>2, <2>3, <2>4, <2>5, <2>6, ActorStep
<1> QED BY <1>2, <1>3, <1>4

(* A session with a VP leaves Redis revoked or expired. *)
LEMMA TracedStep ==
  ASSUME Base, ~SameSecond, Fresh, Traced, [Next]_vars
  PROVE  Traced'
<1> DEFINE Trace(t) == \A v \in everVp[t] : vpRedis[t] = v \/ t \in revoked \/ Expired(t)
<1>t. TypeOK
  BY DEF Base
<1>1. ASSUME NEW t \in Token, everVp'[t] = everVp[t],
             vpRedis'[t] = vpRedis[t] \/ t \in revoked' \/ Expired(t)'
      PROVE  Trace(t)'
  <2> SUFFICES ASSUME NEW v \in everVp[t]
               PROVE  vpRedis'[t] = v \/ t \in revoked' \/ Expired(t)'
    BY <1>1
  <2>1. Signed(t) /\ (vpRedis[t] = v \/ t \in revoked \/ Expired(t))
    BY DEF Fresh, Traced
  <2>2. Expired(t) => Expired(t)'
    BY <2>1, LastingStep
  <2> QED BY <1>1, <2>1, <2>2, LastingStep
<1>2. ASSUME NEW t \in Token PROVE Trace(t)'
  <2>1. ASSUME NEW r \in Req, StoreVp(r) PROVE Trace(t)'
    <3>1. h[r].tok \in Token /\ Unstored(h[r])
      BY <2>1, TokenOf DEF StoreVp, At, Tokenless, Unstored
    <3>2. CASE t = h[r].tok
      <4>1. everVp[t] = {} /\ everVp'[t] = everVp[t] \cup ({h[r].vp} \cap Vp)
        BY <1>t, <2>1, <3>1, <3>2 DEF StoreVp, Fresh, TypeOK
      <4>2. vpRedis'[t] = h[r].vp
        BY <1>t, <2>1, <3>2 DEF StoreVp, TypeOK
      <4> QED BY <4>1, <4>2
    <3>3. CASE t # h[r].tok
      <4>1. everVp'[t] = everVp[t] /\ vpRedis'[t] = vpRedis[t]
        BY <1>t, <2>1, <3>1, <3>3 DEF StoreVp, TypeOK
      <4> QED BY <1>1, <4>1
    <3> QED BY <3>2, <3>3
  <2>2. ASSUME NEW r \in Req, DropVp(r) PROVE Trace(t)'
    <3>1. everVp' = everVp /\ revoked' = revoked /\ vpRedis' = [vpRedis EXCEPT ![h[r].tok] = "ABSENT"]
      BY <2>2 DEF DropVp
    <3>2. h[r].tok \in revoked
      BY <2>2 DEF DropVp, At, Traced
    <3>3. vpRedis'[t] = vpRedis[t] \/ t \in revoked'
      BY <1>t, <3>1, <3>2 DEF TypeOK
    <3> QED BY <1>1, <3>1, <3>3
  <2>3. ASSUME NEW u \in Token, ExpireVp(u) PROVE Trace(t)'
    <3>1. /\ everVp' = everVp /\ vpRedis' = [vpRedis EXCEPT ![u] = "ABSENT"]
          /\ Expired(u) /\ now' = now /\ until' = until
      BY <2>3 DEF ExpireVp, tokenVars
    <3>2. vpRedis'[t] = vpRedis[t] \/ Expired(t)'
      BY <1>t, <3>1 DEF TypeOK, Expired
    <3> QED BY <1>1, <3>1, <3>2
  <2>4. CASE vpRedis' = vpRedis /\ ~ \E r \in Req : StoreVp(r)
    <3>1. everVp' = everVp
      BY <2>4, EverGrows
    <3> QED BY <1>1, <2>4, <3>1
  <2> HIDE DEF Trace
  <2> QED BY <2>1, <2>2, <2>3, <2>4, LastingStep
<1>3. ASSUME NEW q \in Req, h'[q].pc = "dropVp" PROVE h'[q].tok \in revoked'
  <2>1. ASSUME h'[q] = h[q] PROVE h'[q].tok \in revoked'
    BY <1>3, <2>1, LastingStep DEF Traced
  <2>2. h'[q] # Idle
    BY <1>3 DEF Idle
  <2>3. ASSUME NEW r \in Req, CompleteSession(r) PROVE h'[q].tok \in revoked'
    BY <1>3, <2>1, <2>3, CompleteStep
  <2>4. ASSUME NEW r \in Req, LoginMint(r) \/ RefreshMint(r) PROVE h'[q].tok \in revoked'
    <3>1. h'[r].pc \in Completing /\ \A p \in Req : p # r => h'[p] = h[p]
      BY <2>4, MintStep
    <3> QED BY <1>3, <2>1, <3>1 DEF Completing
  <2>5. ASSUME NEW r \in Req, NEW t \in Token, LogoutAll(r, t) PROVE h'[q].tok \in revoked'
    BY <1>3, <2>1, <2>5, LogoutAllStep
  <2>6. ASSUME NEW r \in Req, Turned(h[r], h'[r]), \A p \in Req : p # r => h'[p] = h[p]
        PROVE  h'[q].tok \in revoked'
    BY <1>3, <2>1, <2>6 DEF Turned
  <2> QED BY <2>1, <2>2, <2>3, <2>4, <2>5, <2>6, ActorStep
<1> QED BY <1>2, <1>3 DEF Traced

(* A logout-all keeps track of what it owes. *)
LEMMA OwingStep ==
  ASSUME Base, ~SameSecond, Fresh, Traced, Owing, [Next]_vars
  PROVE  Owing'
<1>h. h \in [Req -> Handler] /\ delivered \subseteq Token
  BY DEF Base, TypeOK
<1>1. \A t \in delivered : everVp'[t] = everVp[t]
  <2>1. ASSUME NEW r \in Req, StoreVp(r) PROVE \A t \in delivered : everVp'[t] = everVp[t]
    <3>1. h[r].tok \notin delivered
      BY <2>1 DEF StoreVp, At, Fresh, Completing
    <3> QED BY <1>h, <2>1, <3>1 DEF StoreVp, Base, TypeOK
  <2> QED BY <2>1, EverGrows
<1>2. ASSUME NEW q \in Req, Minds(h[q], h'[q]) PROVE Owes(h[q])'
  <2> SUFFICES ASSUME NEW t \in h'[q].owed
               PROVE  /\ t \in delivered'
                      /\ Speaks(t, h[q].wallet)' => t \in revoked' \/ Expired(t)' \/ Covers(h'[q], t)
    BY DEF Owes
  <2>1. /\ t \in h[q].owed /\ h'[q].wallet = h[q].wallet
        /\ \A u \in Token : Covers(h[q], u) =>
             \/ Covers(h'[q], u) \/ u \in revoked'
             \/ ~Names(vpRedis[u], owner[u], h[q].wallet)
    BY <1>2 DEF Minds
  <2>2. /\ t \in delivered
        /\ Speaks(t, h[q].wallet) => t \in revoked \/ Expired(t) \/ Covers(h[q], t)
    BY <2>1 DEF Owing, Owes
  <2>3. t \in Token /\ Signed(t) /\ everVp'[t] = everVp[t]
    BY <1>h, <1>1, <2>2 DEF Fresh
  <2>4. /\ t \in delivered' /\ owner'[t] = owner[t]
        /\ Expired(t) => Expired(t)'
        /\ t \in revoked => t \in revoked'
    BY <2>2, <2>3, LastingStep
  <2>5. Speaks(t, h[q].wallet) =>
          Names(vpRedis[t], owner[t], h[q].wallet) \/ t \in revoked \/ Expired(t)
    BY <2>3 DEF Traced, Speaks
  <2>6. Covers(h[q], t) => \/ Covers(h'[q], t) \/ t \in revoked'
                           \/ ~Names(vpRedis[t], owner[t], h[q].wallet)
    BY <2>1, <2>3
  <2>7. Speaks(t, h[q].wallet)' => Speaks(t, h[q].wallet)
    BY <2>1, <2>3, <2>4 DEF Speaks
  <2> QED BY <2>1, <2>2, <2>3, <2>4, <2>5, <2>6, <2>7
<1>3. ASSUME NEW q \in Req, h'[q] = h[q] PROVE Owes(h[q])'
  BY <1>2, <1>3 DEF Minds
<1>4. ASSUME NEW q \in Req, h'[q] = Idle PROVE Owes(h[q])'
  <2>1. Idle.owed = {}
    BY DEF Idle
  <2> QED BY <1>2, <1>4, <2>1 DEF Minds
<1>5. ASSUME NEW r \in Req, NEW t \in Token, LogoutAll(r, t) PROVE Owes(h[r])'
  <2>1. /\ h'[r].pc = "scan" /\ h'[r].op = "logoutAll" /\ h'[r].wallet = owner[t]
        /\ h'[r].due = {u \in Token : vpRedis[u] # "ABSENT"}
        /\ h'[r].owed = {u \in Token : Valid(u) /\ u \in delivered}
        /\ UNCHANGED <<tokenVars, sessionVars>>
    BY <1>5, LogoutAllStep
  <2> SUFFICES ASSUME NEW u \in h'[r].owed
               PROVE  /\ u \in delivered'
                      /\ Speaks(u, h[r].wallet)' => u \in revoked' \/ Expired(u)' \/ Covers(h'[r], u)
    BY DEF Owes
  <2>2. u \in Token /\ Signed(u) /\ u \in delivered
    BY <2>1 DEF Valid
  <2>3. UNCHANGED <<owner, delivered, everVp, revoked>>
    BY <2>1 DEF tokenVars, sessionVars
  <2>4. everVp[u] # {} => vpRedis[u] # "ABSENT" \/ u \in revoked \/ Expired(u)
    BY <2>2, SlotFacts DEF Traced, Base, TypeOK
  <2>5. vpRedis[u] # "ABSENT" => Covers(h'[r], u)
    BY <2>1, <2>2 DEF Covers, Revoking
  <2>7. Speaks(u, h[r].wallet)' => everVp[u] # {}
    BY <2>3 DEF Speaks
  <2>6. Expired(u) => Expired(u)'
    BY <2>2, LastingStep
  <2> QED BY <2>2, <2>3, <2>4, <2>5, <2>6, <2>7
<1>6. ASSUME NEW r \in Req, Owes(h[r])', \A q \in Req : q # r => h'[q] = h[q]
      PROVE  Owing'
  BY <1>3, <1>6 DEF Owing
<1>7. ASSUME NEW r \in Req, CompleteSession(r) PROVE Owing'
  BY <1>2, <1>6, <1>7, CompleteStep
<1>8. ASSUME NEW r \in Req, LoginMint(r) \/ RefreshMint(r) PROVE Owing'
  BY <1>2, <1>6, <1>8, MintStep
<1>9. ASSUME NEW r \in Req, NEW t \in Token, LogoutAll(r, t) PROVE Owing'
  BY <1>5, <1>6, <1>9, LogoutAllStep
<1>10. ASSUME NEW r \in Req, Turned(h[r], h'[r]), \A q \in Req : q # r => h'[q] = h[q]
       PROVE  Owing'
  BY <1>2, <1>6, <1>10 DEF Turned
<1>11. (\A q \in Req : h'[q] = h[q]) \/ (\A q \in Req : h'[q] = Idle) => Owing'
  BY <1>3, <1>4 DEF Owing
<1> QED BY <1>7, <1>8, <1>9, <1>10, <1>11, ActorStep

(* When no two tokens of a wallet share a second: a logout-all that has    *)
(* answered has revoked every session that had been handed out with a VP   *)
(* of the wallet before the call, whatever logins, refreshes, expiries and failures ran  *)
(* during its SCAN (AuthController.logoutAll, TokenService).               *)
THEOREM LogoutAllIsComplete ==
  ASSUME ~SameSecond
  PROVE  Spec => []LogoutAllBlocksVpSessions
<1> DEFINE Inv == IInv /\ Fresh /\ Traced /\ Owing
<1>1. Init => Inv
  <2> SUFFICES ASSUME Init PROVE Fresh /\ Traced /\ Owing
    BY InitIInv
  <2>1. \A r \in Req : h[r] = Idle
    BY DEF Init
  <2>2. Idle.pc = "idle" /\ Idle.owed = {} /\ "idle" \notin Completing /\ ~Unstored(Idle)
    BY DEF Idle, Completing, Unstored
  <2>3. Fresh
    BY <2>1, <2>2 DEF Init, Fresh
  <2>4. Traced /\ Owing
    BY <2>1, <2>2 DEF Init, Traced, Owing, Owes
  <2> QED BY <2>3, <2>4
<1>2. Inv /\ [Next]_vars => Inv'
  BY StepIInv, FreshStep, TracedStep, OwingStep DEF IInv
<1>3. Inv => LogoutAllBlocksVpSessions
  <2> SUFFICES ASSUME Inv, NEW r \in Req, At(r, "scanned"), NEW t \in h[r].owed,
                      Speaks(t, h[r].wallet)
               PROVE  Blocked(t) \/ Expired(t)
    BY DEF LogoutAllBlocksVpSessions, Speaks
  <2>1. t \in delivered /\ (t \in revoked \/ Expired(t) \/ Covers(h[r], t))
    BY DEF Owing, Owes
  <2>2. ~Covers(h[r], t)
    BY DEF At, Covers, Revoking
  <2>3. t \in Token /\ now \in Nat /\ until[t] \in Nat /\ blockedUntil[t] \in Nat
    BY <2>1 DEF IInv, Base, TypeOK
  <2>4. t \in revoked => until[t] <= blockedUntil[t]
    BY DEF IInv, BlockOutlives, Fresh, Speaks
  <2> QED BY <2>1, <2>2, <2>3, <2>4 DEF Blocked, Expired
<1> HIDE DEF Inv
<1> QED BY <1>1, <1>2, <1>3, PTL DEF Spec

---------------------------------------------------------------------------
(* SessionBook.  What a handler does follows from where it is, and a       *)
(* logout-all is about to end a session only when its VP names the wallet. *)
Duty(hd, own, ever) ==
  /\ hd.pc = "idle" => hd.op = "none"
  /\ hd.pc \in {"signRefresh", "storeVp", "cacheVp"} => hd.op \in {"login", "refresh"}
  /\ hd.pc \in {"block", "dropVp", "dropVpLocal"} => hd.op \in {"logout", "logoutAll"}
  /\ hd.pc = "scan" => hd.op = "logoutAll"
  /\ hd.pc = "block" /\ hd.op = "logoutAll" =>
       \E v \in ever[hd.tok] : Names(v, own[hd.tok], hd.wallet)
Assigned == \A r \in Req : Duty(h[r], owner, everVp)

(* A handler that is served no request has no duty. *)
LEMMA IdleDuty ==
  Duty(Idle, owner, everVp) /\ Duty(Idle, owner, everVp)' /\ Serves(Idle) = Free
BY DEF Duty, Idle, Serves

(* The labels that bind a handler to nothing. *)
LEMMA FreeDuty ==
  ASSUME NEW hd, NEW own, NEW ever, hd.pc \notin {"idle", "signRefresh", "storeVp", "cacheVp",
                                        "block", "dropVp", "dropVpLocal", "scan"}
  PROVE  Duty(hd, own, ever)
BY DEF Duty

LEMMA DutyStep ==
  ASSUME Base, CachesBound, Assigned, [Next]_vars
  PROVE  Assigned'
<1>h. h \in [Req -> Handler] /\ Idle \in Handler
  BY IdleIsHandler DEF Base, TypeOK
<1>o. ASSUME NEW q \in Req, h'[q] = h[q] PROVE Duty(h'[q], owner', everVp')
  <2>1. Duty(h[q], owner, everVp)
    BY DEF Assigned
  <2>2. h[q].pc = "block" => /\ owner'[h[q].tok] = owner[h[q].tok]
                             /\ everVp[h[q].tok] \subseteq everVp'[h[q].tok]
    BY EverGrows, LastingStep, TokenOf DEF Tokenless, Signed
  <2> QED BY <1>o, <2>1, <2>2 DEF Duty
<1>1. ASSUME NEW r \in Req, NEW new, h' = [h EXCEPT ![r] = new], Duty(new, owner', everVp')
      PROVE  Assigned'
  <2>1. ASSUME NEW q \in Req PROVE Duty(h'[q], owner', everVp')
    BY <1>h, <1>o, <1>1
  <2> QED BY <2>1 DEF Assigned
<1>2. ASSUME \A q \in Req : h'[q] = h[q] \/ h'[q] = Idle PROVE Assigned'
  <2>1. ASSUME NEW q \in Req PROVE Duty(h'[q], owner', everVp')
    BY <1>o, <1>2, IdleDuty
  <2> QED BY <2>1 DEF Assigned
<1>3. ASSUME NEW r \in Req, NEW p, Goto(r, p),
             p \notin {"idle", "block", "scan"},
             p \in {"signRefresh", "storeVp", "cacheVp"} => h[r].op \in {"login", "refresh"},
             p \in {"dropVp", "dropVpLocal"} => h[r].op \in {"logout", "logoutAll"}
      PROVE  Assigned'
  <2> DEFINE new == [h[r] EXCEPT !.pc = p]
  <2>1. new.pc = p /\ new.op = h[r].op
    BY <1>h, MovedFields, KeptFields
  <2>2. h' = [h EXCEPT ![r] = new]
    BY <1>3 DEF Goto
  <2> HIDE DEF new
  <2>3. Duty(new, owner', everVp')
    BY <1>3, <2>1 DEF Duty
  <2> QED BY <1>1, <2>2, <2>3
<1>4. ASSUME NEW r \in Req, NEW new, h' = [h EXCEPT ![r] = new],
             new.pc \notin {"idle", "signRefresh", "storeVp", "cacheVp",
                            "block", "dropVp", "dropVpLocal", "scan"}
      PROVE  Assigned'
  BY <1>1, <1>4, FreeDuty
<1>5. ASSUME NEW r \in Req, h' = [h EXCEPT ![r] = Idle] PROVE Assigned'
  BY <1>1, <1>5, IdleDuty
<1>6. \A r \in Req : Duty(h[r], owner, everVp)
  BY DEF Assigned
<1> USE DEF Become
<1>7. ASSUME NEW r \in Req, Login(r) \/ RefreshSession(r) PROVE Assigned'
  <2>1. ASSUME NEW w \in Wallet, LoginStart(r, w) PROVE Assigned'
    <3>1. [Idle EXCEPT !.op = "login", !.pc = "mint", !.wallet = w].pc = "mint"
      BY DEF Idle
    <3> QED BY <1>4, <2>1, <3>1 DEF LoginStart
  <2>2. ASSUME NEW w \in Wallet, NEW k \in 1..MaxRefresh, RefreshRead(r, w, k) PROVE Assigned'
    <3>1. [Idle EXCEPT !.op = "refresh", !.pc = "mint", !.wallet = w].pc = "mint"
      BY DEF Idle
    <3> QED BY <1>4, <2>2, <3>1 DEF RefreshRead
  <2>3. ASSUME LoginMint(r) \/ RefreshMint(r) PROVE Assigned'
    <3>1. PICK t \in Token, v \in Slot, p \in {"signRefresh", "storeVp"} :
            h' = [h EXCEPT ![r] = [h[r] EXCEPT !.tok = t, !.vp = v, !.pc = p]]
      BY <2>3 DEF LoginMint, RefreshMint, Slot
    <3> DEFINE new == [h[r] EXCEPT !.tok = t, !.vp = v, !.pc = p]
    <3>2. new.op = h[r].op /\ new.pc = p /\ h[r].op \in {"login", "refresh"}
      BY <1>h, <2>3 DEF Handler, LoginMint, RefreshMint
    <3> HIDE DEF new
    <3>3. Duty(new, owner', everVp')
      BY <3>2 DEF Duty
    <3> QED BY <1>1, <3>1, <3>3 DEF new
  <2> QED BY <1>7, <2>1, <2>2, <2>3 DEF Login, RefreshSession
<1>8. ASSUME NEW r \in Req, CompleteSession(r) PROVE Assigned'
  <2>1. h[r].op \in {"login", "refresh"}
    BY <1>6, <1>8 DEF CompleteSession, SignRefresh, StoreVp, CacheVp, At, Duty
  <2>2. ASSUME NEW k, h' = [h EXCEPT ![r] = [h[r] EXCEPT !.rt = k, !.pc = "storeVp"]]
        PROVE  Assigned'
    <3> DEFINE new == [h[r] EXCEPT !.rt = k, !.pc = "storeVp"]
    <3>1. new.op = h[r].op /\ new.pc = "storeVp"
      BY <1>h DEF Handler
    <3> HIDE DEF new
    <3>2. Duty(new, owner', everVp')
      BY <2>1, <3>1 DEF Duty
    <3> QED BY <1>1, <2>2, <3>2 DEF new
  <2>3. CASE SignRefresh(r)
    BY <1>5, <2>2, <2>3 DEF SignRefresh
  <2>4. CASE StoreVp(r)
    BY <1>3, <2>1, <2>4 DEF StoreVp
  <2>5. CASE CacheVp(r)
    BY <1>3, <1>5, <2>1, <2>5 DEF CacheVp
  <2> QED BY <1>8, <2>3, <2>4, <2>5 DEF CompleteSession
<1>9. ASSUME NEW r \in Req, EndSession(r) PROVE Assigned'
  <2>1. ASSUME NEW t \in Token, Logout(r, t) PROVE Assigned'
    <3> DEFINE new == [Idle EXCEPT !.op = "logout", !.pc = "block", !.tok = t]
    <3>1. new.op = "logout" /\ new.pc = "block"
      BY DEF Idle
    <3> HIDE DEF new
    <3>2. Duty(new, owner', everVp')
      BY <3>1 DEF Duty
    <3> QED BY <1>1, <2>1, <3>2 DEF Logout, new
  <2>2. ASSUME NEW t \in Token, LogoutAll(r, t) PROVE Assigned'
    <3>1. /\ h'[r].pc = "scan" /\ h'[r].op = "logoutAll"
          /\ \A q \in Req : q # r => h'[q] = h[q]
      BY <2>2, LogoutAllStep
    <3>2. Duty(h'[r], owner', everVp')
      BY <3>1 DEF Duty
    <3>3. ASSUME NEW q \in Req PROVE Duty(h'[q], owner', everVp')
      BY <1>o, <3>1, <3>2
    <3> QED BY <3>3 DEF Assigned
  <2>3. ASSUME NEW t \in Token, ScanKey(r, t) PROVE Assigned'
    <3> DEFINE hit == [h[r] EXCEPT !.pc = "block", !.tok = t, !.due = @ \ {t}]
               miss == [h[r] EXCEPT !.due = @ \ {t}]
    <3>1. /\ hit.op = h[r].op /\ hit.pc = "block" /\ hit.tok = t
          /\ hit.wallet = h[r].wallet
          /\ miss.op = h[r].op /\ miss.pc = h[r].pc
      BY <1>h DEF Handler
    <3>2. IF Names(vpRedis[t], owner[t], h[r].wallet)
            THEN h' = [h EXCEPT ![r] = hit] ELSE h' = [h EXCEPT ![r] = miss]
      BY <2>3 DEF ScanKey
    <3>3. h[r].pc = "scan" /\ h[r].op = "logoutAll" /\ owner' = owner
          /\ everVp' = everVp
      BY <1>6, <2>3 DEF ScanKey, At, Duty, tokenVars, sessionVars
    <3> HIDE DEF hit, miss
    <3>w. h[r].wallet \in Wallet \cup {None}
      BY <1>h DEF Handler
    <3>v. Names(vpRedis[t], owner[t], h[r].wallet) => vpRedis[t] \in everVp[t]
      BY <3>w DEF Names, Vp, Unverifiable, CachesBound
    <3>4. Names(vpRedis[t], owner[t], h[r].wallet) => Duty(hit, owner', everVp')
      BY <3>1, <3>3, <3>v DEF Duty
    <3>5. Duty(miss, owner', everVp')
      BY <3>1, <3>3 DEF Duty
    <3> QED BY <1>1, <3>2, <3>4, <3>5
  <2>4. ASSUME LogoutAllEnd(r) PROVE Assigned'
    BY <1>3, <2>4 DEF LogoutAllEnd
  <2>5. ASSUME BlockToken(r) \/ DropVp(r) PROVE Assigned'
    <3>1. h[r].op \in {"logout", "logoutAll"}
      BY <1>6, <2>5 DEF BlockToken, DropVp, At, Duty
    <3> QED BY <1>3, <2>5, <3>1 DEF BlockToken, DropVp
  <2>6. ASSUME DropVpLocal(r) PROVE Assigned'
    <3>1. h[r].op \in {"logout", "logoutAll"}
      BY <1>6, <2>6 DEF DropVpLocal, At, Duty
    <3>2. CASE h[r].op = "logout"
      BY <1>3, <2>6, <3>2 DEF DropVpLocal
    <3>3. CASE h[r].op = "logoutAll"
      <4> DEFINE new == [h[r] EXCEPT !.pc = "scan"]
      <4>1. new.op = h[r].op /\ new.pc = "scan"
        BY <1>h DEF Handler
      <4>2. h' = [h EXCEPT ![r] = new]
        BY <2>6, <3>3 DEF DropVpLocal, Goto
      <4> HIDE DEF new
      <4>3. Duty(new, owner', everVp')
        BY <3>3, <4>1 DEF Duty
      <4> QED BY <1>1, <4>2, <4>3
    <3> QED BY <3>1, <3>2, <3>3
  <2>7. ASSUME DropVer(r) \/ DropVerLocal(r) PROVE Assigned'
    BY <1>3, <1>5, <2>7 DEF DropVer, DropVerLocal
  <2> QED BY <1>9, <2>1, <2>2, <2>3, <2>4, <2>5, <2>6, <2>7 DEF EndSession
<1>10. ASSUME NEW r \in Req, UseSession(r) PROVE Assigned'
  <2>1. ASSUME NEW t \in Token, DidRequest(r, t) \/ SpringCheck(r, t) PROVE Assigned'
    <3>1. /\ [Idle EXCEPT !.op = "did", !.pc = "admitted", !.tok = t].pc = "admitted"
          /\ [Idle EXCEPT !.op = "spring", !.pc = "readVp", !.tok = t].pc = "readVp"
      BY DEF Idle
    <3> QED BY <1>4, <2>1, <3>1 DEF DidRequest, SpringCheck
  <2>2. ASSUME NEW v, NEW p \in {"fillVp", "readVer", "admitted"},
               h' = [h EXCEPT ![r] = [h[r] EXCEPT !.vp = v, !.pc = p]]
        PROVE  Assigned'
    <3> DEFINE new == [h[r] EXCEPT !.vp = v, !.pc = p]
    <3>1. new.pc = p
      BY <1>h, MovedFields
    <3> HIDE DEF new
    <3> QED BY <1>4, <2>2, <3>1 DEF new
  <2>3. ASSUME ReadVp(r) \/ FetchVp(r) \/ FillVp(r) PROVE Assigned'
    BY <1>3, <2>2, <2>3 DEF ReadVp, FetchVp, FillVp, AfterVp
  <2>4. ASSUME ReadVer(r) \/ FetchVer(r) \/ FillVer(r) \/ Verify(r) \/ FillVerified(r)
        PROVE  Assigned'
    BY <1>3, <1>5, <2>4 DEF ReadVer, FetchVer, FillVer, Verify, FillVerified
  <2>5. ASSUME Respond(r) PROVE Assigned'
    BY <1>5, <2>5 DEF Respond
  <2> QED BY <1>10, <2>1, <2>3, <2>4, <2>5 DEF UseSession
<1>11. ASSUME NEW r \in Req, Fail(r) PROVE Assigned'
  BY <1>5, <1>11 DEF Fail
<1>12. ASSUME \/ Restart \/ Expiry \/ UNCHANGED vars
              \/ \E t \in Token, w \in Wallet : BringToken(t, w)
       PROVE  Assigned'
  <2>1. \A q \in Req : h'[q] = h[q] \/ h'[q] = Idle
    BY <1>12 DEF Restart, Expiry, ExpireVp, ExpireVer, EvictLocal, Tick, BringToken, vars
  <2> QED BY <1>2, <2>1
<1> QED BY <1>7, <1>8, <1>9, <1>10, <1>11, <1>12 DEF Next

(* What SessionBook sees of a handler: its request, not how far it is.     *)
LEMMA SameService ==
  ASSUME NEW hd, NEW new,
         new.op = hd.op, new.wallet = hd.wallet, new.tok = hd.tok, new.owed = hd.owed,
         new.pc = "verified" <=> hd.pc = "verified",
         new.pc = "block" <=> hd.pc = "block",
         new.pc = "scanned" <=> hd.pc = "scanned"
  PROVE  Serves(new) = Serves(hd)
BY DEF Serves, HasDone

(* A handler that moves on, and one that has finished.                     *)
LEMMA ServingMoves ==
  ASSUME TypeOK, NEW r \in Req, NEW new, h' = [h EXCEPT ![r] = new]
  PROVE  /\ serving' = [serving EXCEPT ![r] = Serves(new)]
         /\ Serves(new) = Serves(h[r]) => serving' = serving
<1>1. ASSUME NEW q \in Req PROVE h'[q] = IF q = r THEN new ELSE h[q]
  BY DEF TypeOK
<1>2. serving' = [q \in Req |-> Serves(h'[q])]
  BY DEF serving
<1>3. serving' = [q \in Req |-> IF q = r THEN Serves(new) ELSE Serves(h[q])]
  BY <1>1, <1>2
<1>4. serving = [q \in Req |-> Serves(h[q])]
  BY DEF serving
<1> QED BY <1>3, <1>4

LEMMA NothingIsFree == Sessions!Nothing = Free /\ Serves(Idle) = Free
BY IdleDuty DEF Sessions!Nothing, Sessions!Job, Free

(* What has lapsed depends on the clock and the tokens only.               *)
LEMMA LapsedStays ==
  ASSUME UNCHANGED <<now, owner, until>> PROVE lapsed' = lapsed
BY DEF lapsed, Signed, Expired

(* Only StoreVp, the handing out, the signing and the blocking of a token  *)
(* and the clock show in SessionBook beside the requests.                  *)
SessionsStill == UNCHANGED <<owner, everVp, delivered, brought, revoked, lapsed>>

LEMMA StillSteps ==
  ASSUME NEW r \in Req,
         \/ \E w \in Wallet : LoginStart(r, w)
         \/ \E w \in Wallet, k \in 1..MaxRefresh : RefreshRead(r, w, k)
         \/ \E t \in Token : Logout(r, t) \/ LogoutAll(r, t) \/ ScanKey(r, t)
         \/ LogoutAllEnd(r) \/ DropVp(r) \/ DropVpLocal(r) \/ DropVer(r) \/ DropVerLocal(r)
         \/ UseSession(r) \/ Fail(r)
  PROVE  SessionsStill
BY LapsedStays
DEF SessionsStill, tokenVars, sessionVars, LoginStart, RefreshRead, Logout, LogoutAll, ScanKey,
    LogoutAllEnd, DropVp, DropVpLocal, DropVer, DropVerLocal, UseSession, DidRequest,
    SpringCheck, ReadVp, FetchVp, FillVp, ReadVer, FetchVer, FillVer, Verify,
    FillVerified, Respond, Fail

BookStep == Sessions!BookNext \/ UNCHANGED Sessions!bookVars

(* A handler that ends, whatever it was doing. *)
LEMMA FinishStep ==
  ASSUME TypeOK, SessionsStill, NEW r \in Req, h' = [h EXCEPT ![r] = Idle]
  PROVE  BookStep
<1>1. serving' = [serving EXCEPT ![r] = Sessions!Nothing]
  BY ServingMoves, NothingIsFree
<1>2. Sessions!Finish(r)
  BY <1>1 DEF Sessions!Finish, Sessions!Quiet, SessionsStill
<1> QED BY <1>2 DEF BookStep, Sessions!BookNext

(* A handler that moves on without anything to show for it. *)
LEMMA QuietStep ==
  ASSUME TypeOK, SessionsStill, NEW r \in Req, NEW new, h' = [h EXCEPT ![r] = new],
         Serves(new) = Serves(h[r])
  PROVE  BookStep
BY ServingMoves DEF SessionsStill, BookStep, Sessions!bookVars

LEMMA QuietGoto ==
  ASSUME TypeOK, SessionsStill, NEW r \in Req, NEW p, Goto(r, p),
         p = "verified" <=> h[r].pc = "verified",
         p = "block" <=> h[r].pc = "block",
         p = "scanned" <=> h[r].pc = "scanned"
  PROVE  BookStep
<1> DEFINE new == [h[r] EXCEPT !.pc = p]
<1>1. /\ new.op = h[r].op /\ new.wallet = h[r].wallet /\ new.tok = h[r].tok
      /\ new.owed = h[r].owed /\ new.pc = p
  BY DEF TypeOK, Handler
<1>2. h' = [h EXCEPT ![r] = new]
  BY DEF Goto
<1> HIDE DEF new
<1>3. Serves(new) = Serves(h[r])
  BY <1>1, SameService
<1> QED BY <1>2, <1>3, QuietStep

(* A request that comes: its handler was free. *)
LEMMA FreeHandler ==
  ASSUME Assigned, NEW r \in Req, h[r].pc = "idle"
  PROVE  Serves(h[r]) = Free /\ serving[r] = Sessions!Nothing
<1>1. Serves(h[r]) = Free
  BY DEF Assigned, Duty, Serves
<1> QED BY <1>1, NothingIsFree DEF serving

LEMMA ServeStep ==
  ASSUME TypeOK, Assigned, SessionsStill, NEW r \in Req, h[r].pc = "idle",
         NEW new, h' = [h EXCEPT ![r] = new]
  PROVE  Sessions!Serve(r, Serves(new))
<1>1. serving[r] = Sessions!Nothing
  BY FreeHandler
<1>2. serving' = [serving EXCEPT ![r] = Serves(new)]
  BY ServingMoves
<1> QED BY <1>1, <1>2 DEF Sessions!Serve, Sessions!Quiet, SessionsStill

---------------------------------------------------------------------------
(* A request begins. *)
LEMMA BeginStep ==
  ASSUME IInv, Fresh, Assigned, NEW r \in Req,
         \/ \E w \in Wallet : LoginStart(r, w)
         \/ \E w \in Wallet, k \in 1..MaxRefresh : RefreshRead(r, w, k)
         \/ \E t \in Token : \/ DidRequest(r, t) \/ SpringCheck(r, t)
                             \/ Logout(r, t) \/ LogoutAll(r, t)
  PROVE  BookStep
<1>t. TypeOK
  BY DEF IInv, Base
<1>s. SessionsStill
  BY StillSteps DEF UseSession
<1>i. h[r].pc = "idle"
  BY DEF LoginStart, RefreshRead, DidRequest, SpringCheck, Logout, LogoutAll, Accepts
<1>u. \A t \in Token : t \in delivered /\ Valid(t) => Sessions!Usable(t)
  BY DEF Sessions!Usable, Valid, lapsed
<1> USE DEF Become
<1>1. ASSUME NEW w \in Wallet, LoginStart(r, w) PROVE BookStep
  <2> DEFINE new == [Idle EXCEPT !.op = "login", !.pc = "mint", !.wallet = w]
  <2>1. new.op = "login"
    BY DEF Idle
  <2>2. h' = [h EXCEPT ![r] = new]
    BY <1>1 DEF LoginStart
  <2> HIDE DEF new
  <2>3. Serves(new) = Serves(h[r])
    BY <1>i, <2>1, FreeHandler DEF Serves, HasDone
  <2> QED BY <1>s, <1>t, <2>2, <2>3, QuietStep
<1>2. ASSUME NEW w \in Wallet, NEW k \in 1..MaxRefresh, RefreshRead(r, w, k) PROVE BookStep
  <2> DEFINE new == [Idle EXCEPT !.op = "refresh", !.pc = "mint", !.wallet = w]
  <2>1. new.op = "refresh"
    BY DEF Idle
  <2>2. h' = [h EXCEPT ![r] = new]
    BY <1>2 DEF RefreshRead
  <2> HIDE DEF new
  <2>3. Serves(new) = Serves(h[r])
    BY <1>i, <2>1, FreeHandler DEF Serves, HasDone
  <2> QED BY <1>s, <1>t, <2>2, <2>3, QuietStep
<1>3. ASSUME NEW t \in Token, DidRequest(r, t) PROVE BookStep
  <2> DEFINE new == [Idle EXCEPT !.op = "did", !.pc = "admitted", !.tok = t]
  <2>1. new.op = "did" /\ new.tok = t
    BY DEF Idle
  <2>2. h' = [h EXCEPT ![r] = new]
    BY <1>3 DEF DidRequest
  <2> HIDE DEF new
  <2>3. Serves(new) = Sessions!Job("did", t, {})
    BY <2>1 DEF Serves, HasDone, Sessions!Job
  <2>4. Sessions!Serve(r, Sessions!Job("did", t, {}))
    BY <1>i, <1>s, <1>t, <2>2, <2>3, ServeStep
  <2>5. Sessions!UseUnchecked(r, t)
    BY <1>3, <1>u, <2>4 DEF DidRequest, Sessions!UseUnchecked
  <2> QED BY <2>5 DEF BookStep, Sessions!BookNext
<1>4. ASSUME NEW t \in Token, Logout(r, t) PROVE BookStep
  <2> DEFINE new == [Idle EXCEPT !.op = "logout", !.pc = "block", !.tok = t]
  <2>1. new.op = "logout" /\ new.tok = t /\ new.pc = "block"
    BY DEF Idle
  <2>2. h' = [h EXCEPT ![r] = new]
    BY <1>4 DEF Logout
  <2> HIDE DEF new
  <2>3. Serves(new) = Sessions!Job("logout", t, {})
    BY <2>1 DEF Serves, HasDone, Sessions!Job
  <2>4. Sessions!Serve(r, Sessions!Job("logout", t, {}))
    BY <1>i, <1>s, <1>t, <2>2, <2>3, ServeStep
  <2>5. Sessions!UseUnchecked(r, t)
    BY <1>4, <1>u, <2>4 DEF Logout, Sessions!UseUnchecked
  <2> QED BY <2>5 DEF BookStep, Sessions!BookNext
<1>5. ASSUME NEW t \in Token, SpringCheck(r, t) PROVE BookStep
  <2> DEFINE new == [Idle EXCEPT !.op = "spring", !.pc = "readVp", !.tok = t]
  <2>1. new.op = "spring" /\ new.tok = t /\ new.pc = "readVp"
    BY DEF Idle
  <2>2. h' = [h EXCEPT ![r] = new]
    BY <1>5 DEF SpringCheck
  <2> HIDE DEF new
  <2>3. Serves(new) = Sessions!Job("spring", t, {})
    BY <2>1 DEF Serves, HasDone, Sessions!Job
  <2>4. Sessions!Serve(r, Sessions!Job("spring", t, {}))
    BY <1>i, <1>s, <1>t, <2>2, <2>3, ServeStep
  <2>5. t \in delivered /\ Valid(t) /\ ~Blocked(t)
    BY <1>5 DEF SpringCheck
  <2>6. t \notin revoked \ brought
    <3>1. /\ now \in Nat /\ until[t] \in Nat /\ blockedUntil[t] \in Nat
      BY <1>t DEF TypeOK
    <3>2. t \in revoked \ brought => until[t] <= blockedUntil[t]
      BY DEF IInv, BlockOutlives
    <3> QED BY <2>5, <3>1, <3>2 DEF Valid, Expired, Blocked
  <2>7. Sessions!Use(r, t)
    BY <1>u, <2>4, <2>5, <2>6 DEF Sessions!Use
  <2> QED BY <2>7 DEF BookStep, Sessions!BookNext
<1>6. ASSUME NEW t \in Token, LogoutAll(r, t) PROVE BookStep
  <2> DEFINE owed == {u \in Token : Valid(u) /\ u \in delivered}
  <2>1. /\ h'[r].pc = "scan" /\ h'[r].op = "logoutAll" /\ h'[r].wallet = owner[t]
        /\ h'[r].owed = owed
    BY <1>6, LogoutAllStep DEF IInv
  <2>2. \E new : h' = [h EXCEPT ![r] = new]
    BY <1>6 DEF LogoutAll
  <2>3. h' = [h EXCEPT ![r] = h'[r]]
    BY <1>t, <2>2 DEF TypeOK
  <2>4. delivered \subseteq Token /\ owner[t] # None
    BY <1>6, <1>t DEF TypeOK, LogoutAll, Valid, Signed
  <2>5. owed = delivered \ lapsed
    BY <2>4 DEF Fresh, lapsed, Valid, Signed
  <2> HIDE DEF owed
  <2>6. Serves(h'[r]) = Sessions!Job("logoutAll", owner[t], owed)
    BY <2>1 DEF Serves, HasDone, Sessions!Job
  <2>7. Sessions!Serve(r, Sessions!Job("logoutAll", owner[t], owed))
    BY <1>i, <1>s, <1>t, <2>3, <2>6, ServeStep
  <2>8. Sessions!EndAll(r, t)
    BY <1>6, <1>u, <2>5, <2>7 DEF LogoutAll, Sessions!EndAll
  <2> QED BY <2>8 DEF BookStep, Sessions!BookNext
<1> QED BY <1>1, <1>2, <1>3, <1>4, <1>5, <1>6

---------------------------------------------------------------------------
(* A token is signed: a session comes about. *)
LEMMA SignStep ==
  ASSUME Base, IssuedBefore, ~SameSecond, NEW r \in Req, LoginMint(r) \/ RefreshMint(r)
  PROVE  BookStep
<1>t. TypeOK /\ h \in [Req -> Handler]
  BY DEF Base, TypeOK
<1>1. PICK t \in Token, v \in Slot, p \in {"signRefresh", "storeVp"} :
        /\ MayBecome(t, h[r].wallet)
        /\ owner' = [owner EXCEPT ![t] = h[r].wallet]
        /\ until' = [until EXCEPT ![t] = now + AccessTtl]
        /\ h' = [h EXCEPT ![r] = [h[r] EXCEPT !.tok = t, !.vp = v, !.pc = p]]
        /\ UNCHANGED <<now, brought, delivered, sessionVars>>
  BY DEF LoginMint, RefreshMint, Become, Slot
<1>2. h[r].wallet \in Wallet /\ h[r].op \in {"login", "refresh"}
  BY DEF LoginMint, RefreshMint, At, Base, HandlerOK, Fit
<1>3. ~Signed(t)
  BY <1>1 DEF MayBecome
<1> DEFINE new == [h[r] EXCEPT !.tok = t, !.vp = v, !.pc = p]
<1>4. new.op = h[r].op
  BY <1>t DEF Handler
<1>5. h' = [h EXCEPT ![r] = new]
  BY <1>1
<1> HIDE DEF new
<1>6. Serves(new) = Serves(h[r])
  BY <1>2, <1>4 DEF Serves, HasDone
<1>7. serving' = serving
  BY <1>t, <1>5, <1>6, ServingMoves
<1>8. lapsed' = lapsed
  <2>1. ASSUME NEW u \in Token PROVE (Signed(u) /\ Expired(u))' <=> Signed(u) /\ Expired(u)
    <3>1. CASE u = t
      <4>1. until'[u] = now + AccessTtl /\ now' = now /\ now \in Nat
        BY <1>1, <1>t, <3>1 DEF TypeOK
      <4> QED BY <1>3, <3>1, <4>1, TtlAssumption DEF Expired
    <3>2. CASE u # t
      BY <1>1, <1>t, <3>2 DEF TypeOK, Signed, Expired
    <3> QED BY <3>1, <3>2
  <2> QED BY <2>1 DEF lapsed
<1>9. Sessions!Sign(t, h[r].wallet)
  BY <1>1, <1>3, <1>7, <1>8 DEF Sessions!Sign, Signed, sessionVars
<1> QED BY <1>2, <1>9 DEF BookStep, Sessions!BookNext

(* A session is bound while its own handler still keeps it, and handed out *)
(* when the handler has finished.                                          *)
LEMMA GiveStep ==
  ASSUME Base, Assigned, Fresh, NEW r \in Req, CompleteSession(r)
  PROVE  BookStep
<1>t. TypeOK /\ h \in [Req -> Handler]
  BY DEF Base, TypeOK
<1>1. /\ h[r].pc \in Completing /\ h[r].tok \in Token /\ owner[h[r].tok] # None
      /\ h[r].tok \notin delivered
  BY TokenOf
  DEF Fresh, Completing, Tokenless, CompleteSession, SignRefresh, StoreVp, CacheVp, At
<1>2. Serves(h[r]) = Free
  BY <1>1 DEF Assigned, Duty, Completing, Serves
<1>3. h[r].op \in {"login", "refresh"}
  BY <1>1 DEF Assigned, Duty, Completing
<1>4. lapsed' = lapsed /\ UNCHANGED <<owner, revoked, brought>>
  BY LapsedStays
  DEF CompleteSession, SignRefresh, StoreVp, CacheVp, tokenVars, sessionVars
<1>5. ASSUME h' = [h EXCEPT ![r] = Idle], Deliver(h[r].tok), everVp' = everVp
      PROVE  BookStep
  <2>1. serving' = serving
    BY <1>2, <1>5, <1>t, NothingIsFree, ServingMoves
  <2>2. Sessions!HandOut(h[r].tok)
    BY <1>1, <1>4, <1>5, <2>1 DEF Sessions!HandOut, Deliver
  <2> QED BY <1>1, <2>2 DEF BookStep, Sessions!BookNext
<1>6. ASSUME NEW new, h' = [h EXCEPT ![r] = new], new.op = h[r].op PROVE serving' = serving
  <2>1. Serves(new) = Serves(h[r])
    BY <1>3, <1>6 DEF Serves, HasDone
  <2> QED BY <1>6, <1>t, <2>1, ServingMoves
<1>7. ASSUME NEW p, Goto(r, p) PROVE serving' = serving
  <2> DEFINE new == [h[r] EXCEPT !.pc = p]
  <2>1. new.op = h[r].op /\ h' = [h EXCEPT ![r] = new]
    BY <1>7, <1>t DEF Goto, Handler
  <2> HIDE DEF new
  <2> QED BY <1>6, <2>1
<1>8. CASE SignRefresh(r)
  <2>1. PICK k \in 1..MaxRefresh :
          \/ /\ h' = [h EXCEPT ![r] = [h[r] EXCEPT !.rt = k, !.pc = "storeVp"]]
             /\ delivered' = delivered
          \/ h' = [h EXCEPT ![r] = Idle] /\ Deliver(h[r].tok)
    BY <1>8 DEF SignRefresh, Become
  <2>2. everVp' = everVp
    BY <1>8 DEF SignRefresh, sessionVars
  <2>3. CASE /\ h' = [h EXCEPT ![r] = [h[r] EXCEPT !.rt = k, !.pc = "storeVp"]]
             /\ delivered' = delivered
    <3> DEFINE new == [h[r] EXCEPT !.rt = k, !.pc = "storeVp"]
    <3>1. new.op = h[r].op /\ h' = [h EXCEPT ![r] = new]
      BY <1>t, <2>3 DEF Handler
    <3> HIDE DEF new
    <3>2. serving' = serving
      BY <1>6, <3>1
    <3> QED BY <1>4, <2>2, <2>3, <3>2 DEF BookStep, Sessions!bookVars
  <2> QED BY <1>5, <2>1, <2>2, <2>3
<1>9. CASE StoreVp(r)
  <2>1. /\ everVp' = [everVp EXCEPT ![h[r].tok] = @ \cup ({h[r].vp} \cap Vp)]
        /\ Goto(r, "cacheVp") /\ delivered' = delivered
    BY <1>9 DEF StoreVp, tokenVars
  <2>2. serving' = serving
    BY <1>7, <2>1
  <2>3. CASE h[r].vp \in Vp
    <3>1. {h[r].vp} \cap Vp = {h[r].vp}
      BY <2>3
    <3>2. Sessions!Bind(h[r].tok, h[r].vp)
      BY <1>1, <1>4, <2>1, <2>2, <3>1 DEF Sessions!Bind
    <3>3. h[r].vp \in Sessions!Presentation
      BY <2>3 DEF Vp, Unverifiable, Sessions!Presentation
    <3> QED BY <1>1, <3>2, <3>3 DEF BookStep, Sessions!BookNext
  <2>4. CASE h[r].vp \notin Vp
    <3>1. {h[r].vp} \cap Vp = {}
      BY <2>4
    <3>2. everVp' = everVp
      BY <1>t, <2>1, <3>1 DEF TypeOK
    <3> QED BY <1>4, <2>1, <2>2, <3>2 DEF BookStep, Sessions!bookVars
  <2> QED BY <2>3, <2>4
<1>10. CASE CacheVp(r)
  <2>1. everVp' = everVp
    BY <1>10 DEF CacheVp
  <2>2. \/ h' = [h EXCEPT ![r] = Idle] /\ Deliver(h[r].tok)
        \/ Goto(r, "signRefresh") /\ delivered' = delivered
    BY <1>10 DEF CacheVp, Become
  <2>3. CASE Goto(r, "signRefresh") /\ delivered' = delivered
    BY <1>4, <1>7, <2>1, <2>3 DEF BookStep, Sessions!bookVars
  <2> QED BY <1>5, <2>1, <2>2, <2>3
<1> QED BY <1>8, <1>9, <1>10 DEF CompleteSession

---------------------------------------------------------------------------
(* A handler has done what it was there for. *)
LEMMA DoneStep ==
  ASSUME TypeOK, NEW r \in Req, NEW new, h' = [h EXCEPT ![r] = new],
         new.op = h[r].op, new.wallet = h[r].wallet, new.tok = h[r].tok,
         new.owed = h[r].owed, HasDone(new)
  PROVE  Sessions!Done(r)
<1>1. Serves(new) = [Serves(h[r]) EXCEPT !.stage = "done"]
  BY DEF Serves, HasDone
<1>2. serving[r] = Serves(h[r])
  BY DEF serving
<1>3. serving' = [serving EXCEPT ![r] = Serves(new)]
  BY ServingMoves
<1> QED BY <1>1, <1>2, <1>3 DEF Sessions!Done

(* A logout ends its session, a logout-all those of its wallet one by one; *)
(* when it has finished none is left that it owed an end.                  *)
LEMMA EndStep ==
  ASSUME Base, Assigned, Fresh, Owing, NEW r \in Req,
         \/ \E t \in Token : ScanKey(r, t)
         \/ LogoutAllEnd(r) \/ BlockToken(r) \/ DropVp(r) \/ DropVpLocal(r)
         \/ DropVer(r) \/ DropVerLocal(r)
  PROVE  BookStep
<1>t. TypeOK /\ h \in [Req -> Handler] /\ serving[r] = Serves(h[r])
  BY DEF Base, TypeOK, serving
<1>d. Duty(h[r], owner, everVp)
  BY DEF Assigned
<1>s. ~BlockToken(r) => SessionsStill
  BY StillSteps
<1>1. ASSUME NEW t \in Token, ScanKey(r, t) PROVE BookStep
  <2> DEFINE hit == [h[r] EXCEPT !.pc = "block", !.tok = t, !.due = @ \ {t}]
             miss == [h[r] EXCEPT !.due = @ \ {t}]
  <2>1. /\ hit.op = h[r].op /\ hit.pc = "block" /\ hit.wallet = h[r].wallet
        /\ hit.owed = h[r].owed /\ miss.op = h[r].op /\ miss.pc = h[r].pc
        /\ miss.wallet = h[r].wallet /\ miss.owed = h[r].owed
    BY <1>t DEF Handler
  <2>2. h' = [h EXCEPT ![r] = hit] \/ h' = [h EXCEPT ![r] = miss]
    BY <1>1 DEF ScanKey, Become
  <2>3. h[r].pc = "scan" /\ h[r].op = "logoutAll"
    BY <1>1, <1>d DEF ScanKey, At, Duty
  <2> HIDE DEF hit, miss
  <2>4. Serves(hit) = Serves(h[r]) /\ Serves(miss) = Serves(h[r])
    BY <2>1, <2>3 DEF Serves, HasDone
  <2>5. SessionsStill
    BY <1>1, StillSteps
  <2> QED BY <1>t, <2>2, <2>4, <2>5, QuietStep
<1>2. CASE LogoutAllEnd(r)
  <2>1. h[r].pc = "scan" /\ h[r].due = {} /\ Goto(r, "scanned") /\ SessionsStill
    BY <1>2, StillSteps DEF LogoutAllEnd, At
  <2>2. h[r].op = "logoutAll"
    BY <1>d, <2>1 DEF Duty
  <2> DEFINE new == [h[r] EXCEPT !.pc = "scanned"]
  <2>3. /\ new.op = h[r].op /\ new.wallet = h[r].wallet /\ new.tok = h[r].tok
        /\ new.owed = h[r].owed /\ new.pc = "scanned"
    BY <1>t DEF Handler
  <2>4. h' = [h EXCEPT ![r] = new]
    BY <2>1 DEF Goto
  <2> HIDE DEF new
  <2>6. Sessions!Done(r)
    BY <1>t, <2>1, <2>2, <2>3, <2>4, DoneStep DEF HasDone
  <2>7. /\ serving[r].kind = "logoutAll" /\ serving[r].owed = h[r].owed
        /\ serving[r].for = h[r].wallet
    BY <1>t, <2>2 DEF Serves, HasDone
  <2>8. ASSUME NEW u \in h[r].owed, Sessions!Speaks(u, h[r].wallet) PROVE u \in revoked \cup lapsed
    <3>1. /\ u \in delivered
          /\ u \in revoked \/ Expired(u) \/ Covers(h[r], u)
      BY <2>8 DEF Owing, Owes, Speaks, Names, Sessions!Speaks
    <3>2. ~Covers(h[r], u)
      BY <2>1 DEF Covers
    <3>3. u \in Token
      BY <1>t, <3>1 DEF TypeOK
    <3>4. Signed(u)
      BY <3>1, <3>3 DEF Fresh
    <3> QED BY <3>1, <3>2, <3>3, <3>4 DEF lapsed
  <2>9. Sessions!AllEnded(r)
    BY <2>1, <2>6, <2>7, <2>8 DEF Sessions!AllEnded, Sessions!Does, Sessions!Quiet, SessionsStill
  <2> QED BY <2>9 DEF BookStep, Sessions!BookNext
<1>3. CASE BlockToken(r)
  <2>1. /\ h[r].pc = "block" /\ Goto(r, "dropVp")
        /\ revoked' = revoked \cup {h[r].tok}
        /\ UNCHANGED <<now, owner, until, brought, delivered, everVp>>
    BY <1>3 DEF BlockToken, At, tokenVars
  <2>2. h[r].op \in {"logout", "logoutAll"}
    BY <1>d, <2>1 DEF Duty
  <2>3. h[r].tok \in Token /\ lapsed' = lapsed
    BY <2>1, LapsedStays, TokenOf DEF Tokenless
  <2> DEFINE new == [h[r] EXCEPT !.pc = "dropVp"]
  <2>4. /\ new.op = h[r].op /\ new.wallet = h[r].wallet /\ new.tok = h[r].tok
        /\ new.owed = h[r].owed /\ new.pc = "dropVp"
    BY <1>t DEF Handler
  <2>5. h' = [h EXCEPT ![r] = new]
    BY <2>1 DEF Goto
  <2> HIDE DEF new
  <2>6. CASE h[r].op = "logout"
    <3>2. Sessions!Done(r)
      BY <1>t, <2>4, <2>5, <2>6, DoneStep DEF HasDone
    <3>3. serving[r].kind = "logout" /\ serving[r].for = h[r].tok
      BY <1>t, <2>6 DEF Serves, HasDone
    <3>4. Sessions!EndOwn(r)
      BY <2>1, <2>3, <3>2, <3>3 DEF Sessions!EndOwn, Sessions!Does
    <3> QED BY <3>4 DEF BookStep, Sessions!BookNext
  <2>7. CASE h[r].op = "logoutAll"
    <3>1. Serves(new) = Serves(h[r])
      BY <2>1, <2>4, <2>7 DEF Serves, HasDone
    <3>2. serving' = serving
      BY <1>t, <2>5, <3>1, ServingMoves
    <3>3. serving[r].kind = "logoutAll" /\ serving[r].for = h[r].wallet
      BY <1>t, <2>7 DEF Serves, HasDone
    <3>4. Sessions!Speaks(h[r].tok, h[r].wallet)
      BY <1>d, <2>1, <2>7 DEF Duty, Names, Sessions!Speaks
    <3>5. Sessions!EndOne(r, h[r].tok)
      BY <2>1, <2>3, <3>2, <3>3, <3>4 DEF Sessions!EndOne, Sessions!Does
    <3> QED BY <2>3, <3>5 DEF BookStep, Sessions!BookNext
  <2> QED BY <2>2, <2>6, <2>7
<1>4. CASE DropVp(r) \/ DropVpLocal(r) \/ DropVer(r)
  <2>1. SessionsStill
    BY <1>4, StillSteps
  <2>2. \E p \in {"dropVpLocal", "dropVer", "scan", "dropVerLocal"} : Goto(r, p)
    BY <1>4 DEF DropVp, DropVpLocal, DropVer
  <2>3. h[r].pc \in {"dropVp", "dropVpLocal", "dropVer"}
    BY <1>4 DEF DropVp, DropVpLocal, DropVer, At
  <2> QED BY <1>t, <2>1, <2>2, <2>3, QuietGoto
<1>5. CASE DropVerLocal(r)
  BY <1>5, <1>t, FinishStep, StillSteps DEF DropVerLocal, Become
<1> QED BY <1>1, <1>2, <1>3, <1>4, <1>5

---------------------------------------------------------------------------
(* A request is taken for verified only with a session bound to a VP that  *)
(* verifies.                                                               *)
LEMMA VerifiedStep ==
  ASSUME Base, SessionsStill, NEW r \in Req, Goto(r, "verified"),
         h[r].pc \notin {"verified", "block", "scanned"},
         "VP" \in everVp[h[r].tok]
  PROVE  BookStep
<1>t. TypeOK /\ h \in [Req -> Handler] /\ serving[r] = Serves(h[r])
  BY DEF Base, TypeOK, serving
<1> DEFINE new == [h[r] EXCEPT !.pc = "verified"]
<1>1. /\ new.op = h[r].op /\ new.wallet = h[r].wallet /\ new.tok = h[r].tok
      /\ new.owed = h[r].owed /\ new.pc = "verified"
  BY <1>t DEF Handler
<1>2. h' = [h EXCEPT ![r] = new]
  BY DEF Goto
<1> HIDE DEF new
<1>3. CASE h[r].op = "spring"
  <2>2. Sessions!Done(r)
    BY <1>1, <1>2, <1>3, <1>t, DoneStep DEF HasDone
  <2>3. serving[r].kind = "spring" /\ serving[r].for = h[r].tok
    BY <1>3, <1>t DEF Serves, HasDone
  <2>4. Sessions!Verify(r)
    BY <2>2, <2>3 DEF Sessions!Verify, Sessions!Does, Sessions!Quiet, SessionsStill
  <2> QED BY <2>4 DEF BookStep, Sessions!BookNext
<1>4. CASE h[r].op # "spring"
  <2>1. Serves(new) = Serves(h[r])
    BY <1>1, <1>4 DEF Serves, HasDone
  <2> QED BY <1>2, <1>t, <2>1, QuietStep
<1> QED BY <1>3, <1>4

LEMMA GuardStep ==
  ASSUME Base, HandlersBound, CachesBound, NEW r \in Req,
         \/ ReadVp(r) \/ FetchVp(r) \/ FillVp(r) \/ ReadVer(r) \/ FetchVer(r) \/ FillVer(r)
         \/ Verify(r) \/ FillVerified(r) \/ Respond(r) \/ Fail(r)
  PROVE  BookStep
<1>t. TypeOK /\ h \in [Req -> Handler]
  BY DEF Base, TypeOK
<1>s. SessionsStill
  BY StillSteps DEF UseSession
<1>1. CASE ReadVp(r) \/ FetchVp(r) \/ FillVp(r)
  <2>1. h[r].pc \in {"readVp", "fetchVp", "fillVp"}
    BY <1>1 DEF ReadVp, FetchVp, FillVp, At
  <2>2. \/ Goto(r, "fetchVp")
        \/ \E v, p : /\ p \in {"fillVp", "readVer", "admitted"}
                     /\ h' = [h EXCEPT ![r] = [h[r] EXCEPT !.vp = v, !.pc = p]]
    BY <1>1 DEF ReadVp, FetchVp, FillVp, AfterVp, Become
  <2>3. ASSUME NEW v, NEW p \in {"fillVp", "readVer", "admitted"},
               h' = [h EXCEPT ![r] = [h[r] EXCEPT !.vp = v, !.pc = p]]
        PROVE  BookStep
    <3> DEFINE new == [h[r] EXCEPT !.vp = v, !.pc = p]
    <3>1. /\ new.op = h[r].op /\ new.wallet = h[r].wallet /\ new.tok = h[r].tok
          /\ new.owed = h[r].owed /\ new.pc = p
      BY <1>t DEF Handler
    <3> HIDE DEF new
    <3>2. Serves(new) = Serves(h[r])
      BY <2>1, <3>1, SameService
    <3> QED BY <1>s, <1>t, <2>3, <3>2, QuietStep DEF new
  <2> QED BY <1>s, <1>t, <2>1, <2>2, <2>3, QuietGoto
<1>2. CASE ReadVer(r)
  <2>1. h[r].pc = "readVer" /\ h[r].tok \in Token
    BY <1>2, TokenOf DEF ReadVer, At, Tokenless
  <2>2. verLocal[h[r].tok] => "VP" \in everVp[h[r].tok]
    BY <2>1 DEF CachesBound
  <2>3. Goto(r, "fetchVer") \/ (verLocal[h[r].tok] /\ Goto(r, "verified"))
    BY <1>2 DEF ReadVer
  <2> QED BY <1>s, <1>t, <2>1, <2>2, <2>3, QuietGoto, VerifiedStep
<1>3. CASE FillVer(r) \/ FillVerified(r)
  <2>1. h[r].pc \in {"fillVer", "fillVerified"} /\ Goto(r, "verified")
    BY <1>3 DEF FillVer, FillVerified, At
  <2>2. "VP" \in everVp[h[r].tok]
    BY <2>1 DEF HandlersBound, Binds, Knowing
  <2> QED BY <1>s, <2>1, <2>2, VerifiedStep
<1>4. CASE FetchVer(r)
  <2>1. h[r].pc = "fetchVer" /\ (Goto(r, "fillVer") \/ Goto(r, "verify"))
    BY <1>4 DEF FetchVer, At
  <2> QED BY <1>s, <1>t, <2>1, QuietGoto
<1>5. CASE Verify(r)
  <2>1. h[r].pc = "verify" /\ (Goto(r, "fillVerified") \/ h' = [h EXCEPT ![r] = Idle])
    BY <1>5 DEF Verify, At, Become
  <2> QED BY <1>s, <1>t, <2>1, FinishStep, QuietGoto
<1>6. CASE Respond(r) \/ Fail(r)
  BY <1>6, <1>s, <1>t, FinishStep DEF Respond, Fail, Become
<1> QED BY <1>1, <1>2, <1>3, <1>4, <1>5, <1>6

(* A restart ends every request; time and the TTLs do not touch a session  *)
(* otherwise than by its lapse.                                            *)
LEMMA SurroundingStep ==
  ASSUME Base, [Next]_vars, Restart \/ Expiry \/ UNCHANGED vars
  PROVE  BookStep
<1>1. CASE Restart
  <2>1. SessionsStill
    BY <1>1, LapsedStays DEF Restart, SessionsStill, tokenVars
  <2>2. serving' = [r \in Req |-> Sessions!Nothing]
    <3>1. \A r \in Req : h'[r] = Idle
      BY <1>1 DEF Restart
    <3>2. serving' = [r \in Req |-> Serves(h'[r])]
      BY DEF serving
    <3> QED BY <3>1, <3>2, NothingIsFree
  <2>3. Sessions!FinishAll
    BY <2>1, <2>2 DEF Sessions!FinishAll, Sessions!Quiet, SessionsStill
  <2> QED BY <2>3 DEF BookStep, Sessions!BookNext
<1>2. CASE Expiry \/ UNCHANGED vars
  <2>1. UNCHANGED <<owner, everVp, delivered, brought, revoked, h>>
    BY <1>2 DEF Expiry, ExpireVp, ExpireVer, EvictLocal, Tick, tokenVars, sessionVars, vars
  <2>2. serving' = serving
    BY <2>1 DEF serving
  <2>3. lapsed \subseteq lapsed'
    <3>1. \A t \in Token : Signed(t) /\ Expired(t) => Expired(t)'
      BY LastingStep
    <3>2. \A t \in Token : Signed(t)' <=> Signed(t)
      BY <2>1 DEF Signed
    <3> QED BY <3>1, <3>2 DEF lapsed
  <2>4. \A t \in lapsed' : owner[t] # None
    BY <2>1 DEF lapsed, Signed
  <2>5. Sessions!Lapse
    BY <2>1, <2>2, <2>3, <2>4 DEF Sessions!Lapse
  <2> QED BY <2>5 DEF BookStep, Sessions!BookNext
<1> QED BY <1>1, <1>2

(* A client brings a token: a session nobody handed out.                   *)
LEMMA BringStep ==
  ASSUME Base, NEW t \in Token, NEW w \in Wallet, BringToken(t, w)
  PROVE  BookStep
<1>1. serving' = serving
  BY DEF BringToken, serving
<1>2. lapsed' = lapsed
  <2>1. ASSUME NEW u \in Token PROVE (Signed(u) /\ Expired(u))' <=> Signed(u) /\ Expired(u)
    <3>1. CASE u = t
      <4>1. until'[u] \in Nat /\ until'[u] >= now + 1 /\ now' = now /\ now \in Nat
        BY <3>1, BoundAssumption DEF BringToken, Base, TypeOK
      <4> QED BY <3>1, <4>1 DEF BringToken, Signed, Expired
    <3>2. CASE u # t
      BY <3>2 DEF BringToken, Base, TypeOK, Signed, Expired
    <3> QED BY <3>1, <3>2
  <2> QED BY <2>1 DEF lapsed
<1>3. Sessions!Bring(t, w)
  BY <1>1, <1>2 DEF BringToken, Sessions!Bring, Signed, Deliver, sessionVars
<1> QED BY <1>3 DEF BookStep, Sessions!BookNext

(* When no two tokens of a wallet share a second, the gateway is a         *)
(* SessionBook: for any wallets, tokens and requests, whatever is cached,  *)
(* expires, fails or restarts, a session is bound before it is handed out  *)
(* and never after, only a logout with it or a logout-all of the wallet its*)
(* presentation names ends it and nothing revives it unless its client     *)
(* made it, no guarded request begins with an ended session or is taken for*)
(* verified without a presentation that verifies, and a logout-all that has*)
(* answered leaves no session whose presentation names its wallet          *)
(* (AuthController, AuthService, TokenService, SpringAuthGuard).           *)
THEOREM AuthSessionIsSessionBook ==
  ASSUME ~SameSecond
  PROVE  Spec => ImplementsSessions
<1> DEFINE Inv == /\ IInv /\ Fresh /\ Traced /\ Owing
                  /\ HandlersBound /\ CachesBound /\ Assigned
<1>1. Init => Inv /\ Sessions!BookInit
  <2> SUFFICES ASSUME Init PROVE Inv /\ Sessions!BookInit
    OBVIOUS
  <2>1. IInv /\ \A r \in Req : h[r] = Idle
    BY InitIInv DEF Init
  <2>2. /\ Idle.pc = "idle" /\ Idle.owed = {} /\ ~Unstored(Idle)
        /\ "idle" \notin Completing /\ "idle" \notin Holding /\ "idle" \notin Knowing
    BY DEF Idle, Completing, Unstored, Holding, Knowing
  <2>3. Fresh /\ Traced /\ Owing
    BY <2>1, <2>2 DEF Init, Fresh, Traced, Owing, Owes
  <2>4. HandlersBound /\ CachesBound
    BY <2>1, <2>2, SlotFacts DEF Init, HandlersBound, Binds, CachesBound
  <2>5. Assigned
    BY <2>1, IdleDuty DEF Assigned
  <2>6. serving = [r \in Req |-> Sessions!Nothing]
    BY <2>1, NothingIsFree DEF serving
  <2>7. lapsed = {}
    BY DEF Init, lapsed, Signed
  <2>8. Sessions!BookInit
    BY <2>6, <2>7 DEF Init, Sessions!BookInit
  <2> QED BY <2>1, <2>3, <2>4, <2>5, <2>8
<1>2. Inv /\ [Next]_vars => Inv'
  BY StepIInv, FreshStep, TracedStep, OwingStep, DutyStep, HandlersBoundStep, CachesBoundStep
  DEF IInv
<1>3. Inv /\ [Next]_vars => [Sessions!BookNext]_(Sessions!bookVars)
  <2> SUFFICES ASSUME Inv, [Next]_vars PROVE BookStep
    BY DEF BookStep
  <2>1. Base /\ IssuedBefore
    BY DEF IInv
  <2>2. ASSUME NEW r \in Req, Login(r) \/ RefreshSession(r) PROVE BookStep
    BY <2>1, <2>2, BeginStep, SignStep DEF Login, RefreshSession
  <2>3. ASSUME NEW r \in Req, CompleteSession(r) PROVE BookStep
    BY <2>1, <2>3, GiveStep
  <2>4. ASSUME NEW r \in Req, EndSession(r) PROVE BookStep
    BY <2>1, <2>4, BeginStep, EndStep DEF EndSession
  <2>5. ASSUME NEW r \in Req, UseSession(r) \/ Fail(r) PROVE BookStep
    BY <2>1, <2>5, BeginStep, GuardStep DEF UseSession
  <2>6. Restart \/ Expiry \/ UNCHANGED vars => BookStep
    BY <2>1, SurroundingStep
  <2>7. ASSUME NEW t \in Token, NEW w \in Wallet, BringToken(t, w) PROVE BookStep
    BY <2>1, <2>7, BringStep
  <2> QED BY <2>2, <2>3, <2>4, <2>5, <2>6, <2>7 DEF Next
<1> HIDE DEF Inv
<1> QED BY <1>1, <1>2, <1>3, PTL DEF Spec, ImplementsSessions, Sessions!BookSpec

---------------------------------------------------------------------------
(* LoginChallenge, the part of a login before it is a handler of           *)
(* AuthSession: for any number of wallets, challenges and requests and any *)
(* TTL, no step of one request brings back a challenge another has used or *)
(* replaced.                                                               *)

(* What is stored is the newest challenge of its wallet and unused; what a *)
(* request is about to consume was issued to the wallet it deletes it of,  *)
(* so that no other wallet's challenge is consumed with it.                *)
StoredIsFresh == \A w \in Address : stored[w] # Null =>
                   /\ stored[w] = latest[w] /\ issuedTo[stored[w]] = w
                   /\ stored[w] \notin consumed
UsedWasIssued == \A c \in consumed : issuedTo[c] # Null
TriedWasIssued == \A r \in LoginRequest : login[r].pc = "del" =>
                    /\ login[r].wallet \in Address /\ login[r].challenge \in Challenge
                    /\ issuedTo[login[r].challenge] = login[r].wallet
ChallengeInv == ChallengeTypeOK /\ StoredIsFresh /\ UsedWasIssued /\ TriedWasIssued

LEMMA ChallengeBegins == ChallengeInit => ChallengeInv
BY DEF ChallengeInit, NoLogin, LoginHandler, ChallengeTypeOK, ChallengeInv,
   StoredIsFresh, UsedWasIssued, TriedWasIssued

LEMMA NoLoginIsHandler == NoLogin \in LoginHandler /\ NoLogin.pc = "idle"
BY DEF NoLogin, LoginHandler

LEMMA ChallengeStep ==
  ChallengeInv /\ [ChallengeNext]_challengeVars => ChallengeInv'
<1> SUFFICES ASSUME ChallengeInv, [ChallengeNext]_challengeVars PROVE ChallengeInv'
  OBVIOUS
<1> USE DEF ChallengeInv
<1>t. /\ time \in Nat /\ stored \in [Address -> Challenge \cup {Null}]
      /\ expiry \in [Address -> Nat] /\ issuedTo \in [Challenge -> Address \cup {Null}]
      /\ latest \in [Address -> Challenge \cup {Null}] /\ consumed \subseteq Challenge
      /\ login \in [LoginRequest -> LoginHandler]
  BY DEF ChallengeTypeOK
<1>n. Null \notin Address /\ Null \notin Challenge
  BY NullAssumption
<1>1. ASSUME NEW w \in Address, NEW c \in Challenge, CreateChallenge(w, c)
      PROVE  ChallengeInv'
  <2>1. /\ issuedTo[c] = Null /\ issuedTo' = [issuedTo EXCEPT ![c] = w]
        /\ stored' = [stored EXCEPT ![w] = c] /\ latest' = [latest EXCEPT ![w] = c]
        /\ expiry' = [expiry EXCEPT ![w] = time + ChallengeTtl]
        /\ UNCHANGED <<time, consumed, login>>
    BY <1>1 DEF CreateChallenge
  <2>2. c \notin consumed
    BY <2>1 DEF UsedWasIssued
  <2>3. StoredIsFresh'
    <3> SUFFICES ASSUME NEW v \in Address, stored'[v] # Null
                 PROVE  /\ stored'[v] = latest'[v] /\ issuedTo'[stored'[v]] = v
                        /\ stored'[v] \notin consumed
      BY <2>1 DEF StoredIsFresh
    <3>1. CASE v = w
      BY <1>t, <2>1, <2>2, <3>1
    <3>2. CASE v # w
      BY <1>t, <2>1, <3>2, <1>n DEF StoredIsFresh
    <3> QED BY <3>1, <3>2
  <2>4. UsedWasIssued'
    BY <1>t, <1>n, <2>1 DEF UsedWasIssued
  <2>5. TriedWasIssued'
    BY <1>t, <1>n, <2>1 DEF TriedWasIssued
  <2>6. time + ChallengeTtl \in Nat
    BY <1>t, ChallengeTtlAssumption
  <2>7. ChallengeTypeOK'
    BY <1>t, <2>1, <2>6 DEF ChallengeTypeOK
  <2> QED BY <2>3, <2>4, <2>5, <2>7
<1>2. ASSUME NEW r \in LoginRequest, NEW w \in Address, NEW c \in Challenge,
             PresentChallenge(r, w, c)
      PROVE  ChallengeInv'
  <2>1. /\ login' = [login EXCEPT ![r] = [pc |-> "del", wallet |-> w, challenge |-> c]]
        /\ UNCHANGED <<time, stored, expiry, issuedTo, latest, consumed>>
    BY <1>2 DEF PresentChallenge
  <2>2. stored[w] = c
    BY <1>2, <1>n DEF PresentChallenge, Get
  <2>3. issuedTo[c] = w
    BY <2>2, <1>n DEF StoredIsFresh
  <2>4. TriedWasIssued'
    BY <1>t, <2>1, <2>3 DEF TriedWasIssued
  <2>5. [pc |-> "del", wallet |-> w, challenge |-> c] \in LoginHandler
    BY DEF LoginHandler
  <2>6. ChallengeTypeOK'
    BY <1>t, <2>1, <2>5 DEF ChallengeTypeOK
  <2> QED BY <2>1, <2>4, <2>6 DEF StoredIsFresh, UsedWasIssued
<1>3. ASSUME NEW r \in LoginRequest, ConsumeChallenge(r) PROVE ChallengeInv'
  <2> DEFINE w == login[r].wallet
             c == login[r].challenge
  <2>1. /\ stored' = [stored EXCEPT ![w] = Null] /\ consumed' = consumed \cup {c}
        /\ login' = [login EXCEPT ![r] = NoLogin]
        /\ UNCHANGED <<time, expiry, issuedTo, latest>>
    BY <1>3 DEF ConsumeChallenge
  <2>2. w \in Address /\ c \in Challenge /\ issuedTo[c] = w
    BY <1>3 DEF ConsumeChallenge, TriedWasIssued
  <2> HIDE DEF w, c
  <2>3. StoredIsFresh'
    <3> SUFFICES ASSUME NEW v \in Address, stored'[v] # Null
                 PROVE  /\ stored'[v] = latest'[v] /\ issuedTo'[stored'[v]] = v
                        /\ stored'[v] \notin consumed'
      BY DEF StoredIsFresh
    <3>1. v # w /\ stored'[v] = stored[v]
      BY <1>t, <2>1, <2>2
    <3>2. stored[v] = latest[v] /\ issuedTo[stored[v]] = v /\ stored[v] \notin consumed
      BY <3>1 DEF StoredIsFresh
    <3>3. stored[v] # c
      BY <3>1, <3>2, <2>2
    <3> QED BY <2>1, <3>1, <3>2, <3>3
  <2>4. UsedWasIssued'
    BY <2>1, <2>2, <1>n DEF UsedWasIssued
  <2>5. TriedWasIssued'
    BY <1>t, <2>1, NoLoginIsHandler DEF TriedWasIssued
  <2>6. ChallengeTypeOK'
    BY <1>t, <2>1, <2>2, NoLoginIsHandler DEF ChallengeTypeOK
  <2> QED BY <2>3, <2>4, <2>5, <2>6
<1>4. ASSUME NEW r \in LoginRequest, RefuseLogin(r) PROVE ChallengeInv'
  <2>1. /\ login' = [login EXCEPT ![r] = NoLogin]
        /\ UNCHANGED <<time, stored, expiry, issuedTo, latest, consumed>>
    BY <1>4 DEF RefuseLogin
  <2>2. TriedWasIssued' /\ ChallengeTypeOK'
    BY <1>t, <2>1, NoLoginIsHandler DEF TriedWasIssued, ChallengeTypeOK
  <2> QED BY <2>1, <2>2 DEF StoredIsFresh, UsedWasIssued
<1>5. CASE TimePasses
  BY <1>5, <1>t DEF TimePasses, ChallengeTypeOK, StoredIsFresh, UsedWasIssued, TriedWasIssued
<1>6. CASE UNCHANGED challengeVars
  BY <1>6, <1>t DEF challengeVars, ChallengeTypeOK, StoredIsFresh, UsedWasIssued, TriedWasIssued
<1> QED BY <1>1, <1>2, <1>3, <1>4, <1>5, <1>6 DEF ChallengeNext

LEMMA ChallengeInductive == ChallengeSpec => []ChallengeInv
BY ChallengeBegins, ChallengeStep, PTL DEF ChallengeSpec

(* What the requests, Redis and its history hold has its type. *)
THEOREM ChallengeTypes == ChallengeSpec => []ChallengeTypeOK
<1>1. ChallengeInv => ChallengeTypeOK
  BY DEF ChallengeInv
<1> QED BY <1>1, ChallengeInductive, PTL

(* A login only ever begins with the newest challenge of its wallet, and   *)
(* one no login was accepted with.                                         *)
THEOREM ChallengesAreFresh ==
  ChallengeSpec => OnlyFreshChallengeIsTried
<1> DEFINE Tried == \A r \in LoginRequest : login[r].pc = "idle" /\ login'[r].pc = "del" =>
                      /\ login'[r].challenge = latest[login'[r].wallet]
                      /\ login'[r].challenge \notin consumed
<1>1. ChallengeInv /\ [ChallengeNext]_challengeVars => [Tried]_challengeVars
  <2> SUFFICES ASSUME ChallengeInv, ChallengeNext, NEW r \in LoginRequest,
                      login[r].pc = "idle", login'[r].pc = "del"
               PROVE  /\ login'[r].challenge = latest[login'[r].wallet]
                      /\ login'[r].challenge \notin consumed
    OBVIOUS
  <2>t. login \in [LoginRequest -> LoginHandler] /\ Null \notin Challenge
    BY NullAssumption DEF ChallengeInv, ChallengeTypeOK
  <2>1. PICK w \in Address, c \in Challenge : PresentChallenge(r, w, c)
    BY <2>t, NoLoginIsHandler DEF ChallengeNext, CreateChallenge, PresentChallenge,
       ConsumeChallenge, RefuseLogin, TimePasses
  <2>2. login'[r].wallet = w /\ login'[r].challenge = c
    BY <2>1, <2>t DEF PresentChallenge
  <2>3. stored[w] = c
    BY <2>1, <2>t DEF PresentChallenge, Get
  <2> QED BY <2>2, <2>3, <2>t DEF ChallengeInv, StoredIsFresh
<1> QED BY <1>1, ChallengeInductive, PTL DEF ChallengeSpec, OnlyFreshChallengeIsTried

============================================================================
