--------------------------- MODULE MCAuthSession ---------------------------
(* TLC instances of AuthSession: the values of the constants are in the    *)
(* .cfg files; tokens and requests are interchangeable.                    *)
EXTENDS AuthSession, TLC

Symmetry == Permutations(Token) \cup Permutations(Req)

(* Bounds.  One wallet logs in, and no login is followed that MaxRefresh   *)
(* would leave without a refresh token; only one session at a time has a   *)
(* VP, which names some wallet; and a client of another wallet brings one  *)
(* token that lives as long as a token may.  A request to a DIDAuthGuard   *)
(* route, which reads and writes nothing, is served alone.                 *)
User == CHOOSE w \in Wallet : TRUE
Unsigned == {r \in Req : h[r].op = "login" /\ h[r].rt = 0}
LoginsSign == /\ \A r \in Unsigned : h[r].wallet = User
              /\ signed[User] + Cardinality(Unsigned) <= MaxRefresh
OneVpSession == /\ Cardinality({t \in Token : everVp[t] # {}}) <= 1
                /\ \A r \in Req : h[r].vp # None
OneBrought == \A t \in brought :
  brought = {t} /\ until[t] = MaxExpiry /\ owner[t] # User
DidAlone == \A r, q \in Req : h[r].op = "did" => q = r \/ h[q] = Idle
=============================================================================
