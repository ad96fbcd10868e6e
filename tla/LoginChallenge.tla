--------------------------- MODULE LoginChallenge ---------------------------
(***************************************************************************)
(* The login challenge of AuthService: createChallenge keeps the newest    *)
(* challenge of a wallet under challenge:{wallet} for ChallengeTtl ticks,  *)
(* verifySignature reads it, checks the signature and deletes the key.     *)
(* The read and the deletion are two round trips to Redis, and any number  *)
(* of requests of a wallet are served at once.                             *)
(***************************************************************************)
EXTENDS Naturals

CONSTANTS
  Address,       \* wallet addresses
  Challenge,     \* the strings createChallenge generates, all different
  LoginRequest,  \* login requests being served at the same time
  Null,          \* nothing: no key, no request
  ChallengeTtl,  \* TTL of challenge:{wallet}, in clock ticks (300 s)
  MaxTime        \* bound: the clock stops here

ASSUME NullAssumption == Null \notin Address \cup Challenge
ASSUME ChallengeTtlAssumption == ChallengeTtl \in Nat \ {0}
ASSUME TimeAssumption == MaxTime \in Nat

VARIABLES
  time,      \* clock
  stored,    \* challenge:{wallet}, Null when the key does not exist
  expiry,    \* when the key expires
  issuedTo,  \* history: the wallet each challenge was created for
  latest,    \* history: the newest challenge of each wallet
  consumed,  \* history: challenges a login was accepted with
  login      \* the login requests

challengeVars == <<time, stored, expiry, issuedTo, latest, consumed, login>>

LoginHandler == [pc : {"idle", "del"}, wallet : Address \cup {Null},
                 challenge : Challenge \cup {Null}]
NoLogin == [pc |-> "idle", wallet |-> Null, challenge |-> Null]

(* What GET challenge:{wallet} returns. *)
Get(w) == IF time < expiry[w] THEN stored[w] ELSE Null

ChallengeInit ==
  /\ time = 0
  /\ stored = [w \in Address |-> Null]
  /\ expiry = [w \in Address |-> 0]
  /\ issuedTo = [c \in Challenge |-> Null]
  /\ latest = [w \in Address |-> Null]
  /\ consumed = {}
  /\ login = [r \in LoginRequest |-> NoLogin]

(* createChallenge: a fresh nonce, stored over whatever was there. *)
CreateChallenge(w, c) ==
  /\ issuedTo[c] = Null
  /\ issuedTo' = [issuedTo EXCEPT ![c] = w]
  /\ stored' = [stored EXCEPT ![w] = c]
  /\ expiry' = [expiry EXCEPT ![w] = time + ChallengeTtl]
  /\ latest' = [latest EXCEPT ![w] = c]
  /\ UNCHANGED <<time, consumed, login>>

(* verifySignature up to the await on DEL: the challenge presented is the  *)
(* one stored and the wallet has signed it.  A challenge or a signature    *)
(* that does not match changes nothing.                                    *)
PresentChallenge(r, w, c) ==
  /\ login[r].pc = "idle"
  /\ issuedTo[c] # Null
  /\ Get(w) = c
  /\ login' = [login EXCEPT ![r] = [pc |-> "del", wallet |-> w, challenge |-> c]]
  /\ UNCHANGED <<time, stored, expiry, issuedTo, latest, consumed>>

(* Mutants: the challenge is not deleted; an empty string is stored.       *)
ConsumeChallenge_Kept(r) ==
  /\ login[r].pc = "del"
  /\ consumed' = consumed \cup {login[r].challenge}
  /\ login' = [login EXCEPT ![r] = NoLogin]
  /\ UNCHANGED <<time, stored, expiry, issuedTo, latest>>
ConsumeChallenge_Emptied(r) ==
  /\ login[r].pc = "del"
  /\ stored' = [stored EXCEPT ![login[r].wallet] = ""]
  /\ consumed' = consumed \cup {login[r].challenge}
  /\ login' = [login EXCEPT ![r] = NoLogin]
  /\ UNCHANGED <<time, expiry, issuedTo, latest>>

(* DEL challenge:{wallet}, after which the login goes on. *)
ConsumeChallenge(r) ==
  /\ login[r].pc = "del"
  /\ stored' = [stored EXCEPT ![login[r].wallet] = Null]
  /\ consumed' = consumed \cup {login[r].challenge}
  /\ login' = [login EXCEPT ![r] = NoLogin]
  /\ UNCHANGED <<time, expiry, issuedTo, latest>>

(* DEL fails, or the process stops before it: the login is refused.        *)
RefuseLogin(r) ==
  /\ login[r].pc = "del"
  /\ login' = [login EXCEPT ![r] = NoLogin]
  /\ UNCHANGED <<time, stored, expiry, issuedTo, latest, consumed>>

TimePasses ==
  /\ time < MaxTime
  /\ time' = time + 1
  /\ UNCHANGED <<stored, expiry, issuedTo, latest, consumed, login>>

ChallengeNext ==
  \/ \E w \in Address, c \in Challenge : CreateChallenge(w, c)
  \/ \E r \in LoginRequest :
       \/ \E w \in Address, c \in Challenge : PresentChallenge(r, w, c)
       \/ ConsumeChallenge(r)
       \/ RefuseLogin(r)
  \/ TimePasses

ChallengeSpec == ChallengeInit /\ [][ChallengeNext]_challengeVars

---------------------------------------------------------------------------
(* Type invariant. *)
ChallengeTypeOK ==
  /\ time \in Nat
  /\ stored \in [Address -> Challenge \cup {Null}]
  /\ expiry \in [Address -> Nat]
  /\ issuedTo \in [Challenge -> Address \cup {Null}]
  /\ latest \in [Address -> Challenge \cup {Null}]
  /\ consumed \subseteq Challenge
  /\ login \in [LoginRequest -> LoginHandler]

(* A request that begins to verify a challenge has the newest one of its   *)
(* wallet, and no login was accepted with it before: neither a challenge   *)
(* that was used nor one that was replaced comes back, whatever requests   *)
(* are half-way through.                                                   *)
OnlyFreshChallengeIsTried ==
  [][\A r \in LoginRequest : login[r].pc = "idle" /\ login'[r].pc = "del" =>
       /\ login'[r].challenge = latest[login'[r].wallet]
       /\ login'[r].challenge \notin consumed]_challengeVars
============================================================================
