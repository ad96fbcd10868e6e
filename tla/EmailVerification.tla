------------------------- MODULE EmailVerification -------------------------
(***************************************************************************)
(* The e-mail code of one wallet: EmailService keeps the newest code with  *)
(* its count of wrong guesses under email_verify:{wallet}, EmailProcessor  *)
(* mails it, and EmailController registers the account at the VC service   *)
(* once the code is right.  GET, TTL, SETEX and DEL are separate round     *)
(* trips to Redis.  Wallets share nothing, so there is one.                *)
(***************************************************************************)
EXTENDS JobQueue

CONSTANTS
  EmailRequest,  \* requests being served at the same time
  None,
  CodeTtl,       \* TTL of a code, in clock ticks (600 s)
  MaxNow,        \* bound: the clock stops here
  MaxSends,      \* bound: codes sent
  MaxWrong       \* bound: wrong guesses counted for one code

ASSUME NoneAssumption == None \notin [send : Nat, attempts : Nat]
ASSUME TtlAssumption == CodeTtl \in Nat \ {0}
ASSUME EmailBounds == MaxNow \in Nat /\ MaxSends \in Nat /\ MaxWrong \in Nat

Send == 1..MaxSends   \* the codes, numbered in the order they are drawn

VARIABLES
  now,         \* clock
  stored,      \* email_verify:{wallet}: [send, attempts], or None
  expiry,      \* when the key expires
  sent,        \* number of codes drawn
  mailJob,     \* send-verification job of each code
  mailed,      \* codes the user has received
  email,       \* requests
  wrong,       \* history: wrong guesses at each code that were counted
  used,        \* history: codes accepted and deleted
  registered   \* VC service: the wallet has an account

redisVars == <<stored, expiry>>
mailVars  == <<mailJob, mailed>>
pastVars  == <<wrong, used>>
emailVars == <<now, stored, expiry, sent, mailJob, mailed, email, wrong, used, registered>>

(* data is what a request has read and will write back, ttl the rest of    *)
(* the life it read.                                                       *)
Pc == {"idle", "enqueue", "drop", "ttl", "write", "del", "registerAuth"}
Entry == [send : Send, attempts : 0..3]
Handler == [pc : Pc, data : Entry \cup {None}, ttl : 0..CodeTtl]
Idle == [pc |-> "idle", data |-> None, ttl |-> 0]

Live == stored # None /\ now < expiry

EmailInit ==
  /\ now = 0 /\ stored = None /\ expiry = 0
  /\ sent = 0
  /\ mailJob = [n \in Send |-> NoJob] /\ mailed = {}
  /\ email = [r \in EmailRequest |-> Idle]
  /\ wrong = [n \in Send |-> 0] /\ used = {}
  /\ registered = FALSE

---------------------------------------------------------------------------
(* POST send-code: a fresh code over whatever is stored, then the mail.    *)
SendCode(r) ==
  /\ email[r].pc = "idle" /\ sent < MaxSends
  /\ sent' = sent + 1
  /\ stored' = [send |-> sent', attempts |-> 0]
  /\ expiry' = now + CodeTtl
  /\ email' = [email EXCEPT ![r] = [Idle EXCEPT !.pc = "enqueue", !.data = stored']]
  /\ UNCHANGED <<now, mailVars, pastVars, registered>>

QueueMail(r) ==
  /\ email[r].pc = "enqueue"
  /\ mailJob' = [mailJob EXCEPT ![email[r].data.send] = Queued]
  /\ email' = [email EXCEPT ![r] = Idle]
  /\ UNCHANGED <<now, redisVars, sent, mailed, pastVars, registered>>

(* The mail server takes the mail, or an error makes Bull try again.       *)
SendMail(n) ==
  /\ \/ /\ Waiting(mailJob[n])
        /\ mailJob' = [mailJob EXCEPT ![n] = Started(@, "smtp")]
        /\ UNCHANGED mailed
     \/ /\ StandsAt(mailJob[n], "smtp")
        /\ mailJob' = [mailJob EXCEPT ![n] = Completed(@)]
        /\ mailed' = mailed \cup {n}
     \/ /\ StandsAt(mailJob[n], "smtp")
        /\ mailJob' = [mailJob EXCEPT ![n] = Thrown(@)]
        /\ mailed' \in {mailed, mailed \cup {n}}
  /\ UNCHANGED <<now, redisVars, sent, email, pastVars, registered>>

---------------------------------------------------------------------------
(* POST verify-code.  GET returns the entry; the guess is a code from a    *)
(* mail, or 0 for any other string.                                        *)

(* Mutant: the third guess is not allowed. *)
CheckCode_Two(r, guess) ==
  /\ email[r].pc = "idle" /\ Live
  /\ email' = [email EXCEPT ![r] =
       IF stored.attempts >= 2 THEN [Idle EXCEPT !.pc = "drop", !.data = stored]
       ELSE IF guess # stored.send
         THEN [Idle EXCEPT !.pc = "ttl",
                 !.data = [stored EXCEPT !.attempts = stored.attempts + 1]]
       ELSE [Idle EXCEPT !.pc = "del", !.data = stored]]
  /\ UNCHANGED <<now, redisVars, sent, mailVars, pastVars, registered>>

CheckCode(r, guess) ==
  /\ email[r].pc = "idle" /\ Live
  /\ email' = [email EXCEPT ![r] =
       IF stored.attempts >= 3 THEN [Idle EXCEPT !.pc = "drop", !.data = stored]
       ELSE IF guess # stored.send
         THEN [Idle EXCEPT !.pc = "ttl",
                 !.data = [stored EXCEPT !.attempts = stored.attempts + 1]]
       ELSE [Idle EXCEPT !.pc = "del", !.data = stored]]
  /\ UNCHANGED <<now, redisVars, sent, mailVars, pastVars, registered>>

DropCode(r) ==
  /\ email[r].pc = "drop"
  /\ stored' = None
  /\ email' = [email EXCEPT ![r] = Idle]
  /\ UNCHANGED <<now, expiry, sent, mailVars, pastVars, registered>>

(* Mutant: a key that is gone is not thought of. *)
ReadTtl_Raw(r) ==
  /\ email[r].pc = "ttl"
  /\ email' = [email EXCEPT ![r].pc = "write", ![r].ttl = expiry - now]
  /\ UNCHANGED <<now, redisVars, sent, mailVars, pastVars, registered>>

(* TTL is -2 when the key is gone: the entry then gets a full life. *)
ReadTtl(r) ==
  /\ email[r].pc = "ttl"
  /\ email' = [email EXCEPT ![r].pc = "write",
                            ![r].ttl = IF Live THEN expiry - now ELSE CodeTtl]
  /\ UNCHANGED <<now, redisVars, sent, mailVars, pastVars, registered>>

WriteAttempts(r) ==
  /\ email[r].pc = "write" /\ wrong[email[r].data.send] < MaxWrong
  /\ stored' = email[r].data
  /\ expiry' = now + email[r].ttl
  /\ wrong' = [wrong EXCEPT ![email[r].data.send] = @ + 1]
  /\ email' = [email EXCEPT ![r] = Idle]
  /\ UNCHANGED <<now, sent, mailVars, used, registered>>

(* Mutant: the code is left to expire. *)
DeleteCode_Kept(r) ==
  /\ email[r].pc = "del"
  /\ used' = used \cup {email[r].data.send}
  /\ email' = [email EXCEPT ![r].pc = "registerAuth"]
  /\ UNCHANGED <<now, redisVars, sent, mailVars, wrong, registered>>

DeleteCode(r) ==
  /\ email[r].pc = "del"
  /\ stored' = None
  /\ used' = used \cup {email[r].data.send}
  /\ email' = [email EXCEPT ![r].pc = "registerAuth"]
  /\ UNCHANGED <<now, expiry, sent, mailVars, wrong, registered>>

(* An exception of registerAuth is caught and its answer not looked at:    *)
(* the request answers success.                                            *)
RegisterAuth(r) ==
  /\ email[r].pc = "registerAuth"
  /\ registered' \in {registered, TRUE}
  /\ email' = [email EXCEPT ![r] = Idle]
  /\ UNCHANGED <<now, redisVars, sent, mailVars, wrong, used>>

---------------------------------------------------------------------------
(* Redis fails: the request ends with an error.                            *)
RequestFails(r) ==
  /\ email[r].pc \notin {"idle", "registerAuth"}
  /\ email' = [email EXCEPT ![r] = Idle]
  /\ UNCHANGED <<now, redisVars, sent, mailVars, pastVars, registered>>

EmailRestart ==
  /\ email' = [r \in EmailRequest |-> Idle]
  /\ mailJob' = [n \in Send |-> Stalled(mailJob[n])]
  /\ UNCHANGED <<now, redisVars, sent, mailed, pastVars, registered>>

Tick ==
  /\ now < MaxNow
  /\ now' = now + 1
  /\ UNCHANGED <<redisVars, sent, mailVars, email, pastVars, registered>>

VerifyCode(r) ==
  \/ \E guess \in mailed \cup {0} : CheckCode(r, guess)
  \/ DropCode(r) \/ ReadTtl(r) \/ WriteAttempts(r) \/ DeleteCode(r)
  \/ RegisterAuth(r)

EmailNext ==
  \/ \E r \in EmailRequest : \/ SendCode(r) \/ QueueMail(r)
                             \/ VerifyCode(r) \/ RequestFails(r)
  \/ \E n \in Send : SendMail(n)
  \/ EmailRestart \/ Tick

EmailSpec == EmailInit /\ [][EmailNext]_emailVars

---------------------------------------------------------------------------
(* Type invariant. *)
EmailTypeOK ==
  /\ now \in Nat /\ expiry \in Nat /\ sent \in 0..MaxSends
  /\ stored \in Entry \cup {None}
  /\ mailJob \in [Send -> Job({"smtp"})] /\ mailed \subseteq Send
  /\ email \in [EmailRequest -> Handler]
  /\ wrong \in [Send -> 0..MaxWrong] /\ used \subseteq Send
  /\ registered \in BOOLEAN

(* However requests interleave, each attempt an entry counts is a wrong    *)
(* guess at its code, and a user is told that the attempts are used up     *)
(* only after three of them (email.service.ts:100).                        *)
AttemptsAreGuesses ==
  /\ Live => stored.attempts <= wrong[stored.send]
  /\ \A r \in EmailRequest : email[r].pc = "drop" => wrong[email[r].data.send] >= 3

(* A code that was replaced by a newer one, or accepted, is deleted.  Only *)
(* the write of a wrong guess that had read it before can bring it back,   *)
(* and then it is back with that guess counted (email.service.ts:114).     *)
ReturnedCodeIsCounted ==
  Live /\ (stored.send # sent \/ stored.send \in used) => stored.attempts > 0

(* email.controller.ts:129, "Maximum 3 verification attempts before code   *)
(* is invalidated".                                                        *)
MaxThreeAttempts == \A n \in Send : wrong[n] <= 3
=============================================================================
