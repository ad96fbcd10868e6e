---------------------------- MODULE SessionBook ----------------------------
(***************************************************************************)
(* What the sessions of the gateway promise, without the keys, the caches  *)
(* and the round trips behind them.  A session is bound to a presentation  *)
(* before its client gets it, and to no other one later.  It ends by a     *)
(* logout with it or by a logout-all of the wallet its presentation names, *)
(* and nothing revives it, except a session its client brought.  A request *)
(* is served with a session that has not ended when the request comes, and *)
(* is taken for verified only when the session is bound to a presentation  *)
(* that verifies.  When a logout-all is answered, every session with a     *)
(* presentation of the wallet is over.                                     *)
(***************************************************************************)
CONSTANTS Wallet, Session, Request, None

VARIABLES
  holder,   \* the wallet of each session, None until it is signed
  bound,    \* the presentations each session is bound to
  handed,   \* sessions their clients have
  brought,  \* those of them that their clients made
  ended,    \* sessions a logout has ended
  lapsed,   \* sessions whose time is over
  serving   \* what the gateway does for each request: the kind of the
            \* request, the session or, for a logout-all, the wallet it is
            \* for, the sessions a logout-all has to end, and whether the
            \* request has been taken for verified or the logout carried out

bookVars == <<holder, bound, handed, brought, ended, lapsed, serving>>

(* A presentation that verifies names the holder of its session; one that  *)
(* does not is told by the wallet it names, None when it names none.       *)
Presentation == {"VP"} \cup Wallet \cup {None}
Speaks(s, w) == \E v \in bound[s] : v = w \/ (v = "VP" /\ holder[s] = w)
Job(kind, for, owed) == [kind |-> kind, for |-> for, owed |-> owed, stage |-> "open"]
Nothing == Job("none", None, {})

BookInit ==
  /\ holder = [s \in Session |-> None]
  /\ bound = [s \in Session |-> {}]
  /\ handed = {} /\ brought = {} /\ ended = {} /\ lapsed = {}
  /\ serving = [r \in Request |-> Nothing]

Usable(s) == s \in handed /\ s \notin lapsed

---------------------------------------------------------------------------
(* The life of a session.  Several may lapse at once.                      *)
Sign(s, w) ==
  /\ holder[s] = None
  /\ holder' = [holder EXCEPT ![s] = w]
  /\ UNCHANGED <<bound, handed, brought, ended, lapsed, serving>>

Bind(s, v) ==
  /\ holder[s] # None /\ s \notin handed
  /\ bound' = [bound EXCEPT ![s] = @ \cup {v}]
  /\ UNCHANGED <<holder, handed, brought, ended, lapsed, serving>>

HandOut(s) ==
  /\ holder[s] # None
  /\ handed' = handed \cup {s}
  /\ UNCHANGED <<holder, bound, brought, ended, lapsed, serving>>

Bring(s, w) ==
  /\ holder[s] = None
  /\ holder' = [holder EXCEPT ![s] = w]
  /\ handed' = handed \cup {s} /\ brought' = brought \cup {s}
  /\ UNCHANGED <<bound, ended, lapsed, serving>>

Lapse ==
  /\ UNCHANGED <<holder, bound, handed, brought, ended, serving>>
  /\ lapsed \subseteq lapsed' /\ \A s \in lapsed' : holder[s] # None

---------------------------------------------------------------------------
Quiet == UNCHANGED <<holder, bound, handed, brought, ended, lapsed>>

(* A request comes with a session: "spring" is a route that looks for      *)
(* revocations, "did" one that does not.                                   *)
Serve(r, job) ==
  /\ serving[r] = Nothing
  /\ serving' = [serving EXCEPT ![r] = job]
  /\ Quiet

Use(r, s) == Usable(s) /\ s \notin ended \ brought /\ Serve(r, Job("spring", s, {}))

UseUnchecked(r, s) ==
  /\ Usable(s)
  /\ Serve(r, Job("did", s, {})) \/ Serve(r, Job("logout", s, {}))

EndAll(r, s) ==
  /\ Usable(s)
  /\ Serve(r, Job("logoutAll", holder[s], handed \ lapsed))

(* What becomes of it. *)
Does(r, kind) == serving[r].kind = kind
Done(r) == serving' = [serving EXCEPT ![r].stage = "done"]

Verify(r) ==
  /\ Does(r, "spring") /\ "VP" \in bound[serving[r].for] /\ Done(r)
  /\ Quiet

EndOwn(r) ==
  /\ Does(r, "logout") /\ ended' = ended \cup {serving[r].for} /\ Done(r)
  /\ UNCHANGED <<holder, bound, handed, brought, lapsed>>

EndOne(r, s) ==
  /\ Does(r, "logoutAll") /\ Speaks(s, serving[r].for)
  /\ ended' = ended \cup {s}
  /\ UNCHANGED <<holder, bound, handed, brought, lapsed, serving>>

AllEnded(r) ==
  /\ Does(r, "logoutAll") /\ Done(r)
  /\ \A s \in serving[r].owed :
       Speaks(s, serving[r].for) => s \in ended \cup lapsed
  /\ Quiet

Finish(r) ==
  /\ serving' = [serving EXCEPT ![r] = Nothing]
  /\ Quiet

FinishAll ==
  /\ serving' = [r \in Request |-> Nothing]
  /\ Quiet

---------------------------------------------------------------------------
BookNext ==
  \/ Lapse
  \/ \E r \in Request : Finish(r)
  \/ FinishAll
  \/ \E r \in Request, s \in Session : Use(r, s) \/ UseUnchecked(r, s) \/ EndAll(r, s)
  \/ \E r \in Request : Verify(r) \/ EndOwn(r) \/ AllEnded(r)
  \/ \E r \in Request, s \in Session : EndOne(r, s)
  \/ \E s \in Session, w \in Wallet : Sign(s, w) \/ Bring(s, w)
  \/ \E s \in Session, v \in Presentation : Bind(s, v)
  \/ \E s \in Session : HandOut(s)

BookSpec == BookInit /\ [][BookNext]_bookVars
============================================================================
