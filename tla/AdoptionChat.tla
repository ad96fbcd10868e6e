---------------------------- MODULE AdoptionChat ----------------------------
(***************************************************************************)
(* The chat between a guardian and an adopter, and the record of the       *)
(* transfer they agree on there: the handshake and the events of           *)
(* ChatGateway, the Redis channels between the gateway and Spring, and the *)
(* transfer/init, data, update and cancel routes of PetController, which   *)
(* announce each change of the record in the chat room.                    *)
(*                                                                         *)
(* Redis forgets a message nobody is subscribed for.  The order of         *)
(* messages and copies of a message are left out: nothing here compares    *)
(* them.                                                                   *)
(***************************************************************************)
EXTENDS Naturals

CONSTANTS
  Wallet, Room, Socket,
  Call,      \* joinRoom events; a socket may send several at once
  Msg,       \* chat messages
  Adoption,
  Request,   \* requests to the transfer routes
  Step,      \* what updates report: the route does not look at it
  NoWallet

ASSUME KindAssumption == Msg \cap Adoption = {}   \* told apart by the event's name

VARIABLES
  participant,  \* <<wallet, room>> Spring lets in
  sock,         \* the wallet each connected socket belongs to
  rooms,        \* <<socket, room>>: Socket.io's rooms
  call,         \* the handler of each joinRoom event
  unsent,       \* messages no client has sent yet
  toSpring,     \* the "chat" channel
  stored,       \* messages in Spring's database
  unannounced,  \* messages Spring has stored and not yet re-published
  toGateway,    \* the nestjs:broadcast:{room} channels
  lost,         \* messages published there while nobody listened
  seen,         \* what each socket has been given since it connected
  record,       \* adoption:transfer:{adoption}
  req,          \* the handler of each request
  written       \* every <<adoption, room, status>> ever stored

socketVars == <<sock, rooms, call, seen>>
springVars == <<participant, toSpring, stored, unannounced>>
recordVars == <<record, req, written>>
vars == <<participant, sock, rooms, call, unsent, toSpring, stored,
          unannounced, toGateway, lost, seen, record, req, written>>

Statuses == {"INITIATED"} \cup Step

(* What is broadcast in a room: a message or the news of a transfer.       *)
Sent(m, r) == [what |-> m, status |-> "sent", room |-> r]
News(a, x, r) == [what |-> a, status |-> x, room |-> r]
Item == {Sent(m, r) : m \in Msg, r \in Room}
          \cup {News(a, x, r) : a \in Adoption, x \in Statuses, r \in Room}

(* history: what Spring answered; stayed: the socket has been in the room  *)
(* since this call joined it.                                              *)
Joining == [pc : {"permission", "join", "enter", "answer", "joined"}, socket : Socket,
            room : Room, history : SUBSET Item, stayed : BOOLEAN]
NoCall == [pc |-> "none"]

NoRecord == [status |-> "none"]
Record == [status : Statuses, room : Room]

(* rec: the value the request is about to store, or has stored.            *)
Storing == [pc : {"store", "publish", "emit"}, adoption : Adoption, rec : Record]
NoRequest == [pc |-> "new"]
Answered == [pc |-> "answered"]

Init ==
  /\ participant = {}
  /\ sock = [s \in Socket |-> NoWallet] /\ rooms = {}
  /\ call = [c \in Call |-> NoCall]
  /\ unsent = Msg /\ toSpring = {} /\ stored = {} /\ unannounced = {}
  /\ toGateway = {} /\ lost = {} /\ seen = [s \in Socket |-> {}]
  /\ record = [a \in Adoption |-> NoRecord]
  /\ req = [q \in Request |-> NoRequest] /\ written = {}

---------------------------------------------------------------------------
(* The handshake looks at the block entry, the JWT and the VP as the guard *)
(* of AuthSession does, but lets a session without a VP in; what it        *)
(* decides is left open.                                                   *)
Connect(s, w) ==
  /\ sock[s] = NoWallet
  /\ sock' = [sock EXCEPT ![s] = w]
  /\ UNCHANGED <<rooms, call, unsent, toGateway, lost, seen, springVars, recordVars>>

By(c, s) == call[c].pc # "none" /\ call[c].socket = s

(* Mutant: the socket keeps its rooms. *)
HandleDisconnect_Rooms(s) ==
  /\ sock[s] # NoWallet
  /\ sock' = [sock EXCEPT ![s] = NoWallet]
  /\ call' = [c \in Call |-> IF By(c, s) THEN NoCall ELSE call[c]]
  /\ seen' = [seen EXCEPT ![s] = {}]
  /\ UNCHANGED <<rooms, unsent, toGateway, lost, springVars, recordVars>>

HandleDisconnect(s) ==
  /\ sock[s] # NoWallet
  /\ sock' = [sock EXCEPT ![s] = NoWallet]
  /\ rooms' = {p \in rooms : p[1] # s}
  /\ call' = [c \in Call |-> IF By(c, s) THEN NoCall ELSE call[c]]
  /\ seen' = [seen EXCEPT ![s] = {}]
  /\ UNCHANGED <<unsent, toGateway, lost, springVars, recordVars>>

---------------------------------------------------------------------------
(* joinRoom and leaveRoom. *)

HandleJoinRoom(c, s, r) ==
  /\ call[c].pc = "none" /\ sock[s] # NoWallet
  /\ call' = [call EXCEPT ![c] =
       [pc |-> "permission", socket |-> s, room |-> r, history |-> {}, stayed |-> FALSE]]
  /\ UNCHANGED <<sock, rooms, unsent, toGateway, lost, seen, springVars, recordVars>>

(* Spring is asked; an error counts as a no. *)
CanJoinRoom(c) ==
  /\ call[c].pc = "permission"
  /\ \/ call' = [call EXCEPT ![c] = NoCall]
     \/ /\ <<sock[call[c].socket], call[c].room>> \in participant
        /\ call' = [call EXCEPT ![c].pc = "join"]
  /\ UNCHANGED <<sock, rooms, unsent, toGateway, lost, seen, springVars, recordVars>>

InRoom(r) == {i \in stored : i.room = r}

(* Mutant: the history is read before the room is joined. *)
JoinRoom_HistoryFirst(c) ==
  /\ call[c].pc = "join"
  /\ IF call[c].stayed
       THEN /\ rooms' = rooms \cup {<<call[c].socket, call[c].room>>}
            /\ call' = [call EXCEPT ![c].pc = "answer"]
       ELSE /\ call' = [call EXCEPT ![c].stayed = TRUE, ![c].history = InRoom(call[c].room)]
            /\ UNCHANGED rooms
  /\ UNCHANGED <<sock, unsent, toGateway, lost, seen, springVars, recordVars>>

(* client.join *)
JoinRoom(c) ==
  /\ call[c].pc = "join"
  /\ rooms' = rooms \cup {<<call[c].socket, call[c].room>>}
  /\ call' = [call EXCEPT ![c].pc = "enter", ![c].stayed = TRUE]
  /\ UNCHANGED <<sock, unsent, toGateway, lost, seen, springVars, recordVars>>

(* Spring answers with the history.  An error is answered as success with  *)
(* an empty one; such a call, and one that left meanwhile, is not "joined". *)
EnterRoom(c) ==
  /\ call[c].pc = "enter"
  /\ call' \in {[call EXCEPT ![c].pc = "answer", ![c].history = InRoom(call[c].room)],
               [call EXCEPT ![c] = NoCall]}
  /\ UNCHANGED <<sock, rooms, unsent, toGateway, lost, seen, springVars, recordVars>>

AnswerJoin(c) ==
  LET s == call[c].socket IN
  /\ call[c].pc = "answer"
  /\ seen' = [seen EXCEPT ![s] = @ \cup call[c].history]
  /\ call' = [call EXCEPT ![c] = IF @.stayed THEN [@ EXCEPT !.pc = "joined", !.history = {}]
                                             ELSE NoCall]
  /\ UNCHANGED <<sock, rooms, unsent, toGateway, lost, springVars, recordVars>>

HandleLeaveRoom(s, r) ==
  /\ sock[s] # NoWallet /\ <<s, r>> \in rooms
  /\ rooms' = rooms \ {<<s, r>>}
  /\ call' = [c \in Call |->
                IF ~By(c, s) THEN call[c]
                ELSE IF call[c].room # r THEN call[c]
                ELSE IF call[c].pc = "joined" THEN NoCall
                ELSE [call[c] EXCEPT !.stayed = FALSE]]
  /\ UNCHANGED <<sock, unsent, toGateway, lost, seen, springVars, recordVars>>

---------------------------------------------------------------------------
(* Messages.  Who sends need not be in the room; what Redis does not take  *)
(* is answered with an error and was never sent.                           *)
HandleSendMessage(s, r, m) ==
  /\ sock[s] # NoWallet /\ m \in unsent
  /\ unsent' = unsent \ {m}
  /\ toSpring' = toSpring \cup {Sent(m, r)}
  /\ UNCHANGED <<toGateway, lost, participant, stored, unannounced, socketVars, recordVars>>

Emit(i) == seen' = [s \in Socket |-> IF <<s, i.room>> \in rooms THEN seen[s] \cup {i} ELSE seen[s]]

(* 'pmessage' *)
OnBroadcast(i) ==
  /\ i \in toGateway
  /\ toGateway' = toGateway \ {i}
  /\ Emit(i)
  /\ UNCHANGED <<sock, rooms, call, unsent, lost, springVars, recordVars>>

(* The subscriber loses its connection to Redis for a while. *)
SubscriberLost ==
  /\ toGateway # {}
  /\ toGateway' = {}
  /\ lost' = lost \cup (toGateway \cap stored)
  /\ UNCHANGED <<unsent, springVars, socketVars, recordVars>>

---------------------------------------------------------------------------
(* The record of a transfer. *)

InitTransfer(q, a, r) ==
  /\ req[q].pc = "new"
  /\ req' = [req EXCEPT ![q] = [pc |-> "store", adoption |-> a,
                               rec |-> [status |-> "INITIATED", room |-> r]]]
  /\ UNCHANGED <<unsent, toGateway, lost, record, written, springVars, socketVars>>

(* GET of the record the update is merged into. *)
UpdateTransferStatus(q, a, x) ==
  /\ req[q].pc = "new" /\ record[a] # NoRecord
  /\ req' = [req EXCEPT ![q] = [pc |-> "store", adoption |-> a,
                               rec |-> [record[a] EXCEPT !.status = x]]]
  /\ UNCHANGED <<unsent, toGateway, lost, record, written, springVars, socketVars>>

(* The read-only route, an update without a record, and cancel, which      *)
(* looks under a key nothing is stored under.                              *)
GetTransferData(q) ==
  /\ req[q].pc = "new"
  /\ req' = [req EXCEPT ![q] = Answered]
  /\ UNCHANGED <<unsent, toGateway, lost, record, written, springVars, socketVars>>

CancelTransfer(q) ==
  /\ req[q].pc = "new"
  /\ req' = [req EXCEPT ![q] = Answered]
  /\ UNCHANGED <<unsent, toGateway, lost, record, written, springVars, socketVars>>

(* SETEX *)
SetRecord(q) ==
  LET a == req[q].adoption IN
  /\ record' = [record EXCEPT ![a] = req[q].rec]
  /\ written' = written \cup {<<a, req[q].rec.room, req[q].rec.status>>}

StoreRecord(q) ==
  /\ req[q].pc = "store"
  /\ SetRecord(q)
  /\ req' = [req EXCEPT ![q].pc = "publish"]
  /\ UNCHANGED <<unsent, toGateway, lost, springVars, socketVars>>

NewsOf(q) == News(req[q].adoption, req[q].rec.status, req[q].rec.room)

(* Mutant: the client is told before the record is stored. *)
PublishNews_First(q) ==
  /\ req[q].pc \in {"store", "publish"}
  /\ toGateway' = toGateway \cup {NewsOf(q)}
  /\ req' = [req EXCEPT ![q].pc = "emit"]
  /\ UNCHANGED <<unsent, lost, record, written, springVars, socketVars>>

PublishNews(q) ==
  /\ req[q].pc = "publish"
  /\ toGateway' = toGateway \cup {NewsOf(q)}
  /\ req' = [req EXCEPT ![q].pc = "emit"]
  /\ UNCHANGED <<unsent, lost, record, written, springVars, socketVars>>

EmitNews(q) ==
  /\ req[q].pc = "emit"
  /\ Emit(NewsOf(q))
  /\ req' = [req EXCEPT ![q] = Answered]
  /\ UNCHANGED <<sock, rooms, call, unsent, toGateway, lost, record, written, springVars>>

(* Redis fails: 400, and nothing is published or emitted; the record may   *)
(* have been stored all the same.                                          *)
RequestFails(q) ==
  /\ req[q].pc \in {"store", "publish"}
  /\ \/ UNCHANGED <<record, written>>
     \/ req[q].pc = "store" /\ SetRecord(q)
  /\ req' = [req EXCEPT ![q] = Answered]
  /\ UNCHANGED <<unsent, toGateway, lost, springVars, socketVars>>

ExpireRecord(a) ==
  /\ record[a] # NoRecord
  /\ record' = [record EXCEPT ![a] = NoRecord]
  /\ UNCHANGED <<unsent, toGateway, lost, req, written, springVars, socketVars>>

---------------------------------------------------------------------------
(* Spring: a chat room gets a participant; a message is stored, or dropped *)
(* by a Spring that does not listen, and then published for the gateway.   *)
Participate(w, r) ==
  /\ participant' = participant \cup {<<w, r>>}
  /\ UNCHANGED <<unsent, toGateway, lost, toSpring, stored, unannounced, socketVars, recordVars>>

StoreMessage(i) ==
  /\ i \in toSpring
  /\ toSpring' = toSpring \ {i}
  /\ \/ /\ stored' = stored \cup {i}
        /\ unannounced' = unannounced \cup {i}
     \/ UNCHANGED <<stored, unannounced>>
  /\ UNCHANGED <<unsent, toGateway, lost, participant, socketVars, recordVars>>

Announce(i) ==
  /\ i \in unannounced
  /\ unannounced' = unannounced \ {i}
  /\ \/ toGateway' = toGateway \cup {i} /\ UNCHANGED lost
     \/ lost' = lost \cup {i} /\ UNCHANGED toGateway
  /\ UNCHANGED <<unsent, participant, toSpring, stored, socketVars, recordVars>>

(* The gateway restarts: its sockets, handlers and requests are gone. *)
Restart ==
  /\ sock' = [s \in Socket |-> NoWallet] /\ rooms' = {}
  /\ call' = [c \in Call |-> NoCall] /\ seen' = [s \in Socket |-> {}]
  /\ req' = [q \in Request |-> IF req[q] = NoRequest THEN NoRequest ELSE Answered]
  /\ toGateway' = {} /\ lost' = lost \cup (toGateway \cap stored)
  /\ UNCHANGED <<unsent, record, written, springVars>>

ChatEvent ==
  \/ \E s \in Socket : \/ \E w \in Wallet : Connect(s, w)
                       \/ HandleDisconnect(s)
  \/ \E s \in Socket, r \in Room : \/ HandleLeaveRoom(s, r)
                                   \/ \E c \in Call : HandleJoinRoom(c, s, r)
                                   \/ \E m \in Msg : HandleSendMessage(s, r, m)
  \/ \E c \in Call : CanJoinRoom(c) \/ JoinRoom(c) \/ EnterRoom(c) \/ AnswerJoin(c)
  \/ \E i \in toGateway : OnBroadcast(i)

TransferRoute ==
  \/ \E q \in Request, a \in Adoption :
        \/ \E r \in Room : InitTransfer(q, a, r)
        \/ \E x \in Step : UpdateTransferStatus(q, a, x)
  \/ \E q \in Request : \/ GetTransferData(q) \/ CancelTransfer(q)
                        \/ StoreRecord(q) \/ PublishNews(q) \/ EmitNews(q) \/ RequestFails(q)

Environment ==
  \/ \E w \in Wallet, r \in Room : Participate(w, r)
  \/ \E i \in toSpring : StoreMessage(i)
  \/ \E i \in unannounced : Announce(i)
  \/ \E a \in Adoption : ExpireRecord(a)
  \/ SubscriberLost \/ Restart

Next == ChatEvent \/ TransferRoute \/ Environment

Spec == Init /\ [][Next]_vars

---------------------------------------------------------------------------
(* Type invariant. *)
TypeOK ==
  /\ participant \subseteq Wallet \X Room
  /\ sock \in [Socket -> Wallet \cup {NoWallet}]
  /\ rooms \subseteq {s \in Socket : sock[s] # NoWallet} \X Room
  /\ call \in [Call -> Joining \cup {NoCall}]
  /\ unsent \subseteq Msg
  /\ stored \cup toSpring \cup toGateway \cup lost \subseteq Item /\ unannounced \subseteq stored
  /\ seen \in [Socket -> SUBSET Item]
  /\ record \in [Adoption -> Record \cup {NoRecord}]
  /\ req \in [Request -> Storing \cup {NoRequest, Answered}]
  /\ written \subseteq Adoption \X Room \X Statuses

(* A socket that was given the history of a room, and has stayed there,    *)
(* misses no message Spring has stored, however the join interleaves with  *)
(* the broadcasts, unless Redis had nobody to deliver it to.               *)
NoMessageMissed ==
  \A c \in Call : call[c].pc = "joined" =>
    InRoom(call[c].room) \subseteq seen[call[c].socket] \cup unannounced \cup toGateway \cup lost

(* The room never hears of a status of the transfer that was not stored,   *)
(* nor of a transfer that nobody has initiated in that room, although an   *)
(* update works on what it has read before.                                *)
NewsIsTrue ==
  \A i \in toGateway \cup UNION {seen[s] : s \in Socket} :
    i.what \in Adoption => /\ <<i.what, i.room, i.status>> \in written
                          /\ <<i.what, i.room, "INITIATED">> \in written
=============================================================================
