------------------------- MODULE AdoptionChatProofs -------------------------
(* What the chat delivers and what it announces of a transfer, for any     *)
(* number of sockets, rooms, joins at once, messages and requests.         *)
EXTENDS AdoptionChat, TLAPS

(* A handler of joinRoom that is still there belongs to a connected socket *)
(* (the room it joins is one of that socket's rooms).                      *)
Attached == \A c \in Call : call[c].pc # "none" => sock[call[c].socket] # NoWallet

LEMMA TypeInit == Init => TypeOK /\ Attached
BY DEF Init, TypeOK, Attached, NoCall

LEMMA TypeChat == TypeOK /\ Attached /\ ChatEvent => TypeOK'
<1> SUFFICES ASSUME TypeOK, Attached, ChatEvent PROVE TypeOK'
  OBVIOUS
<1> USE DEF TypeOK
<1>1. ASSUME NEW s \in Socket, NEW w \in Wallet, Connect(s, w) PROVE TypeOK'
  BY <1>1 DEF Connect, springVars, recordVars
<1>2. ASSUME NEW s \in Socket, HandleDisconnect(s) PROVE TypeOK'
  <2>1. rooms' \subseteq {t \in Socket : sock'[t] # NoWallet} \X Room
    BY <1>2 DEF HandleDisconnect
  <2>2. call' \in [Call -> Joining \cup {NoCall}]
    BY <1>2 DEF HandleDisconnect
  <2> QED BY <1>2, <2>1, <2>2 DEF HandleDisconnect, springVars, recordVars
<1>3. ASSUME NEW s \in Socket, NEW r \in Room, HandleLeaveRoom(s, r) PROVE TypeOK'
  <2>1. ASSUME NEW c \in Call PROVE call'[c] \in Joining \cup {NoCall}
    <3>1. CASE call[c].pc # "none"
      <4>1. call[c] \in Joining
        BY <3>1 DEF NoCall
      <4>2. [call[c] EXCEPT !.stayed = FALSE] \in Joining
        BY <4>1 DEF Joining
      <4> QED BY <1>3, <4>1, <4>2 DEF HandleLeaveRoom
    <3>2. CASE call[c].pc = "none"
      BY <1>3, <3>2 DEF HandleLeaveRoom, By
    <3> QED BY <3>1, <3>2
  <2>2. call' \in [Call -> Joining \cup {NoCall}]
    BY <1>3, <2>1 DEF HandleLeaveRoom
  <2> QED BY <1>3, <2>2 DEF HandleLeaveRoom, springVars, recordVars
<1>4. ASSUME NEW s \in Socket, NEW r \in Room, NEW c \in Call, HandleJoinRoom(c, s, r)
      PROVE  TypeOK'
  <2>1. [pc |-> "permission", socket |-> s, room |-> r, history |-> {}, stayed |-> FALSE]
          \in Joining
    BY DEF Joining
  <2> QED BY <1>4, <2>1 DEF HandleJoinRoom, springVars, recordVars
<1>5. ASSUME NEW s \in Socket, NEW r \in Room, NEW m \in Msg, HandleSendMessage(s, r, m)
      PROVE  TypeOK'
  BY <1>5 DEF HandleSendMessage, Item, socketVars, recordVars
<1>6. ASSUME NEW c \in Call, CanJoinRoom(c) PROVE TypeOK'
  <2>1. call[c] \in Joining
    BY <1>6 DEF CanJoinRoom, NoCall
  <2>2. [call[c] EXCEPT !.pc = "join"] \in Joining
    BY <2>1 DEF Joining
  <2> QED BY <1>6, <2>2 DEF CanJoinRoom, springVars, recordVars
<1>7. ASSUME NEW c \in Call, JoinRoom(c) PROVE TypeOK'
  <2>1. call[c] \in Joining
    BY <1>7 DEF JoinRoom, NoCall
  <2>2. <<call[c].socket, call[c].room>> \in {s \in Socket : sock[s] # NoWallet} \X Room
    BY <1>7, <2>1 DEF JoinRoom, Joining, Attached
  <2> QED BY <1>7, <2>1, <2>2 DEF JoinRoom, Joining, springVars, recordVars
<1>8. ASSUME NEW c \in Call, EnterRoom(c) PROVE TypeOK'
  <2>1. call[c] \in Joining
    BY <1>8 DEF EnterRoom, NoCall
  <2>2. InRoom(call[c].room) \subseteq Item
    BY DEF InRoom
  <2> QED BY <1>8, <2>1, <2>2 DEF EnterRoom, Joining, springVars, recordVars
<1>9. ASSUME NEW c \in Call, AnswerJoin(c) PROVE TypeOK'
  <2>1. call[c] \in Joining
    BY <1>9 DEF AnswerJoin, NoCall
  <2> QED BY <1>9, <2>1 DEF AnswerJoin, Joining, springVars, recordVars
<1>10. ASSUME NEW i \in toGateway, OnBroadcast(i) PROVE TypeOK'
  BY <1>10 DEF OnBroadcast, Emit, springVars, recordVars
<1> QED
  BY <1>1, <1>2, <1>3, <1>4, <1>5, <1>6, <1>7, <1>8, <1>9, <1>10 DEF ChatEvent

LEMMA TypeTransfer == TypeOK /\ TransferRoute => TypeOK'
<1> SUFFICES ASSUME TypeOK, TransferRoute PROVE TypeOK'
  OBVIOUS
<1> USE DEF TypeOK
<1>1. ASSUME NEW q \in Request, NEW a \in Adoption, NEW r \in Room, InitTransfer(q, a, r)
      PROVE  TypeOK'
  BY <1>1 DEF InitTransfer, Storing, Record, Statuses, springVars, socketVars
<1>2. ASSUME NEW q \in Request, NEW a \in Adoption, NEW x \in Step,
             UpdateTransferStatus(q, a, x)
      PROVE  TypeOK'
  <2>1. [record[a] EXCEPT !.status = x] \in Record
    BY <1>2 DEF UpdateTransferStatus, Record, Statuses
  <2> QED BY <1>2, <2>1 DEF UpdateTransferStatus, Storing, springVars, socketVars
<1>3. ASSUME NEW q \in Request, \/ GetTransferData(q) \/ CancelTransfer(q) PROVE TypeOK'
  BY <1>3 DEF GetTransferData, CancelTransfer, springVars, socketVars
<1>4. ASSUME NEW q \in Request, req[q].pc \in {"store", "publish", "emit"}
      PROVE  req[q] \in Storing
  BY <1>4 DEF NoRequest, Answered
<1>5. ASSUME NEW q \in Request, StoreRecord(q) PROVE TypeOK'
  <2>1. req[q] \in Storing
    BY <1>4, <1>5 DEF StoreRecord
  <2> QED BY <1>5, <2>1 DEF StoreRecord, SetRecord, Storing, Record, springVars, socketVars
<1>6. ASSUME NEW q \in Request, PublishNews(q) PROVE TypeOK'
  <2>1. req[q] \in Storing
    BY <1>4, <1>6 DEF PublishNews
  <2> QED BY <1>6, <2>1 DEF PublishNews, NewsOf, Item, Storing, Record, springVars, socketVars
<1>7. ASSUME NEW q \in Request, EmitNews(q) PROVE TypeOK'
  <2>1. req[q] \in Storing
    BY <1>4, <1>7 DEF EmitNews
  <2>2. NewsOf(q) \in Item
    BY <2>1 DEF NewsOf, Item, Storing, Record
  <2> QED BY <1>7, <2>2 DEF EmitNews, Emit, springVars
<1>8. ASSUME NEW q \in Request, RequestFails(q) PROVE TypeOK'
  <2>1. req[q] \in Storing
    BY <1>4, <1>8 DEF RequestFails
  <2> QED BY <1>8, <2>1 DEF RequestFails, SetRecord, Storing, Record, springVars, socketVars
<1> QED
  BY <1>1, <1>2, <1>3, <1>5, <1>6, <1>7, <1>8 DEF TransferRoute

LEMMA TypeEnvironment == TypeOK /\ Environment => TypeOK'
<1> SUFFICES ASSUME TypeOK, Environment PROVE TypeOK'
  OBVIOUS
<1> USE DEF TypeOK
<1>1. ASSUME NEW w \in Wallet, NEW r \in Room, Participate(w, r) PROVE TypeOK'
  BY <1>1 DEF Participate, socketVars, recordVars
<1>2. ASSUME NEW i \in toSpring, StoreMessage(i) PROVE TypeOK'
  BY <1>2 DEF StoreMessage, socketVars, recordVars
<1>3. ASSUME NEW i \in unannounced, Announce(i) PROVE TypeOK'
  BY <1>3 DEF Announce, socketVars, recordVars
<1>4. ASSUME NEW a \in Adoption, ExpireRecord(a) PROVE TypeOK'
  BY <1>4 DEF ExpireRecord, springVars, socketVars
<1>5. CASE SubscriberLost
  BY <1>5 DEF SubscriberLost, springVars, socketVars, recordVars
<1>6. CASE Restart
  BY <1>6 DEF Restart, springVars
<1> QED
  BY <1>1, <1>2, <1>3, <1>4, <1>5, <1>6 DEF Environment

(* What a step of the handler of one joinRoom makes of it: the socket and  *)
(* the room it was called with never change.                               *)
SameRoom(c) == call'[c].socket = call[c].socket /\ call'[c].room = call[c].room

LEMMA JoinSteps ==
  ASSUME TypeOK, NEW c \in Call
  PROVE  /\ CanJoinRoom(c) =>
              \/ call'[c] = NoCall
              \/ SameRoom(c) /\ call'[c].pc = "join" /\ call'[c].history = call[c].history
         /\ JoinRoom(c) => /\ SameRoom(c) /\ call'[c].pc = "enter" /\ call'[c].stayed
                           /\ call'[c].history = call[c].history
         /\ EnterRoom(c) =>
              \/ call'[c] = NoCall
              \/ /\ SameRoom(c) /\ call'[c].pc = "answer" /\ call'[c].stayed = call[c].stayed
                 /\ call'[c].history = InRoom(call[c].room)
         /\ AnswerJoin(c) =>
              \/ call'[c] = NoCall
              \/ /\ SameRoom(c) /\ call'[c].pc = "joined" /\ call'[c].stayed /\ call[c].stayed
                 /\ call'[c].history = {}
         /\ CanJoinRoom(c) \/ JoinRoom(c) \/ EnterRoom(c) \/ AnswerJoin(c) =>
              \A d \in Call \ {c} : call'[d] = call[d]
<1>t. call \in [Call -> Joining \cup {NoCall}]
  BY DEF TypeOK
<1>1. call[c].pc # "none" => call[c] \in Joining
  BY <1>t DEF NoCall
<1>2. ASSUME CanJoinRoom(c)
      PROVE  \/ call'[c] = NoCall
             \/ SameRoom(c) /\ call'[c].pc = "join" /\ call'[c].history = call[c].history
  <2>1. call'[c] = NoCall \/ call'[c] = [call[c] EXCEPT !.pc = "join"]
    BY <1>2, <1>t DEF CanJoinRoom
  <2> QED BY <1>2, <1>1, <2>1 DEF CanJoinRoom, Joining, SameRoom
<1>3. ASSUME JoinRoom(c)
      PROVE  /\ SameRoom(c) /\ call'[c].pc = "enter" /\ call'[c].stayed
             /\ call'[c].history = call[c].history
  <2>1. call'[c] = [call[c] EXCEPT !.pc = "enter", !.stayed = TRUE]
    BY <1>3, <1>t DEF JoinRoom
  <2>t. call[c] \in Joining
    BY <1>3, <1>1 DEF JoinRoom
  <2>2. call'[c].stayed = TRUE
    BY <2>t, <2>1 DEF Joining
  <2>3. SameRoom(c) /\ call'[c].pc = "enter" /\ call'[c].history = call[c].history
    BY <2>t, <2>1 DEF Joining, SameRoom
  <2> QED BY <2>2, <2>3
<1>4. ASSUME EnterRoom(c)
      PROVE  \/ call'[c] = NoCall
             \/ /\ SameRoom(c) /\ call'[c].pc = "answer" /\ call'[c].stayed = call[c].stayed
                /\ call'[c].history = InRoom(call[c].room)
  <2>1. \/ call'[c] = NoCall
        \/ call'[c] = [call[c] EXCEPT !.pc = "answer", !.history = InRoom(call[c].room)]
    BY <1>4, <1>t DEF EnterRoom
  <2> QED BY <1>4, <1>1, <2>1 DEF EnterRoom, Joining, SameRoom
<1>5. ASSUME AnswerJoin(c)
      PROVE  \/ call'[c] = NoCall
             \/ /\ SameRoom(c) /\ call'[c].pc = "joined" /\ call'[c].stayed /\ call[c].stayed
                /\ call'[c].history = {}
  <2>1. call'[c] = IF call[c].stayed THEN [call[c] EXCEPT !.pc = "joined", !.history = {}]
                                     ELSE NoCall
    BY <1>5, <1>t DEF AnswerJoin
  <2>2. CASE ~call[c].stayed
    BY <2>1, <2>2
  <2>3. CASE call[c].stayed
    <3>1. call'[c] = [call[c] EXCEPT !.pc = "joined", !.history = {}] /\ call[c] \in Joining
      BY <1>5, <1>1, <2>1, <2>3 DEF AnswerJoin
    <3>2. SameRoom(c) /\ call'[c].pc = "joined" /\ call'[c].history = {}
      BY <3>1 DEF Joining, SameRoom
    <3>3. call'[c].stayed = call[c].stayed
      BY <3>1 DEF Joining
    <3> QED BY <2>3, <3>2, <3>3
  <2> QED BY <2>2, <2>3
<1>6. CanJoinRoom(c) \/ JoinRoom(c) \/ EnterRoom(c) \/ AnswerJoin(c) =>
        \A d \in Call \ {c} : call'[d] = call[d]
  BY <1>t DEF CanJoinRoom, JoinRoom, EnterRoom, AnswerJoin
<1> QED BY <1>2, <1>3, <1>4, <1>5, <1>6

LEMMA AttachedStep == TypeOK /\ Attached /\ [Next]_vars => Attached'
<1> SUFFICES ASSUME TypeOK, Attached, [Next]_vars, NEW d \in Call
             PROVE  call'[d].pc # "none" => sock'[call'[d].socket] # NoWallet
  BY DEF Attached
<1> USE DEF Attached
<1>t. /\ sock \in [Socket -> Wallet \cup {NoWallet}]
      /\ call \in [Call -> Joining \cup {NoCall}]
  BY DEF TypeOK
<1>1. ASSUME UNCHANGED <<sock, call>> PROVE call'[d].pc # "none" => sock'[call'[d].socket] # NoWallet
  BY <1>1
<1>2. ASSUME NEW s \in Socket, NEW w \in Wallet, Connect(s, w)
      PROVE  call'[d].pc # "none" => sock'[call'[d].socket] # NoWallet
  BY <1>2, <1>t DEF Connect
<1>3. ASSUME NEW s \in Socket, HandleDisconnect(s)
      PROVE  call'[d].pc # "none" => sock'[call'[d].socket] # NoWallet
  BY <1>3, <1>t DEF HandleDisconnect, By, NoCall
<1>4. ASSUME NEW s \in Socket, NEW r \in Room, HandleLeaveRoom(s, r)
      PROVE  call'[d].pc # "none" => sock'[call'[d].socket] # NoWallet
  BY <1>4, <1>t DEF HandleLeaveRoom, By, NoCall
<1>5. ASSUME NEW s \in Socket, NEW r \in Room, NEW c \in Call, HandleJoinRoom(c, s, r)
      PROVE  call'[d].pc # "none" => sock'[call'[d].socket] # NoWallet
  BY <1>5, <1>t DEF HandleJoinRoom
<1>6. ASSUME NEW c \in Call, \/ CanJoinRoom(c) \/ JoinRoom(c) \/ EnterRoom(c) \/ AnswerJoin(c)
      PROVE  call'[d].pc # "none" => sock'[call'[d].socket] # NoWallet
  <2>1. call[c].pc # "none" /\ UNCHANGED sock
    BY <1>6 DEF CanJoinRoom, JoinRoom, EnterRoom, AnswerJoin
  <2>2. d # c => call'[d] = call[d]
    BY <1>6, JoinSteps
  <2>3. call'[c].pc # "none" => call'[c].socket = call[c].socket
    BY <1>6, JoinSteps DEF NoCall, SameRoom
  <2> QED BY <2>1, <2>2, <2>3
<1>7. CASE Restart
  BY <1>7 DEF Restart, NoCall
<1> QED
  <2>1. CASE ChatEvent
    <3>1. ASSUME NEW s \in Socket, NEW r \in Room, NEW m \in Msg, HandleSendMessage(s, r, m)
          PROVE  UNCHANGED <<sock, call>>
      BY <3>1 DEF HandleSendMessage, socketVars
    <3>2. ASSUME NEW i \in toGateway, OnBroadcast(i) PROVE UNCHANGED <<sock, call>>
      BY <3>2 DEF OnBroadcast
    <3> QED BY <2>1, <3>1, <3>2, <1>1, <1>2, <1>3, <1>4, <1>5, <1>6 DEF ChatEvent
  <2>2. CASE TransferRoute
    BY <2>2, <1>1 DEF TransferRoute, InitTransfer, UpdateTransferStatus, GetTransferData,
       CancelTransfer, StoreRecord, PublishNews, EmitNews, RequestFails, socketVars
  <2>3. CASE Environment
    BY <2>3, <1>1, <1>7 DEF Environment, Participate, StoreMessage, Announce, ExpireRecord,
       SubscriberLost, socketVars
  <2>4. CASE UNCHANGED vars
    BY <2>4, <1>1 DEF vars
  <2> QED BY <2>1, <2>2, <2>3, <2>4 DEF Next

TypeInv == TypeOK /\ Attached

LEMMA TypeStep == TypeInv /\ [Next]_vars => TypeInv'
<1>1. TypeOK /\ UNCHANGED vars => TypeOK'
  BY DEF TypeOK, vars
<1> QED
  BY <1>1, AttachedStep, TypeChat, TypeTransfer, TypeEnvironment DEF Next, TypeInv

(* Everything the gateway, Spring and Redis hold has its type; in          *)
(* particular only connected sockets are in rooms.                         *)
THEOREM ChatTypes == Spec => []TypeOK
<1>1. Init => TypeInv
  BY TypeInit DEF TypeInv
<1> QED
  BY <1>1, TypeStep, PTL DEF Spec, TypeInv

---------------------------------------------------------------------------
(* A join that stayed in its room: the socket is in the room from the join *)
(* on, and from the moment Spring has answered, whatever of the room is    *)
(* stored is in the answer or on its way to the socket.                    *)
Message == {Sent(m, r) : m \in Msg, r \in Room}
OnItsWay(i, s) == i \in seen[s] \/ i \in unannounced \/ i \in toGateway \/ i \in lost
Complete(c) == \A i \in stored : i.room = call[c].room =>
                 i \in call[c].history \/ OnItsWay(i, call[c].socket)
InItsRoom(c) == <<call[c].socket, call[c].room>> \in rooms

JoinInv(c) ==
  /\ call[c].pc \in {"enter", "answer", "joined"} /\ call[c].stayed => InItsRoom(c)
  /\ call[c].pc = "joined" => call[c].stayed /\ call[c].history = {}
  /\ call[c].pc \in {"answer", "joined"} /\ call[c].stayed => Complete(c)
JoinsInv == \A c \in Call : JoinInv(c)

LEMMA NoCallJoined == ASSUME NEW d \in Call, call'[d].pc \in {"none", "permission", "join"}
                      PROVE  JoinInv(d)'
BY DEF JoinInv

(* What a step must leave alone for a join it is not about. *)
LEMMA JoinKept ==
  ASSUME NEW d \in Call, JoinInv(d), call'[d] = call[d],
         InItsRoom(d) =>
           /\ InItsRoom(d)'
           /\ \A i \in stored' : i.room = call[d].room =>
                \/ i \in unannounced'
                \/ i \in stored /\ (OnItsWay(i, call[d].socket) => OnItsWay(i, call[d].socket)')
  PROVE  JoinInv(d)'
<1>1. ASSUME call[d].pc \in {"answer", "joined"}, call[d].stayed PROVE Complete(d)'
  <2>1. InItsRoom(d) /\ Complete(d)
    BY <1>1 DEF JoinInv
  <2>2. SUFFICES ASSUME NEW i \in stored', i.room = call[d].room
                 PROVE  i \in call[d].history \/ OnItsWay(i, call[d].socket)'
    BY DEF Complete
  <2> QED BY <2>1, <2>2 DEF Complete, OnItsWay
<1> QED BY <1>1 DEF JoinInv

LEMMA JoinsOthers ==
  ASSUME TypeOK, JoinsInv, UNCHANGED <<call, rooms, stored>>,
         \A s \in Socket, i \in stored :
           <<s, i.room>> \in rooms => (OnItsWay(i, s) => OnItsWay(i, s)')
  PROVE  JoinsInv'
<1> SUFFICES ASSUME NEW d \in Call PROVE JoinInv(d)'
  BY DEF JoinsInv
<1>1. CASE call[d].pc = "none"
  BY <1>1, NoCallJoined
<1>2. CASE call[d].pc # "none"
  <2>1. call[d] \in Joining
    BY <1>2 DEF TypeOK, NoCall
  <2>2. call[d].socket \in Socket
    BY <2>1 DEF Joining
  <2>3. \A i \in stored : i.room = call[d].room /\ InItsRoom(d) =>
          (OnItsWay(i, call[d].socket) => OnItsWay(i, call[d].socket)')
    BY <2>2 DEF InItsRoom
  <2>4. JoinInv(d) /\ call'[d] = call[d] /\ (InItsRoom(d) => InItsRoom(d)')
    BY DEF JoinsInv, InItsRoom
  <2> QED BY <2>3, <2>4, JoinKept
<1> QED BY <1>1, <1>2

LEMMA JoinsInit == Init => JoinsInv
BY DEF Init, JoinsInv, JoinInv, NoCall

LEMMA JoinsChat == TypeOK /\ JoinsInv /\ ChatEvent => JoinsInv'
<1> SUFFICES ASSUME TypeOK, JoinsInv, ChatEvent PROVE JoinsInv'
  OBVIOUS
<1>t. /\ call \in [Call -> Joining \cup {NoCall}] /\ seen \in [Socket -> SUBSET Item]
      /\ \A c \in Call : call[c].pc # "none" => call[c] \in Joining
  BY DEF TypeOK, NoCall
<1>1. ASSUME NEW s \in Socket, NEW w \in Wallet, Connect(s, w) PROVE JoinsInv'
  BY <1>1, JoinsOthers DEF Connect, OnItsWay, springVars
<1>2. ASSUME NEW s \in Socket, HandleDisconnect(s) PROVE JoinsInv'
  <2> SUFFICES ASSUME NEW d \in Call PROVE JoinInv(d)'
    BY DEF JoinsInv
  <2>1. CASE By(d, s)
    BY <1>2, <2>1, NoCallJoined DEF HandleDisconnect, NoCall
  <2>2. CASE call[d].pc = "none"
    BY <1>2, <2>2, NoCallJoined DEF HandleDisconnect, By
  <2>3. CASE call[d].pc # "none" /\ ~By(d, s)
    <3>1. call'[d] = call[d] /\ call[d].socket # s /\ call[d].socket \in Socket
      BY <1>2, <1>t, <2>3 DEF HandleDisconnect, By, Joining
    <3>2. InItsRoom(d) => InItsRoom(d)'
      BY <1>2, <3>1 DEF HandleDisconnect, InItsRoom
    <3>3. \A i \in stored : OnItsWay(i, call[d].socket) => OnItsWay(i, call[d].socket)'
      BY <1>2, <3>1, <1>t DEF HandleDisconnect, OnItsWay, springVars
    <3>4. JoinInv(d) /\ stored' = stored
      BY <1>2 DEF JoinsInv, HandleDisconnect, springVars
    <3> QED BY <3>1, <3>2, <3>3, <3>4, JoinKept
  <2> QED BY <2>1, <2>2, <2>3
<1>3. ASSUME NEW s \in Socket, NEW r \in Room, HandleLeaveRoom(s, r) PROVE JoinsInv'
  <2> SUFFICES ASSUME NEW d \in Call PROVE JoinInv(d)'
    BY DEF JoinsInv
  <2>1. CASE call[d].pc = "none"
    BY <1>3, <2>1, NoCallJoined DEF HandleLeaveRoom, By
  <2>2. CASE By(d, s) /\ call[d].room = r
    <3>1. CASE call[d].pc = "joined"
      BY <1>3, <2>2, <3>1, NoCallJoined DEF HandleLeaveRoom, NoCall
    <3>2. CASE call[d].pc # "joined"
      <4>1. call'[d] = [call[d] EXCEPT !.stayed = FALSE] /\ call[d] \in Joining
        BY <1>3, <2>2, <3>2, <1>t DEF HandleLeaveRoom, By
      <4>2. call'[d].pc # "joined"
        BY <3>2, <4>1 DEF Joining
      <4>3. call'[d].stayed = FALSE
        BY <4>1 DEF Joining
      <4> QED BY <4>2, <4>3 DEF JoinInv
    <3> QED BY <3>1, <3>2
  <2>3. CASE call[d].pc # "none" /\ ~(By(d, s) /\ call[d].room = r)
    <3>1. call'[d] = call[d] /\ (call[d].socket # s \/ call[d].room # r)
      BY <1>3, <2>3 DEF HandleLeaveRoom, By
    <3>2. InItsRoom(d) => InItsRoom(d)'
      BY <1>3, <3>1 DEF HandleLeaveRoom, InItsRoom
    <3>3. \A i \in stored : OnItsWay(i, call[d].socket) => OnItsWay(i, call[d].socket)'
      BY <1>3, <3>1 DEF HandleLeaveRoom, OnItsWay, springVars
    <3>4. JoinInv(d) /\ stored' = stored
      BY <1>3 DEF JoinsInv, HandleLeaveRoom, springVars
    <3> QED BY <3>1, <3>2, <3>3, <3>4, JoinKept
  <2> QED BY <2>1, <2>2, <2>3
<1>4. ASSUME NEW s \in Socket, NEW r \in Room, NEW c \in Call, HandleJoinRoom(c, s, r)
      PROVE  JoinsInv'
  <2> SUFFICES ASSUME NEW d \in Call PROVE JoinInv(d)'
    BY DEF JoinsInv
  <2>1. CASE d = c
    BY <1>4, <2>1, <1>t, NoCallJoined DEF HandleJoinRoom
  <2>2. CASE d # c
    <3>1. call'[d] = call[d] /\ JoinInv(d) /\ UNCHANGED <<rooms, stored>>
      BY <1>4, <2>2, <1>t DEF HandleJoinRoom, JoinsInv, springVars
    <3>2. \A i \in stored : OnItsWay(i, call[d].socket) => OnItsWay(i, call[d].socket)'
      BY <1>4, <3>1 DEF HandleJoinRoom, OnItsWay, springVars
    <3>3. InItsRoom(d) => InItsRoom(d)'
      BY <3>1 DEF InItsRoom
    <3> QED BY <3>1, <3>2, <3>3, JoinKept
  <2> QED BY <2>1, <2>2
<1>5. ASSUME NEW s \in Socket, NEW r \in Room, NEW m \in Msg, HandleSendMessage(s, r, m)
      PROVE  JoinsInv'
  BY <1>5, JoinsOthers DEF HandleSendMessage, OnItsWay, socketVars
<1>6. ASSUME NEW c \in Call, \/ CanJoinRoom(c) \/ JoinRoom(c) \/ EnterRoom(c) \/ AnswerJoin(c)
      PROVE  JoinsInv'
  <2> SUFFICES ASSUME NEW d \in Call PROVE JoinInv(d)'
    BY DEF JoinsInv
  <2>1. /\ rooms \subseteq rooms' /\ UNCHANGED <<stored, unannounced, toGateway, lost>>
        /\ \A s \in Socket : seen[s] \subseteq seen'[s]
    BY <1>6, <1>t DEF CanJoinRoom, JoinRoom, EnterRoom, AnswerJoin, springVars
  <2>2. call[c] \in Joining
    BY <1>6, <1>t DEF CanJoinRoom, JoinRoom, EnterRoom, AnswerJoin
  <2>3. CASE d # c
    <3>1. CASE call[d].pc = "none"
      BY <1>6, <2>3, <3>1, JoinSteps, NoCallJoined
    <3>2. CASE call[d].pc # "none"
      <4>1. call'[d] = call[d] /\ JoinInv(d) /\ call[d].socket \in Socket
        BY <1>6, <1>t, <2>3, <3>2, JoinSteps DEF JoinsInv, Joining
      <4>2. \A i \in stored : OnItsWay(i, call[d].socket) => OnItsWay(i, call[d].socket)'
        BY <2>1, <4>1 DEF OnItsWay
      <4>3. InItsRoom(d) => InItsRoom(d)'
        BY <2>1, <4>1 DEF InItsRoom
      <4> QED BY <2>1, <4>1, <4>2, <4>3, JoinKept
    <3> QED BY <3>1, <3>2
  <2>4. CASE d = c /\ CanJoinRoom(c)
    BY <2>4, JoinSteps, NoCallJoined DEF NoCall
  <2>5. CASE d = c /\ JoinRoom(c)
    <3>1. SameRoom(c) /\ call'[c].pc = "enter" /\ rooms' = rooms \cup {<<call[c].socket, call[c].room>>}
      BY <2>5, JoinSteps DEF JoinRoom
    <3>2. InItsRoom(c)'
      BY <3>1 DEF InItsRoom, SameRoom
    <3> QED BY <2>5, <3>1, <3>2 DEF JoinInv
  <2>6. CASE d = c /\ EnterRoom(c)
    <3>1. CASE call'[c] = NoCall
      BY <2>6, <3>1, NoCallJoined DEF NoCall
    <3>2. CASE call'[c] # NoCall
      <4>1. /\ SameRoom(c) /\ call'[c].pc = "answer" /\ call'[c].stayed = call[c].stayed
            /\ call'[c].history = InRoom(call[c].room)
        BY <2>6, <3>2, JoinSteps
      <4>2. Complete(c)'
        BY <4>1, <2>1 DEF Complete, InRoom, SameRoom
      <4>3. call[c].stayed => InItsRoom(c)'
        BY <4>1, <2>1, <2>6 DEF JoinsInv, JoinInv, EnterRoom, InItsRoom, SameRoom
      <4> QED BY <2>6, <4>1, <4>2, <4>3 DEF JoinInv
    <3> QED BY <3>1, <3>2
  <2>7. CASE d = c /\ AnswerJoin(c)
    <3>1. CASE call'[c] = NoCall
      BY <2>7, <3>1, NoCallJoined DEF NoCall
    <3>2. CASE call'[c] # NoCall
      <4>1. /\ SameRoom(c) /\ call'[c].pc = "joined" /\ call'[c].stayed /\ call[c].stayed
            /\ call'[c].history = {}
        BY <2>7, <3>2, JoinSteps
      <4>2. InItsRoom(c) /\ Complete(c)
        BY <2>7, <4>1 DEF JoinsInv, JoinInv, AnswerJoin
      <4>3. seen'[call[c].socket] = seen[call[c].socket] \cup call[c].history
        BY <2>7, <2>2, <1>t DEF AnswerJoin, Joining
      <4>4. Complete(c)'
        BY <4>1, <4>2, <4>3, <2>1 DEF Complete, OnItsWay, SameRoom
      <4>5. InItsRoom(c)'
        BY <4>1, <4>2, <2>1 DEF InItsRoom, SameRoom
      <4> QED BY <2>7, <4>1, <4>4, <4>5 DEF JoinInv
    <3> QED BY <3>1, <3>2
  <2> QED BY <1>6, <2>3, <2>4, <2>5, <2>6, <2>7
<1>7. ASSUME NEW i \in toGateway, OnBroadcast(i) PROVE JoinsInv'
  <2>1. \A s \in Socket, j \in stored :
          <<s, j.room>> \in rooms => (OnItsWay(j, s) => OnItsWay(j, s)')
    BY <1>7, <1>t DEF OnBroadcast, Emit, OnItsWay, springVars
  <2> QED BY <1>7, <2>1, JoinsOthers DEF OnBroadcast, springVars
<1> QED
  BY <1>1, <1>2, <1>3, <1>4, <1>5, <1>6, <1>7 DEF ChatEvent

LEMMA JoinsTransfer == TypeOK /\ JoinsInv /\ TransferRoute => JoinsInv'
<1> SUFFICES ASSUME TypeOK, JoinsInv, TransferRoute PROVE JoinsInv'
  OBVIOUS
<1>1. /\ UNCHANGED <<call, rooms, stored, unannounced, lost>> /\ toGateway \subseteq toGateway'
      /\ \A s \in Socket : seen[s] \subseteq seen'[s]
  BY DEF TypeOK, TransferRoute, InitTransfer, UpdateTransferStatus, GetTransferData, CancelTransfer,
     StoreRecord, PublishNews, EmitNews, Emit, RequestFails, socketVars, springVars
<1>2. \A s \in Socket, i \in stored : OnItsWay(i, s) => OnItsWay(i, s)'
  BY <1>1 DEF OnItsWay
<1> QED BY <1>1, <1>2, JoinsOthers

LEMMA JoinsEnvironment == TypeOK /\ JoinsInv /\ Environment => JoinsInv'
<1> SUFFICES ASSUME TypeOK, JoinsInv, Environment PROVE JoinsInv'
  OBVIOUS
<1>1. ASSUME NEW w \in Wallet, NEW r \in Room, Participate(w, r) PROVE JoinsInv'
  BY <1>1, JoinsOthers DEF Participate, OnItsWay, socketVars
<1>2. ASSUME NEW i \in toSpring, StoreMessage(i) PROVE JoinsInv'
  <2> SUFFICES ASSUME NEW d \in Call PROVE JoinInv(d)'
    BY DEF JoinsInv
  <2>1. /\ UNCHANGED <<call, rooms, seen, toGateway, lost>> /\ unannounced \subseteq unannounced'
        /\ \A j \in stored' : j \in stored \/ j \in unannounced'
    BY <1>2 DEF StoreMessage, socketVars
  <2>2. \A j \in stored : OnItsWay(j, call[d].socket) => OnItsWay(j, call[d].socket)'
    BY <2>1 DEF OnItsWay
  <2>3. JoinInv(d) /\ call'[d] = call[d] /\ (InItsRoom(d) => InItsRoom(d)')
    BY <2>1 DEF JoinsInv, InItsRoom
  <2> QED BY <2>1, <2>2, <2>3, JoinKept
<1>3. ASSUME NEW i \in unannounced, Announce(i) PROVE JoinsInv'
  BY <1>3, JoinsOthers DEF Announce, OnItsWay, socketVars
<1>4. ASSUME NEW a \in Adoption, ExpireRecord(a) PROVE JoinsInv'
  BY <1>4, JoinsOthers DEF ExpireRecord, OnItsWay, socketVars, springVars
<1>5. CASE SubscriberLost
  BY <1>5, JoinsOthers DEF SubscriberLost, OnItsWay, socketVars, springVars
<1>6. CASE Restart
  BY <1>6, NoCallJoined DEF Restart, NoCall, JoinsInv
<1> QED
  BY <1>1, <1>2, <1>3, <1>4, <1>5, <1>6 DEF Environment

LEMMA JoinsStep == TypeOK /\ JoinsInv /\ [Next]_vars => JoinsInv'
<1>1. TypeOK /\ JoinsInv /\ UNCHANGED vars => JoinsInv'
  BY DEF JoinsInv, JoinInv, InItsRoom, Complete, OnItsWay, vars
<1> QED
  BY <1>1, JoinsChat, JoinsTransfer, JoinsEnvironment DEF Next

(* Whatever is stored of a room reaches every socket that was given its    *)
(* history and stayed, or nobody listened when it was published.           *)
THEOREM NoMessageIsMissed == Spec => []NoMessageMissed
<1>1. TypeOK /\ JoinsInv => NoMessageMissed
  <2> SUFFICES ASSUME TypeOK, JoinsInv, NEW c \in Call, call[c].pc = "joined",
                      NEW i \in InRoom(call[c].room)
               PROVE  i \in seen[call[c].socket] \cup unannounced \cup toGateway \cup lost
    BY DEF NoMessageMissed
  <2>1. call[c].stayed /\ call[c].history = {} /\ Complete(c)
    BY DEF JoinsInv, JoinInv
  <2> QED BY <2>1 DEF Complete, OnItsWay, InRoom
<1> QED
  BY <1>1, ChatTypes, JoinsInit, JoinsStep, PTL DEF Spec

---------------------------------------------------------------------------
(* News of a transfer: what a request has read of a record was initiated   *)
(* in the room it carries, though the record may be replaced or expire     *)
(* before the request stores its own.  Of Spring and of a history nothing  *)
(* but messages comes.                                                     *)
Initiated(a, r) == <<a, r, "INITIATED">> \in written
WasStored(a, k) == <<a, k.room, k.status>> \in written /\ Initiated(a, k.room)
RecordsInv == \A a \in Adoption : record[a] # NoRecord => WasStored(a, record[a])
RequestInv(q) ==
  /\ req[q].pc = "store" => \/ req[q].rec.status = "INITIATED"
                            \/ Initiated(req[q].adoption, req[q].rec.room)
  /\ req[q].pc \in {"publish", "emit"} => WasStored(req[q].adoption, req[q].rec)
RequestsInv == \A q \in Request : RequestInv(q)
MessagesInv ==
  /\ toSpring \cup stored \cup lost \subseteq Message
  /\ \A c \in Call : call[c].pc # "none" => call[c].history \subseteq Message
IsTrue(i) == i.what \in Adoption => /\ <<i.what, i.room, i.status>> \in written
                                  /\ Initiated(i.what, i.room)
HeardInv == /\ \A i \in toGateway : IsTrue(i)
            /\ \A s \in Socket : \A i \in seen[s] : IsTrue(i)
NewsInv == RecordsInv /\ RequestsInv /\ MessagesInv /\ HeardInv

LEMMA NewsInit == Init => NewsInv
BY DEF Init, NewsInv, RecordsInv, RequestsInv, RequestInv, MessagesInv, HeardInv, NoCall, NoRequest

LEMMA MessagesAreTrue == \A i \in Message : IsTrue(i) /\ IsTrue(i)'
BY KindAssumption DEF Message, Sent, IsTrue

(* Nothing that was stored is forgotten. *)
LEMMA WrittenGrows ==
  TypeOK /\ [Next]_vars => written \subseteq written'
<1>1. ChatEvent => UNCHANGED written
  BY DEF ChatEvent, Connect, HandleDisconnect, HandleLeaveRoom, HandleJoinRoom, HandleSendMessage,
     CanJoinRoom, JoinRoom, EnterRoom, AnswerJoin, OnBroadcast, recordVars
<1>2. TransferRoute => written \subseteq written'
  BY DEF TransferRoute, InitTransfer, UpdateTransferStatus, GetTransferData, CancelTransfer,
     StoreRecord, SetRecord, PublishNews, EmitNews, RequestFails
<1>3. Environment => UNCHANGED written
  BY DEF Environment, Participate, StoreMessage, Announce, ExpireRecord, SubscriberLost, Restart,
     recordVars
<1> QED BY <1>1, <1>2, <1>3 DEF Next, vars

(* The records and the requests. *)
LEMMA RecordsStep == TypeOK /\ RecordsInv /\ RequestsInv /\ [Next]_vars => RecordsInv' /\ RequestsInv'
<1> SUFFICES ASSUME TypeOK, RecordsInv, RequestsInv, [Next]_vars PROVE RecordsInv' /\ RequestsInv'
  OBVIOUS
<1>w. written \subseteq written'
  BY WrittenGrows
<1>t. /\ record \in [Adoption -> Record \cup {NoRecord}]
      /\ req \in [Request -> Storing \cup {NoRequest, Answered}]
  BY DEF TypeOK
<1> DEFINE RecordKept(a) == record'[a] = record[a] \/ record'[a] = NoRecord
           RequestKept(q) == req'[q] = req[q] \/ req'[q] = Answered \/ req'[q] = NoRequest
<1>1. ASSUME NEW a \in Adoption, RecordKept(a)
      PROVE  record'[a] # NoRecord => WasStored(a, record[a])'
  BY <1>1, <1>w DEF RecordsInv, WasStored, Initiated
<1>2. ASSUME NEW q \in Request, RequestKept(q) PROVE RequestInv(q)'
  BY <1>2, <1>w DEF RequestsInv, RequestInv, WasStored, Initiated, Answered, NoRequest
<1>3. ASSUME \A a \in Adoption : RecordKept(a), \A q \in Request : RequestKept(q)
      PROVE  RecordsInv' /\ RequestsInv'
  BY <1>1, <1>2, <1>3 DEF RecordsInv, RequestsInv
<1> HIDE DEF RecordKept, RequestKept
<1>4. CASE ChatEvent \/ UNCHANGED vars
  <2>1. UNCHANGED <<record, req>>
    BY <1>4 DEF ChatEvent, Connect, HandleDisconnect, HandleLeaveRoom, HandleJoinRoom,
       HandleSendMessage, CanJoinRoom, JoinRoom, EnterRoom, AnswerJoin, OnBroadcast, recordVars, vars
  <2> QED BY <2>1, <1>3 DEF RecordKept, RequestKept
<1>5. CASE Environment
  <2>1. (\A a \in Adoption : RecordKept(a)) /\ \A q \in Request : RequestKept(q)
    BY <1>5, <1>t DEF Environment, Participate, StoreMessage, Announce, ExpireRecord,
       SubscriberLost, Restart, recordVars, RecordKept, RequestKept
  <2> QED BY <2>1, <1>3
<1>6. ASSUME NEW q \in Request, TransferRoute, UNCHANGED record,
             \A p \in Request \ {q} : req'[p] = req[p], RequestInv(q)'
      PROVE  RecordsInv' /\ RequestsInv'
  <2>1. (\A a \in Adoption : RecordKept(a)) /\ \A p \in Request \ {q} : RequestKept(p)
    BY <1>6 DEF RecordKept, RequestKept
  <2> QED BY <1>1, <1>2, <1>6, <2>1 DEF RecordsInv, RequestsInv
<1>7. ASSUME NEW q \in Request, NEW a \in Adoption, NEW r \in Room, InitTransfer(q, a, r),
             TransferRoute
      PROVE  RecordsInv' /\ RequestsInv'
  <2>1. RequestInv(q)'
    BY <1>7, <1>t DEF InitTransfer, RequestInv
  <2> QED BY <1>6, <1>7, <2>1, <1>t DEF InitTransfer
<1>8. ASSUME NEW q \in Request, NEW a \in Adoption, NEW x \in Step,
             UpdateTransferStatus(q, a, x), TransferRoute
      PROVE  RecordsInv' /\ RequestsInv'
  <2>1. Initiated(a, record[a].room) /\ record[a] \in Record
    BY <1>8, <1>t DEF UpdateTransferStatus, RecordsInv, WasStored
  <2>2. /\ req'[q].pc = "store" /\ req'[q].adoption = a
        /\ req'[q].rec = [record[a] EXCEPT !.status = x]
    BY <1>8, <1>t DEF UpdateTransferStatus
  <2>3. req'[q].rec.room = record[a].room
    BY <2>1, <2>2 DEF Record
  <2>4. RequestInv(q)'
    BY <1>w, <2>1, <2>2, <2>3 DEF RequestInv, Initiated
  <2> QED BY <1>6, <1>8, <2>4, <1>t DEF UpdateTransferStatus
<1>9. ASSUME NEW q \in Request, \/ GetTransferData(q) \/ CancelTransfer(q) \/ EmitNews(q)
      PROVE  RecordsInv' /\ RequestsInv'
  <2>1. (\A a \in Adoption : RecordKept(a)) /\ \A p \in Request : RequestKept(p)
    BY <1>9, <1>t DEF GetTransferData, CancelTransfer, EmitNews, RecordKept, RequestKept
  <2> QED BY <2>1, <1>3
<1>10. ASSUME NEW q \in Request, SetRecord(q), req[q].pc = "store"
       PROVE  /\ RecordsInv'
              /\ <<req[q].adoption, req[q].rec.room, req[q].rec.status>> \in written'
              /\ <<req[q].adoption, req[q].rec.room, "INITIATED">> \in written'
  <2> DEFINE a == req[q].adoption
             k == req[q].rec
  <2>1. req[q] \in Storing
    BY <1>10, <1>t DEF NoRequest, Answered
  <2>2. a \in Adoption /\ k \in Record
    BY <2>1 DEF Storing
  <2>3. /\ record'[a] = k /\ \A b \in Adoption \ {a} : record'[b] = record[b]
        /\ <<a, k.room, k.status>> \in written'
    BY <1>10, <1>t, <2>2 DEF SetRecord
  <2>4. k.status = "INITIATED" \/ Initiated(a, k.room)
    BY <1>10 DEF RequestsInv, RequestInv
  <2>5. <<a, k.room, "INITIATED">> \in written'
    BY <2>3, <2>4, <1>w DEF Initiated
  <2>6. \A b \in Adoption : record'[b] # NoRecord => WasStored(b, record[b])'
    <3>1. ASSUME NEW b \in Adoption, record'[b] # NoRecord PROVE WasStored(b, record[b])'
      <4>1. CASE b = a
        BY <2>3, <2>5, <4>1 DEF WasStored, Initiated
      <4>2. CASE b # a
        BY <1>1, <2>3, <3>1, <4>2 DEF RecordKept
      <4> QED BY <4>1, <4>2
    <3> QED BY <3>1
  <2> QED BY <2>3, <2>5, <2>6 DEF RecordsInv
<1>11. ASSUME NEW q \in Request, StoreRecord(q) PROVE RecordsInv' /\ RequestsInv'
  <2>1. req[q] \in Storing
    BY <1>11, <1>t DEF StoreRecord, NoRequest, Answered
  <2>2. /\ RecordsInv'
        /\ <<req[q].adoption, req[q].rec.room, req[q].rec.status>> \in written'
        /\ <<req[q].adoption, req[q].rec.room, "INITIATED">> \in written'
    BY <1>10, <1>11 DEF StoreRecord
  <2>3. req'[q] = [req[q] EXCEPT !.pc = "publish"] /\ \A p \in Request \ {q} : req'[p] = req[p]
    BY <1>11, <1>t DEF StoreRecord
  <2>4. req'[q].pc = "publish" /\ req'[q].adoption = req[q].adoption /\ req'[q].rec = req[q].rec
    BY <2>1, <2>3 DEF Storing
  <2>5. RequestInv(q)'
    BY <2>2, <2>4 DEF RequestInv, WasStored, Initiated
  <2> QED BY <1>2, <2>2, <2>3, <2>5 DEF RequestsInv, RequestKept
<1>12. ASSUME NEW q \in Request, PublishNews(q), TransferRoute PROVE RecordsInv' /\ RequestsInv'
  <2>1. req[q] \in Storing
    BY <1>12, <1>t DEF PublishNews, NoRequest, Answered
  <2>2. req'[q] = [req[q] EXCEPT !.pc = "emit"] /\ \A p \in Request \ {q} : req'[p] = req[p]
    BY <1>12, <1>t DEF PublishNews
  <2>3. req'[q].pc = "emit" /\ req'[q].adoption = req[q].adoption /\ req'[q].rec = req[q].rec
    BY <2>1, <2>2 DEF Storing
  <2>4. WasStored(req[q].adoption, req[q].rec)
    BY <1>12 DEF PublishNews, RequestsInv, RequestInv
  <2>5. RequestInv(q)'
    BY <1>w, <2>3, <2>4 DEF RequestInv, WasStored, Initiated
  <2> QED BY <1>6, <1>12, <2>2, <2>5 DEF PublishNews
<1>13. ASSUME NEW q \in Request, RequestFails(q) PROVE RecordsInv' /\ RequestsInv'
  <2>1. \A p \in Request : RequestKept(p)
    BY <1>13, <1>t DEF RequestFails, RequestKept
  <2>2. RequestsInv'
    BY <1>2, <2>1 DEF RequestsInv
  <2>3. CASE UNCHANGED record
    BY <1>3, <2>1, <2>3 DEF RecordKept
  <2>4. CASE req[q].pc = "store" /\ SetRecord(q)
    BY <1>10, <2>2, <2>4
  <2> QED BY <1>13, <2>3, <2>4 DEF RequestFails
<1>14. CASE TransferRoute
  BY <1>14, <1>7, <1>8, <1>9, <1>11, <1>12, <1>13 DEF TransferRoute
<1> QED BY <1>4, <1>5, <1>14 DEF Next

LEMMA MessagesStep == TypeOK /\ MessagesInv /\ [Next]_vars => MessagesInv'
<1> SUFFICES ASSUME TypeOK, MessagesInv, [Next]_vars PROVE MessagesInv'
  OBVIOUS
<1>t. /\ call \in [Call -> Joining \cup {NoCall}] /\ unannounced \subseteq stored
      /\ \A c \in Call : call[c].pc # "none" => call[c] \in Joining
  BY DEF TypeOK, NoCall
<1>1. toSpring' \cup stored' \cup lost' \subseteq Message
  <2>1. CASE ChatEvent
    <3>1. ASSUME NEW s \in Socket, NEW r \in Room, NEW m \in Msg, HandleSendMessage(s, r, m)
          PROVE  toSpring' \cup stored' \cup lost' \subseteq Message
      BY <3>1 DEF HandleSendMessage, MessagesInv, Message
    <3> QED BY <2>1, <3>1 DEF MessagesInv, ChatEvent, Connect, HandleDisconnect, HandleLeaveRoom,
          HandleJoinRoom, CanJoinRoom, JoinRoom, EnterRoom, AnswerJoin, OnBroadcast, springVars
  <2>2. CASE TransferRoute
    BY <2>2 DEF MessagesInv, TransferRoute, InitTransfer, UpdateTransferStatus, GetTransferData,
       CancelTransfer, StoreRecord, PublishNews, EmitNews, RequestFails, springVars
  <2>3. CASE Environment
    BY <2>3, <1>t DEF MessagesInv, Environment, Participate, StoreMessage, Announce, ExpireRecord,
       SubscriberLost, Restart, springVars
  <2>4. CASE UNCHANGED vars
    BY <2>4 DEF MessagesInv, vars
  <2> QED BY <2>1, <2>2, <2>3, <2>4 DEF Next
<1>2. ASSUME NEW d \in Call, call'[d].pc # "none" PROVE call'[d].history \subseteq Message
  <2>1. CASE call' = call
    BY <2>1, <1>2 DEF MessagesInv
  <2>2. ASSUME NEW s \in Socket, HandleDisconnect(s) PROVE call'[d].history \subseteq Message
    BY <2>2, <1>2 DEF HandleDisconnect, NoCall, MessagesInv
  <2>3. ASSUME NEW s \in Socket, NEW r \in Room, HandleLeaveRoom(s, r)
        PROVE  call'[d].history \subseteq Message
    <3>1. CASE call'[d] = call[d]
      BY <3>1, <1>2 DEF MessagesInv
    <3>2. CASE call'[d] # call[d]
      <4>1. call[d].pc # "none" /\ call'[d] = [call[d] EXCEPT !.stayed = FALSE]
        BY <1>2, <2>3, <3>2 DEF HandleLeaveRoom, By, NoCall
      <4>2. call'[d].history = call[d].history
        BY <4>1, <1>t DEF Joining
      <4> QED BY <4>1, <4>2 DEF MessagesInv
    <3> QED BY <3>1, <3>2
  <2>4. ASSUME NEW s \in Socket, NEW r \in Room, NEW c \in Call, HandleJoinRoom(c, s, r)
        PROVE  call'[d].history \subseteq Message
    BY <2>4, <1>2, <1>t DEF HandleJoinRoom, MessagesInv
  <2>5. ASSUME NEW c \in Call, \/ CanJoinRoom(c) \/ JoinRoom(c) \/ EnterRoom(c) \/ AnswerJoin(c)
        PROVE  call'[d].history \subseteq Message
    <3>1. call[c].pc # "none"
      BY <2>5 DEF CanJoinRoom, JoinRoom, EnterRoom, AnswerJoin
    <3>2. InRoom(call[c].room) \subseteq Message
      BY DEF InRoom, MessagesInv
    <3>3. d = c => call'[d].history \in {call[c].history, InRoom(call[c].room), {}}
      BY <2>5, <1>2, JoinSteps DEF NoCall
    <3>4. d # c => call'[d] = call[d]
      BY <2>5, JoinSteps
    <3> QED BY <1>2, <3>1, <3>2, <3>3, <3>4 DEF MessagesInv
  <2>6. CASE ChatEvent
    BY <2>1, <2>2, <2>3, <2>4, <2>5, <2>6 DEF ChatEvent, Connect, HandleSendMessage, OnBroadcast,
       socketVars
  <2>7. CASE TransferRoute
    BY <2>1, <2>7 DEF TransferRoute, InitTransfer, UpdateTransferStatus, GetTransferData,
       CancelTransfer, StoreRecord, PublishNews, EmitNews, RequestFails, socketVars
  <2>8. CASE Environment
    BY <2>1, <2>8, <1>2 DEF Environment, Participate, StoreMessage, Announce, ExpireRecord,
       SubscriberLost, Restart, NoCall, socketVars
  <2>9. CASE UNCHANGED vars
    BY <2>1, <2>9 DEF vars
  <2> QED BY <2>6, <2>7, <2>8, <2>9 DEF Next
<1> QED BY <1>1, <1>2 DEF MessagesInv

LEMMA HeardStep == TypeOK /\ RequestsInv /\ MessagesInv /\ HeardInv /\ [Next]_vars => HeardInv'
<1> SUFFICES ASSUME TypeOK, RequestsInv, MessagesInv, HeardInv, [Next]_vars PROVE HeardInv'
  OBVIOUS
<1>w. \A i : IsTrue(i) => IsTrue(i)'
  BY WrittenGrows DEF IsTrue, Initiated
<1>t. seen \in [Socket -> SUBSET Item] /\ unannounced \subseteq stored
  BY DEF TypeOK
<1>1. ASSUME \A i \in toGateway' : i \in toGateway \/ IsTrue(i)',
             \A s \in Socket : \A i \in seen'[s] : i \in seen[s] \/ i \in toGateway \/ IsTrue(i)'
      PROVE  HeardInv'
  BY <1>1, <1>w DEF HeardInv
<1>2. ASSUME NEW c \in Call, AnswerJoin(c) PROVE HeardInv'
  <2>1. \A i \in call[c].history : IsTrue(i)'
    BY <1>2, MessagesAreTrue DEF AnswerJoin, MessagesInv
  <2> QED BY <1>1, <1>2, <1>t, <2>1 DEF AnswerJoin
<1>3. ASSUME NEW q \in Request, req[q].pc \in {"publish", "emit"} PROVE IsTrue(NewsOf(q))
  BY <1>3 DEF RequestsInv, RequestInv, WasStored, IsTrue, Initiated, NewsOf, News
<1>4. ASSUME NEW q \in Request, PublishNews(q) \/ EmitNews(q) PROVE HeardInv'
  <2>1. ASSUME NEW n, n = NewsOf(q) PROVE IsTrue(n)'
    <3>1. IsTrue(n)
      BY <1>3, <1>4, <2>1 DEF PublishNews, EmitNews
    <3> QED BY <3>1, <1>w
  <2>2. CASE PublishNews(q)
    BY <1>1, <2>1, <2>2 DEF PublishNews, socketVars
  <2>3. CASE EmitNews(q)
    BY <1>1, <1>t, <2>1, <2>3 DEF EmitNews, Emit
  <2> QED BY <1>4, <2>2, <2>3
<1>5. ASSUME NEW i \in unannounced, Announce(i) PROVE HeardInv'
  <2>1. IsTrue(i)'
    BY <1>5, <1>t, MessagesAreTrue DEF MessagesInv
  <2> QED BY <1>1, <1>5, <2>1 DEF Announce, socketVars
<1>6. ASSUME NEW i \in toGateway, OnBroadcast(i) PROVE HeardInv'
  BY <1>1, <1>6, <1>t DEF OnBroadcast, Emit
<1>7. ASSUME toGateway' \subseteq toGateway, \A s \in Socket : seen'[s] \subseteq seen[s]
      PROVE  HeardInv'
  BY <1>1, <1>7
<1>8. CASE ChatEvent
  <2>1. ASSUME NEW s \in Socket, HandleDisconnect(s) PROVE HeardInv'
    BY <1>7, <1>t, <2>1 DEF HandleDisconnect
  <2> QED BY <1>2, <1>6, <1>7, <1>8, <2>1 DEF ChatEvent, Connect, HandleLeaveRoom, HandleJoinRoom,
        HandleSendMessage, CanJoinRoom, JoinRoom, EnterRoom, socketVars
<1>9. CASE TransferRoute
  BY <1>4, <1>7, <1>9 DEF TransferRoute, InitTransfer, UpdateTransferStatus, GetTransferData,
     CancelTransfer, StoreRecord, RequestFails, socketVars
<1>10. CASE Environment
  BY <1>5, <1>7, <1>10 DEF Environment, Participate, StoreMessage, ExpireRecord, SubscriberLost,
     Restart, socketVars
<1>11. CASE UNCHANGED vars
  BY <1>7, <1>11 DEF vars
<1> QED BY <1>8, <1>9, <1>10, <1>11 DEF Next

(* What a room hears of a transfer is in Redis or was, and follows an      *)
(* initiation in that room: however updates interleave with new transfers  *)
(* of the adoption, expiry and restarts.                                   *)
THEOREM NewsIsAlwaysTrue == Spec => []NewsIsTrue
<1>1. TypeOK /\ NewsInv /\ [Next]_vars => NewsInv'
  BY RecordsStep, MessagesStep, HeardStep DEF NewsInv
<1>2. NewsInv => NewsIsTrue
  BY DEF NewsInv, HeardInv, NewsIsTrue, IsTrue, Initiated
<1> QED
  BY <1>1, <1>2, ChatTypes, NewsInit, PTL DEF Spec

=============================================================================
