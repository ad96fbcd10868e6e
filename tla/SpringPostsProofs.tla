------------------------- MODULE SpringPostsProofs -------------------------
(* What the client is told of a forwarded request is true, for any number  *)
(* of requests and images and any statuses Spring may answer with.         *)
EXTENDS SpringPosts, SequenceTheorems, TLAPS

(* An error code is retryable exactly if it stands for a server error.     *)
LEMMA RetryableIsServerError ==
  ASSUME NEW status \in 400..599, NEW area
  PROVE  IsRetryableError(MapHttpStatusToSpringError(status, area)) <=> status >= 500
<1>1. NotFoundCode(area) \in {4301, 4401, 4501, 4601, 4701, 4201, 4004}
  BY DEF NotFoundCode
<1>2. CASE status < 500
  <2>1. MapHttpStatusToSpringError(status, area)
          \in {4001, 4003, NotFoundCode(area), 4009, 4022, 4000}
    BY <1>2 DEF MapHttpStatusToSpringError
  <2> QED
    BY <1>1, <1>2, <2>1 DEF IsRetryableError
<1>3. CASE status >= 500
  <2>1. MapHttpStatusToSpringError(status, area) \in {5003, 5004, 5000}
    BY <1>3 DEF MapHttpStatusToSpringError
  <2> QED
    BY <1>3, <2>1 DEF IsRetryableError
<1> QED
  BY <1>2, <1>3

LEMMA CodesAreNumbers ==
  ASSUME NEW status \in 400..599, NEW area
  PROVE  MapHttpStatusToSpringError(status, area) \in Nat
<1>1. NotFoundCode(area) \in Nat
  BY DEF NotFoundCode
<1> QED
  BY <1>1 DEF MapHttpStatusToSpringError

(* A request without a response is always told to try again. *)
LEMMA NetworkErrorsAreRetryable ==
  ASSUME NEW cause
  PROVE  /\ IsRetryableError(NetworkCode(cause))
         /\ NetworkStatus(cause) \in Nat /\ NetworkStatus(cause) >= 400
         /\ NetworkCode(cause) \in Nat
BY DEF IsRetryableError, NetworkCode, NetworkStatus

LEMMA TailEmpty ==
  ASSUME NEW S, NEW s \in Seq(S), s # <<>>
  PROVE  Tail(s) \in Seq(S) /\ (Tail(s) = <<>> <=> Len(s) = 1)
<1>1. Tail(s) \in Seq(S) /\ Len(Tail(s)) = Len(s) - 1 /\ Len(s) \in Nat
  BY HeadTailProperties, LenProperties
<1>2. Tail(s) = <<>> <=> Len(Tail(s)) = 0
  BY <1>1, EmptySeq
<1> QED
  BY <1>1, <1>2

LEMMA NamesAreSequences ==
  ASSUME NEW names \in Names
  PROVE  names \in Seq(Image) /\ {names[n] : n \in DOMAIN names} \subseteq Image
BY MaxImagesAssumption DEF Names

---------------------------------------------------------------------------
(* Before the call Spring knows nothing of the request; a reply takes it   *)
(* out of the inbox and, unless it is a server error, tells whether it was *)
(* carried out.                                                            *)
ReplyTellsTruth(r) ==
  /\ h[r].pc \in {"new", "copy", "delete", "call"} =>
       r \notin inbox \cup taken /\ reply[r] = 0
  /\ r \in inbox => reply[r] = 0 /\ r \notin taken
  /\ reply[r] = 200 => r \in taken
  /\ r \in taken => reply[r] = 200 \/ reply[r] >= 500

AnswerTellsTruth(r) ==
  /\ Succeeded(r) => r \in taken \/ asked[r].effect = "chat"
  /\ Refused(r) => r \notin taken \cup inbox

IInv == TypeOK /\ \A r \in Request : ReplyTellsTruth(r) /\ AnswerTellsTruth(r)

LEMMA InitIInv == Init => IInv
<1> SUFFICES ASSUME Init PROVE IInv
  OBVIOUS
<1>1. TypeOK
  <2>1. asked \in [Request -> Question]
    BY DEF Init, NoQuestion, Question, Area, Effect, Folder
  <2>2. h \in [Request -> Handler]
    BY DEF Init, At, Handler, Pc
  <2>3. \A r \in Request : h[r].pc = "new" /\ h[r].left = <<>>
    BY DEF Init, At
  <2>4. posts \in [Request -> [folder : Folder \cup {"none"}, images : SUBSET Image]]
    BY DEF Init, NoPost
  <2> QED
    BY <2>1, <2>2, <2>3, <2>4 DEF Init, TypeOK
<1>2. ASSUME NEW r \in Request PROVE ReplyTellsTruth(r) /\ AnswerTellsTruth(r)
  BY DEF Init, At, ReplyTellsTruth, AnswerTellsTruth, Succeeded, Refused
<1> QED
  BY <1>1, <1>2 DEF IInv

(* A step that changes one handler and no more than its question and the   *)
(* files keeps the invariant, unless it goes back to before the call or    *)
(* gives an answer that is false.                                          *)
LEMMA HandlerChanges ==
  ASSUME IInv, NEW r \in Request, NEW w \in Handler, NEW question \in Question,
         h' = [h EXCEPT ![r] = w],
         asked' = [asked EXCEPT ![r] = question],
         w.pc \in {"copy", "delete"} <=> w.left # <<>>,
         w.pc \in {"new", "copy", "delete", "call"} =>
           h[r].pc \in {"new", "copy", "delete", "call"},
         w.pc = "answered" =>
           /\ w.status < 400 => r \in taken \/ question.effect = "chat"
           /\ w.code # 0 /\ ~IsRetryableError(w.code) => r \notin taken \cup inbox,
         url' \subseteq Image, temp' \subseteq Image, perm' \subseteq Folder \X Image,
         UNCHANGED springVars
  PROVE  IInv'
<1> USE DEF springVars
<1>1. h' \in [Request -> Handler] /\ asked' \in [Request -> Question]
  BY DEF IInv, TypeOK
<1>2. /\ h'[r] = w /\ asked'[r] = question
      /\ \A q \in Request : q # r => h'[q] = h[q] /\ asked'[q] = asked[q]
  BY DEF IInv, TypeOK
<1>3. TypeOK'
  BY <1>1, <1>2 DEF IInv, TypeOK
<1>4. ASSUME NEW q \in Request PROVE (ReplyTellsTruth(q) /\ AnswerTellsTruth(q))'
  <2>1. CASE q = r
    BY <1>2, <2>1 DEF IInv, ReplyTellsTruth, AnswerTellsTruth, Succeeded, Refused
  <2>2. CASE q # r
    BY <1>2, <2>2 DEF IInv, ReplyTellsTruth, AnswerTellsTruth, Succeeded, Refused
  <2> QED
    BY <2>1, <2>2
<1> QED
  BY <1>3, <1>4 DEF IInv

(* What the type invariant says of one request. *)
LEMMA RequestType ==
  ASSUME IInv, NEW r \in Request
  PROVE  /\ h[r] \in Handler /\ h[r].left \in Seq(Image) /\ asked[r] \in Question
         /\ asked[r].folder \in Folder
         /\ h[r].pc \in {"copy", "delete"} <=> h[r].left # <<>>
         /\ url \subseteq Image /\ temp \subseteq Image /\ perm \subseteq Folder \X Image
         /\ asked = [asked EXCEPT ![r] = asked[r]]
BY DEF IInv, TypeOK, Handler, Question

(* A question is asked; nothing is answered yet. *)
LEMMA AskKeeps ==
  ASSUME IInv, NEW r \in Request, NEW area \in Area, NEW folder \in Folder,
         NEW effect \in Effect, NEW about \in Request, NEW images \in SUBSET Image,
         NEW left \in Seq(Image), h[r].pc = "new",
         Ask(r, area, folder, effect, about, images),
         Goto(r, IF left = <<>> THEN "call" ELSE "copy", left),
         UNCHANGED <<fileVars, springVars>>
  PROVE  IInv'
<1> DEFINE w == At(IF left = <<>> THEN "call" ELSE "copy", left)
           question == [area |-> area, effect |-> effect, folder |-> folder,
                        about |-> about, images |-> images]
<1>1. question \in Question
  BY DEF Question
<1>2. w \in Handler /\ w.left = left /\ w.pc = IF left = <<>> THEN "call" ELSE "copy"
  BY DEF At, Handler, Pc
<1>3. h' = [h EXCEPT ![r] = w] /\ asked' = [asked EXCEPT ![r] = question]
  BY DEF Goto, Ask
<1> HIDE DEF w, question
<1> QED
  BY <1>1, <1>2, <1>3, RequestType, HandlerChanges DEF fileVars

LEMMA BeginKeeps ==
  ASSUME IInv, NEW r \in Request, NEW area \in Area, NEW effect \in Effect,
         NEW about \in Request, Begin(r, area, effect, about)
  PROVE  IInv'
<1>1. "adoption" \in Folder /\ <<>> \in Seq(Image)
  BY DEF Folder
<1>2. /\ h[r].pc = "new" /\ Ask(r, area, "adoption", effect, about, {})
      /\ Goto(r, IF <<>> = <<>> THEN "call" ELSE "copy", <<>>)
      /\ UNCHANGED <<fileVars, springVars>>
  BY DEF Begin
<1> QED
  BY <1>1, <1>2, AskKeeps

LEMMA BeginPostKeeps ==
  ASSUME IInv, NEW r \in Request, NEW area \in Area, NEW folder \in Folder,
         NEW effect \in Effect, NEW about \in Request,
         BeginPost(r, area, folder, effect, about)
  PROVE  IInv'
<1>1. PICK names \in Names :
        /\ h[r].pc = "new"
        /\ Ask(r, area, folder, effect, about, {names[n] : n \in DOMAIN names})
        /\ Goto(r, IF names = <<>> THEN "call" ELSE "copy", names)
        /\ UNCHANGED <<fileVars, springVars>>
  BY DEF BeginPost
<1>2. names \in Seq(Image) /\ {names[n] : n \in DOMAIN names} \in SUBSET Image
  BY NamesAreSequences
<1> QED
  BY <1>1, <1>2, AskKeeps

(* The handler goes on, to a place that is not before the call if it is    *)
(* not there already.                                                      *)
LEMMA GotoKeeps ==
  ASSUME IInv, NEW r \in Request, NEW pc \in Pc \ {"answered"}, NEW left \in Seq(Image),
         Goto(r, pc, left), pc \in {"copy", "delete"} <=> left # <<>>,
         h[r].pc \in {"new", "copy", "delete", "call"},
         url' \subseteq Image, temp' \subseteq Image, perm' \subseteq Folder \X Image,
         UNCHANGED <<asked, springVars>>
  PROVE  IInv'
<1> DEFINE w == At(pc, left)
<1>1. w \in Handler /\ w.left = left /\ w.pc = pc
  BY DEF At, Handler
<1>2. h' = [h EXCEPT ![r] = w] /\ asked' = [asked EXCEPT ![r] = asked[r]]
  BY RequestType DEF Goto
<1> HIDE DEF w
<1> QED
  BY <1>1, <1>2, RequestType, HandlerChanges

(* An answer keeps the invariant if it is true. *)
LEMMA AnswerKeeps ==
  ASSUME IInv, NEW r \in Request, NEW status \in Nat, NEW code \in Nat,
         Answered(r, status, code),
         status < 400 => r \in taken \/ asked[r].effect = "chat",
         code # 0 /\ ~IsRetryableError(code) => r \notin taken \cup inbox,
         url' \subseteq Image, temp' \subseteq Image, perm' \subseteq Folder \X Image,
         UNCHANGED <<asked, springVars>>
  PROVE  IInv'
<1> DEFINE w == [pc |-> "answered", left |-> <<>>, status |-> status, code |-> code]
<1>1. /\ w \in Handler /\ w.pc = "answered" /\ w.status = status
      /\ w.code = code /\ w.left = <<>>
  BY DEF Handler, Pc
<1>2. h' = [h EXCEPT ![r] = w] /\ asked' = [asked EXCEPT ![r] = asked[r]]
  BY RequestType DEF Answered
<1> HIDE DEF w
<1> QED
  BY <1>1, <1>2, RequestType, HandlerChanges

LEMMA SubmitKeeps ==
  ASSUME IInv, NEW r \in Request, Submit(r) \/ Read(r)
  PROVE  IInv'
<1> USE DEF Area, Effect, Folder
<1>1. CASE \E area \in Area, effect \in Effect, about \in Request :
             Begin(r, area, effect, about)
  BY <1>1, BeginKeeps
<1>2. CASE \E area \in Area, folder \in Folder, effect \in Effect, about \in Request :
             BeginPost(r, area, folder, effect, about)
  BY <1>2, BeginPostKeeps
<1>3. CASE CreateAdoptionPost(r) \/ UpdateAdoptionPost(r) \/ CreateDailyStory(r)
             \/ CreateReviewStory(r) \/ CreateDonationPost(r)
  BY <1>2, <1>3 DEF CreateAdoptionPost, UpdateAdoptionPost, CreateDailyStory,
       CreateReviewStory, CreateDonationPost
<1>4. CASE FinalizeAdoption(r) \/ DeleteDailyStory(r) \/ DeleteReviewStory(r)
             \/ ToggleLike(r) \/ WriteComment(r) \/ DeleteComment(r)
             \/ CreateChatRoom(r) \/ MakeDonation(r) \/ ApprovePayment(r)
  BY <1>1, <1>4 DEF About, FinalizeAdoption, DeleteDailyStory, DeleteReviewStory,
       ToggleLike, WriteComment, DeleteComment, CreateChatRoom, MakeDonation,
       ApprovePayment
<1>5. CASE GetChatRoomList(r) \/ GetChatRoomCard(r) \/ EnterChatRoom(r)
             \/ GetChatAdoptionInfo(r) \/ PreparePayment(r)
  BY <1>1, <1>5 DEF GetChatRoomList, GetChatRoomCard, EnterChatRoom, GetChatAdoptionInfo,
       PreparePayment
<1>6. CASE Read(r)
  BY <1>1, <1>6 DEF About, Read, GetMyPets, GetAdoptions, GetAdoptionDetail,
       GetAdoptionHome, GetDailyStories, GetReviewStories, GetComments, GetDonationList,
       GetDonation, GetMyDonationHistory, GetMyBoneBalance, GetAdminMembers, GetShelters
<1> QED
  BY <1>3, <1>4, <1>5, <1>6 DEF Submit

LEMMA MoveImagesKeeps ==
  ASSUME IInv, NEW r \in Request, MoveImages(r)
  PROVE  IInv'
<1> USE RequestType
<1>1. CASE CopyImage(r)
  <2>1. /\ h[r].pc = "copy" /\ Goto(r, "delete", h[r].left)
        /\ perm' = perm \cup {<<asked[r].folder, Head(h[r].left)>>}
        /\ UNCHANGED <<url, temp, asked, springVars>>
    BY <1>1 DEF CopyImage
  <2>2. h[r].left \in Seq(Image) /\ h[r].left # <<>>
    BY <2>1
  <2>3. perm' \subseteq Folder \X Image
    BY <2>1, <2>2
  <2> QED
    BY <2>1, <2>2, <2>3, GotoKeeps DEF Pc
<1>2. CASE DeleteImage(r)
  <2>1. /\ h[r].pc = "delete"
        /\ Goto(r, IF Len(h[r].left) = 1 THEN "call" ELSE "copy", Tail(h[r].left))
        /\ temp' = temp \ {Head(h[r].left)}
        /\ UNCHANGED <<url, perm, asked, springVars>>
    BY <1>2 DEF DeleteImage
  <2>2. h[r].left \in Seq(Image) /\ h[r].left # <<>>
    BY <2>1
  <2>3. Tail(h[r].left) \in Seq(Image) /\ (Tail(h[r].left) = <<>> <=> Len(h[r].left) = 1)
    BY <2>2, TailEmpty
  <2>4. temp' \subseteq Image
    BY <2>1
  <2> QED
    BY <2>1, <2>3, <2>4, GotoKeeps DEF Pc
<1>3. CASE S3Fails(r)
  <2>1. /\ Answered(r, 500, 0) /\ temp' \subseteq temp
        /\ UNCHANGED <<url, perm, asked, springVars>>
    BY <1>3 DEF S3Fails
  <2>2. url' \subseteq Image /\ temp' \subseteq Image /\ perm' \subseteq Folder \X Image
    BY <2>1
  <2>3. UNCHANGED <<asked, springVars>> /\ 500 \in Nat /\ 0 \in Nat /\ ~(500 < 400)
    BY <2>1
  <2> QED
    BY <2>1, <2>2, <2>3, AnswerKeeps
<1> QED
  BY <1>1, <1>2, <1>3 DEF MoveImages

LEMMA ReceiveReplyKeeps ==
  ASSUME IInv, NEW r \in Request, ReceiveReply(r)
  PROVE  IInv'
<1> DEFINE status == reply[r]
           code == MapHttpStatusToSpringError(status, asked[r].area)
<1>1. /\ h[r].pc = "wait" /\ status # 0
      /\ UNCHANGED <<fileVars, asked, springVars>>
  BY DEF ReceiveReply
<1>2. status = 200 \/ status \in 400..599
  BY <1>1, StatusAssumption DEF IInv, TypeOK
<1>3. CASE status < 400 \/ (asked[r].effect = "chat" /\ status = 404)
  <2>1. Answered(r, 200, 0)
    BY <1>3 DEF ReceiveReply
  <2>2. r \in taken \/ asked[r].effect = "chat"
    BY <1>2, <1>3 DEF IInv, ReplyTellsTruth
  <2> QED
    BY <1>1, <2>1, <2>2, AnswerKeeps, RequestType DEF fileVars
<1>4. CASE ~(status < 400 \/ (asked[r].effect = "chat" /\ status = 404))
  <2>1. Answered(r, status, code)
    BY <1>4 DEF ReceiveReply
  <2>2. status \in 400..599
    BY <1>2, <1>4
  <2>3. code \in Nat /\ (IsRetryableError(code) <=> status >= 500)
    BY <2>2, RetryableIsServerError, CodesAreNumbers
  <2> HIDE DEF code
  <2>4. r \notin inbox /\ (status < 500 => r \notin taken)
    BY <1>1, <2>2 DEF IInv, ReplyTellsTruth
  <2>5. status \in Nat /\ ~(status < 400)
    BY <2>2
  <2>6. ~IsRetryableError(code) => r \notin taken \cup inbox
    BY <2>2, <2>3, <2>4
  <2> QED
    BY <1>1, <2>1, <2>3, <2>5, <2>6, AnswerKeeps, RequestType DEF fileVars
<1> QED
  BY <1>3, <1>4

LEMMA ProxyKeeps ==
  ASSUME IInv, NEW r \in Request, ProxyToSpring(r)
  PROVE  IInv'
<1>1. CASE CallSpring(r)
  <2> DEFINE w == At("wait", <<>>)
  <2>1. /\ h[r].pc = "call" /\ h' = [h EXCEPT ![r] = w] /\ inbox' = inbox \cup {r}
        /\ UNCHANGED <<fileVars, asked, reply, taken, posts>>
    BY <1>1 DEF CallSpring, Goto
  <2>2. w \in Handler /\ w.pc = "wait" /\ w.left = <<>>
    BY DEF At, Handler, Pc
  <2>3. reply[r] = 0 /\ r \notin taken
    BY <2>1 DEF IInv, ReplyTellsTruth
  <2> HIDE DEF w
  <2>4. h' \in [Request -> Handler]
    BY <2>1, <2>2 DEF IInv, TypeOK
  <2>5. h'[r] = w /\ \A q \in Request : q # r => h'[q] = h[q]
    BY <2>1 DEF IInv, TypeOK
  <2>6. TypeOK'
    BY <2>1, <2>2, <2>4, <2>5 DEF fileVars, IInv, TypeOK
  <2>7. ASSUME NEW q \in Request PROVE (ReplyTellsTruth(q) /\ AnswerTellsTruth(q))'
    <3>1. CASE q = r
      BY <2>1, <2>2, <2>3, <2>5, <3>1 DEF IInv, ReplyTellsTruth, AnswerTellsTruth,
           Succeeded, Refused
    <3>2. CASE q # r
      BY <2>1, <2>5, <3>2 DEF IInv, ReplyTellsTruth, AnswerTellsTruth, Succeeded, Refused
    <3> QED
      BY <3>1, <3>2
  <2> QED
    BY <2>6, <2>7 DEF IInv
<1>2. CASE ReceiveReply(r)
  BY <1>2, ReceiveReplyKeeps
<1>3. CASE ConnectionRefused(r) \/ Timeout(r) \/ ConnectionLost(r)
  <2>1. PICK cause \in {"ECONNREFUSED", "ECONNABORTED", "ECONNRESET"} :
          /\ Answered(r, NetworkStatus(cause), NetworkCode(cause))
          /\ UNCHANGED <<fileVars, asked, springVars>>
    BY <1>3 DEF ConnectionRefused, Timeout, ConnectionLost
  <2> QED
    BY <2>1, NetworkErrorsAreRetryable, AnswerKeeps, RequestType DEF fileVars
<1> QED
  BY <1>1, <1>2, <1>3 DEF ProxyToSpring

LEMMA SpringKeeps ==
  ASSUME IInv, NEW r \in Request, CarryOut(r) \/ RefuseRequest(r)
  PROVE  IInv'
<1> USE DEF fileVars
<1>1. CASE CarryOut(r)
  <2>1. reply' \in [Request -> {0, 200} \cup Status]
    BY <1>1 DEF CarryOut, IInv, TypeOK
  <2>2. posts' \in [Request -> [folder : Folder \cup {"none"}, images : SUBSET Image]]
    <3>1. asked[r] \in Question
      BY RequestType
    <3>2. [folder |-> asked[r].folder, images |-> asked[r].images]
            \in [folder : Folder \cup {"none"}, images : SUBSET Image]
      BY <3>1 DEF Question
    <3>3. NoPost \in [folder : Folder \cup {"none"}, images : SUBSET Image]
      BY DEF NoPost
    <3> HIDE DEF NoPost
    <3> QED
      BY <1>1, <3>2, <3>3 DEF CarryOut, IInv, TypeOK
  <2>3. TypeOK'
    BY <1>1, <2>1, <2>2 DEF CarryOut, IInv, TypeOK
  <2>4. reply'[r] = 200 \/ reply'[r] >= 500
    BY <1>1 DEF CarryOut, IInv, TypeOK
  <2>5. \A q \in Request : q # r => reply'[q] = reply[q]
    BY <1>1 DEF CarryOut, IInv, TypeOK
  <2>6. ASSUME NEW q \in Request PROVE (ReplyTellsTruth(q) /\ AnswerTellsTruth(q))'
    BY <1>1, <2>4, <2>5 DEF CarryOut, IInv, ReplyTellsTruth, AnswerTellsTruth,
         Succeeded, Refused
  <2> QED
    BY <2>3, <2>6 DEF IInv
<1>2. CASE RefuseRequest(r)
  <2>1. PICK s \in Status : reply' = [reply EXCEPT ![r] = s]
    BY <1>2 DEF RefuseRequest
  <2>2. s \in 400..599
    BY StatusAssumption
  <2>3. TypeOK'
    BY <1>2, <2>1 DEF RefuseRequest, IInv, TypeOK
  <2>4. ASSUME NEW q \in Request PROVE (ReplyTellsTruth(q) /\ AnswerTellsTruth(q))'
    BY <1>2, <2>1, <2>2 DEF RefuseRequest, IInv, TypeOK, ReplyTellsTruth,
         AnswerTellsTruth, Succeeded, Refused
  <2> QED
    BY <2>3, <2>4 DEF IInv
<1> QED
  BY <1>1, <1>2

LEMMA OthersKeep ==
  ASSUME IInv, Restart \/ (\E i \in Image : CreatePresignedUrl(i) \/ Upload(i))
  PROVE  IInv'
<1>1. CASE Restart
  <2>1. At("lost", <<>>) \in Handler
    BY DEF At, Handler, Pc
  <2>2. /\ At("lost", <<>>).pc = "lost" /\ At("lost", <<>>).left = <<>>
    BY DEF At
  <2>3. \A q \in Request : h'[q] = h[q] \/ h'[q] = At("lost", <<>>)
    BY <1>1 DEF Restart
  <2>4. h' \in [Request -> Handler]
    BY <1>1, <2>1, RequestType DEF Restart
  <2>5. TypeOK'
    BY <1>1, <2>2, <2>3, <2>4 DEF Restart, fileVars, springVars, IInv, TypeOK
  <2>6. ASSUME NEW q \in Request PROVE (ReplyTellsTruth(q) /\ AnswerTellsTruth(q))'
    <3>1. /\ ReplyTellsTruth(q) /\ AnswerTellsTruth(q)
          /\ UNCHANGED <<asked, inbox, reply, taken>>
      BY <1>1 DEF Restart, springVars, IInv
    <3>2. CASE h'[q] = h[q]
      BY <3>1, <3>2 DEF ReplyTellsTruth, AnswerTellsTruth, Succeeded, Refused
    <3>3. CASE h'[q] = At("lost", <<>>)
      BY <2>2, <3>1, <3>3 DEF ReplyTellsTruth, AnswerTellsTruth, Succeeded, Refused
    <3> QED
      BY <2>3, <3>2, <3>3
  <2> QED
    BY <2>5, <2>6 DEF IInv
<1>2. CASE \E i \in Image : CreatePresignedUrl(i) \/ Upload(i)
  <2>1. UNCHANGED <<h, asked, perm, springVars>> /\ url' \subseteq Image /\ temp' \subseteq Image
    BY <1>2 DEF CreatePresignedUrl, Upload, IInv, TypeOK
  <2>2. TypeOK'
    BY <2>1 DEF springVars, IInv, TypeOK
  <2>3. ASSUME NEW q \in Request PROVE (ReplyTellsTruth(q) /\ AnswerTellsTruth(q))'
    BY <2>1 DEF springVars, IInv, ReplyTellsTruth, AnswerTellsTruth, Succeeded, Refused
  <2> QED
    BY <2>2, <2>3 DEF IInv
<1> QED
  BY <1>1, <1>2

LEMMA StepIInv == IInv /\ [Next]_vars => IInv'
<1> SUFFICES ASSUME IInv, [Next]_vars PROVE IInv'
  OBVIOUS
<1>1. ASSUME NEW r \in Request,
             Submit(r) \/ Read(r) \/ MoveImages(r) \/ ProxyToSpring(r) \/ CarryOut(r) \/ RefuseRequest(r)
      PROVE  IInv'
  BY <1>1, SubmitKeeps, MoveImagesKeeps, ProxyKeeps, SpringKeeps
<1>2. CASE Restart \/ (\E i \in Image : CreatePresignedUrl(i) \/ Upload(i))
  BY <1>2, OthersKeep
<1>3. CASE UNCHANGED vars
  <2>1. TypeOK'
    BY <1>3 DEF vars, IInv, TypeOK
  <2>2. ASSUME NEW q \in Request PROVE (ReplyTellsTruth(q) /\ AnswerTellsTruth(q))'
    BY <1>3 DEF vars, IInv, ReplyTellsTruth, AnswerTellsTruth, Succeeded, Refused
  <2> QED
    BY <2>1, <2>2 DEF IInv
<1> QED
  BY <1>1, <1>2, <1>3 DEF Next

LEMMA Invariant == Spec => []IInv
<1> QED
  BY InitIInv, StepIInv, PTL DEF Spec

(* Every reachable state of the proxied requests is well typed, whatever   *)
(* the names, requests and statuses.                                       *)
THEOREM TypeCorrect == Spec => []TypeOK
<1>1. IInv => TypeOK
  BY DEF IInv
<1> QED
  BY <1>1, Invariant, PTL

(* An answer of the gateway is never refuted by what Spring does before or *)
(* after it: success means it was carried out, an error that is not to be  *)
(* retried that it never is.                                               *)
THEOREM AnswersStayTrue == Spec => []AnswersAreTrue
<1>1. IInv => AnswersAreTrue
  BY DEF IInv, AnswerTellsTruth, AnswersAreTrue
<1> QED
  BY <1>1, Invariant, PTL

---------------------------------------------------------------------------
(* The images of a request are where its post will look for them, or still *)
(* ahead in the loop; from the call on they are all there.                 *)
Placed(r, i) == <<asked[r].folder, i>> \in perm
ImagesMoved(r) ==
  /\ h[r].pc \in {"copy", "delete"} =>
       \A i \in asked[r].images :
         Placed(r, i) \/ \E n \in 1..Len(h[r].left) : h[r].left[n] = i
  /\ h[r].pc = "delete" => Placed(r, Head(h[r].left))
  /\ h[r].pc = "call" \/ r \in inbox => \A i \in asked[r].images : Placed(r, i)

ImagesInv == (\A r \in Request : ImagesMoved(r)) /\ PostsShowImages

LEMMA InitImagesInv == Init => ImagesInv
BY DEF Init, At, NoPost, ImagesInv, ImagesMoved, PostsShowImages

(* Permanent storage only grows, so what a step does not touch stays true. *)
LEMMA Untouched ==
  ASSUME NEW r \in Request, ImagesMoved(r), h'[r] = h[r], asked'[r] = asked[r],
         perm \subseteq perm', r \in inbox' => r \in inbox
  PROVE  ImagesMoved(r)'
BY DEF ImagesMoved, Placed

LEMMA PostsKept ==
  ASSUME PostsShowImages, UNCHANGED posts, perm \subseteq perm'
  PROVE  PostsShowImages'
BY DEF PostsShowImages

(* A step of the handler of r that leaves Spring alone. *)
LEMMA HandlerStep ==
  ASSUME ImagesInv, IInv, NEW r \in Request, NEW w, NEW question,
         h' = [h EXCEPT ![r] = w], asked' = [asked EXCEPT ![r] = question],
         perm \subseteq perm', UNCHANGED posts, inbox' \subseteq inbox \cup {r},
         ImagesMoved(r)'
  PROVE  ImagesInv'
<1>1. \A q \in Request : q # r => h'[q] = h[q] /\ asked'[q] = asked[q]
  BY DEF IInv, TypeOK
<1>2. ASSUME NEW q \in Request PROVE ImagesMoved(q)'
  <2>1. CASE q = r
    BY <2>1
  <2>2. CASE q # r
    BY <1>1, <2>2, Untouched DEF ImagesInv
  <2> QED
    BY <2>1, <2>2
<1> QED
  BY <1>2, PostsKept DEF ImagesInv

LEMMA BeginImages ==
  ASSUME ImagesInv, IInv, NEW r \in Request, NEW names \in Seq(Image), h[r].pc = "new",
         NEW area, NEW folder, NEW effect, NEW about, NEW images,
         images = {names[n] : n \in DOMAIN names},
         Ask(r, area, folder, effect, about, images),
         Goto(r, IF names = <<>> THEN "call" ELSE "copy", names),
         UNCHANGED <<fileVars, springVars>>
  PROVE  ImagesInv'
<1> DEFINE w == At(IF names = <<>> THEN "call" ELSE "copy", names)
           question == [area |-> area, effect |-> effect, folder |-> folder,
                        about |-> about, images |-> images]
<1>1. h' = [h EXCEPT ![r] = w] /\ asked' = [asked EXCEPT ![r] = question]
  BY DEF Goto, Ask
<1>2. /\ h'[r].left = names /\ asked'[r].images = images
      /\ h'[r].pc = IF names = <<>> THEN "call" ELSE "copy"
  BY <1>1 DEF At, IInv, TypeOK
<1>3. r \notin inbox
  BY DEF IInv, ReplyTellsTruth
<1>4. \A i \in images : \E n \in 1..Len(names) : names[n] = i
  BY LenProperties
<1>5. names = <<>> => images = {}
  BY <1>4, EmptySeq
<1>6. ImagesMoved(r)'
  BY <1>2, <1>3, <1>4, <1>5 DEF springVars, ImagesMoved, Placed
<1> HIDE DEF w, question
<1> QED
  BY <1>1, <1>6, HandlerStep DEF fileVars, springVars

LEMMA SubmitImages ==
  ASSUME ImagesInv, IInv, NEW r \in Request, Submit(r) \/ Read(r)
  PROVE  ImagesInv'
<1>1. CASE \E area \in Area, effect \in Effect, about \in Request :
             Begin(r, area, effect, about)
  <2>1. PICK area \in Area, effect \in Effect, about \in Request :
          Begin(r, area, effect, about)
    BY <1>1
  <2>2. <<>> \in Seq(Image) /\ {} = {<<>>[n] : n \in DOMAIN <<>>}
    OBVIOUS
  <2>3. /\ h[r].pc = "new" /\ Ask(r, area, "adoption", effect, about, {})
        /\ Goto(r, IF <<>> = <<>> THEN "call" ELSE "copy", <<>>)
        /\ UNCHANGED <<fileVars, springVars>>
    BY <2>1 DEF Begin
  <2> QED
    BY <2>2, <2>3, BeginImages
<1>2. CASE \E area \in Area, folder \in Folder, effect \in Effect, about \in Request :
             BeginPost(r, area, folder, effect, about)
  BY <1>2, BeginImages, NamesAreSequences DEF BeginPost
<1> USE DEF Area, Effect, Folder
<1>3. CASE CreateAdoptionPost(r) \/ UpdateAdoptionPost(r) \/ CreateDailyStory(r)
             \/ CreateReviewStory(r) \/ CreateDonationPost(r)
  BY <1>2, <1>3 DEF CreateAdoptionPost, UpdateAdoptionPost, CreateDailyStory,
       CreateReviewStory, CreateDonationPost
<1>4. CASE FinalizeAdoption(r) \/ DeleteDailyStory(r) \/ DeleteReviewStory(r)
             \/ ToggleLike(r) \/ WriteComment(r) \/ DeleteComment(r)
             \/ CreateChatRoom(r) \/ MakeDonation(r) \/ ApprovePayment(r)
  BY <1>1, <1>4 DEF About, FinalizeAdoption, DeleteDailyStory, DeleteReviewStory,
       ToggleLike, WriteComment, DeleteComment, CreateChatRoom, MakeDonation,
       ApprovePayment
<1>5. CASE GetChatRoomList(r) \/ GetChatRoomCard(r) \/ EnterChatRoom(r)
             \/ GetChatAdoptionInfo(r) \/ PreparePayment(r)
  BY <1>1, <1>5 DEF GetChatRoomList, GetChatRoomCard, EnterChatRoom, GetChatAdoptionInfo,
       PreparePayment
<1>6. CASE Read(r)
  BY <1>1, <1>6 DEF About, Read, GetMyPets, GetAdoptions, GetAdoptionDetail,
       GetAdoptionHome, GetDailyStories, GetReviewStories, GetComments, GetDonationList,
       GetDonation, GetMyDonationHistory, GetMyBoneBalance, GetAdminMembers, GetShelters
<1> QED
  BY <1>3, <1>4, <1>5, <1>6 DEF Submit

LEMMA AnswerImages ==
  ASSUME ImagesInv, IInv, NEW r \in Request, \E status, code : Answered(r, status, code),
         UNCHANGED <<perm, asked, inbox, posts>>
  PROVE  ImagesInv'
<1>1. PICK status, code : Answered(r, status, code)
  OBVIOUS
<1> DEFINE w == [pc |-> "answered", left |-> <<>>, status |-> status, code |-> code]
<1>2. h' = [h EXCEPT ![r] = w] /\ asked' = [asked EXCEPT ![r] = asked[r]]
  BY <1>1, RequestType DEF Answered
<1>3. h'[r].pc = "answered"
  BY <1>2 DEF IInv, TypeOK
<1>4. ImagesMoved(r)'
  BY <1>3 DEF ImagesInv, ImagesMoved, Placed
<1> HIDE DEF w
<1> QED
  BY <1>2, <1>4, HandlerStep

LEMMA MoveImagesImages ==
  ASSUME ImagesInv, IInv, NEW r \in Request, MoveImages(r)
  PROVE  ImagesInv'
<1>0. asked = [asked EXCEPT ![r] = asked[r]] /\ h[r].left \in Seq(Image)
  BY RequestType
<1>1. CASE CopyImage(r)
  <2>1. /\ h[r].pc = "copy" /\ h' = [h EXCEPT ![r] = At("delete", h[r].left)]
        /\ perm' = perm \cup {<<asked[r].folder, Head(h[r].left)>>}
        /\ UNCHANGED <<asked, inbox, posts>>
    BY <1>1 DEF CopyImage, Goto, springVars
  <2>2. h'[r].pc = "delete" /\ h'[r].left = h[r].left
    BY <2>1 DEF At, IInv, TypeOK
  <2>3. r \notin inbox
    BY <2>1 DEF IInv, ReplyTellsTruth
  <2>4. ImagesMoved(r)'
    BY <2>1, <2>2, <2>3 DEF ImagesInv, ImagesMoved, Placed
  <2> QED
    BY <1>0, <2>1, <2>4, HandlerStep
<1>2. CASE DeleteImage(r)
  <2> DEFINE pc == IF Len(h[r].left) = 1 THEN "call" ELSE "copy"
  <2>1. /\ h[r].pc = "delete" /\ h' = [h EXCEPT ![r] = At(pc, Tail(h[r].left))]
        /\ UNCHANGED <<perm, asked, inbox, posts>>
    BY <1>2 DEF DeleteImage, Goto, springVars
  <2>2. h'[r].pc = pc /\ h'[r].left = Tail(h[r].left)
    BY <2>1 DEF At, IInv, TypeOK
  <2>3. r \notin inbox /\ h[r].left # <<>>
    BY <2>1, RequestType DEF IInv, ReplyTellsTruth
  <2>4. /\ Len(Tail(h[r].left)) = Len(h[r].left) - 1 /\ Len(h[r].left) \in Nat \ {0}
        /\ \A n \in 1..Len(Tail(h[r].left)) : Tail(h[r].left)[n] = h[r].left[n + 1]
    BY <1>0, <2>3, HeadTailProperties, EmptySeq
  <2>5. Placed(r, h[r].left[1])
    BY <2>1, <2>3, <1>0 DEF ImagesInv, ImagesMoved
  <2>6. ASSUME NEW i \in asked[r].images
        PROVE  Placed(r, i) \/ \E n \in 1..Len(Tail(h[r].left)) : Tail(h[r].left)[n] = i
    <3>1. CASE Placed(r, i)
      BY <3>1
    <3>2. CASE ~Placed(r, i)
      <4>1. PICK n \in 1..Len(h[r].left) : h[r].left[n] = i
        BY <2>1, <3>2 DEF ImagesInv, ImagesMoved
      <4>2. n # 1
        BY <2>5, <3>2, <4>1
      <4>3. n - 1 \in 1..Len(Tail(h[r].left)) /\ Tail(h[r].left)[n - 1] = i
        BY <2>4, <4>1, <4>2
      <4> QED
        BY <4>3
    <3> QED
      BY <3>1, <3>2
  <2>7. Len(h[r].left) = 1 => \A i \in asked[r].images : Placed(r, i)
    BY <2>4, <2>6
  <2>8. ImagesMoved(r)'
    <3>1. \A i : Placed(r, i)' <=> Placed(r, i)
      BY <2>1 DEF Placed
    <3>2. h'[r].pc \in {"call", "copy"} /\ (h'[r].pc = "call" => Len(h[r].left) = 1)
      BY <2>2
    <3>3. h'[r].left = Tail(h[r].left) /\ asked'[r] = asked[r] /\ r \notin inbox'
      BY <2>1, <2>2, <2>3
    <3> HIDE DEF Placed, pc
    <3> QED
      BY <2>6, <2>7, <3>1, <3>2, <3>3 DEF ImagesMoved
  <2> HIDE DEF pc
  <2> QED
    BY <1>0, <2>1, <2>8, HandlerStep
<1>3. CASE S3Fails(r)
  BY <1>0, <1>3, AnswerImages DEF S3Fails, springVars
<1> QED
  BY <1>1, <1>2, <1>3 DEF MoveImages

LEMMA ProxyImages ==
  ASSUME ImagesInv, IInv, NEW r \in Request, ProxyToSpring(r)
  PROVE  ImagesInv'
<1>0. asked = [asked EXCEPT ![r] = asked[r]]
  BY RequestType
<1>1. CASE CallSpring(r)
  <2>1. /\ h[r].pc = "call" /\ h' = [h EXCEPT ![r] = At("wait", <<>>)]
        /\ inbox' = inbox \cup {r} /\ UNCHANGED <<perm, asked, posts>>
    BY <1>1 DEF CallSpring, Goto, fileVars
  <2>2. h'[r].pc = "wait"
    BY <2>1 DEF At, IInv, TypeOK
  <2>3. ImagesMoved(r)'
    BY <2>1, <2>2 DEF ImagesInv, ImagesMoved, Placed
  <2> QED
    BY <1>0, <2>1, <2>3, HandlerStep
<1>2. CASE ConnectionRefused(r) \/ ReceiveReply(r) \/ Timeout(r) \/ ConnectionLost(r)
  <2>1. \E status, code : Answered(r, status, code)
    BY <1>2 DEF ConnectionRefused, ReceiveReply, Timeout, ConnectionLost
  <2>2. UNCHANGED <<perm, asked, inbox, posts>>
    BY <1>2 DEF ConnectionRefused, ReceiveReply, Timeout, ConnectionLost, fileVars,
         springVars
  <2> QED
    BY <2>1, <2>2, AnswerImages
<1> QED
  BY <1>1, <1>2 DEF ProxyToSpring

LEMMA SpringImages ==
  ASSUME ImagesInv, IInv, NEW r \in Request, CarryOut(r) \/ RefuseRequest(r)
  PROVE  ImagesInv'
<1>1. UNCHANGED <<h, asked, perm>> /\ inbox' \subseteq inbox
  BY DEF CarryOut, RefuseRequest, fileVars
<1>2. \A q \in Request : ImagesMoved(q)'
  BY <1>1, Untouched DEF ImagesInv
<1>3. CASE CarryOut(r)
  <2> DEFINE post == [folder |-> asked[r].folder, images |-> asked[r].images]
  <2>1. \A i \in post.images : <<post.folder, i>> \in perm
    BY <1>3 DEF CarryOut, ImagesInv, ImagesMoved, Placed
  <2>2. NoPost.images = {}
    BY DEF NoPost
  <2> HIDE DEF NoPost, post
  <2>3. \A q \in Request : posts'[q] \in {posts[q], post, NoPost}
    BY <1>3 DEF CarryOut, IInv, TypeOK, post
  <2>4. PostsShowImages'
    BY <1>1, <2>1, <2>2, <2>3 DEF ImagesInv, PostsShowImages
  <2> QED
    BY <1>2, <2>4 DEF ImagesInv
<1>4. CASE RefuseRequest(r)
  BY <1>1, <1>2, <1>4, PostsKept DEF RefuseRequest, ImagesInv
<1> QED
  BY <1>3, <1>4

LEMMA OtherImages ==
  ASSUME ImagesInv, IInv,
         Restart \/ (\E i \in Image : CreatePresignedUrl(i) \/ Upload(i)) \/ UNCHANGED vars
  PROVE  ImagesInv'
<1>1. UNCHANGED <<asked, perm, inbox, posts>>
  BY DEF Restart, CreatePresignedUrl, Upload, vars, fileVars, springVars
<1>2. ASSUME NEW q \in Request PROVE h'[q] = h[q] \/ h'[q].pc = "lost"
  BY DEF Restart, CreatePresignedUrl, Upload, vars, At
<1>3. ASSUME NEW q \in Request PROVE ImagesMoved(q)'
  <2>1. CASE h'[q] = h[q]
    BY <1>1, <2>1, Untouched DEF ImagesInv
  <2>2. CASE h'[q].pc = "lost"
    BY <1>1, <2>2 DEF ImagesInv, ImagesMoved, Placed
  <2> QED
    BY <1>2, <2>1, <2>2
<1> QED
  BY <1>1, <1>3, PostsKept DEF ImagesInv

(* Every image a post shows is in its folder, whatever fails and whoever   *)
(* else moves the same files.                                              *)
THEOREM ImagesAreThere == Spec => []PostsShowImages
<1>1. IInv /\ ImagesInv /\ [Next]_vars => ImagesInv'
  BY SubmitImages, MoveImagesImages, ProxyImages, SpringImages, OtherImages DEF Next
<1>2. ImagesInv => PostsShowImages
  BY DEF ImagesInv
<1> QED
  BY <1>1, <1>2, InitImagesInv, Invariant, PTL DEF Spec

(* Only the deletion takes a file out of temp/, and then its copy is in    *)
(* permanent storage, which nothing leaves.                                *)
LEMMA StepKeepsImages ==
  ASSUME IInv, ImagesInv, Next
  PROVE  Stored \subseteq Stored'
<1>1. ASSUME NEW r \in Request, DeleteImage(r) \/ S3Fails(r)
      PROVE  Stored \subseteq Stored'
  <2>1. /\ perm' = perm
        /\ \/ temp' = temp
           \/ h[r].pc = "delete" /\ temp' = temp \ {Head(h[r].left)}
    BY <1>1 DEF DeleteImage, S3Fails
  <2>2. h[r].pc = "delete" => Head(h[r].left) \in {p[2] : p \in perm}
    <3>1. ASSUME h[r].pc = "delete" PROVE <<asked[r].folder, Head(h[r].left)>> \in perm
      BY <3>1 DEF ImagesInv, ImagesMoved, Placed
    <3>2. <<asked[r].folder, Head(h[r].left)>>[2] = Head(h[r].left)
      OBVIOUS
    <3> QED
      BY <3>1, <3>2
  <2> QED
    BY <2>1, <2>2 DEF Stored
<1>2. CASE temp \subseteq temp' /\ perm \subseteq perm'
  BY <1>2 DEF Stored
<1>3. ASSUME NEW r \in Request, Submit(r) \/ Read(r) PROVE UNCHANGED <<temp, perm>>
  BY <1>3 DEF Submit, CreateAdoptionPost, UpdateAdoptionPost, FinalizeAdoption,
       CreateDailyStory, DeleteDailyStory, CreateReviewStory, DeleteReviewStory,
       ToggleLike, WriteComment, DeleteComment, CreateChatRoom, GetChatRoomList,
       GetChatRoomCard,
       EnterChatRoom, GetChatAdoptionInfo, CreateDonationPost, MakeDonation, PreparePayment, ApprovePayment,
       About, Begin, BeginPost, fileVars,
       Read, GetMyPets, GetAdoptions, GetAdoptionDetail,
       GetAdoptionHome, GetDailyStories, GetReviewStories, GetComments, GetDonationList,
       GetDonation, GetMyDonationHistory, GetMyBoneBalance, GetAdminMembers, GetShelters
<1>4. ASSUME NEW r \in Request, ProxyToSpring(r) \/ CarryOut(r) \/ RefuseRequest(r)
      PROVE  UNCHANGED <<temp, perm>>
  BY <1>4 DEF ProxyToSpring, CallSpring, ConnectionRefused, ReceiveReply, Timeout,
       ConnectionLost, CarryOut, RefuseRequest, fileVars
<1>5. CASE Restart \/ (\E i \in Image : CreatePresignedUrl(i) \/ Upload(i))
  BY <1>2, <1>5 DEF Restart, CreatePresignedUrl, Upload, fileVars
<1>6. ASSUME NEW r \in Request, CopyImage(r) PROVE temp \subseteq temp' /\ perm \subseteq perm'
  BY <1>6 DEF CopyImage
<1> QED
  BY <1>1, <1>2, <1>3, <1>4, <1>5, <1>6 DEF Next, MoveImages

(* Whatever fails between copy and deletion, no image is lost.             *)
THEOREM ImagesAreKept == Spec => NoImageLost
<1>1. IInv /\ ImagesInv /\ [Next]_vars => ImagesInv'
  BY SubmitImages, MoveImagesImages, ProxyImages, SpringImages, OtherImages DEF Next
<1>2. IInv /\ ImagesInv /\ [Next]_vars => [Stored \subseteq Stored']_vars
  BY StepKeepsImages
<1> QED
  BY <1>1, <1>2, InitImagesInv, Invariant, PTL DEF Spec, NoImageLost
============================================================================
