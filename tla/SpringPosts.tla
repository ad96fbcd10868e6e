---------------------------- MODULE SpringPosts ----------------------------
(***************************************************************************)
(* The routes of SpringController, through SpringProxyService: requests    *)
(* that are forwarded to Spring, some after the images they name have been *)
(* moved from temp/ to the folder of the post, and what the client is told *)
(* when S3 or Spring fails or does not answer in time.  The routes are     *)
(* behind SpringAuthGuard, the subject of AuthSession.                     *)
(*                                                                         *)
(* A request is sent once: a client that tries again sends another one.    *)
(***************************************************************************)
EXTENDS Naturals, Sequences

CONSTANTS
  Image,      \* file names
  MaxImages,  \* bound on the names in one request
  Request,    \* requests
  Status      \* the error statuses Spring answers with

ASSUME StatusAssumption == Status \subseteq 400..599
ASSUME MaxImagesAssumption == MaxImages \in Nat

(* Where the posts with images of each area of Spring's API, the part of   *)
(* the path behind /api/, keep them.                                       *)
Folder == {"adoption", "diary", "review", "donation"}
Area == {"adoption", "story", "like", "comment", "chat", "donation", "payment",
         "pet", "shelter", "admin"}

(* What Spring is asked for: a new post, new contents or the deletion of   *)
(* one, something of a chat that may not exist yet, or what concerns the   *)
(* gateway no further.                                                     *)
Effect == {"create", "update", "delete", "chat", "other"}

VARIABLES
  url,    \* images with a presigned URL
  temp,   \* images in temp/
  perm,   \* <<folder, image>> in permanent storage
  asked,  \* what each request asks for
  h,      \* the handler of each request
  inbox,  \* requests Spring has received and not yet handled
  reply,  \* status of Spring's reply to each request, 0 before
  taken,  \* requests Spring has carried out
  posts   \* the post each request created: its folder and images

fileVars   == <<url, temp, perm>>
springVars == <<inbox, reply, taken, posts>>
vars == <<url, temp, perm, asked, h, inbox, reply, taken, posts>>

Pc == {"new", "copy", "delete", "call", "wait", "answered", "lost"}
Names == UNION {[1..n -> Image] : n \in 0..MaxImages}

(* about: the request that created the post this one is about.             *)
Question == [area : Area, effect : Effect, folder : Folder, about : Request,
             images : SUBSET Image]
NoQuestion(r) == [area |-> "adoption", effect |-> "create", folder |-> "adoption",
                  about |-> r, images |-> {}]

(* left: the images still to be moved; status and code: the answer.        *)
Handler == [pc : Pc, left : Seq(Image), status : Nat, code : Nat]
At(pc, left) == [pc |-> pc, left |-> left, status |-> 0, code |-> 0]
Goto(r, pc, left) == h' = [h EXCEPT ![r] = At(pc, left)]

NoPost == [folder |-> "none", images |-> {}]

Init ==
  /\ url = {} /\ temp = {} /\ perm = {}
  /\ asked = [r \in Request |-> NoQuestion(r)]
  /\ h = [r \in Request |-> At("new", <<>>)]
  /\ inbox = {} /\ reply = [r \in Request |-> 0] /\ taken = {}
  /\ posts = [r \in Request |-> NoPost]

---------------------------------------------------------------------------
(* Errors: the code is the number in SPRING_<number>.                      *)

NotFoundCode(area) ==
  CASE area = "adoption" -> 4301 [] area = "story" -> 4401 [] area = "chat" -> 4501
    [] area = "donation" -> 4601 [] area = "payment" -> 4701
    [] area = "pet" -> 4201 [] OTHER -> 4004

MapHttpStatusToSpringError(status, area) ==
  CASE status = 401 -> 4001 [] status = 403 -> 4003
    [] status = 404 -> NotFoundCode(area)
    [] status = 409 -> 4009 [] status = 422 -> 4022
    [] status = 503 -> 5003 [] status = 504 -> 5004
    [] status \notin {503, 504} /\ status >= 500 -> 5000
    [] OTHER -> 4000

(* errorCode.startsWith('SPRING_5') *)
IsRetryableError(code) == 5000 <= code /\ code < 6000

(* A request without a response. *)
NetworkStatus(cause) == IF cause = "ECONNABORTED" THEN 504 ELSE 503

(* Mutant: a timeout is a bad request. *)
NetworkCode_Final(cause) == IF cause = "ECONNABORTED" THEN 4000 ELSE 5201

NetworkCode(cause) == IF cause = "ECONNABORTED" THEN 5202 ELSE 5201

Answered(r, status, code) ==
  h' = [h EXCEPT ![r] = [pc |-> "answered", left |-> <<>>, status |-> status,
                         code |-> code]]

---------------------------------------------------------------------------
(* Images reach temp/ by a presigned URL, which may be used again while it *)
(* is valid; the five minutes after which it is not are left open.         *)
CreatePresignedUrl(i) ==
  /\ i \notin url
  /\ url' = url \cup {i}
  /\ UNCHANGED <<temp, perm, asked, h, springVars>>

Upload(i) ==
  /\ i \in url
  /\ temp' = temp \cup {i}
  /\ UNCHANGED <<url, perm, asked, h, springVars>>

---------------------------------------------------------------------------
(* Requests. *)

Ask(r, area, folder, effect, about, images) ==
  asked' = [asked EXCEPT ![r] = [area |-> area, effect |-> effect, folder |-> folder,
                                 about |-> about, images |-> images]]

Begin(r, area, effect, about) ==
  /\ h[r].pc = "new"
  /\ Ask(r, area, "adoption", effect, about, {})
  /\ Goto(r, "call", <<>>)
  /\ UNCHANGED <<fileVars, springVars>>

(* A request whose images field is not empty moves them first. *)
BeginPost(r, area, folder, effect, about) ==
  \E names \in Names :
    /\ h[r].pc = "new"
    /\ Ask(r, area, folder, effect, about, {names[n] : n \in DOMAIN names})
    /\ Goto(r, IF names = <<>> THEN "call" ELSE "copy", names)
    /\ UNCHANGED <<fileVars, springVars>>

CreateAdoptionPost(r) == BeginPost(r, "adoption", "adoption", "create", r)
CreateDailyStory(r)   == BeginPost(r, "story", "diary", "create", r)
CreateReviewStory(r)  == BeginPost(r, "story", "review", "create", r)
CreateDonationPost(r) == BeginPost(r, "donation", "donation", "create", r)
UpdateAdoptionPost(r) ==
  \E other \in Request \ {r} : BeginPost(r, "adoption", "adoption", "update", other)

About(r, area, effect) == \E other \in Request \ {r} : Begin(r, area, effect, other)

DeleteDailyStory(r)  == About(r, "story", "delete")
DeleteReviewStory(r) == About(r, "story", "delete")
FinalizeAdoption(r)  == About(r, "adoption", "other")
ToggleLike(r)        == About(r, "like", "other")
WriteComment(r)      == About(r, "comment", "other")
DeleteComment(r)     == About(r, "comment", "other")
CreateChatRoom(r)    == About(r, "chat", "other")
MakeDonation(r)      == About(r, "donation", "other")
PreparePayment(r)    == Begin(r, "payment", "other", r)
ApprovePayment(r)    == About(r, "payment", "other")
GetChatRoomList(r)    == Begin(r, "chat", "chat", r)
GetChatRoomCard(r)    == Begin(r, "chat", "chat", r)
EnterChatRoom(r)      == Begin(r, "chat", "chat", r)
GetChatAdoptionInfo(r) == Begin(r, "chat", "chat", r)

(* Routes that only read. *)
GetMyPets(r)         == Begin(r, "pet", "other", r)
GetAdoptions(r)      == Begin(r, "adoption", "other", r)
GetAdoptionDetail(r) == About(r, "adoption", "other")
GetAdoptionHome(r)   == Begin(r, "adoption", "other", r)
GetDailyStories(r)   == Begin(r, "story", "other", r)
GetReviewStories(r)  == Begin(r, "story", "other", r)
GetComments(r)       == About(r, "comment", "other")
GetDonationList(r)   == Begin(r, "donation", "other", r)
GetDonation(r)       == About(r, "donation", "other")
GetMyDonationHistory(r) == Begin(r, "donation", "other", r)
GetMyBoneBalance(r)  == Begin(r, "donation", "other", r)
GetAdminMembers(r)   == Begin(r, "admin", "other", r)
GetShelters(r)       == Begin(r, "shelter", "other", r)

---------------------------------------------------------------------------
(* save...ToPermanentStorage for each name: copyObject, then deleteObject. *)

(* Mutant: one of the four copies keeps the folder it was copied from. *)
CopyImage_Diary(r) ==
  LET folder == IF asked[r].folder = "review" THEN "diary" ELSE asked[r].folder IN
  /\ h[r].pc = "copy"
  /\ Head(h[r].left) \in temp
  /\ perm' = perm \cup {<<folder, Head(h[r].left)>>}
  /\ Goto(r, "delete", h[r].left)
  /\ UNCHANGED <<url, temp, asked, springVars>>

CopyImage(r) ==
  LET image == Head(h[r].left) IN
  /\ h[r].pc = "copy"
  /\ image \in temp
  /\ perm' = perm \cup {<<asked[r].folder, image>>}
  /\ Goto(r, "delete", h[r].left)
  /\ UNCHANGED <<url, temp, asked, springVars>>

DeleteImage(r) ==
  /\ h[r].pc = "delete"
  /\ temp' = temp \ {Head(h[r].left)}
  /\ Goto(r, IF Len(h[r].left) = 1 THEN "call" ELSE "copy", Tail(h[r].left))
  /\ UNCHANGED <<url, perm, asked, springVars>>

(* Mutant: the copy and the deletion are sent together. *)
S3Fails_Deleted(r) ==
  /\ h[r].pc \in {"copy", "delete"}
  /\ temp' \in {temp, temp \ {Head(h[r].left)}}
  /\ Answered(r, 500, 0)
  /\ UNCHANGED <<url, perm, asked, springVars>>

(* S3 fails or does not have the file, which another request may have      *)
(* moved: 500, without an error code.                                      *)
S3Fails(r) ==
  /\ h[r].pc \in {"copy", "delete"}
  /\ \/ UNCHANGED temp
     \/ h[r].pc = "delete" /\ temp' = temp \ {Head(h[r].left)}
  /\ Answered(r, 500, 0)
  /\ UNCHANGED <<url, perm, asked, springVars>>

---------------------------------------------------------------------------
(* proxyToSpring *)

CallSpring(r) ==
  /\ h[r].pc = "call"
  /\ inbox' = inbox \cup {r}
  /\ Goto(r, "wait", <<>>)
  /\ UNCHANGED <<fileVars, asked, reply, taken, posts>>

ConnectionRefused(r) ==
  /\ h[r].pc = "call"
  /\ Answered(r, NetworkStatus("ECONNREFUSED"), NetworkCode("ECONNREFUSED"))
  /\ UNCHANGED <<fileVars, asked, springVars>>

(* What does not exist yet of a chat is answered as if it were empty. *)
ReceiveReply(r) ==
  LET status == reply[r] IN
  /\ h[r].pc = "wait" /\ status # 0
  /\ IF status < 400 \/ (asked[r].effect = "chat" /\ status = 404)
       THEN Answered(r, 200, 0)
       ELSE Answered(r, status, MapHttpStatusToSpringError(status, asked[r].area))
  /\ UNCHANGED <<fileVars, asked, springVars>>

(* 30 seconds without a reply; Spring may have the request, and handle it  *)
(* later.                                                                  *)
Timeout(r) ==
  /\ h[r].pc = "wait"
  /\ Answered(r, NetworkStatus("ECONNABORTED"), NetworkCode("ECONNABORTED"))
  /\ UNCHANGED <<fileVars, asked, springVars>>

ConnectionLost(r) ==
  /\ h[r].pc = "wait"
  /\ Answered(r, NetworkStatus("ECONNRESET"), NetworkCode("ECONNRESET"))
  /\ UNCHANGED <<fileVars, asked, springVars>>

---------------------------------------------------------------------------
(* Spring. *)

CarryOut(r) ==
  /\ r \in inbox
  /\ asked[r].about # r => posts[asked[r].about] # NoPost
  /\ posts' =
       LET post == [folder |-> asked[r].folder, images |-> asked[r].images] IN
       [posts EXCEPT ![asked[r].about] =
          IF asked[r].effect \in {"create", "update"} THEN post
          ELSE IF asked[r].effect = "delete" THEN NoPost ELSE @]
  /\ taken' = taken \cup {r}
  /\ inbox' = inbox \ {r}
  /\ reply' \in {[reply EXCEPT ![r] = s] : s \in {200} \cup {t \in Status : t >= 500}}
  /\ UNCHANGED <<fileVars, asked, h>>

RefuseRequest(r) ==
  /\ r \in inbox
  /\ inbox' = inbox \ {r}
  /\ \E s \in Status : reply' = [reply EXCEPT ![r] = s]
  /\ UNCHANGED <<fileVars, asked, h, taken, posts>>

---------------------------------------------------------------------------
(* The gateway restarts: the connections of its clients break. *)
Restart ==
  /\ h' = [r \in Request |->
             IF h[r].pc \in {"new", "answered", "lost"} THEN h[r]
             ELSE At("lost", <<>>)]
  /\ UNCHANGED <<fileVars, asked, springVars>>

Submit(r) ==
  \/ CreateAdoptionPost(r) \/ UpdateAdoptionPost(r) \/ FinalizeAdoption(r)
  \/ CreateDailyStory(r) \/ DeleteDailyStory(r)
  \/ CreateReviewStory(r) \/ DeleteReviewStory(r)
  \/ ToggleLike(r) \/ WriteComment(r) \/ DeleteComment(r)
  \/ CreateChatRoom(r) \/ GetChatRoomList(r) \/ GetChatRoomCard(r)
  \/ EnterChatRoom(r) \/ GetChatAdoptionInfo(r)
  \/ CreateDonationPost(r) \/ MakeDonation(r) \/ PreparePayment(r) \/ ApprovePayment(r)

Read(r) ==
  \/ GetMyPets(r) \/ GetAdoptions(r) \/ GetAdoptionDetail(r) \/ GetAdoptionHome(r)
  \/ GetDailyStories(r) \/ GetReviewStories(r) \/ GetComments(r)
  \/ GetDonationList(r) \/ GetDonation(r) \/ GetMyDonationHistory(r)
  \/ GetMyBoneBalance(r) \/ GetAdminMembers(r) \/ GetShelters(r)

MoveImages(r) == CopyImage(r) \/ DeleteImage(r) \/ S3Fails(r)
ProxyToSpring(r) ==
  CallSpring(r) \/ ConnectionRefused(r) \/ ReceiveReply(r) \/ Timeout(r) \/ ConnectionLost(r)

Next ==
  \/ \E r \in Request : \/ Submit(r) \/ Read(r) \/ MoveImages(r) \/ ProxyToSpring(r)
                        \/ CarryOut(r) \/ RefuseRequest(r)
  \/ \E i \in Image : CreatePresignedUrl(i) \/ Upload(i)
  \/ Restart

Spec == Init /\ [][Next]_vars

---------------------------------------------------------------------------
(* Type invariant. *)
TypeOK ==
  /\ url \subseteq Image /\ temp \subseteq Image /\ perm \subseteq Folder \X Image
  /\ asked \in [Request -> Question] /\ h \in [Request -> Handler]
  /\ \A r \in Request : h[r].pc \in {"copy", "delete"} <=> h[r].left # <<>>
  /\ inbox \subseteq Request /\ taken \subseteq Request
  /\ reply \in [Request -> {0, 200} \cup Status]
  /\ posts \in [Request -> [folder : Folder \cup {"none"}, images : SUBSET Image]]

(* No step takes an image out of the storage altogether, whatever fails    *)
(* between the copy and the deletion and whoever moves the same file.      *)
Stored == temp \cup {p[2] : p \in perm}
NoImageLost == [][Stored \subseteq Stored']_vars

(* Every image a post shows is in the folder its URL names, also when      *)
(* another request moved the file, perhaps to another folder, meanwhile.   *)
PostsShowImages ==
  \A r \in Request : {<<posts[r].folder, i>> : i \in posts[r].images} \subseteq perm

(* What the client is told stays true although Spring may act after the    *)
(* gateway has given up: after a success Spring has carried the request    *)
(* out, and after an error it is told not to retry Spring never will.      *)
Succeeded(r) == h[r].pc = "answered" /\ h[r].status < 400
Refused(r) == h[r].pc = "answered" /\ h[r].code # 0 /\ ~IsRetryableError(h[r].code)
AnswersAreTrue ==
  \A r \in Request :
    /\ Succeeded(r) => r \in taken \/ asked[r].effect = "chat"
    /\ Refused(r) => r \notin taken \cup inbox
============================================================================
