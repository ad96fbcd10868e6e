------------------------- MODULE ControllerHistory -------------------------
(***************************************************************************)
(* What the gateway says of a pet's controllers while PetTransfer goes on. *)
(* GET history asks the indexer, which follows the chain's events at its   *)
(* own pace; when it fails, the gateway reads the events from the chain,   *)
(* and when the node refuses so long a range, the DID document alone.  The *)
(* administrator's pet information reads the document, then the events.    *)
(*                                                                         *)
(* RPC_URL is a load balancer over several nodes (k8s/configmap.yaml), so  *)
(* each call is answered by a node that may be behind the one before it:   *)
(* every read sees a beginning of the chain, of a length of its own.  A    *)
(* query is served once.  The indexer is external: of the events it has    *)
(* taken in it gives the oldest first, and no more than it is asked for.   *)
(***************************************************************************)
EXTENDS PetTransfer, Sequences

CONSTANTS
  Query,      \* history and information requests
  PageLimit   \* entries asked of the indexer (100)

ASSUME PageLimitAssumption == PageLimit \in Nat \ {0}

VARIABLES
  changes,  \* ControllerChanged events of the pet, in the chain's order
  stage,    \* queries: where they are, ...
  kind,     \* ... "history" or "info", ...
  answer    \* ... and their answers

queryVars == <<stage, kind, answer>>
historyVars == <<vars, changes, queryVars>>

(* The events of the pet: None stands for DIDCreated. *)
Events == <<None>> \o changes
ControllerAfter(e) == IF e = None THEN Genesis ELSE call[e].to

NoAnswer == [source |-> "none", document |-> None, current |-> None,
             total |-> 0, history |-> <<>>]

HistoryInit ==
  /\ Init
  /\ changes = <<>>
  /\ stage = [x \in Query |-> "new"] /\ kind = [x \in Query |-> "none"]
  /\ answer = [x \in Query |-> NoAnswer]

---------------------------------------------------------------------------
(* The chain *)

(* changeController emits ControllerChanged. *)
HandedOver == {t \in Mined : call[t] # None}

Emitted ==
  \/ HandedOver' = HandedOver /\ UNCHANGED changes
  \/ \E t \in HandedOver' \ HandedOver : changes' = Append(changes, t)

---------------------------------------------------------------------------
(* The queries *)

Ask(x, what, first) ==
  /\ stage[x] = "new"
  /\ stage' = [stage EXCEPT ![x] = first] /\ kind' = [kind EXCEPT ![x] = what]
  /\ UNCHANGED <<vars, changes, answer>>

AskHistory(x) == Ask(x, "history", "indexer")
AskInfo(x) == Ask(x, "info", "document")

MovesTo(x, next, a) ==
  /\ stage' = [stage EXCEPT ![x] = next] /\ answer' = [answer EXCEPT ![x] = a]
  /\ UNCHANGED <<vars, changes, kind>>

(* The current controller is the one of the last entry, if there is one.   *)
LastOf(history) ==
  IF history = <<>> THEN None ELSE ControllerAfter(history[Len(history)])

Shows(x, source, history, total) ==
  MovesTo(x, "answered",
          [source |-> source, document |-> answer[x].document,
           current |-> LastOf(history), total |-> total, history |-> history])

Page(n) == SubSeq(Events, 1, IF n < PageLimit THEN n ELSE PageLimit)

(* The indexer has the first n events, and may have none yet.              *)
IndexerAnswers(x) ==
  /\ stage[x] = "indexer"
  /\ \E n \in 0..Len(Events) : Shows(x, "indexer", Page(n), n)

(* No answer, or success = false *)
IndexerFails(x) == stage[x] = "indexer" /\ MovesTo(x, "events", answer[x])

(* getPetControllerHistory: DIDCreated, if the node that is asked has it,  *)
(* then every ControllerChanged the node asked next has.                   *)
Registrations == {<<>>, <<None>>}

(* Mutant: only a range of newest blocks is asked for.                     *)
ReadEvents_Recent(x) ==
  /\ stage[x] = "events"
  /\ \E m \in 1..(Len(changes) + 1) :
       Shows(x, "chain", SubSeq(changes, m, Len(changes)), Len(changes) + 1 - m)

ReadEvents(x) ==
  /\ stage[x] = "events"
  /\ \E first \in Registrations, m \in 0..Len(changes) :
       Shows(x, "chain", first \o SubSeq(changes, 1, m), m)

(* The node limits the range of a log query: the history falls back to the *)
(* document, the information goes without a history.                       *)
RangeLimit(x) ==
  /\ stage[x] = "events"
  /\ MovesTo(x, IF kind[x] = "history" THEN "document" ELSE "answered", answer[x])

(* getDIDDocument, of a node that has the first n events; before the first *)
(* the document names nobody.                                              *)
ReadDocument(x) ==
  /\ stage[x] = "document"
  /\ \E n \in 0..Len(Events) :
       LET g == LastOf(SubSeq(Events, 1, n)) IN
       IF kind[x] = "history"
         THEN MovesTo(x, "answered",
                [source |-> "document", document |-> None, current |-> g,
                 total |-> 0, history |-> <<>>])
         ELSE MovesTo(x, "events", [NoAnswer EXCEPT !.document = g])

(* Any other error of the node: a history is not given, the information is *)
(* given without it.  A restart answers nobody.                            *)
QueryFails(x) ==
  /\ stage[x] \in {"events", "document"}
  /\ \/ MovesTo(x, "failed", answer[x])
     \/ kind[x] = "info" /\ stage[x] = "events" /\ MovesTo(x, "answered", answer[x])

Handle(x) ==
  \/ IndexerAnswers(x) \/ IndexerFails(x)
  \/ ReadEvents(x) \/ RangeLimit(x) \/ ReadDocument(x) \/ QueryFails(x)

HistoryNext ==
  \/ Next /\ Emitted /\ UNCHANGED queryVars
  \/ \E x \in Query : AskHistory(x) \/ AskInfo(x) \/ Handle(x)

HistorySpec == HistoryInit /\ [][HistoryNext]_historyVars
FairHistorySpec == HistorySpec /\ Fairness

---------------------------------------------------------------------------
(* Type invariant: the events are executed transfers.                      *)
HistoryTypeOK ==
  /\ TypeOK
  /\ changes \in Seq(HandedOver)
  /\ stage \in [Query -> {"new", "indexer", "events", "document", "answered", "failed"}]
  /\ kind \in [Query -> {"none", "history", "info"}]
  /\ answer \in [Query ->
       [source : {"none", "indexer", "chain", "document"},
        document : Guardian \cup {None}, current : Guardian \cup {None},
        total : Nat, history : Seq(Tx \cup {None})]]

(* A history is a beginning of what the chain executed, each entry once    *)
(* and in its order, at most without the registration, and names the       *)
(* controller of its last entry; the indexer's total tells whether entries *)
(* are missing; and whoever is named as controller, by document or         *)
(* history, has been one, whichever nodes answered and whatever was mined  *)
(* in between.                                                             *)
BeginningOf(s, E) == Len(s) <= Len(E) /\ \A i \in DOMAIN s : s[i] = E[i]

AnswersAreTrue ==
  \A x \in Query : LET a == answer[x] IN
    stage[x] = "answered" =>
      /\ \/ BeginningOf(a.history, Events)
         \/ a.source = "chain" /\ BeginningOf(a.history, changes)
      /\ a.history # <<>> => a.current = ControllerAfter(a.history[Len(a.history)])
      /\ a.source = "indexer" =>
           \/ Len(a.history) = a.total
           \/ Len(a.history) = PageLimit /\ a.total > PageLimit
      /\ \A g \in {a.current, a.document} \ {None} :
           \E i \in DOMAIN Events : ControllerAfter(Events[i]) = g
============================================================================
