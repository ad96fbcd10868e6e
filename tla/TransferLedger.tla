--------------------------- MODULE TransferLedger ---------------------------
(***************************************************************************)
(* What an ownership transfer promises (README, "동기화 원칙" 1 and 2): the *)
(* chain moves a pet from one guardian to the next, and the other services *)
(* learn of a transfer only after the chain has executed the transaction   *)
(* it is claimed to be.  That the transaction does what is claimed of it   *)
(* is the client's word.                                                   *)
(***************************************************************************)
CONSTANTS Guardian, Genesis, Tx, None

Transfer == [from : Guardian, to : Guardian]
Claim == [from : Guardian, to : Guardian, tx : Tx]

VARIABLES
  controller,  \* the guardian the chain names
  executed,    \* what each executed transaction did to the pet, None if nothing
  credited,    \* claims the VC service has stored a credential for
  reported     \* claims the Spring server has heard of

ledgerVars == <<controller, executed, credited, reported>>

LedgerInit ==
  /\ controller = Genesis
  /\ executed = [t \in {} |-> None]
  /\ credited = {} /\ reported = {}

(* A transaction is executed once, and only the controller hands the pet on. *)
Execute(t) ==
  /\ t \notin DOMAIN executed
  /\ \E a \in Transfer \cup {None} :
       /\ executed' = [x \in DOMAIN executed \cup {t} |->
                         IF x = t THEN a ELSE executed[x]]
       /\ IF a = None THEN controller' = controller
                      ELSE controller = a.from /\ controller' = a.to
  /\ UNCHANGED <<credited, reported>>

Credit(c) ==
  /\ c.tx \in DOMAIN executed
  /\ credited' = credited \cup {c}
  /\ UNCHANGED <<controller, executed, reported>>

Report(c) ==
  /\ c.tx \in DOMAIN executed
  /\ reported' = reported \cup {c}
  /\ UNCHANGED <<controller, executed, credited>>

LedgerNext ==
  \/ \E t \in Tx : Execute(t)
  \/ \E c \in Claim : Credit(c) \/ Report(c)

LedgerSpec == LedgerInit /\ [][LedgerNext]_ledgerVars
============================================================================
