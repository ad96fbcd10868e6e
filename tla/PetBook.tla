------------------------------ MODULE PetBook ------------------------------
(***************************************************************************)
(* What the GuardianRegistry contract promises of the pets it lists: a     *)
(* bag of pets for every guardian.  A guardian enters once and closes for  *)
(* good; only an open guardian is given pets, one for each entry that is   *)
(* written; a removal takes exactly one pet away, whatever else is listed. *)
(***************************************************************************)
EXTENDS Naturals

CONSTANTS Wallet, Pet, Entry

VARIABLES
  entered,  \* wallets that ever registered
  open,     \* of these, the active ones
  held,     \* how often each wallet lists each pet
  written   \* entries that were written

bookVars == <<entered, open, held, written>>

BookInit ==
  /\ entered = {} /\ open = {} /\ written = {}
  /\ held = [w \in Wallet |-> [p \in Pet |-> 0]]

Enter(w) ==
  /\ w \notin entered
  /\ entered' = entered \cup {w} /\ open' = open \cup {w}
  /\ UNCHANGED <<held, written>>

Close(w) ==
  /\ w \in open
  /\ open' = open \ {w}
  /\ UNCHANGED <<entered, held, written>>

Holding(w, p, n) ==
  held' = [v \in Wallet |-> [q \in Pet |->
             IF v = w /\ q = p THEN n ELSE held[v][q]]]

Write(e, w, p) ==
  /\ e \notin written /\ w \in open
  /\ written' = written \cup {e}
  /\ Holding(w, p, held[w][p] + 1)
  /\ UNCHANGED <<entered, open>>

Remove(w, p) ==
  /\ w \in entered /\ held[w][p] > 0
  /\ Holding(w, p, held[w][p] - 1)
  /\ UNCHANGED <<entered, open, written>>

BookNext ==
  \E w \in Wallet : \/ Enter(w) \/ Close(w)
                    \/ \E p \in Pet : Remove(w, p) \/ \E e \in Entry : Write(e, w, p)

BookSpec == BookInit /\ [][BookNext]_bookVars
============================================================================
