--------------------------- MODULE MCAdoptionChat ---------------------------
EXTENDS AdoptionChat, TLC, FiniteSets

Symmetry == Permutations(Wallet) \cup Permutations(Call) \cup Permutations(Request)
              \cup Permutations(Room) \cup Permutations(Msg)

(* Bound: at most two handlers are between two awaits.                     *)
InProgress == {c \in Call : call[c].pc \notin {"none", "joined"}}
InFlight == {q \in Request : req[q].pc \notin {"new", "answered"}}
TwoHandlers == Cardinality(InProgress) + Cardinality(InFlight) <= 2
=============================================================================
