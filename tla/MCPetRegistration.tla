------------------------- MODULE MCPetRegistration -------------------------
(* PetRegistration with a nose print and one photo; a request has none of  *)
(* the optional fields, both, or a vcMessage that is no JSON.  Two         *)
(* requests are served together only without the optional fields: the      *)
(* images, which they share, are moved all the same.                       *)
EXTENDS PetRegistration, TLC

CONSTANTS nose, photo

NoseAndPhoto == <<nose, photo>>
Forms == {Plain, [link |-> "raw", vcMessage |-> "json"],
          [link |-> "hash", vcMessage |-> "broken"]}

Begun == {r \in Request : h[r].pc # "new"}
Symmetry == Permutations(Request) \cup Permutations(Tx) \cup Permutations(Did)
PlainTogether == \A r, s \in Begun : r # s => h[r].form = Plain
SameOrOther == \A r, s \in Begun : h[r].did = h[s].did <=> h[r].tx = h[s].tx
RunAgain(r) == \E job \in {moveJob[r], syncJob[r]} : job.made > 0 \/ job.stalls > 0
OneRunsAgain == \A r, s \in Begun : r # s => ~RunAgain(r) \/ ~RunAgain(s)
OnlyNamedMove ==
  /\ \A t \in Tx : tx[t] # "unsent" => \E r \in Begun : h[r].tx = t
  /\ linkTx # "unsent" => \E r \in Begun : h[r].form.link # "none"
============================================================================
