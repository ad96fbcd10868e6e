------------------------------ MODULE JobQueue ------------------------------
(***************************************************************************)
(* The life of a Bull job, as the queues of the gateway configure it:      *)
(* attempts: 3 with exponential backoff, failed jobs kept.  The library is *)
(* not part of the repository; this module says what the processors rely   *)
(* on.  Named processors of one queue add up to its concurrency and a      *)
(* retried job returns behind the others, so no order between jobs is      *)
(* assumed: any waiting job may start.                                     *)
(***************************************************************************)
EXTENDS Naturals

CONSTANTS
  MaxAttempts,  \* attempts: how often the processor may throw (3)
  MaxStalls     \* Bull's maxStalledCount: how often a worker may die (1)

ASSUME AttemptsAssumption == MaxAttempts \in Nat \ {0}
ASSUME StallsAssumption == MaxStalls \in Nat

(* made counts the attempts that threw, stalls the workers that died; at   *)
(* is the await the processor stands at, "" while no worker runs it.  A    *)
(* job that waits for its backoff to end is "waiting".                     *)
JobState == {"absent", "waiting", "active", "completed", "failed"}
Job(Steps) == [state : JobState, made : 0..MaxAttempts,
               stalls : 0..(MaxStalls + 1), at : Steps \cup {""}]

NoJob  == [state |-> "absent", made |-> 0, stalls |-> 0, at |-> ""]

(* queue.add *)
Queued == [NoJob EXCEPT !.state = "waiting"]

(* A worker takes the job and calls its processor, from the beginning.     *)
Started(job, step) == [job EXCEPT !.state = "active", !.at = step]

(* The processor goes on to its next await. *)
Moved(job, step) == [job EXCEPT !.at = step]

(* The processor returns. *)
Completed(job) == [job EXCEPT !.state = "completed", !.at = ""]

(* Mutant: one attempt too many is made.                                   *)
Thrown_OneMore(job) ==
  [job EXCEPT !.made = @ + 1, !.at = "",
     !.state = IF job.made < MaxAttempts THEN "waiting" ELSE "failed"]

(* The processor throws: Bull counts attempts and looks at nothing else of *)
(* the error, neither its name nor an attemptsMade set on it.              *)
Thrown(job) ==
  [job EXCEPT !.made = @ + 1, !.at = "",
     !.state = IF job.made + 1 < MaxAttempts THEN "waiting" ELSE "failed"]

(* The process dies while the job is active: its lock runs out and the job *)
(* is run again, unless it has stalled too often.                          *)
Stalled(job) ==
  IF job.state # "active" THEN job
  ELSE [job EXCEPT !.stalls = @ + 1, !.at = "",
          !.state = IF job.stalls < MaxStalls THEN "waiting" ELSE "failed"]

Waiting(job) == job.state = "waiting"
StandsAt(job, step) == job.state = "active" /\ job.at = step
Settled(job) == job.state \in {"completed", "failed"}
============================================================================
