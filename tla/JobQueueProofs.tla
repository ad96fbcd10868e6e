--------------------------- MODULE JobQueueProofs ---------------------------
(***************************************************************************)
(* What the operators of JobQueue keep, whatever the processor's steps:    *)
(* a job that may still run has an attempt left and has not stalled too    *)
(* often, so its counters never leave their bounds.                        *)
(***************************************************************************)
EXTENDS JobQueue, TLAPS

(* The strengthening of j \in Job(S) that each operator preserves.         *)
Sound(j, S) ==
  /\ j \in Job(S)
  /\ j.state \in {"absent", "waiting", "active"} =>
       j.made < MaxAttempts /\ j.stalls <= MaxStalls

(* No job, and a job just added, are sound: attempts is at least one.      *)
LEMMA FreshIsSound ==
  ASSUME NEW S
  PROVE  Sound(NoJob, S) /\ Sound(Queued, S)
<1>1. 0 \in 0..MaxAttempts /\ 0 < MaxAttempts
  BY AttemptsAssumption
<1>2. 0 \in 0..(MaxStalls + 1) /\ 0 <= MaxStalls
  BY StallsAssumption
<1>3. "" \in S \cup {""}
  OBVIOUS
<1>4. Sound(NoJob, S)
  BY <1>1, <1>2, <1>3 DEF Sound, Job, JobState, NoJob
<1>5. Sound(Queued, S)
  BY <1>1, <1>2, <1>3 DEF Sound, Job, JobState, NoJob, Queued
<1> QED BY <1>4, <1>5

(* Taking a sound job that waits, and walking on to a step, keep it sound. *)
LEMMA WalkIsSound ==
  ASSUME NEW S, NEW j, Sound(j, S), NEW s \in S
  PROVE  /\ Waiting(j) => Sound(Started(j, s), S)
         /\ Sound(Moved(j, s), S)
BY DEF Sound, Job, JobState, Started, Moved, Waiting

(* A processor that returns or throws leaves a sound job, even after its   *)
(* last attempt.                                                           *)
LEMMA EndIsSound ==
  ASSUME NEW S, NEW j, Sound(j, S), j.state = "active"
  PROVE  Sound(Completed(j), S) /\ Sound(Thrown(j), S)
<1>1. /\ j \in Job(S)
      /\ j.made < MaxAttempts /\ j.stalls <= MaxStalls
  BY DEF Sound
<1>2. Sound(Completed(j), S)
  BY <1>1 DEF Sound, Job, JobState, Completed
<1>3. j.made + 1 \in 0..MaxAttempts
  <2>1. j.made \in 0..MaxAttempts
    BY <1>1 DEF Job
  <2>2. MaxAttempts \in Nat
    BY AttemptsAssumption
  <2> QED BY <1>1, <2>1, <2>2
<1>4. Sound(Thrown(j), S)
  BY <1>1, <1>3 DEF Sound, Job, JobState, Thrown
<1> QED BY <1>2, <1>4

(* So does a process that dies, whatever the job was doing.                *)
LEMMA StallIsSound ==
  ASSUME NEW S, NEW j, Sound(j, S)
  PROVE  Sound(Stalled(j), S)
<1>1. CASE j.state # "active"
  BY <1>1 DEF Stalled
<1>2. CASE j.state = "active"
  <2>1. /\ j \in Job(S)
        /\ j.made < MaxAttempts /\ j.stalls <= MaxStalls
    BY <1>2 DEF Sound
  <2>2. j.stalls + 1 \in 0..(MaxStalls + 1)
    <3>1. j.stalls \in 0..(MaxStalls + 1)
      BY <2>1 DEF Job
    <3> QED BY <2>1, <3>1, StallsAssumption
  <2>3. j.stalls < MaxStalls => j.stalls + 1 <= MaxStalls
    <3>1. j.stalls \in 0..(MaxStalls + 1)
      BY <2>1 DEF Job
    <3> QED BY <3>1, StallsAssumption
  <2> QED BY <1>2, <2>1, <2>2, <2>3 DEF Sound, Job, JobState, Stalled
<1> QED BY <1>1, <1>2

(* No operator makes a job that was added be absent.                       *)
LEMMA NeverAbsentAgain ==
  ASSUME NEW S, NEW j, Sound(j, S), NEW s
  PROVE  /\ Queued.state # "absent"
         /\ Started(j, s).state # "absent"
         /\ Moved(j, s).state = j.state
         /\ Completed(j).state # "absent"
         /\ Thrown(j).state # "absent"
         /\ Stalled(j).state = "absent" <=> j.state = "absent"
BY DEF Sound, Job, JobState, NoJob, Queued, Started, Moved, Completed,
       Thrown, Stalled
============================================================================
