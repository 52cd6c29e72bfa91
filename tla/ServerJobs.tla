------------------------------ MODULE ServerJobs ----------------------------
(***************************************************************************)
(* Server jobs (lib/server-jobs.ts): the rows of jobs and job_sequences of *)
(* work that a server does in the background, the heartbeats of the        *)
(* servers and the cron job that gives up abandoned jobs.                  *)
(*                                                                         *)
(* Like the named locks, the module has no behaviour of its own: the work  *)
(* the jobs stand for takes these steps.  Time is kept as the age of the   *)
(* last heartbeat of each job, up to the age at which it counts as         *)
(* abandoned.                                                              *)
(***************************************************************************)
EXTENDS Naturals

CONSTANTS
  Jobs,           \* jobs; each is the only one of its sequence
  AbandonedAge    \* serverJobsAbandonedTimeoutSec, in ticks

ASSUME JobsAssumption == AbandonedAge \in Nat \ {0}

VARIABLES
  job,         \* the rows of each job and of its sequence, and the heartbeat's age
  liveJobs,    \* jobs in the memory of the servers that run them
  abandoned    \* jobs the cron job has selected

Statuses == {"none", "Running", "Success", "Error"}
Job      == [status: Statuses, sequence: Statuses, age: 0..AbandonedAge]

JobsInit ==
  /\ job = [j \in Jobs |-> [status |-> "none", sequence |-> "none", age |-> 0]]
  /\ liveJobs = {} /\ abandoned = {}

\* Mutant: the last statement wins.
DecidedLast(r, status) == [r EXCEPT !.status = status, !.sequence = status]

\* A statement sets the status of the job and of its sequence, each if it is
\* still Running.
Decided(r, status) ==
  [r EXCEPT !.status   = IF @ = "Running" THEN status ELSE @,
            !.sequence = IF @ = "Running" THEN status ELSE @]

\* createServerJob
CreateServerJob(j) ==
  /\ job[j].status = "none"
  /\ job' = [job EXCEPT ![j] = [status |-> "Running", sequence |-> "Running", age |-> 0]]
  /\ liveJobs' = liveJobs \cup {j}
  /\ UNCHANGED abandoned

\* finish: the job leaves the memory first,
LeaveMemory(j) ==
  /\ liveJobs' = liveJobs \ {j}
  /\ UNCHANGED <<job, abandoned>>

\* then its end is written (update_job_on_finish).
WriteEnd(j, ok) ==
  /\ job' = [job EXCEPT ![j] = Decided(@, IF ok THEN "Success" ELSE "Error")]
  /\ UNCHANGED <<liveJobs, abandoned>>

\* update_heartbeats of a server, for the jobs in its memory
Heartbeat(S) ==
  /\ job' = [j \in Jobs |-> IF j \in liveJobs \cap S THEN [job[j] EXCEPT !.age = 0] ELSE job[j]]
  /\ UNCHANGED <<liveJobs, abandoned>>

\* Mutant: only jobs in the memory of a server are looked at.
IsAbandonedAlive(j) == j \in liveJobs /\ job[j].status = "Running" /\ job[j].age = AbandonedAge

IsAbandoned(j) == job[j].status = "Running" /\ job[j].age = AbandonedAge

\* errorAbandonedJobs: the jobs are selected
SelectAbandoned ==
  /\ abandoned = {}
  /\ abandoned' = {j \in Jobs : IsAbandoned(j)}
  /\ abandoned' # {}
  /\ UNCHANGED <<job, liveJobs>>

\* and updated one by one (update_job_on_error), whatever happened since.
ErrorAbandoned(j) ==
  /\ j \in abandoned
  /\ abandoned' = abandoned \ {j}
  /\ job' = [job EXCEPT ![j] =
               IF @.status = "Running" THEN [@ EXCEPT !.status = "Error", !.sequence = "Error"] ELSE @]
  /\ UNCHANGED liveJobs

\* Time passes.
Tick ==
  /\ job' = [j \in Jobs |-> IF job[j].status = "Running" /\ job[j].age < AbandonedAge
                              THEN [job[j] EXCEPT !.age = @ + 1] ELSE job[j]]
  /\ UNCHANGED <<liveJobs, abandoned>>

\* A server ends with the jobs in its memory.
ForgetJobs(S) ==
  /\ liveJobs' = liveJobs \ S
  /\ UNCHANGED <<job, abandoned>>

=============================================================================
