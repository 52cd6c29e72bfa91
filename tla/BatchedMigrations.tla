-------------------------- MODULE BatchedMigrations -------------------------
(***************************************************************************)
(* Batched migrations of one project: packages/migrations, batched part.   *)
(*                                                                         *)
(* Every server runs a loop that starts or continues the running migration *)
(* under a named lock and works on it batch by batch; a deployment may     *)
(* finalize a migration, which runs it to its end; an administrator may    *)
(* retry the failed jobs.  A caller of the locks is a loop or a            *)
(* finalization; its record holds what it keeps across its awaits.         *)
(*                                                                         *)
(* The rows are those of batched_migrations and batched_migration_jobs;    *)
(* done is what the execute() functions have done to the data.             *)
(***************************************************************************)
EXTENDS NamedLocks, Integers

CONSTANTS
  Migrations,    \* the migrations of the project: ids, in the order of their rows
  Params,        \* what getParameters() of each returns
  Loops,         \* the loops of the servers
  Finalizers,    \* deployments that finalize a migration
  MaxJobs, MaxFailures, MaxRetries, MaxDeaths    \* bounds

Project == 0     \* names the lock of the project
Null == -1
Workers == Loops \cup Finalizers

Params_ == [min: Nat \ {0}, max: Nat \cup {Null}, size: Nat \ {0}]

ASSUME MigrationsAssumption ==
  /\ Migrations \subseteq Nat \ {0}
  /\ Params \in [Migrations -> Params_]
  /\ \A m \in Migrations : Params[m].max # Null => Params[m].min <= Params[m].max
  /\ Callers = Workers /\ Loops \cap Finalizers = {}
  /\ LockNames = Migrations \cup {Project}
  /\ MaxJobs \in Nat /\ MaxFailures \in Nat /\ MaxRetries \in Nat /\ MaxDeaths \in Nat

Jobs == 1..MaxJobs

VARIABLES
  status,      \* batched_migrations.status, "none" without a row
  job,         \* the batched_migration_jobs rows
  done,        \* values that execute() has migrated
  worker,      \* local state of each loop and finalization
  failures,    \* calls of execute() that failed so far
  retries,     \* retries so far
  crossed,     \* migrations with a retry that crossed the end of a run: it put
               \* failed jobs back after a runner found none of them pending
               \* and before the runner looked for failed ones
  losses,      \* lock connections lost so far
  deaths       \* crashes and lost connections so far

vars == <<session, status, job, done, worker, failures, retries, crossed, losses, deaths>>

-----------------------------------------------------------------------------
(* Rows. *)

Statuses == {"none", "pending", "running", "finalizing", "failed", "succeeded"}

Job   == [of: Migrations \cup {Null}, status: {"pending", "failed", "succeeded"},
          min: Nat, max: Nat]
NoJob == [of |-> Null, status |-> "pending", min |-> 0, max |-> 0]

Made      == {j \in Jobs : job[j].of # Null}
JobsOf(m) == {j \in Made : job[j].of = m}
IsLast(j, S)  == j \in S /\ \A i \in S : i <= j
IsFirst(j, S) == j \in S /\ \A i \in S : j <= i

MinOf(m)    == Params[m].min
\* Without rows to migrate max is null, and the row says min.
MaxOf(m)    == IF Params[m].max = Null THEN MinOf(m) ELSE Params[m].max
ValuesOf(m) == IF Params[m].max = Null THEN {} ELSE MinOf(m)..MaxOf(m)

ValuesIn(j) == job[j].min..job[j].max
Covered(m)  == UNION {ValuesIn(j) : j \in JobsOf(m)}

PendingOf(m) == {j \in JobsOf(m) : job[j].status = "pending"}
FailedOf(m)  == {j \in JobsOf(m) : job[j].status = "failed"}

Steps == {"idle", "select", "start", "mark", "lock", "loop", "bounds",
          "insert", "pick", "execute", "finish", "incomplete", "failed", "write",
          "refresh", "again", "verify", "finalized", "over"}

Worker == [pc: Steps, m: Migrations \cup {Null}, status: Statuses,
           min: Nat, max: Nat, job: Jobs \cup {Null}, verdict: {"failed", "succeeded"}]

\* A worker that has nothing but a migration and the status it has read.
AtStep(step, m, read) ==
  [pc |-> step, m |-> m, status |-> read, min |-> 0, max |-> 0, job |-> Null,
   verdict |-> "failed"]

IdleWorker == AtStep("idle", Null, "none")

\* A loop goes on after a round or a restart; a deployment is over.
AtRest(w) == IF w \in Loops THEN IdleWorker ELSE AtStep("over", Null, "none")

TypeOK ==
  /\ session \in [Callers -> Session]
  /\ status \in [Migrations -> Statuses]
  /\ job \in [Jobs -> Job]
  /\ done \in [Migrations -> SUBSET Nat]
  /\ worker \in [Workers -> Worker]
  /\ crossed \subseteq Migrations
  /\ failures \in Nat /\ retries \in Nat /\ losses \in Nat /\ deaths \in Nat

Init ==
  /\ LocksInit
  /\ status = [m \in Migrations |-> "none"]
  /\ job = [j \in Jobs |-> NoJob]
  /\ done = [m \in Migrations |-> {}]
  /\ worker = [w \in Workers |-> IdleWorker]
  /\ crossed = {}
  /\ failures = 0 /\ retries = 0 /\ losses = 0 /\ deaths = 0

rows == <<status, job, done>>
bounds == <<failures, retries, crossed, losses, deaths>>

Become(w, record) == worker' = [worker EXCEPT ![w] = record]
GoTo(w, step) == Become(w, [worker[w] EXCEPT !.pc = step])

-----------------------------------------------------------------------------
(* Finding a migration to work on. *)

\* enqueueBatchedMigration
Enqueue(m) ==
  /\ status[m] = "none"
  /\ status' = [status EXCEPT ![m] = IF Params[m].max = Null THEN "succeeded" ELSE "pending"]
  /\ UNCHANGED <<session, job, done, worker, bounds>>

\* getOrStartMigration takes the project lock; without it the round is over.
TakeProject(w) ==
  /\ w \in Loops /\ worker[w].pc = "idle"
  /\ TryLock(w, Project)
  /\ GoTo(w, "select")
  /\ UNCHANGED <<rows, bounds>>

\* The migration a loop has found, as its row was read; the lock is released.
Found(w, m, s) ==
  /\ Become(w, AtStep("lock", m, s))
  /\ ReleaseLock(w)

\* select_running_migration
SelectRunning(w) ==
  /\ worker[w].pc = "select"
  /\ LET running == {m \in Migrations : status[m] = "running"}
     IN IF running = {}
          THEN GoTo(w, "start") /\ session' = session
          ELSE \E m \in running : IsFirst(m, running) /\ Found(w, m, "running")
  /\ UNCHANGED <<rows, bounds>>

\* start_next_pending_migration
StartPending(w) ==
  /\ worker[w].pc = "start"
  /\ LET pending == {m \in Migrations : status[m] = "pending"}
     IN IF pending = {}
          THEN /\ Become(w, IdleWorker)
               /\ ReleaseLock(w)
               /\ status' = status
          ELSE \E m \in pending :
                 /\ IsFirst(m, pending)
                 /\ status' = [status EXCEPT ![m] = "running"]
                 /\ Found(w, m, "running")
  /\ UNCHANGED <<job, done, bounds>>

\* finalizeBatchedMigration: nothing is left to do, or the migration is marked.
ReadFinalize(w, m) ==
  /\ w \in Finalizers /\ worker[w].pc = "idle"
  /\ status[m] # "none"
  /\ LET step == CASE status[m] = "succeeded"  -> "finalized"
                   [] status[m] = "finalizing" -> "lock"
                   [] OTHER                    -> "mark"
     IN Become(w, AtStep(step, m, status[m]))
  /\ UNCHANGED <<session, rows, bounds>>

MarkFinalizing(w) ==
  /\ worker[w].pc = "mark"
  /\ status' = [status EXCEPT ![worker[w].m] = "finalizing"]
  /\ Become(w, [worker[w] EXCEPT !.pc = "lock", !.status = "finalizing"])
  /\ UNCHANGED <<session, job, done, bounds>>

\* The lock of the migration is taken.  Without it a loop tries again later,
\* and a finalization throws.
TakeMigration(w) ==
  /\ worker[w].pc = "lock"
  /\ \/ TryLock(w, worker[w].m) /\ GoTo(w, "loop")
     \/ /\ ~IsFree(worker[w].m)
        /\ Become(w, AtRest(w))
        /\ session' = session
  /\ UNCHANGED <<rows, bounds>>

-----------------------------------------------------------------------------
(* BatchedMigrationRunner.run. *)

\* A run begins with a job; after each the status is looked at again.
Continue(w) ==
  /\ worker[w].pc \in {"loop", "again"}
  /\ worker[w].status \in {"running", "finalizing"}
  /\ Become(w, [worker[w] EXCEPT !.pc = "bounds", !.status = "none"])
  /\ UNCHANGED <<session, rows, bounds>>

\* The run ends when the migration is no longer running; that of a loop also
\* when its time is over or the server stops.
EndRun(w) ==
  /\ worker[w].pc = "again"
  /\ w \in Loops \/ worker[w].status \notin {"running", "finalizing"}
  /\ IF w \in Loops THEN Become(w, IdleWorker) ELSE GoTo(w, "verify")
  /\ ReleaseLock(w)
  /\ UNCHANGED <<rows, bounds>>

\* Mutant: the first batch begins after the minimal value.
NextAfter(m) == IF JobsOf(m) = {} THEN {MinOf(m) + 1}
                ELSE {job[j].max + 1 : j \in {i \in JobsOf(m) : IsLast(i, JobsOf(m))}}

\* getNextBatchBounds: the batch after that of the last job.
NextMin(m) == IF JobsOf(m) = {} THEN {MinOf(m)}
              ELSE {job[j].max + 1 : j \in {i \in JobsOf(m) : IsLast(i, JobsOf(m))}}

GetBounds(w) ==
  /\ worker[w].pc = "bounds"
  /\ \E min \in NextMin(worker[w].m) :
       LET last == MaxOf(worker[w].m)
           max  == min + Params[worker[w].m].size - 1
       IN IF min > last
            THEN GoTo(w, "pick")
            ELSE Become(w, [worker[w] EXCEPT !.pc = "insert", !.min = min,
                              !.max = IF max > last THEN last ELSE max])
  /\ UNCHANGED <<session, rows, bounds>>

\* insert_batched_migration_job
InsertJob(w) ==
  /\ worker[w].pc = "insert"
  /\ \E j \in Jobs \ Made :
       /\ IsFirst(j, Jobs \ Made)
       /\ job' = [job EXCEPT ![j] = [of |-> worker[w].m, status |-> "pending",
                                     min |-> worker[w].min, max |-> worker[w].max]]
       /\ Become(w, [worker[w] EXCEPT !.pc = "execute", !.job = j,
                         !.min = 0, !.max = 0])
  /\ UNCHANGED <<session, status, done, bounds>>

\* Mutant: jobs that a crash left pending are not looked for.
PickNothing(w) ==
  /\ worker[w].pc = "pick"
  /\ GoTo(w, "incomplete")
  /\ UNCHANGED <<session, rows, bounds>>

\* select_first_pending_batched_migration_job
PickPending(w) ==
  /\ worker[w].pc = "pick"
  /\ LET pending == PendingOf(worker[w].m)
     IN IF pending = {}
          THEN GoTo(w, "incomplete")
          ELSE \E j \in pending :
                 /\ IsFirst(j, pending)
                 /\ Become(w, [worker[w] EXCEPT !.pc = "execute", !.job = j])
  /\ UNCHANGED <<session, rows, bounds>>

\* Mutant: what execute() throws is swallowed.
ExecuteSwallowing(w) ==
  /\ worker[w].pc = "execute"
  /\ LET j == worker[w].job
     IN \/ done' = [done EXCEPT ![job[j].of] = @ \cup ValuesIn(j)] /\ failures' = failures
        \/ failures < MaxFailures /\ failures' = failures + 1 /\ done' = done
  /\ Become(w, [worker[w] EXCEPT !.pc = "finish", !.verdict = "succeeded"])
  /\ UNCHANGED <<session, status, job, retries, crossed, losses, deaths>>

\* runMigrationJob: execute() migrates the values of the job, or fails with
\* some of them not migrated.
Execute(w) ==
  /\ worker[w].pc = "execute"
  /\ LET j == worker[w].job
     IN \/ /\ done' = [done EXCEPT ![job[j].of] = @ \cup ValuesIn(j)]
           /\ failures' = failures
           /\ Become(w, [worker[w] EXCEPT !.pc = "finish", !.verdict = "succeeded"])
        \/ /\ failures < MaxFailures
           /\ done' = done
           /\ failures' = failures + 1
           /\ Become(w, [worker[w] EXCEPT !.pc = "finish", !.verdict = "failed"])
  /\ UNCHANGED <<session, status, job, retries, crossed, losses, deaths>>

\* finish_batched_migration_job
FinishJob(w) ==
  /\ worker[w].pc = "finish"
  /\ job' = [job EXCEPT ![worker[w].job].status = worker[w].verdict]
  /\ Become(w, [worker[w] EXCEPT !.pc = "refresh", !.job = Null,
                  !.verdict = "failed"])
  /\ UNCHANGED <<session, status, done, bounds>>

\* finishRunningMigration: three queries, each a step.
CheckIncomplete(w) ==
  /\ worker[w].pc = "incomplete"
  /\ GoTo(w, IF PendingOf(worker[w].m) # {} THEN "refresh" ELSE "failed")
  /\ UNCHANGED <<session, rows, bounds>>

CheckFailed(w) ==
  /\ worker[w].pc = "failed"
  /\ Become(w, [worker[w] EXCEPT !.pc = "write",
                  !.verdict = IF FailedOf(worker[w].m) # {} THEN "failed" ELSE "succeeded"])
  /\ UNCHANGED <<session, rows, bounds>>

WriteStatus(w) ==
  /\ worker[w].pc = "write"
  /\ status' = [status EXCEPT ![worker[w].m] = worker[w].verdict]
  /\ Become(w, [worker[w] EXCEPT !.pc = "refresh", !.verdict = "failed"])
  /\ UNCHANGED <<session, job, done, bounds>>

\* refreshMigrationStatus
Refresh(w) ==
  /\ worker[w].pc = "refresh"
  /\ Become(w, [worker[w] EXCEPT !.pc = "again", !.status = status[worker[w].m]])
  /\ UNCHANGED <<session, rows, bounds>>

\* Mutant: the finalization takes the end of the run for a success.
VerifyNothing(w) ==
  /\ worker[w].pc = "verify"
  /\ Become(w, AtStep("finalized", worker[w].m, "none"))
  /\ UNCHANGED <<session, rows, bounds>>

\* The finalization ends well only if the migration has succeeded.
Verify(w) ==
  /\ worker[w].pc = "verify"
  /\ Become(w, IF status[worker[w].m] = "succeeded"
                  THEN AtStep("finalized", worker[w].m, "none") ELSE AtRest(w))
  /\ UNCHANGED <<session, rows, bounds>>

-----------------------------------------------------------------------------
(* The administrator, and failures. *)

\* retry_failed_jobs, whatever the runners are at.
Retry(m) ==
  /\ retries < MaxRetries
  /\ status[m] # "none"
  /\ retries' = retries + 1
  /\ status' = [status EXCEPT ![m] = "running"]
  /\ job' = [j \in Jobs |-> IF j \in FailedOf(m) THEN [job[j] EXCEPT !.status = "pending"]
                                                 ELSE job[j]]
  /\ crossed' = IF FailedOf(m) # {} /\ \E w \in Workers : worker[w].m = m /\ worker[w].pc = "failed"
                  THEN crossed \cup {m} ELSE crossed
  /\ UNCHANGED <<session, done, worker, failures, losses, deaths>>

\* The process of a worker ends.
Ends(w) ==
  /\ Become(w, AtRest(w))
  /\ session' = [session EXCEPT ![w] = NoSession]
  /\ UNCHANGED <<rows, failures, retries, crossed, losses>>

Crash(w) ==
  /\ deaths < MaxDeaths /\ worker[w].pc \notin {"idle", "finalized", "over"}
  /\ deaths' = deaths + 1
  /\ Ends(w)

\* The connection that holds the lock breaks; the worker goes on for a while.
Lose(w) ==
  /\ deaths < MaxDeaths
  /\ LoseLock(w)
  /\ losses' = losses + 1
  /\ deaths' = deaths + 1
  /\ UNCHANGED <<rows, worker, failures, retries, crossed>>

Exit(w) ==
  /\ session[w].phase = "lost"
  /\ deaths' = deaths
  /\ Ends(w)

Find(w) ==
  \/ TakeProject(w) \/ SelectRunning(w) \/ StartPending(w)
  \/ MarkFinalizing(w) \/ TakeMigration(w)

Run(w) ==
  \/ EndRun(w) \/ Continue(w) \/ GetBounds(w) \/ InsertJob(w) \/ PickPending(w)
  \/ Execute(w) \/ FinishJob(w) \/ CheckIncomplete(w) \/ CheckFailed(w)
  \/ WriteStatus(w) \/ Refresh(w) \/ Verify(w)

Next ==
  \/ \E m \in Migrations : Enqueue(m) \/ Retry(m)
  \/ \E w \in Workers :
       \/ Find(w) \/ Run(w) \/ Crash(w) \/ Lose(w) \/ Exit(w)
       \/ \E m \in Migrations : ReadFinalize(w, m)

Spec == Init /\ [][Next]_vars

\* Every loop goes on, and a process whose lock connection broke ends.
Fairness ==
  \A w \in Workers : WF_vars(Find(w)) /\ WF_vars(Run(w)) /\ WF_vars(Exit(w))

FairSpec == Spec /\ Fairness

-----------------------------------------------------------------------------
(* Properties. *)

\* No value is left out between the first and the last job, even when crashes
\* leave jobs behind and broken locks let two runners insert jobs at once
\* (getNextBatchBounds looks at the last job only).
NothingSkipped ==
  \A m \in Migrations : \A j \in JobsOf(m) : MinOf(m)..job[j].max \subseteq Covered(m)

\* As long as no lock connection breaks, no value is in two jobs
\* (the lock of the migration keeps the others from inserting jobs).
BatchesDisjoint ==
  losses = 0 =>
    \A i, j \in Made : i # j /\ job[i].of = job[j].of =>
      ValuesIn(i) \cap ValuesIn(j) = {}

\* A migration that is marked as succeeded has migrated all its values, unless
\* a retry crossed the end of a run (finishRunningMigration and its safety check).
SucceededIsComplete ==
  \A m \in Migrations \ crossed : status[m] = "succeeded" => ValuesOf(m) \subseteq done[m]

\* finalizeBatchedMigration returns only when all values have been migrated,
\* unless a retry crossed the end of a run.
FinalizedIsComplete ==
  \A w \in Finalizers :
    worker[w].pc = "finalized" /\ worker[w].m \notin crossed =>
      ValuesOf(worker[w].m) \subseteq done[worker[w].m]

\* What the README says of it, without the exception: it "will synchronously
\* execute any remaining batches, and will error if the migration ends up in a
\* failed state".
FinalizedIsAlwaysComplete ==
  \A w \in Finalizers : worker[w].pc = "finalized" => ValuesOf(worker[w].m) \subseteq done[worker[w].m]

\* The runners implement what the code that relies on migrations is promised.
Verdict(s) == IF s \in {"succeeded", "failed"} THEN s ELSE "open"

Data == INSTANCE MigratedData WITH
  Values   <- [m \in Migrations |-> ValuesOf(m)],
  migrated <- done,
  verdict  <- [m \in Migrations |-> Verdict(status[m])]

ImplementsData == Data!Spec

\* A migration that was enqueued is decided, unless a deployment wants to
\* finalize it.
MigrationDecided ==
  \A m \in Migrations :
    status[m] \in {"pending", "running"} ~> status[m] \in {"succeeded", "failed", "finalizing"}

=============================================================================
