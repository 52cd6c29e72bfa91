-------------------------------- MODULE Cron --------------------------------
(***************************************************************************)
(* The cron jobs of a set of servers that share a database.                *)
(*                                                                         *)
(* Every server has one loop per interval: when its timer fires it goes    *)
(* through the jobs of that interval one after the other, tries to take    *)
(* the lock of each, and runs the job unless cron_jobs says that it ran    *)
(* lately.  A caller of a lock is such a loop, <<server, group>>; a server *)
(* has no loop for a group whose interval its configuration sets to zero.  *)
(*                                                                         *)
(* Time is kept as ages and remaining waits, in ticks: age[j] is the time  *)
(* since cron_jobs.date of the job, up to MaxAge, which also stands for a  *)
(* job that has no row yet.                                                *)
(***************************************************************************)
EXTENDS NamedLocks, Sequences

CONSTANTS
  Groups,      \* the intervals that have jobs
  JobsOf,      \* the jobs of each, in the order of init()
  Wait,        \* ticks between two rounds of a group
  Interval,    \* ticks for which a run of a job of the group is recent
  MaxAge,      \* the longest age that is told apart
  MaxDeaths    \* bound on crashes, stops and lost connections

ASSUME CronAssumption ==
  /\ Callers \subseteq Servers \X Groups
  /\ \A c \in Callers : ServerOf[c] = c[1]
  /\ JobsOf \in [Groups -> Seq(LockNames)]
  \* A job has one interval.
  /\ \A g, h \in Groups : \A m \in DOMAIN JobsOf[g], n \in DOMAIN JobsOf[h] :
       JobsOf[g][m] = JobsOf[h][n] => g = h
  /\ Wait \in [Groups -> Nat] /\ Interval \in [Groups -> Nat]
  /\ MaxAge \in Nat /\ \A g \in Groups : Interval[g] <= MaxAge
  /\ MaxDeaths \in Nat

Jobs == LockNames

VARIABLES
  process,      \* is each server up, dying after a lost connection, or down?
  timeout,      \* jobTimeouts: a timer, a round under way, a stop requested, deleted
  wait,         \* ticks until the timer of a loop fires
  pc,           \* what each loop does
  place,        \* the place of its job in the list
  age,          \* ticks since cron_jobs.date of each job
  unfinished,   \* jobs with succeeded_at null or before date
  lost,         \* lock connections lost so far
  early,        \* runs that began too soon after another run of the job
  deaths        \* crashes, stops and lost connections so far

vars == <<session, process, timeout, wait, pc, place, age, unfinished, lost, early, deaths>>
loops == <<timeout, wait, pc, place>>

Steps == {"idle", "next", "lock", "check", "update", "run", "succeed", "release"}

TypeOK ==
  /\ session \in [Callers -> Session]
  /\ process \in [Servers -> {"up", "dying", "down"}]
  /\ timeout \in [Callers -> {"timer", "running", "stop", "none"}]
  /\ wait \in [Callers -> Nat]
  /\ pc \in [Callers -> Steps]
  /\ place \in [Callers -> Nat \ {0}]
  /\ age \in [Jobs -> 0..MaxAge]
  /\ unfinished \subseteq Jobs
  /\ lost \in Nat /\ early \in Nat /\ deaths \in 0..MaxDeaths

ListOf(c) == JobsOf[c[2]]
JobOf(c)  == ListOf(c)[place[c]]
Alive(c)  == process[c[1]] # "down"

GoTo(c, step) == pc' = [pc EXCEPT ![c] = step]

\* queueJobs, queueDailyJobs: a server starts with a timer for each group.
Queued(s) ==
  /\ timeout' = [c \in Callers |-> IF c[1] = s THEN "timer" ELSE timeout[c]]
  /\ wait' = [c \in Callers |-> IF c[1] = s THEN Wait[c[2]] ELSE wait[c]]

Init ==
  /\ LocksInit
  /\ process = [s \in Servers |-> "up"]
  /\ timeout = [c \in Callers |-> "timer"]
  /\ wait = [c \in Callers |-> Wait[c[2]]]
  /\ pc = [c \in Callers |-> "idle"]
  /\ place = [c \in Callers |-> 1]
  /\ age = [j \in Jobs |-> MaxAge]
  /\ unfinished = {}
  /\ lost = 0 /\ early = 0 /\ deaths = 0

-----------------------------------------------------------------------------
(* A round of a loop. *)

\* queueRun
Fire(c) ==
  /\ Alive(c) /\ timeout[c] = "timer" /\ wait[c] = 0
  /\ timeout' = [timeout EXCEPT ![c] = "running"]
  /\ GoTo(c, "next")
  /\ place' = [place EXCEPT ![c] = 1]
  /\ UNCHANGED <<session, process, wait, age, unfinished, lost, early, deaths>>

\* Mutant: a new timer is set though a stop was requested.
EndRoundAgain(c) ==
  /\ pc[c] = "next" /\ place[c] > Len(ListOf(c))
  /\ timeout' = [timeout EXCEPT ![c] = IF @ = "stop" THEN @ ELSE "timer"]
  /\ wait' = [wait EXCEPT ![c] = Wait[c[2]]]
  /\ GoTo(c, "idle")
  /\ place' = [place EXCEPT ![c] = 1]
  /\ UNCHANGED <<session, process, age, unfinished, lost, early, deaths>>

\* The round is over: unless a stop was requested, a new timer is set.
EndRound(c) ==
  /\ pc[c] = "next" /\ place[c] > Len(ListOf(c))
  /\ IF timeout[c] = "stop"
       THEN timeout' = [timeout EXCEPT ![c] = "none"] /\ wait' = wait
       ELSE /\ timeout' = [timeout EXCEPT ![c] = "timer"]
            /\ wait' = [wait EXCEPT ![c] = Wait[c[2]]]
  /\ GoTo(c, "idle")
  /\ place' = [place EXCEPT ![c] = 1]
  /\ UNCHANGED <<session, process, age, unfinished, lost, early, deaths>>

\* tryJobWithLock: the lock is asked for,
AskLock(c) ==
  /\ pc[c] = "next" /\ place[c] <= Len(ListOf(c))
  /\ BeginLock(c, JobOf(c))
  /\ GoTo(c, "lock")
  /\ UNCHANGED <<process, timeout, wait, place, age, unfinished, lost, early, deaths>>

\* and the job is left out if another server has it.
TakeLock(c) ==
  /\ pc[c] = "lock"
  /\ \/ AcquireLock(c) /\ GoTo(c, "check") /\ place' = place
     \/ FailLock(c) /\ GoTo(c, "next") /\ place' = [place EXCEPT ![c] = @ + 1]
  /\ UNCHANGED <<process, timeout, wait, age, unfinished, lost, early, deaths>>

\* select_recent_cron_job: date > now() - interval
IsRecent(j, g) == age[j] < Interval[g]

\* Mutant: the date of the last run is not looked at.
CheckNothing(c) ==
  /\ pc[c] = "check"
  /\ GoTo(c, "update")
  /\ UNCHANGED <<session, process, timeout, wait, place, age, unfinished, lost, early, deaths>>

Check(c) ==
  /\ pc[c] = "check"
  /\ GoTo(c, IF IsRecent(JobOf(c), c[2]) THEN "release" ELSE "update")
  /\ UNCHANGED <<session, process, timeout, wait, place, age, unfinished, lost, early, deaths>>

\* update_cron_job_time, and the job begins.
UpdateTime(c) ==
  /\ pc[c] = "update"
  /\ age' = [age EXCEPT ![JobOf(c)] = 0]
  /\ unfinished' = unfinished \cup {JobOf(c)}
  /\ early' = IF IsRecent(JobOf(c), c[2]) THEN early + 1 ELSE early
  /\ GoTo(c, "run")
  /\ UNCHANGED <<session, process, timeout, wait, place, lost, deaths>>

\* The job returns or throws; runJobs catches what it throws.
Run(c) ==
  /\ pc[c] = "run"
  /\ \E step \in {"succeed", "release"} : GoTo(c, step)
  /\ UNCHANGED <<session, process, timeout, wait, place, age, unfinished, lost, early, deaths>>

\* update_succeeded_at
Succeed(c) ==
  /\ pc[c] = "succeed"
  /\ unfinished' = unfinished \ {JobOf(c)}
  /\ GoTo(c, "release")
  /\ UNCHANGED <<session, process, timeout, wait, place, age, lost, early, deaths>>

\* The lock is released whatever happened, and the next job is tried.
Release(c) ==
  /\ pc[c] = "release"
  /\ ReleaseLock(c)
  /\ GoTo(c, "next")
  /\ place' = [place EXCEPT ![c] = @ + 1]
  /\ UNCHANGED <<process, timeout, wait, age, unfinished, lost, early, deaths>>

-----------------------------------------------------------------------------
(* Servers and time. *)

\* stop(): pending timers are cleared, rounds under way are asked to stop.
Stopped(t) == CASE t = "timer" -> "none" [] t = "running" -> "stop" [] OTHER -> t

Stop(s) ==
  /\ process[s] = "up" /\ deaths < MaxDeaths
  /\ \E c \in Callers : c[1] = s /\ timeout[c] \in {"timer", "running"}
  /\ timeout' = [c \in Callers |-> IF c[1] = s THEN Stopped(timeout[c]) ELSE timeout[c]]
  /\ deaths' = deaths + 1
  /\ UNCHANGED <<session, process, wait, pc, place, age, unfinished, lost, early>>

\* The process ends: it crashed, it has stopped, or the error handler of the
\* lock pool ended it.
Ends(s) ==
  /\ process' = [process EXCEPT ![s] = "down"]
  /\ timeout' = [c \in Callers |-> IF c[1] = s THEN "none" ELSE timeout[c]]
  /\ pc' = [c \in Callers |-> IF c[1] = s THEN "idle" ELSE pc[c]]
  /\ place' = [c \in Callers |-> IF c[1] = s THEN 1 ELSE place[c]]
  /\ wait' = [c \in Callers |-> IF c[1] = s THEN 0 ELSE wait[c]]
  /\ DropLocks(s)
  /\ UNCHANGED <<age, unfinished, lost, early>>

Crash(s) ==
  /\ process[s] = "up" /\ deaths < MaxDeaths
  /\ deaths' = deaths + 1
  /\ Ends(s)

HasStopped(s) == process[s] = "up" /\ \A c \in Callers : c[1] = s => timeout[c] = "none"

Exit(s) ==
  /\ process[s] = "dying" \/ HasStopped(s)
  /\ deaths' = deaths
  /\ Ends(s)

Lose(c) ==
  /\ deaths < MaxDeaths
  /\ LoseLock(c)
  /\ process' = [process EXCEPT ![c[1]] = "dying"]
  /\ lost' = lost + 1
  /\ deaths' = deaths + 1
  /\ UNCHANGED <<timeout, wait, pc, place, age, unfinished, early>>

Start(s) ==
  /\ process[s] = "down"
  /\ process' = [process EXCEPT ![s] = "up"]
  /\ Queued(s)
  /\ UNCHANGED <<session, pc, place, age, unfinished, lost, early, deaths>>

Tick ==
  /\ wait' = [c \in Callers |-> IF timeout[c] = "timer" /\ wait[c] > 0
                                  THEN wait[c] - 1 ELSE wait[c]]
  /\ age' = [j \in Jobs |-> IF age[j] < MaxAge THEN age[j] + 1 ELSE MaxAge]
  /\ UNCHANGED <<session, process, timeout, pc, place, unfinished, lost, early, deaths>>

LoopStep(c) ==
  \/ Fire(c) \/ EndRound(c) \/ AskLock(c) \/ TakeLock(c) \/ Check(c)
  \/ UpdateTime(c) \/ Run(c) \/ Succeed(c) \/ Release(c)

Next ==
  \/ \E c \in Callers : LoopStep(c) \/ Lose(c)
  \/ \E s \in Servers : Stop(s) \/ Crash(s) \/ Exit(s) \/ Start(s)
  \/ Tick

Spec == Init /\ [][Next]_vars

\* The event loop and the database serve every step, every job ends, a
\* process that must end does, and a server that is down is replaced.  The
\* pool serves its waiters in turn, so AskLock is strongly fair.
Fairness ==
  /\ \A c \in Callers : WF_vars(LoopStep(c)) /\ SF_vars(AskLock(c))
  /\ \A s \in Servers : WF_vars(Exit(s)) /\ WF_vars(Start(s))
  /\ WF_vars(Tick)

FairSpec == Spec /\ Fairness

-----------------------------------------------------------------------------
(* Properties. *)

\* Two servers are in the same job at once only if the lock connection of all
\* but one of them broke (tryJobWithLock and the named lock it takes).
InJob(j) == {c \in Callers : /\ pc[c] \in {"check", "update", "run", "succeed"}
                             /\ JobOf(c) = j}

OneServerPerJob ==
  \A j \in Jobs : \A c, d \in InJob(j) :
    c # d => "lost" \in {session[c].phase, session[d].phase}

\* A job runs no more often than its interval allows, however the rounds of
\* the servers interleave; each lost lock connection lets at most one run
\* begin too early (cron/index.ts, "the jobs will still only run at the
\* required frequency").
RunsAtFrequency == early <= lost

\* cron_jobs shows a job as finished only when no server is running it, so a
\* run that crashed is found by sendUnfinishedCronWarnings; lost lock
\* connections aside.
FinishedMeansIdle ==
  lost = 0 => \A c \in Callers : pc[c] \in {"run", "succeed"} => JobOf(c) \in unfinished

\* Every job of every group runs again and again, crashes, stops, lost
\* connections and a pool smaller than the number of loops notwithstanding.
JobsKeepRunning ==
  \A j \in Jobs : []<>(\E c \in Callers : pc[c] = "run" /\ JobOf(c) = j)

\* stop() returns: a server that was asked to stop comes to an end.
StopReturns ==
  \A c \in Callers : timeout[c] = "stop" ~> timeout[c] = "none"

=============================================================================
