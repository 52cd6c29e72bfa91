----------------------- MODULE BatchedMigrationsProofs ----------------------
(***************************************************************************)
(* For every number of migrations, loops, deployments and values: the jobs *)
(* of a migration leave no value out, whatever crashes and breaks, and a   *)
(* migration that is marked as succeeded is complete, unless a retry has   *)
(* crossed the end of a run.                                               *)
(***************************************************************************)
EXTENDS BatchedMigrations, TLAPS

\* What a worker relies on between two of its steps.
RunnerOK(r) ==
  /\ r.pc \notin {"idle", "select", "start", "over"} => r.m \in Migrations
  /\ r.pc \in {"execute", "finish"} => r.job \in JobsOf(r.m)
  /\ r.pc = "finish" /\ r.verdict = "succeeded" => ValuesIn(r.job) \subseteq done[r.m]
  /\ r.pc = "insert" => /\ r.min <= r.max
                        /\ MinOf(r.m)..(r.min - 1) \subseteq Covered(r.m)
  /\ r.pc \in {"pick", "incomplete"} => ValuesOf(r.m) \subseteq Covered(r.m)

\* A job that has succeeded has migrated its values.
JobsDone ==
  \A j \in Made : job[j].status = "succeeded" => ValuesIn(j) \subseteq done[job[j].of]

CInv == TypeOK /\ (\A w \in Workers : RunnerOK(worker[w])) /\ NothingSkipped /\ JobsDone

\* Jobs keep their migration and their bounds, data stays migrated, and what a
\* retry has crossed is remembered.
RowsGrow ==
  /\ \A j \in Made : /\ j \in Made' /\ job'[j].of = job[j].of
                     /\ job'[j].min = job[j].min /\ job'[j].max = job[j].max
  /\ \A m \in Migrations : done[m] \subseteq done'[m]
  /\ crossed \subseteq crossed'

\* What the steps of a worker leave well typed besides its record.
OthersTyped ==
  /\ session' \in [Callers -> Session]
  /\ status' \in [Migrations -> Statuses]
  /\ crossed' \subseteq Migrations /\ crossed \subseteq crossed'
  /\ failures' \in Nat /\ retries' \in Nat /\ losses' \in Nat /\ deaths' \in Nat

-----------------------------------------------------------------------------
(* Rows. *)

LEMMA Constants ==
  /\ \A m \in Migrations : /\ MinOf(m) \in Nat /\ MaxOf(m) \in Nat
                           /\ ValuesOf(m) \subseteq MinOf(m)..MaxOf(m)
                           /\ Params[m].size \in Nat \ {0}
  /\ Callers = Workers /\ Null \notin Migrations /\ Null \notin Jobs
  /\ Migrations \subseteq LockNames /\ Project \in LockNames
BY MigrationsAssumption DEF Params_, MinOf, MaxOf, ValuesOf, Null, Jobs

LEMMA CoveredGrows ==
  ASSUME RowsGrow, NEW m \in Migrations
  PROVE  JobsOf(m) \subseteq JobsOf(m)' /\ Covered(m) \subseteq Covered(m)'
<1>1. JobsOf(m) \subseteq JobsOf(m)' /\ \A j \in JobsOf(m) : ValuesIn(j)' = ValuesIn(j)
  BY DEF RowsGrow, JobsOf, Made, ValuesIn
<1>2. QED
  BY <1>1 DEF Covered

LEMMA SameRowsGrow ==
  ASSUME UNCHANGED <<job, done, crossed>>
  PROVE  RowsGrow
BY DEF RowsGrow, Made

\* A worker that does not move keeps what it relies on.
LEMMA OthersOK ==
  ASSUME CInv, RowsGrow, NEW w \in Workers, UNCHANGED worker[w]
  PROVE  RunnerOK(worker[w])'
<1>1. CASE worker[w].pc \in {"idle", "select", "start", "over"}
  BY <1>1 DEF RunnerOK
<1>2. CASE worker[w].pc \notin {"idle", "select", "start", "over"}
  <2> DEFINE m == worker[w].m
  <2>1. m \in Migrations /\ RunnerOK(worker[w])
    BY <1>2 DEF CInv, RunnerOK
  <2>2. JobsOf(m) \subseteq JobsOf(m)' /\ Covered(m) \subseteq Covered(m)'
    BY <2>1, CoveredGrows
  <2>3. done[m] \subseteq done'[m] /\ \A j \in JobsOf(m) : ValuesIn(j)' = ValuesIn(j)
    BY <2>1 DEF RowsGrow, JobsOf, Made, ValuesIn
  <2>4. MinOf(m)' = MinOf(m) /\ ValuesOf(m)' = ValuesOf(m)
    BY DEF MinOf, ValuesOf, MaxOf
  <2>5. QED
    BY <2>1, <2>2, <2>3, <2>4 DEF RunnerOK
<1>3. QED
  BY <1>1, <1>2

\* No job is added.
LEMMA NoNewJob ==
  ASSUME CInv, RowsGrow, Made' = Made
  PROVE  NothingSkipped'
<1>1. SUFFICES ASSUME NEW m \in Migrations, NEW j \in JobsOf(m)'
               PROVE  MinOf(m)..job'[j].max \subseteq Covered(m)'
  BY DEF NothingSkipped, MinOf
<1>2. j \in JobsOf(m) /\ job'[j].max = job[j].max
  BY DEF JobsOf, RowsGrow
<1>3. QED
  BY <1>2, CoveredGrows DEF CInv, NothingSkipped

LEMMA Moves ==
  ASSUME TypeOK, NEW w \in Workers, NEW r \in Worker, Become(w, r)
  PROVE  /\ worker' \in [Workers -> Worker]
         /\ worker'[w] = r
         /\ \A u \in Workers : u # w => worker'[u] = worker[u]
BY DEF TypeOK, Become

\* Jobs and data stay as they are.
LEMMA SameRows ==
  ASSUME CInv, UNCHANGED <<job, done>>, OthersTyped, worker' \in [Workers -> Worker],
         \A u \in Workers : worker'[u] = worker[u] \/ RunnerOK(worker[u])'
  PROVE  CInv'
<1>1. RowsGrow /\ Made' = Made
  BY DEF RowsGrow, OthersTyped, Made
<1>2. \A u \in Workers : RunnerOK(worker[u])'
  BY <1>1, OthersOK
<1>3. JobsDone'
  BY DEF CInv, JobsDone, Made, ValuesIn
<1>4. NothingSkipped'
  BY <1>1, NoNewJob
<1>5. QED
  BY <1>2, <1>3, <1>4 DEF CInv, TypeOK, OthersTyped

\* A step of one worker that leaves jobs and data alone.
LEMMA LocalMove ==
  ASSUME CInv, NEW w \in Workers, NEW r \in Worker, Become(w, r), RunnerOK(r),
         UNCHANGED <<job, done>>, OthersTyped
  PROVE  CInv'
<1>1. /\ worker' \in [Workers -> Worker] /\ worker'[w] = r
      /\ \A u \in Workers : u # w => worker'[u] = worker[u]
  BY Moves DEF CInv
<1>2. RunnerOK(worker[w])'
  BY <1>1 DEF RunnerOK, MinOf, ValuesOf, MaxOf, Covered, JobsOf, Made, ValuesIn
<1>3. QED
  BY <1>1, <1>2, SameRows

-----------------------------------------------------------------------------
(* Locks and records. *)

LEMMA LockTypes ==
  ASSUME TypeOK, NEW c \in Callers
  PROVE  /\ \A n \in LockNames : TryLock(c, n) => session' \in [Callers -> Session]
         /\ ReleaseLock(c) => session' \in [Callers -> Session]
         /\ LoseLock(c) => session' \in [Callers -> Session]
BY DEF TypeOK, TryLock, ReleaseLock, LoseLock, Session, NoSession, Phases

LEMMA StepTypes ==
  ASSUME NEW step \in Steps, NEW m \in Migrations \cup {Null}, NEW read \in Statuses
  PROVE  /\ AtStep(step, m, read) \in Worker
         /\ AtStep(step, m, read).pc = step /\ AtStep(step, m, read).m = m
BY DEF AtStep, Worker

LEMMA RestTypes ==
  /\ IdleWorker \in Worker /\ RunnerOK(IdleWorker)
  /\ \A w \in Workers : AtRest(w) \in Worker /\ RunnerOK(AtRest(w))
BY StepTypes DEF IdleWorker, AtRest, Steps, Statuses, RunnerOK

\* A worker that holds a migration.
LEMMA Holding ==
  ASSUME CInv, NEW w \in Workers
  PROVE  /\ worker[w] \in Worker /\ w \in Callers /\ RunnerOK(worker[w])
         /\ worker[w].pc \notin {"idle", "select", "start", "over"} => worker[w].m \in Migrations
BY Constants DEF CInv, TypeOK, RunnerOK

-----------------------------------------------------------------------------
(* Finding a migration. *)

LEMMA FoundStep ==
  ASSUME CInv, NEW w \in Workers, NEW m \in Migrations, Found(w, m, "running"),
         UNCHANGED <<job, done, bounds>>, status' \in [Migrations -> Statuses]
  PROVE  CInv'
<1> DEFINE r == AtStep("lock", m, "running")
<1>1. r \in Worker /\ RunnerOK(r)
  BY StepTypes DEF Steps, Statuses, RunnerOK
<1>2. Become(w, r) /\ OthersTyped
  BY Holding, LockTypes DEF Found, OthersTyped, CInv, TypeOK, bounds
<1> HIDE DEF r
<1>3. QED
  BY <1>1, <1>2, LocalMove

LEMMA FindStep ==
  ASSUME CInv, NEW w \in Workers, Find(w)
  PROVE  CInv'
<1> USE DEF rows, bounds
<1>0. TypeOK /\ worker[w] \in Worker /\ w \in Callers
  BY Holding DEF CInv
<1>1. CASE TakeProject(w)
  <2> DEFINE r == [worker[w] EXCEPT !.pc = "select"]
  <2>1. r \in Worker /\ r.pc = "select" /\ RunnerOK(r)
    BY <1>0 DEF Worker, Steps, RunnerOK
  <2>2. Become(w, r) /\ OthersTyped
    BY <1>0, <1>1, LockTypes, Constants DEF TakeProject, GoTo, OthersTyped, TypeOK
  <2> HIDE DEF r
  <2>3. QED
    BY <1>1, <2>1, <2>2, LocalMove DEF TakeProject
<1>2. CASE SelectRunning(w)
  <2>1. CASE GoTo(w, "start") /\ session' = session
    <3> DEFINE r == [worker[w] EXCEPT !.pc = "start"]
    <3>1. r \in Worker /\ r.pc = "start" /\ RunnerOK(r)
      BY <1>0 DEF Worker, Steps, RunnerOK
    <3>2. Become(w, r) /\ OthersTyped
      BY <1>0, <1>2, <2>1 DEF SelectRunning, GoTo, OthersTyped, TypeOK
    <3> HIDE DEF r
    <3>3. QED
      BY <1>2, <3>1, <3>2, LocalMove DEF SelectRunning
  <2>2. CASE \E m \in Migrations : Found(w, m, "running")
    BY <1>0, <1>2, <2>2, FoundStep DEF SelectRunning, TypeOK
  <2>3. QED
    BY <1>2, <2>1, <2>2 DEF SelectRunning
<1>3. CASE StartPending(w)
  <2>1. CASE Become(w, IdleWorker) /\ ReleaseLock(w) /\ status' = status
    <3>1. OthersTyped
      BY <1>0, <1>3, <2>1, LockTypes DEF StartPending, OthersTyped, TypeOK
    <3>2. QED
      BY <1>3, <2>1, <3>1, RestTypes, LocalMove DEF StartPending
  <2>2. CASE \E m \in Migrations : status' = [status EXCEPT ![m] = "running"]
                                   /\ Found(w, m, "running")
    <3>1. status' \in [Migrations -> Statuses]
      BY <1>0, <2>2 DEF TypeOK, Statuses
    <3>2. QED
      BY <1>3, <2>2, <3>1, FoundStep DEF StartPending
  <2>3. QED
    BY <1>3, <2>1, <2>2 DEF StartPending
<1>4. CASE MarkFinalizing(w)
  <2> DEFINE r == [worker[w] EXCEPT !.pc = "lock", !.status = "finalizing"]
  <2>1. r \in Worker /\ r.pc = "lock" /\ r.m = worker[w].m
    BY <1>0 DEF Worker, Steps, Statuses
  <2>2. RunnerOK(r)
    BY <1>4, <2>1, Holding DEF MarkFinalizing, RunnerOK
  <2>3. Become(w, r) /\ OthersTyped
    BY <1>0, <1>4, LockTypes DEF MarkFinalizing, OthersTyped, TypeOK, Statuses
  <2> HIDE DEF r
  <2>4. QED
    BY <1>4, <2>1, <2>2, <2>3, LocalMove DEF MarkFinalizing
<1>5. CASE TakeMigration(w)
  <2>0. worker[w].m \in Migrations
    BY <1>5, Holding DEF TakeMigration
  <2>1. CASE TryLock(w, worker[w].m) /\ GoTo(w, "loop")
    <3> DEFINE r == [worker[w] EXCEPT !.pc = "loop"]
    <3>1. r \in Worker /\ r.pc = "loop" /\ r.m = worker[w].m
      BY <1>0 DEF Worker, Steps
    <3>2. RunnerOK(r)
      BY <2>0, <3>1 DEF RunnerOK
    <3>3. Become(w, r) /\ OthersTyped
      BY <1>0, <1>5, <2>0, <2>1, LockTypes, Constants
         DEF TakeMigration, GoTo, OthersTyped, TypeOK
    <3> HIDE DEF r
    <3>4. QED
      BY <1>5, <3>1, <3>2, <3>3, LocalMove DEF TakeMigration
  <2>2. CASE Become(w, AtRest(w)) /\ session' = session
    BY <1>0, <1>5, <2>2, RestTypes, LocalMove DEF TakeMigration, OthersTyped, TypeOK
  <2>3. QED
    BY <1>5, <2>1, <2>2 DEF TakeMigration
<1>6. QED
  BY <1>1, <1>2, <1>3, <1>4, <1>5 DEF Find

-----------------------------------------------------------------------------
(* Running a migration. *)

LEMMA EasySteps ==
  ASSUME NEW r \in Worker, r.m \in Migrations,
         r.pc \notin {"insert", "pick", "incomplete", "execute", "finish"}
  PROVE  RunnerOK(r)
BY DEF RunnerOK

LEMMA NextMinCovered ==
  ASSUME CInv, NEW m \in Migrations, NEW min \in NextMin(m)
  PROVE  min \in Nat /\ MinOf(m)..(min - 1) \subseteq Covered(m)
<1>0. MinOf(m) \in Nat
  BY Constants
<1>1. CASE JobsOf(m) = {}
  BY <1>0, <1>1 DEF NextMin
<1>2. CASE JobsOf(m) # {}
  <2>1. PICK j \in JobsOf(m) : min = job[j].max + 1
    BY <1>2 DEF NextMin
  <2>2. job[j].max \in Nat
    BY DEF CInv, TypeOK, Job, JobsOf, Made
  <2>3. MinOf(m)..job[j].max \subseteq Covered(m)
    BY DEF CInv, NothingSkipped
  <2>4. QED
    BY <1>0, <2>1, <2>2, <2>3
<1>3. QED
  BY <1>1, <1>2

\* A step of one worker that writes jobs or data.
LEMMA RowsStep ==
  ASSUME CInv, RowsGrow, OthersTyped, job' \in [Jobs -> Job],
         done' \in [Migrations -> SUBSET Nat], worker' \in [Workers -> Worker],
         \A u \in Workers : worker'[u] = worker[u] \/ RunnerOK(worker[u])',
         NothingSkipped', JobsDone'
  PROVE  CInv'
<1>1. \A u \in Workers : RunnerOK(worker[u])'
  BY OthersOK
<1>2. QED
  BY <1>1 DEF CInv, TypeOK, OthersTyped

LEMMA BoundsStep ==
  ASSUME CInv, NEW w \in Workers, GetBounds(w)
  PROVE  CInv'
<1> DEFINE m == worker[w].m
<1>0. /\ TypeOK /\ worker[w] \in Worker /\ m \in Migrations
      /\ MinOf(m) \in Nat /\ MaxOf(m) \in Nat /\ Params[m].size \in Nat \ {0}
      /\ ValuesOf(m) \subseteq MinOf(m)..MaxOf(m)
  BY Holding, Constants DEF CInv, GetBounds
<1>1. OthersTyped
  BY <1>0 DEF GetBounds, OthersTyped, TypeOK, bounds, rows
<1>2. PICK min \in NextMin(m) :
        LET last == MaxOf(m)
            max  == min + Params[m].size - 1
        IN IF min > last
             THEN GoTo(w, "pick")
             ELSE Become(w, [worker[w] EXCEPT !.pc = "insert", !.min = min,
                               !.max = IF max > last THEN last ELSE max])
  BY DEF GetBounds
<1>3. min \in Nat /\ MinOf(m)..(min - 1) \subseteq Covered(m)
  BY <1>0, NextMinCovered
<1>4. CASE min > MaxOf(m)
  <2> DEFINE r == [worker[w] EXCEPT !.pc = "pick"]
  <2>1. r \in Worker /\ r.pc = "pick" /\ r.m = m /\ Become(w, r)
    BY <1>0, <1>2, <1>4 DEF Worker, Steps, GoTo
  <2>2. ValuesOf(m) \subseteq Covered(m)
    BY <1>0, <1>3, <1>4
  <2>3. RunnerOK(r)
    BY <1>0, <2>1, <2>2 DEF RunnerOK
  <2> HIDE DEF r
  <2>4. QED
    BY <1>1, <2>1, <2>3, LocalMove DEF GetBounds, rows
<1>5. CASE ~(min > MaxOf(m))
  <2> DEFINE max == IF min + Params[m].size - 1 > MaxOf(m) THEN MaxOf(m)
                    ELSE min + Params[m].size - 1
             r == [worker[w] EXCEPT !.pc = "insert", !.min = min, !.max = max]
  <2>1. max \in Nat /\ min <= max
    BY <1>0, <1>3, <1>5
  <2>2. Become(w, r)
    BY <1>2, <1>5
  <2> HIDE DEF max
  <2>3. r \in Worker /\ r.pc = "insert" /\ r.m = m /\ r.min = min /\ r.max = max
    BY <1>0, <1>3, <2>1 DEF Worker, Steps
  <2>4. RunnerOK(r)
    BY <1>0, <1>3, <2>1, <2>3 DEF RunnerOK
  <2> HIDE DEF r
  <2>5. QED
    BY <1>1, <2>2, <2>3, <2>4, LocalMove DEF GetBounds, rows
<1>6. QED
  BY <1>4, <1>5

LEMMA InsertStep ==
  ASSUME CInv, NEW w \in Workers, InsertJob(w)
  PROVE  CInv'
<1> PICK m, lo, hi : m = worker[w].m /\ lo = worker[w].min /\ hi = worker[w].max
  OBVIOUS
<1>0. /\ TypeOK /\ worker[w] \in Worker /\ m \in Migrations /\ MinOf(m) \in Nat
      /\ lo \in Nat /\ hi \in Nat /\ lo <= hi /\ MinOf(m)..(lo - 1) \subseteq Covered(m)
  BY Holding, Constants DEF CInv, InsertJob, RunnerOK, Worker
<1>1. OthersTyped
  BY <1>0 DEF InsertJob, OthersTyped, TypeOK, bounds
<1>2. PICK j \in Jobs \ Made :
        /\ job' = [job EXCEPT ![j] = [of |-> m, status |-> "pending", min |-> lo, max |-> hi]]
        /\ Become(w, [worker[w] EXCEPT !.pc = "execute", !.job = j, !.min = 0, !.max = 0])
  BY DEF InsertJob
<1> DEFINE r == [worker[w] EXCEPT !.pc = "execute", !.job = j, !.min = 0, !.max = 0]
           new == [of |-> m, status |-> "pending", min |-> lo, max |-> hi]
<1>3. r \in Worker /\ r.pc = "execute" /\ r.m = m /\ r.job = j /\ Become(w, r)
  BY <1>0, <1>2 DEF Worker, Steps
<1>4. /\ new \in Job /\ new.of = m /\ new.min = lo /\ new.max = hi
      /\ new.status = "pending"
  BY <1>0 DEF Job
<1>5. job' = [job EXCEPT ![j] = new]
  BY <1>2
<1> HIDE DEF r, new
<1>6. job' \in [Jobs -> Job] /\ job'[j] = new /\ \A i \in Jobs : i # j => job'[i] = job[i]
  BY <1>0, <1>4, <1>5 DEF TypeOK
<1>7. m # Null
  BY <1>0, Constants
<1>8. Made' = Made \cup {j}
  BY <1>4, <1>6, <1>7 DEF Made
<1>9. RowsGrow
  BY <1>1, <1>2, <1>6, <1>8 DEF RowsGrow, InsertJob, Made, OthersTyped
<1>10. j \in JobsOf(m)' /\ ValuesIn(j)' = lo..hi
  BY <1>4, <1>6, <1>8 DEF JobsOf, ValuesIn
<1>11. NothingSkipped'
  <2>1. SUFFICES ASSUME NEW n \in Migrations, NEW i \in JobsOf(n)'
                 PROVE  MinOf(n)..job'[i].max \subseteq Covered(n)'
    BY DEF NothingSkipped, MinOf
  <2>2. CASE i = j
    <3>1. n = m /\ job'[i].max = hi
      BY <1>4, <1>6, <2>2 DEF JobsOf
    <3>2. Covered(m) \subseteq Covered(m)' /\ lo..hi \subseteq Covered(m)'
      BY <1>0, <1>9, <1>10, CoveredGrows DEF Covered
    <3>3. QED
      BY <1>0, <3>1, <3>2
  <2>3. CASE i # j
    <3>1. i \in JobsOf(n) /\ job'[i] = job[i]
      BY <1>6, <1>8, <2>3 DEF JobsOf, Made
    <3>2. QED
      BY <1>9, <3>1, CoveredGrows DEF CInv, NothingSkipped
  <2>4. QED
    BY <2>2, <2>3
<1>12. JobsDone'
  BY <1>4, <1>6, <1>8 DEF CInv, JobsDone, InsertJob, ValuesIn, Made
<1>13. worker' \in [Workers -> Worker] /\ worker'[w] = r /\ \A u \in Workers : u # w => worker'[u] = worker[u]
  BY <1>0, <1>3, Moves
<1>14. RunnerOK(worker[w])'
  BY <1>0, <1>3, <1>10, <1>13 DEF RunnerOK
<1>15. done' \in [Migrations -> SUBSET Nat]
  BY <1>0 DEF InsertJob, TypeOK
<1>16. QED
  BY <1>1, <1>6, <1>9, <1>11, <1>12, <1>13, <1>14, <1>15, RowsStep

LEMMA ExecuteStep ==
  ASSUME CInv, NEW w \in Workers, Execute(w)
  PROVE  CInv'
<1> DEFINE m == worker[w].m
           j == worker[w].job
<1>0. /\ TypeOK /\ worker[w] \in Worker /\ m \in Migrations
      /\ j \in JobsOf(m) /\ j \in Jobs /\ job[j].of = m
  BY Holding DEF CInv, Execute, RunnerOK, JobsOf, Made
<1>1. OthersTyped
  BY <1>0 DEF Execute, OthersTyped, TypeOK
<1>2. CASE /\ done' = [done EXCEPT ![m] = @ \cup ValuesIn(j)]
           /\ Become(w, [worker[w] EXCEPT !.pc = "finish", !.verdict = "succeeded"])
  <2> DEFINE r == [worker[w] EXCEPT !.pc = "finish", !.verdict = "succeeded"]
  <2>1. r \in Worker /\ r.pc = "finish" /\ r.m = m /\ r.job = j /\ Become(w, r)
    BY <1>0, <1>2 DEF Worker, Steps
  <2> HIDE DEF r
  <2>2. ValuesIn(j) \subseteq Nat
    BY <1>0 DEF ValuesIn, TypeOK, Job
  <2>3. /\ done' \in [Migrations -> SUBSET Nat] /\ ValuesIn(j) \subseteq done'[m]
        /\ \A n \in Migrations : done[n] \subseteq done'[n]
    BY <1>0, <1>2, <2>2 DEF TypeOK
  <2>4. job' = job /\ Made' = Made /\ RowsGrow
    BY <2>3 DEF Execute, RowsGrow, Made
  <2>5. JobsDone'
    <3>1. \A i \in Made : job[i].of \in Migrations
      BY <1>0 DEF TypeOK, Job, Made
    <3>2. QED
      BY <2>3, <2>4, <3>1 DEF CInv, JobsDone, ValuesIn
  <2>6. worker' \in [Workers -> Worker] /\ worker'[w] = r /\ \A u \in Workers : u # w => worker'[u] = worker[u]
    BY <1>0, <2>1, Moves
  <2>7. RunnerOK(worker[w])'
    BY <1>0, <2>1, <2>3, <2>4, <2>6 DEF RunnerOK, JobsOf, ValuesIn
  <2>8. QED
    BY <1>0, <1>1, <2>3, <2>4, <2>5, <2>6, <2>7, NoNewJob, RowsStep DEF TypeOK
<1>3. CASE /\ done' = done
           /\ Become(w, [worker[w] EXCEPT !.pc = "finish", !.verdict = "failed"])
  <2> DEFINE r == [worker[w] EXCEPT !.pc = "finish", !.verdict = "failed"]
  <2>1. /\ r \in Worker /\ r.pc = "finish" /\ r.m = m /\ r.job = j /\ Become(w, r)
        /\ r.verdict = "failed"
    BY <1>0, <1>3 DEF Worker, Steps
  <2> HIDE DEF r
  <2>2. RunnerOK(r)
    BY <1>0, <2>1 DEF RunnerOK
  <2>3. QED
    BY <1>1, <1>3, <2>1, <2>2, LocalMove DEF Execute
<1>4. QED
  BY <1>0, <1>2, <1>3 DEF Execute

LEMMA FinishStep ==
  ASSUME CInv, NEW w \in Workers, FinishJob(w)
  PROVE  CInv'
<1> DEFINE m == worker[w].m
           j == worker[w].job
           v == worker[w].verdict
           r == [worker[w] EXCEPT !.pc = "refresh", !.job = Null, !.verdict = "failed"]
<1>0. /\ TypeOK /\ worker[w] \in Worker /\ m \in Migrations /\ v \in {"failed", "succeeded"}
      /\ j \in JobsOf(m) /\ j \in Jobs /\ j \in Made /\ job[j].of = m
      /\ v = "succeeded" => ValuesIn(j) \subseteq done[m]
  BY Holding DEF CInv, FinishJob, RunnerOK, JobsOf, Made, Worker
<1>1. OthersTyped
  BY <1>0 DEF FinishJob, OthersTyped, TypeOK, bounds
<1>2. r \in Worker /\ r.pc = "refresh" /\ r.m = m /\ Become(w, r)
  BY <1>0 DEF Worker, Steps, FinishJob
<1> HIDE DEF r
<1> DEFINE new == [job[j] EXCEPT !.status = v]
<1>3. new \in Job /\ new.of = m /\ new.min = job[j].min /\ new.max = job[j].max /\ new.status = v
  BY <1>0 DEF Job, TypeOK
<1>4. job' = [job EXCEPT ![j] = new]
  BY DEF FinishJob
<1> HIDE DEF new
<1>5. job' \in [Jobs -> Job] /\ job'[j] = new /\ \A i \in Jobs : i # j => job'[i] = job[i]
  BY <1>0, <1>3, <1>4 DEF TypeOK
<1>6. Made' = Made /\ RowsGrow
  BY <1>0, <1>1, <1>3, <1>5 DEF Made, RowsGrow, FinishJob, OthersTyped
<1>7. JobsDone'
  BY <1>0, <1>3, <1>5, <1>6, ZenonT(60) DEF CInv, JobsDone, ValuesIn, Made, FinishJob
<1>8. worker' \in [Workers -> Worker] /\ worker'[w] = r /\ \A u \in Workers : u # w => worker'[u] = worker[u]
  BY <1>0, <1>2, Moves
<1>9. RunnerOK(worker[w])'
  BY <1>0, <1>2, <1>8 DEF RunnerOK
<1>10. done' \in [Migrations -> SUBSET Nat]
  BY <1>0 DEF FinishJob, TypeOK
<1>11. QED
  BY <1>1, <1>5, <1>6, <1>7, <1>8, <1>9, <1>10, NoNewJob, RowsStep

LEMMA RunStep ==
  ASSUME CInv, NEW w \in Workers, Run(w)
  PROVE  CInv'
<1> USE DEF rows, bounds
<1> DEFINE m == worker[w].m
<1>0. TypeOK /\ worker[w] \in Worker /\ w \in Callers
  BY Holding DEF CInv
<1>1. CASE EndRun(w)
  <2>0. m \in Migrations
    BY <1>1, Holding DEF EndRun
  <2>1. OthersTyped
    BY <1>0, <1>1, LockTypes DEF EndRun, OthersTyped, TypeOK
  <2>2. CASE w \in Loops
    BY <1>1, <2>1, <2>2, RestTypes, LocalMove DEF EndRun
  <2>3. CASE w \notin Loops
    <3> DEFINE r == [worker[w] EXCEPT !.pc = "verify"]
    <3>1. r \in Worker /\ r.pc = "verify" /\ r.m = m /\ Become(w, r)
      BY <1>0, <1>1, <2>3 DEF Worker, Steps, EndRun, GoTo
    <3> HIDE DEF r
    <3>2. QED
      BY <1>1, <2>0, <2>1, <3>1, EasySteps, LocalMove DEF EndRun
  <2>4. QED
    BY <2>2, <2>3
<1>2. CASE Continue(w)
  <2> DEFINE r == [worker[w] EXCEPT !.pc = "bounds", !.status = "none"]
  <2>1. r \in Worker /\ r.pc = "bounds" /\ r.m = m /\ m \in Migrations /\ Become(w, r)
    BY <1>0, <1>2, Holding DEF Worker, Steps, Statuses, Continue
  <2>2. OthersTyped
    BY <1>0, <1>2 DEF Continue, OthersTyped, TypeOK
  <2> HIDE DEF r
  <2>3. QED
    BY <1>2, <2>1, <2>2, EasySteps, LocalMove DEF Continue
<1>3. CASE GetBounds(w)
  BY <1>3, BoundsStep
<1>4. CASE InsertJob(w)
  BY <1>4, InsertStep
<1>5. CASE PickPending(w)
  <2>0. m \in Migrations /\ ValuesOf(m) \subseteq Covered(m)
    BY <1>5, Holding DEF PickPending, RunnerOK
  <2>1. OthersTyped
    BY <1>0, <1>5 DEF PickPending, OthersTyped, TypeOK
  <2>2. CASE GoTo(w, "incomplete")
    <3> DEFINE r == [worker[w] EXCEPT !.pc = "incomplete"]
    <3>1. r \in Worker /\ r.pc = "incomplete" /\ r.m = m /\ Become(w, r)
      BY <1>0, <2>2 DEF Worker, Steps, GoTo
    <3> HIDE DEF r
    <3>2. RunnerOK(r)
      BY <2>0, <3>1 DEF RunnerOK
    <3>3. QED
      BY <1>5, <2>1, <3>1, <3>2, LocalMove DEF PickPending
  <2>3. CASE \E j \in PendingOf(m) : Become(w, [worker[w] EXCEPT !.pc = "execute", !.job = j])
    <3>1. PICK j \in PendingOf(m) : Become(w, [worker[w] EXCEPT !.pc = "execute", !.job = j])
      BY <2>3
    <3>2. j \in Jobs /\ j \in JobsOf(m)
      BY DEF PendingOf, JobsOf, Made
    <3> DEFINE r == [worker[w] EXCEPT !.pc = "execute", !.job = j]
    <3>3. r \in Worker /\ r.pc = "execute" /\ r.m = m /\ r.job = j /\ Become(w, r)
      BY <1>0, <3>1, <3>2 DEF Worker, Steps
    <3> HIDE DEF r
    <3>4. RunnerOK(r)
      BY <2>0, <3>2, <3>3 DEF RunnerOK
    <3>5. QED
      BY <1>5, <2>1, <3>3, <3>4, LocalMove DEF PickPending
  <2>4. QED
    BY <1>5, <2>2, <2>3 DEF PickPending
<1>6. CASE Execute(w)
  BY <1>6, ExecuteStep
<1>7. CASE FinishJob(w)
  BY <1>7, FinishStep
<1>8. CASE CheckIncomplete(w)
  <2> DEFINE step == IF PendingOf(m) # {} THEN "refresh" ELSE "failed"
             r == [worker[w] EXCEPT !.pc = step]
  <2>1. step \in {"refresh", "failed"} /\ Become(w, r) /\ m \in Migrations
    BY <1>8, Holding DEF CheckIncomplete, GoTo
  <2> HIDE DEF step
  <2>2. r \in Worker /\ r.pc \in {"refresh", "failed"} /\ r.m = m
    BY <1>0, <2>1 DEF Worker, Steps
  <2>3. OthersTyped
    BY <1>0, <1>8 DEF CheckIncomplete, OthersTyped, TypeOK
  <2> HIDE DEF r
  <2>4. QED
    BY <1>8, <2>1, <2>2, <2>3, EasySteps, LocalMove DEF CheckIncomplete
<1>9. CASE CheckFailed(w)
  <2> DEFINE v == IF FailedOf(m) # {} THEN "failed" ELSE "succeeded"
             r == [worker[w] EXCEPT !.pc = "write", !.verdict = v]
  <2>1. v \in {"failed", "succeeded"} /\ Become(w, r) /\ m \in Migrations
    BY <1>9, Holding DEF CheckFailed
  <2> HIDE DEF v
  <2>2. r \in Worker /\ r.pc = "write" /\ r.m = m
    BY <1>0, <2>1 DEF Worker, Steps
  <2>3. OthersTyped
    BY <1>0, <1>9 DEF CheckFailed, OthersTyped, TypeOK
  <2> HIDE DEF r
  <2>4. QED
    BY <1>9, <2>1, <2>2, <2>3, EasySteps, LocalMove DEF CheckFailed
<1>10. CASE WriteStatus(w)
  <2> DEFINE r == [worker[w] EXCEPT !.pc = "refresh", !.verdict = "failed"]
  <2>1. r \in Worker /\ r.pc = "refresh" /\ r.m = m /\ m \in Migrations /\ Become(w, r)
    BY <1>0, <1>10, Holding DEF Worker, Steps, WriteStatus
  <2>2. OthersTyped
    BY <1>0, <1>10 DEF WriteStatus, OthersTyped, TypeOK, Worker, Statuses
  <2> HIDE DEF r
  <2>3. QED
    BY <1>10, <2>1, <2>2, EasySteps, LocalMove DEF WriteStatus
<1>11. CASE Refresh(w)
  <2> DEFINE r == [worker[w] EXCEPT !.pc = "again", !.status = status[m]]
  <2>0. m \in Migrations
    BY <1>11, Holding DEF Refresh
  <2>1. r \in Worker /\ r.pc = "again" /\ r.m = m /\ Become(w, r)
    BY <1>0, <1>11, <2>0 DEF Worker, Steps, Refresh, TypeOK
  <2>2. OthersTyped
    BY <1>0, <1>11 DEF Refresh, OthersTyped, TypeOK
  <2> HIDE DEF r
  <2>3. QED
    BY <1>11, <2>0, <2>1, <2>2, EasySteps, LocalMove DEF Refresh
<1>12. CASE Verify(w)
  <2>0. m \in Migrations /\ OthersTyped
    BY <1>0, <1>12, Holding DEF Verify, OthersTyped, TypeOK
  <2>1. CASE Become(w, AtStep("finalized", m, "none"))
    <3> DEFINE r == AtStep("finalized", m, "none")
    <3>1. r \in Worker /\ r.pc = "finalized" /\ r.m = m /\ Become(w, r)
      BY <2>0, <2>1, StepTypes DEF Steps, Statuses
    <3> HIDE DEF r
    <3>2. QED
      BY <1>12, <2>0, <3>1, EasySteps, LocalMove DEF Verify
  <2>2. CASE Become(w, AtRest(w))
    BY <1>12, <2>0, <2>2, RestTypes, LocalMove DEF Verify
  <2>3. QED
    BY <1>12, <2>1, <2>2 DEF Verify
<1>13. QED
  BY <1>1, <1>2, <1>3, <1>4, <1>5, <1>6, <1>7, <1>8, <1>9, <1>10, <1>11, <1>12 DEF Run

-----------------------------------------------------------------------------
(* The administrator, and failures. *)

LEMMA EndsStep ==
  ASSUME CInv, NEW w \in Workers, Ends(w), deaths' \in Nat
  PROVE  CInv'
<1>1. session' \in [Callers -> Session] /\ OthersTyped
  BY DEF CInv, TypeOK, Ends, OthersTyped, rows, NoSession, Session, Phases
<1>2. QED
  BY <1>1, RestTypes, LocalMove DEF Ends, rows

LEMMA AdminStep ==
  ASSUME CInv, NEW m \in Migrations, Enqueue(m) \/ Retry(m)
  PROVE  CInv'
<1>0. TypeOK
  BY DEF CInv
<1>1. CASE Enqueue(m)
  <2>1. OthersTyped
    BY <1>0, <1>1 DEF Enqueue, OthersTyped, TypeOK, Statuses, bounds
  <2>2. QED
    BY <1>0, <1>1, <2>1, SameRows DEF Enqueue, TypeOK
<1>2. CASE Retry(m)
  <2>1. OthersTyped
    BY <1>0, <1>2 DEF Retry, OthersTyped, TypeOK, Statuses
  <2>2. \A j \in Jobs : job'[j] = job[j] \/ job'[j] = [job[j] EXCEPT !.status = "pending"]
    BY <1>2 DEF Retry
  <2>3. \A j \in Jobs : /\ job'[j] \in Job /\ job'[j].of = job[j].of
                        /\ job'[j].min = job[j].min /\ job'[j].max = job[j].max
                        /\ job'[j].status \in {job[j].status, "pending"}
    <3>1. SUFFICES ASSUME NEW j \in Jobs
                   PROVE  /\ job'[j] \in Job /\ job'[j].of = job[j].of
                          /\ job'[j].min = job[j].min /\ job'[j].max = job[j].max
                          /\ job'[j].status \in {job[j].status, "pending"}
      OBVIOUS
    <3>2. job[j] \in Job
      BY <1>0 DEF TypeOK
    <3>3. QED
      BY <2>2, <3>2 DEF Job
  <2>4. job' \in [Jobs -> Job] /\ Made' = Made /\ RowsGrow
    <3>1. job' = [j \in Jobs |-> job'[j]]
      BY <1>2 DEF Retry
    <3>2. QED
      BY <1>2, <2>3, <3>1 DEF Made, RowsGrow, Retry
  <2>5. JobsDone'
    BY <1>2, <2>3, <2>4 DEF CInv, JobsDone, ValuesIn, Made, Retry
  <2>6. QED
    BY <1>0, <1>2, <2>1, <2>4, <2>5, NoNewJob, RowsStep DEF Retry, TypeOK
<1>3. QED
  BY <1>1, <1>2

LEMMA OtherStep ==
  ASSUME CInv, NEW w \in Workers,
         \/ Crash(w) \/ Lose(w) \/ Exit(w)
         \/ \E m \in Migrations : ReadFinalize(w, m)
  PROVE  CInv'
<1>0. TypeOK /\ w \in Callers
  BY Constants DEF CInv
<1>1. CASE Crash(w)
  BY <1>0, <1>1, EndsStep DEF Crash, TypeOK
<1>2. CASE Exit(w)
  BY <1>0, <1>2, EndsStep DEF Exit, TypeOK
<1>3. CASE Lose(w)
  <2>1. OthersTyped
    BY <1>0, <1>3, LockTypes DEF Lose, OthersTyped, TypeOK, rows
  <2>2. QED
    BY <1>0, <1>3, <2>1, SameRows DEF Lose, TypeOK, rows
<1>4. ASSUME NEW m \in Migrations, ReadFinalize(w, m)
      PROVE  CInv'
  <2> DEFINE step == CASE status[m] = "succeeded"  -> "finalized"
                       [] status[m] = "finalizing" -> "lock"
                       [] OTHER                    -> "mark"
             r == AtStep(step, m, status[m])
  <2>1. step \in {"finalized", "lock", "mark"} /\ Become(w, r)
    BY <1>4 DEF ReadFinalize
  <2> HIDE DEF step
  <2>2. r \in Worker /\ r.pc \in {"finalized", "lock", "mark"} /\ r.m = m
    BY <1>0, <2>1, StepTypes DEF Steps, TypeOK
  <2>3. OthersTyped
    BY <1>0, <1>4 DEF ReadFinalize, OthersTyped, TypeOK, rows, bounds
  <2> HIDE DEF r
  <2>4. QED
    BY <1>4, <2>1, <2>2, <2>3, EasySteps, LocalMove DEF ReadFinalize, rows
<1>5. QED
  BY <1>1, <1>2, <1>3, <1>4

LEMMA CInvInit ==
  ASSUME Init
  PROVE  CInv
<1>1. Made = {}
  BY DEF Init, NoJob, Made
<1>2. TypeOK
  <2>1. NoJob \in Job /\ IdleWorker \in Worker
    BY RestTypes DEF NoJob, Job
  <2>2. QED
    BY <2>1 DEF Init, TypeOK, LocksInit, NoSession, Session, Phases, Statuses
<1>3. \A w \in Workers : RunnerOK(worker[w])
  BY RestTypes DEF Init
<1>4. NothingSkipped /\ JobsDone
  BY <1>1 DEF NothingSkipped, JobsDone, JobsOf
<1>5. QED
  BY <1>2, <1>3, <1>4 DEF CInv

LEMMA CInvStep ==
  ASSUME CInv, [Next]_vars
  PROVE  CInv'
<1>1. CASE Next
  BY <1>1, AdminStep, FindStep, RunStep, OtherStep DEF Next
<1>2. CASE UNCHANGED vars
  BY <1>2, SameRows DEF vars, CInv, TypeOK, OthersTyped
<1>3. QED
  BY <1>1, <1>2

\* The code keeps no job out of order: whatever crashes, breaks or runs at
\* once, the jobs of a migration cover every value up to the last of them
\* (getNextBatchBounds, insertJob).
THEOREM NothingIsSkipped == Spec => []NothingSkipped
<1>1. Init => CInv
  BY CInvInit
<1>2. CInv /\ [Next]_vars => CInv'
  BY CInvStep
<1>3. CInv => NothingSkipped
  BY DEF CInv
<1>4. QED
  BY <1>1, <1>2, <1>3, PTL DEF Spec

-----------------------------------------------------------------------------
(* A migration that has succeeded is complete. *)

ValuesOfFailed(m) == UNION {ValuesIn(j) : j \in FailedOf(m)}

Complete(m) == m \in crossed \/ ValuesOf(m) \subseteq done[m]

\* What the end of a run relies on between two of its queries.
VerdictOK(r) ==
  /\ r.pc = "failed" =>
       r.m \in crossed \/ ValuesOf(r.m) \subseteq done[r.m] \cup ValuesOfFailed(r.m)
  /\ r.pc = "write" /\ r.verdict = "succeeded" => Complete(r.m)
  /\ r.pc = "finalized" => Complete(r.m)

SInv == (\A w \in Workers : VerdictOK(worker[w])) /\ SucceededIsComplete

\* A job that failed stays failed, or its values are migrated, or a retry has
\* crossed the end of a run.
FailuresStay(m) ==
  m \in crossed' \/ ValuesOfFailed(m) \subseteq ValuesOfFailed(m)' \cup done'[m]

LEMMA VerdictStays ==
  ASSUME CInv, SInv, RowsGrow, NEW w \in Workers, UNCHANGED worker[w],
         worker[w].pc = "failed" => FailuresStay(worker[w].m)
  PROVE  VerdictOK(worker[w])'
<1>1. CASE worker[w].pc \in {"failed", "write", "finalized"}
  <2> PICK m : m = worker[w].m
    OBVIOUS
  <2>1. m \in Migrations /\ VerdictOK(worker[w])
    BY <1>1 DEF CInv, RunnerOK, SInv
  <2>2. done[m] \subseteq done'[m] /\ ValuesOf(m)' = ValuesOf(m)
    BY <2>1 DEF RowsGrow, ValuesOf, MinOf, MaxOf
  <2>3. QED
    BY <2>1, <2>2 DEF VerdictOK, Complete, FailuresStay, RowsGrow
<1>2. CASE worker[w].pc \notin {"failed", "write", "finalized"}
  BY <1>2 DEF VerdictOK
<1>3. QED
  BY <1>1, <1>2

\* A migration is marked as succeeded only when it is complete.
LEMMA SucceededStays ==
  ASSUME SInv, CInv, RowsGrow,
         \A m \in Migrations : status'[m] = "succeeded" =>
            status[m] = "succeeded" \/ Complete(m)
  PROVE  SucceededIsComplete'
BY DEF SInv, SucceededIsComplete, Complete, RowsGrow, ValuesOf, MinOf, MaxOf

\* A step that changes neither jobs nor data.
LEMMA VerdictMove ==
  ASSUME CInv, SInv, NEW w \in Workers, NEW r, Become(w, r), VerdictOK(r),
         UNCHANGED <<job, done, crossed>>,
         \A m \in Migrations : status'[m] = "succeeded" =>
            status[m] = "succeeded" \/ Complete(m)
  PROVE  SInv'
<1>1. RowsGrow
  BY SameRowsGrow
<1>2. worker'[w] = r /\ \A u \in Workers : u # w => worker'[u] = worker[u]
  BY DEF CInv, TypeOK, Become
<1>3. VerdictOK(worker[w])'
  BY <1>2 DEF VerdictOK, Complete, ValuesOf, MinOf, MaxOf, ValuesOfFailed, FailedOf, JobsOf, Made, ValuesIn
<1>4. \A m : FailuresStay(m)
  BY DEF FailuresStay, ValuesOfFailed, FailedOf, JobsOf, Made, ValuesIn
<1>5. \A u \in Workers : u # w => VerdictOK(worker[u])'
  BY <1>1, <1>2, <1>4, VerdictStays
<1>6. QED
  BY <1>1, <1>3, <1>5, SucceededStays DEF SInv

\* A step after which the worker relies on nothing here.
LEMMA QuietMove ==
  ASSUME CInv, SInv, NEW w \in Workers, NEW r, Become(w, r),
         r.pc \notin {"failed", "write", "finalized"},
         UNCHANGED <<job, done, crossed>>,
         \A m \in Migrations : status'[m] = "succeeded" =>
            status[m] = "succeeded" \/ Complete(m)
  PROVE  SInv'
<1>1. VerdictOK(r)
  BY DEF VerdictOK
<1>2. QED
  BY <1>1, VerdictMove

LEMMA RestQuiet ==
  /\ IdleWorker.pc \notin {"failed", "write", "finalized"}
  /\ \A w \in Workers : AtRest(w).pc \notin {"failed", "write", "finalized"}
  /\ \A m, read : AtStep("lock", m, read).pc = "lock"
BY DEF IdleWorker, AtRest, AtStep

LEMMA FindVerdict ==
  ASSUME CInv, SInv, NEW w \in Workers, Find(w)
  PROVE  SInv'
<1> USE DEF rows, bounds
<1>0. worker[w] \in Worker /\ status \in [Migrations -> Statuses]
  BY DEF CInv, TypeOK
<1>1. CASE TakeProject(w)
  <2> DEFINE r == [worker[w] EXCEPT !.pc = "select"]
  <2>1. r.pc = "select" /\ Become(w, r)
    BY <1>0, <1>1 DEF Worker, TakeProject, GoTo
  <2> HIDE DEF r
  <2>2. QED
    BY <1>1, <2>1, QuietMove DEF TakeProject
<1>2. CASE SelectRunning(w)
  <2>1. CASE GoTo(w, "start")
    <3> DEFINE r == [worker[w] EXCEPT !.pc = "start"]
    <3>1. r.pc = "start" /\ Become(w, r)
      BY <1>0, <2>1 DEF Worker, GoTo
    <3> HIDE DEF r
    <3>2. QED
      BY <1>2, <3>1, QuietMove DEF SelectRunning
  <2>2. CASE \E m \in Migrations : Found(w, m, "running")
    BY <1>2, <2>2, RestQuiet, QuietMove DEF SelectRunning, Found
  <2>3. QED
    BY <1>2, <2>1, <2>2 DEF SelectRunning
<1>3. CASE StartPending(w)
  <2>1. CASE Become(w, IdleWorker) /\ status' = status
    BY <1>3, <2>1, RestQuiet, QuietMove DEF StartPending
  <2>2. CASE \E m \in Migrations : status' = [status EXCEPT ![m] = "running"]
                                   /\ Found(w, m, "running")
    <3>1. PICK m \in Migrations : status' = [status EXCEPT ![m] = "running"]
                                  /\ Become(w, AtStep("lock", m, "running"))
      BY <2>2 DEF Found
    <3>2. \A n \in Migrations : status'[n] = "succeeded" => status[n] = "succeeded"
      BY <1>0, <3>1
    <3>3. QED
      BY <1>3, <3>1, <3>2, RestQuiet, QuietMove DEF StartPending
  <2>3. QED
    BY <1>3, <2>1, <2>2 DEF StartPending
<1>4. CASE MarkFinalizing(w)
  <2> DEFINE r == [worker[w] EXCEPT !.pc = "lock", !.status = "finalizing"]
  <2>1. r.pc = "lock" /\ Become(w, r)
    BY <1>0, <1>4 DEF Worker, MarkFinalizing
  <2>2. \A n \in Migrations : status'[n] = "succeeded" => status[n] = "succeeded"
    BY <1>0, <1>4 DEF MarkFinalizing
  <2> HIDE DEF r
  <2>3. QED
    BY <1>4, <2>1, <2>2, QuietMove DEF MarkFinalizing
<1>5. CASE TakeMigration(w)
  <2>1. CASE GoTo(w, "loop")
    <3> DEFINE r == [worker[w] EXCEPT !.pc = "loop"]
    <3>1. r.pc = "loop" /\ Become(w, r)
      BY <1>0, <2>1 DEF Worker, GoTo
    <3> HIDE DEF r
    <3>2. QED
      BY <1>5, <3>1, QuietMove DEF TakeMigration
  <2>2. CASE Become(w, AtRest(w))
    BY <1>5, <2>2, RestQuiet, QuietMove DEF TakeMigration
  <2>3. QED
    BY <1>5, <2>1, <2>2 DEF TakeMigration
<1>6. QED
  BY <1>1, <1>2, <1>3, <1>4, <1>5 DEF Find

\* The job that a worker writes the end of.
LEMMA FinishVerdict ==
  ASSUME CInv, SInv, NEW w \in Workers, FinishJob(w)
  PROVE  SInv'
<1> PICK j, v, m : j = worker[w].job /\ v = worker[w].verdict /\ m = worker[w].m
  OBVIOUS
<1>0. /\ worker[w] \in Worker /\ job \in [Jobs -> Job] /\ m \in Migrations
      /\ v \in {"failed", "succeeded"} /\ j \in JobsOf(m) /\ j \in Jobs /\ job[j].of = m
      /\ v = "succeeded" => ValuesIn(j) \subseteq done[m]
  BY Holding DEF CInv, TypeOK, FinishJob, RunnerOK, JobsOf, Made, Worker
<1>1. job' = [job EXCEPT ![j].status = v] /\ done' = done
  BY DEF FinishJob
<1>2. /\ \A i \in Jobs : job'[i].of = job[i].of /\ ValuesIn(i)' = ValuesIn(i)
      /\ \A i \in Jobs : i # j => job'[i] = job[i]
      /\ job'[j].status = v
  BY <1>0, <1>1 DEF Job, ValuesIn
<1>3. RowsGrow
  BY <1>0, <1>1 DEF RowsGrow, Made, Job, FinishJob, bounds
<1>4. ASSUME NEW n \in Migrations
      PROVE  FailuresStay(n)
  <2>1. SUFFICES ASSUME NEW i \in FailedOf(n), NEW x \in ValuesIn(i)
                 PROVE  x \in ValuesOfFailed(n)' \/ x \in done[n]
    BY <1>1 DEF FailuresStay, ValuesOfFailed
  <2>2. i \in Jobs /\ i \in JobsOf(n) /\ i \in JobsOf(n)' /\ job[i].of = n
    BY <1>2 DEF FailedOf, JobsOf, Made
  <2>3. CASE job'[i].status = "failed"
    BY <1>2, <2>2, <2>3 DEF ValuesOfFailed, FailedOf
  <2>4. CASE job'[i].status # "failed"
    <3>1. i = j /\ v = "succeeded"
      BY <1>0, <1>2, <2>2, <2>4 DEF FailedOf
    <3>2. QED
      BY <1>0, <2>2, <3>1
  <2>5. QED
    BY <2>3, <2>4
<1>5. worker'[w].pc = "refresh" /\ \A u \in Workers : u # w => worker'[u] = worker[u]
  BY <1>0 DEF FinishJob, Become, CInv, TypeOK, Worker
<1>6. VerdictOK(worker[w])'
  BY <1>5 DEF VerdictOK
<1>7. \A u \in Workers : worker[u].pc = "failed" => worker[u].m \in Migrations
  BY DEF CInv, RunnerOK
<1>8. \A u \in Workers : u # w => VerdictOK(worker[u])'
  BY <1>3, <1>4, <1>5, <1>7, VerdictStays
<1>9. SucceededIsComplete'
  BY <1>3, SucceededStays DEF FinishJob
<1>10. QED
  BY <1>6, <1>8, <1>9 DEF SInv

\* A new job and more data leave what is known.
LEMMA GrowVerdict ==
  ASSUME CInv, SInv, NEW w \in Workers, InsertJob(w) \/ Execute(w)
  PROVE  SInv'
<1>0. worker[w] \in Worker /\ job \in [Jobs -> Job] /\ worker \in [Workers -> Worker]
  BY DEF CInv, TypeOK
<1>1. RowsGrow /\ \A i \in Made : i \in Made' /\ job'[i] = job[i]
  <2>1. CASE InsertJob(w)
    BY <1>0, <2>1 DEF InsertJob, RowsGrow, Made, bounds
  <2>2. CASE Execute(w)
    <3>1. worker[w].job \in Jobs
      BY <2>2, Holding DEF Execute, RunnerOK, JobsOf, Made
    <3>2. QED
      BY <1>0, <2>2, <3>1 DEF Execute, RowsGrow, Made, CInv, TypeOK
  <2>3. QED
    BY <2>1, <2>2
<1>2. \A m \in Migrations : FailuresStay(m)
  BY <1>1 DEF FailuresStay, ValuesOfFailed, FailedOf, JobsOf, ValuesIn
<1>3. worker'[w].pc \in {"execute", "finish"} /\ \A u \in Workers : u # w => worker'[u] = worker[u]
  <2>1. \A u \in Workers : u # w => worker'[u] = worker[u]
    BY <1>0 DEF InsertJob, Execute, Become
  <2>2. CASE InsertJob(w)
    <3>1. PICK j : Become(w, [worker[w] EXCEPT !.pc = "execute", !.job = j, !.min = 0, !.max = 0])
      BY <2>2 DEF InsertJob
    <3> DEFINE r == [worker[w] EXCEPT !.pc = "execute", !.job = j, !.min = 0, !.max = 0]
    <3>2. r.pc = "execute"
      BY <1>0 DEF Worker
    <3> HIDE DEF r
    <3>3. QED
      BY <1>0, <2>1, <3>1, <3>2 DEF Become, r
  <2>3. CASE Execute(w)
    <3>1. PICK v \in {"failed", "succeeded"} : Become(w, [worker[w] EXCEPT !.pc = "finish", !.verdict = v])
      BY <2>3 DEF Execute
    <3> DEFINE r == [worker[w] EXCEPT !.pc = "finish", !.verdict = v]
    <3>2. r.pc = "finish"
      BY <1>0 DEF Worker
    <3> HIDE DEF r
    <3>3. QED
      BY <1>0, <2>1, <3>1, <3>2 DEF Become, r
  <2>4. QED
    BY <2>2, <2>3
<1>4. VerdictOK(worker[w])'
  BY <1>3 DEF VerdictOK
<1>5. \A u \in Workers : worker[u].pc = "failed" => worker[u].m \in Migrations
  BY DEF CInv, RunnerOK
<1>6. \A u \in Workers : u # w => VerdictOK(worker[u])'
  BY <1>1, <1>2, <1>3, <1>5, VerdictStays
<1>7. SucceededIsComplete'
  BY <1>1, SucceededStays DEF InsertJob, Execute
<1>8. QED
  BY <1>4, <1>6, <1>7 DEF SInv

\* The queries at the end of a run decide on what they find.
LEMMA DecideVerdict ==
  ASSUME CInv, SInv, NEW w \in Workers,
         CheckIncomplete(w) \/ CheckFailed(w) \/ WriteStatus(w)
  PROVE  SInv'
<1> USE DEF rows, bounds
<1> PICK m : m = worker[w].m
  OBVIOUS
<1>0. /\ worker[w] \in Worker /\ status \in [Migrations -> Statuses] /\ m \in Migrations
      /\ RunnerOK(worker[w]) /\ VerdictOK(worker[w])
  BY Holding DEF CInv, TypeOK, SInv, CheckIncomplete, CheckFailed, WriteStatus
<1>1. CASE CheckIncomplete(w)
  <2> DEFINE step == IF PendingOf(m) # {} THEN "refresh" ELSE "failed"
             r == [worker[w] EXCEPT !.pc = step]
  <2>1. r.pc = step /\ r.m = m /\ Become(w, r)
    BY <1>0, <1>1 DEF Worker, CheckIncomplete, GoTo
  <2>2. ASSUME PendingOf(m) = {}
        PROVE  ValuesOf(m) \subseteq done[m] \cup ValuesOfFailed(m)
    <3>1. ValuesOf(m) \subseteq Covered(m)
      BY <1>0, <1>1 DEF CheckIncomplete, RunnerOK
    <3>2. ASSUME NEW j \in JobsOf(m)
          PROVE  j \in FailedOf(m) \/ ValuesIn(j) \subseteq done[m]
      <4>1. j \in Made /\ job[j].of = m /\ job[j].status \in {"pending", "failed", "succeeded"}
        BY DEF JobsOf, Made, CInv, TypeOK, Job
      <4>2. QED
        BY <2>2, <4>1 DEF PendingOf, FailedOf, CInv, JobsDone
    <3>3. Covered(m) \subseteq done[m] \cup ValuesOfFailed(m)
      BY <3>2 DEF Covered, ValuesOfFailed
    <3>4. QED
      BY <3>1, <3>3
  <2>3. VerdictOK(r)
    BY <2>1, <2>2 DEF VerdictOK
  <2> HIDE DEF r
  <2>4. QED
    BY <1>1, <2>1, <2>3, VerdictMove DEF CheckIncomplete
<1>2. CASE CheckFailed(w)
  <2> DEFINE v == IF FailedOf(m) # {} THEN "failed" ELSE "succeeded"
             r == [worker[w] EXCEPT !.pc = "write", !.verdict = v]
  <2>1. r.pc = "write" /\ r.m = m /\ r.verdict = v /\ Become(w, r)
    BY <1>0, <1>2 DEF Worker, CheckFailed
  <2>2. FailedOf(m) = {} => Complete(m)
    BY <1>0, <1>2 DEF CheckFailed, VerdictOK, Complete, ValuesOfFailed
  <2>3. VerdictOK(r)
    BY <2>1, <2>2 DEF VerdictOK
  <2> HIDE DEF r
  <2>4. QED
    BY <1>2, <2>1, <2>3, VerdictMove DEF CheckFailed
<1>3. CASE WriteStatus(w)
  <2> DEFINE r == [worker[w] EXCEPT !.pc = "refresh", !.verdict = "failed"]
  <2>1. r.pc = "refresh" /\ Become(w, r)
    BY <1>0, <1>3 DEF Worker, WriteStatus
  <2>2. \A n \in Migrations : status'[n] = "succeeded" =>
          status[n] = "succeeded" \/ Complete(n)
    BY <1>0, <1>3 DEF WriteStatus, VerdictOK
  <2> HIDE DEF r
  <2>3. QED
    BY <1>3, <2>1, <2>2, QuietMove DEF WriteStatus
<1>4. QED
  BY <1>1, <1>2, <1>3

LEMMA RunVerdict ==
  ASSUME CInv, SInv, NEW w \in Workers, Run(w)
  PROVE  SInv'
<1> USE DEF rows, bounds
<1>0. worker[w] \in Worker /\ status \in [Migrations -> Statuses]
  BY DEF CInv, TypeOK
<1>1. CASE EndRun(w)
  <2>1. CASE w \in Loops
    BY <1>1, <2>1, RestQuiet, QuietMove DEF EndRun
  <2>2. CASE w \notin Loops
    <3> DEFINE r == [worker[w] EXCEPT !.pc = "verify"]
    <3>1. r.pc = "verify" /\ Become(w, r)
      BY <1>0, <1>1, <2>2 DEF Worker, EndRun, GoTo
    <3> HIDE DEF r
    <3>2. QED
      BY <1>1, <3>1, QuietMove DEF EndRun
  <2>3. QED
    BY <2>1, <2>2
<1>2. CASE Continue(w)
  <2> DEFINE r == [worker[w] EXCEPT !.pc = "bounds", !.status = "none"]
  <2>1. r.pc = "bounds" /\ Become(w, r)
    BY <1>0, <1>2 DEF Worker, Continue
  <2> HIDE DEF r
  <2>2. QED
    BY <1>2, <2>1, QuietMove DEF Continue
<1>3. CASE GetBounds(w)
  <2>1. CASE GoTo(w, "pick")
    <3> DEFINE r == [worker[w] EXCEPT !.pc = "pick"]
    <3>1. r.pc = "pick" /\ Become(w, r)
      BY <1>0, <2>1 DEF Worker, GoTo
    <3> HIDE DEF r
    <3>2. QED
      BY <1>3, <3>1, QuietMove DEF GetBounds
  <2>2. CASE \E min, max : Become(w, [worker[w] EXCEPT !.pc = "insert", !.min = min, !.max = max])
    <3>1. PICK min, max : Become(w, [worker[w] EXCEPT !.pc = "insert", !.min = min, !.max = max])
      BY <2>2
    <3> DEFINE r == [worker[w] EXCEPT !.pc = "insert", !.min = min, !.max = max]
    <3>2. r.pc = "insert" /\ Become(w, r)
      BY <1>0, <3>1 DEF Worker
    <3> HIDE DEF r
    <3>3. QED
      BY <1>3, <3>2, QuietMove DEF GetBounds
  <2>3. QED
    BY <1>3, <2>1, <2>2 DEF GetBounds
<1>4. CASE PickPending(w)
  <2>1. CASE GoTo(w, "incomplete")
    <3> DEFINE r == [worker[w] EXCEPT !.pc = "incomplete"]
    <3>1. r.pc = "incomplete" /\ Become(w, r)
      BY <1>0, <2>1 DEF Worker, GoTo
    <3> HIDE DEF r
    <3>2. QED
      BY <1>4, <3>1, QuietMove DEF PickPending
  <2>2. CASE \E j : Become(w, [worker[w] EXCEPT !.pc = "execute", !.job = j])
    <3>1. PICK j : Become(w, [worker[w] EXCEPT !.pc = "execute", !.job = j])
      BY <2>2
    <3> DEFINE r == [worker[w] EXCEPT !.pc = "execute", !.job = j]
    <3>2. r.pc = "execute" /\ Become(w, r)
      BY <1>0, <3>1 DEF Worker
    <3> HIDE DEF r
    <3>3. QED
      BY <1>4, <3>2, QuietMove DEF PickPending
  <2>3. QED
    BY <1>4, <2>1, <2>2 DEF PickPending
<1>5. CASE Refresh(w)
  <2> DEFINE r == [worker[w] EXCEPT !.pc = "again", !.status = status[worker[w].m]]
  <2>1. r.pc = "again" /\ Become(w, r)
    BY <1>0, <1>5 DEF Worker, Refresh
  <2> HIDE DEF r
  <2>2. QED
    BY <1>5, <2>1, QuietMove DEF Refresh
<1>6. CASE Verify(w)
  <2>1. CASE status[worker[w].m] = "succeeded"
    <3> DEFINE r == AtStep("finalized", worker[w].m, "none")
    <3>1. r.pc = "finalized" /\ r.m = worker[w].m /\ Become(w, r)
      BY <1>6, <2>1 DEF AtStep, Verify
    <3>2. worker[w].m \in Migrations
      BY <1>6, Holding DEF Verify
    <3>3. VerdictOK(r)
      BY <2>1, <3>1, <3>2 DEF SInv, SucceededIsComplete, VerdictOK, Complete
    <3> HIDE DEF r
    <3>4. QED
      BY <1>6, <3>1, <3>3, VerdictMove DEF Verify
  <2>2. CASE status[worker[w].m] # "succeeded"
    BY <1>6, <2>2, RestQuiet, QuietMove DEF Verify
  <2>3. QED
    BY <2>1, <2>2
<1>7. QED
  BY <1>1, <1>2, <1>3, <1>4, <1>5, <1>6, GrowVerdict, FinishVerdict, DecideVerdict DEF Run

LEMMA OtherVerdict ==
  ASSUME CInv, SInv, NEW w \in Workers,
         \/ Crash(w) \/ Lose(w) \/ Exit(w)
         \/ \E m \in Migrations : ReadFinalize(w, m)
  PROVE  SInv'
<1> USE DEF rows
<1>1. CASE Crash(w) \/ Exit(w)
  BY <1>1, RestQuiet, QuietMove DEF Crash, Exit, Ends
<1>2. CASE Lose(w)
  <2>1. Become(w, worker[w]) /\ VerdictOK(worker[w])
    BY <1>2 DEF Lose, Become, CInv, TypeOK, SInv
  <2>2. QED
    BY <1>2, <2>1, VerdictMove DEF Lose
<1>3. ASSUME NEW m \in Migrations, ReadFinalize(w, m)
      PROVE  SInv'
  <2> DEFINE step == CASE status[m] = "succeeded"  -> "finalized"
                       [] status[m] = "finalizing" -> "lock"
                       [] OTHER                    -> "mark"
             r == AtStep(step, m, status[m])
  <2>1. r.pc = step /\ r.m = m /\ Become(w, r)
    BY <1>3 DEF AtStep, ReadFinalize
  <2>2. /\ step \in {"finalized", "lock", "mark"}
        /\ step = "finalized" => status[m] = "succeeded"
    OBVIOUS
  <2>3. VerdictOK(r)
    BY <2>1, <2>2 DEF SInv, SucceededIsComplete, VerdictOK, Complete
  <2> HIDE DEF r
  <2>4. QED
    BY <1>3, <2>1, <2>3, VerdictMove DEF ReadFinalize, bounds
<1>4. QED
  BY <1>1, <1>2, <1>3

\* A retry that makes jobs pending between the last two queries of a run is
\* one that crosses it.
LEMMA AdminVerdict ==
  ASSUME CInv, SInv, NEW m \in Migrations, Enqueue(m) \/ Retry(m)
  PROVE  SInv'
<1>0. status \in [Migrations -> Statuses] /\ job \in [Jobs -> Job]
  BY DEF CInv, TypeOK
<1>1. worker' = worker /\ done' = done /\ crossed \subseteq crossed'
  BY DEF Enqueue, Retry, bounds
<1>2. RowsGrow
  <2>1. CASE Enqueue(m)
    BY <2>1, SameRowsGrow DEF Enqueue, bounds
  <2>2. CASE Retry(m)
    <3>1. \A j \in Jobs : /\ job'[j].of = job[j].of /\ job'[j].min = job[j].min
                          /\ job'[j].max = job[j].max
      BY <1>0, <2>2 DEF Retry, Job
    <3>2. QED
      BY <1>1, <3>1 DEF RowsGrow, Made
  <2>3. QED
    BY <2>1, <2>2
<1>3. ASSUME NEW w \in Workers, worker[w].pc = "failed"
      PROVE  FailuresStay(worker[w].m)
  <2>1. CASE Enqueue(m)
    BY <2>1 DEF Enqueue, FailuresStay, ValuesOfFailed, FailedOf, JobsOf, Made, ValuesIn
  <2>2. CASE Retry(m)
    <3>1. PICK n : n = worker[w].m
      OBVIOUS
    <3>2. CASE n = m /\ FailedOf(m) # {}
      BY <1>3, <2>2, <3>1, <3>2 DEF Retry, FailuresStay
    <3>3. CASE n = m /\ FailedOf(m) = {}
      BY <3>1, <3>3 DEF FailuresStay, ValuesOfFailed
    <3>4. CASE n # m
      <4>1. \A j \in FailedOf(n) : job'[j] = job[j]
        BY <1>0, <2>2, <3>4 DEF Retry, FailedOf, JobsOf, Made
      <4>2. FailedOf(n) \subseteq FailedOf(n)' /\ \A j \in FailedOf(n) : ValuesIn(j)' = ValuesIn(j)
        BY <4>1 DEF FailedOf, JobsOf, Made, ValuesIn
      <4>3. FailuresStay(n)
        BY <4>2 DEF FailuresStay, ValuesOfFailed
      <4>4. QED
        BY <3>1, <4>3
    <3>5. QED
      BY <3>2, <3>3, <3>4
  <2>3. QED
    BY <2>1, <2>2
<1>4. \A w \in Workers : VerdictOK(worker[w])'
  BY <1>1, <1>2, <1>3, VerdictStays
<1>5. \A n \in Migrations : status'[n] = "succeeded" =>
        status[n] = "succeeded" \/ Complete(n)
  BY <1>0 DEF Enqueue, Retry, ValuesOf, Complete
<1>6. QED
  BY <1>2, <1>4, <1>5, SucceededStays DEF SInv

LEMMA SInvInvariant == Spec => [](CInv /\ SInv)
<1>1. Init => CInv /\ SInv
  BY CInvInit DEF Init, SInv, VerdictOK, IdleWorker, AtStep, SucceededIsComplete
<1>2. ASSUME CInv, SInv, [Next]_vars
      PROVE  CInv' /\ SInv'
  <2>1. CInv'
    BY <1>2, CInvStep
  <2>2. CASE Next
    <3>1. ASSUME NEW m \in Migrations, Enqueue(m) \/ Retry(m)
          PROVE  SInv'
      BY <1>2, <3>1, AdminVerdict
    <3>2. ASSUME NEW w \in Workers, Find(w) \/ Run(w)
          PROVE  SInv'
      BY <1>2, <3>2, FindVerdict, RunVerdict
    <3>3. ASSUME NEW w \in Workers,
                 Crash(w) \/ Lose(w) \/ Exit(w) \/ \E m \in Migrations : ReadFinalize(w, m)
          PROVE  SInv'
      BY <1>2, <3>3, OtherVerdict
    <3>4. QED
      BY <2>1, <2>2, <3>1, <3>2, <3>3 DEF Next
  <2>3. CASE UNCHANGED vars
    <3>1. RowsGrow /\ status' = status /\ worker' = worker
      BY <2>3, SameRowsGrow DEF vars
    <3>2. \A m : FailuresStay(m)
      BY <2>3 DEF vars, FailuresStay, ValuesOfFailed, FailedOf, JobsOf, Made, ValuesIn
    <3>3. (\A w \in Workers : VerdictOK(worker[w])') /\ SucceededIsComplete'
      BY <1>2, <3>1, <3>2, VerdictStays, SucceededStays
    <3>4. QED
      BY <2>1, <3>3 DEF SInv
  <2>4. QED
    BY <1>2, <2>1, <2>2, <2>3
<1>3. QED
  BY <1>1, <1>2, PTL DEF Spec

\* A migration that finishRunningMigration marks as succeeded has migrated all
\* of its values, unless a retry crossed the end of a run.
THEOREM SucceededMeansComplete == Spec => []SucceededIsComplete
<1>1. CInv /\ SInv => SucceededIsComplete
  BY DEF SInv
<1>2. QED
  BY <1>1, SInvInvariant, PTL

\* A deployment goes on after finalizeBatchedMigration only with all values
\* migrated, unless a retry crossed the end of a run.
THEOREM FinalizedMeansComplete == Spec => []FinalizedIsComplete
<1>1. CInv /\ SInv => FinalizedIsComplete
  BY DEF SInv, VerdictOK, Complete, FinalizedIsComplete, Workers
<1>2. QED
  BY <1>1, SInvInvariant, PTL

-----------------------------------------------------------------------------
(* The runners implement MigratedData. *)

LEMMA DataStep ==
  ASSUME CInv, SInv, SInv', [Next]_vars
  PROVE  [Data!Next]_Data!vars
<1> DEFINE values == [m \in Migrations |-> ValuesOf(m)]
           report == [m \in Migrations |-> Verdict(status[m])]
<1>0. /\ status \in [Migrations -> Statuses] /\ done \in [Migrations -> SUBSET Nat]
      /\ \A m \in Migrations \ crossed' : status'[m] = "succeeded" => ValuesOf(m) \subseteq done'[m]
  BY DEF CInv, TypeOK, SInv, SucceededIsComplete, ValuesOf, MinOf, MaxOf
\* A status is written, which reports something or opens the migration again.
<1>1. ASSUME NEW m \in Migrations, NEW s, status' = [status EXCEPT ![m] = s], done' = done,
             crossed' = crossed
      PROVE  Data!Next
  <2>1. report' = [report EXCEPT ![m] = Verdict(s)]
    BY <1>0, <1>1
  <2>2. Verdict(s) \in {"open", "failed", "succeeded"} /\ (Verdict(s) = "succeeded" => s = "succeeded")
    BY DEF Verdict
  <2>3. Verdict(s) = "succeeded" => values[m] \subseteq done[m] \/ m \in crossed
    BY <1>0, <1>1, <2>2
  <2>4. Data!Succeed(m) \/ Data!Fail(m) \/ Data!Reopen(m)
    BY <1>1, <2>1, <2>2, <2>3 DEF Data!Succeed, Data!Fail, Data!Reopen
  <2>5. QED
    BY <2>4 DEF Data!Next
<1>2. ASSUME NEW m \in Migrations, NEW more, done' = [done EXCEPT ![m] = @ \cup more],
             status' = status, crossed' = crossed
      PROVE  Data!Next
  BY <1>0, <1>2 DEF Data!Migrate, Data!Next
<1>3. CASE UNCHANGED <<status, done, crossed>>
  BY <1>3 DEF Data!vars
<1>4. CASE Next
  <2>1. ASSUME NEW m \in Migrations, Enqueue(m)
        PROVE  Data!Next
    BY <1>1, <2>1 DEF Enqueue, bounds
  <2>2. ASSUME NEW m \in Migrations, Retry(m)
        PROVE  Data!Next
    <3>1. report' = [report EXCEPT ![m] = "open"]
      BY <1>0, <2>2 DEF Retry, Verdict
    <3>2. Data!Reopen(m)
      BY <2>2, <3>1 DEF Retry, Data!Reopen
    <3>3. QED
      BY <3>2 DEF Data!Next
  <2>3. ASSUME NEW w \in Workers, Find(w)
        PROVE  UNCHANGED <<status, done, crossed>> \/ Data!Next
    <3>1. CASE StartPending(w)
      BY <1>1, <3>1 DEF StartPending, bounds
    <3>2. CASE MarkFinalizing(w)
      <4>1. worker[w].m \in Migrations
        BY <3>2, Holding DEF MarkFinalizing
      <4>2. QED
        BY <1>1, <3>2, <4>1 DEF MarkFinalizing, bounds
    <3>3. QED
      BY <2>3, <3>1, <3>2 DEF Find, TakeProject, SelectRunning, TakeMigration, rows, bounds
  <2>4. ASSUME NEW w \in Workers, Run(w)
        PROVE  UNCHANGED <<status, done, crossed>> \/ Data!Next
    <3>1. CASE WriteStatus(w)
      <4>1. worker[w].m \in Migrations
        BY <3>1, Holding DEF WriteStatus
      <4>2. QED
        BY <1>1, <3>1, <4>1 DEF WriteStatus, bounds
    <3>2. CASE Execute(w)
      <4>1. worker[w].m \in Migrations /\ job[worker[w].job].of = worker[w].m
        BY <3>2, Holding DEF Execute, RunnerOK, JobsOf
      <4>2. QED
        BY <1>2, <3>2, <4>1 DEF Execute
    <3>3. QED
      BY <2>4, <3>1, <3>2 DEF Run, EndRun, Continue, GetBounds, InsertJob, PickPending,
         FinishJob, CheckIncomplete, CheckFailed, Refresh, Verify, rows, bounds
  <2>5. ASSUME NEW w \in Workers,
               Crash(w) \/ Lose(w) \/ Exit(w) \/ \E m \in Migrations : ReadFinalize(w, m)
        PROVE  UNCHANGED <<status, done, crossed>>
    BY <2>5 DEF Crash, Exit, Ends, Lose, ReadFinalize, rows, bounds
  <2>6. QED
    BY <1>3, <1>4, <2>1, <2>2, <2>3, <2>4, <2>5 DEF Next
<1>5. QED
  BY <1>3, <1>4 DEF vars

\* The batched migrations keep their promise: what is reported as succeeded is
\* migrated, unless a retry crossed the report, and what is migrated stays so.
THEOREM RunnersImplementData == Spec => ImplementsData
<1>1. Init => Data!Init
  BY DEF Init, Data!Init, Verdict
<1>2. CInv /\ SInv /\ SInv' /\ [Next]_vars => [Data!Next]_Data!vars
  BY DataStep
<1>3. QED
  BY <1>1, <1>2, SInvInvariant, PTL DEF Spec, ImplementsData, Data!Spec

-----------------------------------------------------------------------------
(* No value is in two jobs as long as the locks hold. *)

InRun == {"loop", "again", "bounds", "insert", "pick", "execute", "finish", "incomplete",
          "failed", "write", "refresh"}

OneHolder == \A n \in LockNames : \A c, d \in Callers : Holds(c, n) /\ Holds(d, n) => c = d

\* A runner keeps the lock of its migration.
RunnersHold ==
  losses = 0 => \A w \in Workers : worker[w].pc \in InRun => Holds(w, worker[w].m)

\* Jobs get increasing numbers and are not empty.
JobsInARow ==
  /\ \A j \in Made : job[j].min <= job[j].max
  /\ \A j \in Made : \A i \in Jobs : i <= j => i \in Made

\* A job begins after those before it, and so will the one being inserted.
JobsAscend ==
  losses = 0 =>
    /\ \A i, j \in Made : i < j /\ job[i].of = job[j].of => job[i].max < job[j].min
    /\ \A w \in Workers : worker[w].pc = "insert" =>
         \A j \in JobsOf(worker[w].m) : job[j].max < worker[w].min

DInv == OneHolder /\ RunnersHold /\ JobsInARow /\ JobsAscend

LEMMA JobTypes ==
  ASSUME CInv
  PROVE  \A j \in Made : j \in Nat /\ job[j].min \in Nat /\ job[j].max \in Nat
BY MigrationsAssumption DEF CInv, TypeOK, Made, Jobs, Job

LEMMA AscendingIsDisjoint ==
  ASSUME CInv, DInv
  PROVE  BatchesDisjoint
<1> SUFFICES ASSUME losses = 0, NEW i \in Made, NEW j \in Made, i # j, job[i].of = job[j].of
             PROVE  ValuesIn(i) \cap ValuesIn(j) = {}
  BY DEF BatchesDisjoint
<1>1. i \in Nat /\ j \in Nat /\ job[i].min \in Nat /\ job[i].max \in Nat
      /\ job[j].min \in Nat /\ job[j].max \in Nat
  BY JobTypes
<1>2. job[i].max < job[j].min \/ job[j].max < job[i].min
  BY <1>1 DEF DInv, JobsAscend
<1>3. QED
  BY <1>1, <1>2 DEF ValuesIn

\* What one worker does to its session leaves one holder of each lock.
LEMMA HolderStep ==
  ASSUME TypeOK, OneHolder, NEW w \in Workers,
         \/ session' = session
         \/ \E n \in LockNames : TryLock(w, n)
         \/ ReleaseLock(w) \/ LoseLock(w)
         \/ session' = [session EXCEPT ![w] = NoSession]
  PROVE  OneHolder' /\ \A u \in Workers \ {w} : session'[u] = session[u]
<1>1. w \in Callers /\ Callers = Workers /\ NoName \notin LockNames
  BY Constants, LocksAssumption
<1>2. CASE session' = session
  BY <1>2 DEF OneHolder, Holds
<1>3. ASSUME NEW n \in LockNames, TryLock(w, n)
      PROVE  OneHolder' /\ \A u \in Workers \ {w} : session'[u] = session[u]
  <2>1. /\ session'[w] = [phase |-> "held", name |-> n]
        /\ \A u \in Callers \ {w} : session'[u] = session[u] /\ ~Holds(u, n)
    BY <1>1, <1>3 DEF TryLock, IsFree, TypeOK
  <2>2. \A k \in LockNames : Holds(w, k)' => k = n
    BY <2>1 DEF Holds
  <2>3. QED
    BY <1>1, <2>1, <2>2 DEF OneHolder, Holds
<1>4. ASSUME NEW new, new.phase # "held", session' = [session EXCEPT ![w] = new]
      PROVE  OneHolder' /\ \A u \in Workers \ {w} : session'[u] = session[u]
  <2>1. session'[w] = new /\ \A u \in Callers \ {w} : session'[u] = session[u]
    BY <1>1, <1>4 DEF TypeOK
  <2>2. \A k : ~Holds(w, k)'
    BY <1>4, <2>1 DEF Holds
  <2>3. QED
    BY <1>1, <2>1, <2>2 DEF OneHolder, Holds
<1>5. CASE ReleaseLock(w) \/ session' = [session EXCEPT ![w] = NoSession]
  BY <1>4, <1>5 DEF ReleaseLock, NoSession
<1>6. CASE LoseLock(w)
  <2> DEFINE new == [session[w] EXCEPT !.phase = "lost"]
  <2>1. new.phase # "held" /\ session' = [session EXCEPT ![w] = new]
    BY <1>1, <1>6 DEF LoseLock, TypeOK, Session
  <2> HIDE DEF new
  <2>2. QED
    BY <1>4, <2>1
<1>7. QED
  BY <1>2, <1>3, <1>5, <1>6

\* Jobs keep what the order is about.
SameBatches ==
  Made' = Made /\ \A j \in Made : /\ job'[j].of = job[j].of
                                   /\ job'[j].min = job[j].min /\ job'[j].max = job[j].max

\* A step of a worker that inserts no job and does not decide on one.
LEMMA OrderKept ==
  ASSUME CInv, DInv, NEW w \in Workers, OneHolder', losses' = losses, SameBatches,
         \A u \in Workers \ {w} : worker'[u] = worker[u] /\ session'[u] = session[u],
         losses = 0 /\ worker'[w].pc \in InRun => Holds(w, worker[w].m)',
         worker'[w].pc # "insert"
  PROVE  DInv'
<1>1. RunnersHold'
  BY DEF DInv, RunnersHold, Holds
<1>2. JobsInARow'
  BY DEF DInv, JobsInARow, SameBatches
<1>3. JobsAscend'
  BY DEF DInv, JobsAscend, SameBatches, JobsOf
<1>4. QED
  BY <1>1, <1>2, <1>3 DEF DInv

LEMMA FindOrder ==
  ASSUME CInv, DInv, NEW w \in Workers, Find(w)
  PROVE  DInv'
<1>0. /\ TypeOK /\ OneHolder /\ worker[w] \in Worker /\ w \in Callers
      /\ worker \in [Workers -> Worker] /\ session \in [Callers -> Session]
  BY Holding DEF CInv, DInv, TypeOK
<1>1. /\ SameBatches /\ losses' = losses
      /\ \A u \in Workers \ {w} : worker'[u] = worker[u]
  BY <1>0 DEF Find, TakeProject, SelectRunning, StartPending, MarkFinalizing, TakeMigration, Found,
     GoTo, Become, rows, bounds, SameBatches, Made
<1>2. OneHolder' /\ \A u \in Workers \ {w} : session'[u] = session[u]
  <2>1. TakeMigration(w) => worker[w].m \in LockNames
    BY Holding, Constants DEF TakeMigration
  <2>2. QED
    BY <1>0, <2>1, HolderStep, Constants
       DEF Find, TakeProject, SelectRunning, StartPending, MarkFinalizing, TakeMigration, Found
<1>3. CASE TakeMigration(w) /\ TryLock(w, worker[w].m)
  <2>1. CASE GoTo(w, "loop")
    <3>1. worker'[w].pc = "loop" /\ worker'[w].m = worker[w].m
      BY <1>0, <2>1 DEF GoTo, Become, Worker
    <3>2. Holds(w, worker[w].m)'
      BY <1>0, <1>3, <3>1 DEF Holds, TryLock
    <3>3. QED
      BY <1>1, <1>2, <3>1, <3>2, OrderKept
  <2>2. CASE ~IsFree(worker[w].m)
    BY <1>3, <2>2 DEF TryLock
  <2>3. QED
    BY <1>3, <2>1, <2>2 DEF TakeMigration
<1>4. CASE ~(TakeMigration(w) /\ TryLock(w, worker[w].m))
  <2>1. worker'[w].pc \in {"select", "start", "lock", "idle", "over"}
    <3> USE DEF GoTo, Become, Worker, AtRest, IdleWorker, AtStep
    <3>1. CASE TakeProject(w)
      BY <1>0, <3>1 DEF TakeProject
    <3>2. CASE SelectRunning(w)
      <4>1. GoTo(w, "start") \/ \E m \in Migrations : Become(w, AtStep("lock", m, "running"))
        BY <3>2 DEF SelectRunning, Found
      <4>2. QED
        BY <1>0, <4>1
    <3>3. CASE StartPending(w)
      <4>1. Become(w, IdleWorker) \/ \E m \in Migrations : Become(w, AtStep("lock", m, "running"))
        BY <3>3 DEF StartPending, Found
      <4>2. QED
        BY <1>0, <4>1
    <3>4. CASE MarkFinalizing(w)
      BY <1>0, <3>4 DEF MarkFinalizing
    <3>5. CASE TakeMigration(w)
      BY <1>0, <1>4, <3>5 DEF TakeMigration
    <3>6. QED
      BY <3>1, <3>2, <3>3, <3>4, <3>5 DEF Find
  <2>2. QED
    BY <1>1, <1>2, <2>1, OrderKept DEF InRun
<1>5. QED
  BY <1>3, <1>4

\* The batch after the last job is after all jobs.
LEMMA NextMinAfter ==
  ASSUME CInv, DInv, losses = 0, NEW m \in Migrations, NEW min \in NextMin(m)
  PROVE  \A j \in JobsOf(m) : job[j].max < min
<1>1. CASE JobsOf(m) = {}
  BY <1>1
<1>2. CASE JobsOf(m) # {}
  <2>1. PICK last \in JobsOf(m) : min = job[last].max + 1 /\ \A i \in JobsOf(m) : i <= last
    BY <1>2 DEF NextMin, IsLast
  <2>2. SUFFICES ASSUME NEW j \in JobsOf(m)
                 PROVE  job[j].max < min
    OBVIOUS
  <2>3. /\ j \in Nat /\ last \in Nat /\ job[j].max \in Nat /\ job[last].min \in Nat
        /\ job[last].max \in Nat /\ job[last].min <= job[last].max
    BY JobTypes DEF JobsOf, DInv, JobsInARow
  <2>4. j # last => job[j].max < job[last].min
    BY <2>1, <2>3 DEF DInv, JobsAscend, JobsOf
  <2>5. QED
    BY <2>1, <2>3, <2>4
<1>3. QED
  BY <1>1, <1>2

LEMMA BoundsOrder ==
  ASSUME CInv, DInv, NEW w \in Workers, GetBounds(w)
  PROVE  DInv'
<1> PICK m : m = worker[w].m
  OBVIOUS
<1>0. /\ m \in Migrations /\ worker[w] \in Worker /\ worker[w].pc = "bounds"
      /\ worker \in [Workers -> Worker]
  BY Holding DEF GetBounds, CInv, TypeOK
<1>1. PICK min, max :
        /\ min \in NextMin(m)
        /\ \/ GoTo(w, "pick")
           \/ Become(w, [worker[w] EXCEPT !.pc = "insert", !.min = min, !.max = max])
  BY DEF GetBounds
<1>2. /\ worker'[w].m = m /\ worker'[w].pc \in {"pick", "insert"}
      /\ worker'[w].pc = "insert" => worker'[w].min = min
      /\ \A u \in Workers \ {w} : worker'[u] = worker[u]
  BY <1>0, <1>1, ZenonT(60) DEF GoTo, Become, Worker
<1>3. UNCHANGED <<session, job, losses>>
  BY DEF GetBounds, rows, bounds
<1>4. OneHolder' /\ RunnersHold' /\ JobsInARow'
  BY <1>0, <1>2, <1>3 DEF DInv, OneHolder, RunnersHold, Holds, InRun, JobsInARow, Made
<1>5. JobsAscend'
  <2> SUFFICES ASSUME losses = 0
               PROVE  JobsAscend'
    BY <1>3 DEF JobsAscend
  <2>1. \A j \in JobsOf(m) : job[j].max < min
    BY <1>0, <1>1, NextMinAfter
  <2>2. ASSUME NEW u \in Workers, worker'[u].pc = "insert", NEW j \in JobsOf(worker[u].m)'
        PROVE  job'[j].max < worker'[u].min
    <3>1. CASE u = w
      <4>1. j \in JobsOf(m) /\ worker'[u].min = min
        BY <1>2, <1>3, <2>2, <3>1 DEF JobsOf, Made
      <4>2. QED
        BY <1>3, <2>1, <4>1
    <3>2. CASE u # w
      BY <1>2, <1>3, <2>2, <3>2 DEF DInv, JobsAscend, JobsOf, Made
    <3>3. QED
      BY <3>1, <3>2
  <2>3. QED
    BY <1>3, <2>2 DEF DInv, JobsAscend, Made
<1>6. QED
  BY <1>4, <1>5 DEF DInv

\* Nobody else inserts a job of the migration, and its jobs end before the new one.
LEMMA InsertOrder ==
  ASSUME CInv, DInv, NEW w \in Workers, InsertJob(w)
  PROVE  DInv'
<1> PICK m, lo, hi : m = worker[w].m /\ lo = worker[w].min /\ hi = worker[w].max
  OBVIOUS
<1>0. /\ worker[w] \in Worker /\ m \in Migrations /\ worker[w].pc = "insert" /\ lo <= hi
      /\ worker \in [Workers -> Worker] /\ job \in [Jobs -> Job] /\ m # Null /\ m \in LockNames
      /\ UNCHANGED <<session, losses>>
  BY Holding, Constants DEF InsertJob, CInv, TypeOK, RunnerOK, bounds
<1>1. PICK j \in Jobs \ Made :
        /\ \A i \in Jobs \ Made : j <= i
        /\ job' = [job EXCEPT ![j] = [of |-> m, status |-> "pending", min |-> lo, max |-> hi]]
        /\ Become(w, [worker[w] EXCEPT !.pc = "execute", !.job = j, !.min = 0, !.max = 0])
  BY DEF InsertJob, IsFirst
<1>2. /\ job'[j].of = m /\ job'[j].min = lo /\ job'[j].max = hi
      /\ \A i \in Jobs \ {j} : job'[i] = job[i]
      /\ worker'[w].pc = "execute" /\ worker'[w].m = m
      /\ \A u \in Workers \ {w} : worker'[u] = worker[u]
  BY <1>0, <1>1 DEF Become, Worker
<1>3. Made' = Made \cup {j}
  BY <1>0, <1>2 DEF Made
<1>4. \A i \in Jobs : i \in Nat
  BY MigrationsAssumption DEF Jobs
<1>5. OneHolder' /\ RunnersHold'
  BY <1>0, <1>2 DEF DInv, OneHolder, RunnersHold, Holds, InRun
<1>6. JobsInARow'
  <2>1. \A i \in Jobs : i <= j => i \in Made'
    BY <1>1, <1>3, <1>4
  <2>2. \A i \in Made : i \in Jobs \ {j}
    BY DEF Made
  <2>3. QED
    BY <1>0, <1>2, <1>3, <2>1, <2>2 DEF DInv, JobsInARow
<1>7. JobsAscend'
  <2> SUFFICES ASSUME losses = 0
               PROVE  JobsAscend'
    BY <1>0 DEF JobsAscend
  <2>1. \A i \in JobsOf(m) : job[i].max < lo
    BY <1>0 DEF DInv, JobsAscend
  <2>2. \A i \in Made : i \in Jobs /\ i # j /\ i < j
    BY <1>4 DEF DInv, JobsInARow, Made
  <2>3. \A i, k \in Made' : i < k /\ job'[i].of = job'[k].of => job'[i].max < job'[k].min
    <3> SUFFICES ASSUME NEW i \in Made', NEW k \in Made', i < k, job'[i].of = job'[k].of
                 PROVE  job'[i].max < job'[k].min
      OBVIOUS
    <3>1. CASE k = j
      BY <1>2, <1>3, <1>4, <2>1, <2>2, <3>1 DEF JobsOf
    <3>2. CASE i = j
      BY <1>3, <1>4, <2>2, <3>2
    <3>3. CASE i # j /\ k # j
      BY <1>2, <1>3, <2>2, <3>3 DEF DInv, JobsAscend
    <3>4. QED
      BY <3>1, <3>2, <3>3
  <2>4. ASSUME NEW u \in Workers, worker'[u].pc = "insert", NEW i \in JobsOf(worker[u].m)'
        PROVE  job'[i].max < worker'[u].min
    <3>1. u # w /\ worker'[u] = worker[u] /\ worker[u].pc = "insert"
      BY <1>2, <2>4
    <3>2. Holds(w, m) /\ Holds(u, worker[u].m) /\ u \in Callers /\ w \in Callers
      BY <1>0, <3>1, Constants DEF DInv, RunnersHold, InRun
    <3>3. worker[u].m # m
      BY <1>0, <3>1, <3>2 DEF DInv, OneHolder
    <3>4. i \in JobsOf(worker[u].m) /\ job'[i] = job[i]
      BY <1>2, <1>3, <2>2, <2>4, <3>1, <3>3 DEF JobsOf
    <3>5. QED
      BY <3>1, <3>4 DEF DInv, JobsAscend
  <2>5. QED
    BY <2>3, <2>4 DEF JobsAscend
<1>8. QED
  BY <1>5, <1>6, <1>7 DEF DInv

\* A run goes on under its lock.
LEMMA StaysInRun ==
  ASSUME CInv, NEW w \in Workers,
         \/ Continue(w) \/ PickPending(w) \/ Execute(w) \/ FinishJob(w) \/ CheckIncomplete(w)
         \/ CheckFailed(w) \/ WriteStatus(w) \/ Refresh(w)
  PROVE  /\ worker[w].pc \in InRun /\ worker'[w].pc # "insert" /\ worker'[w].m = worker[w].m
         /\ UNCHANGED <<session, losses>> /\ SameBatches
         /\ \A u \in Workers \ {w} : worker'[u] = worker[u]
<1>1. /\ worker[w] \in Worker /\ worker \in [Workers -> Worker] /\ job \in [Jobs -> Job]
  BY Holding DEF CInv, TypeOK
<1>2. CASE FinishJob(w)
  <2> DEFINE j == worker[w].job
  <2>1. worker[w].pc = "finish" /\ j \in Jobs /\ job[j] \in Job
    BY <1>1, <1>2, Holding DEF FinishJob, RunnerOK, JobsOf, Made
  <2>2. job' = [job EXCEPT ![j].status = worker[w].verdict]
    BY <1>2 DEF FinishJob
  <2>3. SameBatches
    BY <1>1, <2>1, <2>2 DEF SameBatches, Made, Job
  <2>4. QED
    BY <1>1, <1>2, <2>1, <2>3 DEF FinishJob, Become, Worker, InRun, bounds
<1>3. CASE PickPending(w)
  <2>1. PICK j : \/ GoTo(w, "incomplete")
                 \/ Become(w, [worker[w] EXCEPT !.pc = "execute", !.job = j])
    BY <1>3 DEF PickPending
  <2>2. QED
    BY <1>1, <1>3, <2>1, ZenonT(60) DEF PickPending, GoTo, Become, Worker, InRun, SameBatches, Made, rows, bounds
<1>4. CASE Execute(w)
  <2>1. PICK v : Become(w, [worker[w] EXCEPT !.pc = "finish", !.verdict = v])
    BY <1>4 DEF Execute
  <2>2. QED
    BY <1>1, <1>4, <2>1 DEF Execute, Become, Worker, InRun, SameBatches, Made
<1> USE <1>1 DEF GoTo, Become, Worker, InRun, SameBatches, Made, rows, bounds
<1>5. CASE Continue(w)
  BY <1>5 DEF Continue
<1>6. CASE CheckIncomplete(w)
  BY <1>6 DEF CheckIncomplete
<1>7. CASE CheckFailed(w)
  BY <1>7 DEF CheckFailed
<1>8. CASE WriteStatus(w)
  BY <1>8 DEF WriteStatus
<1>9. CASE Refresh(w)
  BY <1>9 DEF Refresh
<1>10. QED
  BY <1>2, <1>3, <1>4, <1>5, <1>6, <1>7, <1>8, <1>9

LEMMA RunOrder ==
  ASSUME CInv, DInv, NEW w \in Workers, Run(w)
  PROVE  DInv'
<1>1. CASE EndRun(w) \/ Verify(w)
  <2>1. TypeOK /\ OneHolder /\ worker \in [Workers -> Worker] /\ worker[w] \in Worker
    BY Holding DEF CInv, TypeOK, DInv
  <2>2. OneHolder' /\ \A u \in Workers \ {w} : session'[u] = session[u]
    BY <1>1, <2>1, HolderStep DEF EndRun, Verify
  <2>3. /\ losses' = losses /\ SameBatches
        /\ \A u \in Workers \ {w} : worker'[u] = worker[u]
    BY <1>1, <2>1 DEF EndRun, Verify, GoTo, Become, SameBatches, Made, rows, bounds
  <2>4. worker'[w].pc \in {"idle", "over", "verify", "finalized"}
    BY <1>1, <2>1 DEF EndRun, Verify, GoTo, Become, Worker, AtRest, IdleWorker, AtStep
  <2>5. QED
    BY <2>2, <2>3, <2>4, OrderKept DEF InRun
<1>2. CASE GetBounds(w)
  BY <1>2, BoundsOrder
<1>3. CASE InsertJob(w)
  BY <1>3, InsertOrder
<1>4. CASE \/ Continue(w) \/ PickPending(w) \/ Execute(w) \/ FinishJob(w) \/ CheckIncomplete(w)
           \/ CheckFailed(w) \/ WriteStatus(w) \/ Refresh(w)
  <2>1. /\ worker[w].pc \in InRun /\ worker'[w].pc # "insert" /\ worker'[w].m = worker[w].m
        /\ UNCHANGED <<session, losses>> /\ SameBatches
        /\ \A u \in Workers \ {w} : worker'[u] = worker[u]
    BY <1>4, StaysInRun
  <2>2. OneHolder' /\ (losses = 0 => Holds(w, worker[w].m)')
    BY <2>1 DEF DInv, OneHolder, RunnersHold, Holds
  <2>3. QED
    BY <2>1, <2>2, OrderKept
<1>5. QED
  BY <1>1, <1>2, <1>3, <1>4 DEF Run

\* What others do, and failures: a lost lock ends the promise.
LEMMA OtherOrder ==
  ASSUME CInv, DInv, NEW w \in Workers,
         \/ Crash(w) \/ Lose(w) \/ Exit(w)
         \/ \E m \in Migrations : ReadFinalize(w, m)
  PROVE  DInv'
<1>0. /\ TypeOK /\ OneHolder /\ worker[w] \in Worker /\ worker \in [Workers -> Worker]
      /\ losses \in Nat
  BY Holding DEF CInv, DInv, TypeOK
<1>1. CASE Lose(w)
  <2>1. OneHolder' /\ losses' # 0
    BY <1>0, <1>1, HolderStep DEF Lose
  <2>2. JobsInARow'
    BY <1>1 DEF Lose, rows, DInv, JobsInARow, Made
  <2>3. QED
    BY <2>1, <2>2 DEF DInv, RunnersHold, JobsAscend
<1>2. CASE Ends(w)
  <2>1. OneHolder' /\ \A u \in Workers \ {w} : session'[u] = session[u]
    BY <1>0, <1>2, HolderStep DEF Ends
  <2>2. /\ losses' = losses /\ SameBatches
        /\ \A u \in Workers \ {w} : worker'[u] = worker[u]
        /\ worker'[w].pc \in {"idle", "over"}
    BY <1>0, <1>2 DEF Ends, Become, AtRest, IdleWorker, AtStep, SameBatches, Made, rows
  <2>3. QED
    BY <2>1, <2>2, OrderKept DEF InRun
<1>3. ASSUME NEW m \in Migrations, ReadFinalize(w, m)
      PROVE  DInv'
  <2>1. PICK step \in {"finalized", "lock", "mark"} : Become(w, AtStep(step, m, status[m]))
    BY <1>3 DEF ReadFinalize
  <2>2. /\ losses' = losses /\ session' = session /\ SameBatches
        /\ \A u \in Workers \ {w} : worker'[u] = worker[u]
        /\ worker'[w].pc \in {"finalized", "lock", "mark"}
    BY <1>0, <1>3, <2>1 DEF ReadFinalize, Become, AtStep, SameBatches, Made, rows, bounds
  <2>3. OneHolder'
    BY <1>0, <2>2 DEF OneHolder, Holds
  <2>4. QED
    BY <2>2, <2>3, OrderKept DEF InRun
<1>4. QED
  BY <1>1, <1>2, <1>3 DEF Crash, Exit

\* Nothing that the order is about changes.
LEMMA StillInOrder ==
  ASSUME DInv, UNCHANGED <<session, worker, losses>>, SameBatches
  PROVE  DInv'
BY DEF DInv, OneHolder, RunnersHold, JobsInARow, JobsAscend, SameBatches, Holds, JobsOf

LEMMA AdminOrder ==
  ASSUME CInv, DInv, NEW m \in Migrations, Enqueue(m) \/ Retry(m)
  PROVE  DInv'
<1>1. UNCHANGED <<session, worker, losses>>
  BY DEF Enqueue, Retry, bounds
<1>2. CASE Enqueue(m)
  BY <1>1, <1>2, StillInOrder DEF Enqueue, SameBatches, Made
<1>3. CASE Retry(m)
  <2>1. \A j \in Jobs : /\ job[j] \in Job
                        /\ job'[j] = job[j] \/ job'[j] = [job[j] EXCEPT !.status = "pending"]
    BY <1>3 DEF Retry, CInv, TypeOK
  <2>2. \A j \in Jobs : /\ job'[j].of = job[j].of
                        /\ job'[j].min = job[j].min /\ job'[j].max = job[j].max
    BY <2>1, ZenonT(60) DEF Job
  <2>3. SameBatches
    BY <2>2 DEF SameBatches, Made
  <2>4. QED
    BY <1>1, <2>3, StillInOrder
<1>4. QED
  BY <1>2, <1>3

\* As long as no lock connection breaks, the lock of a migration keeps others
\* from inserting jobs between getNextBatchBounds and insertJob: however many
\* servers run the migration, no value is in two jobs.
THEOREM BatchesAreDisjoint == Spec => []BatchesDisjoint
<1>1. Init => CInv /\ DInv
  <2>1. ASSUME Init PROVE DInv
    <3>1. Made = {} /\ \A c \in Callers : \A n : ~Holds(c, n)
      BY <2>1 DEF Init, NoJob, Made, LocksInit, NoSession, Holds
    <3>2. \A w \in Workers : worker[w].pc = "idle"
      BY <2>1 DEF Init, IdleWorker, AtStep
    <3>3. QED
      BY <3>1, <3>2 DEF DInv, OneHolder, RunnersHold, JobsInARow, JobsAscend, InRun
  <2>2. QED
    BY <2>1, CInvInit
<1>2. CInv /\ DInv /\ [Next]_vars => CInv' /\ DInv'
  <2> SUFFICES ASSUME CInv, DInv, [Next]_vars PROVE DInv'
    BY CInvStep
  <2>1. CASE Next
    BY <2>1, FindOrder, RunOrder, OtherOrder, AdminOrder DEF Next
  <2>2. CASE UNCHANGED vars
    BY <2>2, StillInOrder DEF vars, SameBatches, Made
  <2>3. QED
    BY <2>1, <2>2
<1>3. CInv /\ DInv => BatchesDisjoint
  BY AscendingIsDisjoint
<1>4. QED
  BY <1>1, <1>2, <1>3, PTL DEF Spec
=============================================================================
