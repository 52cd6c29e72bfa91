# A verification development for PrairieLearn

PrairieLearn serves assessments: students open questions, save answers and have
them graded; the server keeps the points; other processes grade answers, run
workspaces, synchronize courses and finish exams. This directory models the parts
of it whose correctness depends on interleavings, crashes and long histories,
checks them with TLC on small instances and proves many of the results for every
instance with TLAPS. The reference is the code of the repository. Paths below are
relative to `src/apps/prairielearn/src/` unless they start with `src/`.

## 1. Inventory

Each entry: the state, the operations, what makes it hard, what it must keep.

**Submission grading** (`lib/grading.ts`, `sprocs/grading_jobs_insert.sql`,
`sprocs/grading_jobs_update_after_grading.sql`). State: rows of `variants`,
`submissions`, `grading_jobs`, `instance_questions`. Operations: save; select a
submission; check the grade rate; insert a grading job, canceling those of the
same variant; store a result. Every transaction locks the assessment instance,
but a grade request is several transactions with course code run in between, so
requests, results and cron jobs interleave. It must not lose an answer, count an
attempt twice, let a late result overwrite a decided one, or let an older answer
overwrite a newer one.

**Points rules** (`sprocs/instance_questions_points_exam.sql`, `_homework.sql`).
State: one `instance_questions` row. Exams walk down a points list, rescaled by
the best score so far; homework raises the value of a question with each correct
answer. The rules are pure but depend on the whole history of scores.

**Assessment instances** (`lib/assessment.ts`, `sprocs/assessment_instances_grade.sql`,
`sprocs/assessment_instances_points.sql`). State: `open`, `grading_needed`,
`points`, `score_perc`, `modified_at`. Finishing closes the instance, then grades
the newest variant of each question, then unsets `grading_needed`.

**External grading** (`lib/externalGrader.ts`, `lib/externalGraderSqs.js`,
`lib/externalGraderResults.js`, `src/apps/grader-host`). Jobs go out through S3
and SQS, results come back through SQS: late, twice, or out of range. A failed
upload is answered by the server itself, without waiting for it.

**autoFinishExams** (`cron/autoFinishExams.ts`, `.sql`). Closes exams left open
and grades exams whose server died half way.

**Manual grading** (`lib/manualGrading.ts`, `lib/score-upload.ts`, the
instance-question page of graders). State: the rubric of an assessment question,
rubric gradings, points, `modified_at`, `requires_manual_grading`. Graders, uploads
and edits of a rubric lock the question before its assessment instance, automatic
grading the other way round. Committed points must add up, a grader must not
overwrite what they have not seen, an edit of the rubric must score again what it
found and leave the rest alone, and deadlocks must resolve.

**Workspaces and their hosts** (`lib/workspace.ts`, `lib/workspaceHost.ts`,
`src/packages/workspace-utils`, `src/apps/workspace-host`, `cron/workspace*.ts`).
State: workspace `uninitialized/stopped/launching/running`, version, `launch_uuid`,
the assigned host; host `launching/ready/draining/unhealthy/terminating/terminated`.
Web servers, hosts and cron jobs write the state, mostly without a lock. One server
looks for a host at a time, work on files is kept, launches end, leftover
containers and draining hosts go.

**Named locks** (`src/packages/named-locks`): row locks held by transactions of a
separate pool of connections, which break, run out and time out. A caller that is
told it has a lock must be alone. **Cron scheduler** (`cron/index.ts`): one server
runs a job at a time and at most once per interval, and stop waits for it.
**Batched migrations** (`src/packages/migrations/src/batched-migrations`): an id
range cut into jobs, retried and finalized; every id must be run, none twice.
**Server jobs** (`lib/server-jobs.ts`): rows with heartbeats, swept when abandoned;
a status must be final and every job be decided.

**Code callers** (`lib/code-caller`, `python/zygote.py`): a child process state
machine where exit, error, time limit, restart and answer race; a pool that must
never hand out a worker that has run somebody else's code.

**Course updates** (`lib/course.ts`, `lib/editors.js`, `lib/chunks.ts`,
`sync/syncFromDisk.ts`): pulls and edits move a clone of a git repository, the
database, the chunks and a recorded commit, one after the other; a pull clones the
course if its directory is gone. Whatever fails, what is published must be what was
pushed.

**The rest**: LTI outcomes, regrading, the loading of course files into tables,
groups, access control, question rendering, sessions and caches, billing, pages.
`PROJECT.json` lists them with the reason they are not modelled; see section 6.

How they meet: students' requests call grading and finishing; grading calls the
points rules inside its transactions, hands jobs to external grading and scores
to LTI outcomes; external results call the same sproc as internal grading;
graders and automatic grading meet in the rows of an assessment instance; cron
jobs, migrations and course updates run under named locks; course updates are
server jobs; rendering and grading borrow code callers.

## 2. Modules

| Module | What it is |
|---|---|
| `QuestionPoints` | the points rules as operators on an `instance_questions` row |
| `DocumentedPoints` | what a sequence of scores is worth by the documentation: the reference definitions |
| `QuestionHistory` | one question graded again and again, and the three statements that compare the two |
| `Grading` | saving, grading, finishing, external results, autoFinishExams on one assessment instance; extends `QuestionPoints`, refines `GradingService` |
| `GradingService` | what becomes of an answer (saved, waiting, decided) and of the points; no handlers, jobs or queues |
| `NamedLocks` | the lock pool of each server; no behaviour of its own |
| `Cron` | the cron loops of the servers; extends `NamedLocks` |
| `BatchedMigrations` | runners, finalizations and retries at any moment; extends `NamedLocks`, refines `MigratedData` |
| `MigratedData` | what migrations promise to code that relies on them, and where they promise nothing |
| `ServerJobs` | jobs, heartbeats, the sweep of abandoned jobs; no behaviour of its own |
| `CourseUpdates` | pulls, clones and edits of a course; extends `NamedLocks` and `ServerJobs` |
| `CodeCallers` | the pool of callers, their requests and processes; refines `CallerLifecycle` |
| `CallerLifecycle` | the documented state machine of a caller |
| `Workspaces` | startup, launches, hosts, pruning, timeouts, reboot and reset |
| `RowLocks` | READ COMMITTED transactions, row locks and deadlocks; no behaviour of its own |
| `Rubrics` | what manual grading computes: rubric points, scores, what an edit changes |
| `ManualGrading` | graders, uploads, rubric edits, submissions and automatic grading; extends `RowLocks` and `Rubrics`, refines `Gradebook` |
| `Gradebook` | what these requests do to committed scores: where they look, and that they write at once; extends `Rubrics` |
| `MC...` | values of the constants for TLC |
| `...Proofs` | inductive invariants and theorems, for all constants |
| `SumTheorems` | facts about sums over finite sets that the proofs cite |

Three modules (`NamedLocks`, `ServerJobs`, `RowLocks`) are parts that other modules
compose: their operations are conjuncts of the actions of the modules that extend
them, so a cron loop, a migration and a course update take the same lock steps.

Operators commented "Mutant" stand next to the operator they would replace; they
are plausible mistakes that show which property depends on which line, and no
action uses them.

### QuestionPoints and Grading

Scores are integers `0..ScoreUnit`; amounts that the SQL multiplies by a score
are kept multiplied by `ScoreUnit`, so no rounding is invented. `points_list`
is represented by its length and `ListHead`, `variants_points_list` by its sum
and last element: nothing else of them is read. `AssessmentQuestion` is what the
sync accepts (a non-increasing list, manual points in every entry).

One assessment instance, its rows, and processes: `Workers` (requests) and
`Cron`. Every transaction starts with a lock on the assessment instance, so a
transaction is one action, and so is a single query.

| Code | Action |
|---|---|
| `ensureVariant` | `CreateVariant` |
| `saveSubmission`; `saveAndGradeSubmission` | `SaveSubmission`; `SaveAndGrade`, then the actions of `gradeVariant` |
| `gradeVariant` | `Select`, `CheckRate`, `InsertJob`, then `GradeInternal` or `BeginExternal` |
| `gradeAssessmentInstance` | `StartGrading` or `Finish`; `SelectVariants`; `gradeVariant` of each; `UnsetGradingNeeded` |
| `autoFinishExams` | `CronPick`, `CronClose`, then as above |
| grader host (external) | `GradeExternally` |
| `processGradingResult` | `ProcessResult` |
| a process dies; time passes | `Crash`; `Age`, `GradeRatePasses` |

`worker[w]` holds the local variables a handler keeps across awaits: the
variant, the submission it must find, the submission it selected, its job, the
variants left. `AssessmentInstanceGrade`, `GradeQuestion`,
`UpdateAfterGrading` are the sprocs; a sproc that calls another one includes it.
The result of course code is any `gradable` and any score. The credit of a
submission is any member of `Credits`, as the access rules may change between
two submissions. `ai.age` is the time since `modified_at` in units of
`autoFinishAgeMins` (too young, in the window of the query, out of it);
`job.rate` says whether a job still counts for `gradeRateMinutes`.

`GradingService` is what all of this is for, said of answers and points alone. An answer
is *waiting* while it has an outstanding job, *decided* when it has none but was marked as
requested, and else *saved* (`StateOf`). Its steps are `Create` (`CreateVariant`), `Save`
(the insertion of a submission), `Ask` (`InsertJob`, which withdraws what was asked for the
variant before), `Decide` (a result that is stored) and `Close`; everything else must leave
rows, states and points alone. `Decide` needs a waiting answer with no newer answer to the
question waiting or decided, and a score from 0 to 1.0 counts by the points rules; a
score out of that range, or no number, is a refusal like an answer that cannot be graded.
`Ask` may be repeated for a decided answer, because two handlers may have selected
it before either asked: the code decides it again, and its score counts once for each
time it was asked for (the finding of `GradedTwice`).

Left out: manual grading (so a question's points are its auto points; the
interplay is in `ManualGrading`), submissions marked broken, instructors'
previews, deletion, time limits other than as a reason to finish, LTI posts, logs
and sockets.

### NamedLocks, Cron, BatchedMigrations

`session[c]` is what a caller has of the lock pool of its process: nothing, a
transaction that asks for a row, the row, or a client whose connection broke.
`BeginLock`, `AcquireLock`, `FailLock` are `getLock` with its wait for a client, the
`SELECT ... FOR UPDATE` and its `SKIP LOCKED` or `lock_timeout`; `TryLock` is all of
them where the order of waiters does not matter; `ReleaseLock` is
`endTransactionAsync`. `LoseLock` is the broken connection (the auto-renewing query
exists to make it rarer) and `DropLocks` the end of a process.

| Code (`cron/index.ts`) | Action of `Cron` |
|---|---|
| `queueJobs`, `queueDailyJobs`, the timer of a loop | `Start`; `Fire` |
| `runJobs`, `tryJobWithLock` | `AskLock`, `TakeLock`, `Release`, `EndRound` |
| `tryJobWithTime` | `Check`, `UpdateTime`, `Run`, `Succeed` |
| `stop`; the process ends | `Stop`; `Crash`, `Exit`; `Lose` |
| time | `Tick` |

| Code (`batched-migrations`) | Action of `BatchedMigrations` |
|---|---|
| `enqueueBatchedMigration` | `Enqueue` |
| `getOrStartMigration`, `maybePerformWork` | `TakeProject`, `SelectRunning`, `StartPending`, `TakeMigration` |
| `finalizeBatchedMigration` | `ReadFinalize`, `MarkFinalizing`, `TakeMigration`, `Verify` |
| `run` | `Continue`, `EndRun`, `Refresh` |
| `getOrCreateNextMigrationJob` | `GetBounds`, `InsertJob`, `PickPending` |
| `runMigrationJob` | `Execute`, `FinishJob` |
| `finishRunningMigration` | `CheckIncomplete`, `CheckFailed`, `WriteStatus` |
| `retryFailedBatchedMigrationJobs` | `Retry` |
| faults | `Crash`, `Lose`, `Exit` |

`MigratedData` knows only what is migrated and what is reported; `Data` maps
`done` and the status to it. The status `paused` is in the enum but no code writes
it, so it is not in the model. A retry is one statement and comes at any moment.
`crossed` is history: the migrations of which a retry put failed jobs back while a
runner stood between the two queries of `finishRunningMigration`. The verdict of that
runner, and the state of the migration from then on, say nothing about its data
(section 3).

### ServerJobs and CourseUpdates

A course is a function from its directories (the units of chunks) to contents; a
commit is its place in the remote history. An update is a caller of the course
lock and a server job at once.

| Code | Action of `CourseUpdates` |
|---|---|
| request, `createServerJob` | `Begin` |
| `doWithLock` | `TakeLock`, `Release` |
| `git fetch`, clean, reset; `git clone` without a directory | `Fetch`; `Clone` |
| `write()` and `git commit`; `git push`; `cleanAndResetRepository` | `Write`; `Push`; `Reset` |
| `syncDiskToSqlWithLock` | `Sync` |
| `identifyChangedFiles`, `diffChunks`, `updateChunksForCourse` | `UpdateChunks` |
| `updateCourseCommitHash` | `Record` |
| `executeInternal`, `finish` of a job | `End`, `Finish` |
| `heartbeat`; `errorAbandonedJobs` | `Heartbeats`; `Abandon`, `FailJob` |
| others push; the directory is lost; a server dies; time | `PushByOthers`; `LoseDirectory`; `Crash`; `TimePasses` |

Lock connections do not break here (`Cron` and `BatchedMigrations` have that).
A `disk` at commit 0 is no directory: a pull then clones the course, an edit fails.
A clone leaves `start` at 0, so no files count as changed and only missing chunks are
made, while the new commit is recorded as always. `unseen` is history: from which
recorded commit to which new one a clone went without a comparison.
Left out: `generateAllChunks`, courses without a recorded commit, a directory that is
lost while an update works in it or left by a clone cut off half-way, editing without git, sweeping abandoned sequences, downloading chunks.

### CodeCallers

`caller` has the fields of `CodeCallerNative`, `worker` the processes and pipes
behind it. The code between two events runs to its end: `running` holds the callers
in the middle of such a stretch.

| Code | Action |
|---|---|
| pool create: `ensureChild`, ping | `StartChild`, `Ping` |
| `withCodeCaller`: acquire, call, restart | `Ask`, `Acquire`, `MakeCall`, `Restart`, `Resume` |
| unhealthy callers, `finish` | `DestroyUnhealthy`, `Finish`, `Clear` |
| `_handleStdio3Data`, `_handleStdio4Data`, `_handleChildExit`, `_handleChildError`, timers | `Stdio3`, `Stdio4`, `ChildExit`, `ChildError`, `Timeout` |
| zygote and worker | `Read`, `Answer`, `Misbehave`, `Fork`, `Die` |

Left out: the container caller, the overload load balancing without a queue, the
internals of generic-pool, stdout and stderr, errors of a child that did start.

### Workspaces

| Code | Action |
|---|---|
| `startup` | `Open`, `Initialize` (or `InitializeFails`), `Lock`, `PickHost`, `WriteHost` (or `GiveUp`), `Control` |
| `initSequenceAsync` on a host | `SetUuid`, `Create`, `CheckUuid`, `Running` (or `LaunchFails`) |
| `pruneStoppedContainers`, `pruneRunawayContainers` | `ReadStopped`, `Clear`, `ReadRunning`, `PruneRunaways` |
| start of a host process | `Boot`, `Recover` |
| autoscaling and health checks | `Scale`, `Unhealthy`, `FindTerminable`, `Terminate`, `MarkTerminated` |
| `workspaceTimeoutStop` | `SelectTimeout`, `StopTimeout` |
| reboot; reset (two statements) | `Reboot`; `Reset`, `IncrementVersion` |
| faults | `CrashServer`, `CrashHost` |

Time limits are not counted: what may time out may do so at once. `disturbed`
remembers that a launch was cut short by a write of another state, which the code
does without looking (`updateWorkspaceState`, "TODO: add locking"). `Recover` takes
its queries as one step: the process does nothing else before it.
`Create` looks for the files of the version first: a launch without them fails and
stops the workspace. One reset of a workspace is under way at a time.
Left out: ports, logs, heartbeats of users, the contents of files. How many hosts
are wanted is nondeterministic.

### RowLocks and ManualGrading

Here a transaction is many steps: one for each statement that locks a row or reads
what others write, since lock orders differ. `row` is what is committed, `pending`
what the holder of its lock has written; a transaction sees its own writes and
otherwise what is committed. Whoever waits in a circle may be rolled back.

| Code | Action |
|---|---|
| a grader opens and submits | `Open`, `Submit` |
| `updateInstanceQuestionFromJson` | `Upload` |
| `updateInstanceQuestionScore` | `SelectSubmission`, `LockQuestion`, `SelectItems`, `InsertGrading`, `WriteScore` |
| `assessment_instances_grade` | `Total`, `MarkUsed`, `UpdateInstance` |
| automatic grading; `insertSubmission` | `Grade`, `LockInstance`, `ComputePoints`, `StorePoints`; `Save`, `InsertSubmission` |
| `updateAssessmentQuestionRubric` | `Edit`, `UpdateRubric`, `Review`, `LockReviewed`, `Recompute`, `Tag` |
| reassign | `Reassign` |
| end of a transaction | `CommitTxn`, `Abort` |

One assessment question has a rubric, which is never created or removed;
`min_points` and `max_extra_points` are 0 and item points are not negative;
feedback, partial scores, percentages and log rows are left out. `Total` is the plain
sum of the points of the questions: zones and `max_points`, which `Grading` has, are
left out here. What is committed in which order does not depend on them.
A score that the code answers with an error because it names both a part and the
total, or that gives no points at all, is excluded by `Accepted`.

`Gradebook` has the committed rows, and of each request only what it has seen: `seen` (the
page of a grader, or the submission of an upload, with the rubric grading it is going to
write) and `edit` (a form and the gradings found for it). A request looks at committed
rows in steps of its own (`Open`, `Find`, `Apply`, `Copy`, `Look`) and writes all it
writes in one step (`Grade`, `Upload`, `Edit`, `AutoGrade`, `Save`, `Reassign`), together with the
points of the assessment instance; what it may write is a function of the rows then and
of what it has seen, and nothing else. So the specification is exact about which requests may undo
what others committed:

* a grader never does: `Grade` needs the question as it was on the page;
* an upload names no time of modification and overwrites points that were given since it was
  read; one that gives no manual points also puts back the rubric grading it found;
* an edit of the rubric scores again, by the new rubric, the submissions and items it found
  when it looked (`Regraded`), also over a score given while it waited for the question; and a
  grading of which the items were read before the edit commits, and which is
  committed after it, keeps points of the old rubric, since no later step of the edit finds it.

The last one is not what `src/docs/manualGrading/index.md:149` and `:151` promise ("a
recalculation of the score for all submissions where that rubric item was applied"): the
promise holds for gradings committed before the edit looks and not rewritten until
it commits, and `Look` states it for those (an edit may pass over a last grading only if
it `Stands`). `Stands` compares what the grading keeps of the rubric, as the code does:
changing only whether a rubric is for all points makes no grading change, and an
item that was deleted when the grading was computed and is restored by a settings
page opened earlier is shown as applied and not counted.

## 3. Runs

Every counter has a named bound (`Max...`). Deadlock is not checked: students,
administrators and bounded environments may stop.

| Run | What it asks | Instance and why it is enough |
|---|---|---|
| `GradingRaces` | two requests and an external grader at once: `OneOutstandingJob`, `RequestsBacked`, `GradedInOrder`, `DecidedJobsFinal`, `ImplementsService` | a homework question graded externally, two submissions of a variant and two jobs: a waiting job, and that of another submission, are canceled, and results come for both, late and twice. The cron job has nothing to do here (it is in the next two runs), and results are valid ones: an exam or a second result is more than a run can hold. The theorems have all of them |
| `GradingFinishes` | an exam left alone is closed and graded, and credit is not taken back: `ExamFinishes`, `PointsNeverDecrease` | a grade rate that blocks and a crash on the way; credit 110% and 50% in either order; three of the question's four points count |
| `GradedTwice` | finds a violation of `OneAttemptPerAnswer` | a request that finishes an exam and the cron job both grade its one answer, which uses two attempts |
| `Points` | `ExamWorth`, `AdvertisedIsEarned`, `HomeworkWorth` for every sequence of scores | lists with equal, falling and manual points, constant and growing values, maxima below, at and above the first value, sequences that exhaust every list and reach every cap |
| `CronJobs` | `OneServerPerJob`, `RunsAtFrequency`, `JobsKeepRunning`, `StopReturns` | two servers, one of them with two loops and a pool for one; a crash, a stop or a lost connection |
| `Migrations` | `NothingSkipped`, `BatchesDisjoint`, `FinalizedIsComplete`, `ImplementsData`, `MigrationDecided` | three values in batches of two (the last batch is cut); a loop and a finalization, two crashes or lost locks, a failure, a retry; five jobs, more than overlapping runners need |
| `MigrationRetries` | finds a violation of `FinalizedIsAlwaysComplete` | the same instance without the exception `crossed` |
| `Workspaces` | `OneAssigner`, `KeepsWork`, `LaunchEnds`, `RunawaysGo`, `DrainingEnds` | two servers start one workspace; two launches, one host; two events among faults, users and scaling: two are enough for a reset during a launch, or a host that crashes while it drains |
| `CodeCallers` | `ReleasedClean`, `NoOrphans`, `FollowsLifecycle`, `RequestsEnd` | two requests share a pool of one; two faults need three callers to replace what broke |
| `CourseUpdates` | `OnlyPushedIsPublished`, `ChunksMatch`, `SuccessIsPublished`, `RecordedIsSynced`, `StatusIsFinal`, `JobsDecided` | an edit on one server, a pull on another, one failure, crash or lost directory; three commits: enough for a refused push, for a directory that is changed back and for a change that comes with a clone. The deletion of a directory is in the model and the proofs but not in this run |
| `ManualGrading` | `PointsAddUp`, `SomeoneProceeds`, `ImplementsGradebook` | any three transactions on two questions of one instance, one with a rubric of one item: enough for a circle of waiting, and for a grading and an edit around another change |
| `RubricEdits` | finds a violation of `StatusRetained` | an edit that recomputes a grading takes the question off the list of those to be graded |

`findings` in `PROJECT.json` quotes what `GradedTwice`, `MigrationRetries` and
`RubricEdits` contradict.

Invariants that are true by looking at a single line are not run. `TypeOK` of each
module is an invariant of its proofs, and so are `PointsListNeverEmpty`,
`UpdatesExclude`, `WorkersServeOne` and `RunningIsUnfinished`. `GraderSawLatest` is part of what
`Gradebook` says of a page, and `PointsUpToDate` of what `GradingService` says of points;
each has a theorem of its own.

### Where a property needs a restriction

These restrictions are part of the formulas, because the code does not promise more:

* `AttemptsCounted` and `GradingComplete` are theorems only, and no run checks them. The
  first counts graded jobs, not submissions: two handlers may grade one submission twice, which
  `GradedTwice` shows. The second leaves out crashes (a crash after a job was inserted may
  leave its submission ungraded) and asks that nobody grades at the moment of closing
  (`ClosesAlone`): a request that has begun to grade an older submission when the exam is
  closed may cancel the grading of a newer one.
* `GradedInOrder` excepts newer submissions of which a job was canceled: the check
  for newer submissions looks at `grading_requested_at`, which a cancellation takes
  away. If two handlers graded the newer submission and an older handler then
  cancels its second job, the older one gets a score after it.
* `RunsAtFrequency` and `OneServerPerJob` count lost lock connections;
  `BatchesDisjoint` holds until one is lost.
* `OneAssigner` holds until a launch is cut short (`disturbed`).
* `FinalizedIsComplete` and `MigratedData` except migrations of `crossed`, and only those.
  `packages/migrations/README.md` knows no exception; `MigrationRetries` shows what
  happens to it.
* `ChunksMatch` has two exceptions, which are what the code leaves behind. `ChangedBack`:
  chunks are compared by the files that changed since a recorded commit, so a directory that
  was changed and changed back keeps the chunk of the commit in between if that one
  was uploaded but not recorded. `Unseen`: a clone compares nothing, so a directory whose last
  change came with it keeps its old chunk, and the commit is recorded all the same. The
  property states exactly which chunks may differ; without either exception TLC
  finds a stale chunk.
* `KeepsWork` allows fresh files in the place of used ones while a workspace is being reset, and
  for a version that the workspace has left: a start that made its files for the old version
  moves them there, where nothing runs any more.

### Fairness

* `GradingFinishes`: weak fairness of `Proceed` (a server goes on with a request it
  has started), of `CronPick`, `CronClose` and `Age` (the cron job is scheduled for
  ever, time passes); strong fairness of results (SQS keeps delivering a message
  until it was processed). Students need not do anything. `Age` waits until the cron
  job has seen an instance that its query finds: it runs every few minutes, the
  window lasts hours. A crash takes the server's obligations with it.
* `CronJobs`: every loop goes on, processes that must end do, servers that are down
  are replaced, time passes (weak). `AskLock` is strongly fair: the pool serves its
  waiters in turn.
* `Migrations`: weak fairness of `Find`, `Run` and `Exit` of each worker. Nobody has
  to finalize or retry.
* `Workspaces`: weak fairness of `Progress` (what was begun goes on, timers fire) and
  of the pruning of each host. With bounded starts and events there are finitely many
  progress steps, so fairness of their disjunction is fairness of each.
* `CodeCallers`: one weak condition, for the same reason: bounded calls and faults
  make every behaviour finite. Functions of requests return; a hung worker ends
  only by a timer.
* `CourseUpdates`: weak fairness of the steps of updates and of the cron job, and of
  time. Nobody has to push.
* `ManualGrading` states no fairness: its transactions are finite, and
  `SomeoneProceeds` says that one of them can always take a step: it waits for no row,
  or it is the victim of a deadlock.

## 4. Proofs

Every theorem holds for all constants that satisfy the module's `ASSUME`.

**Grading** (`GradingProofs`), in parts that build on each other:

* *Types and references.* `IInv == TypeOK /\ References /\ AllAttemptsLeft`. `TypeOK`
  alone is not inductive. A result is stored in the rows its job refers to, so the
  references between rows, and from handlers and messages to rows, must lead to rows
  that exist (`References`). And an exam's points are read from its points list, so
  an open question must have an entry left (`AllAttemptsLeft`), which depends on every
  path that grades a question closing it at the end of the list. Scores that are out
  of range or no numbers never reach points: `TypeCorrect` has them for every grader
  result. The step lemmas follow the actions: rows first (`RowTypes`, `RowsKept`),
  then the one handler that moves (`OneHandlerStep`).
* *Jobs.* `JobSteps` shows that only a result, time and an insertion touch jobs; the
  insertion is where the argument lies: it cancels the outstanding jobs of the
  variant, and a job of the selected submission is among them because the handler's
  submission belongs to its variant.
* *Order.* `OrderInv` adds that a submission with a score has a job, and that a
  submission of which no job is canceled is marked (`MarksStay`). Then an older
  submission finds the mark.
* *Points.* `PointsUpToDate` is nearly inductive by itself. `PointsNeverDecrease` is
  not: it needs `PointsFit`, for the points of an exam question stay below its
  maximum only because what was earned is at most the best score's share, and those of
  a homework question are exactly its capped sum. That more points of the questions
  are more points of the assessment goes through the best questions and the cap of
  each zone (`SumMonotone`).
* *Attempts.* `CountInv`: a graded job is counted once, by its variant and by its
  question, in the step that grades it.
* *Service.* `AnswersAreServed` is the refinement of `GradingService`, for every number of
  handlers, any interleaving and any crashes, and for every result of a grader. Its invariant
  is `AskInv /\ JobsInv /\ PointsUpToDate`. `AskInv` says that a mark is on a
  saved submission, that a handler about to insert a job does not serve a question that is
  only graded manually, and that rows are in line, so that a new row is the newest. The
  parts above do the rest: since a submission has one outstanding job (`OneOutstandingJob`),
  storing its result decides it; since marks are backed by jobs (`RequestsBacked`), the
  handler that finds no newer mark knows that no newer answer is waiting or decided; and the
  points of the instance follow each change of a question. What a handler kept across
  its transactions, and a result that comes late or twice, turn out to be invisible.
* *Finished exams.* `FinishedIsGraded`: if nobody works on the instance when it is
  closed (`ClosesAlone`) and no server has died, then however many handlers and cron jobs
  grade it afterwards, and cancel each other's jobs, they leave no answer ungraded.
  `CompleteInv` says who will still grade the last answer of a question (`Works`): a
  handler that has its variant before it, or one that holds its waiting job
  (`JobsHeld`). A canceled job was replaced by that of the canceling handler; a handler
  that finds the answer marked may go on, because the mark has a job (`RequestsBacked`)
  and somebody holds it. That nobody gives up because of a newer submission needs the
  rows in line (`InLine`): the newest answer of the newest variant is the newest of the
  question. `OneRequestAtATime` shows that the premise holds by itself for one request
  handler when the cron job closes nothing, the instance of the run.
* *Rules.* For every assessment question in `Documented` (every exam question, and
  every homework question the documentation speaks of) and every history of scores, the
  accumulating code and the reference definitions agree. `HistoryInv` says what the
  row remembers of the history: the best score (`Follows`); that the gain is counted
  (`ExamFollows`); and for homework (`HomeworkFollows`) that the value, the sum and the
  last element of `variants_points_list` are the next value, the documented points and
  the partial credit since the last correct answer. A maximum below the first value
  makes the code count otherwise than the documentation (`Exact`), but both then are at
  the maximum. Here the first answers of TLC to a guessed invariant were
  counterexamples, and `Points` now has such maxima.

**Sums** (`SumTheorems`). A sum over a finite set is a fold with a recursive function.
Its defining equation and what follows (`SumUpdate`, `SumMonotone`, ...) are proved by
induction over finite sets: a set of counterexamples would have a smallest member.

**Cron** (`CronProofs`). `LInv` says that a loop in a job has its lock or has lost it.
That gives `OneServerPerJob`. `RunsAtFrequency` needs counting: `EarlyPaid` is
`early + Cardinality(Owed) <= lost`, where `Owed` are the runs that may yet begin too
early, those of a loop whose lock is lost, and of one that has it but whose job was
run meanwhile without it. Every early run is paid for by one lost lock.

**BatchedMigrations** (`BatchedMigrationsProofs`). `CInv` gives every runner what it
relies on between two steps (bounds continue what is covered; at `pick` everything
is) and holds with any number of crashes, lost locks and retries: `NothingIsSkipped`
does not need the lock. `SInv` adds what a verdict means, for all migrations that are not
in `crossed`: between the two queries of `finishRunningMigration` every value is migrated or in a
failed job, and only a crossing retry can take failed jobs away then; after the second
query a verdict of `succeeded` means that every value is migrated, which no retry undoes.
From it follow `SucceededMeansComplete`, `FinalizedMeansComplete` and, step by step, the
refinement of `MigratedData`.
`BatchesAreDisjoint` does need the lock: `DInv` says that a lock has one holder, that a
runner keeps the lock of its migration while no connection has broken, and that
the jobs of a migration ascend, the one about to be inserted included.

**CodeCallers** (`CodeCallersProofs`). `CInv` is one conjunct per caller: `StateOK`
(the state machine), `PoolOK` (who has it), `FlowOK` (what is in its pipes and behind
them), `ServedOK`. The heart is `Renewing`: between the answer to a restart and the end of
it, the zygote has not confirmed yet, has, or the confirmation was read early; in each case the
old worker is gone when the caller is handed over. A step concerns one caller
(`OthersStay`), so each action has one lemma. The refinement of `CallerLifecycle`
follows from `StateOK`.

**CourseUpdates** (`CourseUpdatesProofs`). `UInv` is the order of things: the clone is at
or behind the remote branch, the recorded commit at or behind the clone
(`CloneOK`); what an update has read, pushed and synchronized agrees with its step
(`UpdateOK`), which holds because the lock keeps others from moving the clone; and
`ChunksOK`: for every commit `c` from which an update may look for changes, the chunk of
a directory is that of `c` or of a later commit, or the directory was changed back
before `c`, or its last change came with a clone before `c`. All of the run's safety
properties follow.

**Workspaces** (`WorkspacesProofs`). `OneLaunch(w)`: of all servers that look for a host
and all launches on hosts at most one concerns `w`, and `w` is launching as long.
It holds until something else moves `w` out of that state. It implies
`OneAssigner`; the transaction in `Lock` is the only place where a launch begins,
and it requires a stopped or uninitialized workspace. `WorkIsKept` needs an invariant of its
own, `KInv`: a start or a launch has read a version that is not ahead of the workspace, and later
versions have no files yet (`VersionsPass`); and an uninitialized workspace that is not
being reset has no files in its version that were worked on (`FreshAfterReset`), because
only a reset, which moves the version on, makes a workspace uninitialized again. `Lock`
is the only place where fresh files come to lie, and it looks at the state under the lock, which the mutant `LockMovingFiles` does not.

**ManualGrading** (`ManualGradingProofs`). For each transaction and assessment
instance, what the transaction has written either leaves the points as they are
(`Kept`), or is complete and made under the locks of all rows that are added up
(`Settled`), unless it stands between the write of a question and that of the instance,
where the program counter says what it will write. Two lock orders meet in this invariant: graders hold
the question first, automatic grading the instance, and each reads rows before it has
their locks. `CommittedPointsAddUp` follows, with sums for any number of questions.
`GradersReplaceWhatTheySaw` holds because the time stamp is compared under the lock of
the question that the write is made under.

`RequestsRefineGradebook` is the refinement of `Gradebook`. What `Gradebook` calls seen is what a
transaction has read and not yet used (`SeenBy`, `FoundBy`), so a step that reads must be a
step of `Gradebook` that looks. A transaction sees its own writes: that it reads committed
rows at those steps needs that it has not written them (`GradingInv`, with the same invariant
saying what an edit has found: submissions that exist, items of the rubric). It also reads
rows long before it commits, so the invariant `BookInv` says of each step what the
transaction has written so far, as a change to the rows as they are committed now:
`ScoreWrites` (pages and uploads), `AutoWrites`, `SaveWrites`, `EditWrites`. It holds
because a question is read again under its lock, or only those parts of it are used that
its lock or that of the instance keeps: automatic grading adds the manual points it read
without the lock of the question, and that is right only because whoever changes them needs
the instance, which automatic grading has. At the commit the rows become what `Gradebook`
allows (`BecomesRows`), `Settled` supplying the points of the instances. All other steps
change no committed row and nothing that was seen.

`RequestsDoNotBlock`: if every active transaction waits, the smallest set of
transactions that contains all its blockers is a circle (`CircleExists`), and its members
are victims. That needs a finite set of transactions, and that whoever holds a row is
active (`HoldersAreActive`): a rollback that is not sent leaves rows locked for ever.

`theorems` in `PROJECT.json` lists the results.

Only model-checked: the three findings, and liveness (`ExamFinishes`, `JobsKeepRunning`, `StopReturns`,
`MigrationDecided`, `LaunchEnds`, `RunawaysGo`, `DrainingEnds`, `RequestsEnd`,
`JobsDecided`). Fairness and what follows from it are out of the prover's reach.

## 5. How far the bounds reach

TLC's instances are small; three things make up for it. The theorems above
remove the bounds for all safety properties of the passing runs, and what a run had to
leave out for its size (results out of range, the cron job beside two requests, the
deletion of a directory, a fourth transaction) is in them. Environments are as free as the code
allows: course code returns anything, commands fail anywhere, messages are late or
twice, time limits expire at once. And each property is tried against a plausible
mistake in the code (`mutants`), which the instance must be large enough to show.

## 6. Not modelled

Most lines of the repository are views, browser scripts, question elements,
vendored libraries and the loading of course files; they keep no state that steps
of several actors share, so a specification would repeat them. In detail:

* **LTI outcomes**: a score is read and posted; nothing orders two posts.
* **Regrading**: a further writer of points under the same lock as grading.
* **Loading course files** (`sync/course-db.ts`, `sync/fromDisk`): a sequential load;
  its result is a step of `CourseUpdates`, and the shape it guarantees is
  `AssessmentQuestion`.
* **Groups, access control**: decisions per request; they appear as the choice of a
  student to act and the credit of a submission.
* **Question rendering**: course code and HTML; its grade is any grade.
* **External grader host, sockets, sessions, caches, billing, pages**: input and
  output around what is modelled.
* **The container code caller**, workspaces' ports and logs, `generateAllChunks` and the
  other parts named as left out in section 2.

## 7. Plan

Done: the core (grading, points, finishing), the locks and what runs under them,
server jobs and course updates, code callers, workspaces, manual grading; a
refinement each for grading, migrations, callers and manual grading; proofs of the safety
properties of all passing runs.

Left, in order of worth:

1. Regrading and instance-score uploads as further transactions of `ManualGrading`.
2. The container caller and downloads of chunks, and LTI posts once they are ordered.
