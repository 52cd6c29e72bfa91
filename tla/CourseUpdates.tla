---------------------------- MODULE CourseUpdates ---------------------------
(***************************************************************************)
(* Updates of a course: pulls (lib/course.ts) and edits made in the        *)
(* browser (lib/editors.js).  Each is a server job that holds the lock of  *)
(* the course while it moves its clone of the git repository to the head   *)
(* of the remote one, synchronizes the database with the files             *)
(* (syncFromDisk.ts), uploads the chunks that changed (chunks.ts) and      *)
(* records the commit it has reached.  Others push to the remote           *)
(* repository meanwhile, every command may fail and servers crash, and the *)
(* directory of the clone may be removed: a pull then clones it again.     *)
(*                                                                         *)
(* A course is a function from its directories (the units of chunks) to    *)
(* contents; a commit is its place in the remote history, which is never   *)
(* rewritten.  A caller of the lock is one update, and is its job.         *)
(***************************************************************************)
EXTENDS NamedLocks, ServerJobs, Sequences

CONSTANTS
  Edits,        \* the updates that are edits; the others are pulls
  Files,        \* directories with chunks
  Contents,     \* their contents
  Absent,       \* the content of a directory that does not exist
  Mixed,        \* what the database has of a directory after half a synchronization
  First,        \* the course when it was last updated
  Lock,         \* the lock of the course
  MaxCommits,   \* bound on the remote history
  MaxFailures   \* bound on commands that fail, crashes and lost directories

Course == [Files -> Contents]

ASSUME UpdatesAssumption ==
  /\ Callers = Jobs /\ Edits \subseteq Callers /\ Lock \in LockNames
  /\ First \in Course
  /\ Mixed \notin Contents
  /\ MaxCommits \in Nat \ {0} /\ MaxFailures \in Nat

VARIABLES
  history,     \* the commits of the remote branch
  origin,      \* origin/branch in the clone on disk
  disk,        \* the commit checked out (0: no directory), and a change not pushed
  commitHash,  \* pl_courses.commit_hash
  database,    \* the course as synchronized to the database
  chunk,       \* the chunks of the course in the database
  update,      \* what each update does
  unseen,      \* commits, from and to, that a clone brought and nobody compared
  failures     \* failures so far

courseVars == <<history, origin, disk, commitHash, database, chunk>>
jobVars    == <<job, liveJobs, abandoned>>
vars       == <<session, courseVars, update, jobVars, unseen, failures>>

NoEdit  == [kind |-> "none"]
Change(course) == [kind |-> "change", course |-> course]
Steps   == {"new", "lock", "fetch", "write", "push", "reset", "sync", "chunks",
            "record", "release", "end", "finish", "done"}

NoDirectory == [head |-> 0, edit |-> NoEdit]

\* The course as it lies on disk.
OnDisk == IF disk.edit = NoEdit THEN history[disk.head] ELSE disk.edit.course

Partial == [f \in Files |-> Mixed]

Update    == [pc: Steps, start: Nat, saved: Nat, end: Nat, ok: BOOLEAN]
NewUpdate == [pc |-> "new", start |-> 0, saved |-> 0, end |-> 0, ok |-> TRUE]

TypeOK ==
  /\ session \in [Callers -> Session]
  /\ history \in Seq(Course) /\ Len(history) \in 1..MaxCommits
  /\ origin \in DOMAIN history /\ commitHash \in DOMAIN history
  /\ disk.head \in 0..Len(history)
  /\ chunk \in Course
  /\ update \in [Callers -> Update]
  /\ job \in [Jobs -> Job] /\ liveJobs \subseteq Jobs /\ abandoned \subseteq Jobs
  /\ unseen \subseteq (DOMAIN history) \X (DOMAIN history)
  /\ failures \in 0..MaxFailures

Init ==
  /\ LocksInit /\ JobsInit
  /\ history = <<First>> /\ database = First /\ chunk = First
  /\ origin = 1 /\ commitHash = 1
  /\ disk = [head |-> 1, edit |-> NoEdit]
  /\ update = [u \in Callers |-> NewUpdate]
  /\ unseen = {} /\ failures = 0

At(u, step)     == update[u].pc = step
GoTo(u, step)   == update' = [update EXCEPT ![u].pc = step]
GiveUp(u, step) == update' = [update EXCEPT ![u].pc = step, ![u].ok = FALSE]
Fails           == failures < MaxFailures /\ failures' = failures + 1

-----------------------------------------------------------------------------
(* An update. *)

\* The request has read the course, with its commit_hash, before it waits for
\* the lock.
Begin(u) ==
  /\ At(u, "new")
  /\ CreateServerJob(u)
  /\ update' = [update EXCEPT ![u].pc = "lock", ![u].start = commitHash]
  /\ UNCHANGED <<session, courseVars, unseen, failures>>

\* doWithLock waits five seconds at most.
TakeLock(u) ==
  /\ At(u, "lock")
  /\ \/ TryLock(u, Lock) /\ GoTo(u, "fetch")
     \/ ~IsFree(Lock) /\ session' = session /\ GiveUp(u, "end")
  /\ UNCHANGED <<courseVars, jobVars, unseen, failures>>

\* git fetch, clean and reset --hard origin/branch; a failure may come after
\* the fetch.  Without the directory no command of an edit can run.
Fetch(u) ==
  /\ At(u, "fetch")
  /\ \/ /\ disk # NoDirectory
        /\ origin' = Len(history)
        /\ disk' = [head |-> Len(history), edit |-> NoEdit]
        /\ GoTo(u, IF u \in Edits THEN "write" ELSE "sync")
        /\ failures' = failures
     \/ /\ disk # NoDirectory
        /\ Fails /\ GiveUp(u, "release")
        /\ origin' \in {origin, Len(history)} /\ disk' = disk
     \/ /\ disk = NoDirectory /\ u \in Edits
        /\ GiveUp(u, "release")
        /\ UNCHANGED <<origin, disk, failures>>
  /\ UNCHANGED <<session, history, commitHash, database, chunk, jobVars, unseen>>

\* git clone, in a pull.  There is no commit to compare with then.
Clone(u) ==
  /\ At(u, "fetch") /\ disk = NoDirectory /\ u \notin Edits
  /\ \/ /\ origin' = Len(history)
        /\ disk' = [head |-> Len(history), edit |-> NoEdit]
        /\ update' = [update EXCEPT ![u].pc = "sync", ![u].start = 0]
        /\ failures' = failures
     \/ Fails /\ GiveUp(u, "release") /\ UNCHANGED <<origin, disk>>
  /\ UNCHANGED <<session, history, commitHash, database, chunk, jobVars, unseen>>

\* write() and git commit; a failure leaves files behind.
Write(u) ==
  /\ At(u, "write")
  /\ \E f \in Files : \E v \in Contents \ {OnDisk[f]} :
       disk' = [disk EXCEPT !.edit = Change([OnDisk EXCEPT ![f] = v])]
  /\ \/ GoTo(u, "push") /\ failures' = failures
     \/ Fails /\ GiveUp(u, "reset")
  /\ UNCHANGED <<session, history, origin, commitHash, database, chunk, jobVars, unseen>>

\* Mutant: a refused push is not an error.
PushQuietly(u) ==
  /\ At(u, "push")
  /\ IF disk.head = Len(history) /\ Len(history) < MaxCommits
       THEN /\ history' = Append(history, OnDisk)
            /\ origin' = Len(history) + 1
            /\ disk' = [head |-> Len(history) + 1, edit |-> NoEdit]
            /\ update' = [update EXCEPT ![u].pc = "reset", ![u].saved = Len(history) + 1]
       ELSE GoTo(u, "reset") /\ UNCHANGED <<history, origin, disk>>
  /\ UNCHANGED <<session, commitHash, database, chunk, jobVars, unseen, failures>>

\* git push, refused when the remote branch has moved (or is at its bound)
Push(u) ==
  /\ At(u, "push")
  /\ \/ /\ disk.head = Len(history) /\ Len(history) < MaxCommits
        /\ history' = Append(history, OnDisk)
        /\ origin' = Len(history) + 1
        /\ disk' = [head |-> Len(history) + 1, edit |-> NoEdit]
        /\ update' = [update EXCEPT ![u].pc = "reset", ![u].saved = Len(history) + 1]
        /\ failures' = failures
     \/ /\ disk.head # Len(history) \/ Len(history) = MaxCommits
        /\ GiveUp(u, "reset")
        /\ UNCHANGED <<history, origin, disk, failures>>
     \/ Fails /\ GiveUp(u, "reset") /\ UNCHANGED <<history, origin, disk>>
  /\ UNCHANGED <<session, commitHash, database, chunk, jobVars, unseen>>

\* Mutant: an edit that was not pushed stays on disk.
ResetNothing(u) ==
  /\ At(u, "reset")
  /\ GoTo(u, "sync")
  /\ UNCHANGED <<session, courseVars, jobVars, unseen, failures>>

\* cleanAndResetRepository, whatever became of the edit
Reset(u) ==
  /\ At(u, "reset")
  /\ \/ disk' = [head |-> origin, edit |-> NoEdit] /\ GoTo(u, "sync") /\ failures' = failures
     \/ Fails /\ GiveUp(u, "release") /\ disk' = disk
  /\ UNCHANGED <<session, history, origin, commitHash, database, chunk, jobVars, unseen>>

\* Mutant: a synchronization that failed is not looked at.
SyncAnyhow(u) ==
  /\ At(u, "sync")
  /\ \/ database' = OnDisk /\ failures' = failures
     \/ Fails /\ database' = Partial
  /\ update' = [update EXCEPT ![u].pc = "chunks", ![u].end = disk.head]
  /\ UNCHANGED <<session, history, origin, disk, commitHash, chunk, jobVars, unseen>>

\* syncDiskToSqlWithLock
Sync(u) ==
  /\ At(u, "sync")
  /\ \/ /\ database' = OnDisk
        /\ update' = [update EXCEPT ![u].pc = "chunks", ![u].end = disk.head]
        /\ failures' = failures
     \/ Fails /\ GiveUp(u, "release") /\ database' = Partial
  /\ UNCHANGED <<session, history, origin, disk, commitHash, chunk, jobVars, unseen>>

\* Mutant: files of commits that others pushed are not looked at.
ChangedByEdit(u) ==
  IF update[u].saved = 0 THEN {}
  ELSE {f \in Files : history[update[u].saved - 1][f] # history[update[u].saved][f]}

\* identifyChangedFiles, which needs two commits
ChangedFiles(u) ==
  {f \in Files : update[u].start # 0 /\ history[update[u].start][f] # history[update[u].end][f]}

\* diffChunks: the chunks of directories that changed or have none yet,
Uploaded(u) ==
  [f \in Files |-> IF OnDisk[f] # Absent /\ (chunk[f] = Absent \/ f \in ChangedFiles(u))
                     THEN OnDisk[f] ELSE chunk[f]]

\* which updateChunksForCourse uploads, before it deletes those of directories
\* that are gone.
UpdateChunks(u) ==
  /\ At(u, "chunks")
  /\ \/ /\ chunk' = [f \in Files |-> IF OnDisk[f] = Absent THEN Absent ELSE Uploaded(u)[f]]
        /\ GoTo(u, "record") /\ failures' = failures
        /\ unseen' = IF update[u].start # 0 THEN unseen
                      ELSE unseen \cup {<<commitHash, update[u].end>>}
     \/ /\ Fails /\ GiveUp(u, "release") /\ chunk' \in {chunk, Uploaded(u)}
        /\ unseen' = unseen
  /\ UNCHANGED <<session, history, origin, disk, commitHash, database, jobVars>>

\* updateCourseCommitHash; the job fails if files had errors.
Record(u) ==
  /\ At(u, "record")
  /\ commitHash' = disk.head
  /\ GoTo(u, "release") \/ GiveUp(u, "release")
  /\ UNCHANGED <<session, history, origin, disk, database, chunk, jobVars, unseen, failures>>

Release(u) ==
  /\ At(u, "release")
  /\ ReleaseLock(u)
  /\ GoTo(u, "end")
  /\ UNCHANGED <<courseVars, jobVars, unseen, failures>>

\* finish of the job
End(u) ==
  /\ At(u, "end")
  /\ LeaveMemory(u)
  /\ GoTo(u, "finish")
  /\ UNCHANGED <<session, courseVars, unseen, failures>>

Finish(u) ==
  /\ At(u, "finish")
  /\ \/ WriteEnd(u, update[u].ok) /\ failures' = failures
     \/ Fails /\ UNCHANGED jobVars
  /\ GoTo(u, "done")
  /\ UNCHANGED <<session, courseVars, unseen>>

-----------------------------------------------------------------------------
(* The others. *)

\* Someone pushes to the remote branch.
PushByOthers ==
  /\ Len(history) < MaxCommits
  /\ \E f \in Files : \E v \in Contents \ {history[Len(history)][f]} :
       history' = Append(history, [history[Len(history)] EXCEPT ![f] = v])
  /\ UNCHANGED <<session, origin, disk, commitHash, database, chunk, update, jobVars, unseen, failures>>

\* The directory of the clone is removed (the server has a new disk), while no
\* update works on it.
LoseDirectory ==
  /\ IsFree(Lock) /\ disk # NoDirectory
  /\ Fails
  /\ disk' = NoDirectory
  /\ UNCHANGED <<session, history, origin, commitHash, database, chunk, update, jobVars, unseen>>

On(s) == {u \in Callers : ServerOf[u] = s}

\* A server crashes; another takes its place.
Crash(s) ==
  /\ Fails
  /\ \E u \in On(s) : update[u].pc \notin {"new", "done"}
  /\ update' = [u \in Callers |->
       IF u \in On(s) /\ update[u].pc \notin {"new", "done"} THEN [NewUpdate EXCEPT !.pc = "done"] ELSE update[u]]
  /\ DropLocks(s)
  /\ ForgetJobs(On(s))
  /\ UNCHANGED <<courseVars, unseen>>

Others == UNCHANGED <<session, courseVars, update, unseen, failures>>

Heartbeats(s) == Heartbeat(On(s)) /\ Others
Abandon       == SelectAbandoned /\ Others
FailJob(j)    == ErrorAbandoned(j) /\ Others
TimePasses    == Tick /\ Others

UpdateStep(u) ==
  \/ TakeLock(u) \/ Fetch(u) \/ Clone(u) \/ Write(u) \/ Push(u) \/ Reset(u) \/ Sync(u)
  \/ UpdateChunks(u) \/ Record(u) \/ Release(u) \/ End(u) \/ Finish(u)

Next ==
  \/ \E u \in Callers : Begin(u) \/ UpdateStep(u)
  \/ \E s \in Servers : Crash(s) \/ Heartbeats(s)
  \/ \E j \in Jobs : FailJob(j)
  \/ PushByOthers \/ LoseDirectory \/ Abandon \/ TimePasses

Spec == Init /\ [][Next]_vars

\* Updates go on, the cron job runs and time passes.  Updates and what the
\* cron job has to do are finite, so one condition serves for both.
Fairness ==
  /\ WF_vars((\E u \in Callers : UpdateStep(u)) \/ Abandon \/ (\E j \in Jobs : FailJob(j)))
  /\ WF_vars(TimePasses)

FairSpec == Spec /\ Fairness

-----------------------------------------------------------------------------
(* Properties. *)

\* The database and the chunks never show a change that is not in the remote
\* repository: an edit that could not be pushed, or whose server crashed, is
\* undone before anything is synchronized.
OnlyPushedIsPublished ==
  /\ database = Partial \/ \E i \in DOMAIN history : database = history[i]
  /\ \A f \in Files : chunk[f] = Absent \/ \E i \in DOMAIN history : chunk[f] = history[i][f]

\* commit_hash moves to a commit only when the database holds that commit
\* (course.ts, "we don't commit this to the database until after we've synced").
RecordedIsSynced == [][commitHash' # commitHash => database = history[commitHash']]_vars

\* After an update every chunk is that of its commit ("use git diff to determine
\* which files have changed since the last sync", rfcs/002), with two exceptions
\* that git diff does not see: the directory was changed back to what it was in
\* an earlier commit, or its last change came with a clone.
ChangedBack(f, end) ==
  \E i, j \in 1..end : i < j /\ history[i][f] = history[end][f] /\ history[j][f] # history[end][f]

Unseen(f, end) == \E r \in unseen :
  /\ r[2] <= end /\ \A i \in r[2]..end : history[i][f] = history[end][f]
  /\ \E i \in r[1]..r[2] : history[i][f] # history[end][f]

ChunksMatch ==
  \A u \in Callers : At(u, "record") =>
    \A f \in Files : chunk[f] # history[update[u].end][f] =>
      ChangedBack(f, update[u].end) \/ Unseen(f, update[u].end)

\* A job that ended with Success has brought the course to where it says: an
\* edit is in the remote history, and the recorded commit is not older.
SuccessIsPublished ==
  \A u \in Callers : job[u].status = "Success" =>
    /\ update[u].end # 0 /\ commitHash >= update[u].end
    /\ u \in Edits => update[u].saved \in 1..update[u].end

\* The status of a job is final, and its sequence says the same, whether its
\* server or the cron job writes first.
StatusIsFinal ==
  [][\A j \in Jobs : job[j].status \in {"Success", "Error"} =>
       job'[j].status = job[j].status /\ job'[j].sequence = job[j].status]_vars

\* Every job is decided: one whose server crashed or could not write its end
\* is given up.
JobsDecided == \A j \in Jobs : job[j].status = "Running" ~> job[j].status # "Running"

=============================================================================
