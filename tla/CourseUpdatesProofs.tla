------------------------ MODULE CourseUpdatesProofs -------------------------
(***************************************************************************)
(* For every number of updates, servers, directories and commits: only     *)
(* pushed changes are published, the chunks follow the recorded commit,    *)
(* and a job that ends with Success tells the truth.                       *)
(***************************************************************************)
EXTENDS CourseUpdates, SequenceTheorems, TLAPS

\* The steps that the lock of the course protects.
Touching == {"fetch", "write", "push", "reset", "sync", "chunks", "record", "release"}

\* Two updates never touch the clone, the database or the chunks of a course
\* at once (the course lock).
OneUpdateAtATime ==
  \A u, v \in Callers : update[u].pc \in Touching /\ update[v].pc \in Touching => u = v

\* The clone is at or behind the remote branch, the recorded commit at or
\* behind the clone.
CloneOK ==
  /\ commitHash <= origin /\ disk.head <= origin
  /\ disk.head = 0 => disk.edit = NoEdit
  /\ disk = [head |-> disk.head, edit |-> disk.edit]
  /\ disk.edit = NoEdit \/ \E c \in Course : disk.edit = Change(c)

\* An update that has recorded the commit it reached, with its edit in it.
Reached(u) ==
  /\ update[u].end # 0 /\ update[u].end <= commitHash
  /\ u \in Edits => update[u].saved \in 1..update[u].end

SavedOK(u) == u \in Edits /\ update[u].ok => update[u].saved \in 1..origin

\* What an update has done when it is at a step.
AtStep(u) ==
  /\ update[u].start <= commitHash
  /\ update[u].pc \in {"lock", "fetch", "write", "push", "reset"} => update[u].start # 0
  /\ update[u].pc \in {"write", "push"} => disk.head # 0
  /\ At(u, "write") => disk.edit = NoEdit
  /\ At(u, "reset") => SavedOK(u)
  /\ update[u].pc \in {"sync", "chunks", "record"} =>
       disk.edit = NoEdit /\ disk.head = origin /\ SavedOK(u)
  /\ update[u].pc \in {"chunks", "record"} =>
       update[u].end = origin /\ database = history[origin]
  /\ At(u, "record") =>
       \A f \in Files : chunk[f] # history[origin][f] =>
         ChangedBack(f, origin) \/ Unseen(f, origin)
  /\ update[u].pc \in {"release", "end", "finish"} /\ update[u].ok => Reached(u)

UpdateOK(u) ==
  /\ AtStep(u)
  /\ update[u].pc \in Touching => Holds(u, Lock)
  /\ job[u].status = "Success" => At(u, "done") /\ Reached(u)

\* The chunk of a directory is that of commit c, or of a later one, or the
\* directory was changed back before c, or changed unseen.
ChunkOK(f, c) ==
  \/ \E i \in c..origin : chunk[f] = history[i][f]
  \/ ChangedBack(f, c)
  \/ Unseen(f, c)

\* The commits from which an update may look for changes.
Recorded == ({commitHash} \cup {update[u].start : u \in Callers}) \ {0}

ChunksOK == \A c \in Recorded, f \in Files : ChunkOK(f, c)

JobsOK == \A j \in Jobs : job[j].sequence = job[j].status

UInv ==
  /\ TypeOK /\ CloneOK /\ OneUpdateAtATime /\ JobsOK
  /\ \A u \in Callers : UpdateOK(u)
  /\ OnlyPushedIsPublished /\ ChunksOK

-----------------------------------------------------------------------------
(* What steps have in common. *)

\* The histories only grow.
Grows ==
  /\ Len(history) <= Len(history')
  /\ \A i \in 1..Len(history) : history'[i] = history[i]
  /\ origin <= origin' /\ commitHash <= commitHash'
  /\ unseen \subseteq unseen'

Stays(u) ==
  /\ update'[u] = update[u]
  /\ update[u].pc \in Touching => session'[u] = session[u]
  /\ job'[u].status = "Success" => job[u].status = "Success"

LEMMA Ranges ==
  ASSUME TypeOK
  PROVE  /\ Len(history) \in Nat /\ DOMAIN history = 1..Len(history) /\ MaxCommits \in Nat
         /\ origin \in 1..Len(history) /\ disk.head \in 0..Len(history)
         /\ commitHash \in 1..Len(history)
         /\ \A i \in 1..Len(history) : history[i] \in Course
         /\ \A k \in unseen : k[1] \in 1..Len(history) /\ k[2] \in 1..Len(history)
BY UpdatesAssumption DEF TypeOK

LEMMA RangesAfter ==
  ASSUME TypeOK'
  PROVE  /\ Len(history') \in Nat /\ DOMAIN history' = 1..Len(history')
         /\ origin' \in 1..Len(history') /\ disk'.head \in 0..Len(history')
         /\ commitHash' \in 1..Len(history')
         /\ \A i \in 1..Len(history') : history'[i] \in Course
BY UpdatesAssumption DEF TypeOK

\* What became of a directory in the commits up to c is settled.
LEMMA PastIsSettled ==
  ASSUME UInv, Grows, NEW f \in Files, NEW c \in 1..Len(history)
  PROVE  /\ ChangedBack(f, c) => ChangedBack(f, c)'
         /\ Unseen(f, c) => Unseen(f, c)'
<1>1. \A i \in 1..Len(history) : history'[i] = history[i]
  BY DEF Grows
<1>2. ChangedBack(f, c) => ChangedBack(f, c)'
  BY <1>1, Ranges DEF UInv, ChangedBack
<1>3. ASSUME Unseen(f, c) PROVE Unseen(f, c)'
  <2>1. PICK k \in unseen : /\ k[2] <= c /\ \A i \in k[2]..c : history[i][f] = history[c][f]
                           /\ \E i \in k[1]..k[2] : history[i][f] # history[c][f]
    BY <1>3 DEF Unseen
  <2>2. k[1] \in 1..Len(history) /\ k[2] \in 1..Len(history) /\ Len(history) \in Nat
    BY Ranges DEF UInv
  <2>3. /\ \A i \in k[2]..c : i \in 1..Len(history)
        /\ \A i \in k[1]..k[2] : i \in 1..Len(history)
    BY <2>2
  <2>4. k \in unseen'
    BY DEF Grows
  <2>5. QED
    BY <1>1, <2>1, <2>3, <2>4 DEF Unseen
<1>4. QED
  BY <1>2, <1>3

\* An update that does not move is still where it was, if what it works on is
\* left alone.
LEMMA Untouched ==
  ASSUME UInv, TypeOK', Grows, NEW u \in Callers, Stays(u),
         update[u].pc \in Touching => UNCHANGED <<disk, origin, database, chunk>>
  PROVE  UpdateOK(u)'
<1>1. UpdateOK(u) /\ update[u] \in Update
  BY DEF UInv, TypeOK
<1>2. update[u].pc \in {"write", "push", "reset", "sync", "chunks", "record"} =>
        update[u].pc \in Touching
  BY DEF Touching
<1>3. /\ update'[u].pc \in Touching => Holds(u, Lock)'
      /\ update'[u].start <= commitHash'
      /\ update'[u].pc \in {"lock", "fetch", "write", "push", "reset"} => update'[u].start # 0
  <2>1. update[u].start \in Nat
    BY <1>1 DEF Update
  <2>2. QED
    BY <1>1, <2>1, Ranges, RangesAfter DEF UInv, Stays, UpdateOK, AtStep, Holds, Grows
<1>4. /\ At(u, "write")' => disk'.edit = NoEdit
      /\ update'[u].pc \in {"write", "push"} => disk'.head # 0
  BY <1>1, <1>2 DEF UpdateOK, AtStep, Stays, At
<1>5. (At(u, "reset") => SavedOK(u))'
  BY <1>1, <1>2 DEF Update, UpdateOK, AtStep, Stays, At, SavedOK
<1>6. (update[u].pc \in {"sync", "chunks", "record"} =>
         disk.edit = NoEdit /\ disk.head = origin /\ SavedOK(u))'
  BY <1>1, <1>2 DEF Update, UpdateOK, AtStep, Stays, At, SavedOK
<1>7. (update[u].pc \in {"chunks", "record"} =>
         update[u].end = origin /\ database = history[origin])'
  BY <1>1, <1>2, Ranges DEF UInv, UpdateOK, AtStep, Stays, Grows
<1>8. (At(u, "record") =>
         \A f \in Files : chunk[f] # history[origin][f] =>
           ChangedBack(f, origin) \/ Unseen(f, origin))'
  <2>1. SUFFICES ASSUME At(u, "record")', NEW f \in Files, chunk'[f] # history'[origin'][f]
                 PROVE  ChangedBack(f, origin)' \/ Unseen(f, origin)'
    OBVIOUS
  <2>2. chunk' = chunk /\ origin' = origin /\ At(u, "record")
    BY <2>1, <1>2 DEF Stays, At
  <2>3. ChangedBack(f, origin) \/ Unseen(f, origin)
    BY <2>1, <2>2, <1>1, Ranges DEF UInv, UpdateOK, AtStep, Grows
  <2>4. (ChangedBack(f, origin) => ChangedBack(f, origin)') /\ (Unseen(f, origin) => Unseen(f, origin)')
    <3>1. PICK c \in 1..Len(history) : c = origin
      BY Ranges DEF UInv
    <3>2. (ChangedBack(f, c) => ChangedBack(f, c)') /\ (Unseen(f, c) => Unseen(f, c)')
      BY PastIsSettled
    <3>3. QED
      BY <2>2, <3>1, <3>2 DEF ChangedBack, Unseen
  <2>5. QED
    BY <2>3, <2>4
<1>9. Reached(u) => Reached(u)'
  BY <1>1, Ranges, RangesAfter DEF UInv, Update, Reached, Stays, Grows
<1>10. QED
  BY <1>1, <1>3, <1>4, <1>5, <1>6, <1>7, <1>8, <1>9 DEF UpdateOK, AtStep, Stays, At

\* A chunk that stays, or is replaced by a commit's that is not older.
LEMMA ChunkStep ==
  ASSUME UInv, TypeOK', Grows, NEW f \in Files, NEW c \in 1..commitHash, ChunkOK(f, c),
         chunk'[f] = chunk[f] \/ \E k \in c..origin' : chunk'[f] = history'[k][f]
  PROVE  ChunkOK(f, c)'
<1>1. (ChangedBack(f, c) => ChangedBack(f, c)') /\ (Unseen(f, c) => Unseen(f, c)')
  BY Ranges, PastIsSettled DEF UInv
<1>2. \A k \in c..origin : k \in c..origin' /\ history'[k] = history[k]
  BY Ranges, RangesAfter DEF UInv, Grows
<1>3. QED
  BY <1>1, <1>2 DEF ChunkOK

LEMMA RecordedCommits ==
  ASSUME UInv
  PROVE  Recorded \subseteq 1..commitHash
<1>1. ASSUME NEW u \in Callers PROVE update[u].start \in Nat /\ update[u].start <= commitHash
  BY DEF UInv, TypeOK, Update, UpdateOK, AtStep
<1>2. QED
  BY <1>1, Ranges DEF UInv, Recorded

\* Nothing is published.
LEMMA NothingPublished ==
  ASSUME UInv, TypeOK', Grows, UNCHANGED <<commitHash, database, chunk>>,
         \A u \in Callers : update'[u].start \in {update[u].start, commitHash, 0}
  PROVE  OnlyPushedIsPublished' /\ ChunksOK'
<1>1. OnlyPushedIsPublished'
  BY Ranges, RangesAfter DEF UInv, OnlyPushedIsPublished, Grows, Partial
<1>2. Recorded' \subseteq Recorded
  BY Ranges DEF UInv, Recorded
<1>3. ChunksOK'
  BY <1>2, ChunkStep, RecordedCommits DEF UInv, ChunksOK
<1>4. QED
  BY <1>1, <1>3

\* One update moves.
LEMMA OneMoves ==
  ASSUME UInv, TypeOK', CloneOK', JobsOK', Grows, NEW u \in Callers,
         \A v \in Callers \ {u} : Stays(v),
         \/ update[u].pc \in Touching
         \/ /\ UNCHANGED <<disk, origin, database, chunk>>
            /\ update'[u].pc \in Touching => IsFree(Lock),
         UpdateOK(u)', OnlyPushedIsPublished', ChunksOK'
  PROVE  UInv'
<1>1. ASSUME NEW v \in Callers, v # u, update[v].pc \in Touching
      PROVE  update[u].pc \notin Touching /\ ~IsFree(Lock)
  BY <1>1 DEF UInv, OneUpdateAtATime, UpdateOK, IsFree
<1>2. \A v \in Callers : UpdateOK(v)'
  BY <1>1, Untouched
<1>3. OneUpdateAtATime'
  BY <1>1 DEF UInv, OneUpdateAtATime, Stays
<1>4. QED
  BY <1>2, <1>3 DEF UInv

\* One update moves, which publishes nothing.
LEMMA OneMovesQuietly ==
  ASSUME UInv, TypeOK', CloneOK', JobsOK', Grows, NEW u \in Callers,
         \A v \in Callers \ {u} : Stays(v),
         \/ update[u].pc \in Touching
         \/ /\ UNCHANGED <<disk, origin>>
            /\ update'[u].pc \in Touching => IsFree(Lock),
         UpdateOK(u)', UNCHANGED <<commitHash, database, chunk>>,
         update'[u].start \in {update[u].start, commitHash, 0}
  PROVE  UInv'
<1>1. \A v \in Callers : update'[v].start \in {update[v].start, commitHash, 0}
  BY DEF Stays
<1>2. QED
  BY <1>1, NothingPublished, OneMoves

LEMMA GoesTo ==
  ASSUME TypeOK, NEW u \in Callers, NEW step \in Steps, GoTo(u, step)
  PROVE  /\ update' \in [Callers -> Update]
         /\ update'[u] = [update[u] EXCEPT !.pc = step]
         /\ \A v \in Callers \ {u} : update'[v] = update[v]
<1>1. update[u] \in Update
  BY DEF TypeOK
<1>2. [update[u] EXCEPT !.pc = step] \in Update
  BY <1>1 DEF Update
<1>3. QED
  BY <1>2 DEF TypeOK, GoTo

LEMMA GivesUp ==
  ASSUME TypeOK, NEW u \in Callers, NEW step \in Steps, GiveUp(u, step)
  PROVE  /\ update' \in [Callers -> Update]
         /\ update'[u] = [update[u] EXCEPT !.pc = step, !.ok = FALSE]
         /\ \A v \in Callers \ {u} : update'[v] = update[v]
<1>1. update[u] \in Update
  BY DEF TypeOK
<1>2. [update[u] EXCEPT !.pc = step, !.ok = FALSE] \in Update
  BY <1>1 DEF Update
<1>3. QED
  BY <1>2 DEF TypeOK, GiveUp

\* A step under the lock, which publishes nothing.
LEMMA InTheClone ==
  ASSUME UInv, NEW u \in Callers, update[u].pc \in Touching,
         UNCHANGED <<session, history, commitHash, database, chunk, jobVars, unseen>>,
         update' \in [Callers -> Update], \A v \in Callers \ {u} : update'[v] = update[v],
         failures' \in 0..MaxFailures,
         origin' \in origin..Len(history), disk'.head \in 0..Len(history), CloneOK',
         update'[u].start \in {update[u].start, 0}, AtStep(u)'
  PROVE  UInv'
<1>1. TypeOK'
  BY Ranges, SMTT(30) DEF UInv, TypeOK, jobVars
<1>2. JobsOK' /\ Grows
  BY Ranges DEF UInv, JobsOK, jobVars, Grows
<1>3. \A v \in Callers \ {u} : Stays(v)
  BY DEF Stays, jobVars
<1>4. job'[u].status # "Success" /\ Holds(u, Lock)'
  BY DEF UInv, UpdateOK, At, Touching, Holds, jobVars
<1>5. UpdateOK(u)'
  BY <1>4 DEF UpdateOK
<1>6. QED
  BY <1>1, <1>2, <1>3, <1>5, OneMovesQuietly

\* A command fails.
LEMMA FailureCounted ==
  ASSUME TypeOK, Fails \/ failures' = failures
  PROVE  failures' \in 0..MaxFailures
BY UpdatesAssumption DEF TypeOK, Fails

LEMMA DiskTyped ==
  ASSUME UInv, disk.head # 0
  PROVE  OnDisk \in Course
<1>1. disk.edit = NoEdit => OnDisk \in Course
  BY Ranges DEF UInv, OnDisk
<1>2. ASSUME NEW c \in Course, disk.edit = Change(c) PROVE OnDisk \in Course
  BY <1>2 DEF OnDisk, Change, NoEdit
<1>3. QED
  BY <1>1, <1>2 DEF UInv, CloneOK

-----------------------------------------------------------------------------
(* An update, step by step. *)

LEMMA BeginStep ==
  ASSUME UInv, NEW u \in Callers, Begin(u)
  PROVE  UInv'
<1>1. u \in Jobs /\ Jobs = Callers
  BY UpdatesAssumption
<1>2. update'[u] = [update[u] EXCEPT !.pc = "lock", !.start = commitHash]
      /\ update' \in [Callers -> Update]
  <2>1. update[u] \in Update /\ commitHash \in Nat
    BY Ranges DEF UInv, TypeOK
  <2>2. [update[u] EXCEPT !.pc = "lock", !.start = commitHash] \in Update
    BY <2>1 DEF Update, Steps
  <2>3. QED
    BY <2>2 DEF UInv, TypeOK, Begin
<1>3. job' \in [Jobs -> Job] /\ liveJobs' \subseteq Jobs
  <2>1. [status |-> "Running", sequence |-> "Running", age |-> 0] \in Job
    BY JobsAssumption DEF Job, Statuses
  <2>2. QED
    BY <1>1, <2>1 DEF UInv, TypeOK, Begin, CreateServerJob
<1>4. TypeOK'
  BY <1>2, <1>3 DEF UInv, TypeOK, Begin, CreateServerJob, courseVars
<1>5. CloneOK' /\ Grows
  BY Ranges DEF UInv, CloneOK, Begin, courseVars, Grows
<1>6. JobsOK' /\ (\A v \in Callers \ {u} : Stays(v)) /\ job'[u].status # "Success"
  BY <1>1 DEF UInv, TypeOK, JobsOK, Begin, CreateServerJob, Stays
<1>7. UpdateOK(u)'
  BY <1>2, <1>6, Ranges DEF UInv, TypeOK, Begin, courseVars, UpdateOK, AtStep, At, Touching
<1>8. QED
  BY <1>2, <1>4, <1>5, <1>6, <1>7, OneMovesQuietly DEF Begin, courseVars, Touching

LEMMA TakeLockStep ==
  ASSUME UInv, NEW u \in Callers, TakeLock(u)
  PROVE  UInv'
<1>1. update[u] \in Update /\ UpdateOK(u)
  BY DEF UInv, TypeOK
<1>2. /\ update' \in [Callers -> Update]
      /\ session' \in [Callers -> Session]
  <2>1. "fetch" \in Steps /\ "end" \in Steps
    BY DEF Steps
  <2>2. update' \in [Callers -> Update]
    BY <2>1, GoesTo, GivesUp DEF UInv, TakeLock
  <2>3. [phase |-> "held", name |-> Lock] \in Session
    BY UpdatesAssumption DEF Session, Phases
  <2>4. QED
    BY <2>2, <2>3 DEF UInv, TypeOK, TakeLock, TryLock
<1>3. TypeOK'
  BY <1>2 DEF UInv, TypeOK, TakeLock, courseVars, jobVars
<1>4. CloneOK' /\ JobsOK' /\ Grows
  BY Ranges DEF UInv, CloneOK, JobsOK, TakeLock, courseVars, jobVars, Grows
<1>5. \A v \in Callers \ {u} : Stays(v)
  BY DEF UInv, TypeOK, TakeLock, TryLock, GoTo, GiveUp, Stays, jobVars
<1>6. UpdateOK(u)' /\ update'[u].start = update[u].start
                   /\ (update'[u].pc \in Touching => IsFree(Lock))
  <2>1. CASE TryLock(u, Lock) /\ GoTo(u, "fetch")
    <3>1. Holds(u, Lock)' /\ IsFree(Lock) /\ update'[u] = [update[u] EXCEPT !.pc = "fetch"]
      BY <2>1 DEF UInv, TypeOK, TryLock, GoTo, Holds
    <3>2. job'[u].status # "Success"
      BY <1>1 DEF TakeLock, jobVars, UpdateOK, At
    <3>3. QED
      BY <1>1, <3>1, <3>2 DEF TakeLock, courseVars, UpdateOK, AtStep, At, Touching
  <2>2. CASE session' = session /\ GiveUp(u, "end")
    <3>1. update'[u] = [update[u] EXCEPT !.pc = "end", !.ok = FALSE]
      BY <2>2 DEF UInv, TypeOK, GiveUp
    <3>2. job'[u].status # "Success"
      BY <1>1 DEF TakeLock, jobVars, UpdateOK, At
    <3>3. QED
      BY <1>1, <3>1, <3>2 DEF TakeLock, courseVars, UpdateOK, AtStep, At, Touching
  <2>3. QED
    BY <2>1, <2>2 DEF TakeLock
<1>7. QED
  BY <1>3, <1>4, <1>5, <1>6, OneMovesQuietly DEF TakeLock, courseVars

\* Giving up under the lock, with the clone as it is.
LEMMA GivingUp ==
  ASSUME UInv, NEW u \in Callers, update[u].pc \in Touching,
         NEW step \in {"release", "reset"}, GiveUp(u, step),
         step = "reset" => update[u].pc \in {"write", "push"},
         Fails \/ failures' = failures,
         UNCHANGED <<session, history, origin, commitHash, database, chunk, jobVars, unseen>>,
         disk'.head = disk.head, CloneOK'
  PROVE  UInv'
<1>1. update[u] \in Update /\ AtStep(u) /\ "release" \in Steps /\ "reset" \in Steps
  BY DEF UInv, TypeOK, UpdateOK, Steps
<1>2. /\ update' \in [Callers -> Update] /\ \A v \in Callers \ {u} : update'[v] = update[v]
      /\ update'[u] = [update[u] EXCEPT !.pc = step, !.ok = FALSE]
  <2>1. TypeOK /\ step \in Steps
    BY <1>1 DEF UInv
  <2>2. QED
    BY <2>1, GivesUp
<1>3. AtStep(u)'
  BY <1>1, <1>2 DEF AtStep, Update, SavedOK, At, Touching
<1>4. update'[u].start = update[u].start /\ failures' \in 0..MaxFailures
  BY <1>1, <1>2, FailureCounted DEF UInv, Update
<1>5. origin' \in origin..Len(history) /\ disk'.head \in 0..Len(history)
  BY Ranges DEF UInv
<1>6. QED
  BY <1>2, <1>3, <1>4, <1>5, InTheClone

LEMMA FetchStep ==
  ASSUME UInv, NEW u \in Callers, Fetch(u)
  PROVE  UInv'
<1>1. update[u] \in Update /\ AtStep(u) /\ update[u].pc = "fetch" /\ update[u].pc \in Touching
  BY DEF UInv, TypeOK, UpdateOK, Fetch, At, Touching
<1>2. /\ UNCHANGED <<session, history, commitHash, database, chunk, jobVars, unseen>>
      /\ Len(history) \in 1..Len(history) /\ origin \in 1..Len(history) /\ commitHash <= origin
      /\ {"write", "sync", "release"} \subseteq Steps
  BY Ranges DEF UInv, CloneOK, Fetch, Steps
<1>3. CASE /\ origin' = Len(history) /\ disk' = [head |-> Len(history), edit |-> NoEdit]
           /\ GoTo(u, IF u \in Edits THEN "write" ELSE "sync") /\ failures' = failures
  <2>1. PICK step \in Steps : GoTo(u, step) /\ step = IF u \in Edits THEN "write" ELSE "sync"
    BY <1>2, <1>3
  <2>2. /\ update' \in [Callers -> Update] /\ \A v \in Callers \ {u} : update'[v] = update[v]
        /\ update'[u] = [update[u] EXCEPT !.pc = step]
    BY <2>1, GoesTo DEF UInv
  <2>3. AtStep(u)'
    <3>1. /\ disk'.edit = NoEdit /\ disk'.head = origin' /\ commitHash' = commitHash
          /\ disk'.head # 0
      BY <1>2, <1>3
    <3>2. CASE u \in Edits
      <4>1. update'[u].pc = "write" /\ update'[u].start = update[u].start
        BY <1>1, <2>1, <2>2, <3>2 DEF Update
      <4>2. QED
        BY <1>1, <3>1, <4>1 DEF AtStep, At, Touching
    <3>3. CASE u \notin Edits
      <4>1. update'[u].pc = "sync" /\ update'[u].start = update[u].start
        BY <1>1, <2>1, <2>2, <3>3 DEF Update
      <4>2. QED
        BY <1>1, <3>1, <3>3, <4>1 DEF AtStep, SavedOK, At, Touching
    <3>4. QED
      BY <3>2, <3>3
  <2>4. CloneOK'
    BY <1>2, <1>3, Ranges DEF UInv, CloneOK
  <2>5. update'[u].start = update[u].start /\ failures' \in 0..MaxFailures
    BY <1>1, <1>3, <2>2, FailureCounted DEF UInv, Update
  <2>6. origin' \in origin..Len(history) /\ disk'.head \in 0..Len(history)
    BY <1>2, <1>3
  <2>7. QED
    BY <1>1, <1>2, <2>2, <2>3, <2>4, <2>5, <2>6, InTheClone
<1>4. CASE Fails /\ GiveUp(u, "release") /\ origin' \in {origin, Len(history)} /\ disk' = disk
  <2>1. /\ update' \in [Callers -> Update] /\ \A v \in Callers \ {u} : update'[v] = update[v]
        /\ update'[u] = [update[u] EXCEPT !.pc = "release", !.ok = FALSE]
    BY <1>2, <1>4, GivesUp DEF UInv
  <2>2. AtStep(u)'
    BY <1>1, <1>2, <2>1 DEF AtStep, Update, At, Touching
  <2>3. CloneOK'
    BY <1>2, <1>4, Ranges DEF UInv, CloneOK
  <2>4. update'[u].start = update[u].start /\ failures' \in 0..MaxFailures
    BY <1>1, <1>4, <2>1, FailureCounted DEF UInv, Update
  <2>5. origin' \in origin..Len(history) /\ disk'.head \in 0..Len(history)
    BY <1>2, <1>4, Ranges DEF UInv
  <2>6. QED
    BY <1>1, <1>2, <2>1, <2>2, <2>3, <2>4, <2>5, InTheClone
<1>5. CASE disk = NoDirectory /\ GiveUp(u, "release") /\ UNCHANGED <<origin, disk, failures>>
  <2>1. CloneOK'
    BY <1>2, <1>5 DEF UInv, CloneOK
  <2>2. QED
    BY <1>1, <1>2, <1>5, <2>1, GivingUp
<1>6. QED
  BY <1>3, <1>4, <1>5 DEF Fetch

LEMMA CloneStep ==
  ASSUME UInv, NEW u \in Callers, Clone(u)
  PROVE  UInv'
<1>1. update[u] \in Update /\ AtStep(u) /\ update[u].pc = "fetch" /\ update[u].pc \in Touching
  BY DEF UInv, TypeOK, UpdateOK, Clone, At, Touching
<1>2. /\ UNCHANGED <<session, history, commitHash, database, chunk, jobVars, unseen>>
      /\ Len(history) \in 1..Len(history) /\ origin \in 1..Len(history) /\ commitHash <= origin
      /\ u \notin Edits
  BY Ranges DEF UInv, CloneOK, Clone
<1>3. CASE /\ origin' = Len(history) /\ disk' = [head |-> Len(history), edit |-> NoEdit]
           /\ update' = [update EXCEPT ![u].pc = "sync", ![u].start = 0] /\ failures' = failures
  <2>1. [update[u] EXCEPT !.pc = "sync", !.start = 0] \in Update
    BY <1>1 DEF Update, Steps
  <2>2. /\ update' \in [Callers -> Update] /\ \A v \in Callers \ {u} : update'[v] = update[v]
        /\ update'[u] = [update[u] EXCEPT !.pc = "sync", !.start = 0]
    BY <1>3, <2>1 DEF UInv, TypeOK
  <2>3. AtStep(u)'
    <3>1. update'[u].pc = "sync" /\ update'[u].start = 0
      BY <1>1, <2>2 DEF Update
    <3>2. disk'.edit = NoEdit /\ disk'.head = origin' /\ 0 <= commitHash'
      BY <1>2, <1>3, Ranges DEF UInv
    <3>3. QED
      BY <1>2, <3>1, <3>2 DEF AtStep, SavedOK, At
  <2>4. CloneOK'
    BY <1>2, <1>3, Ranges DEF UInv, CloneOK
  <2>5. update'[u].start = 0 /\ failures' \in 0..MaxFailures
    BY <1>1, <1>3, <2>2, FailureCounted DEF UInv, Update
  <2>6. origin' \in origin..Len(history) /\ disk'.head \in 0..Len(history)
    BY <1>2, <1>3
  <2>7. QED
    BY <1>1, <1>2, <2>2, <2>3, <2>4, <2>5, <2>6, InTheClone
<1>4. CASE Fails /\ GiveUp(u, "release") /\ UNCHANGED <<origin, disk>>
  <2>1. CloneOK'
    BY <1>2, <1>4 DEF UInv, CloneOK
  <2>2. QED
    BY <1>1, <1>2, <1>4, <2>1, GivingUp
<1>5. QED
  BY <1>3, <1>4 DEF Clone

LEMMA WriteStep ==
  ASSUME UInv, NEW u \in Callers, Write(u)
  PROVE  UInv'
<1>1. update[u] \in Update /\ AtStep(u) /\ update[u].pc = "write" /\ update[u].pc \in Touching
  BY DEF UInv, TypeOK, UpdateOK, Write, At, Touching
<1>2. /\ UNCHANGED <<session, history, origin, commitHash, database, chunk, jobVars, unseen>>
      /\ {"push", "reset"} \subseteq Steps
  BY DEF Write, Steps
<1>3. disk'.head = disk.head /\ CloneOK'
  <2>1. PICK f \in Files, v \in Contents :
          disk' = [disk EXCEPT !.edit = Change([OnDisk EXCEPT ![f] = v])]
    BY DEF Write
  <2>2. [OnDisk EXCEPT ![f] = v] \in Course
    BY <1>1, DiskTyped DEF AtStep, Course
  <2>3. /\ disk'.head = disk.head /\ disk' = [head |-> disk'.head, edit |-> disk'.edit]
        /\ disk'.edit = Change([OnDisk EXCEPT ![f] = v])
    BY <2>1 DEF UInv, CloneOK
  <2>4. QED
    BY <1>1, <1>2, <2>2, <2>3 DEF UInv, CloneOK, AtStep
<1>4. CASE GoTo(u, "push") /\ failures' = failures
  <2>1. /\ update' \in [Callers -> Update] /\ \A v \in Callers \ {u} : update'[v] = update[v]
        /\ update'[u] = [update[u] EXCEPT !.pc = "push"]
    BY <1>2, <1>4, GoesTo DEF UInv
  <2>2. AtStep(u)'
    BY <1>1, <1>2, <1>3, <2>1 DEF AtStep, Update, At, Touching
  <2>3. update'[u].start = update[u].start /\ failures' \in 0..MaxFailures
    BY <1>1, <1>4, <2>1, FailureCounted DEF UInv, Update
  <2>4. origin' \in origin..Len(history) /\ disk'.head \in 0..Len(history)
    BY <1>2, <1>3, Ranges DEF UInv
  <2>5. QED
    BY <1>1, <1>2, <1>3, <2>1, <2>2, <2>3, <2>4, InTheClone
<1>5. CASE Fails /\ GiveUp(u, "reset")
  BY <1>1, <1>2, <1>3, <1>5, GivingUp
<1>6. QED
  BY <1>4, <1>5 DEF Write

LEMMA PushStep ==
  ASSUME UInv, NEW u \in Callers, Push(u)
  PROVE  UInv'
<1>1. update[u] \in Update /\ UpdateOK(u) /\ update[u].pc = "push" /\ update[u].pc \in Touching
  BY DEF UInv, TypeOK, UpdateOK, Push, At, Touching
<1>2. UNCHANGED <<session, commitHash, database, chunk, jobVars, unseen>>
  BY DEF Push
<1>3. CASE /\ disk.head = Len(history) /\ Len(history) < MaxCommits
           /\ history' = Append(history, OnDisk)
           /\ origin' = Len(history) + 1
           /\ disk' = [head |-> Len(history) + 1, edit |-> NoEdit]
           /\ update' = [update EXCEPT ![u].pc = "reset", ![u].saved = Len(history) + 1]
           /\ failures' = failures
  <2>1. /\ history' \in Seq(Course) /\ Len(history') = Len(history) + 1
        /\ \A i \in 1..Len(history) : history'[i] = history[i]
    <3>1. history \in Seq(Course) /\ OnDisk \in Course
      BY <1>1, DiskTyped DEF UInv, TypeOK, UpdateOK, AtStep
    <3>2. QED
      BY <1>3, <3>1, AppendProperties
  <2>2. [update[u] EXCEPT !.pc = "reset", !.saved = Len(history) + 1] \in Update
    <3>1. Len(history) + 1 \in Nat
      BY Ranges DEF UInv
    <3>2. QED
      BY <1>1, <3>1 DEF Update, Steps
  <2>3. /\ update' \in [Callers -> Update] /\ \A v \in Callers \ {u} : update'[v] = update[v]
        /\ update'[u] = [update[u] EXCEPT !.pc = "reset", !.saved = Len(history) + 1]
    BY <1>3, <2>2 DEF UInv, TypeOK
  <2>4. Len(history) \in Nat /\ 1 <= Len(history) /\ DOMAIN history' = 1..Len(history')
    BY <2>1, Ranges DEF UInv
  <2>5. TypeOK'
    BY <1>2, <1>3, <2>1, <2>3, <2>4, Ranges DEF UInv, TypeOK, jobVars
  <2>6. CloneOK' /\ JobsOK' /\ Grows
    BY <1>2, <1>3, <2>1, <2>4, Ranges DEF UInv, CloneOK, JobsOK, jobVars, Grows
  <2>7. \A v \in Callers \ {u} : Stays(v)
    BY <1>2, <2>3 DEF Stays, jobVars
  <2>8. AtStep(u)'
    BY <1>1, <1>2, <1>3, <2>3, <2>4 DEF UpdateOK, AtStep, Update, SavedOK, At, Touching
  <2>9. UpdateOK(u)' /\ update'[u].start = update[u].start
    BY <1>1, <1>2, <2>3, <2>8 DEF UpdateOK, Update, At, Holds, Touching, jobVars
  <2>10. QED
    BY <1>1, <1>2, <2>5, <2>6, <2>7, <2>9, OneMovesQuietly
<1>4. CASE GiveUp(u, "reset") /\ UNCHANGED <<history, origin, disk, failures>>
  <2>1. CloneOK'
    BY <1>2, <1>4 DEF UInv, CloneOK
  <2>2. QED
    BY <1>1, <1>2, <1>4, <2>1, GivingUp
<1>5. CASE Fails /\ GiveUp(u, "reset") /\ UNCHANGED <<history, origin, disk>>
  <2>1. CloneOK'
    BY <1>2, <1>5 DEF UInv, CloneOK
  <2>2. QED
    BY <1>1, <1>2, <1>5, <2>1, GivingUp
<1>6. QED
  BY <1>3, <1>4, <1>5 DEF Push

LEMMA ResetStep ==
  ASSUME UInv, NEW u \in Callers, Reset(u)
  PROVE  UInv'
<1>1. update[u] \in Update /\ AtStep(u) /\ update[u].pc = "reset" /\ update[u].pc \in Touching
  BY DEF UInv, TypeOK, UpdateOK, Reset, At, Touching
<1>2. /\ UNCHANGED <<session, history, origin, commitHash, database, chunk, jobVars, unseen>>
      /\ "sync" \in Steps
  BY DEF Reset, Steps
<1>3. CASE disk' = [head |-> origin, edit |-> NoEdit] /\ GoTo(u, "sync") /\ failures' = failures
  <2>1. /\ update' \in [Callers -> Update] /\ \A v \in Callers \ {u} : update'[v] = update[v]
        /\ update'[u] = [update[u] EXCEPT !.pc = "sync"]
    BY <1>2, <1>3, GoesTo DEF UInv
  <2>2. disk'.edit = NoEdit /\ disk'.head = origin' /\ commitHash' = commitHash
    BY <1>2, <1>3
  <2>3. AtStep(u)'
    BY <1>1, <1>2, <2>1, <2>2 DEF AtStep, Update, SavedOK, At, Touching
  <2>4. update'[u].start = update[u].start /\ failures' \in 0..MaxFailures
    BY <1>1, <1>3, <2>1, FailureCounted DEF UInv, Update
  <2>5. CloneOK'
    BY <1>2, <1>3, Ranges DEF UInv, CloneOK
  <2>6. origin' \in origin..Len(history) /\ disk'.head \in 0..Len(history)
    BY <1>2, <2>2, Ranges DEF UInv
  <2>7. QED
    BY <1>1, <1>2, <2>1, <2>3, <2>4, <2>5, <2>6, InTheClone
<1>4. CASE Fails /\ GiveUp(u, "release") /\ disk' = disk
  <2>1. CloneOK'
    BY <1>2, <1>4 DEF UInv, CloneOK
  <2>2. QED
    BY <1>1, <1>2, <1>4, <2>1, GivingUp
<1>5. QED
  BY <1>3, <1>4 DEF Reset

\* What is on disk at a synchronization, and later.
LEMMA DiskIsCommit ==
  ASSUME UInv, disk.edit = NoEdit, disk.head = origin
  PROVE  OnDisk = history[origin] /\ origin \in 1..Len(history) /\ OnDisk \in Course
BY Ranges DEF UInv, OnDisk

\* A step under the lock, after the clone is where it should be.
LEMMA InTheDatabase ==
  ASSUME UInv, NEW u \in Callers, update[u].pc \in Touching,
         UNCHANGED <<session, history, origin, disk, jobVars>>,
         unseen \subseteq unseen', unseen' \subseteq (DOMAIN history) \X (DOMAIN history),
         update' \in [Callers -> Update], \A v \in Callers \ {u} : update'[v] = update[v],
         failures' \in 0..MaxFailures,
         commitHash <= commitHash', commitHash' \in 1..origin, chunk' \in Course,
         AtStep(u)', OnlyPushedIsPublished', ChunksOK'
  PROVE  UInv'
<1>1. TypeOK'
  BY Ranges DEF UInv, TypeOK, jobVars
<1>2. CloneOK' /\ JobsOK' /\ Grows
  BY Ranges DEF UInv, CloneOK, JobsOK, jobVars, Grows
<1>3. \A v \in Callers \ {u} : Stays(v)
  BY DEF Stays, jobVars
<1>4. job'[u].status # "Success" /\ Holds(u, Lock)'
  BY DEF UInv, UpdateOK, At, Touching, Holds, jobVars
<1>5. UpdateOK(u)'
  BY <1>4 DEF UpdateOK
<1>6. QED
  BY <1>1, <1>2, <1>3, <1>5, OneMoves

LEMMA SyncStep ==
  ASSUME UInv, NEW u \in Callers, Sync(u)
  PROVE  UInv'
<1>1. update[u] \in Update /\ AtStep(u) /\ update[u].pc = "sync" /\ update[u].pc \in Touching
  BY DEF UInv, TypeOK, UpdateOK, Sync, At, Touching
<1>2. /\ UNCHANGED <<session, history, origin, disk, commitHash, chunk, jobVars, unseen>>
      /\ "release" \in Steps /\ unseen' \subseteq (DOMAIN history) \X (DOMAIN history)
  BY DEF Sync, Steps, UInv, TypeOK
<1>3. /\ disk.edit = NoEdit /\ disk.head = origin /\ SavedOK(u)
      /\ OnDisk = history[origin] /\ origin \in 1..Len(history) /\ commitHash \in 1..origin
      /\ chunk' \in Course
  BY <1>1, <1>2, DiskIsCommit, Ranges DEF UInv, CloneOK, TypeOK, AtStep
<1>4. /\ update' \in [Callers -> Update] /\ \A v \in Callers \ {u} : update'[v] = update[v]
      /\ update'[u].start = update[u].start
      /\ failures' \in 0..MaxFailures
      /\ \/ /\ database' = OnDisk
            /\ update'[u] = [update[u] EXCEPT !.pc = "chunks", !.end = origin]
         \/ /\ database' = Partial
            /\ update'[u] = [update[u] EXCEPT !.pc = "release", !.ok = FALSE]
  <2>1. CASE /\ database' = OnDisk /\ failures' = failures
             /\ update' = [update EXCEPT ![u].pc = "chunks", ![u].end = disk.head]
    <3>1. [update[u] EXCEPT !.pc = "chunks", !.end = origin] \in Update
      <4>1. origin \in Nat
        BY <1>3, Ranges DEF UInv
      <4>2. QED
        BY <1>1, <4>1 DEF Update, Steps
    <3>2. update' = [update EXCEPT ![u] = [update[u] EXCEPT !.pc = "chunks", !.end = origin]]
      BY <1>3, <2>1 DEF UInv, TypeOK
    <3>3. /\ update' \in [Callers -> Update] /\ \A v \in Callers \ {u} : update'[v] = update[v]
          /\ update'[u] = [update[u] EXCEPT !.pc = "chunks", !.end = origin]
      <4>1. update \in [Callers -> Update]
        BY DEF UInv, TypeOK
      <4>2. QED
        BY <3>1, <3>2, <4>1
    <3>4. update'[u].start = update[u].start
      BY <1>1, <3>3 DEF Update
    <3>5. failures' \in 0..MaxFailures
      BY <2>1, FailureCounted DEF UInv
    <3>6. QED
      BY <2>1, <3>3, <3>4, <3>5
  <2>2. CASE Fails /\ GiveUp(u, "release") /\ database' = Partial
    <3>1. TypeOK
      BY DEF UInv
    <3>2. /\ update' \in [Callers -> Update] /\ \A v \in Callers \ {u} : update'[v] = update[v]
          /\ update'[u] = [update[u] EXCEPT !.pc = "release", !.ok = FALSE]
      BY <1>2, <2>2, <3>1, GivesUp
    <3>3. QED
      BY <1>1, <2>2, <3>1, <3>2, FailureCounted DEF Update
  <2>3. QED
    BY <2>1, <2>2 DEF Sync
<1>5. AtStep(u)'
  BY <1>1, <1>2, <1>3, <1>4 DEF AtStep, Update, SavedOK, At, Touching
<1>6. TypeOK' /\ Grows
  BY <1>2, <1>4, Ranges DEF UInv, TypeOK, jobVars, Grows
<1>7. Recorded' \subseteq Recorded
  BY <1>2, <1>4 DEF Recorded
<1>8. ChunksOK'
  BY <1>2, <1>6, <1>7, ChunkStep, RecordedCommits DEF UInv, ChunksOK
<1>9. OnlyPushedIsPublished'
  BY <1>2, <1>3, <1>4, Ranges DEF UInv, OnlyPushedIsPublished, Partial
<1>10. QED
  BY <1>1, <1>2, <1>3, <1>4, <1>5, <1>8, <1>9, InTheDatabase

\* What an update of commits from start has not noticed by commit c it has not
\* noticed by the commit it reached either, unless the directory differs there.
LEMMA StillSettled ==
  ASSUME UInv, NEW f \in Files, NEW start \in 1..origin,
         history[start][f] = history[origin][f],
         ChangedBack(f, start) \/ Unseen(f, start)
  PROVE  ChangedBack(f, origin) \/ Unseen(f, origin)
<1>1. origin \in Nat /\ start \in Nat /\ start <= origin
  BY Ranges DEF UInv
<1>2. CASE ChangedBack(f, start)
  <2>1. PICK i \in 1..start, j \in 1..start :
          i < j /\ history[i][f] = history[start][f] /\ history[j][f] # history[start][f]
    BY <1>2 DEF ChangedBack
  <2>2. i \in 1..origin /\ j \in 1..origin
    BY <1>1
  <2>3. QED
    BY <2>1, <2>2 DEF ChangedBack
<1>3. CASE \E j \in start..origin : history[j][f] # history[origin][f]
  <2>1. PICK j \in start..origin : history[j][f] # history[origin][f]
    BY <1>3
  <2>2. start \in 1..origin /\ j \in 1..origin /\ start < j
    BY <1>1, <2>1
  <2>3. QED
    BY <2>1, <2>2 DEF ChangedBack
<1>4. CASE Unseen(f, start) /\ \A j \in start..origin : history[j][f] = history[origin][f]
  <2>1. PICK k \in unseen : /\ k[2] <= start /\ \A i \in k[2]..start : history[i][f] = history[start][f]
                           /\ \E i \in k[1]..k[2] : history[i][f] # history[start][f]
    BY <1>4 DEF Unseen
  <2>2. k[2] \in Nat
    BY <2>1, Ranges DEF UInv
  <2>3. ASSUME NEW i \in k[2]..origin PROVE history[i][f] = history[origin][f]
    <3>1. i \in k[2]..start \/ i \in start..origin
      BY <1>1, <2>2
    <3>2. QED
      BY <1>4, <2>1, <3>1
  <2>4. k[2] <= origin
    BY <1>1, <2>1, <2>2
  <2>5. QED
    BY <2>1, <2>3, <2>4 DEF Unseen
<1>5. QED
  BY <1>2, <1>3, <1>4

\* A chunk that is kept, of a directory whose changes from start to the commit
\* on disk were looked for.
LEMMA ChunkKept ==
  ASSUME UInv, NEW f \in Files, NEW start \in Recorded,
         history[start][f] = history[origin][f], chunk[f] # history[origin][f]
  PROVE  ChangedBack(f, origin) \/ Unseen(f, origin)
<1>1. start \in 1..origin /\ origin \in Nat /\ ChunkOK(f, start)
  BY RecordedCommits, Ranges DEF UInv, CloneOK, ChunksOK
<1>2. CASE \E i \in start..origin : chunk[f] = history[i][f]
  <2>1. PICK i \in start..origin : chunk[f] = history[i][f]
    BY <1>2
  <2>2. start \in 1..origin /\ i \in 1..origin /\ start < i
    BY <1>1, <2>1
  <2>3. QED
    BY <2>1, <2>2 DEF ChangedBack
<1>3. CASE ChangedBack(f, start) \/ Unseen(f, start)
  BY <1>1, <1>3, StillSettled
<1>4. QED
  BY <1>1, <1>2, <1>3 DEF ChunkOK

\* A chunk that is kept after a clone, which is noted.
LEMMA ChunkCloned ==
  ASSUME UInv, NEW f \in Files, chunk[f] # history[origin][f], <<commitHash, origin>> \in unseen',
         UNCHANGED <<history, origin>>, unseen \subseteq unseen'
  PROVE  ChangedBack(f, origin) \/ Unseen(f, origin)'
<1>1. commitHash \in 1..origin /\ commitHash \in Recorded /\ origin \in Nat
  BY Ranges DEF UInv, CloneOK, Recorded
<1>2. Unseen(f, origin) => Unseen(f, origin)'
  BY DEF Unseen
<1>3. ASSUME NEW i \in commitHash..origin, history[i][f] # history[origin][f]
      PROVE  Unseen(f, origin)'
  <2> DEFINE k == <<commitHash, origin>>
  <2>1. k[1] = commitHash /\ k[2] = origin /\ k \in unseen'
    OBVIOUS
  <2>2. k[2] <= origin /\ \A n \in k[2]..origin : history[n][f] = history[origin][f]
    BY <1>1, <2>1
  <2>3. \E n \in k[1]..k[2] : history[n][f] # history[origin][f]
    BY <1>3, <2>1
  <2>4. QED
    BY <2>1, <2>2, <2>3 DEF Unseen
<1>4. CASE history[commitHash][f] = history[origin][f]
  BY <1>1, <1>2, <1>4, ChunkKept
<1>5. CASE history[commitHash][f] # history[origin][f]
  BY <1>1, <1>3, <1>5
<1>6. QED
  BY <1>4, <1>5

\* An uploaded chunk is that of the commit on disk.
LEMMA ChunksUploaded ==
  ASSUME UInv, NEW u \in Callers, update[u].pc = "chunks", NEW f \in Files
  PROVE  /\ OnDisk[f] = history[origin][f]
         /\ Uploaded(u)[f] \in {chunk[f], OnDisk[f]}
         /\ \/ OnDisk[f] = Absent \/ Uploaded(u)[f] = OnDisk[f]
            \/ /\ Uploaded(u)[f] = chunk[f]
               /\ update[u].start = 0 \/ ChangedBack(f, origin) \/ Unseen(f, origin)
<1>1. AtStep(u) /\ update[u] \in Update
  BY DEF UInv, TypeOK, UpdateOK
<1>2. OnDisk = history[origin] /\ update[u].end = origin
  BY <1>1, DiskIsCommit DEF AtStep
<1>3. Uploaded(u)[f] = IF OnDisk[f] # Absent /\ (chunk[f] = Absent \/ f \in ChangedFiles(u))
                         THEN OnDisk[f] ELSE chunk[f]
  BY DEF Uploaded
<1>4. ASSUME OnDisk[f] # Absent, Uploaded(u)[f] # OnDisk[f], update[u].start # 0
      PROVE  ChangedBack(f, origin) \/ Unseen(f, origin)
  <2>1. update[u].start \in Recorded
    BY <1>4 DEF Recorded
  <2>2. history[update[u].start][f] = history[origin][f] /\ chunk[f] # history[origin][f]
    BY <1>2, <1>3, <1>4 DEF ChangedFiles
  <2>3. QED
    BY <2>1, <2>2, ChunkKept
<1>5. QED
  BY <1>2, <1>3, <1>4

LEMMA UpdateChunksStep ==
  ASSUME UInv, NEW u \in Callers, UpdateChunks(u)
  PROVE  UInv'
<1>1. update[u] \in Update /\ AtStep(u) /\ update[u].pc = "chunks" /\ update[u].pc \in Touching
  BY DEF UInv, TypeOK, UpdateOK, UpdateChunks, At, Touching
<1>2. /\ UNCHANGED <<session, history, origin, disk, commitHash, database, jobVars>>
      /\ {"record", "release"} \subseteq Steps
      /\ unseen \subseteq unseen'
  BY DEF UpdateChunks, Steps
<1>3. /\ disk.edit = NoEdit /\ disk.head = origin /\ SavedOK(u)
      /\ OnDisk = history[origin] /\ OnDisk \in Course
      /\ origin \in 1..Len(history) /\ commitHash \in 1..origin /\ chunk \in Course
  BY <1>1, DiskIsCommit, Ranges DEF UInv, CloneOK, TypeOK, AtStep
<1>4. /\ update' \in [Callers -> Update] /\ \A v \in Callers \ {u} : update'[v] = update[v]
      /\ failures' \in 0..MaxFailures
      /\ \/ /\ chunk' = [f \in Files |-> IF OnDisk[f] = Absent THEN Absent ELSE Uploaded(u)[f]]
            /\ update'[u] = [update[u] EXCEPT !.pc = "record"]
            /\ update[u].start = 0 => <<commitHash, origin>> \in unseen'
         \/ /\ chunk' \in {chunk, Uploaded(u)}
            /\ update'[u] = [update[u] EXCEPT !.pc = "release", !.ok = FALSE]
  <2>1. update[u].end = origin
    BY <1>1 DEF AtStep
  <2>2. QED
    BY <1>2, <2>1, GoesTo, GivesUp, FailureCounted DEF UInv, UpdateChunks
<1>14. unseen' \subseteq (DOMAIN history) \X (DOMAIN history)
  <2>1. unseen \subseteq (DOMAIN history) \X (DOMAIN history) /\ update[u].end = origin
    BY <1>1 DEF UInv, TypeOK, AtStep
  <2>2. commitHash \in DOMAIN history /\ origin \in DOMAIN history
    BY DEF UInv, TypeOK
  <2>3. unseen' \in {unseen, unseen \cup {<<commitHash, origin>>}}
    BY <2>1 DEF UpdateChunks
  <2>4. QED
    BY <2>1, <2>2, <2>3
<1>5. update'[u].start = update[u].start
  BY <1>1, <1>4 DEF Update
<1>6. \A f \in Files : chunk'[f] = chunk[f] \/ chunk'[f] = history'[origin][f]
  BY <1>2, <1>4, ChunksUploaded, <1>1
<1>7. chunk' \in Course
  <2>1. chunk' = [f \in Files |-> chunk'[f]]
    BY <1>3, <1>4 DEF Course, Uploaded
  <2>2. \A f \in Files : chunk[f] \in Contents /\ history[origin][f] \in Contents
    BY <1>3 DEF Course
  <2>3. QED
    BY <1>2, <1>6, <2>1, <2>2 DEF Course
<1>8. AtStep(u)'
  <2>1. CASE update'[u] = [update[u] EXCEPT !.pc = "release", !.ok = FALSE]
    BY <1>1, <1>2, <2>1 DEF AtStep, Update, At, Touching
  <2>2. CASE /\ chunk' = [f \in Files |-> IF OnDisk[f] = Absent THEN Absent ELSE Uploaded(u)[f]]
             /\ update'[u] = [update[u] EXCEPT !.pc = "record"]
             /\ update[u].start = 0 => <<commitHash, origin>> \in unseen'
    <3>1. ASSUME NEW f \in Files, chunk'[f] # history'[origin'][f]
          PROVE  ChangedBack(f, origin)' \/ Unseen(f, origin)'
      <4>1. /\ chunk[f] # history[origin][f]
            /\ update[u].start = 0 \/ ChangedBack(f, origin) \/ Unseen(f, origin)
        BY <1>1, <1>2, <2>2, <3>1, ChunksUploaded
      <4>2. (ChangedBack(f, origin) => ChangedBack(f, origin)') /\ (Unseen(f, origin) => Unseen(f, origin)')
        BY <1>2 DEF ChangedBack, Unseen
      <4>3. CASE update[u].start = 0
        BY <1>2, <2>2, <4>1, <4>2, <4>3, ChunkCloned
      <4>4. QED
        BY <4>1, <4>2, <4>3
    <3>2. /\ update'[u].pc = "record" /\ update'[u].start = update[u].start
          /\ update'[u].end = update[u].end /\ SavedOK(u)'
      BY <1>1, <1>2, <1>3, <2>2 DEF Update, SavedOK
    <3>3. QED
      BY <1>1, <1>2, <1>3, <3>1, <3>2 DEF AtStep, At, Touching
  <2>3. QED
    BY <1>4, <2>1, <2>2
<1>9. TypeOK' /\ Grows
  BY <1>2, <1>4, <1>7, <1>14, Ranges DEF UInv, TypeOK, jobVars, Grows
<1>10. Recorded' \subseteq Recorded
  BY <1>2, <1>4, <1>5 DEF Recorded
<1>11. ChunksOK'
  <2>1. ASSUME NEW c \in Recorded, NEW f \in Files PROVE ChunkOK(f, c)'
    <3>1. c \in 1..commitHash /\ ChunkOK(f, c) /\ origin' \in c..origin'
      BY <1>2, <1>3, RecordedCommits DEF UInv, ChunksOK
    <3>2. QED
      BY <1>2, <1>6, <1>9, <3>1, ChunkStep
  <2>2. QED
    BY <1>10, <2>1 DEF ChunksOK
<1>12. OnlyPushedIsPublished'
  <2>1. \A f \in Files : chunk'[f] = Absent \/ \E i \in DOMAIN history' : chunk'[f] = history'[i][f]
    BY <1>2, <1>3, <1>6, Ranges DEF UInv, OnlyPushedIsPublished
  <2>2. QED
    BY <1>2, <2>1 DEF UInv, OnlyPushedIsPublished, Partial
<1>13. QED
  BY <1>1, <1>2, <1>3, <1>4, <1>7, <1>8, <1>11, <1>12, <1>14, InTheDatabase

LEMMA RecordStep ==
  ASSUME UInv, NEW u \in Callers, Record(u)
  PROVE  UInv' /\ database = history[commitHash']
<1>1. update[u] \in Update /\ AtStep(u) /\ update[u].pc = "record" /\ update[u].pc \in Touching
  BY DEF UInv, TypeOK, UpdateOK, Record, At, Touching
<1>2. /\ UNCHANGED <<session, history, origin, disk, database, chunk, jobVars, unseen, failures>>
      /\ "release" \in Steps /\ commitHash' = disk.head
      /\ unseen' \subseteq (DOMAIN history) \X (DOMAIN history)
  BY DEF Record, Steps, UInv, TypeOK
<1>3. /\ disk.head = origin /\ SavedOK(u) /\ update[u].end = origin /\ database = history[origin]
      /\ origin \in 1..Len(history) /\ commitHash \in 1..origin /\ chunk \in Course
      /\ failures \in 0..MaxFailures
  BY <1>1, Ranges DEF UInv, CloneOK, TypeOK, AtStep
<1>4. /\ update' \in [Callers -> Update] /\ \A v \in Callers \ {u} : update'[v] = update[v]
      /\ \/ update'[u] = [update[u] EXCEPT !.pc = "release"]
         \/ update'[u] = [update[u] EXCEPT !.pc = "release", !.ok = FALSE]
  BY <1>2, GoesTo, GivesUp DEF UInv, Record
<1>5. /\ update'[u].pc = "release" /\ update'[u].start = update[u].start
      /\ update'[u].end = origin /\ update'[u].saved = update[u].saved
      /\ update'[u].ok => update[u].ok
  BY <1>1, <1>3, <1>4 DEF Update
<1>6. AtStep(u)'
  <2>1. Reached(u)' \/ ~update'[u].ok
    BY <1>2, <1>3, <1>5 DEF Reached, SavedOK
  <2>2. update'[u].start <= commitHash'
    BY <1>1, <1>2, <1>3, <1>5 DEF AtStep, Update
  <2>3. QED
    BY <1>5, <2>1, <2>2 DEF AtStep, At, Touching
<1>7. TypeOK' /\ Grows
  BY <1>2, <1>3, <1>4, Ranges DEF UInv, TypeOK, jobVars, Grows
<1>8. Recorded' \subseteq Recorded \cup {origin}
  BY <1>2, <1>3, <1>4, <1>5 DEF Recorded
<1>9. ChunksOK'
  <2>1. ASSUME NEW c \in Recorded, NEW f \in Files PROVE ChunkOK(f, c)'
    BY <1>2, <1>7, ChunkStep, RecordedCommits DEF UInv, ChunksOK
  <2>2. ASSUME NEW c, c = origin, NEW f \in Files PROVE ChunkOK(f, c)'
    <3>1. chunk[f] = history[origin][f] \/ ChangedBack(f, origin) \/ Unseen(f, origin)
      BY <1>1 DEF AtStep, At
    <3>2. QED
      BY <1>2, <1>3, <2>2, <3>1 DEF ChunkOK, ChangedBack, Unseen
  <2>3. QED
    BY <1>8, <2>1, <2>2 DEF ChunksOK
<1>10. OnlyPushedIsPublished'
  BY <1>2 DEF UInv, OnlyPushedIsPublished, Partial
<1>11. QED
  BY <1>1, <1>2, <1>3, <1>4, <1>6, <1>9, <1>10, InTheDatabase

LEMMA ReleaseStep ==
  ASSUME UInv, NEW u \in Callers, Release(u)
  PROVE  UInv'
<1>1. update[u] \in Update /\ UpdateOK(u) /\ update[u].pc = "release" /\ update[u].pc \in Touching
  BY DEF UInv, TypeOK, Release, At, Touching
<1>2. /\ UNCHANGED <<courseVars, jobVars, unseen, failures>> /\ "end" \in Steps /\ TypeOK
      /\ GoTo(u, "end") /\ ReleaseLock(u)
  BY DEF UInv, Release, Steps
<1>3. /\ update' \in [Callers -> Update] /\ \A v \in Callers \ {u} : update'[v] = update[v]
      /\ update'[u] = [update[u] EXCEPT !.pc = "end"]
  BY <1>2, GoesTo
<1>4. session' \in [Callers -> Session] /\ \A v \in Callers \ {u} : session'[v] = session[v]
  BY <1>2 DEF TypeOK, ReleaseLock, NoSession, Session, Phases
<1>5. TypeOK'
  BY <1>2, <1>3, <1>4 DEF TypeOK, courseVars, jobVars
<1>6. CloneOK' /\ JobsOK' /\ Grows
  BY <1>2, Ranges DEF UInv, CloneOK, JobsOK, courseVars, jobVars, Grows
<1>7. \A v \in Callers \ {u} : Stays(v)
  BY <1>2, <1>3, <1>4 DEF Stays, jobVars
<1>8. UpdateOK(u)' /\ update'[u].start = update[u].start
  <2>1. /\ update'[u].pc = "end" /\ update'[u].start = update[u].start
        /\ update'[u].ok = update[u].ok /\ Reached(u)' = Reached(u)
        /\ job'[u] = job[u] /\ commitHash' = commitHash
    BY <1>1, <1>2, <1>3 DEF Update, Reached, courseVars, jobVars
  <2>2. QED
    BY <1>1, <2>1 DEF UpdateOK, AtStep, At, Touching
<1>9. QED
  BY <1>1, <1>2, <1>5, <1>6, <1>7, <1>8, OneMovesQuietly DEF courseVars

LEMMA EndStep ==
  ASSUME UInv, NEW u \in Callers, End(u)
  PROVE  UInv'
<1>1. update[u] \in Update /\ UpdateOK(u) /\ update[u].pc = "end"
  BY DEF UInv, TypeOK, End, At
<1>2. /\ UNCHANGED <<session, courseVars, unseen, failures, job, abandoned>> /\ "finish" \in Steps /\ TypeOK
      /\ GoTo(u, "finish") /\ liveJobs' \subseteq liveJobs
  BY DEF UInv, End, LeaveMemory, Steps
<1>3. /\ update' \in [Callers -> Update] /\ \A v \in Callers \ {u} : update'[v] = update[v]
      /\ update'[u] = [update[u] EXCEPT !.pc = "finish"]
  BY <1>2, GoesTo
<1>4. TypeOK'
  BY <1>2, <1>3 DEF TypeOK, courseVars
<1>5. CloneOK' /\ JobsOK' /\ Grows
  BY <1>2, Ranges DEF UInv, CloneOK, JobsOK, courseVars, Grows
<1>6. \A v \in Callers \ {u} : Stays(v)
  BY <1>2, <1>3 DEF Stays
<1>7. UpdateOK(u)' /\ update'[u].start = update[u].start /\ update'[u].pc \notin Touching
  <2>1. /\ update'[u].pc = "finish" /\ update'[u].start = update[u].start
        /\ update'[u].ok = update[u].ok /\ Reached(u)' = Reached(u)
        /\ job'[u] = job[u] /\ commitHash' = commitHash
    BY <1>1, <1>2, <1>3 DEF Update, Reached, courseVars
  <2>2. QED
    BY <1>1, <2>1 DEF UpdateOK, AtStep, At, Touching
<1>8. QED
  BY <1>2, <1>4, <1>5, <1>6, <1>7, OneMovesQuietly DEF courseVars

\* Rows of a job whose status is written at most once.
LEMMA Decisions ==
  ASSUME NEW r \in Job, r.sequence = r.status, NEW status \in {"Success", "Error"}
  PROVE  /\ Decided(r, status) \in Job
         /\ Decided(r, status).status = IF r.status = "Running" THEN status ELSE r.status
         /\ Decided(r, status).sequence = Decided(r, status).status
         /\ r.status # "Running" => Decided(r, status) = r
BY DEF Job, Statuses, Decided

LEMMA FinishStep ==
  ASSUME UInv, NEW u \in Callers, Finish(u)
  PROVE  UInv'
<1>1. update[u] \in Update /\ UpdateOK(u) /\ update[u].pc = "finish" /\ u \in Jobs
      /\ job[u] \in Job /\ job[u].sequence = job[u].status
  BY UpdatesAssumption DEF UInv, TypeOK, Finish, At, JobsOK
<1>2. /\ UNCHANGED <<session, courseVars, unseen>> /\ "done" \in Steps /\ TypeOK /\ GoTo(u, "done")
  BY DEF UInv, Finish, Steps
<1>3. /\ update' \in [Callers -> Update] /\ \A v \in Callers \ {u} : update'[v] = update[v]
      /\ update'[u] = [update[u] EXCEPT !.pc = "done"]
  BY <1>2, GoesTo
<1> DEFINE status == IF update[u].ok THEN "Success" ELSE "Error"
<1>4. /\ job' = [job EXCEPT ![u] = Decided(job[u], status)] \/ job' = job
      /\ Fails \/ failures' = failures
      /\ liveJobs' = liveJobs /\ abandoned' = abandoned
  BY DEF Finish, WriteEnd, jobVars
<1>5. /\ job' \in [Jobs -> Job] /\ \A j \in Jobs \ {u} : job'[j] = job[j]
      /\ job'[u].sequence = job'[u].status
      /\ job'[u].status = "Success" => update[u].ok
      /\ failures' \in 0..MaxFailures
  <2>1. status \in {"Success", "Error"}
    OBVIOUS
  <2>2. Decided(job[u], status) \in Job
        /\ Decided(job[u], status).sequence = Decided(job[u], status).status
        /\ Decided(job[u], status).status \in {job[u].status, status}
    BY <1>1, <2>1, Decisions
  <2>3. job \in [Jobs -> Job] /\ job[u].status # "Success"
    BY <1>1, <1>2 DEF TypeOK, UpdateOK, At
  <2>4. failures' \in 0..MaxFailures
    BY <1>2, <1>4, FailureCounted
  <2>5. job'[u] \in {Decided(job[u], status), job[u]}
    BY <1>1, <1>4, <2>3
  <2>6. job'[u].status = "Success" => update[u].ok
    BY <2>2, <2>3, <2>5
  <2>7. QED
    BY <1>1, <1>4, <2>2, <2>3, <2>4, <2>5, <2>6
<1>6. TypeOK'
  BY <1>2, <1>3, <1>4, <1>5 DEF TypeOK, courseVars
<1>7. CloneOK' /\ JobsOK' /\ Grows
  BY <1>1, <1>2, <1>5, Ranges DEF UInv, CloneOK, JobsOK, courseVars, Grows
<1>8. \A v \in Callers \ {u} : Stays(v)
  BY <1>2, <1>3, <1>5, UpdatesAssumption DEF Stays
<1>9. UpdateOK(u)' /\ update'[u].start = update[u].start /\ update'[u].pc \notin Touching
  <2>1. /\ update'[u].pc = "done" /\ update'[u].start = update[u].start
        /\ Reached(u)' = Reached(u) /\ commitHash' = commitHash
    BY <1>1, <1>2, <1>3 DEF Update, Reached, courseVars
  <2>2. QED
    BY <1>1, <1>5, <2>1 DEF UpdateOK, AtStep, At, Touching
<1>10. QED
  BY <1>2, <1>6, <1>7, <1>8, <1>9, OneMovesQuietly DEF courseVars

-----------------------------------------------------------------------------
(* The others. *)

\* No update moves.
LEMMA NobodyMoves ==
  ASSUME UInv, TypeOK', JobsOK', Grows, \A v \in Callers : Stays(v),
         UNCHANGED <<disk, origin, database, chunk, commitHash>>
  PROVE  UInv'
<1>1. \A v \in Callers : UpdateOK(v)'
  BY Untouched
<1>2. CloneOK' /\ OneUpdateAtATime'
  BY DEF UInv, CloneOK, OneUpdateAtATime, Stays
<1>3. \A v \in Callers : update'[v].start \in {update[v].start, commitHash, 0}
  BY DEF Stays
<1>4. OnlyPushedIsPublished' /\ ChunksOK'
  BY <1>3, NothingPublished
<1>5. QED
  BY <1>1, <1>2, <1>4 DEF UInv

LEMMA PushByOthersStep ==
  ASSUME UInv, PushByOthers
  PROVE  UInv'
<1>1. UNCHANGED <<session, origin, disk, commitHash, database, chunk, update, jobVars, unseen, failures>>
      /\ Len(history) < MaxCommits
  BY DEF PushByOthers
<1>2. PICK c \in Course : history' = Append(history, c)
  <2>1. PICK f \in Files, v \in Contents :
          history' = Append(history, [history[Len(history)] EXCEPT ![f] = v])
    BY DEF PushByOthers
  <2>2. history[Len(history)] \in Course
    BY Ranges DEF UInv
  <2>3. [history[Len(history)] EXCEPT ![f] = v] \in Course
    BY <2>2 DEF Course
  <2>4. QED
    BY <2>1, <2>3
<1>3. /\ history' \in Seq(Course) /\ Len(history') = Len(history) + 1
      /\ \A i \in 1..Len(history) : history'[i] = history[i]
  <2>1. history \in Seq(Course)
    BY DEF UInv, TypeOK
  <2>2. QED
    BY <1>2, <2>1, AppendProperties
<1>4. Len(history) \in Nat /\ 1 <= Len(history) /\ DOMAIN history' = 1..Len(history')
  BY <1>3, Ranges DEF UInv
<1>5. TypeOK'
  BY <1>1, <1>3, <1>4, Ranges DEF UInv, TypeOK, jobVars
<1>6. JobsOK' /\ Grows /\ \A v \in Callers : Stays(v)
  BY <1>1, <1>3, <1>4, Ranges DEF UInv, JobsOK, jobVars, Grows, Stays
<1>7. QED
  BY <1>1, <1>5, <1>6, NobodyMoves

LEMMA LoseDirectoryStep ==
  ASSUME UInv, LoseDirectory
  PROVE  UInv'
<1>1. /\ UNCHANGED <<session, history, origin, commitHash, database, chunk, update, jobVars, unseen>>
      /\ disk' = [head |-> 0, edit |-> NoEdit] /\ IsFree(Lock) /\ Fails
  BY DEF LoseDirectory, NoDirectory
<1>2. \A v \in Callers : update[v].pc \notin Touching
  BY <1>1 DEF UInv, UpdateOK, IsFree
<1>3. TypeOK'
  <2>1. failures' \in 0..MaxFailures /\ disk'.head \in 0..Len(history)
    BY <1>1, FailureCounted, Ranges DEF UInv
  <2>2. QED
    BY <1>1, <2>1 DEF UInv, TypeOK, jobVars
<1>4. CloneOK' /\ JobsOK' /\ Grows
  BY <1>1, Ranges DEF UInv, CloneOK, JobsOK, jobVars, Grows
<1>5. \A v \in Callers : Stays(v)
  BY <1>1 DEF Stays, jobVars
<1>6. \A v \in Callers : UpdateOK(v)'
  BY <1>2, <1>3, <1>4, <1>5, Untouched
<1>7. OneUpdateAtATime'
  BY <1>1, <1>2 DEF OneUpdateAtATime
<1>8. OnlyPushedIsPublished' /\ ChunksOK'
  BY <1>1, <1>3, <1>4, NothingPublished
<1>9. QED
  BY <1>3, <1>4, <1>6, <1>7, <1>8 DEF UInv

\* Steps of the heartbeats, the cron job and the clock.
LEMMA JobsMove ==
  ASSUME UInv, Others, job' \in [Jobs -> Job], liveJobs' \subseteq Jobs, abandoned' \subseteq Jobs,
         JobsOK', \A j \in Jobs : job'[j].status = "Success" => job[j].status = "Success"
  PROVE  UInv'
<1>1. TypeOK'
  BY DEF UInv, TypeOK, Others, courseVars
<1>2. Grows /\ UNCHANGED <<disk, origin, database, chunk, commitHash>>
  BY Ranges DEF UInv, Others, courseVars, Grows
<1>3. \A v \in Callers : Stays(v)
  BY UpdatesAssumption DEF Others, Stays
<1>4. QED
  BY <1>1, <1>2, <1>3, NobodyMoves

LEMMA HeartbeatsStep ==
  ASSUME UInv, NEW s \in Servers, Heartbeats(s)
  PROVE  UInv'
<1>1. /\ Others /\ liveJobs' = liveJobs /\ abandoned' = abandoned
      /\ job' = [j \in Jobs |-> IF j \in liveJobs \cap On(s) THEN [job[j] EXCEPT !.age = 0] ELSE job[j]]
  BY DEF Heartbeats, Heartbeat
<1>2. ASSUME NEW j \in Jobs
      PROVE  job'[j] \in Job /\ job'[j].status = job[j].status /\ job'[j].sequence = job[j].sequence
  <2>1. job[j] \in Job
    BY DEF UInv, TypeOK
  <2>2. QED
    BY <1>1, <2>1, JobsAssumption DEF Job
<1>3. job' \in [Jobs -> Job]
  BY <1>1, <1>2
<1>4. QED
  BY <1>1, <1>2, <1>3, JobsMove DEF UInv, TypeOK, JobsOK

LEMMA AbandonStep ==
  ASSUME UInv, Abandon
  PROVE  UInv'
<1>1. Others /\ UNCHANGED <<job, liveJobs>> /\ abandoned' \subseteq Jobs
  BY DEF Abandon, SelectAbandoned
<1>2. QED
  BY <1>1, JobsMove DEF UInv, TypeOK, JobsOK

LEMMA FailJobStep ==
  ASSUME UInv, NEW j \in Jobs, FailJob(j)
  PROVE  UInv'
<1>1. /\ Others /\ liveJobs' = liveJobs /\ abandoned' \subseteq abandoned
      /\ job' = [job EXCEPT ![j] = IF job[j].status = "Running"
                   THEN [job[j] EXCEPT !.status = "Error", !.sequence = "Error"] ELSE job[j]]
  BY DEF FailJob, ErrorAbandoned
<1>2. job[j] \in Job /\ job \in [Jobs -> Job] /\ job[j].sequence = job[j].status
  BY DEF UInv, TypeOK, JobsOK
<1>3. [job[j] EXCEPT !.status = "Error", !.sequence = "Error"] \in Job
  BY <1>2 DEF Job, Statuses
<1>4. job' \in [Jobs -> Job] /\ \A i \in Jobs \ {j} : job'[i] = job[i]
  BY <1>1, <1>2, <1>3
<1>5. job'[j].status \in {job[j].status, "Error"} /\ job'[j].sequence = job'[j].status
  BY <1>1, <1>2 DEF Job
<1>6. QED
  BY <1>1, <1>4, <1>5, JobsMove DEF UInv, TypeOK, JobsOK

LEMMA TimePassesStep ==
  ASSUME UInv, TimePasses
  PROVE  UInv'
<1>1. /\ Others /\ liveJobs' = liveJobs /\ abandoned' = abandoned
      /\ job' = [j \in Jobs |-> IF job[j].status = "Running" /\ job[j].age < AbandonedAge
                   THEN [job[j] EXCEPT !.age = job[j].age + 1] ELSE job[j]]
  BY DEF TimePasses, Tick
<1>2. ASSUME NEW j \in Jobs
      PROVE  job'[j] \in Job /\ job'[j].status = job[j].status /\ job'[j].sequence = job[j].sequence
  <2>1. job[j] \in Job
    BY DEF UInv, TypeOK
  <2>2. QED
    BY <1>1, <2>1, JobsAssumption DEF Job
<1>3. job' \in [Jobs -> Job]
  BY <1>1, <1>2
<1>4. QED
  BY <1>1, <1>2, <1>3, JobsMove DEF UInv, TypeOK, JobsOK

LEMMA CrashStep ==
  ASSUME UInv, NEW s \in Servers, Crash(s)
  PROVE  UInv'
<1> DEFINE Gone == {u \in On(s) : update[u].pc \notin {"new", "done"}}
<1> DEFINE dead == [NewUpdate EXCEPT !.pc = "done"]
<1>1. /\ UNCHANGED <<courseVars, unseen>> /\ TypeOK /\ Fails
      /\ update' = [u \in Callers |-> IF u \in Gone THEN dead ELSE update[u]]
      /\ session' = [u \in Callers |-> IF ServerOf[u] = s THEN NoSession ELSE session[u]]
      /\ UNCHANGED <<job, abandoned>> /\ liveJobs' \subseteq liveJobs
  BY DEF UInv, Crash, DropLocks, ForgetJobs
<1>2. dead \in Update /\ dead.pc = "done" /\ dead.start = 0 /\ NoSession \in Session
  BY DEF Update, NewUpdate, Steps, NoSession, Session, Phases
<1>3. update' \in [Callers -> Update] /\ session' \in [Callers -> Session] /\ failures' \in 0..MaxFailures
  BY <1>1, <1>2, FailureCounted DEF TypeOK
<1>4. TypeOK'
  BY <1>1, <1>3 DEF TypeOK, courseVars
<1>5. Grows /\ CloneOK' /\ JobsOK' /\ UNCHANGED <<disk, origin, database, chunk, commitHash>>
  BY <1>1, Ranges DEF UInv, CloneOK, JobsOK, courseVars, Grows
<1>6. ASSUME NEW v \in Callers \ Gone
      PROVE  Stays(v)
  <2>1. update'[v] = update[v] /\ job'[v] = job[v]
    BY <1>1
  <2>2. update[v].pc \in Touching => session'[v] = session[v]
    BY <1>1 DEF Touching, On
  <2>3. QED
    BY <2>1, <2>2 DEF Stays
<1>7. ASSUME NEW v \in Callers, v \in Gone
      PROVE  UpdateOK(v)' /\ update'[v].pc = "done" /\ update'[v].start = 0
  <2>1. update'[v] = dead
    BY <1>1, <1>7
  <2>2. update'[v].pc = "done" /\ update'[v].start = 0 /\ 0 <= commitHash'
    BY <1>2, <1>4, <2>1, RangesAfter
  <2>3. job'[v].status # "Success"
    BY <1>1, <1>7 DEF UInv, UpdateOK, At
  <2>4. QED
    BY <2>2, <2>3 DEF UpdateOK, AtStep, At, Touching
<1>8. \A v \in Callers : UpdateOK(v)'
  BY <1>4, <1>5, <1>6, <1>7, Untouched
<1>9. OneUpdateAtATime'
  BY <1>6, <1>7 DEF UInv, OneUpdateAtATime, Stays, Touching
<1>10. \A v \in Callers : update'[v].start \in {update[v].start, commitHash, 0}
  BY <1>6, <1>7 DEF Stays
<1>11. OnlyPushedIsPublished' /\ ChunksOK'
  BY <1>4, <1>5, <1>10, NothingPublished
<1>12. QED
  BY <1>4, <1>5, <1>8, <1>9, <1>11 DEF UInv

-----------------------------------------------------------------------------
(* The theorems. *)

LEMMA InitUInv ==
  ASSUME Init
  PROVE  UInv
<1>1. /\ history = <<First>> /\ database = First /\ chunk = First /\ First \in Course
      /\ origin = 1 /\ commitHash = 1 /\ unseen = {} /\ failures = 0
      /\ disk = [head |-> 1, edit |-> NoEdit]
      /\ Len(history) = 1 /\ history \in Seq(Course) /\ DOMAIN history = 1..1 /\ history[1] = First
  BY UpdatesAssumption DEF Init
<1>2. session \in [Callers -> Session]
  BY DEF Init, LocksInit, NoSession, Session, Phases
<1>3. NewUpdate \in Update /\ NewUpdate.pc = "new" /\ NewUpdate.start = 0
  BY DEF NewUpdate, Update, Steps
<1>4. update \in [Callers -> Update] /\ \A u \in Callers : update[u] = NewUpdate
  BY <1>3 DEF Init
<1>5. [status |-> "none", sequence |-> "none", age |-> 0] \in Job
  BY JobsAssumption DEF Job, Statuses
<1>6. /\ job \in [Jobs -> Job] /\ liveJobs = {} /\ abandoned = {}
      /\ \A j \in Jobs : job[j].status = "none" /\ job[j].sequence = "none"
  BY <1>5 DEF Init, JobsInit
<1>7. TypeOK
  BY <1>1, <1>2, <1>4, <1>6, UpdatesAssumption DEF TypeOK
<1>8. CloneOK /\ JobsOK /\ OneUpdateAtATime
  BY <1>1, <1>3, <1>4, <1>6 DEF CloneOK, JobsOK, OneUpdateAtATime, Touching
<1>9. ASSUME NEW u \in Callers
      PROVE  UpdateOK(u)
  <2>1. update[u].pc = "new" /\ update[u].start = 0 /\ job[u].status # "Success"
    BY <1>3, <1>4, <1>6, UpdatesAssumption
  <2>2. QED
    BY <1>1, <2>1 DEF UpdateOK, AtStep, At, Touching
<1>10. OnlyPushedIsPublished
  BY <1>1 DEF OnlyPushedIsPublished
<1>11. ChunksOK
  <2>1. Recorded = {1}
    BY <1>1, <1>3, <1>4 DEF Recorded
  <2>2. \A f \in Files : ChunkOK(f, 1)
    BY <1>1 DEF ChunkOK
  <2>3. QED
    BY <2>1, <2>2 DEF ChunksOK
<1>12. QED
  BY <1>7, <1>8, <1>9, <1>10, <1>11 DEF UInv

LEMMA NextUInv ==
  ASSUME UInv, [Next]_vars
  PROVE  UInv'
<1>1. CASE Next
  <2>1. ASSUME NEW u \in Callers, Begin(u) \/ UpdateStep(u) PROVE UInv'
    BY <2>1, BeginStep, TakeLockStep, FetchStep, CloneStep, WriteStep, PushStep, ResetStep, SyncStep,
       UpdateChunksStep, RecordStep, ReleaseStep, EndStep, FinishStep DEF UpdateStep
  <2>2. ASSUME NEW s \in Servers, Crash(s) \/ Heartbeats(s) PROVE UInv'
    BY <2>2, CrashStep, HeartbeatsStep
  <2>3. ASSUME NEW j \in Jobs, FailJob(j) PROVE UInv'
    BY <2>3, FailJobStep
  <2>4. ASSUME PushByOthers \/ LoseDirectory \/ Abandon \/ TimePasses PROVE UInv'
    BY <2>4, PushByOthersStep, LoseDirectoryStep, AbandonStep, TimePassesStep
  <2>5. QED
    BY <1>1, <2>1, <2>2, <2>3, <2>4 DEF Next
<1>2. CASE UNCHANGED vars
  <2>1. TypeOK' /\ JobsOK'
    BY <1>2 DEF UInv, TypeOK, JobsOK, vars, courseVars, jobVars
  <2>2. Grows /\ UNCHANGED <<disk, origin, database, chunk, commitHash>>
    BY <1>2, Ranges DEF UInv, vars, courseVars, Grows
  <2>3. \A v \in Callers : Stays(v)
    BY <1>2 DEF vars, jobVars, Stays
  <2>4. QED
    BY <2>1, <2>2, <2>3, NobodyMoves
<1>3. QED
  BY <1>1, <1>2

\* What every update finds at each of its steps is inductive.
THEOREM UpdatesInvariant == Spec => []UInv
<1>1. Init => UInv
  BY InitUInv
<1>2. UInv /\ [Next]_vars => UInv'
  BY NextUInv
<1>3. QED
  BY <1>1, <1>2, PTL DEF Spec

\* The variables have their types.
THEOREM UpdatesTypeCorrect == Spec => []TypeOK
BY UpdatesInvariant, PTL DEF UInv

\* The lock of the course: two updates never work on its clone, the database
\* or its chunks at once.
THEOREM UpdatesExclude == Spec => []OneUpdateAtATime
BY UpdatesInvariant, PTL DEF UInv

\* An edit that was not pushed is never synchronized, nor put in a chunk.
THEOREM PushedBeforePublished == Spec => []OnlyPushedIsPublished
BY UpdatesInvariant, PTL DEF UInv

\* The chunks an update leaves behind are those of the commit it records, but
\* for directories that were changed back or whose last change came with a clone.
THEOREM ChunksFollowCommits == Spec => []ChunksMatch
<1>1. ASSUME UInv, NEW u \in Callers, At(u, "record"), NEW f \in Files,
             chunk[f] # history[update[u].end][f]
      PROVE  ChangedBack(f, update[u].end) \/ Unseen(f, update[u].end)
  <2>1. AtStep(u) /\ update[u].end = origin
    BY <1>1 DEF UInv, UpdateOK, AtStep, At
  <2>2. ChangedBack(f, origin) \/ Unseen(f, origin)
    BY <1>1, <2>1 DEF AtStep
  <2>3. QED
    BY <2>1, <2>2
<1>2. UInv => ChunksMatch
  BY <1>1 DEF ChunksMatch
<1>3. QED
  BY <1>2, UpdatesInvariant, PTL

\* A job that ended with Success has recorded the commit it reached, and an
\* edit is in it.
THEOREM SuccessIsTrue == Spec => []SuccessIsPublished
<1>1. ASSUME UInv, NEW u \in Callers, job[u].status = "Success"
      PROVE  /\ update[u].end # 0 /\ commitHash >= update[u].end
             /\ u \in Edits => update[u].saved \in 1..update[u].end
  <2>1. Reached(u) /\ update[u] \in Update
    BY <1>1 DEF UInv, UpdateOK, TypeOK
  <2>2. update[u].end \in Nat /\ commitHash \in Nat
    BY <1>1, <2>1, Ranges DEF UInv, Update
  <2>3. QED
    BY <2>1, <2>2 DEF Reached
<1>2. UInv => SuccessIsPublished
  BY <1>1 DEF SuccessIsPublished
<1>3. QED
  BY <1>2, UpdatesInvariant, PTL

\* commit_hash moves only to the commit that the database holds.
THEOREM RecordsWhatIsSynced == Spec => RecordedIsSynced
<1>1. ASSUME UInv, [Next]_vars, commitHash' # commitHash
      PROVE  database = history[commitHash']
  <2>1. ASSUME NEW u \in Callers, Begin(u) \/ UpdateStep(u) PROVE Record(u)
    BY <1>1, <2>1 DEF UpdateStep, Begin, TakeLock, Fetch, Clone, Write, Push, Reset, Sync, UpdateChunks,
       Release, End, Finish, courseVars
  <2>2. ASSUME NEW s \in Servers, Crash(s) \/ Heartbeats(s) PROVE FALSE
    BY <1>1, <2>2 DEF Crash, Heartbeats, Others, courseVars
  <2>3. ASSUME NEW j \in Jobs, FailJob(j) PROVE FALSE
    BY <1>1, <2>3 DEF FailJob, Others, courseVars
  <2>4. ASSUME PushByOthers \/ LoseDirectory \/ Abandon \/ TimePasses PROVE FALSE
    BY <1>1, <2>4 DEF PushByOthers, LoseDirectory, Abandon, TimePasses, Others, courseVars
  <2>5. PICK u \in Callers : Record(u)
    BY <1>1, <2>1, <2>2, <2>3, <2>4 DEF Next, vars, courseVars
  <2>6. QED
    BY <1>1, <2>5, RecordStep
<1>2. UInv /\ [Next]_vars => [commitHash' # commitHash => database = history[commitHash']]_vars
  BY <1>1
<1>3. QED
  BY <1>2, UpdatesInvariant, PTL DEF Spec, RecordedIsSynced

\* The end of a job is written once, by its server or by the cron job.
THEOREM EndsAreFinal == Spec => StatusIsFinal
<1>1. ASSUME UInv, [Next]_vars, NEW j \in Jobs, job[j].status \in {"Success", "Error"}
      PROVE  job'[j].status = job[j].status /\ job'[j].sequence = job[j].status
  <2>1. job[j] \in Job /\ job[j].sequence = job[j].status /\ job \in [Jobs -> Job]
    <3>1. job \in [Jobs -> Job]
      BY <1>1 DEF UInv, TypeOK
    <3>2. JobsOK
      BY <1>1 DEF UInv
    <3>3. QED
      BY <3>1, <3>2 DEF JobsOK
  <2>2. CASE job' = job
    BY <2>1, <2>2
  <2>3. ASSUME NEW u \in Callers, Begin(u) PROVE job'[j] = job[j]
    BY <1>1, <2>1, <2>3 DEF Begin, CreateServerJob
  <2>4. ASSUME NEW u \in Callers, Finish(u) PROVE job'[j] = job[j]
    <3>1. job' = job \/ \E status \in {"Success", "Error"} : job' = [job EXCEPT ![u] = Decided(job[u], status)]
      BY <2>4 DEF Finish, WriteEnd, jobVars
    <3>2. \A status \in {"Success", "Error"} : Decided(job[j], status) = job[j]
      BY <1>1, <2>1, Decisions
    <3>3. QED
      BY <2>1, <3>1, <3>2
  <2>5. ASSUME NEW i \in Jobs, FailJob(i) PROVE job'[j] = job[j]
    BY <1>1, <2>1, <2>5 DEF FailJob, ErrorAbandoned
  <2>6. ASSUME NEW s \in Servers, Heartbeats(s)
        PROVE  job'[j].status = job[j].status /\ job'[j].sequence = job[j].sequence
    BY <2>1, <2>6 DEF Heartbeats, Heartbeat, Job
  <2>7. ASSUME TimePasses
        PROVE  job'[j].status = job[j].status /\ job'[j].sequence = job[j].sequence
    BY <1>1, <2>1, <2>7 DEF TimePasses, Tick
  <2>8. CASE \E u \in Callers : UpdateStep(u) /\ ~Finish(u)
    BY <2>2, <2>8 DEF UpdateStep, TakeLock, Fetch, Clone, Write, Push, Reset, Sync, UpdateChunks,
       Record, Release, End, LeaveMemory, jobVars
  <2>9. CASE (\E s \in Servers : Crash(s)) \/ PushByOthers \/ LoseDirectory \/ Abandon \/ UNCHANGED vars
    BY <2>2, <2>9 DEF Crash, ForgetJobs, PushByOthers, LoseDirectory, Abandon, SelectAbandoned, vars, jobVars
  <2>10. ASSUME NEW u \in Callers, Begin(u) \/ UpdateStep(u)
         PROVE  job'[j].status = job[j].status /\ job'[j].sequence = job[j].sequence
    BY <2>1, <2>3, <2>4, <2>8, <2>10
  <2>11. QED
    BY <1>1, <2>1, <2>5, <2>6, <2>7, <2>9, <2>10 DEF Next
<1>2. UInv /\ [Next]_vars =>
        [\A j \in Jobs : job[j].status \in {"Success", "Error"} =>
           job'[j].status = job[j].status /\ job'[j].sequence = job[j].status]_vars
  BY <1>1
<1>3. QED
  BY <1>2, UpdatesInvariant, PTL DEF Spec, StatusIsFinal

=============================================================================
