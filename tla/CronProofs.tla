----------------------------- MODULE CronProofs -----------------------------
(***************************************************************************)
(* For every number of servers, intervals and jobs: two servers are in the *)
(* same job only after a lock connection broke, every connection that      *)
(* broke lets at most one run begin too early, and a job that runs is not  *)
(* shown as finished.                                                      *)
(***************************************************************************)
EXTENDS Cron, FiniteSetTheorems, TLAPS

\* The steps that the lock of the job protects.
Locked == {"check", "update", "run", "succeed", "release"}

\* A loop that has a job has its lock, or had it.
LoopOK(c) ==
  /\ pc[c] \in {"idle", "next"} => session[c].phase = "none"
  /\ pc[c] \notin {"idle", "next"} => /\ place[c] \in 1..Len(ListOf(c))
                                      /\ session[c].name = JobOf(c)
  /\ pc[c] = "lock" => session[c].phase = "asking"
  /\ pc[c] \in Locked => session[c].phase \in {"held", "lost"}
  /\ timeout[c] \in {"timer", "none"} => pc[c] = "idle"
  /\ process[c[1]] = "down" => timeout[c] = "none"

Exclusive ==
  \A c, d \in Callers :
    session[c].phase = "held" /\ session[d].phase = "held" /\ session[c].name = session[d].name
      => c = d

LossCounted == \A c \in Callers : session[c].phase = "lost" => lost > 0

LInv == TypeOK /\ (\A c \in Callers : LoopOK(c)) /\ Exclusive /\ LossCounted

\* The runs that may begin too early: of a loop that has lost its lock, or of
\* one that holds it but whose job a loop without the lock has run meanwhile.
IsOwed(c) ==
  \/ session[c].phase = "lost" /\ pc[c] \in {"check", "update"}
  \/ session[c].phase = "held" /\ pc[c] = "update" /\ IsRecent(JobOf(c), c[2])

Owed == {c \in Callers : IsOwed(c)}

EarlyPaid == early + Cardinality(Owed) <= lost

CInv == LInv /\ EarlyPaid /\ FinishedMeansIdle

\* A step of one loop.
OthersStay(c) ==
  /\ \A s \in Servers : process'[s] = "down" => process[s] = "down"
  /\ \A d \in Callers \ {c} : /\ pc'[d] = pc[d] /\ place'[d] = place[d]
                              /\ session'[d] = session[d] /\ timeout'[d] = timeout[d]

-----------------------------------------------------------------------------
(* Constants. *)

LEMMA Loops ==
  ASSUME NEW c \in Callers
  PROVE  /\ c[1] \in Servers /\ c[2] \in Groups /\ ServerOf[c] = c[1]
         /\ ListOf(c) \in Seq(Jobs) /\ Len(ListOf(c)) \in Nat
         /\ \A n \in 1..Len(ListOf(c)) : ListOf(c)[n] \in Jobs
         /\ Interval[c[2]] \in Nat /\ Interval[c[2]] <= MaxAge /\ Wait[c[2]] \in Nat
         /\ MaxAge \in Nat /\ MaxDeaths \in Nat
BY CronAssumption DEF ListOf, Jobs

LEMMA JobTyped ==
  ASSUME NEW c \in Callers, LoopOK(c), pc[c] \notin {"idle", "next"}
  PROVE  JobOf(c) \in Jobs
BY Loops DEF LoopOK, JobOf

\* Loops that run the same job are of the same group.
LEMMA SameGroup ==
  ASSUME NEW c \in Callers, NEW d \in Callers,
         place[c] \in 1..Len(ListOf(c)), place[d] \in 1..Len(ListOf(d)), JobOf(c) = JobOf(d)
  PROVE  c[2] = d[2]
<1>1. c[2] \in Groups /\ d[2] \in Groups /\ JobsOf[c[2]] \in Seq(Jobs) /\ JobsOf[d[2]] \in Seq(Jobs)
  BY Loops DEF ListOf
<1>2. place[c] \in DOMAIN JobsOf[c[2]] /\ place[d] \in DOMAIN JobsOf[d[2]]
  BY <1>1 DEF ListOf
<1>3. QED
  BY <1>1, <1>2, CronAssumption DEF JobOf, ListOf

LEMMA OwedFinite == IsFiniteSet(Owed) /\ Cardinality(Owed) \in Nat
BY LocksAssumption, FS_Subset, FS_CardinalityType DEF Owed

LEMMA OwedFinitePrime == IsFiniteSet(Owed') /\ Cardinality(Owed') \in Nat
BY LocksAssumption, FS_Subset, FS_CardinalityType DEF Owed
-----------------------------------------------------------------------------
(* Locks: the type invariant, the loops and the locks they hold. *)

\* What every step leaves well typed besides the loops.
OthersTyped ==
  /\ process' \in [Servers -> {"up", "dying", "down"}]
  /\ timeout' \in [Callers -> {"timer", "running", "stop", "none"}]
  /\ wait' \in [Callers -> Nat]
  /\ age' \in [Jobs -> 0..MaxAge]
  /\ unfinished' \subseteq Jobs
  /\ lost' \in Nat /\ early' \in Nat /\ deaths' \in 0..MaxDeaths

\* One loop moves; a lock it takes is free, and it loses none.
LEMMA Moves ==
  ASSUME LInv, OthersTyped, NEW c \in Callers, OthersStay(c), lost' = lost,
         pc' \in [Callers -> Steps], place' \in [Callers -> Nat \ {0}],
         session' \in [Callers -> Session], LoopOK(c)',
         session'[c].phase = "held" =>
           session'[c] = session[c] \/ \A d \in Callers : ~Holds(d, session'[c].name),
         session'[c].phase = "lost" => session[c].phase = "lost"
  PROVE  LInv'
<1>1. TypeOK'
  BY DEF OthersTyped, TypeOK
<1>2. ASSUME NEW d \in Callers, d # c PROVE LoopOK(d)'
  <2>1. LoopOK(d) /\ d[1] \in Servers
    BY Loops DEF LInv
  <2>2. /\ pc'[d] = pc[d] /\ place'[d] = place[d] /\ session'[d] = session[d]
        /\ timeout'[d] = timeout[d] /\ (process'[d[1]] = "down" => process[d[1]] = "down")
    BY <1>2, <2>1 DEF OthersStay
  <2>3. JobOf(d)' = JobOf(d)
    BY <2>2 DEF JobOf, ListOf
  <2>4. QED
    BY <2>1, <2>2, <2>3 DEF LoopOK, ListOf
<1>3. ASSUME NEW d \in Callers, NEW e \in Callers, d # e,
             session'[d].phase = "held", session'[e].phase = "held",
             session'[d].name = session'[e].name
      PROVE  FALSE
  <2>1. \A f \in Callers : session[f] \in Session
    BY DEF LInv, TypeOK
  <2>2. \A f \in Callers, n \in LockNames \cup {NoName} :
          Holds(f, n) <=> session[f].phase = "held" /\ session[f].name = n
    BY <2>1 DEF Holds, Session
  <2>3. session'[c] \in Session /\ session'[c].name \in LockNames \cup {NoName}
    BY DEF Session
  <2>4. QED
    BY <1>3, <2>2, <2>3 DEF LInv, Exclusive, OthersStay
<1>4. LossCounted'
  BY DEF LInv, LossCounted, OthersStay
<1>5. QED
  BY <1>1, <1>2, <1>3, <1>4 DEF LInv, Exclusive

\* No loop moves, or all those of a server end.
LEMMA Ended ==
  ASSUME LInv, NEW s \in Servers, Ends(s), deaths' \in 0..MaxDeaths
  PROVE  LInv'
<1>1. \A c \in Callers :
        IF c[1] = s
          THEN pc'[c] = "idle" /\ session'[c] = NoSession /\ timeout'[c] = "none"
          ELSE /\ pc'[c] = pc[c] /\ place'[c] = place[c] /\ session'[c] = session[c]
               /\ timeout'[c] = timeout[c] /\ process'[c[1]] = process[c[1]]
  BY Loops DEF Ends, DropLocks, LInv, TypeOK
<1>2. TypeOK'
  BY DEF LInv, TypeOK, Ends, DropLocks, NoSession, Session, Phases, Steps
<1>3. ASSUME NEW c \in Callers PROVE LoopOK(c)'
  BY <1>1 DEF LInv, LoopOK, JobOf, ListOf, NoSession, Locked
<1>4. Exclusive' /\ LossCounted'
  BY <1>1 DEF LInv, Exclusive, LossCounted, NoSession, Ends
<1>5. QED
  BY <1>2, <1>3, <1>4 DEF LInv

LEMMA LocksInit_ == Init => LInv
<1>1. SUFFICES ASSUME Init PROVE LInv
  OBVIOUS
<1>2. \A c \in Callers : Wait[c[2]] \in Nat /\ MaxAge \in Nat /\ MaxDeaths \in Nat
  BY Loops
<1>3. MaxAge \in Nat /\ MaxDeaths \in Nat
  BY CronAssumption
<1>4. TypeOK
  BY <1>1, <1>2, <1>3 DEF Init, TypeOK, LocksInit, Session, NoSession, Phases, Steps
<1>5. \A c \in Callers : session[c].phase = "none" /\ pc[c] = "idle" /\ process[c[1]] = "up"
  BY <1>1, Loops DEF Init, LocksInit, NoSession
<1>6. QED
  BY <1>4, <1>5 DEF LInv, LoopOK, Exclusive, LossCounted, Locked

\* A step of a round that neither takes nor gives back a lock.
LEMMA KeepsLock ==
  ASSUME LInv, OthersTyped, NEW c \in Callers, NEW step \in Steps, NEW n \in Nat \ {0},
         pc' = [pc EXCEPT ![c] = step], place' = [place EXCEPT ![c] = n],
         UNCHANGED <<session, process, lost>>, LoopOK(c)',
         \A d \in Callers \ {c} : timeout'[d] = timeout[d]
  PROVE  LInv'
<1>1. OthersStay(c) /\ pc' \in [Callers -> Steps] /\ place' \in [Callers -> Nat \ {0}]
  BY DEF OthersStay, LInv, TypeOK
<1>2. session' \in [Callers -> Session] /\ session'[c] = session[c]
  BY DEF LInv, TypeOK
<1>3. QED
  BY <1>1, <1>2, Moves

LEMMA PlaceKept ==
  ASSUME TypeOK, UNCHANGED place, NEW c \in Callers
  PROVE  place' = [place EXCEPT ![c] = place[c]] /\ place[c] \in Nat \ {0}
BY DEF TypeOK

LEMMA LoopKeepsLocks ==
  ASSUME LInv, NEW c \in Callers, LoopStep(c)
  PROVE  LInv'
<1> USE DEF GoTo
<1>0. TypeOK /\ LoopOK(c) /\ pc[c] \in Steps /\ place[c] \in Nat \ {0} /\ session[c] \in Session
  BY DEF LInv, TypeOK
<1>1. CASE Fire(c)
  <2>1. OthersTyped
    BY <1>0, <1>1, Loops DEF Fire, OthersTyped, TypeOK
  <2>2. pc'[c] = "next" /\ LoopOK(c)'
    BY <1>0, <1>1 DEF Fire, LoopOK, TypeOK, Locked, Alive
  <2>3. \A d \in Callers \ {c} : timeout'[d] = timeout[d]
    BY <1>0, <1>1 DEF Fire, TypeOK
  <2>4. /\ pc' = [pc EXCEPT ![c] = "next"] /\ place' = [place EXCEPT ![c] = 1]
        /\ UNCHANGED <<session, process, lost>>
    BY <1>1 DEF Fire
  <2>5. "next" \in Steps /\ 1 \in Nat \ {0}
    BY DEF Steps
  <2>6. QED
    BY <2>1, <2>2, <2>3, <2>4, <2>5, KeepsLock
<1>2. CASE EndRound(c)
  <2>1. OthersTyped
    BY <1>0, <1>2, Loops DEF EndRound, OthersTyped, TypeOK
  <2>2. pc'[c] = "idle" /\ LoopOK(c)'
    BY <1>0, <1>2 DEF EndRound, LoopOK, TypeOK, Locked
  <2>3. \A d \in Callers \ {c} : timeout'[d] = timeout[d]
    BY <1>0, <1>2 DEF EndRound, TypeOK
  <2>4. /\ pc' = [pc EXCEPT ![c] = "idle"] /\ place' = [place EXCEPT ![c] = 1]
        /\ UNCHANGED <<session, process, lost>>
    BY <1>2 DEF EndRound
  <2>5. "idle" \in Steps /\ 1 \in Nat \ {0}
    BY DEF Steps
  <2>6. QED
    BY <2>1, <2>2, <2>3, <2>4, <2>5, KeepsLock
<1>3. CASE AskLock(c)
  <2>1. OthersTyped
    BY <1>0, <1>3 DEF AskLock, OthersTyped, TypeOK
  <2>2. place[c] \in 1..Len(ListOf(c)) /\ JobOf(c) \in Jobs
    BY <1>0, <1>3, Loops DEF AskLock, JobOf
  <2>3. /\ session' = [session EXCEPT ![c] = [phase |-> "asking", name |-> JobOf(c)]]
        /\ pc' = [pc EXCEPT ![c] = "lock"] /\ place' = place /\ lost' = lost
    BY <1>3 DEF AskLock, BeginLock
  <2>4. session' \in [Callers -> Session] /\ pc' \in [Callers -> Steps] /\ OthersStay(c)
    BY <1>0, <1>3, <2>2, <2>3 DEF AskLock, TypeOK, Session, Phases, Jobs, Steps, OthersStay
  <2>5. /\ session'[c].phase = "asking" /\ session'[c].name = JobOf(c)
        /\ pc'[c] = "lock" /\ JobOf(c)' = JobOf(c)
    BY <1>0, <2>3 DEF TypeOK, JobOf, ListOf
  <2>6. LoopOK(c)'
    BY <1>0, <1>3, <2>2, <2>3, <2>5 DEF AskLock, LoopOK, Locked, ListOf
  <2>7. QED
    BY <1>0, <2>1, <2>3, <2>4, <2>5, <2>6, Moves DEF TypeOK
<1>4. CASE pc[c] = "lock" /\ AcquireLock(c) /\ GoTo(c, "check") /\ place' = place
           /\ UNCHANGED <<process, timeout, wait, age, unfinished, lost, early, deaths>>
  <2>1. OthersTyped
    BY <1>0, <1>4 DEF OthersTyped, TypeOK
  <2>2. /\ session' = [session EXCEPT ![c] = [session[c] EXCEPT !.phase = "held"]]
        /\ IsFree(session[c].name)
    BY <1>0, <1>4 DEF AcquireLock, TypeOK
  <2>3. session' \in [Callers -> Session] /\ pc' \in [Callers -> Steps] /\ OthersStay(c)
    BY <1>0, <1>4, <2>2 DEF TypeOK, Session, Phases, Steps, OthersStay
  <2>4. /\ session'[c].phase = "held" /\ session'[c].name = session[c].name
        /\ pc'[c] = "check" /\ JobOf(c)' = JobOf(c) /\ place'[c] = place[c]
    BY <1>0, <1>4, <2>2 DEF TypeOK, JobOf, ListOf, Session
  <2>5. LoopOK(c)'
    BY <1>0, <1>4, <2>4 DEF LoopOK, Locked, ListOf
  <2>6. QED
    BY <1>0, <1>4, <2>1, <2>2, <2>3, <2>4, <2>5, Moves DEF TypeOK, IsFree
<1>5. CASE pc[c] = "lock" /\ FailLock(c) /\ GoTo(c, "next")
           /\ place' = [place EXCEPT ![c] = @ + 1]
           /\ UNCHANGED <<process, timeout, wait, age, unfinished, lost, early, deaths>>
  <2>1. OthersTyped
    BY <1>0, <1>5 DEF OthersTyped, TypeOK
  <2>2. session' = [session EXCEPT ![c] = NoSession]
    BY <1>5 DEF FailLock
  <2>3. /\ session' \in [Callers -> Session] /\ pc' \in [Callers -> Steps] /\ OthersStay(c)
        /\ place' \in [Callers -> Nat \ {0}]
    BY <1>0, <1>5, <2>2 DEF TypeOK, Session, NoSession, Phases, Steps, OthersStay
  <2>4. session'[c].phase = "none" /\ pc'[c] = "next"
    BY <1>0, <1>5, <2>2 DEF TypeOK, NoSession
  <2>5. LoopOK(c)'
    BY <1>0, <1>5, <2>4 DEF LoopOK, Locked
  <2>6. QED
    BY <1>5, <2>1, <2>3, <2>4, <2>5, Moves
<1>6. CASE Check(c)
  <2>1. OthersTyped /\ pc' = [pc EXCEPT ![c] = IF IsRecent(JobOf(c), c[2]) THEN "release" ELSE "update"]
    BY <1>0, <1>6 DEF Check, OthersTyped, TypeOK
  <2>2. LoopOK(c)'
    BY <1>0, <1>6, <2>1 DEF Check, LoopOK, TypeOK, Locked, JobOf, ListOf
  <2>3. QED
    BY <1>0, <1>6, <2>1, <2>2, KeepsLock, PlaceKept DEF Check, Steps
<1>7. CASE UpdateTime(c)
  <2>1. JobOf(c) \in Jobs /\ MaxAge \in Nat
    BY <1>0, <1>7, JobTyped, Loops DEF UpdateTime
  <2>2. OthersTyped
    BY <1>0, <1>7, <2>1 DEF UpdateTime, OthersTyped, TypeOK
  <2>3. LoopOK(c)'
    BY <1>0, <1>7 DEF UpdateTime, LoopOK, TypeOK, Locked, JobOf, ListOf
  <2>4. QED
    BY <1>0, <1>7, <2>2, <2>3, KeepsLock, PlaceKept DEF UpdateTime, Steps
<1>8. CASE Run(c)
  <2>1. OthersTyped
    BY <1>0, <1>8 DEF Run, OthersTyped, TypeOK
  <2>2. PICK step \in {"succeed", "release"} : pc' = [pc EXCEPT ![c] = step]
    BY <1>8 DEF Run
  <2>3. LoopOK(c)'
    BY <1>0, <1>8, <2>2 DEF Run, LoopOK, TypeOK, Locked, JobOf, ListOf
  <2>4. QED
    BY <1>0, <1>8, <2>1, <2>2, <2>3, KeepsLock, PlaceKept DEF Run, Steps
<1>9. CASE Succeed(c)
  <2>1. OthersTyped
    BY <1>0, <1>9 DEF Succeed, OthersTyped, TypeOK
  <2>2. LoopOK(c)'
    BY <1>0, <1>9 DEF Succeed, LoopOK, TypeOK, Locked, JobOf, ListOf
  <2>3. QED
    BY <1>0, <1>9, <2>1, <2>2, KeepsLock, PlaceKept DEF Succeed, Steps
<1>10. CASE Release(c)
  <2>1. OthersTyped
    BY <1>0, <1>10 DEF Release, OthersTyped, TypeOK
  <2>2. session' = [session EXCEPT ![c] = NoSession]
    BY <1>10 DEF Release, ReleaseLock
  <2>3. /\ session' \in [Callers -> Session] /\ pc' \in [Callers -> Steps] /\ OthersStay(c)
        /\ place' \in [Callers -> Nat \ {0}]
    BY <1>0, <1>10, <2>2 DEF Release, TypeOK, Session, NoSession, Phases, Steps, OthersStay
  <2>4. session'[c].phase = "none" /\ pc'[c] = "next"
    BY <1>0, <1>10, <2>2 DEF Release, TypeOK, NoSession
  <2>5. LoopOK(c)'
    BY <1>0, <1>10, <2>4 DEF Release, LoopOK, Locked
  <2>6. QED
    BY <1>10, <2>1, <2>3, <2>4, <2>5, Moves DEF Release
<1>11. QED
  BY <1>1, <1>2, <1>3, <1>4, <1>5, <1>6, <1>7, <1>8, <1>9, <1>10 DEF LoopStep, TakeLock

\* Steps that leave the loops and their locks as they are.
LEMMA SameLoops ==
  ASSUME LInv, OthersTyped, UNCHANGED <<pc, place>>,
         session' \in [Callers -> Session],
         \A c \in Callers :
           /\ session'[c].name = session[c].name
           /\ session'[c].phase = session[c].phase
                \/ (session[c].phase = "held" /\ session'[c].phase = "lost")
           /\ timeout'[c] \in {"timer", "none"} => pc[c] = "idle"
           /\ process'[c[1]] = "down" => timeout'[c] = "none",
         \A c \in Callers : session'[c].phase = "lost" => lost' > 0
  PROVE  LInv'
<1>1. TypeOK'
  BY DEF LInv, OthersTyped, TypeOK
<1>2. ASSUME NEW c \in Callers PROVE LoopOK(c)'
  <2>1. LoopOK(c) /\ JobOf(c)' = JobOf(c) /\ ListOf(c)' = ListOf(c)
    BY DEF LInv, JobOf, ListOf
  <2>2. QED
    BY <2>1 DEF LoopOK, Locked
<1>3. Exclusive' /\ LossCounted'
  BY DEF LInv, Exclusive, LossCounted
<1>4. QED
  BY <1>1, <1>2, <1>3 DEF LInv

LEMMA ServerKeepsLocks ==
  ASSUME LInv, NEW s \in Servers, Stop(s) \/ Crash(s) \/ Exit(s) \/ Start(s)
  PROVE  LInv'
<1>0. TypeOK /\ MaxDeaths \in Nat /\ \A c \in Callers : LoopOK(c) /\ Wait[c[2]] \in Nat
  BY Loops, CronAssumption DEF LInv
<1>1. CASE Stop(s)
  <2>1. OthersTyped
    BY <1>0, <1>1 DEF Stop, Stopped, OthersTyped, TypeOK
  <2>2. \A c \in Callers : timeout'[c] \in {"timer", "none"} => timeout[c] \in {"timer", "none"}
    BY <1>0, <1>1 DEF Stop, Stopped, TypeOK
  <2>3. \A c \in Callers : timeout[c] = "none" => timeout'[c] = "none"
    BY <1>0, <1>1 DEF Stop, Stopped, TypeOK
  <2>4. QED
    BY <1>0, <1>1, <2>1, <2>2, <2>3, SameLoops DEF Stop, LoopOK, LInv, LossCounted, TypeOK
<1>2. CASE Crash(s)
  BY <1>0, <1>2, Ended DEF Crash, TypeOK
<1>3. CASE Exit(s)
  BY <1>0, <1>3, Ended DEF Exit, TypeOK
<1>4. CASE Start(s)
  <2>1. OthersTyped
    BY <1>0, <1>4 DEF Start, Queued, OthersTyped, TypeOK
  <2>2. ASSUME NEW c \in Callers
        PROVE  /\ timeout'[c] \in {"timer", "none"} => pc[c] = "idle"
               /\ process'[c[1]] = "down" => timeout'[c] = "none"
    <3>1. CASE c[1] = s
      BY <1>0, <1>4, <3>1 DEF Start, Queued, LoopOK, TypeOK
    <3>2. CASE c[1] # s
      BY <1>0, <1>4, <3>2, Loops DEF Start, Queued, LoopOK, TypeOK
    <3>3. QED
      BY <3>1, <3>2
  <2>3. QED
    BY <1>0, <1>4, <2>1, <2>2, SameLoops DEF Start, LInv, LossCounted, TypeOK
<1>5. QED
  BY <1>1, <1>2, <1>3, <1>4

LEMMA LoseKeepsLocks ==
  ASSUME LInv, NEW c \in Callers, Lose(c)
  PROVE  LInv'
<1>1. TypeOK /\ MaxDeaths \in Nat /\ c[1] \in Servers /\ \A d \in Callers : LoopOK(d)
  BY Loops DEF LInv
<1>2. OthersTyped
  BY <1>1 DEF Lose, OthersTyped, TypeOK
<1>3. session' = [session EXCEPT ![c] = [session[c] EXCEPT !.phase = "lost"]]
      /\ session[c] \in Session /\ session[c].phase = "held"
  BY <1>1 DEF Lose, LoseLock, TypeOK
<1>4. /\ session'[c].phase = "lost" /\ session'[c].name = session[c].name
      /\ session' \in [Callers -> Session]
      /\ \A d \in Callers \ {c} : session'[d] = session[d]
  BY <1>1, <1>3 DEF Session, Phases, TypeOK
<1>5. \A d \in Callers : process'[d[1]] = "down" => process[d[1]] = "down"
  BY <1>1, Loops DEF Lose, TypeOK
<1>6. QED
  BY <1>1, <1>2, <1>3, <1>4, <1>5, SameLoops DEF Lose, LoopOK, TypeOK

LEMMA TickKeepsLocks ==
  ASSUME LInv, Tick
  PROVE  LInv'
<1>1. TypeOK /\ MaxAge \in Nat /\ \A d \in Callers : LoopOK(d)
  BY CronAssumption DEF LInv
<1>2. OthersTyped
  BY <1>1 DEF Tick, OthersTyped, TypeOK
<1>3. QED
  BY <1>1, <1>2, SameLoops DEF Tick, LoopOK, LInv, LossCounted, TypeOK

LEMMA LocksStep == LInv /\ [Next]_vars => LInv'
<1>1. SUFFICES ASSUME LInv, [Next]_vars PROVE LInv'
  OBVIOUS
<1>2. CASE Next
  BY <1>1, <1>2, LoopKeepsLocks, LoseKeepsLocks, ServerKeepsLocks, TickKeepsLocks DEF Next
<1>3. CASE UNCHANGED vars
  <2>1. OthersTyped
    BY <1>1, <1>3 DEF vars, LInv, TypeOK, OthersTyped
  <2>2. QED
    BY <1>1, <1>3, <2>1, SameLoops DEF vars, LInv, LossCounted, LoopOK, TypeOK
<1>4. QED
  BY <1>1, <1>2, <1>3

\* The variables have their types, and a loop that has a job has its lock or
\* lost it: the steps of tryJobWithLock between getLock and its release.
THEOREM LocksInvariant == Spec => []LInv
<1>1. QED
  BY LocksInit_, LocksStep, PTL DEF Spec

\* Two servers are in the same job only if a lock connection broke.
THEOREM JobsExclude == Spec => []OneServerPerJob
<1>1. LInv => OneServerPerJob
  <2>1. SUFFICES ASSUME LInv, NEW j \in Jobs, NEW c \in InJob(j), NEW d \in InJob(j), c # d
                 PROVE  "lost" \in {session[c].phase, session[d].phase}
    BY DEF OneServerPerJob
  <2>2. /\ c \in Callers /\ d \in Callers /\ LoopOK(c) /\ LoopOK(d)
        /\ pc[c] \in Locked /\ pc[d] \in Locked /\ JobOf(c) = JobOf(d)
    BY <2>1 DEF InJob, LInv, Locked
  <2>3. QED
    BY <2>1, <2>2 DEF LoopOK, LInv, Exclusive, Locked
<1>2. QED
  BY <1>1, LocksInvariant, PTL
-----------------------------------------------------------------------------
(* Frequency: every run that begins too early is paid for by a lost lock. *)

\* The other loops owe what they owed before.
OwedStays(c) == \A d \in Callers \ {c} : IsOwed(d)' => IsOwed(d)

LEMMA NoMoreOwed ==
  ASSUME EarlyPaid, LInv, early' = early, lost' = lost,
         \A d \in Callers : IsOwed(d)' => IsOwed(d)
  PROVE  EarlyPaid'
<1>1. Owed' \subseteq Owed
  BY DEF Owed
<1>2. Cardinality(Owed') <= Cardinality(Owed)
  BY <1>1, OwedFinite, FS_Subset
<1>3. QED
  BY <1>2, OwedFinite, OwedFinitePrime DEF EarlyPaid, LInv, TypeOK

LEMMA OneMoreOwed ==
  ASSUME EarlyPaid, LInv, NEW c \in Callers, OwedStays(c), early' = early, lost' = lost + 1
  PROVE  EarlyPaid'
<1>1. Owed' \subseteq Owed \cup {c} /\ IsFiniteSet(Owed \cup {c})
  BY OwedFinite, FS_AddElement DEF Owed, OwedStays
<1>2. Cardinality(Owed') <= Cardinality(Owed \cup {c})
  BY <1>1, FS_Subset
<1>3. Cardinality(Owed \cup {c}) = IF c \in Owed THEN Cardinality(Owed) ELSE Cardinality(Owed) + 1
  BY OwedFinite, FS_AddElement
<1>4. QED
  BY <1>2, <1>3, OwedFinite, OwedFinitePrime DEF EarlyPaid, LInv, TypeOK

\* A run begins: it is paid for, or it owes nothing and lets no loop owe more.
LEMMA RunPaid ==
  ASSUME EarlyPaid, LInv, NEW c \in Callers, IsOwed(c), ~IsOwed(c)', lost' = lost,
         \/ early' = early /\ \E e \in Callers : \A d \in Callers \ {c, e} : IsOwed(d)' => IsOwed(d)
         \/ early' = early + 1 /\ OwedStays(c)
  PROVE  EarlyPaid'
<1>1. /\ IsFiniteSet(Owed \ {c}) /\ Cardinality(Owed \ {c}) = Cardinality(Owed) - 1
      /\ Cardinality(Owed) \in Nat
  BY OwedFinite, FS_RemoveElement DEF Owed
<1>2. CASE early' = early + 1 /\ OwedStays(c)
  <2>1. Owed' \subseteq Owed \ {c}
    BY <1>2 DEF Owed, OwedStays
  <2>2. Cardinality(Owed') <= Cardinality(Owed) - 1
    BY <1>1, <2>1, FS_Subset
  <2>3. QED
    BY <1>1, <1>2, <2>2, OwedFinitePrime DEF EarlyPaid, LInv, TypeOK
<1>3. ASSUME NEW e \in Callers, early' = early,
             \A d \in Callers \ {c, e} : IsOwed(d)' => IsOwed(d)
      PROVE  EarlyPaid'
  <2>1. Owed' \subseteq (Owed \ {c}) \cup {e}
    BY <1>3 DEF Owed
  <2>2. /\ IsFiniteSet((Owed \ {c}) \cup {e})
        /\ Cardinality((Owed \ {c}) \cup {e}) <= Cardinality(Owed)
    BY <1>1, FS_AddElement
  <2>3. Cardinality(Owed') <= Cardinality(Owed)
    BY <1>1, <2>1, <2>2, FS_Subset, FS_CardinalityType
  <2>4. QED
    BY <1>1, <1>3, <2>3, OwedFinitePrime DEF EarlyPaid, LInv, TypeOK
<1>4. QED
  BY <1>2, <1>3

\* A loop owes what it owed if it and the ages of the jobs stay, or only grow.
LEMMA SameOwed ==
  ASSUME LInv, NEW d \in Callers, pc'[d] = pc[d], place'[d] = place[d],
         session'[d] = session[d], \A j \in Jobs : age'[j] >= age[j], TypeOK'
  PROVE  IsOwed(d)' => IsOwed(d)
<1>1. SUFFICES ASSUME IsOwed(d)' PROVE IsOwed(d)
  OBVIOUS
<1>2. LoopOK(d) /\ JobOf(d)' = JobOf(d)
  BY DEF LInv, JobOf, ListOf
<1>3. CASE session[d].phase = "lost"
  BY <1>1, <1>3 DEF IsOwed
<1>4. CASE session[d].phase = "held" /\ pc[d] = "update"
  <2>1. JobOf(d) \in Jobs /\ Interval[d[2]] \in Nat
    BY <1>2, <1>4, JobTyped, Loops
  <2>2. age'[JobOf(d)] < Interval[d[2]]
    BY <1>1, <1>2, <1>4 DEF IsOwed, IsRecent
  <2>3. age[JobOf(d)] \in Nat /\ age'[JobOf(d)] \in Nat /\ age'[JobOf(d)] >= age[JobOf(d)]
    BY <2>1, CronAssumption DEF LInv, TypeOK
  <2>4. QED
    BY <1>4, <2>1, <2>2, <2>3 DEF IsOwed, IsRecent
<1>5. QED
  BY <1>1, <1>3, <1>4 DEF IsOwed

LEMMA UpdatePaid ==
  ASSUME EarlyPaid, LInv, NEW c \in Callers, UpdateTime(c)
  PROVE  EarlyPaid'
<1> DEFINE j == JobOf(c)
<1>1. /\ TypeOK /\ LoopOK(c) /\ pc[c] = "update" /\ pc'[c] = "run" /\ lost' = lost
      /\ \A d \in Callers \ {c} : pc'[d] = pc[d]
      /\ session' = session /\ place' = place
      /\ age' = [age EXCEPT ![j] = 0]
      /\ early' = IF IsRecent(j, c[2]) THEN early + 1 ELSE early
  BY DEF UpdateTime, GoTo, LInv, TypeOK
<1>2. j \in Jobs /\ Interval[c[2]] \in Nat /\ session[c].phase \in {"held", "lost"}
  BY <1>1, JobTyped, Loops DEF LoopOK, Locked
<1>3. ~IsOwed(c)'
  BY <1>1 DEF IsOwed
\* Who owes more holds the lock of this job and is about to run it again.
<1>4. ASSUME NEW d \in Callers \ {c}, IsOwed(d)', ~IsOwed(d)
      PROVE  session[d].phase = "held" /\ JobOf(d) = j /\ pc[d] = "update" /\ ~IsRecent(j, d[2])
  <2>1. LoopOK(d) /\ JobOf(d)' = JobOf(d)
    BY <1>1 DEF LInv, JobOf, ListOf
  <2>2. session[d].phase = "held" /\ pc[d] = "update"
    BY <1>1, <1>4 DEF IsOwed
  <2>3. JobOf(d) \in Jobs
    BY <2>1, <2>2, JobTyped
  <2>4. IsRecent(JobOf(d), d[2])' /\ ~IsRecent(JobOf(d), d[2])
    BY <1>4, <1>1, <2>2 DEF IsOwed
  <2>5. JobOf(d) = j
    BY <1>1, <2>1, <2>3, <2>4 DEF IsRecent, TypeOK
  <2>6. QED
    BY <2>2, <2>4, <2>5
<1>5. ASSUME NEW d \in Callers, LoopOK(d), pc[d] = "update", JobOf(d) = j
      PROVE  IsRecent(j, d[2]) <=> IsRecent(j, c[2])
  BY <1>1, <1>5, SameGroup DEF LoopOK
<1>6. CASE session[c].phase = "held"
  <2>1. OwedStays(c)
    <3>1. SUFFICES ASSUME NEW d \in Callers \ {c}, IsOwed(d)', ~IsOwed(d) PROVE FALSE
      BY DEF OwedStays
    <3>2. session[d].phase = "held" /\ JobOf(d) = j /\ pc[d] = "update" /\ LoopOK(d)
      BY <1>4, <3>1 DEF LInv
    <3>3. QED
      BY <1>1, <1>6, <3>2 DEF LInv, Exclusive, LoopOK
  <2>2. CASE IsRecent(j, c[2])
    BY <1>1, <1>3, <1>6, <2>1, <2>2, RunPaid DEF IsOwed
  <2>3. CASE ~IsRecent(j, c[2])
    BY <1>1, <1>3, <2>1, <2>3, NoMoreOwed DEF OwedStays
  <2>4. QED
    BY <2>2, <2>3
<1>7. CASE session[c].phase = "lost"
  <2>1. IsOwed(c)
    BY <1>1, <1>7 DEF IsOwed
  <2>2. CASE IsRecent(j, c[2])
    <3>1. OwedStays(c)
      BY <1>4, <1>5, <2>2 DEF OwedStays, LInv
    <3>2. QED
      BY <1>1, <1>3, <2>1, <2>2, <3>1, RunPaid
  <2>3. CASE ~IsRecent(j, c[2])
    <3>1. \E e \in Callers : \A d \in Callers \ {c, e} : IsOwed(d)' => IsOwed(d)
      <4>1. CASE OwedStays(c)
        BY <4>1 DEF OwedStays
      <4>2. CASE \E e \in Callers \ {c} : IsOwed(e)' /\ ~IsOwed(e)
        <5>1. PICK e \in Callers \ {c} : IsOwed(e)' /\ ~IsOwed(e)
          BY <4>2
        <5>2. session[e].phase = "held" /\ session[e].name = j
          BY <1>4, <5>1 DEF LInv, LoopOK
        <5>3. ASSUME NEW d \in Callers \ {c, e}, IsOwed(d)', ~IsOwed(d) PROVE FALSE
          <6>1. session[d].phase = "held" /\ session[d].name = j
            BY <1>4, <5>3 DEF LInv, LoopOK
          <6>2. QED
            BY <5>2, <5>3, <6>1 DEF LInv, Exclusive
        <5>4. QED
          BY <5>3
      <4>3. QED
        BY <4>1, <4>2 DEF OwedStays
    <3>2. QED
      BY <1>1, <1>3, <2>1, <2>3, <3>1, RunPaid
  <2>4. QED
    BY <2>2, <2>3
<1>8. QED
  BY <1>2, <1>6, <1>7

LEMMA LoopPaid ==
  ASSUME EarlyPaid, LInv, LInv', NEW c \in Callers, LoopStep(c)
  PROVE  EarlyPaid'
<1> USE DEF GoTo
<1>0. CASE UpdateTime(c)
  BY <1>0, UpdatePaid
<1>1. CASE ~UpdateTime(c)
  <2>1. TypeOK /\ TypeOK' /\ session[c] \in Session /\ pc[c] \in Steps
    BY DEF LInv, TypeOK
  <2>2. /\ age' = age /\ early' = early /\ lost' = lost
        /\ \A d \in Callers \ {c} : pc'[d] = pc[d] /\ place'[d] = place[d] /\ session'[d] = session[d]
    <3>1. CASE Fire(c) \/ EndRound(c) \/ Check(c) \/ Run(c) \/ Succeed(c)
      BY <2>1, <3>1 DEF Fire, EndRound, Check, Run, Succeed, TypeOK
    <3>2. CASE AskLock(c) \/ Release(c)
      BY <2>1, <3>2 DEF AskLock, BeginLock, Release, ReleaseLock, TypeOK
    <3>3. CASE TakeLock(c)
      BY <2>1, <3>3 DEF TakeLock, AcquireLock, FailLock, TypeOK
    <3>4. QED
      BY <1>1, <3>1, <3>2, <3>3 DEF LoopStep
  <2>3. ASSUME NEW d \in Callers \ {c} PROVE IsOwed(d)' => IsOwed(d)
    <3>1. \A j \in Jobs : age'[j] >= age[j]
      BY <2>1, <2>2, CronAssumption DEF TypeOK
    <3>2. QED
      BY <2>1, <2>2, <3>1, SameOwed
  <2>4. IsOwed(c)' => IsOwed(c)
    <3>1. CASE Check(c)
      <4>1. /\ session'[c] = session[c] /\ pc[c] = "check" /\ age' = age
            /\ pc'[c] = IF IsRecent(JobOf(c), c[2]) THEN "release" ELSE "update"
            /\ JobOf(c)' = JobOf(c)
        BY <2>1, <3>1 DEF Check, TypeOK, JobOf, ListOf
      <4>2. IsRecent(JobOf(c), c[2])' = IsRecent(JobOf(c), c[2])
        BY <4>1 DEF IsRecent
      <4>3. QED
        BY <4>1, <4>2 DEF IsOwed
    <3>2. CASE TakeLock(c)
      <4>1. session[c].phase = "asking" /\ session'[c].phase \in {"held", "none"}
        BY <2>1, <3>2 DEF TakeLock, AcquireLock, FailLock, NoSession, TypeOK, Session
      <4>2. pc'[c] \in {"check", "next"}
        BY <2>1, <3>2 DEF TakeLock, TypeOK
      <4>3. QED
        BY <4>1, <4>2 DEF IsOwed
    <3>3. CASE ~Check(c) /\ ~TakeLock(c)
      <4>1. pc'[c] \notin {"check", "update"}
        BY <1>1, <2>1, <3>3 DEF LoopStep, Fire, EndRound, AskLock, Run, Succeed, Release, TypeOK
      <4>2. QED
        BY <4>1 DEF IsOwed
    <3>4. QED
      BY <3>1, <3>2, <3>3
  <2>5. QED
    BY <2>2, <2>3, <2>4, NoMoreOwed
<1>2. QED
  BY <1>0, <1>1

LEMMA EarlyStep == LInv /\ LInv' /\ EarlyPaid /\ [Next]_vars => EarlyPaid'
<1>1. SUFFICES ASSUME LInv, LInv', EarlyPaid, [Next]_vars PROVE EarlyPaid'
  OBVIOUS
<1>2. TypeOK /\ TypeOK' /\ MaxAge \in Nat
  BY <1>1, CronAssumption DEF LInv
<1>3. ASSUME NEW c \in Callers, LoopStep(c) PROVE EarlyPaid'
  BY <1>1, <1>3, LoopPaid
<1>4. ASSUME NEW c \in Callers, Lose(c) PROVE EarlyPaid'
  <2>1. /\ age' = age /\ pc' = pc /\ place' = place /\ early' = early /\ lost' = lost + 1
        /\ \A d \in Callers \ {c} : session'[d] = session[d]
    BY <1>2, <1>4 DEF Lose, LoseLock, TypeOK
  <2>2. \A j \in Jobs : age'[j] >= age[j]
    BY <1>2, <2>1 DEF TypeOK
  <2>3. OwedStays(c)
    BY <1>1, <1>2, <2>1, <2>2, SameOwed DEF OwedStays
  <2>4. QED
    BY <1>1, <1>4, <2>1, <2>3, OneMoreOwed
<1>5. ASSUME NEW s \in Servers, Ends(s) PROVE EarlyPaid'
  <2>1. age' = age /\ early' = early /\ lost' = lost
    BY <1>5 DEF Ends
  <2>2. ASSUME NEW d \in Callers PROVE IsOwed(d)' => IsOwed(d)
    <3>1. CASE d[1] = s
      BY <1>2, <1>5, <3>1 DEF Ends, IsOwed, TypeOK
    <3>2. CASE d[1] # s
      <4>1. pc'[d] = pc[d] /\ place'[d] = place[d] /\ session'[d] = session[d]
        BY <1>2, <1>5, <3>2, Loops DEF Ends, DropLocks, TypeOK
      <4>2. QED
        BY <1>1, <1>2, <2>1, <4>1, SameOwed DEF TypeOK
    <3>3. QED
      BY <3>1, <3>2
  <2>3. QED
    BY <1>1, <2>1, <2>2, NoMoreOwed
<1>6. ASSUME UNCHANGED <<session, pc, place, early, lost>>, \A j \in Jobs : age'[j] >= age[j]
      PROVE  EarlyPaid'
  BY <1>1, <1>2, <1>6, SameOwed, NoMoreOwed
<1>7. ASSUME NEW s \in Servers, Stop(s) \/ Start(s) PROVE EarlyPaid'
  BY <1>2, <1>6, <1>7 DEF Stop, Start, TypeOK
<1>8. CASE Tick
  BY <1>2, <1>6, <1>8 DEF Tick, TypeOK
<1>9. CASE UNCHANGED vars
  BY <1>2, <1>6, <1>9 DEF vars, TypeOK
<1>10. QED
  BY <1>1, <1>3, <1>4, <1>5, <1>7, <1>8, <1>9 DEF Next, Crash, Exit

\* The date of the last run is read and written under the lock, so a run that
\* begins too early is one that a lost lock lets begin (tryJobWithTime).
THEOREM FrequencyKept == Spec => []RunsAtFrequency
<1>1. Init => EarlyPaid
  <2>1. SUFFICES ASSUME Init PROVE EarlyPaid
    OBVIOUS
  <2>2. Owed = {}
    BY <2>1 DEF Init, Owed, IsOwed
  <2>3. QED
    BY <2>1, <2>2, FS_EmptySet DEF Init, EarlyPaid
<1>2. LInv /\ EarlyPaid => RunsAtFrequency
  BY OwedFinite DEF EarlyPaid, RunsAtFrequency, LInv, TypeOK
<1>3. QED
  BY <1>1, <1>2, LocksInvariant, EarlyStep, PTL DEF Spec

-----------------------------------------------------------------------------
(* Finished runs. *)

LEMMA FinishedStep == LInv /\ FinishedMeansIdle /\ [Next]_vars => FinishedMeansIdle'
<1>1. SUFFICES ASSUME LInv, FinishedMeansIdle, [Next]_vars, lost' = 0, NEW d \in Callers,
                      pc'[d] \in {"run", "succeed"}
               PROVE  JobOf(d)' \in unfinished'
  BY DEF FinishedMeansIdle
<1>2. TypeOK
  BY <1>1 DEF LInv
<1>3. lost = 0
  BY <1>1, <1>2 DEF Next, LoopStep, Fire, EndRound, AskLock, TakeLock, Check, UpdateTime, Run, Succeed,
                    Release, Lose, Stop, Crash, Exit, Ends, Start, Tick, vars, TypeOK
<1>4. ASSUME pc[d] \in {"run", "succeed"}, JobOf(d)' = JobOf(d), unfinished \subseteq unfinished'
      PROVE  JobOf(d)' \in unfinished'
  BY <1>1, <1>3, <1>4 DEF FinishedMeansIdle
<1>5. ASSUME NEW c \in Callers, UpdateTime(c) PROVE JobOf(d)' \in unfinished'
  <2>1. place' = place /\ JobOf(d)' = JobOf(d) /\ unfinished' = unfinished \cup {JobOf(c)}
    BY <1>5 DEF UpdateTime, JobOf, ListOf
  <2>2. CASE d = c
    BY <2>1, <2>2
  <2>3. CASE d # c
    BY <1>1, <1>2, <1>4, <1>5, <2>1, <2>3 DEF UpdateTime, GoTo, TypeOK
  <2>4. QED
    BY <2>2, <2>3
<1>6. ASSUME NEW c \in Callers, Succeed(c) PROVE JobOf(d)' \in unfinished'
  <2>1. /\ JobOf(d)' = JobOf(d) /\ unfinished' = unfinished \ {JobOf(c)}
        /\ pc[c] = "succeed" /\ pc' = [pc EXCEPT ![c] = "release"]
    BY <1>6 DEF Succeed, JobOf, ListOf, GoTo
  <2>2. d # c /\ pc[d] \in {"run", "succeed"}
    BY <1>1, <1>2, <2>1 DEF TypeOK
  <2>3. LoopOK(c) /\ LoopOK(d) /\ session[c].phase = "held" /\ session[d].phase = "held"
    BY <1>1, <1>3, <2>1, <2>2 DEF LInv, LoopOK, LossCounted, Locked
  <2>4. JobOf(d) # JobOf(c)
    BY <1>1, <2>1, <2>2, <2>3 DEF LInv, LoopOK, Exclusive
  <2>5. QED
    BY <1>1, <1>3, <2>1, <2>2, <2>4 DEF FinishedMeansIdle
<1>7. ASSUME NEW c \in Callers, Run(c) PROVE JobOf(d)' \in unfinished'
  <2>1. pc[d] \in {"run", "succeed"}
    BY <1>1, <1>2, <1>7 DEF Run, GoTo, TypeOK
  <2>2. QED
    BY <1>4, <1>7, <2>1 DEF Run, JobOf, ListOf
<1>8. ASSUME NEW c \in Callers,
             Fire(c) \/ EndRound(c) \/ AskLock(c) \/ TakeLock(c) \/ Check(c) \/ Release(c)
      PROVE  JobOf(d)' \in unfinished'
  <2>1. /\ pc'[c] \notin {"run", "succeed"} /\ unfinished' = unfinished
        /\ \A e \in Callers \ {c} : pc'[e] = pc[e] /\ place'[e] = place[e]
    BY <1>2, <1>8 DEF Fire, EndRound, AskLock, TakeLock, Check, Release, GoTo, TypeOK
  <2>2. QED
    BY <1>1, <1>4, <2>1 DEF JobOf, ListOf
<1>9. ASSUME NEW s \in Servers, Ends(s) PROVE JobOf(d)' \in unfinished'
  <2>1. pc'[d] = pc[d] /\ place'[d] = place[d] /\ unfinished' = unfinished
    BY <1>1, <1>2, <1>9 DEF Ends, TypeOK
  <2>2. QED
    BY <1>1, <1>4, <2>1 DEF JobOf, ListOf
<1>10. ASSUME UNCHANGED <<pc, place, unfinished>> PROVE JobOf(d)' \in unfinished'
  BY <1>1, <1>4, <1>10 DEF JobOf, ListOf
<1>11. QED
  BY <1>1, <1>5, <1>6, <1>7, <1>8, <1>9, <1>10
     DEF Next, LoopStep, Lose, Stop, Crash, Exit, Start, Tick, vars

\* As long as no lock is lost, a job that a server runs is not shown as
\* finished (update_cron_job_time, update_succeeded_at).
THEOREM RunningIsUnfinished == Spec => []FinishedMeansIdle
<1>1. Init => FinishedMeansIdle
  BY DEF Init, FinishedMeansIdle
<1>2. QED
  BY <1>1, LocksInvariant, FinishedStep, PTL DEF Spec

=============================================================================
