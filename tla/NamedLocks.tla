------------------------------ MODULE NamedLocks ----------------------------
(***************************************************************************)
(* The named locks of packages/named-locks, which the servers share.       *)
(*                                                                         *)
(* A lock is held by keeping a transaction open on a client of a pool of   *)
(* database connections that serves nothing else; the transaction has      *)
(* locked the row of the lock's name.  A caller is one flow of control     *)
(* that may be inside doWithLock(); every server process has a pool.       *)
(* The connection that holds a lock may break (the database ends sessions  *)
(* that stay idle in a transaction): the row is unlocked at once, and the  *)
(* caller goes on until the error handler of the pool has ended its        *)
(* process.                                                                *)
(*                                                                         *)
(* The module has no behaviour of its own: cron jobs, batched migrations   *)
(* and course updates take these steps.                                    *)
(***************************************************************************)
EXTENDS Naturals, FiniteSets

CONSTANTS
  Servers,     \* server processes
  Callers,     \* flows of control that take locks
  ServerOf,    \* the process each of them runs in
  LockNames,   \* names of locks
  PoolSize,    \* clients of the pool of each process
  NoName       \* not the name of a lock

ASSUME LocksAssumption ==
  /\ IsFiniteSet(Callers)
  /\ ServerOf \in [Callers -> Servers]
  /\ PoolSize \in Nat \ {0}
  /\ NoName \notin LockNames

VARIABLE session   \* what each caller has of the lock pool

\* A caller has no client; a client in a transaction that asks for the row;
\* the row; or a client whose connection is gone.
Phases == {"none", "asking", "held", "lost"}

Session   == [phase: Phases, name: LockNames \cup {NoName}]
NoSession == [phase |-> "none", name |-> NoName]

Holds(c, n) == session[c] = [phase |-> "held", name |-> n]
IsFree(n)   == \A c \in Callers : ~Holds(c, n)
PoolOf(s)   == {c \in Callers : ServerOf[c] = s /\ session[c].phase # "none"}
HasRoom(s)  == Cardinality(PoolOf(s)) < PoolSize

LocksInit == session = [c \in Callers |-> NoSession]

\* getLock: a transaction is begun on a client of the pool.  The wait for a
\* client has no limit.
BeginLock(c, n) ==
  /\ session[c].phase = "none"
  /\ HasRoom(ServerOf[c])
  /\ session' = [session EXCEPT ![c] = [phase |-> "asking", name |-> n]]

\* Mutant: the row is taken though another session has locked it.
AcquireAnyRow(c) ==
  /\ session[c].phase = "asking"
  /\ session' = [session EXCEPT ![c].phase = "held"]

\* SELECT ... FOR UPDATE finds the row unlocked, or waits until it is.
AcquireLock(c) ==
  /\ session[c].phase = "asking"
  /\ IsFree(session[c].name)
  /\ session' = [session EXCEPT ![c].phase = "held"]

\* Mutant: the client is not given back when the lock was not got.
FailKeepingClient(c) ==
  /\ session[c].phase = "asking"
  /\ ~IsFree(session[c].name)
  /\ UNCHANGED session

\* SKIP LOCKED returns no row, or lock_timeout ends the wait.
FailLock(c) ==
  /\ session[c].phase = "asking"
  /\ ~IsFree(session[c].name)
  /\ session' = [session EXCEPT ![c] = NoSession]

\* Mutant: a lock that another caller holds is taken.
TryTakenLock(c, n) ==
  /\ session[c].phase = "none"
  /\ HasRoom(ServerOf[c])
  /\ session' = [session EXCEPT ![c] = [phase |-> "held", name |-> n]]

\* Both steps at once, where a full pool and the order of waiters are not at
\* issue.
TryLock(c, n) ==
  /\ session[c].phase = "none"
  /\ HasRoom(ServerOf[c])
  /\ IsFree(n)
  /\ session' = [session EXCEPT ![c] = [phase |-> "held", name |-> n]]

\* endTransactionAsync gives the client back; on a lost one it throws.
ReleaseLock(c) ==
  /\ session[c].phase \in {"held", "lost"}
  /\ session' = [session EXCEPT ![c] = NoSession]

\* The connection of a held lock breaks.
LoseLock(c) ==
  /\ session[c].phase = "held"
  /\ session' = [session EXCEPT ![c].phase = "lost"]

\* A process ends, and with it all its connections.
DropLocks(s) ==
  session' = [c \in Callers |-> IF ServerOf[c] = s THEN NoSession ELSE session[c]]

=============================================================================
