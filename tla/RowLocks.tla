------------------------------- MODULE RowLocks ------------------------------
(***************************************************************************)
(* Transactions of the database as the source uses them: READ COMMITTED    *)
(* with row locks.  A transaction sees its own changes and otherwise what  *)
(* has been committed; an UPDATE or a SELECT ... FOR NO KEY UPDATE locks a *)
(* row until the end of its transaction; of transactions that wait for     *)
(* each other in a circle one is rolled back.                              *)
(*                                                                         *)
(* The module has no behaviour of its own: the transactions of the modules *)
(* that extend it take these steps.                                        *)
(***************************************************************************)
EXTENDS Integers

CONSTANTS
  Txns,    \* transactions
  Rows,    \* rows that are locked
  NoTxn    \* the holder of a row that nobody has locked

VARIABLES
  row,       \* what is committed in each row
  pending,   \* what the holder of its lock has written
  lock       \* the holder

rowVars == <<row, pending, lock>>

RowsInit(initial) ==
  /\ row = initial /\ pending = initial
  /\ lock = [r \in Rows |-> NoTxn]

Holds(t, r)     == lock[r] = t
Available(t, r) == lock[r] \in {NoTxn, t}
Sees(t, r)      == IF Holds(t, r) THEN pending[r] ELSE row[r]

LockRow(t, r) ==
  /\ Available(t, r)
  /\ lock' = [lock EXCEPT ![r] = t]
  /\ UNCHANGED <<row, pending>>

UpdateRow(t, r, new) ==
  /\ Available(t, r)
  /\ lock' = [lock EXCEPT ![r] = t]
  /\ pending' = [pending EXCEPT ![r] = new]
  /\ UNCHANGED row

Unlocked(t) == [r \in Rows |-> IF Holds(t, r) THEN NoTxn ELSE lock[r]]

Commit(t) ==
  /\ row' = [r \in Rows |-> Sees(t, r)]
  /\ lock' = Unlocked(t)
  /\ UNCHANGED pending

Rollback(t) ==
  /\ pending' = [r \in Rows |-> IF Holds(t, r) THEN row[r] ELSE pending[r]]
  /\ lock' = Unlocked(t)
  /\ UNCHANGED row

\* A transaction that wants one of a set of rows waits if others hold them all.
Blockers(t, wanted) ==
  IF \E r \in wanted : Available(t, r) THEN {} ELSE {lock[r] : r \in wanted}

\* Transactions that wait for each other and for nobody else.
Deadlock(S, wanted) ==
  /\ \A t \in S : Blockers(t, wanted[t]) # {}
  /\ S = UNION {Blockers(t, wanted[t]) : t \in S}

=============================================================================
