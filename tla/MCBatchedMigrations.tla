------------------------- MODULE MCBatchedMigrations ------------------------
(* One migration of three values in batches of two; each worker is a process *)
(* of its own.                                                               *)
EXTENDS BatchedMigrations

MCServer == [c \in Callers |-> c]
MCLockNames == Migrations \cup {Project}

ThreeValues == [m \in Migrations |-> [min |-> 1, max |-> IF m = 1 THEN 3 ELSE Null, size |-> 2]]
=============================================================================
