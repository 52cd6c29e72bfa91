-------------------------- MODULE CallerLifecycle ---------------------------
(***************************************************************************)
(* What CodeCallerNative promises: the states and transitions its comment  *)
(* lists.                                                                  *)
(*                                                                         *)
(* A caller has at most one promise pending, in the two states in which it *)
(* works for someone; it is settled by the step that leaves the state.     *)
(***************************************************************************)
CONSTANT Callers

VARIABLES
  state,     \* the state of each caller
  pending    \* has it a promise to settle?

vars == <<state, pending>>

States  == {"CREATED", "WAITING", "IN_CALL", "RESTARTING", "EXITING", "EXITED"}
Working == {"IN_CALL", "RESTARTING"}

Init ==
  /\ state = [c \in Callers |-> "CREATED"]
  /\ pending = [c \in Callers |-> FALSE]

Become(c, s) ==
  /\ state' = [state EXCEPT ![c] = s]
  /\ pending' = [pending EXCEPT ![c] = s \in Working]

\* CREATED -> WAITING, EXITED
Start(c) == state[c] = "CREATED" /\ \E s \in {"WAITING", "EXITED"} : Become(c, s)

\* WAITING -> IN_CALL, RESTARTING, EXITING, EXITED
Accept(c) ==
  state[c] = "WAITING" /\ \E s \in {"IN_CALL", "RESTARTING", "EXITING", "EXITED"} : Become(c, s)

\* IN_CALL -> WAITING, EXITING, EXITED; RESTARTING -> WAITING, EXITING
Settle(c) ==
  \/ state[c] = "IN_CALL" /\ \E s \in {"WAITING", "EXITING", "EXITED"} : Become(c, s)
  \/ state[c] = "RESTARTING" /\ \E s \in {"WAITING", "EXITING"} : Become(c, s)

\* EXITING -> EXITED; EXITED -> none
Leave(c) == state[c] = "EXITING" /\ Become(c, "EXITED")

Next == \E c \in Callers : Start(c) \/ Accept(c) \/ Settle(c) \/ Leave(c)

Spec == Init /\ [][Next]_vars
=============================================================================
