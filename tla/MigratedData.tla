---------------------------- MODULE MigratedData ----------------------------
(***************************************************************************)
(* What batched migrations promise to the code that relies on them: a      *)
(* migration that is reported as succeeded has migrated every value, and   *)
(* what is migrated stays so (packages/migrations/README.md, "ensure that  *)
(* all data has been copied before you delete the original column").       *)
(* They promise nothing of the migrations whose retry has crossed a report.*)
(***************************************************************************)
CONSTANTS
  Migrations,   \* the migrations of the project
  Values        \* the values each of them must migrate

VARIABLES
  migrated,     \* values migrated so far
  verdict,      \* what is reported: "open", "failed" or "succeeded"
  crossed       \* migrations retried while a report was being made

vars == <<migrated, verdict, crossed>>

Init ==
  /\ migrated = [m \in Migrations |-> {}]
  /\ verdict = [m \in Migrations |-> "open"]
  /\ crossed = {}

\* More values are migrated; none is ever taken back.
Migrate(m) ==
  /\ migrated[m] \subseteq migrated'[m]
  /\ migrated' = [migrated EXCEPT ![m] = migrated'[m]]
  /\ UNCHANGED <<verdict, crossed>>

Succeed(m) ==
  /\ Values[m] \subseteq migrated[m] \/ m \in crossed
  /\ verdict' = [verdict EXCEPT ![m] = "succeeded"]
  /\ UNCHANGED <<migrated, crossed>>

Fail(m) ==
  /\ verdict' = [verdict EXCEPT ![m] = "failed"]
  /\ UNCHANGED <<migrated, crossed>>

\* It is worked on again; a retry may cross a report.
Reopen(m) ==
  /\ verdict' = [verdict EXCEPT ![m] = "open"]
  /\ crossed' \in {crossed, crossed \cup {m}}
  /\ UNCHANGED migrated

Next == \E m \in Migrations : Migrate(m) \/ Succeed(m) \/ Fail(m) \/ Reopen(m)

Spec == Init /\ [][Next]_vars

=============================================================================
