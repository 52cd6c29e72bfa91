------------------------------- MODULE MCCron -------------------------------
(* Two servers; the first has a second, daily group, and a lock pool that is *)
(* too small for both of its loops.                                          *)
EXTENDS Cron

Loops  == {<<"s1", "minutely">>, <<"s1", "daily">>, <<"s2", "minutely">>}
Server == [c \in Loops |-> c[1]]

TwoGroups == [g \in Groups |-> IF g = "minutely" THEN <<"a">> ELSE <<"b">>]
Waits     == [g \in Groups |-> IF g = "minutely" THEN 1 ELSE 2]
Intervals == [g \in Groups |-> 1]
=============================================================================
