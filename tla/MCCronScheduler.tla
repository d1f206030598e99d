-------------------------- MODULE MCCronScheduler --------------------------
(* Small instances of CronScheduler; one unit of time is 30 seconds. *)
EXTENDS CronScheduler, TLC

\* Expressions that fire every minute.
EveryMinute == [w \in Workflow |-> {1, 3}]

\* Two ticks of one instance overlap, with each other and the other's tick.
TwoAndOne == [i \in Instance |-> IF i = 1 THEN 2 ELSE 1]

OneEach == [i \in Instance |-> 1]
=============================================================================
