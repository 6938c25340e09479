---------------------------- MODULE MCCronEngine ----------------------------
(* One job that clients define as a one-shot of high priority, as a recurring  *)
(* one, with a schedule that makes no trigger, or disabled; and one whose      *)
(* schedule does not parse.                                                    *)
EXTENDS CronEngine, TLC

CONSTANTS j1, j2, r1, r2, r3

Def(s, on, hi, del) ==
  [sched |-> s, enabled |-> on, high |-> hi, deleteAfterRun |-> del]

MCOffered ==
  [j \in JobIds |->
     IF j = j1 THEN {Def("in", TRUE, TRUE, TRUE), Def("every", TRUE, FALSE, FALSE),
                     Def("unknown", TRUE, FALSE, FALSE), Def("every", FALSE, FALSE, FALSE)}
               ELSE {Def("bad", TRUE, FALSE, FALSE)}]
===============================================================================
