---------------------------- MODULE MCProbeTasks ----------------------------
(* ProbeTasks for TLC: one task, two requests at once, rounds that overlap if *)
(* the scheduler lets them.                                                   *)
EXTENDS ProbeTasks, TLC

CONSTANTS t1, t2, r1, r2, x1, x2
=============================================================================
