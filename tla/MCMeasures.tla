----------------------------- MODULE MCMeasures -----------------------------
(* Measures for TLC: three days of four ticks; a window over midnight, one   *)
(* of a single day and one that is refused; answers of the kinds that the   *)
(* evaluation tells apart.                                                  *)
EXTENDS Measures, TLC

CONSTANTS n1, n2

MCPlans == {[daily |-> TRUE, start |-> 2, end |-> 5],
            [daily |-> FALSE, start |-> 1, end |-> 4],
            [daily |-> FALSE, start |-> 4, end |-> 4]}

MCTask(type, requireAll, both, certDown) ==
    [type |-> type, requireAll |-> requireAll, both |-> both, certDown |-> certDown, slowMs |-> 2]
MCFirst == MCTask("detail", FALSE, FALSE, FALSE)
MCTasks == {MCTask("detail", TRUE, FALSE, TRUE), MCTask("detail", FALSE, TRUE, FALSE),
            MCTask("dns", FALSE, FALSE, FALSE), MCTask("tcping", FALSE, FALSE, FALSE)}

MCStack(https, http, expired, time) ==
    [https |-> https, http |-> http, expired |-> expired, time |-> time, success |-> time > 0]
MCBody(ipv4, ipv6, records) ==
    [ipv4 |-> ipv4, ipv6 |-> ipv6, reachable |-> Absent, code |-> Absent, records |-> records,
     error |-> FALSE, took |-> 0]
MCAnswers ==
    {[body |-> MCBody(MCStack(200, 200, FALSE, 1), MCStack(200, 500, TRUE, 2), Absent), link |-> 200],
     [body |-> MCBody(MCStack(Absent, Absent, FALSE, 3), Absent, 1), link |-> 200],
     [body |-> MCBody(Absent, Absent, Absent), link |-> 0]}
=============================================================================
