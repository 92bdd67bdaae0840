------------------------------ MODULE SlaEval ------------------------------
(***************************************************************************)
(* How stored samples are judged and summed up (sla_eval.go).              *)
(*                                                                         *)
(* A sample keeps the body a node answered; it is judged each time it is   *)
(* read, by what the task says then.  A body is a record of the fields the *)
(* evaluation looks for, Absent where it has not got them; a body that is    *)
(* not JSON has none at all.  Rates are in hundredths of a percent.        *)
(***************************************************************************)
EXTENDS Integers, Sequences, FiniteSets, SequencesExt

CONSTANTS Absent,
          Expected,   \* status codes that ExpectStatus allows
          MaxPoints   \* maxRoundPoints

\* A task, as far as it judges: [type, requireAll, both, certDown, slowMs].
\* A stack: [https, http, expired, time, success]; a body: [ipv4, ipv6,
\* reachable, code, records, error, took].
\* A row: [node, at, body, link, lat].

StatusIsExpected(code) == code \in Expected

Codes(t, o) == ({o.https} \cup (IF t.type = "detail" THEN {o.http} ELSE {})) \ {Absent}

\* Mutant: a stack that shows no status is up where all of them are asked for.
Mut_NoCodesUp(t, o) ==
    /\ ~(t.certDown /\ o.expired)
    /\ IF t.both THEN \A c \in Codes(t, o) : StatusIsExpected(c)
       ELSE \E c \in Codes(t, o) : StatusIsExpected(c)

EvalStackUp(t, o) ==
    /\ ~(t.certDown /\ o.expired)
    /\ Codes(t, o) # {}
    /\ IF t.both THEN \A c \in Codes(t, o) : StatusIsExpected(c)
       ELSE \E c \in Codes(t, o) : StatusIsExpected(c)

Verdict(up) == [up |-> up, invalid |-> FALSE]
Invalid == [up |-> FALSE, invalid |-> TRUE]

Stacks(body) == {body.ipv4, body.ipv6} \ {Absent}

EvalDualStack(t, body) ==
    IF Stacks(body) = {} THEN Invalid
    ELSE Verdict(IF t.requireAll THEN \A o \in Stacks(body) : EvalStackUp(t, o)
                 ELSE \E o \in Stacks(body) : EvalStackUp(t, o))

ByLink(link) == IF link = 0 THEN Invalid ELSE Verdict(StatusIsExpected(link))

\* (By the link, dns goes by "2xx" whatever the task expects; the model gives
\* both the same codes.)
EvalDNS(body, link) ==
    CASE body.records # Absent -> Verdict(body.records > 0)
      [] body.records = Absent /\ body.error -> Verdict(FALSE)
      [] OTHER -> ByLink(link)

EvalFlatBody(body, link) ==
    CASE body.reachable # Absent ->
             Verdict(body.reachable /\ (body.code = Absent \/ StatusIsExpected(body.code)))
      [] body.reachable = Absent /\ body.ipv4 # Absent -> Verdict(body.ipv4.success)
      [] OTHER -> ByLink(link)

EvalSample(t, r) ==
    LET v == CASE t.type \in {"detail", "ssl"} -> EvalDualStack(t, r.body)
               [] t.type = "dns" -> EvalDNS(r.body, r.link)
               [] OTHER -> EvalFlatBody(r.body, r.link)
    IN  [up |-> v.up, invalid |-> v.invalid, slow |-> t.slowMs > 0 /\ r.lat > t.slowMs]

\* Halves are rounded away from zero (math.Round).
Rounded(n, d) == IF n >= 0 THEN (2 * n + d) \div (2 * d) ELSE -((2 * (-n) + d) \div (2 * d))

\* trueLatencyMs: what is stored with the sample, 0 if the body does not tell.
TrueLatency(t, body) ==
    LET times == SelectSeq(<<body.ipv4, body.ipv6>>, LAMBDA o : o # Absent /\ o.time > 0)
        sum == FoldLeft(LAMBDA n, o : n + o.time, 0, times)
    IN  IF t.type \in {"detail", "ssl", "tcping"}
        THEN IF times = <<>> THEN 0 ELSE Rounded(sum, Len(times))
        ELSE body.took

-----------------------------------------------------------------------------
\* computeTaskSlaRange, for the rows of one node, in the order of their ids.
NoAgg == [samples |-> 0, up |-> 0, down |-> 0, invalid |-> 0, slow |-> 0,
          latestAt |-> 0, latestUp |-> FALSE, lats |-> <<>>]

Bit(b) == IF b THEN 1 ELSE 0

AddRow(t, a, r) ==
    LET ev == EvalSample(t, r)
        latest == r.at >= a.latestAt
    IN  IF ev.invalid THEN [a EXCEPT !.samples = @ + 1, !.invalid = @ + 1]
        ELSE [a EXCEPT !.samples = @ + 1,
                       !.up = @ + Bit(ev.up),
                       !.down = @ + Bit(~ev.up),
                       !.slow = @ + Bit(ev.slow),
                       !.lats = IF ev.up THEN Append(@, r.lat) ELSE @,
                       !.latestAt = IF latest THEN r.at ELSE @,
                       !.latestUp = IF latest THEN ev.up ELSE @]

Rate(n, d) == IF d > 0 THEN Rounded(n * 10000, d) ELSE 0

P95(lats) ==
    LET sorted == SortSeq(lats, LAMBDA x, y : x < y)
    IN  IF lats = <<>> THEN 0 ELSE sorted[((Len(lats) - 1) * 95) \div 100 + 1]

\* The numbers of a node's rows, which are added up in their order.
RowsOf(rows, n) == {i \in DOMAIN rows : rows[i].node = n}

NodeAgg(t, rows, n) ==
    LET a == MapThenFoldSet(LAMBDA r, acc : AddRow(t, acc, r), NoAgg, LAMBDA i : rows[i],
                            LAMBDA s : Max(s), RowsOf(rows, n))
    IN  [samples |-> a.samples, up |-> a.up, down |-> a.down, invalid |-> a.invalid,
         slow |-> a.slow, latestAt |-> a.latestAt, latestUp |-> a.latestUp,
         availability |-> Rate(a.up, a.samples),
         metRate |-> Rate(a.up - a.slow, a.samples),
         avgMs |-> IF a.lats = <<>> THEN 0 ELSE Rounded(SumFunction(a.lats), Len(a.lats)),
         maxMs |-> IF a.lats = <<>> THEN 0 ELSE Max(ToSet(a.lats)),
         p95Ms |-> P95(a.lats)]

\* byNode: the nodes that have rows.
ComputeTaskSla(t, rows) ==
    [n \in {rows[i].node : i \in DOMAIN rows} |-> NodeAgg(t, rows, n)]

\* slaSugar: the task as a whole; its availability is rounded down.
SlaSugar(byNode, total) ==
    LET up == SumFunction([n \in DOMAIN byNode |-> byNode[n].up])
        down == SumFunction([n \in DOMAIN byNode |-> byNode[n].down])
        weight == SumFunction([n \in DOMAIN byNode |-> byNode[n].avgMs * byNode[n].up])
    IN  [samples |-> total, up |-> up, down |-> down,
         availability |-> IF up + down = 0 THEN 0 ELSE (up * 10000) \div (up + down),
         avgMs |-> IF up = 0 THEN 0 ELSE weight \div up,
         maxMs |-> Max({byNode[n].maxMs : n \in DOMAIN byNode} \cup {0}),
         p95Ms |-> Max({byNode[n].p95Ms : n \in DOMAIN byNode} \cup {0})]

-----------------------------------------------------------------------------
\* roundAgg.add and the merging of rounds that are next to each other.
NoPoint == [samples |-> 0, valid |-> 0, up |-> 0, down |-> 0, sumMs |-> 0]

AddSample(t, g, r) ==
    LET ev == EvalSample(t, r)
    IN  [samples |-> g.samples + 1, valid |-> g.valid + Bit(~ev.invalid),
         up |-> g.up + Bit(ev.up), down |-> g.down + Bit(~ev.up /\ ~ev.invalid),
         sumMs |-> g.sumMs + IF ev.up THEN r.lat ELSE 0]

Merged(g, x) == [f \in DOMAIN g |-> g[f] + x[f]]

PointAt(t, rows, at) ==
    FoldLeft(LAMBDA g, r : AddSample(t, g, r), NoPoint,
             SelectSeq(rows, LAMBDA r : r.at = at))

\* Mutant: the last points do not fill a group and are left out.
Mut_FullGroups(t, rows) ==
    LET keys == SetToSortSeq({rows[i].at : i \in DOMAIN rows}, <)
        merge == IF Len(keys) > MaxPoints THEN (Len(keys) + MaxPoints - 1) \div MaxPoints ELSE 1
        groups == Len(keys) \div merge
    IN  [p \in 1..groups |->
            FoldLeft(LAMBDA g, at : Merged(g, PointAt(t, rows, at)), NoPoint,
                     SubSeq(keys, (p - 1) * merge + 1, p * merge))]

RowsToRoundSeries(t, rows) ==
    LET keys == SetToSortSeq({rows[i].at : i \in DOMAIN rows}, <)
        merge == IF Len(keys) > MaxPoints THEN (Len(keys) + MaxPoints - 1) \div MaxPoints ELSE 1
        groups == (Len(keys) + merge - 1) \div merge
    IN  [p \in 1..groups |->
            FoldLeft(LAMBDA g, at : Merged(g, PointAt(t, rows, at)), NoPoint,
                     SubSeq(keys, (p - 1) * merge + 1, Min({p * merge, Len(keys)})))]

\* rowsToSeries: the same rows by steps of time, for the tasks of a board.
RowsToSeries(t, rows, step) ==
    LET bucket(r) == r.at - (r.at % step)
        keys == SetToSortSeq({bucket(rows[i]) : i \in DOMAIN rows}, <)
    IN  [p \in DOMAIN keys |->
            FoldLeft(LAMBDA g, r : AddSample(t, g, r), NoPoint,
                     SelectSeq(rows, LAMBDA r : bucket(r) = keys[p]))]

PointRate(g) == Rate(g.up, g.valid)
=============================================================================
