------------------------------ MODULE Measures ------------------------------
(***************************************************************************)
(* What the server tells of the past: how long a node was on line and what *)
(* a donated day counts for (Uptime), and how a task's samples add up      *)
(* (SlaEval), while the events and samples they are computed from are      *)
(* written, judged anew and deleted (presence.go, task.go, report.go,      *)
(* maintenance.go).                                                        *)
(*                                                                         *)
(* Nothing that is told is stored: the properties compare it, whenever     *)
(* somebody may ask, with what was written.  The two halves share the      *)
(* clock only, and a behaviour feeds one of them (fed).  How writes of     *)
(* one node interleave is NodePresence's subject; here each is one step.   *)
(***************************************************************************)
EXTENDS Uptime, SlaEval

CONSTANTS Probers,     \* nodes that probe
          Retention,   \* DATA_RETENTION_DAYS, in ticks
          WindowsKept, \* how long a window that is over is kept
          Lookback,    \* days that the settlement goes back at most
          Plans,       \* maintenance windows that may be asked for
          FirstTask, Judgings,  \* how the task judges at first, and may be told to
          Answers,     \* [body, link]: what a probe may come to
          MaxTime, MaxRounds, MaxWrites, MaxEdits   \* bounds

ASSUME MeasuresAssumption ==
    /\ Day \in Nat \ {0} /\ Step \in Nat \ {0} /\ Day % Step = 0
    /\ Retention \in Nat /\ IsFiniteSet(Probers)
    /\ MaxPoints \in Nat \ {0}
    /\ {WindowsKept, Lookback, MaxTime, MaxRounds, MaxWrites, MaxEdits} \subseteq Nat

VARIABLES fed,       \* the half of the store that is fed
          now,
          nodeRow,   \* the node's row: Nil or [online, since]
          events,    \* node_events of the node
          windows,   \* maintenance_windows that cover it
          rows,      \* probe_results of the task
          task,
          writes, edits,
          lastGone   \* history: the last event that retention deleted

measuresVars == <<fed, now, nodeRow, events, windows, rows, task, writes, edits, lastGone>>
presence == <<nodeRow, events, windows, writes, lastGone>>
probing == <<rows, task, edits>>

Wrote == writes < MaxWrites /\ writes' = writes + 1

-----------------------------------------------------------------------------
TimePasses ==
    /\ now < IF fed = "events" THEN MaxTime ELSE MaxRounds
    /\ now' = now + 1
    /\ UNCHANGED <<fed, presence, probing>>

\* recordNodeOnline: the row is made or marked, and the change written down.
NodeOnline ==
    /\ fed = "events" /\ Wrote
    /\ nodeRow # Nil => ~nodeRow.online
    /\ nodeRow' = [online |-> TRUE, since |-> IF nodeRow = Nil THEN now ELSE nodeRow.since]
    /\ events' = Append(events, [at |-> now, event |-> "online"])
    /\ UNCHANGED <<fed, now, windows, lastGone, probing>>

NodeOffline ==
    /\ fed = "events" /\ Wrote
    /\ nodeRow # Nil /\ nodeRow.online
    /\ nodeRow' = [nodeRow EXCEPT !.online = FALSE]
    /\ events' = Append(events, [at |-> now, event |-> "offline"])
    /\ UNCHANGED <<fed, now, windows, lastGone, probing>>

\* markAllNodesOffline: the row is marked at start-up, and nothing written down.
MarkOffline ==
    /\ fed = "events" /\ Wrote
    /\ nodeRow # Nil /\ nodeRow.online
    /\ nodeRow' = [nodeRow EXCEPT !.online = FALSE]
    /\ UNCHANGED <<fed, now, events, windows, lastGone, probing>>

\* DELETE /nodes/:nodeId: the row goes, its events stay.
DeleteNode ==
    /\ fed = "events" /\ Wrote
    /\ nodeRow # Nil
    /\ nodeRow' = Nil
    /\ UNCHANGED <<fed, now, events, windows, lastGone, probing>>

AddWindow(w) ==
    /\ fed = "events" /\ Wrote
    /\ Sensible(w)
    /\ windows' = windows \cup {w}
    /\ UNCHANGED <<fed, now, nodeRow, events, lastGone, probing>>

DropWindow(w) ==
    /\ fed = "events" /\ Wrote
    /\ w \in windows
    /\ windows' = windows \ {w}
    /\ UNCHANGED <<fed, now, nodeRow, events, lastGone, probing>>

\* Samples are stored in the order of their time: the old ones come first.
SamplesSince(cutoff) ==
    SubSeq(rows, Cardinality({i \in DOMAIN rows : rows[i].at < cutoff}) + 1, Len(rows))

\* retentionLoop, every hour: samples, events and windows of long ago.
Purge ==
    LET cutoff == now - Retention
        gone == SelectSeq(events, LAMBDA e : e.at < cutoff)
    IN  /\ events' = SelectSeq(events, LAMBDA e : e.at >= cutoff)
        /\ rows' = SamplesSince(cutoff)
        /\ windows' = {w \in windows : w.daily \/ w.end >= now - WindowsKept}
        /\ lastGone' = IF gone = <<>> THEN lastGone ELSE Last(gone)
        /\ UNCHANGED <<fed, now, nodeRow, task, writes, edits>>

-----------------------------------------------------------------------------
\* runTaskSamples: one sample of each node on line, stored as one batch under
\* the time at which the round began.
StoreRound(got) ==
    LET order == SetToSeq(DOMAIN got)
        sample(n) == [node |-> n, at |-> now, body |-> got[n].body, link |-> got[n].link,
                      lat |-> TrueLatency(task, got[n].body)]
    IN  /\ fed = "samples"
        /\ \A i \in DOMAIN rows : rows[i].at < now
        /\ rows' = rows \o [i \in DOMAIN order |-> sample(order[i])]
        /\ UNCHANGED <<fed, now, presence, task, edits>>

\* PUT /tasks/:id: from now on all samples are judged another way.
EditTask(t) ==
    /\ fed = "samples" /\ edits < MaxEdits
    /\ edits' = edits + 1
    /\ task' = t
    /\ UNCHANGED <<fed, now, presence, rows>>

MeasuresInit ==
    /\ fed \in {"events", "samples"}
    /\ now = 0 /\ nodeRow = Nil /\ events = <<>> /\ windows = {} /\ rows = <<>>
    /\ task = FirstTask /\ writes = 0 /\ edits = 0 /\ lastGone = Nil

MeasuresNext ==
    \/ TimePasses \/ Purge
    \/ NodeOnline \/ NodeOffline \/ MarkOffline \/ DeleteNode
    \/ \E w \in Plans : AddWindow(w) \/ DropWindow(w)
    \/ \E N \in SUBSET Probers \ {{}} : \E got \in [N -> Answers] : StoreRound(got)
    \/ \E t \in Judgings : EditTask(t)

MeasuresSpec == MeasuresInit /\ [][MeasuresNext]_measuresVars

-----------------------------------------------------------------------------
\* The types of the variables.
MeasuresTypeOK ==
    /\ fed \in {"events", "samples"} /\ now \in Nat
    /\ nodeRow = Nil \/ (nodeRow.online \in BOOLEAN /\ nodeRow.since \in 0..now)
    /\ \A i \in DOMAIN events : events[i].event \in {"online", "offline"} /\ events[i].at <= now
    /\ windows \subseteq Plans /\ task \in Judgings \cup {FirstTask}
    /\ \A i \in DOMAIN rows : rows[i].node \in Probers /\ rows[i].lat \in Nat
    /\ writes \in 0..MaxWrites /\ edits \in 0..MaxEdits

\* What was written of the node at tick t, deleted events included.
Written == (IF lastGone = Nil THEN <<>> ELSE <<lastGone>>) \o events
Told(t) == LET past == SelectSeq(Written, LAMBDA e : e.at <= t)
           IN  IF past = <<>> THEN "none" ELSE Last(past).event
Ticks(state, from, to) == Cardinality({t \in from..(to - 1) : Told(t) = state})

\* Retention has deleted the event that tells how a window starts.
StartForgotten(from) == lastGone # Nil /\ Prior(events, from) = Nil

\* clampUptimeRange.
Windows == {from \in 0..now : from >= now - Retention}

\* "起点状态取窗口前最后一条事件；首次 online 之前不计" (uptime.go:12): whoever asks, whenever,
\* hears of as many ticks on line and off line as the events that were ever
\* written tell, from the time the node's row is there, however often the
\* server or the node began again, unless retention deleted the event the
\* window starts from.  The days add up to the whole, and an outage counts
\* once.
UptimeTellsTheEvents ==
    nodeRow # Nil => \A from \in Windows : ~StartForgotten(from) =>
        LET walk == UptimeForNode(events, from, now)
            st == BuildStats(nodeRow, walk, from, now)
            daily == [d \in Days(st.from, now) |-> DayStats(d, walk.iv, st.from, now)]
            total(f) == SumFunction([d \in DOMAIN daily |-> daily[d][f]])
        IN  /\ st.on = Ticks("online", st.from, now)
            /\ st.off = Ticks("offline", st.from, now)
            /\ total("seconds") = st.seconds /\ total("off") = st.off
            /\ total("downs") = Len(SelectSeq(walk.iv, LAMBDA x :
                                      st.from <= x.start /\ x.start < now))

PastDays == {d \in 0..(now \div Day) : (d + 1) * Day <= now /\ now < (d + 1 + Lookback) * Day}
\* A window by what was asked for: a stretch of time, or the same one each day.
Planned(w, t) == IF w.daily THEN (t - w.start) % Day < (w.end - w.start) % Day
                 ELSE t \in w.start..(w.end - 1)
Outages(from, to) == Len(UptimeForNode(events, from, to).iv)

\* "维护窗口内的离线时长不计入「捐赠节点在线奖励」的扣减" (maintenance.go:17): what a day counts for
\* is the time on line and the time off line under a window, but for the rest
\* of one look at each end of an outage or of a window; whatever was planned,
\* by clock or by date, before the day or after it.
DaysCountForWhatTheyWere ==
    nodeRow # Nil => \A d \in PastDays : ~StartForgotten(d * Day) =>
        LET from == d * Day
            to == from + Day
            served == Cardinality({t \in from..(to - 1) :
                          \/ Told(t) = "online" /\ t >= nodeRow.since
                          \/ Told(t) = "offline" /\ \E w \in windows : Planned(w, t)})
            counted == SettledOnline(nodeRow, events, windows, from, to)
            slack == (Step - 1) * (Outages(from, to) + Cardinality(windows))
        IN  counted \in (served - slack)..(served + slack)

\* Of the samples of a node each is up, down or invalid, and none twice, so that
\* no rate is beyond 100% (sla_eval.go:304-340).
CountedOnce(a) ==
    a.samples = a.up + a.down + a.invalid /\ a.availability \in 0..10000

\* The sums of computeTaskSlaRange, slaSugar and the curves agree: every sample
\* counts once, whoever adds it up; a curve of merged rounds, or of steps of
\* time, has all of them and no more points than it may; the latest sample told
\* is the latest that counts.  "Met" is never too high, as a slow sample that is
\* down is taken off too.
SumsAgree ==
    LET byNode == ComputeTaskSla(task, rows)
        sugar == SlaSugar(byNode, Len(rows))
        series == RowsToRoundSeries(task, rows)
        steps == RowsToSeries(task, rows, Step)
        of(s, f) == SumFunction([p \in DOMAIN s |-> s[p][f]])
        judged(n) == SelectSeq(rows, LAMBDA r : r.node = n /\ ~EvalSample(task, r).invalid)
        met(n) == Len(SelectSeq(judged(n), LAMBDA r :
                          LET ev == EvalSample(task, r) IN ev.up /\ ~ev.slow))
    IN  /\ Len(series) <= MaxPoints
        /\ \A s \in {series, steps} :
              /\ of(s, "samples") = sugar.samples
              /\ of(s, "up") = sugar.up /\ of(s, "down") = sugar.down
              /\ of(s, "valid") = sugar.up + sugar.down
              /\ \A p \in DOMAIN s : PointRate(s[p]) \in 0..10000
        /\ \A n \in DOMAIN byNode :
              LET a == byNode[n]
              IN  /\ CountedOnce(a) /\ a.metRate <= Rate(met(n), a.samples)
                  /\ a.p95Ms <= a.maxMs /\ a.maxMs <= sugar.maxMs
                  /\ judged(n) # <<>> => a.latestAt = Last(judged(n)).at

\* Stricter judgement in one respect or more, and nothing else changed.
Stricter(t, u) ==
    /\ t.type = u.type /\ t.slowMs = u.slowMs
    /\ \A f \in {"requireAll", "both", "certDown"} : t[f] => u[f]

\* "改判定配置即可重算历史" (sla_eval.go:19): to ask for both stacks, for both protocols or for
\* a valid certificate never makes a node look better, and never loses a
\* sample: what was invalid stays so.
StricterNeverRaises ==
    [][Stricter(task, task') /\ rows' = rows =>
          LET before == ComputeTaskSla(task, rows)
              after == ComputeTaskSla(task', rows')
          IN  \A n \in DOMAIN before : /\ after[n].up <= before[n].up
                                       /\ after[n].invalid = before[n].invalid]_measuresVars

\* The store has its types, and its sums agree (sla_eval.go:286-512).
MeasuresInv == MeasuresTypeOK /\ SumsAgree
=============================================================================
