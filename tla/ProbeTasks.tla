----------------------------- MODULE ProbeTasks -----------------------------
(***************************************************************************)
(* Scheduled probes and their alerts (task.go, task_routes.go).            *)
(*                                                                         *)
(* A loop lists the enabled tasks every second and starts a round, a       *)
(* goroutine, for each that is due and has none running; the round probes  *)
(* with the row as it was listed, stores its samples, counts rounds that   *)
(* failed and tells the owner.  Administrators and owners create, edit,    *)
(* switch and delete tasks meanwhile, in several statements without a      *)
(* transaction.  What a probe returns is a choice here: up, down, or       *)
(* nothing that counts (evalSample); sharing and the rest of a task's      *)
(* columns are left out.  Ids are never used twice.                        *)
(***************************************************************************)
EXTENDS Integers, FiniteSets

CONSTANTS Tasks,       \* ids of tasks
          Handlers,    \* request handlers in flight at most
          Rounds,      \* rounds at once
          NoTask,
          Limit,       \* USER_TASK_LIMIT (0: no limit)
          Threshold,   \* ALERT_CONF.DownThreshold
          MaxStarted,  \* bound: requests started
          MaxRestarts  \* bound: restarts of the server

ASSUME TasksAssumption ==
    /\ NoTask \notin Tasks /\ IsFiniteSet(Handlers)
    /\ Limit \in Nat /\ Threshold \in Nat \ {0}
    /\ {MaxStarted, MaxRestarts} \subseteq Nat

VARIABLES row,      \* [Tasks -> probe_tasks row, as far as the models tells]
          used,     \* ids that were given out
          samples,  \* tasks that have samples stored
          doing,    \* what each handler is doing
          sched,    \* what the scheduler is doing
          due,      \* tasks whose next round may start: next[t] is past or unset
          taskRun,  \* tasks with a round in flight, as the scheduler knows
          round,    \* [Rounds -> what the round is doing]
          streak,   \* alertStreak
          fired,    \* alertFired
          started, boots,
          downs,    \* history: rounds noted as down since one was up, Threshold at most
          told,     \* history: "yes" after "sla_down", "lost" if that notice was not sent,
                    \* until the task is up again
          crossed,  \* history: tasks of which two requests were under way at once
          left      \* history: [Tasks -> how the last creation, switch or deletion left it]

probes == <<row, used, samples, doing, sched, due, taskRun, round, streak, fired, started,
            boots, downs, told>>
tasksVars == <<probes, crossed, left>>
taskStore == <<row, used, samples>>
scheduler == <<sched, due, taskRun>>
alerts == <<streak, fired, downs, told>>
bounds == <<started, boots>>

Row == [on : BOOLEAN, recover : BOOLEAN]   \* Enabled, NotifyRecover
NoRow == [on |-> FALSE, recover |-> TRUE]  \* of a task that does not exist
MaybeRow == {[is |-> FALSE, row |-> NoRow]} \cup [is : {TRUE}, row : Row]
Missing == [is |-> FALSE, row |-> NoRow]
Present(r) == [is |-> TRUE, row |-> r]
On(t) == row[t].is /\ row[t].row.on

NoRequest == [at |-> "idle", t |-> NoTask, row |-> NoRow]
TaskHandler == [at : {"idle", "create", "put", "switch", "samples", "row", "alerts"},
                t : Tasks \cup {NoTask}, row : Row]
NoTick == [at |-> "idle", todo |-> {}, seen |-> [t \in Tasks |-> NoRow]]
NoRound == [at |-> "free", t |-> NoTask, row |-> NoRow, kind |-> "none"]
Round == [at : {"free", "probe", "note", "tell", "end"}, t : Tasks \cup {NoTask}, row : Row,
          kind : {"none", "up", "down", "sla_up", "sla_down"}]

Start(r, at, t) ==
    /\ doing[r] = NoRequest /\ started < MaxStarted
    /\ doing' = [doing EXCEPT ![r] = [at |-> at, t |-> t, row |-> row[t].row]]
    /\ started' = started + 1
    /\ UNCHANGED <<taskStore, scheduler, round, alerts, boots>>

Done(r) == doing' = [doing EXCEPT ![r] = NoRequest]

-----------------------------------------------------------------------------
\* POST /tasks: the user's tasks are counted before the row is created (the
\* tasks of the model are those of one user; administrators have no limit).
StartCreate(r, t) ==
    /\ Limit = 0 \/ Cardinality({x \in Tasks : row[x].is}) < Limit
    /\ t \notin used
    /\ Start(r, "create", t)

\* The row gets the next id; if that is not t any more, it is one of the tasks
\* the model does not follow.
InsertTask(r, new) ==
    LET t == doing[r].t
    IN  /\ doing[r].at = "create"
        /\ IF t \in used THEN UNCHANGED <<row, used>>
           ELSE row' = [row EXCEPT ![t] = Present(new)] /\ used' = used \cup {t}
        /\ Done(r)
        /\ UNCHANGED <<samples, scheduler, round, alerts, bounds>>

\* PUT /tasks/:id: the row is read, then every column is saved; the switch
\* keeps the value that was read, and a row deleted meanwhile is inserted.
StartPut(r, t) == row[t].is /\ Start(r, "put", t)

SaveTask(r, recover) ==
    /\ doing[r].at = "put"
    /\ row' = [row EXCEPT ![doing[r].t] = Present([doing[r].row EXCEPT !.recover = recover])]
    /\ Done(r)
    /\ UNCHANGED <<used, samples, scheduler, round, alerts, bounds>>

\* PATCH /tasks/:id/enabled.
StartSwitch(r, t) == row[t].is /\ Start(r, "switch", t)

SwitchTask(r, on) ==
    LET t == doing[r].t
    IN  /\ doing[r].at = "switch"
        /\ row' = [row EXCEPT ![t] = IF @.is THEN Present([@.row EXCEPT !.on = on]) ELSE @]
        /\ Done(r)
        /\ UNCHANGED <<used, samples, scheduler, round, alerts, bounds>>

\* DELETE /tasks/:id: samples, row, then what the alerts remember.
StartDelete(r, t) == row[t].is /\ Start(r, "samples", t)

DeleteSamples(r) ==
    /\ doing[r].at = "samples"
    /\ samples' = samples \ {doing[r].t}
    /\ doing' = [doing EXCEPT ![r].at = "row"]
    /\ UNCHANGED <<row, used, scheduler, round, alerts, bounds>>

DeleteRow(r) ==
    /\ doing[r].at = "row"
    /\ row' = [row EXCEPT ![doing[r].t] = Missing]
    /\ doing' = [doing EXCEPT ![r].at = "alerts"]
    /\ UNCHANGED <<used, samples, scheduler, round, alerts, bounds>>

Forgotten(s) == IF s = "no" THEN "no" ELSE "forgotten"

ResetTaskAlerts(r) ==
    LET t == doing[r].t
    IN  /\ doing[r].at = "alerts"
        /\ streak' = [streak EXCEPT ![t] = 0]
        /\ fired' = fired \ {t}
        /\ told' = [told EXCEPT ![t] = Forgotten(@)]
        /\ Done(r)
        /\ UNCHANGED <<taskStore, scheduler, round, downs, bounds>>

-----------------------------------------------------------------------------
\* schedulerLoop: the enabled tasks are listed, ...
Tick ==
    /\ sched.at = "idle"
    /\ sched' = [at |-> "loop", todo |-> {t \in Tasks : On(t)},
                 seen |-> [t \in Tasks |-> IF On(t) THEN row[t].row ELSE NoRow]]
    /\ UNCHANGED <<taskStore, doing, due, taskRun, round, alerts, bounds>>

\* Mutant: it is not looked up whether a round is running.
Mut_AlwaysStarts(t) ==
    /\ sched.at = "loop" /\ t \in sched.todo
    /\ sched' = [sched EXCEPT !.todo = @ \ {t}]
    /\ IF t \notin due
       THEN UNCHANGED <<due, taskRun, round>>
       ELSE \E x \in Rounds :
               /\ round[x] = NoRound
               /\ round' = [round EXCEPT ![x] = [NoRound EXCEPT !.at = "probe", !.t = t,
                                                             !.row = sched.seen[t]]]
               /\ taskRun' = taskRun \cup {t}
               /\ due' = due \ {t}
    /\ UNCHANGED <<taskStore, doing, alerts, bounds>>

\* ... and those due get a round, unless the one before is still running.
ScheduleTask(t) ==
    /\ sched.at = "loop" /\ t \in sched.todo
    /\ sched' = [sched EXCEPT !.todo = @ \ {t}]
    /\ IF t \notin due \/ t \in taskRun
       THEN UNCHANGED <<due, taskRun, round>>
       ELSE \E x \in Rounds :
               /\ round[x] = NoRound
               /\ round' = [round EXCEPT ![x] = [NoRound EXCEPT !.at = "probe", !.t = t,
                                                             !.row = sched.seen[t]]]
               /\ taskRun' = taskRun \cup {t}
               /\ due' = due \ {t}
    /\ UNCHANGED <<taskStore, doing, alerts, bounds>>

\* What next remembers of tasks that were not listed is dropped.
TickEnds ==
    /\ sched.at = "loop" /\ sched.todo = {}
    /\ due' = due \cup {t \in Tasks : sched.seen[t] = NoRow}
    /\ sched' = NoTick
    /\ UNCHANGED <<taskStore, doing, taskRun, round, alerts, bounds>>

\* Time passes: the interval of the task is over.
BecomesDue(t) ==
    /\ t \notin due
    /\ due' = due \cup {t}
    /\ UNCHANGED <<taskStore, doing, sched, taskRun, round, alerts, bounds>>

-----------------------------------------------------------------------------
\* runTaskSamples: no node is on line, or the samples cannot be stored, ...
RoundEmpty(x) ==
    /\ round[x].at = "probe"
    /\ round' = [round EXCEPT ![x].at = "end"]
    /\ UNCHANGED <<taskStore, doing, scheduler, alerts, bounds>>

\* ... or they are, and whether one was up, all were down or none counts.
RoundSamples(x, outcome) ==
    /\ round[x].at = "probe"
    /\ samples' = samples \cup {round[x].t}
    /\ round' = [round EXCEPT ![x].at = IF outcome = "none" THEN "end" ELSE "note",
                              ![x].kind = outcome]
    /\ UNCHANGED <<row, used, doing, scheduler, alerts, bounds>>

Capped(n) == IF n < Threshold THEN n ELSE Threshold

\* Mutant: a round that is up leaves the streak alone.
Mut_StreakKept(t, outcome) == IF outcome = "up" THEN streak[t] ELSE Capped(streak[t] + 1)

StreakAfter(t, outcome) == IF outcome = "up" THEN 0 ELSE Capped(streak[t] + 1)

\* noteRoundOutcome, under alertMu.
NoteOutcome(x) ==
    LET t == round[x].t
        outcome == round[x].kind
        now == StreakAfter(t, outcome)
        down == outcome = "down" /\ now >= Threshold /\ t \notin fired
        up == outcome = "up" /\ t \in fired /\ round[x].row.recover
    IN  /\ round[x].at = "note"
        /\ streak' = [streak EXCEPT ![t] = now]
        /\ fired' = IF outcome = "up" THEN fired \ {t} ELSE IF down THEN fired \cup {t} ELSE fired
        /\ round' = [round EXCEPT
               ![x].at = IF down \/ up THEN "tell" ELSE "end",
               ![x].kind = IF down THEN "sla_down" ELSE IF up THEN "sla_up" ELSE "none"]
        /\ downs' = [downs EXCEPT ![t] = IF outcome = "up" THEN 0 ELSE Capped(@ + 1)]
        /\ told' = [told EXCEPT ![t] = IF outcome = "up" /\ ~up THEN "no" ELSE @]
        /\ UNCHANGED <<taskStore, doing, scheduler, bounds>>

\* notifyUser; alertMu is free by now, and a deletion may have reset fired.
TellOwner(x) ==
    LET t == round[x].t
    IN  /\ round[x].at = "tell"
        /\ round' = [round EXCEPT ![x].at = "end", ![x].kind = "none"]
        /\ told' = [told EXCEPT ![t] = IF round[x].kind = "sla_up" THEN "no"
                                       ELSE IF t \in fired THEN "yes" ELSE "forgotten"]
        /\ UNCHANGED <<taskStore, doing, scheduler, streak, fired, downs, bounds>>

\* ... unless alerts are switched off, the task has no owner or the owner
\* cannot be read: fired says already that the outage, or its end, was told.
NotTold(x) ==
    LET t == round[x].t
    IN  /\ round[x].at = "tell"
        /\ round' = [round EXCEPT ![x].at = "end", ![x].kind = "none"]
        /\ told' = [told EXCEPT ![t] = IF round[x].kind = "sla_down" /\ t \in fired
                                       THEN "lost" ELSE "no"]
        /\ UNCHANGED <<taskStore, doing, scheduler, streak, fired, downs, bounds>>

\* Mutant: the end of a round is not marked.
Mut_NotReleased(x) ==
    /\ round[x].at = "end"
    /\ round' = [round EXCEPT ![x] = NoRound]
    /\ UNCHANGED <<taskStore, doing, scheduler, alerts, bounds>>

RoundEnds(x) ==
    /\ round[x].at = "end"
    /\ taskRun' = taskRun \ {round[x].t}
    /\ round' = [round EXCEPT ![x] = NoRound]
    /\ UNCHANGED <<taskStore, doing, sched, due, alerts, bounds>>

\* The server starts again; rounds, alerts and the scheduler's memory are gone.
RestartScheduler ==
    /\ boots < MaxRestarts
    /\ boots' = boots + 1
    /\ doing' = [r \in Handlers |-> NoRequest]
    /\ sched' = NoTick /\ due' = Tasks /\ taskRun' = {}
    /\ round' = [x \in Rounds |-> NoRound]
    /\ streak' = [t \in Tasks |-> 0] /\ fired' = {}
    /\ told' = [t \in Tasks |-> Forgotten(told[t])]
    /\ UNCHANGED <<taskStore, started, downs>>

TasksInit ==
    /\ row = [t \in Tasks |-> Missing] /\ used = {} /\ samples = {}
    /\ doing = [r \in Handlers |-> NoRequest] /\ started = 0 /\ boots = 0
    /\ sched = NoTick /\ due = Tasks /\ taskRun = {}
    /\ round = [x \in Rounds |-> NoRound]
    /\ streak = [t \in Tasks |-> 0] /\ fired = {}
    /\ downs = [t \in Tasks |-> 0] /\ told = [t \in Tasks |-> "no"]
    /\ crossed = {} /\ left = [t \in Tasks |-> "gone"]

Request(r) ==
    \/ \E t \in Tasks : StartCreate(r, t) \/ StartPut(r, t) \/ StartSwitch(r, t) \/ StartDelete(r, t)
    \/ \E new \in Row : InsertTask(r, new)
    \/ \E b \in BOOLEAN : SaveTask(r, b) \/ SwitchTask(r, b)
    \/ DeleteSamples(r) \/ DeleteRow(r) \/ ResetTaskAlerts(r)
SchedulerStep == Tick \/ TickEnds \/ \E t \in Tasks : ScheduleTask(t)
RoundStep(x) ==
    \/ RoundEmpty(x) \/ NoteOutcome(x) \/ TellOwner(x) \/ NotTold(x) \/ RoundEnds(x)
    \/ \E outcome \in {"up", "down", "none"} : RoundSamples(x, outcome)

TasksStep ==
    \/ \E r \in Handlers : Request(r)
    \/ SchedulerStep \/ \E x \in Rounds : RoundStep(x)
    \/ \E t \in Tasks : BecomesDue(t)
    \/ RestartScheduler

Switch(r) == IF ~r.is THEN "gone" ELSE IF r.row.on THEN "on" ELSE "off"

\* The endpoints whose business it is whether a task is there and enabled.
Switches(t) ==
    \E r \in Handlers : /\ doing[r].t = t /\ doing[r].at \in {"create", "switch", "row"}
                        /\ doing'[r] # doing[r]

TasksNext ==
    /\ TasksStep
    /\ crossed' = crossed \cup {t \in Tasks : Cardinality({r \in Handlers : doing'[r].t = t}) > 1}
    /\ left' = [t \in Tasks |-> IF t \in crossed' THEN "gone"
                                ELSE IF Switches(t) THEN Switch(row'[t]) ELSE left[t]]

TasksSpec == TasksInit /\ [][TasksNext]_tasksVars

\* The loop and the rounds run, probes end in time-outs, and time passes.
TasksFairSpec == /\ TasksSpec /\ WF_probes(SchedulerStep)
                 /\ \A x \in Rounds : WF_probes(RoundStep(x))
                 /\ \A t \in Tasks : WF_probes(BecomesDue(t))

-----------------------------------------------------------------------------
\* The types of the variables.
TasksTypeOK ==
    /\ row \in [Tasks -> MaybeRow] /\ used \subseteq Tasks /\ samples \subseteq used
    /\ doing \in [Handlers -> TaskHandler] /\ started \in 0..MaxStarted /\ boots \in 0..MaxRestarts
    /\ sched.at \in {"idle", "loop"} /\ sched.todo \subseteq used
    /\ sched.seen \in [Tasks -> Row]
    /\ due \subseteq Tasks /\ taskRun \subseteq used
    /\ round \in [Rounds -> Round]
    /\ streak \in [Tasks -> 0..Threshold] /\ fired \subseteq used
    /\ downs \in [Tasks -> 0..Threshold] /\ told \in [Tasks -> {"no", "yes", "lost", "forgotten"}]
    /\ crossed \subseteq Tasks /\ left \in [Tasks -> {"gone", "off", "on"}]

RoundsOf(t) == {x \in Rounds : round[x].t = t}

\* "任务级串行：上一轮未完成跳过本轮" (task.go:205): a task has one round at a time, from
\* its first probe to its last notice, through edits, deletions and restarts.
OneRoundAtATime ==
    /\ \A t \in Tasks : Cardinality(RoundsOf(t)) <= 1
    /\ taskRun = {t \in Tasks : RoundsOf(t) # {}}

\* "编辑不改所有者 / 运行状态 / 分享令牌（启停与分享各有专用接口）" (task_routes.go:180): a task is
\* there and enabled as its creation, its last switch or its deletion left it,
\* however often it was edited since, unless requests about it overlapped.
SwitchStands == \A t \in Tasks \ crossed : Switch(row[t]) = left[t]

\* Rows have their types, rounds do not overlap, and edits leave the switch
\* alone (task.go:205-243, task_routes.go:159-190).
TasksInv == TasksTypeOK /\ OneRoundAtATime /\ SwitchStands

\* "连续 N 轮整组 down → 通知任务所有者" (task.go:299): who is told that a task is down has
\* not been told since it was up, nor was a notice of it lost, and its last N
\* rounds were down; who is told that it is up has been told that it was down,
\* unless that notice was lost (task.go:345-351), which is never made up for,
\* and it still is up.  After a deletion or a restart an outage may be told again.
AlertsTellTheTruth ==
    \A x \in Rounds : round[x].at = "tell" =>
        LET t == round[x].t
        IN  IF round[x].kind = "sla_down"
            THEN downs[t] = Threshold /\ told[t] \notin {"yes", "lost"}
            ELSE downs[t] = 0 /\ told[t] # "no"

\* An enabled task gets round after round (task.go:207-240), however often it is
\* edited, whatever its rounds find, and over a restart.
RoundsKeepComing ==
    \A t \in Tasks :
        /\ (On(t) /\ RoundsOf(t) = {}) ~> (RoundsOf(t) # {} \/ ~On(t))
        /\ RoundsOf(t) # {} ~> RoundsOf(t) = {}
=============================================================================
