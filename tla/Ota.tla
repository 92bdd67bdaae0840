--------------------------------- MODULE Ota --------------------------------
(***************************************************************************)
(* Upgrades of nodes (ota.go): an administrator's request sends a command  *)
(* and then records a task; the node's answers, its next registration and  *)
(* a reconciling loop race to give the task its verdict.                   *)
(*                                                                         *)
(* The row of a task is created after the node has answered the command,   *)
(* so everything that happens before finds no row.  A node is reached by a *)
(* connection whose read loop handles its frames, or only by HTTP; then    *)
(* its version is asked for, by the loop here and by the watcher of        *)
(* presence.go.  Nodes run any version, change it as they please and are   *)
(* external; so is the clock, which only tells tasks older than 15 minutes *)
(* from younger ones.  What a registration does besides is in              *)
(* NodePresence, the exchange of a command in NodeExchange.                *)
(***************************************************************************)
EXTENDS Naturals, Sequences, FiniteSets

CONSTANTS Nodes,
          Versions,    \* versions nodes run; 0 stands for none known
          First,       \* the version nodes are installed with
          Targets,     \* versions asked for; 0: a program by its URL
          Req,         \* request handlers in flight at most
          Conns,       \* read loops at once
          None,
          MaxAsk,      \* bound: upgrades asked for
          MaxTroubles  \* bound: restarts of the server and of nodes by their owners

ASSUME OtaAssumption ==
    /\ Versions \subseteq Nat \ {0} /\ First \in Versions
    /\ Targets \subseteq Versions \cup {0} /\ None \notin Conns /\ IsFiniteSet(Req)
    /\ {MaxAsk, MaxTroubles} \subseteq Nat

VARIABLES tasks,    \* ota_tasks, in the order of their ids
          version,  \* [Nodes -> nodes.version]
          h,        \* what each handler is doing
          link,     \* [Nodes -> the connection the node is on]
          loop,     \* [Conns -> what the read loop is doing]
          rec,      \* what the reconciler is doing
          watch,    \* [Nodes -> version the watcher has read, 0 if idle]
          asked,    \* commands sent, by which they are numbered
          troubles, \* restarts of the server, and of nodes by others, so far
          viaHttp,  \* nodes that are reached by HTTP only
          runs,     \* external: [Nodes -> the version it runs]
          cmd,      \* external: [command -> how far the node is with it]
          proved,   \* history: commands whose node, since, ran a version that hits
          blind     \* history: commands judged by the record of a node that was silent

vars == <<tasks, version, h, link, loop, rec, watch, asked, troubles, viaHttp, runs, cmd,
          proved, blind>>
store == <<tasks, version>>
server == <<h, link, loop, rec, watch>>
world == <<asked, troubles, viaHttp, runs, cmd, proved, blind>>

Known == Versions \cup {0}
Commands == 1..MaxAsk
Task == [n : Nodes, q : Commands, from : Known, target : Known,
         status : {"dispatched", "success", "failed"}, late : BOOLEAN]

Idle == [at |-> "idle", n |-> None, target |-> 0, from |-> 0, q |-> 0, ok |-> FALSE]
Handler == [at : {"idle", "checked", "wait", "http", "create"},
            n : Nodes \cup {None}, target : Known, from : Known, q : 0..MaxAsk, ok : BOOLEAN]

Free == [at |-> "free", n |-> None, v |-> 0, q |-> 0, ok |-> FALSE]
Loop == [at : {"free", "write", "find", "finish", "reading", "deliver", "update"},
         n : Nodes \cup {None}, v : Known, q : 0..MaxAsk, ok : BOOLEAN]

Resting == [at |-> "idle", todo |-> {}, v |-> 0]
Reconciler == [at : {"idle", "look", "live", "record", "judge", "blind"}, todo : SUBSET Commands, v : Known]

Command == [n : Nodes \cup {None}, target : Known, from : Known,
            at : {"none", "sent", "accepted", "failed", "done"}]
NoCommand == [n |-> None, target |-> 0, from |-> 0, at |-> "none"]

InFlight(i) == i \in DOMAIN tasks /\ tasks[i].status = "dispatched"
InFlightOf(n) == {i \in DOMAIN tasks : InFlight(i) /\ tasks[i].n = n}

\* otaVersionHit: the version asked for, or another than before.
Hit(t, v) == /\ v # 0
             /\ IF t.target # 0 THEN v = t.target ELSE t.from # 0 /\ v # t.from

\* Mutant: whoever comes last has the verdict.
Mut_LastWins(i, status) == [tasks EXCEPT ![i].status = status]

\* finishOTATask: the update is for a task that is still dispatched.
Finished(i, status) ==
    IF InFlight(i) THEN [tasks EXCEPT ![i].status = status] ELSE tasks

\* The command of s, with the version before it, and the commands n lives up to.
CommandOf(s, from, at) == [n |-> s.n, target |-> s.target, from |-> from, at |-> at]
LivedUpTo(commands, n, v) == {q \in Commands : commands[q].n = n /\ Hit(commands[q], v)}

Goto(r, at) == h' = [h EXCEPT ![r].at = at]

-----------------------------------------------------------------------------
\* POST /nodes/:nodeId/ota, for a node that does not deny the capability: no
\* task of the node is in flight, ...
StartUpgrade(r, n, target) ==
    /\ h[r] = Idle
    /\ asked + Cardinality({x \in Req : h[x].at = "checked"}) < MaxAsk
    /\ InFlightOf(n) = {}
    /\ h' = [h EXCEPT ![r] = [Idle EXCEPT !.at = "checked", !.n = n, !.target = target]]
    /\ UNCHANGED <<store, link, loop, rec, watch, world>>

\* ... the version before is the one on record, or that of a live answer, and
\* the command is sent by the connection, or else by HTTP.  On a connection
\* that is going down it is lost.
VersionBefore(n) == {version[n]} \cup IF n \in viaHttp THEN {runs[n]} ELSE {}

Dispatch(r) ==
    LET s == h[r]
        q == asked + 1
    IN  /\ s.at = "checked"
        /\ asked' = q
        /\ \E from \in VersionBefore(s.n), to \in {"wait", "http"} :
              /\ to = "http" => link[s.n] = None
              /\ to = "wait" => s.n \notin viaHttp
              /\ h' = [h EXCEPT ![r].at = to, ![r].from = from, ![r].q = q]
              /\ \/ to = "wait" /\ link[s.n] # None
                    /\ cmd' = [cmd EXCEPT ![q] = CommandOf(s, from, "sent")]
                 \/ UNCHANGED cmd
        /\ proved' = proved \cup LivedUpTo(cmd', s.n, runs[s.n])
        /\ UNCHANGED <<store, link, loop, rec, watch, troubles, viaHttp, runs, blind>>

\* Mutant: a command without an answer counts as accepted.
Mut_SilenceAccepts(r) ==
    /\ h[r].at = "wait"
    /\ h' = [h EXCEPT ![r].at = "create", ![r].ok = TRUE]
    /\ UNCHANGED <<store, link, loop, rec, watch, world>>

\* No answer in 15 s; the connection is tried for life and HTTP comes next.
TimesOut(r) ==
    /\ h[r].at = "wait"
    /\ Goto(r, "http")
    /\ UNCHANGED <<store, link, loop, rec, watch, world>>

\* The same command by HTTP; without a token or an address it fails at once.
PostByHttp(r) ==
    LET s == h[r]
    IN  /\ s.at = "http"
        /\ \/ /\ cmd' = [cmd EXCEPT ![s.q] =
                     IF @.at = "none" THEN CommandOf(s, s.from, "accepted") ELSE @]
              /\ h' = [h EXCEPT ![r].at = "create", ![r].ok = TRUE]
           \/ /\ UNCHANGED cmd
              /\ h' = [h EXCEPT ![r].at = "create", ![r].ok = FALSE]
        /\ proved' = proved \cup LivedUpTo(cmd', s.n, runs[s.n])
        /\ UNCHANGED <<store, link, loop, rec, watch, asked, troubles, viaHttp, runs, blind>>

CreateTask(r) ==
    LET s == h[r]
    IN  /\ s.at = "create"
        /\ tasks' = Append(tasks, [n |-> s.n, q |-> s.q, from |-> s.from, target |-> s.target,
                                   status |-> IF s.ok THEN "dispatched" ELSE "failed",
                                   late |-> FALSE])
        /\ h' = [h EXCEPT ![r] = Idle]
        /\ UNCHANGED <<version, link, loop, rec, watch, world>>

-----------------------------------------------------------------------------
\* A node dials in and registers with its version: the version is stored, ...
Dial(c, n) ==
    /\ n \notin viaHttp /\ link[n] = None /\ loop[c] = Free
    /\ link' = [link EXCEPT ![n] = c]
    /\ loop' = [loop EXCEPT ![c] = [Free EXCEPT !.at = "write", !.n = n, !.v = runs[n]]]
    /\ UNCHANGED <<store, h, rec, watch, world>>

StoreVersion(c) ==
    /\ loop[c].at = "write"
    /\ version' = [version EXCEPT ![loop[c].n] = loop[c].v]
    /\ loop' = [loop EXCEPT ![c].at = "find"]
    /\ UNCHANGED <<tasks, h, link, rec, watch, world>>

\* ... then its latest task in flight is looked up, and ended if it is hit.
FindTask(c) ==
    LET mine == InFlightOf(loop[c].n)
        last == CHOOSE i \in mine : \A j \in mine : j <= i
    IN  /\ loop[c].at = "find"
        /\ loop' = [loop EXCEPT ![c] =
               IF mine # {} /\ Hit(tasks[last], loop[c].v)
               THEN [@ EXCEPT !.at = "finish", !.q = last, !.v = 0]
               ELSE [@ EXCEPT !.at = "reading", !.v = 0]]
        /\ UNCHANGED <<store, h, link, rec, watch, world>>

FinishTask(c) ==
    /\ loop[c].at = "finish"
    /\ tasks' = Finished(loop[c].q, "success")
    /\ loop' = [loop EXCEPT ![c].at = "reading", ![c].q = 0]
    /\ UNCHANGED <<version, h, link, rec, watch, world>>

\* ota_result: the first answer to a command, a refusal included, goes to the
\* handler that waits, ...
DeliverResult(c) ==
    LET q == loop[c].q
    IN  /\ loop[c].at = "deliver"
        /\ h' = [r \in Req |-> IF h[r].at = "wait" /\ h[r].q = q
                               THEN [h[r] EXCEPT !.at = "create", !.ok = loop[c].ok] ELSE h[r]]
        /\ loop' = [loop EXCEPT ![c].at = "update"]
        /\ UNCHANGED <<store, link, rec, watch, world>>

\* ... every answer to the row with its request id: a failure is a verdict.
OnNodeResult(c) ==
    /\ loop[c].at = "update"
    /\ tasks' = [i \in DOMAIN tasks |->
           IF tasks[i].q = loop[c].q /\ ~loop[c].ok THEN Finished(i, "failed")[i] ELSE tasks[i]]
    /\ loop' = [loop EXCEPT ![c].at = "reading", ![c].q = 0, ![c].ok = FALSE]
    /\ UNCHANGED <<version, h, link, rec, watch, world>>

ConnEnds(c) ==
    /\ loop[c].at = "reading" /\ link[loop[c].n] # c
    /\ loop' = [loop EXCEPT ![c] = Free]
    /\ UNCHANGED <<store, h, link, rec, watch, world>>

-----------------------------------------------------------------------------
\* otaReconcilerLoop, every 10 s: the tasks in flight are listed, ...
ReconcileStart ==
    /\ rec.at = "idle"
    /\ \E i \in DOMAIN tasks : InFlight(i)
    /\ rec' = [Resting EXCEPT !.at = "look", !.todo = {i \in DOMAIN tasks : InFlight(i)}]
    /\ UNCHANGED <<store, h, link, loop, watch, world>>

\* They are gone through in the order of their ids.
Current == CHOOSE i \in rec.todo : \A j \in rec.todo : i <= j
NodeOfCurrent == tasks[Current].n

\* ... the version of each node is the one on record, ...
ReconcileLook ==
    /\ rec.at = "look"
    /\ rec' = [rec EXCEPT !.v = version[NodeOfCurrent],
                          !.at = IF NodeOfCurrent \in viaHttp THEN "live" ELSE "judge"]
    /\ UNCHANGED <<store, h, link, loop, watch, world>>

\* ... unless it is reached by HTTP and answers within 3 s, ...
ReconcileProbe ==
    /\ rec.at = "live"
    /\ \/ rec' = [rec EXCEPT !.v = runs[NodeOfCurrent], !.at = "record"]
       \/ rec' = [rec EXCEPT !.at = "blind"]
    /\ UNCHANGED <<store, h, link, loop, watch, world>>

ReconcileRecord ==
    /\ rec.at = "record"
    /\ version' = [version EXCEPT ![NodeOfCurrent] = rec.v]
    /\ rec' = [rec EXCEPT !.at = "judge"]
    /\ UNCHANGED <<tasks, h, link, loop, watch, world>>

NextTask == LET rest == rec.todo \ {Current}
            IN  IF rest = {} THEN Resting ELSE [at |-> "look", todo |-> rest, v |-> 0]

\* The node did not answer, and what is on record is what the task waits for.
JudgedBlind == IF rec.at = "blind" /\ Hit(tasks[Current], rec.v) THEN {tasks[Current].q} ELSE {}

\* Mutant: a task waits for its version as long as it takes.
Mut_NoTimeout ==
    /\ rec.at \in {"judge", "blind"}
    /\ tasks' = IF Hit(tasks[Current], rec.v) THEN Finished(Current, "success") ELSE tasks
    /\ rec' = NextTask
    /\ blind' = blind \cup JudgedBlind
    /\ UNCHANGED <<version, h, link, loop, watch, asked, troubles, viaHttp, runs, cmd, proved>>

\* ... and the task is ended when it is hit or 15 minutes old.
ReconcileJudge ==
    /\ rec.at \in {"judge", "blind"}
    /\ tasks' = IF Hit(tasks[Current], rec.v) THEN Finished(Current, "success")
                ELSE IF tasks[Current].late THEN Finished(Current, "failed") ELSE tasks
    /\ rec' = NextTask
    /\ blind' = blind \cup JudgedBlind
    /\ UNCHANGED <<version, h, link, loop, watch, asked, troubles, viaHttp, runs, cmd, proved>>

\* checkHTTPNodes reads the version of a node and stores it later.
WatcherAsks(n) ==
    /\ n \in viaHttp /\ watch[n] = 0
    /\ watch' = [watch EXCEPT ![n] = runs[n]]
    /\ UNCHANGED <<store, h, link, loop, rec, world>>

WatcherStores(n) ==
    /\ watch[n] # 0
    /\ version' = [version EXCEPT ![n] = watch[n]]
    /\ watch' = [watch EXCEPT ![n] = 0]
    /\ UNCHANGED <<tasks, h, link, loop, rec, world>>

-----------------------------------------------------------------------------
\* The node answers, if it still has a connection, ...
NodeSays(q, at, ok) ==
    LET n == cmd[q].n
        c == link[n]
    IN  /\ cmd' = [cmd EXCEPT ![q].at = at]
        /\ IF c = None THEN UNCHANGED loop
           ELSE /\ loop[c].at = "reading"
                /\ loop' = [loop EXCEPT ![c].at = "deliver", ![c].q = q, ![c].ok = ok]
        /\ UNCHANGED <<store, h, link, rec, watch, asked, troubles, viaHttp, runs, proved, blind>>

NodeAccepts(q) == cmd[q].at = "sent" /\ NodeSays(q, "accepted", TRUE)
NodeFails(q) == cmd[q].at \in {"sent", "accepted"} /\ NodeSays(q, "failed", FALSE)

\* ... then replaces its program and starts again, ...
NodeUpgrades(q) ==
    LET n == cmd[q].n
    IN  /\ cmd[q].at = "accepted"
        /\ cmd' = [cmd EXCEPT ![q].at = "done"]
        /\ \E v \in IF cmd[q].target # 0 THEN {cmd[q].target} ELSE Versions :
              /\ runs' = [runs EXCEPT ![n] = v]
              /\ proved' = proved \cup LivedUpTo(cmd, n, v)
        /\ link' = [link EXCEPT ![n] = None]
        /\ UNCHANGED <<store, h, loop, rec, watch, asked, troubles, viaHttp, blind>>

\* ... and may lose its connection or be given another version by its owner.
NodeRestarts(n, v) ==
    /\ troubles < MaxTroubles /\ troubles' = troubles + 1
    /\ runs' = [runs EXCEPT ![n] = v]
    /\ proved' = proved \cup LivedUpTo(cmd, n, v)
    /\ link' = [link EXCEPT ![n] = None]
    /\ UNCHANGED <<store, h, loop, rec, watch, asked, viaHttp, cmd, blind>>

\* Time passes: 15 minutes since the task was dispatched.
BecomesLate(i) ==
    /\ InFlight(i) /\ ~tasks[i].late
    /\ tasks' = [tasks EXCEPT ![i].late = TRUE]
    /\ UNCHANGED <<version, server, world>>

\* The server starts again; what it held in memory is gone, the rows are not.
Restart ==
    /\ troubles < MaxTroubles /\ troubles' = troubles + 1
    /\ h' = [r \in Req |-> Idle]
    /\ link' = [n \in Nodes |-> None] /\ loop' = [c \in Conns |-> Free]
    /\ rec' = Resting /\ watch' = [n \in Nodes |-> 0]
    /\ UNCHANGED <<store, asked, viaHttp, runs, cmd, proved, blind>>

Init ==
    /\ tasks = << >> /\ asked = 0 /\ troubles = 0 /\ proved = {} /\ blind = {}
    /\ viaHttp \in SUBSET Nodes
    /\ runs = [n \in Nodes |-> First] /\ version = [n \in Nodes |-> 0]
    /\ h = [r \in Req |-> Idle]
    /\ link = [n \in Nodes |-> None] /\ loop = [c \in Conns |-> Free]
    /\ rec = Resting /\ watch = [n \in Nodes |-> 0]
    /\ cmd = [q \in Commands |-> NoCommand]

HandlerStep(r) == Dispatch(r) \/ TimesOut(r) \/ PostByHttp(r) \/ CreateTask(r)
LoopStep(c) ==
    \/ StoreVersion(c) \/ FindTask(c) \/ FinishTask(c) \/ DeliverResult(c) \/ OnNodeResult(c)
    \/ ConnEnds(c)
ReconcilerStep ==
    ReconcileStart \/ ReconcileLook \/ ReconcileProbe \/ ReconcileRecord \/ ReconcileJudge

Next ==
    \/ \E r \in Req, n \in Nodes, target \in Targets : StartUpgrade(r, n, target)
    \/ \E r \in Req : HandlerStep(r)
    \/ \E c \in Conns : LoopStep(c) \/ \E n \in Nodes : Dial(c, n)
    \/ ReconcilerStep
    \/ \E n \in Nodes : WatcherAsks(n) \/ WatcherStores(n)
    \/ \E q \in Commands : NodeAccepts(q) \/ NodeFails(q) \/ NodeUpgrades(q)
    \/ \E n \in Nodes, v \in Versions : NodeRestarts(n, v)
    \/ \E i \in Commands : BecomesLate(i)
    \/ Restart

Spec == Init /\ [][Next]_vars

\* The loop's goroutine runs, and time passes.
FairSpec == /\ Spec
            /\ WF_vars(ReconcilerStep)
            /\ \A i \in Commands : WF_vars(BecomesLate(i))

-----------------------------------------------------------------------------
\* The types of the variables.
TypeOK ==
    /\ tasks \in Seq(Task) /\ Len(tasks) <= asked /\ asked \in 0..MaxAsk
    /\ version \in [Nodes -> Known] /\ runs \in [Nodes -> Versions]
    /\ h \in [Req -> Handler]
    /\ link \in [Nodes -> Conns \cup {None}] /\ loop \in [Conns -> Loop]
    /\ rec \in Reconciler /\ watch \in [Nodes -> Known]
    /\ troubles \in 0..MaxTroubles /\ viaHttp \subseteq Nodes
    /\ cmd \in [Commands -> Command] /\ {proved, blind} \subseteq SUBSET Commands

\* A task keeps its first verdict: the node's late failure, a registration
\* and the reconciler, which both act on tasks they read before, do not turn
\* it round (ota.go:95, 130: WHERE status = dispatched).
VerdictHolds ==
    [][\A i \in DOMAIN tasks : tasks[i].status # "dispatched" => tasks'[i] = tasks[i]]_vars

\* No task waits for a command its node has never heard of, and none succeeds
\* (ota.go:244-257, node_cmd.go:75-120), whatever was lost or timed out.
DispatchedWasHeard ==
    \A i \in DOMAIN tasks : tasks[i].status # "failed" =>
        cmd[tasks[i].q].n = tasks[i].n /\ cmd[tasks[i].q].at # "none"

\* "15 分钟未观测到节点版本变化 → failed" (ota.go:24): every task ends, whatever its
\* node does and over a restart of the server.
UpgradeEnds == \A i \in Commands : InFlight(i) ~> ~InFlight(i)

\* "HTTP-only 节点由轮询现场探测 GET {url}info 判定" (ota.go:23): a node that is reached
\* by HTTP only is judged by what it answers, so that it succeeds only if it has
\* run the version asked for, or another than before, since it got the command.
\* One that does not answer is judged by its record (ota.go:166-176), and then
\* need not have changed: see the README.
JudgedLive ==
    \A i \in DOMAIN tasks :
        tasks[i].status = "success" /\ tasks[i].n \in viaHttp => tasks[i].q \in proved \cup blind

\* What the rows of ota_tasks may say of the nodes, now and later.
OtaInv == TypeOK /\ DispatchedWasHeard /\ JudgedLive
=============================================================================
