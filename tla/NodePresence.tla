---------------------------- MODULE NodePresence ----------------------------
(***************************************************************************)
(* Which nodes are connected, which are recorded online, and what the      *)
(* administrators are told (ws.go, presence.go).                           *)
(*                                                                         *)
(* A connection is read by a goroutine of its own; the maintenance loop    *)
(* evicts silent ones; a watcher checks the nodes that are reached by      *)
(* HTTP.  All of them end in recordNodeOnline and recordNodeOffline, which *)
(* read the row of the node first and write, log and notify later, without *)
(* a transaction.  A notice of an outage waits 20 s in a timer.            *)
(* Administrators may delete the row of a node, connected or not, and the  *)
(* reads of the row and its upsert may fail.                               *)
(*                                                                         *)
(* History: orderly[n], nothing began to report n, nor deleted its row,    *)
(* while a report of n was under way; missing, the nodes whose row was     *)
(* deleted or not written since they last were recorded online.  "boot",   *)
(* "deleted" and "lost" among the events and the notices are marks of a    *)
(* restart, of the deletion of an online row and of a failed statement.    *)
(***************************************************************************)
EXTENDS Naturals, Sequences, FiniteSets

CONSTANTS Nodes,        \* node ids
          Conns,        \* connections; each is opened once
          Loop,         \* the maintenance loop
          Timers,       \* bound: notices waiting at once
          Disturbances, \* which of "http", "evict", "restart", "quiet", "delete", "fail" happen
          None

Procs == Conns \cup {Loop} \cup Nodes

ASSUME PresenceAssumption ==
    /\ Conns \cap Nodes = {} /\ Loop \notin Conns \cup Nodes
    /\ None \notin Conns \cup Nodes \cup Timers

VARIABLES viaHttp,  \* nodes that are checked by HTTP and do not dial in
          peers,    \* [Nodes -> the registered connection]
          open,     \* connections whose transport is up
          proc,     \* [Procs -> what the goroutine does, and for which node]
          snap,     \* connections the loop has yet to look at
          victim,   \* the connection the loop evicts
          fails,    \* healthFails, as far as the threshold tells them apart
          row,      \* nodes.online: "none" without a row
          exempt,   \* startupExempt, otaExempt and maintSuppressed
          timer,    \* [Timers -> the timer and its node]
          pending,  \* downPending: [Nodes -> the timer]
          events,   \* the last two of node_events and the marks between
          notices,  \* the last two notices to the administrators, likewise
          orderly, missing

vars == <<viaHttp, peers, open, proc, snap, victim, fails, row, exempt, timer, pending,
          events, notices, orderly, missing>>
store == <<row, events>>
memory == <<exempt, timer, pending, notices>>
registry == <<viaHttp, peers, open, snap, victim, fails>>

Online == {"none", "off", "on"}
Event == {"online", "offline", "boot", "deleted", "lost"}
Notice == {"up", "down", "boot", "lost"}
Reporting == {"onRead", "onTake", "onWrite", "onEvent",
              "offRead", "offWrite", "offEvent", "offArm"}
Proc == [at : {"new", "reading", "ended", "idle", "evict"} \cup Reporting,
         node : Nodes \cup {None}, prev : Online, up : BOOLEAN]
At(a, n) == [at |-> a, node |-> n, prev |-> "none", up |-> FALSE]
Timer == [at : {"free", "armed", "expired", "check"}, node : Nodes \cup {None}]
FreeTimer == [at |-> "free", node |-> None]

\* Something reports on n, from its first decision to its last write.
Busy(n) == \/ \E p \in Procs : proc[p].node = n /\ proc[p].at \in Reporting \cup {"evict"}
           \/ \E t \in Timers : timer[t].node = n /\ timer[t].at \in {"expired", "check"}

\* A report of n begins.
Begins(n) == orderly' = [orderly EXCEPT ![n] = @ /\ ~Busy(n)]

\* The log of a node, of which only the last two entries are kept.
Log(s, e) == IF Len(s) = 2 THEN <<s[2], e>> ELSE Append(s, e)

Goto(p, a) == proc' = [proc EXCEPT ![p].at = a]

\* Where a goroutine goes on after its report.
Resting(p, online) == IF p \notin Conns THEN At("idle", None)
                      ELSE At(IF online THEN "reading" ELSE "ended", proc[p].node)

-----------------------------------------------------------------------------
\* recordNodeOnline: the row is read, then what waits for the node is taken
\* from memory, then the row and the event are written.
OnlineRead(p) ==
    /\ proc[p].at = "onRead"
    /\ proc' = [proc EXCEPT ![p].at = "onTake", ![p].prev = row[proc[p].node]]
    /\ UNCHANGED <<registry, store, memory, orderly, missing>>

Stopped(t) == [timer EXCEPT ![t] = IF @.at = "armed" THEN FreeTimer ELSE @]

\* Mutant: a recovery is reported although its outage never was.
Mut_ForgetsPending(p) ==
    LET n == proc[p].node
    IN  /\ proc[p].at = "onTake"
        /\ proc' = [proc EXCEPT ![p].at = "onWrite",
                        ![p].up = proc[p].prev = "off" /\ n \notin exempt]
        /\ exempt' = exempt \ {n}
        /\ pending' = [pending EXCEPT ![n] = None]
        /\ timer' = IF pending[n] = None THEN timer ELSE Stopped(pending[n])
        /\ UNCHANGED <<registry, store, notices, orderly, missing>>

OnlineTake(p) ==
    LET n == proc[p].node
    IN  /\ proc[p].at = "onTake"
        /\ proc' = [proc EXCEPT ![p].at = "onWrite",
                        ![p].up = /\ proc[p].prev = "off"
                                  /\ n \notin exempt /\ pending[n] = None]
        /\ exempt' = exempt \ {n}
        /\ pending' = [pending EXCEPT ![n] = None]
        /\ timer' = IF pending[n] = None THEN timer ELSE Stopped(pending[n])
        /\ UNCHANGED <<registry, store, notices, orderly, missing>>

\* Mutant: the upsert does nothing when there is a row.
Mut_InsertOnly(p) ==
    /\ proc[p].at = "onWrite"
    /\ row' = [row EXCEPT ![proc[p].node] = IF @ = "none" THEN "on" ELSE @]
    /\ proc' = [proc EXCEPT ![p] = IF @.prev = "on" THEN Resting(p, TRUE)
                                   ELSE [@ EXCEPT !.at = "onEvent"]]
    /\ missing' = missing \ {proc[p].node}
    /\ UNCHANGED <<registry, events, memory, orderly>>

OnlineWrite(p) ==
    /\ proc[p].at = "onWrite"
    /\ row' = [row EXCEPT ![proc[p].node] = "on"]
    /\ proc' = [proc EXCEPT ![p] = IF @.prev = "on" THEN Resting(p, TRUE)
                                   ELSE [@ EXCEPT !.at = "onEvent"]]
    /\ missing' = missing \ {proc[p].node}
    /\ UNCHANGED <<registry, events, memory, orderly>>

\* The upsert fails: what waited for the node is gone all the same.
OnlineWriteFails(p) ==
    /\ proc[p].at = "onWrite" /\ "fail" \in Disturbances
    /\ proc' = [proc EXCEPT ![p] = Resting(p, TRUE)]
    /\ notices' = [notices EXCEPT ![proc[p].node] = Log(@, "lost")]
    /\ missing' = missing \cup {proc[p].node}
    /\ UNCHANGED <<registry, store, exempt, timer, pending, orderly>>

OnlineEvent(p) ==
    LET n == proc[p].node
    IN  /\ proc[p].at = "onEvent"
        /\ events' = [events EXCEPT ![n] = Log(@, "online")]
        /\ notices' = IF proc[p].up THEN [notices EXCEPT ![n] = Log(@, "up")]
                      ELSE notices
        /\ proc' = [proc EXCEPT ![p] = Resting(p, TRUE)]
        /\ UNCHANGED <<registry, row, exempt, timer, pending, orderly, missing>>

\* nodeSnapshot: a read that fails finds no row.
ReadFails(p) ==
    LET n == proc[p].node
    IN  /\ proc[p].at \in {"onRead", "offRead"} /\ "fail" \in Disturbances
        /\ proc' = [proc EXCEPT ![p].at = IF @ = "onRead" THEN "onTake" ELSE "offWrite",
                                ![p].prev = "none"]
        /\ events' = [events EXCEPT ![n] = Log(@, "lost")]
        /\ notices' = [notices EXCEPT ![n] = Log(@, "lost")]
        /\ UNCHANGED <<registry, row, exempt, timer, pending, orderly, missing>>

-----------------------------------------------------------------------------
\* recordNodeOffline: a node without a row gets none.
OfflineRead(p) ==
    /\ proc[p].at = "offRead"
    /\ proc' = [proc EXCEPT ![p].at = "offWrite", ![p].prev = row[proc[p].node]]
    /\ UNCHANGED <<registry, store, memory, orderly, missing>>

OfflineWrite(p) ==
    /\ proc[p].at = "offWrite"
    /\ row' = [row EXCEPT ![proc[p].node] = IF @ = "none" THEN @ ELSE "off"]
    /\ proc' = [proc EXCEPT ![p] = IF @.prev # "on" THEN Resting(p, FALSE)
                                   ELSE [@ EXCEPT !.at = "offEvent"]]
    /\ UNCHANGED <<registry, events, memory, orderly, missing>>

OfflineEvent(p) ==
    /\ proc[p].at = "offEvent"
    /\ events' = [events EXCEPT ![proc[p].node] = Log(@, "offline")]
    /\ Goto(p, "offArm")
    /\ UNCHANGED <<registry, row, memory, orderly, missing>>

\* During an upgrade or a maintenance window nothing is told.
OfflineQuiet(p) ==
    /\ proc[p].at = "offArm" /\ "quiet" \in Disturbances
    /\ exempt' = exempt \cup {proc[p].node}
    /\ proc' = [proc EXCEPT ![p] = Resting(p, FALSE)]
    /\ UNCHANGED <<registry, store, timer, pending, notices, orderly, missing>>

\* Otherwise a timer is armed; one that was pending is stopped.
OfflineArm(p) ==
    LET n == proc[p].node
        left == IF pending[n] = None THEN timer ELSE Stopped(pending[n])
    IN  /\ proc[p].at = "offArm"
        /\ \E t \in Timers :
              /\ left[t] = FreeTimer
              /\ timer' = [left EXCEPT ![t] = [at |-> "armed", node |-> n]]
              /\ pending' = [pending EXCEPT ![n] = t]
        /\ proc' = [proc EXCEPT ![p] = Resting(p, FALSE)]
        /\ UNCHANGED <<registry, store, exempt, notices, orderly, missing>>

\* 20 s later the timer's goroutine starts: it can no longer be stopped.
TimerExpires(t) ==
    /\ timer[t].at = "armed"
    /\ timer' = [timer EXCEPT ![t].at = "expired"]
    /\ Begins(timer[t].node)
    /\ UNCHANGED <<registry, proc, store, exempt, pending, notices, missing>>

\* It removes whatever is pending for the node ...
TimerUnlists(t) ==
    /\ timer[t].at = "expired"
    /\ pending' = [pending EXCEPT ![timer[t].node] = None]
    /\ timer' = [timer EXCEPT ![t].at = "check"]
    /\ UNCHANGED <<registry, proc, store, exempt, notices, orderly, missing>>

\* ... and tells the administrators if the node is still off.
TimerNotifies(t) ==
    /\ timer[t].at = "check"
    /\ notices' = IF row[timer[t].node] = "off"
                  THEN [notices EXCEPT ![timer[t].node] = Log(@, "down")] ELSE notices
    /\ timer' = [timer EXCEPT ![t] = FreeTimer]
    /\ UNCHANGED <<registry, proc, store, exempt, pending, orderly, missing>>

TimerReadFails(t) ==
    /\ timer[t].at = "check" /\ "fail" \in Disturbances
    /\ notices' = [notices EXCEPT ![timer[t].node] = Log(@, "lost")]
    /\ timer' = [timer EXCEPT ![t] = FreeTimer]
    /\ UNCHANGED <<registry, proc, store, exempt, pending, orderly, missing>>

-----------------------------------------------------------------------------
\* DELETE /admin/nodes/:nodeId and DELETE /node-defs/:id: the row goes, while
\* the connection, the timer and what waits for the node stay.
DeleteRow(n) ==
    /\ row[n] # "none" /\ "delete" \in Disturbances
    /\ row' = [row EXCEPT ![n] = "none"]
    /\ events' = IF row[n] = "on" THEN [events EXCEPT ![n] = Log(@, "deleted")] ELSE events
    /\ missing' = missing \cup {n}
    /\ Begins(n)
    /\ UNCHANGED <<registry, proc, memory>>

\* The frame "register": a connection of the same node is closed, replaced
\* in the map, and left to its own goroutine to find out.
Register(c, n) ==
    /\ proc[c].at = "new" /\ c \in open
    /\ open' = open \ {peers[n]}
    /\ peers' = [peers EXCEPT ![n] = c]
    /\ proc' = [proc EXCEPT ![c] = At("onRead", n)]
    /\ Begins(n)
    /\ UNCHANGED <<viaHttp, snap, victim, fails, store, memory, missing>>

\* The transport ends: by the node, by the network, or by Kick.
Drop(c) ==
    /\ c \in open /\ proc[c].at # "new"
    /\ open' = open \ {c}
    /\ UNCHANGED <<viaHttp, peers, snap, victim, fails, proc, store, memory, orderly, missing>>

\* Mutant: the end of a replaced connection unregisters its successor.
Mut_AnyEndUnregisters(c) ==
    LET n == proc[c].node
    IN  /\ proc[c].at = "reading" /\ c \notin open
        /\ peers' = [peers EXCEPT ![n] = None]
        /\ Goto(c, "offRead")
        /\ Begins(n)
        /\ UNCHANGED <<viaHttp, open, snap, victim, fails, store, memory, missing>>

\* Read fails: only the connection that is still the node's reports it.
ReadError(c) ==
    LET n == proc[c].node
    IN  /\ proc[c].at = "reading" /\ c \notin open
        /\ IF peers[n] = c
           THEN peers' = [peers EXCEPT ![n] = None] /\ Goto(c, "offRead") /\ Begins(n)
           ELSE Goto(c, "ended") /\ UNCHANGED <<peers, orderly>>
        /\ UNCHANGED <<viaHttp, open, snap, victim, fails, store, memory, missing>>

\* maintenanceLoop, every 20 s: the connections of now ...
LoopStart ==
    /\ proc[Loop].at = "idle" /\ snap = {} /\ "evict" \in Disturbances
    /\ snap' = {peers[n] : n \in Nodes} \ {None}
    /\ snap' # {}
    /\ UNCHANGED <<viaHttp, peers, open, victim, fails, proc, store, memory, orderly, missing>>

\* ... are left alone when they were heard of ...
LoopPings(c) ==
    /\ proc[Loop].at = "idle" /\ c \in snap
    /\ snap' = snap \ {c}
    /\ UNCHANGED <<viaHttp, peers, open, victim, fails, proc, store, memory, orderly, missing>>

\* ... or closed after 75 s of silence; a registration is over by then, since
\* each statement of it is given 10 s (dbCtx).
LoopCloses(c) ==
    LET n == proc[c].node
    IN  /\ proc[Loop].at = "idle" /\ c \in snap /\ proc[c].at \in {"reading", "ended"}
        /\ snap' = snap \ {c} /\ victim' = c
        /\ open' = open \ {c}
        /\ proc' = [proc EXCEPT ![Loop] = At("evict", n)]
        /\ orderly' = [orderly EXCEPT ![n] = @ /\ ~Busy(n) /\ peers[n] = c]
        /\ UNCHANGED <<viaHttp, peers, fails, store, memory, missing>>

\* Whoever is registered by then, the node is reported offline.
LoopReports ==
    LET n == proc[Loop].node
    IN  /\ proc[Loop].at = "evict"
        /\ peers' = [peers EXCEPT ![n] = IF @ = victim THEN None ELSE @]
        /\ victim' = None
        /\ Goto(Loop, "offRead")
        /\ UNCHANGED <<viaHttp, open, snap, fails, store, memory, orderly, missing>>

\* checkHTTPNodes: one check of a node at a time; two failures in a row count.
CheckOk(n) ==
    /\ proc[n].at = "idle" /\ n \in viaHttp
    /\ fails' = [fails EXCEPT ![n] = 0]
    /\ proc' = [proc EXCEPT ![n] = At("onRead", n)]
    /\ Begins(n)
    /\ UNCHANGED <<viaHttp, peers, open, snap, victim, store, memory, missing>>

CheckFails(n) ==
    /\ proc[n].at = "idle" /\ n \in viaHttp
    /\ fails' = [fails EXCEPT ![n] = IF @ = 2 THEN 2 ELSE @ + 1]
    /\ IF fails'[n] = 2
       THEN proc' = [proc EXCEPT ![n] = At("offRead", n)] /\ Begins(n)
       ELSE UNCHANGED <<proc, orderly>>
    /\ UNCHANGED <<viaHttp, peers, open, snap, victim, store, memory, missing>>

\* otaReconcilerLoop gives up an upgrade: a node that is still off is told.
OtaOverdue(n) ==
    /\ n \in exempt /\ row[n] = "off" /\ "quiet" \in Disturbances
    /\ exempt' = exempt \ {n}
    /\ notices' = [notices EXCEPT ![n] = Log(@, "down")]
    /\ UNCHANGED <<registry, proc, store, timer, pending, orderly, missing>>

\* The process restarts: markAllNodesOffline writes no event, and exempts
\* the nodes it turns off from the notice of their return.
Restart ==
    /\ "restart" \in Disturbances
    /\ peers' = [n \in Nodes |-> None]
    /\ open' = {c \in open : proc[c].at = "new"}
    /\ proc' = [p \in Procs |-> IF p \notin Conns THEN At("idle", None)
                                ELSE IF proc[p].at = "new" THEN proc[p]
                                ELSE At("ended", proc[p].node)]
    /\ snap' = {} /\ victim' = None /\ fails' = [n \in Nodes |-> 0]
    /\ row' = [n \in Nodes |-> IF row[n] = "on" THEN "off" ELSE row[n]]
    /\ exempt' = {n \in Nodes : row[n] = "on"}
    /\ timer' = [t \in Timers |-> FreeTimer]
    /\ pending' = [n \in Nodes |-> None]
    /\ events' = [n \in Nodes |-> Log(events[n], "boot")]
    /\ notices' = [n \in Nodes |-> Log(notices[n], "boot")]
    /\ UNCHANGED <<viaHttp, orderly, missing>>

Init ==
    /\ viaHttp \in SUBSET Nodes /\ (viaHttp # {} => "http" \in Disturbances)
    /\ peers = [n \in Nodes |-> None]
    /\ open = Conns
    /\ proc = [p \in Procs |-> At(IF p \in Conns THEN "new" ELSE "idle", None)]
    /\ snap = {} /\ victim = None
    /\ fails = [n \in Nodes |-> 0]
    /\ row = [n \in Nodes |-> "none"]
    /\ exempt = {}
    /\ timer = [t \in Timers |-> FreeTimer]
    /\ pending = [n \in Nodes |-> None]
    /\ events = [n \in Nodes |-> << >>]
    /\ notices = [n \in Nodes |-> << >>]
    /\ orderly = [n \in Nodes |-> TRUE] /\ missing = {}

ReportStep(p) ==
    \/ OnlineRead(p)
    \/ OnlineTake(p)
    \/ OnlineWrite(p)
    \/ OnlineWriteFails(p)
    \/ OnlineEvent(p)
    \/ ReadFails(p)
    \/ OfflineRead(p)
    \/ OfflineWrite(p)
    \/ OfflineEvent(p)
    \/ OfflineQuiet(p)
    \/ OfflineArm(p)

TimerStep(t) ==
    \/ TimerExpires(t)
    \/ TimerUnlists(t)
    \/ TimerNotifies(t)
    \/ TimerReadFails(t)

ConnStep(c) ==
    \/ \E n \in Nodes \ viaHttp : Register(c, n)
    \/ Drop(c)
    \/ ReadError(c)
    \/ LoopPings(c)
    \/ LoopCloses(c)

NodeStep(n) ==
    \/ CheckOk(n)
    \/ CheckFails(n)
    \/ OtaOverdue(n)
    \/ DeleteRow(n)

Next ==
    \/ \E p \in Procs : ReportStep(p)
    \/ \E t \in Timers : TimerStep(t)
    \/ \E c \in Conns : ConnStep(c)
    \/ \E n \in Nodes : NodeStep(n)
    \/ LoopStart
    \/ LoopReports
    \/ Restart

Spec == Init /\ [][Next]_vars

-----------------------------------------------------------------------------
\* The types of the variables.
TypeOK ==
    /\ viaHttp \subseteq Nodes
    /\ peers \in [Nodes -> Conns \cup {None}]
    /\ open \subseteq Conns
    /\ proc \in [Procs -> Proc]
    /\ \A p \in Procs : proc[p].at \in Reporting \cup {"reading", "evict"} => proc[p].node # None
    /\ snap \subseteq Conns /\ victim \in Conns \cup {None}
    /\ fails \in [Nodes -> 0..2]
    /\ row \in [Nodes -> Online]
    /\ exempt \subseteq Nodes
    /\ timer \in [Timers -> Timer]
    /\ pending \in [Nodes -> Timers \cup {None}]
    /\ events \in [Nodes -> Seq(Event)]
    /\ notices \in [Nodes -> Seq(Notice)]
    /\ orderly \in [Nodes -> BOOLEAN] /\ missing \subseteq Nodes

\* ws.go:229 "if cur == peer": the late end of a connection, or its eviction,
\* never unregisters the one that replaced it, in any interleaving.
SuccessorKept ==
    [][\A n \in Nodes : peers[n] # None /\ peers'[n] # peers[n] => peers[n] \notin open']_vars

\* "WS 节点：注册/断开/剔除时即时写" (presence.go:19): when no report of it is under way
\* and none overlapped, a node that is recorded online is connected, and a
\* connected node is recorded online, unless its row was deleted or could not be
\* written since; the next report makes up for that.  Reports that overlap can
\* leave a connected node offline: see the README.
RecordedAsConnected ==
    \A n \in Nodes \ viaHttp : orderly[n] /\ ~Busy(n) =>
        /\ row[n] = "on" => peers[n] # None
        /\ peers[n] # None => row[n] = "on" \/ n \in missing

\* Rows have their types and tell who is connected (presence.go:47-110).
PresenceInv == TypeOK /\ RecordedAsConnected

\* The events that uptime is computed from alternate: no outage is logged
\* without a return before it, and no return twice, except over a restart, over
\* the deletion of a row that was online, and over a row that could not be read.
EventsAlternate ==
    \A n \in Nodes : orderly[n] =>
        /\ events[n] # <<"offline">>
        /\ Len(events[n]) = 2 =>
              /\ events[n][2] = "online"  => events[n][1] # "online"
              /\ events[n][2] = "offline" => events[n][1] \in {"online", "lost"}

\* "秒级闪断回来的不通报，对应的恢复也不报" (presence.go:20): the return of a node is
\* reported only when its outage was, unless the server restarted or a
\* statement failed since.  No deletion of the row excuses it.
NoticesPaired ==
    \A n \in Nodes : orderly[n] =>
        /\ notices[n] # <<"up">>
        /\ Len(notices[n]) = 2 /\ notices[n][2] = "up" => notices[n][1] # "up"

\* What is written down and what is sent of an outage (presence.go:91-136).
OutagesTold == EventsAlternate /\ NoticesPaired
=============================================================================
