------------------------- MODULE NodePresenceProofs -------------------------
(***************************************************************************)
(* The reports of NodePresence for any number of nodes, connections and    *)
(* timers: who is recorded online, what is logged and what is told as long *)
(* as the reports of a node do not overlap, and which connection a late    *)
(* end may unregister.                                                     *)
(*                                                                         *)
(* The argument follows one report at a time.  While the reports of a node *)
(* are orderly at most one goroutine works on one, and Stage says what     *)
(* holds of the node at each of its steps; between reports Rests does.     *)
(***************************************************************************)
EXTENDS NodePresence, SequenceTheorems, TLAPS

\* Process p works on a report of n, timer t on the notice of its outage.
Active(p, n) == proc[p].node = n /\ proc[p].at \in Reporting \cup {"evict"}
Fired(t, n) == timer[t].node = n /\ timer[t].at \in {"expired", "check"}

\* At most one of them works for n.
Alone(n) ==
    /\ \A p, q \in Procs : Active(p, n) /\ Active(q, n) => p = q
    /\ \A s, t \in Timers : Fired(s, n) /\ Fired(t, n) => s = t
    /\ \A p \in Procs, t \in Timers : ~(Active(p, n) /\ Fired(t, n))

\* The newest entry of a log.
Newest(s) == IF s = << >> THEN "nothing" ELSE s[Len(s)]

\* The events tell that the row of n was r.
Told(n, r) ==
    Newest(events[n]) \in CASE r = "none" -> {"nothing", "boot", "offline", "deleted", "lost"}
                            [] r = "on"   -> {"online", "lost"}
                            [] OTHER      -> {"offline", "boot", "lost"}

\* The return of n may be told: its outage was, or a restart or a failure lost it.
Returns(n) == Newest(notices[n]) \in {"down", "boot", "lost"}

\* ... or it would not be, or the notice of the outage still waits.
Excused(n) == row[n] = "off" => n \in exempt \/ pending[n] # None \/ Returns(n)

Connected(n) == n \notin viaHttp => peers[n] # None
Gone(n) == n \notin viaHttp => peers[n] = None
Linked(n) == n \notin viaHttp => /\ row[n] = "on" => peers[n] # None
                                 /\ peers[n] # None => row[n] = "on" \/ n \in missing

\* p has read the row of n, or failed to.
Seen(p, n) == \/ proc[p].prev = row[n]
              \/ proc[p].prev = "none" /\ Newest(events[n]) = "lost" /\ Returns(n)

\* No report of n is under way.
Rests(n) == Linked(n) /\ Told(n, row[n]) /\ Excused(n)

\* What holds of n while p is at each step of a report.
Stage(p, n) ==
    LET s == proc[p]
    IN  /\ s.at = "onRead"  => Connected(n) /\ Told(n, row[n]) /\ Excused(n)
        /\ s.at = "onTake"  => /\ Connected(n) /\ Told(n, row[n]) /\ Excused(n)
                               /\ Seen(p, n)
        /\ s.at = "onWrite" => /\ Connected(n) /\ Told(n, row[n])
                               /\ Seen(p, n) /\ (s.up => Returns(n))
        /\ s.at = "onEvent" => /\ Connected(n) /\ row[n] = "on" /\ s.prev # "on"
                               /\ Told(n, s.prev) /\ (s.up => Returns(n))
        /\ s.at = "offRead" => Gone(n) /\ Told(n, row[n]) /\ Excused(n)
        /\ s.at = "offWrite" => /\ Gone(n) /\ Told(n, row[n]) /\ Excused(n)
                                /\ Seen(p, n)
        /\ s.at = "offEvent" => Gone(n) /\ row[n] = "off" /\ Told(n, "on")
        /\ s.at = "offArm"  => Gone(n) /\ row[n] = "off" /\ Told(n, "off")
        /\ s.at = "evict"   => Rests(n) /\ peers[n] = victim

\* What holds of n while the goroutine of timer t is at its steps.
Firing(t, n) ==
    /\ timer[t].at = "expired" => Rests(n) /\ pending[n] = t
    /\ timer[t].at = "check"   => Linked(n) /\ Told(n, row[n])

\* A timer that is armed for n is the one that is listed.
Listed(n) == \A t \in Timers : timer[t].at = "armed" /\ timer[t].node = n => pending[n] = t

\* The logs of n: EventsAlternate and NoticesPaired for one node.
LogsOK(n) ==
    /\ events[n] # <<"offline">>
    /\ Len(events[n]) = 2 => /\ events[n][2] = "online"  => events[n][1] # "online"
                             /\ events[n][2] = "offline" => events[n][1] \in {"online", "lost"}
    /\ notices[n] # <<"up">>
    /\ Len(notices[n]) = 2 /\ notices[n][2] = "up" => notices[n][1] # "up"

\* One node.
NodeOK(n) ==
    /\ orderly[n] => /\ Alone(n) /\ Listed(n) /\ LogsOK(n)
                     /\ \A p \in Procs : Active(p, n) => Stage(p, n)
                     /\ \A t \in Timers : Fired(t, n) => Firing(t, n)
                     /\ ~Busy(n) => Rests(n)
    /\ pending[n] # None => /\ timer[pending[n]].node = n
                            /\ timer[pending[n]].at \in {"armed", "expired"}
    /\ peers[n] # None => proc[peers[n]].at # "new" /\ proc[peers[n]].node = n

\* A log of at most two entries.
Brief(s) == Len(s) <= 2

\* The goroutines, timers and logs of all nodes.
Order ==
    /\ \A c \in Conns : proc[c].at # "new" => proc[c].node # None
    /\ \A p \in Procs : proc[p].at \in {"new", "idle"} => proc[p].node = None
    /\ \A p \in Procs : proc[p].at = "evict" => p = Loop
    /\ proc[Loop].at = "evict" => victim \notin open
    /\ \A t \in Timers : timer[t].at # "free" => timer[t].node # None
    /\ \A n \in Nodes : Brief(events[n]) /\ Brief(notices[n])

IInv == TypeOK /\ Order /\ (\A n \in Nodes : NodeOK(n))

-----------------------------------------------------------------------------
\* What a new entry makes of a log.
LEMMA LogFacts ==
    ASSUME NEW T, NEW s \in Seq(T), NEW e \in T, Brief(s)
    PROVE  /\ Log(s, e) \in Seq(T) /\ Brief(Log(s, e)) /\ Newest(Log(s, e)) = e
           /\ s = << >> => Log(s, e) = <<e>>
           /\ s # << >> => Log(s, e) = <<Newest(s), e>>
<1>0. Len(s) \in Nat /\ Len(s) <= 2 /\ s \in [1 .. Len(s) -> T]
  BY DEF Brief
<1>1. ASSUME NEW x \in T
      PROVE  /\ <<x, e>> \in Seq(T) /\ Brief(<<x, e>>) /\ Newest(<<x, e>>) = e
             /\ <<e>> \in Seq(T) /\ Brief(<<e>>) /\ Newest(<<e>>) = e
  <2>1. <<x, e>> \in Seq(T) /\ Len(<<x, e>>) = 2 /\ <<x, e>>[2] = e /\ <<x, e>> # << >>
    OBVIOUS
  <2>2. <<e>> \in Seq(T) /\ Len(<<e>>) = 1 /\ <<e>>[1] = e /\ <<e>> # << >>
    OBVIOUS
  <2> QED
    BY <2>1, <2>2 DEF Brief, Newest
<1>2. CASE Len(s) = 2
  <2>1. 2 \in 1 .. Len(s)
    BY <1>2
  <2>2. s[2] \in T /\ s # << >>
    BY <1>0, <1>2, <2>1
  <2>3. Newest(s) = s[2] /\ Log(s, e) = <<s[2], e>>
    BY <1>2, <2>2 DEF Newest, Log
  <2> QED
    BY <1>1, <2>2, <2>3
<1>3. CASE Len(s) = 1
  <2>1. s[1] \in T /\ s # << >>
    BY <1>0, <1>3
  <2>2. Newest(s) = s[1] /\ Log(s, e) = Append(s, e)
    BY <1>3, <2>1 DEF Newest, Log
  <2>3. Append(s, e) = <<s[1], e>>
    <3>1. Append(s, e) \in Seq(T) /\ Len(Append(s, e)) = Len(s) + 1
      BY AppendProperties
    <3>2. /\ Len(Append(s, e)) = 2
          /\ Append(s, e)[1] = s[1] /\ Append(s, e)[2] = e
      <4>1. \A i \in 1 .. Len(s) : Append(s, e)[i] = s[i]
        BY AppendProperties
      <4>2. Append(s, e)[Len(s) + 1] = e
        BY AppendProperties
      <4>3. 1 \in 1 .. Len(s)
        BY <1>3
      <4> QED
        BY <1>3, <3>1, <4>1, <4>2, <4>3
    <3>3. <<s[1], e>> \in Seq(T) /\ Append(s, e) \in Seq(T)
      BY <2>1
    <3>4. Len(<<s[1], e>>) = 2 /\ <<s[1], e>>[1] = s[1] /\ <<s[1], e>>[2] = e
      OBVIOUS
    <3>5. \A i \in 1 .. 2 : i = 1 \/ i = 2
      OBVIOUS
    <3> HIDE DEF Brief
    <3> QED
      BY <3>2, <3>3, <3>4, <3>5, SeqEqual
  <2> QED
    BY <1>1, <2>1, <2>2, <2>3
<1>4. CASE Len(s) = 0
  <2>1. s = << >>
    BY <1>4
  <2>2. Log(s, e) = <<e>>
    BY <2>1 DEF Log
  <2> QED
    BY <1>1, <2>1, <2>2
<1> QED
  BY <1>0, <1>2, <1>3, <1>4

\* An event that tells of the change of the row, and a notice that follows a
\* notice of the other kind, or a restart, keep the logs in order.
LEMMA EventLogged ==
    ASSUME TypeOK, NEW n \in Nodes, Brief(events[n]), Brief(notices[n]), LogsOK(n),
           NEW r \in Online, Told(n, r), NEW e \in Event,
           e = "online" => r # "on", e = "offline" => r = "on",
           events'[n] = Log(events[n], e),
           NEW k \in Notice, k = "up" => Returns(n),
           notices'[n] \in {notices[n], Log(notices[n], k)}
    PROVE  LogsOK(n)'
<1>1. /\ events[n] \in Seq(Event) /\ notices[n] \in Seq(Notice)
  BY DEF TypeOK
<1>2. /\ events[n] = << >> => events'[n] = <<e>>
      /\ events[n] # << >> => events'[n] = <<Newest(events[n]), e>>
  BY <1>1, LogFacts
<1>3. /\ notices[n] = << >> => Log(notices[n], k) = <<k>>
      /\ notices[n] # << >> => Log(notices[n], k) = <<Newest(notices[n]), k>>
  BY <1>1, LogFacts
<1>4. /\ events'[n] # <<"offline">>
      /\ Len(events'[n]) = 2 =>
            /\ events'[n][2] = "online"  => events'[n][1] # "online"
            /\ events'[n][2] = "offline" => events'[n][1] \in {"online", "lost"}
  <2>1. CASE events[n] = << >>
    <3>1. Newest(events[n]) = "nothing"
      BY <2>1 DEF Newest
    <3>2. e # "offline"
      BY <3>1 DEF Told, Online
    <3>3. events'[n] = <<e>> /\ Len(<<e>>) = 1 /\ <<e>>[1] = e /\ <<"offline">>[1] = "offline"
      BY <1>2, <2>1
    <3> QED
      BY <3>2, <3>3
  <2>2. CASE events[n] # << >>
    <3> DEFINE x == Newest(events[n])
    <3>1. events'[n] = <<x, e>>
      BY <1>2, <2>2
    <3>2. /\ e = "online" => x # "online"
          /\ e = "offline" => x \in {"online", "lost"}
      BY DEF Told, Online
    <3> HIDE DEF x
    <3>3. <<x, e>>[1] = x /\ <<x, e>>[2] = e /\ Len(<<x, e>>) = 2 /\ Len(<<"offline">>) = 1
      OBVIOUS
    <3> QED
      BY <3>1, <3>2, <3>3
  <2> QED
    BY <2>1, <2>2
<1>5. /\ notices'[n] # <<"up">>
      /\ Len(notices'[n]) = 2 /\ notices'[n][2] = "up" => notices'[n][1] # "up"
  <2>1. CASE notices'[n] = notices[n]
    BY <2>1 DEF LogsOK
  <2>2. CASE notices'[n] = Log(notices[n], k) /\ notices[n] = << >>
    BY <1>3, <2>2 DEF Returns, Newest
  <2>3. CASE notices'[n] = Log(notices[n], k) /\ notices[n] # << >>
    BY <1>3, <2>3 DEF Returns
  <2> QED
    BY <2>1, <2>2, <2>3
<1> QED
  BY <1>4, <1>5 DEF LogsOK

LEMMA NoticeLogged ==
    ASSUME TypeOK, NEW n \in Nodes, Brief(notices[n]), LogsOK(n),
           NEW k \in {"down", "lost"},
           notices'[n] \in {notices[n], Log(notices[n], k)}, events'[n] = events[n]
    PROVE  LogsOK(n)'
<1>1. notices[n] \in Seq(Notice)
  BY DEF TypeOK
<1>2. /\ notices[n] = << >> => Log(notices[n], k) = <<k>>
      /\ notices[n] # << >> => Log(notices[n], k) = <<Newest(notices[n]), k>>
  BY <1>1, LogFacts DEF Notice
<1>3. CASE notices'[n] = notices[n]
  BY <1>3 DEF LogsOK
<1>4. CASE notices'[n] = Log(notices[n], k)
  BY <1>2, <1>4 DEF LogsOK
<1> QED
  BY <1>3, <1>4

-----------------------------------------------------------------------------
\* A step that has nothing to do with m.
Apart(m) ==
    /\ orderly'[m] = orderly[m] /\ row'[m] = row[m] /\ peers'[m] = peers[m]
    /\ events'[m] = events[m] /\ notices'[m] = notices[m] /\ pending'[m] = pending[m]
    /\ (m \in exempt' <=> m \in exempt) /\ (m \in missing' <=> m \in missing)
    /\ viaHttp' = viaHttp
    /\ \A p \in Procs : \/ proc'[p] = proc[p]
                        \/ proc[p].node # m /\ proc'[p].node # m
                        \/ /\ proc[p].node = m /\ proc'[p].node = m
                           /\ proc[p].at = "reading" /\ proc'[p].at = "ended"
    /\ \A t \in Timers : timer'[t] = timer[t] \/ (timer[t].node # m /\ timer'[t].node # m)
    /\ \A p \in Procs : proc[p].at = "evict" /\ proc[p].node = m => victim' = victim

LEMMA ApartKeeps ==
    ASSUME TypeOK, NEW m \in Nodes, NodeOK(m), Apart(m)
    PROVE  NodeOK(m)'
<1>0. m # None /\ Conns \subseteq Procs
  BY PresenceAssumption DEF Procs
<1>1. \A p \in Procs : Active(p, m)' <=> Active(p, m)
  BY DEF Apart, Active, Reporting
<1>2. \A t \in Timers : Fired(t, m)' <=> Fired(t, m)
  BY DEF Apart, Fired
<1>3. Busy(m)' <=> Busy(m)
  <2>1. Busy(m) <=> (\E p \in Procs : Active(p, m)) \/ (\E t \in Timers : Fired(t, m))
    BY DEF Busy, Active, Fired
  <2>2. Busy(m)' <=> (\E p \in Procs : Active(p, m)') \/ (\E t \in Timers : Fired(t, m)')
    BY DEF Busy, Active, Fired
  <2> QED
    BY <1>1, <1>2, <2>1, <2>2
<1>4. Alone(m)' <=> Alone(m)
  BY <1>1, <1>2 DEF Alone
<1>5. Rests(m)' <=> Rests(m)
  BY DEF Apart, Rests, Linked, Told, Excused, Returns
<1>6. ASSUME NEW p \in Procs, Active(p, m), Stage(p, m)
      PROVE  Stage(p, m)'
  <2>1. proc'[p] = proc[p]
    BY <1>6 DEF Apart, Active, Reporting
  <2>2. proc[p].at = "evict" => victim' = victim
    BY <1>6 DEF Apart, Active
  <2>3. \A r : Told(m, r)' <=> Told(m, r)
    BY DEF Apart, Told
  <2>4. Excused(m)' <=> Excused(m)
    BY DEF Apart, Excused, Returns
  <2>5. Connected(m)' = Connected(m) /\ Gone(m)' = Gone(m) /\ Returns(m)' = Returns(m)
    BY DEF Apart, Connected, Gone, Returns
  <2>6. row'[m] = row[m] /\ peers'[m] = peers[m]
    BY DEF Apart
  <2>7. Seen(p, m)' <=> Seen(p, m)
    BY <2>1, <2>5, <2>6 DEF Apart, Seen
  <2> QED
    BY <1>5, <1>6, <2>1, <2>2, <2>3, <2>4, <2>5, <2>6, <2>7 DEF Stage
<1>7. ASSUME NEW t \in Timers, Fired(t, m), Firing(t, m)
      PROVE  Firing(t, m)'
  <2>1. timer'[t] = timer[t]
    BY <1>7 DEF Apart, Fired
  <2> QED
    BY <1>5, <1>7, <2>1 DEF Firing, Apart, Linked, Told
<1>8. Listed(m) => Listed(m)'
  BY DEF Listed, Apart
<1>9. LogsOK(m)' <=> LogsOK(m)
  BY DEF LogsOK, Apart
<1>10. pending'[m] # None => /\ timer'[pending'[m]].node = m
                             /\ timer'[pending'[m]].at \in {"armed", "expired"}
  <2>1. pending[m] # None => pending[m] \in Timers /\ timer[pending[m]].node = m
    BY DEF TypeOK, NodeOK
  <2> QED
    BY <2>1 DEF Apart, NodeOK
<1>11. peers'[m] # None => proc'[peers'[m]].at # "new" /\ proc'[peers'[m]].node = m
  <2>1. peers[m] # None => peers[m] \in Procs /\ proc[peers[m]].node = m
    BY <1>0 DEF TypeOK, NodeOK
  <2> QED
    BY <2>1 DEF Apart, NodeOK
<1>12. orderly'[m] = orderly[m]
  BY DEF Apart
<1>13. SUFFICES ASSUME orderly[m]
                PROVE  /\ \A p \in Procs : Active(p, m)' => Stage(p, m)'
                       /\ \A t \in Timers : Fired(t, m)' => Firing(t, m)'
  BY <1>3, <1>4, <1>5, <1>8, <1>9, <1>10, <1>11, <1>12 DEF NodeOK
<1> QED
  BY <1>1, <1>2, <1>6, <1>7, <1>13 DEF NodeOK

-----------------------------------------------------------------------------
\* Between reports, and at each step of one.
LEMMA Reporter ==
    ASSUME TypeOK, NEW n \in Nodes, NodeOK(n), orderly[n], NEW p \in Procs, Active(p, n)
    PROVE  /\ Stage(p, n) /\ Listed(n) /\ LogsOK(n)
           /\ \A q \in Procs : q # p => ~Active(q, n)
           /\ \A t \in Timers : ~Fired(t, n)
BY DEF NodeOK, Alone

LEMMA Free ==
    ASSUME TypeOK, NEW n \in Nodes, NodeOK(n), orderly[n], ~Busy(n)
    PROVE  /\ Rests(n) /\ Listed(n) /\ LogsOK(n)
           /\ \A q \in Procs : ~Active(q, n)
           /\ \A t \in Timers : ~Fired(t, n)
BY DEF NodeOK, Busy, Active, Fired

\* The report that p makes of n begins, goes on or ends.
LEMMA Reported ==
    ASSUME NEW n \in Nodes, NEW p \in Procs,
           orderly'[n] => /\ Listed(n)' /\ LogsOK(n)'
                          /\ \A q \in Procs : q # p => ~Active(q, n)'
                          /\ \A t \in Timers : ~Fired(t, n)'
                          /\ Active(p, n)' => Stage(p, n)'
                          /\ ~Active(p, n)' => Rests(n)',
           pending'[n] # None => /\ timer'[pending'[n]].node = n
                                 /\ timer'[pending'[n]].at \in {"armed", "expired"},
           peers'[n] # None => proc'[peers'[n]].at # "new" /\ proc'[peers'[n]].node = n
    PROVE  NodeOK(n)'
<1>1. SUFFICES ASSUME orderly'[n]
               PROVE  /\ Alone(n)' /\ Listed(n)' /\ LogsOK(n)'
                      /\ \A q \in Procs : Active(q, n)' => Stage(q, n)'
                      /\ \A t \in Timers : Fired(t, n)' => Firing(t, n)'
                      /\ ~Busy(n)' => Rests(n)'
  BY DEF NodeOK
<1>2. Alone(n)'
  BY <1>1 DEF Alone
<1>3. \A q \in Procs : Active(q, n)' => Stage(q, n)'
  BY <1>1
<1>4. ~Busy(n)' => Rests(n)'
  <2>1. ~Busy(n)' => ~Active(p, n)'
    BY DEF Busy, Active
  <2> QED
    BY <1>1, <2>1
<1> QED
  BY <1>1, <1>2, <1>3, <1>4

-----------------------------------------------------------------------------
\* p goes on to a; the others, and the rest of its record, stay.
Steps(p, a) ==
    /\ proc'[p].at = a /\ proc'[p].node = proc[p].node /\ proc'[p].up = proc[p].up
    /\ \A q \in Procs : q # p => proc'[q] = proc[q]

\* A connection that has a node keeps it, and what is registered stays so.
LEMMA RegisteredStays ==
    ASSUME TypeOK, NEW n \in Nodes, NodeOK(n), NEW p \in Procs,
           proc'[p].at # "new", proc'[p].node = proc[p].node \/ p \notin Conns,
           \A q \in Procs : q # p => proc'[q] = proc[q],
           peers'[n] = peers[n]
    PROVE  peers'[n] # None => proc'[peers'[n]].at # "new" /\ proc'[peers'[n]].node = n
<1>1. peers[n] # None => peers[n] \in Conns /\ peers[n] \in Procs
  BY DEF TypeOK, Procs
<1>2. peers[n] # None => proc[peers[n]].at # "new" /\ proc[peers[n]].node = n
  BY DEF NodeOK
<1> QED
  BY <1>1, <1>2

LEMMA PendingStays ==
    ASSUME NEW n \in Nodes, NodeOK(n), timer' = timer, pending' = pending
    PROVE  pending'[n] # None => /\ timer'[pending'[n]].node = n
                                 /\ timer'[pending'[n]].at \in {"armed", "expired"}
BY DEF NodeOK

\* A step that changes the record of p alone, and the nodes that p is not at.
LEMMA Elsewhere ==
    ASSUME TypeOK, NEW p \in Procs, NEW n \in Nodes, proc[p].node \in {n, None},
           proc'[p].node \in {n, None}, \A q \in Procs : q # p => proc'[q] = proc[q],
           NEW m \in Nodes, m # n, NodeOK(m),
           orderly'[m] = orderly[m], row'[m] = row[m], peers'[m] = peers[m],
           events'[m] = events[m], notices'[m] = notices[m], pending'[m] = pending[m],
           m \in exempt' <=> m \in exempt, m \in missing' <=> m \in missing, viaHttp' = viaHttp,
           \A t \in Timers : timer'[t] = timer[t] \/ (timer[t].node # m /\ timer'[t].node # m),
           \A q \in Procs : proc[q].at = "evict" /\ proc[q].node = m => victim' = victim
    PROVE  NodeOK(m)'
<1>1. m # None
  BY PresenceAssumption
<1>2. \A q \in Procs : proc'[q] = proc[q] \/ (proc[q].node # m /\ proc'[q].node # m)
  BY <1>1
<1>3. \A q \in Procs : \/ proc'[q] = proc[q]
                       \/ proc[q].node # m /\ proc'[q].node # m
                       \/ /\ proc[q].node = m /\ proc'[q].node = m
                          /\ proc[q].at = "reading" /\ proc'[q].at = "ended"
  BY <1>2
<1>4. Apart(m)
  BY <1>3 DEF Apart
<1> QED
  BY <1>4, ApartKeeps

\* A step of p's report of n that leaves the registry, the timers and what is
\* pending alone.
LEMMA Proceeds ==
    ASSUME TypeOK, NEW n \in Nodes, NodeOK(n), NEW p \in Procs, Active(p, n),
           proc'[p].at # "new", proc'[p].node = n \/ p \notin Conns,
           \A q \in Procs : q # p => proc'[q] = proc[q],
           timer' = timer, pending' = pending, peers' = peers, orderly' = orderly,
           orderly[n] /\ Stage(p, n) /\ LogsOK(n) => /\ LogsOK(n)'
                                                     /\ Active(p, n)' => Stage(p, n)'
                                                     /\ ~Active(p, n)' => Rests(n)'
    PROVE  NodeOK(n)'
<1>1. peers'[n] # None => proc'[peers'[n]].at # "new" /\ proc'[peers'[n]].node = n
  BY RegisteredStays DEF Active
<1>2. pending'[n] # None => /\ timer'[pending'[n]].node = n
                            /\ timer'[pending'[n]].at \in {"armed", "expired"}
  BY PendingStays
<1>3. ASSUME orderly'[n]
      PROVE  /\ Listed(n)' /\ LogsOK(n)'
             /\ \A q \in Procs : q # p => ~Active(q, n)'
             /\ \A t \in Timers : ~Fired(t, n)'
             /\ Active(p, n)' => Stage(p, n)'
             /\ ~Active(p, n)' => Rests(n)'
  <2>1. /\ Stage(p, n) /\ Listed(n) /\ LogsOK(n)
        /\ \A q \in Procs : q # p => ~Active(q, n)
        /\ \A t \in Timers : ~Fired(t, n)
    BY <1>3, Reporter
  <2>2. Listed(n)' /\ \A t \in Timers : ~Fired(t, n)'
    BY <2>1 DEF Listed, Fired
  <2>3. \A q \in Procs : q # p => ~Active(q, n)'
    BY <2>1 DEF Active
  <2> QED
    BY <1>3, <2>1, <2>2, <2>3
<1> QED
  BY <1>1, <1>2, <1>3, Reported

-----------------------------------------------------------------------------
\* A goroutine at a step of a report works for a node.
LEMMA AtWork ==
    ASSUME TypeOK, NEW p \in Procs, proc[p].at \in Reporting \cup {"evict"}
    PROVE  /\ proc[p] \in Proc /\ proc[p].node \in Nodes /\ Active(p, proc[p].node)
BY DEF TypeOK, Proc, Active

\* recordNodeOnline reads the row of the node.
LEMMA OnlineReadStep ==
    ASSUME IInv, NEW p \in Procs, OnlineRead(p)
    PROVE  IInv'
<1>1. proc[p].at = "onRead"
  BY DEF OnlineRead
<1>2. SUFFICES ASSUME NEW n \in Nodes, n = proc[p].node
               PROVE  IInv'
  BY <1>1, AtWork DEF IInv, Reporting
<1>3. /\ row' = row /\ events' = events /\ notices' = notices /\ exempt' = exempt
      /\ timer' = timer /\ pending' = pending /\ peers' = peers /\ victim' = victim
      /\ viaHttp' = viaHttp /\ orderly' = orderly /\ open' = open /\ snap' = snap
      /\ fails' = fails /\ missing' = missing
  BY DEF OnlineRead, registry, store, memory
<1>4. proc[p] \in Proc /\ row[n] \in Online /\ Active(p, n)
  BY <1>1, <1>2, AtWork DEF IInv, Reporting, TypeOK
<1> DEFINE s == [proc[p] EXCEPT !.at = "onTake", !.prev = row[n]]
<1>5. /\ s \in Proc /\ s.at = "onTake" /\ s.prev = row[n] /\ s.node = n /\ s.up = proc[p].up
  BY <1>2, <1>4 DEF Proc, Reporting
<1>6. proc' = [proc EXCEPT ![p] = s]
  BY <1>2 DEF OnlineRead
<1> HIDE DEF s
<1>7. TypeOK' /\ proc'[p] = s /\ \A q \in Procs : q # p => proc'[q] = proc[q]
  BY <1>3, <1>5, <1>6, PresenceAssumption DEF TypeOK, IInv
<1>8. Order'
  BY <1>1, <1>2, <1>3, <1>5, <1>7 DEF Order, IInv, Brief, Procs
<1>9. ASSUME NEW m \in Nodes
      PROVE  NodeOK(m)'
  <2>1. CASE m = n
    <3>1. ASSUME Stage(p, n), LogsOK(n)
          PROVE  LogsOK(n)' /\ Active(p, n)' /\ Stage(p, n)'
      <4>1. LogsOK(n)'
        BY <1>3, <3>1 DEF LogsOK
      <4>2. Active(p, n)'
        BY <1>5, <1>7 DEF Active, Reporting
      <4>3. Connected(n) /\ Told(n, row[n]) /\ Excused(n)
        BY <1>1, <3>1 DEF Stage
      <4>4. Connected(n)' /\ Told(n, row[n])' /\ Excused(n)'
        BY <1>3, <4>3 DEF Connected, Told, Excused, Returns
      <4>5. Stage(p, n)'
        BY <1>3, <1>5, <1>7, <4>4 DEF Stage, Seen
      <4> QED
        BY <4>1, <4>2, <4>5
    <3> QED
      BY <1>3, <1>4, <1>5, <1>7, <2>1, <3>1, Proceeds DEF IInv
  <2>2. CASE m # n
    BY <1>1, <1>2, <1>3, <1>5, <1>7, <2>2, Elsewhere DEF IInv
  <2> QED
    BY <2>1, <2>2
<1> QED
  BY <1>7, <1>8, <1>9 DEF IInv

\* Where a goroutine goes on after its report.
LEMMA RestingIs ==
    ASSUME TypeOK, NEW p \in Procs, NEW b \in BOOLEAN, proc[p].node \in Nodes
    PROVE  /\ Resting(p, b) \in Proc /\ Resting(p, b).at \in {"idle", "reading", "ended"}
           /\ p \in Conns => Resting(p, b).at # "idle" /\ Resting(p, b).node = proc[p].node
           /\ p \notin Conns => Resting(p, b).at = "idle" /\ Resting(p, b).node = None
<1>1. \A a \in {"idle", "reading", "ended"}, x \in Nodes \cup {None} :
         At(a, x) \in Proc /\ At(a, x).at = a /\ At(a, x).node = x
  BY DEF At, Proc, Online
<1> QED
  BY <1>1 DEF Resting

LEMMA ProcMoves ==
    ASSUME TypeOK, NEW p \in Procs, NEW s \in Proc, proc' = [proc EXCEPT ![p] = s],
           s.node \in Nodes \/ s.at \in {"idle", "ended"}
    PROVE  /\ proc' \in [Procs -> Proc]
           /\ \A q \in Procs :
                proc'[q].at \in Reporting \cup {"reading", "evict"} => proc'[q].node # None
           /\ proc'[p] = s /\ \A q \in Procs : q # p => proc'[q] = proc[q]
<1>1. proc \in [Procs -> Proc]
  BY DEF TypeOK
<1>2. /\ proc' \in [Procs -> Proc]
      /\ proc'[p] = s /\ \A q \in Procs : q # p => proc'[q] = proc[q]
  BY <1>1
<1>3. s.at \in Reporting \cup {"reading", "evict"} => s.node # None
  BY PresenceAssumption DEF Reporting
<1> QED
  BY <1>2, <1>3 DEF TypeOK

\* Only p's record changes, and nothing it is the sole keeper of.
LEMMA OrderKept ==
    ASSUME TypeOK, Order, NEW p \in Procs, proc'[p].at \notin {"new", "evict"},
           p \in Conns => proc'[p].node # None,
           proc'[p].at = "idle" => proc'[p].node = None,
           \A q \in Procs : q # p => proc'[q] = proc[q],
           \A t \in Timers : timer'[t] = timer[t] \/ timer'[t] = FreeTimer,
           open' = open, victim' = victim,
           \A n \in Nodes : Brief(events[n])' /\ Brief(notices[n])'
    PROVE  Order'
<1>1. Conns \subseteq Procs /\ Loop \in Procs
  BY DEF Procs
<1>2. \A t \in Timers : timer'[t].at # "free" => timer'[t].node # None
  BY DEF Order, FreeTimer
<1> QED
  BY <1>1, <1>2 DEF Order

\* ... writes it, ...
LEMMA OnlineWriteStep ==
    ASSUME IInv, NEW p \in Procs, OnlineWrite(p)
    PROVE  IInv'
<1>1. proc[p].at = "onWrite"
  BY DEF OnlineWrite
<1>2. SUFFICES ASSUME NEW n \in Nodes, n = proc[p].node
               PROVE  IInv'
  BY <1>1, AtWork DEF IInv, Reporting
<1>3. /\ events' = events /\ notices' = notices /\ exempt' = exempt
      /\ timer' = timer /\ pending' = pending /\ peers' = peers /\ victim' = victim
      /\ viaHttp' = viaHttp /\ orderly' = orderly /\ open' = open /\ snap' = snap
      /\ fails' = fails /\ missing' = missing \ {n}
  BY <1>2 DEF OnlineWrite, registry, memory
<1>4. proc[p] \in Proc /\ Active(p, n)
  BY <1>1, <1>2, AtWork DEF IInv, Reporting
<1>5. row' = [row EXCEPT ![n] = "on"]
  BY <1>2 DEF OnlineWrite
<1>6. row'[n] = "on" /\ \A m \in Nodes : m # n => row'[m] = row[m]
  BY <1>5 DEF IInv, TypeOK
<1> DEFINE s == IF proc[p].prev = "on" THEN Resting(p, TRUE)
                ELSE [proc[p] EXCEPT !.at = "onEvent"]
<1>7. /\ s \in Proc /\ s.at \in {"idle", "reading", "ended", "onEvent"}
      /\ s.at = "onEvent" => s.prev = proc[p].prev /\ s.prev # "on" /\ s.up = proc[p].up
      /\ s.at # "onEvent" => proc[p].prev = "on"
      /\ (s.node = n /\ s.at # "idle") \/ (p \notin Conns /\ s.node = None /\ s.at = "idle")
  <2>1. CASE proc[p].prev = "on"
    BY <1>2, <2>1, RestingIs DEF IInv
  <2>2. CASE proc[p].prev # "on"
    BY <1>2, <1>4, <2>2 DEF Proc, Reporting
  <2> QED
    BY <2>1, <2>2
<1>8. proc' = [proc EXCEPT ![p] = s]
  BY DEF OnlineWrite
<1> HIDE DEF s
<1>9. TypeOK' /\ proc'[p] = s /\ \A q \in Procs : q # p => proc'[q] = proc[q]
  <2>1. row' \in [Nodes -> Online]
    BY <1>5 DEF TypeOK, IInv, Online
  <2> QED
    BY <1>3, <1>7, <1>8, <2>1, ProcMoves DEF TypeOK, IInv
<1>10. Order'
  <2>1. \A m \in Nodes : Brief(events[m])' /\ Brief(notices[m])'
    BY <1>3 DEF IInv, Order, Brief
  <2> QED
    BY <1>3, <1>7, <1>9, <2>1, OrderKept, PresenceAssumption DEF IInv
<1>11. ASSUME NEW m \in Nodes
       PROVE  NodeOK(m)'
  <2>1. CASE m = n
    <3>1. ASSUME Stage(p, n), LogsOK(n)
          PROVE  /\ LogsOK(n)'
                 /\ Active(p, n)' => Stage(p, n)'
                 /\ ~Active(p, n)' => Rests(n)'
      <4>1. LogsOK(n)'
        BY <1>3, <3>1 DEF LogsOK
      <4>2. /\ Connected(n) /\ Told(n, row[n]) /\ Seen(p, n)
            /\ proc[p].up => Returns(n)
        BY <1>1, <3>1 DEF Stage
      <4>7. Told(n, proc[p].prev)
        BY <4>2 DEF Seen, Told
      <4>3. Connected(n)' /\ Told(n, proc[p].prev) /\ (proc[p].up => Returns(n)')
        BY <1>3, <4>2, <4>7 DEF Connected, Returns
      <4>4. \A r : Told(n, r)' <=> Told(n, r)
        BY <1>3 DEF Told
      <4>5. Active(p, n)' => Stage(p, n)'
        BY <1>6, <1>7, <1>9, <4>3, <4>4 DEF Stage, Active, Reporting
      <4>6. ~Active(p, n)' => Rests(n)'
        <5>1. ~Active(p, n)' => proc[p].prev = "on"
          BY <1>7, <1>9 DEF Active, Reporting
        <5>2. Linked(n)' /\ Excused(n)'
          BY <1>6, <4>3 DEF Linked, Excused, Connected
        <5> QED
          BY <1>6, <4>3, <4>4, <5>1, <5>2 DEF Rests
      <4> QED
        BY <4>1, <4>5, <4>6
    <3> QED
      BY <1>3, <1>4, <1>7, <1>9, <2>1, <3>1, Proceeds DEF IInv
  <2>2. CASE m # n
    BY <1>1, <1>2, <1>3, <1>6, <1>7, <1>9, <2>2, Elsewhere DEF IInv
  <2> QED
    BY <2>1, <2>2
<1> QED
  BY <1>9, <1>10, <1>11 DEF IInv

\* ... and logs the return, and tells of it.
LEMMA OnlineEventStep ==
    ASSUME IInv, NEW p \in Procs, OnlineEvent(p)
    PROVE  IInv'
<1>1. proc[p].at = "onEvent"
  BY DEF OnlineEvent
<1>2. SUFFICES ASSUME NEW n \in Nodes, n = proc[p].node
               PROVE  IInv'
  BY <1>1, AtWork DEF IInv, Reporting
<1>3. /\ row' = row /\ exempt' = exempt
      /\ timer' = timer /\ pending' = pending /\ peers' = peers /\ victim' = victim
      /\ viaHttp' = viaHttp /\ orderly' = orderly /\ open' = open /\ snap' = snap
      /\ fails' = fails /\ missing' = missing
  BY DEF OnlineEvent, registry
<1>4. proc[p] \in Proc /\ Active(p, n)
  BY <1>1, <1>2, AtWork DEF IInv, Reporting
<1>5. /\ events' = [events EXCEPT ![n] = Log(events[n], "online")]
      /\ notices' = IF proc[p].up THEN [notices EXCEPT ![n] = Log(notices[n], "up")] ELSE notices
  BY <1>2 DEF OnlineEvent
<1>6. /\ events[n] \in Seq(Event) /\ notices[n] \in Seq(Notice)
      /\ Brief(events[n]) /\ Brief(notices[n])
      /\ events \in [Nodes -> Seq(Event)] /\ notices \in [Nodes -> Seq(Notice)]
  BY DEF IInv, TypeOK, Order
<1>7. /\ Log(events[n], "online") \in Seq(Event) /\ Brief(Log(events[n], "online"))
      /\ Newest(Log(events[n], "online")) = "online"
      /\ Log(notices[n], "up") \in Seq(Notice) /\ Brief(Log(notices[n], "up"))
  BY <1>6, LogFacts DEF Event, Notice
<1>8. /\ events' \in [Nodes -> Seq(Event)] /\ notices' \in [Nodes -> Seq(Notice)]
      /\ events'[n] = Log(events[n], "online")
      /\ notices'[n] = IF proc[p].up THEN Log(notices[n], "up") ELSE notices[n]
      /\ \A m \in Nodes : m # n => events'[m] = events[m] /\ notices'[m] = notices[m]
  BY <1>5, <1>6, <1>7
<1> DEFINE s == Resting(p, TRUE)
<1>9. /\ s \in Proc /\ s.at \in {"idle", "reading", "ended"}
      /\ (s.node = n /\ s.at # "idle") \/ (p \notin Conns /\ s.node = None /\ s.at = "idle")
  BY <1>2, RestingIs DEF IInv
<1>10. proc' = [proc EXCEPT ![p] = s]
  BY DEF OnlineEvent
<1> HIDE DEF s
<1>11. TypeOK' /\ proc'[p] = s /\ \A q \in Procs : q # p => proc'[q] = proc[q]
  BY <1>3, <1>8, <1>9, <1>10, ProcMoves DEF TypeOK, IInv
<1>12. Order'
  <2>1. \A m \in Nodes : Brief(events'[m]) /\ Brief(notices'[m])
    BY <1>6, <1>7, <1>8 DEF IInv, Order
  <2>2. \A m \in Nodes : Brief(events[m])' /\ Brief(notices[m])'
    BY <2>1 DEF Brief
  <2> QED
    BY <1>3, <1>9, <1>11, <2>2, OrderKept, PresenceAssumption DEF IInv
<1>13. ASSUME NEW m \in Nodes
       PROVE  NodeOK(m)'
  <2>1. CASE m = n
    <3>1. ASSUME Stage(p, n), LogsOK(n)
          PROVE  LogsOK(n)' /\ ~Active(p, n)' /\ Rests(n)'
      <4>1. /\ Connected(n) /\ row[n] = "on" /\ proc[p].prev # "on"
            /\ Told(n, proc[p].prev) /\ (proc[p].up => Returns(n))
        BY <1>1, <3>1 DEF Stage
      <4>2. LogsOK(n)'
        <5>1. proc[p].prev \in Online
          BY <1>4 DEF Proc
        <5>2. CASE proc[p].up
          BY <1>6, <1>8, <3>1, <4>1, <5>1, <5>2, EventLogged DEF IInv, Event, Notice
        <5>3. CASE ~proc[p].up
          BY <1>6, <1>8, <3>1, <4>1, <5>1, <5>3, EventLogged DEF IInv, Event, Notice
        <5> QED
          BY <5>2, <5>3
      <4>3. ~Active(p, n)'
        BY <1>9, <1>11 DEF Active, Reporting
      <4>4. Linked(n)' /\ Excused(n)'
        BY <1>3, <4>1 DEF Linked, Excused, Connected
      <4>5. Told(n, row[n])'
        BY <1>3, <1>7, <1>8, <4>1 DEF Told
      <4> QED
        BY <4>2, <4>3, <4>4, <4>5 DEF Rests
    <3> QED
      BY <1>3, <1>4, <1>9, <1>11, <2>1, <3>1, Proceeds DEF IInv
  <2>2. CASE m # n
    BY <1>1, <1>2, <1>3, <1>8, <1>9, <1>11, <2>2, Elsewhere DEF IInv
  <2> QED
    BY <2>1, <2>2
<1> QED
  BY <1>11, <1>12, <1>13 DEF IInv

\* The upsert fails: the record of the node stays as it was, and what waited
\* for it is lost.
LEMMA OnlineWriteFailsStep ==
    ASSUME IInv, NEW p \in Procs, OnlineWriteFails(p)
    PROVE  IInv'
<1>1. proc[p].at = "onWrite"
  BY DEF OnlineWriteFails
<1>2. SUFFICES ASSUME NEW n \in Nodes, n = proc[p].node
               PROVE  IInv'
  BY <1>1, AtWork DEF IInv, Reporting
<1>3. /\ row' = row /\ events' = events /\ exempt' = exempt
      /\ timer' = timer /\ pending' = pending /\ peers' = peers /\ victim' = victim
      /\ viaHttp' = viaHttp /\ orderly' = orderly /\ open' = open /\ snap' = snap
      /\ fails' = fails /\ missing' = missing \cup {n}
      /\ notices' = [notices EXCEPT ![n] = Log(notices[n], "lost")]
  BY <1>2 DEF OnlineWriteFails, registry, store
<1>4. proc[p] \in Proc /\ Active(p, n)
  BY <1>1, <1>2, AtWork DEF IInv, Reporting
<1>6. /\ notices[n] \in Seq(Notice) /\ Brief(events[n]) /\ Brief(notices[n])
      /\ notices \in [Nodes -> Seq(Notice)]
  BY DEF IInv, TypeOK, Order
<1>7. /\ Log(notices[n], "lost") \in Seq(Notice) /\ Brief(Log(notices[n], "lost"))
      /\ Newest(Log(notices[n], "lost")) = "lost"
  BY <1>6, LogFacts DEF Notice
<1>8. /\ notices' \in [Nodes -> Seq(Notice)] /\ notices'[n] = Log(notices[n], "lost")
      /\ \A m \in Nodes : m # n => notices'[m] = notices[m]
  BY <1>3, <1>6, <1>7
<1> DEFINE s == Resting(p, TRUE)
<1>9. /\ s \in Proc /\ s.at \in {"idle", "reading", "ended"}
      /\ (s.node = n /\ s.at # "idle") \/ (p \notin Conns /\ s.node = None /\ s.at = "idle")
  BY <1>2, RestingIs DEF IInv
<1>10. proc' = [proc EXCEPT ![p] = s]
  BY DEF OnlineWriteFails
<1> HIDE DEF s
<1>11. TypeOK' /\ proc'[p] = s /\ \A q \in Procs : q # p => proc'[q] = proc[q]
  BY <1>3, <1>8, <1>9, <1>10, ProcMoves DEF TypeOK, IInv
<1>12. Order'
  <2>1. \A m \in Nodes : Brief(events'[m]) /\ Brief(notices'[m])
    BY <1>3, <1>6, <1>7, <1>8 DEF IInv, Order
  <2>2. \A m \in Nodes : Brief(events[m])' /\ Brief(notices[m])'
    BY <2>1 DEF Brief
  <2> QED
    BY <1>3, <1>9, <1>11, <2>2, OrderKept, PresenceAssumption DEF IInv
<1>13. ASSUME NEW m \in Nodes
       PROVE  NodeOK(m)'
  <2>1. CASE m = n
    <3>1. ASSUME Stage(p, n), LogsOK(n)
          PROVE  LogsOK(n)' /\ ~Active(p, n)' /\ Rests(n)'
      <4>1. Connected(n) /\ Told(n, row[n])
        BY <1>1, <3>1 DEF Stage
      <4>2. LogsOK(n)'
        BY <1>3, <1>6, <1>8, <3>1, NoticeLogged DEF IInv
      <4>3. ~Active(p, n)'
        BY <1>9, <1>11 DEF Active, Reporting
      <4>4. Linked(n)'
        BY <1>3, <4>1 DEF Linked, Connected
      <4>5. Told(n, row[n])' /\ Excused(n)'
        BY <1>3, <1>7, <1>8, <4>1 DEF Told, Excused, Returns
      <4> QED
        BY <4>2, <4>3, <4>4, <4>5 DEF Rests
    <3> QED
      BY <1>3, <1>4, <1>9, <1>11, <2>1, <3>1, Proceeds DEF IInv
  <2>2. CASE m # n
    BY <1>1, <1>2, <1>3, <1>8, <1>9, <1>11, <2>2, Elsewhere DEF IInv
  <2> QED
    BY <2>1, <2>2
<1> QED
  BY <1>11, <1>12, <1>13 DEF IInv

\* The row cannot be read: both logs are marked, after which anything may come.
LEMMA ReadFailsStep ==
    ASSUME IInv, NEW p \in Procs, ReadFails(p)
    PROVE  IInv'
<1>1. proc[p].at \in {"onRead", "offRead"}
  BY DEF ReadFails
<1>2. SUFFICES ASSUME NEW n \in Nodes, n = proc[p].node
               PROVE  IInv'
  BY <1>1, AtWork DEF IInv, Reporting
<1>3. /\ row' = row /\ exempt' = exempt
      /\ timer' = timer /\ pending' = pending /\ peers' = peers /\ victim' = victim
      /\ viaHttp' = viaHttp /\ orderly' = orderly /\ open' = open /\ snap' = snap
      /\ fails' = fails /\ missing' = missing
      /\ events' = [events EXCEPT ![n] = Log(events[n], "lost")]
      /\ notices' = [notices EXCEPT ![n] = Log(notices[n], "lost")]
  BY <1>2 DEF ReadFails, registry
<1>4. proc[p] \in Proc /\ Active(p, n)
  BY <1>1, <1>2, AtWork DEF IInv, Reporting
<1>5. /\ events[n] \in Seq(Event) /\ notices[n] \in Seq(Notice)
      /\ Brief(events[n]) /\ Brief(notices[n])
      /\ events \in [Nodes -> Seq(Event)] /\ notices \in [Nodes -> Seq(Notice)]
  BY DEF IInv, TypeOK, Order
<1>6. /\ Log(events[n], "lost") \in Seq(Event) /\ Brief(Log(events[n], "lost"))
      /\ Newest(Log(events[n], "lost")) = "lost"
  BY <1>5, LogFacts DEF Event
<1>7. /\ Log(notices[n], "lost") \in Seq(Notice) /\ Brief(Log(notices[n], "lost"))
      /\ Newest(Log(notices[n], "lost")) = "lost"
  BY <1>5, LogFacts DEF Notice
<1>8. /\ events' \in [Nodes -> Seq(Event)] /\ notices' \in [Nodes -> Seq(Notice)]
      /\ events'[n] = Log(events[n], "lost") /\ notices'[n] = Log(notices[n], "lost")
      /\ \A m \in Nodes : m # n => events'[m] = events[m] /\ notices'[m] = notices[m]
  BY <1>3, <1>5, <1>6, <1>7
<1> DEFINE a == IF proc[p].at = "onRead" THEN "onTake" ELSE "offWrite"
           s == [proc[p] EXCEPT !.at = a, !.prev = "none"]
<1>9. /\ s \in Proc /\ s.at = a /\ s.prev = "none" /\ s.node = n
      /\ s.at \in {"onTake", "offWrite"}
  BY <1>2, <1>4 DEF Proc, Reporting, Online
<1>10. proc' = [proc EXCEPT ![p] = s]
  BY <1>2 DEF ReadFails
<1> HIDE DEF s
<1>11. TypeOK' /\ proc'[p] = s /\ \A q \in Procs : q # p => proc'[q] = proc[q]
  BY <1>3, <1>8, <1>9, <1>10, ProcMoves DEF TypeOK, IInv
<1>12. Order'
  <2>1. \A m \in Nodes : Brief(events'[m]) /\ Brief(notices'[m])
    BY <1>3, <1>5, <1>6, <1>7, <1>8 DEF IInv, Order
  <2>2. \A m \in Nodes : Brief(events[m])' /\ Brief(notices[m])'
    BY <2>1 DEF Brief
  <2> QED
    BY <1>3, <1>9, <1>11, <2>2, OrderKept, PresenceAssumption DEF IInv
<1>13. ASSUME NEW m \in Nodes
       PROVE  NodeOK(m)'
  <2>1. CASE m = n
    <3>1. ASSUME Stage(p, n), LogsOK(n)
          PROVE  LogsOK(n)' /\ Active(p, n)' /\ Stage(p, n)'
      <4>1. row[n] \in Online /\ Told(n, row[n])
        BY <1>1, <3>1 DEF Stage, IInv, TypeOK
      <4>2. LogsOK(n)'
        BY <1>5, <1>8, <3>1, <4>1, EventLogged DEF IInv, Event, Notice
      <4>3. Active(p, n)'
        BY <1>9, <1>11 DEF Active, Reporting
      <4>4. Told(n, row[n])' /\ Returns(n)' /\ Excused(n)' /\ Seen(p, n)'
        BY <1>6, <1>7, <1>8, <1>9, <1>11 DEF Told, Returns, Excused, Seen
      <4>5. /\ proc[p].at = "onRead" => Connected(n)'
            /\ proc[p].at = "offRead" => Gone(n)'
        BY <1>3, <3>1 DEF Stage, Connected, Gone
      <4>6. Stage(p, n)'
        BY <1>1, <1>9, <1>11, <4>4, <4>5 DEF Stage
      <4> QED
        BY <4>2, <4>3, <4>6
    <3> QED
      BY <1>3, <1>4, <1>9, <1>11, <2>1, <3>1, Proceeds DEF IInv
  <2>2. CASE m # n
    BY <1>1, <1>2, <1>3, <1>8, <1>9, <1>11, <2>2, Elsewhere DEF IInv
  <2> QED
    BY <2>1, <2>2
<1> QED
  BY <1>11, <1>12, <1>13 DEF IInv

\* The timer that is pending for a node is stopped unless its goroutine runs.
LEMMA FreeIs == FreeTimer \in Timer /\ FreeTimer.at = "free" /\ FreeTimer.node = None
BY DEF FreeTimer, Timer

LEMMA Unlisting ==
    ASSUME TypeOK, NEW n \in Nodes, NodeOK(n), NEW left,
           left = IF pending[n] = None THEN timer ELSE Stopped(pending[n])
    PROVE  /\ left \in [Timers -> Timer]
           /\ \A t \in Timers : \/ left[t] = timer[t]
                                \/ /\ left[t] = FreeTimer
                                   /\ timer[t].node = n /\ timer[t].at = "armed"
           /\ orderly[n] => \A t \in Timers : left[t].at = "armed" => left[t].node # n
<1>1. timer \in [Timers -> Timer] /\ pending[n] \in Timers \cup {None}
  BY DEF TypeOK
<1>2. n # None
  BY PresenceAssumption
<1>3. orderly[n] => \A t \in Timers : timer[t].at = "armed" /\ timer[t].node = n => pending[n] = t
  BY DEF NodeOK, Listed
<1>4. CASE pending[n] = None
  <2>1. left = timer
    BY <1>4
  <2>2. None \notin Timers
    BY PresenceAssumption
  <2> QED
    BY <1>1, <1>3, <1>4, <2>1, <2>2
<1>5. CASE pending[n] # None
  <2>1. timer[pending[n]].node = n /\ pending[n] \in Timers
    BY <1>1, <1>5 DEF NodeOK
  <2>2. left = [timer EXCEPT ![pending[n]] = IF timer[pending[n]].at = "armed" THEN FreeTimer
                                             ELSE timer[pending[n]]]
    BY <1>5 DEF Stopped
  <2> HIDE DEF FreeTimer
  <2>3. left \in [Timers -> Timer]
    BY <1>1, <2>1, <2>2, FreeIs
  <2>4. \A t \in Timers : \/ left[t] = timer[t]
                          \/ /\ left[t] = FreeTimer
                             /\ timer[t].node = n /\ timer[t].at = "armed"
    BY <1>1, <2>1, <2>2
  <2>5. left[pending[n]].at # "armed"
    BY <1>1, <2>1, <2>2, FreeIs
  <2>6. orderly[n] => \A t \in Timers : left[t].at = "armed" => left[t].node # n
    BY <1>3, <2>4, <2>5, FreeIs
  <2> QED
    BY <2>3, <2>4, <2>6
<1> QED
  BY <1>4, <1>5

\* ... takes what waits for the node from memory, ...
LEMMA OnlineTakeStep ==
    ASSUME IInv, NEW p \in Procs, OnlineTake(p)
    PROVE  IInv'
<1>1. proc[p].at = "onTake"
  BY DEF OnlineTake
<1>2. SUFFICES ASSUME NEW n \in Nodes, n = proc[p].node
               PROVE  IInv'
  BY <1>1, AtWork DEF IInv, Reporting
<1>3. /\ row' = row /\ events' = events /\ notices' = notices /\ exempt' = exempt \ {n}
      /\ peers' = peers /\ victim' = victim
      /\ viaHttp' = viaHttp /\ orderly' = orderly /\ open' = open /\ snap' = snap
      /\ fails' = fails /\ missing' = missing /\ pending' = [pending EXCEPT ![n] = None]
      /\ timer' = IF pending[n] = None THEN timer ELSE Stopped(pending[n])
  BY <1>2 DEF OnlineTake, registry, store
<1>4. proc[p] \in Proc /\ Active(p, n) /\ NodeOK(n)
  BY <1>1, <1>2, AtWork DEF IInv, Reporting
<1> DEFINE b == proc[p].prev = "off" /\ n \notin exempt /\ pending[n] = None
           s == [proc[p] EXCEPT !.at = "onWrite", !.up = b]
<1>5. /\ s \in Proc /\ s.at = "onWrite" /\ s.prev = proc[p].prev /\ s.node = n /\ s.up = b
  <2>1. b \in BOOLEAN
    OBVIOUS
  <2> HIDE DEF b
  <2> QED
    BY <1>2, <1>4, <2>1 DEF Proc, Reporting
<1>6. proc' = [proc EXCEPT ![p] = s]
  BY <1>2 DEF OnlineTake
<1>7. s.up => proc[p].prev = "off" /\ n \notin exempt /\ pending[n] = None
  BY <1>5
<1> HIDE DEF s
<1>8. /\ timer' \in [Timers -> Timer]
      /\ \A t \in Timers : \/ timer'[t] = timer[t]
                           \/ /\ timer'[t] = FreeTimer
                              /\ timer[t].node = n /\ timer[t].at = "armed"
      /\ orderly[n] => \A t \in Timers : timer'[t].at = "armed" => timer'[t].node # n
  BY <1>3, <1>4, Unlisting DEF IInv
<1>9. /\ pending' \in [Nodes -> Timers \cup {None}] /\ pending'[n] = None
      /\ \A m \in Nodes : m # n => pending'[m] = pending[m]
  BY <1>3 DEF IInv, TypeOK
<1>10. /\ TypeOK' /\ proc'[p] = s /\ \A q \in Procs : q # p => proc'[q] = proc[q]
  <2>1. exempt' \subseteq Nodes
    BY <1>3 DEF IInv, TypeOK
  <2> QED
    BY <1>3, <1>5, <1>6, <1>8, <1>9, <2>1, ProcMoves DEF TypeOK, IInv
<1>11. Order'
  <2>1. \A m \in Nodes : Brief(events[m])' /\ Brief(notices[m])'
    BY <1>3 DEF IInv, Order, Brief
  <2>2. n # None
    BY PresenceAssumption
  <2>3. \A t \in Timers : timer'[t] = timer[t] \/ timer'[t] = FreeTimer
    BY <1>8
  <2> HIDE DEF FreeTimer
  <2> QED
    BY <1>3, <1>5, <1>10, <2>1, <2>2, <2>3, OrderKept DEF IInv
<1>12. ASSUME NEW m \in Nodes
       PROVE  NodeOK(m)'
  <2>1. CASE m = n
    <3>1. peers'[n] # None => proc'[peers'[n]].at # "new" /\ proc'[peers'[n]].node = n
      BY <1>2, <1>3, <1>4, <1>5, <1>10, RegisteredStays DEF IInv
    <3>2. ASSUME orderly'[n]
          PROVE  /\ Listed(n)' /\ LogsOK(n)'
                 /\ \A q \in Procs : q # p => ~Active(q, n)'
                 /\ \A t \in Timers : ~Fired(t, n)'
                 /\ Active(p, n)'
                 /\ Stage(p, n)'
      <4>1. /\ Stage(p, n) /\ Listed(n) /\ LogsOK(n)
            /\ \A q \in Procs : q # p => ~Active(q, n)
            /\ \A t \in Timers : ~Fired(t, n)
        BY <1>3, <1>4, <3>2, Reporter DEF IInv
      <4>2. Listed(n)'
        BY <1>3, <1>8, <3>2 DEF Listed
      <4>3. LogsOK(n)'
        BY <1>3, <4>1 DEF LogsOK
      <4>4. \A q \in Procs : q # p => ~Active(q, n)'
        BY <1>10, <4>1 DEF Active
      <4>5. \A t \in Timers : ~Fired(t, n)'
        BY <1>8, <4>1, FreeIs DEF Fired
      <4>6. Active(p, n)'
        BY <1>5, <1>10 DEF Active, Reporting
      <4>7. /\ Connected(n) /\ Told(n, row[n]) /\ Excused(n) /\ Seen(p, n)
        BY <1>1, <4>1 DEF Stage
      <4>8. s.up => Returns(n)
        BY <1>7, <4>7 DEF Excused, Seen
      <4>9. Connected(n)' /\ Told(n, row[n])' /\ (s.up => Returns(n)')
        BY <1>3, <4>7, <4>8 DEF Connected, Told, Returns
      <4>11. Seen(p, n)'
        BY <1>3, <1>5, <1>10, <4>7 DEF Seen, Returns
      <4>10. Stage(p, n)'
        BY <1>5, <1>10, <4>9, <4>11 DEF Stage
      <4> QED
        BY <4>2, <4>3, <4>4, <4>5, <4>6, <4>10
    <3> QED
      BY <1>9, <2>1, <3>1, <3>2, Reported
  <2>2. CASE m # n
    <3>1. \A t \in Timers : timer'[t] = timer[t] \/ (timer[t].node # m /\ timer'[t].node # m)
      BY <1>8, <2>2, FreeIs, PresenceAssumption
    <3> QED
      BY <1>1, <1>2, <1>3, <1>5, <1>9, <1>10, <2>2, <3>1, Elsewhere DEF IInv
  <2> QED
    BY <2>1, <2>2
<1> QED
  BY <1>10, <1>11, <1>12 DEF IInv

-----------------------------------------------------------------------------
\* recordNodeOffline reads the row of the node, ...
LEMMA OfflineReadStep ==
    ASSUME IInv, NEW p \in Procs, OfflineRead(p)
    PROVE  IInv'
<1>1. proc[p].at = "offRead"
  BY DEF OfflineRead
<1>2. SUFFICES ASSUME NEW n \in Nodes, n = proc[p].node
               PROVE  IInv'
  BY <1>1, AtWork DEF IInv, Reporting
<1>3. /\ row' = row /\ events' = events /\ notices' = notices /\ exempt' = exempt
      /\ timer' = timer /\ pending' = pending /\ peers' = peers /\ victim' = victim
      /\ viaHttp' = viaHttp /\ orderly' = orderly /\ open' = open /\ snap' = snap
      /\ fails' = fails /\ missing' = missing
  BY DEF OfflineRead, registry, store, memory
<1>4. proc[p] \in Proc /\ row[n] \in Online /\ Active(p, n)
  BY <1>1, <1>2, AtWork DEF IInv, Reporting, TypeOK
<1> DEFINE s == [proc[p] EXCEPT !.at = "offWrite", !.prev = row[n]]
<1>5. /\ s \in Proc /\ s.at = "offWrite" /\ s.prev = row[n] /\ s.node = n /\ s.up = proc[p].up
  BY <1>2, <1>4 DEF Proc, Reporting
<1>6. proc' = [proc EXCEPT ![p] = s]
  BY <1>2 DEF OfflineRead
<1> HIDE DEF s
<1>7. TypeOK' /\ proc'[p] = s /\ \A q \in Procs : q # p => proc'[q] = proc[q]
  BY <1>3, <1>5, <1>6, PresenceAssumption DEF TypeOK, IInv
<1>8. Order'
  BY <1>1, <1>2, <1>3, <1>5, <1>7 DEF Order, IInv, Brief, Procs
<1>9. ASSUME NEW m \in Nodes
      PROVE  NodeOK(m)'
  <2>1. CASE m = n
    <3>1. ASSUME Stage(p, n), LogsOK(n)
          PROVE  LogsOK(n)' /\ Active(p, n)' /\ Stage(p, n)'
      <4>1. LogsOK(n)'
        BY <1>3, <3>1 DEF LogsOK
      <4>2. Active(p, n)'
        BY <1>5, <1>7 DEF Active, Reporting
      <4>3. Gone(n) /\ Told(n, row[n]) /\ Excused(n)
        BY <1>1, <3>1 DEF Stage
      <4>4. Gone(n)' /\ Told(n, row[n])' /\ Excused(n)'
        BY <1>3, <4>3 DEF Gone, Told, Excused, Returns
      <4>5. Stage(p, n)'
        BY <1>3, <1>5, <1>7, <4>4 DEF Stage, Seen
      <4> QED
        BY <4>1, <4>2, <4>5
    <3> QED
      BY <1>3, <1>4, <1>5, <1>7, <2>1, <3>1, Proceeds DEF IInv
  <2>2. CASE m # n
    BY <1>1, <1>2, <1>3, <1>5, <1>7, <2>2, Elsewhere DEF IInv
  <2> QED
    BY <2>1, <2>2
<1> QED
  BY <1>7, <1>8, <1>9 DEF IInv

\* ... writes it, if there is one, ...
LEMMA OfflineWriteStep ==
    ASSUME IInv, NEW p \in Procs, OfflineWrite(p)
    PROVE  IInv'
<1>1. proc[p].at = "offWrite"
  BY DEF OfflineWrite
<1>2. SUFFICES ASSUME NEW n \in Nodes, n = proc[p].node
               PROVE  IInv'
  BY <1>1, AtWork DEF IInv, Reporting
<1>3. /\ events' = events /\ notices' = notices /\ exempt' = exempt
      /\ timer' = timer /\ pending' = pending /\ peers' = peers /\ victim' = victim
      /\ viaHttp' = viaHttp /\ orderly' = orderly /\ open' = open /\ snap' = snap
      /\ fails' = fails /\ missing' = missing
  BY DEF OfflineWrite, registry, memory
<1>4. proc[p] \in Proc /\ Active(p, n)
  BY <1>1, <1>2, AtWork DEF IInv, Reporting
<1>5. row' = [row EXCEPT ![n] = IF row[n] = "none" THEN row[n] ELSE "off"]
  BY <1>2 DEF OfflineWrite
<1>6. row'[n] = (IF row[n] = "none" THEN row[n] ELSE "off") /\ \A m \in Nodes : m # n => row'[m] = row[m]
  BY <1>5 DEF IInv, TypeOK
<1> DEFINE s == IF proc[p].prev # "on" THEN Resting(p, FALSE)
                ELSE [proc[p] EXCEPT !.at = "offEvent"]
<1>7. /\ s \in Proc /\ s.at \in {"idle", "reading", "ended", "offEvent"}
      /\ s.at = "offEvent" => s.prev = proc[p].prev /\ proc[p].prev = "on"
      /\ s.at # "offEvent" => proc[p].prev # "on"
      /\ (s.node = n /\ s.at # "idle") \/ (p \notin Conns /\ s.node = None /\ s.at = "idle")
  <2>1. CASE proc[p].prev # "on"
    BY <1>2, <2>1, RestingIs DEF IInv
  <2>2. CASE proc[p].prev = "on"
    BY <1>2, <1>4, <2>2 DEF Proc, Reporting
  <2> QED
    BY <2>1, <2>2
<1>8. proc' = [proc EXCEPT ![p] = s]
  BY DEF OfflineWrite
<1> HIDE DEF s
<1>9. TypeOK' /\ proc'[p] = s /\ \A q \in Procs : q # p => proc'[q] = proc[q]
  <2>1. row' \in [Nodes -> Online]
    BY <1>5 DEF TypeOK, IInv, Online
  <2> QED
    BY <1>3, <1>7, <1>8, <2>1, ProcMoves DEF TypeOK, IInv
<1>10. Order'
  <2>1. \A m \in Nodes : Brief(events[m])' /\ Brief(notices[m])'
    BY <1>3 DEF IInv, Order, Brief
  <2> QED
    BY <1>3, <1>7, <1>9, <2>1, OrderKept, PresenceAssumption DEF IInv
<1>11. ASSUME NEW m \in Nodes
       PROVE  NodeOK(m)'
  <2>1. CASE m = n
    <3>1. ASSUME Stage(p, n), LogsOK(n)
          PROVE  /\ LogsOK(n)'
                 /\ Active(p, n)' => Stage(p, n)'
                 /\ ~Active(p, n)' => Rests(n)'
      <4>1. LogsOK(n)'
        BY <1>3, <3>1 DEF LogsOK
      <4>2. Gone(n) /\ Told(n, row[n]) /\ Excused(n) /\ Seen(p, n)
        BY <1>1, <3>1 DEF Stage
      <4>3. Gone(n)' /\ row[n] \in Online
        BY <1>3, <4>2 DEF Gone, IInv, TypeOK
      <4>4. \A r : Told(n, r)' <=> Told(n, r)
        BY <1>3 DEF Told
      <4>5. Active(p, n)' => Stage(p, n)'
        <5>1. Active(p, n)' => row[n] = "on"
          BY <1>7, <1>9, <4>2 DEF Active, Reporting, Seen
        <5> QED
          BY <1>6, <1>7, <1>9, <4>2, <4>3, <4>4, <5>1 DEF Stage, Active, Reporting
      <4>6. ~Active(p, n)' => Rests(n)'
        <5>1. ASSUME ~Active(p, n)', row[n] = "on"
              PROVE  Newest(events[n]) = "lost" /\ Returns(n)
          BY <1>7, <1>9, <4>2, <5>1 DEF Active, Reporting, Seen
        <5>2. row[n] # "on" => row'[n] = row[n]
          BY <1>6, <4>3 DEF Online
        <5>3. ~Active(p, n)' => Told(n, row'[n]) /\ Excused(n)'
          BY <1>3, <1>6, <4>2, <5>1, <5>2 DEF Excused, Returns, Told
        <5>4. Linked(n)'
          <6>1. row'[n] # "on"
            BY <1>6
          <6> QED
            BY <4>3, <6>1 DEF Linked, Gone
        <5> QED
          BY <4>4, <5>3, <5>4 DEF Rests
      <4> QED
        BY <4>1, <4>5, <4>6
    <3> QED
      BY <1>3, <1>4, <1>7, <1>9, <2>1, <3>1, Proceeds DEF IInv
  <2>2. CASE m # n
    BY <1>1, <1>2, <1>3, <1>6, <1>7, <1>9, <2>2, Elsewhere DEF IInv
  <2> QED
    BY <2>1, <2>2
<1> QED
  BY <1>9, <1>10, <1>11 DEF IInv

\* ... and logs the outage.
LEMMA OfflineEventStep ==
    ASSUME IInv, NEW p \in Procs, OfflineEvent(p)
    PROVE  IInv'
<1>1. proc[p].at = "offEvent"
  BY DEF OfflineEvent
<1>2. SUFFICES ASSUME NEW n \in Nodes, n = proc[p].node
               PROVE  IInv'
  BY <1>1, AtWork DEF IInv, Reporting
<1>3. /\ row' = row /\ exempt' = exempt
      /\ timer' = timer /\ pending' = pending /\ peers' = peers /\ victim' = victim
      /\ viaHttp' = viaHttp /\ orderly' = orderly /\ open' = open /\ snap' = snap
      /\ fails' = fails /\ missing' = missing
  BY DEF OfflineEvent, registry, memory
<1>4. proc[p] \in Proc /\ Active(p, n)
  BY <1>1, <1>2, AtWork DEF IInv, Reporting
<1>5. events' = [events EXCEPT ![n] = Log(events[n], "offline")] /\ notices' = notices
  BY <1>2 DEF OfflineEvent, memory
<1>6. /\ events[n] \in Seq(Event) /\ Brief(events[n]) /\ Brief(notices[n])
      /\ events \in [Nodes -> Seq(Event)]
  BY DEF IInv, TypeOK, Order
<1>7. /\ Log(events[n], "offline") \in Seq(Event) /\ Brief(Log(events[n], "offline"))
      /\ Newest(Log(events[n], "offline")) = "offline"
  BY <1>6, LogFacts DEF Event
<1>8. /\ events' \in [Nodes -> Seq(Event)]
      /\ events'[n] = Log(events[n], "offline")
      /\ \A m \in Nodes : m # n => events'[m] = events[m]
  BY <1>5, <1>6, <1>7
<1> DEFINE s == [proc[p] EXCEPT !.at = "offArm"]
<1>9. s \in Proc /\ s.at = "offArm" /\ s.node = n
  BY <1>2, <1>4 DEF Proc, Reporting
<1>10. proc' = [proc EXCEPT ![p] = s]
  BY <1>2 DEF OfflineEvent, Goto
<1> HIDE DEF s
<1>11. TypeOK' /\ proc'[p] = s /\ \A q \in Procs : q # p => proc'[q] = proc[q]
  BY <1>3, <1>5, <1>8, <1>9, <1>10, ProcMoves DEF TypeOK, IInv
<1>12. Order'
  <2>1. \A m \in Nodes : Brief(events'[m]) /\ Brief(notices'[m])
    BY <1>5, <1>6, <1>7, <1>8 DEF IInv, Order
  <2>2. \A m \in Nodes : Brief(events[m])' /\ Brief(notices[m])'
    BY <2>1 DEF Brief
  <2> QED
    BY <1>3, <1>9, <1>11, <2>2, OrderKept, PresenceAssumption DEF IInv
<1>13. ASSUME NEW m \in Nodes
       PROVE  NodeOK(m)'
  <2>1. CASE m = n
    <3>1. ASSUME Stage(p, n), LogsOK(n)
          PROVE  LogsOK(n)' /\ Active(p, n)' /\ Stage(p, n)'
      <4>1. Gone(n) /\ row[n] = "off" /\ Told(n, "on")
        BY <1>1, <3>1 DEF Stage
      <4>2. LogsOK(n)'
        BY <1>5, <1>6, <1>8, <3>1, <4>1, EventLogged DEF IInv, Event, Notice, Online
      <4>3. Active(p, n)'
        BY <1>9, <1>11 DEF Active, Reporting
      <4>4. Gone(n)' /\ row'[n] = "off"
        BY <1>3, <4>1 DEF Gone
      <4>5. Told(n, "off")'
        BY <1>7, <1>8 DEF Told
      <4> QED
        BY <1>9, <1>11, <4>2, <4>3, <4>4, <4>5 DEF Stage
    <3> QED
      BY <1>3, <1>4, <1>9, <1>11, <2>1, <3>1, Proceeds DEF IInv
  <2>2. CASE m # n
    BY <1>1, <1>2, <1>3, <1>5, <1>8, <1>9, <1>11, <2>2, Elsewhere DEF IInv
  <2> QED
    BY <2>1, <2>2
<1> QED
  BY <1>11, <1>12, <1>13 DEF IInv

\* During an upgrade or a maintenance window the node is exempted, ...
LEMMA OfflineQuietStep ==
    ASSUME IInv, NEW p \in Procs, OfflineQuiet(p)
    PROVE  IInv'
<1>1. proc[p].at = "offArm"
  BY DEF OfflineQuiet
<1>2. SUFFICES ASSUME NEW n \in Nodes, n = proc[p].node
               PROVE  IInv'
  BY <1>1, AtWork DEF IInv, Reporting
<1>3. /\ row' = row /\ events' = events /\ notices' = notices /\ exempt' = exempt \cup {n}
      /\ timer' = timer /\ pending' = pending /\ peers' = peers /\ victim' = victim
      /\ viaHttp' = viaHttp /\ orderly' = orderly /\ open' = open /\ snap' = snap
      /\ fails' = fails /\ missing' = missing
  BY <1>2 DEF OfflineQuiet, registry, store
<1>4. proc[p] \in Proc /\ Active(p, n)
  BY <1>1, <1>2, AtWork DEF IInv, Reporting
<1> DEFINE s == Resting(p, FALSE)
<1>5. /\ s \in Proc /\ s.at \in {"idle", "reading", "ended"}
      /\ (s.node = n /\ s.at # "idle") \/ (p \notin Conns /\ s.node = None /\ s.at = "idle")
  BY <1>2, RestingIs DEF IInv
<1>6. proc' = [proc EXCEPT ![p] = s]
  BY DEF OfflineQuiet
<1> HIDE DEF s
<1>7. TypeOK' /\ proc'[p] = s /\ \A q \in Procs : q # p => proc'[q] = proc[q]
  <2>1. exempt' \subseteq Nodes
    BY <1>3 DEF IInv, TypeOK
  <2> QED
    BY <1>3, <1>5, <1>6, <2>1, ProcMoves DEF TypeOK, IInv
<1>8. Order'
  <2>1. \A m \in Nodes : Brief(events[m])' /\ Brief(notices[m])'
    BY <1>3 DEF IInv, Order, Brief
  <2> QED
    BY <1>3, <1>5, <1>7, <2>1, OrderKept, PresenceAssumption DEF IInv
<1>9. ASSUME NEW m \in Nodes
      PROVE  NodeOK(m)'
  <2>1. CASE m = n
    <3>1. ASSUME Stage(p, n), LogsOK(n)
          PROVE  LogsOK(n)' /\ ~Active(p, n)' /\ Rests(n)'
      <4>1. Gone(n) /\ row[n] = "off" /\ Told(n, "off")
        BY <1>1, <3>1 DEF Stage
      <4>2. LogsOK(n)'
        BY <1>3, <3>1 DEF LogsOK
      <4>3. ~Active(p, n)'
        BY <1>5, <1>7 DEF Active, Reporting
      <4>4. Linked(n)' /\ Excused(n)' /\ Told(n, row[n])'
        BY <1>3, <4>1 DEF Linked, Excused, Gone, Told
      <4> QED
        BY <4>2, <4>3, <4>4 DEF Rests
    <3> QED
      BY <1>3, <1>4, <1>5, <1>7, <2>1, <3>1, Proceeds DEF IInv
  <2>2. CASE m # n
    BY <1>1, <1>2, <1>3, <1>5, <1>7, <2>2, Elsewhere DEF IInv
  <2> QED
    BY <2>1, <2>2
<1> QED
  BY <1>7, <1>8, <1>9 DEF IInv

\* ... and otherwise a timer is armed for the notice.
LEMMA OfflineArmStep ==
    ASSUME IInv, NEW p \in Procs, OfflineArm(p)
    PROVE  IInv'
<1>1. proc[p].at = "offArm"
  BY DEF OfflineArm
<1>2. SUFFICES ASSUME NEW n \in Nodes, n = proc[p].node
               PROVE  IInv'
  BY <1>1, AtWork DEF IInv, Reporting
<1>3. /\ row' = row /\ events' = events /\ notices' = notices /\ exempt' = exempt
      /\ peers' = peers /\ victim' = victim
      /\ viaHttp' = viaHttp /\ orderly' = orderly /\ open' = open /\ snap' = snap
      /\ fails' = fails /\ missing' = missing
  BY DEF OfflineArm, registry, store
<1>4. proc[p] \in Proc /\ Active(p, n) /\ NodeOK(n) /\ n # None
  BY <1>1, <1>2, AtWork, PresenceAssumption DEF IInv, Reporting
<1> DEFINE left == IF pending[n] = None THEN timer ELSE Stopped(pending[n])
<1>5. PICK t \in Timers : /\ left[t] = FreeTimer
                          /\ timer' = [left EXCEPT ![t] = [at |-> "armed", node |-> n]]
                          /\ pending' = [pending EXCEPT ![n] = t]
  BY <1>2 DEF OfflineArm
<1>6. /\ left \in [Timers -> Timer]
      /\ \A u \in Timers : \/ left[u] = timer[u]
                           \/ /\ left[u] = FreeTimer
                              /\ timer[u].node = n /\ timer[u].at = "armed"
      /\ orderly[n] => \A u \in Timers : left[u].at = "armed" => left[u].node # n
  BY <1>4, Unlisting DEF IInv
<1> HIDE DEF left
<1> DEFINE a == [at |-> "armed", node |-> n]
<1>7. a \in Timer /\ a.at = "armed" /\ a.node = n
  BY DEF Timer
<1> HIDE DEF a
<1>8. /\ timer' \in [Timers -> Timer] /\ timer'[t] = a
      /\ \A u \in Timers : u # t => timer'[u] = left[u]
  BY <1>5, <1>6, <1>7 DEF a
<1>9. /\ pending' \in [Nodes -> Timers \cup {None}] /\ pending'[n] = t
      /\ \A m \in Nodes : m # n => pending'[m] = pending[m]
  BY <1>5 DEF IInv, TypeOK
<1> DEFINE s == Resting(p, FALSE)
<1>10. /\ s \in Proc /\ s.at \in {"idle", "reading", "ended"}
       /\ (s.node = n /\ s.at # "idle") \/ (p \notin Conns /\ s.node = None /\ s.at = "idle")
  BY <1>2, RestingIs DEF IInv
<1>11. proc' = [proc EXCEPT ![p] = s]
  BY DEF OfflineArm
<1> HIDE DEF s
<1>12. TypeOK' /\ proc'[p] = s /\ \A q \in Procs : q # p => proc'[q] = proc[q]
  BY <1>3, <1>8, <1>9, <1>10, <1>11, ProcMoves DEF TypeOK, IInv
<1>13. Order'
  <2>1. \A m \in Nodes : Brief(events[m])' /\ Brief(notices[m])'
    BY <1>3 DEF IInv, Order, Brief
  <2>2. \A u \in Timers : timer'[u].at # "free" => timer'[u].node # None
    BY <1>4, <1>6, <1>7, <1>8, FreeIs DEF IInv, Order
  <2>3. Conns \subseteq Procs /\ Loop \in Procs
    BY DEF Procs
  <2> QED
    BY <1>3, <1>4, <1>10, <1>12, <2>1, <2>2, <2>3, PresenceAssumption DEF IInv, Order
<1>14. ASSUME NEW m \in Nodes
       PROVE  NodeOK(m)'
  <2>1. CASE m = n
    <3>1. peers'[n] # None => proc'[peers'[n]].at # "new" /\ proc'[peers'[n]].node = n
      BY <1>2, <1>3, <1>4, <1>10, <1>12, RegisteredStays DEF IInv
    <3>2. ASSUME orderly'[n]
          PROVE  /\ Listed(n)' /\ LogsOK(n)'
                 /\ \A q \in Procs : q # p => ~Active(q, n)'
                 /\ \A u \in Timers : ~Fired(u, n)'
                 /\ ~Active(p, n)'
                 /\ Rests(n)'
      <4>1. /\ Stage(p, n) /\ LogsOK(n)
            /\ \A q \in Procs : q # p => ~Active(q, n)
            /\ \A u \in Timers : ~Fired(u, n)
        BY <1>3, <1>4, <3>2, Reporter DEF IInv
      <4>2. Listed(n)'
        BY <1>3, <1>6, <1>8, <1>9, <3>2 DEF Listed
      <4>3. LogsOK(n)'
        BY <1>3, <4>1 DEF LogsOK
      <4>4. \A q \in Procs : q # p => ~Active(q, n)'
        BY <1>12, <4>1 DEF Active
      <4>5. \A u \in Timers : ~Fired(u, n)'
        BY <1>6, <1>7, <1>8, <4>1, FreeIs DEF Fired
      <4>6. ~Active(p, n)'
        BY <1>10, <1>12 DEF Active, Reporting
      <4>7. Gone(n) /\ row[n] = "off" /\ Told(n, "off")
        BY <1>1, <4>1 DEF Stage
      <4>8. t # None
        BY PresenceAssumption
      <4>9. Rests(n)'
        BY <1>3, <1>9, <4>7, <4>8 DEF Rests, Linked, Excused, Gone, Told
      <4> QED
        BY <4>2, <4>3, <4>4, <4>5, <4>6, <4>9
    <3>3. timer'[pending'[n]].node = n /\ timer'[pending'[n]].at \in {"armed", "expired"}
      BY <1>7, <1>8, <1>9
    <3> QED
      BY <2>1, <3>1, <3>2, <3>3, Reported
  <2>2. CASE m # n
    <3>1. \A u \in Timers : timer'[u] = timer[u] \/ (timer[u].node # m /\ timer'[u].node # m)
      <4>1. m # None
        BY PresenceAssumption
      <4> QED
        BY <1>5, <1>6, <1>7, <1>8, <2>2, <4>1, FreeIs
    <3> QED
      BY <1>1, <1>2, <1>3, <1>9, <1>10, <1>12, <2>2, <3>1, Elsewhere DEF IInv
  <2> QED
    BY <2>1, <2>2
<1> QED
  BY <1>12, <1>13, <1>14 DEF IInv

-----------------------------------------------------------------------------
\* A step of the goroutine of timer t that works for n.
LEMMA Noticed ==
    ASSUME TypeOK, NEW n \in Nodes, NodeOK(n), NEW t \in Timers,
           proc' = proc, peers' = peers,
           orderly'[n] => /\ Listed(n)' /\ LogsOK(n)'
                          /\ \A q \in Procs : ~Active(q, n)
                          /\ \A u \in Timers : u # t => ~Fired(u, n)'
                          /\ Fired(t, n)' => Firing(t, n)'
                          /\ ~Fired(t, n)' => Rests(n)',
           pending'[n] # None => /\ timer'[pending'[n]].node = n
                                 /\ timer'[pending'[n]].at \in {"armed", "expired"}
    PROVE  NodeOK(n)'
<1>1. peers'[n] # None => proc'[peers'[n]].at # "new" /\ proc'[peers'[n]].node = n
  BY DEF NodeOK
<1>2. SUFFICES ASSUME orderly'[n]
               PROVE  /\ Alone(n)' /\ Listed(n)' /\ LogsOK(n)'
                      /\ \A q \in Procs : Active(q, n)' => Stage(q, n)'
                      /\ \A u \in Timers : Fired(u, n)' => Firing(u, n)'
                      /\ ~Busy(n)' => Rests(n)'
  BY <1>1 DEF NodeOK
<1>3. \A q \in Procs : ~Active(q, n)'
  BY <1>2 DEF Active
<1>4. Alone(n)'
  BY <1>2, <1>3 DEF Alone
<1>5. ~Busy(n)' => Rests(n)'
  <2>1. ~Busy(n)' => ~Fired(t, n)'
    BY DEF Busy, Fired
  <2> QED
    BY <1>2, <2>1
<1> QED
  BY <1>2, <1>3, <1>4, <1>5

LEMMA ElsewhereTimed ==
    ASSUME TypeOK, NEW t \in Timers, NEW n \in Nodes, timer[t].node \in {n, None},
           timer'[t].node \in {n, None}, \A u \in Timers : u # t => timer'[u] = timer[u],
           NEW m \in Nodes, m # n, NodeOK(m), proc' = proc, victim' = victim,
           orderly'[m] = orderly[m], row' = row, peers' = peers,
           events' = events, notices'[m] = notices[m], pending'[m] = pending[m],
           exempt' = exempt, missing' = missing, viaHttp' = viaHttp
    PROVE  NodeOK(m)'
<1>1. m # None
  BY PresenceAssumption
<1>2. \A u \in Timers : timer'[u] = timer[u] \/ (timer[u].node # m /\ timer'[u].node # m)
  BY <1>1
<1>3. \A q \in Procs : \/ proc'[q] = proc[q]
                       \/ proc[q].node # m /\ proc'[q].node # m
                       \/ /\ proc[q].node = m /\ proc'[q].node = m
                          /\ proc[q].at = "reading" /\ proc'[q].at = "ended"
  OBVIOUS
<1>4. Apart(m)
  BY <1>2, <1>3 DEF Apart
<1> QED
  BY <1>4, ApartKeeps

\* The 20 s of a timer are over: its goroutine starts, ...
LEMMA TimerExpiresStep ==
    ASSUME IInv, NEW t \in Timers, TimerExpires(t)
    PROVE  IInv'
<1>1. timer[t].at = "armed"
  BY DEF TimerExpires
<1>2. timer[t] \in Timer /\ timer[t].node # None
  BY <1>1 DEF IInv, TypeOK, Order
<1>3. SUFFICES ASSUME NEW n \in Nodes, n = timer[t].node
               PROVE  IInv'
  BY <1>2 DEF Timer
<1>4. /\ row' = row /\ events' = events /\ notices' = notices /\ exempt' = exempt
      /\ pending' = pending /\ peers' = peers /\ victim' = victim /\ proc' = proc
      /\ viaHttp' = viaHttp /\ open' = open /\ snap' = snap /\ fails' = fails /\ missing' = missing
      /\ orderly' = [orderly EXCEPT ![n] = orderly[n] /\ ~Busy(n)]
  BY <1>3 DEF TimerExpires, registry, store, Begins
<1> DEFINE s == [timer[t] EXCEPT !.at = "expired"]
<1>5. s \in Timer /\ s.at = "expired" /\ s.node = n
  BY <1>2, <1>3 DEF Timer
<1>6. timer' = [timer EXCEPT ![t] = s]
  BY DEF TimerExpires
<1> HIDE DEF s
<1>7. /\ timer' \in [Timers -> Timer] /\ timer'[t] = s
      /\ \A u \in Timers : u # t => timer'[u] = timer[u]
  BY <1>5, <1>6 DEF IInv, TypeOK
<1>8. /\ orderly' \in [Nodes -> BOOLEAN]
      /\ orderly'[n] <=> (orderly[n] /\ ~Busy(n))
      /\ \A m \in Nodes : m # n => orderly'[m] = orderly[m]
  <2>1. orderly \in [Nodes -> BOOLEAN]
    BY DEF IInv, TypeOK
  <2> DEFINE b == orderly[n] /\ ~Busy(n)
  <2>2. orderly' = [orderly EXCEPT ![n] = b] /\ b \in BOOLEAN
    BY <1>4
  <2>3. b <=> (orderly[n] /\ ~Busy(n))
    OBVIOUS
  <2> HIDE DEF b
  <2> QED
    BY <2>1, <2>2, <2>3
<1>9. TypeOK'
  BY <1>4, <1>7, <1>8 DEF TypeOK, IInv
<1>10. Order'
  <2>1. \A m \in Nodes : Brief(events[m])' /\ Brief(notices[m])'
    BY <1>4 DEF IInv, Order, Brief
  <2>2. \A u \in Timers : timer'[u].at # "free" => timer'[u].node # None
    BY <1>2, <1>3, <1>5, <1>7 DEF IInv, Order
  <2> QED
    BY <1>4, <2>1, <2>2 DEF IInv, Order
<1>11. ASSUME NEW m \in Nodes
       PROVE  NodeOK(m)'
  <2>1. CASE m = n
    <3>1. ASSUME orderly'[n]
          PROVE  /\ Listed(n)' /\ LogsOK(n)'
                 /\ \A q \in Procs : ~Active(q, n)
                 /\ \A u \in Timers : u # t => ~Fired(u, n)'
                 /\ Fired(t, n)'
                 /\ Firing(t, n)'
      <4>1. /\ Rests(n) /\ Listed(n) /\ LogsOK(n)
            /\ \A q \in Procs : ~Active(q, n)
            /\ \A u \in Timers : ~Fired(u, n)
        BY <1>8, <3>1, Free DEF IInv
      <4>2. pending[n] = t
        BY <1>1, <1>3, <4>1 DEF Listed
      <4>3. Listed(n)' /\ LogsOK(n)'
        BY <1>4, <1>5, <1>7, <4>1 DEF Listed, LogsOK
      <4>4. Rests(n)' /\ pending'[n] = t
        BY <1>4, <4>1, <4>2 DEF Rests, Linked, Told, Excused, Returns
      <4>5. \A u \in Timers : u # t => ~Fired(u, n)'
        BY <1>7, <4>1 DEF Fired
      <4>6. Fired(t, n)' /\ Firing(t, n)'
        BY <1>5, <1>7, <4>4 DEF Fired, Firing
      <4> QED
        BY <4>1, <4>3, <4>5, <4>6
    <3>2. pending'[n] # None => /\ timer'[pending'[n]].node = n
                                /\ timer'[pending'[n]].at \in {"armed", "expired"}
      <4>1. pending[n] # None => pending[n] \in Timers
        BY DEF IInv, TypeOK
      <4>2. pending[n] # None => /\ timer[pending[n]].node = n
                                 /\ timer[pending[n]].at \in {"armed", "expired"}
        BY DEF IInv, NodeOK
      <4> QED
        BY <1>4, <1>5, <1>7, <4>1, <4>2
    <3> QED
      BY <1>4, <2>1, <3>1, <3>2, Noticed DEF IInv
  <2>2. CASE m # n
    BY <1>3, <1>4, <1>5, <1>7, <1>8, <2>2, ElsewhereTimed DEF IInv
  <2> QED
    BY <2>1, <2>2
<1> QED
  BY <1>9, <1>10, <1>11 DEF IInv

\* ... removes what is pending for the node, ...
LEMMA TimerUnlistsStep ==
    ASSUME IInv, NEW t \in Timers, TimerUnlists(t)
    PROVE  IInv'
<1>1. timer[t].at = "expired"
  BY DEF TimerUnlists
<1>2. timer[t] \in Timer /\ timer[t].node # None
  BY <1>1 DEF IInv, TypeOK, Order
<1>3. SUFFICES ASSUME NEW n \in Nodes, n = timer[t].node
               PROVE  IInv'
  BY <1>2 DEF Timer
<1>4. /\ row' = row /\ events' = events /\ notices' = notices /\ exempt' = exempt
      /\ orderly' = orderly /\ peers' = peers /\ victim' = victim /\ proc' = proc
      /\ viaHttp' = viaHttp /\ open' = open /\ snap' = snap /\ fails' = fails /\ missing' = missing
      /\ pending' = [pending EXCEPT ![n] = None]
  BY <1>3 DEF TimerUnlists, registry, store
<1> DEFINE s == [timer[t] EXCEPT !.at = "check"]
<1>5. s \in Timer /\ s.at = "check" /\ s.node = n
  BY <1>2, <1>3 DEF Timer
<1>6. timer' = [timer EXCEPT ![t] = s]
  BY DEF TimerUnlists
<1> HIDE DEF s
<1>7. /\ timer' \in [Timers -> Timer] /\ timer'[t] = s
      /\ \A u \in Timers : u # t => timer'[u] = timer[u]
  BY <1>5, <1>6 DEF IInv, TypeOK
<1>8. /\ pending' \in [Nodes -> Timers \cup {None}] /\ pending'[n] = None
      /\ \A m \in Nodes : m # n => pending'[m] = pending[m]
  BY <1>4 DEF IInv, TypeOK
<1>9. TypeOK'
  BY <1>4, <1>7, <1>8 DEF TypeOK, IInv
<1>10. Order'
  <2>1. \A m \in Nodes : Brief(events[m])' /\ Brief(notices[m])'
    BY <1>4 DEF IInv, Order, Brief
  <2>2. \A u \in Timers : timer'[u].at # "free" => timer'[u].node # None
    BY <1>2, <1>3, <1>5, <1>7 DEF IInv, Order
  <2> QED
    BY <1>4, <2>1, <2>2 DEF IInv, Order
<1>11. ASSUME NEW m \in Nodes
       PROVE  NodeOK(m)'
  <2>1. CASE m = n
    <3>1. ASSUME orderly'[n]
          PROVE  /\ Listed(n)' /\ LogsOK(n)'
                 /\ \A q \in Procs : ~Active(q, n)
                 /\ \A u \in Timers : u # t => ~Fired(u, n)'
                 /\ Fired(t, n)'
                 /\ Firing(t, n)'
      <4>0. Fired(t, n) /\ orderly[n] /\ NodeOK(n)
        BY <1>1, <1>3, <1>4, <3>1 DEF Fired, IInv
      <4>1. /\ Firing(t, n) /\ Listed(n) /\ LogsOK(n)
            /\ \A q \in Procs : ~Active(q, n)
            /\ \A u \in Timers : u # t => ~Fired(u, n)
        BY <4>0 DEF NodeOK, Alone
      <4>2. pending[n] = t /\ Rests(n)
        BY <1>1, <4>1 DEF Firing
      <4>3. Listed(n)' /\ LogsOK(n)'
        <5>1. \A u \in Timers : ~(timer'[u].at = "armed" /\ timer'[u].node = n)
          BY <1>1, <1>5, <1>7, <4>1, <4>2 DEF Listed
        <5> QED
          BY <1>4, <4>1, <5>1 DEF Listed, LogsOK
      <4>4. Linked(n)' /\ Told(n, row[n])'
        BY <1>4, <4>2 DEF Rests, Linked, Told
      <4>5. \A u \in Timers : u # t => ~Fired(u, n)'
        BY <1>7, <4>1 DEF Fired
      <4>6. Fired(t, n)' /\ Firing(t, n)'
        BY <1>5, <1>7, <4>4 DEF Fired, Firing
      <4> QED
        BY <4>1, <4>3, <4>5, <4>6
    <3> QED
      BY <1>4, <1>8, <2>1, <3>1, Noticed DEF IInv
  <2>2. CASE m # n
    BY <1>3, <1>4, <1>5, <1>7, <1>8, <2>2, ElsewhereTimed DEF IInv
  <2> QED
    BY <2>1, <2>2
<1> QED
  BY <1>9, <1>10, <1>11 DEF IInv

\* ... and tells that the node is down, if it still is.
LEMMA TimerNotifiesStep ==
    ASSUME IInv, NEW t \in Timers, TimerNotifies(t)
    PROVE  IInv'
<1>1. timer[t].at = "check"
  BY DEF TimerNotifies
<1>2. timer[t] \in Timer /\ timer[t].node # None
  BY <1>1 DEF IInv, TypeOK, Order
<1>3. SUFFICES ASSUME NEW n \in Nodes, n = timer[t].node
               PROVE  IInv'
  BY <1>2 DEF Timer
<1>4. /\ row' = row /\ events' = events /\ exempt' = exempt /\ pending' = pending
      /\ orderly' = orderly /\ peers' = peers /\ victim' = victim /\ proc' = proc
      /\ viaHttp' = viaHttp /\ open' = open /\ snap' = snap /\ fails' = fails /\ missing' = missing
      /\ notices' = IF row[n] = "off" THEN [notices EXCEPT ![n] = Log(notices[n], "down")]
                    ELSE notices
  BY <1>3 DEF TimerNotifies, registry, store
<1>5. notices[n] \in Seq(Notice) /\ Brief(notices[n])
  BY DEF IInv, TypeOK, Order
<1>6. /\ Log(notices[n], "down") \in Seq(Notice)
      /\ Brief(Log(notices[n], "down")) /\ Newest(Log(notices[n], "down")) = "down"
  BY <1>5, LogFacts DEF Notice
<1>7. /\ timer' \in [Timers -> Timer] /\ timer'[t] = FreeTimer
      /\ \A u \in Timers : u # t => timer'[u] = timer[u]
  <2> HIDE DEF FreeTimer
  <2> QED
    BY FreeIs DEF IInv, TypeOK, TimerNotifies
<1>8. /\ notices' \in [Nodes -> Seq(Notice)]
      /\ notices'[n] = IF row[n] = "off" THEN Log(notices[n], "down") ELSE notices[n]
      /\ \A m \in Nodes : m # n => notices'[m] = notices[m]
  BY <1>4, <1>6 DEF IInv, TypeOK
<1>9. TypeOK'
  BY <1>4, <1>7, <1>8 DEF TypeOK, IInv
<1>10. Order'
  <2>1. \A m \in Nodes : Brief(events'[m]) /\ Brief(notices'[m])
    BY <1>4, <1>5, <1>6, <1>8 DEF IInv, Order
  <2>2. \A m \in Nodes : Brief(events[m])' /\ Brief(notices[m])'
    BY <2>1 DEF Brief
  <2>3. \A u \in Timers : timer'[u].at # "free" => timer'[u].node # None
    BY <1>7, FreeIs DEF IInv, Order
  <2> QED
    BY <1>4, <2>2, <2>3 DEF IInv, Order
<1>11. ASSUME NEW m \in Nodes
       PROVE  NodeOK(m)'
  <2>1. CASE m = n
    <3>1. ASSUME orderly'[n]
          PROVE  /\ Listed(n)' /\ LogsOK(n)'
                 /\ \A q \in Procs : ~Active(q, n)
                 /\ \A u \in Timers : u # t => ~Fired(u, n)'
                 /\ ~Fired(t, n)'
                 /\ Rests(n)'
      <4>0. Fired(t, n) /\ orderly[n] /\ NodeOK(n)
        BY <1>1, <1>3, <1>4, <3>1 DEF Fired, IInv
      <4>1. /\ Firing(t, n) /\ Listed(n) /\ LogsOK(n)
            /\ \A q \in Procs : ~Active(q, n)
            /\ \A u \in Timers : u # t => ~Fired(u, n)
        BY <4>0 DEF NodeOK, Alone
      <4>2. Linked(n) /\ Told(n, row[n])
        BY <1>1, <4>1 DEF Firing
      <4>3. LogsOK(n)'
        BY <1>4, <1>5, <1>8, <4>1, NoticeLogged DEF IInv
      <4>4. Listed(n)'
        BY <1>4, <1>7, <4>1, FreeIs DEF Listed
      <4>5. Rests(n)'
        BY <1>4, <1>6, <1>8, <4>2 DEF Rests, Linked, Told, Excused, Returns
      <4>6. \A u \in Timers : u # t => ~Fired(u, n)'
        BY <1>7, <4>1 DEF Fired
      <4>7. ~Fired(t, n)'
        BY <1>7, FreeIs DEF Fired
      <4> QED
        BY <4>1, <4>3, <4>4, <4>5, <4>6, <4>7
    <3>2. pending'[n] # None => /\ timer'[pending'[n]].node = n
                                /\ timer'[pending'[n]].at \in {"armed", "expired"}
      <4>1. pending[n] # None => /\ pending[n] \in Timers
                                 /\ timer[pending[n]].node = n
                                 /\ timer[pending[n]].at \in {"armed", "expired"}
        BY DEF IInv, TypeOK, NodeOK
      <4> QED
        BY <1>1, <1>4, <1>7, <4>1
    <3> QED
      BY <1>4, <2>1, <3>1, <3>2, Noticed DEF IInv
  <2>2. CASE m # n
    BY <1>3, <1>4, <1>7, <1>8, <2>2, FreeIs, ElsewhereTimed DEF IInv
  <2> QED
    BY <2>1, <2>2
<1> QED
  BY <1>9, <1>10, <1>11 DEF IInv

\* ... or cannot read the row, and nobody is told.
LEMMA TimerReadFailsStep ==
    ASSUME IInv, NEW t \in Timers, TimerReadFails(t)
    PROVE  IInv'
<1>1. timer[t].at = "check"
  BY DEF TimerReadFails
<1>2. timer[t] \in Timer /\ timer[t].node # None
  BY <1>1 DEF IInv, TypeOK, Order
<1>3. SUFFICES ASSUME NEW n \in Nodes, n = timer[t].node
               PROVE  IInv'
  BY <1>2 DEF Timer
<1>4. /\ row' = row /\ events' = events /\ exempt' = exempt /\ pending' = pending
      /\ orderly' = orderly /\ peers' = peers /\ victim' = victim /\ proc' = proc
      /\ viaHttp' = viaHttp /\ open' = open /\ snap' = snap /\ fails' = fails /\ missing' = missing
      /\ notices' = [notices EXCEPT ![n] = Log(notices[n], "lost")]
  BY <1>3 DEF TimerReadFails, registry, store
<1>5. notices[n] \in Seq(Notice) /\ Brief(notices[n])
  BY DEF IInv, TypeOK, Order
<1>6. /\ Log(notices[n], "lost") \in Seq(Notice)
      /\ Brief(Log(notices[n], "lost")) /\ Newest(Log(notices[n], "lost")) = "lost"
  BY <1>5, LogFacts DEF Notice
<1>7. /\ timer' \in [Timers -> Timer] /\ timer'[t] = FreeTimer
      /\ \A u \in Timers : u # t => timer'[u] = timer[u]
  <2> HIDE DEF FreeTimer
  <2> QED
    BY FreeIs DEF IInv, TypeOK, TimerReadFails
<1>8. /\ notices' \in [Nodes -> Seq(Notice)]
      /\ notices'[n] = Log(notices[n], "lost")
      /\ \A m \in Nodes : m # n => notices'[m] = notices[m]
  BY <1>4, <1>6 DEF IInv, TypeOK
<1>9. TypeOK'
  BY <1>4, <1>7, <1>8 DEF TypeOK, IInv
<1>10. Order'
  <2>1. \A m \in Nodes : Brief(events'[m]) /\ Brief(notices'[m])
    BY <1>4, <1>5, <1>6, <1>8 DEF IInv, Order
  <2>2. \A m \in Nodes : Brief(events[m])' /\ Brief(notices[m])'
    BY <2>1 DEF Brief
  <2>3. \A u \in Timers : timer'[u].at # "free" => timer'[u].node # None
    BY <1>7, FreeIs DEF IInv, Order
  <2> QED
    BY <1>4, <2>2, <2>3 DEF IInv, Order
<1>11. ASSUME NEW m \in Nodes
       PROVE  NodeOK(m)'
  <2>1. CASE m = n
    <3>1. ASSUME orderly'[n]
          PROVE  /\ Listed(n)' /\ LogsOK(n)'
                 /\ \A q \in Procs : ~Active(q, n)
                 /\ \A u \in Timers : u # t => ~Fired(u, n)'
                 /\ ~Fired(t, n)'
                 /\ Rests(n)'
      <4>0. Fired(t, n) /\ orderly[n] /\ NodeOK(n)
        BY <1>1, <1>3, <1>4, <3>1 DEF Fired, IInv
      <4>1. /\ Firing(t, n) /\ Listed(n) /\ LogsOK(n)
            /\ \A q \in Procs : ~Active(q, n)
            /\ \A u \in Timers : u # t => ~Fired(u, n)
        BY <4>0 DEF NodeOK, Alone
      <4>2. Linked(n) /\ Told(n, row[n])
        BY <1>1, <4>1 DEF Firing
      <4>3. LogsOK(n)'
        BY <1>4, <1>5, <1>8, <4>1, NoticeLogged DEF IInv
      <4>4. Listed(n)'
        BY <1>4, <1>7, <4>1, FreeIs DEF Listed
      <4>5. Rests(n)'
        BY <1>4, <1>6, <1>8, <4>2 DEF Rests, Linked, Told, Excused, Returns
      <4>6. \A u \in Timers : u # t => ~Fired(u, n)'
        BY <1>7, <4>1 DEF Fired
      <4>7. ~Fired(t, n)'
        BY <1>7, FreeIs DEF Fired
      <4> QED
        BY <4>1, <4>3, <4>4, <4>5, <4>6, <4>7
    <3>2. pending'[n] # None => /\ timer'[pending'[n]].node = n
                                /\ timer'[pending'[n]].at \in {"armed", "expired"}
      <4>1. pending[n] # None => /\ pending[n] \in Timers
                                 /\ timer[pending[n]].node = n
                                 /\ timer[pending[n]].at \in {"armed", "expired"}
        BY DEF IInv, TypeOK, NodeOK
      <4> QED
        BY <1>1, <1>4, <1>7, <4>1
    <3> QED
      BY <1>4, <2>1, <3>1, <3>2, Noticed DEF IInv
  <2>2. CASE m # n
    BY <1>3, <1>4, <1>7, <1>8, <2>2, FreeIs, ElsewhereTimed DEF IInv
  <2> QED
    BY <2>1, <2>2
<1> QED
  BY <1>9, <1>10, <1>11 DEF IInv

-----------------------------------------------------------------------------
\* The transport, the loop's list and the counters of failures are nothing to
\* what is reported.
LEMMA NothingReported ==
    ASSUME IInv, peers' = peers, proc' = proc, row' = row, exempt' = exempt, timer' = timer,
           pending' = pending, events' = events, notices' = notices, orderly' = orderly,
           viaHttp' = viaHttp, victim' = victim, open' \subseteq open, snap' \subseteq Conns,
           fails' \in [Nodes -> 0 .. 2], missing' = missing
    PROVE  IInv'
<1>1. TypeOK'
  BY DEF IInv, TypeOK
<1>2. Order'
  <2>1. \A m \in Nodes : Brief(events[m])' /\ Brief(notices[m])'
    BY DEF IInv, Order, Brief
  <2> QED
    BY <2>1 DEF IInv, Order
<1>3. ASSUME NEW m \in Nodes
      PROVE  NodeOK(m)'
  <2>1. Apart(m)
    BY DEF Apart
  <2> QED
    BY <2>1, ApartKeeps DEF IInv
<1> QED
  BY <1>1, <1>2, <1>3 DEF IInv

LEMMA DropStep == ASSUME IInv, NEW c \in Conns, Drop(c) PROVE IInv'
<1>1. snap' \subseteq Conns /\ fails' \in [Nodes -> 0 .. 2] /\ open' \subseteq open
  BY DEF Drop, IInv, TypeOK
<1> QED
  BY <1>1, NothingReported DEF Drop, store, memory

LEMMA LoopPingsStep == ASSUME IInv, NEW c \in Conns, LoopPings(c) PROVE IInv'
<1>1. snap' \subseteq Conns /\ fails' \in [Nodes -> 0 .. 2] /\ open' \subseteq open
  BY DEF LoopPings, IInv, TypeOK
<1> QED
  BY <1>1, NothingReported DEF LoopPings, store, memory

LEMMA LoopStartStep == ASSUME IInv, LoopStart PROVE IInv'
<1>1. snap' \subseteq Conns /\ fails' \in [Nodes -> 0 .. 2] /\ open' \subseteq open
  BY DEF LoopStart, IInv, TypeOK
<1> QED
  BY <1>1, NothingReported DEF LoopStart, store, memory

\* Nothing begins to report a node that something reports, if it is to stay
\* orderly.
LEMMA BeginsIs ==
    ASSUME TypeOK, NEW n \in Nodes, Begins(n)
    PROVE  /\ orderly' \in [Nodes -> BOOLEAN]
           /\ orderly'[n] <=> (orderly[n] /\ ~Busy(n))
           /\ \A m \in Nodes : m # n => orderly'[m] = orderly[m]
<1>1. orderly \in [Nodes -> BOOLEAN]
  BY DEF TypeOK
<1> DEFINE b == orderly[n] /\ ~Busy(n)
<1>2. orderly' = [orderly EXCEPT ![n] = b] /\ b \in BOOLEAN
  BY DEF Begins
<1>3. b <=> (orderly[n] /\ ~Busy(n))
  OBVIOUS
<1> HIDE DEF b
<1> QED
  BY <1>1, <1>2, <1>3

\* p begins a report of n.
LEMMA Starts ==
    ASSUME TypeOK, NEW n \in Nodes, NodeOK(n), NEW p \in Procs,
           orderly'[n] => orderly[n] /\ ~Busy(n),
           Active(p, n)', \A q \in Procs : q # p => proc'[q] = proc[q],
           timer' = timer, pending' = pending, events' = events, notices' = notices,
           orderly'[n] /\ Rests(n) => Stage(p, n)',
           peers'[n] # None => proc'[peers'[n]].at # "new" /\ proc'[peers'[n]].node = n
    PROVE  NodeOK(n)'
<1>1. ASSUME orderly'[n]
      PROVE  /\ Listed(n)' /\ LogsOK(n)'
             /\ \A q \in Procs : q # p => ~Active(q, n)'
             /\ \A t \in Timers : ~Fired(t, n)'
             /\ Stage(p, n)'
  <2>1. /\ Rests(n) /\ Listed(n) /\ LogsOK(n)
        /\ \A q \in Procs : ~Active(q, n)
        /\ \A t \in Timers : ~Fired(t, n)
    BY <1>1, Free
  <2>2. Listed(n)' /\ LogsOK(n)'
    BY <2>1 DEF Listed, LogsOK
  <2>3. \A q \in Procs : q # p => ~Active(q, n)'
    BY <2>1 DEF Active
  <2>4. \A t \in Timers : ~Fired(t, n)'
    BY <2>1 DEF Fired
  <2> QED
    BY <1>1, <2>1, <2>2, <2>3, <2>4
<1>2. pending'[n] # None => /\ timer'[pending'[n]].node = n
                            /\ timer'[pending'[n]].at \in {"armed", "expired"}
  BY PendingStays
<1> QED
  BY <1>1, <1>2, Reported

LEMMA AtIs ==
    ASSUME NEW n \in Nodes \cup {None},
           NEW a \in {"new", "reading", "ended", "idle", "evict"} \cup Reporting
    PROVE  At(a, n) \in Proc /\ At(a, n).at = a /\ At(a, n).node = n
BY DEF At, Proc, Online

\* "register": the connection of before is closed and replaced.
LEMMA RegisterStep ==
    ASSUME IInv, NEW c \in Conns, NEW n \in Nodes \ viaHttp, Register(c, n)
    PROVE  IInv'
<1>1. /\ row' = row /\ events' = events /\ notices' = notices /\ exempt' = exempt
      /\ timer' = timer /\ pending' = pending /\ victim' = victim
      /\ viaHttp' = viaHttp /\ snap' = snap /\ fails' = fails /\ missing' = missing
      /\ open' = open \ {peers[n]} /\ Begins(n) /\ proc[c].at = "new"
  BY DEF Register, store, memory
<1>2. c \in Procs /\ proc[c].node = None /\ c # Loop /\ c # None /\ n # None
  BY <1>1, PresenceAssumption DEF Procs, IInv, Order
<1>3. /\ peers' \in [Nodes -> Conns \cup {None}] /\ peers'[n] = c
      /\ \A m \in Nodes : m # n => peers'[m] = peers[m]
  BY DEF Register, IInv, TypeOK
<1> DEFINE s == At("onRead", n)
<1>4. s \in Proc /\ s.at = "onRead" /\ s.node = n
  BY AtIs DEF Reporting
<1>5. proc' = [proc EXCEPT ![c] = s]
  BY DEF Register
<1> HIDE DEF s
<1>6. /\ proc' \in [Procs -> Proc]
      /\ \A q \in Procs :
           proc'[q].at \in Reporting \cup {"reading", "evict"} => proc'[q].node # None
      /\ proc'[c] = s /\ \A q \in Procs : q # c => proc'[q] = proc[q]
  BY <1>2, <1>4, <1>5, ProcMoves DEF IInv
<1>7. /\ orderly' \in [Nodes -> BOOLEAN]
      /\ orderly'[n] <=> (orderly[n] /\ ~Busy(n))
      /\ \A m \in Nodes : m # n => orderly'[m] = orderly[m]
  BY <1>1, BeginsIs DEF IInv
<1>8. TypeOK'
  BY <1>1, <1>3, <1>6, <1>7 DEF IInv, TypeOK
<1>9. Order'
  <2>1. \A m \in Nodes : Brief(events[m])' /\ Brief(notices[m])'
    BY <1>1 DEF IInv, Order, Brief
  <2>2. Conns \subseteq Procs /\ Loop \in Procs
    BY DEF Procs
  <2> QED
    BY <1>1, <1>2, <1>4, <1>6, <2>1, <2>2 DEF IInv, Order
<1>10. ASSUME NEW m \in Nodes
       PROVE  NodeOK(m)'
  <2>1. CASE m = n
    <3>1. Active(c, n)'
      BY <1>4, <1>6 DEF Active, Reporting
    <3>2. ASSUME Rests(n)
          PROVE  Stage(c, n)'
      <4>1. Connected(n)' /\ Told(n, row[n])' /\ Excused(n)'
        BY <1>1, <1>2, <1>3, <3>2 DEF Rests, Connected, Told, Excused, Returns
      <4> QED
        BY <1>4, <1>6, <4>1 DEF Stage
    <3>3. proc'[peers'[n]].at # "new" /\ proc'[peers'[n]].node = n
      BY <1>3, <1>4, <1>6
    <3> QED
      BY <1>1, <1>2, <1>6, <1>7, <2>1, <3>1, <3>2, <3>3, Starts DEF IInv
  <2>2. CASE m # n
    BY <1>1, <1>2, <1>3, <1>4, <1>6, <1>7, <2>2, Elsewhere DEF IInv
  <2> QED
    BY <2>1, <2>2
<1> QED
  BY <1>8, <1>9, <1>10 DEF IInv

\* Read fails: the connection that is still the node's reports it, ...
LEMMA ReadErrorStep ==
    ASSUME IInv, NEW c \in Conns, ReadError(c)
    PROVE  IInv'
<1>1. proc[c].at = "reading" /\ c \in Procs /\ c # Loop
  BY PresenceAssumption DEF ReadError, Procs
<1>2. proc[c] \in Proc /\ proc[c].node # None
  BY <1>1 DEF IInv, TypeOK
<1>3. SUFFICES ASSUME NEW n \in Nodes, n = proc[c].node
               PROVE  IInv'
  BY <1>2 DEF Proc
<1>4. /\ row' = row /\ events' = events /\ notices' = notices /\ exempt' = exempt
      /\ timer' = timer /\ pending' = pending /\ victim' = victim
      /\ viaHttp' = viaHttp /\ missing' = missing /\ snap' = snap /\ fails' = fails /\ open' = open
  BY DEF ReadError, store, memory
<1>5. CASE peers[n] = c
  <2>1. Begins(n) /\ peers' = [peers EXCEPT ![n] = None] /\ Goto(c, "offRead")
    BY <1>3, <1>5 DEF ReadError
  <2>2. /\ peers' \in [Nodes -> Conns \cup {None}] /\ peers'[n] = None
        /\ \A m \in Nodes : m # n => peers'[m] = peers[m]
    BY <2>1 DEF IInv, TypeOK
  <2> DEFINE s == [proc[c] EXCEPT !.at = "offRead"]
  <2>3. s \in Proc /\ s.at = "offRead" /\ s.node = n
    BY <1>2, <1>3 DEF Proc, Reporting
  <2>4. proc' = [proc EXCEPT ![c] = s]
    BY <2>1 DEF Goto
  <2> HIDE DEF s
  <2>5. /\ proc' \in [Procs -> Proc]
        /\ \A q \in Procs :
             proc'[q].at \in Reporting \cup {"reading", "evict"} => proc'[q].node # None
        /\ proc'[c] = s /\ \A q \in Procs : q # c => proc'[q] = proc[q]
    BY <1>1, <2>3, <2>4, ProcMoves DEF IInv
  <2>6. /\ orderly' \in [Nodes -> BOOLEAN]
        /\ orderly'[n] <=> (orderly[n] /\ ~Busy(n))
        /\ \A m \in Nodes : m # n => orderly'[m] = orderly[m]
    BY <2>1, BeginsIs DEF IInv
  <2>7. TypeOK'
    BY <1>4, <2>2, <2>5, <2>6 DEF IInv, TypeOK
  <2>8. Order'
    <3>1. \A m \in Nodes : Brief(events[m])' /\ Brief(notices[m])'
      BY <1>4 DEF IInv, Order, Brief
    <3> QED
      BY <1>1, <1>2, <1>3, <1>4, <2>3, <2>5, <3>1, OrderKept DEF IInv
  <2>9. ASSUME NEW m \in Nodes
        PROVE  NodeOK(m)'
    <3>1. CASE m = n
      <4>1. Active(c, n)'
        BY <2>3, <2>5 DEF Active, Reporting
      <4>2. ASSUME Rests(n)
            PROVE  Stage(c, n)'
        <5>1. Gone(n)' /\ Told(n, row[n])' /\ Excused(n)'
          BY <1>4, <2>2, <4>2 DEF Rests, Gone, Told, Excused, Returns
        <5> QED
          BY <2>3, <2>5, <5>1 DEF Stage
      <4> QED
        BY <1>1, <1>4, <2>2, <2>5, <2>6, <3>1, <4>1, <4>2, Starts DEF IInv
    <3>2. CASE m # n
      BY <1>1, <1>3, <1>4, <2>2, <2>3, <2>5, <2>6, <3>2, Elsewhere DEF IInv
    <3> QED
      BY <3>1, <3>2
  <2> QED
    BY <2>7, <2>8, <2>9 DEF IInv
<1>6. CASE peers[n] # c
  <2>1. peers' = peers /\ orderly' = orderly /\ Goto(c, "ended")
    BY <1>3, <1>6 DEF ReadError
  <2> DEFINE s == [proc[c] EXCEPT !.at = "ended"]
  <2>2. s \in Proc /\ s.at = "ended" /\ s.node = n
    BY <1>2, <1>3 DEF Proc
  <2>3. proc' = [proc EXCEPT ![c] = s]
    BY <2>1 DEF Goto
  <2> HIDE DEF s
  <2>4. /\ proc' \in [Procs -> Proc]
        /\ \A q \in Procs :
             proc'[q].at \in Reporting \cup {"reading", "evict"} => proc'[q].node # None
        /\ proc'[c] = s /\ \A q \in Procs : q # c => proc'[q] = proc[q]
    BY <1>1, <2>2, <2>3, ProcMoves DEF IInv
  <2>5. TypeOK'
    BY <1>4, <2>1, <2>4 DEF IInv, TypeOK
  <2>6. Order'
    <3>1. \A m \in Nodes : Brief(events[m])' /\ Brief(notices[m])'
      BY <1>4 DEF IInv, Order, Brief
    <3> QED
      BY <1>1, <1>2, <1>3, <1>4, <2>2, <2>4, <3>1, OrderKept DEF IInv
  <2>7. ASSUME NEW m \in Nodes
        PROVE  NodeOK(m)'
    <3>1. CASE m = n
      <4>1. \A q \in Procs : \/ proc'[q] = proc[q]
                             \/ proc[q].node # m /\ proc'[q].node # m
                             \/ /\ proc[q].node = m /\ proc'[q].node = m
                                /\ proc[q].at = "reading" /\ proc'[q].at = "ended"
        BY <1>1, <1>3, <2>2, <2>4, <3>1
      <4>2. Apart(m)
        BY <1>4, <2>1, <4>1 DEF Apart
      <4> QED
        BY <4>2, ApartKeeps DEF IInv
    <3>2. CASE m # n
      BY <1>1, <1>3, <1>4, <2>1, <2>2, <2>4, <3>2, Elsewhere DEF IInv
    <3> QED
      BY <3>1, <3>2
  <2> QED
    BY <2>5, <2>6, <2>7 DEF IInv
<1> QED
  BY <1>5, <1>6

\* The loop closes a connection that was silent for too long ...
LEMMA LoopClosesStep ==
    ASSUME IInv, NEW c \in Conns, LoopCloses(c)
    PROVE  IInv'
<1>1. /\ proc[Loop].at = "idle" /\ proc[c].at \in {"reading", "ended"}
      /\ c \in Procs /\ Loop \in Procs /\ c # Loop /\ Loop \notin Conns
  BY PresenceAssumption DEF LoopCloses, Procs
<1>2. proc[c] \in Proc /\ proc[c].node # None /\ proc[Loop].node = None
  BY <1>1 DEF IInv, TypeOK, Order
<1>3. SUFFICES ASSUME NEW n \in Nodes, n = proc[c].node
               PROVE  IInv'
  BY <1>2 DEF Proc
<1>4. /\ row' = row /\ events' = events /\ notices' = notices /\ exempt' = exempt
      /\ timer' = timer /\ pending' = pending /\ peers' = peers
      /\ viaHttp' = viaHttp /\ fails' = fails /\ missing' = missing
      /\ snap' = snap \ {c} /\ victim' = c /\ open' = open \ {c}
      /\ orderly' = [orderly EXCEPT ![n] = orderly[n] /\ ~Busy(n) /\ peers[n] = c]
  BY <1>3 DEF LoopCloses, store, memory
<1> DEFINE s == At("evict", n)
<1>5. s \in Proc /\ s.at = "evict" /\ s.node = n
  BY AtIs
<1>6. proc' = [proc EXCEPT ![Loop] = s]
  BY <1>3 DEF LoopCloses
<1> HIDE DEF s
<1>7. /\ proc' \in [Procs -> Proc]
      /\ \A q \in Procs :
           proc'[q].at \in Reporting \cup {"reading", "evict"} => proc'[q].node # None
      /\ proc'[Loop] = s /\ \A q \in Procs : q # Loop => proc'[q] = proc[q]
  BY <1>1, <1>5, <1>6, ProcMoves DEF IInv
<1>8. /\ orderly' \in [Nodes -> BOOLEAN]
      /\ orderly'[n] => orderly[n] /\ ~Busy(n) /\ peers[n] = c
      /\ \A m \in Nodes : m # n => orderly'[m] = orderly[m]
  <2>1. orderly \in [Nodes -> BOOLEAN]
    BY DEF IInv, TypeOK
  <2> DEFINE b == orderly[n] /\ ~Busy(n) /\ peers[n] = c
  <2>2. orderly' = [orderly EXCEPT ![n] = b] /\ b \in BOOLEAN
    BY <1>4
  <2>3. b => orderly[n] /\ ~Busy(n) /\ peers[n] = c
    OBVIOUS
  <2> HIDE DEF b
  <2> QED
    BY <2>1, <2>2, <2>3
<1>9. TypeOK'
  BY <1>4, <1>7, <1>8 DEF IInv, TypeOK
<1>10. Order'
  <2>1. \A m \in Nodes : Brief(events[m])' /\ Brief(notices[m])'
    BY <1>4 DEF IInv, Order, Brief
  <2>2. Conns \subseteq Procs
    BY DEF Procs
  <2> QED
    BY <1>1, <1>4, <1>5, <1>7, <2>1, <2>2 DEF IInv, Order
<1>11. ASSUME NEW m \in Nodes
       PROVE  NodeOK(m)'
  <2>1. CASE m = n
    <3>1. Active(Loop, n)'
      BY <1>5, <1>7 DEF Active
    <3>2. ASSUME Rests(n), orderly'[n]
          PROVE  Stage(Loop, n)'
      <4>1. Rests(n)' /\ peers'[n] = victim'
        BY <1>4, <1>8, <3>2 DEF Rests, Linked, Told, Excused, Returns
      <4> QED
        BY <1>5, <1>7, <4>1 DEF Stage
    <3>3. peers'[n] # None => proc'[peers'[n]].at # "new" /\ proc'[peers'[n]].node = n
      BY <1>1, <1>4, <1>5, <1>7, RegisteredStays DEF IInv
    <3> QED
      BY <1>1, <1>4, <1>7, <1>8, <2>1, <3>1, <3>2, <3>3, Starts DEF IInv
  <2>2. CASE m # n
    <3>1. \A q \in Procs : proc[q].at = "evict" => q = Loop
      BY DEF IInv, Order
    <3>2. \A q \in Procs : proc[q].at # "evict"
      BY <1>1, <3>1
    <3> QED
      BY <1>1, <1>2, <1>4, <1>5, <1>7, <1>8, <2>2, <3>2, Elsewhere DEF IInv
  <2> QED
    BY <2>1, <2>2
<1> QED
  BY <1>9, <1>10, <1>11 DEF IInv

\* ... and reports its node, whoever is registered by then.
LEMMA LoopReportsStep ==
    ASSUME IInv, LoopReports
    PROVE  IInv'
<1>1. /\ proc[Loop].at = "evict" /\ Loop \in Procs /\ Loop \notin Conns
  BY PresenceAssumption DEF LoopReports, Procs
<1>2. SUFFICES ASSUME NEW n \in Nodes, n = proc[Loop].node
               PROVE  IInv'
  BY <1>1, AtWork DEF IInv
<1>3. /\ row' = row /\ events' = events /\ notices' = notices /\ exempt' = exempt
      /\ timer' = timer /\ pending' = pending /\ victim' = None /\ orderly' = orderly
      /\ viaHttp' = viaHttp /\ missing' = missing /\ fails' = fails /\ snap' = snap /\ open' = open
      /\ peers' = [peers EXCEPT ![n] = IF peers[n] = victim THEN None ELSE peers[n]]
  BY <1>2 DEF LoopReports, store, memory
<1>4. /\ peers' \in [Nodes -> Conns \cup {None}]
      /\ peers'[n] = IF peers[n] = victim THEN None ELSE peers[n]
      /\ \A m \in Nodes : m # n => peers'[m] = peers[m]
  BY <1>3 DEF IInv, TypeOK
<1>5. proc[Loop] \in Proc /\ Active(Loop, n)
  BY <1>1, <1>2, AtWork DEF IInv
<1> DEFINE s == [proc[Loop] EXCEPT !.at = "offRead"]
<1>6. s \in Proc /\ s.at = "offRead" /\ s.node = n
  BY <1>2, <1>5 DEF Proc, Reporting
<1>7. proc' = [proc EXCEPT ![Loop] = s]
  BY DEF LoopReports, Goto
<1> HIDE DEF s
<1>8. /\ proc' \in [Procs -> Proc]
      /\ \A q \in Procs :
           proc'[q].at \in Reporting \cup {"reading", "evict"} => proc'[q].node # None
      /\ proc'[Loop] = s /\ \A q \in Procs : q # Loop => proc'[q] = proc[q]
  BY <1>1, <1>6, <1>7, ProcMoves DEF IInv
<1>9. TypeOK'
  BY <1>3, <1>4, <1>8 DEF IInv, TypeOK
<1>10. Order'
  <2>1. \A m \in Nodes : Brief(events[m])' /\ Brief(notices[m])'
    BY <1>3 DEF IInv, Order, Brief
  <2>2. Conns \subseteq Procs
    BY DEF Procs
  <2> QED
    BY <1>1, <1>3, <1>6, <1>8, <2>1, <2>2 DEF IInv, Order
<1>11. ASSUME NEW m \in Nodes
       PROVE  NodeOK(m)'
  <2>1. CASE m = n
    <3>1. Active(Loop, n)'
      BY <1>6, <1>8 DEF Active, Reporting
    <3>2. ASSUME orderly'[n]
          PROVE  /\ Listed(n)' /\ LogsOK(n)'
                 /\ \A q \in Procs : q # Loop => ~Active(q, n)'
                 /\ \A t \in Timers : ~Fired(t, n)'
                 /\ Stage(Loop, n)'
      <4>1. /\ Stage(Loop, n) /\ Listed(n) /\ LogsOK(n)
            /\ \A q \in Procs : q # Loop => ~Active(q, n)
            /\ \A t \in Timers : ~Fired(t, n)
        BY <1>1, <1>3, <1>5, <3>2, Reporter DEF IInv
      <4>2. Rests(n) /\ peers[n] = victim
        BY <1>1, <4>1 DEF Stage
      <4>3. Gone(n)' /\ Told(n, row[n])' /\ Excused(n)'
        BY <1>3, <1>4, <4>2 DEF Rests, Gone, Told, Excused, Returns
      <4>4. Stage(Loop, n)'
        BY <1>6, <1>8, <4>3 DEF Stage
      <4>5. Listed(n)' /\ LogsOK(n)'
        BY <1>3, <4>1 DEF Listed, LogsOK
      <4>6. \A q \in Procs : q # Loop => ~Active(q, n)'
        BY <1>8, <4>1 DEF Active
      <4>7. \A t \in Timers : ~Fired(t, n)'
        BY <1>3, <4>1 DEF Fired
      <4> QED
        BY <4>4, <4>5, <4>6, <4>7
    <3>3. peers'[n] # None => proc'[peers'[n]].at # "new" /\ proc'[peers'[n]].node = n
      <4>1. peers[n] # None => /\ peers[n] \in Procs /\ peers[n] # Loop
                               /\ proc[peers[n]].at # "new" /\ proc[peers[n]].node = n
        BY <1>1 DEF IInv, TypeOK, NodeOK, Procs
      <4> QED
        BY <1>4, <1>8, <4>1
    <3>4. pending'[n] # None => /\ timer'[pending'[n]].node = n
                                /\ timer'[pending'[n]].at \in {"armed", "expired"}
      BY <1>3, PendingStays DEF IInv
    <3> QED
      BY <1>1, <2>1, <3>1, <3>2, <3>3, <3>4, Reported
  <2>2. CASE m # n
    <3>1. \A q \in Procs : proc[q].at = "evict" /\ proc[q].node = m => victim' = victim
      BY <1>2, <2>2 DEF IInv, Order
    <3> QED
      BY <1>1, <1>2, <1>3, <1>4, <1>6, <1>8, <2>2, <3>1, Elsewhere DEF IInv
  <2> QED
    BY <2>1, <2>2
<1> QED
  BY <1>9, <1>10, <1>11 DEF IInv

\* A check of a node by HTTP begins a report: the node's own, when it succeeds,
LEMMA CheckReports ==
    ASSUME IInv, NEW n \in Nodes, n \in viaHttp, proc[n].at = "idle",
           NEW a \in {"onRead", "offRead"}, proc' = [proc EXCEPT ![n] = At(a, n)], Begins(n),
           fails' \in [Nodes -> 0 .. 2],
           UNCHANGED <<viaHttp, peers, open, snap, victim, store, memory, missing>>
    PROVE  IInv'
<1>1. /\ row' = row /\ events' = events /\ notices' = notices /\ exempt' = exempt
      /\ timer' = timer /\ pending' = pending /\ victim' = victim /\ peers' = peers
      /\ viaHttp' = viaHttp /\ missing' = missing /\ snap' = snap /\ open' = open
  BY DEF store, memory
<1>2. n \in Procs /\ n \notin Conns /\ n # Loop /\ n # None /\ proc[n].node = None
  BY PresenceAssumption DEF Procs, IInv, Order
<1> DEFINE s == At(a, n)
<1>3. s \in Proc /\ s.at = a /\ s.node = n
  BY AtIs DEF Reporting
<1> HIDE DEF s
<1>4. /\ proc' \in [Procs -> Proc]
      /\ \A q \in Procs :
           proc'[q].at \in Reporting \cup {"reading", "evict"} => proc'[q].node # None
      /\ proc'[n] = s /\ \A q \in Procs : q # n => proc'[q] = proc[q]
  BY <1>2, <1>3, ProcMoves DEF IInv, s
<1>5. /\ orderly' \in [Nodes -> BOOLEAN]
      /\ orderly'[n] <=> (orderly[n] /\ ~Busy(n))
      /\ \A m \in Nodes : m # n => orderly'[m] = orderly[m]
  BY BeginsIs DEF IInv
<1>6. TypeOK'
  BY <1>1, <1>4, <1>5 DEF IInv, TypeOK
<1>7. Order'
  <2>1. \A m \in Nodes : Brief(events[m])' /\ Brief(notices[m])'
    BY <1>1 DEF IInv, Order, Brief
  <2> QED
    BY <1>1, <1>2, <1>3, <1>4, <2>1, OrderKept DEF IInv
<1>8. ASSUME NEW m \in Nodes
      PROVE  NodeOK(m)'
  <2>1. CASE m = n
    <3>1. Active(n, n)'
      BY <1>3, <1>4 DEF Active, Reporting
    <3>2. ASSUME Rests(n)
          PROVE  Stage(n, n)'
      <4>1. Connected(n)' /\ Gone(n)' /\ Told(n, row[n])' /\ Excused(n)'
        BY <1>1, <3>2 DEF Rests, Connected, Gone, Told, Excused, Returns
      <4> QED
        BY <1>3, <1>4, <4>1 DEF Stage
    <3>3. peers'[n] # None => proc'[peers'[n]].at # "new" /\ proc'[peers'[n]].node = n
      BY <1>1, <1>2, <1>3, <1>4, RegisteredStays DEF IInv
    <3> QED
      BY <1>1, <1>2, <1>4, <1>5, <2>1, <3>1, <3>2, <3>3, Starts DEF IInv
  <2>2. CASE m # n
    BY <1>1, <1>2, <1>3, <1>4, <1>5, <2>2, Elsewhere DEF IInv
  <2> QED
    BY <2>1, <2>2
<1> QED
  BY <1>6, <1>7, <1>8 DEF IInv

LEMMA CheckOkStep == ASSUME IInv, NEW n \in Nodes, CheckOk(n) PROVE IInv'
<1>1. fails' \in [Nodes -> 0 .. 2]
  BY DEF CheckOk, IInv, TypeOK
<1> QED
  BY <1>1, CheckReports DEF CheckOk

\* its outage, at the second failure in a row.
LEMMA CheckFailsStep == ASSUME IInv, NEW n \in Nodes, CheckFails(n) PROVE IInv'
<1>1. fails' \in [Nodes -> 0 .. 2]
  <2> DEFINE k == IF fails[n] = 2 THEN 2 ELSE fails[n] + 1
  <2>1. fails \in [Nodes -> 0 .. 2] /\ fails' = [fails EXCEPT ![n] = k]
    BY DEF CheckFails, IInv, TypeOK
  <2>2. k \in 0 .. 2
    BY <2>1
  <2> HIDE DEF k
  <2> QED
    BY <2>1, <2>2
<1>2. CASE fails'[n] = 2
  BY <1>1, <1>2, CheckReports DEF CheckFails
<1>3. CASE fails'[n] # 2
  <2>1. /\ proc' = proc /\ orderly' = orderly
        /\ open' \subseteq open /\ snap' \subseteq Conns
    BY <1>3 DEF CheckFails, IInv, TypeOK
  <2> QED
    BY <1>1, <2>1, NothingReported DEF CheckFails, store, memory
<1> QED
  BY <1>2, <1>3

\* An upgrade is given up: a node that is still off is told, at whatever step
\* of a report.
LEMMA OtaOverdueStep ==
    ASSUME IInv, NEW n \in Nodes, OtaOverdue(n)
    PROVE  IInv'
<1>1. /\ peers' = peers /\ open' = open /\ snap' = snap /\ victim' = victim /\ fails' = fails /\ missing' = missing
      /\ viaHttp' = viaHttp /\ proc' = proc /\ row' = row /\ events' = events
      /\ timer' = timer /\ pending' = pending /\ orderly' = orderly
      /\ row[n] = "off" /\ exempt' = exempt \ {n}
      /\ notices' = [notices EXCEPT ![n] = Log(notices[n], "down")]
  BY DEF OtaOverdue, registry, store
<1>2. notices[n] \in Seq(Notice) /\ Brief(notices[n])
  BY DEF IInv, TypeOK, Order
<1>3. /\ Log(notices[n], "down") \in Seq(Notice)
      /\ Brief(Log(notices[n], "down")) /\ Newest(Log(notices[n], "down")) = "down"
  BY <1>2, LogFacts DEF Notice
<1>4. /\ notices' \in [Nodes -> Seq(Notice)]
      /\ notices'[n] = Log(notices[n], "down")
      /\ \A m \in Nodes : m # n => notices'[m] = notices[m]
  BY <1>1, <1>3 DEF IInv, TypeOK
<1>5. exempt' \subseteq Nodes /\ \A m \in Nodes : m # n => (m \in exempt' <=> m \in exempt)
  BY <1>1 DEF IInv, TypeOK
<1>6. TypeOK'
  BY <1>1, <1>4, <1>5 DEF IInv, TypeOK
<1>7. Order'
  <2>1. \A m \in Nodes : Brief(events'[m]) /\ Brief(notices'[m])
    BY <1>1, <1>3, <1>4 DEF IInv, Order
  <2>2. \A m \in Nodes : Brief(events[m])' /\ Brief(notices[m])'
    BY <2>1 DEF Brief
  <2> QED
    BY <1>1, <2>2 DEF IInv, Order
<1>8. ASSUME NEW m \in Nodes
      PROVE  NodeOK(m)'
  <2>1. CASE m = n
    <3>1. Returns(n)' /\ Excused(n)'
      BY <1>3, <1>4 DEF Returns, Excused
    <3>2. ASSUME orderly[n]
          PROVE  /\ Alone(n)' /\ Listed(n)' /\ LogsOK(n)'
                 /\ \A p \in Procs : Active(p, n)' => Stage(p, n)'
                 /\ \A t \in Timers : Fired(t, n)' => Firing(t, n)'
                 /\ ~Busy(n)' => Rests(n)'
      <4>1. /\ Alone(n) /\ Listed(n) /\ LogsOK(n)
            /\ \A p \in Procs : Active(p, n) => Stage(p, n)
            /\ \A t \in Timers : Fired(t, n) => Firing(t, n)
            /\ ~Busy(n) => Rests(n)
        BY <3>2 DEF IInv, NodeOK
      <4>2. /\ \A p \in Procs : Active(p, n)' <=> Active(p, n)
            /\ \A t \in Timers : Fired(t, n)' <=> Fired(t, n)
            /\ Busy(n)' <=> Busy(n)
        BY <1>1 DEF Active, Fired, Busy
      <4>3. Alone(n)' /\ Listed(n)'
        BY <1>1, <4>1, <4>2 DEF Alone, Listed
      <4>4. LogsOK(n)'
        BY <1>1, <1>2, <1>4, <4>1, NoticeLogged DEF IInv
      <4>5. \A r : Told(n, r)' <=> Told(n, r)
        BY <1>1 DEF Told
      <4>7. Rests(n) => Rests(n)'
        BY <1>1, <3>1, <4>5 DEF Rests, Linked
      <4>8. ASSUME NEW p \in Procs, Stage(p, n)
            PROVE  Stage(p, n)'
        <5>1. Connected(n) => Connected(n)'
          BY <1>1 DEF Connected
        <5>2. Gone(n) => Gone(n)'
          BY <1>1 DEF Gone
        <5>3. Seen(p, n) => Seen(p, n)'
          BY <1>1, <3>1 DEF Seen
        <5> QED
          BY <1>1, <3>1, <4>5, <4>7, <4>8, <5>1, <5>2, <5>3 DEF Stage
      <4>9. ASSUME NEW t \in Timers, Firing(t, n)
            PROVE  Firing(t, n)'
        BY <1>1, <4>5, <4>7, <4>9 DEF Firing, Linked
      <4> QED
        BY <4>1, <4>2, <4>3, <4>4, <4>7, <4>8, <4>9
    <3>3. /\ pending'[n] # None => /\ timer'[pending'[n]].node = n
                                   /\ timer'[pending'[n]].at \in {"armed", "expired"}
          /\ peers'[n] # None => proc'[peers'[n]].at # "new" /\ proc'[peers'[n]].node = n
      BY <1>1 DEF IInv, NodeOK
    <3> QED
      BY <1>1, <2>1, <3>2, <3>3 DEF NodeOK
  <2>2. CASE m # n
    <3>1. Apart(m)
      BY <1>1, <1>4, <1>5, <2>2 DEF Apart
    <3> QED
      BY <3>1, ApartKeeps DEF IInv
  <2> QED
    BY <2>1, <2>2
<1> QED
  BY <1>6, <1>7, <1>8 DEF IInv

\* A row that is deleted between two reports leaves the node without one,
\* connected or not; the deletion is in the log.
LEMMA DeleteRowStep ==
    ASSUME IInv, NEW n \in Nodes, DeleteRow(n)
    PROVE  IInv'
<1>1. /\ peers' = peers /\ open' = open /\ snap' = snap /\ victim' = victim /\ fails' = fails
      /\ viaHttp' = viaHttp /\ proc' = proc /\ notices' = notices /\ exempt' = exempt
      /\ timer' = timer /\ pending' = pending /\ missing' = missing \cup {n}
      /\ row[n] # "none" /\ row' = [row EXCEPT ![n] = "none"]
      /\ events' = IF row[n] = "on" THEN [events EXCEPT ![n] = Log(events[n], "deleted")]
                   ELSE events
  BY DEF DeleteRow, registry, memory
<1>2. /\ events[n] \in Seq(Event) /\ Brief(events[n]) /\ Brief(notices[n])
      /\ events \in [Nodes -> Seq(Event)] /\ row \in [Nodes -> Online]
  BY DEF IInv, TypeOK, Order
<1>3. /\ Log(events[n], "deleted") \in Seq(Event) /\ Brief(Log(events[n], "deleted"))
      /\ Newest(Log(events[n], "deleted")) = "deleted"
  BY <1>2, LogFacts DEF Event
<1>4. /\ events' \in [Nodes -> Seq(Event)]
      /\ events'[n] = IF row[n] = "on" THEN Log(events[n], "deleted") ELSE events[n]
      /\ row' \in [Nodes -> Online] /\ row'[n] = "none"
      /\ \A m \in Nodes : m # n => events'[m] = events[m] /\ row'[m] = row[m]
  BY <1>1, <1>2, <1>3 DEF Online
<1>5. /\ orderly' \in [Nodes -> BOOLEAN]
      /\ orderly'[n] <=> (orderly[n] /\ ~Busy(n))
      /\ \A m \in Nodes : m # n => orderly'[m] = orderly[m]
  BY BeginsIs DEF IInv, DeleteRow
<1>6. TypeOK'
  BY <1>1, <1>4, <1>5 DEF IInv, TypeOK
<1>7. Order'
  <2>1. \A m \in Nodes : Brief(events'[m]) /\ Brief(notices'[m])
    BY <1>1, <1>2, <1>3, <1>4 DEF IInv, Order
  <2>2. \A m \in Nodes : Brief(events[m])' /\ Brief(notices[m])'
    BY <2>1 DEF Brief
  <2> QED
    BY <1>1, <2>2 DEF IInv, Order
<1>8. ASSUME NEW m \in Nodes
      PROVE  NodeOK(m)'
  <2>1. CASE m = n
    <3>1. ASSUME orderly'[n]
          PROVE  /\ Alone(n)' /\ Listed(n)' /\ LogsOK(n)'
                 /\ \A p \in Procs : ~Active(p, n)'
                 /\ \A t \in Timers : ~Fired(t, n)'
                 /\ Rests(n)'
      <4>1. /\ Rests(n) /\ Listed(n) /\ LogsOK(n)
            /\ \A q \in Procs : ~Active(q, n)
            /\ \A t \in Timers : ~Fired(t, n)
        BY <1>5, <3>1, Free DEF IInv
      <4>2. /\ \A q \in Procs : ~Active(q, n)'
            /\ \A t \in Timers : ~Fired(t, n)'
        BY <1>1, <4>1 DEF Active, Fired
      <4>3. Alone(n)' /\ Listed(n)'
        BY <1>1, <4>1, <4>2 DEF Alone, Listed
      <4>4. Told(n, row[n]) /\ row[n] \in {"on", "off"}
        BY <1>1, <1>2, <4>1 DEF Rests, Online
      <4>5. LogsOK(n)'
        <5>1. CASE row[n] = "on"
          BY <1>1, <1>2, <1>4, <4>1, <4>4, <5>1, EventLogged DEF IInv, Event, Notice, Online
        <5>2. CASE row[n] = "off"
          BY <1>1, <1>4, <4>1, <5>2 DEF LogsOK
        <5> QED
          BY <4>4, <5>1, <5>2
      <4>6. Told(n, row[n])'
        BY <1>3, <1>4, <4>4 DEF Told
      <4>7. Linked(n)' /\ Excused(n)'
        BY <1>1, <1>4 DEF Linked, Excused
      <4> QED
        BY <4>2, <4>3, <4>5, <4>6, <4>7 DEF Rests
    <3>2. /\ pending'[n] # None => /\ timer'[pending'[n]].node = n
                                   /\ timer'[pending'[n]].at \in {"armed", "expired"}
          /\ peers'[n] # None => proc'[peers'[n]].at # "new" /\ proc'[peers'[n]].node = n
      BY <1>1 DEF IInv, NodeOK
    <3> QED
      BY <2>1, <3>1, <3>2 DEF NodeOK
  <2>2. CASE m # n
    <3>1. Apart(m)
      BY <1>1, <1>4, <1>5, <2>2 DEF Apart
    <3> QED
      BY <3>1, ApartKeeps DEF IInv
  <2> QED
    BY <2>1, <2>2
<1> QED
  BY <1>6, <1>7, <1>8 DEF IInv

\* The process starts anew: nothing is under way, and a restart is in the logs.
LEMMA RestartStep ==
    ASSUME IInv, Restart
    PROVE  IInv'
<1>1. /\ missing' = missing /\ viaHttp' = viaHttp /\ orderly' = orderly /\ snap' = {} /\ victim' = None
      /\ peers' = [n \in Nodes |-> None] /\ fails' = [n \in Nodes |-> 0]
      /\ exempt' = {n \in Nodes : row[n] = "on"}
      /\ timer' = [t \in Timers |-> FreeTimer] /\ pending' = [n \in Nodes |-> None]
      /\ open' \subseteq open
  BY DEF Restart
<1>2. /\ row' \in [Nodes -> Online]
      /\ \A n \in Nodes : row'[n] = IF row[n] = "on" THEN "off" ELSE row[n]
  BY DEF Restart, IInv, TypeOK, Online
<1>3. ASSUME NEW n \in Nodes
      PROVE  /\ events[n] \in Seq(Event) /\ Brief(events[n])
             /\ notices[n] \in Seq(Notice) /\ Brief(notices[n])
             /\ events'[n] = Log(events[n], "boot") /\ notices'[n] = Log(notices[n], "boot")
             /\ Log(events[n], "boot") \in Seq(Event)
             /\ Log(notices[n], "boot") \in Seq(Notice)
             /\ Brief(Log(events[n], "boot")) /\ Brief(Log(notices[n], "boot"))
             /\ Newest(Log(events[n], "boot")) = "boot"
             /\ Newest(Log(notices[n], "boot")) = "boot"
  <2>1. /\ events[n] \in Seq(Event) /\ Brief(events[n])
        /\ notices[n] \in Seq(Notice) /\ Brief(notices[n])
    BY DEF IInv, TypeOK, Order
  <2>2. /\ events'[n] = Log(events[n], "boot") /\ notices'[n] = Log(notices[n], "boot")
    BY DEF Restart
  <2>3. /\ Log(events[n], "boot") \in Seq(Event) /\ Brief(Log(events[n], "boot"))
        /\ Newest(Log(events[n], "boot")) = "boot"
    BY <2>1, LogFacts DEF Event
  <2>4. /\ Log(notices[n], "boot") \in Seq(Notice)
        /\ Brief(Log(notices[n], "boot")) /\ Newest(Log(notices[n], "boot")) = "boot"
    BY <2>1, LogFacts DEF Notice
  <2> QED
    BY <2>1, <2>2, <2>3, <2>4
<1>4. /\ events' \in [Nodes -> Seq(Event)] /\ notices' \in [Nodes -> Seq(Notice)]
  <2>1. /\ events' = [n \in Nodes |-> Log(events[n], "boot")]
        /\ notices' = [n \in Nodes |-> Log(notices[n], "boot")]
    BY DEF Restart
  <2> QED
    BY <1>3, <2>1
<1> DEFINE rec(p) == IF p \notin Conns THEN At("idle", None)
                     ELSE IF proc[p].at = "new" THEN proc[p] ELSE At("ended", proc[p].node)
<1>5. proc' = [p \in Procs |-> rec(p)]
  BY DEF Restart
<1>6. ASSUME NEW p \in Procs
      PROVE  /\ rec(p) \in Proc /\ rec(p).at \in {"new", "idle", "ended"}
             /\ p \in Conns => rec(p).at # "idle" /\ rec(p).node = proc[p].node
             /\ p \in Conns => (rec(p).at = "new" <=> proc[p].at = "new")
             /\ p \notin Conns => rec(p).at = "idle" /\ rec(p).node = None
  <2>1. proc[p] \in Proc /\ proc[p].node \in Nodes \cup {None}
    BY DEF IInv, TypeOK, Proc
  <2>2. CASE p \notin Conns
    BY <2>2, AtIs
  <2>3. CASE p \in Conns /\ proc[p].at = "new"
    BY <2>1, <2>3
  <2>4. CASE p \in Conns /\ proc[p].at # "new"
    BY <2>1, <2>4, AtIs
  <2> QED
    BY <2>2, <2>3, <2>4
<1> HIDE DEF rec
<1>7. proc' \in [Procs -> Proc] /\ \A p \in Procs : proc'[p] = rec(p)
  BY <1>5, <1>6
<1>8. TypeOK'
  <2>1. timer' \in [Timers -> Timer]
    <3> HIDE DEF FreeTimer
    <3> QED
      BY <1>1, FreeIs
  <2>2. \A p \in Procs : proc'[p].at \notin Reporting \cup {"reading", "evict"}
    BY <1>6, <1>7 DEF Reporting
  <2> QED
    BY <1>1, <1>2, <1>4, <1>7, <2>1, <2>2 DEF IInv, TypeOK
<1>9. Order'
  <2>1. \A m \in Nodes : Brief(events[m])' /\ Brief(notices[m])'
    BY <1>3 DEF Brief
  <2>2. Conns \subseteq Procs /\ Loop \in Procs
    BY DEF Procs
  <2>3. \A c \in Conns : proc'[c].at # "new" => proc'[c].node # None
    BY <1>6, <1>7, <2>2 DEF IInv, Order
  <2>4. \A p \in Procs : proc'[p].at \in {"new", "idle"} => proc'[p].node = None
    BY <1>6, <1>7 DEF IInv, Order
  <2>5. \A p \in Procs : proc'[p].at # "evict"
    BY <1>6, <1>7
  <2>6. \A t \in Timers : timer'[t].at = "free"
    BY <1>1, FreeIs
  <2> QED
    BY <2>1, <2>2, <2>3, <2>4, <2>5, <2>6 DEF Order
<1>10. ASSUME NEW n \in Nodes
       PROVE  NodeOK(n)'
  <2>1. \A p \in Procs : ~Active(p, n)'
    BY <1>6, <1>7 DEF Active, Reporting
  <2>2. \A t \in Timers : ~Fired(t, n)' /\ timer'[t].at = "free"
    BY <1>1, FreeIs DEF Fired
  <2>3. Told(n, row[n])' /\ Returns(n)'
    <3>1. row'[n] \in {"none", "off"}
      BY <1>2 DEF IInv, TypeOK, Online
    <3> QED
      BY <1>3, <3>1 DEF Told, Returns
  <2>4. Rests(n)'
    BY <1>1, <1>2, <2>3 DEF Rests, Linked, Excused
  <2>5. ASSUME orderly[n]
        PROVE  LogsOK(n)'
    <3>1. LogsOK(n)
      BY <2>5 DEF IInv, NodeOK
    <3>2. \E r \in Online : Told(n, r)
      <4>1. CASE Busy(n)
        <5>1. CASE \E p \in Procs : Active(p, n)
          <6>1. PICK p \in Procs : Active(p, n)
            BY <5>1
          <6>2. Stage(p, n)
            BY <2>5, <6>1 DEF IInv, NodeOK
          <6>3. row[n] \in Online /\ proc[p].prev \in Online
            BY DEF IInv, TypeOK, Proc
          <6>4. proc[p].at \in Reporting \cup {"evict"}
            BY <6>1 DEF Active
          <6> QED
            BY <6>2, <6>3, <6>4 DEF Stage, Rests, Reporting, Online
        <5>2. CASE \E t \in Timers : Fired(t, n)
          <6>1. PICK t \in Timers : Fired(t, n)
            BY <5>2
          <6>2. Firing(t, n)
            BY <2>5, <6>1 DEF IInv, NodeOK
          <6>3. row[n] \in Online
            BY DEF IInv, TypeOK
          <6> QED
            BY <6>1, <6>2, <6>3 DEF Firing, Rests, Fired
        <5> QED
          BY <4>1, <5>1, <5>2 DEF Busy, Active, Fired
      <4>2. CASE ~Busy(n)
        BY <2>5, <4>2 DEF IInv, TypeOK, NodeOK, Rests
      <4> QED
        BY <4>1, <4>2
    <3>3. PICK r \in Online : Told(n, r)
      BY <3>2
    <3> QED
      BY <1>3, <3>1, <3>3, EventLogged DEF IInv, Event, Notice
  <2>6. peers'[n] = None /\ pending'[n] = None
    BY <1>1
  <2>7. orderly'[n] = orderly[n]
    BY <1>1
  <2>8. Alone(n)' /\ Listed(n)'
    BY <2>1, <2>2 DEF Alone, Listed
  <2> QED
    BY <2>1, <2>2, <2>4, <2>5, <2>6, <2>7, <2>8 DEF NodeOK
<1> QED
  BY <1>8, <1>9, <1>10 DEF IInv

-----------------------------------------------------------------------------
\* Nothing is known of any node in the beginning.
LEMMA InitHolds == Init => IInv
<1> SUFFICES ASSUME Init
             PROVE  IInv
  OBVIOUS
<1>1. \A p \in Procs : /\ proc[p] \in Proc /\ proc[p].node = None
                       /\ proc[p].at = IF p \in Conns THEN "new" ELSE "idle"
  BY AtIs DEF Init
<1>2. Loop \notin Conns /\ Loop \in Procs /\ Conns \subseteq Procs
  BY PresenceAssumption DEF Procs
<1>3. TypeOK
  <2>1. timer \in [Timers -> Timer]
    <3> HIDE DEF FreeTimer
    <3> QED
      BY FreeIs DEF Init
  <2>2. proc \in [Procs -> Proc]
    BY <1>1 DEF Init
  <2>3. \A p \in Procs : proc[p].at \notin Reporting \cup {"reading", "evict"}
    BY <1>1 DEF Reporting
  <2> QED
    BY <2>1, <2>2, <2>3 DEF Init, TypeOK, Online
<1>4. \A n \in Nodes : events[n] = << >> /\ notices[n] = << >>
  BY DEF Init
<1>5. Order
  <2>1. Brief(<< >>)
    BY DEF Brief
  <2>2. \A t \in Timers : timer[t].at = "free"
    BY FreeIs DEF Init
  <2> QED
    BY <1>1, <1>2, <1>4, <2>1, <2>2 DEF Order
<1>6. ASSUME NEW n \in Nodes
      PROVE  NodeOK(n)
  <2>1. /\ peers[n] = None /\ pending[n] = None /\ row[n] = "none"
        /\ \A t \in Timers : timer[t].at = "free"
    BY FreeIs DEF Init
  <2>2. Rests(n)
    BY <1>4, <2>1 DEF Rests, Linked, Told, Excused, Newest
  <2>3. LogsOK(n)
    <3>1. /\ Len(<< >>) = 0
          /\ Len(<<"offline">>) = 1 /\ Len(<<"up">>) = 1
      OBVIOUS
    <3>2. << >> # <<"offline">> /\ << >> # <<"up">> /\ Len(<< >>) # 2
      BY <3>1
    <3>3. events[n] # <<"offline">> /\ notices[n] # <<"up">>
      BY <1>4, <3>2
    <3>4. Len(events[n]) # 2 /\ Len(notices[n]) # 2
      BY <1>4, <3>1
    <3> QED
      BY <3>3, <3>4 DEF LogsOK
  <2>4. \A p \in Procs : ~Active(p, n)
    BY <1>1 DEF Active, Reporting
  <2>5. \A t \in Timers : ~Fired(t, n)
    BY <2>1 DEF Fired
  <2>6. Alone(n) /\ Listed(n)
    BY <2>1, <2>4, <2>5 DEF Alone, Listed
  <2> QED
    BY <2>1, <2>2, <2>3, <2>4, <2>5, <2>6 DEF NodeOK
<1> QED
  BY <1>3, <1>5, <1>6 DEF IInv

LEMMA StepHolds == IInv /\ [Next]_vars => IInv'
<1> SUFFICES ASSUME IInv, [Next]_vars
             PROVE  IInv'
  OBVIOUS
<1>1. ASSUME NEW p \in Procs, ReportStep(p)
      PROVE  IInv'
  BY <1>1, OnlineReadStep, OnlineTakeStep, OnlineWriteStep, OnlineWriteFailsStep, OnlineEventStep,
     ReadFailsStep, OfflineReadStep,
     OfflineWriteStep, OfflineEventStep, OfflineQuietStep, OfflineArmStep DEF ReportStep
<1>2. ASSUME NEW t \in Timers, TimerStep(t)
      PROVE  IInv'
  BY <1>2, TimerExpiresStep, TimerUnlistsStep, TimerNotifiesStep, TimerReadFailsStep DEF TimerStep
<1>3. ASSUME NEW c \in Conns, ConnStep(c)
      PROVE  IInv'
  BY <1>3, RegisterStep, DropStep, ReadErrorStep, LoopPingsStep, LoopClosesStep DEF ConnStep
<1>4. ASSUME NEW n \in Nodes, NodeStep(n)
      PROVE  IInv'
  BY <1>4, CheckOkStep, CheckFailsStep, OtaOverdueStep, DeleteRowStep DEF NodeStep
<1>5. CASE UNCHANGED vars
  <2>1. /\ peers' = peers /\ proc' = proc /\ row' = row /\ exempt' = exempt /\ timer' = timer
        /\ pending' = pending /\ events' = events /\ notices' = notices /\ orderly' = orderly
        /\ viaHttp' = viaHttp /\ victim' = victim /\ open' = open /\ snap' = snap
        /\ fails' = fails /\ missing' = missing
    BY <1>5 DEF vars
  <2>2. open' \subseteq open /\ snap' \subseteq Conns /\ fails' \in [Nodes -> 0 .. 2]
    BY <2>1 DEF IInv, TypeOK
  <2> QED
    BY <2>1, <2>2, NothingReported
<1> QED
  BY <1>1, <1>2, <1>3, <1>4, <1>5, LoopStartStep, LoopReportsStep, RestartStep DEF Next

\* The invariant of the reports.
THEOREM PresenceInductive == Spec => []IInv
BY InitHolds, StepHolds, PTL DEF Spec

\* When no report of a node is under way and none overlapped, it is recorded
\* online if and only if it is connected (presence.go:47-110).
THEOREM PresenceInvAlways == Spec => []PresenceInv
<1>1. IInv => PresenceInv
  <2>1. ASSUME IInv, NEW n \in Nodes \ viaHttp, orderly[n], ~Busy(n)
        PROVE  /\ row[n] = "on" => peers[n] # None
               /\ peers[n] # None => row[n] = "on" \/ n \in missing
    BY <2>1 DEF IInv, NodeOK, Rests, Linked
  <2> QED
    BY <2>1 DEF IInv, PresenceInv, RecordedAsConnected
<1> QED
  BY <1>1, PresenceInductive, PTL

\* The events alternate and no return is told whose outage was not
\* (presence.go:91-136).
THEOREM OutagesToldAlways == Spec => []OutagesTold
<1>1. IInv => OutagesTold
  BY DEF IInv, NodeOK, LogsOK, OutagesTold, EventsAlternate, NoticesPaired
<1> QED
  BY <1>1, PresenceInductive, PTL

\* A connection that is no longer registered had ended: no late end, and no
\* eviction, unregisters the one that replaced it (ws.go:229).
THEOREM SuccessorKeptAlways == Spec => SuccessorKept
<1> DEFINE Kept == \A n \in Nodes : peers[n] # None /\ peers'[n] # peers[n]
                                    => peers[n] \notin open'
<1>1. ASSUME IInv, [Next]_vars
      PROVE  [Kept]_vars
  <2>1. ASSUME peers' = peers
        PROVE  Kept
    BY <2>1
  <2>2. CASE \E c \in Conns, n \in Nodes : Register(c, n)
    <3>1. PICK c \in Conns, n \in Nodes : Register(c, n)
      BY <2>2
    <3>2. open' = open \ {peers[n]} /\ peers' = [peers EXCEPT ![n] = c]
      BY <3>1 DEF Register
    <3> QED
      BY <1>1, <3>2 DEF IInv, TypeOK
  <2>3. CASE \E c \in Conns : ReadError(c)
    <3>1. PICK c \in Conns : ReadError(c)
      BY <2>3
    <3>2. CASE peers' = peers
      BY <2>1, <3>2
    <3>3. CASE peers' # peers
      <4>1. /\ c \notin open /\ open' = open /\ peers[proc[c].node] = c
            /\ peers' = [peers EXCEPT ![proc[c].node] = None]
        BY <3>1, <3>3 DEF ReadError
      <4> QED
        BY <1>1, <4>1 DEF IInv, TypeOK
    <3> QED
      BY <3>2, <3>3
  <2>4. CASE LoopReports
    <3> DEFINE n == proc[Loop].node
    <3>1. /\ open' = open /\ proc[Loop].at = "evict"
          /\ peers' = [peers EXCEPT ![n] = IF peers[n] = victim THEN None ELSE peers[n]]
      BY <2>4 DEF LoopReports
    <3>2. victim \notin open
      BY <1>1, <3>1 DEF IInv, Order
    <3> HIDE DEF n
    <3> QED
      BY <1>1, <3>1, <3>2 DEF IInv, TypeOK
  <2>5. CASE Restart
    <3>1. open' = {c \in open : proc[c].at = "new"}
      BY <2>5 DEF Restart
    <3>2. \A n \in Nodes : peers[n] # None => proc[peers[n]].at # "new"
      BY <1>1 DEF IInv, NodeOK
    <3> QED
      BY <3>1, <3>2
  <2>6. ASSUME NEW p \in Procs, ReportStep(p)
        PROVE  peers' = peers
    BY <2>6 DEF ReportStep, registry, OnlineRead, OnlineTake, OnlineWrite, OnlineWriteFails,
       OnlineEvent, ReadFails,
       OfflineRead, OfflineWrite, OfflineEvent, OfflineQuiet, OfflineArm
  <2>7. ASSUME NEW t \in Timers, TimerStep(t)
        PROVE  peers' = peers
    BY <2>7 DEF TimerStep, registry, TimerExpires, TimerUnlists, TimerNotifies, TimerReadFails
  <2>8. ASSUME NEW n \in Nodes, NodeStep(n)
        PROVE  peers' = peers
    BY <2>8 DEF NodeStep, registry, CheckOk, CheckFails, OtaOverdue, DeleteRow
  <2>9. ASSUME NEW c \in Conns, Drop(c) \/ LoopPings(c) \/ LoopCloses(c)
        PROVE  peers' = peers
    BY <2>9 DEF Drop, LoopPings, LoopCloses
  <2>10. LoopStart => peers' = peers
    BY DEF LoopStart
  <2>11. CASE UNCHANGED vars
    BY <2>11
  <2> HIDE DEF Kept
  <2> QED
    BY <1>1, <2>1, <2>2, <2>3, <2>4, <2>5, <2>6, <2>7, <2>8, <2>9, <2>10, <2>11 DEF Next, ConnStep
<1>2. IInv /\ [Next]_vars => [Kept]_vars
  BY <1>1
<1> QED
  BY <1>2, PresenceInductive, PTL DEF Spec, SuccessorKept
=============================================================================
