------------------------------- MODULE Uptime -------------------------------
(***************************************************************************)
(* How long a node was on line, from the events that were written          *)
(* (uptime.go), and what maintenance windows give back (maintenance.go,    *)
(* donate.go).                                                             *)
(*                                                                         *)
(* Time is in ticks: Day of them are a day, and the settlement looks every *)
(* Step ticks (five minutes).  Events are [at, event], in the order of     *)
(* their ids, for one node; a node's row is [online, since].               *)
(***************************************************************************)
EXTENDS Integers, Sequences, FiniteSets, SequencesExt

CONSTANTS Day,        \* ticks of a day
          Step,       \* ticks between two looks of maintenanceCredit
          Nil

\* loadUptimeEvents: the last event before the window, and those in it.
Prior(events, from) ==
    LET before == SelectSeq(events, LAMBDA e : e.at < from)
    IN  IF before = <<>> THEN Nil ELSE Last(before)
Within(events, from, to) == SelectSeq(events, LAMBDA e : from <= e.at /\ e.at <= to)

\* Mutant: the window starts on line, whatever came before.
Mut_StartsOnline(prior, from) ==
    IF prior = Nil THEN [state |-> "none", off |-> Nil, exists |-> Nil, out |-> <<>>]
    ELSE [state |-> "online", off |-> Nil, exists |-> from, out |-> <<>>]

\* uptimeForNode: a walk over the window that keeps the intervals off line.
WalkFrom(prior, from) ==
    IF prior = Nil THEN [state |-> "none", off |-> Nil, exists |-> Nil, out |-> <<>>]
    ELSE [state |-> prior.event, off |-> IF prior.event = "offline" THEN from ELSE Nil,
          exists |-> from, out |-> <<>>]

Walked(w, e) ==
    CASE w.state = "none" /\ e.event = "online" ->
             [w EXCEPT !.state = "online", !.exists = e.at]
      [] w.state = "online" /\ e.event = "offline" ->
             [w EXCEPT !.state = "offline", !.off = e.at]
      [] w.state = "offline" /\ e.event = "online" ->
             [w EXCEPT !.state = "online", !.out = Append(@, [start |-> w.off, end |-> e.at])]
      [] OTHER -> w

UptimeForNode(events, from, to) ==
    LET w == FoldLeft(Walked, WalkFrom(Prior(events, from), from), Within(events, from, to))
    IN  [exists |-> w.exists,
         iv |-> IF w.state = "offline" /\ to > w.off
                THEN Append(w.out, [start |-> w.off, end |-> to]) ELSE w.out]

Overlap(x, s, e) == Max({0, Min({x.end, e}) - Max({x.start, s})})

OffIn(iv, s, e) == FoldLeft(LAMBDA n, x : n + Overlap(x, s, e), 0, iv)

\* buildUptimeStats.
BuildStats(row, walk, from, to) ==
    LET first == Max({from, row.since} \cup ({walk.exists} \ {Nil}))
        seconds == Max({0, to - first})
        off == Min({OffIn(walk.iv, first, to), seconds})
    IN  IF walk.exists = Nil /\ ~row.online
        THEN [from |-> to, seconds |-> 0, on |-> 0, off |-> 0, downs |-> 0]
        ELSE [from |-> first, seconds |-> seconds, on |-> seconds - off, off |-> off,
              downs |-> Len(walk.iv)]

UptimeStats(row, events, from, to) ==
    BuildStats(row, UptimeForNode(events, from, to), from, to)

\* dayBuckets and fillUptimeDaily: the days that [from, to) touches.
Days(from, to) == IF from < to THEN (from \div Day)..((to - 1) \div Day) ELSE {}

DayStats(d, iv, from, to) ==
    LET s == Max({from, d * Day})
        e == Min({to, (d + 1) * Day})
    IN  [seconds |-> e - s, off |-> Min({OffIn(iv, s, e), e - s}),
         downs |-> Len(SelectSeq(iv, LAMBDA x : s <= x.start /\ x.start < e))]

\* nodeOnlineSeconds: no row, no time.
NodeOnlineSeconds(row, events, from, to) ==
    IF row = Nil THEN 0 ELSE UptimeStats(row, events, from, to).on

-----------------------------------------------------------------------------
\* Mutant: a daily window that ends after midnight is taken to be empty.
Mut_NoWrap(w, t) ==
    LET clock(x) == x % Day
    IN  IF w.daily
        THEN clock(w.start) <= clock(t) /\ clock(t) < clock(w.end)
        ELSE w.start <= t /\ t < w.end

\* covers: a daily window goes by the clock, and may go over midnight.
Covers(w, t) ==
    LET clock(x) == x % Day
        s == clock(w.start)
        e == clock(w.end)
    IN  IF w.daily
        THEN CASE s < e -> s <= clock(t) /\ clock(t) < e
               [] s > e -> s <= clock(t) \/ clock(t) < e
               [] OTHER -> FALSE
        ELSE w.start <= t /\ t < w.end

\* POST /maintenance refuses windows that would never cover anything.
Sensible(w) == IF w.daily THEN w.start % Day # w.end % Day ELSE w.start < w.end

\* maintenanceCredit: a look every Step ticks; one that finds the node off line
\* under a window gives back the whole step.
MaintenanceCredit(windows, events, from, to) ==
    LET iv == UptimeForNode(events, from, to).iv
        looks == {t \in from..(to - 1) : (t - from) % Step = 0}
    IN  Step * Cardinality({t \in looks : /\ \E w \in windows : Covers(w, t)
                                          /\ \E i \in DOMAIN iv : iv[i].start <= t /\ t < iv[i].end})

\* settleDonationDay: what is held against the hours a day asks for.
SettledOnline(row, events, windows, from, to) ==
    NodeOnlineSeconds(row, events, from, to) + MaintenanceCredit(windows, events, from, to)
=============================================================================
