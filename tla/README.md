# Verification of ipw-boce

TLA+ models of the server of this repository (Go, `package main` at the root of
`src/`), the TLC configurations that check them on small instances, and theorems
about them that TLAPS checks for every value of the constants.

```
tlc -workers 2 -config MCShop.cfg MCShop      # one run
tlapm PointsProofs.tla                        # the proofs of one module
```

## The system

A central server keeps a store (GORM; sqlite by default, MySQL or PostgreSQL by
configuration), serves an HTTP API and a web console, and holds one WebSocket per
probe node. Nodes run an agent that executes probes, speed tests and upgrades.
Users register, earn and spend points, buy in a shop, and may donate nodes.

Concurrency comes from four places: a goroutine per HTTP request, a goroutine per
WebSocket connection, background loops (scheduler, maintenance, settlement, OTA
reconciler) and goroutines started by handlers (webhook dispatch, delayed
notices, bonuses). They share the store, some in-memory maps under mutexes
(connections, pending requests, pools, rules), and nothing else. With the default
store the pool holds a single connection (`db.go:76-81`): a `db.Transaction` is
serial and atomic, but statements outside one interleave with everything.
A restart keeps the store and forgets every map and goroutine.

### Inventory

| Component | State | Operations | What is hard | What makes it correct |
|---|---|---|---|---|
| Points ledger (`points_core.go`) | `PointAccount` rows, `PointLedger` journal, rules in memory | `applyPoints`, `changePoints`, settings | racing deductions, repeated idempotency keys, rules that change meanwhile | never negative; every change has a journal entry whose `balance_after` continues the chain; a key is booked once |
| Claims (`points_core.go`, `shop_core.go`, `register.go`) | check-ins, redeem codes and their uses | sign-up bonus, check-in, redeem; deletion of the user (`users.go`) | midnight between capture and commit; rollback of half a check-in; deletion in several statements | nothing claimed twice, no streak invented, row and credit together |
| Paid probe (`forward.go`, `rest.go`) | the handler's captured cost | charge, run, refund | price changed in between, crash | a refund has its charge |
| Shop (`shop_core.go`, `points_routes.go`) | products, cards, orders | create, edit, delete, import, place, deliver, fail, cancel, retry, dispatch | answers, callbacks and administrators race for the end of an order; edits save stale rows | charged once, refunded once iff failed or canceled; cards given once; stock conserved; a dispatched order ends |
| Node presence (`ws.go`, `presence.go`) | connections, `NodePresence` rows, node events, pending notices | register, read error, kick, idle eviction, recovery, 20 s notices | an old connection's end reported after its replacement's start | a connected node is recorded online; one event per change |
| WS requests (`ws.go`, `node_cmd.go`) | pending maps by request id | probe, command, alive; time-outs | late, duplicate and misdirected replies | a reply reaches the request that asked, at most once |
| Speed tests (`speedtest.go`) | 4 slots, one session per node | download, upload, frames, cancel | client leaves, buffer full, node gone | slots and sessions are always returned |
| Node pool (`nodepool.go`) | pool snapshots, node definitions | reload, CRUD | two reloads swap in the wrong order | the snapshot is that of the store, eventually |
| Donations (`donate.go`) | donations, settlement keys | apply, review, withdraw, rotate, settle | decisions on stale rows; settlement run three ways at once | bonus and day paid once; a withdrawn node is out of the pool |
| Tasks and alerts (`task.go`, `task_routes.go`) | tasks, samples, alerts, rounds in flight | CRUD, scheduler, alerts | edit, deletion or restart while a round runs | one round per task; rounds keep coming; an outage is told once, its end after it |
| OTA (`ota.go`) | upgrade rows | start, result, registration, reconcile, time-out | result before the row, node restarts, stale versions | a verdict is final and of a command that was heard; every upgrade ends |
| Uptime and SLA (`uptime.go`, `sla_eval.go`, `maintenance.go`, `donate.go`) | events, windows, samples | interval arithmetic, evaluation, credit of a day | overlaps, purged events, boundaries, rules changed after the fact | what is told is what was written; days add up to the whole; stricter judgement never raises a rate |
| Accounts (`users.go`, `profile.go`, `register.go`, `captcha.go`, `auth.go`) | users, e-mail codes, captchas | registration, CRUD, roles, change and proof of addresses, login | two administrators demote each other; a code for an address that moved on; a code or captcha tried twice at once | an enabled administrator remains; a code or captcha serves once; the gate opens to whoever proved the address |
| Agent (`agent/`) | environment file, two binaries, two systemd units | bootstrap, poll, update, restart, stop | interrupted downloads; a round that fails half way; the agent replaced by itself | binaries are whole; the service follows the centre |
| Site settings (`site.go`) | one row and its copy in memory | merge, validate, save, take over | two PUTs at once; restart between row and copy | what is in force is allowed and is what is stored |
| Retention (`report.go`) | – | hourly deletion of old samples, events, windows | what is told after the deletion | sums still agree |
| Reports, export, mail, toolbox, console | none | queries, formatting | – | – |

Each hazard, with its line and the properties that would catch it, is in
`PROJECT.json`.

## The modules

| Module | What it is |
|---|---|
| `PointsCore` | accounts and journal; `Apply(op)` is `applyPoints` in its transaction, with its checks in order |
| `PointsOps` | adjustments, open API, paid probes: `PointsCore` under racing handlers |
| `PointsClaims` | sign-up bonus, check-ins, redeem codes, deletion of a user: `PointsCore` again |
| `Shop` | products, cards, orders, deliveries: `PointsCore` again |
| `OrderEscrow` | the abstract shop: points go into escrow and leave it one way, once |
| `NodePresence` | connections, the recorded state of nodes, their events and notices |
| `Donations` | applications, reviews, settlement, node definitions and the pool snapshots: `PointsCore` again |
| `NodeExchange` | questions to a node over its connection, their answers and time-outs, speed tests |
| `Ota` | upgrades: command, row, answers, registrations, the reconciler |
| `ProbeTasks` | the scheduler, its rounds and their alerts, and the edits of tasks |
| `Accounts` | users, roles and switches, e-mail codes and captchas, the site settings that registration reads |
| `Agent` | the agent of a donated node: its polls, downloads and restarts, and systemd |
| `Uptime` | pure: from events to intervals, days, totals and the credit of windows |
| `SlaEval` | pure: from the body of a probe to a verdict, a latency, the sums and curves of a task |
| `Measures` | the store that `Uptime` and `SlaEval` read, as it grows, is judged anew and is deleted |
| `PointsCoreProofs` | lemmas about `applyPoints`, the chain and the sums of the journal, which the next three rest on |
| `PointsProofs`, `ShopProofs`, `DonationsProofs` | theorems of the modules that extend `PointsCore`: the first those of `PointsOps` and of `PointsClaims` |
| `AccountsProofs`, `NodePresenceProofs`, `NodeExchangeProofs` | theorems of the modules of those names |
| `LoopsProofs` | theorems of the modules about what works beside the requests: `Agent`, `ProbeTasks`, `Ota`, `Measures` (and of `Uptime` and `SlaEval`, which it reads with) |
| `MC*` | instances for TLC |

Modules that are extended together name their specification, its parts and their type
invariant for themselves (`OpsSpec`, `ClaimsSpec`, `AgentNext`, `TasksTypeOK`,
`MeasuresSpec`); the others say `Spec` and `TypeOK`.

How code became state and actions:

* **Handlers.** `h[r]` (`calls[r]` in `PointsOps`, `doing[r]` in `ProbeTasks`) is what
  request `r` holds between its steps. A step ends
  where another goroutine can come in and matter: before a transaction and after
  one, and between statements outside transactions. `StartCheckin` captures rules
  and date (`points_core.go:313-319`), `CommitCheckin` is the transaction
  (`320-351`). Handlers that read nothing before their transaction are one action
  (`Deliver`, `Cancel`).
* **Transactions.** One action. A returned error is the disjunct that leaves the
  store alone; `Outcome(op)` says which error, in the order the code tests.
* **Accounts.** A missing row and a row of zeros are the same to every reader, so
  `accounts` is a total function. Deleting a user drops the row and keeps the
  journal; `gen` is the number of such deletions and is not in the code: it tells
  entries of the dropped row from those of the row a late credit creates.
* **Keys.** `"checkin:7:2024-05-01"` is `<<"checkin", <<u, d>>>>`. The header of
  an API call is clipped to 128 bytes when stored, so `Clip` maps two headers to
  one stored key; a lookup that misses is caught by the unique index.
* **Webhook.** A dispatch is a goroutine: the first one of an order has the
  order's id, a retry has the handler's. An answer is `ok` (2xx), `failed` (2xx
  with a failed status), `error` (not 2xx, or none within 15 s) or `pending`.
* **Editing and deleting a product.** Read, then save of every column; count,
  then delete cards, then delete the row. These are the steps of
  `points_routes.go:506-546`, and races named below live between them.
* **Reports of a node.** `recordNodeOnline` and `recordNodeOffline` read the row,
  then write, log and notify in statements of their own (`presence.go:61-145`);
  each is a step of whoever reports: a connection's goroutine, the maintenance
  loop, the HTTP watcher. Reads of the row (`ReadFails`, `TimerReadFails`) and its
  upsert (`OnlineWriteFails`) may fail, upon which the code goes on as without a row, or
  returns. `DeleteRow` is an administrator's deletion of the row, by
  `DELETE /admin/nodes/:nodeId` or as the last statement of `DELETE /node-defs/:id`; the
  connection stays. The history `orderly[n]` tells whether reports of `n`, or
  one of these deletions, ever overlapped, and `missing` has the nodes whose row was
  deleted, or not written, since their last report. Of events and notices only the last
  two are kept, which is what the properties compare, with marks among them
  for what was lost in between (`"boot"`, `"deleted"`, `"lost"`).
* **Donations.** A donation is named by the node id it applies for, which is
  unique. Its handlers read the row first and update by id later, so each review,
  edit, rotation and withdrawal is a start that captures a row and the steps
  after it. `reloadNodePools` is four steps (two reads, two swaps) that another
  reload can come between. The histories `decided`, `raced`, `cut` and `twice`
  record the day of an approval, whether requests overlapped, deletions that a restart
  cut off, and donations approved again while a definition of theirs went under
  another id. The `Kick` that ends the connection of a withdrawn node is in
  `NodePresence`.
* **Questions to a node.** Request ids are random and taken to be fresh
  (`genRequestID`). The read loop takes the channel of an answer out of the map
  under the lock and sends into it afterwards: two steps, `ReadResult` and
  `Deliver`. The deferred calls of a speed test are one action each, in the
  order Go runs them: stream, channel, node, slot. The node is external: it may
  answer late, twice or never, and push frames until it has answered or was
  told to cancel.
* **Upgrades.** The handler asks the node, waits, falls back to HTTP and creates the
  row at the end, each a step of its own; a read loop stores the version of a
  registration, looks for the task and ends it in three; the reconciler walks
  the tasks it listed with a version it read before. Versions are a small set
  and 0 for none. What a node runs, and what it does with a command, is
  external; the history `proved` records which commands it has lived up to.
* **Rounds of a task.** The scheduler works off a list that it read, each round
  runs on the row of that list, and its samples, its count and its notice are steps
  of their own (`task.go:207-366`). Of a row only the switch and
  `notifyRecover` are told apart. `streak` is capped at the threshold: larger counts
  act alike. `NotTold` is the way out between the flag `alertFired` and the notice: alerts
  are off, or the owner is missing or cannot be read. The histories `downs` and `told`
  say what rounds found and what the owner knows, `"lost"` included.
* **Users, codes and captchas.** A handler of `Accounts` is cut at every statement
  that another request can come before: the lookup of a code and its use, the count
  of administrators and the change, the check of an address and its save. A code is
  an id; whether its minute of rest and its five minutes of life have passed is the
  state `hot`, `cool` or `old`. Histories: `origin` (who set an address), `proved`
  (which user typed which address's code), `crossed` and `rivals` (requests about one
  user, or of administrators, that overlapped), `used` (how often a code or captcha
  let somebody pass). The site settings that registration depends on are there
  too: the row, its copy in memory, and a PUT as merge, check, save and take over,
  with `contended` for PUTs that overlapped.
* **The agent.** `at` is the call of `step()` that comes next (`agent/main.go`);
  calls that can fail have a failing outcome, and the process may die between any two.
  `env`, `bin` and `self` are the files, `unit` the probe service; the centre,
  whose key, approval and versions change at any time, systemd and power failures are
  external. A download is taken apart (`fetching`): the temporary file `temp` is
  truncated and written (`Download`), compared with the sum announced and removed
  if it differs (`Downloaded`), and renamed (`ReplaceNode`, `ReplaceSelf`); `upgradeNode`
  and `upgradeSelf` share these steps, each with its own file. `Broken` is a file that was cut
  off or altered. The environment file can fail to open, which leaves it as it was, or
  after it was truncated (`WriteFails`). A centre that cannot read its store refuses
  the agent as if its token or donation were gone (`FetchRefused`). The history
  `missed` remembers a restart that was due and failed or was never called. What the
  disk has taken it keeps, and it renames at once: errors that a disk reports
  late, of which `fetchVerified` ignores the one at the close (`agent/main.go:220`), are not
  modelled.
* **Uptime and judgement.** Time is ticks, `Day` of them a day. Both are pure:
  `Measures` feeds them one event, window, sample or edit at a time, in one half of the
  store per behaviour (`fed`), since they share only the clock. Samples are stored in the
  order of their time, so retention takes a stretch off the front (`SamplesSince`). Nothing they tell
  is stored, so the properties compare the answer to every possible question with
  what was written, by a definition that counts ticks one by one and knows no
  intervals. Rates are in hundredths of a percent.
* **Restart.** Handlers, goroutines and maps in memory vanish; the store stays.
  What start-up does itself is part of the action: in `Donations` it rebuilds the
  snapshots, in `NodePresence` it records every node offline and exempts those that
  were online from a notice of their return.

## What the runs check

| Run | Instance | States | What it shows |
|---|---|---|---|
| `points_ops` | 2 users, 2 handlers, 2 API keys clipped to one, probe costs 0, 1, 2, 3 entries | 379 k | no overdraft by any race, the snapshot chain holds, a key is booked once, every refund (and running paid probe) has its charge |
| `points_claims` | 2 users, 2 handlers, 3 days, 1 code with 1 use, rules that pay and rules that pay 0, 1 deletion per account, 2 entries | 1.7 M | account and journal agree, no streak is overstated, check-in and credit go together, a code stays within its limit |
| `shop` | 1 user, a webhook product that may be edited into one by card at another price, 2 cards, 2 orders, edits, deletions, restarts | 415 k | money follows status, cards are given once, and `Shop` implements `OrderEscrow` |
| `shop_stock` | 1 user, a limited webhook product and a limited manual one, 2 orders of 1 or 2 pieces, edits | 293 k | stock and sold agree with the kept orders, the limit holds, and a processing order ends |
| `presence` | 1 node by WebSocket or HTTP, 2 connections, 2 timers, evictions, kicks, restarts, deletions of the row, failing reads and upserts | 665 k | reports that do not overlap leave the registry's state in the store, until the row is deleted or cannot be written; events alternate; no recovery is told without its outage; an old connection never unregisters its successor |
| `donations` | 1 donor, 2 node ids, 2 handlers, 4 requests, 2 days, 2 sets of rules, a node key, empty, sent or not | 1.8 M | account, journal and donation agree, bonus and day are paid once and never before the approval, an approved node keeps its definition, the snapshots tell the store |
| `exchange` | 1 node, 1 connection that may break, 2 handlers, 1 slot, a buffer of 1 frame, 2 questions | 629 k | the read loop is never stuck, slots and claims are those of the sessions, a download is whole, every session ends |
| `ota` | 1 node by WebSocket or HTTP, 2 versions, 1 handler, 1 read loop, 2 upgrades by version or URL, 1 restart or disturbance | 945 k | a verdict is final, no task waits for a command nobody heard, and every upgrade ends |
| `tasks` | 1 task, 2 handlers, 3 requests, room for 2 rounds, threshold 2, notices that are lost, 1 restart | 478 k | rounds never overlap, edits leave the switch alone, alerts tell the truth, an enabled task keeps being probed |
| `accounts` | 3 accounts, 2 addresses, 1 captcha, 2 handlers, 4 requests, 2 codes, 1 restart, 3 ways to change the settings | 1.2 M | an administrator remains, codes and captchas serve once, the gate opens to whoever proved the address, settings in force are allowed and stored |
| `agent` | 2 keys, 2 versions, 3 changes at the centre, 2 faults | 592 k | binaries are whole, a round ends with the service on what it applied, the service follows the centre |
| `measures` | 2 nodes, days of 4 ticks, 9 ticks, 5 writes, 2 rounds of samples, 1 edit, retention of 6 ticks | 106 k | uptime is what the events say, days add up and count for what they were, sums agree, stricter judgement never raises a rate |

Some invariants of a run are conjunctions of named parts, each with its own comment
in the module: `ShopInv` (`CardsGivenOnce`), `StockInv` (`StockConserved`,
`LimitRespected`), `PresenceInv` (`RecordedAsConnected`), `OutagesTold`
(`EventsAlternate`, `NoticesPaired`), `DonationsInv` (`NoPayBeforeApproval`),
`PoolInv` (`ApprovedHasDef`, `PoolTellsStore`, `PendingCanConnect`), `ExchangeInv`
(`LoopNeverStuck`), `TransferInv` (`SlotsMatchSessions`, `DownloadWhole`), `OtaInv`
(`DispatchedWasHeard`, `JudgedLive`), `TasksInv` (`OneRoundAtATime`,
`SwitchStands`), `AccountsInv`
(`OpenCodesUnspent`, `SpentOnce`, `SettingsInOrder`), `AgentInv` (`BinariesWhole`),
`MeasuresInv` (`SumsAgree`); those that end in `Inv`, but for `StockInv`,
`PoolInv` and `TransferInv`, include the module's type invariant.

**Bounds.** `MaxLedger` bounds entries, so histories are short, but each hazard
needs few of them: a race for the last points is one credit and two deductions
(3); a check-in over midnight is two credits (2); an order with its refund after
a credit is 3, and refunds are allowed beyond the bound, so that no end of an
order is cut off. Two handlers are enough for a race between two requests; the
theorems cover the rest of the numbers for what is proved. `MaxGen` and `MaxDay`
bound deletions and days; three days are the least on which a streak can break
and be continued by a late commit. Symmetry is used for users and handlers, and in `presence` for connections and timers,
where only safety is checked. In `presence` two connections are the least that can
replace each other, and two timers the least for an old one to meet a newer. In
`donations`, `MaxStarted` = 4 covers apply, approve and two requests that disturb
them; two days let a list read on one be paid on the other; the second id is an
administrator's own definition, so that the pool is not empty without the
donation. In `exchange` a buffer of one frame and downloads of two
fill the buffer and hold the read loop; one slot is exhausted even with one node,
because a session gives its node back before its slot; two answers to a
question are the least that could block the loop. `MaxInbox` bounds what is under
way on a connection: more would only be read in the same order. In `ota` a second upgrade is what a late answer to the
first could be taken for, and two versions tell "another than before" from "the
one asked for". In `tasks` three requests create a task and let two more race
over it, a threshold of two is the least at which a streak counts, and room for
two rounds is what an overlap would need. In `accounts` three accounts are the seeded
administrator, a rival and a user; two addresses let one be given up while its code
is still out; four requests are a registration, a proof, a change and one that comes
between; the limit of guesses is not reached within four, and rests on the proof. In `agent` two keys tell a rotation from a new start, three changes are
approve, rotate, end, and two faults let a failed round be followed by a failed
repair. In `measures` nine ticks are two days and an end of a third, five writes an
outage, a window and a second outage, and a retention shorter than the run lets an
event that a question starts from be deleted; samples are deleted as well, but the sums
are compared with what is left of them. Requests are
bounded where they start, never where they continue, so that no session is cut
off and liveness means what it says. Deadlock is not checked where a bound or the end of every
order stops the instance; the code itself waits for requests for ever.

**Fairness.** `shop_stock` assumes weak fairness of each dispatch goroutine: the
Go scheduler runs it, and the HTTP client's time-out of 15 s (`shop_core.go:436-477`)
ends its post one way or another. Nothing is assumed of administrators, users or
callbacks. Answers of the kind `pending` are left out there, because the code
then waits for a callback by design, and so are restarts: the code does not
resume a dispatch after one (a hazard in `PROJECT.json`), an administrator has
to retry. `exchange` assumes the same of handlers and of their timers (a context's
deadline fires), and that the HTTP client of a speed test reads, writes or
leaves. Nothing is assumed of the node or of the read loop. `ota` assumes that the
reconciler's goroutine runs and that 15 minutes pass, and nothing of handlers, nodes
or connections: the time-out alone must end every task. `tasks` assumes that the
scheduler runs, that intervals pass, and that rounds go on, since each probe has a
time-out of its own. `agent` assumes that the loop of the agent goes on, that systemd
starts again what has exited (`Restart=always` of the units), and that faults and
changes end, which their bounds say; nothing is assumed of the order of rounds and
changes.

**What the code does not guarantee**, and the passing runs therefore excuse
explicitly:

* overlapping reloads swap in any order: an older snapshot of the pool may stay
  until the next reload (`PoolTellsStore` excuses `raced`);
* an approval looks for the definition under the node's id (`donate.go`, the review):
  if an administrator has renamed that definition, a second approval adds another.
  Deleting one of the two disables the donation while the other stays in the pool,
  against `README.md:98` (`PoolTellsStore` excuses `twice`; it takes five requests,
  one more than the run allows, and came up in the proof);
* an approval that read a pending row takes a node into the pool which its owner has
  withdrawn meanwhile; an edit that did so puts an approved donation back to
  pending. Money stays right in both (`DonationMatchesJournal`);
* a restart between the two statements of an administrator's deletion leaves a
  donation approved without a definition (`ApprovedHasDef` excuses `cut`);
* a restart forgets notices that wait (`NoticesPaired` excuses `"boot"`);
* neither deletion of a node's row ends its connection (`admin.go:73`,
  `nodepool.go:436`): the node stays connected without a row, the end of its connection
  logs no outage and its next registration a second return, until which it counts as on line
  (`RecordedAsConnected` excuses `missing`, `EventsAlternate` excuses `"deleted"`; no
  notice goes wrong by it);
* `recordNodeOnline` takes the exemption and the pending notice before its upsert: if
  that fails (`presence.go:88`), it logs nothing, the node is connected and recorded
  offline until its next report, and that report may tell a return without its outage.
  A read of the row that fails is taken for no row (`presence.go:36`), so an outage
  is not logged, or a return logged twice (`missing` and `"lost"`). Failures
  of the other statements, which the code does not look at, are not modelled;
* the report that a connection ended, or was evicted, can be written after its
  replacement was reported: the node is connected and recorded offline until its
  next report (`RecordedAsConnected` excuses overlapping reports, against
  `presence.go:19`);
* `PUT /shop/admin/products/:id` saves all columns of the row it read
  (`points_routes.go:515-522`), so an order or a refund in between loses its change of
  stock and `sold`: the conditional deduction (`shop_core.go:290`) then lets more be
  sold than there was; and an order that comes after `DELETE` counted the product's orders
  (`points_routes.go:536`) is kept while the product goes, so its refund gives nothing back
  (`StockConserved` excuses both: products that were `overtaken`);
* `PATCH` of a rejected application makes it pending again and does not reload the
  credentials (`donate.go:472`), so the node to be reviewed cannot register
  (`PendingCanConnect` excuses `unloaded`);
* the reconciler judges an HTTP-only node that does not answer by its recorded version
  (`ota.go:166-178`), while the version before the upgrade came from a live answer that
  was not recorded; if the record is older, the upgrade succeeds on the spot
  (`JudgedLive` excuses `blind`);
* `PUT` of a task saves the switch it read (`task_routes.go:180-184`): a `PATCH` or
  `DELETE` in between is undone, against the comment above it (`SwitchStands` excuses
  `crossed`);
* `noteRoundOutcome` remembers an outage as told before it looks for the owner: if
  that fails (`task.go:348`), nobody is told, and the recovery is told all the same
  (`AlertsTellTheTruth` excuses `"lost"`);
* two administrators who demote, disable or delete each other at once may leave
  none (`users.go:289`; `AdminRemains` excuses `rivals`);
* an address may count as verified although its owner typed no code: every restart
  verifies every address (`users.go:86`), a code typed while the address changes
  verifies the new one (`profile.go:176`; `VerifiedByOwner` excuses `crossed`), and an
  administrator's change of an address keeps the flag (`users.go:280`; `origin`);
* `PUT`s of the site settings that overlap lose one of the two changes and may leave the
  copy in memory unlike the row until a restart (`site.go:81`; `SettingsInOrder` excuses
  `contended`);
* the agent records an update before it restarts the service, so a restart that failed is
  not tried again until the service starts anew or the next change (`agent/main.go:120`). And
  that it replaced the binary it knows only in this round: if it dies, or
  the environment file cannot be opened (`agent/main.go:115`), the next round finds both
  as they should be and the old binary goes on (`RunsWhatWasApplied` and `AgentFollows`
  excuse `missed`);
* once retention has deleted the last event before a window, the node counts as not
  there until its next event: one that has been stable for longer than retention and
  then fails is told to have been there for no time at all, at full
  availability, and earns nothing for the day (`UptimeTellsTheEvents` and
  `DaysCountForWhatTheyWere` excuse `StartForgotten`).

Other races that the models contain, and that no property excludes because the
code does not:

* the first order of a product may come between the count of its orders and the
  last statement of its deletion (`points_routes.go:536-546`): it keeps no product,
  against the comment at 538, and a webhook order is then never dispatched;
* nothing ends the write of a download whose client neither reads nor leaves
  (`speedtest.go:244`; `SessionEnds` assumes a client that does one or the other),
  against the comment at `speedtest.go:41`;
* two requests to upgrade a node both find no task in flight (`ota.go:225`), and the
  refusal of a command whose handler went on to HTTP may come before the row is
  created: it is lost and the task fails by time-out, not at once (`ota.go:21`);
* the agent stops an approved node until its next round when the centre cannot read its
  store (`agent.go:128-136` answers 401 or 404, which `agent/main.go:88` takes for the end);
* a round in flight stores samples of, and alerts for, a task that has been deleted;
* a host for mail without a user passes the check of the settings (`site.go:218`), but
  nothing can be sent, so registration that asks for a code is closed to all;
* `markAllNodesOffline` writes no event, so the time until a node comes back after a
  restart of the server counts as on line (`Measures` counts as the events say);
* the credit for maintenance looks once per five minutes, and errs by up to one look per
  end of an outage or window (`DaysCountForWhatTheyWere` says how much);
* slow samples are taken off the met rate whether they were up or not
  (`sla_eval.go`, `PointRate`), and the index of the 95th percentile is `(n-1)*95/100`, which for few
  samples is below it.

## What is proved

All for any sets of users, requests, keys, codes, days, nodes, connections, tasks and
samples, and any rules, from the assumptions of the modules alone: `CoreAssumption` and
`ClaimsAssumption` (`None` is no key and no reference; amounts are positive; ids that
refer to something are references), `OpsAssumption`, `ExchangeAssumption`,
`OtaAssumption` and `TasksAssumption` (which also say that there are finitely many
request ids, since what is under way is counted), `ShopAssumption` and
`AccountsAssumption` (a catalogue, a patch and a body have
the columns of their types), `DonationsAssumption`, `PresenceAssumption` and
`AgentAssumption` (names of different things differ; a whole binary is not a broken
one), and `MeasuresAssumption` (a day has ticks, and a round asks finitely many nodes).
Of what a node answers, of bodies, links and latencies, nothing is assumed.

* **`PointsCoreProofs`.** `LedgerInv` is inductive for every operation of
  `applyPoints` and every deletion of an account (`LedgerStepKeepsInv`). The chain
  of snapshots alone is not inductive: the next entry continues from the *live
  balance*, so the invariant also says that the live balance is the newest
  snapshot of its account and that no entry belongs to a generation to come
  (`NoFutureEntry`), which is what lets a new generation start its chain from
  zero. `TotalsAddUp` and `KeyOnce` come along. A sum over the journal is a fold over a
  finite set, and what an entry adds to it is proved without induction: were the
  claim false of some set, it would be false of a least one in size, which cannot be.
* **`PointsProofs`.** Of `PointsOps`: `OpsNeverNegative`, `OpsSnapshotChain`, `OpsKeyOnce`,
  `OpsTypes`. Each step is a step of the ledger, given that handlers
  hold well-formed operations. `OpsRefundsBacked` counts: a charge adds an entry
  and a running probe, and a refund takes a running probe away (`Backed`).
  Of `PointsClaims`: `ClaimsStreak`, `ClaimsCheckinsPaid`, `ClaimsJournal`,
  `ClaimsTypeOK`, from `ClaimsInvariant`. `CheckinsPaid` needs `CapturedOK`: a
  captured bonus has a sign-up's key, so it can never take a check-in's, and a
  deletion that has come to the check-ins has closed the account before, so the rows
  it drops belong to a generation that is over. `ClaimsCodeWithinLimit`: the counter
  of a code is the number of its uses.
* **`ShopProofs`.** `MoneyFollowsStatusAlways`: what the journal says of an order is what its
  status says, for every order and whatever administrators, callbacks and retries do
  to it at once. It needs that entries refer to orders that were placed, and
  that a refund's key is the order's (`RefundKeys`): an idempotent refund that found
  another's key would be no refund. `ShopInvAlways` adds the cards, for which it also
  counts them. `StockInvAlways` counts the kept orders of a product, and of a user, as sums
  over finite sets, and holds as long as no edit sends another stock, limit or kind of
  delivery (`TermsStay`: an administrator who sets a new stock starts a new count, and
  a refund gives stock back by the kind of delivery the product has by then). An edit that
  waits, unless it was overtaken, has read what the row still counts, so what it saves is
  what is there. `ShopImplementsEscrow`: every step is one of `OrderEscrow` or none, so
  points that go into escrow leave it one way, once.
* **`AccountsProofs`.** `AccountsInvAlways` (codes and captchas serve once, settings are
  in order), `AdminRemainsAlways`, `VerifiedByOwnerAlways`. The second rests on what a
  handler that has checked for another administrator may still rely on: while no
  two such handlers overlap, nobody takes that one away (`Checked`). The third on
  what a handler about an address knows of it (`Knows`).
* **`DonationsProofs`.** `DonationsInvAlways` and `DonationMatchesJournalAlways`: bonus, days and
  earnings of a donation are the entries of the journal under its keys, and no day is
  paid before its approval, whatever rows reviews, edits and settlements had read. The
  key that stands in the journal ties an entry to its donation and day (`Booked`);
  the sums are then those of `PointsCoreProofs`. `PoolInvAlways` has two invariants. One holds
  whatever overlaps (`PoolRows`): ids of definitions are given once and never change
  their donation, so a deletion still knows whose definition it removes, and goes on to
  stop it. The other is of one request at a time (`SeqInv`): what it may rely on at
  each of its statements (`Orderly`), up to the swap that brings the snapshots in step.
* **`NodePresenceProofs`.** `PresenceInvAlways`, `OutagesToldAlways`, `SuccessorKeptAlways`. While
  reports of a node do not overlap, at most one goroutine or timer is at work for it,
  and row, events, notices and the pending timer are those of one of the stages
  between two statements of that report (`NodeOK`); the steps of others leave all of
  that alone. A deletion of the row, or a statement that fails, moves a node to a stage without
  its row (`missing`), from which its next report brings it back.
* **`NodeExchangeProofs`.** `ExchangeInvAlways` and `TransferInvAlways`. An answer is in one place at a
  time: awaited, in the hand of the read loop, or in the channel (`AnswerOK`), which
  is why the loop never blocks on it. The frames of a download are, in this order,
  what the client was given, what is buffered, what the read loop holds and what is under
  way (`Carries`), so what the client gets has no gap. `SlotsMatchSessions` counts
  claims and slots by cardinality.
* **`LoopsProofs`**, of the agent. `AgentInvAlways` and `RunsWhatWasAppliedAlways` from
  `AgentIInv`. That a round ends with the service on what it wrote is not inductive: in
  the middle of a round it is not so. `Applied` says by how much: a service that is up
  runs what is on the disk, except for what the round under way has yet to restart it
  for; and `RoundOK` says what that round works off, so that `"restart"` comes after the
  key it answered has been written. `FetchOK` follows a download: what waits to be
  renamed is what was announced and is whole, so that a binary is replaced by nothing else.
* **`LoopsProofs`**, of the scheduler. `TasksInvAlways` and `AlertsTellTheTruthAlways` from
  `TasksIInv`, in four parts that lean on each other. `RoundsOK` ties the set `taskRun`,
  which the code tests, to the rounds there are, so no two are of one task; hence at most
  one round of a task has a notice in its hand, which is what lets `AlertsOK` say that
  an owner who was told of an outage, or whose notice of it was lost, either is remembered
  (`fired`) or is about to be told of its end, and never both. `SwitchOK`: while requests about a task do not overlap, an
  edit's copy of the switch is the row's.
* **`LoopsProofs`**, of upgrades. `OtaInvAlways` and `VerdictHoldsAlways` from `OtaIInv`. A row
  is created after the command went out and is ended by whoever read it before, so the
  invariant follows a command from the handler to the verdict: one command per
  request, and a row that waits or succeeded is one of a command that its node
  has heard (`RequestsOK`, `CommandsOK`, `HeardOK`); what a node runs and was asked for is
  remembered (`ProvedOK`); and a read loop or a reconciler that holds a version read
  before will judge only what that version bears out (`ReadersOK`, `ReconcilerOK`).
  `RoomOK` counts requests under way against rows by cardinality.
* **`LoopsProofs`**, of what is told. `StricterNeverRaisesAlways`: whoever edits a task into
  one judged more strictly sees no node look better and no sample lost in its history.
  `EverySampleOnce`: of a node's samples each is up, down or invalid, and
  its availability is within 0 and 100%. Both are about a loop over the stored rows
  (`computeTaskSlaRange`), a fold, and get by without induction: were the sum over some
  rows wrong, it would be wrong over a least set of rows, which is not empty, and
  without its last row it is right (`StricterSums`, `AccountedSums`). `CoversAsPlanned`: for
  windows that may be created, the comparison of clock times in `covers`, with its case
  for midnight, is the same as counting ticks on from the start of the window.

Every property that the runs check is stated by a theorem but for eight, which are only
model-checked:

* liveness (`ProcessingEnds`, `SessionEnds`, `UpgradeEnds`, `RoundsKeepComing`,
  `AgentFollows`): out of the prover's reach;
* `UptimeTellsTheEvents` and `DaysCountForWhatTheyWere`: events are picked with `SelectSeq`,
  of which the provers know no facts, and walked over by a fold whose intervals
  are then counted tick by tick, an induction over data. What could be cut out
  of them is proved: `CoversAsPlanned`;
* `MeasuresInv`, but for its part `CountedOnce`, which `EverySampleOnce` proves: curves are
  made from sorted and filtered rows (`SortSeq`, `SelectSeq`), and their sums compared with those by node.

## Not modelled

* Text, layout and formatting; the drawing of captchas; the web console.
* Cryptography: JWT, HMAC of webhooks, password hashes, Turnstile. They keep no state
  of the server, and a forged token is not a behaviour of this code.
* Queries that only read (reports, statistics, export, public pages), rate limits,
  share links, in-app notices, personal API tokens and webhooks of users, the images
  and the text of the pop-up.
* The forwarding of a batch of probes to nodes (`forward.go`, `rest.go`): what is
  charged and refunded for it is in `PointsOps`, how one question is answered in
  `NodeExchange`, and how it is judged in `SlaEval`; how the answers of several nodes
  are merged into one reply is not.
* Configuration, mail and the set-up of the database.
* Stores with concurrent transactions (MySQL, PostgreSQL), where `applyPoints` is a
  sequence of statements under row locks.

## Plan

1. `LedgerTx`: `applyPoints` statement by statement on a concurrent store.
2. The forwarding of a batch of probes, with its partial failures.

3. `UptimeForNode` with its events as a function of their ids, instead of a filtered
   sequence, so that `UptimeTellsTheEvents` comes within reach of the argument by a
   least set of rows.
