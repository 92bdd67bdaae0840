------------------------------ MODULE Donations -----------------------------
(***************************************************************************)
(* Donated nodes and the node pool (donate.go, nodepool.go): applications, *)
(* reviews, withdrawals, the daily reward, the administrators' own node    *)
(* definitions, and the snapshots of the pool and of the credentials that  *)
(* probes and registrations read.                                          *)
(*                                                                         *)
(* A donation is named by the node id it applies for, which is unique.  A  *)
(* handler is a goroutine per request; every statement outside a           *)
(* transaction is a step of its own.  The snapshots are rebuilt by         *)
(* reloadNodePools at the end of most handlers: it reads the store twice   *)
(* and then swaps two maps under two locks, four steps another reload can  *)
(* come between.  A node's connection (Kick) is in NodePresence.           *)
(***************************************************************************)
EXTENDS PointsCore, FiniteSets

FSE == INSTANCE FiniteSetsExt

CONSTANTS Nodes,       \* node ids
          Applied,     \* the ids users apply for
          Req,         \* request handlers in flight at most
          SettingPool, \* nodes of setting.json, used while the store defines none
          Configs,     \* donation rules an administrator may save
          Settings,    \* what administrators define nodes with: <<key or 0, enabled>>
          SentKeys,    \* what an edit of a definition sends as its key: None for nothing
          MaxPerUser,  \* DonateMaxPerUser (0: no limit)
          MaxDay,      \* bound: days 1..MaxDay
          MaxKey,      \* bound: keys generated
          MaxDef,      \* bound: node definitions created
          MaxStarted   \* bound: requests started

Nets == {"idc", "home"}
Days == 1..MaxDay
Config == [on : BOOLEAN, donate : BOOLEAN, bonus : [Nets -> Nat], daily : [Nets -> Nat]]

ASSUME DonationsAssumption ==
    /\ Configs \subseteq Config
    /\ Applied \subseteq Nodes /\ Nodes \subseteq Refs /\ Nodes \X Days \subseteq Refs
    /\ {MaxPerUser, MaxKey, MaxDef, MaxStarted} \subseteq Nat
    /\ MaxDay \in Nat \ {0} /\ Settings \subseteq Nat \X BOOLEAN
    /\ SentKeys \subseteq Nat \cup {None}
    /\ Nodes \cap SettingPool = {}

VARIABLES donations,   \* [Nodes -> node_donations row]
          defs,        \* [Nodes -> node_defs row]
          pool,        \* apiPool, locationPool: the nodes probes are sent to
          creds,       \* nodeCreds: the key a node has to register with (0: none)
          issued,      \* how many keys were generated so far
          created,     \* the highest id of node_defs
          today,       \* the server's local date
          conf,        \* the rules in memory
          h,           \* what each handler has captured
          started,     \* how many requests were started
          decided,     \* history: the earliest day an approval was decided on
          raced,       \* history: requests overlapped, or a restart cut one off
          cut,         \* history: deletions a restart cut off before their last step
          unloaded,    \* history: donations edited since the credentials were loaded
          twice        \* history: donations that had two node definitions

vars == <<accounts, ledger, donations, defs, pool, creds, issued, created, today,
          conf, h, started, decided, raced, cut, unloaded, twice>>

Statuses == {"none", "pending", "approved", "rejected", "disabled", "withdrawn"}
Donation == [status : Statuses, owner : Users \cup {None}, net : Nets, key : Nat,
             bonus : Nat, earned : Nat, days : Nat, reviewed : Nat]
NoDonation == [status |-> "none", owner |-> None, net |-> "idc", key |-> 0,
               bonus |-> 0, earned |-> 0, days |-> 0, reviewed |-> 0]

\* donation = None: the definition is an administrator's own.
Def == [id : Nat, donation : Nodes \cup {None}, key : Nat, on : BOOLEAN]
NoDef == [id |-> 0, donation |-> None, key |-> 0, on |-> FALSE]

Exists(d) == donations[d].status # "none"
DefsOf(d) == {n \in Nodes : defs[n].id # 0 /\ defs[n].donation = d}
WithId(i) == {n \in Nodes : i # 0 /\ defs[n].id = i}

PoolOf(ds) ==
    LET rows == {n \in Nodes : ds[n].id # 0}
    IN  IF rows = {} THEN SettingPool ELSE {n \in rows : ds[n].on}
CredsOf(ds) == [n \in Nodes |-> ds[n].key]

\* The donations that still wait add the keys no definition has.
WithPending(cs, dons) ==
    [n \in Nodes |-> IF cs[n] = 0 /\ dons[n].status = "pending"
                     THEN dons[n].key ELSE cs[n]]

Idle == [at |-> "idle"]
Handler == {Idle}
    \cup [at : {"counted", "named"}, user : Users, d : Nodes, net : Nets]
    \cup [at : {"edit", "rotate"}, d : Nodes]
    \cup [at : {"rotated"}, d : Nodes, key : Nat]
    \cup [at : {"offpool"}, d : Nodes, to : {"withdrawn", "rejected", "disabled"}, day : Nat]
    \cup [at : {"approve"}, d : Nodes, row : Donation, bonus : Nat, day : Days]
    \cup [at : {"settle"}, todo : SUBSET Nodes, pay : [Nodes -> Nat], day : Days]
    \cup [at : {"put"}, n : Nodes, id : Nat]
    \cup [at : {"delete", "undonate"}, id : Nat, d : Nodes \cup {None}]
    \cup [at : {"reload"}]
    \cup [at : {"reload2", "swap"}, pool : SUBSET (Nodes \cup SettingPool), creds : [Nodes -> Nat]]
    \cup [at : {"swap2"}, creds : [Nodes -> Nat]]

Goto(r, s) == h' = [h EXCEPT ![r] = s]

\* A request arrives and does its first step.
Start(r, s) ==
    /\ h[r] = Idle /\ started < MaxStarted
    /\ Goto(r, s)
    /\ started' = started + 1
    /\ raced' = (raced \/ \E q \in Req : h[q] # Idle)
    /\ UNCHANGED <<cut, unloaded>>

rows == <<accounts, ledger, donations, defs, issued, created>>
snapshots == <<pool, creds>>
world == <<today, conf, decided, twice>>
request == <<started, raced, cut, unloaded>>

-----------------------------------------------------------------------------
\* POST /donations: the user's donations are counted, the node id is looked
\* up among the definitions, the row is created; none of it in a transaction.
StartSubmit(r, u, d, net) ==
    /\ conf.on /\ conf.donate
    /\ MaxPerUser = 0 \/ MaxPerUser >
          Cardinality({x \in Nodes : /\ donations[x].owner = u
                                     /\ donations[x].status \in {"pending", "approved", "disabled"}})
    /\ Start(r, [at |-> "counted", user |-> u, d |-> d, net |-> net])
    /\ UNCHANGED <<rows, snapshots, world>>

LookUpNodeId(r) ==
    /\ h[r].at = "counted"
    /\ Goto(r, IF defs[h[r].d].id # 0 THEN Idle ELSE [h[r] EXCEPT !.at = "named"])
    /\ UNCHANGED <<rows, snapshots, world, request>>

CreateDonation(r) ==
    LET d == h[r].d
    IN  /\ h[r].at = "named" /\ issued < MaxKey
        /\ IF Exists(d)
           THEN Goto(r, Idle) /\ UNCHANGED <<donations, issued>>
           ELSE /\ donations' = [donations EXCEPT ![d] =
                      [NoDonation EXCEPT !.status = "pending", !.owner = h[r].user,
                                         !.net = h[r].net, !.key = issued + 1]]
                /\ issued' = issued + 1
                /\ Goto(r, [at |-> "reload"])
        /\ UNCHANGED <<accounts, ledger, defs, created, snapshots, world, request>>

\* PATCH /donations/:id: the status is that of the row read first, the update
\* puts the donation back to pending whatever it is by then.  No reload.
StartEdit(r, d) ==
    /\ donations[d].status \in {"pending", "rejected"}
    /\ Start(r, [at |-> "edit", d |-> d])
    /\ UNCHANGED <<rows, snapshots, world>>

SaveEdit(r, net) ==
    /\ h[r].at = "edit"
    /\ donations' = [donations EXCEPT ![h[r].d].status = "pending", ![h[r].d].net = net]
    /\ unloaded' = unloaded \cup {h[r].d}
    /\ Goto(r, Idle)
    /\ UNCHANGED <<accounts, ledger, defs, issued, created, snapshots, world, started, raced, cut>>

\* POST /donations/:id/rotate-key: the key is stored twice, one row at a time.
StartRotate(r, d) ==
    /\ Exists(d)
    /\ Start(r, [at |-> "rotate", d |-> d])
    /\ UNCHANGED <<rows, snapshots, world>>

RotateDonation(r) ==
    /\ h[r].at = "rotate" /\ issued < MaxKey
    /\ issued' = issued + 1
    /\ donations' = [donations EXCEPT ![h[r].d].key = issued + 1]
    /\ Goto(r, [at |-> "rotated", d |-> h[r].d, key |-> issued + 1])
    /\ UNCHANGED <<accounts, ledger, defs, created, snapshots, world, request>>

RotateDefs(r) ==
    /\ h[r].at = "rotated"
    /\ defs' = [n \in Nodes |-> IF n \in DefsOf(h[r].d)
                                THEN [defs[n] EXCEPT !.key = h[r].key] ELSE defs[n]]
    /\ Goto(r, [at |-> "reload"])
    /\ UNCHANGED <<accounts, ledger, donations, issued, created, snapshots, world, request>>

-----------------------------------------------------------------------------
\* POST /donations/:id/withdraw, and /donations/admin/:id/review with reject
\* or disable, which records who decided and when.
StartWithdraw(r, d) ==
    /\ Exists(d) /\ donations[d].status # "withdrawn"
    /\ Start(r, [at |-> "offpool", d |-> d, to |-> "withdrawn", day |-> 0])
    /\ UNCHANGED <<rows, snapshots, world>>

StartRefuse(r, d, to) ==
    /\ Exists(d)
    /\ Start(r, [at |-> "offpool", d |-> d, to |-> to, day |-> today])
    /\ UNCHANGED <<rows, snapshots, world>>

\* setDonationOffPool: one transaction; the status is not looked at again.
SetDonationOffPool(r) ==
    LET d == h[r].d
    IN  /\ h[r].at = "offpool"
        /\ defs' = [n \in Nodes |-> IF n \in DefsOf(d) THEN NoDef ELSE defs[n]]
        /\ donations' = [donations EXCEPT ![d].status = h[r].to,
               ![d].reviewed = IF h[r].day = 0 THEN @ ELSE h[r].day]
        /\ Goto(r, [at |-> "reload"])
        /\ UNCHANGED <<accounts, ledger, issued, created, snapshots, world, request>>

\* The review reads the row, the rules and the clock.
StartApprove(r, d) ==
    /\ Exists(d) /\ donations[d].status # "withdrawn"
    /\ Start(r, [at |-> "approve", d |-> d, row |-> donations[d], day |-> today,
                 bonus |-> IF conf.on /\ donations[d].bonus = 0
                           THEN conf.bonus[donations[d].net] ELSE 0])
    /\ UNCHANGED <<rows, snapshots, world>>

BonusOp(r) ==
    [user |-> h[r].row.owner, delta |-> h[r].bonus, kind |-> "donate", ref |-> h[r].d,
     key |-> <<"donate", h[r].d>>]

\* The bonus is booked, or was before (errDuplicate is not an error here).
PayBonus(r, paid) ==
    \/ paid /\ h[r].bonus > 0 /\ Apply(BonusOp(r))
    \/ /\ ~paid /\ UNCHANGED ledgerVars
       /\ h[r].bonus = 0 \/ Outcome(BonusOp(r)) = "duplicate"

Approved(r, paid) ==
    LET d == h[r].d
    IN  [donations EXCEPT ![d].status = "approved", ![d].reviewed = h[r].day,
                          ![d].bonus = IF paid THEN h[r].bonus ELSE @]

\* Mutant: the definition is written only when the donation was pending.
Mut_SaveIfPending(r) ==
    IF h[r].row.status # "pending" THEN defs
    ELSE [defs EXCEPT ![h[r].d] =
             [id |-> IF @.id = 0 THEN created + 1 ELSE @.id, donation |-> h[r].d,
              key |-> h[r].row.key, on |-> TRUE]]

\* tx.Save(&def): an upsert of the node's definition with the columns of the
\* donation as it was read.
SavedDef(r) ==
    [defs EXCEPT ![h[r].d] =
        [id |-> IF @.id = 0 THEN created + 1 ELSE @.id, donation |-> h[r].d,
         key |-> h[r].row.key, on |-> TRUE]]

\* approveDonation: one transaction, then a reload.  A definition of another
\* origin under the same node id refuses it.  The status is not looked at again.
ApproveDonation(r) ==
    LET d == h[r].d
    IN  /\ h[r].at = "approve" /\ created < MaxDef
        /\ \/ /\ defs[d].id # 0 /\ defs[d].donation # d
              /\ Goto(r, Idle)
              /\ UNCHANGED <<rows, decided, twice>>
           \/ /\ defs[d].id = 0 \/ defs[d].donation = d
              /\ \E paid \in BOOLEAN : PayBonus(r, paid) /\ donations' = Approved(r, paid)
              /\ defs' = SavedDef(r)
              /\ created' = IF defs[d].id = 0 THEN created + 1 ELSE created
              /\ decided' = [decided EXCEPT ![d] = IF @ = 0 \/ h[r].day < @
                                                   THEN h[r].day ELSE @]
              /\ twice' = IF defs[d].id = 0 /\ DefsOf(d) # {} THEN twice \cup {d} ELSE twice
              /\ Goto(r, [at |-> "reload"])
              /\ UNCHANGED issued
        /\ UNCHANGED <<snapshots, today, conf, request>>

-----------------------------------------------------------------------------
\* Mutant: everything approved by now is settled, whenever that was.
Mut_SettleAll(day) == {d \in Nodes : donations[d].status = "approved"}

\* The approved donations, but for those whose review came after the day.
Settled(day) ==
    {d \in Nodes : donations[d].status = "approved" /\ donations[d].reviewed <= day}

\* settleDonationDay, called by the loop of 00:05, for the last three days
\* after a start, and by an administrator: a day that is over.
StartSettle(r, day) ==
    /\ conf.on /\ conf.donate /\ day < today
    /\ Start(r, [at |-> "settle", todo |-> Settled(day), day |-> day,
                 pay |-> [d \in Nodes |-> conf.daily[donations[d].net]]])
    /\ UNCHANGED <<rows, snapshots, world>>

\* Mutant: the key of a daily reward does not name the donation and the day.
Mut_UnkeyedDay(r, d) ==
    [user |-> donations[d].owner, delta |-> h[r].pay[d], kind |-> "donate_day", ref |-> d,
     key |-> None]

DayOp(r, d) ==
    [user |-> donations[d].owner, delta |-> h[r].pay[d], kind |-> "donate_day", ref |-> d,
     key |-> <<"donate_day", <<d, h[r].day>>>>]

\* One donation of the list: not paid (too little time on line, no daily
\* reward, a reward that was booked before), or paid in a transaction.
SettleDonation(r, d) ==
    /\ h[r].at = "settle" /\ d \in h[r].todo
    /\ \/ UNCHANGED rows
       \/ /\ h[r].pay[d] > 0
          /\ Apply(DayOp(r, d))
          /\ donations' = [donations EXCEPT ![d].earned = @ + h[r].pay[d], ![d].days = @ + 1]
          /\ UNCHANGED <<defs, issued, created>>
    /\ Goto(r, [h[r] EXCEPT !.todo = @ \ {d}])
    /\ UNCHANGED <<snapshots, world, request>>

SettleDone(r) ==
    /\ h[r].at = "settle" /\ h[r].todo = {}
    /\ Goto(r, Idle)
    /\ UNCHANGED <<rows, snapshots, world, request>>

-----------------------------------------------------------------------------
\* POST /node-defs: an administrator's own node, with a key or without one.
CreateDef(r, n, key, on) ==
    /\ defs[n].id = 0 /\ created < MaxDef
    /\ Start(r, [at |-> "reload"])
    /\ created' = created + 1
    /\ defs' = [defs EXCEPT ![n] = [id |-> created + 1, donation |-> None, key |-> key, on |-> on]]
    /\ UNCHANGED <<accounts, ledger, donations, issued, snapshots, world>>

\* PUT /node-defs/:id: the row is read, the sent columns are updated; the
\* node id is always among them, sent or as it was read; a key that is not sent
\* (None) stays.  The pool of the two, the key an HTTP node is called with and
\* what a node is shown as are left out, as everywhere in this module.
StartPut(r, n) ==
    /\ defs[n].id # 0
    /\ Start(r, [at |-> "put", n |-> n, id |-> defs[n].id])
    /\ UNCHANGED <<rows, snapshots, world>>

Updated(def, on, key) == [def EXCEPT !.on = on, !.key = IF key = None THEN @ ELSE key]

UpdateDef(r, n, on, key) ==
    /\ h[r].at = "put"
    /\ \/ /\ WithId(h[r].id) = {}
          /\ Goto(r, [at |-> "reload"])
          /\ UNCHANGED defs
       \/ \E m \in WithId(h[r].id) :
             IF n # m /\ defs[n].id # 0
             THEN Goto(r, Idle) /\ UNCHANGED defs
             ELSE /\ defs' = [[defs EXCEPT ![m] = NoDef] EXCEPT ![n] = Updated(defs[m], on, key)]
                  /\ Goto(r, [at |-> "reload"])
    /\ UNCHANGED <<accounts, ledger, donations, issued, created, snapshots, world, request>>

\* DELETE /node-defs/:id: read, delete, and stop the donation behind it if
\* it is still approved.  (Its last statement, which deletes the node's row of
\* the nodes table, is NodePresence's DeleteRow.)
StartDelete(r, n) ==
    /\ defs[n].id # 0
    /\ Start(r, [at |-> "delete", id |-> defs[n].id, d |-> defs[n].donation])
    /\ UNCHANGED <<rows, snapshots, world>>

DeleteDef(r) ==
    /\ h[r].at = "delete"
    /\ defs' = [n \in Nodes |-> IF n \in WithId(h[r].id) THEN NoDef ELSE defs[n]]
    /\ Goto(r, IF h[r].d = None THEN [at |-> "reload"] ELSE [h[r] EXCEPT !.at = "undonate"])
    /\ UNCHANGED <<accounts, ledger, donations, issued, created, snapshots, world, request>>

DisableDonation(r) ==
    /\ h[r].at = "undonate"
    /\ donations' = [donations EXCEPT ![h[r].d].status = IF @ = "approved" THEN "disabled" ELSE @]
    /\ Goto(r, [at |-> "reload"])
    /\ UNCHANGED <<accounts, ledger, defs, issued, created, snapshots, world, request>>

-----------------------------------------------------------------------------
\* reloadNodePools: the definitions are read, then the pending donations; the
\* pools are swapped under one lock, the credentials under another.
ReloadDefs(r) ==
    /\ h[r].at = "reload"
    /\ Goto(r, [at |-> "reload2", pool |-> PoolOf(defs), creds |-> CredsOf(defs)])
    /\ UNCHANGED <<rows, snapshots, world, request>>

ReloadPending(r) ==
    /\ h[r].at = "reload2"
    /\ Goto(r, [h[r] EXCEPT !.at = "swap", !.creds = WithPending(@, donations)])
    /\ UNCHANGED <<rows, snapshots, world, request>>

SwapPools(r) ==
    /\ h[r].at = "swap"
    /\ pool' = h[r].pool
    /\ Goto(r, [at |-> "swap2", creds |-> h[r].creds])
    /\ UNCHANGED <<rows, creds, world, request>>

SwapCreds(r) ==
    /\ h[r].at = "swap2"
    /\ creds' = h[r].creds
    /\ unloaded' = {}
    /\ Goto(r, Idle)
    /\ UNCHANGED <<rows, pool, world, started, raced, cut>>

\* PUT /points/admin/settings.
ChangeSettings ==
    /\ conf' \in Configs /\ conf' # conf
    /\ UNCHANGED <<rows, snapshots, today, h, request, decided, twice>>

Midnight ==
    /\ today < MaxDay
    /\ today' = today + 1
    /\ UNCHANGED <<rows, snapshots, conf, h, request, decided, twice>>

\* The process restarts: handlers are gone, initNodePools reloads.
Restart ==
    /\ h' = [r \in Req |-> Idle]
    /\ pool' = PoolOf(defs)
    /\ creds' = WithPending(CredsOf(defs), donations)
    /\ raced' = (raced \/ \E q \in Req : h[q] # Idle)
    /\ cut' = cut \cup {d \in Nodes : \E q \in Req : h[q].at = "undonate" /\ h[q].d = d}
    /\ unloaded' = {}
    /\ UNCHANGED <<rows, world, started>>

Init ==
    /\ LedgerInit
    /\ donations = [d \in Nodes |-> NoDonation]
    /\ defs = [n \in Nodes |-> NoDef]
    /\ pool = SettingPool
    /\ creds = [n \in Nodes |-> 0]
    /\ issued = 0 /\ created = 0 /\ started = 0
    /\ today = 1
    /\ conf \in Configs
    /\ h = [r \in Req |-> Idle]
    /\ decided = [d \in Nodes |-> 0]
    /\ raced = FALSE /\ cut = {} /\ unloaded = {} /\ twice = {}

DonorRequest(r, d) ==
    \/ d \in Applied /\ \E u \in Users, net \in Nets : StartSubmit(r, u, d, net)
    \/ StartEdit(r, d)
    \/ StartRotate(r, d)
    \/ StartWithdraw(r, d)

AdminRequest(r, d) ==
    \/ \E to \in {"rejected", "disabled"} : StartRefuse(r, d, to)
    \/ StartApprove(r, d)
    \/ \E s \in Settings : CreateDef(r, d, s[1], s[2])
    \/ StartPut(r, d)
    \/ StartDelete(r, d)

HandlerStep(r) ==
    \/ LookUpNodeId(r)
    \/ CreateDonation(r)
    \/ \E net \in Nets : SaveEdit(r, net)
    \/ RotateDonation(r)
    \/ RotateDefs(r)
    \/ SetDonationOffPool(r)
    \/ ApproveDonation(r)
    \/ \E d \in Nodes : SettleDonation(r, d)
    \/ SettleDone(r)
    \/ \E n \in Nodes, on \in BOOLEAN, key \in SentKeys : UpdateDef(r, n, on, key)
    \/ DeleteDef(r)
    \/ DisableDonation(r)
    \/ ReloadDefs(r)
    \/ ReloadPending(r)
    \/ SwapPools(r)
    \/ SwapCreds(r)

Next ==
    \/ \E r \in Req, d \in Nodes : DonorRequest(r, d) \/ AdminRequest(r, d)
    \/ \E r \in Req, day \in Days : StartSettle(r, day)
    \/ \E r \in Req : HandlerStep(r)
    \/ ChangeSettings
    \/ Midnight
    \/ Restart

Spec == Init /\ [][Next]_vars

-----------------------------------------------------------------------------
\* The types of the variables.
TypeOK ==
    /\ LedgerTypeOK
    /\ donations \in [Nodes -> Donation]
    /\ defs \in [Nodes -> Def]
    /\ pool \subseteq Nodes \cup SettingPool
    /\ creds \in [Nodes -> Nat]
    /\ {issued, created, started} \subseteq Nat
    /\ today \in Days /\ conf \in Configs
    /\ h \in [Req -> Handler]
    /\ decided \in [Nodes -> Nat] /\ raced \in BOOLEAN /\ {cut, unloaded, twice} \subseteq SUBSET Nodes

EntriesOf(d, kind) == {i \in DOMAIN ledger : ledger[i].kind = kind /\ ledger[i].ref = d}
Paid(d, kind) == FSE!MapThenSumSet(LAMBDA i : ledger[i].delta, EntriesOf(d, kind))

\* What a donation says it has brought in (bonus_paid, daily_earned,
\* reward_days) is what the journal paid for it, whatever reviews and
\* settlements ran at the same time on rows they had read before
\* (donate.go:195-209, 278-291).  The bonus is paid once, and three callers of
\* the settlement never pay more rewards than there are days from the first
\* approval up to yesterday (README.md:98-99).
DonationMatchesJournal ==
    \A d \in Nodes : /\ donations[d].bonus = Paid(d, "donate")
                     /\ donations[d].earned = Paid(d, "donate_day")
                     /\ donations[d].days = Cardinality(EntriesOf(d, "donate_day"))
                     /\ Cardinality(EntriesOf(d, "donate")) <= 1
                     /\ donations[d].days <= today - decided[d]

\* donate.go:269-271: no day is paid that had ended before the donation was first
\* approved, however late its settlement runs.
NoPayBeforeApproval ==
    \A d \in Nodes, day \in Days :
        KeyUsed(<<"donate_day", <<d, day>>>>) => decided[d] \in 1..day

\* Rows have their types, and no reward comes too early (donate.go:250-294).
DonationsInv == TypeOK /\ NoPayBeforeApproval

\* An approved donation is in the node definitions, but for the moment in which
\* an administrator deletes it there (donate.go:182-194, nodepool.go:424-433): no
\* order of reviews, edits and deletions rewards a node that is not in service.
\* A restart in that moment does: the deletion is two statements.
ApprovedHasDef ==
    \A d \in Nodes :
        donations[d].status = "approved" =>
            \/ DefsOf(d) # {} \/ d \in cut
            \/ \E r \in Req : h[r].at = "undonate" /\ h[r].d = d

Quiet == ~raced /\ \A r \in Req : h[r] = Idle

\* While requests do not overlap, each leaves store and memory in step: an
\* approved donation's node is defined, one that is refused, stopped or
\* withdrawn is not (README.md:98), the pool is the enabled definitions and a
\* defined node registers with its own key (nodepool.go:125-191).  Overlapping
\* requests break it, and one case does that needs no overlap: a donation that is
\* approved again after an administrator renamed its node has two definitions,
\* of which stopping it by DELETE /node-defs leaves one.  See the README.
PoolTellsStore ==
    Quiet => /\ \A d \in Nodes :
                   /\ donations[d].status = "approved" => DefsOf(d) # {}
                   /\ DefsOf(d) # {} => \/ donations[d].status = "approved"
                                        \/ donations[d].status = "disabled" /\ d \in twice
             /\ pool = PoolOf(defs)
             /\ \A n \in Nodes : defs[n].key # 0 => creds[n] = defs[n].key

\* "待审核的捐赠节点：凭据先生效（可连上来注册、看到在线）" (nodepool.go:164): the key of a
\* pending donation is in force, so that its node can register, unless an edit
\* made it pending and nothing has loaded the keys since (donate.go:465-475).
PendingCanConnect ==
    \A d \in Nodes :
        Quiet /\ donations[d].status = "pending" /\ defs[d].id = 0 /\ d \notin unloaded
            => creds[d] = donations[d].key

\* What the pool and the key index have to do with the rows (nodepool.go:125-191).
PoolInv == ApprovedHasDef /\ PoolTellsStore /\ PendingCanConnect
=============================================================================
