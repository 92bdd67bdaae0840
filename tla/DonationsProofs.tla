-------------------------- MODULE DonationsProofs ---------------------------
(***************************************************************************)
(* Donations for any number of users, nodes, requests and days: what a     *)
(* donation says it has brought in is what the journal paid for it, no day *)
(* is paid from before the approval, what is approved is defined, and      *)
(* store and memory are in step between requests that do not overlap.      *)
(***************************************************************************)
EXTENDS Donations, PointsCoreProofs

Rest ==
    /\ donations \in [Nodes -> Donation]
    /\ defs \in [Nodes -> Def]
    /\ pool \subseteq Nodes \cup SettingPool
    /\ creds \in [Nodes -> Nat]
    /\ issued \in Nat /\ created \in Nat /\ started \in Nat
    /\ today \in Days /\ conf \in Configs
    /\ h \in [Req -> Handler]
    /\ decided \in [Nodes -> Nat] /\ raced \in BOOLEAN
    /\ cut \subseteq Nodes /\ unloaded \subseteq Nodes /\ twice \subseteq Nodes

-----------------------------------------------------------------------------
\* What a handler has captured, by where it is.
LEMMA HeldByDonor ==
    ASSUME NEW s \in Handler
    PROVE  /\ s.at \in {"counted", "named"} =>
                 s \in [at : {"counted", "named"}, user : Users, d : Nodes, net : Nets]
           /\ s.at \in {"edit", "rotate"} => s \in [at : {"edit", "rotate"}, d : Nodes]
           /\ s.at = "rotated" => s \in [at : {"rotated"}, d : Nodes, key : Nat]
           /\ s.at = "idle" => s = Idle
BY DEF Handler, Idle

LEMMA HeldByReview ==
    ASSUME NEW s \in Handler
    PROVE  /\ s.at = "offpool" =>
                 s \in [at : {"offpool"}, d : Nodes, to : {"withdrawn", "rejected", "disabled"},
                        day : Nat]
           /\ s.at = "approve" =>
                 s \in [at : {"approve"}, d : Nodes, row : Donation, bonus : Nat, day : Days]
           /\ s.at = "settle" =>
                 s \in [at : {"settle"}, todo : SUBSET Nodes, pay : [Nodes -> Nat], day : Days]
BY DEF Handler, Idle

LEMMA HeldByPool ==
    ASSUME NEW s \in Handler
    PROVE  /\ s.at = "put" => s \in [at : {"put"}, n : Nodes, id : Nat]
           /\ s.at \in {"delete", "undonate"} =>
                 s \in [at : {"delete", "undonate"}, id : Nat, d : Nodes \cup {None}]
           /\ s.at \in {"reload2", "swap"} =>
                 s \in [at : {"reload2", "swap"}, pool : SUBSET (Nodes \cup SettingPool),
                        creds : [Nodes -> Nat]]
           /\ s.at = "swap2" => s \in [at : {"swap2"}, creds : [Nodes -> Nat]]
BY DEF Handler, Idle

LEMMA HandlersAre ==
    ASSUME Rest, NEW r \in Req
    PROVE  h[r] \in Handler
BY DEF Rest

\* Only the handler that moves changes its record.
LEMMA GotoType ==
    ASSUME Rest, NEW r \in Req, NEW s \in Handler, Goto(r, s)
    PROVE  /\ h' \in [Req -> Handler] /\ h'[r] = s
           /\ \A q \in Req : q # r => h'[q] = h[q]
BY DEF Rest, Goto

LEMMA IdleIsHandler == Idle \in Handler /\ [at |-> "reload"] \in Handler /\ Idle.at = "idle"
BY DEF Idle, Handler

\* A request that has arrived changes nothing but what it has captured.
LEMMA StartTypes ==
    ASSUME Rest, NEW r \in Req, NEW s \in Handler, Start(r, s)
    PROVE  /\ h' \in [Req -> Handler] /\ h'[r] = s
           /\ \A q \in Req : q # r => h'[q] = h[q]
           /\ started' \in Nat /\ raced' \in BOOLEAN /\ cut' = cut /\ unloaded' = unloaded
<1>1. started' \in Nat
  BY DEF Start, Rest
<1>2. raced' \in BOOLEAN
  BY DEF Start, Rest
<1> QED
  BY <1>1, <1>2, GotoType DEF Start

-----------------------------------------------------------------------------
\* Where a handler is that has captured nothing a payment depends on.
Light == {"idle", "counted", "named", "rotated", "put", "delete", "undonate",
          "reload", "reload2", "swap", "swap2"}

\* What a handler has captured fits the rows and the clock: it acts on a donation
\* that exists, approves for its owner and by today, and settles a day that is
\* over for donations approved by then.
Sound(s) ==
    /\ s.at \in {"edit", "rotate", "offpool", "approve"} => Exists(s.d)
    /\ s.at = "approve" => s.row.owner \in Users /\ s.day <= today
    /\ s.at = "settle" => /\ s.day < today
                          /\ \A d \in s.todo : Exists(d) /\ decided[d] \in 1..s.day

HeldOK == \A r \in Req : Sound(h[r])

\* What stands in a row goes with the history: a donation is somebody's, was
\* decided on before it was approved, and has earned nothing before it exists.
RowsOK ==
    \A d \in Nodes :
        /\ Exists(d) => donations[d].owner \in Users
        /\ ~Exists(d) => /\ donations[d].bonus = 0 /\ donations[d].earned = 0
                         /\ donations[d].days = 0
        /\ donations[d].status = "approved" => decided[d] \in 1..donations[d].reviewed
        /\ decided[d] <= today

Still == UNCHANGED <<accounts, ledger, donations, decided, today>>

\* Donations are never removed, time goes on, an earlier decision stays the first.
Onward ==
    /\ \A d \in Nodes : Exists(d) => donations'[d].status # "none"
    /\ \A d \in Nodes : decided[d] # 0 => decided'[d] \in 1..decided[d]
    /\ today <= today'

LEMMA SoundStays ==
    ASSUME Rest, Rest', Onward, NEW s \in Handler, Sound(s)
    PROVE  Sound(s)'
<1>1. today \in Nat /\ today' \in Nat
  BY DEF Rest, Days
<1>2. s.at \in {"edit", "rotate", "offpool", "approve"} => s.d \in Nodes /\ Exists(s.d)'
  <2>1. s.at \in {"edit", "rotate", "offpool", "approve"} => s.d \in Nodes
    BY HeldByDonor, HeldByReview
  <2> QED
    BY <2>1 DEF Sound, Onward, Exists
<1>3. s.at = "approve" => s.row.owner \in Users /\ s.day <= today'
  <2>1. s.at = "approve" => s.day \in Nat
    BY HeldByReview DEF Days
  <2> QED
    BY <1>1, <2>1 DEF Sound, Onward
<1>4. s.at = "settle" => s.day < today' /\ \A d \in s.todo : Exists(d)' /\ decided'[d] \in 1..s.day
  <2> SUFFICES ASSUME s.at = "settle"
               PROVE  s.day < today' /\ \A d \in s.todo : Exists(d)' /\ decided'[d] \in 1..s.day
    OBVIOUS
  <2>1. s.day \in Nat /\ s.todo \subseteq Nodes
    BY HeldByReview DEF Days
  <2>2. s.day < today'
    BY <1>1, <2>1 DEF Sound, Onward
  <2>3. ASSUME NEW d \in s.todo PROVE Exists(d)' /\ decided'[d] \in 1..s.day
    <3>1. d \in Nodes /\ Exists(d) /\ decided[d] \in 1..s.day
      BY <2>1 DEF Sound
    <3>2. decided[d] # 0 /\ decided'[d] \in 1..decided[d]
      BY <3>1 DEF Onward
    <3> QED
      BY <2>1, <3>1, <3>2 DEF Onward, Exists
  <2> QED
    BY <2>2, <2>3
<1> QED
  BY <1>2, <1>3, <1>4 DEF Sound

LEMMA StillIsOnward ==
    ASSUME Rest, Still
    PROVE  Onward
<1>1. \A d \in Nodes : decided[d] \in Nat
  BY DEF Rest
<1>2. today \in Nat
  BY DEF Rest, Days
<1> QED
  BY <1>1, <1>2 DEF Still, Onward, Exists

LEMMA LightIsSound == \A s : s.at \in Light => Sound(s)
BY DEF Light, Sound

-----------------------------------------------------------------------------
\* What a handler captures is sound when it is captured.
Heedful == \A q \in Req : h'[q] = h[q] \/ Sound(h'[q])

\* A step that touches neither money nor the rows of donations.
Idly == Rest' /\ Still /\ Heedful

LEMMA StartIdly ==
    ASSUME Rest, NEW r \in Req, NEW s \in Handler, Start(r, s), Sound(s),
           UNCHANGED <<rows, snapshots, world>>
    PROVE  Idly
<1>1. /\ h' \in [Req -> Handler] /\ h'[r] = s
      /\ \A q \in Req : q # r => h'[q] = h[q]
      /\ started' \in Nat /\ raced' \in BOOLEAN /\ cut' = cut /\ unloaded' = unloaded
  BY StartTypes
<1>2. Rest'
  BY <1>1 DEF Rest, rows, snapshots, world
<1>3. Still
  BY DEF Still, rows, world
<1>4. Heedful
  BY <1>1 DEF Heedful
<1> QED
  BY <1>2, <1>3, <1>4 DEF Idly

LEMMA LightStarts ==
    ASSUME Rest, NEW r \in Req, NEW d \in Nodes,
           \/ \E u \in Users, net \in Nets : StartSubmit(r, u, d, net)
           \/ StartPut(r, d)
           \/ StartDelete(r, d)
    PROVE  Idly
<1>1. ASSUME NEW u \in Users, NEW net \in Nets, StartSubmit(r, u, d, net) PROVE Idly
  <2> DEFINE s == [at |-> "counted", user |-> u, d |-> d, net |-> net]
  <2>1. s \in Handler /\ s.at \in Light
    BY DEF Handler, Light
  <2>2. Start(r, s) /\ UNCHANGED <<rows, snapshots, world>>
    BY <1>1 DEF StartSubmit
  <2> HIDE DEF s
  <2> QED
    BY <2>1, <2>2, LightIsSound, StartIdly
<1>2. CASE StartPut(r, d)
  <2> DEFINE s == [at |-> "put", n |-> d, id |-> defs[d].id]
  <2>1. defs[d] \in Def
    BY DEF Rest
  <2>2. s \in Handler /\ s.at \in Light
    BY <2>1 DEF Handler, Light, Def
  <2>3. Start(r, s) /\ UNCHANGED <<rows, snapshots, world>>
    BY <1>2 DEF StartPut
  <2> HIDE DEF s
  <2> QED
    BY <2>2, <2>3, LightIsSound, StartIdly
<1>3. CASE StartDelete(r, d)
  <2> DEFINE s == [at |-> "delete", id |-> defs[d].id, d |-> defs[d].donation]
  <2>1. defs[d] \in Def
    BY DEF Rest
  <2>2. s \in Handler /\ s.at \in Light
    BY <2>1 DEF Handler, Light, Def
  <2>3. Start(r, s) /\ UNCHANGED <<rows, snapshots, world>>
    BY <1>3 DEF StartDelete
  <2> HIDE DEF s
  <2> QED
    BY <2>2, <2>3, LightIsSound, StartIdly
<1> QED
  BY <1>1, <1>2, <1>3

LEMMA CreateDefTypes ==
    ASSUME Rest, NEW r \in Req, NEW n \in Nodes, NEW set \in Settings,
           CreateDef(r, n, set[1], set[2])
    PROVE  Idly
<1> DEFINE s == [at |-> "reload"]
           new == [id |-> created + 1, donation |-> None, key |-> set[1], on |-> set[2]]
<1>1. s \in Handler /\ s.at \in Light
  BY IdleIsHandler DEF Light
<1>2. Start(r, s) /\ UNCHANGED <<accounts, ledger, donations, issued, snapshots, world>>
      /\ created' = created + 1 /\ defs' = [defs EXCEPT ![n] = new]
  BY DEF CreateDef
<1>3. set[1] \in Nat /\ set[2] \in BOOLEAN
  BY DonationsAssumption
<1>4. new \in Def
  BY <1>3 DEF Def, Rest
<1> HIDE DEF s, new
<1>5. /\ h' \in [Req -> Handler] /\ h'[r] = s
      /\ \A q \in Req : q # r => h'[q] = h[q]
      /\ started' \in Nat /\ raced' \in BOOLEAN /\ cut' = cut /\ unloaded' = unloaded
  BY <1>1, <1>2, StartTypes
<1>6. Rest'
  BY <1>2, <1>4, <1>5 DEF Rest, snapshots, world
<1>7. Heedful
  BY <1>1, <1>5, LightIsSound DEF Heedful
<1> QED
  BY <1>2, <1>6, <1>7 DEF Idly, Still, world

\* Requests about a donation read its row first, and those of the reward the
\* clock too.
LEMMA DonationStarts ==
    ASSUME Rest, NEW r \in Req, NEW d \in Nodes,
           \/ StartEdit(r, d) \/ StartRotate(r, d) \/ StartWithdraw(r, d)
           \/ \E to \in {"rejected", "disabled"} : StartRefuse(r, d, to)
    PROVE  Idly
<1>1. CASE StartEdit(r, d)
  <2> DEFINE s == [at |-> "edit", d |-> d]
  <2>1. s \in Handler
    BY DEF Handler
  <2>2. Sound(s)
    BY <1>1 DEF Sound, StartEdit, Exists
  <2>3. Start(r, s) /\ UNCHANGED <<rows, snapshots, world>>
    BY <1>1 DEF StartEdit
  <2> HIDE DEF s
  <2> QED
    BY <2>1, <2>2, <2>3, StartIdly
<1>2. CASE StartRotate(r, d)
  <2> DEFINE s == [at |-> "rotate", d |-> d]
  <2>1. s \in Handler
    BY DEF Handler
  <2>2. Sound(s)
    BY <1>2 DEF Sound, StartRotate
  <2>3. Start(r, s) /\ UNCHANGED <<rows, snapshots, world>>
    BY <1>2 DEF StartRotate
  <2> HIDE DEF s
  <2> QED
    BY <2>1, <2>2, <2>3, StartIdly
<1>3. ASSUME NEW to \in {"withdrawn", "rejected", "disabled"}, NEW day \in Nat, Exists(d),
             Start(r, [at |-> "offpool", d |-> d, to |-> to, day |-> day]),
             UNCHANGED <<rows, snapshots, world>>
      PROVE  Idly
  <2> DEFINE s == [at |-> "offpool", d |-> d, to |-> to, day |-> day]
  <2>1. s \in Handler
    BY DEF Handler
  <2>2. Sound(s)
    BY <1>3 DEF Sound
  <2>3. Start(r, s)
    BY <1>3
  <2> HIDE DEF s
  <2> QED
    BY <1>3, <2>1, <2>2, <2>3, StartIdly
<1>4. CASE StartWithdraw(r, d)
  BY <1>3, <1>4 DEF StartWithdraw
<1>5. ASSUME NEW to \in {"rejected", "disabled"}, StartRefuse(r, d, to) PROVE Idly
  <2>1. today \in Nat
    BY DEF Rest, Days
  <2> QED
    BY <1>3, <1>5, <2>1 DEF StartRefuse
<1> QED
  BY <1>1, <1>2, <1>4, <1>5

LEMMA ApproveStarts ==
    ASSUME Rest, RowsOK, NEW r \in Req, NEW d \in Nodes, StartApprove(r, d)
    PROVE  Idly
<1> DEFINE bonus == IF conf.on /\ donations[d].bonus = 0 THEN conf.bonus[donations[d].net] ELSE 0
           s == [at |-> "approve", d |-> d, row |-> donations[d], day |-> today, bonus |-> bonus]
<1>1. donations[d] \in Donation /\ today \in Days /\ today \in Nat
  BY DEF Rest, Days
<1>2. bonus \in Nat
  <2>1. conf \in Config /\ donations[d].net \in Nets
    BY <1>1, DonationsAssumption DEF Rest, Donation
  <2>2. conf.bonus[donations[d].net] \in Nat
    BY <2>1 DEF Config
  <2> QED
    BY <2>2
<1>3. s \in Handler
  <2> HIDE DEF bonus
  <2> QED
    BY <1>1, <1>2 DEF Handler
<1>4. Exists(d) /\ donations[d].owner \in Users
  BY DEF StartApprove, RowsOK
<1>5. Sound(s)
  <2> HIDE DEF bonus
  <2> QED
    BY <1>1, <1>4 DEF Sound
<1>6. Start(r, s) /\ UNCHANGED <<rows, snapshots, world>>
  BY DEF StartApprove
<1> HIDE DEF s
<1> QED
  BY <1>3, <1>5, <1>6, StartIdly

LEMMA SettleStarts ==
    ASSUME Rest, RowsOK, NEW r \in Req, NEW day \in Days, StartSettle(r, day)
    PROVE  Idly
<1> DEFINE pay == [d \in Nodes |-> conf.daily[donations[d].net]]
           s == [at |-> "settle", todo |-> Settled(day), day |-> day, pay |-> pay]
<1>1. pay \in [Nodes -> Nat]
  <2>1. \A d \in Nodes : conf.daily[donations[d].net] \in Nat
    <3> TAKE d \in Nodes
    <3>1. conf \in Config /\ donations[d].net \in Nets
      BY DonationsAssumption DEF Rest, Donation
    <3> QED
      BY <3>1 DEF Config
  <2> QED
    BY <2>1
<1>2. Settled(day) \subseteq Nodes
  BY DEF Settled
<1>3. s \in Handler
  <2> HIDE DEF pay
  <2> QED
    BY <1>1, <1>2 DEF Handler
<1>4. \A d \in Settled(day) : Exists(d) /\ decided[d] \in 1..day
  <2> TAKE d \in Settled(day)
  <2>1. d \in Nodes /\ donations[d].status = "approved" /\ donations[d].reviewed <= day
    BY DEF Settled
  <2>2. donations[d].reviewed \in Nat /\ decided[d] \in 1..donations[d].reviewed /\ day \in Nat
    BY <2>1 DEF Rest, Donation, RowsOK, Days
  <2> QED
    BY <2>1, <2>2 DEF Exists
<1>5. Sound(s)
  <2>1. day < today
    BY DEF StartSettle
  <2> HIDE DEF pay
  <2> QED
    BY <1>4, <2>1 DEF Sound
<1>6. Start(r, s) /\ UNCHANGED <<rows, snapshots, world>>
  BY DEF StartSettle
<1> HIDE DEF s
<1> QED
  BY <1>3, <1>5, <1>6, StartIdly

-----------------------------------------------------------------------------
LEMMA GotoHeedful ==
    ASSUME Rest, NEW r \in Req, NEW s \in Handler, Goto(r, s), Sound(s)
    PROVE  h' \in [Req -> Handler] /\ Heedful
BY GotoType DEF Heedful

LEMMA IdleHeedful ==
    ASSUME Rest, NEW r \in Req, Goto(r, Idle) \/ Goto(r, [at |-> "reload"])
    PROVE  h' \in [Req -> Handler] /\ Heedful
<1>1. Idle.at \in Light /\ [at |-> "reload"].at \in Light
  BY IdleIsHandler DEF Light
<1> QED
  BY <1>1, IdleIsHandler, LightIsSound, GotoHeedful

LEMMA EndsIdly ==
    ASSUME Rest, NEW r \in Req, LookUpNodeId(r) \/ SettleDone(r)
    PROVE  Idly
<1>1. UNCHANGED <<rows, snapshots, world, request>>
  BY DEF LookUpNodeId, SettleDone
<1>2. h' \in [Req -> Handler] /\ Heedful
  <2>1. CASE Goto(r, Idle)
    BY <2>1, IdleHeedful
  <2>2. CASE LookUpNodeId(r) /\ Goto(r, [h[r] EXCEPT !.at = "named"])
    <3> DEFINE s == [h[r] EXCEPT !.at = "named"]
    <3>1. h[r] \in [at : {"counted", "named"}, user : Users, d : Nodes, net : Nets]
      BY <2>2, HandlersAre, HeldByDonor DEF LookUpNodeId
    <3>2. s \in [at : {"counted", "named"}, user : Users, d : Nodes, net : Nets]
          /\ s.at = "named"
      BY <3>1
    <3> HIDE DEF s
    <3>3. s \in Handler /\ s.at \in Light
      BY <3>2 DEF Handler, Light
    <3>4. Goto(r, s)
      BY <2>2 DEF s
    <3> QED
      BY <3>3, <3>4, LightIsSound, GotoHeedful
  <2> QED
    BY <2>1, <2>2 DEF LookUpNodeId, SettleDone
<1>3. Rest'
  BY <1>1, <1>2 DEF Rest, rows, snapshots, world, request
<1>4. Still
  BY <1>1 DEF Still, rows, world
<1> QED
  BY <1>2, <1>3, <1>4 DEF Idly

\* The handlers of the node definitions keep their types.
LEMMA DefSteps ==
    ASSUME Rest, NEW r \in Req,
           \/ RotateDefs(r)
           \/ \E n \in Nodes, on \in BOOLEAN, key \in SentKeys : UpdateDef(r, n, on, key)
           \/ DeleteDef(r)
    PROVE  Idly
<1>0. /\ UNCHANGED <<accounts, ledger, donations, issued, created, snapshots, world, request>>
      /\ \A n \in Nodes : defs[n] \in Def
      /\ NoDef \in Def /\ h[r] \in Handler
  <2>1. NoDef \in Def
    BY DEF NoDef, Def
  <2> QED
    BY <2>1 DEF RotateDefs, UpdateDef, DeleteDef, Rest
<1>1. defs' \in [Nodes -> Def]
  <2>1. CASE RotateDefs(r)
    <3>1. h[r].key \in Nat
      BY <1>0, <2>1, HeldByDonor DEF RotateDefs
    <3>2. \A n \in Nodes : [defs[n] EXCEPT !.key = h[r].key] \in Def
      BY <1>0, <3>1 DEF Def
    <3> QED
      BY <1>0, <2>1, <3>2 DEF RotateDefs
  <2>2. ASSUME NEW n \in Nodes, NEW on \in BOOLEAN, NEW key \in SentKeys,
             UpdateDef(r, n, on, key)
        PROVE  defs' \in [Nodes -> Def]
    <3>1. CASE defs' = defs
      BY <3>1 DEF Rest
    <3>2. ASSUME NEW m \in WithId(h[r].id),
                 defs' = [[defs EXCEPT ![m] = NoDef] EXCEPT ![n] = Updated(defs[m], on, key)]
          PROVE  defs' \in [Nodes -> Def]
      <4>1. m \in Nodes
        BY DEF WithId
      <4>2. Updated(defs[m], on, key) \in Def
        <5>1. defs[m] \in Def /\ (key = None \/ key \in Nat)
          BY <1>0, <4>1, DonationsAssumption DEF Rest
        <5> QED
          BY <2>2, <5>1 DEF Def, Updated
      <4>3. [defs EXCEPT ![m] = NoDef] \in [Nodes -> Def]
        BY <1>0, <4>1 DEF Rest
      <4> QED
        BY <3>2, <4>2, <4>3
    <3> QED
      BY <2>2, <3>1, <3>2 DEF UpdateDef
  <2>3. CASE DeleteDef(r)
    BY <1>0, <2>3 DEF DeleteDef
  <2> QED
    BY <2>1, <2>2, <2>3
<1>2. h' \in [Req -> Handler] /\ Heedful
  <2>1. CASE Goto(r, Idle) \/ Goto(r, [at |-> "reload"])
    BY <2>1, IdleHeedful
  <2>2. CASE DeleteDef(r) /\ Goto(r, [h[r] EXCEPT !.at = "undonate"])
    <3> DEFINE s == [h[r] EXCEPT !.at = "undonate"]
    <3>1. h[r] \in [at : {"delete", "undonate"}, id : Nat, d : Nodes \cup {None}]
      BY <1>0, <2>2, HeldByPool DEF DeleteDef
    <3>2. s \in [at : {"delete", "undonate"}, id : Nat, d : Nodes \cup {None}]
          /\ s.at = "undonate"
      BY <3>1
    <3> HIDE DEF s
    <3>3. s \in Handler /\ s.at \in Light
      BY <3>2 DEF Handler, Light
    <3>4. Goto(r, s)
      BY <2>2 DEF s
    <3> QED
      BY <3>3, <3>4, LightIsSound, GotoHeedful
  <2> QED
    BY <2>1, <2>2 DEF RotateDefs, UpdateDef, DeleteDef
<1>3. Rest'
  BY <1>0, <1>1, <1>2 DEF Rest, snapshots, world, request
<1>4. Still
  BY <1>0 DEF Still, world
<1> QED
  BY <1>2, <1>3, <1>4 DEF Idly

LEMMA PoolOfTypes ==
    ASSUME Rest
    PROVE  /\ PoolOf(defs) \subseteq Nodes \cup SettingPool
           /\ CredsOf(defs) \in [Nodes -> Nat]
<1>1. \A n \in Nodes : defs[n].key \in Nat
  BY DEF Rest, Def
<1> QED
  BY <1>1 DEF PoolOf, CredsOf

LEMMA WithPendingTypes ==
    ASSUME Rest, NEW cs \in [Nodes -> Nat]
    PROVE  WithPending(cs, donations) \in [Nodes -> Nat]
<1>1. \A n \in Nodes : donations[n].key \in Nat
  BY DEF Rest, Donation
<1> QED
  BY <1>1 DEF WithPending

LEMMA ReloadSteps ==
    ASSUME Rest, NEW r \in Req,
           ReloadDefs(r) \/ ReloadPending(r) \/ SwapPools(r) \/ SwapCreds(r)
    PROVE  Idly
<1>0. h[r] \in Handler /\ UNCHANGED <<rows, world>>
  BY HandlersAre DEF ReloadDefs, ReloadPending, SwapPools, SwapCreds
<1>1. CASE ReloadDefs(r)
  <2> DEFINE s == [at |-> "reload2", pool |-> PoolOf(defs), creds |-> CredsOf(defs)]
  <2>1. s \in Handler /\ s.at \in Light
    BY PoolOfTypes DEF Handler, Light
  <2>2. Goto(r, s) /\ UNCHANGED <<rows, snapshots, world, request>>
    BY <1>1 DEF ReloadDefs
  <2> HIDE DEF s
  <2>3. h' \in [Req -> Handler] /\ Heedful
    BY <2>1, <2>2, LightIsSound, GotoHeedful
  <2> QED
    BY <2>2, <2>3 DEF Rest, rows, snapshots, world, request, Idly, Still
<1>2. CASE ReloadPending(r)
  <2> DEFINE s == [h[r] EXCEPT !.at = "swap", !.creds = WithPending(@, donations)]
             Set == [at : {"reload2", "swap"}, pool : SUBSET (Nodes \cup SettingPool),
                     creds : [Nodes -> Nat]]
  <2>1. h[r] \in Set
    BY <1>0, <1>2, HeldByPool DEF ReloadPending
  <2>2. WithPending(h[r].creds, donations) \in [Nodes -> Nat]
    BY <2>1, WithPendingTypes
  <2>3. s \in Set /\ s.at = "swap"
    BY <2>1, <2>2
  <2>4. Goto(r, s) /\ UNCHANGED <<rows, snapshots, world, request>>
    BY <1>2 DEF ReloadPending
  <2> HIDE DEF s
  <2>5. s \in Handler /\ s.at \in Light
    BY <2>3 DEF Handler, Light
  <2>6. h' \in [Req -> Handler] /\ Heedful
    BY <2>4, <2>5, LightIsSound, GotoHeedful
  <2> QED
    BY <2>4, <2>6 DEF Rest, rows, snapshots, world, request, Idly, Still
<1>3. CASE SwapPools(r)
  <2> DEFINE s == [at |-> "swap2", creds |-> h[r].creds]
  <2>1. h[r].creds \in [Nodes -> Nat] /\ h[r].pool \subseteq Nodes \cup SettingPool
    BY <1>0, <1>3, HeldByPool DEF SwapPools
  <2>2. s \in Handler /\ s.at \in Light
    BY <2>1 DEF Handler, Light
  <2>3. Goto(r, s) /\ pool' = h[r].pool /\ UNCHANGED <<rows, creds, world, request>>
    BY <1>3 DEF SwapPools
  <2> HIDE DEF s
  <2>4. h' \in [Req -> Handler] /\ Heedful
    BY <2>2, <2>3, LightIsSound, GotoHeedful
  <2> QED
    BY <2>1, <2>3, <2>4 DEF Rest, rows, world, request, Idly, Still
<1>4. CASE SwapCreds(r)
  <2>1. h[r].creds \in [Nodes -> Nat]
    BY <1>0, <1>4, HeldByPool DEF SwapCreds
  <2>2. h' \in [Req -> Handler] /\ Heedful
    BY <1>4, IdleHeedful DEF SwapCreds
  <2> QED
    BY <1>4, <2>1, <2>2 DEF SwapCreds, Rest, rows, world, Idly, Still
<1> QED
  BY <1>1, <1>2, <1>3, <1>4

LEMMA WorldSteps ==
    ASSUME Rest, ChangeSettings \/ Restart
    PROVE  Idly
<1>1. CASE ChangeSettings
  BY <1>1 DEF ChangeSettings, rows, snapshots, request, Rest, Idly, Still, Heedful
<1>2. CASE Restart
  <2>1. h' \in [Req -> Handler] /\ Heedful
    <3>1. Idle \in Handler /\ Sound(Idle)
      BY IdleIsHandler, LightIsSound DEF Light
    <3>2. h' = [r \in Req |-> Idle]
      BY <1>2 DEF Restart
    <3> HIDE DEF Idle
    <3> QED
      BY <3>1, <3>2 DEF Heedful
  <2>2. pool' \subseteq Nodes \cup SettingPool /\ creds' \in [Nodes -> Nat]
    BY <1>2, PoolOfTypes, WithPendingTypes DEF Restart
  <2>3. raced' \in BOOLEAN /\ cut' \subseteq Nodes /\ unloaded' \subseteq Nodes
    BY <1>2 DEF Restart, Rest
  <2> QED
    BY <1>2, <2>1, <2>2, <2>3 DEF Restart, Rest, rows, world, Idly, Still
<1> QED
  BY <1>1, <1>2

-----------------------------------------------------------------------------
\* A step that changes rows of donations and moves no money: owners and what
\* was earned stay, and nothing becomes approved.
RowKept(d) ==
    /\ Exists(d) => donations'[d].status # "none"
    /\ donations'[d].status # "none" => donations'[d].owner \in Users
    /\ donations'[d].bonus = donations[d].bonus
    /\ donations'[d].earned = donations[d].earned
    /\ donations'[d].days = donations[d].days
    /\ donations'[d].status = "approved" =>
          donations[d].status = "approved" /\ donations'[d].reviewed = donations[d].reviewed

RowStep ==
    /\ Rest' /\ Heedful
    /\ UNCHANGED <<accounts, ledger, decided, today>>
    /\ \A d \in Nodes : RowKept(d)

\* One row is replaced.
LEMMA RowReplaced ==
    ASSUME Rest, RowsOK, NEW d \in Nodes, NEW new \in Donation,
           donations' = [donations EXCEPT ![d] = new],
           Exists(d) => new.status # "none",
           new.status # "none" => new.owner \in Users,
           new.bonus = donations[d].bonus, new.earned = donations[d].earned,
           new.days = donations[d].days,
           new.status = "approved" => /\ donations[d].status = "approved"
                                      /\ new.reviewed = donations[d].reviewed
    PROVE  donations' \in [Nodes -> Donation] /\ \A x \in Nodes : RowKept(x)
<1>1. donations' \in [Nodes -> Donation] /\ donations'[d] = new
      /\ \A x \in Nodes : x # d => donations'[x] = donations[x]
  BY DEF Rest
<1>2. \A x \in Nodes : Exists(x) => donations[x].owner \in Users
  BY DEF RowsOK
<1>3. RowKept(d)
  BY <1>1 DEF RowKept
<1>4. \A x \in Nodes : x # d => RowKept(x)
  BY <1>1, <1>2 DEF RowKept, Exists
<1> QED
  BY <1>1, <1>3, <1>4

LEMMA CreateStep ==
    ASSUME Rest, RowsOK, NEW r \in Req, CreateDonation(r)
    PROVE  RowStep
<1> DEFINE d == h[r].d
           new == [NoDonation EXCEPT !.status = "pending", !.owner = h[r].user,
                                     !.net = h[r].net, !.key = issued + 1]
<1>1. /\ h[r] \in [at : {"counted", "named"}, user : Users, d : Nodes, net : Nets]
  BY HandlersAre, HeldByDonor DEF CreateDonation
<1>2. /\ d \in Nodes /\ h[r].user \in Users /\ h[r].net \in Nets /\ issued + 1 \in Nat
  BY <1>1 DEF Rest
<1>3. UNCHANGED <<accounts, ledger, defs, created, snapshots, world, request>>
  BY DEF CreateDonation
<1>4. h' \in [Req -> Handler] /\ Heedful
  BY IdleHeedful DEF CreateDonation
<1>5. issued' \in Nat
  BY <1>2 DEF CreateDonation, Rest
<1>6. donations' \in [Nodes -> Donation] /\ \A x \in Nodes : RowKept(x)
  <2>1. CASE Exists(d)
    <3>1. donations' = donations
      BY <2>1 DEF CreateDonation
    <3> QED
      BY <3>1 DEF Rest, RowsOK, RowKept, Exists
  <2>2. CASE ~Exists(d)
    <3>1. donations' = [donations EXCEPT ![d] = new]
      BY <2>2 DEF CreateDonation
    <3>2. /\ NoDonation \in Donation
          /\ NoDonation.bonus = 0 /\ NoDonation.earned = 0 /\ NoDonation.days = 0
      BY DEF NoDonation, Donation, Statuses, Nets
    <3>3. new \in Donation
      BY <1>2, <3>2 DEF Donation, Statuses
    <3>4. new.status = "pending" /\ new.owner \in Users /\ new.bonus = 0 /\ new.earned = 0
          /\ new.days = 0
      BY <1>2, <3>2 DEF Donation
    <3>5. donations[d].bonus = 0 /\ donations[d].earned = 0 /\ donations[d].days = 0
      BY <1>2, <2>2 DEF RowsOK
    <3> HIDE DEF new, d
    <3> QED
      BY <1>2, <2>2, <3>1, <3>3, <3>4, <3>5, RowReplaced
  <2> QED
    BY <2>1, <2>2
<1>7. Rest'
  BY <1>3, <1>4, <1>5, <1>6 DEF Rest, snapshots, world, request
<1> QED
  BY <1>3, <1>4, <1>6, <1>7 DEF RowStep, world

LEMMA EditStep ==
    ASSUME Rest, RowsOK, HeldOK, NEW r \in Req, NEW net \in Nets, SaveEdit(r, net)
    PROVE  RowStep
<1> DEFINE d == h[r].d
           row == donations[d]
           new == [row EXCEPT !.status = "pending", !.net = net]
<1>1. d \in Nodes /\ Exists(d)
  BY HandlersAre, HeldByDonor DEF SaveEdit, HeldOK, Sound
<1>2. row \in Donation /\ row.owner \in Users
  BY <1>1 DEF Rest, RowsOK
<1>3. donations' = [donations EXCEPT ![d] = new]
  BY <1>1 DEF SaveEdit, Rest
<1> HIDE DEF row
<1>4. new \in Donation /\ new.status = "pending" /\ new.owner = row.owner /\ new.bonus = row.bonus
      /\ new.earned = row.earned /\ new.days = row.days
  BY <1>2 DEF Donation, Statuses
<1> HIDE DEF new, d
<1>5. donations' \in [Nodes -> Donation] /\ \A x \in Nodes : RowKept(x)
  BY <1>1, <1>2, <1>3, <1>4, RowReplaced DEF row
<1>6. h' \in [Req -> Handler] /\ Heedful
  BY IdleHeedful DEF SaveEdit
<1>7. unloaded' \subseteq Nodes
  BY <1>1 DEF SaveEdit, Rest, d
<1>8. UNCHANGED <<accounts, ledger, defs, issued, created, snapshots, world, started, raced, cut>>
  BY DEF SaveEdit
<1>9. Rest'
  BY <1>5, <1>6, <1>7, <1>8 DEF Rest, snapshots, world
<1> QED
  BY <1>5, <1>6, <1>8, <1>9 DEF RowStep, world

LEMMA RotateStep ==
    ASSUME Rest, RowsOK, HeldOK, NEW r \in Req, RotateDonation(r)
    PROVE  RowStep
<1> DEFINE d == h[r].d
           row == donations[d]
           new == [row EXCEPT !.key = issued + 1]
           s == [at |-> "rotated", d |-> d, key |-> issued + 1]
<1>1. d \in Nodes /\ Exists(d) /\ issued + 1 \in Nat
  BY HandlersAre, HeldByDonor DEF RotateDonation, HeldOK, Sound, Rest
<1>2. row \in Donation /\ row.owner \in Users
  BY <1>1 DEF Rest, RowsOK
<1>3. donations' = [donations EXCEPT ![d] = new]
  BY <1>1 DEF RotateDonation, Rest
<1>4. s \in Handler /\ s.at \in Light
  BY <1>1 DEF Handler, Light
<1>5. Goto(r, s)
  BY DEF RotateDonation
<1> HIDE DEF row
<1>6. new \in Donation /\ new.status = row.status /\ new.owner = row.owner /\ new.bonus = row.bonus
      /\ new.earned = row.earned /\ new.days = row.days /\ new.reviewed = row.reviewed
  BY <1>1, <1>2 DEF Donation
<1> HIDE DEF new, d, s
<1>7. donations' \in [Nodes -> Donation] /\ \A x \in Nodes : RowKept(x)
  BY <1>1, <1>2, <1>3, <1>6, RowReplaced DEF row, Exists
<1>8. h' \in [Req -> Handler] /\ Heedful
  BY <1>4, <1>5, LightIsSound, GotoHeedful
<1>9. UNCHANGED <<accounts, ledger, defs, created, snapshots, world, request>> /\ issued' \in Nat
  BY <1>1 DEF RotateDonation
<1>10. Rest'
  BY <1>7, <1>8, <1>9 DEF Rest, snapshots, world, request
<1> QED
  BY <1>7, <1>8, <1>9, <1>10 DEF RowStep, world

LEMMA OffPoolStep ==
    ASSUME Rest, RowsOK, HeldOK, NEW r \in Req, SetDonationOffPool(r)
    PROVE  RowStep
<1> DEFINE d == h[r].d
           row == donations[d]
           day == IF h[r].day = 0 THEN row.reviewed ELSE h[r].day
           new == [row EXCEPT !.status = h[r].to, !.reviewed = day]
<1>1. d \in Nodes /\ Exists(d) /\ h[r].to \in {"withdrawn", "rejected", "disabled"}
      /\ h[r].day \in Nat
  BY HandlersAre, HeldByReview DEF SetDonationOffPool, HeldOK, Sound
<1>2. row \in Donation /\ row.owner \in Users /\ row.reviewed \in Nat
  BY <1>1 DEF Rest, RowsOK, Donation
<1>3. donations' = [donations EXCEPT ![d] = new]
  BY <1>1 DEF SetDonationOffPool, Rest
<1>4. day \in Nat
  BY <1>1, <1>2
<1> HIDE DEF row, day
<1>5. new \in Donation /\ new.status = h[r].to /\ new.owner = row.owner /\ new.bonus = row.bonus
      /\ new.earned = row.earned /\ new.days = row.days
  BY <1>1, <1>2, <1>4 DEF Donation, Statuses
<1> HIDE DEF new, d
<1>6. donations' \in [Nodes -> Donation] /\ \A x \in Nodes : RowKept(x)
  BY <1>1, <1>2, <1>3, <1>5, RowReplaced DEF row
<1>7. h' \in [Req -> Handler] /\ Heedful
  BY IdleHeedful DEF SetDonationOffPool
<1>8. UNCHANGED <<accounts, ledger, issued, created, snapshots, world, request>>
  BY DEF SetDonationOffPool
<1>9. defs' \in [Nodes -> Def]
  <2>1. NoDef \in Def
    BY DEF NoDef, Def
  <2> QED
    BY <2>1 DEF SetDonationOffPool, Rest
<1>10. Rest'
  BY <1>6, <1>7, <1>8, <1>9 DEF Rest, snapshots, world, request
<1> QED
  BY <1>6, <1>7, <1>8, <1>10 DEF RowStep, world

LEMMA DisableStep ==
    ASSUME Rest, RowsOK, NEW r \in Req, DisableDonation(r)
    PROVE  RowStep
<1> DEFINE d == h[r].d
           row == donations[d]
           status == IF row.status = "approved" THEN "disabled" ELSE row.status
           new == [row EXCEPT !.status = status]
<1>1. donations' = [donations EXCEPT ![d] = new]
  BY DEF DisableDonation, Rest
<1>2. donations' \in [Nodes -> Donation] /\ \A x \in Nodes : RowKept(x)
  <2>1. CASE d \in Nodes
    <3>1. row \in Donation /\ (row.status # "none" => row.owner \in Users)
      BY <2>1 DEF Rest, RowsOK, Exists
    <3>2. status \in Statuses /\ (status = "none" <=> row.status = "none") /\ status # "approved"
      BY <3>1 DEF Donation, Statuses
    <3> HIDE DEF row, status
    <3>3. new \in Donation /\ new.status = status /\ new.owner = row.owner /\ new.bonus = row.bonus
          /\ new.earned = row.earned /\ new.days = row.days
      BY <3>1, <3>2 DEF Donation
    <3> HIDE DEF new, d
    <3> QED
      BY <1>1, <2>1, <3>1, <3>2, <3>3, RowReplaced DEF row, Exists
  <2>2. CASE d \notin Nodes
    <3>1. donations' = donations
      BY <1>1, <2>2 DEF Rest
    <3> QED
      BY <3>1 DEF Rest, RowsOK, RowKept, Exists
  <2> QED
    BY <2>1, <2>2
<1>3. h' \in [Req -> Handler] /\ Heedful
  BY IdleHeedful DEF DisableDonation
<1>4. UNCHANGED <<accounts, ledger, defs, issued, created, snapshots, world, request>>
  BY DEF DisableDonation
<1>5. Rest'
  BY <1>2, <1>3, <1>4 DEF Rest, snapshots, world, request
<1> QED
  BY <1>2, <1>3, <1>4, <1>5 DEF RowStep, world

-----------------------------------------------------------------------------
(* The journal of the rewards. *)

Deltas == [i \in DOMAIN ledger |-> ledger[i].delta]
Total(d, kind) == SumUp(Deltas, EntriesOf(d, kind))

\* Every entry is a bonus under the key of its donation, or the reward of a day
\* that is over and had not begun before the donation was decided on.
DayBooked(e, day) ==
    /\ e.key = <<"donate_day", <<e.ref, day>>>>
    /\ day < today /\ decided[e.ref] \in 1..day

Booked(e) ==
    /\ e.ref \in Nodes
    /\ \/ e.kind = "donate" /\ e.key = <<"donate", e.ref>>
       \/ e.kind = "donate_day" /\ \E day \in Days : DayBooked(e, day)

Written(e) == \E i \in DOMAIN ledger : ledger[i] = e
BooksOK == \A e \in Entry : Written(e) => Booked(e)

\* What the rows of the donations say is the sum of their entries.
SumsOK ==
    \A d \in Nodes : /\ donations[d].bonus = Total(d, "donate")
                     /\ donations[d].earned = Total(d, "donate_day")
                     /\ donations[d].days = Cardinality(EntriesOf(d, "donate_day"))

LEMMA EntriesFinite ==
    ASSUME LedgerTypeOK, NEW d, NEW kind
    PROVE  /\ EntriesOf(d, kind) \subseteq DOMAIN ledger
           /\ IsFiniteSet(EntriesOf(d, kind))
           /\ \A i \in DOMAIN ledger : Deltas[i] \in Int /\ ledger[i] \in Entry
<1>1. Len(ledger) \in Nat /\ DOMAIN ledger = 1..Len(ledger)
  BY DEF LedgerTypeOK
<1>2. IsFiniteSet(DOMAIN ledger)
  BY <1>1, FS_Interval
<1>3. EntriesOf(d, kind) \subseteq DOMAIN ledger
  BY DEF EntriesOf
<1>4. \A i \in DOMAIN ledger : Deltas[i] = ledger[i].delta /\ ledger[i] \in Entry
  BY DEF LedgerTypeOK, Deltas
<1>5. \A e \in Entry : e.delta \in Int
  BY DEF Entry
<1> HIDE DEF Entry
<1> QED
  BY <1>2, <1>3, <1>4, <1>5, FS_Subset

\* A booked operation is one entry more for what it is about.
LEMMA Booking ==
    ASSUME LedgerTypeOK, NEW op \in Op, Apply(op), NEW d, NEW kind
    PROVE  /\ op.kind = kind /\ op.ref = d =>
                 /\ Total(d, kind)' = Total(d, kind) + op.delta
                 /\ Cardinality(EntriesOf(d, kind))' = Cardinality(EntriesOf(d, kind)) + 1
           /\ ~(op.kind = kind /\ op.ref = d) =>
                 /\ Total(d, kind)' = Total(d, kind)
                 /\ EntriesOf(d, kind)' = EntriesOf(d, kind)
<1> DEFINE new == Len(ledger) + 1
           D == DOMAIN ledger
           E == EntriesOf(d, kind)
           F == {i \in DOMAIN ledger' : ledger'[i].kind = kind /\ ledger'[i].ref = d}
           f == Deltas
           g == [i \in DOMAIN ledger' |-> ledger'[i].delta]
<1>1. /\ DOMAIN ledger' = D \cup {new} /\ new \notin D
      /\ \A i \in D : ledger'[i] = ledger[i]
      /\ ledger'[new].delta = op.delta /\ ledger'[new].kind = op.kind /\ ledger'[new].ref = op.ref
  BY AppendEffect
<1>2. E \subseteq D /\ IsFiniteSet(E) /\ \A i \in D : f[i] \in Int
  BY EntriesFinite
<1>3. E = {i \in D : ledger[i].kind = kind /\ ledger[i].ref = d}
  BY DEF EntriesOf
<1>4. Total(d, kind) = SumUp(f, E) /\ Total(d, kind)' = SumUp(g, F) /\ EntriesOf(d, kind)' = F
  BY DEF Total, EntriesOf, Deltas
<1>5. op.delta \in Int
  BY DEF Op
<1>6. (\A i \in D : g[i] = f[i] /\ g[i] \in Int) /\ g[new] = op.delta
  <2>1. \A i \in D : g[i] = ledger'[i].delta /\ f[i] = ledger[i].delta
    BY <1>1 DEF Deltas
  <2>2. g[new] = ledger'[new].delta
    BY <1>1
  <2> HIDE DEF g, f, new
  <2> QED
    BY <1>1, <1>2, <2>1, <2>2
<1>7. CASE op.kind = kind /\ op.ref = d
  <2>1. F = E \cup {new} /\ new \notin E
    <3> HIDE DEF new, D, E
    <3> QED
      BY <1>1, <1>2, <1>3, <1>7
  <2> HIDE DEF new, D, E, F, f, g
  <2>2. SumUp(g, E) = SumUp(f, E)
    BY <1>2, <1>6, SumUpSame
  <2>3. SumUp(g, E \cup {new}) = SumUp(g, E) + g[new]
    <3>1. \A i \in E \cup {new} : g[i] \in Int
      BY <1>2, <1>5, <1>6
    <3> QED
      BY <1>2, <2>1, <3>1, SumUpAdds
  <2>4. Cardinality(F) = Cardinality(E) + 1
    BY <1>2, <2>1, FS_AddElement
  <2> QED
    BY <1>4, <1>6, <1>7, <2>1, <2>2, <2>3, <2>4 DEF E
<1>8. CASE ~(op.kind = kind /\ op.ref = d)
  <2>1. F = E
    <3> HIDE DEF new, D, E
    <3> QED
      BY <1>1, <1>2, <1>3, <1>8
  <2> HIDE DEF new, D, E, F, f, g
  <2>2. SumUp(g, E) = SumUp(f, E)
    BY <1>2, <1>6, SumUpSame
  <2> QED
    BY <1>4, <1>8, <2>1, <2>2 DEF E
<1> QED
  BY <1>7, <1>8

LEMMA BooksStay ==
    ASSUME Rest, Rest', Onward, NEW e, Booked(e)
    PROVE  Booked(e)'
<1>1. today \in Nat /\ today' \in Nat
  BY DEF Rest, Days
<1>2. \A day \in Days : DayBooked(e, day) => DayBooked(e, day)'
  <2> SUFFICES ASSUME NEW day \in Days, DayBooked(e, day) PROVE DayBooked(e, day)'
    OBVIOUS
  <2>1. day \in Nat /\ e.ref \in Nodes
    BY DEF Booked, Days
  <2>2. decided[e.ref] # 0 /\ decided[e.ref] \in 1..day /\ day < today
    BY <2>1 DEF DayBooked
  <2>3. decided'[e.ref] \in 1..decided[e.ref]
    BY <2>1, <2>2 DEF Onward
  <2>4. decided'[e.ref] \in 1..day /\ day < today'
    BY <1>1, <2>1, <2>2, <2>3 DEF Onward
  <2> QED
    BY <2>4 DEF DayBooked
<1> QED
  BY <1>2 DEF Booked

\* Where no money moves, journal and rows keep going together.
LEMMA MoneyStays ==
    ASSUME Rest, Rest', Onward, BooksOK, SumsOK, UNCHANGED ledger,
           \A d \in Nodes : /\ donations'[d].bonus = donations[d].bonus
                            /\ donations'[d].earned = donations[d].earned
                            /\ donations'[d].days = donations[d].days
    PROVE  BooksOK' /\ SumsOK'
<1>1. BooksOK'
  <2>1. \A e : Booked(e) => Booked(e)'
    BY BooksStay
  <2>2. \A e : Written(e)' => Written(e)
    BY DEF Written
  <2> QED
    BY <2>1, <2>2 DEF BooksOK
<1>2. \A d, kind : EntriesOf(d, kind)' = EntriesOf(d, kind)
  BY DEF EntriesOf
<1>3. Deltas' = Deltas
  BY DEF Deltas
<1>4. \A d, kind : Total(d, kind)' = Total(d, kind)
  BY <1>2, <1>3 DEF Total
<1>5. SumsOK'
  BY <1>2, <1>4 DEF SumsOK
<1> QED
  BY <1>1, <1>5

LEMMA BooksGrow ==
    ASSUME LedgerTypeOK, Rest, Rest', Onward, BooksOK, NEW op \in Op, Apply(op),
           \A e \in Entry : e.kind = op.kind /\ e.ref = op.ref /\ e.key = op.key => Booked(e)'
    PROVE  BooksOK'
<1> DEFINE new == Len(ledger) + 1
<1>1. /\ DOMAIN ledger' = DOMAIN ledger \cup {new}
      /\ \A i \in DOMAIN ledger : ledger'[i] = ledger[i]
      /\ ledger'[new].kind = op.kind /\ ledger'[new].ref = op.ref /\ ledger'[new].key = op.key
  BY AppendEffect
<1>2. \A e : Booked(e) => Booked(e)'
  BY BooksStay
<1> HIDE DEF new
<1>3. \A e : Written(e)' =>
         Written(e) \/ (e.kind = op.kind /\ e.ref = op.ref /\ e.key = op.key)
  BY <1>1 DEF Written
<1> QED
  BY <1>2, <1>3 DEF BooksOK

\* A bonus that is booked was not before, so it is the only one.
LEMMA FirstBonus ==
    ASSUME LedgerTypeOK, BooksOK, NEW d \in Nodes, ~KeyUsed(<<"donate", d>>)
    PROVE  Total(d, "donate") = 0
<1>1. EntriesOf(d, "donate") = {}
  <2> SUFFICES ASSUME NEW i \in DOMAIN ledger, ledger[i].kind = "donate", ledger[i].ref = d
               PROVE  FALSE
    BY DEF EntriesOf
  <2>1. ledger[i] \in Entry /\ Written(ledger[i])
    BY EntriesFinite DEF Written
  <2>2. ledger[i].key = <<"donate", d>>
    BY <2>1 DEF BooksOK, Booked
  <2> QED
    BY <2>2 DEF KeyUsed
<1> QED
  BY <1>1, SumUpNothing DEF Total

-----------------------------------------------------------------------------
\* What an approval does: it is refused and changes nothing, or the row is
\* approved as of the day the handler read, with the bonus booked or not.
ApprovedBy(r) ==
    LET d == h[r].d
    IN  /\ d \in Nodes /\ Exists(d) /\ h[r].day \in Days /\ h[r].day <= today
        /\ h[r].bonus \in Nat /\ h[r].row.owner \in Users
        /\ today' = today
        /\ \A x \in Nodes : x # d => donations'[x] = donations[x] /\ decided'[x] = decided[x]
        /\ donations'[d].status = "approved" /\ donations'[d].reviewed = h[r].day
        /\ donations'[d].owner = donations[d].owner
        /\ donations'[d].earned = donations[d].earned /\ donations'[d].days = donations[d].days
        /\ decided'[d] \in 1..h[r].day
        /\ decided[d] # 0 => decided'[d] <= decided[d]
        /\ \/ UNCHANGED ledgerVars /\ donations'[d].bonus = donations[d].bonus
           \/ h[r].bonus > 0 /\ Apply(BonusOp(r)) /\ donations'[d].bonus = h[r].bonus

LEMMA SavedDefTypes ==
    ASSUME Rest, NEW r \in Req, h[r].at = "approve"
    PROVE  SavedDef(r) \in [Nodes -> Def]
<1>1. h[r].d \in Nodes /\ h[r].row.key \in Nat /\ created + 1 \in Nat
  BY HandlersAre, HeldByReview DEF Rest, Donation
<1>2. \A n \in Nodes : defs[n].id \in Nat
  BY DEF Rest, Def
<1> DEFINE new == [id |-> IF defs[h[r].d].id = 0 THEN created + 1 ELSE defs[h[r].d].id,
                   donation |-> h[r].d, key |-> h[r].row.key, on |-> TRUE]
<1>3. new \in Def
  BY <1>1, <1>2 DEF Def
<1>4. SavedDef(r) = [defs EXCEPT ![h[r].d] = new]
  BY DEF SavedDef, Rest
<1> HIDE DEF new
<1> QED
  BY <1>3, <1>4 DEF Rest

LEMMA ApproveStep ==
    ASSUME Rest, RowsOK, HeldOK, NEW r \in Req, ApproveDonation(r)
    PROVE  Idly \/ (Rest' /\ Heedful /\ ApprovedBy(r))
<1> DEFINE d == h[r].d
           row == donations[d]
<1>1. /\ d \in Nodes /\ h[r].row \in Donation /\ h[r].bonus \in Nat /\ h[r].day \in Days
      /\ Exists(d) /\ h[r].row.owner \in Users /\ h[r].day <= today /\ h[r].day \in Nat
  BY HandlersAre, HeldByReview DEF ApproveDonation, HeldOK, Sound, Days
<1>2. UNCHANGED <<snapshots, today, conf, request>> /\ h[r].at = "approve"
  BY DEF ApproveDonation
<1>3. h' \in [Req -> Handler] /\ Heedful
  BY IdleHeedful DEF ApproveDonation
<1>4. CASE UNCHANGED <<rows, decided, twice>>
  <2>1. Rest'
    BY <1>2, <1>3, <1>4 DEF Rest, rows, snapshots, request
  <2> QED
    BY <1>2, <1>3, <1>4, <2>1 DEF Idly, Still, rows
<1>5. ASSUME NEW paid \in BOOLEAN, PayBonus(r, paid), donations' = Approved(r, paid),
             defs' = SavedDef(r), UNCHANGED issued,
             created' = IF defs[d].id = 0 THEN created + 1 ELSE created,
             twice' = IF defs[d].id = 0 /\ DefsOf(d) # {} THEN twice \cup {d} ELSE twice,
             decided' = [decided EXCEPT ![d] = IF @ = 0 \/ h[r].day < @ THEN h[r].day ELSE @]
      PROVE  Rest' /\ Heedful /\ ApprovedBy(r)
  <2> DEFINE bonus == IF paid THEN h[r].bonus ELSE row.bonus
             new == [row EXCEPT !.status = "approved", !.reviewed = h[r].day, !.bonus = bonus]
             day == IF decided[d] = 0 \/ h[r].day < decided[d] THEN h[r].day ELSE decided[d]
  <2>1. donations' = [donations EXCEPT ![d] = new]
    BY <1>1, <1>5 DEF Approved, Rest
  <2>2. row \in Donation /\ row.bonus \in Nat
    BY <1>1 DEF Rest, Donation
  <2>3. bonus \in Nat
    BY <1>1, <2>2
  <2>4. decided' = [decided EXCEPT ![d] = day] /\ decided[d] \in Nat
    BY <1>1, <1>5 DEF Rest
  <2>5. day \in 1..h[r].day /\ (decided[d] # 0 => day <= decided[d])
    BY <1>1, <2>4 DEF Days
  <2> HIDE DEF row, bonus, day
  <2>6. /\ new \in Donation /\ new.status = "approved" /\ new.reviewed = h[r].day
        /\ new.owner = row.owner /\ new.earned = row.earned /\ new.days = row.days
        /\ new.bonus = bonus
    BY <1>1, <2>2, <2>3 DEF Donation, Statuses
  <2> HIDE DEF new
  <2>7. donations' \in [Nodes -> Donation] /\ donations'[d] = new
        /\ \A x \in Nodes : x # d => donations'[x] = donations[x]
    BY <1>1, <2>1, <2>6 DEF Rest
  <2>8. decided' \in [Nodes -> Nat] /\ decided'[d] = day
        /\ \A x \in Nodes : x # d => decided'[x] = decided[x]
    BY <1>1, <2>4, <2>5 DEF Rest
  <2>9. defs' \in [Nodes -> Def]
    BY <1>2, <1>5, SavedDefTypes
  <2>10. created' \in Nat /\ issued' \in Nat /\ twice' \subseteq Nodes
    BY <1>1, <1>5 DEF Rest
  <2>11. Rest'
    BY <1>2, <1>3, <2>7, <2>8, <2>9, <2>10 DEF Rest, snapshots, request
  <2>12. \/ UNCHANGED ledgerVars /\ donations'[d].bonus = donations[d].bonus
         \/ h[r].bonus > 0 /\ Apply(BonusOp(r)) /\ donations'[d].bonus = h[r].bonus
    <3>1. CASE paid
      BY <1>5, <2>6, <2>7, <3>1 DEF PayBonus, bonus
    <3>2. CASE ~paid
      BY <1>5, <2>6, <2>7, <3>2 DEF PayBonus, bonus, row
    <3> QED
      BY <3>1, <3>2
  <2> QED
    BY <1>1, <1>2, <1>3, <2>5, <2>6, <2>7, <2>8, <2>11, <2>12 DEF ApprovedBy, row
<1> QED
  BY <1>4, <1>5 DEF ApproveDonation

LEMMA BonusOpIsOp ==
    ASSUME NEW r \in Req, h[r].d \in Nodes, h[r].bonus \in Nat, h[r].row.owner \in Users
    PROVE  BonusOp(r) \in Op /\ BonusOp(r).key # None
<1>1. h[r].d \in Refs
  BY DonationsAssumption
<1>2. <<"donate", h[r].d>> \in Keys
  BY <1>1 DEF Keys, Kinds
<1> QED
  BY <1>1, <1>2, CoreAssumption DEF BonusOp, Op, Kinds

Money == RowsOK /\ BooksOK /\ SumsOK

LEMMA ApproveMoney ==
    ASSUME LedgerTypeOK, Rest, Rest', Money, NEW r \in Req, ApprovedBy(r)
    PROVE  LedgerStep /\ Onward /\ Money'
<1> DEFINE day == h[r].day
<1> SUFFICES ASSUME NEW d \in Nodes, d = h[r].d
             PROVE  LedgerStep /\ Onward /\ Money'
  BY DEF ApprovedBy
<1>1. /\ d \in Nodes /\ Exists(d) /\ day \in Nat /\ day <= today /\ today' = today /\ today \in Nat
      /\ h[r].bonus \in Nat /\ h[r].row.owner \in Users
      /\ \A x \in Nodes : decided[x] \in Nat /\ decided'[x] \in Nat
  BY DEF ApprovedBy, Days, Rest
<1>2. /\ \A x \in Nodes : x # d => donations'[x] = donations[x] /\ decided'[x] = decided[x]
      /\ donations'[d].status = "approved" /\ donations'[d].reviewed = day
      /\ donations'[d].owner = donations[d].owner
      /\ donations'[d].earned = donations[d].earned /\ donations'[d].days = donations[d].days
      /\ decided'[d] \in 1..day /\ (decided[d] # 0 => decided'[d] <= decided[d])
      /\ \/ UNCHANGED ledgerVars /\ donations'[d].bonus = donations[d].bonus
         \/ h[r].bonus > 0 /\ Apply(BonusOp(r)) /\ donations'[d].bonus = h[r].bonus
  BY DEF ApprovedBy
<1> HIDE DEF day
<1>3. Onward
  BY <1>1, <1>2 DEF Onward, Exists
<1>4. RowsOK'
  <2>1. ASSUME NEW x \in Nodes, x # d
        PROVE  /\ donations'[x].status # "none" => donations'[x].owner \in Users
               /\ ~ (donations'[x].status # "none") =>
                     /\ donations'[x].bonus = 0 /\ donations'[x].earned = 0
                     /\ donations'[x].days = 0
               /\ donations'[x].status = "approved" => decided'[x] \in 1..donations'[x].reviewed
               /\ decided'[x] <= today'
    BY <1>1, <1>2, <2>1 DEF Money, RowsOK, Exists
  <2>2. /\ donations'[d].owner \in Users /\ decided'[d] \in 1..donations'[d].reviewed
        /\ decided'[d] <= today'
    BY <1>1, <1>2 DEF Money, RowsOK
  <2> QED
    BY <1>1, <1>2, <2>1, <2>2 DEF RowsOK, Exists
<1>5. CASE UNCHANGED ledgerVars /\ donations'[d].bonus = donations[d].bonus
  <2>1. \A x \in Nodes : /\ donations'[x].bonus = donations[x].bonus
                         /\ donations'[x].earned = donations[x].earned
                         /\ donations'[x].days = donations[x].days
    BY <1>2, <1>5
  <2>2. BooksOK' /\ SumsOK'
    BY <1>3, <1>5, <2>1, MoneyStays DEF Money, ledgerVars
  <2> QED
    BY <1>3, <1>4, <1>5, <2>2 DEF Money, LedgerStep
<1>6. CASE h[r].bonus > 0 /\ Apply(BonusOp(r)) /\ donations'[d].bonus = h[r].bonus
  <2> DEFINE op == BonusOp(r)
  <2>1. op \in Op /\ op.key # None
    BY <1>1, BonusOpIsOp
  <2>2. op.delta = h[r].bonus /\ op.kind = "donate" /\ op.ref = d /\ op.key = <<"donate", d>>
    BY DEF BonusOp
  <2>3. Apply(op)
    BY <1>6
  <2> HIDE DEF op
  <2>4. Total(d, "donate") = 0
    <3>1. ~KeyUsed(<<"donate", d>>)
      BY <2>1, <2>2, <2>3 DEF Apply, Outcome
    <3> QED
      BY <1>1, <3>1, FirstBonus DEF Money
  <2>5. BooksOK'
    <3>1. \A e \in Entry : e.kind = op.kind /\ e.ref = op.ref /\ e.key = op.key => Booked(e)'
      BY <1>1, <2>2 DEF Booked
    <3> QED
      BY <1>3, <2>1, <2>3, <3>1, BooksGrow DEF Money
  <2>6. SumsOK'
    <3>1. ASSUME NEW x \in Nodes
          PROVE  /\ Total(x, "donate_day")' = Total(x, "donate_day")
                 /\ EntriesOf(x, "donate_day")' = EntriesOf(x, "donate_day")
                 /\ x # d => Total(x, "donate")' = Total(x, "donate")
      <4>1. ~(op.kind = "donate_day" /\ op.ref = x)
        BY <2>2
      <4>2. x # d => ~(op.kind = "donate" /\ op.ref = x)
        BY <2>2
      <4> QED
        BY <2>1, <2>3, <4>1, <4>2, Booking
    <3>2. Total(d, "donate")' = 0 + h[r].bonus
      BY <2>1, <2>2, <2>3, <2>4, Booking
    <3>3. \A x \in Nodes : /\ donations[x].bonus = Total(x, "donate")
                           /\ donations[x].earned = Total(x, "donate_day")
                           /\ donations[x].days = Cardinality(EntriesOf(x, "donate_day"))
      BY DEF Money, SumsOK
    <3>4. ASSUME NEW x \in Nodes
          PROVE  /\ donations'[x].bonus = Total(x, "donate")'
                 /\ donations'[x].earned = Total(x, "donate_day")'
                 /\ donations'[x].days = Cardinality(EntriesOf(x, "donate_day"))'
      BY <1>1, <1>2, <1>6, <3>1, <3>2, <3>3
    <3> QED
      BY <3>4 DEF SumsOK
  <2>7. LedgerStep
    BY <2>1, <2>3 DEF LedgerStep
  <2> QED
    BY <1>3, <1>4, <2>5, <2>6, <2>7 DEF Money
<1> QED
  BY <1>2, <1>5, <1>6

-----------------------------------------------------------------------------
\* A step of the settlement pays one donation of its list its day, or nothing.
LEMMA SettleTypes ==
    ASSUME Rest, HeldOK, NEW r \in Req, NEW d \in Nodes, SettleDonation(r, d)
    PROVE  /\ h' \in [Req -> Handler] /\ Heedful
           /\ Exists(d) /\ h[r].day \in Days /\ h[r].day < today /\ decided[d] \in 1..h[r].day
           /\ h[r].pay[d] \in Nat
<1> DEFINE s == [h[r] EXCEPT !.todo = @ \ {d}]
<1>1. h[r] \in [at : {"settle"}, todo : SUBSET Nodes, pay : [Nodes -> Nat], day : Days]
  BY HandlersAre, HeldByReview DEF SettleDonation
<1>2. Sound(h[r]) /\ h[r].at = "settle" /\ d \in h[r].todo
  BY DEF HeldOK, SettleDonation
<1>3. /\ s \in [at : {"settle"}, todo : SUBSET Nodes, pay : [Nodes -> Nat], day : Days]
      /\ s.at = "settle" /\ s.todo \subseteq h[r].todo /\ s.day = h[r].day
  BY <1>1
<1>4. Goto(r, s)
  BY DEF SettleDonation
<1> HIDE DEF s
<1>5. s \in Handler
  BY <1>3 DEF Handler
<1>6. Sound(s)
  BY <1>2, <1>3 DEF Sound
<1>7. h' \in [Req -> Handler] /\ Heedful
  BY <1>4, <1>5, <1>6, GotoHeedful
<1>8. Exists(d) /\ h[r].day < today /\ decided[d] \in 1..h[r].day
  BY <1>2 DEF Sound
<1> QED
  BY <1>1, <1>7, <1>8

LEMMA DayOpIsOp ==
    ASSUME NEW r \in Req, NEW d \in Nodes, donations[d].owner \in Users, h[r].pay[d] \in Nat,
           h[r].day \in Days
    PROVE  DayOp(r, d) \in Op
<1>1. d \in Refs /\ <<d, h[r].day>> \in Refs
  BY DonationsAssumption
<1>2. <<"donate_day", <<d, h[r].day>>>> \in Keys
  BY <1>1 DEF Keys, Kinds
<1> QED
  BY <1>1, <1>2 DEF DayOp, Op, Kinds

LEMMA SettleMoney ==
    ASSUME LedgerTypeOK, Rest, HeldOK, Money, NEW r \in Req, NEW d \in Nodes,
           SettleDonation(r, d)
    PROVE  LedgerStep /\ Onward /\ Rest' /\ Heedful /\ Money'
<1>1. /\ h' \in [Req -> Handler] /\ Heedful
      /\ Exists(d) /\ h[r].day \in Days /\ h[r].day < today /\ decided[d] \in 1..h[r].day
      /\ h[r].pay[d] \in Nat
  BY SettleTypes
<1>2. UNCHANGED <<snapshots, world, request>>
  BY DEF SettleDonation
<1>3. CASE UNCHANGED rows
  <2>1. Rest'
    BY <1>1, <1>2, <1>3 DEF Rest, rows, snapshots, world, request
  <2>2. Onward
    BY <1>2, <1>3, StillIsOnward DEF Still, rows, world
  <2>3. BooksOK' /\ SumsOK'
    BY <1>3, <2>1, <2>2, MoneyStays DEF Money, rows
  <2>4. RowsOK'
    BY <1>2, <1>3 DEF Money, RowsOK, Exists, rows, world
  <2>5. LedgerStep
    BY <1>3 DEF LedgerStep, ledgerVars, rows
  <2> QED
    BY <1>1, <2>1, <2>2, <2>3, <2>4, <2>5 DEF Money
<1>4. CASE /\ h[r].pay[d] > 0 /\ Apply(DayOp(r, d))
           /\ donations' = [donations EXCEPT ![d].earned = @ + h[r].pay[d], ![d].days = @ + 1]
           /\ UNCHANGED <<defs, issued, created>>
  <2> DEFINE row == donations[d]
             pay == h[r].pay[d]
             day == h[r].day
             earned == row.earned + pay
             days == row.days + 1
             new == [row EXCEPT !.earned = earned, !.days = days]
             op == DayOp(r, d)
  <2>1. donations' = [donations EXCEPT ![d] = new]
    BY <1>4 DEF Rest
  <2>2. row \in Donation /\ row.owner \in Users /\ row.status # "none" /\ pay \in Nat
        /\ earned \in Nat /\ days \in Nat
    BY <1>1 DEF Rest, Donation, Money, RowsOK, Exists
  <2>3. /\ op \in Op /\ op.delta = pay /\ op.kind = "donate_day" /\ op.ref = d
        /\ op.key = <<"donate_day", <<d, day>>>> /\ Apply(op)
    BY <1>1, <1>4, <2>2, DayOpIsOp DEF DayOp
  <2> HIDE DEF row, earned, days, op
  <2>4. /\ new \in Donation /\ new.owner = row.owner /\ new.status = row.status
        /\ new.bonus = row.bonus /\ new.reviewed = row.reviewed
        /\ new.earned = earned /\ new.days = days
    BY <2>2 DEF Donation
  <2> HIDE DEF new
  <2>5. donations' \in [Nodes -> Donation] /\ donations'[d] = new
        /\ \A x \in Nodes : x # d => donations'[x] = donations[x]
    BY <2>1, <2>4 DEF Rest
  <2>6. Rest'
    BY <1>1, <1>2, <1>4, <2>5 DEF Rest, snapshots, world, request
  <2>7. Onward
    <3>1. today \in Nat /\ \A x \in Nodes : decided[x] \in Nat
      BY DEF Rest, Days
    <3>2. today' = today /\ decided' = decided
      BY <1>2 DEF world
    <3> QED
      BY <2>2, <2>4, <2>5, <3>1, <3>2 DEF Onward, Exists, row
  <2>8. RowsOK'
    <3>1. today' = today /\ decided' = decided
      BY <1>2 DEF world
    <3>2. ASSUME NEW x \in Nodes
          PROVE  /\ donations'[x].status # "none" => donations'[x].owner \in Users
                 /\ ~ (donations'[x].status # "none") =>
                       /\ donations'[x].bonus = 0 /\ donations'[x].earned = 0
                       /\ donations'[x].days = 0
                 /\ donations'[x].status = "approved" => decided'[x] \in 1..donations'[x].reviewed
                 /\ decided'[x] <= today'
      BY <2>2, <2>4, <2>5, <3>1 DEF Money, RowsOK, Exists, row
    <3> QED
      BY <3>2 DEF RowsOK, Exists
  <2>9. BooksOK'
    <3>1. today' = today /\ decided' = decided
      BY <1>2 DEF world
    <3>2. \A e \in Entry : e.kind = op.kind /\ e.ref = op.ref /\ e.key = op.key => Booked(e)'
      BY <1>1, <2>3, <3>1 DEF Booked, DayBooked
    <3> QED
      BY <2>3, <2>6, <2>7, <3>2, BooksGrow DEF Money
  <2>10. SumsOK'
    <3>1. ASSUME NEW x \in Nodes
          PROVE  /\ Total(x, "donate")' = Total(x, "donate")
                 /\ x # d => /\ Total(x, "donate_day")' = Total(x, "donate_day")
                             /\ EntriesOf(x, "donate_day")' = EntriesOf(x, "donate_day")
      <4>1. ~(op.kind = "donate" /\ op.ref = x)
        BY <2>3
      <4>2. x # d => ~(op.kind = "donate_day" /\ op.ref = x)
        BY <2>3
      <4> QED
        BY <2>3, <4>1, <4>2, Booking
    <3>2. /\ Total(d, "donate_day")' = Total(d, "donate_day") + pay
          /\ Cardinality(EntriesOf(d, "donate_day"))' = Cardinality(EntriesOf(d, "donate_day")) + 1
      BY <2>3, Booking
    <3>3. \A x \in Nodes : /\ donations[x].bonus = Total(x, "donate")
                           /\ donations[x].earned = Total(x, "donate_day")
                           /\ donations[x].days = Cardinality(EntriesOf(x, "donate_day"))
      BY DEF Money, SumsOK
    <3>4. ASSUME NEW x \in Nodes
          PROVE  /\ donations'[x].bonus = Total(x, "donate")'
                 /\ donations'[x].earned = Total(x, "donate_day")'
                 /\ donations'[x].days = Cardinality(EntriesOf(x, "donate_day"))'
      BY <2>4, <2>5, <3>1, <3>2, <3>3 DEF row, earned, days
    <3> QED
      BY <3>4 DEF SumsOK
  <2>11. LedgerStep
    BY <2>3 DEF LedgerStep
  <2> QED
    BY <1>1, <2>6, <2>7, <2>8, <2>9, <2>10, <2>11 DEF Money
<1> QED
  BY <1>3, <1>4 DEF SettleDonation

-----------------------------------------------------------------------------
IInv == LedgerInv /\ Rest /\ HeldOK /\ Money

\* What a step does to what the invariants are about.
Onwards == LedgerStep /\ Onward /\ Rest' /\ Heedful /\ Money'

LEMMA IdlyOnwards ==
    ASSUME LedgerTypeOK, Rest, Money, Idly
    PROVE  Onwards
<1>1. Rest' /\ Heedful /\ UNCHANGED <<accounts, ledger, donations, decided, today>>
  BY DEF Idly, Still
<1>2. Onward
  BY <1>1, StillIsOnward DEF Still
<1>3. BooksOK' /\ SumsOK'
  BY <1>1, <1>2, MoneyStays DEF Money
<1>4. RowsOK'
  BY <1>1 DEF Money, RowsOK, Exists
<1>5. LedgerStep
  BY <1>1 DEF LedgerStep, ledgerVars
<1> QED
  BY <1>1, <1>2, <1>3, <1>4, <1>5 DEF Onwards, Money

LEMMA RowOnwards ==
    ASSUME LedgerTypeOK, Rest, Money, RowStep
    PROVE  Onwards
<1>1. /\ Rest' /\ Heedful /\ UNCHANGED <<accounts, ledger, decided, today>>
      /\ \A d \in Nodes : RowKept(d)
  BY DEF RowStep
<1>2. today \in Nat /\ \A d \in Nodes : decided[d] \in Nat
  BY DEF Rest, Days
<1>3. Onward
  BY <1>1, <1>2 DEF Onward, RowKept
<1>4. BooksOK' /\ SumsOK'
  BY <1>1, <1>3, MoneyStays DEF Money, RowKept
<1>5. RowsOK'
  <2>1. ASSUME NEW d \in Nodes
        PROVE  /\ donations'[d].status # "none" => donations'[d].owner \in Users
               /\ ~ (donations'[d].status # "none") =>
                     /\ donations'[d].bonus = 0 /\ donations'[d].earned = 0
                     /\ donations'[d].days = 0
               /\ donations'[d].status = "approved" => decided'[d] \in 1..donations'[d].reviewed
               /\ decided'[d] <= today'
    BY <1>1 DEF RowKept, Money, RowsOK, Exists
  <2> QED
    BY <2>1 DEF RowsOK, Exists
<1>6. LedgerStep
  BY <1>1 DEF LedgerStep, ledgerVars
<1> QED
  BY <1>1, <1>3, <1>4, <1>5, <1>6 DEF Onwards, Money

LEMMA MidnightOnwards ==
    ASSUME LedgerTypeOK, Rest, Money, Midnight
    PROVE  Onwards
<1>1. /\ UNCHANGED <<rows, snapshots, conf, h, request, decided, twice>>
      /\ today' = today + 1 /\ today < MaxDay
  BY DEF Midnight
<1>2. today \in Nat /\ today' \in Days /\ \A d \in Nodes : decided[d] \in Nat
  BY <1>1, DonationsAssumption DEF Rest, Days
<1>3. Rest'
  BY <1>1, <1>2 DEF Rest, rows, snapshots, request
<1>4. Onward
  BY <1>1, <1>2 DEF Onward, Exists, rows
<1>5. BooksOK' /\ SumsOK'
  BY <1>1, <1>3, <1>4, MoneyStays DEF Money, rows
<1>6. RowsOK'
  BY <1>1, <1>2 DEF Money, RowsOK, Exists, rows
<1>7. LedgerStep /\ Heedful
  BY <1>1 DEF LedgerStep, ledgerVars, Heedful, rows
<1> QED
  BY <1>3, <1>4, <1>5, <1>6, <1>7 DEF Onwards, Money

LEMMA NextOnwards ==
    ASSUME IInv, Next
    PROVE  Onwards
<1> USE DEF IInv
<1>0. LedgerTypeOK /\ RowsOK
  BY DEF LedgerInv, Money
<1>1. ASSUME NEW r \in Req, NEW d \in Nodes, DonorRequest(r, d) PROVE Onwards
  BY <1>0, <1>1, LightStarts, DonationStarts, IdlyOnwards DEF DonorRequest
<1>2. ASSUME NEW r \in Req, NEW d \in Nodes, AdminRequest(r, d) PROVE Onwards
  BY <1>0, <1>2, LightStarts, DonationStarts, ApproveStarts, CreateDefTypes, IdlyOnwards
     DEF AdminRequest
<1>3. ASSUME NEW r \in Req, NEW day \in Days, StartSettle(r, day) PROVE Onwards
  BY <1>0, <1>3, SettleStarts, IdlyOnwards
<1>4. ASSUME NEW r \in Req, HandlerStep(r) PROVE Onwards
  <2>1. CASE LookUpNodeId(r) \/ SettleDone(r)
    BY <1>0, <2>1, EndsIdly, IdlyOnwards
  <2>2. CASE RotateDefs(r) \/ DeleteDef(r)
            \/ \E n \in Nodes, on \in BOOLEAN, key \in SentKeys : UpdateDef(r, n, on, key)
    BY <1>0, <2>2, DefSteps, IdlyOnwards
  <2>3. CASE ReloadDefs(r) \/ ReloadPending(r) \/ SwapPools(r) \/ SwapCreds(r)
    BY <1>0, <2>3, ReloadSteps, IdlyOnwards
  <2>4. CASE CreateDonation(r) \/ RotateDonation(r) \/ SetDonationOffPool(r) \/ DisableDonation(r)
    BY <1>0, <2>4, CreateStep, RotateStep, OffPoolStep, DisableStep, RowOnwards
  <2>5. ASSUME NEW net \in Nets, SaveEdit(r, net) PROVE Onwards
    BY <1>0, <2>5, EditStep, RowOnwards
  <2>6. CASE ApproveDonation(r)
    <3>1. CASE Idly
      BY <1>0, <3>1, IdlyOnwards
    <3>2. CASE Rest' /\ Heedful /\ ApprovedBy(r)
      BY <1>0, <3>2, ApproveMoney DEF Onwards
    <3> QED
      BY <1>0, <2>6, <3>1, <3>2, ApproveStep
  <2>7. ASSUME NEW d \in Nodes, SettleDonation(r, d) PROVE Onwards
    BY <1>0, <2>7, SettleMoney DEF Onwards
  <2> QED
    BY <1>4, <2>1, <2>2, <2>3, <2>4, <2>5, <2>6, <2>7 DEF HandlerStep
<1>5. CASE ChangeSettings \/ Restart
  BY <1>0, <1>5, WorldSteps, IdlyOnwards
<1>6. CASE Midnight
  BY <1>0, <1>6, MidnightOnwards
<1> QED
  BY <1>1, <1>2, <1>3, <1>4, <1>5, <1>6 DEF Next

LEMMA HeldStays ==
    ASSUME Rest, Rest', Onward, Heedful, HeldOK
    PROVE  HeldOK'
<1>1. \A s \in Handler : Sound(s) => Sound(s)'
  BY SoundStays
<1>2. \A q \in Req : h'[q] \in Handler /\ Sound(h'[q])
  BY DEF Heedful, HeldOK, Rest
<1> QED
  BY <1>1, <1>2 DEF HeldOK

-----------------------------------------------------------------------------
\* The sum of the runs (MapThenSumSet) is the sum of the lemmas.
LEMMA PaidIsTotal ==
    ASSUME LedgerTypeOK, NEW d, NEW kind
    PROVE  Paid(d, kind) = Total(d, kind)
<1> DEFINE E == EntriesOf(d, kind)
           Adds(i) == i = [s \in SUBSET E |->
                              IF s = {} THEN 0
                              ELSE ledger[CHOOSE x \in s : TRUE].delta
                                     + i[s \ {CHOOSE x \in s : TRUE}]]
           k == CHOOSE i : Adds(i)
           j == CHOOSE i : AddsUp(i, Deltas, E)
<1>1. Paid(d, kind) = k[E]
  BY Zenon DEF Paid, FSE!MapThenSumSet, FSE!MapThenFoldSet
<1>2. E \subseteq DOMAIN ledger /\ IsFiniteSet(E)
  BY EntriesFinite
<1>3. \A x \in E : Deltas[x] = ledger[x].delta
  BY <1>2 DEF Deltas
<1> HIDE DEF E
<1>4. ASSUME NEW i PROVE Adds(i) <=> AddsUp(i, Deltas, E)
  <2>1. \A s \in SUBSET E :
           (IF s = {} THEN 0 ELSE ledger[CHOOSE x \in s : TRUE].delta
                                    + i[s \ {CHOOSE x \in s : TRUE}])
           = (IF s = {} THEN 0 ELSE Deltas[Chosen(s)] + i[s \ {Chosen(s)}])
    <3> TAKE s \in SUBSET E
    <3>1. s # {} => Chosen(s) \in E
      BY ChosenIn
    <3>2. s # {} => Deltas[Chosen(s)] = ledger[Chosen(s)].delta
      BY <1>3, <3>1
    <3>3. Chosen(s) = CHOOSE x \in s : TRUE
      BY DEF Chosen
    <3> QED
      BY <3>2, <3>3
  <2>2. [s \in SUBSET E |-> IF s = {} THEN 0 ELSE ledger[CHOOSE x \in s : TRUE].delta
                                                    + i[s \ {CHOOSE x \in s : TRUE}]]
        = [s \in SUBSET E |-> IF s = {} THEN 0 ELSE Deltas[Chosen(s)] + i[s \ {Chosen(s)}]]
    BY <2>1, Zenon
  <2> QED
    BY <2>2, Zenon DEF AddsUp
<1>5. \E i : AddsUp(i, Deltas, E)
  BY <1>2, AddsUpExists
<1>6. AddsUp(j, Deltas, E)
  BY <1>5
<1>7. AddsUp(k, Deltas, E)
  <2>1. \E i : Adds(i)
    <3>1. PICK i : AddsUp(i, Deltas, E)
      BY <1>5
    <3>2. Adds(i)
      BY <1>4, <3>1
    <3> HIDE DEF Adds
    <3> QED
      BY <3>2
  <2>2. Adds(k)
    <3> HIDE DEF Adds
    <3> QED
      BY <2>1
  <2> HIDE DEF k, Adds
  <2> QED
    BY <1>4, <2>2
<1>8. k[E] = j[E]
  <2> HIDE DEF k, j, Adds
  <2> QED
    BY <1>2, <1>6, <1>7, AddsUpOnce
<1> QED
  BY <1>1, <1>8 DEF Total, SumUp, E

\* One bonus for a donation, because its key names it; and a reward a day at
\* most, because the key names the day and no day is paid before it is over.
LEMMA OneBonus ==
    ASSUME IInv, NEW d \in Nodes
    PROVE  Cardinality(EntriesOf(d, "donate")) <= 1
<1> DEFINE E == EntriesOf(d, "donate")
<1>1. LedgerTypeOK /\ KeyOnce /\ BooksOK
  BY DEF IInv, LedgerInv, Money
<1>2. \A i \in E : i \in DOMAIN ledger /\ ledger[i].key = <<"donate", d>>
  <2> TAKE i \in E
  <2>1. i \in DOMAIN ledger /\ ledger[i].kind = "donate" /\ ledger[i].ref = d
    BY DEF EntriesOf
  <2>2. Booked(ledger[i])
    BY <1>1, <2>1, EntriesFinite DEF BooksOK, Written
  <2> QED
    BY <2>1, <2>2 DEF Booked
<1>3. <<"donate", d>> # None
  <2>1. <<"donate", d>> \in Keys
    BY DonationsAssumption DEF Keys, Kinds
  <2> QED
    BY <2>1, CoreAssumption
<1>4. \A i, j \in E : i = j
  BY <1>1, <1>2, <1>3 DEF KeyOnce
<1> HIDE DEF E
<1>5. CASE E = {}
  BY <1>5, FS_EmptySet DEF E
<1>6. ASSUME NEW i \in E PROVE Cardinality(E) <= 1
  <2>1. E = {i}
    BY <1>4
  <2> QED
    BY <2>1, FS_Singleton
<1> QED
  BY <1>5, <1>6 DEF E

LEMMA OneRewardADay ==
    ASSUME IInv, NEW d \in Nodes
    PROVE  Cardinality(EntriesOf(d, "donate_day")) <= today - decided[d]
<1> DEFINE E == EntriesOf(d, "donate_day")
           T == decided[d]..(today - 1)
           dayOf == [i \in E |-> ledger[i].key[2][2]]
<1>1. LedgerTypeOK /\ KeyOnce /\ BooksOK /\ decided[d] \in Nat /\ today \in Nat
      /\ decided[d] <= today
  BY DEF IInv, LedgerInv, Money, Rest, RowsOK, Days
<1>2. \A i \in E : /\ i \in DOMAIN ledger /\ dayOf[i] \in T
                   /\ ledger[i].key = <<"donate_day", <<d, dayOf[i]>>>>
                   /\ <<"donate_day", <<d, dayOf[i]>>>> # None
  <2> TAKE i \in E
  <2>1. i \in DOMAIN ledger /\ ledger[i].kind = "donate_day" /\ ledger[i].ref = d
    BY DEF EntriesOf
  <2>2. Booked(ledger[i])
    BY <1>1, <2>1, EntriesFinite DEF BooksOK, Written
  <2>3. PICK day \in Days : /\ ledger[i].key = <<"donate_day", <<d, day>>>>
                            /\ day < today /\ decided[d] \in 1..day
    BY <2>1, <2>2 DEF Booked, DayBooked
  <2>4. dayOf[i] = day
    BY <2>3
  <2>5. day \in Nat /\ day \in T
    BY <1>1, <2>3 DEF Days
  <2>6. <<d, day>> \in Refs
    BY DonationsAssumption
  <2>7. <<"donate_day", <<d, day>>>> \in Keys
    BY <2>6 DEF Keys, Kinds
  <2> HIDE DEF dayOf, T
  <2> QED
    BY <2>1, <2>3, <2>4, <2>5, <2>7, CoreAssumption
<1>3. dayOf \in Injection(E, T)
  <2>1. DOMAIN dayOf = E
    OBVIOUS
  <2>2. dayOf \in [E -> T]
    <3>1. \A i \in E : ledger[i].key[2][2] \in T
      BY <1>2
    <3> HIDE DEF E, T
    <3> QED
      BY <3>1
  <2> HIDE DEF dayOf, T, E
  <2>3. \A i, j \in E : dayOf[i] = dayOf[j] => i = j
    BY <1>1, <1>2 DEF KeyOnce
  <2> QED
    BY <2>1, <2>2, <2>3 DEF Injection, IsInjective
<1>4. IsFiniteSet(T) /\ Cardinality(T) = IF decided[d] > today - 1 THEN 0 ELSE today - 1 - decided[d] + 1
  <2>1. decided[d] \in Int /\ today - 1 \in Int
    BY <1>1
  <2> QED
    BY <2>1, FS_Interval
<1>5. IsFiniteSet(E) /\ Cardinality(E) \in Nat
  BY <1>1, EntriesFinite, FS_CardinalityType
<1> HIDE DEF E, T, dayOf
<1>6. Cardinality(E) <= Cardinality(T)
  BY <1>3, <1>4, FS_Injection
<1> QED
  BY <1>1, <1>4, <1>5, <1>6 DEF E

-----------------------------------------------------------------------------
LEMMA InitIInv == Init => IInv
<1> SUFFICES ASSUME Init PROVE IInv
  OBVIOUS
<1>1. LedgerInv
  BY LedgerInitOK DEF Init
<1>2. ledger = << >> /\ DOMAIN ledger = {}
  BY DEF Init, LedgerInit
<1>3. NoDonation \in Donation /\ NoDef \in Def
  BY DEF NoDonation, NoDef, Donation, Def, Statuses, Nets
<1>4. Rest
  <2>1. today \in Days
    BY DonationsAssumption DEF Init, Days
  <2>2. h \in [Req -> Handler]
    BY IdleIsHandler DEF Init
  <2> QED
    BY <1>3, <2>1, <2>2 DEF Init, Rest
<1>5. HeldOK
  BY IdleIsHandler, LightIsSound DEF Init, HeldOK, Light
<1>6. RowsOK
  BY DEF Init, RowsOK, NoDonation, Exists
<1>7. BooksOK
  BY <1>2 DEF BooksOK, Written
<1>8. SumsOK
  <2>1. \A d, kind : EntriesOf(d, kind) = {}
    BY <1>2 DEF EntriesOf
  <2> QED
    BY <2>1, SumUpNothing, FS_EmptySet DEF SumsOK, Total, Init, NoDonation
<1> QED
  BY <1>1, <1>4, <1>5, <1>6, <1>7, <1>8 DEF IInv, Money

LEMMA NextIInv == IInv /\ [Next]_vars => IInv'
<1> SUFFICES ASSUME IInv, [Next]_vars PROVE IInv'
  OBVIOUS
<1>1. CASE Next
  <2>1. Onwards
    BY <1>1, NextOnwards
  <2>2. LedgerInv'
    BY <2>1, LedgerStepKeepsInv DEF IInv, Onwards
  <2>3. HeldOK'
    BY <2>1, HeldStays DEF IInv, Onwards
  <2> QED
    BY <2>1, <2>2, <2>3 DEF IInv, Onwards
<1>2. CASE UNCHANGED vars
  <2>1. Still /\ Rest' /\ Heedful
    BY <1>2 DEF vars, Still, IInv, Rest, Heedful
  <2>2. LedgerTypeOK /\ Money
    BY DEF IInv, LedgerInv
  <2>3. Onwards
    BY <2>1, <2>2, IdlyOnwards DEF Idly, IInv
  <2>4. LedgerInv'
    BY <2>3, LedgerStepKeepsInv DEF IInv, Onwards
  <2>5. HeldOK'
    BY <2>3, HeldStays DEF IInv, Onwards
  <2> QED
    BY <2>3, <2>4, <2>5 DEF IInv, Onwards
<1> QED
  BY <1>1, <1>2

\* The inductive invariant of donate.go's money: the order of the ledger, what
\* the handlers have captured, what the rows and the journal say of each other.
THEOREM DonationsInductive == Spec => []IInv
BY InitIInv, NextIInv, PTL DEF Spec

LEMMA IInvTypes == IInv => TypeOK
<1> SUFFICES ASSUME IInv PROVE TypeOK
  OBVIOUS
<1> QED
  BY DEF IInv, LedgerInv, Rest, TypeOK

\* donate.go:269-271: no donation is rewarded for a day that had ended before it was
\* first approved, by however many settlements over lists read before reviews.
THEOREM DonationsInvAlways == Spec => []DonationsInv
<1>1. IInv => DonationsInv
  <2> SUFFICES ASSUME IInv PROVE DonationsInv
    OBVIOUS
  <2>1. LedgerTypeOK /\ BooksOK
    BY DEF IInv, LedgerInv, Money
  <2>2. ASSUME NEW d \in Nodes, NEW day \in Days, KeyUsed(<<"donate_day", <<d, day>>>>)
        PROVE  decided[d] \in 1..day
    <3>1. PICK i \in DOMAIN ledger : ledger[i].key = <<"donate_day", <<d, day>>>>
      BY <2>2 DEF KeyUsed
    <3>2. Booked(ledger[i])
      BY <2>1, EntriesFinite DEF BooksOK, Written
    <3> DEFINE e == ledger[i]
    <3>3. e.key = <<"donate_day", <<d, day>>>> /\ Booked(e)
      BY <3>1, <3>2
    <3> HIDE DEF e
    <3>4. e.key # <<"donate", e.ref>>
      BY <3>3
    <3>5. PICK x \in Days : DayBooked(e, x)
      BY <3>3, <3>4 DEF Booked
    <3>6. e.ref = d /\ x = day
      BY <3>3, <3>5 DEF DayBooked
    <3> QED
      BY <3>5, <3>6 DEF DayBooked
  <2>3. NoPayBeforeApproval
    BY <2>2 DEF NoPayBeforeApproval
  <2> QED
    BY <2>3, IInvTypes DEF DonationsInv
<1> QED
  BY <1>1, DonationsInductive, PTL

\* README.md:98-99 and donate.go:195-209, 278-291: what a donation says it has brought
\* in is what the journal paid for it, one bonus and a reward a day at most.
THEOREM DonationMatchesJournalAlways == Spec => []DonationMatchesJournal
<1>1. IInv => DonationMatchesJournal
  <2> SUFFICES ASSUME IInv PROVE DonationMatchesJournal
    OBVIOUS
  <2>1. LedgerTypeOK /\ SumsOK
    BY DEF IInv, LedgerInv, Money
  <2>2. \A d \in Nodes : /\ donations[d].bonus = Paid(d, "donate")
                         /\ donations[d].earned = Paid(d, "donate_day")
                         /\ donations[d].days = Cardinality(EntriesOf(d, "donate_day"))
    BY <2>1, PaidIsTotal DEF SumsOK
  <2>3. \A d \in Nodes : /\ Cardinality(EntriesOf(d, "donate")) <= 1
                         /\ Cardinality(EntriesOf(d, "donate_day")) <= today - decided[d]
    BY OneBonus, OneRewardADay
  <2> QED
    BY <2>2, <2>3 DEF DonationMatchesJournal
<1> QED
  BY <1>1, DonationsInductive, PTL


-----------------------------------------------------------------------------
(* The node definitions: ids are given once, an id keeps its donation, and *)
(* what a handler has read of a definition stays true of it.               *)

DefsOK ==
    /\ \A n \in Nodes : defs[n].id <= created /\ (defs[n].id = 0 => defs[n].key = 0)
    /\ \A n, m \in Nodes : defs[n].id = defs[m].id /\ defs[n].id # 0 => n = m
    /\ \A n, m, d \in Nodes : n # m /\ n \in DefsOf(d) /\ m \in DefsOf(d) => d \in twice

\* What a handler knows of the definition it is about to change.
Knows(s) ==
    /\ s.at \in {"put", "delete"} => s.id \in 1..created
    /\ s.at = "delete" => \A n \in Nodes : defs[n].id = s.id => defs[n].donation = s.d

KnowsOK == \A r \in Req : Knows(h[r])

\* No id changes the donation it stands for.
IdsKept ==
    /\ created' \in Nat /\ created <= created'
    /\ \A n \in Nodes : defs'[n].id \in 1..created =>
          \E m \in Nodes : defs[m].id = defs'[n].id /\ defs[m].donation = defs'[n].donation

\* Donation x is in the definitions after the step if it was before.
SameDefs(x) == DefsOf(x)' # {} <=> DefsOf(x) # {}

LEMMA DefFields ==
    ASSUME Rest, NEW n \in Nodes
    PROVE  /\ defs[n].id \in Nat /\ defs[n].key \in Nat /\ created \in Nat
           /\ None \notin Nodes
BY DonationsAssumption, CoreAssumption DEF Rest, Def

LEMMA NoDefFields == NoDef.id = 0 /\ NoDef.key = 0 /\ NoDef.donation = None
BY DEF NoDef

\* Definitions that stay, and definitions with another key, switch or none.
LEMMA DefsUntouched ==
    ASSUME Rest, DefsOK, UNCHANGED <<created, twice>>,
           \A n \in Nodes : /\ defs'[n].id = defs[n].id /\ defs'[n].donation = defs[n].donation
                            /\ defs[n].id = 0 => defs'[n].key = defs[n].key
    PROVE  DefsOK' /\ IdsKept /\ \A x \in Nodes : SameDefs(x)
<1>1. \A x : DefsOf(x)' = DefsOf(x)
  BY DEF DefsOf
<1>2. DefsOK'
  BY <1>1 DEF DefsOK
<1>3. IdsKept
  <2>1. created \in Nat
    BY DEF Rest
  <2> QED
    BY <2>1 DEF IdsKept
<1> QED
  BY <1>1, <1>2, <1>3 DEF SameDefs

\* Definitions that are removed.
LEMMA DefsRemoved ==
    ASSUME Rest, DefsOK, UNCHANGED <<created, twice>>, NEW gone \in SUBSET Nodes,
           \A n \in Nodes : defs'[n] = IF n \in gone THEN NoDef ELSE defs[n]
    PROVE  /\ DefsOK' /\ IdsKept
           /\ \A x \in Nodes : DefsOf(x)' = DefsOf(x) \ gone
<1>1. \A x \in Nodes : DefsOf(x)' = DefsOf(x) \ gone
  BY NoDefFields DEF DefsOf
<1>2. DefsOK'
  <2>1. ASSUME NEW n \in Nodes PROVE defs'[n].id <= created /\ (defs'[n].id = 0 => defs'[n].key = 0)
    BY DefFields, NoDefFields DEF DefsOK
  <2>2. ASSUME NEW n \in Nodes, NEW m \in Nodes, defs'[n].id = defs'[m].id, defs'[n].id # 0
        PROVE  n = m
    BY <2>2, NoDefFields DEF DefsOK
  <2>3. ASSUME NEW n \in Nodes, NEW m \in Nodes, NEW d \in Nodes, n # m,
               n \in DefsOf(d) \ gone, m \in DefsOf(d) \ gone
        PROVE  d \in twice
    BY <2>3 DEF DefsOK
  <2> QED
    BY <1>1, <2>1, <2>2, <2>3 DEF DefsOK
<1>3. IdsKept
  <2>1. created \in Nat
    BY DEF Rest
  <2>2. ASSUME NEW n \in Nodes, defs'[n].id \in 1..created
        PROVE  \E m \in Nodes : defs[m].id = defs'[n].id /\ defs[m].donation = defs'[n].donation
    <3>1. defs'[n].id # 0
      BY <2>1, <2>2
    <3>2. defs'[n] = defs[n]
      BY <3>1, NoDefFields
    <3> QED
      BY <3>2
  <2> QED
    BY <2>1, <2>2 DEF IdsKept
<1> QED
  BY <1>1, <1>2, <1>3

\* A definition that is added where there was none, under a fresh id.
LEMMA DefAdded ==
    ASSUME Rest, DefsOK, NEW n \in Nodes, defs[n].id = 0, NEW new \in Def,
           new.id = created + 1, created' = created + 1, defs' = [defs EXCEPT ![n] = new],
           twice' = IF new.donation # None /\ DefsOf(new.donation) # {}
                    THEN twice \cup {new.donation} ELSE twice
    PROVE  /\ DefsOK' /\ IdsKept
           /\ \A x \in Nodes : DefsOf(x)' = IF x = new.donation THEN DefsOf(x) \cup {n} ELSE DefsOf(x)
<1>1. /\ defs'[n] = new /\ \A m \in Nodes : m # n => defs'[m] = defs[m]
  BY DEF Rest
<1>2. \A m \in Nodes : /\ defs[m].id \in Nat /\ created \in Nat /\ None \notin Nodes
                       /\ defs[m].id <= created
  BY DefFields DEF DefsOK
<1>3. \A x \in Nodes : DefsOf(x)' = IF x = new.donation THEN DefsOf(x) \cup {n} ELSE DefsOf(x)
  BY <1>1, <1>2 DEF DefsOf
<1>4. DefsOK'
  <2>1. ASSUME NEW m \in Nodes PROVE defs'[m].id <= created' /\ (defs'[m].id = 0 => defs'[m].key = 0)
    BY <1>1, <1>2 DEF DefsOK
  <2>2. ASSUME NEW k \in Nodes, NEW m \in Nodes, defs'[k].id = defs'[m].id, defs'[k].id # 0
        PROVE  k = m
    <3>1. \A y \in Nodes : defs[y].id # created + 1
      BY <1>2
    <3> QED
      BY <1>1, <2>2, <3>1 DEF DefsOK
  <2>3. ASSUME NEW k \in Nodes, NEW m \in Nodes, NEW d \in Nodes, k # m,
               k \in DefsOf(d)', m \in DefsOf(d)'
        PROVE  d \in twice'
    <3>1. CASE k \in DefsOf(d) /\ m \in DefsOf(d)
      BY <2>3, <3>1 DEF DefsOK
    <3>2. CASE ~(k \in DefsOf(d) /\ m \in DefsOf(d))
      <4>1. d = new.donation /\ DefsOf(d) # {}
        BY <1>3, <2>3, <3>2
      <4> QED
        BY <1>2, <4>1
    <3> QED
      BY <3>1, <3>2
  <2> QED
    BY <2>1, <2>2, <2>3 DEF DefsOK
<1>5. IdsKept
  <2>1. ASSUME NEW m \in Nodes, defs'[m].id \in 1..created PROVE m # n
    BY <1>1, <1>2, <2>1
  <2> QED
    BY <1>1, <1>2, <2>1 DEF IdsKept
<1> QED
  BY <1>3, <1>4, <1>5

\* A definition that an edit leaves or moves to a free node id.
LEMMA DefMoved ==
    ASSUME Rest, DefsOK, UNCHANGED <<created, twice>>, NEW m \in Nodes, NEW n \in Nodes,
           NEW on \in BOOLEAN, NEW key \in SentKeys, defs[m].id # 0, n = m \/ defs[n].id = 0,
           defs' = [[defs EXCEPT ![m] = NoDef] EXCEPT ![n] = Updated(defs[m], on, key)]
    PROVE  DefsOK' /\ IdsKept /\ \A x \in Nodes : SameDefs(x)
<1> DEFINE moved == Updated(defs[m], on, key)
<1>1. moved.id = defs[m].id /\ moved.donation = defs[m].donation
  BY DEF Rest, Def, Updated
<1> HIDE DEF moved
<1>2. /\ defs'[n] = moved
      /\ \A k \in Nodes : k # n /\ k # m => defs'[k] = defs[k]
      /\ m # n => defs'[m] = NoDef
  <2>1. defs' = [[defs EXCEPT ![m] = NoDef] EXCEPT ![n] = moved]
    BY DEF moved
  <2> QED
    BY <2>1 DEF Rest
<1>3. \A k \in Nodes : defs[k].id \in Nat /\ created \in Nat /\ defs[k].id <= created
  BY DefFields DEF DefsOK
<1>4. \A x \in Nodes, k \in Nodes :
         k \in DefsOf(x)' <=> \/ k = n /\ m \in DefsOf(x)
                              \/ k # n /\ k # m /\ k \in DefsOf(x)
  BY <1>1, <1>2, NoDefFields DEF DefsOf
<1>5. \A x \in Nodes : SameDefs(x)
  <2> TAKE x \in Nodes
  <2>1. ASSUME NEW k \in DefsOf(x) PROVE DefsOf(x)' # {}
    <3>1. k \in Nodes /\ defs[k].id # 0
      BY DEF DefsOf
    <3>2. CASE k = m
      BY <1>4, <3>2
    <3>3. CASE k # m /\ k # n
      BY <1>4, <3>1, <3>3
    <3> QED
      BY <3>1, <3>2, <3>3
  <2>2. ASSUME NEW k \in DefsOf(x)' PROVE DefsOf(x) # {}
    <3>1. k \in Nodes
      BY DEF DefsOf
    <3> QED
      BY <1>4, <3>1
  <2> QED
    BY <2>1, <2>2 DEF SameDefs
<1>6. DefsOK'
  <2>1. ASSUME NEW k \in Nodes PROVE defs'[k].id <= created /\ (defs'[k].id = 0 => defs'[k].key = 0)
    <3>1. CASE k = n
      BY <1>1, <1>2, <1>3, <3>1
    <3>2. CASE k # n /\ k = m
      BY <1>2, <1>3, <3>2, NoDefFields
    <3>3. CASE k # n /\ k # m
      BY <1>2, <3>3 DEF DefsOK
    <3> QED
      BY <3>1, <3>2, <3>3
  <2>2. ASSUME NEW k \in Nodes, NEW l \in Nodes, defs'[k].id = defs'[l].id, defs'[k].id # 0
        PROVE  k = l
    <3>1. k # n /\ l # n => k = l
      BY <1>2, <2>2, NoDefFields DEF DefsOK
    <3>2. ASSUME NEW y \in Nodes, y # n, defs'[y].id # 0
          PROVE  y # m /\ defs'[y].id = defs[y].id
      <4>1. y # m
        BY <1>2, <3>2, NoDefFields
      <4> QED
        BY <1>2, <3>2, <4>1
    <3>3. \A y \in Nodes : y # n /\ defs'[y].id # 0 => defs'[y].id # moved.id
      BY <1>1, <3>2 DEF DefsOK
    <3> QED
      BY <1>2, <2>2, <3>1, <3>3
  <2>3. ASSUME NEW k \in Nodes, NEW l \in Nodes, NEW d \in Nodes, k # l,
               k \in DefsOf(d)', l \in DefsOf(d)'
        PROVE  d \in twice
    BY <1>4, <2>3 DEF DefsOK
  <2> QED
    BY <2>1, <2>2, <2>3 DEF DefsOK
<1>7. IdsKept
  <2>1. ASSUME NEW k \in Nodes, defs'[k].id \in 1..created
        PROVE  \E l \in Nodes : defs[l].id = defs'[k].id /\ defs[l].donation = defs'[k].donation
    <3>1. CASE k = n
      BY <1>1, <1>2, <3>1
    <3>2. CASE k # n
      <4>1. defs'[k].id # 0
        BY <1>3, <2>1
      <4>2. k # m
        BY <1>2, <3>2, <4>1, NoDefFields
      <4> QED
        BY <1>2, <3>2, <4>2
    <3> QED
      BY <3>1, <3>2
  <2>2. created' \in Nat /\ created <= created'
    BY DEF Rest
  <2> QED
    BY <2>1, <2>2, ZenonT(60) DEF IdsKept
<1> QED
  BY <1>5, <1>6, <1>7

-----------------------------------------------------------------------------
Knowing == \A q \in Req : h'[q] = h[q] \/ Knows(h'[q])

\* What a step does to the definitions.
Moves == DefsOK' /\ IdsKept /\ Knowing /\ ApprovedHasDef'

LEMMA KnowsStays ==
    ASSUME Rest, IdsKept, NEW s, Knows(s)
    PROVE  Knows(s)'
<1>1. created \in Nat
  BY DEF Rest
<1>2. s.at \in {"put", "delete"} => s.id \in 1..created /\ s.id \in 1..created'
  <2>1. created' \in Nat /\ created <= created'
    BY DEF IdsKept
  <2>2. s.at \in {"put", "delete"} => s.id \in 1..created
    BY DEF Knows
  <2> QED
    BY <1>1, <2>1, <2>2
<1>3. ASSUME s.at = "delete", NEW n \in Nodes, defs'[n].id = s.id
      PROVE  defs'[n].donation = s.d
  <2>1. PICK m \in Nodes : defs[m].id = s.id /\ defs[m].donation = defs'[n].donation
    BY <1>2, <1>3 DEF IdsKept
  <2> QED
    BY <1>3, <2>1 DEF Knows
<1> QED
  BY <1>2, <1>3 DEF Knows

LEMMA KnowsOKStays ==
    ASSUME Rest, IdsKept, Knowing, KnowsOK
    PROVE  KnowsOK'
<1>1. \A s : Knows(s) => Knows(s)'
  BY KnowsStays
<1>2. \A q \in Req : Knows(h'[q])
  BY DEF Knowing, KnowsOK
<1> QED
  BY <1>1, <1>2 DEF KnowsOK

\* An approved donation stays defined when it was, its definition stays, or
\* somebody is about to stop it.
LEMMA Backing ==
    ASSUME ApprovedHasDef, cut \subseteq cut',
           \A q \in Req : h[q].at = "undonate" =>
               \/ h'[q] = h[q] \/ h[q].d \notin Nodes \/ h[q].d \in cut'
               \/ donations'[h[q].d].status # "approved",
           \A x \in Nodes : donations'[x].status = "approved" =>
               \/ DefsOf(x)' # {}
               \/ donations[x].status = "approved" /\ SameDefs(x)
               \/ \E q \in Req : h'[q].at = "undonate" /\ h'[q].d = x
    PROVE  ApprovedHasDef'
<1> SUFFICES ASSUME NEW x \in Nodes, donations'[x].status = "approved", DefsOf(x)' = {},
                    ~ \E q \in Req : h'[q].at = "undonate" /\ h'[q].d = x
             PROVE  x \in cut'
  BY DEF ApprovedHasDef
<1>1. donations[x].status = "approved" /\ DefsOf(x) = {}
  BY DEF SameDefs
<1>2. CASE x \in cut
  BY <1>2
<1>3. ASSUME NEW q \in Req, h[q].at = "undonate", h[q].d = x PROVE x \in cut'
  BY <1>3
<1> QED
  BY <1>1, <1>2, <1>3 DEF ApprovedHasDef

LEMMA GotoIs ==
    ASSUME Rest, NEW r \in Req, NEW s, Goto(r, s)
    PROVE  h'[r] = s /\ \A q \in Req : q # r => h'[q] = h[q]
BY DEF Rest, Goto

\* A handler that leaves the definitions alone and approves nothing.
LEMMA AsideMoves ==
    ASSUME Rest, DefsOK, ApprovedHasDef, NEW r \in Req, NEW s, Goto(r, s), Knows(s),
           h[r].at # "undonate", UNCHANGED <<defs, created, twice, cut>>,
           \A x \in Nodes : donations'[x].status = "approved" => donations[x].status = "approved"
    PROVE  Moves
<1>1. h'[r] = s /\ \A q \in Req : q # r => h'[q] = h[q]
  BY GotoIs
<1>2. DefsOK' /\ IdsKept /\ \A x \in Nodes : SameDefs(x)
  BY DefsUntouched
<1>3. Knowing
  BY <1>1 DEF Knowing
<1>4. ApprovedHasDef'
  BY <1>1, <1>2, Backing
<1> QED
  BY <1>2, <1>3, <1>4 DEF Moves

LEMMA Unknowing == \A s : s.at \notin {"put", "delete"} => Knows(s)
BY DEF Knows

\* Every request starts this way.
LEMMA StartMoves ==
    ASSUME Rest, DefsOK, ApprovedHasDef, NEW r \in Req, NEW s, Start(r, s), Knows(s),
           UNCHANGED <<rows, snapshots, world>>
    PROVE  Moves
<1>1. h[r].at # "undonate" /\ Goto(r, s) /\ UNCHANGED <<defs, created, twice, cut, donations>>
  BY IdleIsHandler DEF Start, rows, world
<1> QED
  BY <1>1, AsideMoves

LEMMA RequestMoves ==
    ASSUME Rest, DefsOK, ApprovedHasDef, NEW r \in Req,
           \/ \E d \in Nodes : DonorRequest(r, d)
           \/ \E d \in Nodes, to \in {"rejected", "disabled"} : StartRefuse(r, d, to)
           \/ \E d \in Nodes : StartApprove(r, d)
           \/ \E day \in Days : StartSettle(r, day)
    PROVE  Moves
<1>1. ASSUME NEW s, Start(r, s), UNCHANGED <<rows, snapshots, world>>,
             s.at \notin {"put", "delete"}
      PROVE  Moves
  BY <1>1, Unknowing, StartMoves
<1>2. ASSUME NEW d \in Nodes, DonorRequest(r, d) PROVE Moves
  <2>1. ASSUME NEW u \in Users, NEW net \in Nets, StartSubmit(r, u, d, net) PROVE Moves
    <3> DEFINE s == [at |-> "counted", user |-> u, d |-> d, net |-> net]
    <3>1. Start(r, s) /\ UNCHANGED <<rows, snapshots, world>> /\ s.at = "counted"
      BY <2>1 DEF StartSubmit
    <3> HIDE DEF s
    <3> QED
      BY <1>1, <3>1
  <2>2. CASE StartEdit(r, d)
    <3> DEFINE s == [at |-> "edit", d |-> d]
    <3>1. Start(r, s) /\ UNCHANGED <<rows, snapshots, world>> /\ s.at = "edit"
      BY <2>2 DEF StartEdit
    <3> HIDE DEF s
    <3> QED
      BY <1>1, <3>1
  <2>3. CASE StartRotate(r, d)
    <3> DEFINE s == [at |-> "rotate", d |-> d]
    <3>1. Start(r, s) /\ UNCHANGED <<rows, snapshots, world>> /\ s.at = "rotate"
      BY <2>3 DEF StartRotate
    <3> HIDE DEF s
    <3> QED
      BY <1>1, <3>1
  <2>4. CASE StartWithdraw(r, d)
    <3> DEFINE s == [at |-> "offpool", d |-> d, to |-> "withdrawn", day |-> 0]
    <3>1. Start(r, s) /\ UNCHANGED <<rows, snapshots, world>> /\ s.at = "offpool"
      BY <2>4 DEF StartWithdraw
    <3> HIDE DEF s
    <3> QED
      BY <1>1, <3>1
  <2> QED
    BY <1>2, <2>1, <2>2, <2>3, <2>4 DEF DonorRequest
<1>3. ASSUME NEW d \in Nodes, NEW to, StartRefuse(r, d, to) PROVE Moves
  <2> DEFINE s == [at |-> "offpool", d |-> d, to |-> to, day |-> today]
  <2>1. Start(r, s) /\ UNCHANGED <<rows, snapshots, world>> /\ s.at = "offpool"
    BY <1>3 DEF StartRefuse
  <2> HIDE DEF s
  <2> QED
    BY <1>1, <2>1
<1>4. ASSUME NEW d \in Nodes, StartApprove(r, d) PROVE Moves
  <2> DEFINE s == [at |-> "approve", d |-> d, row |-> donations[d], day |-> today,
                   bonus |-> IF conf.on /\ donations[d].bonus = 0
                             THEN conf.bonus[donations[d].net] ELSE 0]
  <2>1. Start(r, s) /\ UNCHANGED <<rows, snapshots, world>> /\ s.at = "approve"
    BY <1>4 DEF StartApprove
  <2> HIDE DEF s
  <2> QED
    BY <1>1, <2>1
<1>5. ASSUME NEW day \in Days, StartSettle(r, day) PROVE Moves
  <2> DEFINE s == [at |-> "settle", todo |-> Settled(day), day |-> day,
                   pay |-> [d \in Nodes |-> conf.daily[donations[d].net]]]
  <2>1. Start(r, s) /\ UNCHANGED <<rows, snapshots, world>> /\ s.at = "settle"
    BY <1>5 DEF StartSettle
  <2> HIDE DEF s
  <2> QED
    BY <1>1, <2>1
<1> QED
  BY <1>2, <1>3, <1>4, <1>5

LEMMA DefRequestMoves ==
    ASSUME Rest, DefsOK, ApprovedHasDef, NEW r \in Req, NEW d \in Nodes,
           StartPut(r, d) \/ StartDelete(r, d)
    PROVE  Moves
<1>1. defs[d].id \in 1..created
  BY DefFields DEF DefsOK, StartPut, StartDelete
<1>2. \A n \in Nodes : defs[n].id = defs[d].id => n = d
  BY <1>1, DefFields DEF DefsOK
<1>3. CASE StartPut(r, d)
  <2> DEFINE s == [at |-> "put", n |-> d, id |-> defs[d].id]
  <2>1. Knows(s)
    BY <1>1 DEF Knows
  <2>2. Start(r, s) /\ UNCHANGED <<rows, snapshots, world>>
    BY <1>3 DEF StartPut
  <2> HIDE DEF s
  <2> QED
    BY <2>1, <2>2, StartMoves
<1>4. CASE StartDelete(r, d)
  <2> DEFINE s == [at |-> "delete", id |-> defs[d].id, d |-> defs[d].donation]
  <2>1. Knows(s)
    BY <1>1, <1>2 DEF Knows
  <2>2. Start(r, s) /\ UNCHANGED <<rows, snapshots, world>>
    BY <1>4 DEF StartDelete
  <2> HIDE DEF s
  <2> QED
    BY <2>1, <2>2, StartMoves
<1> QED
  BY <1>3, <1>4


\* An administrator's own definition is nobody's donation.
LEMMA CreateDefMoves ==
    ASSUME Rest, DefsOK, ApprovedHasDef, NEW r \in Req, NEW n \in Nodes, NEW s \in Settings,
           CreateDef(r, n, s[1], s[2])
    PROVE  /\ Moves
           /\ \A x \in Nodes : DefsOf(x)' = DefsOf(x)
<1> DEFINE new == [id |-> created + 1, donation |-> None, key |-> s[1], on |-> s[2]]
<1>1. /\ defs' = [defs EXCEPT ![n] = new] /\ created' = created + 1 /\ defs[n].id = 0
      /\ UNCHANGED <<accounts, ledger, donations, issued, snapshots, world>>
      /\ Start(r, [at |-> "reload"])
  BY DEF CreateDef
<1>2. s[1] \in Nat /\ s[2] \in BOOLEAN
  BY DonationsAssumption
<1>3. new \in Def /\ new.id = created + 1 /\ new.donation = None
  BY <1>2 DEF Rest, Def
<1> HIDE DEF new
<1>4. twice' = twice /\ donations' = donations /\ cut' = cut
  BY <1>1 DEF world, Start
<1>5. /\ DefsOK' /\ IdsKept
      /\ \A x \in Nodes : DefsOf(x)' = IF x = new.donation THEN DefsOf(x) \cup {n} ELSE DefsOf(x)
  BY <1>1, <1>3, <1>4, DefAdded
<1>6. \A x \in Nodes : DefsOf(x)' = DefsOf(x)
  BY <1>3, <1>5, CoreAssumption, DonationsAssumption
<1> DEFINE t == [at |-> "reload"]
<1>7. t.at = "reload" /\ Start(r, t)
  BY <1>1
<1> HIDE DEF t
<1>8. h'[r] = t /\ \A q \in Req : q # r => h'[q] = h[q]
  BY <1>7, GotoIs DEF Start
<1>9. h[r].at # "undonate"
  BY <1>7, IdleIsHandler DEF Start
<1>10. Knowing
  BY <1>7, <1>8, Unknowing DEF Knowing
<1>11. ApprovedHasDef'
  BY <1>4, <1>6, <1>8, <1>9, Backing DEF SameDefs
<1> QED
  BY <1>5, <1>6, <1>10, <1>11 DEF Moves

\* The statements that leave the definitions alone.
LEMMA AsideSteps ==
    ASSUME Rest, DefsOK, ApprovedHasDef, NEW r \in Req,
           \/ LookUpNodeId(r) \/ SettleDone(r) \/ CreateDonation(r) \/ RotateDonation(r)
           \/ \E net \in Nets : SaveEdit(r, net)
           \/ \E d \in Nodes : SettleDonation(r, d)
           \/ ReloadDefs(r) \/ ReloadPending(r) \/ SwapPools(r) \/ SwapCreds(r)
    PROVE  Moves
<1>0. h[r] \in Handler
  BY HandlersAre
<1>1. ASSUME NEW s, Goto(r, s), s.at \notin {"put", "delete"}, h[r].at # "undonate",
             UNCHANGED <<defs, created, twice, cut>>,
             \A x \in Nodes : donations'[x].status = "approved" => donations[x].status = "approved"
      PROVE  Moves
  BY <1>1, Unknowing, AsideMoves
<1>2. Idle.at = "idle"
  BY IdleIsHandler
<1>3. CASE LookUpNodeId(r)
  <2>1. UNCHANGED <<defs, created, twice, cut, donations>> /\ h[r].at = "counted"
    BY <1>3 DEF LookUpNodeId, rows, world, request
  <2>2. CASE Goto(r, Idle)
    BY <1>1, <1>2, <2>1, <2>2
  <2>3. CASE Goto(r, [h[r] EXCEPT !.at = "named"])
    <3> DEFINE s == [h[r] EXCEPT !.at = "named"]
    <3>1. h[r] \in [at : {"counted", "named"}, user : Users, d : Nodes, net : Nets]
      BY <1>0, <2>1, HeldByDonor
    <3>2. s.at = "named" /\ Goto(r, s)
      BY <2>3, <3>1
    <3> HIDE DEF s
    <3> QED
      BY <1>1, <2>1, <3>2
  <2> QED
    BY <1>3, <2>2, <2>3 DEF LookUpNodeId
<1>4. CASE SettleDone(r)
  <2>1. UNCHANGED <<defs, created, twice, cut, donations>> /\ h[r].at = "settle" /\ Goto(r, Idle)
    BY <1>4 DEF SettleDone, rows, world, request
  <2> QED
    BY <1>1, <1>2, <2>1
<1>5. CASE CreateDonation(r)
  <2>1. /\ UNCHANGED <<defs, created, twice, cut>> /\ h[r].at = "named"
        /\ Goto(r, Idle) \/ Goto(r, [at |-> "reload"])
    BY <1>5 DEF CreateDonation, world, request
  <2>2. h[r].d \in Nodes
    BY <1>0, <2>1, HeldByDonor
  <2>3. \A x \in Nodes : donations'[x].status = "approved" => donations[x].status = "approved"
    BY <1>5, <2>2 DEF CreateDonation, Rest, NoDonation
  <2> DEFINE t == [at |-> "reload"]
  <2>4. t.at = "reload" /\ (Goto(r, Idle) \/ Goto(r, t))
    BY <2>1
  <2> HIDE DEF t
  <2> QED
    BY <1>1, <1>2, <2>1, <2>3, <2>4
<1>6. CASE RotateDonation(r)
  <2> DEFINE s == [at |-> "rotated", d |-> h[r].d, key |-> issued + 1]
  <2>1. /\ UNCHANGED <<defs, created, twice, cut>> /\ h[r].at = "rotate"
        /\ Goto(r, s) /\ s.at = "rotated"
    BY <1>6 DEF RotateDonation, world, request
  <2>2. h[r].d \in Nodes
    BY <1>0, <2>1, HeldByDonor
  <2>3. \A x \in Nodes : donations'[x].status = donations[x].status
    BY <1>6, <2>2 DEF RotateDonation, Rest, Donation
  <2> HIDE DEF s
  <2> QED
    BY <1>1, <2>1, <2>3
<1>7. ASSUME NEW net \in Nets, SaveEdit(r, net) PROVE Moves
  <2>1. /\ UNCHANGED <<defs, created, twice, cut>> /\ h[r].at = "edit" /\ Goto(r, Idle)
    BY <1>7 DEF SaveEdit, world
  <2>2. h[r].d \in Nodes
    BY <1>0, <2>1, HeldByDonor
  <2>3. \A x \in Nodes : donations'[x].status = "approved" => donations[x].status = "approved"
    BY <1>7, <2>2 DEF SaveEdit, Rest, Donation
  <2> QED
    BY <1>1, <1>2, <2>1, <2>3
<1>8. ASSUME NEW d \in Nodes, SettleDonation(r, d) PROVE Moves
  <2> DEFINE s == [h[r] EXCEPT !.todo = @ \ {d}]
  <2>1. /\ UNCHANGED <<defs, created, twice, cut>> /\ h[r].at = "settle" /\ Goto(r, s)
    BY <1>8 DEF SettleDonation, rows, world, request
  <2>2. h[r] \in [at : {"settle"}, todo : SUBSET Nodes, pay : [Nodes -> Nat], day : Days]
    BY <1>0, <2>1, HeldByReview
  <2>3. s.at = "settle"
    BY <2>2
  <2>4. \A x \in Nodes : donations'[x].status = donations[x].status
    BY <1>8 DEF SettleDonation, Rest, Donation, rows
  <2> HIDE DEF s
  <2> QED
    BY <1>1, <2>1, <2>3, <2>4
<1>9. CASE ReloadDefs(r)
  <2> DEFINE s == [at |-> "reload2", pool |-> PoolOf(defs), creds |-> CredsOf(defs)]
  <2>1. /\ UNCHANGED <<defs, created, twice, cut, donations>> /\ h[r].at = "reload"
        /\ Goto(r, s) /\ s.at = "reload2"
    BY <1>9 DEF ReloadDefs, rows, world, request
  <2> HIDE DEF s
  <2> QED
    BY <1>1, <2>1
<1>10. CASE ReloadPending(r)
  <2> DEFINE s == [h[r] EXCEPT !.at = "swap", !.creds = WithPending(@, donations)]
  <2>1. /\ UNCHANGED <<defs, created, twice, cut, donations>> /\ h[r].at = "reload2" /\ Goto(r, s)
    BY <1>10 DEF ReloadPending, rows, world, request
  <2>2. h[r] \in [at : {"reload2", "swap"}, pool : SUBSET (Nodes \cup SettingPool),
                  creds : [Nodes -> Nat]]
    BY <1>0, <2>1, HeldByPool
  <2>3. s.at = "swap"
    BY <2>2
  <2> HIDE DEF s
  <2> QED
    BY <1>1, <2>1, <2>3
<1>11. CASE SwapPools(r)
  <2> DEFINE s == [at |-> "swap2", creds |-> h[r].creds]
  <2>1. /\ UNCHANGED <<defs, created, twice, cut, donations>> /\ h[r].at = "swap"
        /\ Goto(r, s) /\ s.at = "swap2"
    BY <1>11 DEF SwapPools, rows, world, request
  <2> HIDE DEF s
  <2> QED
    BY <1>1, <2>1
<1>12. CASE SwapCreds(r)
  <2>1. UNCHANGED <<defs, created, twice, cut, donations>> /\ h[r].at = "swap2" /\ Goto(r, Idle)
    BY <1>12 DEF SwapCreds, rows, world
  <2> QED
    BY <1>1, <1>2, <2>1
<1> QED
  BY <1>3, <1>4, <1>5, <1>6, <1>7, <1>8, <1>9, <1>10, <1>11, <1>12

\* rotate-key writes its key to the definitions of the donation.
LEMMA RotateDefsMoves ==
    ASSUME Rest, DefsOK, ApprovedHasDef, NEW r \in Req, RotateDefs(r)
    PROVE  Moves /\ \A x \in Nodes : SameDefs(x)
<1>1. /\ UNCHANGED <<created, twice, cut, donations>> /\ h[r].at = "rotated"
      /\ Goto(r, [at |-> "reload"])
      /\ defs' = [n \in Nodes |-> IF n \in DefsOf(h[r].d)
                                  THEN [defs[n] EXCEPT !.key = h[r].key] ELSE defs[n]]
  BY DEF RotateDefs, world, request
<1>2. \A n \in Nodes : /\ defs'[n].id = defs[n].id /\ defs'[n].donation = defs[n].donation
                       /\ defs[n].id = 0 => defs'[n].key = defs[n].key
  <2> TAKE n \in Nodes
  <2>1. CASE n \in DefsOf(h[r].d)
    <3>1. defs[n].id # 0
      BY <2>1 DEF DefsOf
    <3>2. defs'[n] = [defs[n] EXCEPT !.key = h[r].key] /\ defs[n] \in Def
      BY <1>1, <2>1 DEF Rest
    <3> QED
      BY <3>1, <3>2 DEF Def
  <2>2. CASE n \notin DefsOf(h[r].d)
    BY <1>1, <2>2
  <2> QED
    BY <2>1, <2>2
<1>3. DefsOK' /\ IdsKept /\ \A x \in Nodes : SameDefs(x)
  BY <1>1, <1>2, DefsUntouched
<1> DEFINE t == [at |-> "reload"]
<1>4. t.at = "reload" /\ Goto(r, t)
  BY <1>1
<1> HIDE DEF t
<1>5. h'[r] = t /\ \A q \in Req : q # r => h'[q] = h[q]
  BY <1>4, GotoIs
<1>6. Knowing
  BY <1>4, <1>5, Unknowing DEF Knowing
<1>7. ApprovedHasDef'
  BY <1>1, <1>3, <1>5, Backing
<1> QED
  BY <1>3, <1>6, <1>7 DEF Moves

\* setDonationOffPool removes the definitions of a donation it stops.
LEMMA OffPoolMoves ==
    ASSUME Rest, DefsOK, ApprovedHasDef, NEW r \in Req, NEW d, d = h[r].d,
           SetDonationOffPool(r)
    PROVE  /\ Moves /\ d \in Nodes /\ donations'[d].status \in {"withdrawn", "rejected", "disabled"}
           /\ \A x \in Nodes : x # d => donations'[x] = donations[x]
           /\ DefsOf(d)' = {} /\ \A x \in Nodes : x # d => DefsOf(x)' = DefsOf(x)
<1>1. /\ UNCHANGED <<created, twice, cut>> /\ h[r].at = "offpool" /\ Goto(r, [at |-> "reload"])
      /\ defs' = [n \in Nodes |-> IF n \in DefsOf(d) THEN NoDef ELSE defs[n]]
      /\ donations' = [donations EXCEPT ![d].status = h[r].to,
               ![d].reviewed = IF h[r].day = 0 THEN @ ELSE h[r].day]
  BY DEF SetDonationOffPool, world, request
<1>2. h[r] \in [at : {"offpool"}, d : Nodes, to : {"withdrawn", "rejected", "disabled"}, day : Nat]
  BY <1>1, HandlersAre, HeldByReview
<1>3. d \in Nodes /\ h[r].to \in {"withdrawn", "rejected", "disabled"}
  BY <1>2
<1>4. donations'[d].status = h[r].to /\ \A x \in Nodes : x # d => donations'[x] = donations[x]
  BY <1>1, <1>3 DEF Rest, Donation
<1>5. /\ DefsOK' /\ IdsKept
      /\ \A x \in Nodes : DefsOf(x)' = DefsOf(x) \ DefsOf(d)
  <2>1. DefsOf(d) \subseteq Nodes
    BY DEF DefsOf
  <2>2. \A n \in Nodes : defs'[n] = IF n \in DefsOf(d) THEN NoDef ELSE defs[n]
    BY <1>1
  <2> QED
    BY <1>1, <2>1, <2>2, DefsRemoved
<1>6. DefsOf(d)' = {} /\ \A x \in Nodes : x # d => DefsOf(x)' = DefsOf(x)
  BY <1>3, <1>5 DEF DefsOf
<1> DEFINE t == [at |-> "reload"]
<1>7. t.at = "reload" /\ Goto(r, t)
  BY <1>1
<1> HIDE DEF t
<1>8. h'[r] = t /\ \A q \in Req : q # r => h'[q] = h[q]
  BY <1>7, GotoIs
<1>9. Knowing
  BY <1>7, <1>8, Unknowing DEF Knowing
<1>10. ApprovedHasDef'
  BY <1>1, <1>3, <1>4, <1>6, <1>8, Backing DEF SameDefs
<1> QED
  BY <1>3, <1>4, <1>5, <1>6, <1>9, <1>10 DEF Moves

\* What an approval does, unless a definition of another origin refuses it.
Approves(d) ==
    /\ donations'[d].status = "approved" /\ \A x \in Nodes : x # d => donations'[x] = donations[x]
    /\ DefsOf(d)' # {} /\ \A x \in Nodes : x # d => DefsOf(x)' = DefsOf(x)

LEMMA ApproveMoves ==
    ASSUME Rest, DefsOK, ApprovedHasDef, NEW r \in Req, NEW d, d = h[r].d,
           ApproveDonation(r)
    PROVE  /\ Moves /\ d \in Nodes
           /\ \/ Goto(r, Idle) /\ UNCHANGED <<rows, twice>>
              \/ Goto(r, [at |-> "reload"]) /\ Approves(d)
<1>1. /\ h[r].at = "approve" /\ UNCHANGED <<snapshots, request>>
      /\ UNCHANGED cut
  BY DEF ApproveDonation, request
<1>2. d \in Nodes /\ h[r].row.key \in Nat
  <2>1. h[r] \in [at : {"approve"}, d : Nodes, row : Donation, bonus : Nat, day : Days]
    BY <1>1, HandlersAre, HeldByReview
  <2> QED
    BY <2>1 DEF Donation
<1>3. h[r].at # "undonate"
  BY <1>1
<1>4. CASE Goto(r, Idle) /\ UNCHANGED <<rows, decided, twice>>
  <2>1. UNCHANGED <<defs, created, twice, cut, donations>>
    BY <1>1, <1>4 DEF rows
  <2>2. Knows(Idle)
    BY IdleIsHandler, Unknowing
  <2>3. Moves
    BY <1>3, <1>4, <2>1, <2>2, AsideMoves
  <2> QED
    BY <1>2, <1>4, <2>3
<1>5. ASSUME Goto(r, [at |-> "reload"]), NEW paid \in BOOLEAN, donations' = Approved(r, paid),
             defs' = SavedDef(r), defs[d].id = 0 \/ defs[d].donation = d,
             created' = IF defs[d].id = 0 THEN created + 1 ELSE created,
             twice' = IF defs[d].id = 0 /\ DefsOf(d) # {} THEN twice \cup {d} ELSE twice
      PROVE  Moves /\ Approves(d)
  <2> DEFINE new == [id |-> IF defs[d].id = 0 THEN created + 1 ELSE defs[d].id, donation |-> d,
                     key |-> h[r].row.key, on |-> TRUE]
  <2>1. defs' = [defs EXCEPT ![d] = new]
    BY <1>2, <1>5 DEF SavedDef, Rest
  <2>2. /\ new \in Def /\ new.donation = d
        /\ new.id = IF defs[d].id = 0 THEN created + 1 ELSE defs[d].id
    BY <1>2, DefFields DEF Def
  <2> HIDE DEF new
  <2>3. donations'[d].status = "approved" /\ \A x \in Nodes : x # d => donations'[x] = donations[x]
    BY <1>2, <1>5 DEF Approved, Rest, Donation
  <2>4. defs'[d] = new /\ \A n \in Nodes : n # d => defs'[n] = defs[n]
    BY <1>2, <2>1 DEF Rest
  <2>5. /\ DefsOK' /\ IdsKept /\ DefsOf(d)' # {}
        /\ \A x \in Nodes : x # d => DefsOf(x)' = DefsOf(x)
    <3>1. CASE defs[d].id = 0
      <4>1. None \notin Nodes
        BY <1>2, DefFields
      <4>2. new.id = created + 1 /\ created' = created + 1
        BY <1>5, <2>2, <3>1
      <4>3. twice' = IF new.donation # None /\ DefsOf(new.donation) # {}
                     THEN twice \cup {new.donation} ELSE twice
        BY <1>2, <1>5, <2>2, <3>1, <4>1
      <4>4. /\ DefsOK' /\ IdsKept
            /\ \A x \in Nodes : DefsOf(x)' = IF x = new.donation THEN DefsOf(x) \cup {d} ELSE DefsOf(x)
        BY <1>2, <2>1, <2>2, <3>1, <4>2, <4>3, DefAdded
      <4> QED
        BY <1>2, <2>2, <4>4
    <3>2. CASE defs[d].id # 0
      <4>1. created' = created /\ twice' = twice /\ new.id = defs[d].id /\ defs[d].donation = d
        BY <1>5, <2>2, <3>2
      <4>2. \A n \in Nodes : /\ defs'[n].id = defs[n].id /\ defs'[n].donation = defs[n].donation
                             /\ defs[n].id = 0 => defs'[n].key = defs[n].key
        BY <2>2, <2>4, <3>2, <4>1
      <4>3. DefsOK' /\ IdsKept
        BY <4>1, <4>2, DefsUntouched
      <4>4. \A x : DefsOf(x)' = DefsOf(x)
        BY <4>2 DEF DefsOf
      <4>5. d \in DefsOf(d)
        BY <1>2, <3>2, <4>1 DEF DefsOf
      <4> QED
        BY <4>3, <4>4, <4>5
    <3> QED
      BY <3>1, <3>2
  <2> DEFINE t == [at |-> "reload"]
  <2>6. t.at = "reload" /\ Goto(r, t)
    BY <1>5
  <2> HIDE DEF t
  <2>7. h'[r] = t /\ \A q \in Req : q # r => h'[q] = h[q]
    BY <2>6, GotoIs
  <2>8. Knowing
    BY <2>6, <2>7, Unknowing DEF Knowing
  <2>9. ApprovedHasDef'
    BY <1>1, <1>2, <2>3, <2>5, <2>7, Backing DEF SameDefs
  <2> QED
    BY <2>3, <2>5, <2>8, <2>9 DEF Moves, Approves
<1>6. \/ Goto(r, Idle) /\ UNCHANGED <<rows, decided, twice>>
      \/ /\ Goto(r, [at |-> "reload"]) /\ (defs[d].id = 0 \/ defs[d].donation = d)
         /\ \E paid \in BOOLEAN : donations' = Approved(r, paid)
         /\ defs' = SavedDef(r)
         /\ created' = IF defs[d].id = 0 THEN created + 1 ELSE created
         /\ twice' = IF defs[d].id = 0 /\ DefsOf(d) # {} THEN twice \cup {d} ELSE twice
  BY DEF ApproveDonation
<1> QED
  BY <1>2, <1>4, <1>5, <1>6

\* PUT /node-defs/:id writes one definition, which may get another node id.
LEMMA UpdateDefMoves ==
    ASSUME Rest, DefsOK, ApprovedHasDef, NEW r \in Req, NEW n \in Nodes, NEW on \in BOOLEAN,
           NEW key \in SentKeys, UpdateDef(r, n, on, key)
    PROVE  /\ Moves
           /\ \/ Goto(r, Idle) /\ UNCHANGED <<defs, twice>>
              \/ Goto(r, [at |-> "reload"]) /\ UNCHANGED twice /\ \A x \in Nodes : SameDefs(x)
<1>1. UNCHANGED <<created, twice, cut, donations>> /\ h[r].at = "put"
  BY DEF UpdateDef, world, request
<1>2. \/ Goto(r, Idle) /\ UNCHANGED defs
      \/ Goto(r, [at |-> "reload"]) /\ UNCHANGED defs
      \/ /\ Goto(r, [at |-> "reload"])
         /\ \E m \in WithId(h[r].id) :
               /\ ~(n # m /\ defs[n].id # 0)
               /\ defs' = [[defs EXCEPT ![m] = NoDef] EXCEPT ![n] = Updated(defs[m], on, key)]
  BY DEF UpdateDef
<1>3. DefsOK' /\ IdsKept /\ \A x \in Nodes : SameDefs(x)
  <2>1. CASE UNCHANGED defs
    BY <1>1, <2>1, DefsUntouched
  <2>2. ASSUME NEW m \in WithId(h[r].id), ~(n # m /\ defs[n].id # 0),
               defs' = [[defs EXCEPT ![m] = NoDef] EXCEPT ![n] = Updated(defs[m], on, key)]
        PROVE  DefsOK' /\ IdsKept /\ \A x \in Nodes : SameDefs(x)
    <3>1. m \in Nodes /\ defs[m].id # 0
      BY DEF WithId
    <3> QED
      BY <1>1, <2>2, <3>1, DefMoved
  <2> QED
    BY <1>2, <2>1, <2>2
<1> DEFINE t == [at |-> "reload"]
<1>4. t.at = "reload" /\ Idle.at = "idle"
  BY IdleIsHandler
<1>5. Goto(r, t) \/ Goto(r, Idle)
  BY <1>2
<1> HIDE DEF t
<1>6. (h'[r] = t \/ h'[r] = Idle) /\ \A q \in Req : q # r => h'[q] = h[q]
  BY <1>5, GotoIs
<1>7. Knowing
  BY <1>4, <1>6, Unknowing DEF Knowing
<1>8. ApprovedHasDef'
  BY <1>1, <1>3, <1>6, Backing
<1> QED
  BY <1>1, <1>2, <1>3, <1>7, <1>8 DEF Moves

\* DELETE /node-defs/:id removes the definition with the id it has read, and
\* goes on to stop the donation behind it.
LEMMA DeleteDefMoves ==
    ASSUME Rest, DefsOK, KnowsOK, ApprovedHasDef, NEW r \in Req, NEW d, d = h[r].d,
           DeleteDef(r)
    PROVE  /\ Moves
           /\ \/ d = None /\ h'[r] = [at |-> "reload"]
              \/ d \in Nodes /\ h'[r].at = "undonate" /\ h'[r].d = d
           /\ \A x \in Nodes : /\ x # d => DefsOf(x)' = DefsOf(x)
                               /\ DefsOf(x)' \subseteq DefsOf(x)
           /\ \A n \in Nodes : defs[n].id = h[r].id => n \in DefsOf(d) /\ n \notin DefsOf(d)'
<1> DEFINE gone == WithId(h[r].id)
<1>1. /\ UNCHANGED <<created, twice, cut, donations>> /\ h[r].at = "delete"
      /\ \A n \in Nodes : defs'[n] = IF n \in gone THEN NoDef ELSE defs[n]
  BY DEF DeleteDef, world, request
<1>2. h[r] \in [at : {"delete", "undonate"}, id : Nat, d : Nodes \cup {None}]
  BY <1>1, HandlersAre, HeldByPool
<1>3. Knows(h[r]) /\ created \in Nat /\ None \notin Nodes
  BY DonationsAssumption, CoreAssumption DEF KnowsOK, Rest
<1>4. \A n \in Nodes : n \in gone <=> defs[n].id = h[r].id
  BY <1>1, <1>3 DEF Knows, WithId
<1>5. \A n \in gone : n \in Nodes /\ defs[n].donation = d /\ n \in DefsOf(d)
  BY <1>1, <1>3 DEF Knows, WithId, DefsOf
<1>6. gone \in SUBSET Nodes
  BY <1>5
<1> HIDE DEF gone
<1>7. /\ DefsOK' /\ IdsKept
      /\ \A x \in Nodes : DefsOf(x)' = DefsOf(x) \ gone
  BY <1>1, <1>6, DefsRemoved
<1>8. \A x \in Nodes : /\ x # d => DefsOf(x)' = DefsOf(x)
                       /\ DefsOf(x)' \subseteq DefsOf(x)
  BY <1>5, <1>7 DEF DefsOf
<1>9. \A n \in gone : n \notin DefsOf(d)'
  BY <1>1, <1>5, NoDefFields DEF DefsOf
<1>10. /\ \A q \in Req : q # r => h'[q] = h[q]
       /\ \/ d = None /\ h'[r] = [at |-> "reload"]
          \/ d \in Nodes /\ h'[r].at = "undonate" /\ h'[r].d = d
  <2>1. CASE d = None
    <3>1. Goto(r, [at |-> "reload"])
      BY <2>1 DEF DeleteDef
    <3> QED
      BY <2>1, <3>1, GotoIs
  <2>2. CASE d # None
    <3> DEFINE s == [h[r] EXCEPT !.at = "undonate"]
    <3>1. Goto(r, s)
      BY <2>2 DEF DeleteDef
    <3>2. s.at = "undonate" /\ s.d = d /\ d \in Nodes
      BY <1>2, <2>2
    <3> HIDE DEF s
    <3> QED
      BY <3>1, <3>2, GotoIs
  <2> QED
    BY <2>1, <2>2
<1>11. h'[r].at \notin {"put", "delete"}
  BY <1>10
<1>12. Knowing
  BY <1>10, <1>11, Unknowing DEF Knowing
<1>13. ApprovedHasDef'
  <2>1. \A q \in Req : h[q].at = "undonate" => h'[q] = h[q]
    BY <1>1, <1>10
  <2>2. \A x \in Nodes : x = d => h'[r].at = "undonate" /\ h'[r].d = x
    BY <1>3, <1>10
  <2>3. \A x \in Nodes : x # d => SameDefs(x)
    BY <1>8 DEF SameDefs
  <2> QED
    BY <1>1, <2>1, <2>2, <2>3, Backing
<1> QED
  BY <1>4, <1>5, <1>7, <1>8, <1>9, <1>10, <1>12, <1>13 DEF Moves

\* The last statement of the deletion stops the donation if it is approved.
LEMMA DisableMoves ==
    ASSUME Rest, DefsOK, ApprovedHasDef, NEW r \in Req, NEW d, d = h[r].d,
           DisableDonation(r)
    PROVE  /\ Moves
           /\ \A x \in Nodes : x # d => donations'[x] = donations[x]
           /\ d \in Nodes => donations'[d].status = IF donations[d].status = "approved"
                                                    THEN "disabled" ELSE donations[d].status
<1>1. /\ UNCHANGED <<defs, created, twice, cut>> /\ h[r].at = "undonate"
      /\ Goto(r, [at |-> "reload"])
      /\ donations' = [donations EXCEPT ![d].status = IF @ = "approved" THEN "disabled" ELSE @]
  BY DEF DisableDonation, world, request
<1>2. DefsOK' /\ IdsKept /\ \A x \in Nodes : SameDefs(x)
  BY <1>1, DefsUntouched
<1>3. \A x \in Nodes : x # d => donations'[x] = donations[x]
  BY <1>1 DEF Rest
<1>4. d \in Nodes => donations'[d].status = IF donations[d].status = "approved"
                                            THEN "disabled" ELSE donations[d].status
  BY <1>1 DEF Rest, Donation
<1> DEFINE t == [at |-> "reload"]
<1>5. t.at = "reload" /\ Goto(r, t)
  BY <1>1
<1> HIDE DEF t
<1>6. h'[r] = t /\ \A q \in Req : q # r => h'[q] = h[q]
  BY <1>5, GotoIs
<1>7. Knowing
  BY <1>5, <1>6, Unknowing DEF Knowing
<1>8. d \in Nodes => donations'[d].status # "approved"
  BY <1>4
<1>9. \A x \in Nodes : donations'[x].status = "approved" => donations[x].status = "approved"
  BY <1>3, <1>8
<1>10. ApprovedHasDef'
  BY <1>1, <1>2, <1>6, <1>8, <1>9, Backing
<1> QED
  BY <1>2, <1>3, <1>4, <1>7, <1>10 DEF Moves

\* A restart forgets the deletions it cuts off; the rules and the clock leave
\* the definitions alone.
LEMMA WorldMoves ==
    ASSUME Rest, DefsOK, ApprovedHasDef, ChangeSettings \/ Midnight \/ Restart \/ UNCHANGED vars
    PROVE  Moves
<1>1. UNCHANGED <<defs, created, twice, donations>>
  BY DEF ChangeSettings, Midnight, Restart, vars, rows, world
<1>2. DefsOK' /\ IdsKept /\ \A x \in Nodes : SameDefs(x)
  BY <1>1, DefsUntouched
<1>3. CASE UNCHANGED <<h, cut>>
  <2>1. Knowing
    BY <1>3 DEF Knowing
  <2>2. ApprovedHasDef'
    BY <1>1, <1>2, <1>3, Backing
  <2> QED
    BY <1>2, <2>1, <2>2 DEF Moves
<1>4. CASE Restart
  <2>1. /\ \A q \in Req : h'[q] = Idle
        /\ cut' = cut \cup {d \in Nodes : \E q \in Req : h[q].at = "undonate" /\ h[q].d = d}
    BY <1>4 DEF Restart
  <2>2. Knowing
    BY <2>1, IdleIsHandler, Unknowing DEF Knowing
  <2>3. ApprovedHasDef'
    BY <1>1, <1>2, <2>1, Backing
  <2> QED
    BY <1>2, <2>2, <2>3 DEF Moves
<1> QED
  BY <1>3, <1>4 DEF ChangeSettings, Midnight, vars, request

PoolRows == DefsOK /\ KnowsOK /\ ApprovedHasDef

LEMMA NextMoves ==
    ASSUME Rest, PoolRows, [Next]_vars
    PROVE  Moves
<1>0. DefsOK /\ KnowsOK /\ ApprovedHasDef
  BY DEF PoolRows
<1>1. ASSUME NEW r \in Req, NEW d \in Nodes, DonorRequest(r, d) PROVE Moves
  BY <1>0, <1>1, RequestMoves
<1>2. ASSUME NEW r \in Req, NEW d \in Nodes, AdminRequest(r, d) PROVE Moves
  BY <1>0, <1>2, RequestMoves, DefRequestMoves, CreateDefMoves DEF AdminRequest
<1>3. ASSUME NEW r \in Req, NEW day \in Days, StartSettle(r, day) PROVE Moves
  BY <1>0, <1>3, RequestMoves
<1>4. ASSUME NEW r \in Req, HandlerStep(r) PROVE Moves
  <2>1. CASE \/ LookUpNodeId(r) \/ SettleDone(r) \/ CreateDonation(r) \/ RotateDonation(r)
             \/ \E net \in Nets : SaveEdit(r, net)
             \/ \E d \in Nodes : SettleDonation(r, d)
             \/ ReloadDefs(r) \/ ReloadPending(r) \/ SwapPools(r) \/ SwapCreds(r)
    BY <1>0, <2>1, AsideSteps
  <2>2. CASE RotateDefs(r) \/ SetDonationOffPool(r) \/ ApproveDonation(r)
    BY <1>0, <2>2, RotateDefsMoves, OffPoolMoves, ApproveMoves
  <2>3. CASE DeleteDef(r) \/ DisableDonation(r)
    BY <1>0, <2>3, DeleteDefMoves, DisableMoves
  <2>4. ASSUME NEW n \in Nodes, NEW on \in BOOLEAN, NEW key \in SentKeys,
             UpdateDef(r, n, on, key)
        PROVE  Moves
    BY <1>0, <2>4, UpdateDefMoves
  <2> QED
    BY <1>4, <2>1, <2>2, <2>3, <2>4 DEF HandlerStep
<1>5. CASE ChangeSettings \/ Midnight \/ Restart \/ UNCHANGED vars
  BY <1>0, <1>5, WorldMoves
<1> QED
  BY <1>1, <1>2, <1>3, <1>4, <1>5 DEF Next

LEMMA PoolRowsStay ==
    ASSUME Rest, PoolRows, [Next]_vars
    PROVE  PoolRows'
<1>1. Moves
  BY NextMoves
<1>2. KnowsOK'
  BY <1>1, KnowsOKStays DEF Moves, PoolRows
<1> QED
  BY <1>1, <1>2 DEF Moves, PoolRows

LEMMA InitPoolRows == Init => PoolRows
<1> SUFFICES ASSUME Init PROVE PoolRows
  OBVIOUS
<1>1. \A n \in Nodes : defs[n].id = 0 /\ defs[n].key = 0
  BY NoDefFields DEF Init
<1>2. created = 0 /\ \A d : DefsOf(d) = {}
  BY <1>1 DEF Init, DefsOf
<1>3. DefsOK
  BY <1>1, <1>2 DEF DefsOK
<1>4. KnowsOK
  BY IdleIsHandler, Unknowing DEF Init, KnowsOK
<1>5. ApprovedHasDef
  BY DEF Init, ApprovedHasDef, NoDonation
<1> QED
  BY <1>3, <1>4, <1>5 DEF PoolRows

-----------------------------------------------------------------------------
(* One request at a time: what store and memory have to do with each other *)
(* after every statement of it.                                            *)

\* The rows are in step: what is approved is defined, what is defined is approved,
\* or was stopped while it had two definitions.
InStep(d) ==
    /\ donations[d].status = "approved" => DefsOf(d) # {}
    /\ DefsOf(d) # {} => \/ donations[d].status = "approved"
                         \/ donations[d].status = "disabled" /\ d \in twice

Defined == \A d \in Nodes : InStep(d)

\* The snapshots say what the rows say.
PoolLoaded == pool = PoolOf(defs)

CredsLoaded ==
    /\ \A n \in Nodes : defs[n].key # 0 => creds[n] = defs[n].key
    /\ \A d \in Nodes : donations[d].status = "pending" /\ defs[d].id = 0 /\ d \notin unloaded
                           => creds[d] = donations[d].key

Before == {"idle", "counted", "named", "edit", "rotate", "offpool", "approve", "settle",
           "put", "delete"}

\* What one request at a time may rely on, wherever it is.
Orderly(s) ==
    /\ s.at # "undonate" => Defined
    /\ s.at = "undonate" =>
          \A d \in Nodes : \/ d # s.d /\ InStep(d)
                           \/ d = s.d /\ DefsOf(d) = {}
                           \/ d = s.d /\ d \in twice /\ donations[d].status \in {"approved", "disabled"}
    /\ s.at \in Before => PoolLoaded /\ CredsLoaded
    /\ s.at = "edit" => donations[s.d].status \in {"pending", "rejected"}
    /\ s.at = "delete" => \E n \in Nodes : defs[n].id = s.id
    /\ s.at \in {"reload2", "swap"} => s.pool = PoolOf(defs)
    /\ s.at = "reload2" => s.creds = CredsOf(defs)
    /\ s.at \in {"swap", "swap2"} => s.creds = WithPending(CredsOf(defs), donations)
    /\ s.at = "swap2" => PoolLoaded

\* While requests do not overlap, at most one is under way.
SeqInv ==
    ~raced => /\ \A r, q \in Req : h[r] # Idle /\ h[q] # Idle => r = q
              /\ \A r \in Req : h[r] # Idle => Orderly(h[r])
              /\ (\A r \in Req : h[r] = Idle) => Orderly(Idle)

\* What a step leaves of a donation's row for the definitions and the keys.
SameRow(x) == donations'[x].status = donations[x].status /\ donations'[x].key = donations[x].key

LEMMA InStepStays ==
    ASSUME NEW x \in Nodes, InStep(x), SameDefs(x), twice \subseteq twice',
           donations'[x].status = donations[x].status
    PROVE  InStep(x)'
BY DEF InStep, SameDefs

LEMMA Aligned ==
    ASSUME UNCHANGED <<defs, twice>>, \A x \in Nodes : SameRow(x), Defined
    PROVE  Defined'
<1>1. \A x : DefsOf(x)' = DefsOf(x)
  BY DEF DefsOf
<1> QED
  BY <1>1 DEF Defined, InStep, SameRow

LEMMA StillLoaded ==
    ASSUME UNCHANGED <<defs, pool, creds, unloaded>>, \A x \in Nodes : SameRow(x),
           PoolLoaded, CredsLoaded
    PROVE  PoolLoaded' /\ CredsLoaded'
<1>1. PoolLoaded'
  BY DEF PoolLoaded
<1>2. CredsLoaded'
  BY DEF CredsLoaded, SameRow
<1> QED
  BY <1>1, <1>2

LEMMA IdleOrderly == Orderly(Idle) <=> Defined /\ PoolLoaded /\ CredsLoaded
BY IdleIsHandler DEF Orderly, Before

LEMMA SeqMoves ==
    ASSUME NEW r \in Req, NEW s, h'[r] = s, s.at = "idle" => s = Idle,
           \A q \in Req : q # r => h'[q] = Idle, ~raced' => Orderly(s)'
    PROVE  SeqInv'
<1> SUFFICES ASSUME ~raced' PROVE SeqInv'
  BY DEF SeqInv
<1>1. \A q \in Req : h'[q] # Idle => q = r
  OBVIOUS
<1>2. \A q \in Req : h'[q] # Idle => Orderly(s)' /\ h'[q] = s
  BY <1>1
<1>3. \A q \in Req : h'[q] # Idle => Orderly(h[q])'
  BY <1>2 DEF Orderly
<1>4. (\A q \in Req : h'[q] = Idle) => s = Idle /\ Orderly(s)'
  OBVIOUS
<1>5. (\A q \in Req : h'[q] = Idle) => Orderly(Idle)'
  BY <1>4 DEF Orderly
<1> QED
  BY <1>1, <1>3, <1>5 DEF SeqInv

\* The request under way is alone.
LEMMA Alone ==
    ASSUME SeqInv, ~raced, NEW r \in Req, h[r].at # "idle"
    PROVE  Orderly(h[r]) /\ \A q \in Req : q # r => h[q] = Idle
BY IdleIsHandler DEF SeqInv

\* A request starts when nothing else is under way, or it overlaps.
LEMMA SeqStarts ==
    ASSUME SeqInv, Rest, NEW r \in Req, NEW s, Start(r, s),
           UNCHANGED <<donations, defs, snapshots, twice>>,
           s.at \in Before \ {"idle"}, s.at = "edit" => donations[s.d].status \in {"pending", "rejected"},
           s.at = "delete" => \E n \in Nodes : defs[n].id = s.id
    PROVE  SeqInv'
<1> SUFFICES ASSUME ~raced' PROVE SeqInv'
  BY DEF SeqInv
<1>1. ~raced /\ \A q \in Req : h[q] = Idle
  BY DEF Start, Rest
<1>2. Defined /\ PoolLoaded /\ CredsLoaded
  BY <1>1, IdleOrderly DEF SeqInv
<1>3. h'[r] = s /\ (\A q \in Req : q # r => h'[q] = h[q]) /\ unloaded' = unloaded
  BY GotoIs DEF Start
<1>4. \A x \in Nodes : SameRow(x)
  BY DEF SameRow
<1>5. Defined' /\ PoolLoaded' /\ CredsLoaded'
  BY <1>2, <1>3, <1>4, Aligned, StillLoaded DEF snapshots
<1>6. s.at = "edit" => donations'[s.d].status \in {"pending", "rejected"}
  OBVIOUS
<1>7. s.at = "delete" => \E n \in Nodes : defs'[n].id = s.id
  OBVIOUS
<1>8. Orderly(s)'
  BY <1>5, <1>6, <1>7 DEF Orderly, Before
<1> QED
  BY <1>1, <1>3, <1>8, SeqMoves DEF Before

\* A request that ends, or goes on, with nothing changed that the snapshots say.
LEMMA SeqAside ==
    ASSUME SeqInv, Rest, NEW r \in Req, NEW s, Goto(r, s), s \in Handler,
           h[r].at \in Before \ {"idle"}, s.at \in Before \ {"edit", "delete"},
           UNCHANGED <<defs, snapshots, twice, unloaded, raced>>, \A x \in Nodes : SameRow(x)
    PROVE  SeqInv'
<1> SUFFICES ASSUME ~raced' PROVE SeqInv'
  BY DEF SeqInv
<1>1. Orderly(h[r]) /\ \A q \in Req : q # r => h[q] = Idle
  BY Alone
<1>2. Defined /\ PoolLoaded /\ CredsLoaded
  BY <1>1 DEF Orderly, Before
<1>3. Defined' /\ PoolLoaded' /\ CredsLoaded'
  BY <1>2, Aligned, StillLoaded DEF snapshots
<1>4. Orderly(s)'
  BY <1>3 DEF Orderly, Before
<1>5. h'[r] = s /\ \A q \in Req : q # r => h'[q] = Idle
  BY <1>1, GotoIs
<1>6. s.at = "idle" => s = Idle
  BY HeldByDonor
<1> QED
  BY <1>4, <1>5, <1>6, SeqMoves

\* A request that has changed rows and goes on to the reload.
LEMMA SeqReload ==
    ASSUME SeqInv, Rest, NEW r \in Req, Goto(r, [at |-> "reload"]), h[r].at # "idle",
           raced' = raced, ~raced => Defined'
    PROVE  SeqInv'
<1> SUFFICES ASSUME ~raced' PROVE SeqInv'
  BY DEF SeqInv
<1> DEFINE t == [at |-> "reload"]
<1>1. t.at = "reload" /\ Goto(r, t)
  OBVIOUS
<1> HIDE DEF t
<1>2. h'[r] = t /\ \A q \in Req : q # r => h'[q] = Idle
  BY <1>1, GotoIs, Alone
<1>3. Orderly(t)'
  BY <1>1 DEF Orderly, Before
<1> QED
  BY <1>1, <1>2, <1>3, SeqMoves

LEMMA SeqRequests ==
    ASSUME SeqInv, Rest, NEW r \in Req, NEW d \in Nodes,
           DonorRequest(r, d) \/ StartApprove(r, d) \/ StartPut(r, d) \/ StartDelete(r, d)
           \/ \E to \in {"rejected", "disabled"} : StartRefuse(r, d, to)
    PROVE  SeqInv'
<1>1. ASSUME NEW s, Start(r, s), UNCHANGED <<rows, snapshots, world>>,
             s.at \in Before \ {"idle"},
             s.at = "edit" => donations[s.d].status \in {"pending", "rejected"},
             s.at = "delete" => \E n \in Nodes : defs[n].id = s.id
      PROVE  SeqInv'
  <2>1. UNCHANGED <<donations, defs, snapshots, twice>>
    BY <1>1 DEF rows, world
  <2> QED
    BY <1>1, <2>1, SeqStarts
<1>2. ASSUME NEW u \in Users, NEW net \in Nets, StartSubmit(r, u, d, net) PROVE SeqInv'
  <2> DEFINE s == [at |-> "counted", user |-> u, d |-> d, net |-> net]
  <2>1. Start(r, s) /\ UNCHANGED <<rows, snapshots, world>> /\ s.at = "counted"
    BY <1>2 DEF StartSubmit
  <2> HIDE DEF s
  <2> QED
    BY <1>1, <2>1 DEF Before
<1>3. CASE StartEdit(r, d)
  <2> DEFINE s == [at |-> "edit", d |-> d]
  <2>1. Start(r, s) /\ UNCHANGED <<rows, snapshots, world>> /\ s.at = "edit"
        /\ donations[s.d].status \in {"pending", "rejected"}
    BY <1>3 DEF StartEdit
  <2> HIDE DEF s
  <2> QED
    BY <1>1, <2>1 DEF Before
<1>4. CASE StartRotate(r, d)
  <2> DEFINE s == [at |-> "rotate", d |-> d]
  <2>1. Start(r, s) /\ UNCHANGED <<rows, snapshots, world>> /\ s.at = "rotate"
    BY <1>4 DEF StartRotate
  <2> HIDE DEF s
  <2> QED
    BY <1>1, <2>1 DEF Before
<1>5. CASE StartWithdraw(r, d)
  <2> DEFINE s == [at |-> "offpool", d |-> d, to |-> "withdrawn", day |-> 0]
  <2>1. Start(r, s) /\ UNCHANGED <<rows, snapshots, world>> /\ s.at = "offpool"
    BY <1>5 DEF StartWithdraw
  <2> HIDE DEF s
  <2> QED
    BY <1>1, <2>1 DEF Before
<1>6. ASSUME NEW to, StartRefuse(r, d, to) PROVE SeqInv'
  <2> DEFINE s == [at |-> "offpool", d |-> d, to |-> to, day |-> today]
  <2>1. Start(r, s) /\ UNCHANGED <<rows, snapshots, world>> /\ s.at = "offpool"
    BY <1>6 DEF StartRefuse
  <2> HIDE DEF s
  <2> QED
    BY <1>1, <2>1 DEF Before
<1>7. CASE StartApprove(r, d)
  <2> DEFINE s == [at |-> "approve", d |-> d, row |-> donations[d], day |-> today,
                   bonus |-> IF conf.on /\ donations[d].bonus = 0
                             THEN conf.bonus[donations[d].net] ELSE 0]
  <2>1. Start(r, s) /\ UNCHANGED <<rows, snapshots, world>> /\ s.at = "approve"
    BY <1>7 DEF StartApprove
  <2> HIDE DEF s
  <2> QED
    BY <1>1, <2>1 DEF Before
<1>8. CASE StartPut(r, d)
  <2> DEFINE s == [at |-> "put", n |-> d, id |-> defs[d].id]
  <2>1. Start(r, s) /\ UNCHANGED <<rows, snapshots, world>> /\ s.at = "put"
    BY <1>8 DEF StartPut
  <2> HIDE DEF s
  <2> QED
    BY <1>1, <2>1 DEF Before
<1>9. CASE StartDelete(r, d)
  <2> DEFINE s == [at |-> "delete", id |-> defs[d].id, d |-> defs[d].donation]
  <2>1. Start(r, s) /\ UNCHANGED <<rows, snapshots, world>> /\ s.at = "delete" /\ defs[d].id = s.id
    BY <1>9 DEF StartDelete
  <2> HIDE DEF s
  <2> QED
    BY <1>1, <2>1 DEF Before
<1> QED
  BY <1>2, <1>3, <1>4, <1>5, <1>6, <1>7, <1>8, <1>9 DEF DonorRequest

LEMMA SeqSettles ==
    ASSUME SeqInv, Rest, NEW r \in Req, NEW day \in Days, StartSettle(r, day)
    PROVE  SeqInv'
<1> DEFINE s == [at |-> "settle", todo |-> Settled(day), day |-> day,
                 pay |-> [d \in Nodes |-> conf.daily[donations[d].net]]]
<1>1. Start(r, s) /\ UNCHANGED <<donations, defs, snapshots, twice>> /\ s.at = "settle"
  BY DEF StartSettle, rows, world
<1> HIDE DEF s
<1> QED
  BY <1>1, SeqStarts DEF Before

\* POST /node-defs starts with the insertion, and goes on to the reload.
LEMMA SeqCreateDef ==
    ASSUME SeqInv, Rest, DefsOK, ApprovedHasDef, NEW r \in Req, NEW n \in Nodes,
           NEW s \in Settings, CreateDef(r, n, s[1], s[2])
    PROVE  SeqInv'
<1> SUFFICES ASSUME ~raced' PROVE SeqInv'
  BY DEF SeqInv
<1>1. Start(r, [at |-> "reload"]) /\ UNCHANGED <<donations, twice>>
  BY DEF CreateDef, world
<1>2. ~raced /\ \A q \in Req : h[q] = Idle
  BY <1>1 DEF Start, Rest
<1>3. Defined
  BY <1>2, IdleOrderly DEF SeqInv
<1>4. \A x \in Nodes : SameDefs(x)
  BY CreateDefMoves DEF SameDefs
<1>5. Defined'
  BY <1>1, <1>3, <1>4, InStepStays DEF Defined
<1> DEFINE t == [at |-> "reload"]
<1>6. t.at = "reload" /\ Goto(r, t)
  BY <1>1 DEF Start
<1> HIDE DEF t
<1>7. h'[r] = t /\ \A q \in Req : q # r => h'[q] = Idle
  BY <1>2, <1>6, GotoIs
<1>8. Orderly(t)'
  BY <1>5, <1>6 DEF Orderly, Before
<1> QED
  BY <1>6, <1>7, <1>8, SeqMoves

LEMMA SeqEnds ==
    ASSUME SeqInv, Rest, NEW r \in Req,
           LookUpNodeId(r) \/ SettleDone(r) \/ \E d \in Nodes : SettleDonation(r, d)
    PROVE  SeqInv'
<1>0. h[r] \in Handler /\ Idle \in Handler /\ Idle.at = "idle"
  BY HandlersAre, IdleIsHandler
<1>1. UNCHANGED <<defs, snapshots, twice, unloaded, raced>>
  BY DEF LookUpNodeId, SettleDone, SettleDonation, rows, world, request
<1>2. \A x \in Nodes : SameRow(x)
  <2>1. CASE UNCHANGED donations
    BY <2>1 DEF SameRow
  <2>2. ASSUME NEW d \in Nodes, SettleDonation(r, d), ~UNCHANGED donations
        PROVE  \A x \in Nodes : SameRow(x)
    BY <2>2 DEF SettleDonation, Rest, Donation, rows, SameRow
  <2> QED
    BY <2>1, <2>2 DEF LookUpNodeId, SettleDone, SettleDonation, rows
<1>3. ASSUME NEW s, Goto(r, s), s \in Handler, h[r].at \in {"counted", "settle"},
             s.at \in {"idle", "named", "settle"}
      PROVE  SeqInv'
  <2>1. h[r].at \in Before \ {"idle"} /\ s.at \in Before \ {"edit", "delete"}
    BY <1>3 DEF Before
  <2> QED
    BY <1>1, <1>2, <1>3, <2>1, SeqAside
<1>4. CASE Goto(r, Idle) /\ h[r].at \in {"counted", "settle"}
  BY <1>0, <1>3, <1>4
<1>5. CASE LookUpNodeId(r) /\ Goto(r, [h[r] EXCEPT !.at = "named"])
  <2> DEFINE s == [h[r] EXCEPT !.at = "named"]
             Set == [at : {"counted", "named"}, user : Users, d : Nodes, net : Nets]
  <2>1. h[r] \in Set /\ h[r].at = "counted"
    BY <1>0, <1>5, HeldByDonor DEF LookUpNodeId
  <2>2. s.at = "named" /\ s \in Set /\ Goto(r, s)
    BY <1>5, <2>1
  <2> HIDE DEF s
  <2>3. s \in Handler
    BY <2>2 DEF Handler
  <2> QED
    BY <1>3, <2>1, <2>2, <2>3
<1>6. ASSUME NEW d \in Nodes, SettleDonation(r, d) PROVE SeqInv'
  <2> DEFINE s == [h[r] EXCEPT !.todo = @ \ {d}]
             Set == [at : {"settle"}, todo : SUBSET Nodes, pay : [Nodes -> Nat], day : Days]
  <2>1. h[r] \in Set /\ h[r].at = "settle"
    BY <1>0, <1>6, HeldByReview DEF SettleDonation
  <2>2. s.at = "settle" /\ s \in Set /\ Goto(r, s)
    BY <1>6, <2>1 DEF SettleDonation
  <2> HIDE DEF s
  <2>3. s \in Handler
    BY <2>2 DEF Handler
  <2> QED
    BY <1>3, <2>1, <2>2, <2>3
<1> QED
  BY <1>4, <1>5, <1>6 DEF LookUpNodeId, SettleDone

\* The row of an application: a new node id, one edited, one with a new key.
LEMMA SeqRows ==
    ASSUME SeqInv, Rest, NEW r \in Req,
           CreateDonation(r) \/ RotateDonation(r) \/ \E net \in Nets : SaveEdit(r, net)
    PROVE  SeqInv'
<1>0. h[r] \in Handler /\ Idle \in Handler /\ Idle.at = "idle"
  BY HandlersAre, IdleIsHandler
<1>1. UNCHANGED <<defs, snapshots, twice, raced>>
  BY DEF CreateDonation, RotateDonation, SaveEdit, world, request
<1>2. \A x : DefsOf(x)' = DefsOf(x)
  BY <1>1 DEF DefsOf
<1>3. CASE CreateDonation(r)
  <2> DEFINE d == h[r].d
             new == [NoDonation EXCEPT !.status = "pending", !.owner = h[r].user,
                                       !.net = h[r].net, !.key = issued + 1]
  <2>1. d \in Nodes /\ h[r].at = "named" /\ unloaded' = unloaded
    BY <1>0, <1>3, HeldByDonor DEF CreateDonation, request
  <2>2. CASE Exists(d)
    <3>1. Goto(r, Idle) /\ donations' = donations
      BY <1>3, <2>2 DEF CreateDonation
    <3>2. \A x \in Nodes : SameRow(x)
      BY <3>1 DEF SameRow
    <3>3. h[r].at \in Before \ {"idle"} /\ Idle.at \in Before \ {"edit", "delete"}
      BY <1>0, <2>1 DEF Before
    <3> HIDE DEF d, new
    <3> QED
      BY <1>0, <1>1, <2>1, <3>1, <3>2, <3>3, SeqAside
  <2>3. CASE ~Exists(d)
    <3>1. Goto(r, [at |-> "reload"]) /\ donations' = [donations EXCEPT ![d] = new]
      BY <1>3, <2>3 DEF CreateDonation
    <3>2. new.status = "pending"
      BY DEF NoDonation
    <3>3. donations[d].status = "none"
      BY <2>3 DEF Exists
    <3>4. \A x \in Nodes : \/ donations'[x].status = donations[x].status
                           \/ donations[x].status = "none" /\ donations'[x].status = "pending"
      <4> HIDE DEF new, d
      <4>1. donations'[d] = new /\ \A x \in Nodes : x # d => donations'[x] = donations[x]
        BY <2>1, <3>1 DEF Rest
      <4> QED
        BY <3>2, <3>3, <4>1
    <3>5. ~raced => Defined'
      <4> SUFFICES ASSUME ~raced PROVE Defined'
        OBVIOUS
      <4>1. Defined
        BY <2>1, Alone DEF Orderly
      <4> QED
        BY <1>1, <1>2, <3>4, <4>1 DEF Defined, InStep
    <3> QED
      BY <1>1, <2>1, <3>1, <3>5, SeqReload
  <2> QED
    BY <2>2, <2>3
<1>4. CASE RotateDonation(r)
  <2>1. h[r].d \in Nodes /\ h[r].at = "rotate"
    BY <1>0, <1>4, HeldByDonor DEF RotateDonation
  <2>2. \A x \in Nodes : donations'[x].status = donations[x].status
    BY <1>4, <2>1 DEF RotateDonation, Rest, Donation
  <2>3. PICK s : s.at = "rotated" /\ Goto(r, s)
    BY <1>4 DEF RotateDonation
  <2>4. h'[r] = s /\ \A q \in Req : q # r => h'[q] = h[q]
    BY <2>3, GotoIs
  <2>5. ~raced => Orderly(s)' /\ \A q \in Req : q # r => h[q] = Idle
    <3> SUFFICES ASSUME ~raced PROVE Orderly(s)' /\ \A q \in Req : q # r => h[q] = Idle
      OBVIOUS
    <3>1. Defined /\ \A q \in Req : q # r => h[q] = Idle
      BY <2>1, Alone DEF Orderly
    <3>2. Defined'
      BY <1>1, <1>2, <2>2, <3>1 DEF Defined, InStep
    <3> QED
      BY <2>3, <3>1, <3>2 DEF Orderly, Before
  <2>6. raced' => SeqInv'
    BY DEF SeqInv
  <2> QED
    BY <1>1, <2>3, <2>4, <2>5, <2>6, SeqMoves
<1>5. ASSUME NEW net \in Nets, SaveEdit(r, net) PROVE SeqInv'
  <2>1. h[r].d \in Nodes /\ h[r].at = "edit" /\ Goto(r, Idle)
    BY <1>0, <1>5, HeldByDonor DEF SaveEdit
  <2>2. \A x \in Nodes : x # h[r].d => donations'[x] = donations[x]
    BY <1>5, <2>1 DEF SaveEdit, Rest
  <2>3. \A x \in Nodes : x = h[r].d => donations'[x].status = "pending"
    BY <1>5, <2>1 DEF SaveEdit, Rest, Donation
  <2>4. unloaded' = unloaded \cup {h[r].d}
    BY <1>5 DEF SaveEdit
  <2>5. h'[r] = Idle /\ \A q \in Req : q # r => h'[q] = h[q]
    BY <2>1, GotoIs
  <2>6. ~raced => Orderly(Idle)' /\ \A q \in Req : q # r => h[q] = Idle
    <3> SUFFICES ASSUME ~raced PROVE Orderly(Idle)' /\ \A q \in Req : q # r => h[q] = Idle
      OBVIOUS
    <3>1. /\ Defined /\ PoolLoaded /\ CredsLoaded /\ (\A q \in Req : q # r => h[q] = Idle)
          /\ donations[h[r].d].status \in {"pending", "rejected"}
      BY <2>1, Alone DEF Orderly, Before
    <3>2. Defined'
      BY <1>1, <1>2, <2>2, <2>3, <3>1 DEF Defined, InStep
    <3>3. PoolLoaded'
      BY <1>1, <3>1 DEF PoolLoaded, snapshots
    <3>4. CredsLoaded'
      BY <1>1, <2>2, <2>4, <3>1 DEF CredsLoaded, snapshots
    <3>5. Orderly(Idle)' <=> Defined' /\ PoolLoaded' /\ CredsLoaded'
      BY <1>0 DEF Orderly, Before
    <3> QED
      BY <3>1, <3>2, <3>3, <3>4, <3>5
  <2>7. raced' => SeqInv'
    BY DEF SeqInv
  <2> QED
    BY <1>1, <2>5, <2>6, <2>7, SeqMoves
<1> QED
  BY <1>3, <1>4, <1>5

\* Keys rotated, definitions edited, donations stopped or approved.
LEMMA SeqDefs ==
    ASSUME SeqInv, Rest, DefsOK, ApprovedHasDef, NEW r \in Req,
           \/ RotateDefs(r) \/ SetDonationOffPool(r) \/ ApproveDonation(r)
           \/ \E n \in Nodes, on \in BOOLEAN, key \in SentKeys : UpdateDef(r, n, on, key)
    PROVE  SeqInv'
<1>0. Idle \in Handler /\ Idle.at \in Before \ {"edit", "delete"}
  BY IdleIsHandler DEF Before
<1>1. UNCHANGED <<snapshots, unloaded, raced>> /\ h[r].at \in {"rotated", "offpool", "approve", "put"}
  BY DEF RotateDefs, SetDonationOffPool, ApproveDonation, UpdateDef, request
<1>2. h[r].at # "undonate" /\ h[r].at # "idle"
  BY <1>1
<1>3. ~raced => Defined
  BY <1>2, Alone DEF Orderly
<1>4. CASE RotateDefs(r)
  <2>1. UNCHANGED <<donations, twice>> /\ Goto(r, [at |-> "reload"])
    BY <1>4 DEF RotateDefs, world
  <2>2. ~raced => Defined'
    BY <1>3, <1>4, <2>1, RotateDefsMoves, InStepStays DEF Defined
  <2> QED
    BY <1>1, <1>2, <2>1, <2>2, SeqReload
<1>5. CASE SetDonationOffPool(r)
  <2>1. PICK d : d = h[r].d
    OBVIOUS
  <2>2. /\ d \in Nodes /\ donations'[d].status \in {"withdrawn", "rejected", "disabled"}
        /\ \A x \in Nodes : x # d => donations'[x] = donations[x]
        /\ DefsOf(d)' = {} /\ \A x \in Nodes : x # d => DefsOf(x)' = DefsOf(x)
    BY <1>5, <2>1, OffPoolMoves
  <2>3. UNCHANGED twice /\ Goto(r, [at |-> "reload"])
    BY <1>5 DEF SetDonationOffPool, world
  <2>4. ~raced => Defined'
    <3>1. InStep(d)'
      BY <2>2 DEF InStep
    <3>2. ASSUME Defined, NEW x \in Nodes, x # d PROVE InStep(x)'
      BY <2>2, <2>3, <3>2, InStepStays DEF Defined, SameDefs
    <3> QED
      BY <1>3, <3>1, <3>2 DEF Defined
  <2> QED
    BY <1>1, <1>2, <2>3, <2>4, SeqReload
<1>6. CASE ApproveDonation(r)
  <2>1. PICK d : d = h[r].d
    OBVIOUS
  <2>2. /\ d \in Nodes
        /\ \/ Goto(r, Idle) /\ UNCHANGED <<rows, twice>>
           \/ Goto(r, [at |-> "reload"]) /\ Approves(d)
    BY <1>6, <2>1, ApproveMoves
  <2>3. CASE Goto(r, Idle) /\ UNCHANGED <<rows, twice>>
    <3>1. UNCHANGED <<defs, donations>> /\ \A x \in Nodes : SameRow(x)
      BY <2>3 DEF rows, SameRow
    <3>2. h[r].at \in Before \ {"idle"}
      BY <1>6 DEF ApproveDonation, Before
    <3> QED
      BY <1>0, <1>1, <2>3, <3>1, <3>2, SeqAside
  <2>4. CASE Goto(r, [at |-> "reload"]) /\ Approves(d)
    <3>1. twice \subseteq twice'
      BY <1>6 DEF ApproveDonation
    <3>2. InStep(d)'
      BY <2>4 DEF InStep, Approves
    <3>3. ASSUME Defined, NEW x \in Nodes, x # d PROVE InStep(x)'
      BY <2>4, <3>1, <3>3, InStepStays DEF Defined, SameDefs, Approves
    <3>4. ~raced => Defined'
      BY <1>3, <3>2, <3>3 DEF Defined
    <3> QED
      BY <1>1, <1>2, <2>4, <3>4, SeqReload
  <2> QED
    BY <2>2, <2>3, <2>4
<1>7. ASSUME NEW n \in Nodes, NEW on \in BOOLEAN, NEW key \in SentKeys,
             UpdateDef(r, n, on, key)
      PROVE  SeqInv'
  <2>1. UNCHANGED donations
    BY <1>7 DEF UpdateDef
  <2>2. \/ Goto(r, Idle) /\ UNCHANGED <<defs, twice>>
        \/ Goto(r, [at |-> "reload"]) /\ UNCHANGED twice /\ \A x \in Nodes : SameDefs(x)
    BY <1>7, UpdateDefMoves
  <2>3. CASE Goto(r, Idle) /\ UNCHANGED <<defs, twice>>
    <3>1. h[r].at \in Before \ {"idle"} /\ \A x \in Nodes : SameRow(x)
      BY <1>7, <2>1 DEF UpdateDef, Before, SameRow
    <3> QED
      BY <1>0, <1>1, <2>3, <3>1, SeqAside
  <2>4. CASE Goto(r, [at |-> "reload"]) /\ UNCHANGED twice /\ \A x \in Nodes : SameDefs(x)
    <3>1. ~raced => Defined'
      BY <1>3, <2>1, <2>4, InStepStays DEF Defined
    <3> QED
      BY <1>1, <1>2, <2>4, <3>1, SeqReload
  <2> QED
    BY <2>2, <2>3, <2>4
<1> QED
  BY <1>4, <1>5, <1>6, <1>7

\* Between the two statements of a deletion its donation may be approved without
\* a definition; if one is left it had two.
LEMMA SeqDelete ==
    ASSUME SeqInv, Rest, DefsOK, KnowsOK, ApprovedHasDef, NEW r \in Req, DeleteDef(r)
    PROVE  SeqInv'
<1> SUFFICES ASSUME ~raced' PROVE SeqInv'
  BY DEF SeqInv
<1>1. UNCHANGED <<donations, twice, raced>> /\ h[r].at = "delete"
  BY DEF DeleteDef, world, request
<1>2. Orderly(h[r]) /\ \A q \in Req : q # r => h[q] = Idle
  BY <1>1, Alone
<1>3. Defined /\ \E n \in Nodes : defs[n].id = h[r].id
  BY <1>1, <1>2 DEF Orderly
<1>4. PICK d : d = h[r].d
  OBVIOUS
<1>5. /\ \/ d = None /\ h'[r] = [at |-> "reload"]
         \/ d \in Nodes /\ h'[r].at = "undonate" /\ h'[r].d = d
      /\ \A x \in Nodes : /\ x # d => DefsOf(x)' = DefsOf(x)
                          /\ DefsOf(x)' \subseteq DefsOf(x)
      /\ \A n \in Nodes : defs[n].id = h[r].id => n \in DefsOf(d) /\ n \notin DefsOf(d)'
  BY <1>4, DeleteDefMoves
<1>6. \A x \in Nodes : x # d => InStep(x)'
  BY <1>1, <1>3, <1>5 DEF Defined, InStep
<1>7. PICK s : h'[r] = s
  OBVIOUS
<1>8. \A q \in Req : q # r => h'[q] = Idle
  BY <1>2 DEF DeleteDef, Goto, Rest
<1>9. CASE d = None /\ s = [at |-> "reload"]
  <2>1. None \notin Nodes
    BY DonationsAssumption, CoreAssumption
  <2>2. Defined' /\ s.at = "reload"
    BY <1>6, <1>9, <2>1 DEF Defined
  <2>3. Orderly(s)'
    BY <2>2 DEF Orderly, Before
  <2> QED
    BY <1>7, <1>8, <2>2, <2>3, SeqMoves
<1>10. CASE d \in Nodes /\ s.at = "undonate" /\ s.d = d
  <2>1. DefsOf(d)' # {} => d \in twice' /\ donations'[d].status \in {"approved", "disabled"}
    <3> SUFFICES ASSUME NEW m \in DefsOf(d)'
                 PROVE  d \in twice' /\ donations'[d].status \in {"approved", "disabled"}
      OBVIOUS
    <3>1. PICK n \in Nodes : n \in DefsOf(d) /\ n \notin DefsOf(d)'
      BY <1>3, <1>5
    <3>2. m \in DefsOf(d) /\ m # n /\ m \in Nodes
      BY <1>5, <1>10, <3>1 DEF DefsOf
    <3>3. d \in twice
      BY <1>10, <3>1, <3>2 DEF DefsOK
    <3>4. donations[d].status \in {"approved", "disabled"}
      BY <1>3, <1>10, <3>2 DEF Defined, InStep
    <3> QED
      BY <1>1, <3>3, <3>4
  <2>2. Orderly(s)'
    BY <1>6, <1>10, <2>1 DEF Orderly, Before
  <2> QED
    BY <1>7, <1>8, <1>10, <2>2, SeqMoves
<1> QED
  BY <1>5, <1>7, <1>9, <1>10

LEMMA SeqDisable ==
    ASSUME SeqInv, Rest, DefsOK, ApprovedHasDef, NEW r \in Req, DisableDonation(r)
    PROVE  SeqInv'
<1>1. UNCHANGED <<defs, twice, raced>> /\ h[r].at = "undonate" /\ Goto(r, [at |-> "reload"])
  BY DEF DisableDonation, world, request
<1>2. PICK d : d = h[r].d
  OBVIOUS
<1>3. /\ \A x \in Nodes : x # d => donations'[x] = donations[x]
      /\ d \in Nodes => donations'[d].status = IF donations[d].status = "approved"
                                               THEN "disabled" ELSE donations[d].status
  BY <1>2, DisableMoves
<1>4. \A x : DefsOf(x)' = DefsOf(x)
  BY <1>1 DEF DefsOf
<1>5. ~raced => Defined'
  <2> SUFFICES ASSUME ~raced, NEW x \in Nodes PROVE InStep(x)'
    BY DEF Defined
  <2>1. Orderly(h[r])
    BY <1>1, Alone
  <2>2. \/ x # d /\ InStep(x)
        \/ x = d /\ DefsOf(x) = {}
        \/ x = d /\ x \in twice /\ donations[x].status \in {"approved", "disabled"}
    BY <1>1, <1>2, <2>1 DEF Orderly
  <2>3. CASE x # d
    BY <1>1, <1>3, <1>4, <2>2, <2>3 DEF InStep
  <2>4. CASE x = d
    BY <1>1, <1>3, <1>4, <2>2, <2>4 DEF InStep
  <2> QED
    BY <2>3, <2>4
<1> QED
  BY <1>1, <1>5, SeqReload

\* The four steps of a reload load what the rows say.
LEMMA SeqLoads ==
    ASSUME SeqInv, Rest, DefsOK, NEW r \in Req,
           ReloadDefs(r) \/ ReloadPending(r) \/ SwapPools(r) \/ SwapCreds(r)
    PROVE  SeqInv'
<1> SUFFICES ASSUME ~raced' PROVE SeqInv'
  BY DEF SeqInv
<1>1. UNCHANGED <<defs, donations, twice, raced>> /\ h[r].at \in {"reload", "reload2", "swap", "swap2"}
  BY DEF ReloadDefs, ReloadPending, SwapPools, SwapCreds, rows, world, request
<1>2. Orderly(h[r]) /\ \A q \in Req : q # r => h[q] = Idle
  BY <1>1, Alone
<1>3. Defined /\ \A x \in Nodes : SameRow(x)
  BY <1>1, <1>2 DEF Orderly, SameRow
<1>4. Defined'
  BY <1>1, <1>3, Aligned
<1>5. ASSUME NEW s, Goto(r, s), s.at # "idle" \/ s = Idle, Orderly(s)' PROVE SeqInv'
  <2>1. h'[r] = s /\ \A q \in Req : q # r => h'[q] = Idle
    BY <1>2, <1>5, GotoIs
  <2> QED
    BY <1>5, <2>1, SeqMoves
<1>6. CASE ReloadDefs(r)
  <2>1. PICK s : s.at = "reload2" /\ s.pool = PoolOf(defs) /\ s.creds = CredsOf(defs) /\ Goto(r, s)
    BY <1>6 DEF ReloadDefs
  <2>2. Orderly(s)'
    BY <1>1, <1>4, <2>1 DEF Orderly, Before
  <2> QED
    BY <1>5, <2>1, <2>2
<1>7. CASE ReloadPending(r)
  <2>1. h[r] \in [at : {"reload2", "swap"}, pool : SUBSET (Nodes \cup SettingPool), creds : [Nodes -> Nat]]
    BY <1>7, HandlersAre, HeldByPool DEF ReloadPending
  <2>2. PICK s : /\ s.at = "swap" /\ s.pool = h[r].pool
                 /\ s.creds = WithPending(h[r].creds, donations) /\ Goto(r, s)
    BY <1>7, <2>1 DEF ReloadPending
  <2>3. h[r].pool = PoolOf(defs) /\ h[r].creds = CredsOf(defs)
    BY <1>2, <1>7 DEF ReloadPending, Orderly
  <2>4. Orderly(s)'
    BY <1>1, <1>4, <2>2, <2>3 DEF Orderly, Before
  <2> QED
    BY <1>5, <2>2, <2>4
<1>8. CASE SwapPools(r)
  <2>1. PICK s : s.at = "swap2" /\ s.creds = h[r].creds /\ Goto(r, s)
    BY <1>8 DEF SwapPools
  <2>2. /\ pool' = h[r].pool /\ h[r].pool = PoolOf(defs)
        /\ h[r].creds = WithPending(CredsOf(defs), donations)
    BY <1>2, <1>8 DEF SwapPools, Orderly
  <2>3. PoolLoaded'
    BY <1>1, <2>2 DEF PoolLoaded
  <2>4. Orderly(s)'
    BY <1>1, <1>4, <2>1, <2>2, <2>3 DEF Orderly, Before
  <2> QED
    BY <1>5, <2>1, <2>4
<1>9. CASE SwapCreds(r)
  <2>1. /\ creds' = h[r].creds /\ pool' = pool /\ unloaded' = {} /\ Goto(r, Idle)
        /\ h[r].creds = WithPending(CredsOf(defs), donations) /\ PoolLoaded
    BY <1>2, <1>9 DEF SwapCreds, Orderly
  <2>2. PoolLoaded'
    BY <1>1, <2>1 DEF PoolLoaded
  <2>3. \A n \in Nodes : /\ defs[n].key # 0 => creds'[n] = defs[n].key
                         /\ defs[n].key = 0 /\ donations[n].status = "pending"
                               => creds'[n] = donations[n].key
    BY <2>1 DEF WithPending, CredsOf
  <2>4. CredsLoaded'
    BY <1>1, <2>3 DEF CredsLoaded, DefsOK
  <2>5. Orderly(Idle)'
    BY <1>4, <2>2, <2>4, IdleIsHandler DEF Orderly, Before
  <2> QED
    BY <1>5, <2>1, <2>5
<1> QED
  BY <1>6, <1>7, <1>8, <1>9

\* A restart reloads before requests come; the rules and the clock change nothing here.
LEMMA SeqWorld ==
    ASSUME SeqInv, Rest, DefsOK, ChangeSettings \/ Midnight \/ Restart \/ UNCHANGED vars
    PROVE  SeqInv'
<1>1. UNCHANGED <<defs, donations, twice>> /\ \A x \in Nodes : SameRow(x)
  BY DEF ChangeSettings, Midnight, Restart, vars, rows, world, SameRow
<1>2. CASE UNCHANGED <<pool, creds, unloaded, h, raced>>
  <2>1. \A x : DefsOf(x)' = DefsOf(x)
    BY <1>1 DEF DefsOf
  <2>2. Defined' <=> Defined
    BY <1>1, <2>1 DEF Defined, InStep
  <2>3. (PoolLoaded' <=> PoolLoaded) /\ (CredsLoaded' <=> CredsLoaded)
    BY <1>1, <1>2 DEF PoolLoaded, CredsLoaded
  <2>4. \A s : Orderly(s)' <=> Orderly(s)
    BY <1>1, <2>1, <2>2, <2>3 DEF Orderly, InStep
  <2>5. Orderly(Idle)' <=> Orderly(Idle)
    BY <1>1, <2>1, <2>2, <2>3 DEF Orderly, InStep, Idle
  <2>6. \A q \in Req : Orderly(h[q])' <=> Orderly(h[q])
    BY <1>1, <1>2, <2>1, <2>2, <2>3 DEF Orderly, InStep
  <2> QED
    BY <1>2, <2>5, <2>6 DEF SeqInv
<1>3. CASE Restart
  <2> SUFFICES ASSUME ~raced' PROVE SeqInv'
    BY DEF SeqInv
  <2>1. /\ h' = [q \in Req |-> Idle] /\ pool' = PoolOf(defs) /\ unloaded' = {}
        /\ creds' = WithPending(CredsOf(defs), donations)
        /\ ~raced /\ \A q \in Req : h[q] = Idle
    BY <1>3 DEF Restart, Rest
  <2>2. Defined
    BY <2>1, IdleOrderly DEF SeqInv
  <2>3. Defined'
    BY <1>1, <2>2, Aligned
  <2>4. PoolLoaded'
    BY <1>1, <2>1 DEF PoolLoaded
  <2>5. \A n \in Nodes : /\ defs[n].key # 0 => creds'[n] = defs[n].key
                         /\ defs[n].key = 0 /\ donations[n].status = "pending"
                               => creds'[n] = donations[n].key
    BY <2>1 DEF WithPending, CredsOf
  <2>6. CredsLoaded'
    BY <1>1, <2>5 DEF CredsLoaded, DefsOK
  <2>7. Orderly(Idle)'
    BY <2>3, <2>4, <2>6, IdleIsHandler DEF Orderly, Before
  <2>8. \A q \in Req : h'[q] = Idle
    BY <2>1
  <2> QED
    BY <2>7, <2>8 DEF SeqInv
<1> QED
  BY <1>2, <1>3 DEF ChangeSettings, Midnight, vars, snapshots, request

LEMMA SeqStays ==
    ASSUME Rest, PoolRows, SeqInv, [Next]_vars
    PROVE  SeqInv'
<1>0. DefsOK /\ KnowsOK /\ ApprovedHasDef
  BY DEF PoolRows
<1>1. ASSUME NEW r \in Req, NEW d \in Nodes, DonorRequest(r, d) PROVE SeqInv'
  BY <1>1, SeqRequests
<1>2. ASSUME NEW r \in Req, NEW d \in Nodes, AdminRequest(r, d) PROVE SeqInv'
  BY <1>0, <1>2, SeqRequests, SeqCreateDef DEF AdminRequest
<1>3. ASSUME NEW r \in Req, NEW day \in Days, StartSettle(r, day) PROVE SeqInv'
  BY <1>3, SeqSettles
<1>4. ASSUME NEW r \in Req, HandlerStep(r) PROVE SeqInv'
  <2>1. CASE LookUpNodeId(r) \/ SettleDone(r) \/ \E d \in Nodes : SettleDonation(r, d)
    BY <2>1, SeqEnds
  <2>2. CASE CreateDonation(r) \/ RotateDonation(r) \/ \E net \in Nets : SaveEdit(r, net)
    BY <2>2, SeqRows
  <2>3. CASE \/ RotateDefs(r) \/ SetDonationOffPool(r) \/ ApproveDonation(r)
             \/ \E n \in Nodes, on \in BOOLEAN, key \in SentKeys : UpdateDef(r, n, on, key)
    BY <1>0, <2>3, SeqDefs
  <2>4. CASE DeleteDef(r) \/ DisableDonation(r)
    BY <1>0, <2>4, SeqDelete, SeqDisable
  <2>5. CASE ReloadDefs(r) \/ ReloadPending(r) \/ SwapPools(r) \/ SwapCreds(r)
    BY <1>0, <2>5, SeqLoads
  <2> QED
    BY <1>4, <2>1, <2>2, <2>3, <2>4, <2>5 DEF HandlerStep
<1>5. CASE ChangeSettings \/ Midnight \/ Restart \/ UNCHANGED vars
  BY <1>0, <1>5, SeqWorld
<1> QED
  BY <1>1, <1>2, <1>3, <1>4, <1>5 DEF Next

LEMMA InitSeq == Init => SeqInv
<1> SUFFICES ASSUME Init PROVE SeqInv
  OBVIOUS
<1>1. \A n \in Nodes : defs[n].id = 0 /\ defs[n].key = 0 /\ donations[n].status = "none"
  BY NoDefFields DEF Init, NoDonation
<1>2. Defined
  BY <1>1 DEF Defined, InStep, DefsOf
<1>3. PoolLoaded
  BY <1>1 DEF PoolLoaded, PoolOf, Init
<1>4. CredsLoaded
  BY <1>1 DEF CredsLoaded
<1>5. Orderly(Idle) /\ \A r \in Req : h[r] = Idle
  BY <1>2, <1>3, <1>4, IdleOrderly DEF Init
<1> QED
  BY <1>5 DEF SeqInv

\* donate.go:182-194 and nodepool.go:125-191, 424-433: an approved donation is in the
\* node definitions, but for the moment of a deletion and for one a restart cut off;
\* and while requests do not overlap, rows, pool and credentials are in step
\* whenever none is under way.
THEOREM PoolInvAlways == Spec => []PoolInv
<1>1. PoolRows /\ SeqInv => PoolInv
  <2> SUFFICES ASSUME PoolRows, SeqInv PROVE PoolInv
    OBVIOUS
  <2>1. Quiet => Defined /\ PoolLoaded /\ CredsLoaded
    BY IdleOrderly DEF Quiet, SeqInv
  <2>2. PoolTellsStore
    BY <2>1 DEF PoolTellsStore, Defined, InStep, PoolLoaded, CredsLoaded
  <2>3. PendingCanConnect
    BY <2>1 DEF PendingCanConnect, CredsLoaded
  <2> QED
    BY <2>2, <2>3 DEF PoolInv, PoolRows
<1>2. Init => PoolRows /\ SeqInv
  BY InitPoolRows, InitSeq
<1>3. Rest /\ (PoolRows /\ SeqInv) /\ [Next]_vars => (PoolRows /\ SeqInv)'
  BY PoolRowsStay, SeqStays
<1>4. IInv => Rest
  BY DEF IInv
<1> QED
  BY <1>1, <1>2, <1>3, <1>4, DonationsInductive, PTL DEF Spec
=============================================================================
