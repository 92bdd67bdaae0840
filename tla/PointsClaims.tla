----------------------------- MODULE PointsClaims ---------------------------
(***************************************************************************)
(* What a user can claim, and only once: the sign-up bonus, the check-in   *)
(* of a day, a redeem code; and the deletion of the user who claims        *)
(* (points_core.go, shop_core.go, register.go, users.go).                  *)
(*                                                                         *)
(* A handler is a goroutine per request.  What it reads before its         *)
(* transaction (the rules, the date) is captured in h[r] and may be stale  *)
(* when the transaction runs; the transaction itself is one step.  A       *)
(* restart of the server forgets every handler.                            *)
(***************************************************************************)
EXTENDS PointsCore, FiniteSets

CONSTANTS Req,        \* request handlers in flight at most
          Codes,      \* ids of redeem codes
          CodePoints, \* what a code may be worth
          Configs,    \* points rules an administrator may save
          MaxUses,    \* bound: uses of one code
          MaxDay,     \* bound: days 1..MaxDay
          MaxGen,     \* bound: deletions of one account row
          MaxLedger   \* bound: journal entries

Days == 1..MaxDay
Config == [enabled : BOOLEAN, checkin : BOOLEAN, base : Nat, bonus : Nat,
           cap : Nat, signup : Nat]

ASSUME ClaimsAssumption ==
    /\ CodePoints \subseteq Nat \ {0}
    /\ Configs \subseteq Config
    /\ Users \subseteq Refs /\ Codes \subseteq Refs /\ Users \X Days \subseteq Refs
    /\ MaxDay \in Nat \ {0} /\ MaxLedger \in Nat /\ MaxGen \in Nat /\ MaxUses \in Nat \ {0}

VARIABLES users,      \* [Users -> {"none", "active", "deleted"}]
          streaks,    \* point_checkins: streaks[u][d] = 0 means no row
          today,      \* the server's local date
          codes,      \* redeem_codes
          uses,       \* redeem_code_uses: pairs <<code, user>>
          conf,       \* pointsConf, the rules in memory
          h           \* what each handler has captured

vars == <<accounts, ledger, users, streaks, today, codes, uses, conf, h>>

\* "gone" is a code that is deleted or past its expiresAt: neither is ever
\* accepted again.
Code == [state : {"none", "on", "off", "gone"}, points : Nat, max : Nat, used : Nat]

Idle == [at |-> "idle"]
Handler == {Idle}
    \cup [at : {"signup"}, op : Op]
    \cup [at : {"checkin"}, user : Users, day : Days, conf : Configs]
    \cup [at : {"redeem"}, user : Users, code : Codes]
    \cup [at : {"registered", "unaccount", "uncheckin"}, user : Users]

PointOp(u, d, kind, ref, key) ==
    [user |-> u, delta |-> d, kind |-> kind, ref |-> ref, key |-> key]

Goto(r, s) == h' = [h EXCEPT ![r] = s]

-----------------------------------------------------------------------------
\* POST /admin/register stores the user; the bonus is a later step.
Register(r, u) ==
    /\ h[r] = Idle /\ users[u] = "none"
    /\ users' = [users EXCEPT ![u] = "active"]
    /\ Goto(r, [at |-> "registered", user |-> u])
    /\ UNCHANGED <<accounts, ledger, streaks, today, codes, uses, conf>>

\* Mutant: the key of the bonus does not name the user.
Mut_SharedSignupKey(r) ==
    /\ h[r].at = "registered"
    /\ Goto(r, [at |-> "signup", op |-> PointOp(h[r].user, conf.signup, "signup",
                                               None, "signup")])
    /\ UNCHANGED <<accounts, ledger, users, streaks, today, codes, uses, conf>>

\* grantSignupBonus reads the rules and asks for a keyed credit.
GrantSignupBonus(r) ==
    /\ h[r].at = "registered"
    /\ Goto(r, IF conf.enabled /\ conf.signup > 0
               THEN [at |-> "signup", op |-> PointOp(h[r].user, conf.signup, "signup",
                                                     None, <<"signup", h[r].user>>)]
               ELSE Idle)
    /\ UNCHANGED <<accounts, ledger, users, streaks, today, codes, uses, conf>>

CommitSignup(r) ==
    /\ h[r].at = "signup" /\ Len(ledger) < MaxLedger
    /\ ChangePoints(h[r].op)
    /\ Goto(r, Idle)
    /\ UNCHANGED <<users, streaks, today, codes, uses, conf>>

-----------------------------------------------------------------------------
CheckinPoints(cf, streak) ==
    LET extra == IF cf.cap > 0 /\ streak - 1 > cf.cap - 1 THEN cf.cap - 1 ELSE streak - 1
    IN  cf.base + extra * cf.bonus

\* doCheckin takes the rules and the date before its transaction.
StartCheckin(r, u) ==
    /\ h[r] = Idle /\ users[u] = "active" /\ conf.enabled /\ conf.checkin
    /\ Goto(r, [at |-> "checkin", user |-> u, day |-> today, conf |-> conf])
    /\ UNCHANGED <<accounts, ledger, users, streaks, today, codes, uses, conf>>

\* The newest check-in row of u is the one of day d.
LastCheckin(u, d) == d \in Days /\ streaks[u][d] > 0
                     /\ \A e \in Days : e > d => streaks[u][e] = 0

\* Mutant: the newest row counts, whatever its day.
Mut_StreakOfNewest(u, d) ==
    IF \E e \in Days : LastCheckin(u, e)
      THEN streaks[u][CHOOSE e \in Days : LastCheckin(u, e)] + 1 ELSE 1

StreakOn(u, d) == IF LastCheckin(u, d - 1) THEN streaks[u][d - 1] + 1 ELSE 1

CheckinOp(u, d, cf) ==
    PointOp(u, CheckinPoints(cf, StreakOn(u, d)), "checkin", <<u, d>>, <<"checkin", <<u, d>>>>)

\* Mutant: the row is stored outside the transaction of the credit.
Mut_RowOutsideTx(r) ==
    LET u == h[r].user
        d == h[r].day
        op == CheckinOp(u, d, h[r].conf)
    IN  /\ h[r].at = "checkin" /\ Len(ledger) < MaxLedger
        /\ Goto(r, Idle)
        /\ streaks[u][d] = 0
        /\ streaks' = [streaks EXCEPT ![u][d] = StreakOn(u, d)]
        /\ ChangePoints(op)
        /\ UNCHANGED <<users, today, codes, uses, conf>>

\* Row and credit are one transaction: a second row of the day or a used key
\* undoes both.
CommitCheckin(r) ==
    LET u == h[r].user
        d == h[r].day
        op == CheckinOp(u, d, h[r].conf)
    IN  /\ h[r].at = "checkin" /\ Len(ledger) < MaxLedger
        /\ Goto(r, Idle)
        /\ \/ /\ streaks[u][d] = 0
              /\ Apply(op)
              /\ streaks' = [streaks EXCEPT ![u][d] = StreakOn(u, d)]
           \/ /\ streaks[u][d] > 0 \/ Outcome(op) # "ok"
              /\ UNCHANGED <<accounts, ledger, streaks>>
        /\ UNCHANGED <<users, today, codes, uses, conf>>

-----------------------------------------------------------------------------
\* createRedeemCodes stores an enabled code; ids are never reused.
CreateCode(c, n, m) ==
    /\ codes[c].state = "none"
    /\ codes' = [codes EXCEPT ![c] = [state |-> "on", points |-> n, max |-> m,
                                      used |-> 0]]
    /\ UNCHANGED <<accounts, ledger, users, streaks, today, uses, conf, h>>

\* PATCH /codes/:id, DELETE /codes/:id, and the passing of expiresAt.
EditCode(c) ==
    /\ codes[c].state \in {"on", "off"}
    /\ \E s \in {"on", "off", "gone"} : codes' = [codes EXCEPT ![c].state = s]
    /\ UNCHANGED <<accounts, ledger, users, streaks, today, uses, conf, h>>

StartRedeem(r, u, c) ==
    /\ h[r] = Idle /\ users[u] = "active" /\ conf.enabled
    /\ Goto(r, [at |-> "redeem", user |-> u, code |-> c])
    /\ UNCHANGED <<accounts, ledger, users, streaks, today, codes, uses, conf>>

\* Mutant: the counter of uses may pass its limit by one.
Mut_OneUseTooMany(c, u) ==
    /\ codes[c].state = "on"
    /\ <<c, u>> \notin uses
    /\ codes[c].used <= codes[c].max

Redeemable(c, u) ==
    /\ codes[c].state = "on"
    /\ <<c, u>> \notin uses
    /\ codes[c].used < codes[c].max

\* The transaction of redeemCode: the use, the counter and the credit.
RedeemCode(r) ==
    LET u == h[r].user
        c == h[r].code
        op == PointOp(u, codes[c].points, "redeem_code", c, None)
    IN  /\ h[r].at = "redeem" /\ Len(ledger) < MaxLedger
        /\ Goto(r, Idle)
        /\ \/ /\ Redeemable(c, u)
              /\ codes' = [codes EXCEPT ![c].used = @ + 1]
              /\ uses' = uses \cup {<<c, u>>}
              /\ Apply(op)
           \/ /\ ~Redeemable(c, u)
              /\ UNCHANGED <<accounts, ledger, codes, uses>>
        /\ UNCHANGED <<users, streaks, today, conf>>

-----------------------------------------------------------------------------
\* DELETE /users/:id runs its statements one by one, without a transaction:
\* the account row, the check-ins, the user.
DeleteAccount(r, u) ==
    /\ h[r] = Idle /\ users[u] = "active" /\ accounts[u].gen < MaxGen
    /\ CloseAccount(u)
    /\ Goto(r, [at |-> "unaccount", user |-> u])
    /\ UNCHANGED <<users, streaks, today, codes, uses, conf>>

DeleteCheckins(r) ==
    /\ h[r].at = "unaccount"
    /\ streaks' = [streaks EXCEPT ![h[r].user] = [d \in Days |-> 0]]
    /\ Goto(r, [at |-> "uncheckin", user |-> h[r].user])
    /\ UNCHANGED <<accounts, ledger, users, today, codes, uses, conf>>

DeleteUser(r) ==
    /\ h[r].at = "uncheckin"
    /\ users' = [users EXCEPT ![h[r].user] = "deleted"]
    /\ Goto(r, Idle)
    /\ UNCHANGED <<accounts, ledger, streaks, today, codes, uses, conf>>

\* PUT /points/admin/settings, and the reload of the saved rules at start.
ChangeSettings ==
    /\ \E cf \in Configs : conf' = cf
    /\ UNCHANGED <<accounts, ledger, users, streaks, today, codes, uses, h>>

Midnight ==
    /\ today < MaxDay
    /\ today' = today + 1
    /\ UNCHANGED <<accounts, ledger, users, streaks, codes, uses, conf, h>>

\* The process restarts: transactions are in or out, handlers are gone.
Restart ==
    /\ h' = [r \in Req |-> Idle]
    /\ UNCHANGED <<accounts, ledger, users, streaks, today, codes, uses, conf>>

Init ==
    /\ LedgerInit
    /\ users = [u \in Users |-> "none"]
    /\ streaks = [u \in Users |-> [d \in Days |-> 0]]
    /\ today = 1
    /\ codes = [c \in Codes |-> [state |-> "none", points |-> 0, max |-> 0, used |-> 0]]
    /\ uses = {}
    /\ conf \in Configs
    /\ h = [r \in Req |-> Idle]

UserStep(r, u) ==
    \/ Register(r, u)
    \/ StartCheckin(r, u)
    \/ DeleteAccount(r, u)
    \/ \E c \in Codes : StartRedeem(r, u, c)

HandlerStep(r) ==
    \/ GrantSignupBonus(r)
    \/ CommitSignup(r)
    \/ CommitCheckin(r)
    \/ RedeemCode(r)
    \/ DeleteCheckins(r)
    \/ DeleteUser(r)

CodeStep(c) ==
    \/ EditCode(c)
    \/ \E n \in CodePoints, m \in 1..MaxUses : CreateCode(c, n, m)

Next ==
    \/ \E r \in Req, u \in Users : UserStep(r, u)
    \/ \E r \in Req : HandlerStep(r)
    \/ \E c \in Codes : CodeStep(c)
    \/ ChangeSettings
    \/ Midnight
    \/ Restart

Spec == Init /\ [][Next]_vars

-----------------------------------------------------------------------------
HandlerOK == h \in [Req -> Handler]

\* The types of the variables.
TypeOK ==
    /\ LedgerTypeOK
    /\ users \in [Users -> {"none", "active", "deleted"}]
    /\ streaks \in [Users -> [Days -> Nat]]
    /\ today \in Days
    /\ codes \in [Codes -> Code]
    /\ uses \subseteq Codes \X Users
    /\ conf \in Configs
    /\ HandlerOK

\* doCheckin: a streak of k on a day is never recorded, and paid, unless the
\* user really checked in on the k days that end there, even when a check-in
\* started before midnight commits after one of the next day.
StreakNeverOverstated ==
    \A u \in Users : \A d \in Days : \A k \in 0..(streaks[u][d] - 1) :
        d - k \in Days /\ streaks[u][d - k] > 0

\* A check-in row and its credit are stored together or not at all: no
\* check-in is taken without being paid, and none is paid without a row until
\* the deletion of the user drops the rows.
CheckinsPaid ==
    \A u \in Users, d \in Days :
        LET paid == KeyUsed(<<"checkin", <<u, d>>>>)
        IN  /\ streaks[u][d] > 0 => paid
            /\ paid /\ accounts[u].gen = 0 => streaks[u][d] > 0

\* A code credits at most max_uses times and each user once, and used_count
\* is the number of credits in the journal (redeemCode; README.md:43).
CodeWithinLimit ==
    \A c \in Codes :
        LET paid == {i \in DOMAIN ledger : ledger[i].kind = "redeem_code"
                                           /\ ledger[i].ref = c}
        IN  /\ codes[c].used = Cardinality(paid)
            /\ codes[c].used <= codes[c].max
            /\ \A i, j \in paid : ledger[i].user = ledger[j].user => i = j
=============================================================================
