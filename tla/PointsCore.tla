----------------------------- MODULE PointsCore -----------------------------
(***************************************************************************)
(* The points ledger of points_core.go: one account row per user           *)
(* (PointAccount) and the append-only journal (PointLedger).  Every change *)
(* of a balance goes through applyPoints inside a database transaction; on *)
(* the default sqlite store the pool holds one connection (db.go:76-81),   *)
(* so a transaction is one atomic step and Apply(op) is the whole of it.   *)
(*                                                                         *)
(* An account row that does not exist yet and a row with zero totals are   *)
(* the same to every reader (balanceOf, the guarded UPDATE after the       *)
(* INSERT .. ON CONFLICT DO NOTHING), so accounts is total on Users.  gen  *)
(* counts how often the row of a user has been deleted: it tells entries   *)
(* of a deleted account from those of the row created after it.            *)
(***************************************************************************)
EXTENDS Integers, Sequences

CONSTANTS Users,         \* the accounts' owners (UserID # 0)
          Refs,          \* what an entry or a key can refer to (RefID)
          None           \* SQL NULL / empty string

Kinds == {"checkin", "signup", "redeem_code", "admin", "api_grant", "api_deduct",
          "order", "refund", "probe", "probe_back", "donate", "donate_day"}

\* An idempotency key is the kind of the entry and what it is about, such as
\* <<"refund", o>> for "refund:" + orderNo.
Keys == Kinds \X Refs

ASSUME CoreAssumption == None \notin Refs /\ None \notin Keys

VARIABLES accounts,      \* [Users -> account row]
          ledger         \* the PointLedger rows in id order

ledgerVars == <<accounts, ledger>>

Account == [gen : Nat, balance : Int, earned : Int, spent : Int]

Entry == [user : Users, gen : Nat, delta : Int, after : Int, kind : Kinds,
          ref : Refs \cup {None}, key : Keys \cup {None}]

\* pointOp: what a caller asks applyPoints for.
Op == [user : Users, delta : Int, kind : Kinds, ref : Refs \cup {None},
       key : Keys \cup {None}]

FreshAccount(g) == [gen |-> g, balance |-> 0, earned |-> 0, spent |-> 0]

KeyUsed(k) == \E i \in DOMAIN ledger : ledger[i].key = k

\* Mutants: the deduction is not guarded; the key is not looked up.
Mut_Unguarded(op) ==
    IF op.delta = 0 THEN "bad_delta"
    ELSE IF op.key # None /\ KeyUsed(op.key) THEN "duplicate" ELSE "ok"

Mut_KeyIgnored(op) ==
    IF op.delta = 0 THEN "bad_delta"
    ELSE IF accounts[op.user].balance + op.delta < 0 THEN "insufficient" ELSE "ok"

\* The error applyPoints returns, in the order of its checks.
Outcome(op) ==
    IF op.delta = 0 THEN "bad_delta"
    ELSE IF op.key # None /\ KeyUsed(op.key) THEN "duplicate"
    ELSE IF accounts[op.user].balance + op.delta < 0 THEN "insufficient"
    ELSE "ok"

\* Mutant: a credit does not count as earned.
Mut_EarnedForgotten(op) ==
    LET a == accounts[op.user]
    IN  [gen     |-> a.gen,
         balance |-> a.balance + op.delta,
         earned  |-> a.earned,
         spent   |-> IF op.delta < 0 THEN a.spent - op.delta ELSE a.spent]

AccountAfter(op) ==
    LET a == accounts[op.user]
    IN  [gen     |-> a.gen,
         balance |-> a.balance + op.delta,
         earned  |-> IF op.delta > 0 THEN a.earned + op.delta ELSE a.earned,
         spent   |-> IF op.delta < 0 THEN a.spent - op.delta ELSE a.spent]

\* Mutant: the snapshot is read before the UPDATE.
Mut_SnapshotBefore(op) ==
    [user |-> op.user, gen |-> accounts[op.user].gen, delta |-> op.delta,
     after |-> accounts[op.user].balance, kind |-> op.kind, ref |-> op.ref,
     key |-> op.key]

\* The row is read back after the UPDATE, so balance_after is the new balance.
EntryOf(op) ==
    [user |-> op.user, gen |-> accounts[op.user].gen, delta |-> op.delta,
     after |-> AccountAfter(op).balance, kind |-> op.kind, ref |-> op.ref,
     key |-> op.key]

\* applyPoints committed: the account and its journal move together.
Apply(op) ==
    /\ Outcome(op) = "ok"
    /\ accounts' = [accounts EXCEPT ![op.user] = AccountAfter(op)]
    /\ ledger' = Append(ledger, EntryOf(op))

\* A rejected applyPoints whose caller returns the error: the transaction
\* rolls back.
Rejected(op) ==
    /\ Outcome(op) # "ok"
    /\ UNCHANGED ledgerVars

\* changePoints: the transaction of one operation on its own.
ChangePoints(op) == Apply(op) \/ Rejected(op)

\* Deleting a user drops the account row and keeps the journal.
CloseAccount(u) ==
    /\ accounts' = [accounts EXCEPT ![u] = FreshAccount(@.gen + 1)]
    /\ UNCHANGED ledger

LedgerInit ==
    /\ accounts = [u \in Users |-> FreshAccount(0)]
    /\ ledger = << >>

-----------------------------------------------------------------------------
LedgerTypeOK ==
    /\ accounts \in [Users -> Account]
    /\ ledger \in Seq(Entry)

SameAccount(e, f) == e.user = f.user /\ e.gen = f.gen

\* Entry j of the journal l is the newest below position n of x's account.
LastBefore(l, j, n, x) ==
    /\ j \in 1..(n - 1)
    /\ SameAccount(l[j], x)
    /\ \A k \in (j + 1)..(n - 1) : ~SameAccount(l[k], x)

\* Entry i of l starts its account or continues from the entry before it.
Continues(l, i) ==
    \/ /\ l[i].after = l[i].delta
       /\ \A j \in 1..(i - 1) : ~SameAccount(l[j], l[i])
    \/ \E j \in 1..(i - 1) : /\ LastBefore(l, j, i, l[i])
                             /\ l[i].after = l[j].after + l[i].delta

\* The balance b of x's account is the newest snapshot of l, if there is one.
Snapshot(l, x, b) ==
    \/ /\ b = 0
       /\ \A j \in 1..Len(l) : ~SameAccount(l[j], x)
    \/ \E j \in 1..Len(l) : LastBefore(l, j, Len(l) + 1, x) /\ b = l[j].after

\* "余额永不为负" (points_core.go:19): no sequence of grants, deductions,
\* orders and refunds leaves a balance below zero.
NeverNegative == \A u \in Users : accounts[u].balance >= 0

\* "每笔变动都有流水，balance_after 为变动后的余额快照" (points_core.go:20): each
\* entry continues from the snapshot of the previous entry of its account ...
SnapshotChain == \A i \in DOMAIN ledger : Continues(ledger, i)

\* ... and the live balance is the snapshot of the newest one (zero without
\* an entry): no change of a balance escapes the journal.
BalanceIsLastSnapshot ==
    \A u \in Users :
        Snapshot(ledger, [user |-> u, gen |-> accounts[u].gen], accounts[u].balance)

TotalsAddUp ==
    \A u \in Users : accounts[u].balance = accounts[u].earned - accounts[u].spent

\* "每笔变动都有流水" (points_core.go:20), README.md:49: the account row and the
\* journal tell the same story.
AccountMatchesJournal == BalanceIsLastSnapshot /\ TotalsAddUp

\* "同一键重复调用只入账一次" (points_core.go:21): two entries never share a key.
KeyOnce ==
    \A i, j \in DOMAIN ledger :
        ledger[i].key = ledger[j].key /\ ledger[i].key # None => i = j
=============================================================================
