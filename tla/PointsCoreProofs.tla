-------------------------- MODULE PointsCoreProofs --------------------------
(***************************************************************************)
(* What every step of the ledger preserves, whoever takes it: an applied   *)
(* operation, the removal of an account, or nothing.  The modules of the   *)
(* components show that their steps are such steps.  The last part is about*)
(* sums over finite sets, such as those of the entries of a journal: by    *)
(* minimal counterexample, since the provers cannot instantiate the        *)
(* induction theorems of the library.                                      *)
(***************************************************************************)
EXTENDS PointsCore, FiniteSetTheorems, WellFoundedInduction, TLAPS

\* Entries are never ahead of the account row they belong to: a row created
\* after a deletion starts without entries of its own.
NoFutureEntry ==
    \A i \in DOMAIN ledger : ledger[i].gen <= accounts[ledger[i].user].gen

LedgerInv ==
    /\ LedgerTypeOK
    /\ NoFutureEntry
    /\ NeverNegative
    /\ SnapshotChain
    /\ BalanceIsLastSnapshot
    /\ TotalsAddUp
    /\ KeyOnce

LedgerStep ==
    \/ \E op \in Op : Apply(op)
    \/ \E u \in Users : CloseAccount(u)
    \/ UNCHANGED ledgerVars

-----------------------------------------------------------------------------
\* An empty journal over zero balances satisfies everything.
THEOREM LedgerInitOK == LedgerInit => LedgerInv
<1>1. SUFFICES ASSUME LedgerInit PROVE LedgerInv
  OBVIOUS
<1>2. ledger = << >> /\ Len(ledger) = 0 /\ DOMAIN ledger = {}
  BY <1>1 DEF LedgerInit
<1>3. LedgerTypeOK
  BY <1>1, <1>2 DEF LedgerTypeOK, LedgerInit, FreshAccount, Account
<1>4. NoFutureEntry /\ SnapshotChain /\ KeyOnce
  BY <1>2 DEF NoFutureEntry, SnapshotChain, KeyOnce
<1>5. NeverNegative /\ BalanceIsLastSnapshot /\ TotalsAddUp
  BY <1>1, <1>2 DEF LedgerInit, FreshAccount, NeverNegative, BalanceIsLastSnapshot,
                    Snapshot, TotalsAddUp
<1> QED
  BY <1>3, <1>4, <1>5 DEF LedgerInv

\* What an applied operation does to the two variables, pointwise.
LEMMA ApplyEffect ==
    ASSUME LedgerTypeOK, NEW op \in Op, Apply(op)
    PROVE  /\ accounts' \in [Users -> Account]
           /\ accounts'[op.user].gen = accounts[op.user].gen
           /\ accounts'[op.user].balance = accounts[op.user].balance + op.delta
           /\ accounts'[op.user].balance >= 0
           /\ accounts'[op.user].balance - accounts[op.user].balance =
                (accounts'[op.user].earned - accounts'[op.user].spent)
                  - (accounts[op.user].earned - accounts[op.user].spent)
           /\ \A u \in Users : u # op.user => accounts'[u] = accounts[u]
           /\ EntryOf(op) \in Entry
           /\ EntryOf(op).after = accounts'[op.user].balance
           /\ Len(ledger) \in Nat
           /\ ledger' \in Seq(Entry)
           /\ Len(ledger') = Len(ledger) + 1
           /\ DOMAIN ledger = 1..Len(ledger)
           /\ DOMAIN ledger' = 1..(Len(ledger) + 1)
           /\ \A i \in 1..Len(ledger) : ledger'[i] = ledger[i]
           /\ ledger'[Len(ledger) + 1] = EntryOf(op)
<1> DEFINE a == accounts[op.user]
<1>1. a \in Account /\ op.user \in Users /\ op.delta \in Int
  BY DEF LedgerTypeOK, Op
<1>2. AccountAfter(op) \in Account /\ AccountAfter(op).balance = a.balance + op.delta
      /\ AccountAfter(op).gen = a.gen
      /\ AccountAfter(op).earned - AccountAfter(op).spent = a.earned - a.spent + op.delta
  <2>1. CASE op.delta > 0
    BY <1>1, <2>1 DEF AccountAfter, Account
  <2>2. CASE op.delta < 0
    BY <1>1, <2>2 DEF AccountAfter, Account
  <2>3. CASE op.delta = 0
    BY <1>1, <2>3 DEF AccountAfter, Account
  <2> QED
    BY <1>1, <2>1, <2>2, <2>3
<1>3. accounts' = [accounts EXCEPT ![op.user] = AccountAfter(op)]
      /\ ledger' = Append(ledger, EntryOf(op)) /\ Outcome(op) = "ok"
  BY DEF Apply
<1>4. a.balance + op.delta >= 0
  BY <1>1, <1>3 DEF Outcome, Account
<1>5. accounts' \in [Users -> Account] /\ accounts'[op.user] = AccountAfter(op)
      /\ \A u \in Users : u # op.user => accounts'[u] = accounts[u]
  BY <1>1, <1>2, <1>3 DEF LedgerTypeOK
<1>6. EntryOf(op) \in Entry /\ EntryOf(op).after = AccountAfter(op).balance
  BY <1>1, <1>2 DEF EntryOf, Entry, Op, Account
<1>7. ledger \in Seq(Entry)
  BY DEF LedgerTypeOK
<1>8. /\ Len(ledger) \in Nat /\ ledger' \in Seq(Entry) /\ Len(ledger') = Len(ledger) + 1
      /\ DOMAIN ledger = 1..Len(ledger) /\ DOMAIN ledger' = 1..(Len(ledger) + 1)
      /\ \A i \in 1..Len(ledger) : ledger'[i] = ledger[i]
      /\ ledger'[Len(ledger) + 1] = EntryOf(op)
  BY <1>3, <1>6, <1>7
<1>9. /\ a.gen \in Nat /\ a.balance \in Int /\ a.earned \in Int /\ a.spent \in Int
      /\ AccountAfter(op).earned \in Int /\ AccountAfter(op).spent \in Int
  BY <1>1, <1>2 DEF Account
<1>10. /\ accounts'[op.user].gen = a.gen
       /\ accounts'[op.user].balance = a.balance + op.delta
       /\ accounts'[op.user].balance >= 0
       /\ EntryOf(op).after = accounts'[op.user].balance
  BY <1>1, <1>2, <1>4, <1>5, <1>6, <1>9
<1>11. accounts'[op.user].balance - a.balance =
          (accounts'[op.user].earned - accounts'[op.user].spent) - (a.earned - a.spent)
  BY <1>1, <1>2, <1>5, <1>9, <1>10
<1> QED
  BY <1>5, <1>6, <1>8, <1>10, <1>11

\* The same for the journal alone, as its readers need it.
LEMMA AppendEffect ==
    ASSUME LedgerTypeOK, NEW op \in Op, Apply(op)
    PROVE  LET new == Len(ledger) + 1
           IN  /\ IsFiniteSet(DOMAIN ledger)
               /\ DOMAIN ledger' = DOMAIN ledger \cup {new} /\ new \notin DOMAIN ledger
               /\ \A i \in DOMAIN ledger : ledger'[i] = ledger[i]
               /\ ledger'[new].user = op.user /\ ledger'[new].delta = op.delta
               /\ ledger'[new].kind = op.kind /\ ledger'[new].ref = op.ref
               /\ ledger'[new].key = op.key
<1> DEFINE n == Len(ledger)
<1>1. /\ n \in Nat /\ DOMAIN ledger = 1..n /\ DOMAIN ledger' = 1..(n + 1)
      /\ \A i \in 1..n : ledger'[i] = ledger[i]
      /\ ledger'[n + 1] = EntryOf(op)
  BY ApplyEffect
<1>2. IsFiniteSet(1..n)
  BY <1>1, FS_Interval
<1>3. 1..(n + 1) = (1..n) \cup {n + 1} /\ n + 1 \notin 1..n
  BY <1>1
<1>4. /\ EntryOf(op).user = op.user /\ EntryOf(op).delta = op.delta
      /\ EntryOf(op).kind = op.kind /\ EntryOf(op).ref = op.ref
      /\ EntryOf(op).key = op.key
  BY DEF EntryOf
<1> HIDE DEF n
<1>5. /\ IsFiniteSet(DOMAIN ledger)
      /\ DOMAIN ledger' = DOMAIN ledger \cup {n + 1} /\ n + 1 \notin DOMAIN ledger
      /\ \A i \in DOMAIN ledger : ledger'[i] = ledger[i]
  BY <1>1, <1>2, <1>3
<1> QED
  BY <1>1, <1>4, <1>5 DEF n

-----------------------------------------------------------------------------
\* An applied operation keeps the ledger in order: the new entry continues
\* from the snapshot of the newest entry of its account, which is what the
\* balance was.
LEMMA ApplyKeepsTypes ==
    ASSUME LedgerInv, NEW op \in Op, Apply(op)
    PROVE  LedgerTypeOK' /\ NoFutureEntry' /\ NeverNegative' /\ TotalsAddUp'
<1> USE DEF LedgerInv
<1> DEFINE n == Len(ledger)
<1>1. LedgerTypeOK'
  BY ApplyEffect DEF LedgerTypeOK
<1>2. NoFutureEntry'
  <2> SUFFICES ASSUME NEW i \in DOMAIN ledger'
               PROVE  ledger'[i].gen <= accounts'[ledger'[i].user].gen
    BY DEF NoFutureEntry
  <2>1. \A u \in Users : accounts'[u].gen = accounts[u].gen
    BY ApplyEffect
  <2>2. op.user \in Users /\ accounts[op.user].gen \in Nat
    BY DEF Op, LedgerTypeOK, Account
  <2>3. CASE i \in 1..n
    <3>1. ledger'[i] = ledger[i] /\ i \in DOMAIN ledger
      BY <2>3, ApplyEffect
    <3>2. ledger[i] \in Entry
      BY <3>1 DEF LedgerTypeOK
    <3>3. ledger[i].user \in Users
      BY <3>2 DEF Entry
    <3> QED
      BY <2>1, <3>1, <3>3 DEF NoFutureEntry
  <2>4. CASE i = n + 1
    <3>1. EntryOf(op).gen = accounts[op.user].gen /\ EntryOf(op).user = op.user
      BY DEF EntryOf
    <3>2. ledger'[i] = EntryOf(op)
      BY <2>4, ApplyEffect
    <3> QED
      BY <2>1, <2>2, <3>1, <3>2
  <2> QED
    BY <2>3, <2>4, ApplyEffect
<1>3. NeverNegative'
  <2> SUFFICES ASSUME NEW u \in Users PROVE accounts'[u].balance >= 0
    BY DEF NeverNegative
  <2> QED
    BY ApplyEffect DEF NeverNegative
<1>4. TotalsAddUp'
  <2> SUFFICES ASSUME NEW u \in Users
               PROVE  accounts'[u].balance = accounts'[u].earned - accounts'[u].spent
    BY DEF TotalsAddUp
  <2>1. CASE u # op.user
    BY <2>1, ApplyEffect DEF TotalsAddUp
  <2>2. CASE u = op.user
    <3>1. accounts[u].balance = accounts[u].earned - accounts[u].spent
      BY DEF TotalsAddUp
    <3>2. accounts[u] \in Account /\ accounts'[u] \in Account
      BY ApplyEffect DEF LedgerTypeOK
    <3>3. accounts'[u].balance - accounts[u].balance =
            (accounts'[u].earned - accounts'[u].spent)
              - (accounts[u].earned - accounts[u].spent)
      BY <2>2, ApplyEffect
    <3>4. /\ accounts[u].balance \in Int /\ accounts[u].earned \in Int
          /\ accounts[u].spent \in Int /\ accounts'[u].balance \in Int
          /\ accounts'[u].earned \in Int /\ accounts'[u].spent \in Int
      BY <3>2 DEF Account
    <3> QED
      BY <3>1, <3>3, <3>4
  <2> QED
    BY <2>1, <2>2
<1> QED
  BY <1>1, <1>2, <1>3, <1>4

\* Appending to the journal changes nothing below the new entry.
LEMMA AppendKeepsBefore ==
    ASSUME NEW n \in Nat,
           \A i \in 1..n : ledger'[i] = ledger[i]
    PROVE  /\ \A x, j : \A i \in 1..(n + 1) :
                 LastBefore(ledger', j, i, x) <=> LastBefore(ledger, j, i, x)
           /\ \A i \in 1..n : Continues(ledger, i) => Continues(ledger', i)
<1>1. \A x, j : \A i \in 1..(n + 1) :
         LastBefore(ledger', j, i, x) <=> LastBefore(ledger, j, i, x)
  BY DEF LastBefore
<1>2. ASSUME NEW i \in 1..n, Continues(ledger, i) PROVE Continues(ledger', i)
  <2> DEFINE e == ledger[i]
             Starts == /\ e.after = e.delta
                       /\ \A j \in 1..(i - 1) : ~SameAccount(ledger[j], e)
             Follows == \E j \in 1..(i - 1) : /\ LastBefore(ledger, j, i, e)
                                             /\ e.after = ledger[j].after + e.delta
  <2>1. i \in 1..(n + 1) /\ ledger'[i] = e /\ \A j \in 1..(i - 1) : ledger'[j] = ledger[j]
    OBVIOUS
  <2>2. Starts => Continues(ledger', i)
    BY <2>1 DEF Continues
  <2>3. ASSUME Follows PROVE Continues(ledger', i)
    <3>1. PICK j \in 1..(i - 1) : /\ LastBefore(ledger, j, i, e)
                                 /\ e.after = ledger[j].after + e.delta
      BY <2>3
    <3>2. LastBefore(ledger', j, i, e)
      BY <1>1, <2>1, <3>1
    <3>3. e.after = ledger'[j].after + e.delta
      BY <2>1, <3>1
    <3> QED
      BY <2>1, <3>2, <3>3 DEF Continues
  <2>4. Starts \/ Follows
    BY <1>2 DEF Continues
  <2> QED
    BY <2>2, <2>3, <2>4
<1> QED
  BY <1>1, <1>2

LEMMA ApplyKeepsChain ==
    ASSUME LedgerInv, NEW op \in Op, Apply(op)
    PROVE  SnapshotChain' /\ BalanceIsLastSnapshot'
<1> USE DEF LedgerInv
<1> DEFINE n == Len(ledger)
           e == EntryOf(op)
           me(u) == [user |-> u, gen |-> accounts[u].gen]
<1>0. /\ n \in Nat /\ DOMAIN ledger = 1..n /\ DOMAIN ledger' = 1..(n + 1)
      /\ Len(ledger') = n + 1
      /\ \A i \in 1..n : ledger'[i] = ledger[i]
      /\ ledger'[n + 1] = e
      /\ e.user = op.user /\ e.gen = accounts[op.user].gen /\ e.delta = op.delta
      /\ e.after = accounts[op.user].balance + op.delta
      /\ op.user \in Users
  BY ApplyEffect DEF EntryOf, Op
<1>1. /\ \A x, j : \A i \in 1..(n + 1) :
            LastBefore(ledger', j, i, x) <=> LastBefore(ledger, j, i, x)
      /\ \A i \in 1..n : Continues(ledger, i) => Continues(ledger', i)
      /\ \A x, j : LastBefore(ledger', j, n + 1, x) <=> LastBefore(ledger, j, n + 1, x)
  <2>1. n + 1 \in 1..(n + 1)
    BY <1>0
  <2>2. /\ \A x, j : \A i \in 1..(n + 1) :
              LastBefore(ledger', j, i, x) <=> LastBefore(ledger, j, i, x)
        /\ \A i \in 1..n : Continues(ledger, i) => Continues(ledger', i)
    <3>1. n \in Nat /\ \A i \in 1..n : ledger'[i] = ledger[i]
      BY <1>0
    <3> HIDE DEF n
    <3> QED
      BY <3>1, AppendKeepsBefore
  <2> HIDE DEF n
  <2> QED
    BY <2>1, <2>2
<1>2. Continues(ledger', n + 1)
  <2>1. Snapshot(ledger, me(op.user), accounts[op.user].balance)
    BY <1>0 DEF BalanceIsLastSnapshot
  <2>2. \A f : SameAccount(f, me(op.user)) <=> SameAccount(f, e)
    BY <1>0 DEF SameAccount
  <2>3. CASE accounts[op.user].balance = 0
             /\ \A j \in 1..n : ~SameAccount(ledger[j], me(op.user))
    <3>1. e.after = e.delta
      BY <1>0, <2>3 DEF Op
    <3> QED
      BY <1>0, <2>2, <2>3, <3>1 DEF Continues
  <2>4. CASE \E j \in 1..n : /\ LastBefore(ledger, j, n + 1, me(op.user))
                             /\ accounts[op.user].balance = ledger[j].after
    <3>1. PICK j \in 1..n : /\ LastBefore(ledger, j, n + 1, me(op.user))
                           /\ accounts[op.user].balance = ledger[j].after
      BY <2>4
    <3>2. LastBefore(ledger, j, n + 1, e)
      BY <2>2, <3>1 DEF LastBefore
    <3>3. LastBefore(ledger', j, n + 1, e)
      BY <1>1, <3>2
    <3>4. ledger'[n + 1].after = ledger'[j].after + ledger'[n + 1].delta
      BY <1>0, <3>1
    <3> QED
      BY <1>0, <3>3, <3>4 DEF Continues
  <2> QED
    BY <2>1, <2>3, <2>4 DEF Snapshot
<1>3. SnapshotChain'
  <2> SUFFICES ASSUME NEW i \in 1..(n + 1) PROVE Continues(ledger', i)
    BY <1>0 DEF SnapshotChain
  <2>1. i \in 1..n => Continues(ledger', i)
    BY <1>0, <1>1 DEF SnapshotChain
  <2> QED
    BY <1>0, <1>2, <2>1
<1>4. BalanceIsLastSnapshot'
  <2> SUFFICES ASSUME NEW u \in Users
               PROVE  Snapshot(ledger', me(u)', accounts'[u].balance)
    BY DEF BalanceIsLastSnapshot
  <2>1. me(u)' = me(u)
    BY ApplyEffect
  <2>2. CASE u = op.user
    <3>1. SameAccount(ledger'[n + 1], me(u))
      BY <1>0, <2>2 DEF SameAccount
    <3>2. LastBefore(ledger', n + 1, n + 2, me(u))
      BY <1>0, <3>1 DEF LastBefore
    <3>3. accounts'[u].balance = ledger'[n + 1].after
      BY <1>0, <2>2, ApplyEffect
    <3> QED
      BY <1>0, <2>1, <3>2, <3>3 DEF Snapshot
  <2>3. CASE u # op.user
    <3>1. accounts'[u].balance = accounts[u].balance
      BY <2>3, ApplyEffect
    <3>2. Snapshot(ledger, me(u), accounts[u].balance)
      BY DEF BalanceIsLastSnapshot
    <3>3. ~SameAccount(ledger'[n + 1], me(u))
      BY <1>0, <2>3 DEF SameAccount
    <3>4. CASE accounts[u].balance = 0 /\ \A j \in 1..n : ~SameAccount(ledger[j], me(u))
      <4>1. \A j \in 1..(n + 1) : ~SameAccount(ledger'[j], me(u))
        BY <1>0, <3>3, <3>4
      <4> QED
        BY <1>0, <2>1, <3>1, <3>4, <4>1 DEF Snapshot
    <3>5. CASE \E j \in 1..n : /\ LastBefore(ledger, j, n + 1, me(u))
                               /\ accounts[u].balance = ledger[j].after
      <4>1. PICK j \in 1..n : /\ LastBefore(ledger, j, n + 1, me(u))
                             /\ accounts[u].balance = ledger[j].after
        BY <3>5
      <4>2. LastBefore(ledger', j, n + 2, me(u))
        BY <1>0, <3>3, <4>1 DEF LastBefore
      <4> QED
        BY <1>0, <2>1, <3>1, <4>1, <4>2 DEF Snapshot
    <3> QED
      BY <3>2, <3>4, <3>5 DEF Snapshot
  <2> QED
    BY <2>2, <2>3
<1> QED
  BY <1>3, <1>4

\* A key is looked up before it is used, so it is used once.
LEMMA ApplyKeepsKeys ==
    ASSUME LedgerInv, NEW op \in Op, Apply(op)
    PROVE  KeyOnce'
<1> USE DEF LedgerInv
<1> DEFINE n == Len(ledger)
<1>a. EntryOf(op).key = op.key
  BY DEF EntryOf
<1>0. /\ n \in Nat /\ DOMAIN ledger = 1..n /\ DOMAIN ledger' = 1..(n + 1)
      /\ \A i \in 1..n : ledger'[i] = ledger[i]
      /\ ledger'[n + 1].key = op.key
  BY <1>a, ApplyEffect
<1>1. op.key # None => \A i \in 1..n : ledger[i].key # op.key
  BY <1>0 DEF Apply, Outcome, KeyUsed
<1> SUFFICES ASSUME NEW i \in 1..(n + 1), NEW j \in 1..(n + 1),
                    ledger'[i].key = ledger'[j].key, ledger'[i].key # None
             PROVE  i = j
  BY <1>0 DEF KeyOnce
<1>2. CASE i \in 1..n /\ j \in 1..n
  BY <1>0, <1>2 DEF KeyOnce
<1>3. CASE i = n + 1 \/ j = n + 1
  BY <1>0, <1>1, <1>3
<1> QED
  BY <1>0, <1>2, <1>3

\* Removing an account keeps the ledger in order: the fresh row has the next
\* generation, to which no entry belongs.
LEMMA ClosingKeepsLedger ==
    ASSUME LedgerInv, NEW u \in Users, CloseAccount(u)
    PROVE  LedgerInv'
<1> USE DEF LedgerInv
<1> DEFINE g == accounts[u].gen + 1
<1>1. /\ ledger' = ledger
      /\ accounts' = [accounts EXCEPT ![u] = FreshAccount(g)]
      /\ accounts \in [Users -> Account]
      /\ accounts[u].gen \in Nat /\ g \in Nat
  BY DEF CloseAccount, LedgerTypeOK, Account
<1>2. /\ accounts'[u] = [gen |-> g, balance |-> 0, earned |-> 0, spent |-> 0]
      /\ \A v \in Users : v # u => accounts'[v] = accounts[v]
      /\ accounts' \in [Users -> Account]
  BY <1>1 DEF FreshAccount, Account
<1>3. LedgerTypeOK' /\ SnapshotChain' /\ KeyOnce'
  BY <1>1, <1>2 DEF LedgerTypeOK, SnapshotChain, KeyOnce
<1>4. NeverNegative' /\ TotalsAddUp'
  BY <1>2 DEF NeverNegative, TotalsAddUp
<1>5. \A i \in DOMAIN ledger : /\ ledger[i].user \in Users /\ ledger[i].gen \in Nat
                                /\ ledger[i].gen <= accounts[ledger[i].user].gen
  <2> TAKE i \in DOMAIN ledger
  <2>1. ledger[i] \in Entry
    BY DEF LedgerTypeOK
  <2> QED
    BY <2>1 DEF NoFutureEntry, Entry
<1>6. NoFutureEntry'
  <2> SUFFICES ASSUME NEW i \in DOMAIN ledger
               PROVE  ledger[i].gen <= accounts'[ledger[i].user].gen
    BY <1>1 DEF NoFutureEntry
  <2>1. CASE ledger[i].user = u
    BY <1>1, <1>2, <1>5, <2>1
  <2>2. CASE ledger[i].user # u
    BY <1>2, <1>5, <2>2
  <2> QED
    BY <2>1, <2>2
<1>7. BalanceIsLastSnapshot'
  <2> SUFFICES ASSUME NEW v \in Users
               PROVE  Snapshot(ledger, [user |-> v, gen |-> accounts'[v].gen],
                               accounts'[v].balance)
    BY <1>1 DEF BalanceIsLastSnapshot
  <2>1. CASE v # u
    BY <1>2, <2>1 DEF BalanceIsLastSnapshot
  <2>2. CASE v = u
    <3>1. DOMAIN ledger = 1..Len(ledger)
      BY DEF LedgerTypeOK
    <3>2. \A j \in 1..Len(ledger) : ledger[j].user = u => ledger[j].gen # g
      BY <1>1, <1>5, <3>1
    <3>3. \A j \in 1..Len(ledger) : ~SameAccount(ledger[j], [user |-> u, gen |-> g])
      BY <3>2 DEF SameAccount
    <3> QED
      BY <1>2, <2>2, <3>3 DEF Snapshot
  <2> QED
    BY <2>1, <2>2
<1> QED
  BY <1>3, <1>4, <1>6, <1>7

\* The ledger of points_core.go stays in order under every step that any
\* handler takes.
THEOREM LedgerStepKeepsInv == LedgerInv /\ LedgerStep => LedgerInv'
<1> SUFFICES ASSUME LedgerInv, LedgerStep PROVE LedgerInv'
  OBVIOUS
<1>1. ASSUME NEW op \in Op, Apply(op) PROVE LedgerInv'
  BY <1>1, ApplyKeepsTypes, ApplyKeepsChain, ApplyKeepsKeys DEF LedgerInv
<1>2. ASSUME NEW u \in Users, CloseAccount(u) PROVE LedgerInv'
  BY <1>2, ClosingKeepsLedger
<1>3. CASE UNCHANGED ledgerVars
  BY <1>3 DEF ledgerVars, LedgerInv, LedgerTypeOK, NoFutureEntry, NeverNegative,
              SnapshotChain, BalanceIsLastSnapshot, TotalsAddUp, KeyOnce
<1> QED
  BY <1>1, <1>2, <1>3 DEF LedgerStep

-----------------------------------------------------------------------------
(* Sums over finite sets, as MapThenSumSet of FiniteSetsExt adds them up. *)

Chosen(s) == CHOOSE x \in s : TRUE
\* One term after the other: i adds up f over each subset of S.
AddsUp(i, f, S) ==
    i = [s \in SUBSET S |-> IF s = {} THEN 0 ELSE f[Chosen(s)] + i[s \ {Chosen(s)}]]
SumUp(f, S) == (CHOOSE i : AddsUp(i, f, S))[S]

LEMMA SmallestSubset ==
    ASSUME NEW S, IsFiniteSet(S), NEW B \in SUBSET (SUBSET S), B # {}
    PROVE  \E m \in B : \A t \in B : t \subseteq m => t = m
<1>1. IsWellFoundedOn(StrictSubsetOrdering(S), SUBSET S)
  BY FS_StrictSubsetOrderingWellFounded, FS_FiniteSubsetsOfFinite
<1>2. \A s, t \in SUBSET S : <<t, s>> \in StrictSubsetOrdering(S) <=> t \subseteq s /\ t # s
  BY DEF StrictSubsetOrdering
<1>3. PICK m \in B : \A t \in B : ~ (<<t, m>> \in StrictSubsetOrdering(S))
  BY <1>1, WFMin
<1> QED
  BY <1>2, <1>3

LEMMA ChosenIn == \A s : s # {} => Chosen(s) \in s
BY DEF Chosen

\* Two ways to add up agree on what they share.
LEMMA AddsUpOnce ==
    ASSUME NEW S, IsFiniteSet(S), NEW T \in SUBSET S, NEW f, NEW i, NEW j,
           AddsUp(i, f, S), AddsUp(j, f, T)
    PROVE  \A s \in SUBSET T : i[s] = j[s]
<1> DEFINE B == {s \in SUBSET T : i[s] # j[s]}
<1> SUFFICES ASSUME B # {} PROVE FALSE
  OBVIOUS
<1>1. B \in SUBSET (SUBSET S)
  OBVIOUS
<1> HIDE DEF B
<1>2. PICK m \in B : \A t \in B : t \subseteq m => t = m
  BY <1>1, SmallestSubset
<1>3. m \in SUBSET T /\ m \in SUBSET S /\ i[m] # j[m]
  BY <1>2 DEF B
<1>4. i[m] = IF m = {} THEN 0 ELSE f[Chosen(m)] + i[m \ {Chosen(m)}]
  BY <1>3, Zenon DEF AddsUp
<1>5. j[m] = IF m = {} THEN 0 ELSE f[Chosen(m)] + j[m \ {Chosen(m)}]
  BY <1>3, Zenon DEF AddsUp
<1>6. m # {}
  BY <1>3, <1>4, <1>5
<1>7. i[m \ {Chosen(m)}] = j[m \ {Chosen(m)}]
  <2>1. Chosen(m) \in m
    BY <1>6, ChosenIn
  <2>2. m \ {Chosen(m)} \notin B
    BY <1>2, <2>1
  <2> QED
    BY <1>3, <2>2 DEF B
<1> QED
  BY <1>3, <1>4, <1>5, <1>7

\* There is a way to add up over any finite set, ...
LEMMA AddsUpExists ==
    ASSUME NEW S, IsFiniteSet(S), NEW f
    PROVE  \E i : AddsUp(i, f, S)
<1> DEFINE B == {s \in SUBSET S : ~ \E i : AddsUp(i, f, s)}
<1> SUFFICES ASSUME B # {} PROVE FALSE
  BY DEF B
<1>1. B \in SUBSET (SUBSET S)
  OBVIOUS
<1> HIDE DEF B
<1>2. PICK m \in B : \A t \in B : t \subseteq m => t = m
  BY <1>1, SmallestSubset
<1>3. m \in SUBSET S /\ IsFiniteSet(m)
  BY <1>1, <1>2, FS_Subset
<1>4. ASSUME NEW t \in SUBSET m, t # m
      PROVE  IsFiniteSet(t) /\ AddsUp(CHOOSE a : AddsUp(a, f, t), f, t)
  <2>1. t \in SUBSET S /\ t \notin B
    BY <1>2, <1>3, <1>4
  <2>2. \E i : AddsUp(i, f, t)
    BY <2>1 DEF B
  <2> QED
    BY <1>3, <2>2, FS_Subset
<1> DEFINE sums == [s \in SUBSET m |-> IF s = {} THEN 0
                                       ELSE f[Chosen(s)] + SumUp(f, s \ {Chosen(s)})]
<1>5. ASSUME NEW t \in SUBSET m, t # m
      PROVE  sums[t] = SumUp(f, t)
  <2> DEFINE i == CHOOSE a : AddsUp(a, f, t)
             u == t \ {Chosen(t)}
             j == CHOOSE a : AddsUp(a, f, u)
  <2>1. AddsUp(i, f, t) /\ IsFiniteSet(t)
    BY <1>4, <1>5
  <2>2. SumUp(f, t) = i[t]
    BY DEF SumUp
  <2>3. i[t] = IF t = {} THEN 0 ELSE f[Chosen(t)] + i[u]
    <3> HIDE DEF i
    <3> QED
      BY <2>1, Zenon DEF AddsUp
  <2>4. u \in SUBSET t /\ u \in SUBSET m /\ u # m
    BY <1>5
  <2>5. AddsUp(j, f, u)
    BY <1>4, <2>4
  <2>6. i[u] = j[u]
    <3> HIDE DEF i, j, u
    <3> QED
      BY <2>1, <2>4, <2>5, AddsUpOnce
  <2>7. SumUp(f, u) = j[u]
    BY DEF SumUp
  <2>8. sums[t] = IF t = {} THEN 0 ELSE f[Chosen(t)] + SumUp(f, u)
    BY <1>5
  <2> QED
    BY <2>2, <2>3, <2>6, <2>7, <2>8
<1>6. AddsUp(sums, f, m)
  <2>1. \A s \in SUBSET m : s # {} => sums[s \ {Chosen(s)}] = SumUp(f, s \ {Chosen(s)})
    <3> HIDE DEF sums
    <3> TAKE s \in SUBSET m
    <3> HAVE s # {}
    <3>1. Chosen(s) \in s
      BY ChosenIn
    <3>2. s \ {Chosen(s)} \in SUBSET m /\ s \ {Chosen(s)} # m
      BY <3>1
    <3> QED
      BY <1>5, <3>2
  <2>2. sums = [s \in SUBSET m |-> IF s = {} THEN 0
                                   ELSE f[Chosen(s)] + sums[s \ {Chosen(s)}]]
    <3>1. \A s \in SUBSET m :
             (IF s = {} THEN 0 ELSE f[Chosen(s)] + SumUp(f, s \ {Chosen(s)}))
             = (IF s = {} THEN 0 ELSE f[Chosen(s)] + sums[s \ {Chosen(s)}])
      <4> HIDE DEF sums
      <4> QED
        BY <2>1
    <3> QED
      BY <3>1, Zenon
  <2> QED
    BY <2>2, Zenon DEF AddsUp
<1> QED
  BY <1>2, <1>6 DEF B


\* ... so that a sum is its chosen term and the sum of the others.
LEMMA SumUpUnrolls ==
    ASSUME NEW S, IsFiniteSet(S), NEW f
    PROVE  SumUp(f, S) = IF S = {} THEN 0 ELSE f[Chosen(S)] + SumUp(f, S \ {Chosen(S)})
<1> DEFINE k == CHOOSE a : AddsUp(a, f, S)
           u == S \ {Chosen(S)}
           j == CHOOSE a : AddsUp(a, f, u)
<1>1. AddsUp(k, f, S) /\ SumUp(f, S) = k[S]
  BY AddsUpExists DEF SumUp
<1>2. u \in SUBSET S /\ IsFiniteSet(u)
  BY FS_Subset
<1>3. AddsUp(j, f, u) /\ SumUp(f, u) = j[u]
  <2> HIDE DEF u
  <2> QED
    BY <1>2, AddsUpExists DEF SumUp
<1>4. k[S] = IF S = {} THEN 0 ELSE f[Chosen(S)] + k[u]
  <2> HIDE DEF k
  <2> QED
    BY <1>1, Zenon DEF AddsUp
<1>5. k[u] = j[u]
  <2> HIDE DEF k, u, j
  <2> QED
    BY <1>1, <1>2, <1>3, AddsUpOnce
<1> QED
  BY <1>1, <1>3, <1>4, <1>5

LEMMA SumUpIsInt ==
    ASSUME NEW S, IsFiniteSet(S), NEW f, \A x \in S : f[x] \in Int
    PROVE  SumUp(f, S) \in Int
<1> DEFINE B == {s \in SUBSET S : SumUp(f, s) \notin Int}
<1> SUFFICES ASSUME B # {} PROVE FALSE
  BY DEF B
<1>1. B \in SUBSET (SUBSET S)
  OBVIOUS
<1> HIDE DEF B
<1>2. PICK m \in B : \A t \in B : t \subseteq m => t = m
  BY <1>1, SmallestSubset
<1> DEFINE u == m \ {Chosen(m)}
<1>3. m \in SUBSET S /\ IsFiniteSet(m) /\ SumUp(f, m) \notin Int
  BY <1>1, <1>2, FS_Subset DEF B
<1>4. SumUp(f, m) = IF m = {} THEN 0 ELSE f[Chosen(m)] + SumUp(f, u)
  BY <1>3, SumUpUnrolls
<1>5. CASE m = {}
  BY <1>3, <1>4, <1>5
<1>6. CASE m # {}
  <2>1. Chosen(m) \in m /\ u \in SUBSET S /\ u \subseteq m /\ u # m
    BY <1>3, <1>6, ChosenIn
  <2>2. u \notin B
    BY <1>2, <2>1
  <2>3. SumUp(f, u) \in Int
    BY <2>1, <2>2 DEF B
  <2>4. f[Chosen(m)] \in Int
    BY <1>3, <2>1
  <2> HIDE DEF u
  <2> QED
    BY <1>3, <1>4, <1>6, <2>3, <2>4
<1> QED
  BY <1>5, <1>6

\* Whichever term is taken off, the rest is the sum of the others.
LEMMA SumUpTakes ==
    ASSUME NEW S, IsFiniteSet(S), NEW f, \A x \in S : f[x] \in Int, NEW y \in S
    PROVE  SumUp(f, S) = SumUp(f, S \ {y}) + f[y]
<1> DEFINE Fails(s) == \E x \in s : SumUp(f, s) # SumUp(f, s \ {x}) + f[x]
           B == {s \in SUBSET S : Fails(s)}
<1> SUFFICES ASSUME B # {} PROVE FALSE
  <2>1. S \notin B
    OBVIOUS
  <2> QED
    BY <2>1
<1>1. B \in SUBSET (SUBSET S)
  OBVIOUS
<1> HIDE DEF B
<1>2. PICK m \in B : \A t \in B : t \subseteq m => t = m
  BY <1>1, SmallestSubset
<1>3. m \in SUBSET S /\ IsFiniteSet(m)
  BY <1>1, <1>2, FS_Subset
<1>4. PICK x \in m : SumUp(f, m) # SumUp(f, m \ {x}) + f[x]
  BY <1>2 DEF B
<1> DEFINE p == Chosen(m)
           mp == m \ {p}
           mx == m \ {x}
           mpx == m \ {p, x}
<1>5. p \in m /\ f[p] \in Int /\ f[x] \in Int /\ p \in S /\ x \in S
  BY <1>3, <1>4, ChosenIn
<1>6. SumUp(f, m) = f[p] + SumUp(f, mp)
  BY <1>3, <1>4, SumUpUnrolls
<1>7. /\ mp \in SUBSET S /\ mx \in SUBSET S /\ mpx \in SUBSET S
      /\ mp \subseteq m /\ mx \subseteq m /\ mp # m /\ mx # m
  BY <1>3, <1>4, <1>5
<1>8. IsFiniteSet(mp) /\ IsFiniteSet(mx) /\ IsFiniteSet(mpx)
  <2> HIDE DEF mp, mx, mpx
  <2> QED
    BY <1>7, FS_Subset
<1>9. SumUp(f, mp) \in Int /\ SumUp(f, mx) \in Int /\ SumUp(f, mpx) \in Int
  <2>1. \A s \in SUBSET S : IsFiniteSet(s) => SumUp(f, s) \in Int
    BY SumUpIsInt
  <2> HIDE DEF mp, mx, mpx
  <2> QED
    BY <1>7, <1>8, <2>1
<1>10. p # x
  <2> SUFFICES ASSUME p = x PROVE FALSE
    OBVIOUS
  <2>1. mp = mx
    OBVIOUS
  <2>2. SumUp(f, m) # SumUp(f, mx) + f[x]
    BY <1>4
  <2> HIDE DEF p, mp, mx, mpx
  <2> QED
    BY <1>5, <1>6, <1>9, <2>1, <2>2
<1>11. mp \notin B /\ mx \notin B
  BY <1>2, <1>7
<1>12. SumUp(f, mp) = SumUp(f, mp \ {x}) + f[x]
  BY <1>4, <1>7, <1>10, <1>11 DEF B
<1>13. SumUp(f, mx) = SumUp(f, mx \ {p}) + f[p]
  BY <1>5, <1>7, <1>10, <1>11 DEF B
<1>14. mp \ {x} = mpx /\ mx \ {p} = mpx
  OBVIOUS
<1> HIDE DEF p, mp, mpx
<1>15. SumUp(f, m) = SumUp(f, mx) + f[x]
  <2> HIDE DEF mx
  <2>1. SumUp(f, mp) = SumUp(f, mpx) + f[x] /\ SumUp(f, mx) = SumUp(f, mpx) + f[p]
    BY <1>12, <1>13, <1>14
  <2> QED
    BY <1>5, <1>6, <1>9, <2>1
<1> QED
  BY <1>4, <1>15

\* A sum depends on its terms only.
LEMMA SumUpSame ==
    ASSUME NEW S, IsFiniteSet(S), NEW f, NEW g, \A x \in S : f[x] = g[x]
    PROVE  SumUp(f, S) = SumUp(g, S)
<1> DEFINE B == {s \in SUBSET S : SumUp(f, s) # SumUp(g, s)}
<1> SUFFICES ASSUME B # {} PROVE FALSE
  BY DEF B
<1>1. B \in SUBSET (SUBSET S)
  OBVIOUS
<1> HIDE DEF B
<1>2. PICK m \in B : \A t \in B : t \subseteq m => t = m
  BY <1>1, SmallestSubset
<1> DEFINE u == m \ {Chosen(m)}
<1>3. m \in SUBSET S /\ IsFiniteSet(m) /\ SumUp(f, m) # SumUp(g, m)
  BY <1>1, <1>2, FS_Subset DEF B
<1>4. /\ SumUp(f, m) = IF m = {} THEN 0 ELSE f[Chosen(m)] + SumUp(f, u)
      /\ SumUp(g, m) = IF m = {} THEN 0 ELSE g[Chosen(m)] + SumUp(g, u)
  BY <1>3, SumUpUnrolls
<1>5. m # {}
  BY <1>3, <1>4
<1>6. Chosen(m) \in m /\ u \in SUBSET S /\ u \subseteq m /\ u # m
  BY <1>3, <1>5, ChosenIn
<1>7. u \notin B
  BY <1>2, <1>6
<1>8. SumUp(f, u) = SumUp(g, u) /\ f[Chosen(m)] = g[Chosen(m)]
  BY <1>3, <1>6, <1>7 DEF B
<1> QED
  BY <1>3, <1>4, <1>5, <1>8

\* One more term.
LEMMA SumUpAdds ==
    ASSUME NEW S, IsFiniteSet(S), NEW y, y \notin S, NEW f, \A x \in S \cup {y} : f[x] \in Int
    PROVE  SumUp(f, S \cup {y}) = SumUp(f, S) + f[y]
<1> DEFINE T == S \cup {y}
<1>1. IsFiniteSet(T) /\ y \in T /\ T \ {y} = S /\ \A x \in T : f[x] \in Int
  BY FS_AddElement
<1> HIDE DEF T
<1>2. SumUp(f, T) = SumUp(f, T \ {y}) + f[y]
  BY <1>1, SumUpTakes
<1> QED
  BY <1>1, <1>2 DEF T

LEMMA SumUpNothing == \A f : SumUp(f, {}) = 0
BY SumUpUnrolls, FS_EmptySet

\* What adds up naturals is one.
LEMMA SumUpIsNat ==
    ASSUME NEW S, IsFiniteSet(S), NEW f, \A x \in S : f[x] \in Nat
    PROVE  SumUp(f, S) \in Nat
<1> DEFINE B == {s \in SUBSET S : SumUp(f, s) \notin Nat}
<1> SUFFICES ASSUME B # {} PROVE FALSE
  BY DEF B
<1>1. B \in SUBSET (SUBSET S)
  OBVIOUS
<1> HIDE DEF B
<1>2. PICK m \in B : \A t \in B : t \subseteq m => t = m
  BY <1>1, SmallestSubset
<1> DEFINE u == m \ {Chosen(m)}
<1>3. m \in SUBSET S /\ IsFiniteSet(m) /\ SumUp(f, m) \notin Nat
  BY <1>1, <1>2, FS_Subset DEF B
<1>4. SumUp(f, m) = IF m = {} THEN 0 ELSE f[Chosen(m)] + SumUp(f, u)
  BY <1>3, SumUpUnrolls
<1>5. CASE m = {}
  BY <1>3, <1>4, <1>5
<1>6. CASE m # {}
  <2>1. Chosen(m) \in m /\ u \in SUBSET S /\ u \subseteq m /\ u # m
    BY <1>3, <1>6, ChosenIn
  <2>2. u \notin B
    BY <1>2, <2>1
  <2>3. SumUp(f, u) \in Nat
    BY <2>1, <2>2 DEF B
  <2>4. f[Chosen(m)] \in Nat
    BY <1>3, <2>1
  <2> HIDE DEF u
  <2> QED
    BY <1>3, <1>4, <1>6, <2>3, <2>4
<1> QED
  BY <1>5, <1>6
=============================================================================
