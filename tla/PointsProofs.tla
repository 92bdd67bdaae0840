---------------------------- MODULE PointsProofs ----------------------------
(***************************************************************************)
(* What moves points, for any number of users, handlers and entries.       *)
(* First PointsOps: every step of every handler is a step of the ledger    *)
(* (PointsCoreProofs), and no probe is given back without its charge.  Then *)
(* PointsClaims, for any number of codes and days besides: the ledger      *)
(* stays in order, no streak is overstated, check-ins and their credits go *)
(* together, and a code credits no more than it may.                       *)
(***************************************************************************)
EXTENDS PointsOps, PointsClaims, PointsCoreProofs

-----------------------------------------------------------------------------
(* Adjustments, the open API and paid probes (PointsOps). *)

OpsRest == rules \in [enabled : BOOLEAN, probe : ProbeCosts] /\ calls \in [Callers -> Call]

\* What the handlers ask applyPoints for is an operation.
LEMMA OperationIsOp ==
    ASSUME NEW u \in Users, NEW d \in Int, NEW kind \in Kinds, NEW key \in Keys \cup {None}
    PROVE  Operation(u, d, kind, key) \in Op
BY DEF Operation, Op

\* What a handler has captured is an operation, or a probe with its charge.
LEMMA CallHolds ==
    ASSUME OpsRest, NEW r \in Callers
    PROVE  /\ calls[r].at \in {"op", "charge"} => calls[r].op \in Op
           /\ calls[r].at = "probing" => calls[r].user \in Users /\ calls[r].cost \in Int
BY DEF OpsRest, Call, NoCall

\* A handler that moves on keeps the types.
LEMMA ContinueKeepsRest ==
    ASSUME OpsRest, NEW r \in Callers, NEW s \in Call, Continue(r, s), rules' = rules
    PROVE  OpsRest'
BY DEF OpsRest, Continue

\* A request captures a well-formed operation and leaves the ledger alone.
LEMMA RequestStep ==
    ASSUME OpsRest, NEW r \in Callers, NEW u \in Users, Request(r, u)
    PROVE  UNCHANGED ledgerVars /\ OpsRest'
<1>1. CASE StartProbe(r, u)
  <2>1. rules.probe \in ProbeCosts
    BY DEF OpsRest
  <2>a. rules.probe \in Nat
    BY <2>1, OpsAssumption
  <2>2. -rules.probe \in Int
    BY <2>a
  <2>4. Operation(u, -rules.probe, "probe", None) \in Op
    BY <2>2, OperationIsOp DEF Kinds
  <2>5. [at |-> "charge", op |-> Operation(u, -rules.probe, "probe", None)] \in Call
    BY <2>4 DEF Call
  <2>3. [at |-> "probing", user |-> u, cost |-> 0] \in Call
    BY DEF Call
  <2> QED
    BY <1>1, <2>3, <2>5, ContinueKeepsRest DEF StartProbe, ledgerVars
<1>2. ASSUME NEW d \in Amounts \cup {-n : n \in Amounts}, ResolveAdjust(r, u, d)
      PROVE  UNCHANGED ledgerVars /\ OpsRest'
  <2>1. d \in Int
    BY OpsAssumption
  <2>2. Operation(u, d, "admin", None) \in Op
    BY <2>1, OperationIsOp DEF Kinds
  <2>3. [at |-> "op", op |-> Operation(u, d, "admin", None)] \in Call
    BY <2>2 DEF Call
  <2> QED
    BY <1>2, <2>3, ContinueKeepsRest DEF ResolveAdjust, ledgerVars
<1>3. ASSUME NEW d \in Amounts \cup {-n : n \in Amounts}, NEW k \in ApiKeys,
             ResolveApi(r, u, d, k)
      PROVE  UNCHANGED ledgerVars /\ OpsRest'
  <2> DEFINE kind == IF d > 0 THEN "api_grant" ELSE "api_deduct"
  <2>1. d \in Int
    BY OpsAssumption
  <2>2. kind \in Kinds
    BY DEF Kinds
  <2>3. ApiKey(kind, k) \in Keys \cup {None}
    BY <2>2, OpsAssumption DEF ApiKey, Keys
  <2>4. Operation(u, d, kind, ApiKey(kind, k)) \in Op
    BY <2>1, <2>2, <2>3, OperationIsOp DEF Kinds
  <2>5. [at |-> "op", op |-> Operation(u, d, kind, ApiKey(kind, k))] \in Call
    BY <2>4 DEF Call
  <2>6. Continue(r, [at |-> "op", op |-> Operation(u, d, kind, ApiKey(kind, k))])
        /\ UNCHANGED <<accounts, ledger, rules>>
    BY <1>3 DEF ResolveApi
  <2> QED
    BY <2>5, <2>6, ContinueKeepsRest DEF ledgerVars
<1> QED
  BY <1>1, <1>2, <1>3 DEF Request

\* A handler that goes on takes at most one step of the ledger.
LEMMA HandlerLedgerStep ==
    ASSUME OpsRest, NEW r \in Callers, CallStep(r)
    PROVE  LedgerStep /\ OpsRest'
<1>i. NoCall \in Call
  BY DEF Call
<1>1. CASE CommitOp(r)
  <2>1. calls[r].op \in Op
    BY <1>1, CallHolds DEF CommitOp
  <2> QED
    BY <1>1, <1>i, <2>1, ContinueKeepsRest DEF CommitOp, ChangePoints, Rejected, LedgerStep
<1>2. CASE ChargeProbeCost(r)
  <2>1. calls[r].op \in Op
    BY <1>2, CallHolds DEF ChargeProbeCost
  <2>2. [at |-> "probing", user |-> calls[r].op.user, cost |-> -calls[r].op.delta] \in Call
    BY <2>1 DEF Call, Op
  <2> QED
    BY <1>2, <1>i, <2>1, <2>2, ContinueKeepsRest DEF ChargeProbeCost, Rejected, LedgerStep
<1>3. CASE ProbeDone(r)
  BY <1>3, <1>i, ContinueKeepsRest DEF ProbeDone, LedgerStep, ledgerVars
<1>4. CASE RefundProbeCost(r)
  <2>a. calls[r].user \in Users /\ calls[r].cost \in Int
    BY <1>4, CallHolds DEF RefundProbeCost
  <2>1. RefundOp(r) \in Op
    BY <2>a, OperationIsOp DEF RefundOp, Kinds
  <2> QED
    BY <1>4, <1>i, <2>1, ContinueKeepsRest DEF RefundProbeCost, ChangePoints, Rejected, LedgerStep
<1> QED
  BY <1>1, <1>2, <1>3, <1>4 DEF CallStep

OpsInv == LedgerInv /\ OpsRest

\* In every reachable state the account rows and the journal are in order,
\* however the handlers of points_routes.go, forward.go and rest.go interleave,
\* the rules change and the process restarts.
THEOREM OpsInvariant == OpsSpec => []OpsInv
<1>1. OpsInit => OpsInv
  <2> SUFFICES ASSUME OpsInit PROVE OpsInv
    OBVIOUS
  <2>1. LedgerInv
    BY LedgerInitOK DEF OpsInit
  <2>2. OpsRest
    BY DEF OpsInit, OpsRest, Call
  <2> QED
    BY <2>1, <2>2 DEF OpsInv
<1>2. OpsInv /\ [OpsNext]_opsVars => OpsInv'
  <2> SUFFICES ASSUME OpsInv, [OpsNext]_opsVars PROVE OpsInv'
    OBVIOUS
  <2> USE DEF OpsInv
  <2>1. ASSUME NEW r \in Callers, NEW u \in Users, Request(r, u) PROVE OpsInv'
    BY <2>1, RequestStep, LedgerStepKeepsInv DEF LedgerStep
  <2>2. ASSUME NEW r \in Callers, CallStep(r) PROVE OpsInv'
    BY <2>2, HandlerLedgerStep, LedgerStepKeepsInv
  <2>3. CASE ChangeRules
    <3>1. LedgerStep
      BY <2>3 DEF ChangeRules, LedgerStep, ledgerVars
    <3>2. OpsRest'
      BY <2>3 DEF ChangeRules, OpsRest
    <3> QED
      BY <3>1, <3>2, LedgerStepKeepsInv
  <2>4. CASE RestartCalls
    <3>1. LedgerStep
      BY <2>4 DEF RestartCalls, LedgerStep, ledgerVars
    <3>2. OpsRest'
      BY <2>4 DEF RestartCalls, OpsRest, Call
    <3> QED
      BY <3>1, <3>2, LedgerStepKeepsInv
  <2>5. CASE UNCHANGED opsVars
    <3>1. LedgerStep
      BY <2>5 DEF opsVars, LedgerStep, ledgerVars
    <3>2. OpsRest'
      BY <2>5 DEF opsVars, OpsRest
    <3> QED
      BY <3>1, <3>2, LedgerStepKeepsInv
  <2> QED
    BY <2>1, <2>2, <2>3, <2>4, <2>5 DEF OpsNext
<1> QED
  BY <1>1, <1>2, PTL DEF OpsSpec

\* "余额永不为负" (points_core.go:19).
THEOREM OpsNeverNegative == OpsSpec => []NeverNegative
<1>1. OpsInv => NeverNegative
  BY DEF OpsInv, LedgerInv
<1> QED
  BY <1>1, OpsInvariant, PTL

\* "每笔变动都有流水，balance_after 为变动后的余额快照" (points_core.go:20).
THEOREM OpsSnapshotChain == OpsSpec => [](SnapshotChain /\ AccountMatchesJournal)
<1>1. OpsInv => SnapshotChain /\ AccountMatchesJournal
  BY DEF OpsInv, LedgerInv, AccountMatchesJournal
<1> QED
  BY <1>1, OpsInvariant, PTL

\* "同一键重复调用只入账一次" (points_core.go:21).
THEOREM OpsKeyOnce == OpsSpec => []KeyOnce
<1>1. OpsInv => KeyOnce
  BY DEF OpsInv, LedgerInv
<1> QED
  BY <1>1, OpsInvariant, PTL

\* The variables keep their types.
THEOREM OpsTypes == OpsSpec => []OpsTypeOK
<1>1. OpsInv => OpsTypeOK
  BY DEF OpsInv, LedgerInv, OpsRest, OpsTypeOK
<1> QED
  BY <1>1, OpsInvariant, PTL

-----------------------------------------------------------------------------
\* RefundsBacked of one user and one price, by its three sets.
Moves(u, kind, d) == {i \in DOMAIN ledger : /\ ledger[i].user = u
                                            /\ ledger[i].kind = kind
                                            /\ ledger[i].delta = d}
Running(u, n) == {r \in Callers : calls[r] = [at |-> "probing", user |-> u, cost |-> n]}

Backed(u, n) == Cardinality(Moves(u, "probe_back", n)) + Cardinality(Running(u, n))
                    <= Cardinality(Moves(u, "probe", -n))

\* Adjustments and API calls are no probes, and what is charged is a probe.
KindsCaptured ==
    \A r \in Callers :
        /\ calls[r].at = "op" => calls[r].op.kind \in {"admin", "api_grant", "api_deduct"}
        /\ calls[r].at = "charge" => calls[r].op.kind = "probe"

ProbesInv == KindsCaptured /\ \A u \in Users, n \in ProbeCosts \ {0} : Backed(u, n)

\* The three sets are finite.
LEMMA FiniteMoves ==
    ASSUME LedgerTypeOK, NEW u, NEW kind, NEW d, NEW n
    PROVE  /\ IsFiniteSet(Moves(u, kind, d)) /\ Cardinality(Moves(u, kind, d)) \in Nat
           /\ IsFiniteSet(Running(u, n)) /\ Cardinality(Running(u, n)) \in Nat
<1>1. IsFiniteSet(1..Len(ledger)) /\ DOMAIN ledger = 1..Len(ledger)
  BY FS_Interval DEF LedgerTypeOK
<1>2. Moves(u, kind, d) \in SUBSET (1..Len(ledger)) /\ Running(u, n) \in SUBSET Callers
  BY <1>1 DEF Moves, Running
<1> QED
  BY <1>1, <1>2, OpsAssumption, FS_Subset, FS_CardinalityType

\* An operation adds itself to the moves of its kind.
LEMMA MovesAfter ==
    ASSUME LedgerTypeOK, NEW op \in Op, Apply(op), NEW u, NEW kind, NEW d
    PROVE  Cardinality(Moves(u, kind, d)') =
               IF op.user = u /\ op.kind = kind /\ op.delta = d
               THEN Cardinality(Moves(u, kind, d)) + 1 ELSE Cardinality(Moves(u, kind, d))
<1> DEFINE n == Len(ledger) + 1
           M == Moves(u, kind, d)
<1>1. /\ DOMAIN ledger' = DOMAIN ledger \cup {n} /\ n \notin DOMAIN ledger
      /\ \A i \in DOMAIN ledger : ledger'[i] = ledger[i]
      /\ ledger'[n].user = op.user /\ ledger'[n].delta = op.delta
      /\ ledger'[n].kind = op.kind
  BY AppendEffect
<1> HIDE DEF n
<1>2. n \notin M
  BY <1>1 DEF Moves
<1>3. IsFiniteSet(M)
  BY FiniteMoves
<1>4. Moves(u, kind, d)' = IF op.user = u /\ op.kind = kind /\ op.delta = d
                           THEN M \cup {n} ELSE M
  BY <1>1 DEF Moves
<1> HIDE DEF M
<1>5. Cardinality(M \cup {n}) = Cardinality(M) + 1
  BY <1>2, <1>3, FS_AddElement
<1> QED
  BY <1>4, <1>5 DEF M

\* A handler that moves on leaves or joins the running probes.
LEMMA RunningAfter ==
    ASSUME OpsRest, NEW r \in Callers, NEW s, Continue(r, s), NEW u, NEW n,
           NEW this, this = [at |-> "probing", user |-> u, cost |-> n]
    PROVE  /\ calls[r] # this /\ s # this => Running(u, n)' = Running(u, n)
           /\ calls[r] = this /\ s # this
                => Cardinality(Running(u, n)') = Cardinality(Running(u, n)) - 1
           /\ calls[r] # this /\ s = this
                => Cardinality(Running(u, n)') = Cardinality(Running(u, n)) + 1
<1> DEFINE R == Running(u, n)
<1>1. calls'[r] = s /\ \A q \in Callers : q # r => calls'[q] = calls[q]
  BY DEF Continue, OpsRest
<1>2. R = {q \in Callers : calls[q] = this} /\ Running(u, n)' = {q \in Callers : calls'[q] = this}
  BY DEF Running
<1>3. IsFiniteSet(R)
  <2>1. R \in SUBSET Callers
    BY DEF Running
  <2> HIDE DEF R
  <2> QED
    BY <2>1, OpsAssumption, FS_Subset
<1> HIDE DEF R
<1>4. /\ calls[r] # this /\ s # this => Running(u, n)' = R
      /\ calls[r] = this /\ s # this => Running(u, n)' = R \ {r} /\ r \in R
      /\ calls[r] # this /\ s = this => Running(u, n)' = R \cup {r} /\ r \notin R
  BY <1>1, <1>2
<1>5. /\ r \in R => Cardinality(R \ {r}) = Cardinality(R) - 1
      /\ r \notin R => Cardinality(R \cup {r}) = Cardinality(R) + 1
  BY <1>3, FS_AddElement, FS_RemoveElement
<1> QED
  BY <1>4, <1>5 DEF R

LEMMA SameJournalKeepsMoves ==
    ASSUME ledger' = ledger
    PROVE  \A u, kind, d : Moves(u, kind, d)' = Moves(u, kind, d)
BY DEF Moves

\* A step that runs no probe of a price and ends none.
LEMMA NoProbeMoves ==
    ASSUME OpsRest, \A u \in Users, n \in ProbeCosts \ {0} : Backed(u, n),
           NEW r \in Callers, NEW s, Continue(r, s), calls[r].at # "probing",
           s.at = "probing" => s.cost = 0, ledger' = ledger
    PROVE  \A u \in Users, n \in ProbeCosts \ {0} : Backed(u, n)'
<1> TAKE u \in Users, n \in ProbeCosts \ {0}
<1> DEFINE this == [at |-> "probing", user |-> u, cost |-> n]
<1>1. this.at = "probing" /\ this.cost = n
  OBVIOUS
<1>2. Running(u, n)' = Running(u, n)
  <2>1. calls[r] # this /\ s # this
    BY <1>1
  <2> QED
    BY <2>1, RunningAfter
<1> QED
  BY <1>2, SameJournalKeepsMoves DEF Backed

\* What a handler does next is of a kind it may be of.
LEMMA ContinueKeepsKinds ==
    ASSUME OpsRest, KindsCaptured, NEW r \in Callers, NEW s, Continue(r, s),
           s.at = "op" => s.op.kind \in {"admin", "api_grant", "api_deduct"},
           s.at = "charge" => s.op.kind = "probe"
    PROVE  KindsCaptured'
BY DEF OpsRest, KindsCaptured, Continue

LEMMA RequestKeepsProbes ==
    ASSUME OpsRest, ProbesInv, NEW r \in Callers, NEW u \in Users, Request(r, u)
    PROVE  ProbesInv'
<1> USE DEF ProbesInv
<1>1. calls[r] = NoCall /\ calls[r].at # "probing" /\ ledger' = ledger
  <2>1. NoCall.at = "idle"
    BY DEF NoCall
  <2>2. calls[r] = NoCall /\ ledger' = ledger
    BY DEF Request, StartProbe, ResolveAdjust, ResolveApi
  <2> QED
    BY <2>1, <2>2
<1>2. ASSUME NEW s, Continue(r, s), s.at \in {"op", "charge", "probing"},
             s.at = "op" => s.op.kind \in {"admin", "api_grant", "api_deduct"},
             s.at = "charge" => s.op.kind = "probe",
             s.at = "probing" => s.cost = 0
      PROVE  ProbesInv'
  BY <1>1, <1>2, ContinueKeepsKinds, NoProbeMoves
<1>3. CASE StartProbe(r, u)
  <2> DEFINE a == [at |-> "charge", op |-> Operation(u, -rules.probe, "probe", None)]
             b == [at |-> "probing", user |-> u, cost |-> 0]
  <2>1. Continue(r, a) \/ Continue(r, b)
    BY <1>3 DEF StartProbe
  <2>2. /\ a.at = "charge" /\ a.op.kind = "probe"
        /\ b.at = "probing" /\ b.cost = 0
    BY DEF Operation
  <2> HIDE DEF a, b
  <2>3. CASE Continue(r, a)
    BY <1>2, <2>2, <2>3
  <2>4. CASE Continue(r, b)
    BY <1>2, <2>2, <2>4
  <2> QED
    BY <2>1, <2>3, <2>4
<1>4. ASSUME NEW d, ResolveAdjust(r, u, d) PROVE ProbesInv'
  <2> DEFINE s == [at |-> "op", op |-> Operation(u, d, "admin", None)]
  <2>1. Continue(r, s) /\ s.at = "op" /\ s.op.kind = "admin"
    BY <1>4 DEF ResolveAdjust, Operation
  <2> HIDE DEF s
  <2> QED
    BY <1>2, <2>1
<1>5. ASSUME NEW d, NEW k, ResolveApi(r, u, d, k) PROVE ProbesInv'
  <2> DEFINE kind == IF d > 0 THEN "api_grant" ELSE "api_deduct"
             s == [at |-> "op", op |-> Operation(u, d, kind, ApiKey(kind, k))]
  <2>1. Continue(r, s) /\ s.at = "op" /\ s.op.kind \in {"api_grant", "api_deduct"}
    BY <1>5 DEF ResolveApi, Operation
  <2> HIDE DEF s
  <2> QED
    BY <1>2, <2>1
<1> QED
  BY <1>3, <1>4, <1>5 DEF Request

\* CommitOp moves no points of a probe ...
LEMMA CommitKeepsProbes ==
    ASSUME OpsInv, ProbesInv, NEW r \in Callers, CommitOp(r)
    PROVE  ProbesInv'
<1> USE DEF OpsInv, ProbesInv
<1>1. /\ calls[r].at = "op" /\ Continue(r, NoCall) /\ LedgerTypeOK
      /\ Apply(calls[r].op) \/ UNCHANGED ledgerVars
  BY DEF CommitOp, ChangePoints, Rejected, LedgerInv
<1>2. KindsCaptured'
  BY <1>1, ContinueKeepsKinds DEF NoCall
<1>3. CASE ledger' = ledger
  BY <1>1, <1>2, <1>3, NoProbeMoves DEF NoCall
<1>4. CASE Apply(calls[r].op)
  <2> SUFFICES ASSUME NEW u \in Users, NEW n \in ProbeCosts \ {0} PROVE Backed(u, n)'
    BY <1>2
  <2>a. calls[r].op \in Op
    <3>1. OpsRest
      OBVIOUS
    <3> QED
      BY <1>1, <3>1, CallHolds
  <2>1. calls[r].op \in Op /\ calls[r].op.kind \in {"admin", "api_grant", "api_deduct"}
    <3>1. KindsCaptured /\ calls[r].at = "op"
      BY <1>1
    <3> QED
      BY <2>a, <3>1 DEF KindsCaptured
  <2>2. \A d : /\ Cardinality(Moves(u, "probe", d)') = Cardinality(Moves(u, "probe", d))
               /\ Cardinality(Moves(u, "probe_back", d)')
                    = Cardinality(Moves(u, "probe_back", d))
    BY <1>1, <1>4, <2>1, MovesAfter
  <2> DEFINE this == [at |-> "probing", user |-> u, cost |-> n]
  <2>3. this.at = "probing" /\ NoCall.at = "idle"
    BY DEF NoCall
  <2>4. Running(u, n)' = Running(u, n)
    <3>1. calls[r] # this /\ NoCall # this
      BY <1>1, <2>3
    <3> QED
      BY <1>1, <3>1, RunningAfter
  <2> QED
    BY <2>2, <2>4 DEF Backed
<1> QED
  BY <1>1, <1>3, <1>4 DEF ledgerVars

\* ... a charge is backed by its own entry ...
LEMMA ChargeKeepsProbes ==
    ASSUME OpsInv, ProbesInv, NEW r \in Callers, ChargeProbeCost(r)
    PROVE  ProbesInv'
<1> USE DEF OpsInv, ProbesInv
<1> DEFINE op == calls[r].op
           s == [at |-> "probing", user |-> op.user, cost |-> -op.delta]
<1>1. /\ calls[r].at = "charge" /\ LedgerTypeOK
      /\ \/ Apply(op) /\ Continue(r, s)
         \/ UNCHANGED ledgerVars /\ Continue(r, NoCall)
  BY DEF ChargeProbeCost, Rejected, LedgerInv
<1>2. op \in Op /\ op.kind = "probe"
  BY <1>1, CallHolds DEF KindsCaptured
<1>3. op.delta \in Int
  BY <1>2 DEF Op
<1>4. KindsCaptured'
  BY <1>1, ContinueKeepsKinds DEF NoCall
<1>5. CASE UNCHANGED ledgerVars /\ Continue(r, NoCall)
  BY <1>1, <1>4, <1>5, NoProbeMoves DEF NoCall, ledgerVars
<1>6. CASE Apply(op) /\ Continue(r, s)
  <2> SUFFICES ASSUME NEW u \in Users, NEW n \in ProbeCosts \ {0} PROVE Backed(u, n)'
    BY <1>4
  <2> DEFINE this == [at |-> "probing", user |-> u, cost |-> n]
  <2>0. n \in Int
    BY OpsAssumption
  <2>1. s = this <=> op.user = u /\ op.delta = -n
    BY <1>3, <2>0
  <2>2. this.at = "probing"
    OBVIOUS
  <2>3. calls[r] # this
    BY <1>1, <2>2
  <2> HIDE DEF s, op
  <2>4. Cardinality(Moves(u, "probe_back", n)') = Cardinality(Moves(u, "probe_back", n))
    BY <1>1, <1>2, <1>6, MovesAfter
  <2>5. Cardinality(Moves(u, "probe", -n)')
           = IF s = this THEN Cardinality(Moves(u, "probe", -n)) + 1
             ELSE Cardinality(Moves(u, "probe", -n))
    BY <1>1, <1>2, <1>6, <2>1, MovesAfter
  <2>6. Cardinality(Running(u, n)') = IF s = this THEN Cardinality(Running(u, n)) + 1
                                      ELSE Cardinality(Running(u, n))
    <3> DEFINE that == this
    <3>1. that = [at |-> "probing", user |-> u, cost |-> n] /\ calls[r] # that
      BY <2>3
    <3>2. CASE s = this
      BY <1>6, <2>3, <3>2, RunningAfter
    <3>3. CASE s # this
      BY <1>6, <2>3, <3>3, RunningAfter
    <3> QED
      BY <3>2, <3>3
  <2>7. /\ Cardinality(Moves(u, "probe_back", n)) \in Nat
        /\ Cardinality(Running(u, n)) \in Nat
        /\ Cardinality(Moves(u, "probe", -n)) \in Nat
    BY <1>1, FiniteMoves
  <2>8. Backed(u, n)
    OBVIOUS
  <2> HIDE DEF this
  <2> QED
    BY <2>4, <2>5, <2>6, <2>7, <2>8 DEF Backed
<1> QED
  BY <1>1, <1>5, <1>6

\* ... and a refund ends the probe it is for.
LEMMA RefundKeepsProbes ==
    ASSUME OpsInv, ProbesInv, NEW r \in Callers, RefundProbeCost(r) \/ ProbeDone(r)
    PROVE  ProbesInv'
<1> USE DEF OpsInv, ProbesInv
<1> DEFINE op == RefundOp(r)
<1>1. /\ calls[r].at = "probing" /\ LedgerTypeOK /\ Continue(r, NoCall)
      /\ Apply(op) \/ ledger' = ledger
  BY DEF RefundProbeCost, ProbeDone, ChangePoints, Rejected, LedgerInv, ledgerVars
<1>2. calls[r].user \in Users /\ calls[r].cost \in Int
  BY <1>1, CallHolds
<1>3. op \in Op
  BY <1>2, OperationIsOp DEF RefundOp, Kinds
<1>4. op.user = calls[r].user /\ op.delta = calls[r].cost /\ op.kind = "probe_back"
  BY DEF RefundOp, Operation
<1> HIDE DEF op
<1>5. KindsCaptured'
  BY <1>1, ContinueKeepsKinds DEF NoCall
<1> SUFFICES ASSUME NEW u \in Users, NEW n \in ProbeCosts \ {0} PROVE Backed(u, n)'
  BY <1>5
<1> DEFINE this == [at |-> "probing", user |-> u, cost |-> n]
<1>6. calls[r] = this <=> calls[r].user = u /\ calls[r].cost = n
  BY <1>1 DEF OpsRest, Call, NoCall
<1>7. /\ Cardinality(Moves(u, "probe_back", n)) \in Nat
      /\ Cardinality(Running(u, n)) \in Nat
      /\ Cardinality(Moves(u, "probe", -n)) \in Nat
  BY <1>1, FiniteMoves
<1>8. NoCall # this
  <2>1. NoCall.at = "idle" /\ this.at = "probing"
    BY DEF NoCall
  <2> QED
    BY <2>1
<1>9. Cardinality(Running(u, n)') = IF calls[r] = this THEN Cardinality(Running(u, n)) - 1
                                    ELSE Cardinality(Running(u, n))
  <2>1. CASE calls[r] = this
    BY <1>1, <1>8, <2>1, RunningAfter
  <2>2. CASE calls[r] # this
    BY <1>1, <1>8, <2>2, RunningAfter
  <2> QED
    BY <2>1, <2>2
<1>10. Cardinality(Moves(u, "probe", -n)') = Cardinality(Moves(u, "probe", -n))
  <2>1. CASE ledger' = ledger
    BY <2>1, SameJournalKeepsMoves
  <2>2. CASE Apply(op)
    BY <1>1, <1>3, <1>4, <2>2, MovesAfter
  <2> QED
    BY <1>1, <2>1, <2>2
<1>11. Cardinality(Moves(u, "probe_back", n)')
          \in {Cardinality(Moves(u, "probe_back", n)),
               IF calls[r] = this THEN Cardinality(Moves(u, "probe_back", n)) + 1
               ELSE Cardinality(Moves(u, "probe_back", n))}
  <2>1. CASE ledger' = ledger
    BY <2>1, SameJournalKeepsMoves
  <2>2. CASE Apply(op)
    BY <1>1, <1>3, <1>4, <1>6, <2>2, MovesAfter
  <2> QED
    BY <1>1, <2>1, <2>2
<1>12. Backed(u, n)
  OBVIOUS
<1> HIDE DEF this
<1> QED
  BY <1>7, <1>9, <1>10, <1>11, <1>12 DEF Backed

LEMMA ProbesStep == OpsInv /\ ProbesInv /\ [OpsNext]_opsVars => ProbesInv'
<1> SUFFICES ASSUME OpsInv, ProbesInv, [OpsNext]_opsVars PROVE ProbesInv'
  OBVIOUS
<1> USE DEF OpsInv
<1>1. CASE UNCHANGED <<ledger, calls>>
  <2>1. \A u, n : Running(u, n)' = Running(u, n)
    BY <1>1 DEF Running
  <2> QED
    BY <1>1, <2>1, SameJournalKeepsMoves DEF ProbesInv, KindsCaptured, Backed
<1>2. CASE RestartCalls
  <2>1. KindsCaptured'
    BY <1>2 DEF RestartCalls, KindsCaptured, NoCall
  <2>2. \A u, n : Running(u, n)' = {}
    <3> TAKE u, n
    <3>1. [at |-> "probing", user |-> u, cost |-> n].at = "probing" /\ NoCall.at = "idle"
      BY DEF NoCall
    <3>2. NoCall # [at |-> "probing", user |-> u, cost |-> n]
      BY <3>1
    <3> QED
      BY <1>2, <3>2 DEF RestartCalls, Running
  <2>3. ASSUME NEW u \in Users, NEW n \in ProbeCosts \ {0} PROVE Backed(u, n)'
    <3>1. Cardinality(Running(u, n)') = 0
      BY <2>2, FS_EmptySet
    <3>2. /\ Cardinality(Moves(u, "probe_back", n)) \in Nat
          /\ Cardinality(Running(u, n)) \in Nat
          /\ Cardinality(Moves(u, "probe", -n)) \in Nat
      BY FiniteMoves DEF LedgerInv
    <3>3. Backed(u, n)
      BY DEF ProbesInv
    <3>4. /\ Moves(u, "probe_back", n)' = Moves(u, "probe_back", n)
          /\ Moves(u, "probe", -n)' = Moves(u, "probe", -n)
      BY <1>2, SameJournalKeepsMoves DEF RestartCalls
    <3> QED
      BY <3>1, <3>2, <3>3, <3>4 DEF Backed
  <2> QED
    BY <2>1, <2>3 DEF ProbesInv
<1>3. CASE ChangeRules \/ UNCHANGED opsVars
  BY <1>1, <1>3 DEF ChangeRules, opsVars
<1> QED
  BY <1>2, <1>3, RequestKeepsProbes, CommitKeepsProbes, ChargeKeepsProbes, RefundKeepsProbes
     DEF OpsNext, CallStep

\* chargeProbeCost and its refund (forward.go, rest.go): for any number of
\* handlers in flight and any change of the rules, no probe is given back, or
\* runs, without a charge of the same user and amount of its own.
THEOREM OpsRefundsBacked == OpsSpec => []RefundsBacked
<1>1. OpsInit => ProbesInv
  <2> SUFFICES ASSUME OpsInit PROVE ProbesInv
    OBVIOUS
  <2>1. \A u, kind, d : Moves(u, kind, d) = {}
    BY DEF OpsInit, LedgerInit, Moves
  <2>2. \A u, n : Running(u, n) = {}
    <3> TAKE u, n
    <3>1. [at |-> "probing", user |-> u, cost |-> n].at = "probing" /\ NoCall.at = "idle"
      BY DEF NoCall
    <3>2. NoCall # [at |-> "probing", user |-> u, cost |-> n]
      BY <3>1
    <3> QED
      BY <3>2 DEF OpsInit, Running
  <2>3. \A u, n : Backed(u, n)
    BY <2>1, <2>2, FS_EmptySet DEF Backed
  <2>4. KindsCaptured
    BY DEF OpsInit, KindsCaptured, NoCall
  <2> QED
    BY <2>3, <2>4 DEF ProbesInv
<1>2. OpsInv /\ ProbesInv /\ [OpsNext]_opsVars => ProbesInv'
  BY ProbesStep
<1>3. ProbesInv => RefundsBacked
  BY DEF ProbesInv, Backed, Moves, Running, RefundsBacked
<1> QED
  BY <1>1, <1>2, <1>3, OpsInvariant, PTL DEF OpsSpec

-----------------------------------------------------------------------------
(* Claims (PointsClaims). *)

Rest ==
    /\ users \in [Users -> {"none", "active", "deleted"}]
    /\ streaks \in [Users -> [Days -> Nat]]
    /\ today \in Days
    /\ codes \in [Codes -> Code]
    /\ uses \subseteq Codes \X Users
    /\ conf \in Configs
    /\ h \in [Req -> Handler]

\* What a handler has captured and CheckinsPaid depends on: a sign-up asks
\* for the key of a sign-up, and a deletion that has come to the check-ins
\* has removed the account row before.
CapturedOK ==
    \A r \in Req :
        /\ h[r].at = "signup" => h[r].op.key = <<"signup", h[r].op.user>>
        /\ h[r].at \in {"unaccount", "uncheckin"} => accounts[h[r].user].gen > 0

Inv == LedgerInv /\ Rest /\ CapturedOK /\ StreakNeverOverstated /\ CheckinsPaid

-----------------------------------------------------------------------------
\* The fields of an operation, and that it is one.
LEMMA PointOpIsOp ==
    ASSUME NEW u \in Users, NEW d \in Int, NEW kind \in Kinds, NEW ref \in Refs \cup {None},
           NEW key \in Keys \cup {None}
    PROVE  /\ PointOp(u, d, kind, ref, key) \in Op
           /\ PointOp(u, d, kind, ref, key).user = u
           /\ PointOp(u, d, kind, ref, key).key = key
BY DEF PointOp, Op

\* The rules an administrator may save are numbers from zero on.
LEMMA ConfigTypes ==
    ASSUME NEW cf \in Configs
    PROVE  cf.base \in Nat /\ cf.bonus \in Nat /\ cf.cap \in Nat /\ cf.signup \in Nat
BY ClaimsAssumption DEF Config

\* What the records of the handlers hold, by where the handler is.
LEMMA Captured ==
    ASSUME Rest, NEW r \in Req
    PROVE  /\ h[r].at = "signup" => h[r].op \in Op
           /\ h[r].at = "checkin" => /\ h[r].user \in Users /\ h[r].day \in Days
                                     /\ h[r].conf \in Configs
           /\ h[r].at = "redeem" => h[r].user \in Users /\ h[r].code \in Codes
           /\ h[r].at \in {"registered", "unaccount", "uncheckin"} => h[r].user \in Users
BY DEF Rest, Handler, Idle

\* A check-in always has a streak of one at least.
LEMMA StreakOnIsNat ==
    ASSUME Rest, NEW u \in Users, NEW d \in Days
    PROVE  StreakOn(u, d) \in Nat \ {0}
<1>1. CASE LastCheckin(u, d - 1)
  <2>1. d - 1 \in Days
    BY <1>1 DEF LastCheckin
  <2>2. streaks[u][d - 1] \in Nat
    BY <2>1 DEF Rest
  <2> QED
    BY <1>1, <2>2 DEF StreakOn
<1>2. CASE ~LastCheckin(u, d - 1)
  BY <1>2 DEF StreakOn
<1> QED
  BY <1>1, <1>2

\* The worth of a check-in is a number under every rule.
LEMMA CheckinPointsIsInt ==
    ASSUME NEW cf \in Configs, NEW s \in Nat
    PROVE  CheckinPoints(cf, s) \in Int
<1>1. cf.base \in Int /\ cf.bonus \in Int /\ cf.cap \in Int
  BY ConfigTypes
<1> DEFINE extra == IF cf.cap > 0 /\ s - 1 > cf.cap - 1 THEN cf.cap - 1 ELSE s - 1
<1>2. extra \in Int
  BY <1>1
<1>3. extra * cf.bonus \in Int
  BY <1>1, <1>2
<1> QED
  BY <1>1, <1>3 DEF CheckinPoints

\* The credit of a check-in and its key.
LEMMA CheckinOpIsOp ==
    ASSUME Rest, NEW u \in Users, NEW d \in Days, NEW cf \in Configs
    PROVE  /\ CheckinOp(u, d, cf) \in Op
           /\ CheckinOp(u, d, cf).key = <<"checkin", <<u, d>>>>
<1>1. <<u, d>> \in Refs
  BY ClaimsAssumption
<1>2. <<"checkin", <<u, d>>>> \in Keys
  BY <1>1 DEF Keys, Kinds
<1>3. CheckinPoints(cf, StreakOn(u, d)) \in Int
  BY StreakOnIsNat, CheckinPointsIsInt
<1> QED
  BY <1>1, <1>2, <1>3, PointOpIsOp DEF CheckinOp, Kinds

\* Only the handler that moves changes its record.
LEMMA GotoType ==
    ASSUME Rest, NEW r \in Req, NEW s \in Handler, Goto(r, s)
    PROVE  /\ h' \in [Req -> Handler] /\ h'[r] = s
           /\ \A q \in Req : q # r => h'[q] = h[q]
BY DEF Rest, Goto

\* A handler that has ended is a handler.
LEMMA IdleIsHandler == Idle \in Handler /\ Idle.at = "idle"
BY DEF Idle, Handler

-----------------------------------------------------------------------------
\* Every action keeps the types and takes at most one step of the ledger.
LEMMA UserStepTypes ==
    ASSUME Inv, NEW r \in Req, NEW u \in Users, UserStep(r, u)
    PROVE  LedgerStep /\ Rest'
<1> USE DEF Inv
<1>1. CASE Register(r, u)
  <2>1. [at |-> "registered", user |-> u] \in Handler
    BY DEF Handler
  <2> QED
    BY <1>1, <2>1, GotoType DEF Register, Rest, LedgerStep, ledgerVars
<1>2. CASE StartCheckin(r, u)
  <2>1. [at |-> "checkin", user |-> u, day |-> today, conf |-> conf] \in Handler
    BY DEF Handler, Rest
  <2> QED
    BY <1>2, <2>1, GotoType DEF StartCheckin, Rest, LedgerStep, ledgerVars
<1>3. CASE DeleteAccount(r, u)
  <2>1. [at |-> "unaccount", user |-> u] \in Handler
    BY DEF Handler
  <2> QED
    BY <1>3, <2>1, GotoType DEF DeleteAccount, Rest, LedgerStep
<1>4. ASSUME NEW c \in Codes, StartRedeem(r, u, c) PROVE LedgerStep /\ Rest'
  <2>1. [at |-> "redeem", user |-> u, code |-> c] \in Handler
    BY DEF Handler
  <2> QED
    BY <1>4, <2>1, GotoType DEF StartRedeem, Rest, LedgerStep, ledgerVars
<1> QED
  BY <1>1, <1>2, <1>3, <1>4 DEF UserStep

\* The same for the later steps of a handler ...
LEMMA HandlerStepTypes ==
    ASSUME Inv, NEW r \in Req, HandlerStep(r)
    PROVE  LedgerStep /\ Rest'
<1> USE DEF Inv
<1>1. CASE GrantSignupBonus(r)
  <2> DEFINE u == h[r].user
             op == PointOp(u, conf.signup, "signup", None, <<"signup", u>>)
  <2>1. u \in Users /\ conf.signup \in Int /\ <<"signup", u>> \in Keys
    BY <1>1, Captured, ConfigTypes, ClaimsAssumption DEF GrantSignupBonus, Rest, Keys, Kinds
  <2>2. op \in Op
    BY <2>1, PointOpIsOp DEF Kinds
  <2> HIDE DEF op
  <2>3. [at |-> "signup", op |-> op] \in Handler
    BY <2>2 DEF Handler
  <2>4. Goto(r, [at |-> "signup", op |-> op]) \/ Goto(r, Idle)
    BY <1>1 DEF GrantSignupBonus, op
  <2>5. h' \in [Req -> Handler]
    BY <2>3, <2>4, GotoType, IdleIsHandler
  <2> QED
    BY <1>1, <2>5 DEF GrantSignupBonus, Rest, LedgerStep, ledgerVars
<1>2. CASE CommitSignup(r)
  <2>1. h[r].op \in Op
    BY <1>2, Captured DEF CommitSignup
  <2> QED
    BY <1>2, <2>1, GotoType, IdleIsHandler
       DEF CommitSignup, ChangePoints, Rejected, Rest, LedgerStep
<1>3. CASE CommitCheckin(r)
  <2> DEFINE u == h[r].user
             d == h[r].day
             op == CheckinOp(u, d, h[r].conf)
  <2>1. u \in Users /\ d \in Days /\ h[r].conf \in Configs
    BY <1>3, Captured DEF CommitCheckin
  <2>2. op \in Op /\ StreakOn(u, d) \in Nat
    BY <2>1, CheckinOpIsOp, StreakOnIsNat
  <2>3. streaks' \in [Users -> [Days -> Nat]]
    <3>1. streaks \in [Users -> [Days -> Nat]]
      BY DEF Rest
    <3>2. [streaks EXCEPT ![u][d] = StreakOn(u, d)] \in [Users -> [Days -> Nat]]
      BY <2>1, <2>2, <3>1
    <3>3. streaks' = streaks \/ streaks' = [streaks EXCEPT ![u][d] = StreakOn(u, d)]
      BY <1>3 DEF CommitCheckin
    <3> QED
      BY <3>1, <3>2, <3>3
  <2>4. LedgerStep
    BY <1>3, <2>2 DEF CommitCheckin, LedgerStep, ledgerVars
  <2> QED
    BY <1>3, <2>3, <2>4, GotoType, IdleIsHandler DEF CommitCheckin, Rest
<1>4. CASE RedeemCode(r)
  <2> DEFINE u == h[r].user
             c == h[r].code
             op == PointOp(u, codes[c].points, "redeem_code", c, None)
  <2>1. u \in Users /\ c \in Codes /\ codes[c] \in Code
    BY <1>4, Captured DEF RedeemCode, Rest
  <2>2. codes[c].points \in Int /\ codes[c].used \in Nat /\ c \in Refs
    BY <2>1, ClaimsAssumption DEF Code
  <2>3. op \in Op
    BY <2>1, <2>2, PointOpIsOp DEF Kinds
  <2>4. codes' \in [Codes -> Code]
    <3>1. codes \in [Codes -> Code]
      BY DEF Rest
    <3>2. [codes[c] EXCEPT !.used = @ + 1] \in Code
      BY <2>1, <2>2 DEF Code
    <3>3. [codes EXCEPT ![c].used = @ + 1] \in [Codes -> Code]
      BY <2>1, <3>1, <3>2
    <3>4. codes' = codes \/ codes' = [codes EXCEPT ![c].used = @ + 1]
      BY <1>4 DEF RedeemCode
    <3> QED
      BY <3>1, <3>3, <3>4
  <2>5. uses' \subseteq Codes \X Users
    BY <1>4, <2>1 DEF RedeemCode, Rest
  <2>6. LedgerStep
    BY <1>4, <2>3 DEF RedeemCode, LedgerStep, ledgerVars
  <2> QED
    BY <1>4, <2>4, <2>5, <2>6, GotoType, IdleIsHandler DEF RedeemCode, Rest
<1>5. CASE DeleteCheckins(r)
  <2>1. h[r].user \in Users
    BY <1>5, Captured DEF DeleteCheckins
  <2>2. [at |-> "uncheckin", user |-> h[r].user] \in Handler
    BY <2>1 DEF Handler
  <2> QED
    BY <1>5, <2>1, <2>2, GotoType DEF DeleteCheckins, Rest, LedgerStep, ledgerVars
<1>6. CASE DeleteUser(r)
  <2>1. h[r].user \in Users
    BY <1>6, Captured DEF DeleteUser
  <2> QED
    BY <1>6, <2>1, GotoType, IdleIsHandler DEF DeleteUser, Rest, LedgerStep, ledgerVars
<1> QED
  BY <1>1, <1>2, <1>3, <1>4, <1>5, <1>6 DEF HandlerStep

\* ... and for the administrator, the clock and a restart.
LEMMA OtherStepTypes ==
    ASSUME Inv,
           \/ \E c \in Codes : CodeStep(c)
           \/ ChangeSettings \/ Midnight \/ Restart \/ UNCHANGED vars
    PROVE  UNCHANGED <<accounts, ledger, streaks>> /\ Rest'
<1> USE DEF Inv
<1>1. ASSUME NEW c \in Codes, EditCode(c)
      PROVE  UNCHANGED <<accounts, ledger, streaks>> /\ Rest'
  <2>1. codes[c] \in Code
    BY DEF Rest
  <2>2. codes' \in [Codes -> Code]
    BY <1>1, <2>1 DEF EditCode, Rest, Code
  <2> QED
    BY <1>1, <2>2 DEF EditCode, Rest
<1>2. ASSUME NEW c \in Codes, NEW n \in CodePoints, NEW m \in 1..MaxUses, CreateCode(c, n, m)
      PROVE  UNCHANGED <<accounts, ledger, streaks>> /\ Rest'
  <2>1. n \in Nat /\ m \in Nat
    BY ClaimsAssumption
  <2>2. codes' \in [Codes -> Code]
    BY <1>2, <2>1 DEF CreateCode, Rest, Code
  <2> QED
    BY <1>2, <2>2 DEF CreateCode, Rest
<1>3. CASE ChangeSettings
  BY <1>3 DEF ChangeSettings, Rest
<1>4. CASE Midnight
  <2>1. today' \in Days
    BY <1>4, ClaimsAssumption DEF Midnight, Rest, Days
  <2> QED
    BY <1>4, <2>1 DEF Midnight, Rest
<1>5. CASE Restart
  BY <1>5, IdleIsHandler DEF Restart, Rest
<1>6. CASE UNCHANGED vars
  BY <1>6 DEF vars, Rest
<1> QED
  BY <1>1, <1>2, <1>3, <1>4, <1>5, <1>6 DEF CodeStep

-----------------------------------------------------------------------------
\* The keys in use are those in use before and the one of the operation.
LEMMA KeysAfterApply ==
    ASSUME LedgerTypeOK, NEW op \in Op, Apply(op)
    PROVE  \A k : KeyUsed(k)' <=> (KeyUsed(k) \/ op.key = k)
<1> DEFINE n == Len(ledger)
<1>1. /\ n \in Nat /\ DOMAIN ledger = 1..n /\ DOMAIN ledger' = 1..(n + 1)
      /\ \A i \in 1..n : ledger'[i] = ledger[i]
      /\ ledger'[n + 1] = EntryOf(op)
  BY ApplyEffect
<1>2. EntryOf(op).key = op.key
  BY DEF EntryOf
<1> QED
  BY <1>1, <1>2 DEF KeyUsed

\* An operation never changes the generation of an account.
LEMMA ApplyKeepsGen ==
    ASSUME LedgerTypeOK, NEW op \in Op, Apply(op)
    PROVE  \A u \in Users : accounts'[u].gen = accounts[u].gen
<1>1. op.user \in Users
  BY DEF Op
<1> QED
  BY <1>1, ApplyEffect

\* A step that leaves the check-ins, the accounts and their journal alone, or
\* only credits under a key that is not a check-in's, keeps CheckinsPaid.
LEMMA OtherKeysKeepCheckinsPaid ==
    ASSUME CheckinsPaid, UNCHANGED <<streaks, accounts, ledger>>
    PROVE  CheckinsPaid'
BY DEF CheckinsPaid, KeyUsed

\* The second half of it: a credit under another key.
LEMMA CreditKeepsCheckinsPaid ==
    ASSUME CheckinsPaid, LedgerTypeOK, streaks' = streaks, NEW op \in Op, Apply(op),
           \A u \in Users, d \in Days : op.key # <<"checkin", <<u, d>>>>
    PROVE  CheckinsPaid'
<1> SUFFICES ASSUME NEW u \in Users, NEW d \in Days
             PROVE  LET paid == KeyUsed(<<"checkin", <<u, d>>>>)'
                    IN  /\ streaks[u][d] > 0 => paid
                        /\ paid /\ accounts'[u].gen = 0 => streaks[u][d] > 0
  BY DEF CheckinsPaid, KeyUsed
<1>1. KeyUsed(<<"checkin", <<u, d>>>>)' <=> KeyUsed(<<"checkin", <<u, d>>>>)
  BY KeysAfterApply
<1>2. accounts'[u].gen = accounts[u].gen
  BY ApplyKeepsGen
<1> QED
  BY <1>1, <1>2 DEF CheckinsPaid

\* Handlers move on and generations grow: CapturedOK survives when the new
\* record of the handler that moved is itself in order.
LEMMA GotoKeepsCaptured ==
    ASSUME Rest, CapturedOK, NEW r \in Req, NEW s \in Handler, Goto(r, s),
           \A u \in Users : accounts'[u].gen = accounts[u].gen,
           s.at = "signup" => s.op.key = <<"signup", s.op.user>>,
           s.at \in {"unaccount", "uncheckin"} => s.user \in Users /\ accounts[s.user].gen > 0
    PROVE  CapturedOK'
<1> SUFFICES ASSUME NEW q \in Req
             PROVE  /\ h'[q].at = "signup" => h'[q].op.key = <<"signup", h'[q].op.user>>
                    /\ h'[q].at \in {"unaccount", "uncheckin"}
                           => accounts'[h'[q].user].gen > 0
  BY DEF CapturedOK
<1>1. CASE q = r
  BY <1>1, GotoType
<1>2. CASE q # r
  <2>1. h'[q] = h[q]
    BY <1>2, GotoType
  <2>2. h[q].at \in {"unaccount", "uncheckin"} => h[q].user \in Users
    BY Captured
  <2> QED
    BY <2>1, <2>2 DEF CapturedOK
<1> QED
  BY <1>1, <1>2

\* A check-in: the row, its streak and its credit.
LEMMA CheckinKeeps ==
    ASSUME Inv, NEW r \in Req, CommitCheckin(r)
    PROVE  CapturedOK' /\ StreakNeverOverstated' /\ CheckinsPaid'
<1> USE DEF Inv
<1> DEFINE u == h[r].user
           d == h[r].day
           op == CheckinOp(u, d, h[r].conf)
           s == StreakOn(u, d)
<1>0. LedgerTypeOK
  BY DEF LedgerInv
<1>1. u \in Users /\ d \in Days /\ h[r].conf \in Configs
  BY Captured DEF CommitCheckin
<1>2. op \in Op /\ op.key = <<"checkin", <<u, d>>>> /\ s \in Nat \ {0}
  BY <1>1, CheckinOpIsOp, StreakOnIsNat
<1>3. streaks \in [Users -> [Days -> Nat]]
  BY DEF Rest
<1>4. CASE UNCHANGED <<accounts, ledger, streaks>>
  <2>1. CapturedOK'
    BY <1>4, IdleIsHandler, GotoKeepsCaptured DEF CommitCheckin, Idle
  <2> QED
    BY <1>4, <2>1, OtherKeysKeepCheckinsPaid DEF StreakNeverOverstated
<1>5. CASE streaks[u][d] = 0 /\ Apply(op) /\ streaks' = [streaks EXCEPT ![u][d] = s]
  <2>0. /\ streaks'[u][d] = s
        /\ \A v \in Users, e \in Days : ~(v = u /\ e = d) => streaks'[v][e] = streaks[v][e]
    BY <1>1, <1>3, <1>5
  <2>1. \A v \in Users : accounts'[v].gen = accounts[v].gen
    BY <1>0, <1>2, <1>5, ApplyKeepsGen
  <2>2. CapturedOK'
    BY <2>1, IdleIsHandler, GotoKeepsCaptured DEF CommitCheckin, Idle
  <2>3. StreakNeverOverstated'
    <3> SUFFICES ASSUME NEW v \in Users, NEW e \in Days, NEW k \in 0..(streaks'[v][e] - 1)
                 PROVE  e - k \in Days /\ streaks'[v][e - k] > 0
      BY DEF StreakNeverOverstated
    <3>1. \A w \in Users, f \in Days : streaks[w][f] > 0 => streaks'[w][f] > 0
      BY <1>2, <1>5, <2>0
    <3>2. CASE ~(v = u /\ e = d)
      BY <2>0, <3>1, <3>2 DEF StreakNeverOverstated
    <3>3. CASE v = u /\ e = d
      <4>1. CASE k = 0
        BY <1>2, <2>0, <3>3, <4>1 DEF Days
      <4>2. CASE k # 0
        <5>1. k \in Int /\ 1 <= k /\ k <= s - 1
          BY <1>2, <2>0, <3>3, <4>2
        <5>2. LastCheckin(u, d - 1) /\ s = streaks[u][d - 1] + 1
          BY <1>1, <5>1 DEF StreakOn
        <5>3. d - 1 \in Days /\ streaks[u][d - 1] \in Nat
          BY <1>1, <1>3, <5>2 DEF LastCheckin
        <5>4. k - 1 \in 0..(streaks[u][d - 1] - 1)
          BY <5>1, <5>2, <5>3
        <5>5. (d - 1) - (k - 1) \in Days /\ streaks[u][(d - 1) - (k - 1)] > 0
          BY <1>1, <5>3, <5>4 DEF StreakNeverOverstated
        <5>6. (d - 1) - (k - 1) = d - k
          BY <1>1, <5>1 DEF Days
        <5> QED
          BY <1>1, <3>1, <3>3, <5>5, <5>6
      <4> QED
        BY <4>1, <4>2
    <3> QED
      BY <3>2, <3>3
  <2>4. CheckinsPaid'
    <3> SUFFICES ASSUME NEW v \in Users, NEW e \in Days
                 PROVE  LET paid == KeyUsed(<<"checkin", <<v, e>>>>)'
                        IN  /\ streaks'[v][e] > 0 => paid
                            /\ paid /\ accounts'[v].gen = 0 => streaks'[v][e] > 0
      BY DEF CheckinsPaid, KeyUsed
    <3>1. KeyUsed(<<"checkin", <<v, e>>>>)'
             <=> (KeyUsed(<<"checkin", <<v, e>>>>) \/ op.key = <<"checkin", <<v, e>>>>)
      BY <1>0, <1>2, <1>5, KeysAfterApply
    <3>2. op.key = <<"checkin", <<v, e>>>> <=> (v = u /\ e = d)
      BY <1>2
    <3>3. CASE v = u /\ e = d
      BY <1>2, <2>0, <3>1, <3>2, <3>3
    <3>4. CASE ~(v = u /\ e = d)
      BY <2>0, <2>1, <3>1, <3>2, <3>4 DEF CheckinsPaid
    <3> QED
      BY <3>3, <3>4
  <2> QED
    BY <2>2, <2>3, <2>4
<1> QED
  BY <1>4, <1>5 DEF CommitCheckin

-----------------------------------------------------------------------------
\* The parts of the invariant that are about check-ins, after a step.
Bare == CapturedOK' /\ StreakNeverOverstated' /\ CheckinsPaid'

\* What is left to show of a step that leaves the check-ins alone.
LEMMA StreaksUnchanged ==
    ASSUME StreakNeverOverstated, streaks' = streaks
    PROVE  StreakNeverOverstated'
BY DEF StreakNeverOverstated

\* The first step of a handler keeps the invariant ...
LEMMA UserStepKeeps ==
    ASSUME Inv, NEW r \in Req, NEW u \in Users, UserStep(r, u)
    PROVE  Bare
<1> USE DEF Inv, Bare
<1>1. CASE Register(r, u)
  <2>1. [at |-> "registered", user |-> u] \in Handler
    BY DEF Handler
  <2>2. CapturedOK'
    BY <1>1, <2>1, GotoKeepsCaptured DEF Register
  <2> QED
    BY <1>1, <2>2, StreaksUnchanged, OtherKeysKeepCheckinsPaid DEF Register
<1>2. CASE StartCheckin(r, u)
  <2>1. [at |-> "checkin", user |-> u, day |-> today, conf |-> conf] \in Handler
    BY DEF Handler, Rest
  <2>2. CapturedOK'
    BY <1>2, <2>1, GotoKeepsCaptured DEF StartCheckin
  <2> QED
    BY <1>2, <2>2, StreaksUnchanged, OtherKeysKeepCheckinsPaid DEF StartCheckin
<1>3. CASE DeleteAccount(r, u)
  <2>0. accounts \in [Users -> Account]
    BY DEF LedgerInv, LedgerTypeOK
  <2>1. /\ accounts'[u].gen = accounts[u].gen + 1
        /\ \A v \in Users : v # u => accounts'[v] = accounts[v]
        /\ \A v \in Users : accounts[v].gen \in Nat
    BY <1>3, <2>0 DEF DeleteAccount, CloseAccount, FreshAccount, Account
  <2>2. \A v \in Users : accounts'[v].gen > 0 \/ accounts'[v].gen = accounts[v].gen
    BY <2>1
  <2>3. [at |-> "unaccount", user |-> u] \in Handler
    BY DEF Handler
  <2>4. CapturedOK'
    <3> SUFFICES ASSUME NEW q \in Req
                 PROVE  /\ h'[q].at = "signup" => h'[q].op.key = <<"signup", h'[q].op.user>>
                        /\ h'[q].at \in {"unaccount", "uncheckin"}
                               => accounts'[h'[q].user].gen > 0
      BY DEF CapturedOK
    <3>1. CASE q = r
      <4>1. h'[q] = [at |-> "unaccount", user |-> u]
        BY <1>3, <2>3, <3>1, GotoType DEF DeleteAccount
      <4> QED
        BY <2>1, <4>1
    <3>2. CASE q # r
      <4>1. h'[q] = h[q]
        BY <1>3, <2>3, <3>2, GotoType DEF DeleteAccount
      <4>2. h[q].at \in {"unaccount", "uncheckin"} => h[q].user \in Users
        BY Captured
      <4> QED
        BY <2>2, <4>1, <4>2 DEF CapturedOK
    <3> QED
      BY <3>1, <3>2
  <2>5. CheckinsPaid'
    <3>1. \A v \in Users : accounts'[v].gen = 0 => accounts[v].gen = 0
      BY <2>1
    <3>2. UNCHANGED <<streaks, ledger>>
      BY <1>3 DEF DeleteAccount, CloseAccount
    <3> QED
      BY <3>1, <3>2 DEF CheckinsPaid, KeyUsed
  <2> QED
    BY <1>3, <2>4, <2>5, StreaksUnchanged DEF DeleteAccount
<1>4. ASSUME NEW c \in Codes, StartRedeem(r, u, c) PROVE Bare
  <2>1. [at |-> "redeem", user |-> u, code |-> c] \in Handler
    BY DEF Handler
  <2>2. CapturedOK'
    BY <1>4, <2>1, GotoKeepsCaptured DEF StartRedeem
  <2> QED
    BY <1>4, <2>2, StreaksUnchanged, OtherKeysKeepCheckinsPaid DEF StartRedeem
<1> QED
  BY <1>1, <1>2, <1>3, <1>4 DEF UserStep

\* The sign-up bonus and a redeem code credit under other keys than a check-in.
LEMMA CreditKeeps ==
    ASSUME Inv, NEW r \in Req, Goto(r, Idle), streaks' = streaks, NEW op \in Op,
           Apply(op) \/ UNCHANGED <<accounts, ledger>>,
           \A u \in Users, d \in Days : op.key # <<"checkin", <<u, d>>>>
    PROVE  Bare
<1> USE DEF Inv, Bare
<1>1. LedgerTypeOK
  BY DEF LedgerInv
<1>2. \A u \in Users : accounts'[u].gen = accounts[u].gen
  BY <1>1, ApplyKeepsGen
<1>3. CapturedOK'
  BY <1>2, IdleIsHandler, GotoKeepsCaptured
<1>4. CheckinsPaid'
  BY <1>1, CreditKeepsCheckinsPaid, OtherKeysKeepCheckinsPaid
<1> QED
  BY <1>3, <1>4, StreaksUnchanged

\* ... so do its later steps ...
LEMMA HandlerStepKeeps ==
    ASSUME Inv, NEW r \in Req, HandlerStep(r)
    PROVE  Bare
<1> USE DEF Inv
<1>1. CASE GrantSignupBonus(r)
  <2> DEFINE u == h[r].user
             op == PointOp(u, conf.signup, "signup", None, <<"signup", u>>)
  <2>1. u \in Users /\ conf.signup \in Int /\ <<"signup", u>> \in Keys
    BY <1>1, Captured, ConfigTypes, ClaimsAssumption DEF GrantSignupBonus, Rest, Keys, Kinds
  <2>2. op \in Op /\ op.user = u /\ op.key = <<"signup", u>>
    <3>1. op \in Op
      BY <2>1, PointOpIsOp DEF Kinds
    <3>2. op.user = u /\ op.key = <<"signup", u>>
      BY DEF PointOp
    <3> QED
      BY <3>1, <3>2
  <2> HIDE DEF op
  <2>3. [at |-> "signup", op |-> op] \in Handler
    BY <2>2 DEF Handler
  <2>4. Goto(r, [at |-> "signup", op |-> op]) \/ Goto(r, Idle)
    BY <1>1 DEF GrantSignupBonus, op
  <2>5. UNCHANGED <<accounts, ledger, streaks>>
    BY <1>1 DEF GrantSignupBonus
  <2>6. CapturedOK'
    BY <2>2, <2>3, <2>4, <2>5, IdleIsHandler, GotoKeepsCaptured
  <2> QED
    BY <2>5, <2>6, StreaksUnchanged, OtherKeysKeepCheckinsPaid DEF Bare
<1>2. CASE CommitSignup(r)
  <2>1. h[r].op \in Op /\ h[r].op.key = <<"signup", h[r].op.user>>
    BY <1>2, Captured DEF CommitSignup, CapturedOK
  <2>2. Apply(h[r].op) \/ UNCHANGED <<accounts, ledger>>
    BY <1>2 DEF CommitSignup, ChangePoints, Rejected, ledgerVars
  <2>3. \A u \in Users, d \in Days : h[r].op.key # <<"checkin", <<u, d>>>>
    BY <2>1
  <2> QED
    BY <1>2, <2>1, <2>2, <2>3, CreditKeeps DEF CommitSignup
<1>3. CASE CommitCheckin(r)
  BY <1>3, CheckinKeeps DEF Bare
<1>4. CASE RedeemCode(r)
  <2> DEFINE u == h[r].user
             c == h[r].code
             op == PointOp(u, codes[c].points, "redeem_code", c, None)
  <2>1. u \in Users /\ c \in Codes /\ codes[c] \in Code
    BY <1>4, Captured DEF RedeemCode, Rest
  <2>2. codes[c].points \in Int /\ c \in Refs
    BY <2>1, ClaimsAssumption DEF Code
  <2>3. op \in Op /\ op.key = None
    BY <2>1, <2>2, PointOpIsOp DEF Kinds
  <2>4. \A v \in Users, d \in Days : op.key # <<"checkin", <<v, d>>>>
    <3> SUFFICES ASSUME NEW v \in Users, NEW d \in Days
                 PROVE  op.key # <<"checkin", <<v, d>>>>
      OBVIOUS
    <3>1. <<"checkin", <<v, d>>>> \in Keys
      BY ClaimsAssumption DEF Keys, Kinds
    <3> QED
      BY <2>3, <3>1, CoreAssumption
  <2>5. Apply(op) \/ UNCHANGED <<accounts, ledger>>
    BY <1>4 DEF RedeemCode
  <2> HIDE DEF op
  <2> QED
    BY <1>4, <2>3, <2>4, <2>5, CreditKeeps DEF RedeemCode
<1>5. CASE DeleteCheckins(r)
  <2> DEFINE u == h[r].user
  <2>1. u \in Users /\ accounts[u].gen > 0
    BY <1>5, Captured DEF DeleteCheckins, CapturedOK
  <2>2. [at |-> "uncheckin", user |-> u] \in Handler
    BY <2>1 DEF Handler
  <2>3. UNCHANGED <<accounts, ledger>>
    BY <1>5 DEF DeleteCheckins
  <2>4. CapturedOK'
    BY <1>5, <2>1, <2>2, <2>3, GotoKeepsCaptured DEF DeleteCheckins
  <2>5. /\ \A d \in Days : streaks'[u][d] = 0
        /\ \A v \in Users : v # u => streaks'[v] = streaks[v]
    BY <1>5, <2>1 DEF DeleteCheckins, Rest
  <2>6. StreakNeverOverstated'
    BY <2>5 DEF StreakNeverOverstated
  <2>7. CheckinsPaid'
    <3> SUFFICES ASSUME NEW v \in Users, NEW d \in Days
                 PROVE  LET paid == KeyUsed(<<"checkin", <<v, d>>>>)
                        IN  /\ streaks'[v][d] > 0 => paid
                            /\ paid /\ accounts[v].gen = 0 => streaks'[v][d] > 0
      BY <2>3 DEF CheckinsPaid, KeyUsed
    <3>1. CASE v = u
      BY <2>1, <2>5, <3>1
    <3>2. CASE v # u
      BY <2>5, <3>2 DEF CheckinsPaid
    <3> QED
      BY <3>1, <3>2
  <2> QED
    BY <2>4, <2>6, <2>7 DEF Bare
<1>6. CASE DeleteUser(r)
  <2>1. CapturedOK'
    BY <1>6, IdleIsHandler, GotoKeepsCaptured DEF DeleteUser
  <2> QED
    BY <1>6, <2>1, StreaksUnchanged, OtherKeysKeepCheckinsPaid DEF DeleteUser, Bare
<1> QED
  BY <1>1, <1>2, <1>3, <1>4, <1>5, <1>6 DEF HandlerStep

\* ... and the steps of the administrator, the clock and a restart.
LEMMA OtherStepKeeps ==
    ASSUME Inv,
           \/ \E c \in Codes : CodeStep(c)
           \/ ChangeSettings \/ Midnight \/ Restart \/ UNCHANGED vars
    PROVE  Bare
<1> USE DEF Inv, Bare
<1>1. UNCHANGED <<accounts, ledger, streaks>>
  BY OtherStepTypes
<1>2. h' = h \/ h' = [r \in Req |-> Idle]
  BY DEF CodeStep, CreateCode, EditCode, ChangeSettings, Midnight, Restart, vars
<1>3. CapturedOK'
  BY <1>1, <1>2, IdleIsHandler DEF CapturedOK, Idle
<1> QED
  BY <1>1, <1>3, StreaksUnchanged, OtherKeysKeepCheckinsPaid

-----------------------------------------------------------------------------
\* The empty store satisfies the invariant.
LEMMA InitOK == Init => Inv
<1> SUFFICES ASSUME Init PROVE Inv
  OBVIOUS
<1>1. LedgerInv
  BY LedgerInitOK DEF Init
<1>2. Rest
  <2>1. 1 \in Days
    BY ClaimsAssumption DEF Days
  <2>2. [state |-> "none", points |-> 0, max |-> 0, used |-> 0] \in Code
    BY DEF Code
  <2> QED
    BY <2>1, <2>2, IdleIsHandler DEF Init, Rest
<1>3. CapturedOK
  BY DEF Init, CapturedOK, Idle
<1>4. \A u \in Users, d \in Days : streaks[u][d] = 0
  BY DEF Init
<1>5. StreakNeverOverstated
  BY <1>4 DEF StreakNeverOverstated
<1>6. CheckinsPaid
  BY <1>4 DEF Init, LedgerInit, CheckinsPaid, KeyUsed
<1> QED
  BY <1>1, <1>2, <1>3, <1>5, <1>6 DEF Inv

\* Every step keeps it.
LEMMA StepOK == Inv /\ [Next]_vars => Inv'
<1> SUFFICES ASSUME Inv, [Next]_vars PROVE Inv'
  OBVIOUS
<1>1. LedgerStep /\ Rest'
  BY UserStepTypes, HandlerStepTypes, OtherStepTypes DEF Next, LedgerStep, ledgerVars
<1>2. LedgerInv'
  BY <1>1, LedgerStepKeepsInv DEF Inv
<1>3. Bare
  BY UserStepKeeps, HandlerStepKeeps, OtherStepKeeps DEF Next
<1> QED
  BY <1>1, <1>2, <1>3 DEF Inv, Bare

\* The inductive invariant of the claims holds in every reachable state.
THEOREM ClaimsInvariant == Spec => []Inv
BY InitOK, StepOK, PTL DEF Spec

\* The values of every variable keep their form, whoever claims what.
THEOREM ClaimsTypeOK == Spec => []TypeOK
<1>1. Inv => TypeOK
  BY DEF Inv, LedgerInv, Rest, TypeOK, HandlerOK
<1> QED
  BY <1>1, ClaimsInvariant, PTL

\* The account rows and the journal tell the same story through every claim
\* and every deletion of a user.
THEOREM ClaimsJournal == Spec => []AccountMatchesJournal
<1>1. Inv => AccountMatchesJournal
  BY DEF Inv, LedgerInv, AccountMatchesJournal
<1> QED
  BY <1>1, ClaimsInvariant, PTL

\* A streak is never recorded longer than the days really checked in.
THEOREM ClaimsStreak == Spec => []StreakNeverOverstated
<1>1. Inv => StreakNeverOverstated
  BY DEF Inv
<1> QED
  BY <1>1, ClaimsInvariant, PTL

\* A check-in row and its credit are stored together or not at all.
THEOREM ClaimsCheckinsPaid == Spec => []CheckinsPaid
<1>1. Inv => CheckinsPaid
  BY DEF Inv
<1> QED
  BY <1>1, ClaimsInvariant, PTL

-----------------------------------------------------------------------------
\* The entries that paid for the code c.
Paid(c) == {i \in DOMAIN ledger : ledger[i].kind = "redeem_code" /\ ledger[i].ref = c}

\* What CodeWithinLimit depends on: a use is stored with every credit, a code
\* that was never made was never used, and a sign-up is no redemption.
CodesBacked ==
    \A c \in Codes :
        /\ codes[c].used = Cardinality(Paid(c))
        /\ codes[c].used <= codes[c].max
        /\ codes[c].state = "none" => codes[c].used = 0
        /\ \A i, j \in Paid(c) : ledger[i].user = ledger[j].user => i = j
        /\ \A i \in Paid(c) : <<c, ledger[i].user>> \in uses

SignupsCaptured == \A r \in Req : h[r].at = "signup" => h[r].op.kind = "signup"

CodesInv == CodesBacked /\ SignupsCaptured

\* A credit of another kind pays for no code.
LEMMA OtherKindKeepsPaid ==
    ASSUME LedgerTypeOK, CodesBacked, UNCHANGED <<codes, uses>>,
           NEW op \in Op, op.kind # "redeem_code", Apply(op)
    PROVE  CodesBacked'
<1> DEFINE n == Len(ledger) + 1
<1>1. /\ DOMAIN ledger' = DOMAIN ledger \cup {n} /\ n \notin DOMAIN ledger
      /\ \A i \in DOMAIN ledger : ledger'[i] = ledger[i]
      /\ ledger'[n].kind = op.kind
  BY AppendEffect
<1> HIDE DEF n
<1>2. \A c : /\ Paid(c)' = Paid(c)
             /\ \A i \in Paid(c) : ledger'[i] = ledger[i]
  BY <1>1 DEF Paid
<1> QED
  BY <1>2 DEF CodesBacked

LEMMA SameJournalKeepsPaid ==
    ASSUME CodesBacked, UNCHANGED <<codes, uses, ledger>>
    PROVE  CodesBacked'
BY DEF CodesBacked, Paid

\* redeemCode: the use, the counter and the credit.
LEMMA RedeemKeepsPaid ==
    ASSUME LedgerTypeOK, Rest, CodesBacked, NEW c \in Codes, NEW u \in Users,
           Redeemable(c, u), NEW op \in Op, Apply(op),
           op.user = u, op.kind = "redeem_code", op.ref = c,
           codes' = [codes EXCEPT ![c].used = @ + 1], uses' = uses \cup {<<c, u>>}
    PROVE  CodesBacked'
<1> DEFINE n == Len(ledger) + 1
<1>1. /\ DOMAIN ledger' = DOMAIN ledger \cup {n} /\ n \notin DOMAIN ledger
      /\ \A i \in DOMAIN ledger : ledger'[i] = ledger[i]
      /\ ledger'[n].user = u /\ ledger'[n].kind = "redeem_code" /\ ledger'[n].ref = c
      /\ IsFiniteSet(DOMAIN ledger)
  BY AppendEffect
<1> HIDE DEF n
<1>2. \A x \in Codes : x # c => /\ codes'[x] = codes[x] /\ Paid(x)' = Paid(x)
                                /\ \A i \in Paid(x) : ledger'[i] = ledger[i]
  BY <1>1 DEF Paid, Rest
<1>3. /\ Paid(c)' = Paid(c) \cup {n} /\ n \notin Paid(c)
      /\ \A i \in Paid(c) : ledger'[i] = ledger[i]
      /\ Paid(c) \in SUBSET DOMAIN ledger
  BY <1>1 DEF Paid
<1>4. codes[c] \in Code /\ codes[c].used < codes[c].max /\ codes[c].state = "on"
      /\ <<c, u>> \notin uses
  BY DEF Rest, Redeemable
<1>5. /\ codes'[c].used = codes[c].used + 1 /\ codes'[c].max = codes[c].max
      /\ codes'[c].state = "on"
  <2> DEFINE k == codes[c].used + 1
             new == [codes[c] EXCEPT !.used = k]
  <2>1. new.used = k /\ new.max = codes[c].max /\ new.state = codes[c].state
    <3> HIDE DEF k
    <3> QED BY <1>4 DEF Code
  <2>2. codes' = [codes EXCEPT ![c] = new] /\ codes \in [Codes -> Code]
    BY DEF Rest
  <2> HIDE DEF new
  <2>3. codes'[c] = new
    BY <2>2
  <2> QED
    BY <1>4, <2>1, <2>3
<1>6. Cardinality(Paid(c)') = Cardinality(Paid(c)) + 1
  <2> DEFINE P == Paid(c)
  <2>1. IsFiniteSet(P) /\ n \notin P
    BY <1>1, <1>3, FS_Subset
  <2> HIDE DEF P
  <2>2. Cardinality(P \cup {n}) = Cardinality(P) + 1
    BY <2>1, FS_AddElement
  <2> QED
    BY <1>3, <2>2 DEF P
<1>7. /\ codes[c].used = Cardinality(Paid(c))
      /\ \A i, j \in Paid(c) : ledger[i].user = ledger[j].user => i = j
      /\ \A i \in Paid(c) : <<c, ledger[i].user>> \in uses
  BY DEF CodesBacked
<1>8. codes'[c].used = Cardinality(Paid(c)')
  BY <1>5, <1>6, <1>7
<1>9. codes'[c].used <= codes'[c].max
  BY <1>4, <1>5 DEF Code
<1>10. \A i \in Paid(c) : ledger'[i].user = ledger[i].user /\ ledger[i].user # u
  BY <1>3, <1>4, <1>7
<1>11. \A i, j \in Paid(c)' : ledger'[i].user = ledger'[j].user => i = j
  BY <1>1, <1>3, <1>7, <1>10
<1>12. \A i \in Paid(c)' : <<c, ledger'[i].user>> \in uses'
  BY <1>1, <1>3, <1>7, <1>10
<1>13. ASSUME NEW x \in Codes, x # c
       PROVE  /\ codes'[x].used = Cardinality(Paid(x)')
              /\ codes'[x].used <= codes'[x].max
              /\ codes'[x].state = "none" => codes'[x].used = 0
              /\ \A i, j \in Paid(x)' : ledger'[i].user = ledger'[j].user => i = j
              /\ \A i \in Paid(x)' : <<x, ledger'[i].user>> \in uses'
  BY <1>2, <1>13 DEF CodesBacked
<1> QED
  BY <1>5, <1>8, <1>9, <1>11, <1>12, <1>13 DEF CodesBacked

LEMMA CodesStep == Inv /\ CodesInv /\ [Next]_vars => CodesInv'
<1> SUFFICES ASSUME Inv, CodesInv, [Next]_vars PROVE CodesInv'
  OBVIOUS
<1> USE DEF Inv, CodesInv
<1>0. LedgerTypeOK
  BY DEF LedgerInv
<1>1. ASSUME NEW r \in Req, NEW s \in Handler, Goto(r, s),
             s.at = "signup" => s.op.kind = "signup"
      PROVE  SignupsCaptured'
  BY <1>1, GotoType DEF SignupsCaptured
<1>2. ASSUME NEW r \in Req, NEW u \in Users, UserStep(r, u) PROVE CodesInv'
  <2>1. UNCHANGED <<codes, uses, ledger>>
    BY <1>2 DEF UserStep, Register, StartCheckin, DeleteAccount, CloseAccount, StartRedeem
  <2>2. SignupsCaptured'
    <3>1. CASE Register(r, u)
      <4>1. [at |-> "registered", user |-> u] \in Handler
        BY DEF Handler
      <4> QED
        BY <1>1, <3>1, <4>1 DEF Register
    <3>2. CASE StartCheckin(r, u)
      <4>1. [at |-> "checkin", user |-> u, day |-> today, conf |-> conf] \in Handler
        BY DEF Handler, Rest
      <4> QED
        BY <1>1, <3>2, <4>1 DEF StartCheckin
    <3>3. CASE DeleteAccount(r, u)
      <4>1. [at |-> "unaccount", user |-> u] \in Handler
        BY DEF Handler
      <4> QED
        BY <1>1, <3>3, <4>1 DEF DeleteAccount
    <3>4. ASSUME NEW c \in Codes, StartRedeem(r, u, c) PROVE SignupsCaptured'
      <4>1. [at |-> "redeem", user |-> u, code |-> c] \in Handler
        BY DEF Handler
      <4> QED
        BY <1>1, <3>4, <4>1 DEF StartRedeem
    <3> QED
      BY <1>2, <3>1, <3>2, <3>3, <3>4 DEF UserStep
  <2> QED
    BY <2>1, <2>2, SameJournalKeepsPaid
<1>3. ASSUME NEW r \in Req, HandlerStep(r) PROVE CodesInv'
  <2>i. Goto(r, Idle) => SignupsCaptured'
    BY <1>1, IdleIsHandler
  <2>1. CASE GrantSignupBonus(r)
    <3> DEFINE u == h[r].user
               op == PointOp(u, conf.signup, "signup", None, <<"signup", u>>)
    <3>1. u \in Users /\ conf.signup \in Int /\ <<"signup", u>> \in Keys
      BY <2>1, Captured, ConfigTypes, ClaimsAssumption DEF GrantSignupBonus, Rest, Keys, Kinds
    <3>2. op \in Op
      BY <3>1, PointOpIsOp DEF Kinds
    <3>3. op.kind = "signup"
      BY DEF PointOp
    <3> HIDE DEF op
    <3>4. [at |-> "signup", op |-> op] \in Handler
      BY <3>2 DEF Handler
    <3>5. Goto(r, [at |-> "signup", op |-> op]) \/ Goto(r, Idle)
      BY <2>1 DEF GrantSignupBonus, op
    <3>6. SignupsCaptured'
      BY <1>1, <2>i, <3>3, <3>4, <3>5
    <3> QED
      BY <2>1, <3>6, SameJournalKeepsPaid DEF GrantSignupBonus
  <2>2. CASE CommitSignup(r)
    <3>1. h[r].op \in Op /\ h[r].op.kind = "signup"
      BY <2>2, Captured DEF CommitSignup, SignupsCaptured
    <3>2. Apply(h[r].op) \/ UNCHANGED ledger
      BY <2>2 DEF CommitSignup, ChangePoints, Rejected, ledgerVars
    <3> QED
      BY <1>0, <2>i, <2>2, <3>1, <3>2, OtherKindKeepsPaid, SameJournalKeepsPaid
         DEF CommitSignup
  <2>3. CASE CommitCheckin(r)
    <3> DEFINE op == CheckinOp(h[r].user, h[r].day, h[r].conf)
    <3>1. h[r].user \in Users /\ h[r].day \in Days /\ h[r].conf \in Configs
      BY <2>3, Captured DEF CommitCheckin
    <3>2. op \in Op
      BY <3>1, CheckinOpIsOp
    <3>3. op.kind = "checkin"
      BY DEF CheckinOp, PointOp
    <3>4. Apply(op) \/ UNCHANGED ledger
      BY <2>3 DEF CommitCheckin
    <3> HIDE DEF op
    <3> QED
      BY <1>0, <2>i, <2>3, <3>2, <3>3, <3>4, OtherKindKeepsPaid, SameJournalKeepsPaid
         DEF CommitCheckin
  <2>4. CASE RedeemCode(r)
    <3> DEFINE u == h[r].user
               c == h[r].code
               op == PointOp(u, codes[c].points, "redeem_code", c, None)
    <3>1. u \in Users /\ c \in Codes /\ codes[c] \in Code
      BY <2>4, Captured DEF RedeemCode, Rest
    <3>2. codes[c].points \in Int /\ c \in Refs
      BY <3>1, ClaimsAssumption DEF Code
    <3>3. op \in Op
      BY <3>1, <3>2, PointOpIsOp DEF Kinds
    <3>4. op.user = u /\ op.kind = "redeem_code" /\ op.ref = c
      BY DEF PointOp
    <3>5. \/ /\ Redeemable(c, u)
             /\ codes' = [codes EXCEPT ![c].used = @ + 1]
             /\ uses' = uses \cup {<<c, u>>}
             /\ Apply(op)
          \/ UNCHANGED <<ledger, codes, uses>>
      BY <2>4 DEF RedeemCode
    <3>6. Goto(r, Idle)
      BY <2>4 DEF RedeemCode
    <3> HIDE DEF op, c, u
    <3>7. CodesBacked'
      BY <1>0, <3>1, <3>3, <3>4, <3>5, RedeemKeepsPaid, SameJournalKeepsPaid
    <3> QED
      BY <2>i, <3>6, <3>7
  <2>5. CASE DeleteCheckins(r)
    <3>1. [at |-> "uncheckin", user |-> h[r].user] \in Handler
      BY <2>5, Captured DEF DeleteCheckins, Handler
    <3>2. SignupsCaptured'
      BY <1>1, <2>5, <3>1 DEF DeleteCheckins
    <3> QED
      BY <2>5, <3>2, SameJournalKeepsPaid DEF DeleteCheckins
  <2>6. CASE DeleteUser(r)
    BY <2>i, <2>6, SameJournalKeepsPaid DEF DeleteUser
  <2> QED
    BY <1>3, <2>1, <2>2, <2>3, <2>4, <2>5, <2>6 DEF HandlerStep
<1>4. ASSUME UNCHANGED h \/ h' = [r \in Req |-> Idle] PROVE SignupsCaptured'
  BY <1>4, IdleIsHandler DEF SignupsCaptured
<1>5. ASSUME NEW c \in Codes, EditCode(c) PROVE CodesInv'
  <2>1. PICK s \in {"on", "off", "gone"} : codes' = [codes EXCEPT ![c].state = s]
    BY <1>5 DEF EditCode
  <2>2. UNCHANGED <<ledger, uses, h>>
    BY <1>5 DEF EditCode
  <2> DEFINE new == [codes[c] EXCEPT !.state = s]
  <2>3. new.used = codes[c].used /\ new.max = codes[c].max /\ new.state = s
    BY DEF Rest, Code
  <2> HIDE DEF new
  <2>4. codes' = [codes EXCEPT ![c] = new] /\ codes \in [Codes -> Code]
    BY <2>1 DEF Rest, new
  <2>5. \A x \in Codes : /\ codes'[x].used = codes[x].used /\ codes'[x].max = codes[x].max
                         /\ codes'[x].state = "none" => codes[x].state = "none"
    BY <2>3, <2>4
  <2>6. \A x : Paid(x)' = Paid(x)
    BY <2>2 DEF Paid
  <2>7. CodesBacked'
    BY <2>2, <2>5, <2>6 DEF CodesBacked
  <2> QED
    BY <1>4, <2>2, <2>7
<1>6. ASSUME NEW c \in Codes, NEW n \in CodePoints, NEW m \in 1..MaxUses, CreateCode(c, n, m)
      PROVE  CodesInv'
  <2> DEFINE new == [state |-> "on", points |-> n, max |-> m, used |-> 0]
  <2>1. /\ codes' = [codes EXCEPT ![c] = new] /\ codes[c].state = "none"
        /\ UNCHANGED <<ledger, uses, h>> /\ codes \in [Codes -> Code]
    BY <1>6 DEF CreateCode, Rest
  <2>2. new.used = 0 /\ new.max = m /\ m \in Nat /\ new.state = "on"
    OBVIOUS
  <2> HIDE DEF new
  <2>3. codes'[c] = new /\ \A x \in Codes : x # c => codes'[x] = codes[x]
    BY <2>1
  <2>4. codes[c].used = 0
    BY <2>1 DEF CodesBacked
  <2>5. \A x : Paid(x)' = Paid(x)
    BY <2>1 DEF Paid
  <2>6. CodesBacked'
    BY <2>1, <2>2, <2>3, <2>4, <2>5 DEF CodesBacked
  <2> QED
    BY <1>4, <2>1, <2>6
<1>7. CASE ChangeSettings \/ Midnight \/ Restart \/ UNCHANGED vars
  <2>1. UNCHANGED <<codes, uses, ledger>> /\ (UNCHANGED h \/ h' = [r \in Req |-> Idle])
    BY <1>7 DEF ChangeSettings, Midnight, Restart, vars
  <2> QED
    BY <1>4, <2>1, SameJournalKeepsPaid
<1> QED
  BY <1>2, <1>3, <1>5, <1>6, <1>7 DEF Next, CodeStep

\* "每码可设总次数，同一用户同码只能用一次" (shop_core.go:24): for any number of users, codes and
\* redemptions in flight, a code pays at most max_uses times, each user at
\* most once, and used_count is the number of credits in the journal.
THEOREM ClaimsCodeWithinLimit == Spec => []CodeWithinLimit
<1>1. Init => CodesInv
  <2> SUFFICES ASSUME Init PROVE CodesInv
    OBVIOUS
  <2>1. \A c : Paid(c) = {}
    BY DEF Init, LedgerInit, Paid
  <2> QED
    BY <2>1, FS_EmptySet, IdleIsHandler DEF Init, CodesInv, CodesBacked, SignupsCaptured
<1>2. Inv /\ CodesInv /\ [Next]_vars => CodesInv'
  BY CodesStep
<1>3. CodesInv => CodeWithinLimit
  BY DEF CodesInv, CodesBacked, CodeWithinLimit, Paid
<1> QED
  BY <1>1, <1>2, <1>3, ClaimsInvariant, PTL DEF Spec
=============================================================================
