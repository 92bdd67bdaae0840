----------------------------- MODULE PointsOps ------------------------------
(***************************************************************************)
(* Points moved by administrators, by the open API and by the paid         *)
(* one-click probe (points_routes.go, points_core.go, forward.go, rest.go).*)
(*                                                                         *)
(* A handler is a goroutine per request: it resolves the user or reads the *)
(* rules first and runs its transaction later, with other handlers in      *)
(* between.  A caller that lost the answer sends the same Idempotency-Key  *)
(* again; a restart of the server forgets every handler.                   *)
(***************************************************************************)
EXTENDS PointsCore, FiniteSets

CONSTANTS Callers,    \* request handlers in flight at most
          ApiKeys,    \* Idempotency-Key headers callers send (None: no header)
          Clip,       \* [ApiKeys \ {None} -> Refs]: the key as stored (128 bytes)
          ProbeCosts, \* values of the rule "cost of one probe" (0: free)
          Amounts,    \* positive amounts of adjustments and API calls
          MaxJournal  \* bound: journal entries

ASSUME OpsAssumption ==
    /\ IsFiniteSet(Callers)
    /\ Amounts \subseteq Nat \ {0}
    /\ ProbeCosts \subseteq Nat
    /\ Clip \in [ApiKeys \ {None} -> Refs]
    /\ MaxJournal \in Nat

VARIABLES rules,      \* pointsConf, the rules in memory, as far as they matter here
          calls       \* what each handler has captured

opsVars == <<accounts, ledger, rules, calls>>

NoCall == [at |-> "idle"]
Call == {NoCall}
    \cup [at : {"op", "charge"}, op : Op]
    \cup [at : {"probing"}, user : Users, cost : Int]

Operation(u, d, kind, key) ==
    [user |-> u, delta |-> d, kind |-> kind, ref |-> None, key |-> key]

Continue(r, s) == calls' = [calls EXCEPT ![r] = s]

-----------------------------------------------------------------------------
\* POST /points/admin/adjust: the user is resolved, then changed.
ResolveAdjust(r, u, d) ==
    /\ calls[r] = NoCall
    /\ Continue(r, [at |-> "op", op |-> Operation(u, d, "admin", None)])
    /\ UNCHANGED <<accounts, ledger, rules>>

\* Mutant: the key is stored without the prefix that keeps kinds apart.
Mut_BareKey(kind, k) == IF k = None THEN None ELSE Clip[k]

\* The key of an API call is prefixed with its kind and clipped when stored.
ApiKey(kind, k) == IF k = None THEN None ELSE <<kind, Clip[k]>>

\* POST /api/v1/points/grant and /deduct.
ResolveApi(r, u, d, k) ==
    LET kind == IF d > 0 THEN "api_grant" ELSE "api_deduct"
    IN  /\ calls[r] = NoCall
        /\ Continue(r, [at |-> "op", op |-> Operation(u, d, kind, ApiKey(kind, k))])
        /\ UNCHANGED <<accounts, ledger, rules>>

\* changePoints: a duplicate is answered from the journal, a deduction that
\* is not covered is refused, and neither moves anything.
CommitOp(r) ==
    /\ calls[r].at = "op" /\ Len(ledger) < MaxJournal
    /\ ChangePoints(calls[r].op)
    /\ Continue(r, NoCall)
    /\ UNCHANGED rules

-----------------------------------------------------------------------------
\* chargeProbeCost reads the rules: a probe is free while points are off.
StartProbe(r, u) ==
    /\ calls[r] = NoCall
    /\ Continue(r, IF rules.enabled /\ rules.probe > 0
                   THEN [at |-> "charge", op |-> Operation(u, -rules.probe, "probe", None)]
                   ELSE [at |-> "probing", user |-> u, cost |-> 0])
    /\ UNCHANGED <<accounts, ledger, rules>>

\* Without enough points the request is refused (402).
ChargeProbeCost(r) ==
    LET op == calls[r].op
    IN  /\ calls[r].at = "charge" /\ Len(ledger) < MaxJournal
        /\ \/ Apply(op) /\ Continue(r, [at |-> "probing", user |-> op.user, cost |-> -op.delta])
           \/ Rejected(op) /\ Continue(r, NoCall)
        /\ UNCHANGED rules

\* The probe ran: whatever its results, the charge stays.
ProbeDone(r) ==
    /\ calls[r].at = "probing"
    /\ Continue(r, NoCall)
    /\ UNCHANGED <<accounts, ledger, rules>>

\* The probe could not run at all: refundProbeCost gives back what was
\* charged, not what the rules say now.
\* Mutant: the refund is the price of a probe by the rules of now.
Mut_RefundCurrentPrice(r) == Operation(calls[r].user, rules.probe, "probe_back", None)

RefundOp(r) == Operation(calls[r].user, calls[r].cost, "probe_back", None)

RefundProbeCost(r) ==
    /\ calls[r].at = "probing" /\ Len(ledger) < MaxJournal
    /\ ChangePoints(RefundOp(r))
    /\ Continue(r, NoCall)
    /\ UNCHANGED rules

\* PUT /points/admin/settings, and the reload of the saved rules at start.
ChangeRules ==
    /\ rules' \in [enabled : BOOLEAN, probe : ProbeCosts]
    /\ UNCHANGED <<accounts, ledger, calls>>

\* The process restarts: transactions are in or out, handlers are gone.
RestartCalls ==
    /\ calls' = [r \in Callers |-> NoCall]
    /\ UNCHANGED <<accounts, ledger, rules>>

OpsInit ==
    /\ LedgerInit
    /\ rules \in [enabled : BOOLEAN, probe : ProbeCosts]
    /\ calls = [r \in Callers |-> NoCall]

Request(r, u) ==
    \/ StartProbe(r, u)
    \/ \E d \in Amounts \cup {-n : n \in Amounts} :
          \/ ResolveAdjust(r, u, d)
          \/ \E k \in ApiKeys : ResolveApi(r, u, d, k)

CallStep(r) ==
    \/ CommitOp(r)
    \/ ChargeProbeCost(r)
    \/ ProbeDone(r)
    \/ RefundProbeCost(r)

OpsNext ==
    \/ \E r \in Callers, u \in Users : Request(r, u)
    \/ \E r \in Callers : CallStep(r)
    \/ ChangeRules
    \/ RestartCalls

OpsSpec == OpsInit /\ [][OpsNext]_opsVars

-----------------------------------------------------------------------------
\* The types of the variables.
OpsTypeOK ==
    /\ LedgerTypeOK
    /\ rules \in [enabled : BOOLEAN, probe : ProbeCosts]
    /\ calls \in [Callers -> Call]

\* Every probe that was given its points back, and every paid one still
\* running, has a charge of the same user and amount of its own, whatever
\* the rules are changed to in between.
RefundsBacked ==
    \A u \in Users, n \in ProbeCosts \ {0} :
        LET moves(kind, d) == {i \in DOMAIN ledger : /\ ledger[i].user = u
                                                     /\ ledger[i].kind = kind
                                                     /\ ledger[i].delta = d}
            running == {r \in Callers : calls[r] = [at |-> "probing", user |-> u, cost |-> n]}
        IN  Cardinality(moves("probe_back", n)) + Cardinality(running)
                <= Cardinality(moves("probe", -n))
=============================================================================
