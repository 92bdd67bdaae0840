----------------------------- MODULE LoopsProofs -----------------------------
(***************************************************************************)
(* The loops that work beside the requests, for any number of handlers,    *)
(* nodes, tasks and rounds.  The agent's rounds (Agent): what runs is what *)
(* was applied.  The scheduler and the rounds it starts (ProbeTasks): no   *)
(* two rounds of a task, and no alert that its rounds do not bear out.     *)
(* The read loops of the nodes and the reconciler (Ota): no upgrade waits  *)
(* for a command its node has never heard of, and a verdict stands.  And   *)
(* what is told of the samples that they store (Measures, Uptime).         *)
(***************************************************************************)
EXTENDS Ota, ProbeTasks, Agent, Measures, FiniteSetTheorems, WellFoundedInduction, TLAPS

-----------------------------------------------------------------------------
(* The agent (Agent). *)

Approved == {"node", "env", "write", "restart", "start", "self"}

\* What a round that was approved works off, and what it has written by the end
\* of it.
RoundOK ==
    /\ at \in Approved => got \in Answer \ {NoAnswer}
    /\ at = "write" => env = Nothing
    /\ at \in {"restart", "start", "self"} => env = got.key

\* A service that is up runs what is on the disk, except for what the round that
\* is under way, or one that ended with an empty file, has yet to restart it for.
Applied ==
    unit.up /\ ~missed =>
        /\ unit.bin # bin => (upgraded /\ at = "env") \/ at = "restart" \/ env = Nothing
        /\ unit.env # env => env = Nothing \/ at = "restart"

\* A download is of a binary that was announced, and of that one only what has
\* passed the check waits for its name.
FetchOK ==
    /\ fetching.at # "no" => Upgrades /\ Want \in Builds
    /\ fetching.at = "rename" => temp = Want

AgentIInv == AgentInv /\ RoundOK /\ Applied /\ FetchOK

LEMMA AgentInitInv == AgentInit => AgentIInv
<1> SUFFICES ASSUME AgentInit PROVE AgentIInv
  OBVIOUS
<1>1. PICK k \in Keys, v \in Builds :
        /\ centre = [status |-> "approved", key |-> k, token |-> TRUE, node |-> v, agent |-> v]
        /\ bin = v /\ self = v
        /\ unit = [enabled |-> FALSE, up |-> FALSE, env |-> Nothing, bin |-> v]
  BY DEF AgentInit
<1>2. centre \in Centre /\ unit \in Unit
  BY <1>1 DEF Centre, Statuses, Offers, Unit
<1>3. AgentTypeOK
  <2>1. changes \in 0 .. MaxChanges /\ faults \in 0 .. MaxFaults
    BY AgentAssumption DEF AgentInit
  <2>2. got \in Answer
    BY DEF AgentInit, Answer
  <2>f. temp \in Builds \cup {Nothing, Broken} /\ fetching \in Fetching
    BY DEF AgentInit, Fetching
  <2>3. env \in Keys \cup {Nothing} /\ upgraded \in BOOLEAN /\ missed \in BOOLEAN /\ at = "idle"
    BY DEF AgentInit
  <2> QED
    BY <1>2, <2>1, <2>2, <2>f, <2>3 DEF AgentTypeOK
<1>4. BinariesWhole
  BY <1>1 DEF BinariesWhole
<1>5. RoundOK /\ Applied /\ FetchOK
  BY <1>1 DEF AgentInit, RoundOK, Applied, Approved, FetchOK, NotFetching
<1> QED
  BY <1>3, <1>4, <1>5 DEF AgentIInv, AgentInv

LEMMA NoAnswerHasNoKey ==
    ASSUME NEW x \in Answer \ {NoAnswer}
    PROVE  x \in [key : Keys, node : Offers, agent : Offers] /\ x.key # Nothing
BY AgentAssumption DEF Answer

\* Nothing is being downloaded, or no longer.
LEMMA QuietFetch == fetching' = NotFetching => FetchOK' /\ fetching' \in Fetching
BY DEF FetchOK, NotFetching, Fetching

LEMMA NoFetchAway ==
    ASSUME FetchOK, ~Upgrades, UNCHANGED fetching
    PROVE  FetchOK'
BY DEF FetchOK

\* The centre changes under the agent's feet; nothing else does.
LEMMA ChangeKeepsAgent ==
    ASSUME AgentIInv, SetStatus \/ RotateKey \/ ResetToken \/ Publish
    PROVE  AgentIInv'
<1> USE DEF AgentIInv, AgentInv
<1>1. centre' \in Centre
  BY DEF AgentTypeOK, SetStatus, RotateKey, ResetToken, Publish, Change, Centre
<1>2. changes' \in 0 .. MaxChanges /\ UNCHANGED <<at, memory, disk, unit, faults, missed>>
  BY AgentAssumption DEF AgentTypeOK, SetStatus, RotateKey, ResetToken, Publish, Change
<1>3. AgentTypeOK'
  BY <1>1, <1>2 DEF AgentTypeOK, disk, memory
<1>4. BinariesWhole' /\ RoundOK' /\ Applied' /\ FetchOK'
  BY <1>2 DEF BinariesWhole, RoundOK, Applied, FetchOK, Upgrades, Want, disk, memory
<1> QED
  BY <1>3, <1>4

LEMMA StartedUnit ==
    ASSUME AgentInv
    PROVE  /\ Started(unit) \in Unit /\ Started(unit).up
           /\ Started(unit).env = env /\ Started(unit).bin = bin
<1>1. unit \in Unit /\ env \in Keys \cup {Nothing} /\ bin \in Builds
  BY DEF AgentInv, AgentTypeOK, BinariesWhole
<1> QED
  BY <1>1 DEF Started, Unit

\* The answer to the question what to do.
LEMMA FetchKeepsAgent ==
    ASSUME AgentIInv, FetchApproved \/ FetchRevoked \/ FetchRefused \/ FetchNothing
    PROVE  AgentIInv'
<1> USE DEF AgentIInv, AgentInv, disk, Agent, memory
<1>q. FetchOK'
  BY NoFetchAway DEF FetchApproved, FetchRevoked, FetchRefused, FetchNothing, Upgrades
<1>1. CASE FetchApproved
  <2>1. got' \in Answer \ {NoAnswer}
    BY <1>1, AgentAssumption
       DEF FetchApproved, Configuration, AgentTypeOK, Centre, Answer, NoAnswer
  <2>2. AgentTypeOK' /\ BinariesWhole'
    BY <1>1, <2>1 DEF FetchApproved, AgentTypeOK, BinariesWhole
  <2>3. RoundOK' /\ Applied'
    BY <1>1, <2>1 DEF FetchApproved, RoundOK, Applied, Approved
  <2> QED
    BY <1>q, <2>2, <2>3
<1>2. CASE FetchRevoked
  BY <1>q, <1>2 DEF FetchRevoked, AgentTypeOK, BinariesWhole, RoundOK, Applied, Approved
<1>3. CASE FetchNothing
  BY <1>q, <1>3, AgentAssumption
     DEF FetchNothing, Fault, AgentTypeOK, BinariesWhole, RoundOK, Applied, Approved
<1>4. CASE FetchRefused
  BY <1>q, <1>4, AgentAssumption
     DEF FetchRefused, Fault, AgentTypeOK, BinariesWhole, RoundOK, Applied, Approved
<1> QED
  BY <1>1, <1>2, <1>3, <1>4

\* Downloads.
LEMMA GoesOnKeepsAgent ==
    ASSUME AgentIInv, Upgrades, GoesOn, UNCHANGED <<centre, changes, env, bin, self, unit, missed>>,
           temp' \in Builds \cup {Nothing, Broken}, faults' \in 0 .. MaxFaults
    PROVE  AgentIInv'
<1> USE DEF AgentIInv, AgentInv, Upgrades, GoesOn, Forget
<1>1. fetching' = NotFetching /\ NoAnswer \in Answer
  BY DEF Answer
<1>2. AgentTypeOK' /\ BinariesWhole'
  BY <1>1, QuietFetch DEF AgentTypeOK, BinariesWhole
<1>3. RoundOK' /\ Applied'
  BY DEF RoundOK, Applied, Approved
<1> QED
  BY <1>1, <1>2, <1>3, QuietFetch

LEMMA DownloadsKeepAgent ==
    ASSUME AgentIInv, NothingNewer \/ Download \/ NotDownloaded \/ Downloaded \/ NotReplaced
    PROVE  AgentIInv'
<1> USE DEF AgentIInv, AgentInv, disk
<1>f. /\ faults \in 0 .. MaxFaults /\ (Fault => faults' \in 0 .. MaxFaults)
      /\ temp \in Builds \cup {Nothing, Broken} /\ fetching \in Fetching
      /\ fetching.at \in {"copy", "rename"} => fetching.body \in Builds \cup {Broken}
  BY AgentAssumption DEF AgentTypeOK, Fault, Fetching, NotFetching
<1>1. CASE NothingNewer
  BY <1>1, <1>f, GoesOnKeepsAgent DEF NothingNewer
<1>2. CASE NotDownloaded
  BY <1>2, <1>f, GoesOnKeepsAgent DEF NotDownloaded
<1>3. CASE NotReplaced
  BY <1>3, <1>f, GoesOnKeepsAgent DEF NotReplaced, FetchOK
<1>4. CASE Download
  <2>1. PICK body \in Builds \cup {Broken} : fetching' = [at |-> "copy", body |-> body]
    BY <1>4 DEF Download, Contents, Offered, AgentTypeOK, Centre, Offers
  <2>2. fetching' \in Fetching /\ fetching'.at = "copy"
    BY <2>1 DEF Fetching
  <2>3. Want \in Builds
    BY <1>4 DEF Download, Upgrades, Want, UpToDate, AgentTypeOK, Answer, NoAnswer, Offers
  <2>4. /\ temp' = Broken /\ Upgrades /\ faults' \in 0 .. MaxFaults
        /\ UNCHANGED <<centre, changes, at, got, upgraded, env, bin, self, unit, missed>>
    BY <1>4, <1>f DEF Download
  <2>5. AgentTypeOK' /\ BinariesWhole'
    BY <2>2, <2>4 DEF AgentTypeOK, BinariesWhole
  <2>6. RoundOK' /\ Applied' /\ FetchOK'
    BY <2>2, <2>3, <2>4 DEF RoundOK, Applied, FetchOK, Upgrades, Want
  <2> QED
    BY <2>5, <2>6
<1>5. CASE Downloaded
  <2>0. Upgrades /\ UNCHANGED <<centre, changes, env, bin, self, unit, faults, missed>>
    BY <1>5 DEF Downloaded, FetchOK
  <2>1. CASE Verified(fetching.body, Want)
    <3>1. /\ temp' = Want /\ Want \in Builds /\ fetching' = [fetching EXCEPT !.at = "rename"]
          /\ UNCHANGED <<at, got, upgraded>>
      BY <1>5, <2>1 DEF Downloaded, Verified, FetchOK
    <3>2. fetching' \in Fetching /\ fetching'.at = "rename"
      BY <1>5, <1>f, <3>1 DEF Downloaded, Fetching, NotFetching
    <3>3. AgentTypeOK' /\ BinariesWhole'
      BY <2>0, <3>1, <3>2 DEF AgentTypeOK, BinariesWhole
    <3>4. RoundOK' /\ Applied' /\ FetchOK'
      BY <2>0, <3>1, <3>2 DEF RoundOK, Applied, FetchOK, Upgrades, Want
    <3> QED
      BY <3>3, <3>4
  <2>2. CASE ~Verified(fetching.body, Want)
    BY <1>5, <1>f, <2>0, <2>2, GoesOnKeepsAgent DEF Downloaded
  <2> QED
    BY <2>1, <2>2
<1> QED
  BY <1>1, <1>2, <1>3, <1>4, <1>5

\* Binaries are replaced by what was announced.
LEMMA ReplacementsKeepAgent ==
    ASSUME AgentIInv, ReplaceNode \/ ReplaceSelf
    PROVE  AgentIInv'
<1> USE DEF AgentIInv, AgentInv
<1>1. temp \in Builds /\ fetching' = NotFetching /\ NoAnswer \in Answer
  BY DEF ReplaceNode, ReplaceSelf, FetchOK, Forget, Answer
<1>2. CASE ReplaceNode
  <2>1. AgentTypeOK' /\ BinariesWhole'
    BY <1>1, <1>2, QuietFetch DEF ReplaceNode, AgentTypeOK, BinariesWhole
  <2>2. RoundOK' /\ Applied'
    BY <1>2 DEF ReplaceNode, RoundOK, Applied, Approved
  <2> QED
    BY <1>1, <2>1, <2>2, QuietFetch
<1>3. CASE ReplaceSelf
  <2>1. AgentTypeOK' /\ BinariesWhole'
    BY <1>1, <1>3, QuietFetch DEF ReplaceSelf, Forget, AgentTypeOK, BinariesWhole
  <2>2. RoundOK' /\ Applied'
    BY <1>3 DEF ReplaceSelf, Forget, RoundOK, Applied, Approved
  <2> QED
    BY <1>1, <2>1, <2>2, QuietFetch
<1> QED
  BY <1>2, <1>3

\* The environment file.
LEMMA FileKeepsAgent ==
    ASSUME AgentIInv, Unchanged \/ Truncate \/ Write \/ WriteFails \/ Clear
    PROVE  AgentIInv'
<1> USE DEF AgentIInv, AgentInv, disk, Agent, memory
<1>q. FetchOK'
  BY NoFetchAway, QuietFetch
     DEF Unchanged, Truncate, Write, WriteFails, Forget, Clear, Upgrades
<1>f. /\ faults \in 0 .. MaxFaults /\ got \in Answer /\ NoAnswer \in Answer
      /\ at \in Approved => got.key \in Keys /\ got.key # Nothing
  BY AgentAssumption, NoAnswerHasNoKey DEF AgentTypeOK, Answer, RoundOK
<1>1. CASE Unchanged
  BY <1>q, <1>1, <1>f DEF Unchanged, AgentTypeOK, BinariesWhole, RoundOK, Applied, Approved
<1>2. CASE Truncate
  BY <1>q, <1>2, <1>f DEF Truncate, AgentTypeOK, BinariesWhole, RoundOK, Applied, Approved
<1>3. CASE Write
  BY <1>q, <1>3, <1>f DEF Write, AgentTypeOK, BinariesWhole, RoundOK, Applied, Approved
<1>4. CASE WriteFails
  <2>1. faults' \in 0 .. MaxFaults /\ env' \in Keys \cup {Nothing}
    BY <1>4, <1>f, AgentAssumption DEF WriteFails, Fault, AgentTypeOK, Approved
  <2>2. missed' \in BOOLEAN
    BY <1>4, Zenon DEF WriteFails
  <2>3. AgentTypeOK' /\ BinariesWhole'
    BY <1>4, <1>f, <2>1, <2>2, QuietFetch
       DEF WriteFails, Forget, AgentTypeOK, BinariesWhole
  <2>4. RoundOK' /\ Applied'
    BY <1>4, <1>f DEF WriteFails, Forget, RoundOK, Applied, Approved
  <2> QED
    BY <1>q, <2>3, <2>4
<1>5. CASE Clear
  <2>1. env' \in Keys \cup {Nothing} /\ at' = "disable" /\ (env' = env \/ env' = Nothing)
    BY <1>5 DEF Clear, AgentTypeOK
  <2>2. AgentTypeOK' /\ BinariesWhole'
    BY <1>5, <2>1 DEF Clear, AgentTypeOK, BinariesWhole
  <2>3. RoundOK' /\ Applied'
    BY <1>5, <2>1 DEF Clear, RoundOK, Applied, Approved
  <2> QED
    BY <1>q, <2>2, <2>3
<1> QED
  BY <1>1, <1>2, <1>3, <1>4, <1>5

\* systemctl and what it does to the service.
LEMMA UnitKeepsAgent ==
    ASSUME AgentIInv,
           \/ RestartUnit \/ RestartFails \/ StartUnit \/ StartFails
           \/ Disable \/ Stop \/ StopFails
    PROVE  AgentIInv'
<1> USE DEF AgentIInv, AgentInv, disk, Agent, memory
<1>q. FetchOK'
  BY NoFetchAway
     DEF RestartUnit, RestartFails, StartUnit, StartFails, Disable, Stop, StopFails, Upgrades
<1>f. faults \in 0 .. MaxFaults /\ (Fault => faults' \in 0 .. MaxFaults)
  BY AgentAssumption DEF AgentTypeOK, Fault
<1>u. unit \in Unit /\ missed \in BOOLEAN
  BY DEF AgentTypeOK
<1>s. /\ Started(unit) \in Unit /\ Started(unit).up
      /\ Started(unit).env = env /\ Started(unit).bin = bin
  BY StartedUnit
<1>1. CASE RestartUnit
  <2>1. PICK e \in {TRUE, unit.enabled} : unit' = [Started(unit) EXCEPT !.enabled = e]
    BY <1>1 DEF RestartUnit
  <2>2. unit' \in Unit /\ unit'.env = env /\ unit'.bin = bin
    BY <1>u, <1>s, <2>1 DEF Unit
  <2>3. AgentTypeOK' /\ BinariesWhole'
    BY <1>1, <2>2 DEF RestartUnit, AgentTypeOK, BinariesWhole
  <2>4. RoundOK' /\ Applied'
    BY <1>1, <2>2 DEF RestartUnit, RoundOK, Applied, Approved
  <2> QED
    BY <1>q, <2>3, <2>4
<1>2. CASE RestartFails
  <2>1. PICK up \in {FALSE, unit.up}, e \in {TRUE, unit.enabled} :
           unit' = [unit EXCEPT !.up = up, !.enabled = e] /\ missed' = up
    BY <1>2 DEF RestartFails
  <2>2. unit' \in Unit /\ unit'.up = missed' /\ missed' \in BOOLEAN
    BY <1>u, <2>1 DEF Unit
  <2>3. AgentTypeOK' /\ BinariesWhole'
    BY <1>2, <1>f, <2>2 DEF RestartFails, AgentTypeOK, BinariesWhole
  <2>4. RoundOK' /\ Applied'
    BY <1>2, <2>2 DEF RestartFails, RoundOK, Applied, Approved
  <2> QED
    BY <1>q, <2>3, <2>4
<1>3. CASE StartUnit
  <2>1. unit' \in Unit /\ missed' \in BOOLEAN
    BY <1>3, <1>u, <1>s DEF StartUnit
  <2>3. AgentTypeOK' /\ BinariesWhole'
    BY <1>3, <2>1 DEF StartUnit, AgentTypeOK, BinariesWhole
  <2>4. RoundOK' /\ Applied'
    BY <1>3, <1>s DEF StartUnit, RoundOK, Applied, Approved
  <2> QED
    BY <1>q, <2>3, <2>4
<1>4. CASE StartFails
  BY <1>q, <1>4, <1>f DEF StartFails, AgentTypeOK, BinariesWhole, RoundOK, Applied, Approved
<1>5. CASE Disable
  <2>1. PICK e \in {FALSE, unit.enabled} : unit' = [unit EXCEPT !.enabled = e]
    BY <1>5 DEF Disable
  <2>2. unit' \in Unit /\ unit'.up = unit.up /\ unit'.env = unit.env /\ unit'.bin = unit.bin
    BY <1>u, <2>1 DEF Unit
  <2>3. AgentTypeOK' /\ BinariesWhole'
    BY <1>5, <2>2 DEF Disable, AgentTypeOK, BinariesWhole
  <2>4. RoundOK' /\ Applied'
    BY <1>5, <2>2 DEF Disable, RoundOK, Applied, Approved
  <2> QED
    BY <1>q, <2>3, <2>4
<1>6. CASE Stop
  <2>1. unit' \in Unit /\ unit'.up = FALSE
    BY <1>6, <1>u DEF Stop, Unit
  <2> QED
    BY <1>q, <1>6, <2>1 DEF Stop, AgentTypeOK, BinariesWhole, RoundOK, Applied, Approved
<1>7. CASE StopFails
  BY <1>q, <1>7, <1>f DEF StopFails, AgentTypeOK, BinariesWhole, RoundOK, Applied, Approved
<1> QED
  BY <1>1, <1>2, <1>3, <1>4, <1>5, <1>6, <1>7

\* Deaths, stops and boots.
LEMMA MachineKeepsAgent ==
    ASSUME AgentIInv, AgentUp \/ AgentDies \/ NodeDies \/ StoppedByHand \/ Reboot
    PROVE  AgentIInv'
<1> USE DEF AgentIInv, AgentInv, disk, Agent, memory
<1>q. FetchOK'
  BY NoFetchAway, QuietFetch
     DEF AgentUp, AgentDies, NodeDies, StoppedByHand, Reboot, Forget, FetchOK, Upgrades, Want
<1>f. faults \in 0 .. MaxFaults /\ (Fault => faults' \in 0 .. MaxFaults)
  BY AgentAssumption DEF AgentTypeOK, Fault
<1>u. unit \in Unit /\ missed \in BOOLEAN /\ NoAnswer \in Answer
  BY DEF AgentTypeOK, Answer
<1>s. /\ Started(unit) \in Unit /\ Started(unit).up
      /\ Started(unit).env = env /\ Started(unit).bin = bin
  BY StartedUnit
<1>d. [unit EXCEPT !.up = FALSE] \in Unit /\ ~[unit EXCEPT !.up = FALSE].up
  BY <1>u DEF Unit
<1>1. CASE AgentUp
  BY <1>q, <1>1 DEF AgentUp, AgentTypeOK, BinariesWhole, RoundOK, Applied, Approved
<1>2. CASE AgentDies
  <2>1. missed' \in BOOLEAN
    BY <1>2, Zenon DEF AgentDies
  <2>2. AgentTypeOK' /\ BinariesWhole'
    BY QuietFetch, <1>2, <1>f, <1>u, <2>1 DEF AgentDies, Forget, AgentTypeOK, BinariesWhole
  <2>3. RoundOK' /\ Applied'
    BY <1>2 DEF AgentDies, Forget, RoundOK, Applied, Approved
  <2> QED
    BY <1>q, <2>2, <2>3
<1>3. CASE NodeDies
  BY <1>q, <1>3, <1>f, <1>s DEF NodeDies, AgentTypeOK, BinariesWhole, RoundOK, Applied, Approved
<1>4. CASE StoppedByHand
  BY <1>q, <1>4, <1>f, <1>d DEF StoppedByHand, AgentTypeOK, BinariesWhole, RoundOK, Applied, Approved
<1>5. CASE Reboot
  <2>1. unit' \in Unit
    BY <1>5, <1>s, <1>d DEF Reboot
  <2>2. AgentTypeOK' /\ BinariesWhole'
    BY QuietFetch, <1>5, <1>f, <1>u, <2>1 DEF Reboot, Forget, AgentTypeOK, BinariesWhole
  <2>3. RoundOK' /\ Applied'
    BY <1>5, <1>s, <1>d DEF Reboot, Forget, RoundOK, Applied, Approved
  <2> QED
    BY <1>q, <2>2, <2>3
<1> QED
  BY <1>1, <1>2, <1>3, <1>4, <1>5

THEOREM AgentInvariant == AgentSpec => []AgentIInv
<1>1. AgentInit => AgentIInv
  BY AgentInitInv
<1>2. AgentIInv /\ [AgentNext]_agentVars => AgentIInv'
  <2> SUFFICES ASSUME AgentIInv, [AgentNext]_agentVars PROVE AgentIInv'
    OBVIOUS
  <2>1. CASE AgentRound
    BY <2>1, FetchKeepsAgent, DownloadsKeepAgent, ReplacementsKeepAgent, FileKeepsAgent,
       UnitKeepsAgent, MachineKeepsAgent DEF AgentRound
  <2>2. CASE Failure
    BY <2>2, FetchKeepsAgent, DownloadsKeepAgent, FileKeepsAgent, UnitKeepsAgent,
       MachineKeepsAgent DEF Failure
  <2>3. CASE SetStatus \/ RotateKey \/ ResetToken \/ Publish
    BY <2>3, ChangeKeepsAgent
  <2>4. CASE UNCHANGED agentVars
    BY <2>4 DEF agentVars, AgentIInv, AgentInv, AgentTypeOK, BinariesWhole, RoundOK, Applied,
                   FetchOK, Upgrades, Want
  <2> QED
    BY <2>1, <2>2, <2>3, <2>4 DEF AgentNext
<1> QED
  BY <1>1, <1>2, PTL DEF AgentSpec

\* The agent's memory, the disk and the service keep their types, and whatever
\* is published, cut short or interrupted, no broken binary gets on the disk.
THEOREM AgentInvAlways == AgentSpec => []AgentInv
<1>1. AgentIInv => AgentInv
  BY DEF AgentIInv
<1> QED
  BY <1>1, AgentInvariant, PTL

\* A service that is up at the end of a round runs the configuration of that
\* round and the binary on disk, unless a restart it was due for was missed.
THEOREM RunsWhatWasAppliedAlways == AgentSpec => []RunsWhatWasApplied
<1>1. AgentIInv => RunsWhatWasApplied
  <2> SUFFICES ASSUME AgentIInv, at = "self", unit.up, ~missed
               PROVE  unit.env = got.key /\ unit.bin = bin
    BY DEF RunsWhatWasApplied
  <2>1. env = got.key /\ got \in Answer \ {NoAnswer}
    BY DEF AgentIInv, RoundOK, Approved
  <2>2. env # Nothing
    BY <2>1, NoAnswerHasNoKey
  <2> QED
    BY <2>1, <2>2 DEF AgentIInv, Applied
<1> QED
  BY <1>1, AgentInvariant, PTL

-----------------------------------------------------------------------------
(* Scheduled probes (ProbeTasks). *)

\* The rows, the requests and the scheduler's memory.
RowsOK ==
    /\ row \in [Tasks -> MaybeRow] /\ used \subseteq Tasks /\ samples \subseteq used
    /\ doing \in [Handlers -> TaskHandler]
    /\ started \in 0..MaxStarted /\ boots \in 0..MaxRestarts
    /\ sched \in [at : {"idle", "loop"}, todo : SUBSET used, seen : [Tasks -> Row]]
    /\ due \subseteq Tasks
    /\ \A t \in Tasks : row[t].is => t \in used
    /\ \A r \in Handlers : \/ doing[r] = NoRequest
                           \/ doing[r].at = "create" /\ doing[r].t \in Tasks
                           \/ doing[r].at \notin {"idle", "create"} /\ doing[r].t \in used

\* What runs of the rounds, one for a task.
RoundsOK ==
    /\ round \in [Rounds -> Round]
    /\ \A x \in Rounds : IF round[x].at = "free" THEN round[x] = NoRound ELSE round[x].t \in used
    /\ \A x, y \in Rounds : round[x].t = round[y].t /\ round[x].t # NoTask => x = y
    /\ taskRun = {t \in Tasks : RoundsOf(t) # {}}

Telling(x, t, kind) == round[x].at = "tell" /\ round[x].t = t /\ round[x].kind = kind

\* What the alerts remember, and what the owner knows by then.
AlertsOK ==
    /\ streak \in [Tasks -> 0..Threshold] /\ fired \subseteq used
    /\ downs \in [Tasks -> 0..Threshold] /\ told \in [Tasks -> {"no", "yes", "lost", "forgotten"}]
    /\ \A t \in Tasks : streak[t] <= downs[t]
    /\ \A t \in Tasks : told[t] \in {"yes", "lost"} =>
           t \in fired \/ \E x \in Rounds : Telling(x, t, "sla_up")
    /\ \A t \in fired : told[t] # "no" \/ \E x \in Rounds : Telling(x, t, "sla_down")
    /\ \A x \in Rounds : Telling(x, round[x].t, "sla_up") => round[x].t \notin fired
    /\ \A x \in Rounds : round[x].at = "tell" => round[x].kind \in {"sla_up", "sla_down"}
    /\ \A x \in Rounds : round[x].at = "note" => round[x].kind \in {"up", "down"}
    /\ AlertsTellTheTruth

\* Requests that do not overlap: a task has one, and what an edit has read of
\* the switch still holds.
SwitchOK ==
    /\ crossed \subseteq Tasks /\ left \in [Tasks -> {"gone", "off", "on"}]
    /\ \A r, s \in Handlers : doing[r].t = doing[s].t /\ doing[r].t \in Tasks \ crossed => r = s
    /\ \A r \in Handlers : doing[r].at = "put" /\ doing[r].t \notin crossed =>
           row[doing[r].t].is /\ row[doing[r].t].row.on = doing[r].row.on
    /\ SwitchStands

TasksIInv == RowsOK /\ RoundsOK /\ AlertsOK /\ SwitchOK

LEMMA TasksInitInv == TasksInit => TasksIInv
<1> SUFFICES ASSUME TasksInit PROVE TasksIInv
  OBVIOUS
<1> USE TasksAssumption DEF TasksInit
<1>1. NoRow \in Row /\ Missing \in MaybeRow /\ NoRequest \in TaskHandler /\ NoRound \in Round
  BY DEF NoRow, Row, Missing, MaybeRow, NoRequest, TaskHandler, NoRound, Round
<1>2. RowsOK
  BY <1>1 DEF RowsOK, NoTick, Missing
<1>3. RoundsOK
  BY <1>1 DEF RoundsOK, RoundsOf, NoRound
<1>4. AlertsOK
  BY DEF AlertsOK, AlertsTellTheTruth, Telling, NoRound
<1>5. SwitchOK
  BY DEF SwitchOK, SwitchStands, Switch, NoRequest, Missing
<1> QED
  BY <1>2, <1>3, <1>4, <1>5 DEF TasksIInv

LEMMA RowParts ==
    /\ NoRow \in Row /\ Missing \in MaybeRow /\ NoRequest \in TaskHandler /\ NoRound \in Round
    /\ NoRequest.at = "idle" /\ NoRequest.t = NoTask /\ NoRound.at = "free" /\ NoRound.t = NoTask
    /\ ~Missing.is
    /\ \A new \in Row : Present(new) \in MaybeRow /\ Present(new).is /\ Present(new).row = new
    /\ \A x \in MaybeRow : x.row \in Row
<1>1. NoRow \in Row
  BY DEF NoRow, Row
<1>2. Missing \in MaybeRow /\ ~Missing.is
  BY DEF Missing, MaybeRow
<1>3. NoRequest \in TaskHandler /\ NoRequest.at = "idle" /\ NoRequest.t = NoTask
  BY <1>1 DEF NoRequest, TaskHandler
<1>4. NoRound \in Round /\ NoRound.at = "free" /\ NoRound.t = NoTask
  BY <1>1 DEF NoRound, Round
<1>5. \A new \in Row : Present(new) \in MaybeRow /\ Present(new).is /\ Present(new).row = new
  BY DEF Present, MaybeRow
<1>6. ASSUME NEW x \in MaybeRow
      PROVE  x.row \in Row
  <2>1. CASE x = [is |-> FALSE, row |-> NoRow]
    BY <1>1, <2>1
  <2>2. CASE x \in [is : {TRUE}, row : Row]
    BY <2>2
  <2> QED
    BY <2>1, <2>2 DEF MaybeRow
<1> QED
  BY <1>1, <1>2, <1>3, <1>4, <1>5, <1>6

LEMMA StartKeepsRows ==
    ASSUME RowsOK, NEW r \in Handlers, NEW t \in Tasks,
           NEW k \in {"create", "put", "switch", "samples"}, Start(r, k, t),
           k = "create" \/ t \in used
    PROVE  RowsOK'
<1> USE DEF Start, taskStore, scheduler
<1>1. [at |-> k, t |-> t, row |-> row[t].row] \in TaskHandler
  BY RowParts DEF RowsOK, TaskHandler
<1>2. started' \in 0..MaxStarted
  BY TasksAssumption DEF RowsOK
<1> QED
  BY <1>1, <1>2 DEF RowsOK

LEMMA RequestKeepsRows ==
    ASSUME RowsOK, NEW r \in Handlers, Request(r)
    PROVE  RowsOK'
<1> USE RowParts DEF taskStore, scheduler, bounds, Done
<1>1. ASSUME NEW t \in Tasks,
             StartCreate(r, t) \/ StartPut(r, t) \/ StartSwitch(r, t) \/ StartDelete(r, t)
      PROVE  RowsOK'
  <2>1. row[t].is => t \in used
    BY DEF RowsOK
  <2> QED
    BY <1>1, <2>1, StartKeepsRows DEF StartCreate, StartPut, StartSwitch, StartDelete
<1>2. ASSUME NEW new \in Row, InsertTask(r, new)
      PROVE  RowsOK'
  BY <1>2 DEF InsertTask, RowsOK
<1>3. ASSUME NEW b \in BOOLEAN, SaveTask(r, b)
      PROVE  RowsOK'
  <2>a. doing[r].row \in Row
    BY DEF RowsOK, TaskHandler
  <2>1. [doing[r].row EXCEPT !.recover = b] \in Row
    BY <2>a DEF Row
  <2>2. doing[r].t \in used
    BY <1>3, NoRequest.at = "idle" DEF SaveTask, RowsOK
  <2> QED
    BY <1>3, <2>1, <2>2 DEF SaveTask, RowsOK
<1>4. ASSUME NEW b \in BOOLEAN, SwitchTask(r, b)
      PROVE  RowsOK'
  <2>1. \A x \in MaybeRow : [x.row EXCEPT !.on = b] \in Row
    BY DEF Row
  <2>2. doing[r].t \in used
    BY <1>4 DEF SwitchTask, RowsOK
  <2> QED
    BY <1>4, <2>1, <2>2 DEF SwitchTask, RowsOK
<1>5. CASE DeleteSamples(r)
  <2>1. [doing[r] EXCEPT !.at = "row"] \in TaskHandler
    BY DEF RowsOK, TaskHandler
  <2> QED
    BY <1>5, <2>1 DEF DeleteSamples, RowsOK, TaskHandler
<1>6. CASE DeleteRow(r)
  <2>1. [doing[r] EXCEPT !.at = "alerts"] \in TaskHandler
    BY DEF RowsOK, TaskHandler
  <2> QED
    BY <1>6, <2>1 DEF DeleteRow, RowsOK, TaskHandler
<1>7. CASE ResetTaskAlerts(r)
  BY <1>7 DEF ResetTaskAlerts, RowsOK
<1> QED
  BY <1>1, <1>2, <1>3, <1>4, <1>5, <1>6, <1>7 DEF Request

LEMMA SchedulerKeepsRows ==
    ASSUME RowsOK, SchedulerStep \/ \E t \in Tasks : BecomesDue(t)
    PROVE  RowsOK'
<1> USE RowParts DEF taskStore, bounds
<1>1. CASE Tick
  <2>1. sched' \in [at : {"idle", "loop"}, todo : SUBSET used, seen : [Tasks -> Row]]
    BY <1>1 DEF Tick, On, RowsOK
  <2> QED
    BY <1>1, <2>1 DEF Tick, RowsOK
<1>2. ASSUME NEW t \in Tasks, ScheduleTask(t)
      PROVE  RowsOK'
  <2>1. sched' \in [at : {"idle", "loop"}, todo : SUBSET used, seen : [Tasks -> Row]]
    BY <1>2 DEF ScheduleTask, RowsOK
  <2> QED
    BY <1>2, <2>1 DEF ScheduleTask, RowsOK
<1>3. CASE TickEnds
  <2>1. sched' \in [at : {"idle", "loop"}, todo : SUBSET used, seen : [Tasks -> Row]]
    BY <1>3 DEF TickEnds, NoTick
  <2> QED
    BY <1>3, <2>1 DEF TickEnds, RowsOK
<1>4. ASSUME NEW t \in Tasks, BecomesDue(t)
      PROVE  RowsOK'
  BY <1>4 DEF BecomesDue, RowsOK
<1> QED
  BY <1>1, <1>2, <1>3, <1>4 DEF SchedulerStep

LEMMA RoundKeepsRows ==
    ASSUME RowsOK, RoundsOK, NEW x \in Rounds, RoundStep(x)
    PROVE  RowsOK'
<1> USE DEF taskStore, scheduler, bounds
<1>1. round[x].at # "free" => round[x].t \in used
  BY DEF RoundsOK
<1>2. UNCHANGED <<row, used, doing, sched, due, started, boots>>
  BY DEF RoundStep, RoundEmpty, RoundSamples, NoteOutcome, TellOwner, NotTold, RoundEnds
<1>3. samples' \subseteq used
  BY <1>1 DEF RowsOK, RoundStep, RoundEmpty, RoundSamples, NoteOutcome, TellOwner, NotTold, RoundEnds
<1> QED
  BY <1>2, <1>3 DEF RowsOK

LEMMA RestartKeepsRows ==
    ASSUME RowsOK, RestartScheduler
    PROVE  RowsOK'
<1>1. boots' \in 0..MaxRestarts
  BY TasksAssumption DEF RowsOK, RestartScheduler
<1>2. sched' \in [at : {"idle", "loop"}, todo : SUBSET used, seen : [Tasks -> Row]]
  BY RowParts DEF RestartScheduler, NoTick
<1> QED
  BY <1>1, <1>2, RowParts DEF RowsOK, RestartScheduler, taskStore

-----------------------------------------------------------------------------
(* Rounds of one task do not overlap. *)

LEMMA ScheduleKeepsRounds ==
    ASSUME RowsOK, RoundsOK, NEW t \in Tasks, ScheduleTask(t)
    PROVE  RoundsOK'
<1> USE DEF taskStore, bounds
<1>1. CASE t \notin due \/ t \in taskRun
  BY <1>1 DEF ScheduleTask, RoundsOK, RoundsOf
<1>2. CASE ~(t \notin due \/ t \in taskRun)
  <2>1. PICK x \in Rounds :
          /\ round[x] = NoRound
          /\ round' = [round EXCEPT ![x] = [NoRound EXCEPT !.at = "probe", !.t = t,
                                                           !.row = sched.seen[t]]]
          /\ taskRun' = taskRun \cup {t}
    BY <1>2 DEF ScheduleTask
  <2>2. t \in used /\ used' = used /\ sched.seen[t] \in Row
    BY DEF ScheduleTask, RowsOK
  <2>3. /\ round'[x] \in Round /\ round'[x].at = "probe" /\ round'[x].t = t
        /\ \A y \in Rounds \ {x} : round'[y] = round[y]
    BY <2>1, <2>2, RowParts DEF RoundsOK, Round
  <2>4. \A y \in Rounds : round[y].t # t
    BY <1>2 DEF RoundsOK, RoundsOf
  <2>5. round' \in [Rounds -> Round]
    BY <2>1, <2>3 DEF RoundsOK
  <2>6. \A y \in Rounds : IF round'[y].at = "free" THEN round'[y] = NoRound ELSE round'[y].t \in used'
    BY <2>2, <2>3 DEF RoundsOK
  <2>7. \A y, z \in Rounds : round'[y].t = round'[z].t /\ round'[y].t # NoTask => y = z
    BY <2>3, <2>4 DEF RoundsOK
  <2>8. taskRun' = {s \in Tasks : RoundsOf(s)' # {}}
    BY <2>1, <2>3, RowParts, TasksAssumption DEF RoundsOK, RoundsOf
  <2> QED
    BY <2>5, <2>6, <2>7, <2>8 DEF RoundsOK
<1> QED
  BY <1>1, <1>2

\* A step within a round leaves its task alone.
LEMMA SameTaskKeepsRounds ==
    ASSUME RoundsOK, NEW x \in Rounds, NEW new \in Round, new.t = round[x].t,
           new.at # "free", round[x].at # "free", round' = [round EXCEPT ![x] = new],
           UNCHANGED <<taskRun, used>>
    PROVE  RoundsOK'
<1>1. \A y \in Rounds : round'[y].t = round[y].t /\ (y # x => round'[y] = round[y])
  BY DEF RoundsOK
<1>2. round'[x] = new
  BY DEF RoundsOK
<1> QED
  BY <1>1, <1>2 DEF RoundsOK, RoundsOf

LEMMA RoundKeepsRounds ==
    ASSUME RowsOK, RoundsOK, NEW x \in Rounds, RoundStep(x)
    PROVE  RoundsOK'
<1> USE DEF taskStore, scheduler, bounds
<1>t. round[x] \in Round
  BY DEF RoundsOK
<1>1. CASE RoundEnds(x)
  <2>1. /\ round'[x] = NoRound /\ \A y \in Rounds \ {x} : round'[y] = round[y]
        /\ round[x].t \in used /\ used' = used
    BY <1>1 DEF RoundEnds, RoundsOK
  <2>2. round' \in [Rounds -> Round]
    BY <1>1, RowParts DEF RoundEnds, RoundsOK
  <2>3. taskRun' = {s \in Tasks : RoundsOf(s)' # {}}
    BY <1>1, <2>1, RowParts, TasksAssumption DEF RoundEnds, RoundsOK, RoundsOf, RowsOK
  <2> QED
    BY <2>1, <2>2, <2>3, RowParts DEF RoundsOK
<1>2. CASE RoundEmpty(x)
  <2>1. [round[x] EXCEPT !.at = "end"] \in Round /\ [round[x] EXCEPT !.at = "end"].at = "end"
        /\ [round[x] EXCEPT !.at = "end"].t = round[x].t
    BY <1>t DEF Round
  <2> QED
    BY <1>2, <2>1, SameTaskKeepsRounds DEF RoundEmpty
<1>3. ASSUME NEW outcome \in {"up", "down", "none"}, RoundSamples(x, outcome)
      PROVE  RoundsOK'
  <2> DEFINE new == [round[x] EXCEPT !.at = IF outcome = "none" THEN "end" ELSE "note",
                                     !.kind = outcome]
  <2>1. new \in Round /\ new.at # "free" /\ new.t = round[x].t
    BY <1>t DEF Round
  <2>2. round' = [round EXCEPT ![x] = new]
    BY <1>3 DEF RoundSamples, RoundsOK
  <2> QED
    BY <1>3, <2>1, <2>2, SameTaskKeepsRounds DEF RoundSamples
<1>4. CASE NoteOutcome(x)
  <2>1. PICK at1 \in {"tell", "end"}, kind1 \in {"none", "sla_down", "sla_up"} :
           round' = [round EXCEPT ![x].at = at1, ![x].kind = kind1]
    BY <1>4 DEF NoteOutcome
  <2> DEFINE new == [round[x] EXCEPT !.at = at1, !.kind = kind1]
  <2>2. new \in Round /\ new.at # "free" /\ new.t = round[x].t
    BY <1>t DEF Round
  <2>3. round' = [round EXCEPT ![x] = new]
    BY <2>1 DEF RoundsOK
  <2> QED
    BY <1>4, <2>2, <2>3, SameTaskKeepsRounds DEF NoteOutcome
<1>5. CASE TellOwner(x) \/ NotTold(x)
  <2> DEFINE new == [round[x] EXCEPT !.at = "end", !.kind = "none"]
  <2>1. new \in Round /\ new.at # "free" /\ new.t = round[x].t
    BY <1>t DEF Round
  <2>2. round' = [round EXCEPT ![x] = new]
    BY <1>5 DEF TellOwner, NotTold, RoundsOK
  <2> QED
    BY <1>5, <2>1, <2>2, SameTaskKeepsRounds DEF TellOwner, NotTold
<1> QED
  BY <1>1, <1>2, <1>3, <1>4, <1>5 DEF RoundStep

LEMMA StepKeepsRounds ==
    ASSUME RowsOK, RoundsOK, TasksStep
    PROVE  RoundsOK'
<1> USE DEF taskStore, scheduler, bounds
<1>1. ASSUME UNCHANGED <<round, taskRun>>, used \subseteq used'
      PROVE  RoundsOK'
  BY <1>1 DEF RoundsOK, RoundsOf
<1>2. ASSUME NEW r \in Handlers, Request(r)
      PROVE  UNCHANGED <<round, taskRun>> /\ used \subseteq used'
  BY <1>2 DEF Request, StartCreate, StartPut, StartSwitch, StartDelete, Start, InsertTask,
              SaveTask, SwitchTask, DeleteSamples, DeleteRow, ResetTaskAlerts
<1>3. CASE Tick \/ TickEnds \/ \E t \in Tasks : BecomesDue(t)
  BY <1>1, <1>3 DEF Tick, TickEnds, BecomesDue
<1>4. CASE RestartScheduler
  BY <1>4, RowParts, TasksAssumption DEF RestartScheduler, RoundsOK, RoundsOf
<1>5. ASSUME NEW t \in Tasks, ScheduleTask(t)
      PROVE  RoundsOK'
  BY <1>5, ScheduleKeepsRounds
<1>6. ASSUME NEW x \in Rounds, RoundStep(x)
      PROVE  RoundsOK'
  BY <1>6, RoundKeepsRounds
<1> QED
  BY <1>1, <1>2, <1>3, <1>4, <1>5, <1>6 DEF TasksStep, SchedulerStep

-----------------------------------------------------------------------------
(* Alerts. *)

\* Steps that neither touch what the alerts know nor a round that tells.
LEMMA QuietKeepsAlerts ==
    ASSUME AlertsOK, UNCHANGED alerts, used \subseteq used',
           \A x \in Rounds : \/ round'[x] = round[x]
                             \/ /\ round[x].at # "tell" /\ round'[x].at # "tell"
                                /\ round'[x].at = "note" => round'[x].kind \in {"up", "down"}
    PROVE  AlertsOK'
<1>1. \A x \in Rounds : \A t, k : Telling(x, t, k)' <=> Telling(x, t, k)
  BY DEF Telling
<1>2. \A x \in Rounds : round'[x].at = "tell" => round'[x] = round[x]
  OBVIOUS
<1>3. AlertsTellTheTruth'
  BY <1>2 DEF AlertsOK, AlertsTellTheTruth, alerts
<1>4. \A x \in Rounds : Telling(x, round[x].t, "sla_up")' => round'[x].t \notin fired
  BY <1>1, <1>2 DEF AlertsOK, Telling
<1> QED
  BY <1>1, <1>2, <1>3, <1>4 DEF AlertsOK, alerts, Telling

\* The owner forgets nothing, but what is told after a deletion may repeat.
LEMMA ResetKeepsAlerts ==
    ASSUME RowsOK, RoundsOK, AlertsOK, NEW r \in Handlers, ResetTaskAlerts(r)
    PROVE  AlertsOK'
<1> USE DEF taskStore, scheduler, bounds
<1> DEFINE t == doing[r].t
<1>1. t \in Tasks /\ UNCHANGED <<round, downs, used>>
  BY DEF ResetTaskAlerts, RowsOK, NoRequest
<1>2. /\ streak' = [streak EXCEPT ![t] = 0] /\ fired' = fired \ {t}
      /\ told' = [told EXCEPT ![t] = Forgotten(@)]
  BY DEF ResetTaskAlerts
<1> HIDE DEF t
<1>3. /\ told' \in [Tasks -> {"no", "yes", "lost", "forgotten"}] /\ told'[t] \notin {"yes", "lost"}
      /\ (told[t] # "no" => told'[t] # "no")
      /\ \A s \in Tasks \ {t} : told'[s] = told[s]
  BY <1>1, <1>2 DEF Forgotten, AlertsOK
<1>4. streak' \in [Tasks -> 0..Threshold] /\ \A s \in Tasks : streak'[s] <= downs'[s]
  BY <1>1, <1>2, TasksAssumption DEF AlertsOK
<1>5. AlertsTellTheTruth'
  BY <1>1, <1>3 DEF AlertsOK, AlertsTellTheTruth, RoundsOK, RowsOK
<1>6. \A x \in Rounds : \A s, k : Telling(x, s, k)' <=> Telling(x, s, k)
  BY <1>1 DEF Telling
<1> QED
  BY <1>1, <1>2, <1>3, <1>4, <1>5, <1>6 DEF AlertsOK

LEMMA RestartKeepsAlerts ==
    ASSUME RowsOK, AlertsOK, RestartScheduler
    PROVE  AlertsOK'
<1>1. \A x \in Rounds : round'[x].at = "free"
  BY RowParts DEF RestartScheduler
<1>2. /\ told' \in [Tasks -> {"no", "yes", "lost", "forgotten"}]
      /\ \A t \in Tasks : told'[t] \notin {"yes", "lost"}
  BY DEF RestartScheduler, Forgotten, AlertsOK
<1>3. /\ fired' = {} /\ streak' = [t \in Tasks |-> 0] /\ downs' = downs
  BY DEF RestartScheduler
<1>4. streak' \in [Tasks -> 0..Threshold] /\ \A t \in Tasks : streak'[t] <= downs'[t]
  BY <1>3, TasksAssumption DEF AlertsOK
<1> QED
  BY <1>1, <1>2, <1>3, <1>4 DEF AlertsOK, AlertsTellTheTruth, Telling

\* A round is counted, and decides whether its task has to be told of.
LEMMA NoteKeepsAlerts ==
    ASSUME RowsOK, RoundsOK, AlertsOK, NEW x \in Rounds, NoteOutcome(x)
    PROVE  AlertsOK'
<1> USE DEF taskStore, scheduler, bounds
<1>0. PICK t \in Tasks : t = round[x].t
  BY DEF NoteOutcome, RoundsOK, RowsOK
<1> DEFINE outcome == round[x].kind
           count == StreakAfter(t, outcome)
           down == outcome = "down" /\ count >= Threshold /\ t \notin fired
           up == outcome = "up" /\ t \in fired /\ round[x].row.recover
<1>1. /\ t \in Tasks /\ t \in used /\ outcome \in {"up", "down"} /\ used' = used
      /\ round[x].at = "note"
  BY <1>0 DEF NoteOutcome, RoundsOK, RowsOK, AlertsOK
<1>2. /\ streak' = [streak EXCEPT ![t] = count]
      /\ fired' = IF outcome = "up" THEN fired \ {t} ELSE IF down THEN fired \cup {t} ELSE fired
      /\ downs' = [downs EXCEPT ![t] = IF outcome = "up" THEN 0 ELSE Capped(@ + 1)]
      /\ told' = [told EXCEPT ![t] = IF outcome = "up" /\ ~up THEN "no" ELSE @]
  BY <1>0 DEF NoteOutcome
<1>3. /\ down => round'[x].at = "tell" /\ round'[x].kind = "sla_down"
      /\ up => round'[x].at = "tell" /\ round'[x].kind = "sla_up"
      /\ ~down /\ ~up => round'[x].at = "end"
      /\ round'[x].t = t
      /\ \A y \in Rounds \ {x} : round'[y] = round[y]
  BY <1>0 DEF NoteOutcome, RoundsOK
<1>4. \A y \in Rounds \ {x} : round[y].t # t
  BY <1>0, <1>1, TasksAssumption DEF RoundsOK
<1>5. Threshold \in Nat \ {0} /\ streak[t] \in 0..Threshold /\ downs[t] \in 0..Threshold
      /\ streak[t] <= downs[t]
  BY <1>1, TasksAssumption DEF AlertsOK
<1>6. /\ count \in 0..Threshold /\ downs'[t] \in 0..Threshold /\ count <= downs'[t]
      /\ (outcome = "up" => downs'[t] = 0)
  BY <1>1, <1>2, <1>5 DEF StreakAfter, Capped, AlertsOK
<1>7. \A s \in Tasks \ {t} : /\ streak'[s] = streak[s] /\ downs'[s] = downs[s]
                             /\ told'[s] = told[s] /\ (s \in fired' <=> s \in fired)
  BY <1>1, <1>2 DEF AlertsOK
<1>8. /\ streak' \in [Tasks -> 0..Threshold] /\ downs' \in [Tasks -> 0..Threshold]
      /\ streak'[t] = count
      /\ told' \in [Tasks -> {"no", "yes", "lost", "forgotten"}] /\ fired' \subseteq used'
      /\ told'[t] = IF outcome = "up" /\ ~up THEN "no" ELSE told[t]
  BY <1>1, <1>2, <1>6 DEF AlertsOK
<1>9. (told[t] \in {"yes", "lost"} => t \in fired) /\ (t \in fired => told[t] # "no")
  BY <1>0, <1>1, <1>4 DEF AlertsOK, Telling
<1>10. \A s \in Tasks : streak'[s] <= downs'[s]
  BY <1>1, <1>6, <1>7, <1>8 DEF AlertsOK
<1> HIDE DEF count
<1>11. /\ down => /\ outcome = "down" /\ downs'[t] = Threshold /\ told'[t] \notin {"yes", "lost"}
                  /\ t \in fired'
       /\ up => outcome = "up" /\ downs'[t] = 0 /\ told'[t] # "no" /\ t \notin fired'
       /\ ~down /\ ~up => /\ told'[t] \in {"yes", "lost"} => t \in fired'
                          /\ t \in fired' => told'[t] # "no"
  BY <1>1, <1>2, <1>5, <1>6, <1>8, <1>9
<1> HIDE DEF outcome, down, up
<1>12. AlertsTellTheTruth'
  BY <1>1, <1>3, <1>4, <1>7, <1>11 DEF AlertsOK, AlertsTellTheTruth, RoundsOK, RowsOK
<1>13. \A y \in Rounds \ {x} : \A s \in Tasks : \A k : Telling(y, s, k)' <=> Telling(y, s, k)
  BY <1>3 DEF Telling
<1>14. \A s \in Tasks \ {t} : \A k : ~ Telling(x, s, k)' /\ ~ Telling(x, s, k)
  BY <1>0, <1>1, <1>3 DEF Telling
<1>15. /\ down => Telling(x, t, "sla_down")'
       /\ up => ~down /\ Telling(x, t, "sla_up")'
  BY <1>3, <1>11 DEF Telling
<1>16. \A s \in Tasks : told'[s] \in {"yes", "lost"} =>
           s \in fired' \/ \E y \in Rounds : Telling(y, s, "sla_up")'
  BY <1>1, <1>7, <1>11, <1>13, <1>14, <1>15 DEF AlertsOK
<1>17. \A s \in fired' : told'[s] # "no" \/ \E y \in Rounds : Telling(y, s, "sla_down")'
  BY <1>1, <1>7, <1>8, <1>11, <1>13, <1>14, <1>15 DEF AlertsOK, RowsOK
<1>18. \A y \in Rounds : Telling(y, round[y].t, "sla_up")' => round'[y].t \notin fired'
  BY <1>1, <1>3, <1>4, <1>7, <1>11 DEF AlertsOK, Telling, RoundsOK, RowsOK
<1>19. \A y \in Rounds : /\ round'[y].at = "tell" => round'[y].kind \in {"sla_up", "sla_down"}
                         /\ round'[y].at = "note" => round'[y].kind \in {"up", "down"}
  BY <1>3 DEF AlertsOK
<1> QED
  BY <1>8, <1>10, <1>12, <1>16, <1>17, <1>18, <1>19 DEF AlertsOK

\* The owner is told, or is not, of an outage that may have been forgotten meanwhile.
LEMMA TellKeepsAlerts ==
    ASSUME RowsOK, RoundsOK, AlertsOK, NEW x \in Rounds, TellOwner(x) \/ NotTold(x)
    PROVE  AlertsOK'
<1> USE DEF taskStore, scheduler, bounds
<1>0. PICK t \in Tasks : t = round[x].t
  BY DEF TellOwner, NotTold, RoundsOK, RowsOK
<1>1. /\ round[x].at = "tell" /\ round'[x].at = "end" /\ round'[x].t = t
      /\ \A y \in Rounds \ {x} : round'[y] = round[y]
      /\ UNCHANGED <<streak, fired, downs, used>>
  <2>1. CASE TellOwner(x)
    BY <1>0, <2>1 DEF TellOwner, RoundsOK
  <2>2. CASE NotTold(x)
    BY <1>0, <2>2 DEF NotTold, RoundsOK
  <2> QED
    BY <2>1, <2>2
<1>2. \A y \in Rounds \ {x} : round[y].t # t
  BY <1>0, TasksAssumption DEF RoundsOK
<1>3. /\ told' \in [Tasks -> {"no", "yes", "lost", "forgotten"}]
      /\ \A s \in Tasks \ {t} : told'[s] = told[s]
      /\ round[x].kind = "sla_up" => told'[t] = "no" /\ t \notin fired
      /\ round[x].kind # "sla_up" => /\ t \in fired => told'[t] \in {"yes", "lost"}
                                     /\ t \notin fired => told'[t] \in {"forgotten", "no"}
  BY <1>0, <1>1 DEF TellOwner, NotTold, AlertsOK, Telling
<1>4. \A y \in Rounds \ {x} : \A s, k : Telling(y, s, k)' <=> Telling(y, s, k)
  BY <1>1 DEF Telling
<1>5. \A s, k : ~ Telling(x, s, k)' /\ (s # t => ~ Telling(x, s, k))
  BY <1>0, <1>1 DEF Telling
<1>6. AlertsTellTheTruth'
  BY <1>0, <1>1, <1>2, <1>3 DEF AlertsOK, AlertsTellTheTruth, RoundsOK, RowsOK
<1>7. \A s \in Tasks : told'[s] \in {"yes", "lost"} =>
          s \in fired' \/ \E y \in Rounds : Telling(y, s, "sla_up")'
  BY <1>1, <1>3, <1>4, <1>5 DEF AlertsOK
<1>8. \A s \in fired' : told'[s] # "no" \/ \E y \in Rounds : Telling(y, s, "sla_down")'
  BY <1>0, <1>1, <1>3, <1>4, <1>5 DEF AlertsOK, RowsOK
<1>9. \A y \in Rounds : Telling(y, round[y].t, "sla_up")' => round'[y].t \notin fired'
  BY <1>1, <1>4 DEF AlertsOK, Telling
<1>10. \A y \in Rounds : /\ round'[y].at = "tell" => round'[y].kind \in {"sla_up", "sla_down"}
                         /\ round'[y].at = "note" => round'[y].kind \in {"up", "down"}
  BY <1>1 DEF AlertsOK
<1> QED
  BY <1>1, <1>3, <1>6, <1>7, <1>8, <1>9, <1>10 DEF AlertsOK

LEMMA StepKeepsAlerts ==
    ASSUME RowsOK, RoundsOK, AlertsOK, TasksStep
    PROVE  AlertsOK'
<1> USE DEF taskStore, scheduler, bounds, alerts
<1>1. ASSUME NEW r \in Handlers, Request(r)
      PROVE  AlertsOK'
  <2>1. CASE ResetTaskAlerts(r)
    BY <2>1, ResetKeepsAlerts
  <2>2. CASE ~ResetTaskAlerts(r)
    <3>1. UNCHANGED <<alerts, round>> /\ used \subseteq used'
      BY <1>1, <2>2
         DEF Request, StartCreate, StartPut, StartSwitch, StartDelete, Start, InsertTask,
             SaveTask, SwitchTask, DeleteSamples, DeleteRow
    <3> QED
      BY <3>1, QuietKeepsAlerts
  <2> QED
    BY <2>1, <2>2
<1>2. CASE Tick \/ TickEnds \/ \E t \in Tasks : BecomesDue(t)
  <2>1. UNCHANGED <<alerts, round, used>>
    BY <1>2 DEF Tick, TickEnds, BecomesDue
  <2> QED
    BY <2>1, QuietKeepsAlerts
<1>3. ASSUME NEW t \in Tasks, ScheduleTask(t)
      PROVE  AlertsOK'
  <2>1. UNCHANGED <<alerts, used>>
    BY <1>3 DEF ScheduleTask
  <2>2. \A x \in Rounds : \/ round'[x] = round[x]
                          \/ round[x].at # "tell" /\ round'[x].at = "probe"
    <3>1. CASE UNCHANGED round
      BY <3>1
    <3>2. CASE ~ UNCHANGED round
      <4>1. PICK x \in Rounds :
              /\ round[x] = NoRound
              /\ round' = [round EXCEPT ![x] = [NoRound EXCEPT !.at = "probe", !.t = t,
                                                               !.row = sched.seen[t]]]
        BY <1>3, <3>2 DEF ScheduleTask
      <4>2. round'[x].at = "probe" /\ \A y \in Rounds \ {x} : round'[y] = round[y]
        BY <4>1, RowParts DEF RoundsOK, Round
      <4> QED
        BY <4>1, <4>2, RowParts
    <3> QED
      BY <3>1, <3>2
  <2> QED
    BY <2>1, <2>2, QuietKeepsAlerts
<1>4. ASSUME NEW x \in Rounds, RoundEmpty(x) \/ RoundEnds(x)
      PROVE  AlertsOK'
  <2>1. UNCHANGED <<alerts, used>>
    BY <1>4 DEF RoundEmpty, RoundEnds
  <2>2. round[x] \in Round
    BY DEF RoundsOK
  <2>3. \A y \in Rounds \ {x} : round'[y] = round[y]
    BY <1>4 DEF RoundEmpty, RoundEnds, RoundsOK
  <2>4. CASE RoundEmpty(x)
    <3>1. round'[x].at = "end" /\ round[x].at = "probe"
      BY <2>2, <2>4 DEF RoundEmpty, RoundsOK, Round
    <3> QED
      BY <2>1, <2>3, <3>1, QuietKeepsAlerts
  <2>5. CASE RoundEnds(x)
    <3>1. round'[x].at = "free" /\ round[x].at = "end"
      BY <2>5, RowParts DEF RoundEnds, RoundsOK
    <3> QED
      BY <2>1, <2>3, <3>1, QuietKeepsAlerts
  <2> QED
    BY <1>4, <2>4, <2>5
<1>5. ASSUME NEW x \in Rounds, NEW outcome \in {"up", "down", "none"}, RoundSamples(x, outcome)
      PROVE  AlertsOK'
  <2>1. UNCHANGED <<alerts, used>>
    BY <1>5 DEF RoundSamples
  <2>2. \A y \in Rounds \ {x} : round'[y] = round[y]
    BY <1>5 DEF RoundSamples, RoundsOK
  <2>3. /\ round[x].at # "tell" /\ round'[x].at # "tell"
        /\ round'[x].at = "note" => round'[x].kind \in {"up", "down"}
    BY <1>5 DEF RoundSamples, RoundsOK, Round
  <2> QED
    BY <2>1, <2>2, <2>3, QuietKeepsAlerts
<1>6. ASSUME NEW x \in Rounds, RoundStep(x)
      PROVE  AlertsOK'
  BY <1>4, <1>5, <1>6, NoteKeepsAlerts, TellKeepsAlerts DEF RoundStep
<1> QED
  BY <1>1, <1>2, <1>3, <1>6, RestartKeepsAlerts DEF TasksStep, SchedulerStep

-----------------------------------------------------------------------------
(* The switch of a task. *)

\* What a step may do to the row of a task: it is the business of the request
\* that takes it, or it saves a row that was read.
LEMMA RowChange ==
    ASSUME RowsOK, TasksStep, NEW t \in Tasks
    PROVE  \/ Switches(t)
           \/ row'[t] = row[t]
           \/ \E r \in Handlers : /\ doing[r].at = "put" /\ doing[r].t = t
                                  /\ row'[t].is /\ row'[t].row.on = doing[r].row.on
                                  /\ doing'[r] = NoRequest
<1> USE DEF taskStore, scheduler, bounds, Done
<1>1. ASSUME NEW r \in Handlers, NEW new \in Row, InsertTask(r, new)
      PROVE  Switches(t) \/ row'[t] = row[t]
  BY <1>1, RowParts DEF InsertTask, Switches, RowsOK
<1>2. ASSUME NEW r \in Handlers, NEW b \in BOOLEAN, SaveTask(r, b)
      PROVE  \/ row'[t] = row[t]
             \/ /\ doing[r].at = "put" /\ doing[r].t = t
                /\ row'[t].is /\ row'[t].row.on = doing[r].row.on
                /\ doing'[r] = NoRequest
  <2>1. doing[r].row \in Row
    BY DEF RowsOK, TaskHandler
  <2>2. LET new == [doing[r].row EXCEPT !.recover = b]
        IN  new \in Row /\ new.on = doing[r].row.on
    BY <2>1 DEF Row
  <2> QED
    BY <1>2, <2>2, RowParts DEF SaveTask, RowsOK
<1>3. ASSUME NEW r \in Handlers, NEW b \in BOOLEAN, SwitchTask(r, b)
      PROVE  Switches(t) \/ row'[t] = row[t]
  BY <1>3, RowParts DEF SwitchTask, Switches, RowsOK
<1>4. ASSUME NEW r \in Handlers, DeleteRow(r)
      PROVE  Switches(t) \/ row'[t] = row[t]
  BY <1>4 DEF DeleteRow, Switches, RowsOK, TaskHandler
<1>5. ASSUME NEW r \in Handlers, Request(r)
      PROVE  \/ UNCHANGED row
             \/ \E new \in Row : InsertTask(r, new)
             \/ \E b \in BOOLEAN : SaveTask(r, b) \/ SwitchTask(r, b)
             \/ DeleteRow(r)
  BY <1>5 DEF Request, StartCreate, StartPut, StartSwitch, StartDelete, Start, DeleteSamples,
              ResetTaskAlerts
<1>6. ASSUME ~ \E r \in Handlers : Request(r)
      PROVE  UNCHANGED row
  BY <1>6 DEF TasksStep, SchedulerStep, Tick, TickEnds, ScheduleTask, BecomesDue, RoundStep,
              RoundEmpty, RoundSamples, NoteOutcome, TellOwner, NotTold, RoundEnds, RestartScheduler
<1> QED
  BY <1>1, <1>2, <1>3, <1>4, <1>5, <1>6


\* What a step may do to a request: nothing, end it, take it further, or begin
\* it with the row as it is.
LEMMA DoingChange ==
    ASSUME RowsOK, TasksStep, NEW r \in Handlers
    PROVE  \/ doing'[r] = doing[r]
           \/ doing'[r] = NoRequest
           \/ doing'[r].at \in {"row", "alerts"}
           \/ /\ UNCHANGED row
              /\ doing'[r].at = "put" =>
                     row[doing'[r].t].is /\ doing'[r].row = row[doing'[r].t].row
<1> USE DEF taskStore, scheduler, bounds, Done
<1>1. ASSUME NEW s \in Handlers, NEW t \in Tasks,
             StartCreate(s, t) \/ StartPut(s, t) \/ StartSwitch(s, t) \/ StartDelete(s, t)
      PROVE  \/ doing'[r] = doing[r]
             \/ /\ UNCHANGED row
                /\ doing'[r].at = "put" =>
                       row[doing'[r].t].is /\ doing'[r].row = row[doing'[r].t].row
  BY <1>1 DEF StartCreate, StartPut, StartSwitch, StartDelete, Start, RowsOK
<1>2. ASSUME NEW s \in Handlers, DeleteSamples(s) \/ DeleteRow(s)
      PROVE  doing'[r] = doing[r] \/ doing'[r].at \in {"row", "alerts"}
  <2>1. doing[r] \in TaskHandler
    BY DEF RowsOK
  <2> QED
    BY <1>2, <2>1 DEF DeleteSamples, DeleteRow, RowsOK, TaskHandler
<1>3. ASSUME NEW s \in Handlers, doing' = [doing EXCEPT ![s] = NoRequest]
      PROVE  doing'[r] = doing[r] \/ doing'[r] = NoRequest
  BY <1>3 DEF RowsOK
<1>4. ASSUME NEW s \in Handlers, Request(s)
      PROVE  \/ \E t \in Tasks : \/ StartCreate(s, t) \/ StartPut(s, t)
                                 \/ StartSwitch(s, t) \/ StartDelete(s, t)
             \/ DeleteSamples(s) \/ DeleteRow(s)
             \/ doing' = [doing EXCEPT ![s] = NoRequest]
  BY <1>4 DEF Request, InsertTask, SaveTask, SwitchTask, ResetTaskAlerts
<1>5. ASSUME ~ \E s \in Handlers : Request(s)
      PROVE  UNCHANGED doing \/ doing'[r] = NoRequest
  BY <1>5 DEF TasksStep, SchedulerStep, Tick, TickEnds, ScheduleTask, BecomesDue, RoundStep,
              RoundEmpty, RoundSamples, NoteOutcome, TellOwner, NotTold, RoundEnds, RestartScheduler
<1> QED
  BY <1>1, <1>2, <1>3, <1>4, <1>5

\* Two requests about a task are noticed.
LEMMA TwoAreCounted ==
    ASSUME NEW S \in SUBSET Handlers, NEW r \in S, NEW s \in S, r # s
    PROVE  Cardinality(S) > 1
<1>1. IsFiniteSet(S) /\ Cardinality(S) \in Nat
  BY TasksAssumption, FS_Subset, FS_CardinalityType
<1>2. IsFiniteSet({s}) /\ Cardinality({s}) = 1 /\ Cardinality({r, s}) = 2
  <2>1. IsFiniteSet({s}) /\ Cardinality({s}) = 1
    BY FS_Singleton
  <2>2. {r, s} = {s} \cup {r} /\ r \notin {s}
    OBVIOUS
  <2>3. Cardinality({s} \cup {r}) = 2
    BY <2>1, <2>2, FS_AddElement
  <2> QED
    BY <2>1, <2>2, <2>3
<1>3. Cardinality({r, s}) <= Cardinality(S)
  BY <1>1, FS_Subset, {r, s} \in SUBSET S
<1> QED
  BY <1>1, <1>2, <1>3

LEMMA StepKeepsSwitch ==
    ASSUME RowsOK, RowsOK', SwitchOK, TasksNext
    PROVE  SwitchOK'
<1>1. /\ crossed \subseteq crossed' /\ crossed' \subseteq Tasks
      /\ left' \in [Tasks -> {"gone", "off", "on"}]
  BY DEF TasksNext, SwitchOK, Switch
<1>2. ASSUME NEW r \in Handlers, NEW s \in Handlers, r # s, doing'[r].t = doing'[s].t,
             doing'[r].t \in Tasks \ crossed'
      PROVE  FALSE
  <2> DEFINE S == {q \in Handlers : doing'[q].t = doing'[r].t}
  <2>1. Cardinality(S) > 1
    BY <1>2, TwoAreCounted
  <2>2. doing'[r].t \in crossed'
    BY <1>2, <2>1 DEF TasksNext
  <2> QED
    BY <1>2, <2>2
<1>3. ASSUME NEW r \in Handlers, doing'[r].at = "put", doing'[r].t \notin crossed'
      PROVE  row'[doing'[r].t].is /\ row'[doing'[r].t].row.on = doing'[r].row.on
  <2>1. PICK t \in Tasks : t = doing'[r].t
    BY <1>3, RowParts DEF RowsOK
  <2>2. t \notin crossed /\ TasksStep
    BY <1>1, <1>3, <2>1 DEF TasksNext
  <2>3. CASE doing'[r] = doing[r]
    <3>1. row[t].is /\ row[t].row.on = doing[r].row.on /\ doing[r].at = "put" /\ doing[r].t = t
      BY <1>3, <2>1, <2>2, <2>3 DEF SwitchOK
    <3>2. \A s \in Handlers : doing[s].t = t => s = r
      BY <2>2, <3>1 DEF SwitchOK
    <3>3. ~ Switches(t)
      BY <3>1, <3>2 DEF Switches
    <3>4. row'[t] = row[t]
      BY <1>3, <2>2, <3>2, <3>3, RowChange, RowParts
    <3> QED
      BY <2>1, <2>3, <3>1, <3>4
  <2>4. CASE doing'[r] # doing[r]
    BY <1>3, <2>1, <2>2, <2>4, DoingChange, RowParts
  <2> QED
    BY <2>3, <2>4
<1>4. ASSUME NEW t \in Tasks \ crossed'
      PROVE  Switch(row'[t]) = left'[t]
  <2>1. left'[t] = IF Switches(t) THEN Switch(row'[t]) ELSE left[t]
    BY DEF TasksNext
  <2>2. t \notin crossed /\ Switch(row[t]) = left[t] /\ TasksStep
    BY <1>1 DEF SwitchOK, SwitchStands, TasksNext
  <2>3. CASE row'[t] = row[t]
    BY <2>1, <2>2, <2>3
  <2>4. ASSUME NEW r \in Handlers, doing[r].at = "put", doing[r].t = t,
               row'[t].is, row'[t].row.on = doing[r].row.on
        PROVE  Switch(row'[t]) = Switch(row[t])
    BY <2>2, <2>4 DEF SwitchOK, Switch
  <2> QED
    BY <2>1, <2>2, <2>3, <2>4, RowChange
<1> QED
  BY <1>1, <1>2, <1>3, <1>4 DEF SwitchOK, SwitchStands

-----------------------------------------------------------------------------

LEMMA TasksNextKeeps == TasksIInv /\ [TasksNext]_tasksVars => TasksIInv'
<1>1. ASSUME TasksIInv, TasksNext
      PROVE  TasksIInv'
  <2>1. RowsOK /\ RoundsOK /\ AlertsOK /\ SwitchOK /\ TasksStep
    BY <1>1 DEF TasksIInv, TasksNext
  <2>2. RowsOK'
    BY <2>1, RequestKeepsRows, SchedulerKeepsRows, RoundKeepsRows, RestartKeepsRows
       DEF TasksStep
  <2>3. RoundsOK' /\ AlertsOK'
    BY <2>1, StepKeepsRounds, StepKeepsAlerts
  <2>4. SwitchOK'
    BY <1>1, <2>1, <2>2, StepKeepsSwitch
  <2> QED
    BY <2>2, <2>3, <2>4 DEF TasksIInv
<1>2. ASSUME TasksIInv, UNCHANGED tasksVars
      PROVE  TasksIInv'
  <2>1. UNCHANGED <<row, used, samples, doing, sched, due, taskRun, round, streak, fired, started,
                    boots, downs, told, crossed, left>>
    BY <1>2 DEF tasksVars, probes
  <2>2. RowsOK' /\ RoundsOK'
    BY <1>2, <2>1 DEF TasksIInv, RowsOK, RoundsOK, RoundsOf
  <2>3. AlertsOK'
    BY <1>2, <2>1 DEF TasksIInv, AlertsOK, AlertsTellTheTruth, Telling
  <2>4. SwitchOK'
    BY <1>2, <2>1 DEF TasksIInv, SwitchOK, SwitchStands, Switch
  <2> QED
    BY <2>2, <2>3, <2>4 DEF TasksIInv
<1> QED
  BY <1>1, <1>2

\* What the two below follow from is inductive.
THEOREM TasksInvariant == TasksSpec => []TasksIInv
BY TasksInitInv, TasksNextKeeps, PTL DEF TasksSpec

LEMMA RoundsDoNotOverlap == RoundsOK => OneRoundAtATime
<1> SUFFICES ASSUME RoundsOK, NEW t \in Tasks
             PROVE  Cardinality(RoundsOf(t)) <= 1
  BY DEF OneRoundAtATime, RoundsOK
<1>1. CASE RoundsOf(t) = {}
  BY <1>1, FS_EmptySet
<1>2. ASSUME NEW x \in RoundsOf(t)
      PROVE  Cardinality(RoundsOf(t)) <= 1
  <2>1. RoundsOf(t) = {x}
    BY <1>2, TasksAssumption DEF RoundsOf, RoundsOK
  <2>2. Cardinality({x}) = 1
    BY FS_Singleton
  <2> QED
    BY <2>1, <2>2
<1> QED
  BY <1>1, <1>2

\* Rounds of a task do not overlap, and a task is there and enabled as its
\* creation, its last switch or its deletion left it, whatever was edited since
\* (task.go:205-243, task_routes.go:159-190), with any number of tasks, requests
\* and rounds at once.
THEOREM TasksInvAlways == TasksSpec => []TasksInv
<1>1. TasksIInv => TasksInv
  <2> SUFFICES ASSUME TasksIInv PROVE TasksInv
    OBVIOUS
  <2>1. TasksTypeOK
    <3>1. taskRun \subseteq used
      BY RowParts, TasksAssumption DEF TasksIInv, RoundsOK, RoundsOf, RowsOK
    <3> QED
      BY <3>1 DEF TasksIInv, TasksTypeOK, RowsOK, RoundsOK, AlertsOK, SwitchOK
  <2>2. OneRoundAtATime /\ SwitchStands
    BY RoundsDoNotOverlap DEF TasksIInv, SwitchOK
  <2> QED
    BY <2>1, <2>2 DEF TasksInv
<1> QED
  BY <1>1, TasksInvariant, PTL

\* The owner is told of an outage once, when the last N rounds were down, and of
\* its end when it is over (task.go:299), for every threshold.
THEOREM AlertsTellTheTruthAlways == TasksSpec => []AlertsTellTheTruth
<1>1. TasksIInv => AlertsTellTheTruth
  BY DEF TasksIInv, AlertsOK
<1> QED
  BY <1>1, TasksInvariant, PTL

-----------------------------------------------------------------------------
(* Upgrades (Ota). *)

Checked == {r \in Req : h[r].at = "checked"}
Busy == {r \in Req : h[r].at \in {"wait", "http", "create"}}
Same(a, b) == a.n = b.n /\ a.target = b.target /\ a.from = b.from

\* There is room for the tasks of the requests under way.
RoomOK ==
    /\ Len(tasks) + Cardinality(Busy) <= asked
    /\ asked + Cardinality(Checked) <= MaxAsk

\* Each request has a command of its own, and what its node heard is that.
RequestsOK ==
    /\ \A r \in Req : h[r].at # "idle" => h[r].n \in Nodes
    /\ \A r \in Busy : h[r].q \in 1..asked
    /\ \A r, s \in Busy : h[r].q = h[s].q => r = s
    /\ \A r \in Busy : cmd[h[r].q].at # "none" => Same(cmd[h[r].q], h[r])
    /\ \A r \in Busy : h[r].at = "create" /\ h[r].ok => cmd[h[r].q].at # "none"

\* Commands of which a node has heard were sent.
CommandsOK ==
    /\ \A q \in Commands : cmd[q].at # "none" => cmd[q].n \in Nodes /\ q <= asked
    /\ \A c \in Conns : loop[c].at = "deliver" =>
           loop[c].q \in Commands /\ cmd[loop[c].q].at # "none"

\* Tasks that wait or succeeded are those of commands their node has heard of.
HeardOK ==
    \A i \in DOMAIN tasks : tasks[i].status # "failed" =>
        cmd[tasks[i].q].at # "none" /\ Same(cmd[tasks[i].q], tasks[i])

\* What a node lives up to right now is remembered.
ProvedOK ==
    \A q \in Commands :
        cmd[q].at # "none" /\ Hit(cmd[q], runs[cmd[q].n]) => q \in proved

\* Read loops are of nodes with a connection, and end tasks of their node.
ReadersOK ==
    \A c \in Conns :
        /\ loop[c].at # "free" => loop[c].n \in Nodes \ viaHttp
        /\ loop[c].at = "finish" =>
               loop[c].q \in DOMAIN tasks /\ tasks[loop[c].q].n = loop[c].n

\* The reconciler has a task in hand, and what it has read of a node without a
\* connection is what that ran.
ReconcilerOK ==
    /\ rec.at # "idle" => rec.todo # {} /\ rec.todo \subseteq DOMAIN tasks
    /\ /\ rec.at \in {"record", "judge"} /\ NodeOfCurrent \in viaHttp
       /\ tasks[Current].status # "failed" /\ Hit(tasks[Current], rec.v)
       => tasks[Current].q \in proved

OtaIInv ==
    /\ TypeOK /\ RoomOK /\ RequestsOK /\ CommandsOK /\ HeardOK /\ ProvedOK
    /\ ReadersOK /\ ReconcilerOK /\ JudgedLive

LEMMA OtaParts ==
    /\ Idle \in Handler /\ Free \in Loop /\ Resting \in Reconciler /\ NoCommand \in Command
    /\ Idle.at = "idle" /\ Free.at = "free" /\ Resting.at = "idle" /\ NoCommand.at = "none"
    /\ 0 \in Known /\ Versions \subseteq Known /\ Targets \subseteq Known /\ Versions \subseteq Nat
    /\ None \notin Conns /\ MaxAsk \in Nat /\ IsFiniteSet(Req)
<1>1. 0 \in Known /\ Versions \subseteq Known /\ Targets \subseteq Known /\ Versions \subseteq Nat
      /\ None \notin Conns /\ MaxAsk \in Nat /\ IsFiniteSet(Req)
  BY OtaAssumption DEF Known
<1>2. Idle \in Handler /\ Idle.at = "idle" /\ Free \in Loop /\ Free.at = "free"
  BY <1>1 DEF Idle, Handler, Free, Loop
<1>3. Resting \in Reconciler /\ Resting.at = "idle"
  BY <1>1 DEF Resting, Reconciler
<1>4. NoCommand \in Command /\ NoCommand.at = "none"
  BY <1>1 DEF NoCommand, Command
<1> QED
  BY <1>1, <1>2, <1>3, <1>4

LEMMA OtaInitInv == Init => OtaIInv
<1> SUFFICES ASSUME Init PROVE OtaIInv
  OBVIOUS
<1>0. tasks = << >> /\ Len(tasks) = 0 /\ DOMAIN tasks = {} /\ asked = 0 /\ MaxAsk \in Nat
  BY OtaAssumption DEF Init
<1>1. TypeOK
  BY <1>0, OtaParts, OtaAssumption DEF Init, TypeOK
<1>2. RoomOK
  <2>1. Checked = {} /\ Busy = {}
    BY OtaParts DEF Init, Checked, Busy
  <2> QED
    BY <1>0, <2>1, FS_EmptySet DEF RoomOK
<1>3. RequestsOK /\ CommandsOK
  BY OtaParts DEF Init, RequestsOK, Busy, CommandsOK
<1>4. HeardOK /\ JudgedLive
  BY <1>0 DEF HeardOK, JudgedLive
<1>5. ProvedOK /\ ReadersOK /\ ReconcilerOK
  BY OtaParts DEF Init, ProvedOK, ReadersOK, ReconcilerOK
<1> QED
  BY <1>1, <1>2, <1>3, <1>4, <1>5 DEF OtaIInv

\* A nonempty set of numbers has a least one, and the positions in a sequence
\* have a last one.
LEMMA LeastOf ==
    ASSUME NEW S \in SUBSET Nat, S # {}
    PROVE  \E m \in S : \A n \in S : m <= n
<1> DEFINE R == OpToRel(<, Nat)
<1>1. IsWellFoundedOn(R, Nat)
  BY NatLessThanWellFounded
<1>2. \A x, y \in Nat : <<y, x>> \in R <=> y < x
  BY DEF OpToRel
<1> HIDE DEF R
<1>3. PICK m \in S : \A y \in S : ~ (<<y, m>> \in R)
  BY <1>1, WFMin
<1>4. ASSUME NEW n \in S
      PROVE  m <= n
  <2>1. m \in Nat /\ n \in Nat /\ ~ (n < m)
    BY <1>2, <1>3
  <2> QED
    BY <2>1
<1> QED
  BY <1>4

LEMMA LastOf ==
    ASSUME NEW k \in Nat, NEW S \in SUBSET (1..k), S # {}
    PROVE  \E m \in S : \A n \in S : n <= m
<1> DEFINE T == {k - i : i \in S}
<1>0. \A i \in S : k - i \in Nat
  OBVIOUS
<1>1. T \in SUBSET Nat /\ T # {}
  BY <1>0
<1> HIDE DEF T
<1>2. PICK m \in T : \A n \in T : m <= n
  BY <1>1, LeastOf
<1>3. PICK i \in S : m = k - i
  BY DEF T
<1>4. \A n \in S : k - i <= k - n
  BY <1>2, <1>3 DEF T
<1> QED
  BY <1>4

LEMMA TaskInHand ==
    ASSUME TypeOK, ReconcilerOK, rec.at # "idle"
    PROVE  /\ Current \in rec.todo /\ Current \in 1..Len(tasks)
           /\ tasks[Current] \in Task /\ NodeOfCurrent \in Nodes
<1>1. /\ rec.todo # {} /\ rec.todo \in SUBSET Nat /\ rec.todo \subseteq 1..Len(tasks)
      /\ tasks \in Seq(Task)
  BY DEF TypeOK, ReconcilerOK
<1>2. \E i \in rec.todo : \A j \in rec.todo : i <= j
  BY <1>1, LeastOf
<1>3. Current \in rec.todo
  BY <1>2 DEF Current
<1>4. Current \in 1..Len(tasks) /\ tasks[Current] \in Task
  BY <1>1, <1>3
<1> QED
  BY <1>3, <1>4 DEF NodeOfCurrent, Task

-----------------------------------------------------------------------------
\* Tasks are not replaced, and one that is ended stays as it is.
TasksKept ==
    /\ tasks' \in Seq(Task) /\ Len(tasks') = Len(tasks)
    /\ \A i \in 1..Len(tasks) :
          /\ Same(tasks'[i], tasks[i]) /\ tasks'[i].q = tasks[i].q
          /\ tasks[i].status # "dispatched" => tasks'[i] = tasks[i]
          /\ tasks'[i].status \in {tasks[i].status, "success", "failed"}

LEMMA FinishedKeeps ==
    ASSUME tasks \in Seq(Task), NEW i, NEW s \in {"success", "failed"}, tasks' = Finished(i, s)
    PROVE  TasksKept
<1>1. CASE ~ InFlight(i)
  BY <1>1 DEF Finished, TasksKept, Same
<1>2. CASE InFlight(i)
  <2>1. i \in 1..Len(tasks) /\ tasks[i] \in Task /\ tasks[i].status = "dispatched"
    BY <1>2 DEF InFlight
  <2>2. PICK t \in Task : t = [tasks[i] EXCEPT !.status = s]
    BY <2>1 DEF Task
  <2>3. Same(t, tasks[i]) /\ t.q = tasks[i].q /\ t.status = s
    BY <2>1, <2>2 DEF Task, Same
  <2>4. tasks' = [tasks EXCEPT ![i] = t]
    BY <1>2, <2>2 DEF Finished
  <2>5. tasks' \in Seq(Task) /\ Len(tasks') = Len(tasks)
        /\ tasks'[i] = t /\ \A j \in 1..Len(tasks) \ {i} : tasks'[j] = tasks[j]
    BY <2>1, <2>4
  <2> QED
    BY <2>1, <2>3, <2>5 DEF TasksKept, Same
<1> QED
  BY <1>1, <1>2

LEMMA LateKeeps ==
    ASSUME tasks \in Seq(Task), NEW i \in Commands, BecomesLate(i)
    PROVE  TasksKept /\ \A j \in 1..Len(tasks) : tasks'[j].status = tasks[j].status
<1>1. i \in 1..Len(tasks) /\ tasks[i] \in Task /\ tasks[i].status = "dispatched"
  BY DEF BecomesLate, InFlight
<1>2. PICK t \in Task : t = [tasks[i] EXCEPT !.late = TRUE]
  BY <1>1 DEF Task
<1>3. Same(t, tasks[i]) /\ t.q = tasks[i].q /\ t.status = tasks[i].status
  BY <1>1, <1>2 DEF Task, Same
<1>4. tasks' = [tasks EXCEPT ![i] = t]
  BY <1>2 DEF BecomesLate
<1>5. tasks' \in Seq(Task) /\ Len(tasks') = Len(tasks)
      /\ tasks'[i] = t /\ \A j \in 1..Len(tasks) \ {i} : tasks'[j] = tasks[j]
  BY <1>1, <1>4
<1> QED
  BY <1>1, <1>3, <1>5 DEF TasksKept, Same

LEMMA NodeResultKeeps ==
    ASSUME tasks \in Seq(Task), NEW c \in Conns, OnNodeResult(c)
    PROVE  TasksKept /\ \A j \in 1..Len(tasks) : tasks'[j].status \in {tasks[j].status, "failed"}
<1>1. ASSUME NEW i \in 1..Len(tasks)
      PROVE  /\ Finished(i, "failed")[i] \in Task
             /\ Same(Finished(i, "failed")[i], tasks[i])
             /\ Finished(i, "failed")[i].q = tasks[i].q
             /\ Finished(i, "failed")[i].status \in {tasks[i].status, "failed"}
             /\ tasks[i].status # "dispatched" => Finished(i, "failed")[i] = tasks[i]
  <2>1. tasks[i] \in Task
    OBVIOUS
  <2>2. CASE ~ InFlight(i)
    BY <2>1, <2>2 DEF Finished, Same
  <2>3. CASE InFlight(i)
    <3>1. PICK t \in Task : t = [tasks[i] EXCEPT !.status = "failed"]
      BY <2>1 DEF Task
    <3>2. Same(t, tasks[i]) /\ t.q = tasks[i].q /\ t.status = "failed"
      BY <2>1, <3>1 DEF Task, Same
    <3>3. Finished(i, "failed")[i] = t /\ tasks[i].status = "dispatched"
      BY <2>3, <3>1 DEF Finished, InFlight
    <3> QED
      BY <3>1, <3>2, <3>3
  <2> QED
    BY <2>2, <2>3
<1>2. DOMAIN tasks = 1..Len(tasks) /\ Len(tasks) \in Nat /\ \A i \in 1..Len(tasks) : tasks[i] \in Task
  OBVIOUS
<1>3. \A i \in 1..Len(tasks) : tasks'[i] = tasks[i] \/ tasks'[i] = Finished(i, "failed")[i]
  BY <1>2 DEF OnNodeResult
<1>4. \A i \in 1..Len(tasks) : tasks'[i] \in Task
  BY <1>1, <1>2, <1>3
<1>5. tasks' \in Seq(Task) /\ Len(tasks') = Len(tasks)
  <2>1. DOMAIN tasks' = 1..Len(tasks) /\ tasks' = [i \in 1..Len(tasks) |-> tasks'[i]]
    BY <1>2 DEF OnNodeResult
  <2> QED
    BY <1>2, <1>4, <2>1
<1> QED
  BY <1>1, <1>3, <1>5 DEF TasksKept, Same


-----------------------------------------------------------------------------
(* Which steps touch which variable. *)

NodeStep == \E q \in Commands : NodeAccepts(q) \/ NodeFails(q) \/ NodeUpgrades(q)

LEMMA ServerSteps ==
    ASSUME Next
    PROVE  /\ \/ UNCHANGED h
              \/ \E r \in Req : \E n \in Nodes : \E target \in Targets : StartUpgrade(r, n, target)
              \/ \E r \in Req : HandlerStep(r)
              \/ \E c \in Conns : DeliverResult(c)
              \/ Restart
           /\ \/ UNCHANGED loop
              \/ \E c \in Conns : LoopStep(c) \/ \E n \in Nodes : Dial(c, n)
              \/ NodeStep \/ Restart
           /\ UNCHANGED rec \/ ReconcilerStep \/ Restart
           /\ \/ UNCHANGED version
              \/ \E c \in Conns : StoreVersion(c)
              \/ ReconcileRecord \/ \E n \in Nodes : WatcherStores(n)
           /\ \/ UNCHANGED link
              \/ \E c \in Conns : \E n \in Nodes : Dial(c, n)
              \/ \E q \in Commands : NodeUpgrades(q)
              \/ \E n \in Nodes : \E v \in Versions : NodeRestarts(n, v)
              \/ Restart
           /\ UNCHANGED watch \/ (\E n \in Nodes : WatcherAsks(n) \/ WatcherStores(n)) \/ Restart
<1> USE DEF Next, store, server, world, HandlerStep, LoopStep, ReconcilerStep, NodeStep
<1>1. \/ UNCHANGED h
      \/ \E r \in Req : \E n \in Nodes : \E target \in Targets : StartUpgrade(r, n, target)
      \/ \E r \in Req : HandlerStep(r)
      \/ \E c \in Conns : DeliverResult(c)
      \/ Restart
  BY DEF StoreVersion, FindTask, FinishTask, OnNodeResult, ConnEnds, Dial, ReconcileStart,
         ReconcileLook, ReconcileProbe, ReconcileRecord, ReconcileJudge, WatcherAsks, WatcherStores,
         NodeAccepts, NodeFails, NodeSays, NodeUpgrades, NodeRestarts, BecomesLate
<1>2. \/ UNCHANGED loop
      \/ \E c \in Conns : LoopStep(c) \/ \E n \in Nodes : Dial(c, n)
      \/ NodeStep \/ Restart
  BY DEF StartUpgrade, Dispatch, TimesOut, PostByHttp, CreateTask, ReconcileStart,
         ReconcileLook, ReconcileProbe, ReconcileRecord, ReconcileJudge, WatcherAsks, WatcherStores,
         NodeRestarts, BecomesLate
<1>3. UNCHANGED rec \/ ReconcilerStep \/ Restart
  BY DEF StartUpgrade, Dispatch, TimesOut, PostByHttp, CreateTask, StoreVersion, FindTask,
         FinishTask, DeliverResult, OnNodeResult, ConnEnds, Dial, WatcherAsks, WatcherStores,
         NodeAccepts, NodeFails, NodeSays, NodeUpgrades, NodeRestarts, BecomesLate
<1>4. \/ UNCHANGED version
      \/ \E c \in Conns : StoreVersion(c)
      \/ ReconcileRecord \/ \E n \in Nodes : WatcherStores(n)
  BY DEF StartUpgrade, Dispatch, TimesOut, PostByHttp, CreateTask, FindTask, FinishTask,
         DeliverResult, OnNodeResult, ConnEnds, Dial, ReconcileStart, ReconcileLook,
         ReconcileProbe, ReconcileJudge, WatcherAsks, NodeAccepts, NodeFails, NodeSays,
         NodeUpgrades, NodeRestarts, BecomesLate, Restart
<1>5. \/ UNCHANGED link
      \/ \E c \in Conns : \E n \in Nodes : Dial(c, n)
      \/ \E q \in Commands : NodeUpgrades(q)
      \/ \E n \in Nodes : \E v \in Versions : NodeRestarts(n, v)
      \/ Restart
  BY DEF StartUpgrade, Dispatch, TimesOut, PostByHttp, CreateTask, StoreVersion, FindTask,
         FinishTask, DeliverResult, OnNodeResult, ConnEnds, ReconcileStart, ReconcileLook,
         ReconcileProbe, ReconcileRecord, ReconcileJudge, WatcherAsks, WatcherStores,
         NodeAccepts, NodeFails, NodeSays, BecomesLate
<1>6. UNCHANGED watch \/ (\E n \in Nodes : WatcherAsks(n) \/ WatcherStores(n)) \/ Restart
  BY DEF StartUpgrade, Dispatch, TimesOut, PostByHttp, CreateTask, StoreVersion, FindTask,
         FinishTask, DeliverResult, OnNodeResult, ConnEnds, Dial, ReconcileStart, ReconcileLook,
         ReconcileProbe, ReconcileRecord, ReconcileJudge, NodeAccepts, NodeFails, NodeSays,
         NodeUpgrades, NodeRestarts, BecomesLate
<1> QED
  BY <1>1, <1>2, <1>3, <1>4, <1>5, <1>6

LEMMA WorldSteps ==
    ASSUME Next
    PROVE  /\ \/ UNCHANGED tasks
              \/ \E r \in Req : CreateTask(r)
              \/ \E c \in Conns : FinishTask(c) \/ OnNodeResult(c)
              \/ ReconcileJudge \/ \E i \in Commands : BecomesLate(i)
           /\ UNCHANGED asked \/ \E r \in Req : Dispatch(r)
           /\ UNCHANGED cmd \/ (\E r \in Req : Dispatch(r) \/ PostByHttp(r)) \/ NodeStep
           /\ \/ UNCHANGED runs
              \/ \E q \in Commands : NodeUpgrades(q)
              \/ \E n \in Nodes : \E v \in Versions : NodeRestarts(n, v)
           /\ UNCHANGED troubles \/ (troubles < MaxTroubles /\ troubles' = troubles + 1)
           /\ UNCHANGED viaHttp
<1> USE DEF Next, store, server, world, HandlerStep, LoopStep, ReconcilerStep, NodeStep
<1>1. \/ UNCHANGED tasks
      \/ \E r \in Req : CreateTask(r)
      \/ \E c \in Conns : FinishTask(c) \/ OnNodeResult(c)
      \/ ReconcileJudge \/ \E i \in Commands : BecomesLate(i)
  BY DEF StartUpgrade, Dispatch, TimesOut, PostByHttp, StoreVersion, FindTask, DeliverResult,
         ConnEnds, Dial, ReconcileStart, ReconcileLook, ReconcileProbe, ReconcileRecord,
         WatcherAsks, WatcherStores, NodeAccepts, NodeFails, NodeSays, NodeUpgrades,
         NodeRestarts, Restart
<1>2. UNCHANGED asked \/ \E r \in Req : Dispatch(r)
  BY DEF StartUpgrade, TimesOut, PostByHttp, CreateTask, StoreVersion, FindTask, FinishTask,
         DeliverResult, OnNodeResult, ConnEnds, Dial, ReconcileStart, ReconcileLook,
         ReconcileProbe, ReconcileRecord, ReconcileJudge, WatcherAsks, WatcherStores,
         NodeAccepts, NodeFails, NodeSays, NodeUpgrades, NodeRestarts, BecomesLate, Restart
<1>3. UNCHANGED cmd \/ (\E r \in Req : Dispatch(r) \/ PostByHttp(r)) \/ NodeStep
  BY DEF StartUpgrade, TimesOut, CreateTask, StoreVersion, FindTask, FinishTask,
         DeliverResult, OnNodeResult, ConnEnds, Dial, ReconcileStart, ReconcileLook,
         ReconcileProbe, ReconcileRecord, ReconcileJudge, WatcherAsks, WatcherStores,
         NodeRestarts, BecomesLate, Restart
<1>4. \/ UNCHANGED runs
      \/ \E q \in Commands : NodeUpgrades(q)
      \/ \E n \in Nodes : \E v \in Versions : NodeRestarts(n, v)
  BY DEF StartUpgrade, Dispatch, TimesOut, PostByHttp, CreateTask, StoreVersion, FindTask,
         FinishTask, DeliverResult, OnNodeResult, ConnEnds, Dial, ReconcileStart, ReconcileLook,
         ReconcileProbe, ReconcileRecord, ReconcileJudge, WatcherAsks, WatcherStores,
         NodeAccepts, NodeFails, NodeSays, BecomesLate, Restart
<1>5. UNCHANGED troubles \/ (troubles < MaxTroubles /\ troubles' = troubles + 1)
  BY DEF StartUpgrade, Dispatch, TimesOut, PostByHttp, CreateTask, StoreVersion, FindTask,
         FinishTask, DeliverResult, OnNodeResult, ConnEnds, Dial, ReconcileStart, ReconcileLook,
         ReconcileProbe, ReconcileRecord, ReconcileJudge, WatcherAsks, WatcherStores,
         NodeAccepts, NodeFails, NodeSays, NodeUpgrades, NodeRestarts, BecomesLate, Restart
<1>6. UNCHANGED viaHttp
  BY DEF StartUpgrade, Dispatch, TimesOut, PostByHttp, CreateTask, StoreVersion, FindTask,
         FinishTask, DeliverResult, OnNodeResult, ConnEnds, Dial, ReconcileStart, ReconcileLook,
         ReconcileProbe, ReconcileRecord, ReconcileJudge, WatcherAsks, WatcherStores,
         NodeAccepts, NodeFails, NodeSays, NodeUpgrades, NodeRestarts, BecomesLate, Restart
<1> QED
  BY <1>1, <1>2, <1>3, <1>4, <1>5, <1>6

\* What was proved or judged stays so.
LEMMA HistoryGrows ==
    ASSUME Next
    PROVE  proved \subseteq proved' /\ blind \subseteq blind'
<1> USE DEF Next, store, server, world, HandlerStep, LoopStep, ReconcilerStep
<1>1. proved \subseteq proved'
  BY DEF StartUpgrade, Dispatch, TimesOut, PostByHttp, CreateTask, StoreVersion, FindTask,
         FinishTask, DeliverResult, OnNodeResult, ConnEnds, Dial, ReconcileStart, ReconcileLook,
         ReconcileProbe, ReconcileRecord, ReconcileJudge, WatcherAsks, WatcherStores,
         NodeAccepts, NodeFails, NodeSays, NodeUpgrades, NodeRestarts, BecomesLate, Restart
<1>2. blind \subseteq blind'
  BY DEF StartUpgrade, Dispatch, TimesOut, PostByHttp, CreateTask, StoreVersion, FindTask,
         FinishTask, DeliverResult, OnNodeResult, ConnEnds, Dial, ReconcileStart, ReconcileLook,
         ReconcileProbe, ReconcileRecord, ReconcileJudge, WatcherAsks, WatcherStores,
         NodeAccepts, NodeFails, NodeSays, NodeUpgrades, NodeRestarts, BecomesLate, Restart
<1> QED
  BY <1>1, <1>2

-----------------------------------------------------------------------------
(* Tasks. *)

LEMMA JudgeKeeps ==
    ASSUME TypeOK, ReconcilerOK, ReconcileJudge
    PROVE  /\ TasksKept
           /\ \A i \in 1..Len(tasks) :
                 tasks'[i].status = "success" => \/ tasks[i].status = "success"
                                                 \/ i = Current /\ Hit(tasks[i], rec.v)
<1>1. Current \in 1..Len(tasks) /\ tasks \in Seq(Task)
  BY TaskInHand DEF ReconcileJudge, TypeOK
<1>2. CASE UNCHANGED tasks
  BY <1>1, <1>2 DEF TasksKept, Same
<1>3. CASE tasks' = Finished(Current, "success") /\ Hit(tasks[Current], rec.v)
  <2>1. TasksKept
    BY <1>1, <1>3, FinishedKeeps
  <2>2. \A i \in 1..Len(tasks) \ {Current} : tasks'[i] = tasks[i]
    BY <1>1, <1>3 DEF Finished
  <2> QED
    BY <1>3, <2>1, <2>2
<1>4. CASE tasks' = Finished(Current, "failed")
  <2>1. TasksKept
    BY <1>1, <1>4, FinishedKeeps
  <2>2. \A i \in 1..Len(tasks) \ {Current} : tasks'[i] = tasks[i]
    BY <1>1, <1>4 DEF Finished
  <2>3. tasks'[Current] = tasks[Current] \/ tasks'[Current].status = "failed"
    BY <1>1, <1>4 DEF Finished, InFlight, Task
  <2> QED
    BY <2>1, <2>2, <2>3
<1> QED
  BY <1>2, <1>3, <1>4 DEF ReconcileJudge

LEMMA CreateAdds ==
    ASSUME TypeOK, RequestsOK, NEW r \in Req, CreateTask(r)
    PROVE  \E t \in Task : /\ tasks' = Append(tasks, t) /\ Same(t, h[r]) /\ t.q = h[r].q
                           /\ t.status = IF h[r].ok THEN "dispatched" ELSE "failed"
<1>1. h[r] \in Handler /\ r \in Busy /\ h[r].at = "create"
  BY DEF TypeOK, CreateTask, Busy
<1>2. h[r].n \in Nodes /\ h[r].q \in Commands
  BY <1>1, OtaParts DEF RequestsOK, TypeOK, Commands
<1> DEFINE t == [n |-> h[r].n, q |-> h[r].q, from |-> h[r].from, target |-> h[r].target,
                 status |-> IF h[r].ok THEN "dispatched" ELSE "failed", late |-> FALSE]
<1>3. t \in Task
  BY <1>1, <1>2 DEF Task, Handler
<1>4. tasks' = Append(tasks, t) /\ Same(t, h[r]) /\ t.q = h[r].q
      /\ t.status = IF h[r].ok THEN "dispatched" ELSE "failed"
  BY DEF CreateTask, Same
<1> QED
  BY <1>3, <1>4

LEMMA StepKeepsTasks ==
    ASSUME TypeOK, ReconcilerOK, Next
    PROVE  TasksKept \/ \E r \in Req : CreateTask(r)
<1>1. tasks \in Seq(Task)
  BY DEF TypeOK
<1>2. CASE UNCHANGED tasks
  BY <1>1, <1>2 DEF TasksKept, Same
<1>3. ASSUME NEW c \in Conns, FinishTask(c)
      PROVE  TasksKept
  BY <1>1, <1>3, FinishedKeeps DEF FinishTask
<1> QED
  BY <1>1, <1>2, <1>3, WorldSteps, NodeResultKeeps, JudgeKeeps, LateKeeps


-----------------------------------------------------------------------------
(* Requests. *)

LEMMA StartDoes ==
    ASSUME TypeOK, NEW r \in Req, NEW n \in Nodes, NEW target \in Targets, StartUpgrade(r, n, target)
    PROVE  /\ h[r].at = "idle" /\ asked + Cardinality(Checked) < MaxAsk
           /\ \E new \in Handler : /\ h' = [h EXCEPT ![r] = new]
                                   /\ new.at = "checked" /\ new.n = n
<1>1. [Idle EXCEPT !.at = "checked", !.n = n, !.target = target] \in Handler
  BY OtaParts DEF Idle, Handler
<1> DEFINE new == [Idle EXCEPT !.at = "checked", !.n = n, !.target = target]
<1>2. new \in Handler /\ new.at = "checked" /\ new.n = n
  BY <1>1 DEF Idle
<1>3. h' = [h EXCEPT ![r] = new] /\ h[r].at = "idle"
  BY OtaParts DEF StartUpgrade
<1>4. asked + Cardinality(Checked) < MaxAsk
  BY DEF StartUpgrade, Checked
<1> HIDE DEF new
<1> QED
  BY <1>2, <1>3, <1>4

LEMMA CheckedCounts ==
    ASSUME TypeOK, RoomOK
    PROVE  /\ IsFiniteSet(Checked) /\ Cardinality(Checked) \in Nat
           /\ IsFiniteSet(Busy) /\ Cardinality(Busy) \in Nat
           /\ Checked # {} => asked + 1 \in Commands
<1>1. Checked \in SUBSET Req /\ Busy \in SUBSET Req
  BY DEF Checked, Busy
<1>2. IsFiniteSet(Checked) /\ Cardinality(Checked) \in Nat
      /\ IsFiniteSet(Busy) /\ Cardinality(Busy) \in Nat
  BY <1>1, OtaParts, FS_Subset, FS_CardinalityType
<1>3. Checked # {} => Cardinality(Checked) # 0
  BY <1>2, FS_EmptySet
<1>4. Checked # {} => asked + 1 \in Commands
  BY <1>2, <1>3, OtaParts DEF RoomOK, TypeOK, Commands
<1> QED
  BY <1>2, <1>4

LEMMA DispatchDoes ==
    ASSUME TypeOK, RoomOK, RequestsOK, CommandsOK, NEW r \in Req, Dispatch(r)
    PROVE  /\ h[r].at = "checked" /\ asked' = asked + 1 /\ asked + 1 \in Commands
           /\ cmd[asked + 1].at = "none"
           /\ \E new \in Handler :
                 /\ h' = [h EXCEPT ![r] = new]
                 /\ new.at \in {"wait", "http"} /\ new.n = h[r].n /\ new.q = asked + 1
                 /\ \/ UNCHANGED cmd
                    \/ \E c \in Command : /\ cmd' = [cmd EXCEPT ![asked + 1] = c]
                                          /\ c.at = "sent" /\ Same(c, new)
<1>1. h[r].at = "checked" /\ asked' = asked + 1 /\ asked + 1 \in Commands /\ h[r] \in Handler
  <2>1. h[r].at = "checked" /\ r \in Checked
    BY DEF Dispatch, Checked
  <2> QED
    BY <2>1, CheckedCounts DEF Dispatch, TypeOK
<1>2. cmd[asked + 1].at = "none"
  <2>1. ~ (asked + 1 <= asked)
    BY DEF TypeOK
  <2> QED
    BY <1>1, <2>1 DEF CommandsOK
<1>3. PICK from \in VersionBefore(h[r].n), to \in {"wait", "http"} :
          /\ h' = [h EXCEPT ![r].at = to, ![r].from = from, ![r].q = asked + 1]
          /\ \/ cmd' = [cmd EXCEPT ![asked + 1] = CommandOf(h[r], from, "sent")]
             \/ UNCHANGED cmd
  BY DEF Dispatch
<1>4. h[r].n \in Nodes
  BY <1>1 DEF RequestsOK
<1>5. from \in Known
  BY <1>3, <1>4, OtaParts DEF VersionBefore, TypeOK
<1>6. asked + 1 \in 0..MaxAsk
  BY <1>1 DEF Commands
<1> DEFINE new == [h[r] EXCEPT !.at = to, !.from = from, !.q = asked + 1]
           c == CommandOf(h[r], from, "sent")
<1>7. /\ new \in Handler /\ new.at \in {"wait", "http"} /\ new.n = h[r].n /\ new.q = asked + 1
      /\ new.target = h[r].target /\ new.from = from
  BY <1>1, <1>5, <1>6 DEF Handler
<1>8. c \in Command /\ c.at = "sent" /\ Same(c, new)
  BY <1>1, <1>4, <1>5, <1>7 DEF CommandOf, Command, Handler, Same
<1>9. h' = [h EXCEPT ![r] = new]
  BY <1>3 DEF TypeOK
<1> HIDE DEF new
<1>10. UNCHANGED cmd \/ cmd' = [cmd EXCEPT ![asked + 1] = c]
  BY <1>3
<1> HIDE DEF c
<1> QED
  BY <1>1, <1>2, <1>7, <1>8, <1>9, <1>10

LEMMA TimesOutDoes ==
    ASSUME TypeOK, NEW r \in Req, TimesOut(r)
    PROVE  /\ h[r].at = "wait"
           /\ \E new \in Handler : /\ h' = [h EXCEPT ![r] = new] /\ new.at = "http"
                                   /\ Same(new, h[r]) /\ new.q = h[r].q
<1>1. h[r] \in Handler /\ h[r].at = "wait" /\ h' = [h EXCEPT ![r].at = "http"]
  BY DEF TypeOK, TimesOut, Goto
<1> DEFINE new == [h[r] EXCEPT !.at = "http"]
<1>2. new \in Handler /\ new.at = "http" /\ Same(new, h[r]) /\ new.q = h[r].q
  BY <1>1 DEF Handler, Same
<1>3. h' = [h EXCEPT ![r] = new]
  BY <1>1
<1> HIDE DEF new
<1> QED
  BY <1>1, <1>2, <1>3

LEMMA PostDoes ==
    ASSUME TypeOK, RequestsOK, NEW r \in Req, PostByHttp(r)
    PROVE  /\ h[r].at = "http" /\ h[r].q \in Commands
           /\ \E new \in Handler :
                 /\ h' = [h EXCEPT ![r] = new] /\ new.at = "create"
                 /\ Same(new, h[r]) /\ new.q = h[r].q
                 /\ \/ UNCHANGED cmd /\ ~ new.ok
                    \/ \E c \in Command :
                          /\ cmd' = [cmd EXCEPT ![h[r].q] = c] /\ c.at # "none"
                          /\ IF cmd[h[r].q].at = "none" THEN Same(c, h[r]) ELSE c = cmd[h[r].q]
<1>1. h[r] \in Handler /\ h[r].at = "http" /\ r \in Busy
  BY DEF TypeOK, PostByHttp, Busy
<1>2. h[r].q \in Commands /\ h[r].n \in Nodes
  BY <1>1, OtaParts DEF RequestsOK, Commands, TypeOK
<1>3. PICK b \in BOOLEAN :
          /\ h' = [h EXCEPT ![r].at = "create", ![r].ok = b]
          /\ IF b THEN cmd' = [cmd EXCEPT ![h[r].q] =
                          IF @.at = "none" THEN CommandOf(h[r], h[r].from, "accepted") ELSE @]
             ELSE UNCHANGED cmd
  BY DEF PostByHttp
<1> DEFINE new == [h[r] EXCEPT !.at = "create", !.ok = b]
           c == IF cmd[h[r].q].at = "none" THEN CommandOf(h[r], h[r].from, "accepted")
                ELSE cmd[h[r].q]
<1>4. new \in Handler /\ new.at = "create" /\ Same(new, h[r]) /\ new.q = h[r].q /\ new.ok = b
  BY <1>1 DEF Handler, Same
<1>5. c \in Command /\ c.at # "none"
      /\ IF cmd[h[r].q].at = "none" THEN Same(c, h[r]) ELSE c = cmd[h[r].q]
  BY <1>1, <1>2 DEF CommandOf, Command, Handler, Same, TypeOK
<1>6. h' = [h EXCEPT ![r] = new]
  BY <1>3 DEF TypeOK
<1> HIDE DEF new
<1>7. IF b THEN cmd' = [cmd EXCEPT ![h[r].q] = c] ELSE UNCHANGED cmd
  BY <1>2, <1>3 DEF TypeOK
<1> HIDE DEF c
<1> QED
  BY <1>1, <1>2, <1>4, <1>5, <1>6, <1>7

\* A result is delivered to the request that waits for it.
LEMMA DeliverDoes ==
    ASSUME TypeOK, NEW c \in Conns, DeliverResult(c)
    PROVE  /\ h' \in [Req -> Handler]
           /\ \A r \in Req :
                 \/ h'[r] = h[r]
                 \/ /\ h[r].at = "wait" /\ h[r].q = loop[c].q
                    /\ h'[r].at = "create" /\ Same(h'[r], h[r]) /\ h'[r].q = h[r].q
<1>1. ASSUME NEW r \in Req, h[r].at = "wait", h[r].q = loop[c].q
      PROVE  /\ h'[r] \in Handler /\ h'[r].at = "create" /\ Same(h'[r], h[r])
             /\ h'[r].q = h[r].q
  <2>1. h[r] \in Handler /\ loop[c].ok \in BOOLEAN
    BY DEF TypeOK, Loop
  <2>2. h'[r] = [h[r] EXCEPT !.at = "create", !.ok = loop[c].ok]
    BY <1>1 DEF DeliverResult
  <2> QED
    BY <2>1, <2>2 DEF Handler, Same
<1>2. \A r \in Req : ~(h[r].at = "wait" /\ h[r].q = loop[c].q) => h'[r] = h[r]
  BY DEF DeliverResult
<1>3. \A r \in Req : h'[r] \in Handler
  BY <1>1, <1>2 DEF TypeOK
<1>4. h' = [r \in Req |-> h'[r]]
  BY DEF DeliverResult
<1>5. h' \in [Req -> Handler]
  BY <1>3, <1>4
<1> QED
  BY <1>1, <1>2, <1>5


\* One request goes from one group to another.
LEMMA GroupsMove ==
    ASSUME TypeOK, RoomOK, NEW r \in Req, NEW new, h' = [h EXCEPT ![r] = new]
    PROVE  /\ IF new.at \in {"wait", "http", "create"}
              THEN Cardinality(Busy') = Cardinality(Busy) + (IF r \in Busy THEN 0 ELSE 1)
              ELSE Cardinality(Busy') = Cardinality(Busy) - (IF r \in Busy THEN 1 ELSE 0)
           /\ IF new.at = "checked"
              THEN Cardinality(Checked') = Cardinality(Checked) + (IF r \in Checked THEN 0 ELSE 1)
              ELSE Cardinality(Checked') = Cardinality(Checked) - (IF r \in Checked THEN 1 ELSE 0)
           /\ Cardinality(Busy) \in Nat /\ Cardinality(Checked) \in Nat
<1>1. /\ h'[r] = new /\ \A s \in Req \ {r} : h'[s] = h[s]
  BY DEF TypeOK
<1>2. /\ Busy' = IF new.at \in {"wait", "http", "create"} THEN Busy \cup {r} ELSE Busy \ {r}
      /\ Checked' = IF new.at = "checked" THEN Checked \cup {r} ELSE Checked \ {r}
  BY <1>1 DEF Busy, Checked
<1>3. ASSUME NEW S, IsFiniteSet(S), Cardinality(S) \in Nat
      PROVE  /\ Cardinality(S \cup {r}) = Cardinality(S) + (IF r \in S THEN 0 ELSE 1)
             /\ Cardinality(S \ {r}) = Cardinality(S) - (IF r \in S THEN 1 ELSE 0)
  <2>1. Cardinality(S \cup {r}) = IF r \in S THEN Cardinality(S) ELSE Cardinality(S) + 1
    BY <1>3, FS_AddElement
  <2>2. Cardinality(S \ {r}) = IF r \in S THEN Cardinality(S) - 1 ELSE Cardinality(S)
    BY <1>3, FS_RemoveElement
  <2> QED
    BY <1>3, <2>1, <2>2
<1>4. IsFiniteSet(Busy) /\ Cardinality(Busy) \in Nat
      /\ IsFiniteSet(Checked) /\ Cardinality(Checked) \in Nat
  BY CheckedCounts
<1>5. /\ Cardinality(Busy \cup {r}) = Cardinality(Busy) + (IF r \in Busy THEN 0 ELSE 1)
      /\ Cardinality(Busy \ {r}) = Cardinality(Busy) - (IF r \in Busy THEN 1 ELSE 0)
      /\ Cardinality(Checked \cup {r}) = Cardinality(Checked) + (IF r \in Checked THEN 0 ELSE 1)
      /\ Cardinality(Checked \ {r}) = Cardinality(Checked) - (IF r \in Checked THEN 1 ELSE 0)
  BY <1>3, <1>4
<1> QED
  BY <1>2, <1>4, <1>5

LEMMA HandlerKeepsRoom ==
    ASSUME TypeOK, RoomOK, RequestsOK, CommandsOK, NEW r \in Req, HandlerStep(r)
    PROVE  RoomOK'
<1> USE DEF store, server, world
<1>0. MaxAsk \in Nat /\ asked \in Nat /\ Len(tasks) \in Nat /\ tasks \in Seq(Task)
  BY OtaParts DEF TypeOK
<1>g. /\ r \in Busy <=> h[r].at \in {"wait", "http", "create"}
      /\ r \in Checked <=> h[r].at = "checked"
  BY DEF Busy, Checked
<1>1. CASE Dispatch(r)
  <2>1. UNCHANGED tasks
    BY <1>1 DEF Dispatch
  <2> QED
    BY <1>0, <1>1, <1>g, <2>1, DispatchDoes, GroupsMove DEF RoomOK
<1>2. CASE TimesOut(r)
  <2>1. UNCHANGED <<tasks, asked>>
    BY <1>2 DEF TimesOut
  <2> QED
    BY <1>0, <1>2, <1>g, <2>1, TimesOutDoes, GroupsMove DEF RoomOK
<1>3. CASE PostByHttp(r)
  <2>1. UNCHANGED <<tasks, asked>>
    BY <1>3 DEF PostByHttp
  <2> QED
    BY <1>0, <1>3, <1>g, <2>1, PostDoes, GroupsMove DEF RoomOK
<1>4. CASE CreateTask(r)
  <2>1. h[r].at = "create" /\ h' = [h EXCEPT ![r] = Idle] /\ UNCHANGED asked
    BY <1>4 DEF CreateTask
  <2>2. Len(tasks') = Len(tasks) + 1
    BY <1>0, <1>4, CreateAdds
  <2>3. Cardinality(Busy') = Cardinality(Busy) - 1 /\ Cardinality(Checked') = Cardinality(Checked)
        /\ Cardinality(Busy) \in Nat
    <3>1. PICK new \in Handler : h' = [h EXCEPT ![r] = new] /\ new.at = "idle"
      BY <2>1, OtaParts
    <3>2. r \in Busy /\ r \notin Checked
      BY <1>g, <2>1
    <3>3. /\ Cardinality(Busy') = Cardinality(Busy) - (IF r \in Busy THEN 1 ELSE 0)
          /\ Cardinality(Checked') = Cardinality(Checked) - (IF r \in Checked THEN 1 ELSE 0)
          /\ Cardinality(Busy) \in Nat /\ Cardinality(Checked) \in Nat
      <4>1. new.at \notin {"wait", "http", "create"} /\ new.at # "checked"
        BY <3>1
      <4> QED
        BY <3>1, <4>1, GroupsMove
    <3> QED
      BY <3>2, <3>3
  <2> QED
    BY <1>0, <2>1, <2>2, <2>3 DEF RoomOK
<1> QED
  BY <1>1, <1>2, <1>3, <1>4 DEF HandlerStep

LEMMA StepKeepsRoom ==
    ASSUME TypeOK, RoomOK, RequestsOK, CommandsOK, ReconcilerOK, Next
    PROVE  RoomOK'
<1> USE DEF store, server, world
<1>0. MaxAsk \in Nat /\ asked \in Nat /\ Len(tasks) \in Nat /\ tasks \in Seq(Task)
      /\ Cardinality(Busy) \in Nat /\ Cardinality(Checked) \in Nat
  BY OtaParts, CheckedCounts DEF TypeOK
<1>1. ASSUME NEW r \in Req, HandlerStep(r)
      PROVE  RoomOK'
  BY <1>1, HandlerKeepsRoom
<1>2. ASSUME NEW r \in Req, NEW n \in Nodes, NEW target \in Targets, StartUpgrade(r, n, target)
      PROVE  RoomOK'
  <2>1. UNCHANGED <<tasks, asked>>
    BY <1>2 DEF StartUpgrade
  <2>2. r \notin Busy /\ r \notin Checked
    BY <1>2, StartDoes DEF Busy, Checked
  <2> QED
    BY <1>0, <1>2, <2>1, <2>2, StartDoes, GroupsMove DEF RoomOK
<1>3. ASSUME ~ \E r \in Req : HandlerStep(r)
      PROVE  asked' = asked /\ Len(tasks') = Len(tasks)
  BY <1>3, WorldSteps, StepKeepsTasks DEF HandlerStep, TasksKept
<1>4. ASSUME NEW c \in Conns, DeliverResult(c)
      PROVE  Busy' = Busy /\ Checked' = Checked
  BY <1>4, DeliverDoes DEF Busy, Checked
<1>5. CASE UNCHANGED h
  <2>1. Busy' = Busy /\ Checked' = Checked
    BY <1>5 DEF Busy, Checked
  <2> QED
    BY <1>1, <1>3, <2>1 DEF RoomOK
<1>6. CASE Restart
  <2>1. Busy' = {} /\ Checked' = {} /\ UNCHANGED <<tasks, asked>>
    BY <1>6, OtaParts DEF Restart, Busy, Checked
  <2> QED
    BY <1>0, <2>1, FS_EmptySet DEF RoomOK
<1> QED
  BY <1>1, <1>2, <1>3, <1>4, <1>5, <1>6, ServerSteps DEF RoomOK

-----------------------------------------------------------------------------
(* Commands and the nodes that hear of them. *)

\* A node says something of a command it has heard of, or starts again.
LEMMA NodeDoes ==
    ASSUME TypeOK, CommandsOK, NEW q \in Commands, NodeAccepts(q) \/ NodeFails(q) \/ NodeUpgrades(q)
    PROVE  /\ UNCHANGED <<h, asked, tasks, rec, viaHttp>>
           /\ cmd[q].at # "none"
           /\ \E k \in Command : /\ cmd' = [cmd EXCEPT ![q] = k]
                                 /\ Same(k, cmd[q]) /\ k.at # "none"
           /\ \/ UNCHANGED loop
              \/ \E c \in Conns : \E new \in Loop :
                    /\ loop[c].at = "reading" /\ loop' = [loop EXCEPT ![c] = new]
                    /\ new.at = "deliver" /\ new.q = q /\ new.n = loop[c].n
<1> USE DEF store, server, world
<1>1. UNCHANGED <<h, asked, tasks, rec, viaHttp>> /\ cmd[q].at # "none"
  BY DEF NodeAccepts, NodeFails, NodeUpgrades, NodeSays
<1>2. PICK a \in {"accepted", "failed", "done"} : cmd' = [cmd EXCEPT ![q].at = a]
  BY DEF NodeAccepts, NodeFails, NodeUpgrades, NodeSays
<1> DEFINE k == [cmd[q] EXCEPT !.at = a]
<1>3. k \in Command /\ Same(k, cmd[q]) /\ k.at # "none"
  <2>1. cmd[q] \in Command
    BY DEF TypeOK
  <2> QED
    BY <2>1 DEF Command, Same
<1>4. cmd' = [cmd EXCEPT ![q] = k]
  BY <1>2 DEF TypeOK
<1> HIDE DEF k
<1>5. ASSUME NEW a1 \in {"accepted", "failed"}, NEW b \in BOOLEAN, NodeSays(q, a1, b)
      PROVE  \/ UNCHANGED loop
             \/ \E c \in Conns : \E new \in Loop :
                    /\ loop[c].at = "reading" /\ loop' = [loop EXCEPT ![c] = new]
                    /\ new.at = "deliver" /\ new.q = q /\ new.n = loop[c].n
  <2>1. cmd[q].n \in Nodes
    BY <1>1 DEF CommandsOK
  <2>2. PICK c \in Conns \cup {None} : c = link[cmd[q].n]
    BY <2>1 DEF TypeOK
  <2>3. CASE c = None
    BY <1>5, <2>2, <2>3 DEF NodeSays
  <2>4. CASE c # None
    <3>1. /\ loop[c].at = "reading" /\ c \in Conns /\ loop[c] \in Loop
          /\ loop' = [loop EXCEPT ![c].at = "deliver", ![c].q = q, ![c].ok = b]
      BY <1>5, <2>2, <2>4 DEF NodeSays, TypeOK
    <3> DEFINE new == [loop[c] EXCEPT !.at = "deliver", !.q = q, !.ok = b]
    <3>2. q \in 0..MaxAsk
      BY OtaParts DEF Commands
    <3>3. new \in Loop /\ new.at = "deliver" /\ new.q = q /\ new.n = loop[c].n
      BY <3>1, <3>2 DEF Loop
    <3>4. loop' = [loop EXCEPT ![c] = new]
      BY <3>1 DEF TypeOK
    <3> HIDE DEF new
    <3> QED
      BY <3>1, <3>3, <3>4
  <2> QED
    BY <2>3, <2>4
<1>6. NodeUpgrades(q) => UNCHANGED loop
  BY DEF NodeUpgrades
<1> QED
  BY <1>1, <1>3, <1>4, <1>5, <1>6 DEF NodeAccepts, NodeFails

\* What a node has heard of stays the same, and its number was sent.
CommandsKept ==
    \A q \in Commands : cmd[q].at # "none" => cmd'[q].at # "none" /\ Same(cmd'[q], cmd[q])

LEMMA StepKeepsCommands ==
    ASSUME TypeOK, RoomOK, RequestsOK, CommandsOK, Next
    PROVE  /\ cmd' \in [Commands -> Command] /\ CommandsKept
           /\ asked <= asked' /\ asked' \in 0..MaxAsk
           /\ \A q \in Commands : cmd'[q].at # "none" => cmd'[q].n \in Nodes /\ q <= asked'
<1>0. asked \in 0..MaxAsk /\ MaxAsk \in Nat /\ cmd \in [Commands -> Command]
  BY OtaParts DEF TypeOK
<1>1. ASSUME NEW r \in Req, Dispatch(r)
      PROVE  /\ cmd' \in [Commands -> Command] /\ CommandsKept
             /\ asked <= asked' /\ asked' \in 0..MaxAsk
             /\ \A q \in Commands : cmd'[q].at # "none" => cmd'[q].n \in Nodes /\ q <= asked'
  <2>1. /\ h[r].at = "checked" /\ asked' = asked + 1 /\ asked + 1 \in Commands
        /\ cmd[asked + 1].at = "none"
    BY <1>1, DispatchDoes
  <2>2. h[r].n \in Nodes /\ asked + 1 \in 0..MaxAsk /\ asked <= asked + 1
    BY <1>0, <2>1 DEF RequestsOK, Commands
  <2>3. CASE UNCHANGED cmd
    BY <1>0, <2>1, <2>2, <2>3 DEF CommandsKept, CommandsOK, Same, Commands
  <2>4. ASSUME NEW c \in Command, cmd' = [cmd EXCEPT ![asked + 1] = c], c.n = h[r].n
        PROVE  /\ cmd' \in [Commands -> Command] /\ CommandsKept
               /\ \A q \in Commands : cmd'[q].at # "none" => cmd'[q].n \in Nodes /\ q <= asked'
    BY <1>0, <2>1, <2>2, <2>4 DEF CommandsKept, CommandsOK, Same, Commands
  <2> QED
    BY <1>1, <2>1, <2>2, <2>3, <2>4, DispatchDoes DEF Same
<1>2. ASSUME NEW r \in Req, PostByHttp(r)
      PROVE  /\ cmd' \in [Commands -> Command] /\ CommandsKept
             /\ \A q \in Commands : cmd'[q].at # "none" => cmd'[q].n \in Nodes /\ q <= asked
  <2>1. h[r].at = "http" /\ h[r].n \in Nodes /\ h[r].q \in Commands /\ h[r].q <= asked
    <3>1. h[r].at = "http" /\ r \in Busy /\ h[r].q \in Commands
      BY <1>2, PostDoes DEF Busy
    <3> QED
      BY <1>0, <3>1 DEF RequestsOK
  <2>2. CASE UNCHANGED cmd
    BY <1>0, <2>2 DEF CommandsKept, CommandsOK, Same
  <2>3. ASSUME NEW c \in Command, cmd' = [cmd EXCEPT ![h[r].q] = c], c.at # "none",
               IF cmd[h[r].q].at = "none" THEN Same(c, h[r]) ELSE c = cmd[h[r].q]
        PROVE  /\ cmd' \in [Commands -> Command] /\ CommandsKept
               /\ \A q \in Commands : cmd'[q].at # "none" => cmd'[q].n \in Nodes /\ q <= asked
    <3>1. /\ cmd' \in [Commands -> Command] /\ cmd'[h[r].q] = c
          /\ \A q \in Commands \ {h[r].q} : cmd'[q] = cmd[q]
      BY <1>0, <2>1, <2>3
    <3>2. CommandsKept
      BY <2>1, <2>3, <3>1 DEF CommandsKept, Same
    <3>3. c.n \in Nodes
      BY <2>1, <2>3 DEF CommandsOK, Same
    <3> QED
      BY <2>1, <3>1, <3>2, <3>3 DEF CommandsOK
  <2> QED
    BY <1>2, <2>2, <2>3, PostDoes
<1>3. ASSUME NodeStep
      PROVE  /\ cmd' \in [Commands -> Command] /\ CommandsKept
             /\ \A q \in Commands : cmd'[q].at # "none" => cmd'[q].n \in Nodes /\ q <= asked
  <2>1. PICK q \in Commands : NodeAccepts(q) \/ NodeFails(q) \/ NodeUpgrades(q)
    BY <1>3 DEF NodeStep
  <2>2. PICK k \in Command : /\ cmd' = [cmd EXCEPT ![q] = k]
                             /\ Same(k, cmd[q]) /\ k.at # "none" /\ cmd[q].at # "none"
    BY <2>1, NodeDoes
  <2>3. /\ cmd' \in [Commands -> Command] /\ cmd'[q] = k
        /\ \A p \in Commands \ {q} : cmd'[p] = cmd[p]
    BY <1>0, <2>2
  <2> QED
    BY <2>2, <2>3 DEF CommandsKept, CommandsOK, Same
<1>4. ASSUME UNCHANGED cmd
      PROVE  /\ cmd' \in [Commands -> Command] /\ CommandsKept
             /\ \A q \in Commands : cmd'[q].at # "none" => cmd'[q].n \in Nodes /\ q <= asked
  BY <1>0, <1>4 DEF CommandsKept, CommandsOK, Same
<1>5. CASE ~ \E r \in Req : Dispatch(r)
  <2>1. UNCHANGED asked /\ (UNCHANGED cmd \/ (\E r \in Req : PostByHttp(r)) \/ NodeStep)
    BY <1>5, WorldSteps
  <2> QED
    BY <1>0, <1>2, <1>3, <1>4, <2>1
<1> QED
  BY <1>1, <1>5


\* Only requests and nodes that have heard of a command go on with it.
LEMMA CommandsRest ==
    ASSUME TypeOK, CommandsOK, Next, ~ \E r \in Req : HandlerStep(r)
    PROVE  /\ UNCHANGED asked
           /\ \A q \in Commands : /\ Same(cmd'[q], cmd[q])
                                  /\ cmd'[q].at = "none" <=> cmd[q].at = "none"
<1>1. UNCHANGED asked /\ (UNCHANGED cmd \/ NodeStep)
  BY WorldSteps DEF HandlerStep
<1>2. CASE UNCHANGED cmd
  BY <1>1, <1>2 DEF Same
<1>3. CASE NodeStep
  <2>1. PICK q \in Commands : NodeAccepts(q) \/ NodeFails(q) \/ NodeUpgrades(q)
    BY <1>3 DEF NodeStep
  <2>2. PICK k \in Command : /\ cmd' = [cmd EXCEPT ![q] = k]
                             /\ Same(k, cmd[q]) /\ k.at # "none" /\ cmd[q].at # "none"
    BY <2>1, NodeDoes
  <2>3. cmd'[q] = k /\ \A p \in Commands \ {q} : cmd'[p] = cmd[p]
    BY <2>2 DEF TypeOK
  <2> QED
    BY <1>1, <2>2, <2>3 DEF Same
<1> QED
  BY <1>1, <1>2, <1>3

LEMMA DispatchKeepsRequests ==
    ASSUME TypeOK, RoomOK, RequestsOK, CommandsOK, NEW r \in Req, Dispatch(r)
    PROVE  RequestsOK'
<1>1. /\ h[r].at = "checked" /\ asked' = asked + 1 /\ asked + 1 \in Commands
      /\ cmd[asked + 1].at = "none"
  BY DispatchDoes
<1>2. PICK new \in Handler :
          /\ h' = [h EXCEPT ![r] = new]
          /\ new.at \in {"wait", "http"} /\ new.n = h[r].n /\ new.q = asked + 1
          /\ \/ UNCHANGED cmd
             \/ \E c \in Command : /\ cmd' = [cmd EXCEPT ![asked + 1] = c]
                                   /\ c.at = "sent" /\ Same(c, new)
  BY DispatchDoes
<1>3. h'[r] = new /\ \A s \in Req \ {r} : h'[s] = h[s]
  BY <1>2 DEF TypeOK
<1>4. asked \in Nat /\ asked' \in Nat /\ Commands \in SUBSET Nat
  BY <1>1 DEF TypeOK, Commands
<1>5. \A q \in Commands : q # asked + 1 => cmd'[q] = cmd[q]
  BY <1>1, <1>2 DEF TypeOK
<1>6. cmd'[asked + 1].at # "none" => Same(cmd'[asked + 1], new)
  BY <1>1, <1>2 DEF TypeOK
<1>7. \A s \in Busy' : s = r \/ s \in Busy
  BY <1>3 DEF Busy
<1>8. \A s \in Busy : s # r /\ h[s].q \in 1..asked /\ h[s].q # asked + 1 /\ h[s].q \in Commands
  <2>1. \A s \in Busy : s # r /\ h[s].q \in 1..asked
    BY <1>1 DEF Busy, RequestsOK
  <2> QED
    BY <1>1, <1>4, <2>1, OtaParts DEF Commands
<1>9. \A s \in Req : h'[s].at # "idle" => h'[s].n \in Nodes
  BY <1>1, <1>2, <1>3 DEF RequestsOK
<1>10. \A s \in Busy' : h'[s].q \in 1..asked'
  BY <1>1, <1>2, <1>3, <1>4, <1>7, <1>8 DEF Busy
<1>11. \A s, p \in Busy' : h'[s].q = h'[p].q => s = p
  BY <1>2, <1>3, <1>7, <1>8 DEF RequestsOK, Busy
<1>12. \A s \in Busy' : cmd'[h'[s].q].at # "none" => Same(cmd'[h'[s].q], h'[s])
  BY <1>2, <1>3, <1>5, <1>6, <1>7, <1>8 DEF RequestsOK, Busy
<1>13. \A s \in Busy' : h'[s].at = "create" /\ h'[s].ok => cmd'[h'[s].q].at # "none"
  BY <1>2, <1>3, <1>5, <1>7, <1>8 DEF RequestsOK, Busy
<1> QED
  BY <1>9, <1>10, <1>11, <1>12, <1>13 DEF RequestsOK

\* A request goes on with its command, the other requests' are left alone.
LEMMA SameRequest ==
    ASSUME TypeOK, RequestsOK, NEW r \in Busy, NEW new \in Handler, h' = [h EXCEPT ![r] = new],
           Same(new, h[r]), new.q = h[r].q, UNCHANGED asked,
           \A q \in Commands : q # h[r].q => cmd'[q] = cmd[q],
           cmd'[h[r].q].at # "none" => Same(cmd'[h[r].q], h[r]),
           new.at = "create" /\ new.ok => cmd'[h[r].q].at # "none"
    PROVE  RequestsOK'
<1>0. r \in Req /\ h[r].at # "idle"
  BY DEF Busy
<1>1. h'[r] = new /\ \A s \in Req \ {r} : h'[s] = h[s]
  BY <1>0 DEF TypeOK
<1>2. \A s \in Busy' : s = r \/ s \in Busy
  BY <1>1 DEF Busy
<1>3. \A s \in Busy : h[s].q \in Commands
  BY OtaParts DEF RequestsOK, TypeOK, Commands
<1>4. \A s \in Busy \ {r} : h[s].q # h[r].q
  BY DEF RequestsOK
<1>5. \A s \in Req : h'[s].at # "idle" => h'[s].n \in Nodes
  BY <1>0, <1>1 DEF RequestsOK, Same
<1>6. \A s \in Busy' : h'[s].q \in 1..asked'
  BY <1>1, <1>2 DEF RequestsOK, Busy
<1>7. \A s, p \in Busy' : h'[s].q = h'[p].q => s = p
  BY <1>1, <1>2, <1>4 DEF RequestsOK, Busy
<1>8. \A s \in Busy' : cmd'[h'[s].q].at # "none" => Same(cmd'[h'[s].q], h'[s])
  BY <1>1, <1>2, <1>3, <1>4 DEF RequestsOK, Busy, Same
<1>9. \A s \in Busy' : h'[s].at = "create" /\ h'[s].ok => cmd'[h'[s].q].at # "none"
  BY <1>1, <1>2, <1>3, <1>4 DEF RequestsOK, Busy
<1> QED
  BY <1>5, <1>6, <1>7, <1>8, <1>9 DEF RequestsOK

\* A request is over, or has not sent a command yet.
LEMMA NoBusyRequest ==
    ASSUME TypeOK, RequestsOK, NEW r \in Req, NEW new \in Handler, h' = [h EXCEPT ![r] = new],
           new.at \in {"idle", "checked"}, new.at = "checked" => new.n \in Nodes,
           UNCHANGED <<asked, cmd>>
    PROVE  RequestsOK'
<1>1. h'[r] = new /\ \A s \in Req \ {r} : h'[s] = h[s]
  BY DEF TypeOK
<1>2. \A s \in Busy' : s # r /\ s \in Busy
  BY <1>1 DEF Busy
<1> QED
  BY <1>1, <1>2 DEF RequestsOK, Busy

LEMMA HandlerKeepsRequests ==
    ASSUME TypeOK, RoomOK, RequestsOK, CommandsOK, NEW r \in Req, HandlerStep(r)
    PROVE  RequestsOK'
<1> USE DEF store, server, world
<1>1. CASE Dispatch(r)
  BY <1>1, DispatchKeepsRequests
<1>2. CASE TimesOut(r)
  <2>1. UNCHANGED <<asked, cmd>>
    BY <1>2 DEF TimesOut
  <2>2. r \in Busy
    BY <1>2, TimesOutDoes DEF Busy
  <2>3. cmd[h[r].q].at # "none" => Same(cmd[h[r].q], h[r])
    BY <2>2 DEF RequestsOK
  <2> QED
    BY <1>2, <2>1, <2>2, <2>3, TimesOutDoes, SameRequest
<1>3. CASE PostByHttp(r)
  <2>1. UNCHANGED asked /\ r \in Busy /\ h[r].q \in Commands
    BY <1>3, PostDoes DEF PostByHttp, Busy
  <2>2. cmd[h[r].q].at # "none" => Same(cmd[h[r].q], h[r])
    BY <2>1 DEF RequestsOK
  <2>3. PICK new \in Handler :
           /\ h' = [h EXCEPT ![r] = new] /\ new.at = "create"
           /\ Same(new, h[r]) /\ new.q = h[r].q
           /\ \/ UNCHANGED cmd /\ ~ new.ok
              \/ \E c \in Command :
                    /\ cmd' = [cmd EXCEPT ![h[r].q] = c] /\ c.at # "none"
                    /\ IF cmd[h[r].q].at = "none" THEN Same(c, h[r]) ELSE c = cmd[h[r].q]
    BY <1>3, PostDoes
  <2>4. /\ \A q \in Commands : q # h[r].q => cmd'[q] = cmd[q]
        /\ cmd'[h[r].q].at # "none" => Same(cmd'[h[r].q], h[r])
        /\ new.ok => cmd'[h[r].q].at # "none"
    <3>1. CASE UNCHANGED cmd /\ ~ new.ok
      BY <2>2, <3>1
    <3>2. ASSUME NEW c \in Command, cmd' = [cmd EXCEPT ![h[r].q] = c], c.at # "none",
                 IF cmd[h[r].q].at = "none" THEN Same(c, h[r]) ELSE c = cmd[h[r].q]
          PROVE  /\ \A q \in Commands : q # h[r].q => cmd'[q] = cmd[q]
                 /\ cmd'[h[r].q].at # "none" /\ Same(cmd'[h[r].q], h[r])
      BY <2>1, <2>2, <3>2 DEF TypeOK
    <3> QED
      BY <2>3, <3>1, <3>2
  <2> QED
    BY <2>1, <2>3, <2>4, SameRequest
<1>4. CASE CreateTask(r)
  <2>1. h' = [h EXCEPT ![r] = Idle] /\ UNCHANGED <<asked, cmd>>
    BY <1>4 DEF CreateTask
  <2> QED
    BY <2>1, NoBusyRequest, OtaParts
<1> QED
  BY <1>1, <1>2, <1>3, <1>4 DEF HandlerStep

LEMMA StepKeepsRequests ==
    ASSUME TypeOK, RoomOK, RequestsOK, CommandsOK, Next
    PROVE  RequestsOK'
<1> USE DEF store, server, world
<1>1. CASE \E r \in Req : HandlerStep(r)
  BY <1>1, HandlerKeepsRequests
<1>2. CASE ~ \E r \in Req : HandlerStep(r)
  <2>1. /\ UNCHANGED asked
        /\ \A q \in Commands : /\ Same(cmd'[q], cmd[q])
                               /\ cmd'[q].at = "none" <=> cmd[q].at = "none"
    BY <1>2, CommandsRest
  <2>2. \A s \in Busy : h[s].q \in Commands
    BY OtaParts DEF RequestsOK, TypeOK, Commands
  <2>3. CASE UNCHANGED h
    <3>1. Busy' = Busy
      BY <2>3 DEF Busy
    <3> QED
      BY <2>1, <2>2, <2>3, <3>1 DEF RequestsOK, Same
  <2>4. ASSUME NEW r \in Req, NEW n \in Nodes, NEW target \in Targets, StartUpgrade(r, n, target)
        PROVE  RequestsOK'
    <3>1. UNCHANGED <<asked, cmd>>
      BY <2>4 DEF StartUpgrade
    <3> QED
      BY <2>4, <3>1, StartDoes, NoBusyRequest
  <2>5. ASSUME NEW c \in Conns, DeliverResult(c)
        PROVE  RequestsOK'
    <3>1. UNCHANGED <<asked, cmd>> /\ loop[c].at = "deliver"
      BY <2>5 DEF DeliverResult
    <3>2. /\ \A r \in Req : \/ h'[r] = h[r]
                            \/ /\ h[r].at = "wait" /\ h[r].q = loop[c].q
                               /\ h'[r].at = "create" /\ Same(h'[r], h[r]) /\ h'[r].q = h[r].q
          /\ cmd[loop[c].q].at # "none"
      BY <2>5, <3>1, DeliverDoes DEF CommandsOK
    <3>3. Busy' = Busy
      BY <3>2 DEF Busy
    <3>4. /\ \A r \in Req : h'[r].at # "idle" => h'[r].n \in Nodes
          /\ \A r \in Busy : h'[r].q = h[r].q /\ Same(h'[r], h[r])
      BY <3>2 DEF RequestsOK, Same, Busy
    <3>5. \A r \in Busy : h'[r].at = "create" /\ h'[r].ok => cmd[h[r].q].at # "none"
      BY <3>2 DEF RequestsOK, Busy
    <3> QED
      BY <3>1, <3>3, <3>4, <3>5 DEF RequestsOK, Same
  <2>6. CASE Restart
    <3>1. \A r \in Req : h'[r].at = "idle"
      BY <2>6, OtaParts DEF Restart
    <3> QED
      BY <3>1 DEF RequestsOK, Busy
  <2> QED
    BY <1>2, <2>3, <2>4, <2>5, <2>6, ServerSteps
<1> QED
  BY <1>1, <1>2


LEMMA SameHit == \A a, b, v : Same(a, b) => (Hit(a, v) <=> Hit(b, v))
BY DEF Same, Hit

LEMMA StepKeepsHeard ==
    ASSUME TypeOK, RoomOK, RequestsOK, CommandsOK, HeardOK, ReconcilerOK, Next
    PROVE  HeardOK'
<1>1. CommandsKept /\ tasks \in Seq(Task) /\ \A i \in 1..Len(tasks) : tasks[i].q \in Commands
  <2>1. tasks \in Seq(Task)
    BY DEF TypeOK
  <2>2. \A i \in 1..Len(tasks) : tasks[i] \in Task
    BY <2>1
  <2>3. \A t \in Task : t.q \in Commands
    BY DEF Task
  <2> QED
    BY <2>1, <2>2, <2>3, StepKeepsCommands
<1>2. CASE TasksKept
  BY <1>1, <1>2 DEF TasksKept, CommandsKept, HeardOK, Same
<1>3. ASSUME NEW r \in Req, CreateTask(r)
      PROVE  HeardOK'
  <2>1. PICK t \in Task : /\ tasks' = Append(tasks, t) /\ Same(t, h[r]) /\ t.q = h[r].q
                          /\ t.status = IF h[r].ok THEN "dispatched" ELSE "failed"
    BY <1>3, CreateAdds
  <2>2. UNCHANGED cmd /\ h[r].at = "create" /\ r \in Busy
    BY <1>3 DEF CreateTask, world, Busy
  <2>3. t.status # "failed" => cmd[t.q].at # "none" /\ Same(cmd[t.q], t)
    BY <2>1, <2>2 DEF RequestsOK, Same
  <2>4. \A i \in DOMAIN tasks' : (i \in DOMAIN tasks /\ tasks'[i] = tasks[i]) \/ tasks'[i] = t
    BY <1>1, <2>1
  <2> QED
    BY <2>2, <2>3, <2>4 DEF HeardOK
<1> QED
  BY <1>2, <1>3, StepKeepsTasks

LEMMA StepKeepsProved ==
    ASSUME TypeOK, RoomOK, RequestsOK, CommandsOK, ProvedOK, Next
    PROVE  ProvedOK'
<1> USE DEF store, server, world
<1>1. ASSUME NEW r \in Req, UNCHANGED runs, proved' = proved \cup LivedUpTo(cmd', h[r].n, runs[h[r].n]),
             \A q \in Commands : cmd'[q] = cmd[q] \/ cmd'[q].n = h[r].n
      PROVE  ProvedOK'
  BY <1>1 DEF ProvedOK, LivedUpTo
<1>2. ASSUME NEW r \in Req, Dispatch(r)
      PROVE  ProvedOK'
  <2>1. \A q \in Commands : cmd'[q] = cmd[q] \/ cmd'[q].n = h[r].n
    BY <1>2, DispatchDoes DEF TypeOK, Same
  <2> QED
    BY <1>1, <1>2, <2>1 DEF Dispatch
<1>3. ASSUME NEW r \in Req, PostByHttp(r)
      PROVE  ProvedOK'
  <2>1. \A q \in Commands : cmd'[q] = cmd[q] \/ cmd'[q].n = h[r].n
    BY <1>3, PostDoes DEF TypeOK, Same
  <2> QED
    BY <1>1, <1>3, <2>1 DEF PostByHttp
<1>4. ASSUME NEW q \in Commands, NodeAccepts(q) \/ NodeFails(q)
      PROVE  ProvedOK'
  <2>1. UNCHANGED <<runs, proved>>
    BY <1>4 DEF NodeAccepts, NodeFails, NodeSays
  <2>2. \A p \in Commands : Same(cmd'[p], cmd[p]) /\ (cmd'[p].at # "none" => cmd[p].at # "none")
    BY <1>4, NodeDoes DEF TypeOK, Same
  <2>3. \A p \in Commands : /\ cmd'[p].n = cmd[p].n
                            /\ Hit(cmd'[p], runs[cmd[p].n]) => Hit(cmd[p], runs[cmd[p].n])
    BY <2>2, SameHit DEF Same
  <2> QED
    BY <2>1, <2>2, <2>3 DEF ProvedOK
<1>5. ASSUME NEW n \in Nodes, NEW v, runs' = [runs EXCEPT ![n] = v],
             proved' = proved \cup LivedUpTo(cmd, n, v),
             \A p \in Commands : Same(cmd'[p], cmd[p]) /\ (cmd'[p].at # "none" => cmd[p].at # "none")
      PROVE  ProvedOK'
  <2>1. ASSUME NEW p \in Commands, cmd'[p].at # "none", Hit(cmd'[p], runs'[cmd'[p].n])
        PROVE  p \in proved'
    <3>1. cmd[p].at # "none" /\ cmd'[p].n = cmd[p].n /\ Hit(cmd[p], runs'[cmd[p].n])
      BY <1>5, <2>1, SameHit DEF Same
    <3>2. CASE cmd[p].n = n
      BY <1>5, <3>1, <3>2 DEF TypeOK, LivedUpTo
    <3>3. CASE cmd[p].n # n
      <4>1. cmd[p].n \in Nodes
        BY <3>1 DEF CommandsOK
      <4>2. runs'[cmd[p].n] = runs[cmd[p].n]
        BY <1>5, <3>3, <4>1 DEF TypeOK
      <4> QED
        BY <1>5, <3>1, <4>2 DEF ProvedOK
    <3> QED
      BY <3>2, <3>3
  <2> QED
    BY <2>1 DEF ProvedOK
<1>6. ASSUME NEW q \in Commands, NodeUpgrades(q)
      PROVE  ProvedOK'
  <2>1. \A p \in Commands : Same(cmd'[p], cmd[p]) /\ (cmd'[p].at # "none" => cmd[p].at # "none")
    BY <1>6, NodeDoes DEF TypeOK, Same
  <2>2. cmd[q].n \in Nodes
    BY <1>6 DEF NodeUpgrades, CommandsOK
  <2>3. \E v : runs' = [runs EXCEPT ![cmd[q].n] = v]
               /\ proved' = proved \cup LivedUpTo(cmd, cmd[q].n, v)
    BY <1>6 DEF NodeUpgrades
  <2> QED
    BY <1>5, <2>1, <2>2, <2>3
<1>7. ASSUME NEW n \in Nodes, NEW v \in Versions, NodeRestarts(n, v)
      PROVE  ProvedOK'
  <2>1. UNCHANGED cmd
    BY <1>7 DEF NodeRestarts
  <2> QED
    BY <1>5, <1>7, <2>1 DEF NodeRestarts, Same
<1>8. CASE UNCHANGED <<cmd, runs>>
  BY <1>8, HistoryGrows DEF ProvedOK
<1> QED
  BY <1>2, <1>3, <1>4, <1>6, <1>7, <1>8, WorldSteps DEF NodeStep

-----------------------------------------------------------------------------
(* Read loops. *)

LEMMA LatestTask ==
    ASSUME TypeOK, NEW n, InFlightOf(n) # {}
    PROVE  LET last == CHOOSE i \in InFlightOf(n) : \A j \in InFlightOf(n) : j <= i
           IN  last \in InFlightOf(n) /\ last \in 1..Len(tasks) /\ last \in 0..MaxAsk
<1>1. Len(tasks) \in Nat /\ InFlightOf(n) \in SUBSET (1..Len(tasks)) /\ Len(tasks) <= MaxAsk
  BY OtaParts DEF TypeOK, InFlightOf
<1>2. \E i \in InFlightOf(n) : \A j \in InFlightOf(n) : j <= i
  BY <1>1, LastOf
<1>3. PICK last : last = CHOOSE i \in InFlightOf(n) : \A j \in InFlightOf(n) : j <= i
  OBVIOUS
<1>4. last \in InFlightOf(n)
  BY <1>2, <1>3
<1>5. last \in 1..Len(tasks) /\ last \in 0..MaxAsk
  BY <1>1, <1>4, OtaParts
<1> QED
  BY <1>3, <1>4, <1>5

\* What a step of a read loop makes of it.
LEMMA LoopDoes ==
    ASSUME TypeOK, NEW c \in Conns, LoopStep(c)
    PROVE  \E new \in Loop :
              /\ loop' = [loop EXCEPT ![c] = new]
              /\ new.at = "free" \/ (loop[c].at # "free" /\ new.n = loop[c].n)
              /\ new.at # "deliver"
              /\ new.at = "finish" => new.q \in 1..Len(tasks) /\ tasks[new.q].n = new.n
<1> USE DEF store, server, world
<1>0. loop[c] \in Loop /\ loop \in [Conns -> Loop] /\ 0 \in Known /\ 0 \in 0..MaxAsk
  BY OtaParts DEF TypeOK
<1>1. CASE StoreVersion(c)
  <2> DEFINE new == [loop[c] EXCEPT !.at = "find"]
  <2>1. new \in Loop /\ new.at = "find" /\ new.n = loop[c].n
    BY <1>0 DEF Loop
  <2>2. loop' = [loop EXCEPT ![c] = new] /\ loop[c].at = "write"
    BY <1>0, <1>1 DEF StoreVersion
  <2> HIDE DEF new
  <2> QED
    BY <2>1, <2>2
<1>2. CASE FindTask(c)
  <2>1. PICK last : last = CHOOSE i \in InFlightOf(loop[c].n) : \A j \in InFlightOf(loop[c].n) : j <= i
    OBVIOUS
  <2>2. CASE InFlightOf(loop[c].n) # {} /\ Hit(tasks[last], loop[c].v)
    <3> DEFINE new == [loop[c] EXCEPT !.at = "finish", !.q = last, !.v = 0]
    <3>1. last \in InFlightOf(loop[c].n) /\ last \in 1..Len(tasks) /\ last \in 0..MaxAsk
      BY <2>1, <2>2, LatestTask
    <3>2. new \in Loop /\ new.at = "finish" /\ new.n = loop[c].n /\ new.q = last
      BY <1>0, <3>1 DEF Loop
    <3>3. tasks[last].n = loop[c].n
      BY <3>1 DEF InFlightOf
    <3>4. loop' = [loop EXCEPT ![c] = new] /\ loop[c].at = "find"
      BY <1>0, <1>2, <2>1, <2>2 DEF FindTask
    <3> HIDE DEF new
    <3> QED
      BY <3>1, <3>2, <3>3, <3>4
  <2>3. CASE ~(InFlightOf(loop[c].n) # {} /\ Hit(tasks[last], loop[c].v))
    <3> DEFINE new == [loop[c] EXCEPT !.at = "reading", !.v = 0]
    <3>1. new \in Loop /\ new.at = "reading" /\ new.n = loop[c].n
      BY <1>0 DEF Loop
    <3>2. loop' = [loop EXCEPT ![c] = new] /\ loop[c].at = "find"
      BY <1>0, <1>2, <2>1, <2>3 DEF FindTask
    <3> HIDE DEF new
    <3> QED
      BY <3>1, <3>2
  <2> QED
    BY <2>2, <2>3
<1>3. CASE FinishTask(c)
  <2> DEFINE new == [loop[c] EXCEPT !.at = "reading", !.q = 0]
  <2>1. new \in Loop /\ new.at = "reading" /\ new.n = loop[c].n
    BY <1>0 DEF Loop
  <2>2. loop' = [loop EXCEPT ![c] = new] /\ loop[c].at = "finish"
    BY <1>0, <1>3 DEF FinishTask
  <2> HIDE DEF new
  <2> QED
    BY <2>1, <2>2
<1>4. CASE DeliverResult(c)
  <2> DEFINE new == [loop[c] EXCEPT !.at = "update"]
  <2>1. new \in Loop /\ new.at = "update" /\ new.n = loop[c].n
    BY <1>0 DEF Loop
  <2>2. loop' = [loop EXCEPT ![c] = new] /\ loop[c].at = "deliver"
    BY <1>0, <1>4 DEF DeliverResult
  <2> HIDE DEF new
  <2> QED
    BY <2>1, <2>2
<1>5. CASE OnNodeResult(c)
  <2> DEFINE new == [loop[c] EXCEPT !.at = "reading", !.q = 0, !.ok = FALSE]
  <2>1. new \in Loop /\ new.at = "reading" /\ new.n = loop[c].n
    BY <1>0 DEF Loop
  <2>2. loop' = [loop EXCEPT ![c] = new] /\ loop[c].at = "update"
    BY <1>0, <1>5 DEF OnNodeResult
  <2> HIDE DEF new
  <2> QED
    BY <2>1, <2>2
<1>6. CASE ConnEnds(c)
  BY <1>6, OtaParts DEF ConnEnds
<1> QED
  BY <1>1, <1>2, <1>3, <1>4, <1>5, <1>6 DEF LoopStep

LEMMA DialDoes ==
    ASSUME TypeOK, NEW c \in Conns, NEW n \in Nodes, Dial(c, n)
    PROVE  /\ n \notin viaHttp
           /\ \E new \in Loop : /\ loop' = [loop EXCEPT ![c] = new]
                                /\ new.at = "write" /\ new.n = n
<1> DEFINE new == [Free EXCEPT !.at = "write", !.n = n, !.v = runs[n]]
<1>1. new \in Loop /\ new.at = "write" /\ new.n = n
  BY OtaParts DEF Free, Loop, TypeOK
<1>2. loop' = [loop EXCEPT ![c] = new] /\ n \notin viaHttp
  BY DEF Dial
<1> HIDE DEF new
<1> QED
  BY <1>1, <1>2


LEMMA StepKeepsReaders ==
    ASSUME TypeOK, RequestsOK, CommandsOK, ReadersOK, ReconcilerOK, Next
    PROVE  ReadersOK'
<1> USE DEF store, server, world
<1>0. UNCHANGED viaHttp /\ tasks \in Seq(Task)
  BY WorldSteps DEF TypeOK
<1>1. \A i \in DOMAIN tasks : i \in DOMAIN tasks' /\ tasks'[i].n = tasks[i].n
  <2>1. CASE TasksKept
    BY <1>0, <2>1 DEF TasksKept, Same
  <2>2. ASSUME NEW r \in Req, CreateTask(r)
        PROVE  \A i \in DOMAIN tasks : i \in DOMAIN tasks' /\ tasks'[i].n = tasks[i].n
    <3>1. PICK t \in Task : tasks' = Append(tasks, t)
      BY <2>2, CreateAdds
    <3> QED
      BY <1>0, <3>1
  <2> QED
    BY <2>1, <2>2, StepKeepsTasks
<1>2. ASSUME NEW c \in Conns, NEW new, loop' = [loop EXCEPT ![c] = new],
             new.at # "free" => new.n \in Nodes \ viaHttp,
             new.at = "finish" => new.q \in DOMAIN tasks /\ tasks[new.q].n = new.n
      PROVE  ReadersOK'
  BY <1>0, <1>1, <1>2 DEF ReadersOK, TypeOK
<1>3. CASE UNCHANGED loop
  BY <1>0, <1>1, <1>3 DEF ReadersOK
<1>4. ASSUME NEW c \in Conns, LoopStep(c)
      PROVE  ReadersOK'
  <2>1. PICK new \in Loop :
              /\ loop' = [loop EXCEPT ![c] = new]
              /\ new.at = "free" \/ (loop[c].at # "free" /\ new.n = loop[c].n)
              /\ new.at = "finish" => new.q \in 1..Len(tasks) /\ tasks[new.q].n = new.n
    BY <1>4, LoopDoes
  <2>2. new.at # "free" => new.n \in Nodes \ viaHttp
    BY <2>1 DEF ReadersOK
  <2>3. new.at = "finish" => new.q \in DOMAIN tasks /\ tasks[new.q].n = new.n
    BY <1>0, <2>1
  <2> QED
    BY <1>2, <2>1, <2>2, <2>3
<1>5. ASSUME NEW c \in Conns, NEW n \in Nodes, Dial(c, n)
      PROVE  ReadersOK'
  <2>1. PICK new \in Loop : loop' = [loop EXCEPT ![c] = new] /\ new.at = "write" /\ new.n = n
    BY <1>5, DialDoes
  <2> QED
    BY <1>2, <1>5, <2>1, DialDoes
<1>6. CASE NodeStep
  <2>1. PICK q \in Commands : NodeAccepts(q) \/ NodeFails(q) \/ NodeUpgrades(q)
    BY <1>6 DEF NodeStep
  <2>2. ASSUME NEW c \in Conns, NEW new \in Loop, loop[c].at = "reading",
               loop' = [loop EXCEPT ![c] = new], new.at = "deliver", new.n = loop[c].n
        PROVE  ReadersOK'
    <3>1. new.n \in Nodes \ viaHttp
      BY <2>2 DEF ReadersOK
    <3> QED
      BY <1>2, <2>2, <3>1
  <2> QED
    BY <1>3, <2>1, <2>2, NodeDoes
<1>7. CASE Restart
  <2>1. \A c \in Conns : loop'[c].at = "free"
    BY <1>7, OtaParts DEF Restart
  <2> QED
    BY <2>1 DEF ReadersOK
<1> QED
  BY <1>3, <1>4, <1>5, <1>6, <1>7, ServerSteps

LEMMA StepKeepsDelivery ==
    ASSUME TypeOK, RoomOK, RequestsOK, CommandsOK, Next
    PROVE  CommandsOK'
<1> USE DEF store, server, world
<1>0. /\ CommandsKept
      /\ \A q \in Commands : cmd'[q].at # "none" => cmd'[q].n \in Nodes /\ q <= asked'
  BY StepKeepsCommands
<1>1. ASSUME NEW c \in Conns, NEW new, loop' = [loop EXCEPT ![c] = new],
             new.at = "deliver" => new.q \in Commands /\ cmd[new.q].at # "none"
      PROVE  CommandsOK'
  BY <1>0, <1>1 DEF CommandsOK, TypeOK, CommandsKept
<1>2. CASE UNCHANGED loop
  BY <1>0, <1>2 DEF CommandsOK, CommandsKept
<1>3. ASSUME NEW c \in Conns, LoopStep(c) \/ \E n \in Nodes : Dial(c, n)
      PROVE  CommandsOK'
  <2>1. \E new \in Loop : loop' = [loop EXCEPT ![c] = new] /\ new.at # "deliver"
    BY <1>3, LoopDoes, DialDoes
  <2> QED
    BY <1>1, <2>1
<1>4. CASE NodeStep
  <2>1. PICK q \in Commands : NodeAccepts(q) \/ NodeFails(q) \/ NodeUpgrades(q)
    BY <1>4 DEF NodeStep
  <2>2. cmd[q].at # "none" /\ \/ UNCHANGED loop
                              \/ \E c \in Conns : \E new \in Loop :
                                     loop' = [loop EXCEPT ![c] = new] /\ new.q = q
    BY <2>1, NodeDoes
  <2> QED
    BY <1>1, <1>2, <2>2
<1>5. CASE Restart
  <2>1. \A c \in Conns : loop'[c].at = "free"
    BY <1>5, OtaParts DEF Restart
  <2> QED
    BY <1>0, <2>1 DEF CommandsOK
<1> QED
  BY <1>2, <1>3, <1>4, <1>5, ServerSteps

-----------------------------------------------------------------------------
(* The reconciler. *)

LEMMA ReconcilerGoesOn ==
    ASSUME TypeOK, HeardOK, ProvedOK, ReconcilerOK, ReconcilerStep
    PROVE  ReconcilerOK' /\ rec' \in Reconciler
<1> USE DEF store, server, world
<1>0. tasks \in Seq(Task) /\ DOMAIN tasks = 1..Len(tasks) /\ 1..Len(tasks) \subseteq Commands
      /\ rec \in Reconciler /\ 0 \in Known
  BY OtaParts DEF TypeOK, Commands
<1>1. CASE ReconcileStart
  <2> DEFINE mine == {i \in DOMAIN tasks : InFlight(i)}
  <2>1. mine # {} /\ mine \subseteq 1..Len(tasks) /\ mine \subseteq Commands
    BY <1>0, <1>1 DEF ReconcileStart
  <2>2. rec' = [Resting EXCEPT !.at = "look", !.todo = mine] /\ UNCHANGED tasks
    BY <1>1 DEF ReconcileStart
  <2> HIDE DEF mine
  <2>3. rec'.at = "look" /\ rec'.todo = mine /\ rec' \in Reconciler
    BY <1>0, <2>1, <2>2 DEF Resting, Reconciler
  <2> QED
    BY <1>0, <2>1, <2>2, <2>3 DEF ReconcilerOK
<1>2. CASE ReconcileLook
  <2>1. NodeOfCurrent \in Nodes /\ UNCHANGED <<tasks, viaHttp>> /\ rec.at = "look"
    BY <1>2, TaskInHand DEF ReconcileLook
  <2>2. /\ rec'.at = IF NodeOfCurrent \in viaHttp THEN "live" ELSE "judge"
        /\ rec'.todo = rec.todo /\ rec' \in Reconciler
    BY <1>0, <1>2, <2>1 DEF ReconcileLook, Reconciler, TypeOK
  <2>3. Current' = Current /\ NodeOfCurrent' = NodeOfCurrent
    BY <2>1, <2>2 DEF Current, NodeOfCurrent
  <2> QED
    BY <2>1, <2>2, <2>3 DEF ReconcilerOK
<1>3. CASE ReconcileProbe
  <2>1. /\ NodeOfCurrent \in Nodes /\ Current \in DOMAIN tasks /\ tasks[Current] \in Task
        /\ UNCHANGED <<tasks, viaHttp, proved>> /\ rec.at = "live"
    BY <1>0, <1>3, TaskInHand DEF ReconcileProbe
  <2>2. /\ rec'.at = "blind" \/ (rec'.at = "record" /\ rec'.v = runs[NodeOfCurrent])
        /\ rec'.todo = rec.todo /\ rec' \in Reconciler
    BY <1>0, <1>3, <2>1, OtaParts DEF ReconcileProbe, Reconciler, TypeOK
  <2>3. Current' = Current /\ NodeOfCurrent' = NodeOfCurrent
    BY <2>1, <2>2 DEF Current, NodeOfCurrent
  <2>4. ASSUME tasks[Current].status # "failed", Hit(tasks[Current], runs[NodeOfCurrent])
        PROVE  tasks[Current].q \in proved
    <3>1. PICK q \in Commands : q = tasks[Current].q
      BY <2>1 DEF Task
    <3>2. cmd[q].at # "none" /\ Same(cmd[q], tasks[Current])
      BY <2>1, <2>4, <3>1 DEF HeardOK
    <3>3. cmd[q].n = NodeOfCurrent /\ Hit(cmd[q], runs[NodeOfCurrent])
      BY <2>4, <3>2, SameHit DEF Same, NodeOfCurrent
    <3> QED
      BY <3>1, <3>2, <3>3 DEF ProvedOK
  <2> QED
    BY <2>1, <2>2, <2>3, <2>4 DEF ReconcilerOK
<1>4. CASE ReconcileRecord
  <2>1. /\ UNCHANGED <<tasks, viaHttp, proved>> /\ rec.at = "record"
        /\ rec'.at = "judge" /\ rec'.v = rec.v /\ rec'.todo = rec.todo /\ rec' \in Reconciler
    BY <1>0, <1>4 DEF ReconcileRecord, Reconciler
  <2>2. Current' = Current /\ NodeOfCurrent' = NodeOfCurrent
    BY <2>1 DEF Current, NodeOfCurrent
  <2> QED
    BY <2>1, <2>2 DEF ReconcilerOK
<1>5. CASE ReconcileJudge
  <2>1. TasksKept /\ rec' = NextTask /\ rec.at # "idle"
    BY <1>5, JudgeKeeps DEF ReconcileJudge
  <2>2. DOMAIN tasks' = DOMAIN tasks /\ rec.todo \subseteq DOMAIN tasks
    BY <1>0, <2>1 DEF TasksKept, ReconcilerOK
  <2>3. CASE rec.todo \ {Current} = {}
    <3>1. rec' = Resting
      BY <2>1, <2>3 DEF NextTask
    <3> QED
      BY <3>1, OtaParts DEF ReconcilerOK
  <2>4. CASE rec.todo \ {Current} # {}
    <3>1. rec' = [at |-> "look", todo |-> rec.todo \ {Current}, v |-> 0]
      BY <2>1, <2>4 DEF NextTask
    <3>2. rec'.at = "look" /\ rec'.todo = rec.todo \ {Current} /\ rec' \in Reconciler
      BY <1>0, <3>1 DEF Reconciler
    <3> QED
      BY <2>2, <2>4, <3>2 DEF ReconcilerOK
  <2> QED
    BY <2>3, <2>4
<1> QED
  BY <1>1, <1>2, <1>3, <1>4, <1>5 DEF ReconcilerStep

LEMMA StepKeepsReconciler ==
    ASSUME TypeOK, RequestsOK, HeardOK, ProvedOK, ReconcilerOK, Next
    PROVE  ReconcilerOK' /\ rec' \in Reconciler
<1>1. CASE ReconcilerStep
  BY <1>1, ReconcilerGoesOn
<1>2. CASE Restart
  <2>1. rec' = Resting
    BY <1>2 DEF Restart
  <2> QED
    BY <2>1, OtaParts DEF ReconcilerOK
<1>3. CASE UNCHANGED rec
  <2>0. tasks \in Seq(Task) /\ UNCHANGED viaHttp /\ proved \subseteq proved'
    BY WorldSteps, HistoryGrows DEF TypeOK
  <2>1. \A i \in DOMAIN tasks : /\ i \in DOMAIN tasks' /\ Same(tasks'[i], tasks[i])
                                /\ tasks'[i].q = tasks[i].q
                                /\ tasks'[i].status # "failed" => tasks[i].status # "failed"
    <3>1. CASE TasksKept
      BY <2>0, <3>1 DEF TasksKept
    <3>2. ASSUME NEW r \in Req, CreateTask(r)
          PROVE  \A i \in DOMAIN tasks : i \in DOMAIN tasks' /\ tasks'[i] = tasks[i]
      <4>1. PICK t \in Task : tasks' = Append(tasks, t)
        BY <3>2, CreateAdds
      <4> QED
        BY <2>0, <4>1
    <3> QED
      BY <3>1, <3>2, StepKeepsTasks DEF Same
  <2>2. Current' = Current /\ rec' \in Reconciler
    BY <1>3 DEF Current, TypeOK
  <2>3. rec.at # "idle" => rec.todo # {} /\ rec.todo \subseteq DOMAIN tasks'
    BY <2>1 DEF ReconcilerOK
  <2>4. ASSUME rec.at \in {"record", "judge"}, tasks'[Current].n \in viaHttp,
               tasks'[Current].status # "failed", Hit(tasks'[Current], rec.v)
        PROVE  tasks'[Current].q \in proved'
    <3>1. Current \in DOMAIN tasks
      BY <2>0, <2>4, TaskInHand
    <3>2. /\ tasks[Current].n \in viaHttp /\ tasks[Current].status # "failed"
          /\ Hit(tasks[Current], rec.v) /\ tasks'[Current].q = tasks[Current].q
      BY <2>1, <2>4, <3>1, SameHit DEF Same
    <3> QED
      BY <2>0, <2>4, <3>2 DEF ReconcilerOK, NodeOfCurrent
  <2> QED
    BY <1>3, <2>0, <2>2, <2>3, <2>4 DEF ReconcilerOK, NodeOfCurrent
<1> QED
  BY <1>1, <1>2, <1>3, ServerSteps

\* A node without a connection succeeds by its own answer, or in the dark.
LEMMA StepKeepsJudged ==
    ASSUME TypeOK, RequestsOK, ReadersOK, ReconcilerOK, JudgedLive, Next
    PROVE  JudgedLive'
<1> USE DEF store, server, world
<1>0. /\ tasks \in Seq(Task) /\ UNCHANGED viaHttp /\ proved \subseteq proved' /\ blind \subseteq blind'
  BY WorldSteps, HistoryGrows DEF TypeOK
<1>1. ASSUME NEW r \in Req, CreateTask(r)
      PROVE  JudgedLive'
  <2>1. PICK t \in Task : tasks' = Append(tasks, t) /\ t.status # "success"
    BY <1>1, CreateAdds
  <2>2. \A i \in DOMAIN tasks' : (i \in DOMAIN tasks /\ tasks'[i] = tasks[i]) \/ tasks'[i] = t
    BY <1>0, <2>1
  <2> QED
    BY <1>0, <2>1, <2>2 DEF JudgedLive
<1>2. ASSUME TasksKept,
             \A i \in 1..Len(tasks) : tasks'[i].status = "success" =>
                 \/ tasks[i].status = "success"
                 \/ tasks[i].n \notin viaHttp \/ tasks[i].q \in proved' \cup blind'
      PROVE  JudgedLive'
  <2>1. DOMAIN tasks' = 1..Len(tasks) /\ DOMAIN tasks = 1..Len(tasks)
    BY <1>0, <1>2 DEF TasksKept
  <2> QED
    BY <1>0, <1>2, <2>1 DEF JudgedLive, TasksKept, Same
<1>3. ASSUME NEW c \in Conns, FinishTask(c)
      PROVE  JudgedLive'
  <2>1. TasksKept
    BY <1>0, <1>3, FinishedKeeps DEF FinishTask
  <2>2. tasks[loop[c].q].n \notin viaHttp
    BY <1>3 DEF FinishTask, ReadersOK
  <2>3. \A i \in 1..Len(tasks) \ {loop[c].q} : tasks'[i] = tasks[i]
    BY <1>0, <1>3 DEF FinishTask, Finished
  <2> QED
    BY <1>2, <2>1, <2>2, <2>3
<1>4. CASE ReconcileJudge
  <2>1. /\ TasksKept /\ rec.at \in {"judge", "blind"} /\ blind' = blind \cup JudgedBlind
        /\ UNCHANGED proved
        /\ \A i \in 1..Len(tasks) :
                 tasks'[i].status = "success" => \/ tasks[i].status = "success"
                                                 \/ i = Current /\ Hit(tasks[i], rec.v)
    BY <1>4, JudgeKeeps DEF ReconcileJudge
  <2>2. ASSUME Hit(tasks[Current], rec.v), tasks[Current].status # "failed",
               tasks[Current].n \in viaHttp
        PROVE  tasks[Current].q \in proved' \cup blind'
    BY <2>1, <2>2 DEF JudgedBlind, ReconcilerOK, NodeOfCurrent
  <2>3. \A i \in 1..Len(tasks) : tasks'[i].status = "success" => tasks[i].status # "failed"
    BY <2>1 DEF TasksKept
  <2> QED
    BY <1>2, <2>1, <2>2, <2>3
<1>5. CASE UNCHANGED tasks
  BY <1>0, <1>5 DEF JudgedLive
<1>6. ASSUME NEW c \in Conns, OnNodeResult(c)
      PROVE  JudgedLive'
  <2>1. TasksKept /\ \A j \in 1..Len(tasks) : tasks'[j].status \in {tasks[j].status, "failed"}
    BY <1>0, <1>6, NodeResultKeeps
  <2> QED
    BY <1>2, <2>1
<1>7. ASSUME NEW i \in Commands, BecomesLate(i)
      PROVE  JudgedLive'
  <2>1. TasksKept /\ \A j \in 1..Len(tasks) : tasks'[j].status = tasks[j].status
    BY <1>0, <1>7, LateKeeps
  <2> QED
    BY <1>2, <2>1
<1> QED
  BY <1>1, <1>3, <1>4, <1>5, <1>6, <1>7, WorldSteps


-----------------------------------------------------------------------------
(* Types, and what follows from all of it. *)

LEMMA HandlerTypes ==
    ASSUME TypeOK, RoomOK, RequestsOK, CommandsOK, Next
    PROVE  h' \in [Req -> Handler]
<1>1. ASSUME NEW r \in Req, NEW new \in Handler, h' = [h EXCEPT ![r] = new]
      PROVE  h' \in [Req -> Handler]
  BY <1>1 DEF TypeOK
<1>2. ASSUME NEW r \in Req, HandlerStep(r)
      PROVE  \E new \in Handler : h' = [h EXCEPT ![r] = new]
  BY <1>2, DispatchDoes, TimesOutDoes, PostDoes, OtaParts DEF HandlerStep, CreateTask
<1>3. CASE UNCHANGED h
  BY <1>3 DEF TypeOK
<1>4. CASE Restart
  BY <1>4, OtaParts DEF Restart
<1> QED
  BY <1>1, <1>2, <1>3, <1>4, StartDoes, DeliverDoes, ServerSteps

LEMMA LoopTypes ==
    ASSUME TypeOK, CommandsOK, Next
    PROVE  loop' \in [Conns -> Loop] /\ link' \in [Nodes -> Conns \cup {None}]
<1>1. ASSUME NEW c \in Conns, NEW new \in Loop, loop' = [loop EXCEPT ![c] = new]
      PROVE  loop' \in [Conns -> Loop]
  BY <1>1 DEF TypeOK
<1>2. NodeStep => UNCHANGED loop \/ \E c \in Conns : \E new \in Loop : loop' = [loop EXCEPT ![c] = new]
  BY NodeDoes DEF NodeStep
<1>3. ASSUME UNCHANGED loop
      PROVE  loop' \in [Conns -> Loop]
  BY <1>3 DEF TypeOK
<1>4. ASSUME Restart
      PROVE  loop' \in [Conns -> Loop]
  BY <1>4, OtaParts DEF Restart
<1>5. loop' \in [Conns -> Loop]
  <2>1. ASSUME NEW c \in Conns, LoopStep(c)
        PROVE  \E new \in Loop : loop' = [loop EXCEPT ![c] = new]
    BY <2>1, LoopDoes
  <2>2. ASSUME NEW c \in Conns, NEW n \in Nodes, Dial(c, n)
        PROVE  \E new \in Loop : loop' = [loop EXCEPT ![c] = new]
    BY <2>2, DialDoes
  <2>3. \/ UNCHANGED loop
        \/ \E c \in Conns : LoopStep(c) \/ \E n \in Nodes : Dial(c, n)
        \/ NodeStep \/ Restart
    BY ServerSteps
  <2> QED
    BY <1>1, <1>2, <1>3, <1>4, <2>1, <2>2, <2>3
<1>6. \/ UNCHANGED link
      \/ \E n \in Nodes : \E c \in Conns \cup {None} : link' = [link EXCEPT ![n] = c]
      \/ link' = [n \in Nodes |-> None]
  BY ServerSteps DEF Dial, NodeUpgrades, NodeRestarts, Restart, CommandsOK
<1>7. link' \in [Nodes -> Conns \cup {None}]
  BY <1>6 DEF TypeOK
<1> QED
  BY <1>5, <1>7

LEMMA VersionTypes ==
    ASSUME TypeOK, ReadersOK, CommandsOK, ReconcilerOK, Next
    PROVE  /\ version' \in [Nodes -> Known] /\ runs' \in [Nodes -> Versions]
           /\ watch' \in [Nodes -> Known]
<1>1. ASSUME NEW c \in Conns, StoreVersion(c)
      PROVE  \E n \in Nodes : \E v \in Known : version' = [version EXCEPT ![n] = v]
  BY <1>1 DEF StoreVersion, ReadersOK, TypeOK, Loop
<1>2. ASSUME ReconcileRecord
      PROVE  \E n \in Nodes : \E v \in Known : version' = [version EXCEPT ![n] = v]
  BY <1>2, TaskInHand DEF ReconcileRecord, TypeOK, Reconciler
<1>3. ASSUME NEW n \in Nodes, WatcherStores(n)
      PROVE  \E v \in Known : version' = [version EXCEPT ![n] = v]
  BY <1>3 DEF WatcherStores, TypeOK
<1>4. version' \in [Nodes -> Known]
  BY <1>1, <1>2, <1>3, ServerSteps DEF TypeOK
<1>5. ASSUME NEW q \in Commands, NodeUpgrades(q)
      PROVE  \E v \in Versions : runs' = [runs EXCEPT ![cmd[q].n] = v]
  <2>1. cmd[q] \in Command
    BY DEF TypeOK
  <2>2. cmd[q].target # 0 => cmd[q].target \in Versions
    BY <2>1 DEF Command, Known
  <2> QED
    BY <1>5, <2>2 DEF NodeUpgrades
<1>6. runs' \in [Nodes -> Versions]
  BY <1>5, WorldSteps DEF TypeOK, NodeRestarts
<1>7. ASSUME NEW n \in Nodes, WatcherAsks(n) \/ WatcherStores(n)
      PROVE  \E v \in Known : watch' = [watch EXCEPT ![n] = v]
  BY <1>7, OtaParts DEF WatcherAsks, WatcherStores, TypeOK
<1>8. Restart => watch' = [n \in Nodes |-> 0]
  BY DEF Restart
<1>9. watch' \in [Nodes -> Known]
  BY <1>7, <1>8, OtaParts, ServerSteps DEF TypeOK
<1> QED
  BY <1>4, <1>6, <1>9

LEMMA HistoryTypes ==
    ASSUME TypeOK, ReconcilerOK, Next
    PROVE  {proved', blind'} \subseteq SUBSET Commands
<1> USE DEF Next, store, server, world, HandlerStep, LoopStep, ReconcilerStep
<1>1. \A k, n, v : LivedUpTo(k, n, v) \subseteq Commands
  BY DEF LivedUpTo
<1>2. \/ UNCHANGED proved
      \/ \E k, n, v : proved' = proved \cup LivedUpTo(k, n, v)
  BY DEF StartUpgrade, Dispatch, TimesOut, PostByHttp, CreateTask, StoreVersion, FindTask,
         FinishTask, DeliverResult, OnNodeResult, ConnEnds, Dial, ReconcileStart, ReconcileLook,
         ReconcileProbe, ReconcileRecord, ReconcileJudge, WatcherAsks, WatcherStores,
         NodeAccepts, NodeFails, NodeSays, NodeUpgrades, NodeRestarts, BecomesLate, Restart
<1>3. UNCHANGED blind \/ ReconcileJudge
  BY DEF StartUpgrade, Dispatch, TimesOut, PostByHttp, CreateTask, StoreVersion, FindTask,
         FinishTask, DeliverResult, OnNodeResult, ConnEnds, Dial, ReconcileStart, ReconcileLook,
         ReconcileProbe, ReconcileRecord, WatcherAsks, WatcherStores,
         NodeAccepts, NodeFails, NodeSays, NodeUpgrades, NodeRestarts, BecomesLate, Restart
<1>4. ReconcileJudge => JudgedBlind \subseteq Commands
  BY TaskInHand DEF ReconcileJudge, JudgedBlind, Task
<1>5. blind' \subseteq Commands
  BY <1>3, <1>4 DEF ReconcileJudge, TypeOK
<1>6. proved' \subseteq Commands
  BY <1>1, <1>2 DEF TypeOK
<1> QED
  BY <1>5, <1>6

LEMMA StepKeepsTypes ==
    ASSUME OtaIInv, RoomOK', Next
    PROVE  TypeOK'
<1> USE DEF OtaIInv
<1>1. h' \in [Req -> Handler] /\ loop' \in [Conns -> Loop] /\ link' \in [Nodes -> Conns \cup {None}]
  BY HandlerTypes, LoopTypes
<1>2. /\ version' \in [Nodes -> Known] /\ runs' \in [Nodes -> Versions]
      /\ watch' \in [Nodes -> Known] /\ {proved', blind'} \subseteq SUBSET Commands
  BY VersionTypes, HistoryTypes
<1>3. cmd' \in [Commands -> Command] /\ asked' \in 0..MaxAsk /\ rec' \in Reconciler
  BY StepKeepsCommands, StepKeepsReconciler
<1>4. tasks' \in Seq(Task)
  <2>1. ASSUME NEW r \in Req, CreateTask(r)
        PROVE  tasks' \in Seq(Task)
    <3>1. \E t \in Task : tasks' = Append(tasks, t)
      BY <2>1, CreateAdds
    <3> QED
      BY <3>1 DEF TypeOK
  <2> QED
    BY <2>1, StepKeepsTasks DEF TasksKept
<1>5. Len(tasks') <= asked'
  <2>1. Busy' \in SUBSET Req
    BY DEF Busy
  <2>2. Cardinality(Busy') \in Nat
    BY <2>1, OtaParts, FS_Subset, FS_CardinalityType
  <2>3. Len(tasks') \in Nat /\ asked' \in Nat
    BY <1>3, <1>4
  <2> QED
    BY <2>2, <2>3 DEF RoomOK
<1>6. troubles' \in 0..MaxTroubles /\ viaHttp' \subseteq Nodes
  BY WorldSteps, OtaAssumption DEF TypeOK
<1> QED
  BY <1>1, <1>2, <1>3, <1>4, <1>5, <1>6 DEF TypeOK

LEMMA OtaNextKeeps == OtaIInv /\ [Next]_vars => OtaIInv'
<1>1. ASSUME OtaIInv, Next
      PROVE  OtaIInv'
  <2>1. /\ TypeOK /\ RoomOK /\ RequestsOK /\ CommandsOK /\ HeardOK /\ ProvedOK
        /\ ReadersOK /\ ReconcilerOK /\ JudgedLive
    BY <1>1 DEF OtaIInv
  <2>2. RoomOK' /\ RequestsOK' /\ CommandsOK'
    BY <1>1, <2>1, StepKeepsRoom, StepKeepsRequests, StepKeepsDelivery
  <2>3. HeardOK' /\ ProvedOK' /\ ReadersOK' /\ ReconcilerOK' /\ JudgedLive'
    BY <1>1, <2>1, StepKeepsHeard, StepKeepsProved, StepKeepsReaders, StepKeepsReconciler,
       StepKeepsJudged
  <2>4. TypeOK'
    BY <1>1, <2>2, StepKeepsTypes
  <2> QED
    BY <2>2, <2>3, <2>4 DEF OtaIInv
<1>2. ASSUME OtaIInv, UNCHANGED vars
      PROVE  OtaIInv'
  <2>1. UNCHANGED <<tasks, version, h, link, loop, rec, watch, asked, troubles, viaHttp, runs, cmd,
                    proved, blind>>
    BY <1>2 DEF vars
  <2>2. TypeOK' /\ RoomOK' /\ RequestsOK' /\ CommandsOK'
    BY <1>2, <2>1 DEF OtaIInv, TypeOK, RoomOK, RequestsOK, CommandsOK, Busy, Checked
  <2>3. HeardOK' /\ ProvedOK' /\ ReadersOK' /\ ReconcilerOK' /\ JudgedLive'
    BY <1>2, <2>1 DEF OtaIInv, HeardOK, ProvedOK, ReadersOK, ReconcilerOK, JudgedLive, Current,
                      NodeOfCurrent
  <2> QED
    BY <2>2, <2>3 DEF OtaIInv
<1> QED
  BY <1>1, <1>2

\* What the two below follow from is inductive.
THEOREM OtaInvariant == Spec => []OtaIInv
BY OtaInitInv, OtaNextKeeps, PTL DEF Spec

\* Only tasks whose command their node has heard of wait or succeed, and a node
\* that is reached by HTTP only succeeds by a version it has run since, or by its
\* record while it was silent (ota.go:166-257, node_cmd.go:75-120), with any
\* number of nodes, versions, requests and connections.
THEOREM OtaInvAlways == Spec => []OtaInv
<1>1. OtaIInv => OtaInv
  BY DEF OtaIInv, OtaInv, DispatchedWasHeard, HeardOK, Same
<1> QED
  BY <1>1, OtaInvariant, PTL

\* A verdict is for good: the late failure of a node, a registration and the
\* reconciler, which act on tasks they read before, leave a task that is ended
\* alone (ota.go:95, 130).
THEOREM VerdictHoldsAlways == Spec => VerdictHolds
<1>1. ASSUME OtaIInv, [Next]_vars
      PROVE  [\A i \in DOMAIN tasks : tasks[i].status # "dispatched" => tasks'[i] = tasks[i]]_vars
  <2>0. tasks \in Seq(Task)
    BY <1>1 DEF OtaIInv, TypeOK
  <2>1. CASE UNCHANGED vars
    BY <2>1
  <2>2. CASE Next
    <3>1. CASE TasksKept
      BY <2>0, <3>1 DEF TasksKept
    <3>2. ASSUME NEW r \in Req, CreateTask(r)
          PROVE  \A i \in DOMAIN tasks : tasks'[i] = tasks[i]
      <4>1. \E t \in Task : tasks' = Append(tasks, t)
        BY <1>1, <3>2, CreateAdds DEF OtaIInv
      <4> QED
        BY <2>0, <4>1
    <3> QED
      BY <1>1, <2>2, <3>1, <3>2, StepKeepsTasks DEF OtaIInv
  <2> QED
    BY <1>1, <2>1, <2>2
<1> QED
  BY <1>1, OtaInvariant, PTL DEF Spec, VerdictHolds

-----------------------------------------------------------------------------
(* How samples are judged (Measures). *)

\* Row k is added to what the rows before it add up to.
Taken(t, rs, a, k) == AddRow(t, a, rs[k])
AddsRows(i, t, rs, S) ==
    i = [s \in SUBSET S |-> IF s = {} THEN NoAgg
                            ELSE Taken(t, rs, i[s \ {Max(s)}], Max(s))]

LEMMA AggIsFold ==
    ASSUME NEW t, NEW rs, NEW n, NEW S, S = RowsOf(rs, n)
    PROVE  LET a == (CHOOSE i : AddsRows(i, t, rs, S))[S]
           IN  /\ NodeAgg(t, rs, n).samples = a.samples /\ NodeAgg(t, rs, n).up = a.up
               /\ NodeAgg(t, rs, n).down = a.down /\ NodeAgg(t, rs, n).invalid = a.invalid
               /\ NodeAgg(t, rs, n).availability = Rate(a.up, a.samples)
<1> DEFINE a == (CHOOSE i : AddsRows(i, t, rs, S))[S]
<1>1. MapThenFoldSet(LAMBDA r, acc : AddRow(t, acc, r), NoAgg, LAMBDA i : rs[i],
                     LAMBDA s : Max(s), RowsOf(rs, n)) = a
  BY DEF MapThenFoldSet, AddsRows, Taken
<1> QED
  BY <1>1, Zenon DEF NodeAgg

LEMMA JudgedStricter ==
    ASSUME NEW t, NEW u, Stricter(t, u), NEW r
    PROVE  /\ EvalSample(u, r).up => EvalSample(t, r).up
           /\ EvalSample(u, r).invalid = EvalSample(t, r).invalid
           /\ EvalSample(u, r).slow = EvalSample(t, r).slow
BY DEF Stricter, EvalSample, EvalDualStack, EvalDNS, EvalFlatBody, EvalStackUp, Verdict, Invalid, Codes

\* A finite set of row numbers that is not empty has a greatest one.
LEMMA GreatestIn ==
    ASSUME NEW len \in Nat, NEW s \in SUBSET (1..len), s # {}
    PROVE  Max(s) \in s
<1> DEFINE bound == {b \in Nat : \A k \in s : k <= b}
<1>1. len \in bound
  OBVIOUS
<1>2. PICK b \in bound : \A c \in bound : ~ (<<c, b>> \in OpToRel(<, Nat))
  <2>1. bound \in SUBSET Nat /\ bound # {}
    BY <1>1
  <2> HIDE DEF bound
  <2> QED
    BY <2>1, NatLessThanWellFounded, WFMin
<1>3. b \in Nat /\ \A k \in s : k <= b
  OBVIOUS
<1>4. \A c \in bound : b <= c
  <2> TAKE c \in bound
  <2>1. c \in Nat /\ ~ (<<c, b>> \in OpToRel(<, Nat))
    BY <1>2
  <2> QED
    BY <2>1, <1>3 DEF OpToRel
<1>5. b \in s
  <2> SUFFICES ASSUME b \notin s PROVE FALSE
    OBVIOUS
  <2>1. \A k \in s : k \in Nat /\ k >= 1 /\ k < b
    BY <1>3
  <2>2. b - 1 \in Nat /\ \A k \in s : k <= b - 1
    <3>1. PICK k \in s : TRUE
      OBVIOUS
    <3>2. b \in Nat /\ b >= 1
      BY <1>3, <2>1, <3>1
    <3>3. \A x \in Nat : x < b => x <= b - 1
      BY <3>2
    <3> QED
      BY <2>1, <3>2, <3>3
  <2>3. b - 1 \in bound
    BY <2>2
  <2> QED
    BY <1>3, <1>4, <2>3
<1>6. \E x \in s : \A y \in s : x >= y
  BY <1>3, <1>5
<1> QED
  BY <1>6 DEF Max

\* Sets that can be gone through from the greatest element down.
Numbered(S) == IsFiniteSet(S) /\ \A s \in SUBSET S : s # {} => Max(s) \in s

LEMMA RowsNumbered ==
    ASSUME NEW len \in Nat, NEW S \in SUBSET (1..len)
    PROVE  Numbered(S)
<1>1. IsFiniteSet(1..len)
  BY FS_Interval
<1>2. IsFiniteSet(S)
  BY <1>1, FS_Subset
<1>3. ASSUME NEW s \in SUBSET S, s # {}
      PROVE  Max(s) \in s
  <2>1. s \in SUBSET (1..len)
    OBVIOUS
  <2> QED
    BY <1>3, <2>1, GreatestIn
<1> QED
  BY <1>2, <1>3 DEF Numbered

LEMMA NumberedSubset ==
    ASSUME NEW S, Numbered(S), NEW T \in SUBSET S
    PROVE  Numbered(T)
<1>1. IsFiniteSet(T)
  BY FS_Subset DEF Numbered
<1> QED
  BY <1>1 DEF Numbered

LEMMA SmallestRows ==
    ASSUME NEW S, IsFiniteSet(S), NEW B, \A s \in B : s \subseteq S, B # {}
    PROVE  \E m \in B : \A t \in B : t \subseteq m => t = m
<1>1. IsWellFoundedOn(StrictSubsetOrdering(S), SUBSET S)
  BY FS_StrictSubsetOrderingWellFounded, FS_FiniteSubsetsOfFinite
<1>2. \A s, t \in SUBSET S : <<t, s>> \in StrictSubsetOrdering(S) <=> t \subseteq s /\ t # s
  BY DEF StrictSubsetOrdering
<1>3. PICK m \in B : \A t \in B : ~ (<<t, m>> \in StrictSubsetOrdering(S))
  BY <1>1, WFMin
<1> QED
  BY <1>2, <1>3

\* There is a way to add the rows of a node up, ...
RowSum(t, rs, s) == (CHOOSE i : AddsRows(i, t, rs, s))[s]
EarlierRows(s) == s \ {Max(s)}

LEMMA AddsRowsAt ==
    ASSUME NEW i, NEW t, NEW rs, NEW S, AddsRows(i, t, rs, S), NEW s \in SUBSET S
    PROVE  i[s] = IF s = {} THEN NoAgg ELSE Taken(t, rs, i[EarlierRows(s)], Max(s))
BY Zenon DEF AddsRows, EarlierRows

LEMMA AddsRowsOnce ==
    ASSUME NEW S, Numbered(S), NEW T \in SUBSET S, NEW t, NEW rs, NEW i, NEW j,
           AddsRows(i, t, rs, S), AddsRows(j, t, rs, T)
    PROVE  \A s \in SUBSET T : i[s] = j[s]
<1> DEFINE B == {s \in SUBSET T : i[s] # j[s]}
<1> SUFFICES ASSUME B # {} PROVE FALSE
  OBVIOUS
<1>1. \A s \in B : s \subseteq S
  OBVIOUS
<1>f. IsFiniteSet(S)
  BY DEF Numbered
<1> HIDE DEF B
<1>2. PICK m \in B : \A x \in B : x \subseteq m => x = m
  BY <1>1, <1>f, SmallestRows
<1>3. m \in SUBSET T /\ m \in SUBSET S /\ i[m] # j[m]
  BY <1>2 DEF B
<1>4. i[m] = IF m = {} THEN NoAgg ELSE Taken(t, rs, i[EarlierRows(m)], Max(m))
  BY <1>3, Zenon DEF AddsRows, EarlierRows
<1>5. j[m] = IF m = {} THEN NoAgg ELSE Taken(t, rs, j[EarlierRows(m)], Max(m))
  BY <1>3, Zenon DEF AddsRows, EarlierRows
<1>6. m # {}
  BY <1>3, <1>4, <1>5
<1>7. i[EarlierRows(m)] = j[EarlierRows(m)]
  <2>1. Max(m) \in m
    BY <1>3, <1>6 DEF Numbered
  <2>2. EarlierRows(m) \notin B
    BY <1>2, <2>1 DEF EarlierRows
  <2> QED
    BY <1>3, <2>2 DEF B, EarlierRows
<1> QED
  BY <1>3, <1>4, <1>5, <1>6, <1>7

LEMMA AddsRowsExists ==
    ASSUME NEW S, Numbered(S), NEW t, NEW rs
    PROVE  \E i : AddsRows(i, t, rs, S)
<1> DEFINE B == {s \in SUBSET S : ~ \E i : AddsRows(i, t, rs, s)}
<1> SUFFICES ASSUME B # {} PROVE FALSE
  BY DEF B
<1>1. \A s \in B : s \subseteq S
  OBVIOUS
<1>f. IsFiniteSet(S)
  BY DEF Numbered
<1> HIDE DEF B
<1>2. PICK m \in B : \A x \in B : x \subseteq m => x = m
  BY <1>1, <1>f, SmallestRows
<1>3. m \in SUBSET S /\ Numbered(m)
  BY <1>1, <1>2, NumberedSubset
<1>4. ASSUME NEW x \in SUBSET m, x # m
      PROVE  Numbered(x) /\ AddsRows(CHOOSE a : AddsRows(a, t, rs, x), t, rs, x)
  <2>1. x \in SUBSET S /\ x \notin B
    BY <1>2, <1>3, <1>4
  <2>2. \E i : AddsRows(i, t, rs, x)
    BY <2>1 DEF B
  <2> QED
    BY <1>3, <2>2, NumberedSubset
<1> DEFINE sums == [s \in SUBSET m |-> IF s = {} THEN NoAgg
                                       ELSE Taken(t, rs, RowSum(t, rs, EarlierRows(s)), Max(s))]
<1>5. ASSUME NEW x \in SUBSET m, x # m
      PROVE  sums[x] = RowSum(t, rs, x)
  <2> DEFINE i == CHOOSE a : AddsRows(a, t, rs, x)
             u == EarlierRows(x)
             j == CHOOSE a : AddsRows(a, t, rs, u)
  <2>1. AddsRows(i, t, rs, x) /\ Numbered(x)
    BY <1>4, <1>5
  <2>2. RowSum(t, rs, x) = i[x]
    BY DEF RowSum
  <2>3. i[x] = IF x = {} THEN NoAgg ELSE Taken(t, rs, i[u], Max(x))
    <3> HIDE DEF i
    <3> QED
      BY <2>1, Zenon DEF AddsRows, EarlierRows
  <2>4. u \in SUBSET x /\ u \in SUBSET m /\ u # m
    BY <1>5 DEF EarlierRows
  <2>5. AddsRows(j, t, rs, u)
    <3> HIDE DEF u
    <3> QED
      BY <1>4, <2>4
  <2>6. i[u] = j[u]
    <3> HIDE DEF i, j, u
    <3>1. \A s \in SUBSET u : i[s] = j[s]
      BY <2>1, <2>4, <2>5, AddsRowsOnce
    <3> QED
      BY <3>1
  <2>7. RowSum(t, rs, u) = j[u]
    BY DEF RowSum
  <2>8. sums[x] = IF x = {} THEN NoAgg ELSE Taken(t, rs, RowSum(t, rs, u), Max(x))
    BY <1>5
  <2> HIDE DEF i, j, u, sums
  <2> QED
    BY <2>2, <2>3, <2>6, <2>7, <2>8
<1>6. AddsRows(sums, t, rs, m)
  <2>1. \A s \in SUBSET m : s # {} => sums[EarlierRows(s)] = RowSum(t, rs, EarlierRows(s))
    <3> HIDE DEF sums
    <3> TAKE s \in SUBSET m
    <3> HAVE s # {}
    <3>1. Max(s) \in s
      BY <1>3 DEF Numbered
    <3>2. EarlierRows(s) \in SUBSET m /\ EarlierRows(s) # m
      BY <3>1 DEF EarlierRows
    <3> QED
      BY <1>5, <3>2
  <2>2. sums = [s \in SUBSET m |-> IF s = {} THEN NoAgg
                                   ELSE Taken(t, rs, sums[EarlierRows(s)], Max(s))]
    <3>1. \A s \in SUBSET m :
             (IF s = {} THEN NoAgg ELSE Taken(t, rs, RowSum(t, rs, EarlierRows(s)), Max(s)))
             = (IF s = {} THEN NoAgg ELSE Taken(t, rs, sums[EarlierRows(s)], Max(s)))
      <4> HIDE DEF sums
      <4> QED
        BY <2>1
    <3> QED
      BY <3>1, Zenon
  <2> HIDE DEF sums
  <2> QED
    BY <2>2, Zenon DEF AddsRows, EarlierRows
<1> QED
  BY <1>2, <1>6 DEF B

\* What one row adds to the counts of its node.
Counted(a) == /\ a = [f \in DOMAIN NoAgg |-> a[f]]
              /\ a.up \in Nat /\ a.invalid \in Nat

LEMMA AddRowCounts ==
    ASSUME NEW t, NEW r, NEW a, Counted(a)
    PROVE  LET new == AddRow(t, a, r)
               ev == EvalSample(t, r)
           IN  /\ Counted(new)
               /\ new.up = IF ev.invalid THEN a.up ELSE a.up + Bit(ev.up)
               /\ new.invalid = IF ev.invalid THEN a.invalid + 1 ELSE a.invalid
<1> DEFINE new == AddRow(t, a, r)
           ev == EvalSample(t, r)
<1>1. DOMAIN a = {"samples", "up", "down", "invalid", "slow", "latestAt", "latestUp", "lats"}
  BY DEF Counted, NoAgg
<1>2. new = [f \in DOMAIN NoAgg |-> new[f]]
  BY <1>1 DEF Counted, NoAgg, AddRow
<1>3. new.up = IF ev.invalid THEN a.up ELSE a.up + Bit(ev.up)
  BY <1>1 DEF Counted, AddRow
<1>4. new.invalid = IF ev.invalid THEN a.invalid + 1 ELSE a.invalid
  BY <1>1 DEF Counted, AddRow
<1>5. Bit(ev.up) \in Nat
  BY DEF Bit
<1> HIDE DEF new, ev
<1>6. new.up \in Nat /\ new.invalid \in Nat
  BY <1>3, <1>4, <1>5 DEF Counted
<1>7. Counted(new)
  BY <1>2, <1>6 DEF Counted
<1> QED
  BY <1>3, <1>4, <1>7 DEF new, ev

\* Judged more strictly, a node has as many invalid samples and no more that
\* are up.
Below(b, a) == Counted(a) /\ Counted(b) /\ b.up <= a.up /\ b.invalid = a.invalid

LEMMA StricterTakes ==
    ASSUME NEW t, NEW u, Stricter(t, u), NEW rs, NEW k, NEW a, NEW b, Below(b, a)
    PROVE  Below(Taken(u, rs, b, k), Taken(t, rs, a, k))
<1> DEFINE r == rs[k]
<1>1. Taken(u, rs, b, k) = AddRow(u, b, r) /\ Taken(t, rs, a, k) = AddRow(t, a, r)
  BY DEF Taken
<1>2. Counted(a) /\ Counted(b) /\ b.up <= a.up /\ b.invalid = a.invalid
  BY DEF Below
<1> HIDE DEF r
<1>3. /\ EvalSample(u, r).up => EvalSample(t, r).up
      /\ EvalSample(u, r).invalid = EvalSample(t, r).invalid
  BY JudgedStricter
<1>4. /\ Bit(EvalSample(u, r).up) <= Bit(EvalSample(t, r).up)
      /\ Bit(EvalSample(u, r).up) \in Nat /\ Bit(EvalSample(t, r).up) \in Nat
  BY <1>3 DEF Bit
<1>5. /\ Counted(AddRow(u, b, r)) /\ Counted(AddRow(t, a, r))
  BY <1>2, AddRowCounts
<1>6. /\ AddRow(u, b, r).up = IF EvalSample(u, r).invalid THEN b.up ELSE b.up + Bit(EvalSample(u, r).up)
      /\ AddRow(u, b, r).invalid = IF EvalSample(u, r).invalid THEN b.invalid + 1 ELSE b.invalid
  BY <1>2, AddRowCounts
<1>7. /\ AddRow(t, a, r).up = IF EvalSample(t, r).invalid THEN a.up ELSE a.up + Bit(EvalSample(t, r).up)
      /\ AddRow(t, a, r).invalid = IF EvalSample(t, r).invalid THEN a.invalid + 1 ELSE a.invalid
  BY <1>2, AddRowCounts
<1>8. AddRow(u, b, r).up <= AddRow(t, a, r).up
  BY <1>2, <1>3, <1>4, <1>6, <1>7 DEF Counted
<1>9. AddRow(u, b, r).invalid = AddRow(t, a, r).invalid
  BY <1>2, <1>3, <1>6, <1>7
<1> QED
  BY <1>1, <1>5, <1>8, <1>9 DEF Below

LEMMA StricterSums ==
    ASSUME NEW S, Numbered(S), NEW t, NEW u, Stricter(t, u),
           NEW rs, NEW i, NEW j, AddsRows(i, t, rs, S), AddsRows(j, u, rs, S)
    PROVE  \A s \in SUBSET S : Below(j[s], i[s])
<1> DEFINE B == {s \in SUBSET S : ~ Below(j[s], i[s])}
<1> SUFFICES ASSUME B # {} PROVE FALSE
  OBVIOUS
<1>1. \A s \in B : s \subseteq S
  OBVIOUS
<1>f. IsFiniteSet(S)
  BY DEF Numbered
<1> HIDE DEF B
<1>2. PICK m \in B : \A x \in B : x \subseteq m => x = m
  BY <1>1, <1>f, SmallestRows
<1>3. m \in SUBSET S /\ ~ Below(j[m], i[m])
  BY <1>2 DEF B
<1>4. i[m] = IF m = {} THEN NoAgg ELSE Taken(t, rs, i[EarlierRows(m)], Max(m))
  BY <1>3, Zenon DEF AddsRows, EarlierRows
<1>5. j[m] = IF m = {} THEN NoAgg ELSE Taken(u, rs, j[EarlierRows(m)], Max(m))
  BY <1>3, Zenon DEF AddsRows, EarlierRows
<1>6. m # {}
  <2>1. Below(NoAgg, NoAgg)
    BY DEF Below, Counted, NoAgg
  <2> QED
    BY <1>3, <1>4, <1>5, <2>1
<1>7. Below(j[EarlierRows(m)], i[EarlierRows(m)])
  <2>1. Max(m) \in m
    BY <1>3, <1>6 DEF Numbered
  <2>2. EarlierRows(m) \notin B
    BY <1>2, <2>1 DEF EarlierRows
  <2> QED
    BY <1>3, <2>2 DEF B, EarlierRows
<1> QED
  BY <1>3, <1>4, <1>5, <1>6, <1>7, StricterTakes

LEMMA StricterNode ==
    ASSUME NEW t, NEW u, Stricter(t, u), NEW rs, NEW n, NEW len \in Nat, DOMAIN rs = 1..len
    PROVE  /\ NodeAgg(u, rs, n).up <= NodeAgg(t, rs, n).up
           /\ NodeAgg(u, rs, n).invalid = NodeAgg(t, rs, n).invalid
<1> DEFINE S == RowsOf(rs, n)
           i == CHOOSE a : AddsRows(a, t, rs, S)
           j == CHOOSE a : AddsRows(a, u, rs, S)
<1>0. Numbered(S)
  BY RowsNumbered DEF RowsOf
<1>s. S = RowsOf(rs, n)
  OBVIOUS
<1> HIDE DEF S
<1>1. AddsRows(i, t, rs, S) /\ AddsRows(j, u, rs, S)
  BY <1>0, AddsRowsExists
<1>t. NodeAgg(t, rs, n).up = i[S].up /\ NodeAgg(t, rs, n).invalid = i[S].invalid
  BY <1>s, AggIsFold
<1>u. NodeAgg(u, rs, n).up = j[S].up /\ NodeAgg(u, rs, n).invalid = j[S].invalid
  BY <1>s, AggIsFold
<1> HIDE DEF i, j
<1>3. \A s \in SUBSET S : Below(j[s], i[s])
  BY <1>0, <1>1, StricterSums
<1>4. Below(j[S], i[S])
  BY <1>3
<1> QED
  BY <1>t, <1>u, <1>4 DEF Below

\* What one row more adds to what is told apart: up, down or invalid.
Accounted(a) == /\ a = [f \in DOMAIN NoAgg |-> a[f]]
                /\ {a.samples, a.up, a.down, a.invalid} \subseteq Nat
                /\ a.samples = a.up + a.down + a.invalid

LEMMA AddRowAccounts ==
    ASSUME NEW t, NEW r, NEW a, Accounted(a)
    PROVE  Accounted(AddRow(t, a, r))
<1> DEFINE new == AddRow(t, a, r)
           ev == EvalSample(t, r)
<1>1. DOMAIN a = {"samples", "up", "down", "invalid", "slow", "latestAt", "latestUp", "lats"}
  BY DEF Accounted, NoAgg
<1>2. new = [f \in DOMAIN NoAgg |-> new[f]]
  BY <1>1 DEF Accounted, NoAgg, AddRow
<1>3. /\ new.samples = a.samples + 1
      /\ new.up = IF ev.invalid THEN a.up ELSE a.up + Bit(ev.up)
      /\ new.down = IF ev.invalid THEN a.down ELSE a.down + Bit(~ev.up)
      /\ new.invalid = IF ev.invalid THEN a.invalid + 1 ELSE a.invalid
  BY <1>1 DEF Accounted, AddRow
<1>4. Bit(ev.up) \in Nat /\ Bit(~ev.up) \in Nat /\ Bit(ev.up) + Bit(~ev.up) = 1
  BY DEF Bit
<1>5. /\ {a.samples, a.up, a.down, a.invalid} \subseteq Nat
      /\ a.samples = a.up + a.down + a.invalid
  BY DEF Accounted
<1> HIDE DEF new, ev
<1>6. /\ {new.samples, new.up, new.down, new.invalid} \subseteq Nat
      /\ new.samples = new.up + new.down + new.invalid
  BY <1>3, <1>4, <1>5
<1>7. Accounted(new)
  BY <1>2, <1>6 DEF Accounted
<1> QED
  BY <1>7 DEF new

LEMMA AccountedSums ==
    ASSUME NEW S, Numbered(S), NEW t, NEW rs, NEW i,
           AddsRows(i, t, rs, S)
    PROVE  \A s \in SUBSET S : Accounted(i[s])
<1> DEFINE B == {s \in SUBSET S : ~ Accounted(i[s])}
<1> SUFFICES ASSUME B # {} PROVE FALSE
  OBVIOUS
<1>1. \A s \in B : s \subseteq S
  OBVIOUS
<1>f. IsFiniteSet(S)
  BY DEF Numbered
<1> HIDE DEF B
<1>2. PICK m \in B : \A x \in B : x \subseteq m => x = m
  BY <1>1, <1>f, SmallestRows
<1>3. m \in SUBSET S /\ ~ Accounted(i[m])
  BY <1>2 DEF B
<1>4. i[m] = IF m = {} THEN NoAgg ELSE Taken(t, rs, i[EarlierRows(m)], Max(m))
  BY <1>3, Zenon DEF AddsRows, EarlierRows
<1>5. m # {}
  <2>1. Accounted(NoAgg)
    BY DEF Accounted, NoAgg
  <2> QED
    BY <1>3, <1>4, <2>1
<1>6. Accounted(i[EarlierRows(m)])
  <2>1. Max(m) \in m
    BY <1>3, <1>5 DEF Numbered
  <2>2. EarlierRows(m) \notin B
    BY <1>2, <2>1 DEF EarlierRows
  <2> QED
    BY <1>3, <2>2 DEF B, EarlierRows
<1>7. Accounted(Taken(t, rs, i[EarlierRows(m)], Max(m)))
  BY <1>6, AddRowAccounts DEF Taken
<1> QED
  BY <1>3, <1>4, <1>5, <1>7

\* A stored sample: who took it, when, what was answered and what it took.
Sample == [node : Probers, at : Nat, body : {a.body : a \in Answers},
           link : {a.link : a \in Answers},
           lat : {TrueLatency(x, a.body) : x \in Judgings \cup {FirstTask}, a \in Answers}]
SamplesOK == /\ rows \in Seq(Sample) /\ now \in Nat
             /\ task \in Judgings \cup {FirstTask}

LEMMA PurgeKeepsSamples ==
    ASSUME SamplesOK, NEW cutoff
    PROVE  SamplesSince(cutoff) \in Seq(Sample)
<1> DEFINE old == {i \in DOMAIN rows : rows[i].at < cutoff}
<1>1. rows \in Seq(Sample) /\ Len(rows) \in Nat /\ DOMAIN rows = 1..Len(rows)
  BY DEF SamplesOK
<1>2. IsFiniteSet(1..Len(rows)) /\ Cardinality(1..Len(rows)) = Len(rows)
  BY <1>1, FS_Interval
<1>3. Cardinality(old) \in Nat /\ Cardinality(old) <= Len(rows)
  <2>1. old \subseteq 1..Len(rows)
    BY <1>1
  <2> HIDE DEF old
  <2>2. IsFiniteSet(old) /\ Cardinality(old) <= Cardinality(1..Len(rows))
    BY <1>2, <2>1, FS_Subset
  <2> QED
    BY <1>2, <2>2, FS_CardinalityType
<1> HIDE DEF old
<1>4. SubSeq(rows, Cardinality(old) + 1, Len(rows)) \in Seq(Sample)
  BY <1>1, <1>3
<1> QED
  BY <1>4 DEF SamplesSince, old

LEMMA BatchOfSamples ==
    ASSUME SamplesOK, NEW N \in SUBSET Probers, NEW replies \in [N -> Answers], StoreRound(replies)
    PROVE  rows' \in Seq(Sample)
<1> DEFINE order == SetToSeq(DOMAIN replies)
           sample(n) == [node |-> n, at |-> now, body |-> replies[n].body, link |-> replies[n].link,
                         lat |-> TrueLatency(task, replies[n].body)]
           batch == [i \in DOMAIN order |-> sample(order[i])]
<1>1. IsFiniteSet(N) /\ Cardinality(N) \in Nat
  BY MeasuresAssumption, FS_Subset, FS_CardinalityType
<1>2. order \in [1..Cardinality(N) -> N]
  <2>1. ExistsBijection(1..Cardinality(N), N)
    BY <1>1, FS_CardinalityType
  <2>2. \E f \in [1..Cardinality(N) -> N] : IsInjective(f)
    BY <2>1 DEF ExistsBijection, Bijection, Injection, IsInjective
  <2> QED
    BY <2>2 DEF SetToSeq
<1> HIDE DEF order
<1>3. \A n \in N : sample(n) \in Sample
  <2> TAKE n \in N
  <2>1. replies[n] \in Answers /\ task \in Judgings \cup {FirstTask} /\ now \in Nat
    BY DEF SamplesOK
  <2>2. TrueLatency(task, replies[n].body) \in
            {TrueLatency(x, a.body) : x \in Judgings \cup {FirstTask}, a \in Answers}
    BY <2>1
  <2> QED
    BY <2>1, <2>2 DEF Sample
<1> HIDE DEF sample
<1>4. batch \in Seq(Sample)
  BY <1>1, <1>2, <1>3
<1>5. rows' = rows \o batch
  BY DEF StoreRound, order, sample
<1> HIDE DEF batch
<1> QED
  BY <1>4, <1>5 DEF SamplesOK

THEOREM SamplesInvariant == MeasuresSpec => []SamplesOK
<1>1. MeasuresInit => SamplesOK
  BY DEF MeasuresInit, SamplesOK
<1>2. SamplesOK /\ [MeasuresNext]_measuresVars => SamplesOK'
  <2> SUFFICES ASSUME SamplesOK, [MeasuresNext]_measuresVars PROVE SamplesOK'
    OBVIOUS
  <2>1. ASSUME UNCHANGED rows, UNCHANGED task, now' \in Nat PROVE SamplesOK'
    BY <2>1 DEF SamplesOK
  <2>2. now \in Nat
    BY DEF SamplesOK
  <2>3. CASE UNCHANGED measuresVars
    BY <2>1, <2>2, <2>3 DEF measuresVars
  <2>4. CASE TimePasses
    BY <2>1, <2>2, <2>4 DEF TimePasses, probing
  <2>5. CASE Purge
    BY <2>5, PurgeKeepsSamples DEF Purge, SamplesOK
  <2>6. CASE NodeOnline \/ NodeOffline \/ MarkOffline \/ DeleteNode
    BY <2>1, <2>2, <2>6 DEF NodeOnline, NodeOffline, MarkOffline, DeleteNode, probing
  <2>7. CASE \E w \in Plans : AddWindow(w) \/ DropWindow(w)
    BY <2>1, <2>2, <2>7 DEF AddWindow, DropWindow, probing
  <2>8. ASSUME NEW N \in SUBSET Probers, NEW replies \in [N -> Answers], StoreRound(replies)
        PROVE  SamplesOK'
    BY <2>8, BatchOfSamples DEF StoreRound, SamplesOK
  <2>9. ASSUME NEW x \in Judgings, EditTask(x) PROVE SamplesOK'
    BY <2>9 DEF EditTask, SamplesOK
  <2> QED
    BY <2>3, <2>4, <2>5, <2>6, <2>7, <2>8, <2>9 DEF MeasuresNext
<1> QED
  BY <1>1, <1>2, PTL DEF MeasuresSpec

\* "改判定配置即可重算历史" (sla_eval.go:19): judging what is stored more strictly never
\* makes a node look better and never loses a sample, for any number of nodes
\* and samples and whatever they answered.
THEOREM StricterNeverRaisesAlways == MeasuresSpec => StricterNeverRaises
<1> DEFINE A == Stricter(task, task') /\ rows' = rows =>
                  LET before == ComputeTaskSla(task, rows)
                      after == ComputeTaskSla(task', rows')
                  IN  \A n \in DOMAIN before : /\ after[n].up <= before[n].up
                                               /\ after[n].invalid = before[n].invalid
<1>1. SamplesOK /\ [MeasuresNext]_measuresVars => [A]_measuresVars
  <2> SUFFICES ASSUME SamplesOK, Stricter(task, task'), rows' = rows,
                      NEW n \in DOMAIN ComputeTaskSla(task, rows)
               PROVE  /\ ComputeTaskSla(task', rows')[n].up <= ComputeTaskSla(task, rows)[n].up
                      /\ ComputeTaskSla(task', rows')[n].invalid
                            = ComputeTaskSla(task, rows)[n].invalid
    OBVIOUS
  <2>1. /\ ComputeTaskSla(task, rows)[n] = NodeAgg(task, rows, n)
        /\ ComputeTaskSla(task', rows')[n] = NodeAgg(task', rows, n)
    BY DEF ComputeTaskSla
  <2>2. Len(rows) \in Nat /\ DOMAIN rows = 1..Len(rows)
    BY DEF SamplesOK
  <2>3. /\ NodeAgg(task', rows, n).up <= NodeAgg(task, rows, n).up
        /\ NodeAgg(task', rows, n).invalid = NodeAgg(task, rows, n).invalid
    BY <2>2, StricterNode
  <2> QED
    BY <2>1, <2>3
<1>2. MeasuresSpec => []SamplesOK /\ [][MeasuresNext]_measuresVars
  BY SamplesInvariant, PTL DEF MeasuresSpec
<1> QED
  BY <1>1, <1>2, PTL DEF StricterNeverRaises

\* Division with a remainder, and there is one way to do it.
LEMMA DivMod ==
    ASSUME NEW d \in Nat \ {0}, NEW x \in Int
    PROVE  x % d \in 0..(d - 1) /\ x \div d \in Int /\ x = d * (x \div d) + (x % d)
<1>1. x \div d \in Int
  OBVIOUS
<1>2. x % d \in 0..(d-1)
  OBVIOUS
<1>3. x = d * (x \div d) + (x % d)
  OBVIOUS
<1> QED BY <1>1, <1>2, <1>3

LEMMA ModUnique ==
    ASSUME NEW d \in Nat \ {0}, NEW x \in Int, NEW q \in Int, NEW r \in 0..(d - 1),
           x = d * q + r
    PROVE  x % d = r
<1>1. x % d \in 0..(d-1) /\ x \div d \in Int /\ x = d * (x \div d) + (x % d)
  BY DivMod
<1> DEFINE p == x \div d
           m == x % d
<1>2. p \in Int /\ m \in 0..(d-1) /\ d * p + m = d * q + r
  BY <1>1
<1> HIDE DEF p, m
<1>a. d * (p - q) = r - m
  BY <1>2
<1>3. p = q
  <2>1. ASSUME NEW k \in Int, k >= 1 PROVE d * k >= d
    BY <2>1
  <2>2. p - q \in Int /\ q - p \in Int /\ d * (q - p) = m - r
    BY <1>2, <1>a
  <2>3. ~(p - q >= 1)
    BY <2>1, <2>2, <1>2, <1>a
  <2>4. ~(q - p >= 1)
    BY <2>1, <2>2, <1>2, <1>a
  <2> QED
    BY <2>3, <2>4, <1>2
<1> QED
  BY <1>2, <1>3 DEF m, p

\* Numbers that are divided, for lemmas that know no more of them than they say.
Quo(x, d) == x \div d
Rem(x, d) == x % d

LEMMA QuoRem == \A d \in Nat \ {0}, x \in Int :
    Rem(x, d) \in 0..(d-1) /\ Quo(x, d) \in Int /\ (d * Quo(x, d)) + Rem(x, d) = x
BY DivMod DEF Quo, Rem

\* Rates are in hundredths of a percent.
Rates == 0..10000

LEMMA QuotientIsRate ==
    ASSUME NEW u \in Nat, NEW s \in Nat \ {0}, u <= s,
           NEW x \in Int, x = 2 * (u * 10000) + s, NEW d \in Nat \ {0}, d = 2 * s
    PROVE  Quo(x, d) \in Rates
<1> DEFINE q == Quo(x, d)
           m == Rem(x, d)
           p == d * q
<1>1. m \in 0..(d - 1) /\ q \in Int /\ p + m = x
  BY QuoRem
<1>2. p \in Int
  BY <1>1
<1> HIDE DEF q, m
<1>3. ASSUME q >= 10001 PROVE p >= d * 10001
  BY <1>1, <1>3
<1>4. ASSUME q <= -1 PROVE p <= -d
  BY <1>1, <1>4
<1> HIDE DEF p
<1>5. p + m = 20000 * u + s /\ m >= 0 /\ m <= 2 * s - 1
  BY <1>1
<1>6. ~ (q >= 10001)
  <2> SUFFICES ASSUME q >= 10001 PROVE FALSE
    OBVIOUS
  <2>1. p >= 20002 * s
    BY <1>2, <1>3
  <2> QED
    BY <1>1, <1>2, <1>5, <2>1
<1>7. ~ (q <= -1)
  <2> SUFFICES ASSUME q <= -1 PROVE FALSE
    OBVIOUS
  <2>1. p <= -(2 * s)
    BY <1>2, <1>4
  <2> QED
    BY <1>1, <1>2, <1>5, <2>1
<1>8. q \in Rates
  BY <1>1, <1>6, <1>7 DEF Rates
<1> QED
  BY <1>8 DEF q

LEMMA RateWithin ==
    ASSUME NEW u \in Nat, NEW s \in Nat, u <= s
    PROVE  Rate(u, s) \in Rates
<1>1. CASE s = 0
  BY <1>1 DEF Rate, Rates
<1>2. CASE s # 0
  <2> DEFINE y == u * 10000
             x == 2 * y + s
             d == 2 * s
  <2>1. s \in Nat \ {0} /\ s > 0
    BY <1>2
  <2>p. y >= 0
    OBVIOUS
  <2>x. x = 2 * (u * 10000) + s /\ x \in Int /\ d \in Nat \ {0}
    BY <2>1
  <2>2. Rate(u, s) = Rounded(y, s)
    BY <2>1 DEF Rate
  <2> HIDE DEF y
  <2>3. Rounded(y, s) = Quo(x, d)
    BY <2>p, Zenon DEF Rounded, Quo
  <2>4. d = 2 * s
    OBVIOUS
  <2> HIDE DEF x, d
  <2>5. Quo(x, d) \in Rates
    BY <2>1, <2>x, <2>4, QuotientIsRate
  <2> QED
    BY <2>2, <2>3, <2>5, Zenon
<1> QED
  BY <1>1, <1>2

LEMMA NodeAccounts ==
    ASSUME NEW t, NEW rs, NEW n, NEW len \in Nat, DOMAIN rs = 1..len
    PROVE  /\ NodeAgg(t, rs, n).samples = NodeAgg(t, rs, n).up + NodeAgg(t, rs, n).down
                                           + NodeAgg(t, rs, n).invalid
           /\ NodeAgg(t, rs, n).availability \in Rates
<1> DEFINE S == RowsOf(rs, n)
           i == CHOOSE x : AddsRows(x, t, rs, S)
           total == i[S]
<1>0. Numbered(S)
  BY RowsNumbered DEF RowsOf
<1>s. S = RowsOf(rs, n)
  OBVIOUS
<1> HIDE DEF S
<1>1. AddsRows(i, t, rs, S)
  BY <1>0, AddsRowsExists
<1>2. /\ NodeAgg(t, rs, n).samples = total.samples /\ NodeAgg(t, rs, n).up = total.up
      /\ NodeAgg(t, rs, n).down = total.down /\ NodeAgg(t, rs, n).invalid = total.invalid
      /\ NodeAgg(t, rs, n).availability = Rate(total.up, total.samples)
  BY <1>s, AggIsFold
<1> HIDE DEF i
<1>3. Accounted(total)
  BY <1>0, <1>1, AccountedSums
<1> HIDE DEF total
<1>4. /\ total.samples = total.up + total.down + total.invalid
      /\ total.up \in Nat /\ total.samples \in Nat /\ total.up <= total.samples
  BY <1>3 DEF Accounted
<1>5. Rate(total.up, total.samples) \in Rates
  BY <1>4, RateWithin
<1> QED
  BY <1>2, <1>4, <1>5

\* Of the samples of a node each is up, down or invalid and none twice, for any
\* number of nodes and samples, whatever they answered, however they are judged
\* and whatever retention has deleted (sla_eval.go:304-340).
THEOREM EverySampleOnce ==
    MeasuresSpec => [](\A n \in DOMAIN ComputeTaskSla(task, rows) :
                           CountedOnce(ComputeTaskSla(task, rows)[n]))
<1> DEFINE P == \A n \in DOMAIN ComputeTaskSla(task, rows) :
                    CountedOnce(ComputeTaskSla(task, rows)[n])
<1>1. SamplesOK => P
  <2> SUFFICES ASSUME SamplesOK, NEW n \in DOMAIN ComputeTaskSla(task, rows)
               PROVE  CountedOnce(ComputeTaskSla(task, rows)[n])
    OBVIOUS
  <2>1. ComputeTaskSla(task, rows)[n] = NodeAgg(task, rows, n)
    BY DEF ComputeTaskSla
  <2>2. Len(rows) \in Nat /\ DOMAIN rows = 1..Len(rows)
    BY DEF SamplesOK
  <2>3. /\ NodeAgg(task, rows, n).samples
            = NodeAgg(task, rows, n).up + NodeAgg(task, rows, n).down + NodeAgg(task, rows, n).invalid
        /\ NodeAgg(task, rows, n).availability \in Rates
    BY <2>2, NodeAccounts
  <2>4. ASSUME NEW a, a.samples = a.up + a.down + a.invalid, a.availability \in Rates
        PROVE  CountedOnce(a)
    BY <2>4 DEF CountedOnce, Rates
  <2> QED
    BY <2>1, <2>3, <2>4
<1> QED
  BY <1>1, SamplesInvariant, PTL

-----------------------------------------------------------------------------
(* Windows of maintenance (Uptime). *)

\* How far a clock with d ticks has gone from b to a.
LEMMA Clock ==
    ASSUME NEW d \in Nat \ {0}, NEW a \in Int, NEW b \in Int
    PROVE  (a - b) % d = IF b % d <= a % d THEN (a % d) - (b % d) ELSE (a % d) - (b % d) + d
<1>1. /\ a % d \in 0..(d-1) /\ a \div d \in Int /\ a = d * (a \div d) + (a % d)
      /\ b % d \in 0..(d-1) /\ b \div d \in Int /\ b = d * (b \div d) + (b % d)
  BY DivMod
<1> DEFINE x == a \div d
           y == b \div d
           m == a % d
           n == b % d
<1>2. x \in Int /\ y \in Int /\ m \in 0..(d-1) /\ n \in 0..(d-1) /\ a = d * x + m /\ b = d * y + n
  BY <1>1
<1> HIDE DEF x, y, m, n
<1>3. a - b = d * (x - y) + (m - n) /\ a - b = d * (x - y - 1) + (m - n + d)
  BY <1>2
<1>4. CASE n <= m
  <2>1. m - n \in 0..(d-1)
    BY <1>2, <1>4
  <2>2. a - b \in Int /\ x - y \in Int /\ a - b = d * (x - y) + (m - n)
    BY <1>2, <1>3
  <2>3. (a - b) % d = m - n
    BY <2>1, <2>2, ModUnique, Zenon
  <2> QED
    BY <1>4, <2>3 DEF m, n
<1>5. CASE ~ (n <= m)
  <2>1. m - n + d \in 0..(d-1)
    BY <1>2, <1>5
  <2>2. a - b \in Int /\ x - y - 1 \in Int /\ a - b = d * (x - y - 1) + (m - n + d)
    BY <1>2, <1>3
  <2>3. (a - b) % d = m - n + d
    BY <2>1, <2>2, ModUnique, Zenon
  <2> QED
    BY <1>5, <2>3 DEF m, n
<1> QED
  BY <1>4, <1>5

\* A window covers what was planned for it, by clock or by date, over midnight
\* or not, before its day or after it, for days of any length: covers
\* (maintenance.go), for the windows that POST /maintenance lets pass.
THEOREM CoversAsPlanned ==
    ASSUME NEW w, w.start \in Int, w.end \in Int, Sensible(w), NEW t \in Int
    PROVE  Covers(w, t) <=> Planned(w, t)
<1>1. CASE w.daily
  <2> DEFINE s == w.start % Day
             e == w.end % Day
             c == t % Day
  <2>0. Day \in Nat \ {0}
    BY MeasuresAssumption
  <2>1. s \in 0..(Day - 1) /\ e \in 0..(Day - 1) /\ c \in 0..(Day - 1)
    BY <2>0, DivMod
  <2>2. s # e
    BY <1>1 DEF Sensible
  <2>3. /\ (t - w.start) % Day = IF s <= c THEN c - s ELSE (c - s) + Day
        /\ (w.end - w.start) % Day = IF s <= e THEN e - s ELSE (e - s) + Day
    BY <2>0, Clock
  <2>4. Covers(w, t) <=> CASE s < e -> s <= c /\ c < e
                           [] s > e -> s <= c \/ c < e
                           [] OTHER -> FALSE
    BY <1>1 DEF Covers
  <2>5. Planned(w, t) <=> (t - w.start) % Day < (w.end - w.start) % Day
    BY <1>1 DEF Planned
  <2> HIDE DEF s, e, c
  <2>6. CASE s < e
    BY <2>0, <2>1, <2>3, <2>4, <2>5, <2>6
  <2>7. CASE s > e
    BY <2>0, <2>1, <2>3, <2>4, <2>5, <2>7
  <2> QED
    BY <2>0, <2>1, <2>2, <2>6, <2>7
<1>2. CASE ~ w.daily
  BY <1>2 DEF Covers, Planned
<1> QED
  BY <1>1, <1>2
=============================================================================
