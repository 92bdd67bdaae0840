------------------------------- MODULE Agent -------------------------------
(***************************************************************************)
(* The guard of a donated node (agent/main.go) and what the centre tells   *)
(* it (agent.go).                                                          *)
(*                                                                         *)
(* The agent asks the centre every few minutes, replaces the binary of     *)
(* the node if the centre has another, writes the configuration, restarts  *)
(* the node's service, and replaces itself.  Its process may die between   *)
(* any two of these steps, and each of them may fail; systemd brings it,   *)
(* and the node, back (agent_script.go).  systemd, the disk and the node   *)
(* are external; what the disk has taken it keeps, and renames at once.  A *)
(* configuration is its key, a binary its version; Broken is a part of a   *)
(* file, or one that was altered on its way.                               *)
(***************************************************************************)
EXTENDS Integers

CONSTANTS Keys,        \* keys a node may have
          Builds,      \* versions of the binaries the centre may offer
          Nothing,
          MaxChanges,  \* bound: changes at the centre
          MaxFaults    \* bound: deaths, failed calls and stops by hand

Broken == 0

ASSUME AgentAssumption ==
    /\ Nothing \notin Keys /\ Builds \subseteq Nat \ {Broken}
    /\ MaxChanges \in Nat /\ MaxFaults \in Nat

VARIABLES centre,    \* the donation, its key, its owner's token, the files on offer
          at,        \* where step() is; "down": no process
          got,       \* the answer it works off
          upgraded,  \* upgradeNode has replaced the binary
          env,       \* the key in the environment file, or Nothing
          bin,       \* version of the node's binary on disk
          self,      \* version of the agent's binary on disk
          temp,      \* what is in the .new file that a download left or is writing
          fetching,  \* how far fetchVerified is, and what the answer brings it
          unit,      \* the node's service: enabled, up, and what it was started with
          changes, faults,
          missed     \* history: a restart that was due failed or was never called

agentVars == <<centre, at, got, upgraded, env, bin, self, temp, fetching, unit, changes,
               faults, missed>>
disk == <<env, bin, self, temp>>
memory == <<got, upgraded, fetching>>

Statuses == {"pending", "approved", "ended"}  \* ended: rejected, disabled, withdrawn, gone
Offers == Builds \cup {Nothing}   \* a file in agent-dir, or none
Centre == [status : Statuses, key : Keys, token : BOOLEAN, node : Offers, agent : Offers]
NoAnswer == [key |-> Nothing, node |-> Nothing, agent |-> Nothing]
Answer == [key : Keys, node : Offers, agent : Offers] \cup {NoAnswer}
NotFetching == [at |-> "no", body |-> Nothing]
Fetching == {NotFetching} \cup [at : {"copy", "rename"}, body : Builds \cup {Broken}]
Unit == [enabled : BOOLEAN, up : BOOLEAN, env : Keys \cup {Nothing}, bin : Builds]

-----------------------------------------------------------------------------
(* The centre. *)

\* agentBootstrap: the token first, then the donation's status.
Bootstrap ==
    IF ~centre.token THEN "revoked"
    ELSE CASE centre.status = "approved" -> "approved"
           [] centre.status = "pending"  -> "pending"
           [] OTHER                      -> "revoked"
Configuration == [key |-> centre.key, node |-> centre.node, agent |-> centre.agent]

Change(new) ==
    /\ changes < MaxChanges /\ changes' = changes + 1
    /\ centre' = new /\ new # centre
    /\ UNCHANGED <<at, memory, disk, unit, faults, missed>>

\* Reviews, edits and withdrawals.
SetStatus == \E s \in Statuses : Change([centre EXCEPT !.status = s])
\* POST /donations/:id/rotate-key.
RotateKey == \E k \in Keys : Change([centre EXCEPT !.key = k])
\* POST /admin/agent/token: the installed agent keeps the old one.
ResetToken == Change([centre EXCEPT !.token = FALSE])
\* Other files in agent-dir; agentFileSHA notices.
Publish == \E v \in Offers : \/ Change([centre EXCEPT !.node = v])
                             \/ Change([centre EXCEPT !.agent = v])

-----------------------------------------------------------------------------
(* One round of the agent. *)

Agent(from, to) == at = from /\ at' = to /\ UNCHANGED <<centre, changes>>
\* step() returns, or its process is gone.
Forget == got' = NoAnswer /\ upgraded' = FALSE /\ fetching' = NotFetching
Fault == faults < MaxFaults /\ faults' = faults + 1
Started(u) == [u EXCEPT !.up = TRUE, !.env = env, !.bin = bin]

\* fetch: approved, ...
FetchApproved ==
    /\ Bootstrap = "approved" /\ Agent("idle", "node")
    /\ got' = Configuration /\ upgraded' = FALSE
    /\ UNCHANGED <<disk, fetching, unit, faults, missed>>

\* ... revoked, ...
FetchRevoked ==
    /\ Bootstrap = "revoked" /\ Agent("idle", "clear")
    /\ UNCHANGED <<memory, disk, unit, faults, missed>>

\* (which a centre that cannot read its store says as well: 401 or 404) ...
FetchRefused ==
    /\ Agent("idle", "clear") /\ Fault
    /\ UNCHANGED <<memory, disk, unit, missed>>

\* ... or nothing to act on: still pending, or no answer to make sense of.
\* (The latter is a fault: it may not go on for ever.)
FetchNothing ==
    /\ Agent("idle", "idle")
    /\ \/ Bootstrap = "pending" /\ UNCHANGED faults
       \/ Fault
    /\ UNCHANGED <<memory, disk, unit, missed>>

\* upgradeNode and upgradeSelf, each for its file.
Upgrades == at \in {"node", "self"}
Have == IF at = "node" THEN bin ELSE self
Want == IF at = "node" THEN got.node ELSE got.agent
Offered == IF at = "node" THEN centre.node ELSE centre.agent
UpToDate(version, want) == want \in {Nothing, version}

\* Without a new binary the round goes on, or is over.
GoesOn ==
    \/ at = "node" /\ at' = "env" /\ fetching' = NotFetching /\ UNCHANGED <<got, upgraded>>
    \/ at = "self" /\ at' = "idle" /\ Forget

NothingNewer ==
    /\ Upgrades /\ fetching = NotFetching /\ UpToDate(Have, Want)
    /\ GoesOn
    /\ UNCHANGED <<centre, changes, disk, unit, faults, missed>>

\* fetchVerified: the file is asked for and the temporary one truncated; what
\* arrives may be newer than what was announced, or broken.
Contents(offer) == {offer, Broken} \ {Nothing}

Download ==
    /\ Upgrades /\ fetching = NotFetching /\ ~UpToDate(Have, Want)
    /\ Offered # Nothing
    /\ \E body \in Contents(Offered) :
         /\ fetching' = [at |-> "copy", body |-> body]
         /\ IF body = Broken THEN Fault ELSE UNCHANGED faults
    /\ temp' = Broken
    /\ UNCHANGED <<centre, changes, at, got, upgraded, env, bin, self, unit, missed>>

\* There is none, or the call or the opening of the temporary file fails.
NotDownloaded ==
    /\ Upgrades /\ fetching = NotFetching /\ ~UpToDate(Have, Want)
    /\ (Offered = Nothing /\ UNCHANGED faults) \/ Fault
    /\ GoesOn
    /\ UNCHANGED <<centre, changes, disk, unit, missed>>

\* It has all arrived, and is removed unless its sum is the one announced.
Mut_Unverified(content, want) == content # Nothing
Verified(content, want) == content = want

Downloaded ==
    /\ fetching.at = "copy"
    /\ IF Verified(fetching.body, Want)
       THEN /\ temp' = fetching.body /\ fetching' = [fetching EXCEPT !.at = "rename"]
            /\ UNCHANGED <<at, got, upgraded>>
       ELSE temp' = Nothing /\ GoesOn
    /\ UNCHANGED <<centre, changes, env, bin, self, unit, faults, missed>>

\* It takes the place of the file.  For a new agent the process exits.
ReplaceNode ==
    /\ at = "node" /\ fetching.at = "rename"
    /\ bin' = temp /\ temp' = Nothing /\ fetching' = NotFetching
    /\ upgraded' = TRUE /\ at' = "env"
    /\ UNCHANGED <<centre, changes, got, env, self, unit, faults, missed>>

ReplaceSelf ==
    /\ at = "self" /\ fetching.at = "rename"
    /\ self' = temp /\ temp' = Nothing
    /\ at' = "down" /\ Forget
    /\ UNCHANGED <<centre, changes, env, bin, unit, faults, missed>>

\* Or it stays where it is.
NotReplaced ==
    /\ fetching.at = "rename" /\ Fault /\ GoesOn
    /\ UNCHANGED <<centre, changes, disk, unit, missed>>

\* The environment file is compared with what it should hold ...
Mut_OnlyTheFile ==
    /\ env = got.key
    /\ Agent("env", "start")
    /\ UNCHANGED <<memory, disk, unit, faults, missed>>
Unchanged ==
    /\ env = got.key /\ ~upgraded
    /\ Agent("env", "start")
    /\ UNCHANGED <<memory, disk, unit, faults, missed>>

\* ... and written otherwise: it is truncated first.
Truncate ==
    /\ ~(env = got.key /\ ~upgraded)
    /\ Agent("env", "write")
    /\ env' = Nothing
    /\ UNCHANGED <<memory, bin, self, temp, unit, faults, missed>>

Write ==
    /\ Agent("write", "restart")
    /\ env' = got.key
    /\ UNCHANGED <<memory, bin, self, temp, unit, faults, missed>>

\* The round ends with an error: the file cannot be opened and is as it was, or
\* cannot be written, or not closed.  Of a file that is as it should be, or a
\* binary that was replaced, the next round will not know.
WriteFails ==
    /\ Fault /\ Forget
    /\ \/ /\ ~(env = got.key /\ ~upgraded)
          /\ Agent("env", "idle") /\ UNCHANGED env
          /\ missed' = (missed \/ (unit.up /\ upgraded))
       \/ /\ Agent("write", "idle") /\ env' \in {Nothing, got.key}
          /\ missed' = (missed \/ (unit.up /\ env' # Nothing))
    /\ UNCHANGED <<bin, self, temp, unit>>

\* systemctl enable, of which the result is ignored, and restart.
RestartUnit ==
    /\ Agent("restart", "self")
    /\ \E e \in {TRUE, unit.enabled} : unit' = [Started(unit) EXCEPT !.enabled = e]
    /\ missed' = FALSE
    /\ UNCHANGED <<memory, disk, faults>>

\* A failed restart leaves the old process, or none.
RestartFails ==
    /\ Agent("restart", "self") /\ Fault
    /\ \E up \in {FALSE, unit.up}, e \in {TRUE, unit.enabled} :
         /\ unit' = [unit EXCEPT !.up = up, !.enabled = e]
         /\ missed' = up
    /\ UNCHANGED <<memory, disk>>

\* systemctl start: nothing happens to a service that is up.
Mut_NoStart ==
    /\ Agent("start", "self")
    /\ UNCHANGED <<memory, disk, unit, faults, missed>>
StartUnit ==
    /\ Agent("start", "self")
    /\ unit' = IF unit.up THEN unit ELSE Started(unit)
    /\ missed' = (missed /\ unit.up)
    /\ UNCHANGED <<memory, disk, faults>>

StartFails ==
    /\ ~unit.up /\ Agent("start", "self") /\ Fault
    /\ UNCHANGED <<memory, disk, unit, missed>>

\* Revoked: the file is emptied and the service disabled, whatever comes of
\* it, and then stopped.
Clear ==
    /\ Agent("clear", "disable")
    /\ env' \in {Nothing, env}
    /\ UNCHANGED <<memory, bin, self, temp, unit, faults, missed>>

Disable ==
    /\ Agent("disable", "stop")
    /\ \E e \in {FALSE, unit.enabled} : unit' = [unit EXCEPT !.enabled = e]
    /\ UNCHANGED <<memory, disk, faults, missed>>

Stop ==
    /\ Agent("stop", "idle")
    /\ unit' = [unit EXCEPT !.up = FALSE] /\ missed' = FALSE
    /\ UNCHANGED <<memory, disk, faults>>

StopFails ==
    /\ Agent("stop", "idle") /\ Fault
    /\ UNCHANGED <<memory, disk, unit, missed>>

-----------------------------------------------------------------------------
(* systemd and the machine (external). *)

\* Restart=always of the agent.
AgentUp ==
    /\ Agent("down", "idle")
    /\ UNCHANGED <<memory, disk, unit, faults, missed>>

\* The agent's process dies: what it was about to do is forgotten, what it has
\* written stays.
AgentDies ==
    /\ at # "down" /\ Fault
    /\ at' = "down" /\ Forget
    /\ missed' = (missed \/ (unit.up /\ (at = "restart" \/ (upgraded /\ at = "env"))))
    /\ UNCHANGED <<centre, disk, unit, changes>>

\* The node dies and comes back with what is on the disk.
NodeDies ==
    /\ unit.up /\ Fault
    /\ unit' = Started(unit) /\ missed' = FALSE
    /\ UNCHANGED <<centre, at, memory, disk, changes>>

\* Somebody stops the node.
StoppedByHand ==
    /\ unit.up /\ Fault
    /\ unit' = [unit EXCEPT !.up = FALSE] /\ missed' = FALSE
    /\ UNCHANGED <<centre, at, memory, disk, changes>>

\* The machine boots: enabled services start.
Reboot ==
    /\ Fault
    /\ at' = "down" /\ Forget
    /\ unit' = IF unit.enabled THEN Started(unit) ELSE [unit EXCEPT !.up = FALSE]
    /\ missed' = FALSE
    /\ UNCHANGED <<centre, disk, changes>>

\* The installer leaves the agent running, the node's service neither enabled
\* nor up, and an empty file.
AgentInit ==
    /\ \E k \in Keys, v \in Builds :
         /\ centre = [status |-> "approved", key |-> k, token |-> TRUE, node |-> v, agent |-> v]
         /\ bin = v /\ self = v
         /\ unit = [enabled |-> FALSE, up |-> FALSE, env |-> Nothing, bin |-> v]
    /\ at = "idle" /\ got = NoAnswer /\ upgraded = FALSE /\ env = Nothing
    /\ temp = Nothing /\ fetching = NotFetching
    /\ changes = 0 /\ faults = 0 /\ missed = FALSE

AgentRound ==
    \/ FetchApproved \/ FetchRevoked
    \/ NothingNewer \/ Download \/ NotDownloaded \/ Downloaded \/ ReplaceNode \/ ReplaceSelf
    \/ Unchanged \/ Truncate \/ Write \/ RestartUnit \/ StartUnit
    \/ Clear \/ Disable \/ Stop \/ AgentUp

Failure ==
    \/ FetchNothing \/ FetchRefused \/ NotReplaced \/ WriteFails \/ RestartFails \/ StartFails \/ StopFails
    \/ AgentDies \/ NodeDies \/ StoppedByHand \/ Reboot

AgentNext == AgentRound \/ Failure \/ SetStatus \/ RotateKey \/ ResetToken \/ Publish

AgentSpec == AgentInit /\ [][AgentNext]_agentVars

\* systemd keeps the agent running and its loop goes on.
AgentFairSpec == AgentSpec /\ WF_agentVars(AgentRound)

-----------------------------------------------------------------------------
\* The types of the variables.
AgentTypeOK ==
    /\ centre \in Centre /\ got \in Answer /\ upgraded \in BOOLEAN
    /\ at \in {"down", "idle", "node", "env", "write", "restart", "start", "self",
               "clear", "disable", "stop"}
    /\ env \in Keys \cup {Nothing} /\ unit \in Unit
    /\ temp \in Builds \cup {Nothing, Broken} /\ fetching \in Fetching
    /\ changes \in 0 .. MaxChanges /\ faults \in 0 .. MaxFaults /\ missed \in BOOLEAN

\* "下载、校验、原子替换" (agent/main.go:187): whatever is published, cut short or
\* altered, and wherever the agent dies between the truncation of the temporary
\* file and the renaming, the binaries on disk are whole.
BinariesWhole == {bin, self} \subseteq Builds

\* At the end of a round that the centre approved, a service that is up runs
\* the configuration of that answer and the binary on disk, unless a restart
\* that was due failed or was never called since it last started
\* ("配置变化时重启节点服务", agent/main.go:4).
RunsWhatWasApplied ==
    at = "self" /\ unit.up => missed \/ (unit.env = got.key /\ unit.bin = bin)

\* The unit and the disk have their types, and no broken binary is on the disk
\* (agent/main.go:203-230).
AgentInv == AgentTypeOK /\ BinariesWhole

\* When the donation ends for good the service stops for good
\* (agent/main.go:6), and while it stays approved the service runs
\* in the end, with the newest key and binary or after a restart it missed.
AgentFollows ==
    /\ <>[](Bootstrap = "revoked") => <>[](~unit.up)
    /\ <>[](Bootstrap = "approved")
       => <>[](unit.up /\ (missed \/ (unit.env = centre.key /\ UpToDate(unit.bin, centre.node))))
=============================================================================
