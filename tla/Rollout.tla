-------------------------------- MODULE Rollout --------------------------------
(***************************************************************************)
(* How a bundle reaches the nodes: the polling agent (agent/main.py), the  *)
(* node's entrypoint script (deploy/node-entrypoint.sh), the endpoint they *)
(* poll, and as much of Vector as the two rely on.                         *)
(*                                                                         *)
(* The control plane is its abstract registry, which BundleStore           *)
(* implements.  A node keeps two files: the config Vector runs, replaced   *)
(* by a rename, and state.json with the version the agent thinks it has,   *)
(* written after the config and in place.  Vector reads the config when it *)
(* starts and whenever it changes; it refuses one it does not accept, by   *)
(* exiting when it starts and by keeping the old one when it reloads.      *)
(*                                                                         *)
(* A container that is killed restarts on the files it left.  A power      *)
(* failure that loses a completed rename is not modelled.                  *)
(***************************************************************************)
EXTENDS ReleaseRegistry

CONSTANTS
    Nodes,        \* the proxy nodes
    Good,         \* the contents a node's Vector accepts
    Missing,      \* there is no config file
    Torn,         \* the forward-everything config, written in part
    Fallback,     \* the forward-everything config
    Corrupt,      \* a config that is not what its checksum says
    Down,         \* Vector does not run
    FaultKinds,   \* the faults that may happen
    MaxReleases,  \* bound on the bundles published
    MaxFaults     \* bound on the faults of all nodes together

ASSUME RolloutAssumption ==
    /\ Good \subseteq Contents
    /\ {Missing, Torn, Fallback, Corrupt, Down} \cap Nat = {}
    /\ Down \notin {Missing, Torn, Fallback, Corrupt}
    /\ Missing \notin {Torn, Fallback, Corrupt}
    /\ Fallback \notin {Torn, Corrupt}
    /\ FaultKinds \subseteq {"crash", "torn", "unsaved", "unwritten", "agent"}
    /\ MaxReleases \in Nat
    /\ MaxFaults \in Nat

VARIABLES
    disk,     \* vector.toml of each node: a version or one of the above
    saved,    \* state.json as current_version reads it, 0 when unreadable
    running,  \* the config each node's Vector runs
    stage,    \* where each node's entrypoint script is
    agent,    \* where each node's agent process is
    reply,    \* the bundle the agent downloaded, and whether it is whole
    unsaved,  \* history variable: the nodes where a save was ever cut short
    faults    \* how many faults there have been

nodeVars == <<disk, saved, running, stage, agent, reply, unsaved>>

vars == <<releases, current, disk, saved, running, stage, agent, reply,
          unsaved, faults>>

Versions == 1..MaxReleases

Reply == [version: 0..MaxReleases, whole: BOOLEAN]

NoReply == [version |-> 0, whole |-> FALSE]

\* Vector starts on, or reloads, this config file.
Accepted(file) ==
    \/ file = Fallback
    \/ file \in 1..Len(releases) /\ releases[file] \in Good

Init ==
    /\ RegistryInit
    /\ disk = [n \in Nodes |-> Missing]
    /\ saved = [n \in Nodes |-> 0]
    /\ running = [n \in Nodes |-> Down]
    /\ stage = [n \in Nodes |-> "boot"]
    /\ agent = [n \in Nodes |-> "off"]
    /\ reply = [n \in Nodes |-> NoReply]
    /\ unsaved = {}
    /\ faults = 0

-----------------------------------------------------------------------------
\* The control plane.

Publish ==
    /\ Len(releases) < MaxReleases
    /\ \E c \in Contents : Release(c)
    /\ UNCHANGED <<nodeVars, faults>>

RollBack ==
    /\ \E v \in 1..Len(releases) : Revert(v)
    /\ UNCHANGED <<nodeVars, faults>>

-----------------------------------------------------------------------------
\* The agent.  The same code runs as `ssagent --once` before Vector starts
\* (stage "once") and as a daemon beside it (stage "up").

Set(f, n, value) == f' = [f EXCEPT ![n] = value]

\* poll_once has returned or raised: one poll ends --once, the daemon's loop
\* catches what it raised and sleeps.
Polled(n) ==
    /\ Set(agent, n, IF stage[n] = "once" THEN "off" ELSE "idle")
    /\ Set(reply, n, NoReply)
    /\ UNCHANGED <<releases, current, running, stage>>

\* Mistake: only a higher version counts as a change.
FetchNewer(n, whole) ==
    /\ agent[n] = "idle"
    /\ current > saved[n]
    /\ Set(agent, n, "fetched")
    /\ Set(reply, n, [version |-> current, whole |-> whole])
    /\ UNCHANGED <<releases, current, disk, saved, running, stage, unsaved,
                   faults>>

\* GET /api/agent/bundle?since=...: the active bundle, when its version is
\* not the one the node says it has.  The download may be damaged.
Fetch(n, whole) ==
    /\ agent[n] = "idle"
    /\ current \notin {0, saved[n]}
    /\ Set(agent, n, "fetched")
    /\ Set(reply, n, [version |-> current, whole |-> whole])
    /\ UNCHANGED <<releases, current, disk, saved, running, stage, unsaved,
                   faults>>

\* Unreachable, 404, or nothing new.  For the daemon this changes nothing.
PollEmpty(n) ==
    /\ agent[n] = "idle"
    /\ stage[n] = "once"
    /\ Polled(n)
    /\ UNCHANGED <<disk, saved, unsaved, faults>>

\* Mistake: the version is saved although nothing was written.
DiscardAndSave(n) ==
    /\ agent[n] = "fetched"
    /\ ~reply[n].whole
    /\ Set(saved, n, reply[n].version)
    /\ Polled(n)
    /\ UNCHANGED <<disk, unsaved, faults>>

\* write_config: a download that does not match its checksum is not applied.
Discard(n) ==
    /\ agent[n] = "fetched"
    /\ ~reply[n].whole
    /\ Polled(n)
    /\ UNCHANGED <<disk, saved, unsaved, faults>>

\* Mistake: the checksum is not compared.
ReplaceUnchecked(n) ==
    /\ agent[n] = "fetched"
    /\ Set(disk, n, IF reply[n].whole THEN reply[n].version ELSE Corrupt)
    /\ Set(agent, n, "replaced")
    /\ UNCHANGED <<releases, current, saved, running, stage, reply, unsaved,
                   faults>>

\* write_config: the temporary file is complete and renamed over the config.
Replace(n) ==
    /\ agent[n] = "fetched"
    /\ reply[n].whole
    /\ Set(disk, n, reply[n].version)
    /\ Set(agent, n, "replaced")
    /\ UNCHANGED <<releases, current, saved, running, stage, reply, unsaved,
                   faults>>

\* _save_state.
Save(n) ==
    /\ agent[n] = "replaced"
    /\ Set(saved, n, reply[n].version)
    /\ Polled(n)
    /\ UNCHANGED <<disk, unsaved, faults>>

-----------------------------------------------------------------------------
\* The entrypoint script and Vector.

\* Vector and the daemon are started, the script waits for Vector.
Launched(n) ==
    /\ Set(stage, n, "up")
    /\ Set(agent, n, "idle")
    /\ UNCHANGED <<releases, current, saved, running, reply, unsaved, faults>>

\* No config file: poll once first.
FetchFirst(n) ==
    /\ stage[n] = "boot"
    /\ disk[n] = Missing
    /\ Set(stage, n, "once")
    /\ Set(agent, n, "idle")
    /\ UNCHANGED <<releases, current, disk, saved, running, reply, unsaved,
                   faults>>

\* A config file exists, from before or from that poll.
Launch(n) ==
    /\ stage[n] = "boot" \/ (stage[n] = "once" /\ agent[n] = "off")
    /\ disk[n] # Missing
    /\ Launched(n)
    /\ UNCHANGED disk

\* Mistake: the script does not look for the file again after the poll.
OpenAnyway(n) ==
    /\ stage[n] = "once" /\ agent[n] = "off"
    /\ Set(disk, n, Torn)
    /\ Set(stage, n, "writing")
    /\ UNCHANGED <<releases, current, saved, running, agent, reply, unsaved,
                   faults>>

\* Mistake: without a bundle the node waits for one instead of starting.
NeverOpens(n) == FALSE

\* Still none: the shell creates the file, ...
OpenFallback(n) ==
    /\ stage[n] = "once" /\ agent[n] = "off"
    /\ disk[n] = Missing
    /\ Set(disk, n, Torn)
    /\ Set(stage, n, "writing")
    /\ UNCHANGED <<releases, current, saved, running, agent, reply, unsaved,
                   faults>>

\* ... and the here-document fills it.
WriteFallback(n) ==
    /\ stage[n] = "writing"
    /\ Set(disk, n, Fallback)
    /\ Launched(n)

StartVector(n) ==
    /\ stage[n] = "up" /\ running[n] = Down
    /\ Accepted(disk[n])
    /\ Set(running, n, disk[n])
    /\ UNCHANGED <<releases, current, disk, saved, stage, agent, reply,
                   unsaved, faults>>

\* The container ends with all its processes; it is started again.
Restarted(n) ==
    /\ Set(stage, n, "boot")
    /\ Set(agent, n, "off")
    /\ Set(running, n, Down)
    /\ Set(reply, n, NoReply)
    /\ UNCHANGED <<releases, current, disk>>

\* Vector refuses the config it reads when it starts, ...
RefuseConfig(n) ==
    /\ stage[n] = "up" /\ running[n] = Down
    /\ ~Accepted(disk[n])
    /\ Set(stage, n, "failed")
    /\ UNCHANGED <<releases, current, disk, saved, running, agent, reply,
                   unsaved, faults>>

\* state.json after the process that may be writing it is gone.
StateAfterKill(n) ==
    \/ agent[n] # "replaced" /\ UNCHANGED <<saved, unsaved>>
    \/ /\ agent[n] = "replaced"
       /\ UNCHANGED saved \/ Set(saved, n, 0)
       /\ unsaved' = unsaved \cup {n}

\* Mistake: the script waits for the daemon too (wait -n).
EitherExits(n) ==
    /\ \/ stage[n] = "failed"
       \/ stage[n] = "up" /\ agent[n] = "off"
    /\ Restarted(n)
    /\ StateAfterKill(n)
    /\ UNCHANGED faults

\* ... and exits, which ends the script, wherever the daemon has got to.
VectorExits(n) ==
    /\ stage[n] = "failed"
    /\ Restarted(n)
    /\ StateAfterKill(n)
    /\ UNCHANGED faults

\* --watch-config, or the agent's SIGHUP: Vector sees that the file changed.
Reload(n) ==
    /\ running[n] # Down
    /\ disk[n] # running[n]
    /\ Accepted(disk[n])
    /\ Set(running, n, disk[n])
    /\ UNCHANGED <<releases, current, disk, saved, stage, agent, reply,
                   unsaved, faults>>

-----------------------------------------------------------------------------
\* Faults.

Fault(kind) ==
    /\ kind \in FaultKinds
    /\ faults < MaxFaults
    /\ faults' = faults + 1

\* The container is killed while no file is being written.
Crash(n) ==
    /\ Fault("crash")
    /\ stage[n] # "writing" /\ agent[n] # "replaced"
    /\ Restarted(n)
    /\ UNCHANGED <<saved, unsaved>>

\* It is killed, or the disk is full, inside the here-document.
CrashWriting(n) ==
    /\ Fault("torn")
    /\ stage[n] = "writing"
    /\ Restarted(n)
    /\ UNCHANGED <<saved, unsaved>>

\* It is killed between the rename and the end of _save_state, which has
\* emptied state.json or not.
CrashSaving(n) ==
    /\ Fault("unsaved")
    /\ agent[n] = "replaced"
    /\ Restarted(n)
    /\ StateAfterKill(n)

\* _save_state raises: state.json cannot be opened or cannot be filled.
SaveFails(n) ==
    /\ Fault("unsaved")
    /\ agent[n] = "replaced"
    /\ Polled(n)
    /\ StateAfterKill(n)
    /\ UNCHANGED disk

\* Writing the temporary file raises.
WriteFails(n) ==
    /\ Fault("unwritten")
    /\ agent[n] = "fetched" /\ reply[n].whole
    /\ Polled(n)
    /\ UNCHANGED <<disk, saved, unsaved>>

\* The daemon dies by itself.  Nothing starts it again before the container.
AgentDies(n) ==
    /\ Fault("agent")
    /\ stage[n] = "up" /\ agent[n] # "off"
    /\ Set(agent, n, "off")
    /\ Set(reply, n, NoReply)
    /\ StateAfterKill(n)
    /\ UNCHANGED <<releases, current, disk, running, stage>>

-----------------------------------------------------------------------------

\* What the processes of a node do without being asked or disturbed.
Works(n) ==
    \/ PollEmpty(n)
    \/ Discard(n)
    \/ Replace(n)
    \/ Save(n)
    \/ FetchFirst(n)
    \/ Launch(n)
    \/ OpenFallback(n)
    \/ WriteFallback(n)

\* What Vector does by itself.
VectorWorks(n) ==
    \/ StartVector(n)
    \/ RefuseConfig(n)
    \/ VectorExits(n)
    \/ Reload(n)

NodeFails(n) ==
    \/ Crash(n)
    \/ CrashWriting(n)
    \/ CrashSaving(n)
    \/ SaveFails(n)
    \/ WriteFails(n)
    \/ AgentDies(n)

Next ==
    \/ Publish
    \/ RollBack
    \/ \E n \in Nodes :
        \/ Fetch(n, TRUE)
        \/ Fetch(n, FALSE)
        \/ Works(n)
        \/ VectorWorks(n)
        \/ NodeFails(n)

Spec == Init /\ [][Next]_vars

\* The processes of a node run; the control plane need not answer.
FairSpec ==
    Spec /\ \A n \in Nodes : WF_vars(Works(n)) /\ WF_vars(VectorWorks(n))

-----------------------------------------------------------------------------

\* Every variable has its type.
TypeOK ==
    /\ releases \in Seq(Contents)
    /\ Len(releases) <= MaxReleases
    /\ current \in 0..Len(releases)
    /\ disk \in [Nodes -> Versions \cup {Missing, Torn, Fallback}]
    /\ saved \in [Nodes -> 0..MaxReleases]
    /\ running \in [Nodes -> Versions \cup {Fallback, Down}]
    /\ stage \in [Nodes -> {"boot", "once", "writing", "up", "failed"}]
    /\ agent \in [Nodes -> {"off", "idle", "fetched", "replaced"}]
    /\ reply \in [Nodes -> Reply]
    /\ unsaved \subseteq Nodes
    /\ faults \in 0..MaxFaults

\* Whatever fails, a node only ever runs the forward-everything config or a
\* release that exists and that Vector accepts, never a damaged download and
\* never a bundle the binary rejects.
RunsOnlyReleases ==
    \A n \in Nodes :
        /\ disk[n] \in 1..Len(releases) \cup {Missing, Torn, Fallback}
        /\ running[n] \in {Down, Fallback} \cup
               {v \in 1..Len(releases) : releases[v] \in Good}

\* A node that has had a release keeps one for good, through any crash: the
\* entrypoint never puts the forward-everything config in its place.
CacheNeverLost ==
    [][ \A n \in Nodes : disk[n] \in Versions => disk'[n] \in Versions ]_disk

\* Once Vector runs, nothing the control plane publishes and nothing that
\* happens to the agent stops it: only the end of its container does.
VectorKeepsRunning ==
    [][ \A n \in Nodes :
          running[n] # Down /\ running'[n] = Down =>
              Crash(n) \/ CrashSaving(n) ]_vars

\* The endpoint answers "unchanged" only to a node that has the active bundle.
UnchangedMeansActive ==
    \A n \in Nodes :
        agent[n] = "idle" /\ current # 0 /\ saved[n] = current =>
            disk[n] = current

\* That is so on a node where no save was ever cut short: no other fault, and
\* no order of downloads and rollbacks, makes a node believe that it has a
\* bundle it does not have.
HonestUnlessCut ==
    \A n \in Nodes \ unsaved :
        agent[n] # "replaced" /\ saved[n] # 0 => saved[n] = disk[n]

\* The ways a node can miss a bundle for good: its state file names that
\* version and its config is another, its agent is dead, or it keeps a config
\* that Vector does not start on.
Stuck(n) ==
    \/ saved[n] = current /\ disk[n] # current
    \/ stage[n] = "up" /\ agent[n] = "off"
    \/ running[n] = Down /\ ~Accepted(disk[n])

\* There is no other way.  If a node that asks again and again for a bundle
\* that is there gets it undamaged at last, then a bundle Vector accepts that
\* stays active is at last what the node runs, unless it is stuck in one of
\* these three.
NodesConverge ==
    \A n \in Nodes :
        SF_vars(Fetch(n, TRUE)) =>
            \A v \in Versions :
                current = v /\ releases[v] \in Good
                    ~> current # v \/ running[n] = v \/ Stuck(n)

\* A node whose Vector is down gets it up again, control plane or not, unless
\* the config it keeps is one that Vector does not start on.
NodeComesUp ==
    \A n \in Nodes :
        []<>(running[n] # Down \/ (disk[n] # Missing /\ ~Accepted(disk[n])))

=============================================================================
