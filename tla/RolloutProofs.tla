----------------------------- MODULE RolloutProofs -----------------------------
(***************************************************************************)
(* What Rollout guarantees for any number of nodes, releases and faults.   *)
(***************************************************************************)
EXTENDS Rollout, SequenceTheorems, TLAPS

\* What holds of one node: the agent only holds bundles that exist, what it
\* has just put on disk is what it is about to save, and Vector runs only
\* once the script has started it and not while it refuses its config.
NodeOK(n) ==
    /\ agent[n] \in {"fetched", "replaced"} =>
           reply[n].version \in 1..Len(releases)
    /\ agent[n] = "replaced" => disk[n] = reply[n].version
    /\ stage[n] \in {"boot", "writing"} => agent[n] = "off"
    /\ stage[n] # "up" => running[n] = Down
    /\ stage[n] = "writing" => disk[n] = Torn

NodesOK == \A n \in Nodes : NodeOK(n)

IInv ==
    /\ TypeOK
    /\ NodesOK
    /\ RunsOnlyReleases
    /\ HonestUnlessCut

-----------------------------------------------------------------------------

LEMMA InitIInv == Init => IInv
<1> SUFFICES ASSUME Init PROVE IInv
  OBVIOUS
<1>1. releases = <<>> /\ current = 0 /\ Len(releases) = 0
  BY DEF Init, RegistryInit
<1>2. TypeOK
  BY <1>1, RolloutAssumption DEF Init, TypeOK, Reply, NoReply
<1>3. NodesOK
  BY <1>1 DEF Init, NodesOK, NodeOK
<1>4. RunsOnlyReleases /\ HonestUnlessCut
  BY <1>1 DEF Init, RunsOnlyReleases, HonestUnlessCut
<1> QED
  BY <1>2, <1>3, <1>4 DEF IInv

\* A new release, or a revert, takes nothing away from what nodes have.
LEMMA ControlKeepsIInv ==
    ASSUME IInv, Publish \/ RollBack
    PROVE  IInv'
<1>1. /\ UNCHANGED <<disk, saved, running, stage, agent, reply, unsaved,
                     faults>>
      /\ releases \in Seq(Contents) /\ Len(releases) \in Nat
      /\ Len(releases) <= MaxReleases
  BY LenProperties DEF Publish, RollBack, nodeVars, IInv, TypeOK
<1>2. /\ releases' \in Seq(Contents)
      /\ Len(releases') \in Nat
      /\ Len(releases) <= Len(releases') /\ Len(releases') <= MaxReleases
      /\ \A v \in 1..Len(releases) : releases'[v] = releases[v]
      /\ current' \in 0..Len(releases')
  <2>1. CASE Publish
    <3>1. PICK c \in Contents :
            releases' = Append(releases, c) /\ current' = Len(releases) + 1
      BY <2>1 DEF Publish, Release
    <3> QED
      BY <1>1, <2>1, <3>1, AppendProperties, RolloutAssumption DEF Publish
  <2>2. CASE RollBack
    BY <1>1, <2>2 DEF RollBack, Revert
  <2> QED
    BY <2>1, <2>2
<1>3. TypeOK'
  BY <1>1, <1>2 DEF IInv, TypeOK
<1>4. NodesOK'
  BY <1>1, <1>2 DEF IInv, NodesOK, NodeOK
<1>5. RunsOnlyReleases'
  BY <1>1, <1>2 DEF IInv, RunsOnlyReleases
<1>6. HonestUnlessCut'
  BY <1>1 DEF IInv, HonestUnlessCut
<1> QED
  BY <1>3, <1>4, <1>5, <1>6 DEF IInv


\* What the invariant says of one node in particular.
TypeOf(n) ==
    /\ disk[n] \in Versions \cup {Missing, Torn, Fallback}
    /\ saved[n] \in 0..MaxReleases
    /\ running[n] \in Versions \cup {Fallback, Down}
    /\ stage[n] \in {"boot", "once", "writing", "up", "failed"}
    /\ agent[n] \in {"off", "idle", "fetched", "replaced"}
    /\ reply[n] \in Reply

RunsOf(n) ==
    /\ disk[n] \in 1..Len(releases) \cup {Missing, Torn, Fallback}
    /\ running[n] \in {Down, Fallback} \cup
           {v \in 1..Len(releases) : releases[v] \in Good}

HonestOf(n) ==
    n \notin unsaved /\ agent[n] # "replaced" /\ saved[n] # 0 =>
        saved[n] = disk[n]

\* A step of the node n: only n's entry of a function changes, and nothing of
\* the control plane does.
Only(n, f) == DOMAIN f' = Nodes /\ f' = [f EXCEPT ![n] = f'[n]]

OneNode(n) ==
    /\ UNCHANGED <<releases, current>>
    /\ Only(n, disk) /\ Only(n, saved) /\ Only(n, running)
    /\ Only(n, stage) /\ Only(n, agent) /\ Only(n, reply)
    /\ unsaved' \in {unsaved, unsaved \cup {n}}
    /\ faults' \in 0..MaxFaults

LEMMA OneNodeKeepsIInv ==
    ASSUME IInv, NEW n \in Nodes, OneNode(n),
           TypeOf(n)', NodeOK(n)', RunsOf(n)', HonestOf(n)'
    PROVE  IInv'
<1>1. ASSUME NEW m \in Nodes, m # n
      PROVE  /\ disk'[m] = disk[m] /\ saved'[m] = saved[m]
             /\ running'[m] = running[m] /\ stage'[m] = stage[m]
             /\ agent'[m] = agent[m] /\ reply'[m] = reply[m]
             /\ m \in unsaved' <=> m \in unsaved
  BY <1>1 DEF IInv, TypeOK, OneNode, Only
<1>2. UNCHANGED <<releases, current>>
  BY DEF OneNode
<1>3. \A m \in Nodes : TypeOf(m)'
  BY <1>1 DEF IInv, TypeOK, TypeOf
<1>4. \A m \in Nodes : NodeOK(m)'
  BY <1>1, <1>2 DEF IInv, NodesOK, NodeOK
<1>5. \A m \in Nodes : RunsOf(m)'
  BY <1>1, <1>2 DEF IInv, RunsOnlyReleases, RunsOf
<1>6. \A m \in Nodes : HonestOf(m)'
  BY <1>1 DEF IInv, HonestUnlessCut, HonestOf
<1>7. TypeOK'
  <2>1. /\ disk' \in [Nodes -> Versions \cup {Missing, Torn, Fallback}]
        /\ saved' \in [Nodes -> 0..MaxReleases]
        /\ running' \in [Nodes -> Versions \cup {Fallback, Down}]
        /\ stage' \in [Nodes -> {"boot", "once", "writing", "up", "failed"}]
        /\ agent' \in [Nodes -> {"off", "idle", "fetched", "replaced"}]
        /\ reply' \in [Nodes -> Reply]
    BY <1>3 DEF OneNode, Only, IInv, TypeOK, TypeOf
  <2>2. unsaved' \subseteq Nodes /\ faults' \in 0..MaxFaults
    BY DEF OneNode, IInv, TypeOK
  <2> QED
    BY <1>2, <2>1, <2>2 DEF IInv, TypeOK
<1>8. NodesOK' /\ RunsOnlyReleases' /\ HonestUnlessCut'
  BY <1>4, <1>5, <1>6
  DEF NodesOK, RunsOnlyReleases, RunsOf, HonestUnlessCut, HonestOf
<1> QED
  BY <1>7, <1>8 DEF IInv

LEMMA NodeFacts ==
    ASSUME IInv, NEW n \in Nodes
    PROVE  /\ TypeOf(n) /\ NodeOK(n) /\ RunsOf(n) /\ HonestOf(n)
           /\ disk \in [Nodes -> Versions \cup {Missing, Torn, Fallback}]
           /\ saved \in [Nodes -> 0..MaxReleases]
           /\ running \in [Nodes -> Versions \cup {Fallback, Down}]
           /\ stage \in [Nodes -> {"boot", "once", "writing", "up", "failed"}]
           /\ agent \in [Nodes -> {"off", "idle", "fetched", "replaced"}]
           /\ reply \in [Nodes -> Reply]
           /\ faults \in 0..MaxFaults /\ faults \in Nat
           /\ current \in 0..Len(releases)
           /\ Len(releases) \in Nat /\ Len(releases) <= MaxReleases
BY LenProperties, RolloutAssumption
DEF IInv, TypeOK, TypeOf, NodesOK, RunsOnlyReleases, RunsOf, HonestUnlessCut,
    HonestOf

LEMMA NoReplyType == NoReply \in Reply
BY RolloutAssumption DEF NoReply, Reply

\* The steps of the agent.
LEMMA AgentKeepsIInv ==
    ASSUME IInv, NEW n \in Nodes,
           \/ Fetch(n, TRUE) \/ Fetch(n, FALSE) \/ PollEmpty(n)
           \/ Discard(n) \/ Replace(n) \/ Save(n)
    PROVE  IInv'
<1>0. /\ TypeOf(n) /\ NodeOK(n) /\ RunsOf(n) /\ HonestOf(n)
      /\ disk \in [Nodes -> Versions \cup {Missing, Torn, Fallback}]
      /\ saved \in [Nodes -> 0..MaxReleases]
      /\ running \in [Nodes -> Versions \cup {Fallback, Down}]
      /\ stage \in [Nodes -> {"boot", "once", "writing", "up", "failed"}]
      /\ agent \in [Nodes -> {"off", "idle", "fetched", "replaced"}]
      /\ reply \in [Nodes -> Reply] /\ NoReply \in Reply
      /\ faults \in 0..MaxFaults /\ faults \in Nat /\ MaxFaults \in Nat
      /\ current \in 0..Len(releases)
      /\ Len(releases) \in Nat /\ Len(releases) <= MaxReleases
  BY NodeFacts, NoReplyType, RolloutAssumption
<1>1. CASE Fetch(n, TRUE) \/ Fetch(n, FALSE)
  <2>1. PICK whole \in BOOLEAN :
          /\ agent[n] = "idle" /\ current \notin {0, saved[n]}
          /\ agent' = [agent EXCEPT ![n] = "fetched"]
          /\ reply' = [reply EXCEPT
                       ![n] = [version |-> current, whole |-> whole]]
          /\ UNCHANGED <<releases, current, disk, saved, running, stage,
                         unsaved, faults>>
    BY <1>1 DEF Fetch, Set
  <2>2. OneNode(n)
    BY <1>0, <2>1 DEF OneNode, Only
  <2>3. TypeOf(n)'
    <3>1. [version |-> current, whole |-> whole] \in Reply
      BY <1>0, <2>1, RolloutAssumption DEF Reply
    <3> QED
      BY <1>0, <2>1, <3>1 DEF TypeOf, Versions
  <2>4. NodeOK(n)'
    BY <1>0, <2>1 DEF NodeOK
  <2>5. RunsOf(n)'
    BY <1>0, <2>1 DEF RunsOf, NodeOK, Accepted
  <2>6. HonestOf(n)'
    BY <1>0, <2>1, RolloutAssumption DEF HonestOf, NodeOK, TypeOf
  <2> QED
    BY <2>2, <2>3, <2>4, <2>5, <2>6, OneNodeKeepsIInv
<1>2. CASE PollEmpty(n)
  <2>1. /\ agent[n] = "idle" /\ stage[n] = "once"
        /\ agent' = [agent EXCEPT ![n] = "off"]
        /\ reply' = [reply EXCEPT ![n] = NoReply]
        /\ UNCHANGED <<releases, current, disk, saved, running, stage,
                       unsaved, faults>>
    BY <1>2 DEF PollEmpty, Polled, Set
  <2>2. OneNode(n)
    BY <1>0, <2>1 DEF OneNode, Only
  <2>3. TypeOf(n)'
    BY <1>0, <2>1 DEF TypeOf, Versions, NodeOK
  <2>4. NodeOK(n)'
    BY <1>0, <2>1 DEF NodeOK
  <2>5. RunsOf(n)'
    BY <1>0, <2>1 DEF RunsOf, NodeOK, Accepted
  <2>6. HonestOf(n)'
    BY <1>0, <2>1, RolloutAssumption DEF HonestOf, NodeOK, TypeOf
  <2> QED
    BY <2>2, <2>3, <2>4, <2>5, <2>6, OneNodeKeepsIInv
<1>3. CASE Discard(n)
  <2>1. /\ agent[n] = "fetched"
        /\ agent' = [agent EXCEPT
                     ![n] = IF stage[n] = "once" THEN "off" ELSE "idle"]
        /\ reply' = [reply EXCEPT ![n] = NoReply]
        /\ UNCHANGED <<releases, current, disk, saved, running, stage,
                       unsaved, faults>>
    BY <1>3 DEF Discard, Polled, Set
  <2>2. OneNode(n)
    BY <1>0, <2>1 DEF OneNode, Only
  <2>3. TypeOf(n)'
    BY <1>0, <2>1 DEF TypeOf, Versions, NodeOK
  <2>4. NodeOK(n)'
    BY <1>0, <2>1 DEF NodeOK
  <2>5. RunsOf(n)'
    BY <1>0, <2>1 DEF RunsOf, NodeOK, Accepted
  <2>6. HonestOf(n)'
    BY <1>0, <2>1, RolloutAssumption DEF HonestOf, NodeOK, TypeOf
  <2> QED
    BY <2>2, <2>3, <2>4, <2>5, <2>6, OneNodeKeepsIInv
<1>4. CASE Replace(n)
  <2>1. /\ agent[n] = "fetched"
        /\ disk' = [disk EXCEPT ![n] = reply[n].version]
        /\ agent' = [agent EXCEPT ![n] = "replaced"]
        /\ UNCHANGED <<releases, current, saved, running, stage, reply,
                       unsaved, faults>>
    BY <1>4 DEF Replace, Set
  <2>2. OneNode(n)
    BY <1>0, <2>1 DEF OneNode, Only
  <2>3. TypeOf(n)'
    <3>1. reply[n].version \in Versions
      BY <1>0, <2>1, RolloutAssumption DEF NodeOK, Versions
    <3> QED
      BY <1>0, <2>1, <3>1 DEF TypeOf
  <2>4. NodeOK(n)'
    BY <1>0, <2>1 DEF NodeOK
  <2>5. RunsOf(n)'
    BY <1>0, <2>1 DEF RunsOf, NodeOK, Accepted
  <2>6. HonestOf(n)'
    BY <1>0, <2>1, RolloutAssumption DEF HonestOf, NodeOK, TypeOf
  <2> QED
    BY <2>2, <2>3, <2>4, <2>5, <2>6, OneNodeKeepsIInv
<1>5. CASE Save(n)
  <2>1. /\ agent[n] = "replaced"
        /\ saved' = [saved EXCEPT ![n] = reply[n].version]
        /\ agent' = [agent EXCEPT
                     ![n] = IF stage[n] = "once" THEN "off" ELSE "idle"]
        /\ reply' = [reply EXCEPT ![n] = NoReply]
        /\ UNCHANGED <<releases, current, disk, running, stage, unsaved,
                       faults>>
    BY <1>5 DEF Save, Polled, Set
  <2>2. OneNode(n)
    BY <1>0, <2>1 DEF OneNode, Only
  <2>3. TypeOf(n)'
    <3>1. reply[n].version \in 0..MaxReleases
      BY <1>0, <2>1, RolloutAssumption DEF NodeOK
    <3> QED
      BY <1>0, <2>1, <3>1 DEF TypeOf
  <2>4. NodeOK(n)'
    BY <1>0, <2>1 DEF NodeOK
  <2>5. RunsOf(n)'
    BY <1>0, <2>1 DEF RunsOf, NodeOK, Accepted
  <2>6. HonestOf(n)'
    BY <1>0, <2>1, RolloutAssumption DEF HonestOf, NodeOK, TypeOf
  <2> QED
    BY <2>2, <2>3, <2>4, <2>5, <2>6, OneNodeKeepsIInv
<1> QED
  BY <1>1, <1>2, <1>3, <1>4, <1>5

\* The steps of the entrypoint script and of Vector.
LEMMA ScriptKeepsIInv ==
    ASSUME IInv, NEW n \in Nodes,
           \/ FetchFirst(n) \/ Launch(n) \/ OpenFallback(n) \/ WriteFallback(n)
           \/ StartVector(n) \/ Reload(n) \/ RefuseConfig(n) \/ VectorExits(n)
    PROVE  IInv'
<1>0. /\ TypeOf(n) /\ NodeOK(n) /\ RunsOf(n) /\ HonestOf(n)
      /\ disk \in [Nodes -> Versions \cup {Missing, Torn, Fallback}]
      /\ saved \in [Nodes -> 0..MaxReleases]
      /\ running \in [Nodes -> Versions \cup {Fallback, Down}]
      /\ stage \in [Nodes -> {"boot", "once", "writing", "up", "failed"}]
      /\ agent \in [Nodes -> {"off", "idle", "fetched", "replaced"}]
      /\ reply \in [Nodes -> Reply] /\ NoReply \in Reply
      /\ faults \in 0..MaxFaults /\ faults \in Nat /\ MaxFaults \in Nat
      /\ current \in 0..Len(releases)
      /\ Len(releases) \in Nat /\ Len(releases) <= MaxReleases
  BY NodeFacts, NoReplyType, RolloutAssumption
<1>1. CASE FetchFirst(n)
  <2>1. /\ stage[n] = "boot"
        /\ stage' = [stage EXCEPT ![n] = "once"]
        /\ agent' = [agent EXCEPT ![n] = "idle"]
        /\ UNCHANGED <<releases, current, disk, saved, running, reply,
                       unsaved, faults>>
    BY <1>1 DEF FetchFirst, Set
  <2>2. OneNode(n)
    BY <1>0, <2>1 DEF OneNode, Only
  <2>3. TypeOf(n)'
    BY <1>0, <2>1 DEF TypeOf, Versions, NodeOK
  <2>4. NodeOK(n)'
    BY <1>0, <2>1 DEF NodeOK
  <2>5. RunsOf(n)'
    BY <1>0, <2>1 DEF RunsOf, NodeOK, Accepted
  <2>6. HonestOf(n)'
    BY <1>0, <2>1, RolloutAssumption DEF HonestOf, NodeOK, TypeOf
  <2> QED
    BY <2>2, <2>3, <2>4, <2>5, <2>6, OneNodeKeepsIInv
<1>2. CASE Launch(n)
  <2>1. /\ stage[n] = "boot" \/ (stage[n] = "once" /\ agent[n] = "off")
        /\ stage' = [stage EXCEPT ![n] = "up"]
        /\ agent' = [agent EXCEPT ![n] = "idle"]
        /\ UNCHANGED <<releases, current, disk, saved, running, reply,
                       unsaved, faults>>
    BY <1>2 DEF Launch, Launched, Set
  <2>2. OneNode(n)
    BY <1>0, <2>1 DEF OneNode, Only
  <2>3. TypeOf(n)'
    BY <1>0, <2>1 DEF TypeOf, Versions, NodeOK
  <2>4. NodeOK(n)'
    BY <1>0, <2>1 DEF NodeOK
  <2>5. RunsOf(n)'
    BY <1>0, <2>1 DEF RunsOf, NodeOK, Accepted
  <2>6. HonestOf(n)'
    BY <1>0, <2>1, RolloutAssumption DEF HonestOf, NodeOK, TypeOf
  <2> QED
    BY <2>2, <2>3, <2>4, <2>5, <2>6, OneNodeKeepsIInv
<1>3. CASE OpenFallback(n)
  <2>1. /\ stage[n] = "once" /\ agent[n] = "off" /\ disk[n] = Missing
        /\ disk' = [disk EXCEPT ![n] = Torn]
        /\ stage' = [stage EXCEPT ![n] = "writing"]
        /\ UNCHANGED <<releases, current, saved, running, agent, reply,
                       unsaved, faults>>
    BY <1>3 DEF OpenFallback, Set
  <2>2. OneNode(n)
    BY <1>0, <2>1 DEF OneNode, Only
  <2>3. TypeOf(n)'
    BY <1>0, <2>1 DEF TypeOf, Versions, NodeOK
  <2>4. NodeOK(n)'
    BY <1>0, <2>1 DEF NodeOK
  <2>5. RunsOf(n)'
    BY <1>0, <2>1 DEF RunsOf, NodeOK, Accepted
  <2>6. HonestOf(n)'
    BY <1>0, <2>1, RolloutAssumption DEF HonestOf, NodeOK, TypeOf
  <2> QED
    BY <2>2, <2>3, <2>4, <2>5, <2>6, OneNodeKeepsIInv
<1>4. CASE WriteFallback(n)
  <2>1. /\ stage[n] = "writing"
        /\ disk' = [disk EXCEPT ![n] = Fallback]
        /\ stage' = [stage EXCEPT ![n] = "up"]
        /\ agent' = [agent EXCEPT ![n] = "idle"]
        /\ UNCHANGED <<releases, current, saved, running, reply, unsaved,
                       faults>>
    BY <1>4 DEF WriteFallback, Launched, Set
  <2>2. OneNode(n)
    BY <1>0, <2>1 DEF OneNode, Only
  <2>3. TypeOf(n)'
    BY <1>0, <2>1 DEF TypeOf, Versions, NodeOK
  <2>4. NodeOK(n)'
    BY <1>0, <2>1 DEF NodeOK
  <2>5. RunsOf(n)'
    BY <1>0, <2>1 DEF RunsOf, NodeOK, Accepted
  <2>6. HonestOf(n)'
    BY <1>0, <2>1, RolloutAssumption DEF HonestOf, NodeOK, TypeOf
  <2> QED
    BY <2>2, <2>3, <2>4, <2>5, <2>6, OneNodeKeepsIInv
<1>5. CASE StartVector(n) \/ Reload(n)
  <2>1. /\ stage[n] = "up" \/ running[n] # Down
        /\ Accepted(disk[n])
        /\ running' = [running EXCEPT ![n] = disk[n]]
        /\ UNCHANGED <<releases, current, disk, saved, stage, agent, reply,
                       unsaved, faults>>
    BY <1>5 DEF StartVector, Reload, Set
  <2>2. OneNode(n)
    BY <1>0, <2>1 DEF OneNode, Only
  <2>3. TypeOf(n)'
    <3>1. disk[n] \in Versions \cup {Fallback}
      BY <1>0, <2>1, RolloutAssumption DEF Accepted, Versions
    <3> QED
      BY <1>0, <2>1, <3>1 DEF TypeOf
  <2>4. NodeOK(n)'
    BY <1>0, <2>1 DEF NodeOK
  <2>5. RunsOf(n)'
    BY <1>0, <2>1 DEF RunsOf, NodeOK, Accepted
  <2>6. HonestOf(n)'
    BY <1>0, <2>1, RolloutAssumption DEF HonestOf, NodeOK, TypeOf
  <2> QED
    BY <2>2, <2>3, <2>4, <2>5, <2>6, OneNodeKeepsIInv
<1>6. CASE RefuseConfig(n)
  <2>1. /\ running[n] = Down
        /\ stage[n] = "up"
        /\ stage' = [stage EXCEPT ![n] = "failed"]
        /\ UNCHANGED <<releases, current, disk, saved, running, agent, reply,
                       unsaved, faults>>
    BY <1>6 DEF RefuseConfig, Set
  <2>2. OneNode(n)
    BY <1>0, <2>1 DEF OneNode, Only
  <2>3. TypeOf(n)'
    BY <1>0, <2>1 DEF TypeOf, Versions, NodeOK
  <2>4. NodeOK(n)'
    BY <1>0, <2>1 DEF NodeOK
  <2>5. RunsOf(n)'
    BY <1>0, <2>1 DEF RunsOf, NodeOK, Accepted
  <2>6. HonestOf(n)'
    BY <1>0, <2>1, RolloutAssumption DEF HonestOf, NodeOK, TypeOf
  <2> QED
    BY <2>2, <2>3, <2>4, <2>5, <2>6, OneNodeKeepsIInv
<1>7. CASE VectorExits(n)
  <2>1. /\ stage[n] = "failed"
        /\ stage' = [stage EXCEPT ![n] = "boot"]
        /\ agent' = [agent EXCEPT ![n] = "off"]
        /\ running' = [running EXCEPT ![n] = Down]
        /\ reply' = [reply EXCEPT ![n] = NoReply]
        /\ \/ agent[n] # "replaced" /\ UNCHANGED <<saved, unsaved>>
           \/ /\ agent[n] = "replaced" /\ unsaved' = unsaved \cup {n}
              /\ \/ saved' = saved
                 \/ saved' = [saved EXCEPT ![n] = 0]
        /\ UNCHANGED <<releases, current, disk, faults>>
    BY <1>7 DEF VectorExits, Restarted, StateAfterKill, Set
  <2>2. OneNode(n)
    BY <1>0, <2>1 DEF OneNode, Only
  <2>3. TypeOf(n)'
    <3>1. saved'[n] \in 0..MaxReleases
      <4>1. 0 \in 0..MaxReleases
        BY RolloutAssumption
      <4> QED
        BY <1>0, <2>1, <4>1 DEF TypeOf
    <3> QED
      BY <1>0, <2>1, <3>1 DEF TypeOf
  <2>4. NodeOK(n)'
    BY <1>0, <2>1 DEF NodeOK
  <2>5. RunsOf(n)'
    BY <1>0, <2>1 DEF RunsOf, NodeOK, Accepted
  <2>6. HonestOf(n)'
    BY <1>0, <2>1, RolloutAssumption DEF HonestOf, NodeOK, TypeOf
  <2> QED
    BY <2>2, <2>3, <2>4, <2>5, <2>6, OneNodeKeepsIInv
<1> QED
  BY <1>1, <1>2, <1>3, <1>4, <1>5, <1>6, <1>7

\* The faults.
LEMMA FaultKeepsIInv ==
    ASSUME IInv, NEW n \in Nodes,
           NodeFails(n)
    PROVE  IInv'
<1>0. /\ TypeOf(n) /\ NodeOK(n) /\ RunsOf(n) /\ HonestOf(n)
      /\ disk \in [Nodes -> Versions \cup {Missing, Torn, Fallback}]
      /\ saved \in [Nodes -> 0..MaxReleases]
      /\ running \in [Nodes -> Versions \cup {Fallback, Down}]
      /\ stage \in [Nodes -> {"boot", "once", "writing", "up", "failed"}]
      /\ agent \in [Nodes -> {"off", "idle", "fetched", "replaced"}]
      /\ reply \in [Nodes -> Reply] /\ NoReply \in Reply
      /\ faults \in 0..MaxFaults /\ faults \in Nat /\ MaxFaults \in Nat
      /\ current \in 0..Len(releases)
      /\ Len(releases) \in Nat /\ Len(releases) <= MaxReleases
  BY NodeFacts, NoReplyType, RolloutAssumption
<1>1. CASE Crash(n) \/ CrashWriting(n)
  <2>1. /\ agent[n] # "replaced"
        /\ stage' = [stage EXCEPT ![n] = "boot"]
        /\ agent' = [agent EXCEPT ![n] = "off"]
        /\ running' = [running EXCEPT ![n] = Down]
        /\ reply' = [reply EXCEPT ![n] = NoReply]
        /\ faults < MaxFaults /\ faults' = faults + 1
        /\ UNCHANGED <<releases, current, disk, saved, unsaved>>
    BY <1>0, <1>1 DEF Crash, CrashWriting, Restarted, Fault, Set, NodeOK
  <2>2. OneNode(n)
    BY <1>0, <2>1 DEF OneNode, Only
  <2>3. TypeOf(n)'
    BY <1>0, <2>1 DEF TypeOf, Versions, NodeOK
  <2>4. NodeOK(n)'
    BY <1>0, <2>1 DEF NodeOK
  <2>5. RunsOf(n)'
    BY <1>0, <2>1 DEF RunsOf, NodeOK, Accepted
  <2>6. HonestOf(n)'
    BY <1>0, <2>1, RolloutAssumption DEF HonestOf, NodeOK, TypeOf
  <2> QED
    BY <2>2, <2>3, <2>4, <2>5, <2>6, OneNodeKeepsIInv
<1>2. CASE CrashSaving(n)
  <2>1. /\ agent[n] = "replaced"
        /\ stage' = [stage EXCEPT ![n] = "boot"]
        /\ agent' = [agent EXCEPT ![n] = "off"]
        /\ running' = [running EXCEPT ![n] = Down]
        /\ reply' = [reply EXCEPT ![n] = NoReply]
        /\ \/ agent[n] # "replaced" /\ UNCHANGED <<saved, unsaved>>
           \/ /\ agent[n] = "replaced" /\ unsaved' = unsaved \cup {n}
              /\ \/ saved' = saved
                 \/ saved' = [saved EXCEPT ![n] = 0]
        /\ faults < MaxFaults /\ faults' = faults + 1
        /\ UNCHANGED <<releases, current, disk>>
    BY <1>2 DEF CrashSaving, Restarted, StateAfterKill, Fault, Set
  <2>2. OneNode(n)
    BY <1>0, <2>1 DEF OneNode, Only
  <2>3. TypeOf(n)'
    <3>1. saved'[n] \in 0..MaxReleases
      <4>1. 0 \in 0..MaxReleases
        BY RolloutAssumption
      <4> QED
        BY <1>0, <2>1, <4>1 DEF TypeOf
    <3> QED
      BY <1>0, <2>1, <3>1 DEF TypeOf
  <2>4. NodeOK(n)'
    BY <1>0, <2>1 DEF NodeOK
  <2>5. RunsOf(n)'
    BY <1>0, <2>1 DEF RunsOf, NodeOK, Accepted
  <2>6. HonestOf(n)'
    BY <1>0, <2>1, RolloutAssumption DEF HonestOf, NodeOK, TypeOf
  <2> QED
    BY <2>2, <2>3, <2>4, <2>5, <2>6, OneNodeKeepsIInv
<1>3. CASE SaveFails(n)
  <2>1. /\ agent[n] = "replaced"
        /\ agent' = [agent EXCEPT
                     ![n] = IF stage[n] = "once" THEN "off" ELSE "idle"]
        /\ reply' = [reply EXCEPT ![n] = NoReply]
        /\ \/ agent[n] # "replaced" /\ UNCHANGED <<saved, unsaved>>
           \/ /\ agent[n] = "replaced" /\ unsaved' = unsaved \cup {n}
              /\ \/ saved' = saved
                 \/ saved' = [saved EXCEPT ![n] = 0]
        /\ faults < MaxFaults /\ faults' = faults + 1
        /\ UNCHANGED <<releases, current, disk, running, stage>>
    BY <1>3 DEF SaveFails, Polled, StateAfterKill, Fault, Set
  <2>2. OneNode(n)
    BY <1>0, <2>1 DEF OneNode, Only
  <2>3. TypeOf(n)'
    <3>1. saved'[n] \in 0..MaxReleases
      <4>1. 0 \in 0..MaxReleases
        BY RolloutAssumption
      <4> QED
        BY <1>0, <2>1, <4>1 DEF TypeOf
    <3> QED
      BY <1>0, <2>1, <3>1 DEF TypeOf
  <2>4. NodeOK(n)'
    BY <1>0, <2>1 DEF NodeOK
  <2>5. RunsOf(n)'
    BY <1>0, <2>1 DEF RunsOf, NodeOK, Accepted
  <2>6. HonestOf(n)'
    BY <1>0, <2>1, RolloutAssumption DEF HonestOf, NodeOK, TypeOf
  <2> QED
    BY <2>2, <2>3, <2>4, <2>5, <2>6, OneNodeKeepsIInv
<1>4. CASE WriteFails(n)
  <2>1. /\ agent[n] = "fetched"
        /\ agent' = [agent EXCEPT
                     ![n] = IF stage[n] = "once" THEN "off" ELSE "idle"]
        /\ reply' = [reply EXCEPT ![n] = NoReply]
        /\ faults < MaxFaults /\ faults' = faults + 1
        /\ UNCHANGED <<releases, current, disk, saved, running, stage,
                       unsaved>>
    BY <1>4 DEF WriteFails, Polled, Fault, Set
  <2>2. OneNode(n)
    BY <1>0, <2>1 DEF OneNode, Only
  <2>3. TypeOf(n)'
    BY <1>0, <2>1 DEF TypeOf, Versions, NodeOK
  <2>4. NodeOK(n)'
    BY <1>0, <2>1 DEF NodeOK
  <2>5. RunsOf(n)'
    BY <1>0, <2>1 DEF RunsOf, NodeOK, Accepted
  <2>6. HonestOf(n)'
    BY <1>0, <2>1, RolloutAssumption DEF HonestOf, NodeOK, TypeOf
  <2> QED
    BY <2>2, <2>3, <2>4, <2>5, <2>6, OneNodeKeepsIInv
<1>5. CASE AgentDies(n)
  <2>1. /\ stage[n] = "up"
        /\ agent' = [agent EXCEPT ![n] = "off"]
        /\ reply' = [reply EXCEPT ![n] = NoReply]
        /\ \/ agent[n] # "replaced" /\ UNCHANGED <<saved, unsaved>>
           \/ /\ agent[n] = "replaced" /\ unsaved' = unsaved \cup {n}
              /\ \/ saved' = saved
                 \/ saved' = [saved EXCEPT ![n] = 0]
        /\ faults < MaxFaults /\ faults' = faults + 1
        /\ UNCHANGED <<releases, current, disk, running, stage>>
    BY <1>5 DEF AgentDies, StateAfterKill, Fault, Set
  <2>2. OneNode(n)
    BY <1>0, <2>1 DEF OneNode, Only
  <2>3. TypeOf(n)'
    <3>1. saved'[n] \in 0..MaxReleases
      <4>1. 0 \in 0..MaxReleases
        BY RolloutAssumption
      <4> QED
        BY <1>0, <2>1, <4>1 DEF TypeOf
    <3> QED
      BY <1>0, <2>1, <3>1 DEF TypeOf
  <2>4. NodeOK(n)'
    BY <1>0, <2>1 DEF NodeOK
  <2>5. RunsOf(n)'
    BY <1>0, <2>1 DEF RunsOf, NodeOK, Accepted
  <2>6. HonestOf(n)'
    BY <1>0, <2>1, RolloutAssumption DEF HonestOf, NodeOK, TypeOf
  <2> QED
    BY <2>2, <2>3, <2>4, <2>5, <2>6, OneNodeKeepsIInv
<1> QED
  BY <1>1, <1>2, <1>3, <1>4, <1>5 DEF NodeFails

LEMMA NextKeepsIInv == IInv /\ [Next]_vars => IInv'
<1> SUFFICES ASSUME IInv, [Next]_vars PROVE IInv'
  OBVIOUS
<1>1. CASE Publish \/ RollBack
  BY <1>1, ControlKeepsIInv
<1>2. CASE \E n \in Nodes : Fetch(n, TRUE) \/ Fetch(n, FALSE) \/ Works(n)
  BY <1>2, AgentKeepsIInv, ScriptKeepsIInv DEF Works
<1>3. CASE \E n \in Nodes : VectorWorks(n)
  BY <1>3, ScriptKeepsIInv DEF VectorWorks
<1>4. CASE \E n \in Nodes : NodeFails(n)
  BY <1>4, FaultKeepsIInv
<1>5. CASE UNCHANGED vars
  <2>1. UNCHANGED <<releases, current, disk, saved, running, stage, agent,
                    reply, unsaved, faults>>
    BY <1>5 DEF vars
  <2> QED
    BY <2>1 DEF IInv, TypeOK, NodesOK, NodeOK, RunsOnlyReleases,
                HonestUnlessCut
<1> QED
  BY <1>1, <1>2, <1>3, <1>4, <1>5 DEF Next

\* The inductive invariant holds in every state of every behaviour.
THEOREM Invariance == Spec => []IInv
<1>1. Init => IInv
  BY InitIInv
<1>2. IInv /\ [Next]_vars => IInv'
  BY NextKeepsIInv
<1> QED
  BY <1>1, <1>2, PTL DEF Spec

\* Type correctness, for any number of nodes and faults.
THEOREM TypeCorrect == Spec => []TypeOK
<1>1. IInv => TypeOK
  BY DEF IInv
<1> QED
  BY <1>1, Invariance, PTL

\* A node runs nothing but the fallback and releases its Vector accepts.
THEOREM RunsReleases == Spec => []RunsOnlyReleases
<1>1. IInv => RunsOnlyReleases
  BY DEF IInv
<1> QED
  BY <1>1, Invariance, PTL

\* A node whose saves were never cut short has the bundle it says it has.
THEOREM Honest == Spec => []HonestUnlessCut
<1>1. IInv => HonestUnlessCut
  BY DEF IInv
<1> QED
  BY <1>1, Invariance, PTL

-----------------------------------------------------------------------------

\* What a step of a node does to its config file: nothing, or a release is
\* put there, or the fallback where there is no release.
LEMMA DiskSteps ==
    ASSUME NEW n \in Nodes,
           \/ Fetch(n, TRUE) \/ Fetch(n, FALSE)
           \/ Works(n) \/ VectorWorks(n) \/ NodeFails(n)
    PROVE  \/ UNCHANGED disk
           \/ Replace(n) \/ OpenFallback(n) \/ WriteFallback(n)
<1>1. CASE Fetch(n, TRUE) \/ Fetch(n, FALSE)
  BY <1>1 DEF Fetch
<1>2. CASE Works(n)
  BY <1>2 DEF Works, PollEmpty, Discard, Save, FetchFirst, Launch
<1>3. CASE VectorWorks(n)
  BY <1>3 DEF VectorWorks, StartVector, RefuseConfig, VectorExits, Restarted,
              Reload
<1>4. CASE NodeFails(n)
  BY <1>4 DEF NodeFails, Crash, CrashWriting, CrashSaving, SaveFails,
              WriteFails, AgentDies, Restarted
<1> QED
  BY <1>1, <1>2, <1>3, <1>4

\* No step takes a release away from a node that has one.
LEMMA NextKeepsCache ==
    ASSUME IInv, [Next]_vars, NEW m \in Nodes, disk[m] \in Versions
    PROVE  disk'[m] \in Versions
<1>0. disk \in [Nodes -> Versions \cup {Missing, Torn, Fallback}]
  BY DEF IInv, TypeOK
<1>1. Missing \notin Versions /\ Torn \notin Versions
  BY RolloutAssumption DEF Versions
<1>2. CASE UNCHANGED disk
  BY <1>2
<1>3. ASSUME NEW n \in Nodes,
             Replace(n) \/ OpenFallback(n) \/ WriteFallback(n)
      PROVE  disk'[m] \in Versions
  <2>1. CASE n # m
    BY <1>0, <1>3, <2>1 DEF Replace, OpenFallback, WriteFallback, Set
  <2>2. CASE n = m /\ Replace(n)
    <3>1. disk' = [disk EXCEPT ![n] = reply[n].version] /\ agent[n] = "fetched"
      BY <2>2 DEF Replace, Set
    <3>2. NodeOK(n) /\ Len(releases) \in Nat /\ Len(releases) <= MaxReleases
      BY NodeFacts
    <3>3. reply[n].version \in Versions
      BY <3>1, <3>2, RolloutAssumption DEF NodeOK, Versions
    <3> QED
      BY <1>0, <2>2, <3>1, <3>3
  <2>3. CASE n = m /\ OpenFallback(n)
    BY <1>1, <2>3 DEF OpenFallback
  <2>4. CASE n = m /\ WriteFallback(n)
    <3>1. NodeOK(n) /\ stage[n] = "writing"
      BY <2>4, NodeFacts DEF WriteFallback
    <3> QED
      BY <1>1, <2>4, <3>1 DEF NodeOK
  <2> QED
    BY <1>3, <2>1, <2>2, <2>3, <2>4
<1>4. CASE Publish \/ RollBack \/ UNCHANGED vars
  BY <1>2, <1>4 DEF Publish, RollBack, nodeVars, vars
<1> QED
  BY <1>2, <1>3, <1>4, DiskSteps DEF Next

\* Once a node has a release, it has one after every later step.
THEOREM CacheKept == Spec => CacheNeverLost
<1>1. IInv /\ [Next]_vars =>
        [\A n \in Nodes : disk[n] \in Versions => disk'[n] \in Versions]_disk
  BY NextKeepsCache
<1> QED
  BY <1>1, Invariance, PTL DEF Spec, CacheNeverLost

\* What a step of a node does to its Vector: nothing, or it gets a config
\* that Vector accepts, or it ends with the container.
LEMMA RunningSteps ==
    ASSUME NEW n \in Nodes,
           \/ Fetch(n, TRUE) \/ Fetch(n, FALSE)
           \/ Works(n) \/ VectorWorks(n) \/ NodeFails(n)
    PROVE  \/ UNCHANGED running
           \/ StartVector(n) \/ Reload(n)
           \/ VectorExits(n) \/ CrashWriting(n)
           \/ Crash(n) \/ CrashSaving(n)
<1>1. CASE Fetch(n, TRUE) \/ Fetch(n, FALSE)
  BY <1>1 DEF Fetch
<1>2. CASE Works(n)
  BY <1>2 DEF Works, PollEmpty, Discard, Replace, Save, FetchFirst, Launch,
              OpenFallback, WriteFallback, Polled, Launched
<1>3. CASE VectorWorks(n)
  BY <1>3 DEF VectorWorks, RefuseConfig
<1>4. CASE NodeFails(n)
  BY <1>4 DEF NodeFails, SaveFails, WriteFails, AgentDies, Polled
<1> QED
  BY <1>1, <1>2, <1>3, <1>4

\* A step that ends a running Vector ends its container.
LEMMA NextKeepsRunning ==
    ASSUME IInv, [Next]_vars, NEW m \in Nodes,
           running[m] # Down, running'[m] = Down
    PROVE  Crash(m) \/ CrashSaving(m)
<1>0. running \in [Nodes -> Versions \cup {Fallback, Down}]
  BY DEF IInv, TypeOK
<1>1. ~(UNCHANGED running)
  OBVIOUS
<1>2. PICK n \in Nodes :
        \/ Fetch(n, TRUE) \/ Fetch(n, FALSE)
        \/ Works(n) \/ VectorWorks(n) \/ NodeFails(n)
  BY <1>1 DEF Next, Publish, RollBack, nodeVars, vars
<1>3. \/ StartVector(n) \/ Reload(n) \/ VectorExits(n)
      \/ CrashWriting(n) \/ Crash(n) \/ CrashSaving(n)
  BY <1>1, <1>2, RunningSteps
<1>4. n = m
  BY <1>0, <1>3 DEF StartVector, Reload, VectorExits, CrashWriting, Crash,
                    CrashSaving, Restarted, Set
<1>5. ~StartVector(n) /\ ~Reload(n)
  <2>1. Accepted(disk[n]) => disk[n] # Down
    BY RolloutAssumption DEF Accepted
  <2> QED
    BY <1>0, <1>4, <2>1 DEF StartVector, Reload, Set
<1>6. ~VectorExits(n) /\ ~CrashWriting(n)
  <2>1. NodeOK(n)
    BY NodeFacts
  <2> QED
    BY <1>4, <2>1 DEF NodeOK, VectorExits, CrashWriting
<1> QED
  BY <1>3, <1>4, <1>5, <1>6

\* Nothing published and no fault of the agent stops a Vector that runs.
THEOREM KeepsRunning == Spec => VectorKeepsRunning
<1>1. IInv /\ [Next]_vars =>
        [\A n \in Nodes : running[n] # Down /\ running'[n] = Down =>
             Crash(n) \/ CrashSaving(n)]_vars
  BY NextKeepsRunning
<1> QED
  BY <1>1, Invariance, PTL DEF Spec, VectorKeepsRunning

-----------------------------------------------------------------------------

\* Whatever the nodes do, the control plane they poll is the registry, whose
\* releases only grow: no step of a node touches it.
THEOREM UsesRegistry == Spec => RegistrySpec
<1>1. Init => RegistryInit
  BY DEF Init
<1>2. [Next]_vars => [RegistryNext]_registry
  <2> SUFFICES ASSUME [Next]_vars
               PROVE  [RegistryNext]_registry
    OBVIOUS
  <2>1. CASE Publish
    BY <2>1 DEF Publish, RegistryNext
  <2>2. CASE RollBack
    BY <2>2 DEF RollBack, RegistryNext
  <2>3. ASSUME NEW n \in Nodes,
               \/ Fetch(n, TRUE) \/ Fetch(n, FALSE)
               \/ Works(n) \/ VectorWorks(n) \/ NodeFails(n)
        PROVE  UNCHANGED registry
    <3>1. CASE Fetch(n, TRUE) \/ Fetch(n, FALSE)
      BY <3>1 DEF Fetch, registry
    <3>2. CASE Works(n)
      BY <3>2 DEF Works, PollEmpty, Discard, Replace, Save, FetchFirst, Launch,
                  OpenFallback, WriteFallback, Polled, Launched, registry
    <3>3. CASE VectorWorks(n)
      BY <3>3 DEF VectorWorks, StartVector, RefuseConfig, VectorExits, Reload,
                  Restarted, registry
    <3>4. CASE NodeFails(n)
      BY <3>4 DEF NodeFails, Crash, CrashWriting, CrashSaving, SaveFails,
                  WriteFails, AgentDies, Restarted, Polled, registry
    <3> QED
      BY <2>3, <3>1, <3>2, <3>3, <3>4
  <2>4. CASE UNCHANGED vars
    BY <2>4 DEF vars, registry
  <2> QED
    BY <2>1, <2>2, <2>3, <2>4 DEF Next
<1> QED
  BY <1>1, <1>2, PTL DEF Spec, RegistrySpec

\* What UnchangedMeansActive says (the run rollout_stuck shows that it fails
\* after a save that was cut short) holds on every other node: the endpoint
\* tells it "unchanged" only when it has the active bundle.
UnchangedMeansActiveUnlessCut ==
    \A n \in Nodes \ unsaved :
        agent[n] = "idle" /\ current # 0 /\ saved[n] = current =>
            disk[n] = current

THEOREM UnchangedIsTrue == Spec => []UnchangedMeansActiveUnlessCut
<1>1. IInv => UnchangedMeansActiveUnlessCut
  BY DEF IInv, HonestUnlessCut, UnchangedMeansActiveUnlessCut
<1> QED
  BY <1>1, Invariance, PTL

-----------------------------------------------------------------------------

\* A node that has followed the control plane: its Vector runs the current
\* release, its files agree, and its daemon waits for the next poll.
Settled(n) ==
    /\ current # 0
    /\ saved[n] = current /\ disk[n] = current /\ running[n] = current
    /\ stage[n] = "up" /\ agent[n] = "idle"

LEMMA NextKeepsSettled ==
    ASSUME IInv, [Next]_vars, NEW m \in Nodes, Settled(m)
    PROVE  \/ Settled(m)'
           \/ Publish \/ RollBack \/ Crash(m) \/ AgentDies(m)
<1>0. /\ disk \in [Nodes -> Versions \cup {Missing, Torn, Fallback}]
      /\ saved \in [Nodes -> 0..MaxReleases]
      /\ running \in [Nodes -> Versions \cup {Fallback, Down}]
      /\ stage \in [Nodes -> {"boot", "once", "writing", "up", "failed"}]
      /\ agent \in [Nodes -> {"off", "idle", "fetched", "replaced"}]
      /\ current \in Nat
  <2>1. Len(releases) \in Nat
    BY LenProperties DEF IInv, TypeOK
  <2> QED
    BY <2>1 DEF IInv, TypeOK
<1>1. running[m] # Down
  BY <1>0, RolloutAssumption DEF Settled
<1>2. ASSUME NEW n \in Nodes, Fetch(n, TRUE) \/ Fetch(n, FALSE)
      PROVE  Settled(m)'
  BY <1>0, <1>2 DEF Fetch, Set, Settled
<1>3. ASSUME NEW n \in Nodes, Works(n)
      PROVE  Settled(m)'
  <2>1. n # m
    BY <1>0, <1>3 DEF Works, PollEmpty, Discard, Replace, Save, FetchFirst,
                      Launch, OpenFallback, WriteFallback, Settled
  <2> QED
    BY <1>0, <1>3, <2>1
    DEF Works, PollEmpty, Discard, Replace, Save, FetchFirst, Launch,
        OpenFallback, WriteFallback, Polled, Launched, Set, Settled
<1>4. ASSUME NEW n \in Nodes, VectorWorks(n)
      PROVE  Settled(m)'
  <2>1. n # m
    BY <1>0, <1>1, <1>4 DEF VectorWorks, StartVector, RefuseConfig,
                            VectorExits, Reload, Settled
  <2>2. CASE StartVector(n) \/ Reload(n)
    BY <1>0, <2>1, <2>2 DEF StartVector, Reload, Set, Settled
  <2>3. CASE RefuseConfig(n)
    BY <1>0, <2>1, <2>3 DEF RefuseConfig, Set, Settled
  <2>4. CASE VectorExits(n)
    BY <1>0, <2>1, <2>4
    DEF VectorExits, Restarted, StateAfterKill, Set, Settled
  <2> QED
    BY <1>4, <2>2, <2>3, <2>4 DEF VectorWorks
<1>5. ASSUME NEW n \in Nodes, NodeFails(n)
      PROVE  Settled(m)' \/ Crash(m) \/ AgentDies(m)
  <2>1. CASE n = m
    BY <1>0, <1>5, <2>1 DEF NodeFails, CrashWriting, CrashSaving, SaveFails,
                            WriteFails, Settled
  <2>2. CASE n # m
    <3>1. CASE Crash(n) \/ CrashWriting(n)
      BY <1>0, <2>2, <3>1 DEF Crash, CrashWriting, Restarted, Set, Settled
    <3>2. CASE CrashSaving(n) \/ SaveFails(n) \/ AgentDies(n)
      BY <1>0, <2>2, <3>2 DEF CrashSaving, SaveFails, AgentDies, Restarted,
                              Polled, StateAfterKill, Set, Settled
    <3>3. CASE WriteFails(n)
      BY <1>0, <2>2, <3>3 DEF WriteFails, Polled, Set, Settled
    <3> QED
      BY <1>5, <3>1, <3>2, <3>3 DEF NodeFails
  <2> QED
    BY <2>1, <2>2
<1>6. UNCHANGED vars => Settled(m)'
  BY DEF vars, Settled
<1> QED
  BY <1>2, <1>3, <1>4, <1>5, <1>6 DEF Next

\* A node that has got there stays there: only a new active bundle, the death
\* of its own daemon or of its own container moves it.  No poll, no reload
\* and nothing that happens to another node does.
SettledStays ==
    [][ \A n \in Nodes :
          Settled(n) => \/ Settled(n)'
                        \/ Publish \/ RollBack
                        \/ Crash(n) \/ AgentDies(n) ]_vars

THEOREM StaysSettled == Spec => SettledStays
<1>1. IInv /\ [Next]_vars =>
        [ \A n \in Nodes :
            Settled(n) => \/ Settled(n)'
                          \/ Publish \/ RollBack
                          \/ Crash(n) \/ AgentDies(n) ]_vars
  BY NextKeepsSettled
<1> QED
  BY <1>1, Invariance, PTL DEF Spec, SettledStays

-----------------------------------------------------------------------------

\* Containers are killed and downloads fail, but no fallback is cut short, no
\* save, and no daemon dies alone; and every bundle is one the nodes' Vector
\* accepts.
HarmlessOnly ==
    /\ Good = Contents
    /\ FaultKinds \cap {"torn", "unsaved", "agent"} = {}

\* Then what a node has on disk is whole and its daemon is there to replace it.
Healthy(n) ==
    /\ n \notin unsaved
    /\ stage[n] # "failed"
    /\ stage[n] = "up" => agent[n] # "off" /\ disk[n] # Missing
    /\ disk[n] = Torn => stage[n] = "writing"

\* Nobody gives up, and no node that is up is in one of the three situations
\* in which it would miss a bundle for good.
NeverStuck ==
    \A n \in Nodes :
        /\ stage[n] # "failed" /\ n \notin unsaved
        /\ stage[n] = "up" => agent[n] # "off"
        /\ stage[n] = "up" /\ agent[n] # "replaced" /\ current # 0 => ~Stuck(n)

LEMMA HealthyIsAccepted ==
    ASSUME IInv, HarmlessOnly, NEW n \in Nodes, Healthy(n), stage[n] = "up"
    PROVE  Accepted(disk[n])
<1>1. disk[n] \in 1..Len(releases) \cup {Missing, Torn, Fallback}
  BY DEF IInv, RunsOnlyReleases
<1>2. disk[n] \notin {Missing, Torn}
  BY DEF Healthy
<1>3. CASE disk[n] = Fallback
  BY <1>3 DEF Accepted
<1>4. CASE disk[n] \in 1..Len(releases)
  <2>1. releases[disk[n]] \in Contents
    BY <1>4 DEF IInv, TypeOK
  <2> QED
    BY <1>4, <2>1 DEF Accepted, HarmlessOnly
<1> QED
  BY <1>1, <1>2, <1>3, <1>4

LEMMA NextKeepsHealthy ==
    ASSUME IInv, HarmlessOnly, \A n \in Nodes : Healthy(n), [Next]_vars,
           NEW m \in Nodes
    PROVE  Healthy(m)'
<1>0. /\ disk \in [Nodes -> Versions \cup {Missing, Torn, Fallback}]
      /\ stage \in [Nodes -> {"boot", "once", "writing", "up", "failed"}]
      /\ agent \in [Nodes -> {"off", "idle", "fetched", "replaced"}]
  BY DEF IInv, TypeOK
<1>1. Healthy(m)
  OBVIOUS
<1>2. ASSUME NEW n \in Nodes, Fetch(n, TRUE) \/ Fetch(n, FALSE)
      PROVE  Healthy(m)'
  BY <1>0, <1>1, <1>2 DEF Fetch, Set, Healthy
<1>3. ASSUME NEW n \in Nodes, Works(n)
      PROVE  Healthy(m)'
  <2>1. CASE PollEmpty(n) \/ Discard(n) \/ Save(n)
    BY <1>0, <1>1, <2>1 DEF PollEmpty, Discard, Save, Polled, Set, Healthy
  <2>2. CASE Replace(n)
    <3>1. reply[n].version \in 1..Len(releases)
      BY <2>2, NodeFacts DEF Replace, NodeOK
    <3>2. reply[n].version \notin {Missing, Torn}
      BY <3>1, NodeFacts, RolloutAssumption
    <3> QED
      BY <1>0, <1>1, <2>2, <3>2 DEF Replace, Set, Healthy
  <2>3. CASE FetchFirst(n) \/ OpenFallback(n)
    BY <1>0, <1>1, <2>3 DEF FetchFirst, OpenFallback, Set, Healthy
  <2>4. CASE Launch(n)
    BY <1>0, <1>1, <2>4 DEF Launch, Launched, Set, Healthy
  <2>5. CASE WriteFallback(n)
    BY <1>0, <1>1, <2>5, RolloutAssumption
    DEF WriteFallback, Launched, Set, Healthy
  <2> QED
    BY <1>3, <2>1, <2>2, <2>3, <2>4, <2>5 DEF Works
<1>4. ASSUME NEW n \in Nodes, VectorWorks(n)
      PROVE  Healthy(m)'
  <2>1. ~RefuseConfig(n) /\ ~VectorExits(n)
    <3>1. stage[n] = "up" => Accepted(disk[n])
      BY HealthyIsAccepted
    <3> QED
      BY <3>1 DEF RefuseConfig, VectorExits, Healthy
  <2> QED
    BY <1>1, <1>4, <2>1 DEF VectorWorks, StartVector, Reload, Healthy
<1>5. ASSUME NEW n \in Nodes, NodeFails(n)
      PROVE  Healthy(m)'
  <2>1. Crash(n) \/ WriteFails(n)
    BY <1>5 DEF NodeFails, CrashWriting, CrashSaving, SaveFails, AgentDies,
                Fault, HarmlessOnly
  <2>2. CASE Crash(n)
    <3>1. Healthy(n) /\ stage[n] # "writing"
      BY <2>2 DEF Crash
    <3> QED
      BY <1>0, <1>1, <2>2, <3>1 DEF Crash, Restarted, Set, Healthy
  <2>3. CASE WriteFails(n)
    BY <1>0, <1>1, <2>3 DEF WriteFails, Polled, Set, Healthy
  <2> QED
    BY <2>1, <2>2, <2>3
<1>6. Publish \/ RollBack \/ UNCHANGED vars => Healthy(m)'
  BY <1>1 DEF Publish, RollBack, nodeVars, vars, Healthy
<1> QED
  BY <1>2, <1>3, <1>4, <1>5, <1>6 DEF Next

\* The three faults and the rejected bundle are the only causes: where none of
\* them happens, crashes of containers, lost polls and damaged downloads leave
\* no node behind.  (With any one of the four, TLC finds a node that is stuck.)
THEOREM NobodyStuck == Spec => [](HarmlessOnly => NeverStuck)
<1> DEFINE H == HarmlessOnly => \A n \in Nodes : Healthy(n)
<1>1. Init => H
  BY RolloutAssumption DEF Init, Healthy
<1>2. IInv /\ H /\ [Next]_vars => H'
  BY NextKeepsHealthy DEF HarmlessOnly
<1>3. IInv /\ H => (HarmlessOnly => NeverStuck)
  <2> SUFFICES ASSUME IInv, H, HarmlessOnly, NEW n \in Nodes
               PROVE  /\ stage[n] # "failed" /\ n \notin unsaved
                      /\ stage[n] = "up" => agent[n] # "off"
                      /\ stage[n] = "up" /\ agent[n] # "replaced"
                             /\ current # 0 => ~Stuck(n)
    BY DEF NeverStuck
  <2>1. Healthy(n)
    OBVIOUS
  <2>2. stage[n] = "up" => Accepted(disk[n])
    BY <2>1, HealthyIsAccepted
  <2>3. agent[n] # "replaced" /\ saved[n] = current /\ current # 0 =>
            disk[n] = current
    BY <2>1 DEF IInv, HonestUnlessCut, Healthy
  <2> QED
    BY <2>1, <2>2, <2>3 DEF Healthy, Stuck
<1> QED
  BY <1>1, <1>2, <1>3, Invariance, PTL DEF Spec

================================================================================
