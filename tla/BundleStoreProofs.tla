--------------------------- MODULE BundleStoreProofs --------------------------
(***************************************************************************)
(* What BundleStore guarantees for any number of requests and edits,       *)
(* whatever the gate decides, and that it implements ReleaseRegistry.      *)
(***************************************************************************)
EXTENDS BundleStore, SequenceTheorems, TLAPS

\* What a request knows at each stage.  The version a publish has computed is
\* at most one past the table (the table may have grown since, it never
\* shrinks), and it gets past the gate only as GateHolds allows.
RequestOK(stage, t) ==
    /\ t.op = "publish" /\ stage \in {"built", "checked", "ready", "locked"} =>
           t.version \in 1..(Len(bundles) + 1)
    /\ t.op = "rollback" =>
           /\ stage \in {"ready", "locked"}
           /\ t.version \in 1..Len(bundles)
    /\ stage \in {"settings", "rules", "built", "checked"} => t.gate = "ok"
    /\ stage = "checked" => t.rules \notin BadConfig
    /\ t.op = "publish" /\ stage \in {"ready", "locked"} =>
           \/ t.gate = "ok" /\ t.rules \notin BadConfig \cup BadProgram
           \/ t.gate = "skipped" /\ ~RequireVector

RequestsOK == \A r \in Requests : RequestOK(pc[r], tx[r])

EditsBounded == chain.settings + chain.rules <= MaxEdits

IInv ==
    /\ TypeOK
    /\ EditsBounded
    /\ RequestsOK
    /\ ActiveIsLastAudited
    /\ GateHolds

\* What GateHolds says of one version.
GateOf(v) ==
    \/ /\ bundles[v].gate = "ok"
       /\ bundles[v].rules \notin BadConfig \cup BadProgram
    \/ /\ bundles[v].gate = "skipped"
       /\ ~RequireVector
       /\ \E i \in 1..Len(audit) : /\ audit[i].op = "publish"
                                   /\ audit[i].version = v
                                   /\ audit[i].note = "validate skipped"

-----------------------------------------------------------------------------

\* next_version is one past the end of a table whose versions have no gap.
LEMMA LatestIsLen ==
    ASSUME bundles \in Seq(Bundle)
    PROVE  Latest = Len(bundles)
<1> DEFINE n == Len(bundles)
<1>1. DOMAIN bundles = 1..n /\ n \in Nat
  BY LenProperties
<1> HIDE DEF n
<1>2. n \in DOMAIN bundles \cup {0} /\ \A w \in DOMAIN bundles : w <= n
  BY <1>1
<1>3. ASSUME NEW v \in DOMAIN bundles \cup {0},
             \A w \in DOMAIN bundles : w <= v
      PROVE  v = n
  <2>1. v \in 0..n
    BY <1>1
  <2>2. n # 0 => n \in DOMAIN bundles
    BY <1>1
  <2>3. n # 0 => n <= v
    BY <1>3, <2>2
  <2> QED
    BY <1>1, <2>1, <2>3
<1>4. Latest = n
  BY <1>2, <1>3 DEF Latest
<1> QED
  BY <1>4 DEF n

\* Inserting the version after the last one appends to the table.
LEMMA InsertedIsAppend ==
    ASSUME bundles \in Seq(Bundle), NEW b \in Bundle
    PROVE  Inserted(Len(bundles) + 1, b) = Append(bundles, b)
<1>1. DOMAIN bundles = 1..Len(bundles) /\ Len(bundles) \in Nat
  OBVIOUS
<1>2. DOMAIN Append(bundles, b) = 1..(Len(bundles) + 1)
  BY <1>1
<1>3. \A w \in 1..(Len(bundles) + 1) :
          Append(bundles, b)[w] = IF w = Len(bundles) + 1 THEN b ELSE bundles[w]
  BY <1>1
<1>4. DOMAIN bundles \cup {Len(bundles) + 1} = 1..(Len(bundles) + 1)
  BY <1>1
<1>5. Append(bundles, b) =
        [w \in 1..(Len(bundles) + 1) |-> Append(bundles, b)[w]]
  <2>1. Append(bundles, b) \in Seq(Bundle)
    OBVIOUS
  <2>2. Len(Append(bundles, b)) = Len(bundles) + 1
    OBVIOUS
  <2>3. Append(bundles, b) \in [1..(Len(bundles) + 1) -> Bundle]
    BY <2>1, <2>2, LenProperties
  <2> QED
    BY <2>3
<1> QED
  BY <1>3, <1>4, <1>5 DEF Inserted

-----------------------------------------------------------------------------

LEMMA InitIInv == Init => IInv
<1> SUFFICES ASSUME Init PROVE IInv
  OBVIOUS
<1>1. BlankTx \in Tx
  BY BundleStoreAssumption DEF BlankTx, Tx, Revisions
<1>2. chain \in Chains /\ history \subseteq Chains
  BY BundleStoreAssumption DEF Init, Chains, Revisions
<1>3. bundles \in Seq(Bundle) /\ active \subseteq DOMAIN bundles
  BY DEF Init
<1>4. TypeOK
  BY <1>1, <1>2, <1>3 DEF Init, TypeOK, Stages
<1>5. EditsBounded
  BY BundleStoreAssumption DEF Init, EditsBounded
<1>6. RequestsOK
  BY DEF Init, RequestsOK, RequestOK, BlankTx
<1>7. ActiveIsLastAudited /\ GateHolds
  BY DEF Init, ActiveIsLastAudited, GateHolds
<1> QED
  BY <1>4, <1>5, <1>6, <1>7 DEF IInv

\* Nothing but the request table moves: the rest of the invariant stays.
LEMMA StoreUnchanged ==
    ASSUME IInv, UNCHANGED <<chain, history, bundles, active, audit>>,
           writer' \in Requests \cup {Nobody},
           pc' \in [Requests -> Stages], tx' \in [Requests -> Tx],
           \A r \in Requests : RequestOK(pc'[r], tx'[r])
    PROVE  IInv'
<1>1. TypeOK' /\ EditsBounded'
  BY DEF IInv, TypeOK, EditsBounded
<1>2. RequestsOK'
  BY DEF RequestsOK, RequestOK
<1>3. ActiveIsLastAudited'
  BY DEF IInv, ActiveIsLastAudited
<1>4. GateHolds'
  BY DEF IInv, GateHolds
<1> QED
  BY <1>1, <1>2, <1>3, <1>4 DEF IInv

LEMMA AdvanceKeepsIInv ==
    ASSUME IInv, NEW r \in Requests, NEW from, NEW to \in Stages, NEW t \in Tx,
           Advance(r, from, to, t), RequestOK(to, t)
    PROVE  IInv'
<1>1. /\ pc' = [pc EXCEPT ![r] = to]
      /\ tx' = [tx EXCEPT ![r] = t]
      /\ UNCHANGED <<chain, history, bundles, active, audit, writer>>
  BY DEF Advance
<1>2. /\ pc' \in [Requests -> Stages] /\ tx' \in [Requests -> Tx]
      /\ writer' \in Requests \cup {Nobody}
  BY <1>1 DEF IInv, TypeOK
<1>3. \A s \in Requests : RequestOK(pc'[s], tx'[s])
  BY <1>1 DEF IInv, TypeOK, RequestsOK
<1> QED
  BY <1>1, <1>2, <1>3, StoreUnchanged

LEMMA RollBackKeepsIInv ==
    ASSUME IInv, NEW r \in Requests, RollBack(r)
    PROVE  IInv'
<1>1. /\ pc' = [pc EXCEPT ![r] = "idle"]
      /\ tx' = [tx EXCEPT ![r] = BlankTx]
      /\ writer' \in {writer, Nobody}
      /\ UNCHANGED <<chain, history, bundles, active, audit>>
  BY DEF RollBack, Finish
<1>2. BlankTx \in Tx /\ RequestOK("idle", BlankTx)
  BY BundleStoreAssumption DEF BlankTx, Tx, Revisions, RequestOK
<1>3. /\ pc' \in [Requests -> Stages] /\ tx' \in [Requests -> Tx]
      /\ writer' \in Requests \cup {Nobody}
  BY <1>1, <1>2 DEF IInv, TypeOK, Stages
<1>4. \A s \in Requests : RequestOK(pc'[s], tx'[s])
  BY <1>1, <1>2 DEF IInv, TypeOK, RequestsOK
<1> QED
  BY <1>1, <1>3, <1>4, StoreUnchanged

LEMMA LockKeepsIInv ==
    ASSUME IInv, NEW r \in Requests, Lock(r)
    PROVE  IInv'
<1>1. /\ pc[r] = "ready"
      /\ pc' = [pc EXCEPT ![r] = "locked"]
      /\ tx' = tx
      /\ writer' = r
      /\ UNCHANGED <<chain, history, bundles, active, audit>>
  BY DEF Lock
<1>2. /\ pc' \in [Requests -> Stages] /\ tx' \in [Requests -> Tx]
      /\ writer' \in Requests \cup {Nobody}
  BY <1>1 DEF IInv, TypeOK, Stages
<1>3. RequestOK("locked", tx[r])
  BY <1>1 DEF IInv, RequestsOK, RequestOK
<1>4. \A s \in Requests : RequestOK(pc'[s], tx'[s])
  BY <1>1, <1>3 DEF IInv, TypeOK, RequestsOK
<1> QED
  BY <1>1, <1>2, <1>4, StoreUnchanged

LEMMA EditKeepsIInv ==
    ASSUME IInv, EditSettings \/ EditRules
    PROVE  IInv'
<1>1. /\ UNCHANGED <<bundles, active, audit, writer, pc, tx>>
      /\ history' = history \cup {chain'}
      /\ chain.settings + chain.rules < MaxEdits
  BY DEF EditSettings, EditRules, Edit
<1>2. chain \in Chains
  BY DEF IInv, TypeOK
<1>3. chain' \in Chains /\ EditsBounded'
  <2>1. CASE EditSettings
    <3>1. chain' = [chain EXCEPT !.settings = @ + 1]
      BY <2>1 DEF EditSettings, Edit
    <3> QED
      BY <1>1, <1>2, <3>1, BundleStoreAssumption
      DEF Chains, Revisions, EditsBounded
  <2>2. CASE EditRules
    <3>1. chain' = [chain EXCEPT !.rules = @ + 1]
      BY <2>2 DEF EditRules, Edit
    <3> QED
      BY <1>1, <1>2, <3>1, BundleStoreAssumption
      DEF Chains, Revisions, EditsBounded
  <2> QED
    BY <2>1, <2>2
<1>4. TypeOK'
  BY <1>1, <1>3 DEF IInv, TypeOK
<1>5. RequestsOK'
  BY <1>1 DEF IInv, RequestsOK, RequestOK
<1>6. ActiveIsLastAudited' /\ GateHolds'
  BY <1>1 DEF IInv, ActiveIsLastAudited, GateHolds
<1> QED
  BY <1>3, <1>4, <1>5, <1>6 DEF IInv

\* The steps of a publish before it writes, and the read of a rollback.
LEMMA ReadKeepsIInv ==
    ASSUME IInv, NEW r \in Requests,
           \/ ReadSettings(r) \/ ReadRules(r) \/ ReadVersion(r)
           \/ CheckConfig(r) \/ CheckProgram(r) \/ ReadTarget(r)
           \/ GateSkipped(r, "built") \/ GateSkipped(r, "checked")
    PROVE  IInv'
<1>1. /\ tx[r] \in Tx /\ RequestOK(pc[r], tx[r])
      /\ chain.settings \in Revisions /\ chain.rules \in Revisions
      /\ bundles \in Seq(Bundle)
  BY DEF IInv, TypeOK, RequestsOK, Chains
<1>2. 0 \in Revisions
  BY BundleStoreAssumption DEF Revisions
<1>3. CASE ReadSettings(r)
  <2> DEFINE t == [op |-> "publish", settings |-> chain.settings, rules |-> 0,
                   version |-> 0, gate |-> "ok", before |-> 0]
  <2>1. Advance(r, "idle", "settings", t)
    BY <1>3 DEF ReadSettings, BlankTx
  <2>2. t \in Tx /\ RequestOK("settings", t)
    BY <1>1, <1>2 DEF Tx, RequestOK
  <2> QED
    BY <2>1, <2>2, AdvanceKeepsIInv DEF Stages
<1>4. CASE ReadRules(r)
  <2> DEFINE t == [tx[r] EXCEPT !.rules = chain.rules]
  <2>1. Advance(r, "settings", "rules", t) /\ pc[r] = "settings"
    BY <1>4 DEF ReadRules, Advance
  <2>2. t \in Tx
    BY <1>1 DEF Tx
  <2>3. RequestOK("rules", t)
    BY <1>1, <2>1 DEF Tx, RequestOK
  <2> HIDE DEF t
  <2> QED
    BY <2>1, <2>2, <2>3, AdvanceKeepsIInv DEF Stages
<1>5. CASE ReadVersion(r)
  <2> DEFINE t == [tx[r] EXCEPT !.version = Len(bundles) + 1]
  <2>1. Advance(r, "rules", "built", t) /\ pc[r] = "rules"
    BY <1>1, <1>5, LatestIsLen DEF ReadVersion, Advance, NextVersion
  <2>2. Len(bundles) \in Nat
    BY <1>1, LenProperties
  <2>3. t \in Tx
    BY <1>1, <2>2 DEF Tx
  <2>4. RequestOK("built", t)
    BY <1>1, <2>1, <2>2 DEF Tx, RequestOK
  <2> HIDE DEF t
  <2> QED
    BY <2>1, <2>3, <2>4, AdvanceKeepsIInv DEF Stages
<1>6. CASE CheckConfig(r)
  <2>1. /\ Advance(r, "built", "checked", tx[r])
        /\ pc[r] = "built" /\ tx[r].rules \notin BadConfig
    BY <1>6 DEF CheckConfig, Advance
  <2>2. RequestOK("checked", tx[r])
    BY <1>1, <2>1 DEF RequestOK
  <2> QED
    BY <1>1, <2>1, <2>2, AdvanceKeepsIInv DEF Stages
<1>7. CASE CheckProgram(r)
  <2>1. /\ Advance(r, "checked", "ready", tx[r])
        /\ pc[r] = "checked" /\ tx[r].rules \notin BadProgram
    BY <1>7 DEF CheckProgram, Advance
  <2>2. RequestOK("ready", tx[r])
    BY <1>1, <2>1 DEF RequestOK
  <2> QED
    BY <1>1, <2>1, <2>2, AdvanceKeepsIInv DEF Stages
<1>8. CASE ReadTarget(r)
  <2>1. PICK v \in DOMAIN bundles :
          Advance(r, "idle", "ready", RollbackTx(v, ActiveVersion))
    BY <1>8 DEF ReadTarget
  <2> DEFINE t == RollbackTx(v, ActiveVersion)
  <2>2. v \in 1..Len(bundles) /\ Len(bundles) \in Nat
    BY <1>1, LenProperties
  <2>3. ActiveVersion \in Nat
    <3>1. active \subseteq 1..Len(bundles)
      BY <1>1, LenProperties DEF IInv, TypeOK
    <3>2. CASE active = {}
      BY <3>2 DEF ActiveVersion
    <3>3. CASE active # {}
      <4>1. ActiveVersion \in active
        BY <3>3 DEF ActiveVersion
      <4> QED
        BY <2>2, <3>1, <4>1
    <3> QED
      BY <3>2, <3>3
  <2>4. t \in Tx /\ RequestOK("ready", t)
    BY <1>2, <2>2, <2>3 DEF Tx, RequestOK, RollbackTx
  <2> QED
    BY <2>1, <2>4, AdvanceKeepsIInv DEF Stages
<1>9. ASSUME NEW from \in {"built", "checked"}, GateSkipped(r, from)
      PROVE  IInv'
  <2> DEFINE t == [tx[r] EXCEPT !.gate = "skipped"]
  <2>1. Advance(r, from, "ready", t) /\ pc[r] = from /\ ~RequireVector
    BY <1>9 DEF GateSkipped, Advance
  <2>2. t \in Tx
    BY <1>1 DEF Tx
  <2>3. RequestOK("ready", t)
    BY <1>1, <2>1 DEF Tx, RequestOK
  <2> HIDE DEF t
  <2> QED
    BY <2>1, <2>2, <2>3, AdvanceKeepsIInv DEF Stages
<1> QED
  BY <1>3, <1>4, <1>5, <1>6, <1>7, <1>8, <1>9

\* The log keeps its entries and gains the transaction's.
LEMMA LoggedAppends ==
    ASSUME audit \in Seq(Entry), NEW t \in Tx, audit' = Logged(t)
    PROVE  /\ audit' \in Seq(Entry) /\ audit' # <<>>
           /\ audit'[Len(audit')].version = t.version
           /\ \A i \in 1..Len(audit) :
                i \in 1..Len(audit') /\ audit'[i] = audit[i]
<1> DEFINE e == [op |-> t.op, version |-> t.version, before |-> t.before,
                 note |-> IF t.gate = "skipped" THEN "validate skipped"
                                                ELSE ""]
<1>1. audit' = Append(audit, e)
  BY DEF Logged
<1>2. e \in Entry /\ e.version = t.version
  BY DEF Tx, Entry
<1> HIDE DEF e
<1> QED
  BY <1>1, <1>2, AppendProperties

\* What both commits do: flag one version of the table, log it, and be done.
LEMMA CommitKeepsIInv ==
    ASSUME IInv, NEW r \in Requests, pc[r] = "locked",
           bundles' \in Seq(Bundle),
           Len(bundles) <= Len(bundles'), bundles' # <<>>,
           tx[r].version \in DOMAIN bundles',
           active' = Flagged(tx[r].version), audit' = Logged(tx[r]), Finish(r),
           GateHolds'
    PROVE  IInv'
<1>5. /\ audit' \in Seq(Entry) /\ audit' # <<>>
      /\ audit'[Len(audit')].version = tx[r].version
  BY LoggedAppends DEF IInv, TypeOK
<1>6. /\ pc' = [pc EXCEPT ![r] = "idle"]
      /\ tx' = [tx EXCEPT ![r] = BlankTx]
      /\ writer' \in {writer, Nobody}
      /\ UNCHANGED <<chain, history>>
  BY DEF Finish
<1>7. BlankTx \in Tx /\ RequestOK("idle", BlankTx)'
  BY BundleStoreAssumption DEF BlankTx, Tx, Revisions, RequestOK
<1>8. TypeOK'
  <2>1. /\ pc' \in [Requests -> Stages] /\ tx' \in [Requests -> Tx]
        /\ writer' \in Requests \cup {Nobody}
    BY <1>6, <1>7 DEF IInv, TypeOK, Stages
  <2>2. active' \subseteq DOMAIN bundles'
    BY DEF Flagged
  <2> QED
    BY <1>5, <1>6, <2>1, <2>2 DEF IInv, TypeOK
<1>9. RequestsOK'
  <2>1. Len(bundles) \in Nat /\ Len(bundles') \in Nat
    BY LenProperties DEF IInv, TypeOK
  <2>2. ASSUME NEW s \in Requests PROVE RequestOK(pc[s], tx[s])'
    <3>1. CASE s = r
      BY <1>6, <1>7, <3>1 DEF IInv, TypeOK, RequestOK
    <3>2. CASE s # r
      <4>1. pc'[s] = pc[s] /\ tx'[s] = tx[s]
        BY <1>6, <3>2 DEF IInv, TypeOK
      <4>2. RequestOK(pc[s], tx[s])
        BY DEF IInv, RequestsOK
      <4>3. \A n : n \in 1..Len(bundles) => n \in 1..Len(bundles')
        BY <2>1
      <4>4. \A n : n \in 1..(Len(bundles) + 1) => n \in 1..(Len(bundles') + 1)
        BY <2>1
      <4> QED
        BY <4>1, <4>2, <4>3, <4>4 DEF RequestOK
    <3> QED
      BY <3>1, <3>2
  <2> QED
    BY <2>2 DEF RequestsOK
<1>10. EditsBounded' /\ ActiveIsLastAudited'
  BY <1>5, <1>6 DEF IInv, EditsBounded, ActiveIsLastAudited, Flagged
<1> QED
  BY <1>8, <1>9, <1>10 DEF IInv

LEMMA CommitPublishKeepsIInv ==
    ASSUME IInv, NEW r \in Requests, CommitPublish(r)
    PROVE  IInv' /\ \E b \in Bundle : bundles' = Append(bundles, b)
<1> DEFINE t == tx[r]
           b == [settings |-> t.settings, rules |-> t.rules, gate |-> t.gate]
           n == Len(bundles)
<1>1. /\ pc[r] = "locked" /\ t.op = "publish"
      /\ t.version \notin DOMAIN bundles
      /\ bundles' = Inserted(t.version, b)
      /\ active' = Flagged(t.version) /\ audit' = Logged(t) /\ Finish(r)
  BY DEF CommitPublish, VersionTaken
<1>2. /\ t \in Tx /\ RequestOK(pc[r], t)
      /\ bundles \in Seq(Bundle) /\ n \in Nat /\ DOMAIN bundles = 1..n
      /\ audit \in Seq(Entry)
  BY LenProperties DEF IInv, TypeOK, RequestsOK
<1>3. t.version = n + 1
  BY <1>1, <1>2 DEF RequestOK
<1>4. b \in Bundle
  BY <1>2 DEF Tx, Bundle
<1>5. \/ b.gate = "ok" /\ b.rules \notin BadConfig \cup BadProgram
      \/ b.gate = "skipped" /\ t.gate = "skipped" /\ ~RequireVector
  BY <1>1, <1>2 DEF RequestOK
<1> HIDE DEF b
<1>6. bundles' = Append(bundles, b)
  BY <1>1, <1>2, <1>3, <1>4, InsertedIsAppend
<1>7. /\ bundles' \in Seq(Bundle) /\ Len(bundles') = n + 1 /\ bundles' # <<>>
      /\ DOMAIN bundles' = 1..(n + 1) /\ bundles'[n + 1] = b
      /\ \A v \in 1..n : bundles'[v] = bundles[v]
  BY <1>2, <1>4, <1>6, AppendProperties
<1>8. \A i \in 1..Len(audit) : i \in 1..Len(audit') /\ audit'[i] = audit[i]
  BY <1>1, <1>2, LoggedAppends
<1>9. ASSUME NEW v \in DOMAIN bundles' PROVE GateOf(v)'
  <2>1. CASE v \in 1..n
    <3>1. GateOf(v)
      BY <1>2, <2>1 DEF IInv, GateHolds, GateOf
    <3> QED
      BY <1>7, <1>8, <2>1, <3>1 DEF GateOf
  <2>2. CASE v = n + 1
    <3>1. bundles'[v] = b
      BY <1>7, <2>2
    <3>2. CASE b.gate = "ok" /\ b.rules \notin BadConfig \cup BadProgram
      BY <3>1, <3>2 DEF GateOf
    <3>3. CASE b.gate = "skipped" /\ t.gate = "skipped" /\ ~RequireVector
      <4> DEFINE e == [op |-> t.op, version |-> t.version,
                       before |-> t.before, note |-> "validate skipped"]
      <4>1. e.op = "publish" /\ e.version = v /\ e.note = "validate skipped"
        BY <1>1, <1>3, <2>2
      <4>2. audit' = Append(audit, e)
        BY <1>1, <3>3 DEF Logged
      <4> HIDE DEF e
      <4>3. Len(audit) + 1 \in 1..Len(audit') /\ audit'[Len(audit) + 1] = e
        BY <1>2, <4>2
      <4> QED
        BY <3>1, <3>3, <4>1, <4>3 DEF GateOf
    <3> QED
      BY <1>5, <3>2, <3>3
  <2> QED
    BY <1>2, <1>7, <2>1, <2>2
<1>10. GateHolds'
  BY <1>9 DEF GateHolds, GateOf
<1>11. Len(bundles) <= Len(bundles') /\ t.version \in DOMAIN bundles'
  BY <1>2, <1>3, <1>7
<1> QED
  BY <1>1, <1>4, <1>6, <1>7, <1>10, <1>11, CommitKeepsIInv

LEMMA CommitRollbackKeepsIInv ==
    ASSUME IInv, NEW r \in Requests, CommitRollback(r)
    PROVE  IInv'
<1>1. /\ pc[r] = "locked" /\ tx[r].op = "rollback" /\ UNCHANGED bundles
      /\ active' = Flagged(tx[r].version) /\ audit' = Logged(tx[r]) /\ Finish(r)
  BY DEF CommitRollback
<1>2. /\ RequestOK(pc[r], tx[r]) /\ tx[r] \in Tx /\ audit \in Seq(Entry)
      /\ bundles \in Seq(Bundle) /\ Len(bundles) \in Nat
      /\ DOMAIN bundles = 1..Len(bundles)
  BY LenProperties DEF IInv, TypeOK, RequestsOK
<1>3. tx[r].version \in 1..Len(bundles)
  BY <1>1, <1>2 DEF RequestOK
<1>4. \A i \in 1..Len(audit) : i \in 1..Len(audit') /\ audit'[i] = audit[i]
  BY <1>1, <1>2, LoggedAppends
<1>5. GateHolds'
  <2>1. ASSUME NEW v \in DOMAIN bundles PROVE GateOf(v)'
    <3>1. GateOf(v)
      BY DEF IInv, GateHolds, GateOf
    <3> QED
      BY <1>1, <1>4, <3>1 DEF GateOf
  <2> QED
    BY <1>1, <2>1 DEF GateHolds, GateOf
<1>6. /\ bundles' \in Seq(Bundle) /\ Len(bundles) <= Len(bundles')
      /\ bundles' # <<>> /\ tx[r].version \in DOMAIN bundles'
  BY <1>1, <1>2, <1>3
<1> QED
  BY <1>1, <1>5, <1>6, CommitKeepsIInv

LEMMA NextKeepsIInv == IInv /\ [Next]_vars => IInv'
<1> SUFFICES ASSUME IInv, [Next]_vars PROVE IInv'
  OBVIOUS
<1>1. CASE EditSettings \/ EditRules
  BY <1>1, EditKeepsIInv
<1>2. ASSUME NEW r \in Requests,
             ReadSettings(r) \/ ReadTarget(r) \/ Proceed(r) \/ Fail(r)
      PROVE  IInv'
  <2>1. CASE \/ ReadSettings(r) \/ ReadRules(r) \/ ReadVersion(r)
             \/ CheckConfig(r) \/ CheckProgram(r) \/ ReadTarget(r)
             \/ GateSkipped(r, "built") \/ GateSkipped(r, "checked")
    BY <2>1, ReadKeepsIInv
  <2>2. CASE Lock(r)
    BY <2>2, LockKeepsIInv
  <2>3. CASE CommitPublish(r)
    BY <2>3, CommitPublishKeepsIInv
  <2>4. CASE CommitRollback(r)
    BY <2>4, CommitRollbackKeepsIInv
  <2>5. CASE GateRefuses(r) \/ Refused(r) \/ LockTimeout(r) \/ Fail(r)
    BY <2>5, RollBackKeepsIInv DEF GateRefuses, Refused, LockTimeout, Fail
  <2> QED
    BY <1>2, <2>1, <2>2, <2>3, <2>4, <2>5 DEF Proceed
<1>3. CASE UNCHANGED vars
  <2>1. UNCHANGED vars =>
          UNCHANGED <<chain, history, bundles, active, audit, writer, pc, tx>>
    BY DEF vars
  <2>2. UNCHANGED <<chain, history, bundles, active, audit, writer, pc, tx>>
    BY <1>3, <2>1
  <2>3. /\ pc' \in [Requests -> Stages] /\ tx' \in [Requests -> Tx]
        /\ writer' \in Requests \cup {Nobody}
    BY <2>2 DEF IInv, TypeOK
  <2>4. \A r \in Requests : RequestOK(pc'[r], tx'[r])
    BY <2>2 DEF IInv, RequestsOK
  <2> QED
    BY <2>2, <2>3, <2>4, StoreUnchanged
<1> QED
  BY <1>1, <1>2, <1>3 DEF Next

-----------------------------------------------------------------------------

\* The strengthened invariant holds in every reachable state.
THEOREM Invariance == Spec => []IInv
BY InitIInv, NextKeepsIInv, PTL DEF Spec

\* Every variable has its type, and the versions have no gap.
THEOREM TypeCorrect == Spec => []TypeOK
<1>1. IInv => TypeOK
  BY DEF IInv
<1> QED
  BY <1>1, Invariance, PTL

\* However publishes and rollbacks interleave, exactly one bundle is active
\* from the first publish on, and the last audit entry names it (the flags and
\* the entry are written under one lock in services/bundles.py).
THEOREM ActiveSound == Spec => []ActiveIsLastAudited
<1>1. IInv => ActiveIsLastAudited
  BY DEF IInv
<1> QED
  BY <1>1, Invariance, PTL

\* No bundle that a check rejects is ever stored, and one that was not
\* checked is stored only when the setting allows it, with a note in the log.
THEOREM GateSound == Spec => []GateHolds
<1>1. IInv => GateHolds
  BY DEF IInv
<1> QED
  BY <1>1, Invariance, PTL

-----------------------------------------------------------------------------

\* How any step changes what pollers see: a publish appends a bundle and makes
\* it active, a rollback activates a version of the table, and every other
\* step leaves the table and the flags alone.
LEMMA StepShape ==
    ASSUME IInv, [Next]_vars
    PROVE  \/ /\ \E b \in Bundle : bundles' = Append(bundles, b)
              /\ active' = {Len(bundles) + 1}
           \/ /\ UNCHANGED bundles
              /\ \E v \in 1..Len(bundles) : active' = {v}
           \/ UNCHANGED <<bundles, active>>
<1>1. CASE EditSettings \/ EditRules
  BY <1>1 DEF EditSettings, EditRules, Edit
<1>2. ASSUME NEW r \in Requests,
             ReadSettings(r) \/ ReadTarget(r) \/ Proceed(r) \/ Fail(r)
      PROVE  \/ /\ \E b \in Bundle : bundles' = Append(bundles, b)
                /\ active' = {Len(bundles) + 1}
             \/ /\ UNCHANGED bundles
                /\ \E v \in 1..Len(bundles) : active' = {v}
             \/ UNCHANGED <<bundles, active>>
  <2>1. CASE \/ ReadSettings(r) \/ ReadRules(r) \/ ReadVersion(r)
             \/ CheckConfig(r) \/ CheckProgram(r) \/ ReadTarget(r)
             \/ GateSkipped(r, "built") \/ GateSkipped(r, "checked")
    BY <2>1
    DEF ReadSettings, ReadRules, ReadVersion, CheckConfig, CheckProgram,
        ReadTarget, GateSkipped, Advance
  <2>2. CASE Lock(r)
    BY <2>2 DEF Lock
  <2>3. CASE CommitPublish(r)
    <3>1. /\ pc[r] = "locked" /\ tx[r].op = "publish"
          /\ tx[r].version \notin DOMAIN bundles
          /\ active' = {tx[r].version}
      BY <2>3 DEF CommitPublish, VersionTaken, Flagged
    <3>2. /\ RequestOK(pc[r], tx[r])
          /\ Len(bundles) \in Nat /\ DOMAIN bundles = 1..Len(bundles)
      BY LenProperties DEF IInv, TypeOK, RequestsOK
    <3>3. tx[r].version = Len(bundles) + 1
      BY <3>1, <3>2 DEF RequestOK
    <3> QED
      BY <2>3, <3>1, <3>3, CommitPublishKeepsIInv
  <2>4. CASE CommitRollback(r)
    <3>1. /\ pc[r] = "locked" /\ tx[r].op = "rollback"
          /\ UNCHANGED bundles /\ active' = {tx[r].version}
      BY <2>4 DEF CommitRollback, Flagged
    <3>2. RequestOK(pc[r], tx[r])
      BY DEF IInv, RequestsOK
    <3> QED
      BY <3>1, <3>2 DEF RequestOK
  <2>5. CASE GateRefuses(r) \/ Refused(r) \/ LockTimeout(r) \/ Fail(r)
    BY <2>5 DEF GateRefuses, Refused, LockTimeout, Fail, RollBack
  <2> QED
    BY <1>2, <2>1, <2>2, <2>3, <2>4, <2>5 DEF Proceed
<1>3. CASE UNCHANGED vars
  BY <1>3 DEF vars
<1> QED
  BY <1>1, <1>2, <1>3 DEF Next

\* A stored bundle is never changed and never removed.
THEOREM Immutable == Spec => BundlesImmutable
<1>1. IInv /\ [Next]_vars =>
        [ \A v \in DOMAIN bundles :
            v \in DOMAIN bundles' /\ bundles'[v] = bundles[v] ]_bundles
  <2> SUFFICES ASSUME IInv, [Next]_vars, bundles' # bundles
               PROVE  \A v \in DOMAIN bundles :
                        v \in DOMAIN bundles' /\ bundles'[v] = bundles[v]
    OBVIOUS
  <2>1. PICK b \in Bundle : bundles' = Append(bundles, b)
    BY StepShape
  <2>2. bundles \in Seq(Bundle)
    BY DEF IInv, TypeOK
  <2> QED
    BY <2>1, <2>2, AppendProperties
<1> QED
  BY <1>1, Invariance, PTL DEF Spec, BundlesImmutable

\* Every behaviour of the bundle table is, for who polls it, a behaviour of
\* the registry: releases are only appended, one of them is current.
THEOREM Implements == Spec => ImplementsRegistry
<1>1. Init => Registry!RegistryInit
  BY DEF Init, Registry!RegistryInit, ActiveVersion
<1>2. IInv /\ [Next]_vars => [Registry!RegistryNext]_(Registry!registry)
  <2> SUFFICES ASSUME IInv, [Next]_vars
               PROVE  [Registry!RegistryNext]_(Registry!registry)
    OBVIOUS
  <2>1. CASE /\ \E b \in Bundle : bundles' = Append(bundles, b)
             /\ active' = {Len(bundles) + 1}
    <3>1. PICK b \in Bundle : bundles' = Append(bundles, b)
      BY <2>1
    <3>2. ActiveVersion' = Len(bundles) + 1
      BY <2>1 DEF ActiveVersion
    <3>3. Registry!Release(b)
      BY <3>1, <3>2 DEF Registry!Release
    <3> QED
      BY <3>3 DEF Registry!RegistryNext
  <2>2. CASE /\ UNCHANGED bundles
             /\ \E v \in 1..Len(bundles) : active' = {v}
    <3>1. PICK v \in 1..Len(bundles) : active' = {v}
      BY <2>2
    <3>2. ActiveVersion' = v
      BY <3>1 DEF ActiveVersion
    <3>3. Registry!Revert(v)
      BY <2>2, <3>2 DEF Registry!Revert
    <3> QED
      BY <3>3 DEF Registry!RegistryNext
  <2>3. CASE UNCHANGED <<bundles, active>>
    BY <2>3 DEF Registry!registry, ActiveVersion
  <2> QED
    BY <2>1, <2>2, <2>3, StepShape
<1> QED
  BY <1>1, <1>2, Invariance, PTL
  DEF Spec, ImplementsRegistry, Registry!RegistrySpec

-----------------------------------------------------------------------------

\* The note of an audit entry says that the gate was skipped.
NoteOf(gate) == IF gate = "skipped" THEN "validate skipped" ELSE ""

\* The audit log holds one publish entry for each stored bundle, in the order
\* of the versions; its note says whether the gate was skipped; and no entry
\* names a version that is not in the table.
PublishesLogged ==
    /\ \A i \in 1..Len(audit) : audit[i].version \in DOMAIN bundles
    /\ \A v \in DOMAIN bundles :
         \E i \in 1..Len(audit) :
            /\ audit[i].op = "publish" /\ audit[i].version = v
            /\ audit[i].note = NoteOf(bundles[v].gate)
    /\ \A i, j \in 1..Len(audit) :
         audit[i].op = "publish" /\ audit[j].op = "publish" /\ i < j
             => audit[i].version < audit[j].version

\* Who commits: everything the two commits have in common for the log.
LEMMA CommitLogs ==
    ASSUME IInv, NEW r \in Requests, CommitPublish(r) \/ CommitRollback(r)
    PROVE  \E e \in Entry :
              /\ audit' = Append(audit, e)
              /\ e.op = tx[r].op /\ e.version = tx[r].version
              /\ e.note = NoteOf(tx[r].gate)
<1> DEFINE t == tx[r]
           e == [op |-> t.op, version |-> t.version, before |-> t.before,
                 note |-> NoteOf(t.gate)]
<1>1. t \in Tx
  BY DEF IInv, TypeOK
<1>2. e \in Entry
  BY <1>1 DEF Tx, Entry, NoteOf
<1>3. audit' = Append(audit, e)
  BY DEF CommitPublish, CommitRollback, Logged, NoteOf
<1>4. /\ e.op = t.op /\ e.version = t.version
      /\ e.note = NoteOf(t.gate)
  OBVIOUS
<1> QED
  BY <1>2, <1>3, <1>4

LEMMA NextLogsPublishes ==
    ASSUME IInv, PublishesLogged, [Next]_vars
    PROVE  PublishesLogged'
<1> DEFINE n == Len(bundles)
           m == Len(audit)
<1>0. /\ bundles \in Seq(Bundle) /\ n \in Nat /\ DOMAIN bundles = 1..n
      /\ audit \in Seq(Entry) /\ m \in Nat
  BY LenProperties DEF IInv, TypeOK
<1>1. ASSUME NEW r \in Requests, CommitPublish(r)
      PROVE  PublishesLogged'
  <2> DEFINE t == tx[r]
             b == [settings |-> t.settings, rules |-> t.rules, gate |-> t.gate]
  <2>1. PICK e \in Entry :
           /\ audit' = Append(audit, e) /\ e.op = t.op /\ e.version = t.version
           /\ e.note = NoteOf(t.gate)
    BY <1>1, CommitLogs
  <2>2. /\ t \in Tx /\ RequestOK(pc[r], t) /\ pc[r] = "locked"
        /\ t.op = "publish" /\ t.version \notin DOMAIN bundles
        /\ bundles' = Inserted(t.version, b)
    BY <1>1 DEF IInv, TypeOK, RequestsOK, CommitPublish, VersionTaken
  <2>3. t.version = n + 1
    BY <1>0, <2>2 DEF RequestOK
  <2>4. b \in Bundle /\ b.gate = t.gate
    BY <2>2 DEF Tx, Bundle
  <2> HIDE DEF t, b
  <2>5. bundles' = Append(bundles, b)
    BY <1>0, <2>2, <2>3, <2>4, InsertedIsAppend
  <2>6. /\ DOMAIN bundles' = 1..(n + 1) /\ bundles'[n + 1] = b
        /\ \A v \in 1..n : bundles'[v] = bundles[v]
    BY <1>0, <2>4, <2>5, AppendProperties
  <2>7. /\ Len(audit') = m + 1 /\ audit'[m + 1] = e
        /\ \A i \in 1..m : audit'[i] = audit[i]
    BY <1>0, <2>1
  <2> HIDE DEF n, m
  <2>8. \A i \in 1..m : audit[i].version \in 1..n
    BY <1>0 DEF PublishesLogged, m
  <2>9. \A i \in 1..(m + 1) : audit'[i].version \in 1..(n + 1)
    BY <1>0, <2>1, <2>3, <2>7, <2>8
  <2>10. ASSUME NEW v \in 1..(n + 1)
         PROVE  \E i \in 1..(m + 1) :
                   /\ audit'[i].op = "publish" /\ audit'[i].version = v
                   /\ audit'[i].note = NoteOf(bundles'[v].gate)
    <3>1. CASE v = n + 1
      BY <1>0, <2>1, <2>2, <2>3, <2>4, <2>6, <2>7, <3>1
    <3>2. CASE v \in 1..n
      <4>1. PICK i \in 1..m :
                   /\ audit[i].op = "publish" /\ audit[i].version = v
                   /\ audit[i].note = NoteOf(bundles[v].gate)
        BY <1>0, <3>2 DEF PublishesLogged, m
      <4>2. i \in 1..(m + 1) /\ audit'[i] = audit[i] /\ bundles'[v] = bundles[v]
        BY <1>0, <2>6, <2>7, <3>2
      <4> QED
        BY <4>1, <4>2
    <3> QED
      BY <1>0, <3>1, <3>2
  <2>11. ASSUME NEW i \in 1..(m + 1), NEW j \in 1..(m + 1), i < j,
                audit'[i].op = "publish", audit'[j].op = "publish"
         PROVE  audit'[i].version < audit'[j].version
    <3>1. i \in 1..m /\ audit'[i] = audit[i]
      BY <1>0, <2>7, <2>11
    <3>2. CASE j = m + 1
      BY <1>0, <2>1, <2>3, <2>7, <2>8, <3>1, <3>2
    <3>3. CASE j \in 1..m
      BY <2>7, <2>11, <3>1, <3>3 DEF PublishesLogged, m
    <3> QED
      BY <1>0, <3>2, <3>3
  <2> QED
    BY <2>6, <2>7, <2>9, <2>10, <2>11 DEF PublishesLogged
<1>2. ASSUME NEW r \in Requests, CommitRollback(r)
      PROVE  PublishesLogged'
  <2>1. PICK e \in Entry :
           /\ audit' = Append(audit, e)
           /\ e.op = tx[r].op /\ e.version = tx[r].version
    BY <1>2, CommitLogs
  <2>2. e.op = "rollback" /\ e.version \in 1..n /\ bundles' = bundles
    BY <1>2, <2>1 DEF CommitRollback, IInv, RequestsOK, RequestOK
  <2>3. /\ Len(audit') = m + 1 /\ audit'[m + 1] = e
        /\ \A i \in 1..m : audit'[i] = audit[i]
    BY <1>0, <2>1
  <2> HIDE DEF n, m
  <2>4. \A i \in 1..(m + 1) :
           i \in 1..m \/ (i = m + 1 /\ audit'[i].op # "publish")
    BY <1>0, <2>2, <2>3
  <2>5. \A i \in 1..m : i \in 1..(m + 1)
    BY <1>0
  <2>6. \A i \in 1..(m + 1) : audit'[i].version \in 1..n
    BY <1>0, <2>2, <2>3, <2>4 DEF PublishesLogged, m
  <2>7. ASSUME NEW v \in 1..n
        PROVE  \E i \in 1..(m + 1) :
                  /\ audit'[i].op = "publish" /\ audit'[i].version = v
                  /\ audit'[i].note = NoteOf(bundles'[v].gate)
    <3>1. PICK i \in 1..m :
                  /\ audit[i].op = "publish" /\ audit[i].version = v
                  /\ audit[i].note = NoteOf(bundles[v].gate)
      BY <1>0 DEF PublishesLogged, m
    <3> QED
      BY <2>2, <2>3, <2>5, <3>1
  <2>8. \A i, j \in 1..(m + 1) :
           audit'[i].op = "publish" /\ audit'[j].op = "publish" /\ i < j
               => audit'[i].version < audit'[j].version
    BY <2>3, <2>4 DEF PublishesLogged, m
  <2> QED
    BY <1>0, <2>2, <2>3, <2>6, <2>7, <2>8 DEF PublishesLogged
<1>3. ASSUME ~(\E r \in Requests : CommitPublish(r) \/ CommitRollback(r))
      PROVE  UNCHANGED <<bundles, audit>>
  BY <1>3 DEF Next, vars, Proceed, EditSettings, EditRules, Edit, ReadSettings,
              ReadRules, ReadVersion, CheckConfig, CheckProgram, ReadTarget,
              GateSkipped, Advance, Lock, GateRefuses, Refused, LockTimeout,
              Fail, RollBack
<1>4. UNCHANGED <<bundles, audit>> => PublishesLogged'
  BY DEF PublishesLogged
<1> QED
  BY <1>1, <1>2, <1>3, <1>4

\* Every stored bundle, and no other, has its publish in the log.
THEOREM PublishLogSound == Spec => []PublishesLogged
<1>1. Init => PublishesLogged
  BY DEF Init, PublishesLogged
<1>2. IInv /\ PublishesLogged /\ [Next]_vars => PublishesLogged'
  BY NextLogsPublishes
<1> QED
  BY <1>1, <1>2, Invariance, PTL DEF Spec

-----------------------------------------------------------------------------

\* No edit of the chain settings falls between the two SELECTs of load_chain.
SettingsStand ==
    \A r \in Requests :
        pc[r] = "settings" => tx[r].settings = chain.settings

\* The chain a request is publishing, from its second SELECT on.
ChainOf(t) == [settings |-> t.settings, rules |-> t.rules]

\* What is being published, like what is stored, was the current chain once.
Whole ==
    /\ chain \in history
    /\ \A r \in Requests :
         /\ tx[r].op = "publish"
         /\ pc[r] \in {"rules", "built", "checked", "ready", "locked"}
         => ChainOf(tx[r]) \in history
    /\ NoTornBundle

LEMMA NextWhole ==
    ASSUME IInv, SettingsStand, Whole, [Next]_vars
    PROVE  Whole'
<1>0. /\ chain \in Chains /\ \A r \in Requests : tx[r] \in Tx
      /\ \A r \in Requests : RequestOK(pc[r], tx[r])
      /\ bundles \in Seq(Bundle)
  BY DEF IInv, TypeOK, RequestsOK
<1>1. CASE EditSettings \/ EditRules
  BY <1>1 DEF EditSettings, EditRules, Edit, Whole, NoTornBundle
<1>2. ASSUME NEW r \in Requests, NEW from, NEW to, NEW t, Advance(r, from, to, t),
             t.op = "publish"
             /\ to \in {"rules", "built", "checked", "ready", "locked"}
                 => ChainOf(t) \in history
      PROVE  Whole'
  BY <1>2 DEF Advance, Whole, NoTornBundle, IInv, TypeOK
<1>3. ASSUME NEW r \in Requests, ReadSettings(r)
      PROVE  Whole'
  BY <1>2, <1>3 DEF ReadSettings
<1>4. ASSUME NEW r \in Requests, ReadRules(r)
      PROVE  Whole'
  <2>1. pc[r] = "settings" /\ tx[r].settings = chain.settings
    BY <1>4 DEF ReadRules, Advance, SettingsStand
  <2> DEFINE t == [tx[r] EXCEPT !.rules = chain.rules]
  <2>2. ChainOf(t) = chain
    BY <1>0, <2>1 DEF Tx, Chains, ChainOf
  <2>3. ChainOf(t) \in history
    BY <2>2 DEF Whole
  <2> QED
    BY <1>2, <1>4, <2>3 DEF ReadRules
<1>5. ASSUME NEW r \in Requests,
             \/ ReadVersion(r) \/ CheckConfig(r) \/ CheckProgram(r)
             \/ GateSkipped(r, "built") \/ GateSkipped(r, "checked")
      PROVE  Whole'
  <2>1. PICK from, to, t :
           /\ Advance(r, from, to, t)
           /\ from \in {"rules", "built", "checked"}
           /\ t.op = tx[r].op /\ ChainOf(t) = ChainOf(tx[r])
    <3>1. CASE ReadVersion(r)
      BY <1>0, <3>1 DEF ReadVersion, Tx, ChainOf
    <3>2. CASE CheckConfig(r) \/ CheckProgram(r)
      BY <3>2 DEF CheckConfig, CheckProgram
    <3>3. CASE GateSkipped(r, "built") \/ GateSkipped(r, "checked")
      BY <1>0, <3>3 DEF GateSkipped, Tx, ChainOf
    <3> QED
      BY <1>5, <3>1, <3>2, <3>3
  <2>2. pc[r] = from
    BY <2>1 DEF Advance
  <2> QED
    BY <1>2, <2>1, <2>2 DEF Whole
<1>6. ASSUME NEW r \in Requests, ReadTarget(r)
      PROVE  Whole'
  BY <1>2, <1>6 DEF ReadTarget, RollbackTx
<1>7. ASSUME NEW r \in Requests, Lock(r)
      PROVE  Whole'
  BY <1>7 DEF Lock, Whole, NoTornBundle, IInv, TypeOK
<1>8. ASSUME NEW r \in Requests, CommitPublish(r)
      PROVE  Whole'
  <2>1. pc[r] = "locked" /\ tx[r].op = "publish" /\ Finish(r)
    BY <1>8 DEF CommitPublish
  <2>2. ChainOf(tx[r]) \in history
    BY <2>1 DEF Whole
  <2>3. NoTornBundle'
    <3> SUFFICES ASSUME NEW v \in DOMAIN bundles'
                 PROVE  ChainOf(bundles'[v]) \in history
      BY <2>1 DEF NoTornBundle, Finish, ChainOf
    <3>1. /\ v \in DOMAIN bundles \cup {tx[r].version}
          /\ bundles'[v] = IF v = tx[r].version
                             THEN [settings |-> tx[r].settings,
                                   rules    |-> tx[r].rules,
                                   gate     |-> tx[r].gate]
                             ELSE bundles[v]
      BY <1>8 DEF CommitPublish, Inserted
    <3>2. CASE v = tx[r].version
      BY <2>2, <3>1, <3>2 DEF ChainOf
    <3>3. CASE v # tx[r].version
      BY <3>1, <3>3 DEF Whole, NoTornBundle, ChainOf
    <3> QED
      BY <3>2, <3>3
  <2> QED
    BY <2>1, <2>3 DEF Whole, Finish, BlankTx, IInv, TypeOK
<1>9. ASSUME NEW r \in Requests,
             \/ CommitRollback(r) \/ GateRefuses(r) \/ Refused(r)
             \/ LockTimeout(r) \/ Fail(r)
      PROVE  Whole'
  <2>1. Finish(r) /\ bundles' = bundles
    BY <1>9 DEF CommitRollback, GateRefuses, Refused, LockTimeout, Fail,
                RollBack
  <2> QED
    BY <2>1 DEF Whole, NoTornBundle, Finish, IInv, TypeOK
<1>10. UNCHANGED vars => Whole'
  BY DEF vars, Whole, NoTornBundle
<1> QED
  BY <1>1, <1>3, <1>4, <1>5, <1>6, <1>7, <1>8, <1>9, <1>10 DEF Next, Proceed

\* What tears a bundle is an edit of the settings between the two reads of the
\* chain, and nothing else: rules edited at any moment, other publishes and
\* rollbacks do not.  (The run bundles_torn shows that such an edit does.)
THEOREM WholeWhileSettingsStand ==
    Spec /\ []SettingsStand => []NoTornBundle
<1>1. Init => Whole
  BY DEF Init, Whole, NoTornBundle
<1>2. IInv /\ SettingsStand /\ Whole /\ [Next]_vars => Whole'
  BY NextWhole
<1>3. Whole => NoTornBundle
  BY DEF Whole
<1> QED
  BY <1>1, <1>2, <1>3, Invariance, PTL DEF Spec

-----------------------------------------------------------------------------

\* SQLite's write lock is held by the request whose transaction is open, by no
\* other, and by nobody when there is none, whatever ends the request.
LockHeld == \A r \in Requests : writer = r <=> pc[r] = "locked"

THEOREM LockNeverLeaks == Spec => []LockHeld
<1>1. Init => LockHeld
  BY BundleStoreAssumption DEF Init, LockHeld
<1>2. IInv /\ LockHeld /\ [Next]_vars => LockHeld'
  <2> SUFFICES ASSUME IInv, LockHeld, [Next]_vars
               PROVE  LockHeld'
    OBVIOUS
  <2>1. CASE EditSettings \/ EditRules
    BY <2>1 DEF EditSettings, EditRules, Edit, LockHeld
  <2>2. ASSUME NEW r \in Requests,
               \/ ReadSettings(r) \/ ReadRules(r) \/ ReadVersion(r)
               \/ CheckConfig(r) \/ CheckProgram(r) \/ ReadTarget(r)
               \/ GateSkipped(r, "built") \/ GateSkipped(r, "checked")
        PROVE  LockHeld'
    <3>1. PICK from, to, t :
             /\ Advance(r, from, to, t)
             /\ from # "locked" /\ to # "locked"
      BY <2>2 DEF ReadSettings, ReadRules, ReadVersion, CheckConfig,
                  CheckProgram, ReadTarget, GateSkipped
    <3> QED
      BY <3>1 DEF Advance, LockHeld, IInv, TypeOK
  <2>3. ASSUME NEW r \in Requests, Lock(r)
        PROVE  LockHeld'
    BY <2>3, BundleStoreAssumption DEF Lock, LockHeld, IInv, TypeOK
  <2>4. ASSUME NEW r \in Requests,
               \/ CommitPublish(r) \/ CommitRollback(r) \/ GateRefuses(r)
               \/ Refused(r) \/ LockTimeout(r) \/ Fail(r)
        PROVE  LockHeld'
    <3>1. Finish(r)
      BY <2>4 DEF CommitPublish, CommitRollback, GateRefuses, Refused,
                  LockTimeout, Fail, RollBack
    <3> QED
      BY <3>1, BundleStoreAssumption DEF Finish, LockHeld, IInv, TypeOK
  <2>5. UNCHANGED vars => LockHeld'
    BY DEF vars, LockHeld
  <2> QED
    BY <2>1, <2>2, <2>3, <2>4, <2>5 DEF Next, Proceed
<1> QED
  BY <1>1, <1>2, Invariance, PTL DEF Spec

=============================================================================
