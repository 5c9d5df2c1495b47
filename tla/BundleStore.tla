------------------------------ MODULE BundleStore -----------------------------
(***************************************************************************)
(* Publishing and rolling back configuration bundles (services/bundles.py, *)
(* compiler/validate.py, the /bundles routes).                             *)
(*                                                                         *)
(* A publish request reads the chain settings, then the rules, then the    *)
(* highest version, each in a statement of its own outside any             *)
(* transaction; it renders the bundle and has the Vector binary check it,  *)
(* which takes seconds; only then does it take SQLite's write lock, clear  *)
(* the active flag, insert its row, add an audit entry and commit.  Edits  *)
(* of the chain and other publishes and rollbacks run meanwhile.           *)
(*                                                                         *)
(* The chain is reduced to two revision numbers, one for the settings row  *)
(* and one for the rule table: RuleStore says how they change.  A bundle   *)
(* is a deterministic rendering of the two it was built from.              *)
(***************************************************************************)
EXTENDS Integers, Sequences

CONSTANTS
    Requests,       \* request slots: the worker threads of the API
    Nobody,         \* nobody holds the write lock
    RequireVector,  \* SS_REQUIRE_VECTOR_ON_PUBLISH
    BadConfig,      \* rule revisions whose config `vector validate` rejects
    BadProgram,     \* rule revisions whose VRL program does not run
    MaxEdits,       \* bound on the edits of the chain
    MaxAudit        \* bound: no request starts once the log is this long

ASSUME BundleStoreAssumption ==
    /\ Nobody \notin Requests
    /\ RequireVector \in BOOLEAN
    /\ BadConfig \subseteq Nat
    /\ BadProgram \subseteq Nat
    /\ MaxEdits \in Nat
    /\ MaxAudit \in Nat

VARIABLES
    chain,    \* committed revisions of the chain settings and the rule table
    history,  \* history variable: every chain there ever was
    bundles,  \* committed rows of the bundles table, by version
    active,   \* the versions whose row has the active flag
    audit,    \* committed audit entries of publishes and rollbacks
    writer,   \* the request that holds SQLite's write lock
    pc,       \* where each request is
    tx        \* what each request has read and computed so far

vars == <<chain, history, bundles, active, audit, writer, pc, tx>>

\* A revision counts the edits that led to it.
Revisions == 0..MaxEdits

Chains == [settings: Revisions, rules: Revisions]

Bundle == [settings: Revisions, rules: Revisions, gate: {"ok", "skipped"}]

Entry == [op: {"publish", "rollback"}, version: Nat, before: Nat,
          note: {"", "validate skipped"}]

Tx == [op: {"publish", "rollback"}, settings: Revisions, rules: Revisions,
       version: Nat, gate: {"ok", "skipped"}, before: Nat]

Stages == {"idle", "settings", "rules", "built", "checked", "ready", "locked"}

BlankTx == [op |-> "publish", settings |-> 0, rules |-> 0, version |-> 0,
            gate |-> "ok", before |-> 0]

RollbackTx(v, before) ==
    [op |-> "rollback", settings |-> 0, rules |-> 0, version |-> v,
     gate |-> "ok", before |-> before]

\* The highest version in the table, 0 when it is empty.
Latest ==
    CHOOSE v \in DOMAIN bundles \cup {0} : \A w \in DOMAIN bundles : w <= v

NextVersion == Latest + 1

\* The version nodes are told to run, 0 when no bundle is active.
ActiveVersion == IF active = {} THEN 0 ELSE CHOOSE v \in active : TRUE

-----------------------------------------------------------------------------

Init ==
    /\ chain = [settings |-> 0, rules |-> 0]
    /\ history = {chain}
    /\ bundles = <<>>
    /\ active = {}
    /\ audit = <<>>
    /\ writer = Nobody
    /\ pc = [r \in Requests |-> "idle"]
    /\ tx = [r \in Requests |-> BlankTx]

\* A commit of RuleStore: it needs the write lock to be free.
Edit(new) ==
    /\ writer = Nobody
    /\ chain.settings + chain.rules < MaxEdits
    /\ chain' = new
    /\ history' = history \cup {new}
    /\ UNCHANGED <<bundles, active, audit, writer, pc, tx>>

EditSettings == Edit([chain EXCEPT !.settings = @ + 1])

EditRules == Edit([chain EXCEPT !.rules = @ + 1])

\* A request moves on without touching the database.
Advance(r, from, to, t) ==
    /\ pc[r] = from
    /\ pc' = [pc EXCEPT ![r] = to]
    /\ tx' = [tx EXCEPT ![r] = t]
    /\ UNCHANGED <<chain, history, bundles, active, audit, writer>>

\* publish: load_chain reads the settings row first, ...
ReadSettings(r) ==
    /\ Len(audit) < MaxAudit
    /\ Advance(r, "idle", "settings",
               [BlankTx EXCEPT !.settings = chain.settings])

\* ... then the rules, in a statement of its own, ...
ReadRules(r) ==
    Advance(r, "settings", "rules", [tx[r] EXCEPT !.rules = chain.rules])

\* ... then next_version looks for the highest version; the bundle is built.
ReadVersion(r) ==
    Advance(r, "rules", "built", [tx[r] EXCEPT !.version = NextVersion])

\* The binary is looked up again for each of the two checks.
GateSkipped(r, from) ==
    /\ ~RequireVector
    /\ Advance(r, from, "ready", [tx[r] EXCEPT !.gate = "skipped"])

\* `vector validate` accepts the rendered configuration.
CheckConfig(r) ==
    /\ tx[r].rules \notin BadConfig
    /\ Advance(r, "built", "checked", tx[r])

\* Mistake: the exit status of `vector vrl` is not looked at.
ProgramUnchecked(r) == Advance(r, "checked", "ready", tx[r])

\* `vector vrl` compiles the program and runs it over the probe corpus.
CheckProgram(r) ==
    /\ tx[r].rules \notin BadProgram
    /\ Advance(r, "checked", "ready", tx[r])

\* Mistake: the target row is not looked up before the flags are cleared.
TargetUnread(r) ==
    /\ Len(audit) < MaxAudit
    /\ \E v \in 1..MaxAudit :
         Advance(r, "idle", "ready", RollbackTx(v, ActiveVersion))

\* rollback: the target row exists; the active version is read for the log.
ReadTarget(r) ==
    /\ Len(audit) < MaxAudit
    /\ \E v \in DOMAIN bundles :
         Advance(r, "idle", "ready", RollbackTx(v, ActiveVersion))

\* UPDATE bundles SET active = false: the first statement that writes.
Lock(r) ==
    /\ pc[r] = "ready"
    /\ writer = Nobody
    /\ writer' = r
    /\ pc' = [pc EXCEPT ![r] = "locked"]
    /\ UNCHANGED <<chain, history, bundles, active, audit, tx>>

Finish(r) ==
    /\ pc' = [pc EXCEPT ![r] = "idle"]
    /\ tx' = [tx EXCEPT ![r] = BlankTx]
    /\ writer' = IF writer = r THEN Nobody ELSE writer
    /\ UNCHANGED <<chain, history>>

\* Mistake: the column has no unique constraint, a row is overwritten.
NeverTaken(v) == FALSE

\* uq_bundle_version: a row with this version is in the table already.
VersionTaken(v) == v \in DOMAIN bundles

Inserted(v, b) ==
    [w \in DOMAIN bundles \cup {v} |-> IF w = v THEN b ELSE bundles[w]]

\* Mistake: the UPDATE that clears the flags is missing.
FlaggedToo(v) == active \cup {v}

\* The flags a publish or rollback of v leaves: all cleared, then v's set.
Flagged(v) == {v}

Logged(t) ==
    Append(audit, [op |-> t.op, version |-> t.version, before |-> t.before,
                   note |-> IF t.gate = "skipped" THEN "validate skipped"
                                                  ELSE ""])

CommitPublish(r) ==
    LET t == tx[r] IN
    /\ pc[r] = "locked"
    /\ t.op = "publish"
    /\ ~VersionTaken(t.version)
    /\ bundles' = Inserted(t.version, [settings |-> t.settings,
                                       rules    |-> t.rules,
                                       gate     |-> t.gate])
    /\ active' = Flagged(t.version)
    /\ audit' = Logged(t)
    /\ Finish(r)

\* Mistake: the rollback puts the old content in as a new version's row.
RollbackCopies(r) ==
    LET t == tx[r] IN
    /\ pc[r] = "locked"
    /\ t.op = "rollback"
    /\ bundles' = Append(bundles, bundles[t.version])
    /\ active' = Flagged(t.version)
    /\ audit' = Logged(t)
    /\ Finish(r)

CommitRollback(r) ==
    LET t == tx[r] IN
    /\ pc[r] = "locked"
    /\ t.op = "rollback"
    /\ active' = Flagged(t.version)
    /\ audit' = Logged(t)
    /\ UNCHANGED bundles
    /\ Finish(r)

\* The session is closed without a commit: nothing of the request remains.
RollBack(r) ==
    /\ Finish(r)
    /\ UNCHANGED <<bundles, active, audit>>

\* Two publishes computed the same version; the second INSERT fails.
Refused(r) ==
    /\ pc[r] = "locked"
    /\ tx[r].op = "publish" /\ VersionTaken(tx[r].version)
    /\ RollBack(r)

\* A check rejects the bundle or times out, or there is no Vector to ask and
\* one is required: BundleValidationError, HTTP 422.
GateRefuses(r) ==
    /\ pc[r] \in {"built", "checked"}
    /\ RollBack(r)

\* Mistake: no busy timeout, the driver waits for the lock for ever.
NeverTimesOut(r) == FALSE

LockTimeout(r) ==
    /\ pc[r] = "ready"
    /\ writer # Nobody
    /\ RollBack(r)

\* Any other failure before the commit.
Fail(r) ==
    /\ pc[r] # "idle"
    /\ RollBack(r)

\* The steps a request takes by itself once it has begun.
Proceed(r) ==
    \/ ReadRules(r)
    \/ ReadVersion(r)
    \/ CheckConfig(r)
    \/ CheckProgram(r)
    \/ GateSkipped(r, "built")
    \/ GateSkipped(r, "checked")
    \/ GateRefuses(r)
    \/ Lock(r)
    \/ CommitPublish(r)
    \/ CommitRollback(r)
    \/ Refused(r)
    \/ LockTimeout(r)

Next ==
    \/ EditSettings
    \/ EditRules
    \/ \E r \in Requests :
        \/ ReadSettings(r)
        \/ ReadTarget(r)
        \/ Proceed(r)
        \/ Fail(r)

Spec == Init /\ [][Next]_vars

\* A worker thread that has begun a request runs on until it has answered.
FairSpec == Spec /\ \A r \in Requests : WF_vars(Proceed(r))

-----------------------------------------------------------------------------

\* Every variable has its type; the versions are 1, 2, 3 and so on.
TypeOK ==
    /\ chain \in Chains
    /\ history \subseteq Chains
    /\ bundles \in Seq(Bundle)
    /\ active \subseteq DOMAIN bundles
    /\ audit \in Seq(Entry)
    /\ writer \in Requests \cup {Nobody}
    /\ pc \in [Requests -> Stages]
    /\ tx \in [Requests -> Tx]

\* There is one active bundle from the first publish on, and it is the one
\* the last entry of the audit log names: no interleaving of publishes and
\* rollbacks leaves two bundles active, none, or one the log does not show.
ActiveIsLastAudited ==
    /\ bundles = <<>> <=> audit = <<>>
    /\ active = IF audit = <<>> THEN {} ELSE {audit[Len(audit)].version}

\* A published bundle is never changed and never removed, so a rollback
\* brings back exactly what the version was when it was published.
BundlesImmutable ==
    [][ \A v \in DOMAIN bundles :
          v \in DOMAIN bundles' /\ bundles'[v] = bundles[v] ]_bundles

\* Nothing is stored that the gate rejected.  A bundle the gate did not see
\* is stored only when the setting allows it, and its audit entry says so.
GateHolds ==
    \A v \in DOMAIN bundles :
        \/ /\ bundles[v].gate = "ok"
           /\ bundles[v].rules \notin BadConfig \cup BadProgram
        \/ /\ bundles[v].gate = "skipped"
           /\ ~RequireVector
           /\ \E i \in 1..Len(audit) : /\ audit[i].op = "publish"
                                       /\ audit[i].version = v
                                       /\ audit[i].note = "validate skipped"

\* What pollers see is the abstract registry of releases.
Registry == INSTANCE ReleaseRegistry WITH
    Contents <- Bundle,
    releases <- bundles,
    current  <- ActiveVersion

\* The bundle table and its active flag implement that registry.
ImplementsRegistry == Registry!RegistrySpec

\* A publish or rollback that has begun is answered.
RequestsFinish ==
    \A r \in Requests : (pc[r] # "idle") ~> (pc[r] = "idle")

\* "Compile the current chain": what a bundle was built from is a chain that
\* was the current one at some moment.
NoTornBundle ==
    \A v \in DOMAIN bundles :
        [settings |-> bundles[v].settings, rules |-> bundles[v].rules]
            \in history

=============================================================================
