------------------------------ MODULE RuleStore ------------------------------
(***************************************************************************)
(* The rule table, the chain settings and the audit log of the control     *)
(* plane, as concurrent API requests change them (services/rules.py,       *)
(* db/models.py, db/session.py, the /rules and /chain routes).             *)
(*                                                                         *)
(* FastAPI runs every synchronous handler in a worker thread with a        *)
(* session of its own, so requests interleave.  A request reads the row it *)
(* is about to change in SQLite's autocommit mode, computes the new row    *)
(* from that copy, takes the database's single write lock with its first   *)
(* INSERT or UPDATE, and makes the row and its audit entry visible         *)
(* together when it commits.  The ORM's UPDATE names only the columns      *)
(* whose value differs from the copy that was read.                        *)
(*                                                                         *)
(* A rule is reduced to the columns its validity and its effect depend on. *)
(* Requests that end before they write (404, 422, and the 500 of a row     *)
(* that no longer validates) leave nothing behind and are no steps here.   *)
(***************************************************************************)
EXTENDS Integers, Sequences

CONSTANTS
    Requests,         \* request slots: the worker threads of the API
    Ids,              \* rule ids, the primary key of the rules table
    Slugs,            \* for each rule name, the ids that are probed for it
    Payloads,         \* bodies of POST /rules
    Patches,          \* bodies of PATCH /rules/{id}
    SettingsPatches,  \* bodies of PUT /chain
    Unset,            \* a field the body does not set
    NoRow,            \* no row with this key
    NoTx,             \* the request has no transaction
    Nobody,           \* nobody holds the write lock
    Chain,            \* the audit target of the chain settings
    MaxAudit          \* bound: no request starts once the log is this long

Actions == {"forward", "drop"}

RuleRow == [action: Actions, retain_payload: BOOLEAN, enabled: BOOLEAN,
            version: Nat \ {0}]

Settings == [default_action: Actions, shadow_mode: BOOLEAN]

Payload == [action: Actions, retain_payload: BOOLEAN, enabled: BOOLEAN]

Patch == [action: Actions \cup {Unset}, retain_payload: BOOLEAN \cup {Unset},
          enabled: BOOLEAN \cup {Unset}]

SettingsPatch == [default_action: Actions \cup {Unset},
                  shadow_mode: BOOLEAN \cup {Unset}]

\* The cross-field check of the pydantic models, of a stored row as of a body.
Valid(rule) == rule.retain_payload => rule.action = "drop"

\* A transaction: the row as it was read and the row to be written.
RuleTx == [op: {"create", "update", "disable"}, target: Ids,
           base: RuleRow \cup {NoRow}, row: RuleRow]

SettingsTx == [op: {"chain"}, base: Settings, row: Settings]

\* An audit entry of a rule and of the chain settings.
RuleEntry == [op: {"create", "update", "disable"}, target: Ids,
              before: RuleRow \cup {NoRow}, after: RuleRow]

SettingsEntry == [op: {"chain"}, target: {Chain}, before: Settings,
                  after: Settings]

ASSUME RuleStoreAssumption ==
    /\ Slugs \subseteq Seq(Ids)
    /\ Payloads \subseteq {p \in Payload : Valid(p)}
    /\ Patches \subseteq Patch
    /\ SettingsPatches \subseteq SettingsPatch
    /\ NoRow \notin RuleRow
    /\ NoTx \notin RuleTx \cup SettingsTx
    /\ Nobody \notin Requests
    /\ Chain \notin Ids
    /\ MaxAudit \in Nat

VARIABLES
    rules,     \* committed rows of the rules table
    settings,  \* the committed chain settings row
    audit,     \* committed audit entries, oldest first
    writer,    \* the request that holds SQLite's write lock
    pc,        \* where each request is: idle, loaded or locked
    tx         \* the transaction of each request that is not idle

vars == <<rules, settings, audit, writer, pc, tx>>

-----------------------------------------------------------------------------

Chosen(new, old) == IF new = Unset THEN old ELSE new

\* update_rule: the fields the body sets, over the row that was read.
Merged(base, p) ==
    [action         |-> Chosen(p.action, base.action),
     retain_payload |-> Chosen(p.retain_payload, base.retain_payload),
     enabled        |-> Chosen(p.enabled, base.enabled),
     version        |-> base.version + 1]

\* Mistake: the row is removed.
Removed(base) == NoRow

\* disable_rule: the row that was read, disabled.
Disabled(base) ==
    [action         |-> base.action,
     retain_payload |-> base.retain_payload,
     enabled        |-> FALSE,
     version        |-> base.version + 1]

\* What an UPDATE leaves in the table: the columns the request changed, with
\* its values, and every other column as it is stored at that moment.
Column(stored, base, row) == IF row # base THEN row ELSE stored

\* Mistake: the version is counted up in the database, from whatever is there.
WrittenCounting(stored, base, row) ==
    [action         |-> Column(stored.action, base.action, row.action),
     retain_payload |-> Column(stored.retain_payload, base.retain_payload,
                               row.retain_payload),
     enabled        |-> Column(stored.enabled, base.enabled, row.enabled),
     version        |-> stored.version + 1]

\* Mistake: the UPDATE names every column, as the request had read it.
WrittenWhole(stored, base, row) == row

Written(stored, base, row) ==
    [action         |-> Column(stored.action, base.action, row.action),
     retain_payload |-> Column(stored.retain_payload, base.retain_payload,
                               row.retain_payload),
     enabled        |-> Column(stored.enabled, base.enabled, row.enabled),
     version        |-> row.version]

WrittenSettings(stored, base, row) ==
    [default_action |-> Column(stored.default_action, base.default_action,
                               row.default_action),
     shadow_mode    |-> Column(stored.shadow_mode, base.shadow_mode,
                               row.shadow_mode)]

Exists(id) == rules[id] # NoRow

\* Every row of the table still loads as a rule (list_rules, load_chain).
AllReadable == \A id \in Ids : Exists(id) => Valid(rules[id])

-----------------------------------------------------------------------------

Init ==
    /\ rules = [id \in Ids |-> NoRow]
    /\ settings = [default_action |-> "forward", shadow_mode |-> FALSE]
    /\ audit = <<>>
    /\ writer = Nobody
    /\ pc = [r \in Requests |-> "idle"]
    /\ tx = [r \in Requests |-> NoTx]

\* A request has read what it needs and computed what it will write.
Load(r, t) ==
    /\ pc[r] = "idle"
    /\ Len(audit) < MaxAudit
    /\ pc' = [pc EXCEPT ![r] = "loaded"]
    /\ tx' = [tx EXCEPT ![r] = t]
    /\ UNCHANGED <<rules, settings, audit, writer>>

\* POST /rules: take the first id of the slug's sequence that no row has.
\* Rows are never deleted, so probing one id at a time sees what one look at
\* the last of them sees.
CreateRead(r) ==
    \E slug \in Slugs, p \in Payloads : \E i \in 1..Len(slug) :
        /\ ~Exists(slug[i])
        /\ \A j \in 1..(i - 1) : Exists(slug[j])
        /\ Load(r, [op |-> "create", target |-> slug[i], base |-> NoRow,
                    row |-> [action         |-> p.action,
                             retain_payload |-> p.retain_payload,
                             enabled        |-> p.enabled,
                             version        |-> 1]])

\* Mistake: the merged row is not validated before the flush.
UpdateUnchecked(r) ==
    \E id \in Ids, p \in Patches :
        /\ Exists(id)
        /\ Valid(rules[id])
        /\ Load(r, [op |-> "update", target |-> id, base |-> rules[id],
                    row |-> Merged(rules[id], p)])

\* Mistake: the before snapshot is not put through the rule model.
UpdateUnread(r) ==
    \E id \in Ids, p \in Patches :
        /\ Exists(id)
        /\ Valid(Merged(rules[id], p))
        /\ Load(r, [op |-> "update", target |-> id, base |-> rules[id],
                    row |-> Merged(rules[id], p)])

\* PATCH /rules/{id}: the stored row must validate (the before snapshot) and
\* so must the merged row, which is checked before anything is written.
UpdateRead(r) ==
    \E id \in Ids, p \in Patches :
        /\ Exists(id)
        /\ Valid(rules[id])
        /\ Valid(Merged(rules[id], p))
        /\ Load(r, [op |-> "update", target |-> id, base |-> rules[id],
                    row |-> Merged(rules[id], p)])

\* DELETE /rules/{id}: a rule is disabled, never removed.
DisableRead(r) ==
    \E id \in Ids :
        /\ Exists(id)
        /\ Valid(rules[id])
        /\ Load(r, [op |-> "disable", target |-> id, base |-> rules[id],
                    row |-> Disabled(rules[id])])

\* PUT /chain.
SettingsRead(r) ==
    \E p \in SettingsPatches :
        Load(r, [op |-> "chain", base |-> settings,
                 row |-> [default_action |->
                              Chosen(p.default_action, settings.default_action),
                          shadow_mode |->
                              Chosen(p.shadow_mode, settings.shadow_mode)]])

\* The first statement that writes begins the transaction and takes the lock.
Lock(r) ==
    /\ pc[r] = "loaded"
    /\ writer = Nobody
    /\ writer' = r
    /\ pc' = [pc EXCEPT ![r] = "locked"]
    /\ UNCHANGED <<rules, settings, audit, tx>>

\* The transaction is over: the session is closed and the lock is free.
Finish(r) ==
    /\ pc' = [pc EXCEPT ![r] = "idle"]
    /\ tx' = [tx EXCEPT ![r] = NoTx]
    /\ writer' = IF writer = r THEN Nobody ELSE writer

\* The primary key the INSERT would repeat, taken since it was probed.
KeyTaken(t) == t.op = "create" /\ Exists(t.target)

Entry(op, target, before, after) ==
    [op |-> op, target |-> target, before |-> before, after |-> after]

\* Mistake: the row is committed and its audit entry is left behind.
CommitUnaudited(r) ==
    LET t == tx[r] IN
    /\ pc[r] = "locked"
    /\ t.op # "chain"
    /\ ~KeyTaken(t)
    /\ rules' = [rules EXCEPT ![t.target] =
                     IF t.op = "create" THEN t.row
                                        ELSE Written(@, t.base, t.row)]
    /\ UNCHANGED <<settings, audit>>
    /\ Finish(r)

\* The row and its audit entry become visible in one commit.
CommitRule(r) ==
    LET t == tx[r] IN
    /\ pc[r] = "locked"
    /\ t.op # "chain"
    /\ ~KeyTaken(t)
    /\ rules' = [rules EXCEPT ![t.target] =
                     IF t.op = "create" THEN t.row
                                        ELSE Written(@, t.base, t.row)]
    /\ audit' = Append(audit, Entry(t.op, t.target, t.base, t.row))
    /\ UNCHANGED settings
    /\ Finish(r)

\* set_chain_settings ends by loading the whole chain, so every row must
\* still validate for the settings to be committed.
CommitSettings(r) ==
    LET t == tx[r] IN
    /\ pc[r] = "locked"
    /\ t.op = "chain"
    /\ AllReadable
    /\ settings' = WrittenSettings(settings, t.base, t.row)
    /\ audit' = Append(audit, Entry("chain", Chain, t.base, t.row))
    /\ UNCHANGED rules
    /\ Finish(r)

RollBack(r) ==
    /\ Finish(r)
    /\ UNCHANGED <<rules, settings, audit>>

\* The INSERT repeats a key, or the chain no longer loads: HTTP 500.
Refused(r) ==
    /\ pc[r] = "locked"
    /\ KeyTaken(tx[r]) \/ (tx[r].op = "chain" /\ ~AllReadable)
    /\ RollBack(r)

\* Mistake: no busy timeout, the driver waits for the lock for ever.
NeverTimesOut(r) == FALSE

\* The driver gives up waiting for the write lock ("database is locked").
LockTimeout(r) ==
    /\ pc[r] = "loaded"
    /\ writer # Nobody
    /\ RollBack(r)

\* Any other failure before the commit: the audit INSERT fails, the disk is
\* full, the process dies.  Nothing uncommitted survives.
Fail(r) ==
    /\ pc[r] # "idle"
    /\ RollBack(r)

\* The steps a request takes by itself once it has begun.
Proceed(r) ==
    \/ Lock(r)
    \/ CommitRule(r)
    \/ CommitSettings(r)
    \/ Refused(r)
    \/ LockTimeout(r)

Next ==
    \E r \in Requests :
        \/ CreateRead(r)
        \/ UpdateRead(r)
        \/ DisableRead(r)
        \/ SettingsRead(r)
        \/ Proceed(r)
        \/ Fail(r)

Spec == Init /\ [][Next]_vars

\* A worker thread that has begun a request runs on until it has answered.
FairSpec == Spec /\ \A r \in Requests : WF_vars(Proceed(r))

-----------------------------------------------------------------------------

\* Every variable has its type.
TypeOK ==
    /\ rules \in [Ids -> RuleRow \cup {NoRow}]
    /\ settings \in Settings
    /\ audit \in Seq(RuleEntry \cup SettingsEntry)
    /\ writer \in Requests \cup {Nobody}
    /\ pc \in [Requests -> {"idle", "loaded", "locked"}]
    /\ tx \in [Requests -> RuleTx \cup SettingsTx \cup {NoTx}]

-----------------------------------------------------------------------------

\* Every rule snapshot the audit log holds is a rule that validates, whatever
\* the requests that wrote it raced with: update_rule validates its own merged
\* copy before the flush, and each snapshot goes through the rule model.
AuditSnapshotsValid ==
    \A i \in 1..Len(audit) :
        audit[i].target \in Ids =>
            /\ audit[i].before # NoRow => Valid(audit[i].before)
            /\ Valid(audit[i].after)

\* The module's promise: "every mutation writes an audit row in the same
\* transaction".  The log only grows, by one entry at a time; it grows in the
\* step that changes the store, and nothing but the entry's target changes.
EveryChangeAudited ==
    [][ /\ Len(audit') = Len(audit) + 1
        /\ audit' = Append(audit, audit'[Len(audit')])
        /\ LET e == audit'[Len(audit')] IN
           /\ \A id \in Ids \ {e.target} : rules'[id] = rules[id]
           /\ e.target # Chain => settings' = settings
      ]_<<rules, settings, audit>>

\* An entry of the log with no later entry of the same target.
IsLast(i) == \A j \in (i + 1)..Len(audit) : audit[j].target # audit[i].target

Stored(target) == IF target = Chain THEN settings ELSE rules[target]

\* A stored rule carries the version of its last audit entry, however the
\* requests interleaved: the version a sampled decision quotes names an entry.
VersionMatchesAudit ==
    \A i \in 1..Len(audit) :
        IsLast(i) /\ audit[i].target \in Ids =>
            /\ Exists(audit[i].target)
            /\ rules[audit[i].target].version = audit[i].after.version

\* A request that works on this rule is under way.
Busy(r, id) == pc[r] # "idle" /\ tx[r] \in RuleTx /\ tx[r].target = id

\* A stored row that no longer validates, when no request that had read it
\* before is still under way.
OutOfReach(id) ==
    /\ Exists(id) /\ ~Valid(rules[id])
    /\ \A r \in Requests : ~Busy(r, id)

\* Such a row stays as it is for good: no later update or disable gets past
\* its before snapshot, not even one that would repair it, and while there is
\* one the chain settings cannot be changed either.
InvalidRowIsStuck ==
    [][ /\ \A id \in Ids : OutOfReach(id) =>
              rules'[id] = rules[id] /\ OutOfReach(id)'
        /\ ~AllReadable => settings' = settings ]_vars

\* Only the commit of an update that had read the rule disabled, and asks for
\* it, enables a disabled rule: a request that read it enabled cannot undo a
\* disable it raced with, whatever else of the rule it writes.
EnabledOnlyOnRequest ==
    [][ \A id \in Ids :
            Exists(id) /\ ~rules[id].enabled /\ rules'[id].enabled =>
                \E r \in Requests :
                    /\ pc[r] = "locked" /\ pc'[r] = "idle"
                    /\ tx[r].op = "update" /\ tx[r].target = id
                    /\ ~tx[r].base.enabled /\ tx[r].row.enabled ]_rules

\* A request that has begun is answered: nobody waits for the write lock for
\* ever, and whoever holds it gives it back.
RequestsFinish ==
    \A r \in Requests : (pc[r] # "idle") ~> (pc[r] = "idle")

\* No two requests that change the same rule are in flight together.
NoOverlap ==
    \A id \in Ids : \A r, s \in Requests : Busy(r, id) /\ Busy(s, id) => r = s

\* Every stored rule validates (holds when requests do not overlap).
ValidRows == AllReadable

=============================================================================
