--------------------------- MODULE RuleStoreProofs ---------------------------
(***************************************************************************)
(* What RuleStore guarantees for any number of requests, rule ids, names   *)
(* and bodies, however the requests interleave and fail.                   *)
(***************************************************************************)
EXTENDS RuleStore, TLAPS

\* A request past its read carries a transaction of the kind its operation
\* needs; the copies in it validate, and the row it will update exists.
TxOK ==
    \A r \in Requests : pc[r] # "idle" =>
        /\ tx[r] \in RuleTx \cup SettingsTx
        /\ tx[r] \in RuleTx =>
            /\ Valid(tx[r].row)
            /\ tx[r].op # "create" =>
                /\ Exists(tx[r].target)
                /\ tx[r].base \in RuleRow
                /\ Valid(tx[r].base)
            /\ tx[r].op = "create" => tx[r].base = NoRow
            /\ tx[r].op = "disable" => ~tx[r].row.enabled

IInv == TypeOK /\ TxOK /\ AuditSnapshotsValid

-----------------------------------------------------------------------------

LEMMA ChosenType ==
    ASSUME NEW S, NEW new \in S \cup {Unset}, NEW old \in S
    PROVE  Chosen(new, old) \in S
BY DEF Chosen

\* A merged row is a row of the table.
LEMMA MergedType ==
    ASSUME NEW base \in RuleRow, NEW p \in Patch
    PROVE  Merged(base, p) \in RuleRow
<1>1. Chosen(p.action, base.action) \in Actions
  BY DEF Chosen, RuleRow, Patch
<1>2. Chosen(p.retain_payload, base.retain_payload) \in BOOLEAN
  BY DEF Chosen, RuleRow, Patch
<1>3. Chosen(p.enabled, base.enabled) \in BOOLEAN
  BY DEF Chosen, RuleRow, Patch
<1>4. base.version + 1 \in Nat \ {0}
  BY DEF RuleRow
<1> QED
  BY <1>1, <1>2, <1>3, <1>4 DEF Merged, RuleRow

\* What an UPDATE leaves in the table is a row of the table.
LEMMA WrittenType ==
    ASSUME NEW stored \in RuleRow, NEW base \in RuleRow, NEW row \in RuleRow
    PROVE  Written(stored, base, row) \in RuleRow
BY DEF Written, Column, RuleRow

LEMMA WrittenSettingsType ==
    ASSUME NEW stored \in Settings, NEW base \in Settings, NEW row \in Settings
    PROVE  WrittenSettings(stored, base, row) \in Settings
BY DEF WrittenSettings, Column, Settings

\* A request that begins keeps the invariant when its transaction is sound.
LEMMA LoadKeepsIInv ==
    ASSUME IInv, NEW r \in Requests, NEW t \in RuleTx \cup SettingsTx,
           Load(r, t),
           t \in RuleTx =>
               /\ Valid(t.row)
               /\ t.op # "create" => /\ Exists(t.target)
                                     /\ t.base \in RuleRow
                                     /\ Valid(t.base)
               /\ t.op = "create" => t.base = NoRow
               /\ t.op = "disable" => ~t.row.enabled
    PROVE  IInv'
<1>1. TypeOK'
  BY DEF IInv, TypeOK, Load
<1>2. TxOK'
  BY DEF IInv, TypeOK, TxOK, Load, Exists
<1>3. AuditSnapshotsValid'
  BY DEF IInv, AuditSnapshotsValid, Load
<1> QED
  BY <1>1, <1>2, <1>3 DEF IInv

\* A request that ends without writing keeps it.
LEMMA RollBackKeepsIInv ==
    ASSUME IInv, NEW r \in Requests, RollBack(r)
    PROVE  IInv'
<1>1. TypeOK'
  BY DEF IInv, TypeOK, RollBack, Finish
<1>2. TxOK'
  BY DEF IInv, TypeOK, TxOK, RollBack, Finish, Exists
<1>3. AuditSnapshotsValid'
  BY DEF IInv, AuditSnapshotsValid, RollBack
<1> QED
  BY <1>1, <1>2, <1>3 DEF IInv

LEMMA InitIInv == Init => IInv
<1> SUFFICES ASSUME Init PROVE IInv
  OBVIOUS
<1>1. TypeOK
  BY RuleStoreAssumption DEF Init, TypeOK, Settings, Actions
<1>2. TxOK /\ AuditSnapshotsValid
  BY DEF Init, TxOK, AuditSnapshotsValid
<1> QED
  BY <1>1, <1>2 DEF IInv

LEMMA ReadsKeepIInv ==
    ASSUME IInv, NEW r \in Requests,
           CreateRead(r) \/ UpdateRead(r) \/ DisableRead(r) \/ SettingsRead(r)
    PROVE  IInv'
<1>1. CASE CreateRead(r)
  <2>1. PICK slug \in Slugs, p \in Payloads : \E i \in 1..Len(slug) :
            Load(r, [op |-> "create", target |-> slug[i], base |-> NoRow,
                     row |-> [action         |-> p.action,
                              retain_payload |-> p.retain_payload,
                              enabled        |-> p.enabled,
                              version        |-> 1]])
    BY <1>1 DEF CreateRead
  <2>0. PICK i \in 1..Len(slug) :
            Load(r, [op |-> "create", target |-> slug[i], base |-> NoRow,
                     row |-> [action         |-> p.action,
                              retain_payload |-> p.retain_payload,
                              enabled        |-> p.enabled,
                              version        |-> 1]])
    BY <2>1
  <2> DEFINE row == [action         |-> p.action,
                     retain_payload |-> p.retain_payload,
                     enabled        |-> p.enabled,
                     version        |-> 1]
             t == [op |-> "create", target |-> slug[i], base |-> NoRow,
                   row |-> row]
  <2>2. row \in RuleRow /\ Valid(row)
    BY RuleStoreAssumption DEF Payload, RuleRow, Valid
  <2>3. slug[i] \in Ids
    BY RuleStoreAssumption
  <2>4. t \in RuleTx /\ t.op = "create" /\ t.base = NoRow /\ t.row = row
    BY <2>2, <2>3 DEF RuleTx
  <2> HIDE DEF row
  <2> QED
    BY <2>0, <2>2, <2>4, LoadKeepsIInv DEF row
<1>2. CASE UpdateRead(r)
  <2>1. PICK id \in Ids, p \in Patches :
            /\ Exists(id)
            /\ Valid(rules[id])
            /\ Valid(Merged(rules[id], p))
            /\ Load(r, [op |-> "update", target |-> id, base |-> rules[id],
                        row |-> Merged(rules[id], p)])
    BY <1>2 DEF UpdateRead
  <2> DEFINE t == [op |-> "update", target |-> id, base |-> rules[id],
                   row |-> Merged(rules[id], p)]
  <2>2. rules[id] \in RuleRow
    BY <2>1 DEF IInv, TypeOK, Exists
  <2>3. Merged(rules[id], p) \in RuleRow
    BY <2>2, MergedType, RuleStoreAssumption
  <2>4. t \in RuleTx
    BY <2>2, <2>3 DEF RuleTx
  <2> QED
    BY <2>1, <2>2, <2>4, LoadKeepsIInv
<1>3. CASE DisableRead(r)
  <2>1. PICK id \in Ids :
            /\ Exists(id)
            /\ Valid(rules[id])
            /\ Load(r, [op |-> "disable", target |-> id, base |-> rules[id],
                        row |-> Disabled(rules[id])])
    BY <1>3 DEF DisableRead
  <2> DEFINE row == Disabled(rules[id])
             t == [op |-> "disable", target |-> id, base |-> rules[id],
                   row |-> row]
  <2>2. rules[id] \in RuleRow
    BY <2>1 DEF IInv, TypeOK, Exists
  <2>3. row \in RuleRow /\ Valid(row)
    BY <2>1, <2>2 DEF RuleRow, Valid, Disabled
  <2>4. ~row.enabled
    BY DEF Disabled
  <2>5. t \in RuleTx
    BY <2>2, <2>3 DEF RuleTx
  <2> HIDE DEF row
  <2>6. /\ t.target = id /\ t.base = rules[id] /\ t.row = row
        /\ t.op = "disable"
    OBVIOUS
  <2>7. Load(r, t)
    BY <2>1 DEF row
  <2> HIDE DEF t
  <2> QED
    BY <2>1, <2>2, <2>3, <2>4, <2>5, <2>6, <2>7, LoadKeepsIInv
<1>4. CASE SettingsRead(r)
  <2>1. PICK p \in SettingsPatches :
            Load(r, [op |-> "chain", base |-> settings,
                     row |-> [default_action |->
                                  Chosen(p.default_action,
                                         settings.default_action),
                              shadow_mode |->
                                  Chosen(p.shadow_mode, settings.shadow_mode)]])
    BY <1>4 DEF SettingsRead
  <2> DEFINE row == [default_action |->
                         Chosen(p.default_action, settings.default_action),
                     shadow_mode |->
                         Chosen(p.shadow_mode, settings.shadow_mode)]
             t == [op |-> "chain", base |-> settings, row |-> row]
  <2>2. settings \in Settings /\ p \in SettingsPatch
    BY RuleStoreAssumption DEF IInv, TypeOK
  <2>3. row \in Settings
    BY <2>2 DEF Settings, SettingsPatch, Chosen
  <2>4. t \in SettingsTx /\ t \notin RuleTx
    BY <2>2, <2>3 DEF SettingsTx, RuleTx
  <2> QED
    BY <2>1, <2>4, LoadKeepsIInv
<1> QED
  BY <1>1, <1>2, <1>3, <1>4

LEMMA LockKeepsIInv ==
    ASSUME IInv, NEW r \in Requests, Lock(r)
    PROVE  IInv'
<1>1. TypeOK'
  BY DEF IInv, TypeOK, Lock
<1>2. TxOK'
  BY DEF IInv, TypeOK, TxOK, Lock, Exists
<1>3. AuditSnapshotsValid'
  BY DEF IInv, AuditSnapshotsValid, Lock
<1> QED
  BY <1>1, <1>2, <1>3 DEF IInv

LEMMA CommitRuleKeepsIInv ==
    ASSUME IInv, NEW r \in Requests, CommitRule(r)
    PROVE  IInv'
<1> DEFINE t == tx[r]
           e == Entry(t.op, t.target, t.base, t.row)
           row == IF t.op = "create"
                    THEN t.row
                    ELSE Written(rules[t.target], t.base, t.row)
<1>1. t \in RuleTx
  BY DEF IInv, TypeOK, TxOK, CommitRule, SettingsTx
<1>2. /\ t.target \in Ids
      /\ t.base \in RuleRow \cup {NoRow}
      /\ t.row \in RuleRow
      /\ t.op \in {"create", "update", "disable"}
  BY <1>1 DEF RuleTx
<1>3. row \in RuleRow
  <2>1. CASE t.op = "create"
    BY <2>1, <1>2
  <2>2. CASE t.op # "create"
    <3>1. rules[t.target] \in RuleRow /\ t.base \in RuleRow
      BY <2>2, <1>1, <1>2 DEF IInv, TypeOK, TxOK, CommitRule, Exists
    <3> QED
      BY <2>2, <3>1, <1>2, WrittenType
  <2> QED
    BY <2>1, <2>2
<1>4. /\ e \in RuleEntry
      /\ e.target = t.target /\ e.before = t.base /\ e.after = t.row
  BY <1>2 DEF RuleEntry, Entry
<1>5. /\ rules' = [rules EXCEPT ![t.target] = row]
      /\ audit' = Append(audit, e)
      /\ UNCHANGED settings
      /\ Finish(r)
  BY DEF CommitRule
<1>6. /\ Valid(t.row)
      /\ t.base # NoRow => Valid(t.base)
  BY <1>1, <1>2 DEF IInv, TxOK, CommitRule
<1> HIDE DEF t, e, row
<1>7. TypeOK'
  BY <1>2, <1>3, <1>4, <1>5 DEF IInv, TypeOK, Finish
<1>8. TxOK'
  <2> SUFFICES ASSUME NEW s \in Requests, pc'[s] # "idle"
               PROVE  /\ tx'[s] \in RuleTx \cup SettingsTx
                      /\ tx'[s] \in RuleTx =>
                          /\ Valid(tx'[s].row)
                          /\ tx'[s].op # "create" =>
                              /\ Exists(tx[s].target)'
                              /\ tx'[s].base \in RuleRow
                              /\ Valid(tx'[s].base)
                          /\ tx'[s].op = "create" => tx'[s].base = NoRow
                          /\ tx'[s].op = "disable" => ~tx'[s].row.enabled
    BY DEF TxOK
  <2>1. s # r /\ tx'[s] = tx[s] /\ pc[s] # "idle"
    BY <1>5 DEF Finish, IInv, TypeOK
  <2>2. \A id \in Ids : Exists(id) => Exists(id)'
    BY <1>2, <1>3, <1>5, RuleStoreAssumption DEF IInv, TypeOK, Exists
  <2>3. tx[s] \in RuleTx => tx[s].target \in Ids
    BY DEF RuleTx
  <2> QED
    BY <2>1, <2>2, <2>3 DEF IInv, TxOK
<1>9. AuditSnapshotsValid'
  <2> SUFFICES ASSUME NEW i \in 1..Len(audit'), audit'[i].target \in Ids
               PROVE  /\ audit'[i].before # NoRow => Valid(audit'[i].before)
                      /\ Valid(audit'[i].after)
    BY DEF AuditSnapshotsValid
  <2>1. audit \in Seq(RuleEntry \cup SettingsEntry)
    BY DEF IInv, TypeOK
  <2>2. CASE i \in 1..Len(audit)
    BY <2>1, <2>2, <1>5 DEF IInv, AuditSnapshotsValid
  <2>3. CASE i = Len(audit) + 1
    BY <2>1, <2>3, <1>4, <1>5, <1>6
  <2> QED
    BY <2>1, <2>2, <2>3, <1>5
<1> QED
  BY <1>7, <1>8, <1>9 DEF IInv

LEMMA CommitSettingsKeepsIInv ==
    ASSUME IInv, NEW r \in Requests, CommitSettings(r)
    PROVE  IInv'
<1> DEFINE t == tx[r]
           e == Entry("chain", Chain, t.base, t.row)
           row == WrittenSettings(settings, t.base, t.row)
<1>1. t \in SettingsTx
  BY DEF IInv, TypeOK, TxOK, CommitSettings, RuleTx
<1>2. t.base \in Settings /\ t.row \in Settings
  BY <1>1 DEF SettingsTx
<1>3. row \in Settings
  BY <1>2, WrittenSettingsType DEF IInv, TypeOK
<1>4. e \in SettingsEntry /\ e.target = Chain
  BY <1>2 DEF SettingsEntry, Entry
<1>5. /\ settings' = row
      /\ audit' = Append(audit, e)
      /\ UNCHANGED rules
      /\ Finish(r)
  BY DEF CommitSettings
<1> HIDE DEF t, e, row
<1>6. TypeOK'
  BY <1>3, <1>4, <1>5 DEF IInv, TypeOK, Finish
<1>7. TxOK'
  BY <1>5 DEF IInv, TypeOK, TxOK, Finish, Exists
<1>8. AuditSnapshotsValid'
  <2> SUFFICES ASSUME NEW i \in 1..Len(audit'), audit'[i].target \in Ids
               PROVE  /\ audit'[i].before # NoRow => Valid(audit'[i].before)
                      /\ Valid(audit'[i].after)
    BY DEF AuditSnapshotsValid
  <2>1. audit \in Seq(RuleEntry \cup SettingsEntry)
    BY DEF IInv, TypeOK
  <2>2. CASE i \in 1..Len(audit)
    BY <2>1, <2>2, <1>5 DEF IInv, AuditSnapshotsValid
  <2>3. CASE i = Len(audit) + 1
    BY <2>1, <2>3, <1>4, <1>5, RuleStoreAssumption
  <2> QED
    BY <2>1, <2>2, <2>3, <1>5
<1> QED
  BY <1>6, <1>7, <1>8 DEF IInv

LEMMA NextIInv == IInv /\ [Next]_vars => IInv'
<1> SUFFICES ASSUME IInv, [Next]_vars PROVE IInv'
  OBVIOUS
<1>1. ASSUME NEW r \in Requests,
             CreateRead(r) \/ UpdateRead(r) \/ DisableRead(r) \/ SettingsRead(r)
      PROVE  IInv'
  BY <1>1, ReadsKeepIInv
<1>2. ASSUME NEW r \in Requests, Proceed(r) \/ Fail(r)
      PROVE  IInv'
  <2>1. CASE Lock(r)
    BY <2>1, LockKeepsIInv
  <2>2. CASE CommitRule(r)
    BY <2>2, CommitRuleKeepsIInv
  <2>3. CASE CommitSettings(r)
    BY <2>3, CommitSettingsKeepsIInv
  <2>4. CASE Refused(r) \/ LockTimeout(r) \/ Fail(r)
    BY <2>4, RollBackKeepsIInv DEF Refused, LockTimeout, Fail
  <2> QED
    BY <1>2, <2>1, <2>2, <2>3, <2>4 DEF Proceed
<1>3. CASE UNCHANGED vars
  BY <1>3 DEF vars, IInv, TypeOK, TxOK, AuditSnapshotsValid, Exists
<1> QED
  BY <1>1, <1>2, <1>3 DEF Next

THEOREM Invariance == Spec => []IInv
BY InitIInv, NextIInv, PTL DEF Spec

\* Every variable keeps its type: an UPDATE that writes some columns of a row
\* that changed since it was read still leaves a row of the table.
THEOREM TypeCorrect == Spec => []TypeOK
BY Invariance, PTL DEF IInv

\* No interleaving of requests, and no failure, puts a rule that does not
\* validate into the audit log.
THEOREM AuditSound == Spec => []AuditSnapshotsValid
BY Invariance, PTL DEF IInv

-----------------------------------------------------------------------------

\* The audit property as an action, so that it can be proved step by step.
AuditedStep ==
    /\ Len(audit') = Len(audit) + 1
    /\ audit' = Append(audit, audit'[Len(audit')])
    /\ LET e == audit'[Len(audit')] IN
       /\ \A id \in Ids \ {e.target} : rules'[id] = rules[id]
       /\ e.target # Chain => settings' = settings

LEMMA NextAudited ==
    ASSUME IInv, [Next]_vars
    PROVE  [AuditedStep]_<<rules, settings, audit>>
<1>0. audit \in Seq(RuleEntry \cup SettingsEntry)
  BY DEF IInv, TypeOK
<1>1. ASSUME NEW r \in Requests, CommitRule(r)
      PROVE  AuditedStep
  <2> DEFINE t == tx[r]
             e == Entry(t.op, t.target, t.base, t.row)
  <2>1. t \in RuleTx /\ t.target \in Ids
    BY <1>1 DEF IInv, TypeOK, TxOK, CommitRule, SettingsTx, RuleTx
  <2>2. audit' = Append(audit, e) /\ settings' = settings
    BY <1>1 DEF CommitRule
  <2>3. e \in RuleEntry /\ e.target = t.target
    BY <2>1 DEF RuleTx, RuleEntry, Entry
  <2>4. \A id \in Ids \ {t.target} : rules'[id] = rules[id]
    BY <1>1, <2>1 DEF CommitRule, IInv, TypeOK
  <2> HIDE DEF t, e
  <2>5. Len(audit') = Len(audit) + 1 /\ audit'[Len(audit')] = e
    BY <1>0, <2>2, <2>3
  <2> QED
    BY <2>2, <2>3, <2>4, <2>5 DEF AuditedStep
<1>2. ASSUME NEW r \in Requests, CommitSettings(r)
      PROVE  AuditedStep
  <2> DEFINE e == Entry("chain", Chain, tx[r].base, tx[r].row)
  <2>1. audit' = Append(audit, e) /\ rules' = rules
    BY <1>2 DEF CommitSettings
  <2>2. tx[r] \in SettingsTx
    BY <1>2 DEF IInv, TypeOK, TxOK, CommitSettings, RuleTx
  <2>3. e \in SettingsEntry /\ e.target = Chain
    BY <2>2 DEF SettingsTx, SettingsEntry, Entry
  <2> HIDE DEF e
  <2>4. Len(audit') = Len(audit) + 1 /\ audit'[Len(audit')] = e
    BY <1>0, <2>1, <2>3
  <2> QED
    BY <2>1, <2>3, <2>4 DEF AuditedStep
<1>3. ASSUME NEW r \in Requests,
             \/ CreateRead(r) \/ UpdateRead(r) \/ DisableRead(r)
             \/ SettingsRead(r) \/ Lock(r) \/ Refused(r)
             \/ LockTimeout(r) \/ Fail(r)
      PROVE  UNCHANGED <<rules, settings, audit>>
  BY <1>3 DEF CreateRead, UpdateRead, DisableRead, SettingsRead, Load, Lock,
              Refused, LockTimeout, Fail, RollBack
<1>4. CASE UNCHANGED vars
  BY <1>4 DEF vars
<1> QED
  BY <1>1, <1>2, <1>3, <1>4 DEF Next, Proceed

\* In every behaviour the rule table and the settings change only together
\* with the one audit entry that names what changed.
THEOREM Audited == Spec => EveryChangeAudited
<1>1. IInv /\ [Next]_vars => [AuditedStep]_<<rules, settings, audit>>
  BY NextAudited
<1> QED
  BY <1>1, Invariance, PTL DEF Spec, EveryChangeAudited, AuditedStep

-----------------------------------------------------------------------------

\* A committed entry leaves the version of the row it names in the table.
LEMMA NextVersionMatches ==
    ASSUME IInv, VersionMatchesAudit, [Next]_vars
    PROVE  VersionMatchesAudit'
<1>0. audit \in Seq(RuleEntry \cup SettingsEntry)
  BY DEF IInv, TypeOK
<1>1. ASSUME NEW r \in Requests, CommitRule(r)
      PROVE  VersionMatchesAudit'
  <2> DEFINE t == tx[r]
             e == Entry(t.op, t.target, t.base, t.row)
  <2>1. t \in RuleTx /\ t.target \in Ids /\ t.row \in RuleRow
    BY <1>1 DEF IInv, TypeOK, TxOK, CommitRule, SettingsTx, RuleTx
  <2>2. audit' = Append(audit, e)
    BY <1>1 DEF CommitRule
  <2>3. e \in RuleEntry /\ e.target = t.target /\ e.after = t.row
    BY <2>1 DEF RuleTx, RuleEntry, Entry
  <2>4. \A id \in Ids \ {t.target} : rules'[id] = rules[id]
    BY <1>1, <2>1 DEF CommitRule, IInv, TypeOK
  <2>5. rules'[t.target].version = t.row.version
    BY <1>1, <2>1 DEF CommitRule, IInv, TypeOK, Written
  <2>6. rules'[t.target] # NoRow
    <3>1. IInv'
      BY <1>1, CommitRuleKeepsIInv
    <3>2. rules'[t.target] \in RuleRow
      <4>1. CASE t.op = "create"
        BY <1>1, <2>1, <4>1 DEF CommitRule, IInv, TypeOK
      <4>2. CASE t.op # "create"
        <5>1. rules[t.target] \in RuleRow /\ t.base \in RuleRow
          BY <1>1, <2>1, <4>2 DEF IInv, TypeOK, TxOK, CommitRule, Exists
        <5>2. Written(rules[t.target], t.base, t.row) \in RuleRow
          BY <2>1, <5>1, WrittenType
        <5> QED
          BY <1>1, <2>1, <4>2, <5>2 DEF CommitRule, IInv, TypeOK
      <4> QED
        BY <4>1, <4>2
    <3> QED
      BY <3>2, RuleStoreAssumption
  <2> HIDE DEF t, e
  <2>7. SUFFICES ASSUME NEW i \in 1..Len(audit'), IsLast(i)',
                        audit'[i].target \in Ids
                 PROVE  /\ rules'[audit'[i].target] # NoRow
                        /\ rules'[audit'[i].target].version
                              = audit'[i].after.version
    BY DEF VersionMatchesAudit, Exists
  <2>8. Len(audit') = Len(audit) + 1 /\ audit'[Len(audit')] = e
    BY <1>0, <2>2, <2>3
  <2>9. CASE i = Len(audit')
    BY <2>3, <2>5, <2>6, <2>8, <2>9
  <2>10. CASE i # Len(audit')
    <3>1. i \in 1..Len(audit) /\ audit'[i] = audit[i]
      BY <1>0, <2>2, <2>8, <2>10
    <3>2. audit[i].target # t.target
      <4>1. Len(audit') \in (i + 1)..Len(audit')
        BY <1>0, <2>8, <3>1
      <4> QED
        BY <2>7, <2>3, <2>8, <3>1, <4>1 DEF IsLast
    <3>3. IsLast(i)
      <4> SUFFICES ASSUME NEW j \in (i + 1)..Len(audit)
                   PROVE  audit[j].target # audit[i].target
        BY DEF IsLast
      <4>1. j \in (i + 1)..Len(audit') /\ audit'[j] = audit[j]
        BY <1>0, <2>2, <2>8, <3>1
      <4> QED
        BY <2>7, <3>1, <4>1 DEF IsLast
    <3> QED
      BY <2>4, <2>7, <3>1, <3>2, <3>3 DEF VersionMatchesAudit, Exists
  <2> QED
    BY <2>9, <2>10
<1>2. ASSUME NEW r \in Requests, CommitSettings(r)
      PROVE  VersionMatchesAudit'
  <2> DEFINE e == Entry("chain", Chain, tx[r].base, tx[r].row)
  <2>1. audit' = Append(audit, e) /\ rules' = rules
    BY <1>2 DEF CommitSettings
  <2>2. tx[r] \in SettingsTx
    BY <1>2 DEF IInv, TypeOK, TxOK, CommitSettings, RuleTx
  <2>3. e \in SettingsEntry /\ e.target = Chain
    BY <2>2 DEF SettingsTx, SettingsEntry, Entry
  <2> HIDE DEF e
  <2>4. Len(audit') = Len(audit) + 1 /\ audit'[Len(audit')] = e
    BY <1>0, <2>1, <2>3
  <2>5. SUFFICES ASSUME NEW i \in 1..Len(audit'), IsLast(i)',
                        audit'[i].target \in Ids
                 PROVE  /\ rules'[audit'[i].target] # NoRow
                        /\ rules'[audit'[i].target].version
                              = audit'[i].after.version
    BY DEF VersionMatchesAudit, Exists
  <2>6. i \in 1..Len(audit) /\ audit'[i] = audit[i]
    BY <1>0, <2>1, <2>3, <2>4, <2>5, RuleStoreAssumption
  <2>7. IsLast(i)
    <3> SUFFICES ASSUME NEW j \in (i + 1)..Len(audit)
                 PROVE  audit[j].target # audit[i].target
      BY DEF IsLast
    <3>1. j \in (i + 1)..Len(audit') /\ audit'[j] = audit[j]
      BY <1>0, <2>1, <2>4, <2>6
    <3> QED
      BY <2>5, <2>6, <3>1 DEF IsLast
  <2> QED
    BY <2>1, <2>5, <2>6, <2>7 DEF VersionMatchesAudit, Exists
<1>3. ASSUME NEW r \in Requests,
             \/ CreateRead(r) \/ UpdateRead(r) \/ DisableRead(r)
             \/ SettingsRead(r) \/ Lock(r) \/ Refused(r)
             \/ LockTimeout(r) \/ Fail(r)
      PROVE  UNCHANGED <<rules, audit>>
  BY <1>3 DEF CreateRead, UpdateRead, DisableRead, SettingsRead, Load, Lock,
              Refused, LockTimeout, Fail, RollBack
<1>4. UNCHANGED vars => UNCHANGED <<rules, audit>>
  BY DEF vars
<1>5. UNCHANGED <<rules, audit>> => VersionMatchesAudit'
  BY DEF VersionMatchesAudit, IsLast, Exists
<1> QED
  BY <1>1, <1>2, <1>3, <1>4, <1>5 DEF Next, Proceed, vars

\* However requests race, a stored rule has the version of its last audit
\* entry, so the version in a drop record leads to an entry of the log.
THEOREM VersionTraceable == Spec => []VersionMatchesAudit
<1>1. Init => VersionMatchesAudit
  BY DEF Init, VersionMatchesAudit
<1>2. IInv /\ VersionMatchesAudit /\ [Next]_vars => VersionMatchesAudit'
  BY NextVersionMatches
<1> QED
  BY <1>1, <1>2, Invariance, PTL DEF Spec

-----------------------------------------------------------------------------

\* A read that begins on a rule that is out of reach ends before it writes:
\* whoever starts to work on a rule works on a row that validates, or on none.
LEMMA ReadsAvoidInvalid ==
    ASSUME IInv, NEW r \in Requests, NEW id \in Ids, OutOfReach(id),
           CreateRead(r) \/ UpdateRead(r) \/ DisableRead(r) \/ SettingsRead(r)
    PROVE  /\ rules' = rules
           /\ \A s \in Requests : ~Busy(s, id)'
<1>1. PICK t :
        /\ Load(r, t)
        /\ t \in RuleTx => t.target # id
  <2>1. CASE CreateRead(r)
    BY <2>1 DEF CreateRead, OutOfReach
  <2>2. CASE UpdateRead(r)
    BY <2>2 DEF UpdateRead, OutOfReach
  <2>3. CASE DisableRead(r)
    BY <2>3 DEF DisableRead, OutOfReach
  <2>4. CASE SettingsRead(r)
    BY <2>4 DEF SettingsRead, RuleTx
  <2> QED
    BY <2>1, <2>2, <2>3, <2>4
<1>2. rules' = rules
  BY <1>1 DEF Load
<1>3. ~Busy(r, id)'
  BY <1>1 DEF Load, Busy, IInv, TypeOK
<1>4. ASSUME NEW s \in Requests, s # r
      PROVE  ~Busy(s, id)'
  BY <1>1, <1>4 DEF Load, Busy, OutOfReach, IInv, TypeOK
<1> QED
  BY <1>2, <1>3, <1>4

LEMMA NextInvalidStuck ==
    ASSUME IInv, [Next]_vars, NEW id \in Ids, OutOfReach(id)
    PROVE  rules'[id] = rules[id] /\ OutOfReach(id)'
<1>1. rules'[id] = rules[id] /\ \A s \in Requests : ~Busy(s, id)'
  <2>1. ASSUME NEW r \in Requests,
               \/ CreateRead(r) \/ UpdateRead(r) \/ DisableRead(r)
               \/ SettingsRead(r)
        PROVE  rules'[id] = rules[id] /\ \A s \in Requests : ~Busy(s, id)'
    BY <2>1, ReadsAvoidInvalid
  <2>2. ASSUME NEW r \in Requests,
               \/ Lock(r) \/ CommitSettings(r) \/ Refused(r)
               \/ LockTimeout(r) \/ Fail(r)
        PROVE  rules'[id] = rules[id] /\ \A s \in Requests : ~Busy(s, id)'
    <3>1. rules' = rules
      BY <2>2 DEF Lock, CommitSettings, Refused, LockTimeout, Fail, RollBack
    <3>2. ASSUME NEW s \in Requests
          PROVE  ~Busy(s, id)'
      <4>1. tx'[s] = tx[s] \/ pc'[s] = "idle"
        BY <2>2 DEF Lock, CommitSettings, Refused, LockTimeout, Fail,
                    RollBack, Finish, IInv, TypeOK
      <4>2. pc'[s] = "idle" \/ pc[s] # "idle"
        BY <2>2 DEF Lock, CommitSettings, Refused, LockTimeout, Fail,
                    RollBack, Finish, IInv, TypeOK
      <4> QED
        BY <4>1, <4>2 DEF Busy, OutOfReach
    <3> QED
      BY <3>1, <3>2
  <2>3. ASSUME NEW r \in Requests, CommitRule(r)
        PROVE  rules'[id] = rules[id] /\ \A s \in Requests : ~Busy(s, id)'
    <3>1. tx[r] \in RuleTx /\ tx[r].target # id
      BY <2>3 DEF IInv, TypeOK, TxOK, CommitRule, SettingsTx, OutOfReach, Busy
    <3>2. rules'[id] = rules[id]
      BY <2>3, <3>1 DEF CommitRule, IInv, TypeOK
    <3>3. ASSUME NEW s \in Requests
          PROVE  ~Busy(s, id)'
      BY <2>3 DEF CommitRule, Finish, Busy, OutOfReach, IInv, TypeOK
    <3> QED
      BY <3>2, <3>3
  <2>4. CASE UNCHANGED vars
    BY <2>4 DEF vars, OutOfReach, Busy
  <2> QED
    BY <2>1, <2>2, <2>3, <2>4 DEF Next, Proceed
<1> QED
  BY <1>1 DEF OutOfReach, Exists

\* While a row does not validate, no step changes the settings.
LEMMA NextSettingsFrozen ==
    ASSUME [Next]_vars, ~AllReadable
    PROVE  settings' = settings
BY DEF Next, Proceed, vars, CreateRead, UpdateRead, DisableRead, SettingsRead,
       Load, Lock, CommitRule, CommitSettings, Refused, LockTimeout, Fail,
       RollBack

\* A row that went invalid and that no request works on any more is beyond
\* repair: no further behaviour of the API changes it.
THEOREM InvalidStaysStuck == Spec => InvalidRowIsStuck
<1>1. IInv /\ [Next]_vars =>
        [ /\ \A id \in Ids : OutOfReach(id) =>
               rules'[id] = rules[id] /\ OutOfReach(id)'
          /\ ~AllReadable => settings' = settings ]_vars
  BY NextInvalidStuck, NextSettingsFrozen
<1> QED
  BY <1>1, Invariance, PTL DEF Spec, InvalidRowIsStuck

-----------------------------------------------------------------------------

LEMMA WrittenEnabled ==
    ASSUME NEW stored, NEW base, NEW row
    PROVE  Written(stored, base, row).enabled =
               Column(stored.enabled, base.enabled, row.enabled)
BY DEF Written

\* A commit that enables a rule over a row that is stored disabled is that of
\* an update that had read it disabled: every other request either writes no
\* `enabled` at all or writes FALSE.
LEMMA CommitEnables ==
    ASSUME IInv, NEW r \in Requests, CommitRule(r), NEW id \in Ids,
           Exists(id), ~rules[id].enabled, rules'[id].enabled
    PROVE  /\ tx[r].op = "update" /\ tx[r].target = id
           /\ ~tx[r].base.enabled /\ tx[r].row.enabled
<1> DEFINE t == tx[r]
<1>1. t \in RuleTx /\ pc[r] # "idle" /\ (t.op = "disable" => ~t.row.enabled)
  BY DEF IInv, TypeOK, TxOK, CommitRule, SettingsTx
<1>2. t.target = id
  BY <1>1 DEF CommitRule, IInv, TypeOK
<1>3. t.op # "create"
  BY <1>2 DEF CommitRule, KeyTaken
<1>4. rules'[id] = Written(rules[id], t.base, t.row)
  BY <1>2, <1>3 DEF CommitRule, IInv, TypeOK
<1>5. rules'[id].enabled =
          Column(rules[id].enabled, t.base.enabled, t.row.enabled)
  BY ONLY <1>4, WrittenEnabled
<1>6. t.base \in RuleRow /\ t.row \in RuleRow
  BY <1>1, <1>3 DEF IInv, TxOK, RuleTx
<1>7. t.row.enabled \in BOOLEAN /\ t.base.enabled \in BOOLEAN
  BY <1>6 DEF RuleRow
<1>8. t.op \in {"create", "update", "disable"}
  BY <1>1 DEF RuleTx
<1>9. t.row.enabled # t.base.enabled
  BY <1>5 DEF Column
<1>10. t.row.enabled = TRUE
  BY <1>5, <1>7, <1>9 DEF Column
<1> QED
  BY <1>1, <1>2, <1>3, <1>7, <1>8, <1>9, <1>10

\* No other step writes the rule table, but for the row a create inserts.
LEMMA NextEnables ==
    ASSUME IInv, [Next]_vars, NEW id \in Ids,
           Exists(id), ~rules[id].enabled, rules'[id].enabled
    PROVE  \E r \in Requests :
               /\ pc[r] = "locked" /\ pc'[r] = "idle"
               /\ tx[r].op = "update" /\ tx[r].target = id
               /\ ~tx[r].base.enabled /\ tx[r].row.enabled
<1>1. PICK r \in Requests : CommitRule(r)
  <2>1. rules' # rules
    OBVIOUS
  <2> QED
    BY <2>1 DEF Next, Proceed, vars, CreateRead, UpdateRead, DisableRead,
                SettingsRead, Load, Lock, CommitSettings, Refused,
                LockTimeout, Fail, RollBack
<1>2. pc[r] = "locked" /\ pc'[r] = "idle"
  BY <1>1 DEF CommitRule, Finish, IInv, TypeOK
<1>3. /\ tx[r].op = "update" /\ tx[r].target = id
      /\ ~tx[r].base.enabled /\ tx[r].row.enabled
  BY <1>1, CommitEnables
<1> QED
  BY <1>2, <1>3

\* A disabled rule comes back only through a request that saw it disabled and
\* asked for it, however the requests interleave.
THEOREM EnabledOnRequest == Spec => EnabledOnlyOnRequest
<1>1. IInv /\ [Next]_vars =>
        [ \A id \in Ids :
            Exists(id) /\ ~rules[id].enabled /\ rules'[id].enabled =>
                \E r \in Requests :
                    /\ pc[r] = "locked" /\ pc'[r] = "idle"
                    /\ tx[r].op = "update" /\ tx[r].target = id
                    /\ ~tx[r].base.enabled /\ tx[r].row.enabled ]_rules
  BY NextEnables
<1> QED
  BY <1>1, Invariance, PTL DEF Spec, EnabledOnlyOnRequest

-----------------------------------------------------------------------------

\* Without overlap the copy a request works on is still what is stored.
BaseCurrent ==
    \A r \in Requests : \A id \in Ids :
        Busy(r, id) /\ tx[r].op # "create" => rules[id] = tx[r].base

\* An UPDATE over the row it was computed from writes exactly the new row.
LEMMA WrittenOverBase ==
    ASSUME NEW base \in RuleRow, NEW row \in RuleRow
    PROVE  Written(base, base, row) = row
BY DEF Written, Column, RuleRow

\* Nor does a commit then leave anything in the table but its request's row.
LEMMA CommitWritesRow ==
    ASSUME IInv, BaseCurrent, NEW r \in Requests, CommitRule(r)
    PROVE  rules' = [rules EXCEPT ![tx[r].target] = tx[r].row]
<1> DEFINE t == tx[r]
<1>1. t \in RuleTx /\ pc[r] # "idle"
  BY DEF IInv, TypeOK, TxOK, CommitRule, SettingsTx
<1>2. CASE t.op = "create"
  BY <1>1, <1>2 DEF CommitRule, IInv, TypeOK
<1>3. CASE t.op # "create"
  <2>1. t.target \in Ids /\ t.row \in RuleRow /\ Busy(r, t.target)
    BY <1>1 DEF RuleTx, Busy
  <2>2. t.base \in RuleRow /\ rules[t.target] = t.base
    BY <1>1, <1>3, <2>1 DEF IInv, TxOK, BaseCurrent
  <2>3. Written(rules[t.target], t.base, t.row) = t.row
    BY <2>1, <2>2, WrittenOverBase
  <2> QED
    BY <1>3, <2>3 DEF CommitRule, IInv, TypeOK
<1> QED
  BY <1>2, <1>3

LEMMA NextNoOverlap ==
    ASSUME IInv, NoOverlap, BaseCurrent, ValidRows, [Next]_vars
    PROVE  BaseCurrent' /\ ValidRows'
<1>1. ASSUME NEW r \in Requests, CommitRule(r)
      PROVE  BaseCurrent' /\ ValidRows'
  <2> DEFINE t == tx[r]
  <2>1. t \in RuleTx /\ Valid(t.row) /\ pc[r] # "idle"
    BY <1>1 DEF IInv, TypeOK, TxOK, CommitRule, SettingsTx
  <2>2. t.target \in Ids /\ t.row \in RuleRow /\ Busy(r, t.target)
    BY <2>1 DEF RuleTx, Busy
  <2>3. \A id \in Ids \ {t.target} : rules'[id] = rules[id]
    BY <1>1, <2>2 DEF CommitRule, IInv, TypeOK
  <2>4. rules'[t.target] = t.row
    BY <1>1, <2>2, CommitWritesRow DEF IInv, TypeOK
  <2>5. ValidRows'
    BY <2>1, <2>3, <2>4 DEF ValidRows, AllReadable, Exists
  <2>6. BaseCurrent'
    <3> SUFFICES ASSUME NEW s \in Requests, NEW id \in Ids,
                        Busy(s, id)', tx'[s].op # "create"
                 PROVE  rules'[id] = tx'[s].base
      BY DEF BaseCurrent
    <3>1. s # r /\ tx'[s] = tx[s] /\ pc'[s] = pc[s]
      BY <1>1 DEF CommitRule, Finish, Busy, IInv, TypeOK
    <3>2. Busy(s, id)
      BY <3>1 DEF Busy
    <3>3. id # t.target
      BY <2>2, <3>1, <3>2 DEF NoOverlap
    <3> QED
      BY <2>3, <3>1, <3>2, <3>3 DEF BaseCurrent
  <2> QED
    BY <2>5, <2>6
<1>2. ASSUME NEW r \in Requests,
             \/ CommitSettings(r) \/ Refused(r) \/ LockTimeout(r) \/ Fail(r)
      PROVE  BaseCurrent' /\ ValidRows'
  <2>1. rules' = rules /\ Finish(r)
    BY <1>2 DEF CommitSettings, Refused, LockTimeout, Fail, RollBack
  <2>2. \A s \in Requests : pc'[s] # "idle" => pc'[s] = pc[s] /\ tx'[s] = tx[s]
    BY <2>1 DEF Finish, IInv, TypeOK
  <2> QED
    BY <2>1, <2>2 DEF BaseCurrent, Busy, ValidRows, AllReadable, Exists
<1>3. ASSUME NEW r \in Requests, Lock(r)
      PROVE  BaseCurrent' /\ ValidRows'
  <2>1. rules' = rules /\ tx' = tx
    BY <1>3 DEF Lock
  <2>2. \A s \in Requests : pc'[s] # "idle" => pc[s] # "idle"
    BY <1>3 DEF Lock, IInv, TypeOK
  <2> QED
    BY <2>1, <2>2 DEF BaseCurrent, Busy, ValidRows, AllReadable, Exists
<1>4. ASSUME NEW r \in Requests, CreateRead(r) \/ SettingsRead(r)
      PROVE  BaseCurrent' /\ ValidRows'
  <2>1. PICK t : Load(r, t) /\ t.op \in {"create", "chain"}
    <3>1. CASE CreateRead(r)
      <4>1. PICK slug \in Slugs, p \in Payloads : \E i \in 1..Len(slug) :
                Load(r, [op |-> "create", target |-> slug[i], base |-> NoRow,
                         row |-> [action         |-> p.action,
                                  retain_payload |-> p.retain_payload,
                                  enabled        |-> p.enabled,
                                  version        |-> 1]])
        BY <3>1 DEF CreateRead
      <4> QED
        BY <4>1
    <3>2. CASE SettingsRead(r)
      BY <3>2 DEF SettingsRead
    <3> QED
      BY <1>4, <3>1, <3>2
  <2>2. tx'[r].op \in {"create", "chain"}
    BY <2>1 DEF Load, IInv, TypeOK
  <2>3. rules' = rules
    BY <2>1 DEF Load
  <2>4. \A s \in Requests \ {r} : pc'[s] = pc[s] /\ tx'[s] = tx[s]
    BY <2>1 DEF Load, IInv, TypeOK
  <2>5. tx'[r] \in RuleTx => tx'[r].op = "create"
    BY <2>2 DEF RuleTx
  <2> QED
    BY <2>3, <2>4, <2>5 DEF BaseCurrent, Busy, ValidRows, AllReadable, Exists
<1>5. ASSUME NEW r \in Requests, UpdateRead(r) \/ DisableRead(r)
      PROVE  BaseCurrent' /\ ValidRows'
  <2>1. PICK t : Load(r, t) /\ t.base = rules[t.target]
    <3>1. CASE UpdateRead(r)
      BY <3>1 DEF UpdateRead
    <3>2. CASE DisableRead(r)
      BY <3>2 DEF DisableRead
    <3> QED
      BY <1>5, <3>1, <3>2
  <2>2. tx'[r] = t /\ rules' = rules
    BY <2>1 DEF Load, IInv, TypeOK
  <2>3. \A s \in Requests \ {r} : pc'[s] = pc[s] /\ tx'[s] = tx[s]
    BY <2>1 DEF Load, IInv, TypeOK
  <2> QED
    BY <2>1, <2>2, <2>3 DEF BaseCurrent, Busy, ValidRows, AllReadable, Exists
<1>6. UNCHANGED vars => BaseCurrent' /\ ValidRows'
  BY DEF vars, BaseCurrent, Busy, ValidRows, AllReadable, Exists
<1> QED
  BY <1>1, <1>2, <1>3, <1>4, <1>5, <1>6 DEF Next, Proceed

\* The merge check of update_rule is enough as long as no two requests for
\* the same rule are in flight together: then every stored rule validates.
\* (The run rules_write_skew shows that it is not enough otherwise.)
THEOREM RowsValidWithoutOverlap == Spec /\ []NoOverlap => []ValidRows
<1>1. Init => BaseCurrent /\ ValidRows
  BY DEF Init, BaseCurrent, Busy, ValidRows, AllReadable, Exists
<1>2. IInv /\ NoOverlap /\ BaseCurrent /\ ValidRows /\ [Next]_vars
        => BaseCurrent' /\ ValidRows'
  BY NextNoOverlap
<1> QED
  BY <1>1, <1>2, Invariance, PTL DEF Spec

-----------------------------------------------------------------------------

\* The audit log tells the history of each rule: its last entry shows the rule
\* as it is stored, and each entry starts where the one before it of the same
\* rule ended.
LogReplays ==
    \A i \in 1..Len(audit) : audit[i].target \in Ids =>
        /\ IsLast(i) => rules[audit[i].target] = audit[i].after
        /\ \A j \in (i + 1)..Len(audit) :
              /\ audit[j].target = audit[i].target
              /\ \A k \in (i + 1)..(j - 1) : audit[k].target # audit[i].target
              => audit[j].before = audit[i].after

\* An entry that is not the last of its target stays where it is when the log
\* grows, and whatever came between two entries still does.
LEMMA GrownLog ==
    ASSUME audit \in Seq(RuleEntry \cup SettingsEntry),
           NEW e \in RuleEntry \cup SettingsEntry, audit' = Append(audit, e)
    PROVE  /\ Len(audit) \in Nat /\ Len(audit') = Len(audit) + 1
           /\ audit'[Len(audit) + 1] = e
           /\ \A i \in 1..Len(audit) : audit'[i] = audit[i]
           /\ \A i \in 1..Len(audit) :
                 /\ IsLast(i)' <=> IsLast(i) /\ e.target # audit[i].target
                 /\ (\A k \in (i + 1)..Len(audit) :
                        audit'[k].target # audit'[i].target) => IsLast(i)
<1>1. /\ Len(audit) \in Nat /\ Len(audit') = Len(audit) + 1
      /\ audit'[Len(audit) + 1] = e
      /\ \A i \in 1..Len(audit) : audit'[i] = audit[i]
  OBVIOUS
<1>2. ASSUME NEW i \in 1..Len(audit)
      PROVE  /\ IsLast(i)' <=> IsLast(i) /\ e.target # audit[i].target
             /\ (\A k \in (i + 1)..Len(audit) :
                    audit'[k].target # audit'[i].target) => IsLast(i)
  <2>1. \A k \in (i + 1)..Len(audit) : audit'[k] = audit[k]
    BY <1>1
  <2>2. (i + 1)..Len(audit') = ((i + 1)..Len(audit)) \cup {Len(audit) + 1}
    BY <1>1
  <2> QED
    BY <1>1, <2>1, <2>2 DEF IsLast
<1> QED
  BY <1>1, <1>2

\* The step that writes a rule: the entry starts from the stored rule, which
\* the log showed last, and ends with what is stored now.
LEMMA CommitReplays ==
    ASSUME IInv, BaseCurrent, LogReplays, NEW r \in Requests, CommitRule(r)
    PROVE  LogReplays'
<1> DEFINE t == tx[r]
           e == Entry(t.op, t.target, t.base, t.row)
           n == Len(audit)
<1>0. audit \in Seq(RuleEntry \cup SettingsEntry)
  BY DEF IInv, TypeOK
<1>1. t \in RuleTx /\ t.target \in Ids /\ Busy(r, t.target)
  BY DEF IInv, TypeOK, TxOK, CommitRule, SettingsTx, RuleTx, Busy
<1>2. audit' = Append(audit, e)
  BY DEF CommitRule
<1>3. /\ e \in RuleEntry /\ e.target = t.target
      /\ e.before = t.base /\ e.after = t.row
  BY <1>1 DEF RuleTx, RuleEntry, Entry
<1>4. /\ rules'[t.target] = t.row
      /\ \A id \in Ids \ {t.target} : rules'[id] = rules[id]
  BY <1>1, CommitWritesRow DEF IInv, TypeOK
<1>5. Exists(t.target) => rules[t.target] = t.base
  BY <1>1 DEF CommitRule, KeyTaken, BaseCurrent
<1> HIDE DEF t, e
<1>6. /\ n \in Nat /\ Len(audit') = n + 1 /\ audit'[n + 1] = e
      /\ \A i \in 1..n : audit'[i] = audit[i]
      /\ \A i \in 1..n :
            /\ IsLast(i)' <=> IsLast(i) /\ e.target # audit[i].target
            /\ (\A k \in (i + 1)..n :
                   audit'[k].target # audit'[i].target) => IsLast(i)
  BY <1>0, <1>2, <1>3, GrownLog
<1>7. ASSUME NEW i \in 1..n, audit[i].target \in Ids
      PROVE  audit[i].after # NoRow
  <2>1. audit[i] \in RuleEntry
    BY <1>0, <1>6, <1>7, RuleStoreAssumption DEF SettingsEntry
  <2> QED
    BY <2>1, RuleStoreAssumption DEF RuleEntry
<1> HIDE DEF n
<1>8. ASSUME NEW i \in 1..Len(audit'), audit'[i].target \in Ids, IsLast(i)'
      PROVE  rules'[audit'[i].target] = audit'[i].after
  <2>1. CASE i = n + 1
    BY <1>3, <1>4, <1>6, <2>1
  <2>2. CASE i \in 1..n
    <3>1. IsLast(i) /\ audit[i].target # t.target /\ audit'[i] = audit[i]
      BY <1>3, <1>6, <1>8, <2>2
    <3> QED
      BY <1>4, <1>8, <2>2, <3>1 DEF LogReplays, n
  <2> QED
    BY <1>6, <2>1, <2>2
<1>9. ASSUME NEW i \in 1..Len(audit'), audit'[i].target \in Ids,
             NEW j \in (i + 1)..Len(audit'),
             audit'[j].target = audit'[i].target,
             \A k \in (i + 1)..(j - 1) : audit'[k].target # audit'[i].target
      PROVE  audit'[j].before = audit'[i].after
  <2>1. i \in 1..n /\ audit'[i] = audit[i]
    BY <1>6
  <2>2. CASE j = n + 1
    <3>1. IsLast(i)
      BY <1>6, <1>9, <2>1, <2>2
    <3>2. rules[audit[i].target] = audit[i].after
      BY <1>9, <2>1, <3>1 DEF LogReplays, n
    <3>3. audit[i].target = t.target
      BY <1>3, <1>6, <1>9, <2>1, <2>2
    <3>4. rules[t.target] = t.base
      BY <1>1, <1>5, <1>7, <2>1, <3>2, <3>3 DEF Exists
    <3> QED
      BY <1>3, <1>6, <2>1, <2>2, <3>2, <3>3, <3>4
  <2>3. CASE j \in (i + 1)..n
    <3>1. audit'[j] = audit[j]
      BY <1>6, <2>1, <2>3
    <3>2. \A k \in (i + 1)..(j - 1) : audit[k].target # audit[i].target
      BY <1>6, <1>9, <2>1, <2>3
    <3> QED
      BY <1>9, <2>1, <2>3, <3>1, <3>2 DEF LogReplays, n
  <2> QED
    BY <1>6, <2>1, <2>2, <2>3
<1> QED
  BY <1>8, <1>9 DEF LogReplays

LEMMA NextReplays ==
    ASSUME IInv, BaseCurrent, LogReplays, [Next]_vars
    PROVE  LogReplays'
<1>1. ASSUME NEW r \in Requests, CommitRule(r)
      PROVE  LogReplays'
  BY <1>1, CommitReplays
<1>2. ASSUME NEW r \in Requests, CommitSettings(r)
      PROVE  LogReplays'
  <2> DEFINE e == Entry("chain", Chain, tx[r].base, tx[r].row)
  <2>1. audit' = Append(audit, e) /\ rules' = rules
    BY <1>2 DEF CommitSettings
  <2>2. tx[r] \in SettingsTx
    BY <1>2 DEF IInv, TypeOK, TxOK, CommitSettings, RuleTx
  <2>3. e \in SettingsEntry /\ e.target = Chain
    BY <2>2 DEF SettingsTx, SettingsEntry, Entry
  <2>4. audit \in Seq(RuleEntry \cup SettingsEntry)
    BY DEF IInv, TypeOK
  <2> HIDE DEF e
  <2>5. /\ Len(audit) \in Nat /\ Len(audit') = Len(audit) + 1
        /\ audit'[Len(audit) + 1] = e
        /\ \A i \in 1..Len(audit) : audit'[i] = audit[i]
        /\ \A i \in 1..Len(audit) :
              IsLast(i)' <=> IsLast(i) /\ e.target # audit[i].target
    BY <2>1, <2>3, <2>4, GrownLog
  <2>6. e.target \notin Ids
    BY <2>3, RuleStoreAssumption
  <2>7. ASSUME NEW i \in 1..Len(audit'), audit'[i].target \in Ids
        PROVE  i \in 1..Len(audit)
    BY <2>5, <2>6, <2>7
  <2>8. ASSUME NEW i \in 1..Len(audit), audit[i].target \in Ids,
               NEW j \in (i + 1)..Len(audit'),
               audit'[j].target = audit[i].target
        PROVE  j \in (i + 1)..Len(audit)
    BY <2>5, <2>6, <2>8
  <2>9. ASSUME NEW i \in 1..Len(audit), NEW j \in (i + 1)..Len(audit),
               NEW k \in (i + 1)..(j - 1)
        PROVE  audit'[k] = audit[k] /\ audit'[j] = audit[j]
    BY <2>5, <2>9
  <2> QED
    BY <2>1, <2>5, <2>7, <2>8, <2>9 DEF LogReplays
<1>3. ASSUME NEW r \in Requests,
             \/ CreateRead(r) \/ UpdateRead(r) \/ DisableRead(r)
             \/ SettingsRead(r) \/ Lock(r) \/ Refused(r)
             \/ LockTimeout(r) \/ Fail(r)
      PROVE  UNCHANGED <<rules, audit>>
  BY <1>3 DEF CreateRead, UpdateRead, DisableRead, SettingsRead, Load, Lock,
              Refused, LockTimeout, Fail, RollBack
<1>4. UNCHANGED vars => UNCHANGED <<rules, audit>>
  BY DEF vars
<1>5. UNCHANGED <<rules, audit>> => LogReplays'
  BY DEF LogReplays, IsLast
<1> QED
  BY <1>1, <1>2, <1>3, <1>4, <1>5 DEF Next, Proceed, vars

\* As long as no two requests for the same rule are in flight together, the
\* audit log can be replayed: it shows what every rule is and was.  (A lost
\* update makes an entry start from a row that is no longer stored.)
THEOREM LogReplaysWithoutOverlap == Spec /\ []NoOverlap => []LogReplays
<1>1. Init => BaseCurrent /\ ValidRows /\ LogReplays
  BY DEF Init, BaseCurrent, Busy, ValidRows, AllReadable, Exists, LogReplays
<1>2. IInv /\ NoOverlap /\ BaseCurrent /\ ValidRows /\ [Next]_vars
        => BaseCurrent' /\ ValidRows'
  BY NextNoOverlap
<1>3. IInv /\ BaseCurrent /\ LogReplays /\ [Next]_vars => LogReplays'
  BY NextReplays
<1> QED
  BY <1>1, <1>2, <1>3, Invariance, PTL DEF Spec

-----------------------------------------------------------------------------

\* SQLite's write lock is held by the request whose transaction is open, by no
\* other, and by nobody when there is none: no way a request can end leaks it.
LockHeld == \A r \in Requests : writer = r <=> pc[r] = "locked"

THEOREM LockNeverLeaks == Spec => []LockHeld
<1>1. Init => LockHeld
  BY RuleStoreAssumption DEF Init, LockHeld
<1>2. IInv /\ LockHeld /\ [Next]_vars => LockHeld'
  <2> SUFFICES ASSUME IInv, LockHeld, [Next]_vars
               PROVE  LockHeld'
    OBVIOUS
  <2>1. ASSUME NEW r \in Requests,
               \/ CreateRead(r) \/ UpdateRead(r) \/ DisableRead(r)
               \/ SettingsRead(r)
        PROVE  LockHeld'
    <3>1. PICK t : Load(r, t)
      BY <2>1 DEF CreateRead, UpdateRead, DisableRead, SettingsRead
    <3> QED
      BY <3>1 DEF Load, LockHeld, IInv, TypeOK
  <2>2. ASSUME NEW r \in Requests, Lock(r)
        PROVE  LockHeld'
    BY <2>2, RuleStoreAssumption DEF Lock, LockHeld, IInv, TypeOK
  <2>3. ASSUME NEW r \in Requests,
               \/ CommitRule(r) \/ CommitSettings(r) \/ Refused(r)
               \/ LockTimeout(r) \/ Fail(r)
        PROVE  LockHeld'
    <3>1. Finish(r)
      BY <2>3 DEF CommitRule, CommitSettings, Refused, LockTimeout, Fail,
                  RollBack
    <3> QED
      BY <3>1, RuleStoreAssumption DEF Finish, LockHeld, IInv, TypeOK
  <2>4. UNCHANGED vars => LockHeld'
    BY DEF vars, LockHeld
  <2> QED
    BY <2>1, <2>2, <2>3, <2>4 DEF Next, Proceed
<1> QED
  BY <1>1, <1>2, Invariance, PTL DEF Spec

=============================================================================
