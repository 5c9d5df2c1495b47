# sixthsense: a verification project in TLA+

sixthsense (cef-syslog-proxy) puts a filter between syslog/CEF senders and ELK.
Analysts edit an ordered chain of rules in a control plane; the control plane
compiles the chain to a Vector configuration, checks it with the Vector binary
and publishes it as a numbered bundle; nodes poll for the active bundle and run
Vector on it. An event is forwarded to ELK or dropped into an audit stream.

This directory models the parts of that system whose correctness depends on the
order in which things happen, checks the models with TLC on small instances and
proves the properties that matter most with TLAPS for every value of the
constants. Paths in this file are relative to the repository.

## 1. Inventory

| Component | State | Operations | Interacts with | What is hard | What makes it correct |
|---|---|---|---|---|---|
| Rule store (`src/sixthsense/services/rules.py`, `db/models.py`, `db/session.py`, `/rules`, `/chain`) | rules table, chain settings row, audit log | create, update, disable, set chain settings, list | bundle publish (reads the chain), UI, CLI | worker threads with a session each; rows are read outside the write transaction; one SQLite write lock | no unaudited change; snapshots in the log are valid rules; versions name log entries; stored rules validate; requests end |
| Bundles (`services/bundles.py`) | bundles table with an active flag, audit log | publish, rollback, read active | rule store, gate, agents | the chain is read long before the commit; concurrent publishes and rollbacks | one active bundle, the last one logged; bundles never change; nothing passes the gate unseen; a bundle is of a chain that existed |
| Validation gate (`compiler/validate.py`) | none | `vector validate`, `vector vrl` over a probe corpus | publish | the binary may be missing, reject, or time out at each of two checks | a skipped check is allowed only by the setting, and logged |
| Rollout (`agent/main.py`, `deploy/node-entrypoint.sh`, `GET /api/agent/bundle`) | config file, `state.json`, the running config, the processes of a node | poll, verify, rename, save version, first fetch, fallback, start, reload, exit | bundles, Vector | crashes between two writes, torn files, damaged downloads, a dead daemon, rollback to a lower version | runs only what Vector accepts; a cached release is never lost; a running Vector is not disturbed; nodes follow the active bundle |
| Decision program and topology (`compiler/compiler.py`, `compiler/vector_config.py`, `models/rule.py`) | per event: parse flags, matched rule, verdict | parse, cascade, enforce, route | Vector, ELK, drop audit, live view | order of the branches; run-time aborts | first match decides; every event ends in exactly one place; drops are due |
| Conditions and encoder (`compile_condition`, `compiler/encoder.py`) | none | validate, compile and evaluate one condition | rule store (validation), publish (compilation), decision program (evaluation) | missing fields, value types, case folded in three places, wildcards turned into a regular expression, values the encoder refuses | agrees with D-06 and D-07 of `ai_artifacts/decisions.md`; negations complement; thresholds compare the number a field is read as |
| Live view (`TailBuffer` in `sampling/store.py`, `/decisions/tail`) | ring of recent records, set of subscribers, an asyncio queue for each | publish, subscribe, get and send, unsubscribe | intake (worker threads), browsers (event loop) | threads put into queues made for one event loop; a browser that stalls or goes | queues bounded; frames in order; a viewer never holds up a publisher; what is queued is shown |
| Intake and sample store (`/decisions/intake`, `record_samples`, the HTTP sink of `compiler/vector_config.py`) | the sink's buffer and the batches it has in flight, the sample table, pool and write lock | sample, post, time out, retry; publish, connect, flush, trim, commit | node's Vector, live view, impact preview | late answers, retries, restarts, concurrent trimming, a pool that sockets empty, waits in the event loop | the table is the newest whole batches; every record stored or counted as lost; nothing hangs |
| Impact preview (`services/simulate.py`) | none | run stored samples through Vector and count | rule store, sample store | lines that Vector does not answer | counts add up (section 8) |
| Auth, config, CLI, generator, performance tools, UI | tokens and users; none; none | login, role checks; ... | all routes | the token check reads the database in the event loop (in `Intake`); little else beyond single-threaded code | not modelled (section 8) |

`PROJECT.json` lists every component with its status, and under "hazards" every
place in this code where something hard to test can go wrong, with the property
that covers it or the reason why none does yet.

## 2. Modules

| Module | What it is |
|---|---|
| `RuleStore` | rules, settings and audit log under concurrent requests |
| `BundleStore` | publish and rollback against a chain that is being edited; `RuleStore`'s commits appear as `EditRules` and `EditSettings` |
| `ReleaseRegistry` | the abstract promise of the bundle half: an append-only sequence of releases and a current one. `BundleStore` implements it (`ImplementsRegistry`); `Rollout` is built on it |
| `Rollout` | nodes, agents, entrypoint script and Vector, on top of `ReleaseRegistry` |
| `Decide` | the life of one event in the compiled program and its topology |
| `Condition` | one condition from the request that carries it to its answer for a field |
| `LiveView` | the live view: intake threads, the ring, the subscribers' queues and the sockets |
| `Intake` | a node's HTTP sink, the intake route, the sample table, the pool and the event loop |
| `LiveFeed` | the abstract promise of the live view: of what was published, an ordered selection for each browser. `LiveView` implements it (`ImplementsLiveFeed`) |
| `SampleLog` | the abstract promise of the sample table: the newest records, by whole batches. `Intake` implements it (`ImplementsSampleLog`) |
| `MCRuleStore`, `MCBundleStore`, `MCRollout`, `MCDecide`, `MCCondition`, `MCLiveView`, `MCIntake` | small values for the constants |
| `RuleStoreProofs`, `BundleStoreProofs`, `RolloutProofs`, `DecideProofs`, `ConditionProofs`, `LiveViewProofs`, `IntakeProofs` | theorems and proofs |

The chain of abstraction is: `RuleStore` says how the two revision numbers of
`BundleStore.chain` may change; `BundleStore` implements `ReleaseRegistry`; and
`Rollout` uses `ReleaseRegistry` as its control plane, so what is shown of the
nodes does not depend on how bundles are stored. `Decide` is what one accepted
bundle then does to an event, and `Condition` says when one of its conditions
holds. A decision that `Decide` samples enters `Intake`, whose steps `TakePost`
and `ShowFails` stand for all that `LiveView` does with a batch: it gets through,
or it raises after some of the records.

Operators whose comment begins with "Mistake:" are no part of a model. Each is
a variant of the definition after it, as a plausible bug would have it, and
shows that a property can fail: `PROJECT.json` pairs each with the property TLC
then finds violated.

### RuleStore

A request is `idle`, `loaded` (it has read a row in autocommit mode and computed
the new one) or `locked` (its first INSERT or UPDATE has taken SQLite's write
lock). `CreateRead`, `UpdateRead`, `DisableRead` and `SettingsRead` are the
reading halves of `create_rule`, `update_rule`, `disable_rule` and
`set_chain_settings` with their validation; `CommitRule` and `CommitSettings`
are flush, audit entry and commit; `Refused`, `LockTimeout` and `Fail` are the
ways a request ends with nothing. The step that matters is `Written`: the ORM's
UPDATE names only the columns that differ from the copy the request read, so two
requests can each leave a part of the row. The same step is why a disable is
safe: an update that read the rule enabled does not write that column and cannot
undo a disable it races with (`EnabledOnlyOnRequest`; `WrittenWhole`, an UPDATE
of every column, breaks it). A rule keeps the columns `action`,
`retain_payload`, `enabled` and `version`: validity (`_check_retain_payload`)
depends on the first two, the effect of a disable on the third, the audit on the
fourth. Name, conditions, order and the rest behave as `enabled` does.

pysqlite does not begin a transaction for a SELECT, so the read of a request and
its UPDATE are not in one snapshot: this is why `loaded` and `locked` are two
states and why nothing is compared in between.

### BundleStore

A publish moves through `settings`, `rules`, `built`, `checked`, `ready` and
`locked`: the two SELECTs of `load_chain`, `next_version`, the two checks of the
gate, the first write, the commit. A chain is two revision numbers, so that a
bundle shows what it was compiled from; `history` is a history variable with
every chain that was ever current. The gate's verdict depends on the rules only:
`BadConfig` and `BadProgram` are the revisions each check rejects, and
`GateRefuses` may also reject any bundle, which covers a timeout. Since the
binary is looked up again for the second check, `GateSkipped` can happen at
either.

### Rollout

For each node there is `disk` (the config file), `saved` (`state.json`),
`running` (what Vector runs), `stage` (the script) and `agent` with `reply` (the
poll in progress). `Fetch` is the poll and the endpoint's answer, `Discard`,
`Replace` and `Save` are `write_config` up to each of its effects, `FetchFirst`,
`Launch`, `OpenFallback` and `WriteFallback` are the script's branches.
`StartVector`, `RefuseConfig`, `Reload` and `Accepted` say as much about Vector
as the script and the agent rely on; they are marked external in the map.
Faults are named by `FaultKinds`: `crash` kills the container between writes,
`torn` inside the here-document, `unsaved` cuts `_save_state` short (by a kill or
an error, with `state.json` emptied or not), `unwritten` fails the temporary
file, `agent` kills the daemon alone. A damaged download (`Fetch(n, FALSE)`) and
a poll without an answer are always possible and are not counted.

### Decide

The steps are those of the generated program: `ParseSyslog`, `ParseCef` (with
its second attempt from the marker), one `TestRule` per branch, `Enforce` for the
branches after the cascade, then `Route` for the topology. `Abort` is a run-time
failure of `slice!`: with `drop_on_error` off the event continues without a
verdict. Whether a rule's conditions hold is part of the event, so all
combinations are explored.

### Condition

A condition is `posted`, then `accepted` or `rejected` (`Validate`,
`_check_value_shape`), then `compiled` (`Compile`) or `failed` (`CompileFails`,
the `CompileError`, `EncodeError` or `OverflowError` of a publish), then
`answered` (`Evaluate(v)`, an event whose field holds `v`). `Compiled` is
`compile_condition` with one operator per branch; an expression is a record of
its test, the reading of the field on its left (`value`, `text`, `folded`,
`number`), its literals, the flag by which VRL itself ignores case, and the
tokens of a glob's regular expression. `Compiles` is what the encoder lets
through. `Evaluated` and the operators before it are as much of VRL as the
compiler relies on: `to_string(null) ?? ""` is the empty text, and a failing
comparison coalesces to false.

Two facts about VRL come from its documentation, as the binary is no part of the
repository. `to_float(null)` is 0.0 and no error, so neither `??` of a threshold
fires for a missing field (`ToFloat`, `NumbersOf`): the comment at
`compiler.py:144-148` says that a missing field does not match, and `lt` and
`lte` against a positive number do (`condition_missing`).
`ThresholdsCompareNumbers` states what thresholds do mean. The repository's tests
compare the generated text and never run such an event through Vector, so this is
worth one test with the binary. And a full stop in a regular expression does not
match a line break, so neither `*` nor `?` does: `TextOperatorsAgree` is stated
for texts of one line when the operator is `glob`.

`Means` is the reference: it knows nothing of folding, flags or tokens, compares
character by character, and says of a glob that the text can be cut into one
piece for each character of the pattern.

### LiveView

A publisher is an intake's worker thread with its batch: `AppendItem`,
`CopySubscribers` and one round of `fan` for each subscriber are
`TailBuffer.publish`. `put_nowait` is split where another thread or the event
loop can come between: the test for room (`SkipFull`, `FindRoom`), the append
(`Put`), the look for a waiting getter (`FindGetter`, `FindNoGetter`) and its
removal (`Wake`). A viewer is the coroutine of `tail_ws`: `get` finds its queue
empty (`FindEmpty`), registers a getter (`Register`), is resumed (`Resume`) and
looks again, or takes a frame (`Take`) and sends it. A `send_json` that returns
(`Send`) has reached the browser only while there is one: after `Disconnect` the
connection's buffer takes frames that nobody reads, until the web server finds
out (`Break`). Only the next send then fails (`SendFails`) and ends the loop, as
in the code.

`ImplementsLiveFeed` refines to `LiveFeed` with `published` read off the stage of
each thread, `watching <- subscribers` and `seen <- got`: `AppendItem` publishes,
`Subscribe` joins, a `Send` to a browser that is there shows, `SendFails` quits,
and every other step of the threads, queues, getters and connections is a
stutter. The feed promises no completeness, since a full queue loses frames, and
so does a connection whose browser has gone; that a queued frame is shown
otherwise is `FramesReach`.

asyncio's queues are not thread-safe, and the model shows what that costs here:

- a queue can outgrow its size, by one frame for each further thread
  (`QueueBounded`);
- a frame put while the viewer is between finding its queue empty and
  registering a getter wakes nobody, and stays there until the next publication
  (`Stranded`; `StrandedOnlyByLateGetter` says there is no other way);
- two threads that both find the same getter take it twice: the second
  `popleft` raises an IndexError out of `publish`, although the class comment
  (`sampling/store.py:29`) says "Publishing never blocks and never raises". The
  intake then answers 500 and stores nothing. `RaisesOnlyOnOverlap` shows that
  this race is the only way, and `Raise` is a step that TLC takes in the run.

The steps between two accesses are those of CPython's `asyncio.Queue` under the
interpreter lock; they are marked external in the map.

### Intake

Records are numbered as the node samples them. The sink fills its buffer
(`Sample`, `drop_newest`) and has up to `Concurrency` batches in flight
(`PostBatch`): `vector_config.py:195-206` configures no concurrency, so it is
whatever Vector's default is, and the theorems take any. A batch in `inFlight`
knows its records, how often it was posted, and what it awaits: the post on the
wire or a worker thread. `Unreachable`, `TimeOut`, `Reject` (500) and `Crash`
fail the post, and `RetryOrGiveUp` posts the batch once more (`Again`) or counts
it as lost. A post that is not awaited any more stays in `wire` or in its thread
and goes on. `RefusePost` is the 422 for a batch with a record that has no
decision. A thread that takes a post shows it to the live view (`TakePost`; or a
part of it, when `publish` raises, `ShowFails`) and then goes through `connect`,
`flush` and `commit`: the session's first statement, the INSERTs, then count,
cutoff, delete and commit in one step, as the write lock is held and the answers
of the three statements cannot change. Showing is one step with taking, since
nothing else in this module reads or writes what is shown.
`rows` is the committed table as a function from ids. Ids start again at 1 when
the table is emptied (SQLite without AUTOINCREMENT), which `LastId` gives.

Connections come from SQLAlchemy's pool. A socket takes one when its token is
checked (`OpenSocket`, `principal_from_token`) and keeps it until it ends
(`CloseSocket`, `get_session`). Since that check runs in the event loop, an empty
pool stops the loop itself (`BlockLoop`) until a thread gives a connection back
(`UnblockLoop`) or the pool's timeout passes (`LoopTimeout`). Other requests with
a token do the same for a shorter time and are not distinguished from a socket
that closes at once.

`ImplementsSampleLog` refines to `SampleLog` with `kept <- Kept`, the rows in the
order of their ids. `tests/test_dataplane_e2e.py:386` says "Every drop reaches
the control plane exactly once"; with retries the table cannot promise that, and
`ExactlyOnceUnlessUnheard` states what it does promise: unless an answer was late
or lost, a record is stored once or counted as given up, and never both.

## 3. Runs

| Run | Shows | Result |
|---|---|---|
| `rules` | audit, versions, disables and progress under concurrent edits | passes |
| `rules_write_skew` | `ValidRows`: "retain_payload only applies to drop rules" (`models/rule.py:217`) of what is stored | violated |
| `bundles` | active flag, gate, refinement (bundles only appended), progress | passes |
| `bundles_torn` | `NoTornBundle`: "Compile the current chain" (`services/bundles.py:74`) | violated |
| `rollout` | what a node runs and keeps, with every kind of fault; it follows the active bundle | passes |
| `rollout_stuck` | `UnchangedMeansActive`: "when the node already has the active version" (`api/routes.py:201`) | violated |
| `decide` | first match, conservation, drops that are due and no others | passes |
| `decide_shadow` | `ShadowEnforcesNothing`: "Evaluate everything, enforce nothing" (`models/rule.py:233`) | violated |
| `condition` | operators mean what D-06 and D-07 say, negations, thresholds | passes |
| `condition_missing` | `ThresholdsNeedNumbers`: "A missing or non-numeric field must never satisfy a threshold rule" (`tests/test_golden_path.py:39`) | violated |
| `live_view` | queues, refinement to the feed, wake-ups and exceptions of the live view under threads | passes |
| `intake` | the sample table as a log, no record unaccounted, each stored once or given up, nothing hangs | passes |

The five violated runs are findings; `PROJECT.json` describes each with its
lines. In short:

1. Two overlapping PATCHes (one sets `action` to forward, one sets
   `retain_payload`) store a rule that no longer loads. `InvalidRowIsStuck`
   (which holds) is the consequence: the API cannot repair or disable it, and
   the settings are frozen while it exists.
2. Settings and rules are read in two statements; a bundle can mix two chains.
3. A crash between `os.replace` and `_save_state`, followed by a rollback to the
   version still named in `state.json`, leaves the node on the bundle that was
   rolled back: its polls are answered "unchanged".
4. Chain-wide shadow mode does not stop a `drop` default.
5. `to_float` reads a missing field as 0.0, so a drop rule `severity < 3` drops
   every event that has no severity; the compiler's own comment
   (`compiler.py:146-148`) says that a missing field does not match.

Four more things the models contain have no run of their own. The first is the
exception out of `publish` described under LiveView. The second is the `before`
of an audit entry, which is what the request had read, so the entries of
overlapping requests do not chain. The third is the exception that
`CaseNeverMatters` names: one number or truth value in the list of an `in`
switches off case folding for its texts (`compiler.py:100-107`), although D-07
says "Ignore case by default for strings" (`ai_artifacts/decisions.md:188`); the
property says that there is no other way.

The state graph of `condition` contains the fourth: a threshold with a truth
value is accepted (`rule.py:163` only excludes texts) and refused by
`compile_condition`, so a rule that was saved makes every publish fail with a
server error, although `compiler.py:137` says that the validator already rejects
such shapes.

### Bounds and why they are enough

- `rules`: two requests (the races are between two), two ids that one name maps
  to (collision and suffix), four patches that include the two which are valid
  apart and not together, one that would repair the row and one that undoes a
  disable; `MaxAudit = 4` lets the store be built, broken and touched again. No
  request starts once the log has `MaxAudit` entries; those in flight still
  commit.
- `bundles`: two requests, two edits (one of each half of the chain, or two of
  one), `MaxAudit = 3` publishes and rollbacks to start. Revision 1 of the rules
  fails the program check and revision 2 the config check, revision 0 passes.
- `rollout`: one node, `MaxReleases = 3` with good and bad contents,
  `MaxFaults = 3` and any number of rollbacks. Nodes only interact through the
  active version, so a second adds nothing that the first does not meet (the
  theorems are for any number). Three faults in sequence on one node cover a
  fault during the recovery from a fault, and three releases a rollback past one
  that Vector rejects.
- `decide`: two rules suffice for order, ties, skipped and shadowed rules; all
  events over parse results and matches are enumerated.
- `condition`: two letters that fold together, a full stop, both wildcards, a
  line break and two digits; every text of up to three of the first three
  characters; every pattern of up to two characters and some of three (a star
  on both sides, between letters, next to `?`); lists of up to three, beyond
  `MaxList = 2`; an integer the encoder takes only as a float, one it does not
  take at all, and a text that is too long for it. A pattern character only
  interacts with its neighbours, and the theorems cover every length.

- `live_view`: two threads, because each race is between two threads or a thread
  and a viewer; two records each and a queue of two, so that a queue is full, is
  overrun and is left with more than one frame; a ring of one, so that it drops.
  Publishers do not see each other's queues, so one viewer is enough.
- `intake`: three records, one of them undecided, batches of up to two, a buffer
  of two, so that the buffer overflows, a 422 takes a good record with it and
  batches of different sizes are trimmed to `MaxEvents = 2`. Two batches in
  flight, so that posts overlap and are stored, retried and given up in either
  order, with and without a timeout. Two threads and a pool of two connections,
  which sockets, threads or both can use up. One retry, as configured, and one
  restart: about a million states. The real values (batches of 50, a buffer of
  500, 15 connections) are covered by the theorems, which take any.

Deadlock checking is off in `RuleStore` and `BundleStore` runs, where the bound
stops new requests, in `Decide` and `Condition`, which end with their event, and
in `LiveView` and `Intake`, where the records are bounded.

### Fairness

- `RuleStore`, `BundleStore`: weak fairness of `Proceed(r)`: a worker thread runs
  on. Failures, new requests and edits are not fair. `RequestsFinish` then needs
  the busy timeout: without `LockTimeout` a request could lose the lock to others
  for ever.
- `Rollout`: weak fairness of the node's own processes and of Vector. The poll
  need not succeed, so `NodeComesUp` holds without a control plane.
  `NodesConverge` has strong fairness of `Fetch(n, TRUE)` as its antecedent. The
  daemon polls every interval for ever (`Agent.run` catches everything); the
  assumption is that the network, among infinitely many polls for a bundle that
  is there, delivers one undamaged.
- `LiveView`: weak fairness of each thread, none of the viewers, so
  `PublishersFinish` is the promise that a slow browser never holds up the
  intake. `FramesReach` takes weak fairness of the viewer it is about as its
  antecedent, and nothing of the web server: a frame for a browser that is gone
  is excepted until `Break`. A getter that a thread sets does not itself wake
  the loop; the end of the request does, which is why `Resume` happens at some
  time.
- `Intake`: weak fairness of the sink, of each thread and of the end of a wait in
  the event loop. Strong fairness of `Answers(t)`: the loop serves what is ready
  in order, so an answer goes out even if new sockets block the loop again and
  again. Nothing is assumed of sockets: they may keep their connections for
  ever, and the intakes then fail by the pool's timeout.

`NodesConverge` names the three ways a node may miss a bundle (`Stuck`): a state
file that claims the active version (finding 3), a dead daemon, and a config on
disk that Vector does not start on while the container restarts. The last one
covers a torn fallback file, which the script takes for a cached bundle.

## 4. Proofs

All proofs are for any value of the constants, under the named assumptions
(`RuleStoreAssumption`, `BundleStoreAssumption`, `RolloutAssumption`,
`DecideAssumption`, `ConditionAssumption`, `LiveViewAssumption`,
`IntakeAssumption`), which say what kind of value each constant is; that of
`Condition` also says how folding behaves (only a line break folds to a line
break, numerals have no letters, an address is one in either case).
Nothing else is assumed.

- **RuleStoreProofs.** `IInv` adds to the types and `AuditSnapshotsValid` what a
  request in flight holds (`TxOK`): a row that validates, a base that validates
  and still exists, and, for a disable, a row that is disabled. It needs `TxOK`
  because an entry is written from the request's copies and not from the table.
  From it follow `AuditSound`, `Audited` and `VersionTraceable`.
  `EnabledOnRequest` rests on `WrittenEnabled`: the UPDATE changes that column
  only if the request did. `InvalidStaysStuck` is the consequence of the write
  skew: a request never computes a row from one that does not load, so none can
  repair it. `LockNeverLeaks` says who holds the write lock.
  Two theorems assume `[]NoOverlap`, that no two requests that change the same
  rule overlap, with `BaseCurrent` (a base is still what is stored) as the extra
  invariant. `RowsValidWithoutOverlap` proves `ValidRows`: the overlap found by
  `rules_write_skew` is the only cause. `LogReplaysWithoutOverlap` proves that
  the log of a rule chains, each entry beginning where the one before it ended
  and the last showing the stored row; without the assumption it fails by the
  same overlap. The assumption is satisfied by every behaviour of a single
  editor, and failures, other rules and settings may still interleave.
- **BundleStoreProofs.** `IInv` adds what a publish knows at each stage
  (`RequestOK`): its version is at most one past the table, because the table
  never shrinks, and it is past a check only if the check passed or was skipped.
  So an INSERT that is not refused appends, which gives gapless versions
  (`TypeCorrect`), `Immutable` (no step changes or removes a stored bundle) and,
  with `ActiveSound`, the refinement `Implements`: each step is a `Release`, a
  `Revert` or a stutter. `PublishLogSound` relates the log to the table: one
  publish entry for each bundle, in order, with a note that is true of its gate.
  `WholeWhileSettingsStand` assumes that no edit of the settings falls between
  the two reads of a chain (`[]SettingsStand`; rules may be edited at any time)
  and proves `NoTornBundle` with `Whole`, by which what a publish carries was
  current at its second read: the edit that `bundles_torn` finds is the only
  kind that tears a bundle.
- **RolloutProofs.** `IInv` adds `NodeOK`: what the agent has just put on disk is
  what it is about to save, the script writes the fallback only over a file of
  its own, Vector runs only in stage `up`. A step is local to one node
  (`OneNodeKeepsIInv`), so each action is checked for that node alone.
  `CacheKept` and `KeepsRunning` are action properties proved from it.
  `UsesRegistry` closes the chain to `BundleStore`: the control plane part of
  every behaviour of `Rollout` is one of `ReleaseRegistry`. `UnchangedIsTrue` is
  the statement that `rollout_stuck` refutes, for the nodes none of whose saves
  was cut short. `StaysSettled` says what alone can move a node that has got to
  the active bundle, and `NobodyStuck` that under `HarmlessOnly` (kills between
  writes, failed writes and bad downloads, bundles that Vector accepts) no node
  is in a situation from which `NodesConverge` excuses it: the invariant
  `Healthy` carries this through the start of the container. Each kind of fault
  that `HarmlessOnly` excludes makes it fail on the small instance.
- **DecideProofs.** `IInv` says that while the cascade runs the rules already
  tested are not satisfied, and that a verdict "drop" has one of its two causes.
  It holds for any number of rules; `FirstMatch` and `Conserved` follow.
  `DropsJustified` has two halves: a drop has a cause, which is in `IInv`, and a
  drop that is due happens (`DueOK`), which needs that the first match is unique
  (`FirstIsUnique`, as ids break ties). `ShadowEnforcesDefaultOnly` follows: the
  exception that `decide_shadow` finds is the only one.
- **ConditionProofs.** `IInv` says that the code of an accepted condition is
  what `compile_condition` gives and that an answer is what the code gives; the
  rest is about those operators, for any alphabet and any text. `CodeTyped` shows
  that compiling is total on accepted conditions and lets no refused literal
  through. `TextAnswers` takes the text operators one family at a time: both
  sides of a comparison are read alike (`SameTextRead`), a prefix of the rest of
  a text is a piece of it (`PrefixAt`, `SuffixAt`), and a cut of a text that
  serves the tokens of a glob serves the pattern (`TokenTakes`, `GlobFits`);
  because a match is the existence of a cut, no induction is needed.
  `CaseAnswers` does the same for two texts that fold alike, and
  `OppositesDiffer` and `ThresholdAnswers` compare a condition with its opposite.

- **LiveViewProofs.** `Bounded` is inductive only with a count (`Room`): the
  threads that have found room and not yet appended are part of the bound.
  `InOrder` needs `Behind`: what is queued, in hand or shown is no newer than
  what its thread has reached. The refinement `Implements` uses both, with
  `Following` (a coroutine in its loop is subscribed, and a browser that has not
  joined was shown nothing): a frame in hand is newer than what its browser was
  shown and no newer than the ring. `Stranding` (`Woken`) says of a viewer that
  waits or is about to wait on a frame that somebody is on the way to wake it,
  or that it missed one. `RaiseNeedsOverlap` (`GetterKept`) rests on the fact
  that only threads take getters away: one that is about to do so alone finds
  it.
- **IntakeProofs.** `TypeInv` has a part for the sink, the threads, the loop and
  the table, `Working` (a thread has records exactly while it stores them) and
  `AwaitsOne`, by which a thread that a batch awaits works on that batch and no
  two batches await one thread. `TypeCorrect` includes that ids have no gap.
  `Accounted` adds `Underway`: a thread that stores has shown, and one that has
  stored is through with the whole batch. `ExactlyOnce` adds `Distinct` (no
  record is twice in the sink, neither in the buffer nor in two batches),
  `Followed` (of a record whose answers were all heard, the post its batch
  awaits is the only one there is, and it is not stored before its thread says
  so) and `Absent` (what the sink has given up is neither in the sink nor
  stored). For `Implements`, the lemma `Storing` shows that inserting after the
  greatest id and deleting up to the cutoff is appending to a sequence and
  keeping its newest elements.

Every safety property of a passing run is proved. Only model-checked: the
liveness properties (`RequestsFinish`, `NodesConverge`, `NodeComesUp`,
`PublishersFinish`, `FramesReach`, `EverythingEnds`), because TLAPS does not
handle fairness. Some theorems state what no run lists: `Immutable` and
`InOrder` are implied by the refinements the runs check; the conditional ones
(`RowsValidWithoutOverlap`, `LogReplaysWithoutOverlap`,
`WholeWhileSettingsStand`, `NobodyStuck`) say of a finding or an exception that
it has no second cause. The findings are counterexamples found by TLC.

## 5. What the models leave out

- Power loss that undoes a completed rename (there is no fsync in
  `write_config`); a kill of the process or container is modelled.
- A control plane database restored from an older backup, where a version number
  is used again.
- The UPDATE-by-column detail for columns other than the four that are kept.
- Deletion of `state.json` or `vector.toml` by hand.
- Text: slugs, TOML and VRL source, the probe corpus, messages.

- The number of characters that folding makes of one (some letters fold to two),
  floats that are not whole, how a network is parsed, field names.
- The retry of a request by a browser or by the CLI.
- The kill of a node, which loses what is in the sink's memory buffer, and the
  sinks of several nodes (each would be a further set of posts).
- Cancellation at shutdown of the control plane; its kill is modelled.
- What the ring is read for (`recent` copies it in one step), redaction, and the
  setting `tail_buffer_size` (`config.py:59`), which `TailBuffer()` does not use.

## 6. Plan

In this order, the most important behaviour first; items 1 to 7 are done.

1. `RuleStore` and its proofs.
2. `BundleStore`, `ReleaseRegistry` and the refinement.
3. `Rollout` and its proofs.
4. `Decide` and its proofs.
5. `Condition` and its proofs.
6. `LiveView` and its proofs.
7. `Intake` with the connection pool, `SampleLog`, the refinement and its proofs.
8. A composition of `Decide` with `Condition` in place of `event.matches`, with
   several conditions and fields per rule.
9. `Preview`: the counting of the impact preview over stored samples.

## 7. Running

    tlc -workers 2 -config RuleStore.cfg MCRuleStore
    tlapm RuleStoreProofs.tla

and the same for the other configurations and proof modules. Every run takes
less than two minutes, except `intake` with three to four; every proof module
takes a few minutes.

## 8. Not modelled

The impact preview (one sequential function that writes stored samples to a
subprocess and counts the lines it answers), authentication and roles beyond the
database read of a token check (stateless checks),
settings and command line (parsing and administration), the traffic generator
and the performance harness (measurement tools), the web interface (a client of
the routes) and deployment files, whose restart policy and persistent directory
are the assumptions behind `Restarted`.
