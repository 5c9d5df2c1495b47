--------------------------------- MODULE Intake --------------------------------
(***************************************************************************)
(* The way of sampled decisions from a node into the sample table: the     *)
(* HTTP sink of the node's Vector (compiler/vector_config.py), the intake  *)
(* route (api/routes.py), record_samples (sampling/store.py), and what the *)
(* intake shares with the live view: connections and the event loop.       *)
(*                                                                         *)
(* The sink keeps a bounded buffer and has several batches in flight.  It  *)
(* waits for the answer to a post up to its timeout and posts the batch    *)
(* once more; a post it no longer awaits goes on.  Each post runs in a     *)
(* worker thread, which first shows the records to the live view (module   *)
(* LiveView) and then stores them with a session of its own.  Connections  *)
(* come from SQLAlchemy's pool.  A socket of the live view takes one when  *)
(* its token is checked, keeps it until the socket ends, and waits for it, *)
(* when the pool is empty, in the event loop itself: nothing else of the   *)
(* API starts or ends until it has one or gives up.  Any request with a    *)
(* token does the same for a shorter time.                                 *)
(***************************************************************************)
EXTENDS Integers, Sequences, FiniteSets

CONSTANTS
    Threads,     \* worker threads that serve the intake
    Nobody,      \* no thread
    Undecided,   \* records of events whose program aborted: no decision
    MaxRecords,  \* bound on the records the node samples
    BatchSize,   \* batch.max_events of the sink
    BufferSize,  \* buffer.max_events of the sink
    Concurrency, \* batches in flight: Vector's default, for none is configured
    MaxPosts,    \* posts of one batch: the first and request.retry_attempts
    MaxEvents,   \* SS_SAMPLE_STORE_MAX_EVENTS
    PoolSize,    \* connections of the pool, with its overflow
    MaxCrashes   \* bound on the restarts of the control plane

ASSUME IntakeAssumption ==
    /\ IsFiniteSet(Threads)
    /\ {Nobody, "wire"} \cap Threads = {} /\ Nobody # "wire"
    /\ Undecided \subseteq Nat
    /\ {MaxRecords, MaxEvents, PoolSize, MaxCrashes} \subseteq Nat
    /\ {BatchSize, BufferSize, Concurrency, MaxPosts} \subseteq Nat \ {0}

VARIABLES
    sampled,  \* the number of records the node has sampled
    buffer,   \* the sink's buffer
    inFlight, \* the batches the sink is posting: their records, how often it
              \* has posted them, and the thread it awaits, or "wire"
    wire,     \* posts that no thread has taken yet, with their number
    thread,   \* where each worker thread is
    work,     \* the records each worker thread still has to store
    pool,     \* the worker threads that hold a connection
    sockets,  \* how many sockets hold one
    writer,   \* who holds SQLite's write lock
    blocked,  \* the event loop waits for a connection
    rows,     \* the committed sample table: the record of each id
    lost,     \* the records the sink has given up
    shown,    \* history variable: records published to the live view
    stored,   \* history variable: how often each record was committed
    unheard,  \* history variable: records of posts that ended without answer
    crashes   \* how often the control plane was restarted

sink == <<sampled, buffer, inFlight, lost>>
server == <<thread, work, pool, sockets, writer, blocked>>
vars == <<sink, wire, server, rows, shown, stored, unheard, crashes>>

Records == 1..MaxRecords

\* A batch in flight.
Batch ==
    {b \in [records : Seq(Records), posts : 1..MaxPosts,
            at : Threads \cup {"wire"}] : Len(b.records) \in 1..BatchSize}

Elements(s) == {s[i] : i \in 1..Len(s)}

\* The records of some batches.
RecordsOf(batches) == UNION {Elements(b.records) : b \in batches}

Init ==
    /\ sampled = 0
    /\ buffer = <<>>
    /\ inFlight = {}
    /\ wire = {}
    /\ thread = [t \in Threads |-> "idle"]
    /\ work = [t \in Threads |-> <<>>]
    /\ pool = {}
    /\ sockets = 0
    /\ writer = Nobody
    /\ blocked = FALSE
    /\ rows = <<>>
    /\ lost = {}
    /\ shown = {}
    /\ stored = [r \in Records |-> 0]
    /\ unheard = {}
    /\ crashes = 0

-----------------------------------------------------------------------------
\* The sink.  Vector samples forwarded events and keeps every drop; what gets
\* here is numbered.

\* when_full = "drop_newest": the pipeline goes on, whatever the sink does.
Sample ==
    /\ sampled < MaxRecords
    /\ sampled' = sampled + 1
    /\ \/ /\ Len(buffer) < BufferSize
          /\ buffer' = Append(buffer, sampled + 1)
          /\ UNCHANGED lost
       \/ /\ Len(buffer) >= BufferSize
          /\ lost' = lost \cup {sampled + 1}
          /\ UNCHANGED buffer
    /\ UNCHANGED <<inFlight, wire, server, rows, shown, stored, unheard,
                   crashes>>

\* A batch that has just been posted for the n-th time, ...
Posted(records, n) == [records |-> records, posts |-> n, at |-> "wire"]

\* ... and that post of it.
PostOf(b) == [records |-> b.records, post |-> b.posts]

\* The batch is full, or the batch timeout has passed.
PostBatch ==
    /\ Cardinality(inFlight) < Concurrency
    /\ \E n \in 1..BatchSize :
          /\ n <= Len(buffer)
          /\ LET b == Posted(SubSeq(buffer, 1, n), 1)
             IN  /\ inFlight' = inFlight \cup {b}
                 /\ wire' = wire \cup {PostOf(b)}
          /\ buffer' = SubSeq(buffer, n + 1, Len(buffer))
    /\ UNCHANGED <<sampled, lost, server, rows, shown, stored, unheard,
                   crashes>>

GiveUp(b) ==
    /\ inFlight' = inFlight \ {b}
    /\ lost' = lost \cup Elements(b.records)

\* Mistake: a failed post is not tried again and not counted.
EndQuietly(b, others) ==
    /\ inFlight' = inFlight \ {b}
    /\ wire' = others
    /\ UNCHANGED lost

\* Once more.
Again(b) == Posted(b.records, b.posts + 1)

\* A post of b has failed: once more, besides the others on the wire, or never.
RetryOrGiveUp(b, others) ==
    \/ /\ b.posts < MaxPosts
       /\ inFlight' = (inFlight \ {b}) \cup {Again(b)}
       /\ wire' = others \cup {PostOf(Again(b))}
       /\ UNCHANGED lost
    \/ /\ b.posts >= MaxPosts
       /\ GiveUp(b)
       /\ wire' = others

\* The control plane cannot be reached.
Unreachable(b) ==
    /\ b.at = "wire"
    /\ RetryOrGiveUp(b, wire \ {PostOf(b)})
    /\ UNCHANGED <<sampled, buffer, server, rows, shown, stored, unheard,
                   crashes>>

\* request.timeout_secs: the post itself goes on, wherever it is.
TimeOut(b) ==
    /\ unheard' = unheard \cup Elements(b.records)
    /\ RetryOrGiveUp(b, wire)
    /\ UNCHANGED <<sampled, buffer, server, rows, shown, stored, crashes>>

-----------------------------------------------------------------------------
\* The intake route.  The event loop reads a post and answers it.

\* The thread is through with its records: they are "stored", or it "failed".
Turns(t, outcome) ==
    /\ thread' = [thread EXCEPT ![t] = outcome]
    /\ work' = [work EXCEPT ![t] = <<>>]

\* The batch that awaits the answer to a post on the wire, if one does.
Awaiting(m) == {b \in inFlight : b.at = "wire" /\ PostOf(b) = m}

\* Every record of a post must have a decision, or none is taken: 422, which
\* the sink does not try again.
RefusePost(m) ==
    /\ ~blocked
    /\ Elements(m.records) \cap Undecided # {}
    /\ wire' = wire \ {m}
    /\ inFlight' = inFlight \ Awaiting(m)
    /\ lost' = lost \cup RecordsOf(Awaiting(m))
    /\ UNCHANGED <<sampled, buffer, server, rows, shown, stored, unheard,
                   crashes>>

\* A worker thread takes a post.
Taken(m, t) ==
    /\ ~blocked
    /\ thread[t] = "idle"
    /\ Elements(m.records) \cap Undecided = {}
    /\ wire' = wire \ {m}
    /\ inFlight' = {IF b \in Awaiting(m) THEN [b EXCEPT !.at = t] ELSE b :
                        b \in inFlight}

\* It begins with buffer.publish(record) for every record, of which nothing but
\* the live view takes notice (module LiveView has the steps) ...
TakePost(m, t) ==
    /\ Taken(m, t)
    /\ thread' = [thread EXCEPT ![t] = "connect"]
    /\ work' = [work EXCEPT ![t] = m.records]
    /\ shown' = shown \cup Elements(m.records)
    /\ UNCHANGED <<sampled, buffer, lost, pool, sockets, writer, blocked, rows,
                   stored, unheard, crashes>>

\* ... or until one raises, as LiveView says it can.
ShowFails(m, t) ==
    /\ Taken(m, t)
    /\ thread' = [thread EXCEPT ![t] = "failed"]
    /\ \E n \in 1..Len(m.records) :
          shown' = shown \cup Elements(SubSeq(m.records, 1, n))
    /\ UNCHANGED <<sampled, buffer, lost, work, pool, sockets, writer, blocked,
                   rows, stored, unheard, crashes>>

\* The pool has a connection left.
Free == Cardinality(pool) + sockets < PoolSize

\* The first statement of the session takes a connection, ...
Connect(t) ==
    /\ thread[t] = "connect"
    /\ Free
    /\ pool' = pool \cup {t}
    /\ thread' = [thread EXCEPT ![t] = "flush"]
    /\ UNCHANGED <<sink, wire, work, sockets, writer, blocked, rows, shown,
                   stored, unheard, crashes>>

\* Mistake: the pool has no timeout.
WaitsForConnection(t) == FALSE

\* ... or gives up after pool_timeout.
PoolTimeout(t) ==
    /\ thread[t] = "connect"
    /\ ~Free
    /\ Turns(t, "failed")
    /\ UNCHANGED <<sink, wire, pool, sockets, writer, blocked, rows, shown,
                   stored, unheard, crashes>>

\* session.flush(): the INSERTs begin a transaction and take the write lock, ...
Flush(t) ==
    /\ thread[t] = "flush"
    /\ writer = Nobody
    /\ writer' = t
    /\ thread' = [thread EXCEPT ![t] = "commit"]
    /\ UNCHANGED <<sink, wire, work, pool, sockets, blocked, rows, shown,
                   stored, unheard, crashes>>

\* Mistake: the connection is not given back.
KeepsConnection(t) ==
    /\ thread[t] = "flush"
    /\ writer # Nobody
    /\ Turns(t, "failed")
    /\ UNCHANGED <<sink, wire, pool, sockets, writer, blocked, rows, shown,
                   stored, unheard, crashes>>

\* ... or fail when it stays taken for longer than the busy timeout.
LockTimeout(t) ==
    /\ thread[t] = "flush"
    /\ writer # Nobody
    /\ Turns(t, "failed")
    /\ pool' = pool \ {t}
    /\ UNCHANGED <<sink, wire, sockets, writer, blocked, rows, shown, stored,
                   unheard, crashes>>

\* A table is a function from ids to records.  The greatest id, 0 for none.
LastId(table) ==
    CHOOSE i \in DOMAIN table \cup {0} :
        \A j \in DOMAIN table \cup {0} : j <= i

\* SQLite gives a row the id after the greatest.
Inserted(table, s) ==
    [i \in DOMAIN table \cup (LastId(table) + 1)..(LastId(table) + Len(s)) |->
        IF i \in DOMAIN table THEN table[i] ELSE s[i - LastId(table)]]

\* order_by(id).offset(n - 1).limit(1): the id with n ids up to it.
IdAtOffset(table, n) ==
    CHOOSE i \in DOMAIN table :
        Cardinality({j \in DOMAIN table : j <= i}) = n

\* Mistake: the cutoff is one row too late (offset(excess)).
TrimmedShort(table) ==
    LET excess == Cardinality(DOMAIN table) - MaxEvents
    IN  IF excess <= 0 THEN table
        ELSE [i \in {j \in DOMAIN table :
                         j > IdAtOffset(table, excess + 1)} |-> table[i]]

\* Rows up to the cutoff are deleted when there are too many.
Trimmed(table) ==
    LET excess == Cardinality(DOMAIN table) - MaxEvents
    IN  IF excess <= 0 THEN table
        ELSE [i \in {j \in DOMAIN table : j > IdAtOffset(table, excess)} |->
                  table[i]]

\* Each record of s counts once more.
Counted(count, s) ==
    [r \in Records |-> count[r] + IF r \in Elements(s) THEN 1 ELSE 0]

\* count, cutoff and delete see the thread's own rows and the committed ones,
\* and nobody else writes meanwhile; then the commit.
Commit(t) ==
    /\ thread[t] = "commit"
    /\ rows' = Trimmed(Inserted(rows, work[t]))
    /\ stored' = Counted(stored, work[t])
    /\ writer' = Nobody
    /\ pool' = pool \ {t}
    /\ Turns(t, "stored")
    /\ UNCHANGED <<sink, wire, sockets, blocked, shown, unheard, crashes>>

\* Mistake: the table is committed before something else raises.
FailsAfterCommit(t) ==
    /\ thread[t] = "commit"
    /\ rows' = Trimmed(Inserted(rows, work[t]))
    /\ stored' = Counted(stored, work[t])
    /\ writer' = Nobody
    /\ pool' = pool \ {t}
    /\ Turns(t, "failed")
    /\ UNCHANGED <<sink, wire, sockets, blocked, shown, unheard, crashes>>

\* A statement or the commit raises (the disk is full): rollback.
RollBack(t) ==
    /\ thread[t] = "commit"
    /\ writer' = Nobody
    /\ pool' = pool \ {t}
    /\ Turns(t, "failed")
    /\ UNCHANGED <<sink, wire, sockets, blocked, rows, shown, stored, unheard,
                   crashes>>

\* The batch that awaits the answer of a thread, if one does.
AwaitingThread(t) == {b \in inFlight : b.at = t}

\* 204.
Accept(t) ==
    /\ ~blocked
    /\ thread[t] = "stored"
    /\ thread' = [thread EXCEPT ![t] = "idle"]
    /\ inFlight' = inFlight \ AwaitingThread(t)
    /\ UNCHANGED <<sampled, buffer, lost, wire, work, pool, sockets, writer,
                   blocked, rows, shown, stored, unheard, crashes>>

\* 500.
Reject(t) ==
    /\ ~blocked
    /\ thread[t] = "failed"
    /\ thread' = [thread EXCEPT ![t] = "idle"]
    /\ \/ \E b \in AwaitingThread(t) : RetryOrGiveUp(b, wire)
       \/ AwaitingThread(t) = {} /\ UNCHANGED <<inFlight, lost, wire>>
    /\ UNCHANGED <<sampled, buffer, work, pool, sockets, writer, blocked, rows,
                   shown, stored, unheard, crashes>>

-----------------------------------------------------------------------------
\* The sockets, as far as connections go, and the control plane's process.

\* principal_from_token reads the user's row: with a connection, ...
OpenSocket ==
    /\ ~blocked /\ Free
    /\ sockets' = sockets + 1
    /\ UNCHANGED <<sink, wire, thread, work, pool, writer, blocked, rows, shown,
                   stored, unheard, crashes>>

\* ... or in the event loop, waiting for one, ...
BlockLoop ==
    /\ ~blocked /\ ~Free
    /\ blocked' = TRUE
    /\ UNCHANGED <<sink, wire, thread, work, pool, sockets, writer, rows, shown,
                   stored, unheard, crashes>>

\* ... until a thread gives one back ...
UnblockLoop ==
    /\ blocked /\ Free
    /\ sockets' = sockets + 1
    /\ blocked' = FALSE
    /\ UNCHANGED <<sink, wire, thread, work, pool, writer, rows, shown, stored,
                   unheard, crashes>>

\* ... or pool_timeout passes: no socket can end meanwhile.
LoopTimeout ==
    /\ blocked /\ ~Free
    /\ blocked' = FALSE
    /\ UNCHANGED <<sink, wire, thread, work, pool, sockets, writer, rows, shown,
                   stored, unheard, crashes>>

CloseSocket ==
    /\ ~blocked
    /\ sockets > 0
    /\ sockets' = sockets - 1
    /\ UNCHANGED <<sink, wire, thread, work, pool, writer, blocked, rows, shown,
                   stored, unheard, crashes>>

\* The control plane is killed and starts again.  What was not committed is
\* gone; the sink sees its connections break and retries or gives up each batch.
Crash ==
    /\ crashes < MaxCrashes
    /\ crashes' = crashes + 1
    /\ thread' = [t \in Threads |-> "idle"]
    /\ work' = [t \in Threads |-> <<>>]
    /\ pool' = {}
    /\ writer' = Nobody
    /\ sockets' = 0
    /\ blocked' = FALSE
    /\ LET spent == {b \in inFlight : b.posts >= MaxPosts}
       IN  /\ inFlight' = {Again(b) : b \in inFlight \ spent}
           /\ wire' = {PostOf(Again(b)) : b \in inFlight \ spent}
           /\ lost' = lost \cup RecordsOf(spent)
    /\ unheard' = unheard \cup RecordsOf(inFlight)
    /\ UNCHANGED <<sampled, buffer, rows, shown, stored>>

-----------------------------------------------------------------------------

\* What a worker thread does by itself.
Works(t) ==
    \/ Connect(t)
    \/ PoolTimeout(t)
    \/ Flush(t)
    \/ LockTimeout(t)
    \/ Commit(t)
    \/ RollBack(t)

Answers(t) == Accept(t) \/ Reject(t)

Next ==
    \/ Sample
    \/ PostBatch
    \/ \E b \in inFlight : Unreachable(b) \/ TimeOut(b)
    \/ \E m \in wire :
          \/ RefusePost(m)
          \/ \E t \in Threads : TakePost(m, t) \/ ShowFails(m, t)
    \/ \E t \in Threads : Works(t) \/ Answers(t)
    \/ OpenSocket \/ CloseSocket
    \/ BlockLoop \/ UnblockLoop \/ LoopTimeout
    \/ Crash

Spec == Init /\ [][Next]_vars

\* The sink and the threads run, the waits in the event loop end, and the loop
\* does in turn what is ready: an answer is at last sent however many sockets
\* come.  Nothing is assumed of the sockets.
FairSpec ==
    /\ Spec
    /\ WF_vars(PostBatch) /\ WF_vars(\E b \in inFlight : TimeOut(b))
    /\ WF_vars(UnblockLoop \/ LoopTimeout)
    /\ \A t \in Threads : WF_vars(Works(t)) /\ SF_vars(Answers(t))

-----------------------------------------------------------------------------

\* The id before the least, when no id is missing.
Before(table) == LastId(table) - Cardinality(DOMAIN table)

\* No id of a table is missing between its least and its greatest.
Contiguous(table) ==
    /\ Before(table) \in Nat
    /\ LastId(table) \in Nat
    /\ table \in [(Before(table) + 1)..LastId(table) -> Records]

\* Every variable has its type.  The ids of the table have no gap, only who
\* uses a connection holds one, and there are no more than the pool has.
TypeOK ==
    /\ sampled \in 0..MaxRecords
    /\ buffer \in Seq(Records) /\ Len(buffer) <= BufferSize
    /\ inFlight \subseteq Batch
    /\ IsFiniteSet(inFlight) /\ Cardinality(inFlight) <= Concurrency
    /\ \A m \in wire : /\ m.records \in Seq(Records)
                       /\ Len(m.records) \in 1..BatchSize
                       /\ m.post \in 1..MaxPosts
    /\ thread \in [Threads -> {"idle", "connect", "flush", "commit", "stored",
                               "failed"}]
    /\ work \in [Threads -> Seq(Records)]
    /\ \A t \in Threads : /\ Len(work[t]) <= BatchSize
                          /\ t \in pool <=> thread[t] \in {"flush", "commit"}
                          /\ writer = t <=> thread[t] = "commit"
    /\ pool \subseteq Threads
    /\ sockets \in Nat /\ Cardinality(pool) + sockets <= PoolSize
    /\ writer \in Threads \cup {Nobody}
    /\ blocked \in BOOLEAN
    /\ Contiguous(rows)
    /\ lost \subseteq Records
    /\ shown \subseteq Records
    /\ stored \in [Records -> Nat]
    /\ unheard \subseteq Records
    /\ crashes \in 0..MaxCrashes

\* The committed rows in the order of their ids.
Kept == [i \in 1..Cardinality(DOMAIN rows) |-> rows[Before(rows) + i]]

Log == INSTANCE SampleLog WITH kept <- Kept

\* Whichever threads store at a time, fail or wait for each other, a reader of
\* the table finds the newest MaxEvents records of whole batches.
ImplementsSampleLog == Log!Spec

\* Every record the node has sampled is on its way, or was published to the
\* live view and stored, or was given up by the sink: its buffer was full, its
\* post refused, or each of its posts failed.
EveryRecordAccounted ==
    \A r \in 1..sampled :
        \/ r \in Elements(buffer)
        \/ r \in RecordsOf(inFlight)
        \/ stored[r] > 0 /\ r \in shown
        \/ r \in lost

\* "Every drop reaches the control plane exactly once"
\* (tests/test_dataplane_e2e.py:386) is true unless an answer to the sink was
\* late or lost: a record that has left the sink was stored once, or was given
\* up and never stored.  Otherwise it can be stored twice, or stored although
\* the sink counts it as given up.
ExactlyOnceUnlessUnheard ==
    \A r \in (1..sampled) \ unheard :
        \/ r \in Elements(buffer) \cup RecordsOf(inFlight)
              /\ stored[r] <= 1 /\ r \notin lost
        \/ stored[r] = 1 /\ r \in shown /\ r \notin lost
        \/ stored[r] = 0 /\ r \in lost

\* Again and again nobody waits: each post has ended although sockets may keep
\* every connection, the event loop is not blocked, and each record sampled so
\* far is stored or given up.
EverythingEnds ==
    []<>(/\ \A t \in Threads : thread[t] = "idle"
         /\ ~blocked
         /\ \A r \in 1..sampled : stored[r] > 0 \/ r \in lost)

=============================================================================
