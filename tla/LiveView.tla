-------------------------------- MODULE LiveView -------------------------------
(***************************************************************************)
(* The live view: TailBuffer (sampling/store.py), filled by the intake     *)
(* route and drained by the sockets of /decisions/tail (api/routes.py).    *)
(*                                                                         *)
(* The intake is a plain function, so each request runs in a worker        *)
(* thread; a socket is a coroutine of the event loop.  They share the ring *)
(* of recent records, the set of subscribers and one asyncio.Queue for     *)
(* each subscriber.  Such a queue is made for the coroutines of one event  *)
(* loop: what put_nowait and get do between two awaits is a sequence of    *)
(* steps that a thread can interleave with.  Here each step is one access  *)
(* to shared state that the interpreter lock makes atomic.                 *)
(*                                                                         *)
(* A thread that sets a getter's result does not itself wake the event     *)
(* loop; the end of its request does, at the latest, so a socket whose     *)
(* getter is set goes on at some time.                                     *)
(***************************************************************************)
EXTENDS Integers, Sequences, FiniteSets

CONSTANTS
    Publishers,   \* intake requests, each with a batch of records to publish
    Viewers,      \* sockets of the live view; a browser that reconnects is new
    Nobody,       \* no viewer
    BatchSize,    \* the records of a batch
    BufferSize,   \* maxlen of the ring of recent records
    QueueSize     \* maxsize of a subscriber's queue

ASSUME LiveViewAssumption ==
    /\ IsFiniteSet(Publishers)
    /\ Publishers # {}
    /\ Nobody \notin Viewers
    /\ BatchSize \in Nat
    /\ BufferSize \in Nat
    /\ QueueSize \in Nat \ {0}

VARIABLES
    items,        \* the ring of recent records
    subscribers,  \* the viewers whose queue is in the set of subscribers
    queue,        \* the queue of each viewer
    getters,      \* the viewers that have a getter registered in their queue
    socket,       \* where each viewer's coroutine is
    hand,         \* the frame each viewer's coroutine has taken
    got,          \* for each viewer, the last record of each batch it received
    gone,         \* the viewers whose browser has disconnected
    broken,       \* those of them whose connection the server knows is lost
    stage,        \* where each publisher is with its current record
    done,         \* how many records each publisher is through with
    targets,      \* the subscribers its current record has yet to go to
    facing,       \* the subscriber whose queue it is at, or Nobody
    missed        \* history variable: viewers that registered a getter too late
                  \* for a frame, and have not taken one since

publisherVars == <<items, stage, done, targets, facing>>
viewerVars == <<subscribers, socket, hand, got, gone, broken>>
vars == <<items, subscribers, queue, getters, socket, hand, got, gone, broken,
          stage, done, targets, facing, missed>>

Records == [from: Publishers, no: 1..BatchSize]

NoFrame == [from |-> Nobody, no |-> 0]

\* The record a publisher is at.
Current(p) == [from |-> p, no |-> done[p] + 1]

Init ==
    /\ items = <<>>
    /\ subscribers = {}
    /\ queue = [v \in Viewers |-> <<>>]
    /\ getters = {}
    /\ socket = [v \in Viewers |-> "closed"]
    /\ hand = [v \in Viewers |-> NoFrame]
    /\ got = [v \in Viewers |-> [p \in Publishers |-> 0]]
    /\ gone = {}
    /\ broken = {}
    /\ stage = [p \in Publishers |-> "next"]
    /\ done = [p \in Publishers |-> 0]
    /\ targets = [p \in Publishers |-> {}]
    /\ facing = [p \in Publishers |-> Nobody]
    /\ missed = {}

Goto(p, s) == stage' = [stage EXCEPT ![p] = s]

Jump(v, s) == socket' = [socket EXCEPT ![v] = s]

-----------------------------------------------------------------------------
\* publish, for each record of the batch.

\* Mistake: off by one.
LastAndOne(n, s) == SubSeq(s, IF Len(s) > n THEN Len(s) - n ELSE 1, Len(s))

\* The last n elements of s.
Last(n, s) == SubSeq(s, IF Len(s) > n THEN Len(s) - n + 1 ELSE 1, Len(s))

\* self._items.append(record): a bounded deque drops its oldest.
AppendItem(p) ==
    /\ stage[p] = "next" /\ done[p] < BatchSize
    /\ items' = Last(BufferSize, Append(items, Current(p)))
    /\ Goto(p, "copy")
    /\ UNCHANGED <<viewerVars, queue, getters, done, targets, facing, missed>>

\* list(self._subscribers)
CopySubscribers(p) ==
    /\ stage[p] = "copy"
    /\ targets' = [targets EXCEPT ![p] = subscribers]
    /\ Goto(p, "fan")
    /\ UNCHANGED <<viewerVars, queue, getters, items, done, facing, missed>>

\* Mistake: the publisher waits for room in a full queue.
WaitForRoom(p, v) == FALSE

\* put_nowait begins with the test for a full queue; QueueFull is suppressed,
\* so this subscriber loses the frame.
SkipFull(p, v) ==
    /\ stage[p] = "fan" /\ v \in targets[p]
    /\ Len(queue[v]) >= QueueSize
    /\ targets' = [targets EXCEPT ![p] = @ \ {v}]
    /\ UNCHANGED <<viewerVars, queue, getters, items, stage, done, facing,
                   missed>>

\* Mistake: a queue takes one more than its size.
FindRoomTooLate(p, v) ==
    /\ stage[p] = "fan" /\ v \in targets[p]
    /\ Len(queue[v]) <= QueueSize
    /\ targets' = [targets EXCEPT ![p] = @ \ {v}]
    /\ facing' = [facing EXCEPT ![p] = v]
    /\ Goto(p, "put")
    /\ UNCHANGED <<viewerVars, queue, getters, items, done, missed>>

FindRoom(p, v) ==
    /\ stage[p] = "fan" /\ v \in targets[p]
    /\ Len(queue[v]) < QueueSize
    /\ targets' = [targets EXCEPT ![p] = @ \ {v}]
    /\ facing' = [facing EXCEPT ![p] = v]
    /\ Goto(p, "put")
    /\ UNCHANGED <<viewerVars, queue, getters, items, done, missed>>

\* Mistake: the frame goes to the head of the queue.
PutFirst(p) ==
    /\ stage[p] = "put"
    /\ queue' = [queue EXCEPT ![facing[p]] = <<Current(p)>> \o @]
    /\ Goto(p, "wake")
    /\ UNCHANGED <<viewerVars, getters, items, done, targets, facing, missed>>

Put(p) ==
    /\ stage[p] = "put"
    /\ queue' = [queue EXCEPT ![facing[p]] = Append(@, Current(p))]
    /\ Goto(p, "wake")
    /\ UNCHANGED <<viewerVars, getters, items, done, targets, facing, missed>>

\* The publisher is through with the queue it was at.
Leave(p) ==
    /\ Goto(p, "fan")
    /\ facing' = [facing EXCEPT ![p] = Nobody]
    /\ UNCHANGED <<viewerVars, queue, items, done, targets>>

\* while waiters: ... finds none.  A viewer that has found its queue empty and
\* is about to register will miss this frame.
FindNoGetter(p) ==
    /\ stage[p] = "wake"
    /\ facing[p] \notin getters
    /\ Leave(p)
    /\ missed' = IF socket[facing[p]] = "register"
                 THEN missed \cup {facing[p]} ELSE missed
    /\ UNCHANGED getters

\* Mistake: the getter is taken without a look whether there is one.
FindGetterAnyway(p) ==
    /\ stage[p] = "wake"
    /\ Goto(p, "pop")
    /\ UNCHANGED <<viewerVars, queue, getters, items, done, targets, facing,
                   missed>>

\* Mistake: only the first frame of a queue wakes its viewer.
FindGetterIfFirst(p) ==
    /\ stage[p] = "wake"
    /\ facing[p] \in getters
    /\ Goto(p, IF Len(queue[facing[p]]) = 1 THEN "pop" ELSE "fan")
    /\ UNCHANGED <<viewerVars, queue, getters, items, done, targets, facing,
                   missed>>

\* while waiters: ... finds one.
FindGetter(p) ==
    /\ stage[p] = "wake"
    /\ facing[p] \in getters
    /\ Goto(p, "pop")
    /\ UNCHANGED <<viewerVars, queue, getters, items, done, targets, facing,
                   missed>>

\* waiters.popleft() and set_result.
Wake(p) ==
    /\ stage[p] = "pop"
    /\ facing[p] \in getters
    /\ getters' = getters \ {facing[p]}
    /\ Leave(p)
    /\ UNCHANGED missed

\* popleft of a deque that another thread has emptied meanwhile: the
\* IndexError leaves publish, the intake answers 500 and stores nothing.
Raise(p) ==
    /\ stage[p] = "pop"
    /\ facing[p] \notin getters
    /\ Goto(p, "raised")
    /\ UNCHANGED <<viewerVars, queue, getters, items, done, targets, facing,
                   missed>>

NextRecord(p) ==
    /\ stage[p] = "fan" /\ targets[p] = {}
    /\ done' = [done EXCEPT ![p] = @ + 1]
    /\ Goto(p, "next")
    /\ UNCHANGED <<viewerVars, queue, getters, items, targets, facing, missed>>

Publish(p) ==
    \/ AppendItem(p)
    \/ CopySubscribers(p)
    \/ \E v \in Viewers : SkipFull(p, v) \/ FindRoom(p, v)
    \/ Put(p)
    \/ FindNoGetter(p)
    \/ FindGetter(p)
    \/ Wake(p)
    \/ Raise(p)
    \/ NextRecord(p)

-----------------------------------------------------------------------------
\* tail_ws, after the handshake.

Subscribe(v) ==
    /\ socket[v] = "closed"
    /\ subscribers' = subscribers \cup {v}
    /\ Jump(v, "get")
    /\ UNCHANGED <<publisherVars, queue, getters, hand, got, gone, broken,
                   missed>>

\* queue.get(): while self.empty() ...
FindEmpty(v) ==
    /\ socket[v] = "get"
    /\ queue[v] = <<>>
    /\ Jump(v, "register")
    /\ UNCHANGED <<publisherVars, queue, getters, subscribers, hand, got, gone,
                   broken, missed>>

\* ... register a getter and wait for it, ...
Register(v) ==
    /\ socket[v] = "register"
    /\ getters' = getters \cup {v}
    /\ Jump(v, "wait")
    /\ UNCHANGED <<publisherVars, queue, subscribers, hand, got, gone, broken,
                   missed>>

\* ... look again once it is set, ...
Resume(v) ==
    /\ socket[v] = "wait"
    /\ v \notin getters
    /\ Jump(v, "get")
    /\ UNCHANGED <<publisherVars, queue, getters, subscribers, hand, got, gone,
                   broken, missed>>

\* ... and take the frame.
Take(v) ==
    /\ socket[v] = "get"
    /\ queue[v] # <<>>
    /\ queue' = [queue EXCEPT ![v] = Tail(@)]
    /\ hand' = [hand EXCEPT ![v] = Head(queue[v])]
    /\ missed' = missed \ {v}
    /\ Jump(v, "send")
    /\ UNCHANGED <<publisherVars, getters, subscribers, got, gone, broken>>

\* send_json returns: the browser reads the frame, or, when it has gone, the
\* connection's buffer takes it and nobody will.
Send(v) ==
    /\ socket[v] = "send" /\ v \notin broken
    /\ got' = IF v \in gone THEN got
              ELSE [got EXCEPT ![v][hand[v].from] = hand[v].no]
    /\ hand' = [hand EXCEPT ![v] = NoFrame]
    /\ Jump(v, "get")
    /\ UNCHANGED <<publisherVars, queue, getters, subscribers, gone, broken,
                   missed>>

\* Mistake: the loop goes on after a frame that could not be sent.
SendFailsAndGoesOn(v) ==
    /\ socket[v] = "send" /\ v \in broken
    /\ hand' = [hand EXCEPT ![v] = NoFrame]
    /\ Jump(v, "get")
    /\ UNCHANGED <<publisherVars, queue, getters, subscribers, got, gone,
                   broken, missed>>

\* It raises: the loop ends and its queue leaves the set of subscribers.
\* Nothing else tells the coroutine that its browser has gone.
SendFails(v) ==
    /\ socket[v] = "send" /\ v \in broken
    /\ subscribers' = subscribers \ {v}
    /\ hand' = [hand EXCEPT ![v] = NoFrame]
    /\ Jump(v, "left")
    /\ UNCHANGED <<publisherVars, queue, getters, got, gone, broken, missed>>

Watch(v) ==
    \/ FindEmpty(v)
    \/ Register(v)
    \/ Resume(v)
    \/ Take(v)
    \/ Send(v)
    \/ SendFails(v)

\* The browser closes the page or loses its connection ...
Disconnect(v) ==
    /\ socket[v] \notin {"closed", "left"} /\ v \notin gone
    /\ gone' = gone \cup {v}
    /\ UNCHANGED <<publisherVars, queue, getters, subscribers, socket, hand,
                   got, broken, missed>>

\* ... and the web server finds out, by a close frame, a reset or a ping that
\* nobody answers.
Break(v) ==
    /\ v \in gone \ broken
    /\ broken' = broken \cup {v}
    /\ UNCHANGED <<publisherVars, queue, getters, subscribers, socket, hand,
                   got, gone, missed>>

-----------------------------------------------------------------------------

Next ==
    \/ \E p \in Publishers : Publish(p)
    \/ \E v \in Viewers : \/ Subscribe(v) \/ Watch(v)
                         \/ Disconnect(v) \/ Break(v)

Spec == Init /\ [][Next]_vars

\* The worker threads run.  Of the viewers nothing is assumed.
FairSpec == Spec /\ \A p \in Publishers : WF_vars(Publish(p))

-----------------------------------------------------------------------------

\* Every variable has its type.
TypeOK ==
    /\ items \in Seq(Records)
    /\ Len(items) <= BufferSize
    /\ subscribers \subseteq Viewers
    /\ queue \in [Viewers -> Seq(Records)]
    /\ getters \subseteq Viewers
    /\ socket \in [Viewers -> {"closed", "get", "register", "wait", "send",
                               "left"}]
    /\ hand \in [Viewers -> Records \cup {NoFrame}]
    /\ got \in [Viewers -> [Publishers -> 0..BatchSize]]
    /\ broken \subseteq gone /\ gone \subseteq Viewers
    /\ stage \in [Publishers -> {"next", "copy", "fan", "put", "wake", "pop",
                                 "raised"}]
    /\ done \in [Publishers -> 0..BatchSize]
    /\ targets \in [Publishers -> SUBSET Viewers]
    /\ facing \in [Publishers -> Viewers \cup {Nobody}]
    /\ missed \subseteq Viewers

\* The test for a full queue and the append are two steps, so a queue can
\* outgrow its size, but only by one frame for each thread besides the first.
QueueBounded ==
    \A v \in Viewers :
        Len(queue[v]) <= QueueSize + Cardinality(Publishers) - 1

\* A viewer never receives a record twice nor the records of one batch out of
\* order, whichever it loses: of each batch, what is in its queue is newer than
\* what is before it in the queue, in its hand, and in its browser.
FramesInOrder ==
    \A v \in Viewers :
        /\ hand[v] # NoFrame => hand[v].no > got[v][hand[v].from]
        /\ \A i \in 1..Len(queue[v]) :
              LET f == queue[v][i]
              IN  /\ f.no > got[v][f.from]
                  /\ hand[v].from = f.from => f.no > hand[v].no
                  /\ \A j \in 1..(i - 1) :
                        queue[v][j].from = f.from => f.no > queue[v][j].no

\* How many records of p have been put into the ring.
Published(p) == done[p] + IF stage[p] = "next" THEN 0 ELSE 1

\* What a browser is shown is the abstract feed: a record is published when it
\* is put into the ring, and shown when the browser has read its frame.
Feed == INSTANCE LiveFeed WITH
    published <- [p \in Publishers |-> Published(p)],
    watching  <- subscribers,
    seen      <- got

\* Rings, queues, getters, lost frames and broken sockets implement that feed:
\* only what has been published is shown, to a browser whose queue is in the set
\* of subscribers, in order and at most once.
ImplementsLiveFeed == Feed!Spec

\* A viewer sleeps on a queue that holds a frame, and no publisher is on its
\* way to wake it.
Stranded(v) ==
    /\ v \in getters
    /\ queue[v] # <<>>
    /\ \A p \in Publishers :
          facing[p] = v => stage[p] \notin {"put", "wake", "pop"}

\* That has one cause only: a thread put a frame and looked for a getter after
\* the viewer had found its queue empty and before it had registered one.
StrandedOnlyByLateGetter == \A v \in Viewers : Stranded(v) => v \in missed

\* Two threads are about to take the getter of one queue.
Overlap ==
    \E p, q \in Publishers :
        /\ p # q
        /\ stage[p] = "pop" /\ stage[q] = "pop"
        /\ facing[p] = facing[q]

NobodyRaised == \A p \in Publishers : stage[p] # "raised"

\* "Never raises" (sampling/store.py:29) is true as long as no two threads are
\* about to take the same getter; nothing a viewer does makes publish raise.
RaisesOnlyOnOverlap == []~Overlap => []NobodyRaised

\* "Never blocks": whatever the viewers do or fail to do, a thread gets through
\* its batch, or raises.  (Nothing is assumed of the viewers.)
PublishersFinish ==
    \A p \in Publishers : <>(done[p] = BatchSize \/ stage[p] = "raised")

\* A frame that got into the queue of a viewer whose coroutine runs reaches its
\* browser, unless the viewer is stranded, or its browser has gone: once that is
\* known at all, the queue of a viewer that still has a frame leaves the set of
\* subscribers.
FramesReach ==
    \A v \in Viewers :
        WF_vars(Watch(v)) =>
            \A f \in Records :
                f \in {queue[v][i] : i \in 1..Len(queue[v])}
                    ~> \/ got[v][f.from] >= f.no
                       \/ v \notin subscribers
                       \/ v \in gone \ broken
                       \/ Stranded(v)

=============================================================================
