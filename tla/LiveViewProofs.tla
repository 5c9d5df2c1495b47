----------------------------- MODULE LiveViewProofs ----------------------------
(***************************************************************************)
(* Proofs about LiveView, for any number of publishers and viewers and any *)
(* sizes of the batch, the ring and the queues.                            *)
(***************************************************************************)
EXTENDS LiveView, FiniteSetTheorems, SequenceTheorems, TLAPS

\* The ring stays a sequence of the same elements and within its bound.
LEMMA LastBounded ==
    ASSUME NEW S, NEW s \in Seq(S), NEW n \in Nat
    PROVE  Last(n, s) \in Seq(S) /\ Len(Last(n, s)) <= n
<1> DEFINE k == IF Len(s) > n THEN Len(s) - n + 1 ELSE 1
<1>1. k \in 1..(Len(s) + 1)
  OBVIOUS
<1>2. \A i \in k..Len(s) : s[i] \in S
  BY <1>1
<1>3. SubSeq(s, k, Len(s)) \in Seq(S)
      /\ Len(SubSeq(s, k, Len(s))) = IF k <= Len(s) THEN Len(s) - k + 1 ELSE 0
  BY <1>1, <1>2, SubSeqProperties
<1> QED
  BY <1>3 DEF Last

-----------------------------------------------------------------------------
\* Types.  A publisher that is at a queue has a record left to publish.

Busy ==
    \A p \in Publishers :
        /\ stage[p] \in {"copy", "fan", "put", "wake", "pop"}
              => done[p] < BatchSize
        /\ stage[p] \in {"put", "wake", "pop"}
              => facing[p] \in Viewers \ targets[p]

Holding == \A v \in Viewers : socket[v] = "send" => hand[v] \in Records

TypeInv == TypeOK /\ Busy /\ Holding

LEMMA TypeInit == Init => TypeInv
BY LiveViewAssumption, SMT
   DEF LiveViewAssumption, Init, TypeInv, TypeOK, Busy, Holding

LEMMA TypeStep == TypeInv /\ [Next]_vars => TypeInv'
<1> SUFFICES ASSUME TypeInv, [Next]_vars PROVE TypeInv'
  OBVIOUS
<1> USE DEF TypeInv, TypeOK, Busy, Holding
<1>0. QueueSize \in Nat /\ BatchSize \in Nat /\ BufferSize \in Nat
  BY LiveViewAssumption DEF LiveViewAssumption
<1>1. ASSUME NEW p \in Publishers, AppendItem(p) PROVE TypeInv'
  <2>1. Current(p) \in Records
    BY <1>0, <1>1 DEF AppendItem, Current, Records
  <2> DEFINE longer == Append(items, Current(p))
  <2>2. longer \in Seq(Records)
    BY <2>1
  <2> HIDE DEF longer
  <2>3. Last(BufferSize, longer) \in Seq(Records)
        /\ Len(Last(BufferSize, longer)) <= BufferSize
    BY <1>0, <2>2, LastBounded
  <2>4. items' \in Seq(Records) /\ Len(items') <= BufferSize
    BY <1>1, <2>3 DEF AppendItem, longer
  <2> QED
    BY <1>1, <2>4 DEF AppendItem, Goto, viewerVars
<1>2. ASSUME NEW p \in Publishers, CopySubscribers(p) PROVE TypeInv'
  BY <1>2 DEF CopySubscribers, Goto, viewerVars
<1>3. ASSUME NEW p \in Publishers, NEW v \in Viewers, SkipFull(p, v)
      PROVE  TypeInv'
  BY <1>3 DEF SkipFull, viewerVars
<1>4. ASSUME NEW p \in Publishers, NEW v \in Viewers, FindRoom(p, v)
      PROVE  TypeInv'
  BY <1>4 DEF FindRoom, Goto, viewerVars
<1>5. ASSUME NEW p \in Publishers, Put(p) PROVE TypeInv'
  <2>1. Current(p) \in Records /\ facing[p] \in Viewers
    BY <1>0, <1>5 DEF Put, Current, Records
  <2>2. queue' \in [Viewers -> Seq(Records)]
    BY <1>5, <2>1 DEF Put
  <2> QED
    BY <1>5, <2>2 DEF Put, Goto, viewerVars
<1>6. ASSUME NEW p \in Publishers, FindNoGetter(p) PROVE TypeInv'
  BY <1>6 DEF FindNoGetter, Leave, Goto, viewerVars
<1>7. ASSUME NEW p \in Publishers, FindGetter(p) PROVE TypeInv'
  BY <1>7 DEF FindGetter, Goto, viewerVars
<1>8. ASSUME NEW p \in Publishers, Wake(p) PROVE TypeInv'
  BY <1>8 DEF Wake, Leave, Goto, viewerVars
<1>9. ASSUME NEW p \in Publishers, Raise(p) PROVE TypeInv'
  BY <1>9 DEF Raise, Goto, viewerVars
<1>10. ASSUME NEW p \in Publishers, NextRecord(p) PROVE TypeInv'
  BY <1>0, <1>10 DEF NextRecord, Goto, viewerVars
<1>11. ASSUME NEW v \in Viewers, Subscribe(v) PROVE TypeInv'
  BY <1>11 DEF Subscribe, Jump, publisherVars
<1>12. ASSUME NEW v \in Viewers, FindEmpty(v) PROVE TypeInv'
  BY <1>12 DEF FindEmpty, Jump, publisherVars
<1>13. ASSUME NEW v \in Viewers, Register(v) PROVE TypeInv'
  BY <1>13 DEF Register, Jump, publisherVars
<1>14. ASSUME NEW v \in Viewers, Resume(v) PROVE TypeInv'
  BY <1>14 DEF Resume, Jump, publisherVars
<1>15. ASSUME NEW v \in Viewers, Take(v) PROVE TypeInv'
  <2>1. Head(queue[v]) \in Records /\ Tail(queue[v]) \in Seq(Records)
    BY <1>15 DEF Take
  <2> QED
    BY <1>15, <2>1 DEF Take, Jump, publisherVars
<1>16. ASSUME NEW v \in Viewers, Send(v) PROVE TypeInv'
  <2>1. hand[v].from \in Publishers /\ hand[v].no \in 0..BatchSize
    BY <1>0, <1>16 DEF Send, Records
  <2>2. got' \in [Viewers -> [Publishers -> 0..BatchSize]]
    <3>1. CASE v \in gone
      BY <1>16, <3>1 DEF Send
    <3>2. CASE v \notin gone
      BY <1>16, <2>1, <3>2 DEF Send
    <3> QED
      BY <3>1, <3>2
  <2> QED
    BY <1>16, <2>2 DEF Send, Jump, publisherVars
<1>17. ASSUME NEW v \in Viewers, SendFails(v) PROVE TypeInv'
  BY <1>17 DEF SendFails, Jump, publisherVars
<1>18. ASSUME NEW v \in Viewers, Disconnect(v) \/ Break(v) PROVE TypeInv'
  BY <1>18 DEF Disconnect, Break, publisherVars
<1>19. CASE UNCHANGED vars
  BY <1>19 DEF vars
<1> QED
  BY <1>1, <1>2, <1>3, <1>4, <1>5, <1>6, <1>7, <1>8, <1>9, <1>10, <1>11,
     <1>12, <1>13, <1>14, <1>15, <1>16, <1>17, <1>18, <1>19
     DEF Next, Publish, Watch

\* The types, for any constants.
THEOREM TypeCorrect == Spec => []TypeOK
<1>1. TypeInv => TypeOK
  BY DEF TypeInv
<1> QED
  BY <1>1, TypeInit, TypeStep, PTL DEF Spec

-----------------------------------------------------------------------------
\* A queue, and those who have found room in it and have not put yet.

Putting(v) == {p \in Publishers : stage[p] = "put" /\ facing[p] = v}

Room ==
    \A v \in Viewers :
        Len(queue[v]) + Cardinality(Putting(v))
            <= QueueSize + Cardinality(Publishers) - 1

LEMMA PuttingFinite ==
    ASSUME NEW v
    PROVE  /\ IsFiniteSet(Putting(v))
           /\ Cardinality(Putting(v)) \in Nat
           /\ Cardinality(Publishers) \in Nat
           /\ Cardinality(Putting(v)) <= Cardinality(Publishers)
BY LiveViewAssumption, FS_Subset, FS_CardinalityType
   DEF LiveViewAssumption, Putting

LEMMA PuttingFiniteNext ==
    ASSUME NEW v
    PROVE  /\ IsFiniteSet(Putting(v)')
           /\ Cardinality(Putting(v)') \in Nat
           /\ Cardinality(Putting(v)') <= Cardinality(Publishers)
BY LiveViewAssumption, FS_Subset, FS_CardinalityType
   DEF LiveViewAssumption, Putting

LEMMA PublisherCount ==
    Cardinality(Publishers) \in Nat \ {0}
BY LiveViewAssumption, FS_CardinalityType, FS_EmptySet DEF LiveViewAssumption

LEMMA RoomInit == Init => Room
<1> SUFFICES ASSUME Init, NEW v \in Viewers
             PROVE  Len(queue[v]) + Cardinality(Putting(v))
                        <= QueueSize + Cardinality(Publishers) - 1
  BY DEF Room
<1>1. Putting(v) = {}
  BY DEF Init, Putting
<1>2. Cardinality(Putting(v)) = 0
  BY <1>1, FS_EmptySet
<1>3. Len(queue[v]) = 0
  BY DEF Init
<1> QED
  BY <1>2, <1>3, PublisherCount, LiveViewAssumption DEF LiveViewAssumption

\* A step that adds to no queue and finds no room keeps it.
LEMMA RoomKept ==
    ASSUME TypeOK, Room,
           \A v \in Viewers : Len(queue'[v]) \in Nat
                              /\ Len(queue'[v]) <= Len(queue[v]),
           \A p \in Publishers :
               stage'[p] = "put" => stage[p] = "put" /\ facing'[p] = facing[p]
    PROVE  Room'
<1> SUFFICES ASSUME NEW v \in Viewers
             PROVE  Len(queue'[v]) + Cardinality(Putting(v)')
                        <= QueueSize + Cardinality(Publishers) - 1
  BY DEF Room
<1>1. Putting(v)' \subseteq Putting(v)
  BY DEF Putting
<1>2. Cardinality(Putting(v)') <= Cardinality(Putting(v))
  BY <1>1, PuttingFinite, FS_Subset
<1>3. Len(queue[v]) \in Nat
  BY DEF TypeOK
<1> QED
  BY <1>2, <1>3, PuttingFinite, PuttingFiniteNext, PublisherCount,
     LiveViewAssumption DEF Room, LiveViewAssumption

LEMMA RoomStep == TypeInv /\ Room /\ [Next]_vars => Room'
<1> SUFFICES ASSUME TypeInv, Room, [Next]_vars PROVE Room'
  OBVIOUS
<1>0. TypeOK /\ \A v \in Viewers : queue[v] \in Seq(Records)
  BY DEF TypeInv, TypeOK
<1>1. ASSUME NEW p \in Publishers, NEW v \in Viewers, FindRoom(p, v)
      PROVE  Room'
  <2> SUFFICES ASSUME NEW w \in Viewers
               PROVE  Len(queue'[w]) + Cardinality(Putting(w)')
                          <= QueueSize + Cardinality(Publishers) - 1
    BY DEF Room
  <2>1. queue' = queue /\ Len(queue[w]) \in Nat
    BY <1>0, <1>1 DEF FindRoom
  <2>2. CASE w = v
    <3>1. Len(queue[w]) <= QueueSize - 1
      BY <1>1, <2>1, <2>2, LiveViewAssumption DEF FindRoom, LiveViewAssumption
    <3> QED
      BY <2>1, <3>1, PuttingFiniteNext, PublisherCount, LiveViewAssumption
         DEF LiveViewAssumption
  <2>3. CASE w # v
    <3>1. Putting(w)' = Putting(w)
      BY <1>0, <1>1, <2>3 DEF FindRoom, Goto, Putting, TypeOK
    <3> QED
      BY <2>1, <3>1 DEF Room
  <2> QED
    BY <2>2, <2>3
<1>2. ASSUME NEW p \in Publishers, Put(p) PROVE Room'
  <2> SUFFICES ASSUME NEW w \in Viewers
               PROVE  Len(queue'[w]) + Cardinality(Putting(w)')
                          <= QueueSize + Cardinality(Publishers) - 1
    BY DEF Room
  <2>1. CASE w = facing[p]
    <3>1. p \in Putting(w) /\ Putting(w)' = Putting(w) \ {p}
      BY <1>0, <1>2, <2>1 DEF Put, Goto, Putting, TypeOK
    <3>2. Cardinality(Putting(w)') = Cardinality(Putting(w)) - 1
      BY <3>1, PuttingFinite, FS_RemoveElement
    <3>3. Len(queue'[w]) = Len(queue[w]) + 1 /\ Len(queue[w]) \in Nat
      BY <1>0, <1>2, <2>1 DEF Put, TypeOK
    <3> QED
      BY <3>2, <3>3, PuttingFinite, PublisherCount, LiveViewAssumption
         DEF Room, LiveViewAssumption
  <2>2. CASE w # facing[p]
    <3>1. Putting(w)' = Putting(w)
      BY <1>0, <1>2, <2>2 DEF Put, Goto, Putting, TypeOK
    <3>2. queue'[w] = queue[w]
      BY <1>0, <1>2, <2>2 DEF Put, TypeOK
    <3> QED
      BY <3>1, <3>2 DEF Room
  <2> QED
    BY <2>1, <2>2
<1>3. ASSUME NEW v \in Viewers, Take(v) PROVE Room'
  <2>1. \A w \in Viewers : Len(queue'[w]) \in Nat
                           /\ Len(queue'[w]) <= Len(queue[w])
    BY <1>0, <1>3 DEF Take, TypeOK
  <2>2. \A p \in Publishers :
            stage'[p] = "put" => stage[p] = "put" /\ facing'[p] = facing[p]
    BY <1>3 DEF Take, publisherVars
  <2> QED
    BY <1>0, <2>1, <2>2, RoomKept
<1>4. ASSUME queue' = queue,
             \A p \in Publishers :
               stage'[p] = "put" => stage[p] = "put" /\ facing'[p] = facing[p]
      PROVE  Room'
  <2>1. \A w \in Viewers : Len(queue'[w]) \in Nat
                           /\ Len(queue'[w]) <= Len(queue[w])
    BY <1>0, <1>4
  <2> QED
    BY <1>0, <1>4, <2>1, RoomKept
<1>5. ASSUME NEW p \in Publishers,
             \/ AppendItem(p) \/ CopySubscribers(p)
             \/ \E v \in Viewers : SkipFull(p, v)
             \/ FindNoGetter(p) \/ FindGetter(p) \/ Wake(p) \/ Raise(p)
             \/ NextRecord(p)
      PROVE  Room'
  <2>1. queue' = queue
    BY <1>5 DEF AppendItem, CopySubscribers, SkipFull, FindNoGetter,
       FindGetter, Wake, Raise, NextRecord, Leave
  <2>2. \A q \in Publishers :
            stage'[q] = "put" => stage[q] = "put" /\ facing'[q] = facing[q]
    BY <1>0, <1>5 DEF AppendItem, CopySubscribers, SkipFull, FindNoGetter,
       FindGetter, Wake, Raise, NextRecord, Leave, Goto, TypeOK
  <2> QED
    BY <1>4, <2>1, <2>2
<1>6. ASSUME NEW v \in Viewers,
             \/ Subscribe(v) \/ FindEmpty(v) \/ Register(v) \/ Resume(v)
             \/ Send(v) \/ SendFails(v) \/ Disconnect(v) \/ Break(v)
      PROVE  Room'
  <2>1. queue' = queue /\ stage' = stage /\ facing' = facing
    BY <1>6 DEF Subscribe, FindEmpty, Register, Resume, Send, SendFails,
       Disconnect, Break, publisherVars
  <2> QED
    BY <1>4, <2>1
<1>7. CASE UNCHANGED vars
  BY <1>4, <1>7 DEF vars
<1> QED
  BY <1>1, <1>2, <1>3, <1>5, <1>6, <1>7 DEF Next, Publish, Watch

\* A queue outgrows its size by less than the number of threads.
THEOREM Bounded == Spec => []QueueBounded
<1>1. TypeInv /\ Room => QueueBounded
  <2> SUFFICES ASSUME TypeInv, Room, NEW v \in Viewers
               PROVE  Len(queue[v])
                          <= QueueSize + Cardinality(Publishers) - 1
    BY DEF QueueBounded
  <2>1. Len(queue[v]) \in Nat
    BY DEF TypeInv, TypeOK
  <2> QED
    BY <2>1, PuttingFinite, PublisherCount, LiveViewAssumption
       DEF Room, LiveViewAssumption
<1> QED
  BY <1>1, TypeInit, TypeStep, RoomInit, RoomStep, PTL DEF Spec

-----------------------------------------------------------------------------
\* Getters.  A frame in the queue of a viewer that is about to register, or has
\* registered, has been missed or has its publisher still to look or to wake.

OnItsWay(v) ==
    \E p \in Publishers : facing[p] = v /\ stage[p] \in {"wake", "pop"}

Looking(v) == \E p \in Publishers : facing[p] = v /\ stage[p] = "wake"

Woken ==
    \A v \in Viewers :
        /\ v \in getters => socket[v] = "wait"
        /\ socket[v] = "register" /\ queue[v] # <<>>
              => v \in missed \/ Looking(v)
        /\ v \in getters /\ queue[v] # <<>>
              => v \in missed \/ OnItsWay(v)

LEMMA WokenInit == Init => Woken
BY DEF Init, Woken

LEMMA WokenStep == TypeInv /\ Woken /\ [Next]_vars => Woken'
<1> SUFFICES ASSUME TypeInv, Woken, [Next]_vars PROVE Woken'
  OBVIOUS
<1> USE DEF TypeInv, TypeOK, Woken, OnItsWay, Looking
<1>1. ASSUME NEW p \in Publishers, AppendItem(p) PROVE Woken'
  BY <1>1 DEF AppendItem, Goto, viewerVars
<1>2. ASSUME NEW p \in Publishers, CopySubscribers(p) PROVE Woken'
  BY <1>2 DEF CopySubscribers, Goto, viewerVars
<1>3. ASSUME NEW p \in Publishers, NEW v \in Viewers, SkipFull(p, v)
      PROVE  Woken'
  BY <1>3 DEF SkipFull, viewerVars
<1>4. ASSUME NEW p \in Publishers, NEW v \in Viewers, FindRoom(p, v)
      PROVE  Woken'
  BY <1>4 DEF FindRoom, Goto, viewerVars
<1>5. ASSUME NEW p \in Publishers, Put(p) PROVE Woken'
  <2> SUFFICES ASSUME NEW v \in Viewers
               PROVE  /\ v \in getters => socket[v] = "wait"
                      /\ socket[v] = "register" /\ queue'[v] # <<>>
                            => v \in missed \/ Looking(v)'
                      /\ v \in getters /\ queue'[v] # <<>>
                            => v \in missed \/ OnItsWay(v)'
    BY <1>5 DEF Put, viewerVars
  <2>1. CASE v = facing[p]
    BY <1>5, <2>1 DEF Put, Goto
  <2>2. CASE v # facing[p]
    BY <1>5, <2>2 DEF Put, Goto
  <2> QED
    BY <2>1, <2>2
<1>6. ASSUME NEW p \in Publishers, FindNoGetter(p) PROVE Woken'
  BY <1>6 DEF FindNoGetter, Leave, Goto, viewerVars
<1>7. ASSUME NEW p \in Publishers, FindGetter(p) PROVE Woken'
  BY <1>7 DEF FindGetter, Goto, viewerVars
<1>8. ASSUME NEW p \in Publishers, Wake(p) PROVE Woken'
  <2> SUFFICES ASSUME NEW v \in Viewers
               PROVE  /\ v \in getters' => socket[v] = "wait"
                      /\ socket[v] = "register" /\ queue[v] # <<>>
                            => v \in missed \/ Looking(v)'
                      /\ v \in getters' /\ queue[v] # <<>>
                            => v \in missed \/ OnItsWay(v)'
    BY <1>8 DEF Wake, Leave, viewerVars
  <2>1. Looking(v) => Looking(v)'
    BY <1>8 DEF Wake, Leave, Goto
  <2>2. v # facing[p] /\ OnItsWay(v) => OnItsWay(v)'
    BY <1>8 DEF Wake, Leave, Goto
  <2>3. v \in getters' => v \in getters /\ v # facing[p]
    BY <1>8 DEF Wake
  <2> QED
    BY <2>1, <2>2, <2>3
<1>9. ASSUME NEW p \in Publishers, Raise(p) PROVE Woken'
  BY <1>9 DEF Raise, Goto, viewerVars
<1>10. ASSUME NEW p \in Publishers, NextRecord(p) PROVE Woken'
  BY <1>10 DEF NextRecord, Goto, viewerVars
<1>11. ASSUME NEW v \in Viewers, Subscribe(v) PROVE Woken'
  BY <1>11 DEF Subscribe, Jump, publisherVars
<1>12. ASSUME NEW v \in Viewers, FindEmpty(v) PROVE Woken'
  BY <1>12 DEF FindEmpty, Jump, publisherVars
<1>13. ASSUME NEW v \in Viewers, Register(v) PROVE Woken'
  BY <1>13 DEF Register, Jump, publisherVars
<1>14. ASSUME NEW v \in Viewers, Resume(v) PROVE Woken'
  BY <1>14 DEF Resume, Jump, publisherVars
<1>15. ASSUME NEW v \in Viewers, Take(v) PROVE Woken'
  <2> SUFFICES ASSUME NEW w \in Viewers
               PROVE  /\ w \in getters => socket'[w] = "wait"
                      /\ socket'[w] = "register" /\ queue'[w] # <<>>
                            => w \in missed' \/ Looking(w)
                      /\ w \in getters /\ queue'[w] # <<>>
                            => w \in missed' \/ OnItsWay(w)
    BY <1>15 DEF Take, publisherVars
  <2>1. CASE w = v
    BY <1>15, <2>1 DEF Take, Jump
  <2>2. CASE w # v
    BY <1>15, <2>2 DEF Take, Jump
  <2> QED
    BY <2>1, <2>2
<1>16. ASSUME NEW v \in Viewers, Send(v) PROVE Woken'
  BY <1>16 DEF Send, Jump, publisherVars
<1>17. ASSUME NEW v \in Viewers, SendFails(v) PROVE Woken'
  BY <1>17 DEF SendFails, Jump, publisherVars
<1>18. ASSUME NEW v \in Viewers, Disconnect(v) \/ Break(v) PROVE Woken'
  BY <1>18 DEF Disconnect, Break, publisherVars
<1>19. CASE UNCHANGED vars
  BY <1>19 DEF vars
<1> QED
  BY <1>1, <1>2, <1>3, <1>4, <1>5, <1>6, <1>7, <1>8, <1>9, <1>10, <1>11,
     <1>12, <1>13, <1>14, <1>15, <1>16, <1>17, <1>18, <1>19
     DEF Next, Publish, Watch

\* A viewer that sleeps on a frame has missed it in the one window there is.
THEOREM Stranding == Spec => []StrandedOnlyByLateGetter
<1>1. Woken => StrandedOnlyByLateGetter
  BY DEF Woken, StrandedOnlyByLateGetter, Stranded, OnItsWay
<1> QED
  BY <1>1, TypeInit, TypeStep, WokenInit, WokenStep, PTL DEF Spec

-----------------------------------------------------------------------------
\* Without an overlap, the getter a thread has seen is still there when the
\* thread takes it.

GetterKept ==
    \A p \in Publishers :
        /\ stage[p] # "raised"
        /\ stage[p] = "pop" => facing[p] \in getters

LEMMA GetterKeptStep ==
    TypeInv /\ GetterKept /\ ~Overlap /\ [Next]_vars => GetterKept'
<1> SUFFICES ASSUME TypeInv, GetterKept, ~Overlap, [Next]_vars
             PROVE  GetterKept'
  OBVIOUS
<1> USE DEF TypeInv, TypeOK, GetterKept
<1>1. ASSUME NEW p \in Publishers, Wake(p) PROVE GetterKept'
  <2> SUFFICES ASSUME NEW q \in Publishers
               PROVE  /\ stage'[q] # "raised"
                      /\ stage'[q] = "pop" => facing'[q] \in getters'
    OBVIOUS
  <2>1. CASE q = p
    BY <1>1, <2>1 DEF Wake, Leave, Goto
  <2>2. CASE q # p
    <3>1. stage[q] = "pop" => facing[q] # facing[p]
      BY <1>1, <2>2 DEF Wake, Overlap
    <3> QED
      BY <1>1, <2>2, <3>1 DEF Wake, Leave, Goto
  <2> QED
    BY <2>1, <2>2
<1>2. ASSUME NEW p \in Publishers, Raise(p) PROVE FALSE
  BY <1>2 DEF Raise
<1>3. ASSUME NEW p \in Publishers,
             \/ AppendItem(p) \/ CopySubscribers(p)
             \/ \E v \in Viewers : SkipFull(p, v) \/ FindRoom(p, v)
             \/ Put(p) \/ FindNoGetter(p) \/ FindGetter(p) \/ NextRecord(p)
      PROVE  GetterKept'
  BY <1>3 DEF AppendItem, CopySubscribers, SkipFull, FindRoom, Put,
     FindNoGetter, FindGetter, NextRecord, Leave, Goto
<1>4. ASSUME NEW v \in Viewers,
             \/ Subscribe(v) \/ FindEmpty(v) \/ Register(v) \/ Resume(v)
             \/ Take(v) \/ Send(v) \/ SendFails(v) \/ Disconnect(v)
             \/ Break(v)
      PROVE  GetterKept'
  BY <1>4 DEF Subscribe, FindEmpty, Register, Resume, Take, Send, SendFails,
     Disconnect, Break, publisherVars
<1>5. CASE UNCHANGED vars
  BY <1>5 DEF vars
<1> QED
  BY <1>1, <1>2, <1>3, <1>4, <1>5 DEF Next, Publish, Watch

\* Two threads at one getter are the only way for publish to raise.
THEOREM RaiseNeedsOverlap == Spec => RaisesOnlyOnOverlap
<1>1. Init => GetterKept
  BY DEF Init, GetterKept
<1>2. GetterKept => NobodyRaised
  BY DEF GetterKept, NobodyRaised
<1> QED
  BY <1>1, <1>2, TypeInit, TypeStep, GetterKeptStep, PTL
     DEF Spec, RaisesOnlyOnOverlap

-----------------------------------------------------------------------------
\* Order.  Of the records of p, the queue of v can have had this many.

Reached(p, v) ==
    done[p] + IF \/ stage[p] \in {"next", "copy"}
                 \/ v \in targets[p]
                 \/ stage[p] = "put" /\ facing[p] = v
              THEN 0 ELSE 1

Behind ==
    \A v \in Viewers, p \in Publishers :
        /\ hand[v] # NoFrame /\ hand[v].from = p
              => hand[v].no <= Reached(p, v)
        /\ \A i \in 1..Len(queue[v]) :
              queue[v][i].from = p => queue[v][i].no <= Reached(p, v)
        /\ got[v][p] <= Reached(p, v)

LEMMA ReachedGrows ==
    ASSUME TypeInv, [Next]_vars, NEW p \in Publishers, NEW v \in Viewers
    PROVE  /\ Reached(p, v) \in Nat
           /\ Reached(p, v)' \in Nat
           /\ Reached(p, v) <= Reached(p, v)'
<1> USE LiveViewAssumption DEF LiveViewAssumption, TypeInv, TypeOK, Reached
<1>0. Reached(p, v) \in Nat /\ done[p] \in Nat
  OBVIOUS
<1>1. ASSUME NEW q \in Publishers, AppendItem(q)
      PROVE  Reached(p, v)' = Reached(p, v)
  BY <1>1 DEF AppendItem, Goto
<1>2. ASSUME NEW q \in Publishers, CopySubscribers(q)
      PROVE  Reached(p, v)' \in {Reached(p, v), Reached(p, v) + 1}
  BY <1>2 DEF CopySubscribers, Goto
<1>3. ASSUME NEW q \in Publishers, NEW w \in Viewers, SkipFull(q, w)
      PROVE  Reached(p, v)' \in {Reached(p, v), Reached(p, v) + 1}
  BY <1>3 DEF SkipFull
<1>4. ASSUME NEW q \in Publishers, NEW w \in Viewers, FindRoom(q, w)
      PROVE  Reached(p, v)' = Reached(p, v)
  BY <1>4 DEF FindRoom, Goto
<1>5. ASSUME NEW q \in Publishers, Put(q)
      PROVE  Reached(p, v)' \in {Reached(p, v), Reached(p, v) + 1}
  BY <1>5 DEF Put, Goto
<1>6. ASSUME NEW q \in Publishers,
             FindNoGetter(q) \/ FindGetter(q) \/ Wake(q) \/ Raise(q)
      PROVE  Reached(p, v)' = Reached(p, v)
  BY <1>6 DEF FindNoGetter, FindGetter, Wake, Raise, Leave, Goto
<1>7. ASSUME NEW q \in Publishers, NextRecord(q)
      PROVE  Reached(p, v)' = Reached(p, v)
  BY <1>7 DEF NextRecord, Goto
<1>8. ASSUME NEW w \in Viewers,
             \/ Subscribe(w) \/ FindEmpty(w) \/ Register(w) \/ Resume(w)
             \/ Take(w) \/ Send(w) \/ SendFails(w) \/ Disconnect(w)
             \/ Break(w)
      PROVE  Reached(p, v)' = Reached(p, v)
  BY <1>8 DEF Subscribe, FindEmpty, Register, Resume, Take, Send, SendFails,
     Disconnect, Break, publisherVars
<1>9. ASSUME UNCHANGED vars PROVE Reached(p, v)' = Reached(p, v)
  BY <1>9 DEF vars
<1>10. Reached(p, v)' \in {Reached(p, v), Reached(p, v) + 1}
  <2> HIDE DEF Reached
  <2> QED
    BY <1>1, <1>2, <1>3, <1>4, <1>5, <1>6, <1>7, <1>8, <1>9
       DEF Next, Publish, Watch
<1> HIDE DEF Reached
<1> QED
  BY <1>0, <1>10

Ordered == FramesInOrder /\ Behind

LEMMA OrderedInit == Init => Ordered
<1> SUFFICES ASSUME Init PROVE Ordered
  OBVIOUS
<1>1. \A v \in Viewers : /\ Len(queue[v]) = 0
                         /\ hand[v] = NoFrame
                         /\ \A p \in Publishers : got[v][p] = 0
  BY DEF Init
<1>2. \A v \in Viewers, p \in Publishers : Reached(p, v) = 0
  BY DEF Init, Reached
<1> QED
  BY <1>1, <1>2 DEF Ordered, FramesInOrder, Behind

LEMMA OrderedStep == TypeInv /\ Ordered /\ [Next]_vars => Ordered'
<1> SUFFICES ASSUME TypeInv, Ordered, [Next]_vars PROVE Ordered'
  OBVIOUS
<1> USE DEF Ordered
<1>0. /\ BatchSize \in Nat
      /\ \A v \in Viewers :
            /\ queue[v] \in Seq(Records)
            /\ hand[v] \in Records \cup {NoFrame}
            /\ \A p \in Publishers : got[v][p] \in 0..BatchSize
  BY LiveViewAssumption DEF LiveViewAssumption, TypeInv, TypeOK
<1>a. \A f \in Records : /\ f.from \in Publishers /\ f.no \in Nat
                         /\ f # NoFrame
  BY <1>0 DEF Records, NoFrame
<1>b. \A p \in Publishers, v \in Viewers :
          /\ Reached(p, v) \in Nat /\ Reached(p, v)' \in Nat
          /\ Reached(p, v) <= Reached(p, v)'
  BY ReachedGrows
\* What was behind before a step is behind after it.
<1>c. ASSUME NEW v \in Viewers, NEW q \in Publishers
      PROVE  /\ hand[v] # NoFrame /\ hand[v].from = q
                   => hand[v].no <= Reached(q, v)'
             /\ \A i \in 1..Len(queue[v]) :
                   queue[v][i].from = q => queue[v][i].no <= Reached(q, v)'
             /\ got[v][q] <= Reached(q, v)'
  <2> DEFINE old == Reached(q, v)  new == Reached(q, v)'
  <2>1. old \in Nat /\ new \in Nat /\ old <= new
    BY <1>b
  <2>2. /\ hand[v] # NoFrame /\ hand[v].from = q => hand[v].no <= old
        /\ \A i \in 1..Len(queue[v]) :
              queue[v][i].from = q => queue[v][i].no <= old
        /\ got[v][q] <= old
    BY DEF Behind
  <2>3. /\ hand[v] # NoFrame => hand[v].no \in Nat
        /\ \A i \in 1..Len(queue[v]) : queue[v][i].no \in Nat
        /\ got[v][q] \in Nat
    BY <1>0, <1>a
  <2> HIDE DEF old, new
  <2>4. /\ hand[v] # NoFrame /\ hand[v].from = q => hand[v].no <= new
        /\ \A i \in 1..Len(queue[v]) :
              queue[v][i].from = q => queue[v][i].no <= new
        /\ got[v][q] <= new
    BY <2>1, <2>2, <2>3
  <2> QED
    BY <2>4 DEF new
<1>1. ASSUME queue' = queue, hand' = hand, got' = got PROVE Ordered'
  BY <1>1, <1>c DEF FramesInOrder, Behind
<1>2. ASSUME NEW p \in Publishers, Put(p) PROVE Ordered'
  <2>0. PICK w \in Viewers : w = facing[p]
    BY <1>2 DEF Put, TypeInv, Busy
  <2>1. /\ hand' = hand /\ got' = got
        /\ queue' = [queue EXCEPT ![w] = Append(@, Current(p))]
        /\ Current(p) \in Records
        /\ Current(p).from = p /\ Current(p).no = done[p] + 1
        /\ done[p] \in Nat
    BY <1>0, <1>2, <2>0
       DEF Put, viewerVars, TypeInv, TypeOK, Busy, Current, Records
  <2>2. Reached(p, w) = done[p] /\ Reached(p, w)' = done[p] + 1
    <3>1. /\ stage[p] = "put" /\ stage'[p] = "wake" /\ facing[p] = w
          /\ done' = done /\ targets' = targets /\ facing' = facing
      BY <1>2, <2>0 DEF Put, Goto, TypeInv, TypeOK
    <3>2. w \notin targets[p]
      BY <3>1 DEF TypeInv, Busy
    <3> QED
      BY <2>1, <3>1, <3>2 DEF Reached
  <2>3. \A v \in Viewers \ {w} : queue'[v] = queue[v]
    BY <2>1 DEF TypeInv, TypeOK
  <2>4. /\ Len(queue'[w]) = Len(queue[w]) + 1
        /\ \A i \in 1..Len(queue[w]) : queue'[w][i] = queue[w][i]
        /\ queue'[w][Len(queue[w]) + 1] = Current(p)
        /\ Len(queue[w]) \in Nat
    BY <1>0, <2>1 DEF TypeInv, TypeOK
  <2>5. ASSUME NEW i \in 1..Len(queue[w])
        PROVE  /\ queue[w][i].from \in Publishers /\ queue[w][i].no \in Nat
               /\ queue[w][i].from = p => queue[w][i].no <= done[p]
    <3>1. queue[w][i] \in Records
      BY <1>0, <2>1
    <3>2. queue[w][i].from = p => queue[w][i].no <= Reached(p, w)
      BY <2>1 DEF Behind
    <3> QED
      BY <1>a, <2>2, <3>1, <3>2
  <2>6. FramesInOrder'
    <3> SUFFICES ASSUME NEW v \in Viewers
                 PROVE
          /\ hand[v] # NoFrame => hand[v].no > got[v][hand[v].from]
          /\ \A i \in 1..Len(queue'[v]) :
                /\ queue'[v][i].no > got[v][queue'[v][i].from]
                /\ hand[v].from = queue'[v][i].from
                      => queue'[v][i].no > hand[v].no
                /\ \A j \in 1..(i - 1) :
                      queue'[v][j].from = queue'[v][i].from
                          => queue'[v][i].no > queue'[v][j].no
      BY <2>1 DEF FramesInOrder
    <3>1. CASE v # w
      BY <2>3, <3>1 DEF FramesInOrder
    <3>2. CASE v = w
      <4>1. ASSUME NEW i \in 1..Len(queue[w])
            PROVE
              /\ queue'[w][i].no > got[w][queue'[w][i].from]
              /\ hand[w].from = queue'[w][i].from
                    => queue'[w][i].no > hand[w].no
              /\ \A j \in 1..(i - 1) :
                    queue'[w][j].from = queue'[w][i].from
                        => queue'[w][i].no > queue'[w][j].no
        BY <2>1, <2>4 DEF FramesInOrder
      <4>2. got[w][p] < done[p] + 1
        BY <1>0, <2>1, <2>2 DEF Behind
      <4>3. hand[w].from = p => hand[w].no < done[p] + 1
        <5>1. CASE hand[w] = NoFrame
          BY <2>1, <5>1 DEF NoFrame
        <5>2. CASE hand[w] # NoFrame
          BY <1>0, <1>a, <2>1, <2>2, <5>2 DEF Behind
        <5> QED
          BY <5>1, <5>2
      <4>4. \A j \in 1..Len(queue[w]) :
                queue[w][j].from = p => queue[w][j].no < done[p] + 1
        BY <2>1, <2>5
      <4>5. \A i \in 1..Len(queue'[w]) :
                i \in 1..Len(queue[w]) \/ i = Len(queue[w]) + 1
        BY <2>4
      <4>6. /\ Current(p).no > got[w][Current(p).from]
            /\ hand[w].from = Current(p).from => Current(p).no > hand[w].no
            /\ \A j \in 1..Len(queue[w]) :
                  queue'[w][j].from = Current(p).from
                      => Current(p).no > queue'[w][j].no
        <5>1. hand[w].no \in Nat
          BY <1>0, <1>a, <2>1 DEF NoFrame
        <5>2. got[w][p] \in Nat
          BY <1>0, <2>1
        <5> QED
          BY <2>1, <2>4, <2>5, <4>2, <4>3, <4>4, <5>1, <5>2
      <4>7. Len(queue[w]) + 1 - 1 = Len(queue[w])
        BY <2>4
      <4> QED
        BY <2>1, <2>4, <3>2, <4>1, <4>5, <4>6, <4>7 DEF FramesInOrder
    <3> QED
      BY <3>1, <3>2
  <2>7. Behind'
    <3> SUFFICES ASSUME NEW v \in Viewers, NEW q \in Publishers
                 PROVE
          /\ hand[v] # NoFrame /\ hand[v].from = q
                => hand[v].no <= Reached(q, v)'
          /\ \A i \in 1..Len(queue'[v]) :
                queue'[v][i].from = q => queue'[v][i].no <= Reached(q, v)'
          /\ got[v][q] <= Reached(q, v)'
      BY <2>1 DEF Behind
    <3>1. CASE v # w
      BY <1>c, <2>3, <3>1
    <3>2. CASE v = w
      <4>1. \A i \in 1..Len(queue'[w]) :
                i \in 1..Len(queue[w]) \/ i = Len(queue[w]) + 1
        BY <2>4
      <4>2. Current(p).from = q => Current(p).no <= Reached(q, w)'
        BY <2>1, <2>2
      <4> QED
        BY <1>c, <2>4, <3>2, <4>1, <4>2
    <3> QED
      BY <3>1, <3>2
  <2> QED
    BY <2>6, <2>7
<1>3. ASSUME NEW v \in Viewers, Take(v) PROVE Ordered'
  <2>1. /\ queue[v] # <<>> /\ got' = got
        /\ queue' = [queue EXCEPT ![v] = Tail(@)]
        /\ hand' = [hand EXCEPT ![v] = Head(queue[v])]
    BY <1>3 DEF Take
  <2>2. \A w \in Viewers \ {v} : queue'[w] = queue[w] /\ hand'[w] = hand[w]
    BY <2>1 DEF TypeInv, TypeOK
  <2>3. /\ hand'[v] = queue[v][1] /\ 1 \in 1..Len(queue[v])
        /\ Len(queue[v]) \in Nat /\ Len(queue'[v]) = Len(queue[v]) - 1
        /\ \A i \in 1..Len(queue'[v]) : queue'[v][i] = queue[v][i + 1]
    BY <1>0, <2>1 DEF TypeInv, TypeOK
  <2>4. FramesInOrder'
    <3> SUFFICES ASSUME NEW w \in Viewers
                 PROVE
          /\ hand'[w] # NoFrame => hand'[w].no > got[w][hand'[w].from]
          /\ \A i \in 1..Len(queue'[w]) :
                /\ queue'[w][i].no > got[w][queue'[w][i].from]
                /\ hand'[w].from = queue'[w][i].from
                      => queue'[w][i].no > hand'[w].no
                /\ \A j \in 1..(i - 1) :
                      queue'[w][j].from = queue'[w][i].from
                          => queue'[w][i].no > queue'[w][j].no
      BY <2>1 DEF FramesInOrder
    <3>1. CASE w # v
      BY <2>2, <3>1 DEF FramesInOrder
    <3>2. CASE w = v
      <4>1. hand'[v].no > got[v][hand'[v].from]
        BY <2>3 DEF FramesInOrder
      <4>2. ASSUME NEW i \in 1..Len(queue'[v])
            PROVE
              /\ queue'[v][i].no > got[v][queue'[v][i].from]
              /\ hand'[v].from = queue'[v][i].from
                    => queue'[v][i].no > hand'[v].no
              /\ \A j \in 1..(i - 1) :
                    queue'[v][j].from = queue'[v][i].from
                        => queue'[v][i].no > queue'[v][j].no
        <5>1. /\ i + 1 \in 1..Len(queue[v])
              /\ 1 \in 1..((i + 1) - 1)
              /\ \A j \in 1..(i - 1) : /\ j + 1 \in 1..((i + 1) - 1)
                                       /\ j \in 1..Len(queue'[v])
          BY <2>3
        <5>2. /\ queue[v][i + 1].no > got[v][queue[v][i + 1].from]
              /\ \A j \in 1..((i + 1) - 1) :
                    queue[v][j].from = queue[v][i + 1].from
                        => queue[v][i + 1].no > queue[v][j].no
          BY <5>1 DEF FramesInOrder
        <5> QED
          BY <2>3, <5>1, <5>2
      <4> QED
        BY <3>2, <4>1, <4>2
    <3> QED
      BY <3>1, <3>2
  <2>5. Behind'
    <3> SUFFICES ASSUME NEW w \in Viewers, NEW q \in Publishers
                 PROVE
          /\ hand'[w] # NoFrame /\ hand'[w].from = q
                => hand'[w].no <= Reached(q, w)'
          /\ \A i \in 1..Len(queue'[w]) :
                queue'[w][i].from = q => queue'[w][i].no <= Reached(q, w)'
          /\ got[w][q] <= Reached(q, w)'
      BY <2>1 DEF Behind
    <3>1. CASE w # v
      BY <1>c, <2>2, <3>1
    <3>2. CASE w = v
      <4>1. \A i \in 1..Len(queue'[v]) : i + 1 \in 1..Len(queue[v])
        BY <2>3
      <4> QED
        BY <1>c, <2>3, <3>2, <4>1
    <3> QED
      BY <3>1, <3>2
  <2> QED
    BY <2>4, <2>5
<1>4. ASSUME NEW v \in Viewers, Send(v), v \notin gone PROVE Ordered'
  <2> DEFINE f == hand[v]
  <2>1. /\ f \in Records /\ queue' = queue
        /\ got' = [got EXCEPT ![v][f.from] = f.no]
        /\ hand' = [hand EXCEPT ![v] = NoFrame]
    BY <1>4 DEF Send, TypeInv, Holding
  <2>2. \A w \in Viewers \ {v} : got'[w] = got[w] /\ hand'[w] = hand[w]
    BY <2>1 DEF TypeInv, TypeOK
  <2>3. /\ hand'[v] = NoFrame
        /\ got'[v][f.from] = f.no
        /\ \A p \in Publishers \ {f.from} : got'[v][p] = got[v][p]
    BY <1>a, <2>1 DEF TypeInv, TypeOK
  <2>4. \A i \in 1..Len(queue[v]) : queue[v][i] \in Records
    BY <1>0
  <2>5. FramesInOrder'
    <3> SUFFICES ASSUME NEW w \in Viewers
                 PROVE
          /\ hand'[w] # NoFrame => hand'[w].no > got'[w][hand'[w].from]
          /\ \A i \in 1..Len(queue[w]) :
                /\ queue[w][i].no > got'[w][queue[w][i].from]
                /\ hand'[w].from = queue[w][i].from
                      => queue[w][i].no > hand'[w].no
                /\ \A j \in 1..(i - 1) :
                      queue[w][j].from = queue[w][i].from
                          => queue[w][i].no > queue[w][j].no
      BY <2>1 DEF FramesInOrder
    <3>1. CASE w # v
      BY <2>2, <3>1 DEF FramesInOrder
    <3>2. CASE w = v
      <4>1. ASSUME NEW i \in 1..Len(queue[v])
            PROVE  /\ queue[v][i].no > got'[v][queue[v][i].from]
                   /\ queue[v][i].no > 0
        <5>1. queue[v][i].no > got[v][queue[v][i].from]
              /\ (f.from = queue[v][i].from => queue[v][i].no > f.no)
          BY DEF FramesInOrder
        <5>2. queue[v][i].from \in Publishers /\ queue[v][i].no \in 1..BatchSize
          BY <2>4 DEF Records
        <5> QED
          BY <1>0, <2>3, <5>1, <5>2
      <4> QED
        BY <2>3, <3>2, <4>1 DEF FramesInOrder, NoFrame
    <3> QED
      BY <3>1, <3>2
  <2>6. Behind'
    <3> SUFFICES ASSUME NEW w \in Viewers, NEW q \in Publishers
                 PROVE
          /\ hand'[w] # NoFrame /\ hand'[w].from = q
                => hand'[w].no <= Reached(q, w)'
          /\ \A i \in 1..Len(queue[w]) :
                queue[w][i].from = q => queue[w][i].no <= Reached(q, w)'
          /\ got'[w][q] <= Reached(q, w)'
      BY <2>1 DEF Behind
    <3>1. CASE w # v
      BY <1>c, <2>2, <3>1
    <3>2. CASE w = v
      <4>1. f.from = q => f.no <= Reached(q, v)'
        BY <1>a, <1>c, <2>1
      <4> QED
        BY <1>c, <2>3, <3>2, <4>1
    <3> QED
      BY <3>1, <3>2
  <2> QED
    BY <2>5, <2>6
<1>5. ASSUME NEW v \in Viewers, SendFails(v) \/ (Send(v) /\ v \in gone)
      PROVE  Ordered'
  <2>1. /\ queue' = queue /\ got' = got
        /\ hand' = [hand EXCEPT ![v] = NoFrame]
        /\ stage' = stage /\ done' = done /\ targets' = targets
        /\ facing' = facing
    BY <1>5 DEF SendFails, Send, publisherVars
  <2>2. /\ hand'[v] = NoFrame
        /\ \A w \in Viewers \ {v} : hand'[w] = hand[w]
    BY <2>1 DEF TypeInv, TypeOK
  <2>3. \A w \in Viewers, i \in 1..Len(queue[v]) :
            w = v => queue[w][i].no > NoFrame.no
    <3>1. \A i \in 1..Len(queue[v]) : queue[v][i] \in Records
      BY <1>0
    <3> QED
      BY <1>0, <3>1 DEF Records, NoFrame
  <2>4. FramesInOrder'
    BY <2>1, <2>2, <2>3 DEF FramesInOrder
  <2>5. \A p, w : Reached(p, w)' = Reached(p, w)
    BY <2>1 DEF Reached
  <2>6. Behind'
    BY <2>1, <2>2, <2>5 DEF Behind
  <2> QED
    BY <2>4, <2>6
<1>6. ASSUME NEW p \in Publishers,
             \/ AppendItem(p) \/ CopySubscribers(p)
             \/ \E v \in Viewers : SkipFull(p, v) \/ FindRoom(p, v)
             \/ FindNoGetter(p) \/ FindGetter(p) \/ Wake(p) \/ Raise(p)
             \/ NextRecord(p)
      PROVE  Ordered'
  <2>1. queue' = queue /\ hand' = hand /\ got' = got
    BY <1>6 DEF AppendItem, CopySubscribers, SkipFull, FindRoom, FindNoGetter,
       FindGetter, Wake, Raise, NextRecord, Leave, viewerVars
  <2> QED
    BY <1>1, <2>1
<1>7. ASSUME NEW v \in Viewers,
             \/ Subscribe(v) \/ FindEmpty(v) \/ Register(v) \/ Resume(v)
             \/ Disconnect(v) \/ Break(v)
      PROVE  Ordered'
  <2>1. queue' = queue /\ hand' = hand /\ got' = got
    BY <1>7 DEF Subscribe, FindEmpty, Register, Resume, Disconnect, Break
  <2> QED
    BY <1>1, <2>1
<1>8. CASE UNCHANGED vars
  BY <1>1, <1>8 DEF vars
<1>9. ASSUME NEW v \in Viewers, Send(v) \/ SendFails(v) PROVE Ordered'
  <2>1. CASE Send(v) /\ v \notin gone
    BY <1>4, <2>1
  <2>2. CASE SendFails(v) \/ (Send(v) /\ v \in gone)
    BY <1>5, <2>2
  <2> QED
    BY <1>9, <2>1, <2>2
<1> QED
  BY <1>2, <1>3, <1>6, <1>7, <1>8, <1>9 DEF Next, Publish, Watch

\* A browser gets the records of a batch in order and none twice.
THEOREM InOrder == Spec => []FramesInOrder
<1>1. Ordered => FramesInOrder
  BY DEF Ordered
<1> QED
  BY <1>1, TypeInit, TypeStep, OrderedInit, OrderedStep, PTL DEF Spec

-----------------------------------------------------------------------------
\* The feed.  A viewer's queue is in the set of subscribers while its coroutine
\* is in its loop, and before that its browser has been shown nothing.

Following ==
    \A v \in Viewers :
        /\ v \in subscribers <=> socket[v] \notin {"closed", "left"}
        /\ socket[v] = "closed" => got[v] = [p \in Publishers |-> 0]

LEMMA FollowingInit == Init => Following
BY DEF Init, Following

LEMMA FollowingStep == TypeInv /\ Following /\ [Next]_vars => Following'
<1> SUFFICES ASSUME TypeInv, Following, [Next]_vars PROVE Following'
  OBVIOUS
<1> USE DEF TypeInv, TypeOK, Following
<1>1. ASSUME NEW p \in Publishers, Publish(p) PROVE Following'
  <2>1. UNCHANGED <<subscribers, socket, got>>
    BY <1>1 DEF Publish, AppendItem, CopySubscribers, SkipFull, FindRoom, Put,
       FindNoGetter, FindGetter, Wake, Raise, NextRecord, Leave, viewerVars
  <2> QED
    BY <2>1
<1>2. ASSUME NEW v \in Viewers, Subscribe(v) PROVE Following'
  BY <1>2 DEF Subscribe, Jump
<1>3. ASSUME NEW v \in Viewers,
             FindEmpty(v) \/ Register(v) \/ Resume(v) \/ Take(v)
      PROVE  Following'
  BY <1>3 DEF FindEmpty, Register, Resume, Take, Jump
<1>4. ASSUME NEW v \in Viewers, Send(v) PROVE Following'
  <2>1. \A w \in Viewers \ {v} : got'[w] = got[w] /\ socket'[w] = socket[w]
    BY <1>4 DEF Send, Jump
  <2>2. /\ socket[v] = "send" /\ socket'[v] = "get"
        /\ subscribers' = subscribers
    BY <1>4 DEF Send, Jump
  <2> QED
    BY <2>1, <2>2
<1>5. ASSUME NEW v \in Viewers, SendFails(v) PROVE Following'
  BY <1>5 DEF SendFails, Jump
<1>6. ASSUME NEW v \in Viewers, Disconnect(v) \/ Break(v) PROVE Following'
  BY <1>6 DEF Disconnect, Break
<1>7. CASE UNCHANGED vars
  BY <1>7 DEF vars
<1> QED
  BY <1>1, <1>2, <1>3, <1>4, <1>5, <1>6, <1>7 DEF Next, Watch

\* No queue and no browser is ahead of the ring.
LEMMA ReachedPublished ==
    ASSUME TypeInv, NEW p \in Publishers, NEW v \in Viewers
    PROVE  /\ Reached(p, v) \in Nat
           /\ Published(p) \in Nat
           /\ Reached(p, v) <= Published(p)
BY LiveViewAssumption
   DEF LiveViewAssumption, TypeInv, TypeOK, Reached, Published

\* Of the steps of a publisher one publishes; the feed does not notice the rest.
LEMMA PublishRefines ==
    ASSUME TypeInv, NEW p \in Publishers, Publish(p)
    PROVE  Feed!Release(p) \/ UNCHANGED Feed!feed
<1> DEFINE counts == [q \in Publishers |-> Published(q)]
<1>1. UNCHANGED <<subscribers, got>>
  BY DEF Publish, AppendItem, CopySubscribers, SkipFull, FindRoom, Put,
     FindNoGetter, FindGetter, Wake, Raise, NextRecord, Leave, viewerVars
<1>2. CASE AppendItem(p)
  <2>1. /\ Published(p) = done[p] /\ done[p] < BatchSize
        /\ Published(p)' = Published(p) + 1
        /\ \A q \in Publishers \ {p} : Published(q)' = Published(q)
    BY <1>2, LiveViewAssumption
       DEF LiveViewAssumption, AppendItem, Goto, TypeInv, TypeOK, Published
  <2>2. counts' = [counts EXCEPT ![p] = @ + 1] /\ counts[p] < BatchSize
    BY <2>1
  <2> QED
    BY <1>1, <2>2 DEF Feed!Release
<1>3. CASE ~AppendItem(p)
  <2>1. \A q \in Publishers : Published(q)' = Published(q)
    <3>1. CASE CopySubscribers(p)
      BY <3>1 DEF CopySubscribers, Goto, TypeInv, TypeOK, Published
    <3>2. CASE \E v \in Viewers : SkipFull(p, v)
      BY <3>2 DEF SkipFull, TypeInv, TypeOK, Published
    <3>3. CASE \E v \in Viewers : FindRoom(p, v)
      BY <3>3 DEF FindRoom, Goto, TypeInv, TypeOK, Published
    <3>4. CASE Put(p)
      BY <3>4 DEF Put, Goto, TypeInv, TypeOK, Published
    <3>5. CASE FindNoGetter(p) \/ FindGetter(p) \/ Wake(p) \/ Raise(p)
      BY <3>5 DEF FindNoGetter, FindGetter, Wake, Raise, Leave, Goto, TypeInv,
         TypeOK, Published
    <3>6. CASE NextRecord(p)
      BY <3>6, LiveViewAssumption
         DEF LiveViewAssumption, NextRecord, Goto, TypeInv, TypeOK, Published
    <3> QED
      BY <1>3, <3>1, <3>2, <3>3, <3>4, <3>5, <3>6 DEF Publish
  <2>2. counts' = counts
    BY <2>1
  <2> QED
    BY <1>1, <2>2 DEF Feed!feed
<1> QED
  BY <1>2, <1>3

\* A frame that has been read shows a record that is newer than all that this
\* browser was shown of its batch, and that is in the ring or was.
LEMMA SendRefines ==
    ASSUME TypeInv, Ordered, Following, NEW v \in Viewers, Send(v),
           v \notin gone
    PROVE  Feed!Show(v, hand[v].from, hand[v].no)
<1> DEFINE f == hand[v]
<1>1. f \in Records
  BY DEF Send, TypeInv, Holding
<1>2. f.from \in Publishers /\ f.no \in 1..BatchSize /\ f # NoFrame
  BY <1>1, LiveViewAssumption DEF LiveViewAssumption, Records, NoFrame
<1>3. got[v][f.from] < f.no
  <2>1. got[v][f.from] \in Nat /\ f.no \in Nat
    BY <1>2, LiveViewAssumption DEF LiveViewAssumption, TypeInv, TypeOK
  <2> QED
    BY <1>2, <2>1 DEF Ordered, FramesInOrder
<1>4. f.no <= Published(f.from)
  <2>1. f.no <= Reached(f.from, v)
    BY <1>2 DEF Ordered, Behind
  <2> QED
    BY <1>2, <2>1, ReachedPublished
<1>5. v \in subscribers
  BY DEF Following, Send
<1>6. /\ got' = [got EXCEPT ![v][f.from] = f.no]
      /\ UNCHANGED <<subscribers, done, stage>>
  BY DEF Send, publisherVars
<1> QED
  BY <1>2, <1>3, <1>4, <1>5, <1>6 DEF Feed!Show, Published

LEMMA StepRefines ==
    TypeInv /\ Ordered /\ Following /\ [Next]_vars => [Feed!Next]_(Feed!feed)
<1> SUFFICES ASSUME TypeInv, Ordered, Following, [Next]_vars
             PROVE  [Feed!Next]_(Feed!feed)
  OBVIOUS
<1>1. ASSUME NEW p \in Publishers, Publish(p) PROVE [Feed!Next]_(Feed!feed)
  BY <1>1, PublishRefines DEF Feed!Next
<1>2. ASSUME NEW v \in Viewers, Subscribe(v) PROVE Feed!Join(v)
  BY <1>2 DEF Subscribe, Following, Published, Feed!Join, publisherVars
<1>3. ASSUME NEW v \in Viewers, Send(v), v \notin gone PROVE Feed!Next
  <2>1. hand[v].from \in Publishers /\ hand[v].no \in 1..BatchSize
    BY <1>3 DEF Send, TypeInv, Holding, Records
  <2> QED
    BY <1>3, <2>1, SendRefines DEF Feed!Next
<1>4. ASSUME NEW v \in Viewers, SendFails(v) PROVE Feed!Quit(v)
  BY <1>4 DEF SendFails, Following, Published, Feed!Quit, publisherVars
<1>5. ASSUME NEW v \in Viewers,
             \/ FindEmpty(v) \/ Register(v) \/ Resume(v) \/ Take(v)
             \/ Send(v) /\ v \in gone
             \/ Disconnect(v) \/ Break(v)
      PROVE  UNCHANGED Feed!feed
  BY <1>5 DEF FindEmpty, Register, Resume, Take, Send, Disconnect, Break, Published,
     Feed!feed, publisherVars
<1>6. CASE UNCHANGED vars
  BY <1>6 DEF vars, Published, Feed!feed
<1> QED
  BY <1>1, <1>2, <1>3, <1>4, <1>5, <1>6 DEF Next, Watch, Feed!Next

\* A browser is shown what has been published, in order and at most once, while
\* its queue is in the set of subscribers, for any number of threads and
\* browsers, and whichever frames are lost.
THEOREM Implements == Spec => ImplementsLiveFeed
<1>1. Init => Feed!Init
  <2> SUFFICES ASSUME Init PROVE Feed!Init
    OBVIOUS
  <2>1. \A p \in Publishers : Published(p) = 0
    BY DEF Init, Published
  <2> QED
    BY <2>1 DEF Init, Feed!Init
<1> QED
  BY <1>1, TypeInit, TypeStep, OrderedInit, OrderedStep, FollowingInit,
     FollowingStep, StepRefines, PTL
     DEF Spec, ImplementsLiveFeed, Feed!Spec

=============================================================================
