----------------------------- MODULE IntakeProofs -----------------------------
(***************************************************************************)
(* Proofs about Intake, for any number of worker threads and records and   *)
(* any sizes of batches, buffer, pool and table.                           *)
(***************************************************************************)
EXTENDS Intake, FiniteSetTheorems, SequenceTheorems, TLAPS

-----------------------------------------------------------------------------
\* Tables.  Ids without a gap are those between two numbers.

LEMMA Ids ==
    ASSUME NEW a \in Nat, NEW b \in Nat, a <= b
    PROVE  Cardinality((a + 1)..b) = b - a
<1> DEFINE n == Cardinality((a + 1)..b)
<1>1. n = IF a + 1 > b THEN 0 ELSE b - (a + 1) + 1
  BY FS_Interval
<1> HIDE DEF n
<1>2. n = b - a
  BY <1>1
<1> QED
  BY <1>2 DEF n

LEMMA Bounds ==
    ASSUME NEW table, NEW a \in Nat, NEW b \in Nat, a <= b,
           DOMAIN table = (a + 1)..b
    PROVE  /\ Cardinality(DOMAIN table) = b - a
           /\ a < b => LastId(table) = b /\ Before(table) = a
           /\ a = b => LastId(table) = 0 /\ Before(table) = 0
<1>1. Cardinality(DOMAIN table) = b - a
  BY Ids
<1>2. ASSUME a < b PROVE LastId(table) = b
  <2> DEFINE ids == DOMAIN table \cup {0}
  <2>1. b \in ids /\ \A j \in ids : j <= b
    BY <1>2
  <2>2. \A i \in ids : (\A j \in ids : j <= i) => i = b
    <3>1. ids \subseteq Int
      OBVIOUS
    <3> HIDE DEF ids
    <3> QED
      BY <2>1, <3>1
  <2> QED
    BY <2>1, <2>2 DEF LastId
<1>3. ASSUME a = b PROVE LastId(table) = 0
  <2>1. DOMAIN table = {}
    BY <1>3
  <2>2. DOMAIN table \cup {0} = {0}
    BY <2>1
  <2> QED
    BY <2>2 DEF LastId
<1> QED
  BY <1>1, <1>2, <1>3 DEF Before

LEMMA ContiguousIff ==
    ASSUME NEW table
    PROVE  Contiguous(table) <=>
               \E a, b \in Nat : a <= b /\ table \in [(a + 1)..b -> Records]
<1>1. ASSUME Contiguous(table)
      PROVE  \E a, b \in Nat : a <= b /\ table \in [(a + 1)..b -> Records]
  <2> DEFINE a == Before(table)
             b == LastId(table)
  <2>1. a \in Nat /\ b \in Nat /\ table \in [(a + 1)..b -> Records]
    BY <1>1 DEF Contiguous
  <2>2. IsFiniteSet((a + 1)..b) /\ Cardinality((a + 1)..b) \in Nat
    BY <2>1, FS_Interval, FS_CardinalityType
  <2>3. DOMAIN table = (a + 1)..b
    BY <2>1
  <2>4. a = b - Cardinality((a + 1)..b)
    BY <2>3 DEF Before
  <2> HIDE DEF a, b
  <2>5. a <= b
    BY <2>1, <2>2, <2>4
  <2> QED
    BY <2>1, <2>5
<1>2. ASSUME NEW a \in Nat, NEW b \in Nat, a <= b,
             table \in [(a + 1)..b -> Records]
      PROVE  Contiguous(table)
  <2>1. DOMAIN table = (a + 1)..b
    BY <1>2
  <2>2. /\ a < b => LastId(table) = b /\ Before(table) = a
        /\ a = b => LastId(table) = 0 /\ Before(table) = 0
    BY <1>2, <2>1, Bounds
  <2>3. CASE a < b
    BY <1>2, <2>2, <2>3 DEF Contiguous
  <2>4. CASE a = b
    <3>1. (a + 1)..b = {} /\ (0 + 1)..0 = {}
      BY <2>4
    <3>2. table \in [(0 + 1)..0 -> Records]
      BY <1>2, <3>1
    <3> QED
      BY <2>2, <2>4, <3>2 DEF Contiguous
  <2> QED
    BY <1>2, <2>3, <2>4
<1> QED
  BY <1>1, <1>2

\* The rows of a table in the order of their ids.
KeptOf(table) ==
    [i \in 1..Cardinality(DOMAIN table) |-> table[Before(table) + i]]

LEMMA KeptIs ==
    ASSUME NEW a \in Nat, NEW b \in Nat, a <= b,
           NEW table \in [(a + 1)..b -> Records]
    PROVE  /\ KeptOf(table) \in Seq(Records)
           /\ Len(KeptOf(table)) = b - a
           /\ \A i \in 1..(b - a) : KeptOf(table)[i] = table[a + i]
<1>1. DOMAIN table = (a + 1)..b
  OBVIOUS
<1>2. /\ Cardinality(DOMAIN table) = b - a
      /\ a < b => Before(table) = a
  BY <1>1, Bounds
<1>3. KeptOf(table) = [i \in 1..(b - a) |-> table[a + i]]
  BY <1>2 DEF KeptOf
<1> QED
  BY <1>3

\* New rows go after the others.
LEMMA InsertedIs ==
    ASSUME NEW a \in Nat, NEW b \in Nat, a <= b,
           NEW table \in [(a + 1)..b -> Records], NEW s \in Seq(Records)
    PROVE  \E c, d \in Nat :
               /\ c <= d
               /\ d - c = (b - a) + Len(s)
               /\ Inserted(table, s) \in [(c + 1)..d -> Records]
               /\ \A i \in 1..(d - c) : Inserted(table, s)[c + i] =
                      IF i <= b - a THEN table[a + i] ELSE s[i - (b - a)]
<1>1. DOMAIN table = (a + 1)..b
  OBVIOUS
<1>2. /\ a < b => LastId(table) = b
      /\ a = b => LastId(table) = 0
  BY <1>1, Bounds
<1>3. Len(s) \in Nat /\ \A i \in 1..Len(s) : s[i] \in Records
  OBVIOUS
<1>4. CASE a < b
  <2>1. DOMAIN table \cup (b + 1)..(b + Len(s)) = (a + 1)..(b + Len(s))
    BY <1>1, <1>3, <1>4
  <2>2. Inserted(table, s) =
            [i \in (a + 1)..(b + Len(s)) |->
                IF i \in (a + 1)..b THEN table[i] ELSE s[i - b]]
    BY <1>1, <1>2, <1>4, <2>1 DEF Inserted
  <2> DEFINE d == b + Len(s)
  <2>3. d \in Nat /\ a <= d /\ d - a = (b - a) + Len(s)
    BY <1>3
  <2>4. Inserted(table, s) \in [(a + 1)..d -> Records]
    BY <1>3, <2>2
  <2>5. \A i \in 1..(d - a) : Inserted(table, s)[a + i] =
            IF i <= b - a THEN table[a + i] ELSE s[i - (b - a)]
    <3> TAKE i \in 1..(d - a)
    <3>1. a + i \in (a + 1)..d /\ (a + i \in (a + 1)..b <=> i <= b - a)
          /\ (a + i) - b = i - (b - a)
      BY <1>3
    <3> QED
      BY <2>2, <3>1
  <2> QED
    BY <2>3, <2>4, <2>5
<1>5. CASE a = b
  <2>1. LastId(table) = 0 /\ DOMAIN table = {}
    BY <1>1, <1>2, <1>5
  <2>2. Inserted(table, s) = [i \in 1..Len(s) |-> s[i]]
    <3>1. {} \cup (0 + 1)..(0 + Len(s)) = 1..Len(s)
      BY <1>3
    <3>2. Inserted(table, s) =
              [i \in {} \cup (0 + 1)..(0 + Len(s)) |->
                  IF i \in {} THEN table[i] ELSE s[i - 0]]
      BY <2>1 DEF Inserted
    <3>3. \A i \in 1..Len(s) : i - 0 = i
      OBVIOUS
    <3> QED
      BY <3>1, <3>2, <3>3
  <2>3. 0 \in Nat /\ Len(s) \in Nat /\ 0 <= Len(s)
        /\ Len(s) - 0 = (b - a) + Len(s)
    BY <1>3, <1>5
  <2>4. Inserted(table, s) \in [(0 + 1)..Len(s) -> Records]
    BY <1>3, <2>2
  <2>5. \A i \in 1..(Len(s) - 0) : Inserted(table, s)[0 + i] =
            IF i <= b - a THEN table[a + i] ELSE s[i - (b - a)]
    BY <1>3, <1>5, <2>2
  <2> QED
    BY <2>3, <2>4, <2>5
<1>6. a < b \/ a = b
  OBVIOUS
<1> QED
  BY <1>4, <1>5, <1>6, Zenon

\* The row with n ids up to its own.
LEMMA OffsetIs ==
    ASSUME NEW a \in Nat, NEW b \in Nat, a <= b,
           NEW table \in [(a + 1)..b -> Records], NEW n \in 1..(b - a)
    PROVE  IdAtOffset(table, n) = a + n
<1>1. DOMAIN table = (a + 1)..b
  OBVIOUS
<1>2. \A i \in (a + 1)..b :
          Cardinality({j \in DOMAIN table : j <= i}) = i - a
  <2> TAKE i \in (a + 1)..b
  <2>1. {j \in DOMAIN table : j <= i} = (a + 1)..i
    BY <1>1
  <2>2. Cardinality((a + 1)..i) = i - a
    BY Ids
  <2> QED
    BY <2>1, <2>2
<1>3. a + n \in (a + 1)..b /\ (a + n) - a = n
  OBVIOUS
<1>4. \A i \in (a + 1)..b : i - a = n => i = a + n
  OBVIOUS
<1> QED
  BY <1>1, <1>2, <1>3, <1>4 DEF IdAtOffset

\* What is left are the rows after the cutoff.
LEMMA TrimmedIs ==
    ASSUME NEW a \in Nat, NEW b \in Nat, a <= b,
           NEW table \in [(a + 1)..b -> Records]
    PROVE  \E c \in Nat :
               /\ c <= b /\ a <= c
               /\ c - a = IF b - a > MaxEvents THEN (b - a) - MaxEvents ELSE 0
               /\ Trimmed(table) \in [(c + 1)..b -> Records]
               /\ \A i \in (c + 1)..b : Trimmed(table)[i] = table[i]
<1>0. MaxEvents \in Nat
  BY IntakeAssumption DEF IntakeAssumption
<1>1. DOMAIN table = (a + 1)..b
  OBVIOUS
<1>2. Cardinality(DOMAIN table) = b - a
  BY <1>1, Bounds
<1> DEFINE excess == (b - a) - MaxEvents
<1>3. CASE excess <= 0
  <2>1. Trimmed(table) = table
    BY <1>2, <1>3 DEF Trimmed
  <2>2. /\ a <= b /\ a <= a
        /\ a - a = IF b - a > MaxEvents THEN (b - a) - MaxEvents ELSE 0
    BY <1>0, <1>3
  <2> QED
    BY <2>1, <2>2
<1>4. CASE excess > 0
  <2>1. excess \in 1..(b - a)
    BY <1>0, <1>4
  <2>2. IdAtOffset(table, excess) = a + excess
    BY <2>1, OffsetIs
  <2> DEFINE c == a + excess
  <2>3. c \in Nat /\ c <= b /\ a <= c
        /\ c - a = IF b - a > MaxEvents THEN (b - a) - MaxEvents ELSE 0
    BY <1>0, <1>4, <2>1
  <2>4. {j \in DOMAIN table : j > c} = (c + 1)..b
    BY <1>1, <2>1
  <2>5. Trimmed(table) = [i \in (c + 1)..b |-> table[i]]
    <3>1. Trimmed(table) =
              [i \in {j \in DOMAIN table : j > IdAtOffset(table, excess)} |->
                  table[i]]
      BY <1>0, <1>2, <1>4 DEF Trimmed
    <3> QED
      BY <2>2, <2>4, <3>1
  <2>6. (c + 1)..b \subseteq (a + 1)..b
    BY <2>1
  <2>7. Trimmed(table) \in [(c + 1)..b -> Records]
        /\ \A i \in (c + 1)..b : Trimmed(table)[i] = table[i]
    BY <2>5, <2>6
  <2> HIDE DEF c
  <2> QED
    BY <2>3, <2>7
<1> QED
  BY <1>0, <1>3, <1>4

\* Storing a batch leaves the newest of the rows there were and the batch.
LEMMA Storing ==
    ASSUME NEW table, Contiguous(table), NEW s \in Seq(Records)
    PROVE  LET after == Trimmed(Inserted(table, s))
           IN  /\ Contiguous(after)
               /\ KeptOf(after) = Log!Newest(MaxEvents, KeptOf(table) \o s)
<1>0. MaxEvents \in Nat
  BY IntakeAssumption DEF IntakeAssumption
<1>1. PICK a, b \in Nat : a <= b /\ table \in [(a + 1)..b -> Records]
  BY ContiguousIff
<1> DEFINE with == Inserted(table, s)
           after == Trimmed(with)
           q == KeptOf(table) \o s
<1>2. PICK c, d \in Nat :
          /\ c <= d
          /\ d - c = (b - a) + Len(s)
          /\ with \in [(c + 1)..d -> Records]
          /\ \A i \in 1..(d - c) : with[c + i] =
                 IF i <= b - a THEN table[a + i] ELSE s[i - (b - a)]
  BY <1>1, InsertedIs, Zenon
<1>3. PICK e \in Nat :
          /\ e <= d /\ c <= e
          /\ e - c = IF d - c > MaxEvents THEN (d - c) - MaxEvents ELSE 0
          /\ after \in [(e + 1)..d -> Records]
          /\ \A i \in (e + 1)..d : after[i] = with[i]
  <2>1. c <= d /\ with \in [(c + 1)..d -> Records]
    BY <1>2
  <2> HIDE DEF with
  <2> QED
    BY <2>1, TrimmedIs
<1>4. Contiguous(after)
  BY <1>3, ContiguousIff
<1>5. /\ KeptOf(table) \in Seq(Records)
      /\ Len(KeptOf(table)) = b - a
      /\ \A i \in 1..(b - a) : KeptOf(table)[i] = table[a + i]
  BY <1>1, KeptIs
<1>6. /\ KeptOf(after) \in Seq(Records)
      /\ Len(KeptOf(after)) = d - e
      /\ \A i \in 1..(d - e) : KeptOf(after)[i] = after[e + i]
  BY <1>3, KeptIs
<1>7. /\ q \in Seq(Records)
      /\ Len(q) = d - c
      /\ \A i \in 1..(d - c) : q[i] =
             IF i <= b - a THEN KeptOf(table)[i] ELSE s[i - (b - a)]
  <2> DEFINE o == KeptOf(table)
  <2>1. o \in Seq(Records) /\ Len(o) = b - a
    BY <1>5
  <2> HIDE DEF o
  <2>2. /\ o \o s \in Seq(Records)
        /\ Len(o \o s) = Len(o) + Len(s)
        /\ \A i \in 1..(Len(o) + Len(s)) : (o \o s)[i] =
               IF i <= Len(o) THEN o[i] ELSE s[i - Len(o)]
    BY <2>1, ConcatProperties
  <2>3. Len(o) + Len(s) = d - c
    BY <1>2, <2>1
  <2>4. q = o \o s
    BY DEF o
  <2> HIDE DEF q
  <2> QED
    BY <2>1, <2>2, <2>3, <2>4 DEF o
<1>8. \A i \in 1..(d - c) : q[i] = with[c + i]
  <2> TAKE i \in 1..(d - c)
  <2>1. CASE i <= b - a
    <3>1. i \in 1..(b - a)
      BY <1>1, <2>1
    <3> QED
      BY <1>2, <1>5, <1>7, <2>1, <3>1
  <2>2. CASE ~(i <= b - a)
    BY <1>2, <1>7, <2>2
  <2> QED
    BY <2>1, <2>2
<1> HIDE DEF q, with, after
<1> DEFINE k == (e - c) + 1
<1>9. k \in Nat \ {0} /\ k <= Len(q) + 1 /\ Len(q) - k + 1 = d - e
  BY <1>2, <1>3, <1>7
<1>10. Log!Newest(MaxEvents, q) = SubSeq(q, k, Len(q))
  <2>1. k = IF Len(q) > MaxEvents THEN Len(q) - MaxEvents + 1 ELSE 1
    BY <1>0, <1>3, <1>7
  <2> HIDE DEF k
  <2> QED
    BY <2>1 DEF Log!Newest
<1>11. /\ SubSeq(q, k, Len(q)) \in Seq(Records)
       /\ Len(SubSeq(q, k, Len(q))) = d - e
       /\ \A i \in 1..(d - e) : SubSeq(q, k, Len(q))[i] = q[k + i - 1]
  <2>1. \A i \in k..Len(q) : q[i] \in Records
    BY <1>7, <1>9
  <2>2. k \in Int /\ Len(q) \in Int
    BY <1>7, <1>9
  <2> HIDE DEF k
  <2>3. /\ SubSeq(q, k, Len(q)) \in Seq(Records)
        /\ Len(SubSeq(q, k, Len(q))) =
               IF k <= Len(q) THEN Len(q) - k + 1 ELSE 0
        /\ \A i \in 1..(Len(q) - k + 1) :
               SubSeq(q, k, Len(q))[i] = q[k + i - 1]
    BY <2>1, <2>2, SubSeqProperties
  <2> QED
    BY <1>3, <1>9, <2>2, <2>3
<1>12. \A i \in 1..(d - e) : KeptOf(after)[i] = SubSeq(q, k, Len(q))[i]
  <2> TAKE i \in 1..(d - e)
  <2>0. c <= e /\ e <= d
    BY <1>3
  <2>1. k + i - 1 \in 1..(d - c) /\ c + (k + i - 1) = e + i
        /\ e + i \in (e + 1)..d
    BY <2>0
  <2>2. q[k + i - 1] = with[c + (k + i - 1)]
    BY <1>8, <2>1
  <2> QED
    BY <1>3, <1>6, <1>11, <2>1, <2>2
<1>13. KeptOf(after) = SubSeq(q, k, Len(q))
  BY <1>6, <1>11, <1>12, SeqEqual
<1> QED
  BY <1>4, <1>10, <1>13 DEF q, with, after

-----------------------------------------------------------------------------
\* Sequences of records.

LEMMA AppendIs ==
    ASSUME NEW s \in Seq(Records), NEW r \in Records
    PROVE  /\ Append(s, r) \in Seq(Records)
           /\ Len(Append(s, r)) = Len(s) + 1
           /\ Elements(Append(s, r)) = Elements(s) \cup {r}
           /\ \A i \in 1..Len(s) : Append(s, r)[i] = s[i]
           /\ Append(s, r)[Len(s) + 1] = r
<1>1. /\ Append(s, r) \in Seq(Records)
      /\ Len(Append(s, r)) = Len(s) + 1
      /\ \A i \in 1..Len(s) : Append(s, r)[i] = s[i]
      /\ Append(s, r)[Len(s) + 1] = r
  OBVIOUS
<1>2. 1..(Len(s) + 1) = 1..Len(s) \cup {Len(s) + 1}
  OBVIOUS
<1> QED
  BY <1>1, <1>2 DEF Elements

LEMMA SplitIs ==
    ASSUME NEW s \in Seq(Records), NEW n \in 1..Len(s)
    PROVE  LET x == SubSeq(s, 1, n)
               y == SubSeq(s, n + 1, Len(s))
           IN  /\ x \in Seq(Records) /\ Len(x) = n
               /\ y \in Seq(Records) /\ Len(y) = Len(s) - n
               /\ \A i \in 1..n : x[i] = s[i]
               /\ \A i \in 1..(Len(s) - n) : y[i] = s[n + i]
               /\ Elements(s) = Elements(x) \cup Elements(y)
<1> DEFINE x == SubSeq(s, 1, n)
           y == SubSeq(s, n + 1, Len(s))
<1>1. /\ x \in Seq(Records) /\ Len(x) = n
      /\ \A i \in 1..n : x[i] = s[i]
  <2>1. \A i \in 1..n : s[i] \in Records
    OBVIOUS
  <2>2. /\ x \in Seq(Records)
        /\ Len(x) = IF 1 <= n THEN n - 1 + 1 ELSE 0
        /\ \A i \in 1..(n - 1 + 1) : x[i] = s[1 + i - 1]
    BY <2>1, SubSeqProperties
  <2> HIDE DEF x
  <2> QED
    BY <2>2
<1>2. /\ y \in Seq(Records) /\ Len(y) = Len(s) - n
      /\ \A i \in 1..(Len(s) - n) : y[i] = s[n + i]
  <2>1. \A i \in (n + 1)..Len(s) : s[i] \in Records
    OBVIOUS
  <2>2. /\ y \in Seq(Records)
        /\ Len(y) = IF n + 1 <= Len(s) THEN Len(s) - (n + 1) + 1 ELSE 0
        /\ \A i \in 1..(Len(s) - (n + 1) + 1) : y[i] = s[(n + 1) + i - 1]
    BY <2>1, SubSeqProperties
  <2>3. (IF n + 1 <= Len(s) THEN Len(s) - (n + 1) + 1 ELSE 0) = Len(s) - n
    OBVIOUS
  <2> HIDE DEF y
  <2>4. ASSUME NEW i \in 1..(Len(s) - n) PROVE y[i] = s[n + i]
    <3>1. i \in 1..(Len(s) - (n + 1) + 1)
      OBVIOUS
    <3>2. (n + 1) + i - 1 = n + i
      OBVIOUS
    <3>3. y[i] = s[(n + 1) + i - 1]
      BY <2>2, <3>1
    <3> QED
      BY <3>2, <3>3
  <2>5. Len(y) = Len(s) - n
    BY <2>2, <2>3
  <2> QED
    BY <2>2, <2>4, <2>5
<1> HIDE DEF x, y
<1>3. Elements(s) = Elements(x) \cup Elements(y)
  <2>1. ASSUME NEW i \in 1..Len(s)
        PROVE  s[i] \in Elements(x) \cup Elements(y)
    <3>1. CASE i <= n
      BY <1>1, <3>1 DEF Elements
    <3>2. CASE i > n
      <4>1. i - n \in 1..(Len(s) - n) /\ n + (i - n) = i
        BY <3>2
      <4> QED
        BY <1>2, <4>1 DEF Elements
    <3> QED
      BY <3>1, <3>2
  <2>2. ASSUME NEW i \in 1..n PROVE x[i] \in Elements(s)
    BY <1>1, <2>2 DEF Elements
  <2>3. ASSUME NEW i \in 1..(Len(s) - n) PROVE y[i] \in Elements(s)
    <3>1. n + i \in 1..Len(s)
      OBVIOUS
    <3> QED
      BY <1>2, <3>1 DEF Elements
  <2> QED
    BY <1>1, <1>2, <2>1, <2>2, <2>3 DEF Elements
<1> QED
  BY <1>1, <1>2, <1>3 DEF x, y

-----------------------------------------------------------------------------
\* Types.  A thread has records as long as it is on its way with them, and a
\* batch that awaits its answer has the same; no two batches await one thread.

SinkTypes ==
    /\ sampled \in 0..MaxRecords
    /\ buffer \in Seq(Records) /\ Len(buffer) <= BufferSize
    /\ inFlight \subseteq Batch
    /\ IsFiniteSet(inFlight) /\ Cardinality(inFlight) <= Concurrency
    /\ \A m \in wire : /\ m.records \in Seq(Records)
                       /\ Len(m.records) \in 1..BatchSize
                       /\ m.post \in 1..MaxPosts
    /\ lost \subseteq Records

Stages == {"idle", "connect", "flush", "commit", "stored", "failed"}

ServerTypes ==
    /\ thread \in [Threads -> Stages]
    /\ work \in [Threads -> Seq(Records)]
    /\ \A t \in Threads : /\ Len(work[t]) <= BatchSize
                          /\ t \in pool <=> thread[t] \in {"flush", "commit"}
                          /\ writer = t <=> thread[t] = "commit"
    /\ pool \subseteq Threads
    /\ sockets \in Nat /\ Cardinality(pool) + sockets <= PoolSize
    /\ writer \in Threads \cup {Nobody}

LoopType == blocked \in BOOLEAN

TableTypes ==
    /\ Contiguous(rows)
    /\ shown \subseteq Records
    /\ stored \in [Records -> Nat]
    /\ unheard \subseteq Records
    /\ crashes \in 0..MaxCrashes

Working ==
    \A t \in Threads :
        thread[t] \in {"connect", "flush", "commit"} <=> work[t] # <<>>

AwaitsOne ==
    /\ \A b \in inFlight, t \in Threads :
          b.at = t => /\ thread[t] # "idle"
                      /\ work[t] # <<>> => work[t] = b.records
    /\ \A b, c \in inFlight : b.at = c.at /\ b.at # "wire" => b = c

TypeInv ==
    SinkTypes /\ ServerTypes /\ LoopType /\ TableTypes /\ Working /\ AwaitsOne

LEMMA TypeParts == TypeInv => TypeOK
BY DEF TypeInv, SinkTypes, ServerTypes, Stages, LoopType, TableTypes, TypeOK

LEMMA Constants ==
    /\ MaxRecords \in Nat /\ MaxEvents \in Nat /\ PoolSize \in Nat
    /\ MaxCrashes \in Nat
    /\ BatchSize \in Nat \ {0} /\ BufferSize \in Nat \ {0}
    /\ MaxPosts \in Nat \ {0} /\ Concurrency \in Nat \ {0}
    /\ Nobody \notin Threads /\ "wire" \notin Threads
    /\ IsFiniteSet(Threads)
BY IntakeAssumption DEF IntakeAssumption

LEMMA ElementsType ==
    ASSUME NEW s \in Seq(Records) PROVE Elements(s) \subseteq Records
BY DEF Elements

LEMMA NonEmpty ==
    ASSUME NEW s \in Seq(Records) PROVE s # <<>> <=> Len(s) >= 1
BY EmptySeq

LEMMA EmptyElements == Elements(<<>>) = {}
BY DEF Elements

LEMMA BatchIs ==
    ASSUME NEW b \in Batch
    PROVE  /\ b.records \in Seq(Records) /\ Len(b.records) \in 1..BatchSize
           /\ b.posts \in 1..MaxPosts /\ b.at \in Threads \cup {"wire"}
           /\ b = [records |-> b.records, posts |-> b.posts, at |-> b.at]
           /\ Elements(b.records) \subseteq Records
BY ElementsType DEF Batch

LEMMA BatchMade ==
    ASSUME NEW s \in Seq(Records), Len(s) \in 1..BatchSize,
           NEW n \in 1..MaxPosts, NEW a \in Threads \cup {"wire"}
    PROVE  [records |-> s, posts |-> n, at |-> a] \in Batch
BY DEF Batch

LEMMA OneMore ==
    ASSUME NEW S, IsFiniteSet(S), NEW x
    PROVE  /\ IsFiniteSet(S \cup {x})
           /\ Cardinality(S \cup {x}) <= Cardinality(S) + 1
           /\ Cardinality(S \cup {x}) \in Nat /\ Cardinality(S) \in Nat
<1>1. /\ IsFiniteSet(S \cup {x})
      /\ Cardinality(S \cup {x}) =
             IF x \in S THEN Cardinality(S) ELSE Cardinality(S) + 1
  BY FS_AddElement
<1>2. Cardinality(S \cup {x}) \in Nat /\ Cardinality(S) \in Nat
  BY <1>1, FS_CardinalityType
<1> QED
  BY <1>1, <1>2

\* What a function makes of a finite set is no larger.
LEMMA Images ==
    ASSUME NEW S, IsFiniteSet(S), NEW T, NEW f \in [S -> T],
           \A y \in T : \E x \in S : f[x] = y
    PROVE  IsFiniteSet(T) /\ Cardinality(T) <= Cardinality(S)
<1>1. f \in Surjection(S, T)
  BY DEF Surjection
<1> QED
  BY <1>1, FS_Surjection

LEMMA TypeInit == Init => TypeInv
<1> SUFFICES ASSUME Init PROVE TypeInv
  OBVIOUS
<1>1. Contiguous(rows)
  <2>1. rows \in [(0 + 1)..0 -> Records]
    BY DEF Init
  <2>2. \E a, b \in Nat : a <= b /\ rows \in [(a + 1)..b -> Records]
    <3>1. 0 \in Nat /\ 0 <= 0
      OBVIOUS
    <3> WITNESS 0 \in Nat, 0 \in Nat
    <3> QED
      BY <2>1, <3>1
  <2> QED
    BY <2>2, ContiguousIff
<1>2. Cardinality({}) = 0 /\ IsFiniteSet({})
  BY FS_EmptySet
<1>3. <<>> \in Seq(Records) /\ Len(<<>>) = 0
  BY EmptySeq
<1>4. SinkTypes
  BY <1>2, <1>3, Constants DEF Init, SinkTypes
<1>5. ServerTypes
  BY <1>2, <1>3, Constants DEF Init, ServerTypes, Stages
<1>6. TableTypes
  BY <1>1, Constants DEF Init, TableTypes
<1>7. Working /\ AwaitsOne
  BY Constants DEF Init, Working, AwaitsOne
<1>8. LoopType
  BY DEF Init, LoopType
<1> QED
  BY <1>4, <1>5, <1>6, <1>7, <1>8 DEF TypeInv

-----------------------------------------------------------------------------
\* The batches in flight.

\* What a post that has failed does to them.
LEMMA RetryIs ==
    ASSUME NEW b \in inFlight, NEW others, RetryOrGiveUp(b, others)
    PROVE  /\ \A c \in inFlight' : c \in inFlight \ {b} \/ c = Again(b)
           /\ \A c \in inFlight : c # b => c \in inFlight'
           /\ Elements(b.records) \subseteq RecordsOf(inFlight') \cup lost'
           /\ lost \subseteq lost' /\ lost' \subseteq lost \cup Elements(b.records)
           /\ \A m \in wire' :
                 \/ m \in others
                 \/ m = PostOf(Again(b)) /\ Again(b) \in inFlight'
<1>1. Again(b).records = b.records
  BY DEF Again, Posted
<1>2. CASE /\ inFlight' = (inFlight \ {b}) \cup {Again(b)}
           /\ wire' = others \cup {PostOf(Again(b))}
           /\ UNCHANGED lost
  BY <1>1, <1>2 DEF RecordsOf
<1>3. CASE GiveUp(b) /\ wire' = others
  BY <1>3 DEF GiveUp, RecordsOf
<1> QED
  BY <1>2, <1>3 DEF RetryOrGiveUp

LEMMA AgainIs ==
    ASSUME NEW b
    PROVE  /\ Again(b) = [records |-> b.records, posts |-> b.posts + 1,
                          at |-> "wire"]
           /\ PostOf(Again(b)) = [records |-> b.records, post |-> b.posts + 1]
BY DEF Again, Posted, PostOf

LEMMA RetryTypes ==
    ASSUME SinkTypes, NEW b \in inFlight, NEW others \in SUBSET wire,
           RetryOrGiveUp(b, others), UNCHANGED <<sampled, buffer>>
    PROVE  SinkTypes'
<1> USE DEF SinkTypes
<1>1. /\ b.records \in Seq(Records) /\ Len(b.records) \in 1..BatchSize
      /\ b.posts \in 1..MaxPosts
      /\ Elements(b.records) \subseteq Records
  BY BatchIs
<1>2. IsFiniteSet(inFlight \ {b})
      /\ Cardinality(inFlight \ {b}) = Cardinality(inFlight) - 1
      /\ Cardinality(inFlight) \in Nat
      /\ Cardinality(inFlight \ {b}) \in Nat
  BY FS_RemoveElement, FS_CardinalityType
<1>3. CASE /\ b.posts < MaxPosts
           /\ inFlight' = (inFlight \ {b}) \cup {Again(b)}
           /\ wire' = others \cup {PostOf(Again(b))}
           /\ UNCHANGED lost
  <2>1. b.posts + 1 \in 1..MaxPosts
    BY <1>1, <1>3, Constants
  <2>2. Again(b) \in Batch
    BY <1>1, <2>1, AgainIs, BatchMade
  <2> DEFINE S == inFlight \ {b}
  <2>3. IsFiniteSet(S) /\ Cardinality(S) \in Nat
        /\ Cardinality(S) = Cardinality(inFlight) - 1
    BY <1>2
  <2>4. inFlight' = S \cup {Again(b)}
    BY <1>3
  <2> HIDE DEF S
  <2>5. IsFiniteSet(inFlight') /\ Cardinality(inFlight') <= Cardinality(S) + 1
        /\ Cardinality(inFlight') \in Nat
    BY <2>3, <2>4, OneMore
  <2>7. Cardinality(inFlight') <= Concurrency
    BY <1>2, <2>3, <2>5, Constants
  <2>8. inFlight' \subseteq Batch
    BY <1>3, <2>2
  <2>9. \A m \in wire' : /\ m.records \in Seq(Records)
                         /\ Len(m.records) \in 1..BatchSize
                         /\ m.post \in 1..MaxPosts
    <3>1. \A m \in wire' :
              m \in wire \/ m = [records |-> b.records, post |-> b.posts + 1]
      BY <1>3, AgainIs
    <3> QED
      BY <1>1, <2>1, <3>1
  <2> QED
    BY <1>3, <2>5, <2>7, <2>8, <2>9
<1>4. CASE GiveUp(b) /\ wire' = others
  BY <1>1, <1>2, <1>4, Constants DEF GiveUp
<1> QED
  BY <1>3, <1>4 DEF RetryOrGiveUp

\* Some batches are through.
LEMMA FewerTypes ==
    ASSUME SinkTypes, inFlight' \subseteq inFlight, wire' \subseteq wire,
           lost' \subseteq Records, UNCHANGED <<sampled, buffer>>
    PROVE  SinkTypes'
<1>1. IsFiniteSet(inFlight') /\ Cardinality(inFlight') <= Cardinality(inFlight)
  BY FS_Subset DEF SinkTypes
<1>2. Cardinality(inFlight) \in Nat /\ Cardinality(inFlight') \in Nat
  BY <1>1, FS_CardinalityType DEF SinkTypes
<1> QED
  BY <1>1, <1>2, Constants DEF SinkTypes

\* A step changes batches one by one.
LEMMA SameCount ==
    ASSUME SinkTypes, NEW S \in SUBSET inFlight, NEW f \in [S -> inFlight'],
           \A c \in inFlight' : \E b \in S : f[b] = c
    PROVE  IsFiniteSet(inFlight') /\ Cardinality(inFlight') <= Concurrency
<1>1. IsFiniteSet(S) /\ Cardinality(S) <= Cardinality(inFlight)
  BY FS_Subset DEF SinkTypes
<1>2. IsFiniteSet(inFlight') /\ Cardinality(inFlight') <= Cardinality(S)
  BY <1>1, Images
<1>3. Cardinality(S) \in Nat /\ Cardinality(inFlight) \in Nat
      /\ Cardinality(inFlight') \in Nat
  BY <1>1, <1>2, FS_CardinalityType DEF SinkTypes
<1> QED
  BY <1>1, <1>2, <1>3, Constants DEF SinkTypes

\* The batch that awaits the answer to a post changes its place.
LEMMA TakenIs ==
    ASSUME SinkTypes, NEW m, NEW t \in Threads, Taken(m, t)
    PROVE  /\ inFlight' \subseteq Batch
           /\ IsFiniteSet(inFlight') /\ Cardinality(inFlight') <= Concurrency
           /\ \A c \in inFlight' :
                 \/ c \in inFlight \ Awaiting(m)
                 \/ \E b \in Awaiting(m) :
                        c = [records |-> b.records, posts |-> b.posts, at |-> t]
           /\ \A b \in Awaiting(m) :
                 [records |-> b.records, posts |-> b.posts, at |-> t]
                     \in inFlight'
           /\ \A b \in inFlight \ Awaiting(m) : b \in inFlight'
           /\ RecordsOf(inFlight') = RecordsOf(inFlight)
<1> DEFINE moved(b) == [records |-> b.records, posts |-> b.posts, at |-> t]
           f == [b \in inFlight |-> IF b \in Awaiting(m) THEN moved(b) ELSE b]
<1>1. Awaiting(m) \subseteq inFlight
  BY DEF Awaiting
<1>2. \A b \in inFlight : [b EXCEPT !.at = t] = moved(b)
  BY BatchIs DEF SinkTypes, Batch
<1>3. inFlight' = {f[b] : b \in inFlight}
  BY <1>2 DEF Taken
<1>4. \A b \in inFlight : moved(b) \in Batch /\ moved(b).records = b.records
  BY BatchIs, BatchMade DEF SinkTypes
<1>5. \A b \in inFlight : f[b] \in Batch /\ f[b].records = b.records
  BY <1>4 DEF SinkTypes
<1>6. inFlight' \subseteq Batch
  BY <1>3, <1>5
<1>7. f \in [inFlight -> inFlight'] /\ \A c \in inFlight' : \E b \in inFlight : f[b] = c
  BY <1>3
<1> HIDE DEF f
<1>8. IsFiniteSet(inFlight') /\ Cardinality(inFlight') <= Concurrency
  BY <1>7, SameCount
<1>9. RecordsOf(inFlight') = RecordsOf(inFlight)
  BY <1>3, <1>5 DEF RecordsOf
<1> QED
  BY <1>1, <1>3, <1>6, <1>8, <1>9 DEF f

\* Every batch in flight is posted again or given up.
LEMMA CrashIs ==
    ASSUME SinkTypes, Crash
    PROVE  /\ inFlight' \subseteq Batch
           /\ IsFiniteSet(inFlight') /\ Cardinality(inFlight') <= Concurrency
           /\ \A c \in inFlight' : \E b \in inFlight :
                 /\ c = Again(b) /\ b.posts < MaxPosts
           /\ \A m \in wire' : \E b \in inFlight :
                 /\ m = PostOf(Again(b)) /\ b.posts < MaxPosts
           /\ RecordsOf(inFlight) = RecordsOf(inFlight') \cup (lost' \cap RecordsOf(inFlight))
           /\ lost \subseteq lost' /\ lost' \subseteq lost \cup RecordsOf(inFlight)
<1> DEFINE spent == {b \in inFlight : b.posts >= MaxPosts}
           tried == inFlight \ spent
           f == [b \in tried |-> Again(b)]
<1>1. /\ inFlight' = {Again(b) : b \in tried}
      /\ wire' = {PostOf(Again(b)) : b \in tried}
      /\ lost' = lost \cup RecordsOf(spent)
  BY DEF Crash
<1>2. \A b \in inFlight : b.posts \in Nat /\ MaxPosts \in Nat
  BY BatchIs, Constants DEF SinkTypes
<1>3. \A b \in tried : b \in inFlight /\ b.posts < MaxPosts
  BY <1>2
<1>4. \A b \in tried : Again(b) \in Batch
  <2> SUFFICES ASSUME NEW b \in tried PROVE Again(b) \in Batch
    OBVIOUS
  <2>1. /\ b.records \in Seq(Records) /\ Len(b.records) \in 1..BatchSize
        /\ b.posts \in 1..MaxPosts /\ b.posts < MaxPosts
    BY <1>3, BatchIs DEF SinkTypes
  <2>2. b.posts + 1 \in 1..MaxPosts
    BY <2>1, Constants
  <2> QED
    BY <2>1, <2>2, AgainIs, BatchMade
<1>5. inFlight' \subseteq Batch
  BY <1>1, <1>4
<1>6. /\ tried \in SUBSET inFlight /\ f \in [tried -> inFlight']
      /\ \A c \in inFlight' : \E b \in tried : f[b] = c
  BY <1>1
<1>7. IsFiniteSet(inFlight') /\ Cardinality(inFlight') <= Concurrency
  <2> HIDE DEF f, tried
  <2> QED
    BY <1>6, SameCount
<1>8. \A b : Again(b).records = b.records
  BY DEF Again, Posted
<1>9. RecordsOf(inFlight) = RecordsOf(inFlight') \cup RecordsOf(spent)
  BY <1>1, <1>8 DEF RecordsOf
<1>10. RecordsOf(spent) \subseteq lost' /\ lost \subseteq lost'
       /\ lost' \subseteq lost \cup RecordsOf(inFlight)
  BY <1>1, <1>9
<1> QED
  BY <1>1, <1>3, <1>5, <1>7, <1>9, <1>10

LEMMA SinkStep == TypeInv /\ [Next]_vars => SinkTypes'
<1> SUFFICES ASSUME TypeInv, [Next]_vars PROVE SinkTypes'
  OBVIOUS
<1>0. SinkTypes
  BY DEF TypeInv
<1>a. /\ MaxRecords \in Nat /\ BatchSize \in Nat \ {0}
      /\ BufferSize \in Nat \ {0} /\ MaxPosts \in Nat \ {0}
      /\ Concurrency \in Nat \ {0}
  BY Constants
<1>1. CASE Sample
  <2> USE DEF SinkTypes
  <2>1. sampled + 1 \in Records /\ sampled + 1 \in 0..MaxRecords
    BY <1>0, <1>a, <1>1 DEF Sample, Records
  <2>2. buffer' \in Seq(Records) /\ Len(buffer') <= BufferSize
    BY <1>0, <1>a, <1>1, <2>1, AppendIs DEF Sample
  <2>3. lost' \subseteq Records
    BY <1>0, <1>1, <2>1 DEF Sample
  <2> QED
    BY <1>0, <1>1, <2>1, <2>2, <2>3 DEF Sample
<1>2. CASE PostBatch
  <2> USE DEF SinkTypes
  <2>1. PICK n \in 1..BatchSize :
            /\ n <= Len(buffer)
            /\ inFlight' = inFlight \cup {Posted(SubSeq(buffer, 1, n), 1)}
            /\ wire' = wire \cup {PostOf(Posted(SubSeq(buffer, 1, n), 1))}
            /\ buffer' = SubSeq(buffer, n + 1, Len(buffer))
    BY <1>2 DEF PostBatch
  <2> DEFINE s == SubSeq(buffer, 1, n)
             b == Posted(s, 1)
  <2>2. n \in 1..Len(buffer) /\ buffer \in Seq(Records)
    BY <1>0, <2>1
  <2>3. /\ s \in Seq(Records) /\ Len(s) = n
        /\ buffer' \in Seq(Records) /\ Len(buffer') = Len(buffer) - n
    BY <2>1, <2>2, SplitIs
  <2>4. Len(buffer') <= BufferSize
    BY <1>0, <1>a, <2>2, <2>3
  <2> HIDE DEF s
  <2>5. 1 \in 1..MaxPosts /\ b \in Batch
    <3>1. 1 \in 1..MaxPosts /\ Len(s) \in 1..BatchSize
      BY <1>a, <2>3
    <3>2. b = [records |-> s, posts |-> 1, at |-> "wire"]
      BY DEF Posted
    <3> HIDE DEF b
    <3> QED
      BY <2>3, <3>1, <3>2, BatchMade
  <2>6. \A m \in wire' : /\ m.records \in Seq(Records)
                         /\ Len(m.records) \in 1..BatchSize
                         /\ m.post \in 1..MaxPosts
    <3>1. wire' = wire \cup {[records |-> s, post |-> 1]}
      BY <2>1 DEF PostOf, Posted, s
    <3> QED
      BY <1>0, <2>3, <2>5, <3>1
  <2>7. inFlight' = inFlight \cup {b}
    BY <2>1 DEF s
  <2> HIDE DEF b
  <2>8. IsFiniteSet(inFlight')
        /\ Cardinality(inFlight') <= Cardinality(inFlight) + 1
        /\ Cardinality(inFlight) \in Nat
        /\ Cardinality(inFlight') \in Nat
    BY <1>0, <2>7, OneMore
  <2>9. Cardinality(inFlight) < Concurrency
    BY <1>2 DEF PostBatch
  <2>10. Cardinality(inFlight') <= Concurrency
    BY <1>a, <2>8, <2>9
  <2>11. UNCHANGED <<sampled, lost>>
    BY <1>2 DEF PostBatch
  <2> QED
    BY <1>0, <2>3, <2>4, <2>5, <2>6, <2>7, <2>8, <2>10, <2>11
<1>3. ASSUME NEW b \in inFlight, Unreachable(b) PROVE SinkTypes'
  <2>1. RetryOrGiveUp(b, wire \ {PostOf(b)}) /\ UNCHANGED <<sampled, buffer>>
    BY <1>3 DEF Unreachable
  <2>2. wire \ {PostOf(b)} \in SUBSET wire
    OBVIOUS
  <2> QED
    BY <1>0, <2>1, <2>2, RetryTypes
<1>4. ASSUME NEW b \in inFlight, TimeOut(b) PROVE SinkTypes'
  <2>1. RetryOrGiveUp(b, wire) /\ UNCHANGED <<sampled, buffer>>
    BY <1>4 DEF TimeOut
  <2>2. wire \in SUBSET wire
    OBVIOUS
  <2> QED
    BY <1>0, <2>1, <2>2, RetryTypes
<1>5. ASSUME NEW m \in wire, RefusePost(m) PROVE SinkTypes'
  <2>1. Awaiting(m) \subseteq inFlight
    BY DEF Awaiting
  <2>2. RecordsOf(Awaiting(m)) \subseteq Records
    BY <1>0, <2>1, BatchIs DEF RecordsOf, SinkTypes
  <2>3. /\ inFlight' \subseteq inFlight /\ wire' \subseteq wire
        /\ lost' \subseteq Records /\ UNCHANGED <<sampled, buffer>>
    BY <1>0, <1>5, <2>2 DEF RefusePost, SinkTypes
  <2> QED
    BY <1>0, <2>3, FewerTypes
<1>6. ASSUME NEW m \in wire, NEW t \in Threads, TakePost(m, t) \/ ShowFails(m, t)
      PROVE  SinkTypes'
  <2>1. Taken(m, t) /\ UNCHANGED <<sampled, buffer, lost>>
    BY <1>6 DEF TakePost, ShowFails
  <2>2. /\ inFlight' \subseteq Batch
        /\ IsFiniteSet(inFlight') /\ Cardinality(inFlight') <= Concurrency
    BY <1>0, <2>1, TakenIs
  <2>3. wire' \subseteq wire
    BY <2>1 DEF Taken
  <2> QED
    BY <1>0, <2>1, <2>2, <2>3 DEF SinkTypes
<1>7. ASSUME NEW t \in Threads, Accept(t) PROVE SinkTypes'
  <2>1. /\ inFlight' \subseteq inFlight /\ wire' \subseteq wire
        /\ lost' \subseteq Records /\ UNCHANGED <<sampled, buffer>>
    BY <1>0, <1>7 DEF Accept, SinkTypes
  <2> QED
    BY <1>0, <2>1, FewerTypes
<1>8. ASSUME NEW t \in Threads, Reject(t) PROVE SinkTypes'
  <2>1. UNCHANGED <<sampled, buffer>>
    BY <1>8 DEF Reject
  <2>2. ASSUME NEW b \in AwaitingThread(t), RetryOrGiveUp(b, wire)
        PROVE  SinkTypes'
    <3>1. b \in inFlight /\ wire \in SUBSET wire
      BY DEF AwaitingThread
    <3> QED
      BY <1>0, <2>1, <2>2, <3>1, RetryTypes
  <2>3. CASE UNCHANGED <<inFlight, lost, wire>>
    BY <1>0, <2>1, <2>3, FewerTypes DEF SinkTypes
  <2> QED
    BY <1>8, <2>2, <2>3 DEF Reject
<1>9. CASE Crash
  <2>1. UNCHANGED <<sampled, buffer>>
    BY <1>9 DEF Crash
  <2>2. \A b \in inFlight : Elements(b.records) \subseteq Records
    BY <1>0, BatchIs DEF SinkTypes
  <2>3. lost' \subseteq Records
    <3>1. lost' \subseteq lost \cup RecordsOf(inFlight)
      BY <1>0, <1>9, CrashIs
    <3> QED
      BY <1>0, <2>2, <3>1 DEF RecordsOf, SinkTypes
  <2>4. ASSUME NEW m \in wire'
        PROVE  /\ m.records \in Seq(Records)
               /\ Len(m.records) \in 1..BatchSize
               /\ m.post \in 1..MaxPosts
    <3>1. PICK b \in inFlight : m = PostOf(Again(b)) /\ b.posts < MaxPosts
      BY <1>0, <1>9, <2>4, CrashIs
    <3>2. m = [records |-> b.records, post |-> b.posts + 1]
      BY <3>1, AgainIs
    <3>3. /\ b.records \in Seq(Records) /\ Len(b.records) \in 1..BatchSize
          /\ b.posts \in 1..MaxPosts
      BY <1>0, BatchIs DEF SinkTypes
    <3> QED
      BY <1>a, <3>1, <3>2, <3>3
  <2>5. /\ inFlight' \subseteq Batch
        /\ IsFiniteSet(inFlight') /\ Cardinality(inFlight') <= Concurrency
    BY <1>0, <1>9, CrashIs
  <2> QED
    BY <1>0, <2>1, <2>3, <2>4, <2>5 DEF SinkTypes
<1>10. ASSUME \/ \E t \in Threads : Works(t)
              \/ OpenSocket \/ CloseSocket
              \/ BlockLoop \/ UnblockLoop \/ LoopTimeout
              \/ UNCHANGED vars
       PROVE  SinkTypes'
  <2>1. UNCHANGED <<sampled, buffer, inFlight, wire, lost>>
    BY <1>10 DEF Works, Connect, PoolTimeout, Flush, LockTimeout, Commit,
       RollBack, OpenSocket, CloseSocket, BlockLoop, UnblockLoop, LoopTimeout,
       vars, sink
  <2> QED
    BY <1>0, <2>1 DEF SinkTypes
<1> QED
  BY <1>1, <1>2, <1>3, <1>4, <1>5, <1>6, <1>7, <1>8, <1>9, <1>10
     DEF Next, Answers

LEMMA ServerStep == TypeInv /\ [Next]_vars => ServerTypes'
<1> SUFFICES ASSUME TypeInv, [Next]_vars PROVE ServerTypes'
  OBVIOUS
<1>0. ServerTypes
  BY DEF TypeInv
<1> USE DEF ServerTypes, Stages
<1>a. PoolSize \in Nat /\ Nobody \notin Threads /\ BatchSize \in Nat \ {0}
  BY Constants
<1>b. <<>> \in Seq(Records) /\ Len(<<>>) = 0
  BY EmptySeq
<1>c. Cardinality(pool) \in Nat
      /\ \A t \in Threads :
            /\ Cardinality(pool \cup {t}) <= Cardinality(pool) + 1
            /\ Cardinality(pool \ {t}) <= Cardinality(pool)
  <2>1. IsFiniteSet(pool) /\ Cardinality(pool) \in Nat
    BY <1>0, Constants, FS_Subset, FS_CardinalityType
  <2>2. ASSUME NEW t \in Threads
        PROVE  /\ Cardinality(pool \cup {t}) <= Cardinality(pool) + 1
               /\ Cardinality(pool \ {t}) <= Cardinality(pool)
    <3> DEFINE n == Cardinality(pool)
    <3>1. Cardinality(pool \cup {t}) = IF t \in pool THEN n ELSE n + 1
      BY <2>1, FS_AddElement
    <3>2. Cardinality(pool \ {t}) = IF t \in pool THEN n - 1 ELSE n
      BY <2>1, FS_RemoveElement
    <3> QED
      BY <2>1, <3>1, <3>2
  <2> QED
    BY <2>1, <2>2
<1>d. /\ \A t \in Threads : Cardinality(pool \cup {t}) \in Nat
                            /\ Cardinality(pool \ {t}) \in Nat
  <2>1. IsFiniteSet(pool)
    BY <1>0, Constants, FS_Subset
  <2> QED
    BY <2>1, FS_AddElement, FS_RemoveElement, FS_CardinalityType
<1>1. ASSUME NEW m \in wire, NEW t \in Threads, TakePost(m, t)
      PROVE  ServerTypes'
  <2>1. m.records \in Seq(Records) /\ Len(m.records) <= BatchSize
    BY <1>a DEF TypeInv, SinkTypes
  <2> QED
    BY <1>0, <1>a, <1>1, <2>1 DEF TakePost, Taken
<1>2. ASSUME NEW m \in wire, NEW t \in Threads, ShowFails(m, t)
      PROVE  ServerTypes'
  BY <1>0, <1>a, <1>2 DEF ShowFails, Taken
<1>3. ASSUME NEW t \in Threads, PoolTimeout(t) PROVE ServerTypes'
  <2>1. /\ thread[t] = "connect"
        /\ Turns(t, "failed")
        /\ UNCHANGED <<pool, sockets, writer>>
    BY <1>3 DEF PoolTimeout
  <2> QED
    BY <1>0, <1>a, <1>b, <2>1 DEF Turns
<1>4. ASSUME NEW t \in Threads, Connect(t) PROVE ServerTypes'
  <2>1. Cardinality(pool') + sockets' <= PoolSize
    <3>1. Cardinality(pool) + sockets < PoolSize /\ sockets' = sockets
      BY <1>4 DEF Connect, Free
    <3>2. Cardinality(pool') \in Nat
          /\ Cardinality(pool') <= Cardinality(pool) + 1
      BY <1>c, <1>d, <1>4 DEF Connect
    <3> QED
      BY <1>0, <1>a, <1>c, <3>1, <3>2
  <2> QED
    BY <1>0, <1>a, <1>4, <2>1 DEF Connect
<1>5. ASSUME NEW t \in Threads, Flush(t) PROVE ServerTypes'
  BY <1>0, <1>a, <1>5 DEF Flush
<1>6. ASSUME NEW t \in Threads, LockTimeout(t) PROVE ServerTypes'
  <2>1. Cardinality(pool') + sockets' <= PoolSize
    BY <1>0, <1>a, <1>c, <1>d, <1>6 DEF LockTimeout
  <2> QED
    BY <1>0, <1>a, <1>b, <1>6, <2>1 DEF LockTimeout, Turns
<1>7. ASSUME NEW t \in Threads, NEW end \in {"stored", "failed"},
             thread[t] = "commit", Turns(t, end), writer' = Nobody,
             pool' = pool \ {t}, sockets' = sockets
      PROVE  ServerTypes'
  <2>1. Cardinality(pool') + sockets' <= PoolSize
    BY <1>0, <1>a, <1>c, <1>d, <1>7
  <2> QED
    BY <1>0, <1>a, <1>b, <1>7, <2>1 DEF Turns
<1>8. ASSUME NEW t \in Threads, Commit(t) \/ RollBack(t) PROVE ServerTypes'
  BY <1>7, <1>8 DEF Commit, RollBack
<1>9. ASSUME NEW t \in Threads, Accept(t) \/ Reject(t) PROVE ServerTypes'
  BY <1>0, <1>a, <1>9 DEF Accept, Reject
<1>10. CASE OpenSocket \/ UnblockLoop
  BY <1>0, <1>a, <1>c, <1>10 DEF OpenSocket, UnblockLoop, Free
<1>11. CASE BlockLoop \/ LoopTimeout
  BY <1>0, <1>11 DEF BlockLoop, LoopTimeout
<1>12. CASE CloseSocket
  BY <1>0, <1>a, <1>c, <1>12 DEF CloseSocket
<1>13. CASE Crash
  <2>1. Cardinality({}) = 0
    BY FS_EmptySet
  <2> QED
    BY <1>0, <1>a, <1>b, <1>13, <2>1 DEF Crash
<1>14. ASSUME \/ Sample \/ PostBatch
              \/ \E b \in inFlight : Unreachable(b) \/ TimeOut(b)
              \/ \E m \in wire : RefusePost(m)
              \/ UNCHANGED vars
       PROVE  ServerTypes'
  <2>1. UNCHANGED server
    BY <1>14 DEF Sample, PostBatch, Unreachable, TimeOut, RefusePost, vars
  <2> QED
    BY <1>0, <2>1 DEF server
<1> QED
  BY <1>1, <1>2, <1>3, <1>4, <1>5, <1>6, <1>8, <1>9, <1>10, <1>11, <1>12,
     <1>13, <1>14 DEF Next, Works, Answers

LEMMA TableStep == TypeInv /\ [Next]_vars => TableTypes'
<1> SUFFICES ASSUME TypeInv, [Next]_vars PROVE TableTypes'
  OBVIOUS
<1>0. TableTypes
  BY DEF TypeInv
<1> USE DEF TableTypes
<1>a. \A t \in Threads : work[t] \in Seq(Records)
  BY DEF TypeInv, ServerTypes
<1>b. \A b \in inFlight : Elements(b.records) \subseteq Records
  BY BatchIs DEF TypeInv, SinkTypes
<1>c. \A m \in wire : m.records \in Seq(Records)
  BY DEF TypeInv, SinkTypes
<1>1. ASSUME NEW m \in wire, NEW t \in Threads, TakePost(m, t)
      PROVE  TableTypes'
  <2>1. Elements(m.records) \subseteq Records
    BY <1>c, ElementsType
  <2> QED
    BY <1>0, <1>1, <2>1 DEF TakePost
<1>2. ASSUME NEW m \in wire, NEW t \in Threads, ShowFails(m, t)
      PROVE  TableTypes'
  <2>1. PICK n \in 1..Len(m.records) :
            shown' = shown \cup Elements(SubSeq(m.records, 1, n))
    BY <1>2 DEF ShowFails
  <2>2. SubSeq(m.records, 1, n) \in Seq(Records)
    BY <1>c, SplitIs
  <2>3. shown' \subseteq Records
    BY <1>0, <2>1, <2>2, ElementsType
  <2> QED
    BY <1>0, <1>2, <2>3 DEF ShowFails
<1>3. ASSUME NEW t \in Threads, Commit(t) PROVE TableTypes'
  <2>1. Contiguous(rows')
    <3>1. rows' = Trimmed(Inserted(rows, work[t]))
      BY <1>3 DEF Commit
    <3> QED
      BY <1>0, <1>a, <3>1, Storing
  <2>2. stored' \in [Records -> Nat]
    BY <1>0, <1>3 DEF Commit, Counted
  <2> QED
    BY <1>0, <1>3, <2>1, <2>2 DEF Commit
<1>4. ASSUME NEW b \in inFlight, TimeOut(b) PROVE TableTypes'
  BY <1>0, <1>b, <1>4 DEF TimeOut
<1>5. CASE Crash
  <2>1. crashes' \in 0..MaxCrashes /\ UNCHANGED <<rows, shown, stored>>
    BY <1>0, <1>5, Constants DEF Crash
  <2>2. unheard' \subseteq Records
    BY <1>0, <1>b, <1>5 DEF Crash, RecordsOf
  <2> QED
    BY <1>0, <2>1, <2>2
<1>6. ASSUME \/ Sample \/ PostBatch
             \/ \E b \in inFlight : Unreachable(b)
             \/ \E m \in wire : RefusePost(m)
             \/ \E t \in Threads : \/ Connect(t) \/ PoolTimeout(t) \/ Flush(t)
                                   \/ LockTimeout(t) \/ RollBack(t)
                                   \/ Answers(t)
             \/ OpenSocket \/ CloseSocket
             \/ BlockLoop \/ UnblockLoop \/ LoopTimeout
             \/ UNCHANGED vars
      PROVE  TableTypes'
  <2>1. UNCHANGED <<rows, shown, stored, unheard, crashes>>
    BY <1>6 DEF Sample, PostBatch, Unreachable, RefusePost, Connect,
       PoolTimeout, Flush, LockTimeout, RollBack, Answers, Accept, Reject,
       OpenSocket, CloseSocket, BlockLoop, UnblockLoop, LoopTimeout, vars
  <2> QED
    BY <1>0, <2>1
<1> QED
  BY <1>1, <1>2, <1>3, <1>4, <1>5, <1>6 DEF Next, Works

LEMMA LoopStep == TypeInv /\ [Next]_vars => LoopType'
<1> SUFFICES ASSUME TypeInv, [Next]_vars PROVE LoopType'
  OBVIOUS
<1>1. blocked' = blocked \/ blocked' = TRUE \/ blocked' = FALSE
  BY Zenon DEF Next, Works, Answers, Sample, PostBatch, Unreachable, TimeOut,
     RefusePost, TakePost, ShowFails, Connect, PoolTimeout, Flush, LockTimeout,
     Commit, RollBack, Accept, Reject, OpenSocket, CloseSocket, BlockLoop,
     UnblockLoop, LoopTimeout, Crash, vars, server
<1> QED
  BY <1>1, Zenon DEF TypeInv, LoopType

LEMMA WorkingStep == TypeInv /\ [Next]_vars => Working'
<1> SUFFICES ASSUME TypeInv, [Next]_vars PROVE Working'
  OBVIOUS
<1>0. /\ SinkTypes /\ Working
      /\ thread \in [Threads -> Stages]
      /\ work \in [Threads -> Seq(Records)]
  BY DEF TypeInv, ServerTypes
<1> USE DEF Working, Stages
<1>1. ASSUME NEW m \in wire, NEW t \in Threads, TakePost(m, t) PROVE Working'
  <2>1. m.records \in Seq(Records) /\ Len(m.records) \in 1..BatchSize
    BY <1>0 DEF SinkTypes
  <2>2. m.records # <<>>
    BY <2>1, Constants, NonEmpty
  <2>3. /\ thread' = [thread EXCEPT ![t] = "connect"]
        /\ work' = [work EXCEPT ![t] = m.records]
    BY <1>1 DEF TakePost
  <2> QED
    BY <1>0, <2>2, <2>3
<1>2. ASSUME NEW t \in Threads, UNCHANGED work,
             \/ /\ thread[t] \notin {"connect", "flush", "commit"}
                /\ \E next \in {"idle", "failed"} :
                      thread' = [thread EXCEPT ![t] = next]
             \/ /\ thread[t] \in {"connect", "flush"}
                /\ \E next \in {"flush", "commit"} :
                      thread' = [thread EXCEPT ![t] = next]
      PROVE  Working'
  BY <1>0, <1>2
<1>3. ASSUME NEW m \in wire, NEW t \in Threads, ShowFails(m, t) PROVE Working'
  BY <1>2, <1>3 DEF ShowFails, Taken
<1>4. ASSUME NEW t \in Threads, Answers(t) \/ Connect(t) \/ Flush(t)
      PROVE  Working'
  BY <1>2, <1>4 DEF Answers, Accept, Reject, Connect, Flush
<1>5. ASSUME NEW t \in Threads, Turns(t, "stored") \/ Turns(t, "failed")
      PROVE  Working'
  BY <1>0, <1>5 DEF Turns
<1>6. ASSUME NEW t \in Threads,
             PoolTimeout(t) \/ LockTimeout(t) \/ Commit(t) \/ RollBack(t)
      PROVE  Working'
  BY <1>5, <1>6 DEF PoolTimeout, LockTimeout, Commit, RollBack
<1>7. CASE Crash
  BY <1>7 DEF Crash
<1>8. ASSUME \/ Sample \/ PostBatch
             \/ \E b \in inFlight : Unreachable(b) \/ TimeOut(b)
             \/ \E m \in wire : RefusePost(m)
             \/ OpenSocket \/ CloseSocket
             \/ BlockLoop \/ UnblockLoop \/ LoopTimeout
             \/ UNCHANGED vars
      PROVE  Working'
  <2>1. UNCHANGED <<thread, work>>
    BY <1>8 DEF Sample, PostBatch, Unreachable, TimeOut, RefusePost,
       OpenSocket, CloseSocket, BlockLoop, UnblockLoop, LoopTimeout, vars,
       server
  <2> QED
    BY <1>0, <2>1
<1> QED
  BY <1>1, <1>3, <1>4, <1>6, <1>7, <1>8 DEF Next, Works

\* After a failed post, after an answer and after a post is taken: which batch
\* awaits which thread.
LEMMA RetryAt ==
    ASSUME NEW b \in inFlight, NEW others, RetryOrGiveUp(b, others)
    PROVE  \A c \in inFlight' : c.at = "wire" \/ c \in inFlight \ {b}
<1>1. Again(b).at = "wire"
  BY DEF Again, Posted
<1>2. \A c \in inFlight' : c \in inFlight \ {b} \/ c = Again(b)
  BY RetryIs
<1> QED
  BY <1>1, <1>2

LEMMA AnswerAt ==
    ASSUME AwaitsOne, NEW t \in Threads, Answers(t)
    PROVE  \A c \in inFlight' : c.at = "wire" \/ (c \in inFlight /\ c.at # t)
<1>1. ASSUME NEW b \in AwaitingThread(t), RetryOrGiveUp(b, wire)
      PROVE  \A c \in inFlight' :
                 c.at = "wire" \/ (c \in inFlight /\ c.at # t)
  <2>1. b \in inFlight /\ b.at = t
    BY DEF AwaitingThread
  <2>2. \A c \in inFlight : c.at = t => c = b
    BY <2>1, Constants DEF AwaitsOne
  <2> QED
    BY <1>1, <2>1, <2>2, RetryAt
<1>2. CASE AwaitingThread(t) = {} /\ inFlight' = inFlight
  BY <1>2 DEF AwaitingThread
<1>3. CASE inFlight' = inFlight \ AwaitingThread(t)
  BY <1>3 DEF AwaitingThread
<1> QED
  BY <1>1, <1>2, <1>3 DEF Answers, Accept, Reject

LEMMA TakenAt ==
    ASSUME SinkTypes, AwaitsOne, NEW m, NEW t \in Threads, Taken(m, t)
    PROVE  /\ \A b \in inFlight : b.at # t
           /\ \A c \in inFlight' :
                 \/ c \in inFlight \ Awaiting(m) /\ c.at # t
                 \/ c = [records |-> m.records, posts |-> m.post, at |-> t]
<1>1. thread[t] = "idle"
  BY DEF Taken
<1>2. \A b \in inFlight : b.at # t
  BY <1>1 DEF AwaitsOne
<1>3. \A b \in Awaiting(m) : b.records = m.records /\ b.posts = m.post
  BY DEF Awaiting, PostOf
<1> QED
  BY <1>2, <1>3, TakenIs

LEMMA AwaitsOneStep == TypeInv /\ [Next]_vars => AwaitsOne'
<1> SUFFICES ASSUME TypeInv, [Next]_vars PROVE AwaitsOne'
  OBVIOUS
<1>0. /\ SinkTypes /\ Working /\ AwaitsOne
      /\ thread \in [Threads -> Stages]
      /\ work \in [Threads -> Seq(Records)]
  BY DEF TypeInv, ServerTypes
<1>a. "wire" \notin Threads
  BY Constants
<1> USE DEF AwaitsOne
\* No batch comes to await a thread.
<1>1. ASSUME \A c \in inFlight' : c.at = "wire" \/ c \in inFlight,
             UNCHANGED <<thread, work>>
      PROVE  AwaitsOne'
  BY <1>0, <1>a, <1>1
<1>3. CASE PostBatch
  <2>1. \A c \in inFlight' : c.at = "wire" \/ c \in inFlight
    BY <1>3 DEF PostBatch, Posted
  <2> QED
    BY <1>1, <1>3, <2>1 DEF PostBatch, server
<1>4. ASSUME NEW b \in inFlight, Unreachable(b) \/ TimeOut(b) PROVE AwaitsOne'
  BY <1>1, <1>4, RetryAt DEF Unreachable, TimeOut, server
<1>5. ASSUME NEW m \in wire, RefusePost(m) PROVE AwaitsOne'
  BY <1>1, <1>5 DEF RefusePost, server
<1>6. ASSUME NEW m \in wire, NEW t \in Threads, Taken(m, t),
             \/ /\ thread' = [thread EXCEPT ![t] = "connect"]
                /\ work' = [work EXCEPT ![t] = m.records]
             \/ /\ thread' = [thread EXCEPT ![t] = "failed"]
                /\ work' = work
      PROVE  AwaitsOne'
  <2>1. thread[t] = "idle" /\ work[t] = <<>>
    BY <1>0, <1>6 DEF Taken, Working
  <2>4. ASSUME NEW c \in inFlight'
        PROVE  \/ c \in inFlight /\ c.at # t
               \/ c = [records |-> m.records, posts |-> m.post, at |-> t]
    BY <1>0, <1>6, TakenAt
  <2>5. \A u \in Threads : u # t => thread'[u] = thread[u]
                                    /\ work'[u] = work[u]
    BY <1>0, <1>6
  <2>6. thread'[t] # "idle" /\ (work'[t] # <<>> => work'[t] = m.records)
    BY <1>0, <1>6, <2>1
  <2>7. ASSUME NEW c \in inFlight', NEW u \in Threads, c.at = u
        PROVE  /\ thread'[u] # "idle"
               /\ work'[u] # <<>> => work'[u] = c.records
    <3>1. CASE c \in inFlight /\ c.at # t
      BY <1>0, <2>5, <2>7, <3>1
    <3>2. CASE c = [records |-> m.records, posts |-> m.post, at |-> t]
      BY <2>6, <2>7, <3>2
    <3> QED
      BY <2>4, <3>1, <3>2
  <2>8. \A b, c \in inFlight' : (b.at = c.at /\ b.at # "wire") => b = c
    <3> SUFFICES ASSUME NEW b \in inFlight', NEW c \in inFlight',
                        b.at = c.at, b.at # "wire"
                 PROVE  b = c
      OBVIOUS
    <3>1. CASE b.at = t
      BY <2>4, <3>1
    <3>2. CASE b.at # t
      <4>1. b \in inFlight /\ c \in inFlight
        BY <2>4, <3>2
      <4> QED
        BY <1>0, <4>1
    <3> QED
      BY <3>1, <3>2
  <2> QED
    BY <2>7, <2>8
<1>7. ASSUME NEW m \in wire, NEW t \in Threads,
             TakePost(m, t) \/ ShowFails(m, t)
      PROVE  AwaitsOne'
  BY <1>6, <1>7 DEF TakePost, ShowFails
<1>8. ASSUME NEW t \in Threads,
             thread[t] \in {"connect", "flush", "commit"}, UNCHANGED inFlight,
             \/ /\ work' = work
                /\ \E next \in {"flush", "commit"} :
                      thread' = [thread EXCEPT ![t] = next]
             \/ \E end \in {"stored", "failed"} : Turns(t, end)
      PROVE  AwaitsOne'
  BY <1>0, <1>8 DEF Turns
<1>9. ASSUME NEW t \in Threads, Works(t) PROVE AwaitsOne'
  <2>1. UNCHANGED inFlight
    BY <1>9 DEF Works, Connect, PoolTimeout, Flush, LockTimeout, Commit,
       RollBack, sink
  <2>2. CASE Connect(t) \/ Flush(t)
    BY <1>8, <2>1, <2>2 DEF Connect, Flush
  <2>3. CASE PoolTimeout(t) \/ LockTimeout(t) \/ RollBack(t)
    BY <1>8, <2>1, <2>3 DEF PoolTimeout, LockTimeout, RollBack
  <2>4. CASE Commit(t)
    BY <1>8, <2>1, <2>4 DEF Commit
  <2> QED
    BY <1>9, <2>2, <2>3, <2>4 DEF Works
<1>10. ASSUME NEW t \in Threads,
              thread' = [thread EXCEPT ![t] = "idle"], work' = work,
              \A c \in inFlight' :
                  c.at = "wire" \/ (c \in inFlight /\ c.at # t)
       PROVE  AwaitsOne'
  BY <1>0, <1>a, <1>10
<1>11. ASSUME NEW t \in Threads, Answers(t) PROVE AwaitsOne'
  BY <1>0, <1>10, <1>11, AnswerAt DEF Answers, Accept, Reject
<1>13. CASE Crash
  <2>1. \A c \in inFlight' : c.at = "wire"
    BY <1>0, <1>13, CrashIs, AgainIs
  <2> QED
    BY <1>a, <2>1
<1>14. ASSUME \/ Sample \/ OpenSocket \/ CloseSocket
              \/ BlockLoop \/ UnblockLoop \/ LoopTimeout
              \/ UNCHANGED vars
       PROVE  AwaitsOne'
  <2>1. UNCHANGED <<inFlight, thread, work>>
    BY <1>14 DEF Sample, OpenSocket, CloseSocket, BlockLoop, UnblockLoop,
       LoopTimeout, vars, sink, server
  <2> QED
    BY <1>0, <2>1
<1> QED
  BY <1>3, <1>4, <1>5, <1>7, <1>9, <1>11, <1>13, <1>14 DEF Next

LEMMA TypeStep == TypeInv /\ [Next]_vars => TypeInv'
BY SinkStep, ServerStep, LoopStep, TableStep, WorkingStep, AwaitsOneStep
   DEF TypeInv

\* The types, for any constants: no id of the table is missing, whatever is
\* stored at a time, and a connection is held by who uses it only.
THEOREM TypeCorrect == Spec => []TypeOK
BY TypeParts, TypeInit, TypeStep, PTL DEF Spec

-----------------------------------------------------------------------------
\* The table.

\* The table keeps the newest rows of whole batches, for any constants: one
\* commit at a time counts, looks for the cutoff and deletes among rows that
\* nobody else changes meanwhile.
THEOREM Implements == Spec => ImplementsSampleLog
<1>1. Kept = KeptOf(rows)
  BY DEF Kept, KeptOf
<1>2. Init => Log!Init
  <2> SUFFICES ASSUME Init PROVE Kept = <<>>
    BY DEF Log!Init
  <2>1. Contiguous(rows) /\ rows \in [(0 + 1)..0 -> Records]
    BY TypeInit DEF Init, TypeInv, TableTypes
  <2>2. KeptOf(rows) \in Seq(Records) /\ Len(KeptOf(rows)) = 0
    <3>1. 0 \in Nat /\ 0 <= 0 /\ 0 - 0 = 0
      OBVIOUS
    <3> QED
      BY <2>1, <3>1, KeptIs
  <2> QED
    BY <1>1, <2>2, EmptySeq
<1>3. TypeInv /\ [Next]_vars => [Log!Next]_Kept
  <2> SUFFICES ASSUME TypeInv, [Next]_vars PROVE [Log!Next]_Kept
    OBVIOUS
  <2>1. ASSUME NEW t \in Threads, Commit(t) PROVE [Log!Next]_Kept
    <3>1. /\ Contiguous(rows) /\ work[t] \in Seq(Records)
          /\ Len(work[t]) \in 1..BatchSize
      <4>1. Contiguous(rows) /\ work[t] \in Seq(Records)
            /\ Len(work[t]) <= BatchSize /\ work[t] # <<>>
        BY <2>1 DEF TypeInv, TableTypes, ServerTypes, Working, Commit
      <4> QED
        BY <4>1, NonEmpty, Constants
    <3>2. rows' = Trimmed(Inserted(rows, work[t]))
      BY <2>1 DEF Commit
    <3>3. KeptOf(rows') = Log!Newest(MaxEvents, KeptOf(rows) \o work[t])
      BY <3>1, <3>2, Storing
    <3>4. Kept' = KeptOf(rows')
      BY DEF Kept, KeptOf
    <3>5. Log!Record(work[t])
      BY <1>1, <3>3, <3>4 DEF Log!Record
    <3>6. work[t] \in [1..Len(work[t]) -> Records]
      BY <3>1
    <3>7. CASE Kept' = Kept
      BY <3>7
    <3>8. CASE Kept' # Kept
      BY <3>1, <3>5, <3>6, <3>8 DEF Log!Next
    <3> QED
      BY <3>7, <3>8
  <2>2. CASE \A t \in Threads : ~Commit(t)
    <3>1. rows' = rows
      BY <2>2 DEF Next, Works, Answers, Sample, PostBatch, Unreachable,
         TimeOut, RefusePost, TakePost, ShowFails, Connect, PoolTimeout,
         Flush, LockTimeout, RollBack, Accept, Reject, OpenSocket,
         CloseSocket, BlockLoop, UnblockLoop, LoopTimeout, Crash, vars
    <3> QED
      BY <3>1 DEF Kept
  <2> QED
    BY <2>1, <2>2
<1> QED
  BY <1>2, <1>3, TypeInit, TypeStep, PTL
     DEF Spec, ImplementsSampleLog, Log!Spec

-----------------------------------------------------------------------------
\* Every record.

\* What a thread stores it has shown, and when it has stored a batch that
\* awaits it, each record of the batch is in the table's history.
Underway ==
    /\ \A t \in Threads : thread[t] \in {"connect", "flush", "commit"}
          => Elements(work[t]) \subseteq shown
    /\ \A b \in inFlight, t \in Threads : b.at = t /\ thread[t] = "stored"
          => \A r \in Elements(b.records) : stored[r] > 0 /\ r \in shown

AccountInv == TypeInv /\ Underway /\ EveryRecordAccounted

LEMMA UnderwayStep == TypeInv /\ Underway /\ [Next]_vars => Underway'
<1> SUFFICES ASSUME TypeInv, Underway, [Next]_vars PROVE Underway'
  OBVIOUS
<1>0. /\ SinkTypes /\ Working /\ AwaitsOne
      /\ thread \in [Threads -> Stages]
      /\ work \in [Threads -> Seq(Records)]
      /\ stored \in [Records -> Nat]
  BY DEF TypeInv, ServerTypes, TableTypes
<1>a. "wire" \notin Threads
  BY Constants
<1> USE DEF Underway
<1>1. ASSUME \A c \in inFlight' : c.at = "wire" \/ c \in inFlight,
             UNCHANGED <<thread, work, shown, stored>>
      PROVE  Underway'
  BY <1>a, <1>1
<1>2. CASE PostBatch
  <2>1. \A c \in inFlight' : c.at = "wire" \/ c \in inFlight
    BY <1>2 DEF PostBatch, Posted
  <2> QED
    BY <1>1, <1>2, <2>1 DEF PostBatch, server
<1>3. ASSUME NEW b \in inFlight, Unreachable(b) \/ TimeOut(b) PROVE Underway'
  BY <1>1, <1>3, RetryAt DEF Unreachable, TimeOut, server
<1>4. ASSUME NEW m \in wire, RefusePost(m) PROVE Underway'
  BY <1>1, <1>4 DEF RefusePost, server
<1>5. ASSUME NEW m \in wire, NEW t \in Threads, TakePost(m, t) PROVE Underway'
  <2>1. /\ thread' = [thread EXCEPT ![t] = "connect"]
        /\ work' = [work EXCEPT ![t] = m.records]
        /\ shown' = shown \cup Elements(m.records)
        /\ stored' = stored /\ Taken(m, t)
    BY <1>5 DEF TakePost
  <2>2. \A c \in inFlight' : (c \in inFlight /\ c.at # t) \/ c.at = t
    BY <1>0, <2>1, TakenAt
  <2>3. \A u \in Threads : u # t => thread'[u] = thread[u]
                                    /\ work'[u] = work[u]
    BY <1>0, <2>1
  <2>4. thread'[t] = "connect" /\ work'[t] = m.records
    BY <1>0, <2>1
  <2> QED
    BY <2>1, <2>2, <2>3, <2>4
<1>6. ASSUME NEW m \in wire, NEW t \in Threads, ShowFails(m, t)
      PROVE  Underway'
  <2>1. /\ thread' = [thread EXCEPT ![t] = "failed"]
        /\ shown \subseteq shown'
        /\ UNCHANGED <<work, stored>> /\ Taken(m, t)
    BY <1>6 DEF ShowFails
  <2>2. \A c \in inFlight' : (c \in inFlight /\ c.at # t) \/ c.at = t
    BY <1>0, <2>1, TakenAt
  <2>3. \A u \in Threads : u # t => thread'[u] = thread[u]
    BY <1>0, <2>1
  <2>4. thread'[t] = "failed"
    BY <1>0, <2>1
  <2> QED
    BY <2>1, <2>2, <2>3, <2>4
<1>7. ASSUME NEW t \in Threads, NEW n \in {"flush", "commit"},
             thread[t] \in {"connect", "flush"},
             thread' = [thread EXCEPT ![t] = n],
             UNCHANGED <<work, inFlight, shown, stored>>
      PROVE  Underway'
  BY <1>0, <1>7
<1>8. ASSUME NEW t \in Threads, Connect(t) \/ Flush(t) PROVE Underway'
  BY <1>7, <1>8 DEF Connect, Flush, sink
<1>9. ASSUME NEW t \in Threads, Turns(t, "failed"),
             UNCHANGED <<inFlight, shown, stored>>
      PROVE  Underway'
  BY <1>0, <1>9 DEF Turns
<1>10. ASSUME NEW t \in Threads,
              PoolTimeout(t) \/ LockTimeout(t) \/ RollBack(t)
       PROVE  Underway'
  BY <1>9, <1>10 DEF PoolTimeout, LockTimeout, RollBack, sink
<1>11. ASSUME NEW t \in Threads, Commit(t) PROVE Underway'
  <2>1. /\ thread[t] = "commit" /\ Turns(t, "stored")
        /\ UNCHANGED <<inFlight, shown>>
        /\ stored' = Counted(stored, work[t])
    BY <1>11 DEF Commit, sink
  <2>2. \A r \in Records : (stored[r] > 0 => stored'[r] > 0)
                           /\ (r \in Elements(work[t]) => stored'[r] > 0)
    BY <1>0, <2>1 DEF Counted
  <2>3. \A b \in inFlight : Elements(b.records) \subseteq Records
    BY <1>0, BatchIs DEF SinkTypes
  <2>4. Elements(work[t]) \subseteq shown /\ work[t] # <<>>
    BY <1>0, <2>1 DEF Working
  <2>5. ASSUME NEW b \in inFlight, b.at = t, NEW r \in Elements(b.records)
        PROVE  stored'[r] > 0 /\ r \in shown
    <3>1. work[t] = b.records
      BY <1>0, <2>4, <2>5 DEF AwaitsOne
    <3> QED
      BY <2>2, <2>3, <2>4, <2>5, <3>1
  <2>6. ASSUME NEW b \in inFlight, NEW q \in Threads, q # t, b.at = q,
               thread[q] = "stored", NEW r \in Elements(b.records)
        PROVE  stored'[r] > 0 /\ r \in shown
    BY <2>2, <2>3, <2>6
  <2> QED
    BY <1>0, <2>1, <2>5, <2>6 DEF Turns
<1>12. ASSUME NEW t \in Threads, Answers(t) PROVE Underway'
  <2>1. /\ thread' = [thread EXCEPT ![t] = "idle"]
        /\ UNCHANGED <<work, shown, stored>>
    BY <1>12 DEF Answers, Accept, Reject
  <2>2. \A c \in inFlight' : c.at = "wire" \/ (c \in inFlight /\ c.at # t)
    BY <1>0, <1>12, AnswerAt
  <2> QED
    BY <1>0, <1>a, <2>1, <2>2
<1>13. CASE Crash
  BY <1>13 DEF Crash
<1>14. ASSUME \/ Sample \/ OpenSocket \/ CloseSocket
              \/ BlockLoop \/ UnblockLoop \/ LoopTimeout
              \/ UNCHANGED vars
       PROVE  Underway'
  <2>1. UNCHANGED <<inFlight, thread, work, shown, stored>>
    BY <1>14 DEF Sample, OpenSocket, CloseSocket, BlockLoop, UnblockLoop,
       LoopTimeout, vars, sink, server
  <2> QED
    BY <2>1
<1> QED
  BY <1>2, <1>3, <1>4, <1>5, <1>6, <1>8, <1>10, <1>11, <1>12, <1>13, <1>14
     DEF Next, Works

\* The records in flight after a failed post, ...
LEMMA RetryRecords ==
    ASSUME NEW b \in inFlight, NEW others, RetryOrGiveUp(b, others)
    PROVE  /\ RecordsOf(inFlight) \subseteq RecordsOf(inFlight') \cup lost'
           /\ RecordsOf(inFlight') \subseteq RecordsOf(inFlight)
           /\ lost \subseteq lost'
<1>1. Again(b).records = b.records
  BY DEF Again, Posted
<1>2. /\ \A c \in inFlight' : c \in inFlight \ {b} \/ c = Again(b)
      /\ \A c \in inFlight : c # b => c \in inFlight'
      /\ Elements(b.records) \subseteq RecordsOf(inFlight') \cup lost'
      /\ lost \subseteq lost'
  BY RetryIs
<1> QED
  BY <1>1, <1>2 DEF RecordsOf

\* ... and after a batch is posted.
LEMMA PostIs ==
    ASSUME SinkTypes, PostBatch
    PROVE  \E n \in 1..Len(buffer) :
               LET b == Posted(SubSeq(buffer, 1, n), 1)
               IN  /\ inFlight' = inFlight \cup {b}
                   /\ wire' = wire \cup {PostOf(b)}
                   /\ b.records = SubSeq(buffer, 1, n) /\ b.at = "wire"
                   /\ buffer' = SubSeq(buffer, n + 1, Len(buffer))
                   /\ Elements(buffer) =
                          Elements(b.records) \cup Elements(buffer')
                   /\ RecordsOf(inFlight') =
                          RecordsOf(inFlight) \cup Elements(b.records)
<1>1. buffer \in Seq(Records) /\ Len(buffer) \in Nat
  BY DEF SinkTypes
<1>2. PICK n \in 1..Len(buffer) :
          /\ inFlight' = inFlight \cup {Posted(SubSeq(buffer, 1, n), 1)}
          /\ wire' = wire \cup {PostOf(Posted(SubSeq(buffer, 1, n), 1))}
          /\ buffer' = SubSeq(buffer, n + 1, Len(buffer))
  BY <1>1 DEF PostBatch
<1> DEFINE b == Posted(SubSeq(buffer, 1, n), 1)
<1>3. b.records = SubSeq(buffer, 1, n) /\ b.at = "wire"
  BY DEF Posted
<1>4. Elements(buffer) = Elements(b.records) \cup Elements(buffer')
  BY <1>1, <1>2, <1>3, SplitIs
<1>5. RecordsOf(inFlight') = RecordsOf(inFlight) \cup Elements(b.records)
  BY <1>2 DEF RecordsOf
<1> QED
  BY <1>2, <1>3, <1>4, <1>5

LEMMA AccountStep == AccountInv /\ [Next]_vars => EveryRecordAccounted'
<1> SUFFICES ASSUME AccountInv, [Next]_vars PROVE EveryRecordAccounted'
  OBVIOUS
<1>0. /\ SinkTypes /\ AwaitsOne /\ Underway /\ EveryRecordAccounted
      /\ stored \in [Records -> Nat]
      /\ 1..sampled \subseteq Records
  BY Constants DEF AccountInv, TypeInv, SinkTypes, TableTypes, Records
\* Nothing is forgotten.
<1>1. ASSUME sampled' = sampled, shown \subseteq shown', lost \subseteq lost',
             \A r \in Records : stored[r] > 0 => stored'[r] > 0,
             Elements(buffer)
                 \subseteq Elements(buffer') \cup RecordsOf(inFlight'),
             \A r \in RecordsOf(inFlight) :
                 \/ r \in RecordsOf(inFlight') \cup lost'
                 \/ stored'[r] > 0 /\ r \in shown'
      PROVE  EveryRecordAccounted'
  BY <1>0, <1>1 DEF EveryRecordAccounted
<1>2. CASE Sample
  <2>1. sampled' = sampled + 1 /\ UNCHANGED <<inFlight, stored, shown>>
    BY <1>2 DEF Sample
  <2>2. 1..sampled' = 1..sampled \cup {sampled + 1} /\ sampled + 1 \in Records
    <3>1. sampled \in Nat /\ MaxRecords \in Nat /\ sampled < MaxRecords
      BY <1>0, <1>2, Constants DEF SinkTypes, Sample
    <3>2. 1..(sampled + 1) = 1..sampled \cup {sampled + 1}
      BY <3>1
    <3> QED
      BY <2>1, <3>1, <3>2 DEF Records
  <2>3. /\ sampled + 1 \in Elements(buffer') \cup lost'
        /\ Elements(buffer) \subseteq Elements(buffer')
        /\ lost \subseteq lost'
    <3>1. buffer \in Seq(Records)
      BY <1>0 DEF SinkTypes
    <3>2. Elements(Append(buffer, sampled + 1)) =
              Elements(buffer) \cup {sampled + 1}
      BY <2>2, <3>1, AppendIs
    <3> QED
      BY <1>2, <3>2 DEF Sample
  <2>4. RecordsOf(inFlight') = RecordsOf(inFlight)
    BY <2>1
  <2> QED
    BY <1>0, <2>1, <2>2, <2>3, <2>4 DEF EveryRecordAccounted
<1>3. CASE PostBatch
  <2>1. UNCHANGED <<sampled, shown, lost, stored>>
    BY <1>3 DEF PostBatch
  <2>2. /\ Elements(buffer)
               \subseteq Elements(buffer') \cup RecordsOf(inFlight')
        /\ RecordsOf(inFlight) \subseteq RecordsOf(inFlight')
    BY <1>0, <1>3, PostIs
  <2> QED
    BY <1>1, <2>1, <2>2
<1>4. ASSUME NEW b \in inFlight, NEW others, RetryOrGiveUp(b, others),
             UNCHANGED <<sampled, buffer, shown, stored>>
      PROVE  EveryRecordAccounted'
  BY <1>1, <1>4, RetryRecords
<1>5. ASSUME NEW b \in inFlight, Unreachable(b) \/ TimeOut(b)
      PROVE  EveryRecordAccounted'
  BY <1>4, <1>5 DEF Unreachable, TimeOut
<1>6. ASSUME NEW m \in wire, RefusePost(m) PROVE EveryRecordAccounted'
  <2>1. /\ inFlight' = inFlight \ Awaiting(m)
        /\ lost' = lost \cup RecordsOf(Awaiting(m))
        /\ UNCHANGED <<sampled, buffer, shown, stored>>
    BY <1>6 DEF RefusePost
  <2>2. RecordsOf(inFlight)
            \subseteq RecordsOf(inFlight') \cup RecordsOf(Awaiting(m))
    BY <2>1 DEF RecordsOf
  <2> QED
    BY <1>1, <2>1, <2>2
<1>7. ASSUME NEW m \in wire, NEW t \in Threads,
             TakePost(m, t) \/ ShowFails(m, t)
      PROVE  EveryRecordAccounted'
  <2>1. /\ Taken(m, t) /\ UNCHANGED <<sampled, buffer, lost, stored>>
        /\ shown \subseteq shown'
    BY <1>7 DEF TakePost, ShowFails
  <2>2. RecordsOf(inFlight') = RecordsOf(inFlight)
    BY <1>0, <2>1, TakenIs
  <2> QED
    BY <1>1, <2>1, <2>2
<1>8. ASSUME NEW t \in Threads, Commit(t) PROVE EveryRecordAccounted'
  <2>1. stored' = Counted(stored, work[t])
        /\ UNCHANGED <<sampled, buffer, inFlight, lost, shown>>
    BY <1>8 DEF Commit, sink
  <2>2. \A r \in Records : stored[r] > 0 => stored'[r] > 0
    BY <1>0, <2>1 DEF Counted
  <2> QED
    BY <1>1, <2>1, <2>2
<1>9. ASSUME NEW t \in Threads, Accept(t) PROVE EveryRecordAccounted'
  <2>1. /\ thread[t] = "stored"
        /\ inFlight' = inFlight \ AwaitingThread(t)
        /\ UNCHANGED <<sampled, buffer, lost, shown, stored>>
    BY <1>9 DEF Accept
  <2>2. \A b \in AwaitingThread(t) : \A r \in Elements(b.records) :
            stored[r] > 0 /\ r \in shown
    BY <1>0, <2>1 DEF AwaitingThread, Underway
  <2>3. \A r \in RecordsOf(inFlight) : \/ r \in RecordsOf(inFlight')
                                       \/ stored[r] > 0 /\ r \in shown
    BY <2>1, <2>2 DEF RecordsOf
  <2> QED
    BY <1>1, <2>1, <2>3
<1>10. ASSUME NEW t \in Threads, Reject(t) PROVE EveryRecordAccounted'
  <2>1. UNCHANGED <<sampled, buffer, shown, stored>>
    BY <1>10 DEF Reject
  <2>2. ASSUME NEW b \in AwaitingThread(t), RetryOrGiveUp(b, wire)
        PROVE  EveryRecordAccounted'
    <3>1. b \in inFlight
      BY DEF AwaitingThread
    <3> QED
      BY <1>4, <2>1, <2>2, <3>1
  <2>3. CASE UNCHANGED <<inFlight, lost, wire>>
    BY <1>1, <2>1, <2>3
  <2> QED
    BY <1>10, <2>2, <2>3 DEF Reject
<1>11. CASE Crash
  <2>1. UNCHANGED <<sampled, buffer, shown, stored>>
    BY <1>11 DEF Crash
  <2>2. /\ RecordsOf(inFlight) \subseteq RecordsOf(inFlight') \cup lost'
        /\ lost \subseteq lost'
    BY <1>0, <1>11, CrashIs
  <2> QED
    BY <1>1, <2>1, <2>2
<1>12. ASSUME \/ \E t \in Threads :
                    \/ Connect(t) \/ PoolTimeout(t) \/ Flush(t)
                    \/ LockTimeout(t) \/ RollBack(t)
              \/ OpenSocket \/ CloseSocket
              \/ BlockLoop \/ UnblockLoop \/ LoopTimeout
              \/ UNCHANGED vars
       PROVE  EveryRecordAccounted'
  <2>1. UNCHANGED <<sampled, buffer, inFlight, lost, stored, shown>>
    BY <1>12 DEF Connect, PoolTimeout, Flush, LockTimeout, RollBack,
       OpenSocket, CloseSocket, BlockLoop, UnblockLoop, LoopTimeout, vars, sink
  <2> QED
    BY <1>1, <2>1
<1> QED
  BY <1>2, <1>3, <1>5, <1>6, <1>7, <1>8, <1>9, <1>10, <1>11, <1>12
     DEF Next, Works, Answers

LEMMA AlwaysAccounted == Spec => []AccountInv
<1>1. Init => AccountInv
  <2>1. Init => Underway
    BY DEF Init, Underway
  <2>2. Init => EveryRecordAccounted
    BY DEF Init, EveryRecordAccounted
  <2> QED
    BY <2>1, <2>2, TypeInit DEF AccountInv
<1>2. AccountInv /\ [Next]_vars => AccountInv'
  BY TypeStep, UnderwayStep, AccountStep DEF AccountInv
<1> QED
  BY <1>1, <1>2, PTL DEF Spec

\* No record is forgotten on the way, for any constants: one that is neither
\* stored and shown nor given up is still in the sink.
THEOREM Accounted == Spec => []EveryRecordAccounted
<1>1. AccountInv => EveryRecordAccounted
  BY DEF AccountInv
<1> QED
  BY <1>1, AlwaysAccounted, PTL

-----------------------------------------------------------------------------
\* How often.

\* The records in the sink differ from each other.
Distinct ==
    /\ \A i, j \in 1..Len(buffer) : buffer[i] = buffer[j] => i = j
    /\ Elements(buffer) \cup RecordsOf(inFlight) \subseteq 1..sampled
    /\ Elements(buffer) \cap RecordsOf(inFlight) = {}
    /\ \A b, c \in inFlight :
          b = c \/ Elements(b.records) \cap Elements(c.records) = {}

\* Of a record no answer about which was late or lost, the post that its batch
\* awaits is the only one there is, and it stores the record once.
Followed(r) ==
    /\ \A m \in wire : r \in Elements(m.records)
          => \E b \in inFlight : b.at = "wire" /\ m = PostOf(b)
    /\ \A t \in Threads : r \in Elements(work[t])
          => \E b \in inFlight : b.at = t
    /\ stored[r] <= 1
    /\ stored[r] = 1 =>
          /\ r \in (1..sampled) \ Elements(buffer)
          /\ \A b \in inFlight : r \in Elements(b.records)
                => b.at \in Threads /\ thread[b.at] = "stored"

OnceInv ==
    TypeInv /\ Distinct /\ \A r \in Records \ unheard : Followed(r)

LEMMA DistinctStep == TypeInv /\ Distinct /\ [Next]_vars => Distinct'
<1> SUFFICES ASSUME TypeInv, Distinct, [Next]_vars PROVE Distinct'
  OBVIOUS
<1>0. SinkTypes
  BY DEF TypeInv
<1> USE DEF Distinct
<1>1. CASE Sample
  <2>1. sampled \in Nat /\ MaxRecords \in Nat /\ sampled < MaxRecords
    BY <1>0, <1>1, Constants DEF SinkTypes, Sample
  <2>2. 1..sampled' = 1..sampled \cup {sampled + 1}
        /\ sampled + 1 \notin 1..sampled /\ sampled + 1 \in Records
    BY <1>1, <2>1 DEF Sample, Records
  <2>3. inFlight' = inFlight /\ RecordsOf(inFlight') = RecordsOf(inFlight)
    BY <1>1 DEF Sample
  <2>4. CASE buffer' = Append(buffer, sampled + 1)
    <3> DEFINE e == sampled + 1
    <3>1. buffer \in Seq(Records) /\ e \in Records
      BY <1>0, <2>2 DEF SinkTypes
    <3>2. e \notin Elements(buffer) /\ e \notin RecordsOf(inFlight)
      BY <2>2
    <3> HIDE DEF e
    <3>3. /\ Len(Append(buffer, e)) = Len(buffer) + 1
          /\ Elements(Append(buffer, e)) = Elements(buffer) \cup {e}
          /\ \A i \in 1..Len(buffer) : Append(buffer, e)[i] = buffer[i]
          /\ Append(buffer, e)[Len(buffer) + 1] = e
          /\ Len(buffer) \in Nat
      BY <3>1, AppendIs
    <3>4. \A i \in 1..Len(buffer) : buffer[i] # e
      BY <3>2 DEF Elements
    <3>5. buffer' = Append(buffer, e)
      BY <2>4 DEF e
    <3>6. \A i, j \in 1..Len(buffer') : buffer'[i] = buffer'[j] => i = j
      BY <3>3, <3>4, <3>5
    <3>7. Elements(buffer') = Elements(buffer) \cup {e}
      BY <3>3, <3>5
    <3>8. 1..sampled' = 1..sampled \cup {e}
      BY <2>2 DEF e
    <3> QED
      BY <2>3, <3>2, <3>6, <3>7, <3>8
  <2>5. CASE buffer' = buffer
    BY <2>2, <2>3, <2>5
  <2> QED
    BY <1>1, <2>4, <2>5 DEF Sample
<1>2. CASE PostBatch
  <2>1. buffer \in Seq(Records) /\ Len(buffer) \in Nat
    BY <1>0 DEF SinkTypes
  <2>1a. PICK n \in 1..Len(buffer) : \E b :
            /\ inFlight' = inFlight \cup {b}
            /\ b.records = SubSeq(buffer, 1, n)
            /\ buffer' = SubSeq(buffer, n + 1, Len(buffer))
            /\ Elements(buffer) = Elements(b.records) \cup Elements(buffer')
            /\ RecordsOf(inFlight') =
                   RecordsOf(inFlight) \cup Elements(b.records)
    BY <1>0, <1>2, PostIs
  <2>2. PICK b :
            /\ inFlight' = inFlight \cup {b}
            /\ b.records = SubSeq(buffer, 1, n)
            /\ buffer' = SubSeq(buffer, n + 1, Len(buffer))
            /\ Elements(buffer) = Elements(b.records) \cup Elements(buffer')
            /\ RecordsOf(inFlight') =
                   RecordsOf(inFlight) \cup Elements(b.records)
    BY <2>1a
  <2>3. /\ Len(b.records) = n /\ Len(buffer') = Len(buffer) - n
        /\ \A i \in 1..n : b.records[i] = buffer[i]
        /\ \A i \in 1..(Len(buffer) - n) : buffer'[i] = buffer[n + i]
    BY <2>1, <2>2, SplitIs
  <2>4. \A i, j \in 1..Len(buffer') : buffer'[i] = buffer'[j] => i = j
    <3> TAKE i, j \in 1..Len(buffer')
    <3>1. /\ n + i \in 1..Len(buffer) /\ n + j \in 1..Len(buffer)
          /\ buffer'[i] = buffer[n + i] /\ buffer'[j] = buffer[n + j]
      BY <2>1, <2>3
    <3>2. buffer'[i] = buffer'[j] => n + i = n + j
      BY <3>1
    <3>3. i \in Int /\ j \in Int
      OBVIOUS
    <3> QED
      BY <3>2, <3>3
  <2>5. Elements(buffer') \cap Elements(b.records) = {}
    <3>1. ASSUME NEW i \in 1..Len(b.records), NEW j \in 1..Len(buffer')
          PROVE  b.records[i] # buffer'[j]
      <4>1. /\ i \in 1..Len(buffer) /\ n + j \in 1..Len(buffer) /\ i # n + j
            /\ b.records[i] = buffer[i] /\ buffer'[j] = buffer[n + j]
        BY <2>1, <2>3, <3>1
      <4> QED
        BY <4>1
    <3> QED
      BY <3>1 DEF Elements
  <2>6. sampled' = sampled
    BY <1>2 DEF PostBatch
  <2>7. \A c \in inFlight : Elements(c.records) \subseteq RecordsOf(inFlight)
    BY DEF RecordsOf
  <2>8. \A c, d \in inFlight' :
            c = d \/ Elements(c.records) \cap Elements(d.records) = {}
    BY <2>2, <2>7
  <2> QED
    BY <2>2, <2>4, <2>5, <2>6, <2>8
\* The batches stay apart.
<1>3. ASSUME UNCHANGED <<sampled, buffer>>,
             \A c \in inFlight' :
                 \E b \in inFlight : c.records = b.records,
             \A c, d \in inFlight' :
                 \/ c = d
                 \/ \E b, e \in inFlight : /\ b # e /\ c.records = b.records
                                           /\ d.records = e.records
      PROVE  Distinct'
  <2>1. RecordsOf(inFlight') \subseteq RecordsOf(inFlight)
    BY <1>3 DEF RecordsOf
  <2>2. \A c, d \in inFlight' :
            c = d \/ Elements(c.records) \cap Elements(d.records) = {}
    <3> SUFFICES ASSUME NEW c \in inFlight', NEW d \in inFlight', c # d
                 PROVE  Elements(c.records) \cap Elements(d.records) = {}
      OBVIOUS
    <3>1. PICK b, e \in inFlight : /\ b # e /\ c.records = b.records
                                   /\ d.records = e.records
      BY <1>3
    <3> QED
      BY <3>1
  <2> QED
    BY <1>3, <2>1, <2>2
<1>4. ASSUME NEW b \in inFlight, NEW others, RetryOrGiveUp(b, others),
             UNCHANGED <<sampled, buffer>>
      PROVE  Distinct'
  <2>1. \A c \in inFlight' : c \in inFlight \ {b} \/ c = Again(b)
    BY <1>4, RetryIs
  <2>2. Again(b).records = b.records
    BY DEF Again, Posted
  <2>3. \A c, d \in inFlight' :
            \/ c = d
            \/ \E x, y \in inFlight : /\ x # y /\ c.records = x.records
                                      /\ d.records = y.records
    <3> TAKE c, d \in inFlight'
    <3>1. CASE c \in inFlight \ {b} /\ d \in inFlight \ {b}
      BY <3>1
    <3>2. CASE c = Again(b) /\ d \in inFlight \ {b}
      BY <2>2, <3>2
    <3>3. CASE c \in inFlight \ {b} /\ d = Again(b)
      BY <2>2, <3>3
    <3> QED
      BY <2>1, <3>1, <3>2, <3>3
  <2>4. \A c \in inFlight' : \E x \in inFlight : c.records = x.records
    BY <2>1, <2>2
  <2> QED
    BY <1>3, <1>4, <2>3, <2>4
<1>5. ASSUME NEW b \in inFlight, Unreachable(b) \/ TimeOut(b) PROVE Distinct'
  BY <1>4, <1>5 DEF Unreachable, TimeOut
<1>6. ASSUME inFlight' \subseteq inFlight, UNCHANGED <<sampled, buffer>>
      PROVE  Distinct'
  <2>1. RecordsOf(inFlight') \subseteq RecordsOf(inFlight)
    BY <1>6 DEF RecordsOf
  <2> QED
    BY <1>6, <2>1
<1>7. ASSUME NEW m \in wire, RefusePost(m) PROVE Distinct'
  BY <1>6, <1>7 DEF RefusePost
<1>8. ASSUME NEW m \in wire, NEW t \in Threads,
             TakePost(m, t) \/ ShowFails(m, t)
      PROVE  Distinct'
  <2>1. Taken(m, t) /\ UNCHANGED <<sampled, buffer>>
    BY <1>8 DEF TakePost, ShowFails
  <2> DEFINE taken == [records |-> m.records, posts |-> m.post, at |-> t]
  <2>2. \A c \in inFlight' : c \in inFlight \ Awaiting(m) \/ c = taken
    <3>1. \A b \in Awaiting(m) : b.records = m.records /\ b.posts = m.post
      BY DEF Awaiting, PostOf
    <3> QED
      BY <1>0, <2>1, <3>1, TakenIs
  <2>3. ASSUME taken \in inFlight' \ inFlight
        PROVE  \E b \in Awaiting(m) : b \in inFlight /\ b.records = m.records
    <3>1. PICK b \in Awaiting(m) :
              taken = [records |-> b.records, posts |-> b.posts, at |-> t]
      BY <1>0, <2>1, <2>3, TakenIs
    <3> QED
      BY <3>1 DEF Awaiting
  <2>4. taken.records = m.records
    OBVIOUS
  <2> HIDE DEF taken
  <2>5. \A c \in inFlight' : \E b \in inFlight : c.records = b.records
    BY <2>2, <2>3, <2>4
  <2>6. \A c, d \in inFlight' :
            \/ c = d
            \/ \E x, y \in inFlight : /\ x # y /\ c.records = x.records
                                      /\ d.records = y.records
    <3> TAKE c, d \in inFlight'
    <3>1. CASE c \in inFlight /\ d \in inFlight
      BY <3>1
    <3>2. CASE c \notin inFlight /\ d \in inFlight \ Awaiting(m)
      BY <2>2, <2>3, <2>4, <3>2
    <3>3. CASE c \in inFlight \ Awaiting(m) /\ d \notin inFlight
      BY <2>2, <2>3, <2>4, <3>3
    <3>4. ASSUME NEW x \in inFlight', x \in inFlight, taken \notin inFlight
          PROVE  x \in inFlight \ Awaiting(m)
      BY <2>2, <3>4
    <3> QED
      BY <2>2, <3>1, <3>2, <3>3, <3>4
  <2> QED
    BY <1>3, <2>1, <2>5, <2>6
<1>9. ASSUME NEW t \in Threads, Accept(t) PROVE Distinct'
  BY <1>6, <1>9 DEF Accept
<1>10. ASSUME NEW t \in Threads, Reject(t) PROVE Distinct'
  <2>1. UNCHANGED <<sampled, buffer>>
    BY <1>10 DEF Reject
  <2>2. ASSUME NEW b \in AwaitingThread(t), RetryOrGiveUp(b, wire)
        PROVE  Distinct'
    <3>1. b \in inFlight
      BY DEF AwaitingThread
    <3> QED
      BY <1>4, <2>1, <2>2, <3>1
  <2>3. CASE UNCHANGED <<inFlight, lost, wire>>
    BY <1>6, <2>1, <2>3
  <2> QED
    BY <1>10, <2>2, <2>3 DEF Reject
<1>11. CASE Crash
  <2>1. \A c \in inFlight' : \E b \in inFlight : c = Again(b)
    BY <1>0, <1>11, CrashIs
  <2>2. \A b \in inFlight : Again(b).records = b.records
    BY DEF Again, Posted
  <2>3. \A c \in inFlight' : \E b \in inFlight : c.records = b.records
    BY <2>1, <2>2
  <2>4. \A c, d \in inFlight' :
            \/ c = d
            \/ \E x, y \in inFlight : /\ x # y /\ c.records = x.records
                                      /\ d.records = y.records
    BY <2>1, <2>2
  <2> QED
    BY <1>3, <1>11, <2>3, <2>4 DEF Crash
<1>12. ASSUME \/ \E t \in Threads : Works(t)
              \/ OpenSocket \/ CloseSocket
              \/ BlockLoop \/ UnblockLoop \/ LoopTimeout
              \/ UNCHANGED vars
       PROVE  Distinct'
  <2>1. UNCHANGED <<sampled, buffer, inFlight>>
    BY <1>12 DEF Works, Connect, PoolTimeout, Flush, LockTimeout, Commit,
       RollBack, OpenSocket, CloseSocket, BlockLoop, UnblockLoop, LoopTimeout,
       vars, sink
  <2> QED
    BY <1>6, <2>1
<1> QED
  BY <1>1, <1>2, <1>5, <1>7, <1>8, <1>9, <1>10, <1>11, <1>12
     DEF Next, Answers

LEMMA UnheardGrows == [Next]_vars => unheard \subseteq unheard'
BY DEF Next, Works, Answers, Sample, PostBatch, Unreachable, TimeOut,
   RefusePost, TakePost, ShowFails, Connect, PoolTimeout, Flush, LockTimeout,
   Commit, RollBack, Accept, Reject, OpenSocket, CloseSocket, BlockLoop,
   UnblockLoop, LoopTimeout, Crash, vars

LEMMA FollowedStep ==
    ASSUME OnceInv, [Next]_vars, NEW r \in Records \ unheard'
    PROVE  Followed(r)'
<1>0. /\ SinkTypes /\ Working /\ AwaitsOne /\ Distinct
      /\ thread \in [Threads -> Stages]
      /\ work \in [Threads -> Seq(Records)]
      /\ stored \in [Records -> Nat]
  BY DEF OnceInv, TypeInv, ServerTypes, TableTypes
<1>a. "wire" \notin Threads
  BY Constants
<1>b. unheard \subseteq unheard'
  BY UnheardGrows
<1>c. r \in Records /\ r \notin unheard /\ Followed(r)
  BY <1>b DEF OnceInv
\* A post with the record is one of its batch, and only one batch has it.
<1>d. /\ \A m \in wire : r \in Elements(m.records)
            => \E b \in inFlight : /\ b.at = "wire" /\ m = PostOf(b)
                                   /\ r \in Elements(b.records)
      /\ \A t \in Threads : r \in Elements(work[t])
            => \E b \in inFlight : b.at = t /\ r \in Elements(b.records)
      /\ \A b, c \in inFlight :
            (r \in Elements(b.records) /\ r \in Elements(c.records)) => b = c
  <2>1. \A m \in wire : r \in Elements(m.records)
            => \E b \in inFlight : /\ b.at = "wire" /\ m = PostOf(b)
                                   /\ r \in Elements(b.records)
    BY <1>c DEF Followed, PostOf
  <2>2. ASSUME NEW t \in Threads, r \in Elements(work[t])
        PROVE  \E b \in inFlight : b.at = t /\ r \in Elements(b.records)
    <3>1. work[t] # <<>>
      BY <2>2, EmptyElements
    <3>2. PICK b \in inFlight : b.at = t
      BY <1>c, <2>2 DEF Followed
    <3>3. work[t] = b.records
      BY <1>0, <3>1, <3>2 DEF AwaitsOne
    <3> QED
      BY <2>2, <3>2, <3>3
  <2>3. \A b, c \in inFlight :
            (r \in Elements(b.records) /\ r \in Elements(c.records)) => b = c
    BY <1>0 DEF Distinct
  <2> QED
    BY <2>1, <2>2, <2>3
<1> USE DEF Followed
\* A post of b has failed before the record was stored.
<1>1. ASSUME NEW b \in inFlight, NEW others \in SUBSET wire,
             RetryOrGiveUp(b, others),
             \A m \in others : r \in Elements(m.records) => m # PostOf(b),
             \A t \in Threads : r \in Elements(work[t]) => b.at # t,
             \A t \in Threads : thread[t] = "stored" => thread'[t] = "stored",
             stored[r] = 1 => r \notin Elements(b.records),
             UNCHANGED <<sampled, buffer, work, stored>>
      PROVE  Followed(r)'
  <2>1. /\ \A c \in inFlight' : c \in inFlight \ {b} \/ c = Again(b)
        /\ \A c \in inFlight : c # b => c \in inFlight'
        /\ \A m \in wire' :
              \/ m \in others
              \/ m = PostOf(Again(b)) /\ Again(b) \in inFlight'
    BY <1>1, RetryIs
  <2>2. Again(b).records = b.records /\ Again(b).at = "wire"
    BY DEF Again, Posted
  <2>3. ASSUME NEW m \in wire', r \in Elements(m.records)
        PROVE  \E c \in inFlight' : c.at = "wire" /\ m = PostOf(c)
    <3>1. CASE m \in others
      <4>1. PICK c \in inFlight : c.at = "wire" /\ m = PostOf(c)
        BY <1>1, <1>d, <2>3, <3>1
      <4>2. c # b
        BY <1>1, <2>3, <3>1, <4>1
      <4> QED
        BY <2>1, <4>1, <4>2
    <3>2. CASE m = PostOf(Again(b)) /\ Again(b) \in inFlight'
      BY <2>2, <3>2
    <3> QED
      BY <2>1, <3>1, <3>2
  <2>4. ASSUME NEW t \in Threads, r \in Elements(work'[t])
        PROVE  \E c \in inFlight' : c.at = t
    <3>1. r \in Elements(work[t])
      BY <1>1, <2>4
    <3>2. PICK c \in inFlight : c.at = t
      BY <1>c, <3>1
    <3>3. c # b
      BY <1>1, <3>1, <3>2
    <3> QED
      BY <2>1, <3>2, <3>3
  <2>5. ASSUME stored[r] = 1, NEW c \in inFlight', r \in Elements(c.records)
        PROVE  c.at \in Threads /\ thread'[c.at] = "stored"
    <3>1. c \in inFlight
      BY <1>1, <2>1, <2>2, <2>5
    <3> QED
      BY <1>1, <1>c, <2>5, <3>1
  <2> QED
    BY <1>1, <1>c, <2>3, <2>4, <2>5
\* Batches without the record, or their posts, have gone.
<1>2. ASSUME inFlight' \subseteq inFlight, wire' \subseteq wire,
             \A m \in wire', b \in inFlight \ inFlight' :
                 ~(b.at = "wire" /\ m = PostOf(b)),
             \A b \in inFlight \ inFlight', t \in Threads :
                 r \in Elements(work[t]) => b.at # t,
             \A b \in inFlight' : (b.at \in Threads /\ thread[b.at] = "stored")
                 => thread'[b.at] = "stored",
             UNCHANGED <<sampled, buffer, work, stored>>
      PROVE  Followed(r)'
  <2>1. \A m \in wire' : r \in Elements(m.records)
            => \E b \in inFlight' : b.at = "wire" /\ m = PostOf(b)
    BY <1>2, <1>c
  <2>2. \A t \in Threads : r \in Elements(work'[t])
            => \E b \in inFlight' : b.at = t
    BY <1>2, <1>c
  <2>3. stored[r] = 1 => \A b \in inFlight' : r \in Elements(b.records)
            => b.at \in Threads /\ thread'[b.at] = "stored"
    BY <1>2, <1>c
  <2> QED
    BY <1>2, <1>c, <2>1, <2>2, <2>3
<1>3. CASE Sample
  <2>1. sampled \in Nat /\ sampled' = sampled + 1
        /\ buffer \in Seq(Records) /\ sampled + 1 \in Records
    BY <1>0, <1>3, Constants DEF SinkTypes, Sample, Records
  <2>2. Elements(buffer') \subseteq Elements(buffer) \cup {sampled + 1}
    BY <1>3, <2>1, AppendIs DEF Sample
  <2>3. r \in (1..sampled) \ Elements(buffer)
            => r \in (1..sampled') \ Elements(buffer')
    BY <2>1, <2>2
  <2>4. UNCHANGED <<wire, inFlight, thread, work, stored>>
    BY <1>3 DEF Sample, server
  <2> QED
    BY <1>c, <2>3, <2>4
<1>4. CASE PostBatch
  <2>1. UNCHANGED <<sampled, thread, work, stored>>
    BY <1>4 DEF PostBatch, server
  <2>2. PICK b : /\ inFlight' = inFlight \cup {b}
                 /\ wire' = wire \cup {PostOf(b)} /\ b.at = "wire"
                 /\ Elements(buffer) = Elements(b.records) \cup Elements(buffer')
    BY <1>0, <1>4, PostIs
  <2> QED
    BY <1>c, <2>1, <2>2
<1>5. ASSUME NEW b \in inFlight, Unreachable(b) PROVE Followed(r)'
  <2>1. /\ b.at = "wire" /\ RetryOrGiveUp(b, wire \ {PostOf(b)})
        /\ wire \ {PostOf(b)} \in SUBSET wire
        /\ UNCHANGED <<sampled, buffer, thread, work, stored>>
    BY <1>5 DEF Unreachable, server
  <2>2. /\ \A t \in Threads : b.at # t
        /\ stored[r] = 1 => r \notin Elements(b.records)
    BY <1>a, <1>c, <2>1
  <2> QED
    BY <1>1, <2>1, <2>2
<1>6. ASSUME NEW b \in inFlight, TimeOut(b) PROVE Followed(r)'
  <2>1. /\ RetryOrGiveUp(b, wire) /\ wire \in SUBSET wire
        /\ r \notin Elements(b.records)
        /\ UNCHANGED <<sampled, buffer, thread, work, stored>>
    BY <1>6 DEF TimeOut, server
  <2>2. \A m \in wire : r \in Elements(m.records) => m # PostOf(b)
    BY <2>1 DEF PostOf
  <2>3. ASSUME NEW t \in Threads, r \in Elements(work[t]) PROVE b.at # t
    <3>1. work[t] # <<>>
      BY <2>3, EmptyElements
    <3> QED
      BY <1>0, <2>1, <2>3, <3>1 DEF AwaitsOne
  <2> QED
    BY <1>1, <2>1, <2>2, <2>3
<1>7. ASSUME NEW m \in wire, RefusePost(m) PROVE Followed(r)'
  <2>1. /\ wire' = wire \ {m} /\ inFlight' = inFlight \ Awaiting(m)
        /\ UNCHANGED <<sampled, buffer, thread, work, stored>>
    BY <1>7 DEF RefusePost, server
  <2>2. \A b \in inFlight \ inFlight' : b.at = "wire" /\ m = PostOf(b)
    BY <2>1 DEF Awaiting
  <2> QED
    BY <1>2, <1>a, <2>1, <2>2
<1>8. ASSUME NEW m \in wire, NEW t \in Threads, Taken(m, t),
             thread' = [thread EXCEPT ![t] = "connect"]
                 \/ thread' = [thread EXCEPT ![t] = "failed"],
             \A u \in Threads : u # t => work'[u] = work[u],
             work'[t] \in {m.records, <<>>},
             UNCHANGED <<sampled, buffer, stored>>
      PROVE  Followed(r)'
  <2> DEFINE taken == [records |-> m.records, posts |-> m.post, at |-> t]
  <2>1. wire' = wire \ {m}
    BY <1>8 DEF Taken
  <2>2. \A b \in inFlight : b.at # t
    BY <1>0, <1>8, TakenAt
  <2>3. \A b \in inFlight \ Awaiting(m) : b \in inFlight'
    BY <1>0, <1>8, TakenIs
  <2>4. \A b \in Awaiting(m) : /\ b \in inFlight /\ b.at = "wire"
                               /\ m = PostOf(b)
    BY DEF Awaiting
  <2>5. ASSUME NEW b \in inFlight, b.at = "wire", m = PostOf(b)
        PROVE  \E c \in inFlight' : c.at = t
    <3>1. b \in Awaiting(m)
      BY <2>5 DEF Awaiting
    <3>2. [records |-> b.records, posts |-> b.posts, at |-> t] \in inFlight'
      BY <1>0, <1>8, <3>1, TakenIs
    <3> QED
      BY <3>2
  <2>6. ASSUME NEW x \in wire', r \in Elements(x.records)
        PROVE  \E c \in inFlight' : c.at = "wire" /\ x = PostOf(c)
    <3>1. PICK c \in inFlight : c.at = "wire" /\ x = PostOf(c)
      BY <1>c, <2>1, <2>6
    <3>2. c \notin Awaiting(m)
      BY <2>1, <2>4, <2>6, <3>1
    <3> QED
      BY <2>3, <3>1, <3>2
  <2>7. ASSUME NEW u \in Threads, r \in Elements(work'[u])
        PROVE  \E c \in inFlight' : c.at = u
    <3>1. CASE u = t
      <4>1. r \in Elements(m.records)
        BY <1>8, <2>7, <3>1, EmptyElements
      <4> QED
        BY <1>c, <2>5, <3>1, <4>1
    <3>2. CASE u # t
      <4>1. PICK c \in inFlight : c.at = u
        BY <1>8, <1>c, <2>7, <3>2
      <4>2. c \notin Awaiting(m)
        BY <1>a, <2>4, <4>1
      <4> QED
        BY <2>3, <4>1, <4>2
    <3> QED
      BY <3>1, <3>2
  <2>8. ASSUME stored[r] = 1, NEW c \in inFlight', r \in Elements(c.records)
        PROVE  c.at \in Threads /\ thread'[c.at] = "stored"
    <3>1. CASE c \in inFlight
      <4>1. c.at \in Threads /\ thread[c.at] = "stored" /\ c.at # t
        BY <1>c, <2>2, <2>8, <3>1
      <4> QED
        BY <1>0, <1>8, <4>1
    <3>2. CASE c \notin inFlight
      <4>1. PICK b \in Awaiting(m) :
                c = [records |-> b.records, posts |-> b.posts, at |-> t]
        BY <1>0, <1>8, <3>2, TakenIs
      <4>2. b \in inFlight /\ b.at = "wire" /\ r \in Elements(b.records)
        BY <2>4, <2>8, <4>1
      <4> QED
        BY <1>a, <1>c, <2>8, <4>2
    <3> QED
      BY <3>1, <3>2
  <2> QED
    BY <1>8, <1>c, <2>6, <2>7, <2>8
<1>9. ASSUME NEW m \in wire, NEW t \in Threads,
             TakePost(m, t) \/ ShowFails(m, t)
      PROVE  Followed(r)'
  <2>1. CASE TakePost(m, t)
    BY <1>0, <1>8, <2>1 DEF TakePost
  <2>2. CASE ShowFails(m, t)
    <3>1. work[t] = <<>>
      BY <1>0, <2>2 DEF ShowFails, Taken, Working
    <3> QED
      BY <1>0, <1>8, <2>2, <3>1 DEF ShowFails
  <2> QED
    BY <1>9, <2>1, <2>2
<1>10. ASSUME NEW t \in Threads, NEW next,
              thread[t] # "stored", thread' = [thread EXCEPT ![t] = next],
              UNCHANGED <<sink, wire, stored>>,
              \A u \in Threads : Elements(work'[u]) \subseteq Elements(work[u])
       PROVE  Followed(r)'
  <2>1. UNCHANGED <<sampled, buffer, inFlight>>
    BY <1>10 DEF sink
  <2>2. \A u \in Threads : thread[u] = "stored" => thread'[u] = "stored"
    BY <1>0, <1>10
  <2> QED
    BY <1>c, <1>10, <2>1, <2>2
<1>11. ASSUME NEW t \in Threads, Connect(t) \/ Flush(t) PROVE Followed(r)'
  BY <1>10, <1>11 DEF Connect, Flush
<1>12. ASSUME NEW t \in Threads,
              PoolTimeout(t) \/ LockTimeout(t) \/ RollBack(t)
       PROVE  Followed(r)'
  <2>1. /\ thread[t] \in {"connect", "flush", "commit"}
        /\ Turns(t, "failed")
        /\ UNCHANGED <<sink, wire, stored>>
    BY <1>12 DEF PoolTimeout, LockTimeout, RollBack
  <2>2. \A u \in Threads : Elements(work'[u]) \subseteq Elements(work[u])
    BY <1>0, <2>1, EmptyElements DEF Turns
  <2> QED
    BY <1>10, <2>1, <2>2 DEF Turns
<1>13. ASSUME NEW t \in Threads, Commit(t) PROVE Followed(r)'
  <2>1. /\ thread[t] = "commit" /\ Turns(t, "stored")
        /\ stored' = Counted(stored, work[t])
        /\ UNCHANGED <<sampled, buffer, inFlight, wire>>
    BY <1>13 DEF Commit, sink
  <2>2. stored'[r] = stored[r] + (IF r \in Elements(work[t]) THEN 1 ELSE 0)
    BY <1>c, <2>1 DEF Counted
  <2>3. \A u \in Threads : r \in Elements(work'[u])
            => \E b \in inFlight' : b.at = u
    BY <1>0, <1>c, <2>1, EmptyElements DEF Turns
  <2>4. \A u \in Threads : thread[u] = "stored" => thread'[u] = "stored"
    BY <1>0, <2>1 DEF Turns
  <2>5. CASE r \in Elements(work[t])
    <3>1. PICK b \in inFlight : b.at = t /\ r \in Elements(b.records)
      BY <1>d, <2>5
    <3>2. stored[r] = 0
      BY <1>0, <1>c, <2>1, <3>1
    <3>3. r \in (1..sampled) \ Elements(buffer)
      BY <1>0, <3>1 DEF Distinct, RecordsOf
    <3>4. thread'[t] = "stored"
      BY <1>0, <2>1 DEF Turns
    <3>5. \A c \in inFlight' : r \in Elements(c.records)
              => c.at \in Threads /\ thread'[c.at] = "stored"
      BY <1>d, <2>1, <3>1, <3>4
    <3> QED
      BY <1>c, <2>1, <2>2, <2>3, <2>5, <3>2, <3>3, <3>5
  <2>6. CASE r \notin Elements(work[t])
    <3>1. stored'[r] = stored[r]
      BY <1>0, <1>c, <2>2, <2>6
    <3> QED
      BY <1>c, <2>1, <2>3, <2>4, <3>1
  <2> QED
    BY <2>5, <2>6
<1>14. ASSUME NEW t \in Threads, Accept(t) PROVE Followed(r)'
  <2>1. /\ thread[t] = "stored" /\ thread' = [thread EXCEPT ![t] = "idle"]
        /\ inFlight' = inFlight \ AwaitingThread(t)
        /\ UNCHANGED <<sampled, buffer, wire, work, stored>>
    BY <1>14 DEF Accept
  <2>2. r \notin Elements(work[t])
    BY <1>0, <2>1, EmptyElements DEF Working
  <2>3. \A b \in inFlight \ inFlight' : b.at = t
    BY <2>1 DEF AwaitingThread
  <2>4. \A b \in inFlight' : b \in inFlight /\ b.at # t
    BY <2>1 DEF AwaitingThread
  <2> QED
    BY <1>0, <1>2, <1>a, <2>1, <2>2, <2>3, <2>4
<1>15. ASSUME NEW t \in Threads, Reject(t) PROVE Followed(r)'
  <2>1. /\ thread[t] = "failed" /\ thread' = [thread EXCEPT ![t] = "idle"]
        /\ UNCHANGED <<sampled, buffer, work, stored>>
    BY <1>15 DEF Reject
  <2>2. r \notin Elements(work[t])
    BY <1>0, <2>1, EmptyElements DEF Working
  <2>3. \A u \in Threads : thread[u] = "stored" => thread'[u] = "stored"
    BY <1>0, <2>1
  <2>4. ASSUME NEW b \in AwaitingThread(t), RetryOrGiveUp(b, wire)
        PROVE  Followed(r)'
    <3>1. b \in inFlight /\ b.at = t /\ wire \in SUBSET wire
      BY DEF AwaitingThread
    <3>2. stored[r] = 1 => r \notin Elements(b.records)
      BY <1>c, <2>1, <3>1
    <3>3. ASSUME NEW m \in wire, r \in Elements(m.records)
          PROVE  m # PostOf(b)
      <4>1. PICK c \in inFlight : /\ c.at = "wire" /\ m = PostOf(c)
                                  /\ r \in Elements(c.records)
        BY <1>d, <3>3
      <4>2. c # b
        BY <1>a, <3>1, <4>1
      <4>3. r \notin Elements(b.records)
        BY <1>d, <3>1, <4>1, <4>2
      <4> QED
        BY <3>3, <4>3 DEF PostOf
    <3> QED
      BY <1>1, <2>1, <2>2, <2>3, <2>4, <3>1, <3>2, <3>3
  <2>5. CASE AwaitingThread(t) = {} /\ UNCHANGED <<inFlight, lost, wire>>
    BY <1>2, <2>1, <2>3, <2>5
  <2> QED
    BY <1>15, <2>4, <2>5 DEF Reject
<1>16. CASE Crash
  <2>1. /\ work' = [t \in Threads |-> <<>>]
        /\ r \notin RecordsOf(inFlight)
        /\ UNCHANGED <<sampled, buffer, stored>>
    BY <1>16 DEF Crash
  <2>2. \A t \in Threads : r \notin Elements(work'[t])
    BY <2>1, EmptyElements
  <2>3. \A b \in inFlight : r \notin Elements(b.records)
    BY <2>1 DEF RecordsOf
  <2>4. \A b \in inFlight : /\ Again(b).records = b.records
                            /\ PostOf(Again(b)).records = b.records
    BY DEF Again, Posted, PostOf
  <2>5. \A c \in inFlight' : r \notin Elements(c.records)
    BY <1>0, <1>16, <2>3, <2>4, CrashIs
  <2>6. \A m \in wire' : r \notin Elements(m.records)
    BY <1>0, <1>16, <2>3, <2>4, CrashIs
  <2> QED
    BY <1>c, <2>1, <2>2, <2>5, <2>6
<1>17. ASSUME \/ OpenSocket \/ CloseSocket
              \/ BlockLoop \/ UnblockLoop \/ LoopTimeout
              \/ UNCHANGED vars
       PROVE  Followed(r)'
  <2>1. UNCHANGED <<sampled, buffer, inFlight, wire, thread, work, stored>>
    BY <1>17 DEF OpenSocket, CloseSocket, BlockLoop, UnblockLoop, LoopTimeout,
       vars, sink, server
  <2> QED
    BY <1>c, <2>1
<1> QED
  BY <1>3, <1>4, <1>5, <1>6, <1>7, <1>9, <1>11, <1>12, <1>13, <1>14, <1>15,
     <1>16, <1>17 DEF Next, Works, Answers

\* What the sink has given up is nowhere, neither in the sink nor stored.
Absent(r) ==
    r \in lost => /\ r \in (1..sampled) \ Elements(buffer)
                  /\ r \notin RecordsOf(inFlight)
                  /\ stored[r] = 0

LEMMA AbsentStep ==
    ASSUME OnceInv, [Next]_vars, NEW r \in Records \ unheard', Absent(r)
    PROVE  Absent(r)'
<1>0. /\ SinkTypes /\ Working /\ AwaitsOne /\ Distinct
      /\ stored \in [Records -> Nat]
  BY DEF OnceInv, TypeInv, TableTypes
<1>a. "wire" \notin Threads
  BY Constants
<1>b. unheard \subseteq unheard'
  BY UnheardGrows
<1>c. r \in Records /\ Followed(r)
  BY <1>b DEF OnceInv
<1> USE DEF Absent
\* Only a batch that was not stored is given up, and no other has the record.
<1>1. ASSUME UNCHANGED <<sampled, buffer, stored>>,
             RecordsOf(inFlight') \subseteq RecordsOf(inFlight),
             r \in lost' \ lost =>
                 /\ r \in RecordsOf(inFlight) \ RecordsOf(inFlight')
                 /\ stored[r] # 1
      PROVE  Absent(r)'
  <2>1. CASE r \in lost' \ lost
    <3>1. r \in (1..sampled) \ Elements(buffer)
      BY <1>0, <1>1, <2>1 DEF Distinct
    <3>2. stored[r] = 0
      BY <1>0, <1>1, <1>c, <2>1 DEF Followed
    <3> QED
      BY <1>1, <2>1, <3>1, <3>2
  <2>2. CASE r \notin lost' \ lost
    BY <1>1, <2>2
  <2> QED
    BY <2>1, <2>2
<1>2. ASSUME NEW b \in inFlight, NEW others, RetryOrGiveUp(b, others),
             UNCHANGED <<sampled, buffer, stored>>,
             stored[r] = 1 => r \notin Elements(b.records)
      PROVE  Absent(r)'
  <2>1. RecordsOf(inFlight') \subseteq RecordsOf(inFlight)
    BY <1>2, RetryRecords
  <2>2. ASSUME r \in lost' \ lost
        PROVE  /\ r \in RecordsOf(inFlight) \ RecordsOf(inFlight')
               /\ stored[r] # 1
    <3>1. inFlight' = inFlight \ {b} /\ r \in Elements(b.records)
      BY <1>2, <2>2 DEF RetryOrGiveUp, GiveUp
    <3>2. r \in RecordsOf(inFlight)
      BY <3>1 DEF RecordsOf
    <3>3. r \notin RecordsOf(inFlight')
      BY <1>0, <3>1 DEF Distinct, RecordsOf
    <3> QED
      BY <1>2, <3>1, <3>2, <3>3
  <2> QED
    BY <1>1, <1>2, <2>1, <2>2
<1>3. CASE Sample
  <2>1. sampled \in Nat /\ sampled' = sampled + 1
        /\ buffer \in Seq(Records) /\ sampled + 1 \in Records
    BY <1>0, <1>3, Constants DEF SinkTypes, Sample, Records
  <2>2. UNCHANGED <<inFlight, stored>>
    BY <1>3 DEF Sample
  <2>3. CASE r = sampled + 1
    <3>1. r \notin 1..sampled /\ r \in 1..sampled'
      BY <2>1, <2>3
    <3>2. r \notin Elements(buffer) /\ r \notin RecordsOf(inFlight)
      BY <1>0, <3>1 DEF Distinct
    <3>3. stored[r] = 0
      BY <1>0, <1>c, <3>1 DEF Followed
    <3>4. r \in lost' => buffer' = buffer
      <4>1. r \notin lost
        BY <3>1
      <4> QED
        BY <1>3, <4>1 DEF Sample
    <3> QED
      BY <2>2, <3>1, <3>2, <3>3, <3>4
  <2>4. CASE r # sampled + 1
    <3>1. r \in lost' => r \in lost
      BY <1>3, <2>4 DEF Sample
    <3>2. Elements(buffer') \subseteq Elements(buffer) \cup {sampled + 1}
      BY <1>3, <2>1, AppendIs DEF Sample
    <3>3. r \in 1..sampled => r \in 1..sampled'
      BY <2>1
    <3> QED
      BY <2>2, <2>4, <3>1, <3>2, <3>3
  <2> QED
    BY <2>3, <2>4
<1>4. CASE PostBatch
  <2>1. UNCHANGED <<sampled, lost, stored>>
    BY <1>4 DEF PostBatch
  <2>2. /\ RecordsOf(inFlight')
               \subseteq RecordsOf(inFlight) \cup Elements(buffer)
        /\ Elements(buffer') \subseteq Elements(buffer)
    BY <1>0, <1>4, PostIs
  <2> QED
    BY <2>1, <2>2
<1>5. ASSUME NEW b \in inFlight, Unreachable(b) PROVE Absent(r)'
  <2>1. stored[r] = 1 => r \notin Elements(b.records)
    BY <1>5, <1>a, <1>c DEF Unreachable, Followed
  <2> QED
    BY <1>2, <1>5, <2>1 DEF Unreachable
<1>6. ASSUME NEW b \in inFlight, TimeOut(b) PROVE Absent(r)'
  BY <1>2, <1>6 DEF TimeOut
<1>7. ASSUME NEW m \in wire, RefusePost(m) PROVE Absent(r)'
  <2>1. /\ inFlight' = inFlight \ Awaiting(m)
        /\ lost' = lost \cup RecordsOf(Awaiting(m))
        /\ UNCHANGED <<sampled, buffer, stored>>
    BY <1>7 DEF RefusePost
  <2>2. RecordsOf(inFlight') \subseteq RecordsOf(inFlight)
    BY <2>1 DEF RecordsOf
  <2>3. ASSUME r \in lost' \ lost
        PROVE  /\ r \in RecordsOf(inFlight) \ RecordsOf(inFlight')
               /\ stored[r] # 1
    <3>1. PICK b \in Awaiting(m) : r \in Elements(b.records)
      BY <2>1, <2>3 DEF RecordsOf
    <3>2. b \in inFlight /\ b.at = "wire" /\ b \notin inFlight'
      BY <2>1 DEF Awaiting
    <3>3. r \in RecordsOf(inFlight)
      BY <3>1, <3>2 DEF RecordsOf
    <3>4. r \notin RecordsOf(inFlight')
      BY <1>0, <2>1, <3>1, <3>2 DEF Distinct, RecordsOf
    <3>5. stored[r] # 1
      BY <1>a, <1>c, <3>1, <3>2 DEF Followed
    <3> QED
      BY <3>3, <3>4, <3>5
  <2> QED
    BY <1>1, <2>1, <2>2, <2>3
<1>8. ASSUME NEW m \in wire, NEW t \in Threads,
             TakePost(m, t) \/ ShowFails(m, t)
      PROVE  Absent(r)'
  <2>1. Taken(m, t) /\ UNCHANGED <<sampled, buffer, lost, stored>>
    BY <1>8 DEF TakePost, ShowFails
  <2>2. RecordsOf(inFlight') = RecordsOf(inFlight)
    BY <1>0, <2>1, TakenIs
  <2> QED
    BY <1>1, <2>1, <2>2
<1>9. ASSUME NEW t \in Threads, Commit(t) PROVE Absent(r)'
  <2>1. stored' = Counted(stored, work[t])
        /\ UNCHANGED <<sampled, buffer, inFlight, lost>>
    BY <1>9 DEF Commit, sink
  <2>2. ASSUME r \in Elements(work[t]) PROVE r \in RecordsOf(inFlight)
    <3>1. PICK b \in inFlight : b.at = t
      BY <1>c, <2>2 DEF Followed
    <3>2. work[t] # <<>>
      BY <2>2, EmptyElements
    <3>3. work[t] = b.records
      BY <1>0, <3>1, <3>2 DEF AwaitsOne
    <3> QED
      BY <2>2, <3>1, <3>3 DEF RecordsOf
  <2>3. r \notin Elements(work[t]) => stored'[r] = stored[r]
    BY <1>0, <1>c, <2>1 DEF Counted
  <2>4. RecordsOf(inFlight') = RecordsOf(inFlight)
    BY <2>1
  <2> QED
    BY <2>1, <2>2, <2>3, <2>4
<1>10. ASSUME NEW t \in Threads, Accept(t) PROVE Absent(r)'
  <2>1. /\ inFlight' \subseteq inFlight
        /\ UNCHANGED <<sampled, buffer, lost, stored>>
    BY <1>10 DEF Accept
  <2>2. RecordsOf(inFlight') \subseteq RecordsOf(inFlight)
    BY <2>1 DEF RecordsOf
  <2> QED
    BY <1>1, <2>1, <2>2
<1>11. ASSUME NEW t \in Threads, Reject(t) PROVE Absent(r)'
  <2>1. thread[t] = "failed" /\ UNCHANGED <<sampled, buffer, stored>>
    BY <1>11 DEF Reject
  <2>2. ASSUME NEW b \in AwaitingThread(t), RetryOrGiveUp(b, wire)
        PROVE  Absent(r)'
    <3>1. b \in inFlight /\ b.at = t
      BY DEF AwaitingThread
    <3>2. stored[r] = 1 => r \notin Elements(b.records)
      BY <1>c, <2>1, <3>1 DEF Followed
    <3> QED
      BY <1>2, <2>1, <2>2, <3>1, <3>2
  <2>3. CASE UNCHANGED <<inFlight, lost, wire>>
    BY <1>1, <2>1, <2>3
  <2> QED
    BY <1>11, <2>2, <2>3 DEF Reject
<1>12. CASE Crash
  <2>1. /\ UNCHANGED <<sampled, buffer, stored>>
        /\ r \notin RecordsOf(inFlight)
    BY <1>12 DEF Crash
  <2>2. /\ RecordsOf(inFlight') \subseteq RecordsOf(inFlight)
        /\ lost' \subseteq lost \cup RecordsOf(inFlight)
    BY <1>0, <1>12, CrashIs
  <2> QED
    BY <1>1, <2>1, <2>2
<1>13. ASSUME \/ \E t \in Threads :
                    \/ Connect(t) \/ PoolTimeout(t) \/ Flush(t)
                    \/ LockTimeout(t) \/ RollBack(t)
              \/ OpenSocket \/ CloseSocket
              \/ BlockLoop \/ UnblockLoop \/ LoopTimeout
              \/ UNCHANGED vars
       PROVE  Absent(r)'
  <2>1. UNCHANGED <<sampled, buffer, inFlight, lost, stored>>
    BY <1>13 DEF Connect, PoolTimeout, Flush, LockTimeout, RollBack,
       OpenSocket, CloseSocket, BlockLoop, UnblockLoop, LoopTimeout, vars, sink
  <2> QED
    BY <1>1, <2>1
<1> QED
  BY <1>3, <1>4, <1>5, <1>6, <1>7, <1>8, <1>9, <1>10, <1>11, <1>12, <1>13
     DEF Next, Works, Answers

OnceOrLostInv == OnceInv /\ \A r \in Records \ unheard : Absent(r)

\* A record is stored once or given up, and not both, unless an answer about it
\* was late or lost, for any constants.
THEOREM ExactlyOnce == Spec => []ExactlyOnceUnlessUnheard
<1>1. Init => OnceOrLostInv
  <2> SUFFICES ASSUME Init PROVE OnceOrLostInv
    OBVIOUS
  <2>1. Distinct
    BY EmptyElements, EmptySeq DEF Init, Distinct, RecordsOf
  <2>2. \A r \in Records : Followed(r) /\ Absent(r)
    BY EmptyElements DEF Init, Followed, Absent
  <2> QED
    BY <2>1, <2>2, TypeInit DEF OnceOrLostInv, OnceInv
<1>2. OnceOrLostInv /\ [Next]_vars => OnceOrLostInv'
  <2> SUFFICES ASSUME OnceOrLostInv, [Next]_vars PROVE OnceOrLostInv'
    OBVIOUS
  <2>1. OnceInv /\ \A r \in Records \ unheard : Absent(r)
    BY DEF OnceOrLostInv
  <2>2. TypeInv' /\ Distinct'
    BY <2>1, TypeStep, DistinctStep DEF OnceInv
  <2>3. unheard \subseteq unheard'
    BY UnheardGrows
  <2>4. \A r \in Records \ unheard' : Followed(r)' /\ Absent(r)'
    BY <2>1, <2>3, FollowedStep, AbsentStep
  <2>5. Records' = Records
    BY DEF Records
  <2> QED
    BY <2>2, <2>4, <2>5 DEF OnceOrLostInv, OnceInv
<1>3. AccountInv /\ OnceOrLostInv => ExactlyOnceUnlessUnheard
  <2> SUFFICES ASSUME AccountInv, OnceOrLostInv,
                      NEW r \in (1..sampled) \ unheard
               PROVE  \/ r \in Elements(buffer) \cup RecordsOf(inFlight)
                         /\ stored[r] <= 1 /\ r \notin lost
                      \/ stored[r] = 1 /\ r \in shown /\ r \notin lost
                      \/ stored[r] = 0 /\ r \in lost
    BY DEF ExactlyOnceUnlessUnheard
  <2>1. r \in Records /\ stored[r] \in Nat
    BY Constants
       DEF AccountInv, TypeInv, SinkTypes, TableTypes, Records
  <2>2. stored[r] <= 1 /\ Absent(r)
    BY <2>1 DEF OnceOrLostInv, OnceInv, Followed
  <2>3. \/ r \in Elements(buffer) \/ r \in RecordsOf(inFlight)
        \/ stored[r] > 0 /\ r \in shown
        \/ r \in lost
    BY DEF AccountInv, EveryRecordAccounted
  <2> QED
    BY <2>1, <2>2, <2>3 DEF Absent
<1> QED
  BY <1>1, <1>2, <1>3, AlwaysAccounted, PTL DEF Spec

=============================================================================
