------------------------------- MODULE SampleLog -------------------------------
(***************************************************************************)
(* What the sample table promises its readers, the impact preview and the  *)
(* offline replay: the newest records that intakes have stored, oldest     *)
(* first and no more than MaxEvents of them, one whole batch at a time     *)
(* (sampling/store.py, class SampleEventRow of db/models.py).              *)
(***************************************************************************)
EXTENDS Integers, Sequences

CONSTANTS
    Records,    \* the records that nodes can post
    BatchSize,  \* the most records of one post
    MaxEvents   \* SS_SAMPLE_STORE_MAX_EVENTS

VARIABLE kept   \* the records a reader finds, oldest first

\* The last n elements of s.
Newest(n, s) == SubSeq(s, IF Len(s) > n THEN Len(s) - n + 1 ELSE 1, Len(s))

Init == kept = <<>>

Record(batch) == kept' = Newest(MaxEvents, kept \o batch)

\* A step that a reader can notice.
Next ==
    /\ kept' # kept
    /\ \E n \in 1..BatchSize : \E batch \in [1..n -> Records] : Record(batch)

Spec == Init /\ [][Next]_kept

=============================================================================
