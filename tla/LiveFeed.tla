-------------------------------- MODULE LiveFeed -------------------------------
(***************************************************************************)
(* What the live view promises a browser that follows it: while it watches *)
(* it is shown, of each batch, some of the records that have been          *)
(* published, each at most once and in the order they were published.      *)
(* Nothing is said of which: a browser that reads too slowly loses some,   *)
(* and publishing waits for nobody (sampling/store.py, tail_ws).           *)
(***************************************************************************)
EXTENDS Integers

CONSTANTS
    Publishers,  \* the batches
    Viewers,     \* the browsers; one that reconnects is new
    BatchSize    \* the records of a batch

VARIABLES
    published,   \* how many records of each batch have been published
    watching,    \* the browsers that are following
    seen         \* the last record of each batch that each browser was shown

feed == <<published, watching, seen>>

Init ==
    /\ published = [p \in Publishers |-> 0]
    /\ watching = {}
    /\ seen = [v \in Viewers |-> [p \in Publishers |-> 0]]

Release(p) ==
    /\ published[p] < BatchSize
    /\ published' = [published EXCEPT ![p] = @ + 1]
    /\ UNCHANGED <<watching, seen>>

\* A browser that begins to follow has been shown nothing.
Join(v) ==
    /\ v \notin watching
    /\ seen[v] = [p \in Publishers |-> 0]
    /\ watching' = watching \cup {v}
    /\ UNCHANGED <<published, seen>>

Show(v, p, n) ==
    /\ v \in watching
    /\ seen[v][p] < n /\ n <= published[p]
    /\ seen' = [seen EXCEPT ![v][p] = n]
    /\ UNCHANGED <<published, watching>>

Quit(v) ==
    /\ v \in watching
    /\ watching' = watching \ {v}
    /\ UNCHANGED <<published, seen>>

Next ==
    \/ \E p \in Publishers : Release(p)
    \/ \E v \in Viewers :
          \/ Join(v)
          \/ Quit(v)
          \/ \E p \in Publishers, n \in 1..BatchSize : Show(v, p, n)

Spec == Init /\ [][Next]_feed

=============================================================================
