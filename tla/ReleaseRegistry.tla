--------------------------- MODULE ReleaseRegistry ---------------------------
(***************************************************************************)
(* What the bundle half of the control plane promises to everyone who only *)
(* polls it: an append-only sequence of releases, numbered 1, 2, 3 and so  *)
(* on, exactly one of which is current once there is any.  A release       *)
(* becomes current when it is made; a revert makes an older one current    *)
(* again and rebuilds nothing.                                             *)
(***************************************************************************)
EXTENDS Naturals, Sequences

CONSTANT Contents  \* what a release can carry

VARIABLES
    releases,  \* releases[v] is the content of version v
    current    \* the version nodes are told to run, 0 before the first one

registry == <<releases, current>>

RegistryInit ==
    /\ releases = <<>>
    /\ current = 0

Release(c) ==
    /\ releases' = Append(releases, c)
    /\ current' = Len(releases) + 1

Revert(v) ==
    /\ current' = v
    /\ UNCHANGED releases

RegistryNext ==
    \/ \E c \in Contents : Release(c)
    \/ \E v \in 1..Len(releases) : Revert(v)

RegistrySpec == RegistryInit /\ [][RegistryNext]_registry
=============================================================================
