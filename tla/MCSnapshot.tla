----------------------------- MODULE MCSnapshot -----------------------------
(***************************************************************************)
(* Instances of Snapshot for TLC: up to two takers, a world of two files   *)
(* of which one is the world directory.                                    *)
(***************************************************************************)
EXTENDS SnapshotRefinement, TLC

CONSTANTS c1, c2, h1, h2, world, ops

OwnHost == c1 :> h1 @@ c2 :> h2
OneHost == [c \in {c1, c2} |-> h1]
Alone == [c \in {c1} |-> h1]

AllFiles == "ServerSnapshot" :> {world, ops}
WorldOnly == "WorldSnapshot" :> {world}
TwoTypes == "ServerSnapshot" :> {world, ops} @@ "WorldSnapshot" :> {world}

\* The two takers with their hosts may be exchanged, and the two files.
Takes == {c1 :> c1 @@ c2 :> c2 @@ h1 :> h1 @@ h2 :> h2,
          c1 :> c2 @@ c2 :> c1 @@ h1 :> h2 @@ h2 :> h1}
Exchanges == {p @@ q : p \in Takes, q \in Permutations({world, ops})}
=============================================================================
