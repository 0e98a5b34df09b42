--------------------------- MODULE MCServerFiles ---------------------------
(***************************************************************************)
(* An instance of ServerFiles for TLC: a process with two threads and one  *)
(* with a single thread, and two directories, the first of which both      *)
(* processes start in.                                                     *)
(***************************************************************************)
EXTENDS ServerFiles, TLC

CONSTANTS t1, t2, t3, p, q, a, b

Two == t1 :> p @@ t2 :> p @@ t3 :> q
StartInA == [r \in {p, q} |-> a]

\* The absolute name of the directory a process is in is nothing special to it.
Asked == t1 :> {b} @@ t2 :> {Here} @@ t3 :> {a}

Alike == Permutations(Values) \cup Permutations(Keys) \cup Permutations(Names)
=============================================================================
