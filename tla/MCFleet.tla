------------------------------- MODULE MCFleet -------------------------------
(***************************************************************************)
(* Instances of Fleet for TLC.  Tasks and names are interchangeable.       *)
(***************************************************************************)
EXTENDS Fleet, TLC

Interchangeable == Permutations(Tasks) \cup Permutations(Clients)
=============================================================================
