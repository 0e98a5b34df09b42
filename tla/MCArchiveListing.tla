-------------------------- MODULE MCArchiveListing --------------------------
(***************************************************************************)
(* An instance of ArchiveListing for TLC: a user whose name begins         *)
(* another's, two servers, one of them with snapshots of two types, and a  *)
(* server whose name has a "/" and reads as the world of another.          *)
(***************************************************************************)
EXTENDS ArchiveListing, TLC

Bob == <<"bob">>
Bobby == <<"bobby">>
S1 == <<"s1">>
S2 == <<"s2">>
S1Worlds == <<"s1", "worlds">>

AllElements == {"bob", "bobby", "s1", "s2", "worlds"}
Prefixes == [e \in AllElements |-> IF e = "bob" THEN {"bob", "bobby"} ELSE {e}]
AllUsers == {Bob, Bobby}
AllServers == {S1, S2, S1Worlds}

BobsServer == <<Bob, S1, "ServerSnapshot">>
BobsWorld == <<Bob, S1, "WorldSnapshot">>
BobsSlashed == <<Bob, S1Worlds, "ServerSnapshot">>
BobsOther == <<Bob, S2, "WorldSnapshot">>
BobbysWorld == <<Bobby, S1, "WorldSnapshot">>

AllPlaces == {BobsServer, BobsWorld, BobsSlashed, BobsOther, BobbysWorld}
KeyOrder == BobsServer :> 1 @@ BobsWorld :> 2 @@ BobsSlashed :> 3
            @@ BobsOther :> 4 @@ BobbysWorld :> 5
=============================================================================
