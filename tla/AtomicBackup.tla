---------------------------- MODULE AtomicBackup ----------------------------
(***************************************************************************)
(* What a snapshot promises the player who asks for one: as if the world   *)
(* were copied at one instant between the request and its answer, filed    *)
(* under the type that was asked for; or nothing at all.                   *)
(***************************************************************************)
EXTENDS Naturals

CONSTANTS Types, Times, None   \* None: no version kept

VARIABLES
    world,    \* the version of the world the players see
    asked,    \* the request being served, if any: its type, and the world then
    backups   \* the version kept for each type and second, or None

bvars == <<world, asked, backups>>

BackupInit ==
    /\ world = 0
    /\ asked = {}
    /\ backups = [k \in Types \X Times |-> None]

Play == world' = world + 1 /\ UNCHANGED <<asked, backups>>

Ask(t) ==
    /\ asked = {}
    /\ asked' = {[type |-> t, since |-> world]}
    /\ UNCHANGED <<world, backups>>

Keep(time, v) ==
    /\ \E r \in asked :
         /\ v \in r.since .. world
         /\ backups' = [backups EXCEPT ![<<r.type, time>>] = v]
    /\ asked' = {}
    /\ UNCHANGED world

Refuse == asked # {} /\ asked' = {} /\ UNCHANGED <<world, backups>>

BackupNext ==
    \/ Play \/ Refuse
    \/ \E t \in Types : Ask(t)
    \/ \E time \in Times, v \in 0 .. world : Keep(time, v)

BackupSpec == BackupInit /\ [][BackupNext]_bvars
=============================================================================
