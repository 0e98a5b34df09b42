------------------------- MODULE SnapshotRefinement -------------------------
(***************************************************************************)
(* The view of a single taker as an AtomicBackup.  What is kept for a type *)
(* and second is what the object of that name in the bucket is worth: the  *)
(* version all its files have, if it is readable and they have one.        *)
(***************************************************************************)
EXTENDS Snapshot

\* The taker, where there is one.
Taker == CHOOSE c \in Takers : TRUE

Torn == "torn"

Of(zip, type) == {v \in Versions : \A f \in FilesOf[type] : zip.data[f] = v}
Worth(o) ==
    IF o.zip.form = "closed" /\ Of(o.zip, o.type) # {}
    THEN CHOOSE v \in Of(o.zip, o.type) : TRUE
    ELSE Torn

Named(k) == {o \in store : <<o.type, o.key>> = k}
WorthOf(os) == IF os = {} THEN Absent ELSE Worth(CHOOSE o \in os : TRUE)

AskedBar ==
    IF Busy(Taker)
    THEN {[type |-> job[Taker].type, since |-> job[Taker].since]}
    ELSE {}
BackupsBar == [k \in Types \X Times |-> WorthOf(Named(k))]

Backup == INSTANCE AtomicBackup WITH
    None <- Absent,
    world <- mem,
    asked <- AskedBar,
    backups <- BackupsBar

\* A taker with a connection, alone with the game server, implements an
\* atomic backup: every run of Snapshot is a run of AtomicBackup, as long as
\* zip files are written and read to their end.
ImplementsAtomicBackup == Backup!BackupSpec
=============================================================================
