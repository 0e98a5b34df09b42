---------------------- MODULE SnapshotRefinementProofs ----------------------
(***************************************************************************)
(* A single taker with a connection implements an atomic backup, for every *)
(* set of files, every bound, and every fault but a zip file that is not   *)
(* written, or not read, to its end.  Each action of Snapshot is an action *)
(* of AtomicBackup or changes nothing of it: a call that begins is a       *)
(* request, a put keeps a version, a call that ends otherwise refuses.     *)
(***************************************************************************)
EXTENDS SnapshotRefinement, SnapshotZipProofs

\* One taker, which has an address, and every type of archive has a file (an
\* archive of no files is of every version of the world, so of none).
Single ==
    /\ Takers = {Taker} /\ Guarded = Takers
    /\ \A t \in Types : FilesOf[t] # {}

\* The one call is alone.
AlwaysAlone == Busy(Taker) => job[Taker].alone

RefinementInv == QuietInv /\ CompleteZips /\ AlwaysAlone

LEMMA SingleOwnHosts == Single => OwnHosts
BY DEF Single, OwnHosts

LEMMA StepsAreBusy ==
  ASSUME NEW c \in Takers, Step(c) \/ Crash(c)
  PROVE  Busy(c)
BY DEF Step, DialRcon, ArchivePath, ArchiveName, SaveAll, SaveOff, SaveOn,
   CreateServerArchive, WriteFileToZip, CloseArchive, FailArchive, PublishArchive,
   Crash, Busy

\* A step of a call goes on with it or returns.
LEMMA BusyOrIdle ==
  ASSUME TypeOK, NEW c \in Takers, Step(c) \/ Crash(c)
  PROVE  Busy(c)' <=> pc'[c] # "idle"
<1> USE DEF TypeOK, Goto, Return, Busy
<1>1. CASE DialRcon(c) \/ ArchivePath(c) \/ ArchiveName(c)
  BY <1>1 DEF DialRcon, ArchivePath, ArchiveName, FirstStep
<1>2. CASE SaveAll(c) \/ SaveOff(c) \/ SaveOn(c)
  BY <1>2 DEF SaveAll, SaveOff, SaveOn, Replied, Unanswered, Following
<1>3. CASE CreateServerArchive(c) \/ \E f \in Files : WriteFileToZip(c, f)
  BY <1>3 DEF CreateServerArchive, WriteFileToZip
<1>4. CASE CloseArchive(c) \/ FailArchive(c) \/ PublishArchive(c) \/ Crash(c)
  BY <1>4 DEF CloseArchive, AfterArchive, FailArchive, AfterFailure, PublishArchive,
     Crash
<1> QED
  BY <1>1, <1>2, <1>3, <1>4 DEF Step

LEMMA AlwaysAloneNext ==
  ASSUME Single, TypeOK, AlwaysAlone, [Next]_vars
  PROVE  AlwaysAlone'
<1>1. Taker \in Takers /\ \A c \in Takers : c = Taker
  BY DEF Single
<1>2. CASE Step(Taker) \/ Crash(Taker)
  BY <1>1, <1>2, StepsAreBusy, BusyOrIdle, OwnJob DEF AlwaysAlone
<1>3. ASSUME NEW t \in Types, TakeSnapshot(Taker, t) PROVE AlwaysAlone'
  <2>1. Takers \ {Taker} = {}
    BY <1>1
  <2>2. (\A e \in Takers \ {Taker} : ~Busy(e)) = TRUE
    BY <2>1
  <2> QED
    BY <1>1, <1>3, <2>2 DEF TakeSnapshot, NoJob, AlwaysAlone
<1>4. CASE NewRconWithRetry(Taker) \/ Redial(Taker)
  BY <1>1, <1>4, Reconnects DEF AlwaysAlone, Busy
<1>5. CASE Edit \/ AutoSave \/ Tick \/ ServerRestart \/ UNCHANGED vars
           \/ \E f \in Files : WriteFile(f)
  BY <1>5 DEF Edit, AutoSave, Tick, ServerRestart, WriteFile, vars, AlwaysAlone, Busy
<1> QED
  BY <1>1, <1>2, <1>3, <1>4, <1>5 DEF Next

-----------------------------------------------------------------------------
(***************************************************************************)
(* What a put keeps: all files of the archive have one version, so it is   *)
(* the archive's worth, and the objects of other names stay as they were.  *)
(***************************************************************************)
LEMMA PutWorth ==
  ASSUME NEW o, o.zip.form = "closed", FilesOf[o.type] # {},
         NEW v \in Versions, \A f \in FilesOf[o.type] : o.zip.data[f] = v
  PROVE  Worth(o) = v
<1>1. Of(o.zip, o.type) = {v}
  BY DEF Of
<1> QED
  BY <1>1 DEF Worth

LEMMA PutNamed ==
  ASSUME WholeFiles, NEW c \in Takers, Put(c)
  PROVE  \E o : /\ o.type = job[c].type /\ o.zip = tmp[TmpFile(c)]
                /\ \A k : Named(k)' = IF k = <<job[c].type, job[c].key>> THEN {o}
                                      ELSE Named(k)
<1> DEFINE new == [type |-> job[c].type, key |-> job[c].key, zip |-> tmp[TmpFile(c)],
                   guarded |-> c \in Guarded,
                   since |-> job[c].since, alone |-> job[c].alone]
           name == <<job[c].type, job[c].key>>
<1>1. store' = {o \in store : <<o.type, o.key>> # name} \cup {new}
  BY DEF Put, Read, WholeFiles
<1>2. /\ new.type = job[c].type /\ new.key = job[c].key
      /\ new.zip = tmp[TmpFile(c)]
  OBVIOUS
<1>3. <<new.type, new.key>> = name
  BY <1>2
<1> HIDE DEF new, name
<1>4. ASSUME NEW k PROVE Named(k)' = IF k = name THEN {new} ELSE Named(k)
  BY <1>1, <1>3 DEF Named
<1> QED
  BY <1>2, <1>4 DEF name

\* A put by the one taker keeps a version of the world from within its call.
LEMMA PutKeeps ==
  ASSUME Single, WholeFiles, RefinementInv, PublishArchive(Taker), Put(Taker)
  PROVE  \E time \in Times, v \in 0 .. mem : Backup!Keep(time, v)
<1>1. Taker \in Takers /\ Taker \in Guarded
  BY DEF Single
<1>2. TypeOK /\ TakerInv(Taker) /\ CompleteInv(Taker) /\ AlwaysAlone
  BY <1>1 DEF RefinementInv, QuietInv, CompleteZips
<1>3. pc[Taker] = "publish" /\ pc'[Taker] = "idle" /\ mem' = mem
  BY <1>1, <1>2 DEF PublishArchive, Return, TypeOK, game
<1>4. Busy(Taker) /\ ~Busy(Taker)' /\ job[Taker].alone
  BY <1>2, <1>3 DEF Busy, AlwaysAlone
<1> DEFINE type == job[Taker].type
           key == job[Taker].key
           since == job[Taker].since
           zip == tmp[TmpFile(Taker)]
<1>5. type \in Types /\ key \in Times /\ since \in Versions /\ mem \in Versions
  BY <1>1, <1>2 DEF TypeOK, Jobs
<1>6. PICK v \in since .. mem : \A f \in FilesOf[type] : zip.data[f] = v
  BY <1>1, <1>2, <1>3, <1>4 DEF TakerInv, Holds
<1>7. v \in Versions /\ v \in 0 .. mem
  BY <1>5, BoundAssumption DEF Versions
<1>8. zip.form = "closed" /\ FilesOf[type] # {}
  BY <1>2, <1>3, <1>5 DEF CompleteInv, Unflushed, WholeFiles, Archived, Single
<1>9. PICK o : /\ o.type = type /\ o.zip = zip
               /\ \A k : Named(k)' = IF k = <<type, key>> THEN {o} ELSE Named(k)
  BY <1>1, PutNamed
<1> HIDE DEF type, key, since, zip
<1>10. Worth(o) = v
  BY <1>6, <1>7, <1>8, <1>9, PutWorth
<1>11. WorthOf({o}) = v
  BY <1>10 DEF WorthOf
<1>12. ASSUME NEW k \in Types \X Times
       PROVE  WorthOf(Named(k))' = IF k = <<type, key>> THEN v ELSE WorthOf(Named(k))
  <2>1. WorthOf(Named(k))' = WorthOf(Named(k)')
    BY DEF WorthOf, Worth, Of
  <2> QED
    BY <1>9, <1>11, <2>1
<1>13. BackupsBar' = [BackupsBar EXCEPT ![<<type, key>>] = v]
  BY <1>12 DEF BackupsBar
<1>14. AskedBar = {[type |-> type, since |-> since]} /\ AskedBar' = {}
  BY <1>4 DEF AskedBar, type, since
<1>15. Backup!Keep(key, v)
  <2> DEFINE r == [type |-> type, since |-> since]
  <2>1. r \in AskedBar /\ r.type = type /\ r.since = since
    BY <1>14
  <2> HIDE DEF r
  <2> QED
    BY <1>3, <1>6, <1>13, <1>14, <2>1 DEF Backup!Keep
<1> QED
  BY <1>5, <1>7, <1>15

\* What the request and what is kept depend on.
LEMMA BackupUnchanged ==
  ASSUME UNCHANGED store
  PROVE  BackupsBar' = BackupsBar
BY DEF BackupsBar, Named, WorthOf, Worth, Of

(***************************************************************************)
(* Every step is a step of the atomic backup or changes nothing of it.     *)
(***************************************************************************)
LEMMA StepImplements ==
  ASSUME Single, WholeFiles, RefinementInv, [Next]_vars
  PROVE  Backup!BackupNext \/ UNCHANGED <<mem, AskedBar, BackupsBar>>
<1>1. Taker \in Takers /\ \A c \in Takers : c = Taker
  BY DEF Single
<1>2. TypeOK
  BY DEF RefinementInv, QuietInv
<1>3. CASE Step(Taker) \/ Crash(Taker)
  <2>1. Busy(Taker) /\ mem' = mem
    BY <1>1, <1>2, <1>3, StepsAreBusy, GameSteps
  <2>2. CASE PublishArchive(Taker) /\ Put(Taker)
    BY <2>2, PutKeeps DEF Backup!BackupNext
  <2>3. CASE UNCHANGED store /\ pc'[Taker] = "idle"
    <3>1. AskedBar # {} /\ AskedBar' = {}
      BY <2>1, <2>3 DEF AskedBar, Busy
    <3>2. BackupsBar' = BackupsBar
      BY <2>3, BackupUnchanged
    <3>3. Backup!Refuse
      BY <2>1, <3>1, <3>2 DEF Backup!Refuse
    <3> QED
      BY <3>3 DEF Backup!BackupNext
  <2>4. CASE UNCHANGED store /\ pc'[Taker] # "idle"
    <3>1. /\ Busy(Taker)' /\ job'[Taker].type = job[Taker].type
          /\ job'[Taker].since = job[Taker].since
      BY <1>1, <1>2, <1>3, <2>4, BusyOrIdle, OwnJob
    <3>2. AskedBar' = AskedBar
      BY <2>1, <3>1 DEF AskedBar
    <3> QED
      BY <2>1, <2>4, <3>2, BackupUnchanged
  <2>5. UNCHANGED store \/ (PublishArchive(Taker) /\ Put(Taker))
    BY <1>1, <1>2, OnlyPutsStore
  <2> QED
    BY <2>2, <2>3, <2>4, <2>5
<1>4. ASSUME NEW t \in Types, TakeSnapshot(Taker, t) PROVE Backup!Ask(t)
  <2>1. ~Busy(Taker) /\ Busy(Taker)'
    BY <1>1, <1>2, <1>4, Begins DEF TakeSnapshot, Busy
  <2>2. AskedBar = {} /\ AskedBar' = {[type |-> t, since |-> mem]}
    BY <1>1, <1>2, <1>4, <2>1, Begins DEF AskedBar
  <2>3. mem' = mem /\ BackupsBar' = BackupsBar
    BY <1>4, BackupUnchanged DEF TakeSnapshot, game
  <2> QED
    BY <2>2, <2>3 DEF Backup!Ask
<1>5. CASE NewRconWithRetry(Taker) \/ Redial(Taker)
  <2>1. ~Busy(Taker) /\ ~Busy(Taker)' /\ UNCHANGED <<mem, store>>
    BY <1>1, <1>2, <1>5, Reconnects DEF Busy, game
  <2> QED
    BY <2>1, BackupUnchanged DEF AskedBar
<1>6. CASE Edit
  <2>1. mem' = mem + 1 /\ UNCHANGED <<pc, job, store>>
    BY <1>6 DEF Edit
  <2>2. AskedBar' = AskedBar
    BY <2>1 DEF AskedBar, Busy
  <2> QED
    BY <2>1, <2>2, BackupUnchanged DEF Backup!BackupNext, Backup!Play
<1>7. CASE AutoSave \/ Tick \/ ServerRestart \/ UNCHANGED vars
           \/ \E f \in Files : WriteFile(f)
  <2>1. UNCHANGED <<mem, pc, job, store>>
    BY <1>7 DEF AutoSave, Tick, ServerRestart, WriteFile, vars
  <2>2. AskedBar' = AskedBar
    BY <2>1 DEF AskedBar, Busy
  <2> QED
    BY <2>1, <2>2, BackupUnchanged
<1>8. (\E t \in Types : TakeSnapshot(Taker, t)) => Backup!BackupNext
  BY <1>4 DEF Backup!BackupNext
<1> QED
  BY <1>1, <1>3, <1>5, <1>6, <1>7, <1>8 DEF Next

\* Every run of Snapshot with one taker is a run of AtomicBackup:
\* ImplementsAtomicBackup, whatever fails but the last write of a zip file and
\* the read of it.
THEOREM SnapshotIsAtomic ==
  ASSUME Single, WholeFiles
  PROVE  Spec => ImplementsAtomicBackup
<1>1. Init => Backup!BackupInit
  <2> SUFFICES ASSUME Init PROVE Backup!BackupInit
    OBVIOUS
  <2>1. AskedBar = {}
    BY DEF Init, AskedBar, Busy, Single
  <2>2. BackupsBar = [k \in Types \X Times |-> Absent]
    BY DEF Init, BackupsBar, Named, WorthOf
  <2> QED
    BY <2>1, <2>2 DEF Init, Backup!BackupInit
<1>2. Spec => []AlwaysAlone
  <2>1. Init => AlwaysAlone
    BY DEF Init, AlwaysAlone, Busy, Single
  <2>2. QuietInv /\ AlwaysAlone /\ [Next]_vars => AlwaysAlone'
    BY AlwaysAloneNext DEF QuietInv
  <2> QED
    BY <2>1, <2>2, QuietAlways, PTL DEF Spec
<1>3. QuietInv /\ CompleteZips /\ AlwaysAlone /\ [Next]_vars
        => [Backup!BackupNext]_(Backup!bvars)
  BY StepImplements DEF RefinementInv, Backup!bvars
<1>4. Spec => []CompleteZips
  BY CompleteAlways, SingleOwnHosts
<1> QED
  BY <1>1, <1>2, <1>3, <1>4, QuietAlways, PTL
     DEF Spec, ImplementsAtomicBackup, Backup!BackupSpec
=============================================================================
