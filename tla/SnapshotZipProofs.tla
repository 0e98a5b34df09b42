------------------------- MODULE SnapshotZipProofs -------------------------
(***************************************************************************)
(* Theorems about the zip files of Snapshot: what is in a published        *)
(* archive although other calls run beside the one that made it.  They are *)
(* for takers that do not share a temporary directory, because a taker     *)
(* that does may truncate the file another has written.                    *)
(***************************************************************************)
EXTENDS SnapshotProofs

\* A zip file is written, and read, to its end.
WholeFiles == Faults \cap {"flush", "read"} = {}

OwnHosts == \A c, d \in Takers : HostOf[c] = HostOf[d] => c = d

Begun == {"dial", "path", "name", "saveall", "saveoff", "create"}
Archived == {"saveon", "publish"}

\* Until it has a zip file a call has all its files to do.
TodoInv(c) == pc[c] \in Begun => job[c].todo = FilesOf[job[c].type]

(***************************************************************************)
(* A zip file being written is open and holds the files that are no longer *)
(* to do; one that was made is closed and holds all that were asked for,   *)
(* or its Close has failed.                                                *)
(***************************************************************************)
InZip(c) == {f \in Files : tmp[TmpFile(c)].data[f] # Absent}

Unflushed(c) == tmp[TmpFile(c)].form = "unflushed" /\ "flush" \in Faults

CompleteInv(c) ==
    /\ pc[c] = "copy" =>
         /\ tmp[TmpFile(c)].form = "open"
         /\ job[c].todo \subseteq FilesOf[job[c].type]
         /\ InZip(c) = FilesOf[job[c].type] \ job[c].todo
    /\ pc[c] \in Archived /\ ~Unflushed(c) =>
         /\ tmp[TmpFile(c)].form = "closed"
         /\ InZip(c) = FilesOf[job[c].type]

(***************************************************************************)
(* From save-all on, neither the files on disk nor the pass that may be    *)
(* writing them are older than the call, so what is copied is not either.  *)
(***************************************************************************)
Secured(v) == v <= mem /\ v <= pass /\ \A f \in Files : v <= disk[f]

Fresh(c, fs) ==
    \A f \in fs : /\ tmp[TmpFile(c)].data[f] # Absent
                  /\ tmp[TmpFile(c)].data[f] >= job[c].since

FreshInv(c) ==
    /\ Busy(c) => job[c].since <= mem
    /\ c \in Guarded =>
         /\ pc[c] \in {"saveoff", "create", "copy"} => Secured(job[c].since)
         /\ pc[c] = "copy" => Fresh(c, FilesOf[job[c].type] \ job[c].todo)
         /\ pc[c] \in Archived => Fresh(c, FilesOf[job[c].type])

CompleteZips ==
    /\ TypeOK /\ PublishedComplete
    /\ \A c \in Takers : TodoInv(c) /\ CompleteInv(c)
FreshZips ==
    /\ TypeOK /\ Connections /\ PublishedFresh
    /\ \A c \in Takers : TodoInv(c) /\ FreshInv(c)

-----------------------------------------------------------------------------
\* No taker writes to the temporary file of another.
LEMMA OwnFiles ==
  ASSUME TypeOK, OwnHosts, NEW c \in Takers, Step(c) \/ Crash(c),
         NEW d \in Takers \ {c}
  PROVE  tmp'[TmpFile(d)] = tmp[TmpFile(d)] /\ TmpFile(d)' = TmpFile(d)
<1>1. TmpFile(d) # TmpFile(c)
  BY DEF OwnHosts, TmpFile
<1>2. TmpFile(d)' = TmpFile(d)
  BY OtherTakers DEF TmpFile
<1>3. TmpFile(c) \in Hosts \X Times /\ TmpFile(d) \in Hosts \X Times
  BY TmpFileType DEF TypeOK
<1>4. tmp \in [Hosts \X Times -> Zips]
  BY DEF TypeOK
<1>5. CASE DialRcon(c) \/ ArchivePath(c) \/ ArchiveName(c)
           \/ SaveAll(c) \/ SaveOff(c) \/ SaveOn(c)
           \/ PublishArchive(c) \/ Crash(c)
  BY <1>2, <1>5 DEF DialRcon, ArchivePath, ArchiveName, SaveAll, SaveOff, SaveOn,
     PublishArchive, Crash
<1>6. CASE CreateServerArchive(c)
  BY <1>1, <1>2, <1>3, <1>4, <1>6 DEF CreateServerArchive
<1>7. ASSUME NEW f \in Files, WriteFileToZip(c, f)
      PROVE  tmp'[TmpFile(d)] = tmp[TmpFile(d)]
  BY <1>1, <1>3, <1>4, <1>7 DEF WriteFileToZip
<1>8. CASE CloseArchive(c) \/ FailArchive(c)
  BY <1>1, <1>2, <1>3, <1>4, <1>8 DEF CloseArchive, FailArchive, CloseZip
<1> QED
  BY <1>2, <1>5, <1>6, <1>7, <1>8 DEF Step

\* What a step leaves of a call whose taker does not move.
Untouched(d) ==
    /\ pc'[d] = pc[d]
    /\ job'[d].type = job[d].type /\ job'[d].todo = job[d].todo
    /\ job'[d].since = job[d].since
    /\ TmpFile(d)' = TmpFile(d) /\ tmp'[TmpFile(d)] = tmp[TmpFile(d)]

LEMMA OthersApart ==
  ASSUME TypeOK, OwnHosts, [Next]_vars, NEW d \in Takers
  PROVE  \/ Step(d) \/ Crash(d)
         \/ \E t \in Types : TakeSnapshot(d, t)
         \/ pc'[d] \in {"idle", "redial"}
         \/ Untouched(d)
<1>1. ASSUME NEW c \in Takers \ {d}, Step(c) \/ Crash(c) PROVE Untouched(d)
  BY <1>1, OtherTakers, OwnFiles DEF Untouched
<1>2. ASSUME NEW c \in Takers \ {d}, NEW t \in Types, TakeSnapshot(c, t)
      PROVE  Untouched(d)
  BY <1>2 DEF TakeSnapshot, TypeOK, Jobs, Untouched, TmpFile
<1>3. ASSUME NEW c \in Takers, NewRconWithRetry(c) \/ Redial(c)
      PROVE  pc'[d] \in {"idle", "redial"} \/ Untouched(d)
  BY <1>3, Reconnects DEF Untouched, TmpFile
<1>4. CASE Edit \/ AutoSave \/ Tick \/ ServerRestart \/ UNCHANGED vars
           \/ \E f \in Files : WriteFile(f)
  BY <1>4 DEF Edit, AutoSave, Tick, ServerRestart, WriteFile, vars, Untouched, TmpFile
<1> QED
  BY <1>1, <1>2, <1>3, <1>4 DEF Next

\* A snapshot begins with all its files to do.
LEMMA Begins ==
  ASSUME TypeOK, NEW c \in Takers, NEW t \in Types, TakeSnapshot(c, t)
  PROVE  /\ pc'[c] \in {"dial", "path"} /\ UNCHANGED mem
         /\ job'[c].type = t /\ job'[c].todo = FilesOf[t] /\ job'[c].since = mem
BY DEF TakeSnapshot, TypeOK, NoJob, game

\* Where a call goes in a step of its own, unless it returns.
LEMMA TodoNext ==
  ASSUME TypeOK, OwnHosts, [Next]_vars, NEW d \in Takers, TodoInv(d)
  PROVE  TodoInv(d)'
<1>1. CASE Step(d) \/ Crash(d)
  <2> USE DEF TypeOK, Jobs, Goto, Return, TodoInv, Begun
  <2>1. CASE DialRcon(d) \/ ArchivePath(d) \/ ArchiveName(d)
    BY <2>1 DEF DialRcon, ArchivePath, ArchiveName
  <2>2. CASE SaveAll(d) \/ SaveOff(d) \/ SaveOn(d)
    BY <2>2 DEF SaveAll, SaveOff, SaveOn, Replied, Unanswered, Following
  <2>3. CASE CreateServerArchive(d) \/ \E f \in Files : WriteFileToZip(d, f)
    BY <2>3 DEF CreateServerArchive, WriteFileToZip
  <2>4. CASE CloseArchive(d) \/ FailArchive(d) \/ PublishArchive(d) \/ Crash(d)
    BY <2>4 DEF CloseArchive, AfterArchive, FailArchive, AfterFailure,
       PublishArchive, Crash
  <2> QED
    BY <1>1, <2>1, <2>2, <2>3, <2>4 DEF Step
<1>2. ASSUME NEW t \in Types, TakeSnapshot(d, t) PROVE TodoInv(d)'
  BY <1>2, Begins DEF TodoInv
<1>3. CASE pc'[d] \in {"idle", "redial"} \/ Untouched(d)
  BY <1>3 DEF TodoInv, Untouched, Begun
<1> QED
  BY <1>1, <1>2, <1>3, OthersApart

(***************************************************************************)
(* The steps that write the zip file.                                      *)
(***************************************************************************)
LEMMA ZipCreated ==
  ASSUME TypeOK, OwnHosts, NEW c \in Takers, CreateServerArchive(c)
  PROVE  /\ pc[c] = "create" /\ pc'[c] = "copy"
         /\ job' = job /\ UNCHANGED game
         /\ TmpFile(c)' = TmpFile(c)
         /\ tmp'[TmpFile(c)] = [form |-> "open", data |-> NoFiles]
<1>1. /\ pc[c] = "create" /\ pc'[c] = "copy" /\ job' = job /\ UNCHANGED game
      /\ TmpFile(c)' = TmpFile(c)
  BY DEF CreateServerArchive, Goto, TypeOK, TmpFile
<1>2. SharedWith(c) = {}
  BY DEF SharedWith, TmpFile, OwnHosts
<1>3. TmpFile(c) \in Hosts \X Times
  BY TmpFileType DEF TypeOK
<1> QED
  BY <1>1, <1>2, <1>3 DEF CreateServerArchive, TypeOK

LEMMA FileCopied ==
  ASSUME TypeOK, NEW c \in Takers, NEW f \in Files, WriteFileToZip(c, f)
  PROVE  /\ pc[c] = "copy" /\ pc' = pc /\ UNCHANGED game
         /\ f \in job[c].todo /\ job'[c].todo = job[c].todo \ {f}
         /\ job'[c].type = job[c].type /\ job'[c].since = job[c].since
         /\ TmpFile(c)' = TmpFile(c)
         /\ tmp'[TmpFile(c)].form = tmp[TmpFile(c)].form
         /\ \A g \in Files : tmp'[TmpFile(c)].data[g]
              = IF g = f THEN disk[f] ELSE tmp[TmpFile(c)].data[g]
<1>1. TmpFile(c) \in Hosts \X Times
  BY TmpFileType DEF TypeOK
<1>2. /\ pc[c] = "copy" /\ pc' = pc /\ UNCHANGED game /\ f \in job[c].todo
      /\ job'[c].todo = job[c].todo \ {f} /\ job'[c].name = job[c].name
      /\ job'[c].type = job[c].type /\ job'[c].since = job[c].since
  BY DEF WriteFileToZip, TypeOK, Jobs
<1>3. TmpFile(c)' = TmpFile(c)
  BY <1>2 DEF TmpFile
<1>4. tmp'[TmpFile(c)].form = tmp[TmpFile(c)].form
  BY <1>1 DEF WriteFileToZip, TypeOK, Zips
<1>5. \A g \in Files : tmp'[TmpFile(c)].data[g]
        = IF g = f THEN disk[f] ELSE tmp[TmpFile(c)].data[g]
  BY <1>1 DEF WriteFileToZip, TypeOK, Zips, Contents
<1> QED
  BY <1>2, <1>3, <1>4, <1>5

LEMMA ZipClosed ==
  ASSUME TypeOK, NEW c \in Takers, CloseArchive(c)
  PROVE  /\ pc[c] = "copy" /\ pc'[c] \in Archived
         /\ job' = job /\ UNCHANGED game /\ job[c].todo = {}
         /\ TmpFile(c)' = TmpFile(c)
         /\ tmp'[TmpFile(c)].data = tmp[TmpFile(c)].data
         /\ tmp[TmpFile(c)].form = "open" =>
              tmp'[TmpFile(c)].form = "closed" \/ Unflushed(c)'
<1>1. TmpFile(c) \in Hosts \X Times
  BY TmpFileType DEF TypeOK
<1>2. /\ pc[c] = "copy" /\ pc'[c] \in Archived
      /\ job' = job /\ UNCHANGED game /\ job[c].todo = {}
      /\ TmpFile(c)' = TmpFile(c)
  BY DEF CloseArchive, AfterArchive, Goto, TypeOK, TmpFile, Archived
<1>3. PICK form \in IF tmp[TmpFile(c)].form # "open" THEN {tmp[TmpFile(c)].form}
                    ELSE {"closed"} \cup (IF "flush" \in Faults THEN {"unflushed"} ELSE {}) :
        tmp' = [tmp EXCEPT ![TmpFile(c)].form = form]
  BY DEF CloseArchive, CloseZip
<1>4. tmp'[TmpFile(c)].data = tmp[TmpFile(c)].data /\ tmp'[TmpFile(c)].form = form
  BY <1>1, <1>3 DEF TypeOK, Zips
<1>5. tmp[TmpFile(c)].form = "open" =>
        form = "closed" \/ (form = "unflushed" /\ "flush" \in Faults)
  BY <1>3
<1> QED
  BY <1>2, <1>4, <1>5 DEF Unflushed

\* The steps of a call that leave its zip file alone, or end in a failure.
LEMMA ZipKept ==
  ASSUME TypeOK, NEW c \in Takers, Step(c) \/ Crash(c)
  PROVE  \/ CreateServerArchive(c) \/ (\E f \in Files : WriteFileToZip(c, f))
         \/ CloseArchive(c)
         \/ pc'[c] \in {"idle", "restore"} /\ mem' = mem
            /\ (pc'[c] = "restore" => Busy(c) /\ job'[c].since = job[c].since)
         \/ SaveAll(c) /\ pc'[c] = "saveoff" /\ pass' = mem /\ mem' = mem
            /\ disk' = [f \in Files |-> mem] /\ job' = job /\ Busy(c)
         \/ /\ <<pc[c], pc'[c]>> \in {<<"saveoff", "create">>, <<"saveon", "publish">>}
            /\ job' = job /\ tmp' = tmp /\ UNCHANGED <<mem, pass, disk>>
         \/ /\ pc[c] \in {"dial", "path", "name"}
            /\ \/ pc'[c] \in {"path", "name", "saveall"}
               \/ pc[c] = "name" /\ pc'[c] = "create" /\ rcon[c] = "none"
            /\ mem' = mem /\ job'[c].since = job[c].since
<1> USE DEF TypeOK, Jobs, Goto, Return, game, Busy
<1>1. CASE DialRcon(c) \/ ArchivePath(c) \/ ArchiveName(c)
  BY <1>1 DEF DialRcon, ArchivePath, ArchiveName, FirstStep
<1>2. CASE SaveAll(c)
  BY <1>2 DEF SaveAll, Replied, Unanswered, Following
<1>3. CASE SaveOff(c) \/ SaveOn(c)
  BY <1>3 DEF SaveOff, SaveOn, Replied, Unanswered, Following
<1>4. CASE FailArchive(c) \/ PublishArchive(c) \/ Crash(c)
  BY <1>4 DEF FailArchive, AfterFailure, PublishArchive, Crash
<1> QED
  BY <1>1, <1>2, <1>3, <1>4 DEF Step

-----------------------------------------------------------------------------
(***************************************************************************)
(* A published archive is complete.                                        *)
(***************************************************************************)
LEMMA CompleteNext ==
  ASSUME TypeOK, OwnHosts, [Next]_vars,
         NEW d \in Takers, TodoInv(d), CompleteInv(d)
  PROVE  CompleteInv(d)'
<1>j. job[d] \in Jobs /\ FilesOf[job[d].type] \subseteq Files
  BY FilesOfAssumption DEF TypeOK, Jobs
<1>1. CASE pc'[d] \notin Archived \cup {"copy"}
  BY <1>1 DEF CompleteInv
<1>2. CASE CreateServerArchive(d)
  <2>1. InZip(d)' = {}
    BY <1>2, ZipCreated DEF InZip, NoFiles
  <2>2. pc'[d] = "copy" /\ job[d].todo = FilesOf[job[d].type] /\ job' = job
    BY <1>2, ZipCreated DEF TodoInv, Begun
  <2> QED
    BY <1>2, <2>1, <2>2, ZipCreated DEF CompleteInv, Archived
<1>3. ASSUME NEW f \in Files, WriteFileToZip(d, f) PROVE CompleteInv(d)'
  <2>1. disk[f] # Absent
    BY AbsentAssumption, BoundAssumption DEF TypeOK, Versions
  <2>2. InZip(d)' = InZip(d) \cup {f}
    BY <1>3, <2>1, FileCopied DEF InZip
  <2>3. /\ pc[d] = "copy" /\ pc'[d] = "copy" /\ f \in job[d].todo
        /\ job'[d].todo = job[d].todo \ {f} /\ job'[d].type = job[d].type
        /\ tmp'[TmpFile(d)'].form = tmp[TmpFile(d)].form
    BY <1>3, FileCopied
  <2> QED
    BY <2>2, <2>3 DEF CompleteInv, Archived
<1>4. CASE CloseArchive(d)
  <2>1. InZip(d)' = InZip(d)
    BY <1>4, ZipClosed DEF InZip
  <2>2. tmp'[TmpFile(d)'].form = "closed" \/ Unflushed(d)'
    BY <1>4, ZipClosed DEF CompleteInv
  <2> QED
    BY <1>4, <2>1, <2>2, ZipClosed DEF CompleteInv, Archived
<1>5. CASE pc[d] = "saveon" /\ pc'[d] = "publish" /\ job' = job /\ tmp' = tmp
  BY <1>5 DEF CompleteInv, Unflushed, InZip, TmpFile, Archived
<1>6. CASE Untouched(d)
  <2>1. InZip(d)' = InZip(d)
    BY <1>6 DEF Untouched, InZip
  <2> QED
    BY <1>6, <2>1 DEF CompleteInv, Unflushed, Untouched
<1>7. CASE Step(d) \/ Crash(d)
  BY <1>1, <1>2, <1>3, <1>4, <1>5, <1>7, ZipKept DEF Archived
<1>8. ASSUME NEW t \in Types, TakeSnapshot(d, t) PROVE CompleteInv(d)'
  BY <1>1, <1>8, Begins DEF Archived
<1> QED
  BY <1>1, <1>6, <1>7, <1>8, OthersApart DEF Archived

LEMMA PublishedCompleteNext ==
  ASSUME CompleteZips, [Next]_vars
  PROVE  PublishedComplete'
<1> SUFFICES ASSUME NEW o \in store'
             PROVE  \/ o.zip.form = "unflushed" /\ "flush" \in Faults
                    \/ o.zip.form = "short" /\ "read" \in Faults
                    \/ /\ Readable(o)
                       /\ {f \in Files : o.zip.data[f] # Absent} = FilesOf[o.type]
  BY DEF PublishedComplete
<1>1. CASE o \in store
  BY <1>1 DEF CompleteZips, PublishedComplete
<1>2. CASE o \notin store
  <2>1. PICK c \in Takers : PublishArchive(c) /\ Put(c)
    BY <1>2, OnlyPutsStore DEF CompleteZips
  <2>2. CompleteInv(c) /\ pc[c] = "publish"
    BY <2>1 DEF CompleteZips, PublishArchive
  <2>3. /\ o.type = job[c].type
        /\ o.zip = tmp[TmpFile(c)] \/ (o.zip.form = "short" /\ "read" \in Faults)
    BY <1>2, <2>1, WhatIsPut
  <2> QED
    BY <2>2, <2>3 DEF CompleteInv, Unflushed, Archived, InZip, Readable
<1> QED
  BY <1>1, <1>2

\* The invariant holds in every run.
LEMMA CompleteAlways ==
  ASSUME OwnHosts
  PROVE  Spec => []CompleteZips
<1>1. Init => CompleteZips
  BY TypeInit DEF Init, CompleteZips, PublishedComplete, TodoInv, Begun, CompleteInv,
     Archived
<1>2. CompleteZips /\ [Next]_vars => CompleteZips'
  <2>1. ASSUME CompleteZips, [Next]_vars, NEW d \in Takers
        PROVE  TodoInv(d)' /\ CompleteInv(d)'
    BY <2>1, TodoNext, CompleteNext DEF CompleteZips
  <2> QED
    BY <2>1, TypeNext, PublishedCompleteNext DEF CompleteZips
<1> QED
  BY <1>1, <1>2, PTL DEF Spec

\* A published archive is a readable zip file of exactly the files asked for,
\* unless its Close failed or it was not read to its end, whatever other
\* takers do and whatever else fails: PublishedComplete, if takers have
\* temporary directories of their own.
THEOREM ArchivesComplete ==
  ASSUME OwnHosts
  PROVE  Spec => []PublishedComplete
<1>1. CompleteZips => PublishedComplete
  BY DEF CompleteZips
<1> QED
  BY <1>1, CompleteAlways, PTL

\* What is left of PublishedReadable: such an archive can be opened, if zip
\* files are written and read to their end.
THEOREM ArchivesReadable ==
  ASSUME OwnHosts, WholeFiles
  PROVE  Spec => []PublishedReadable
<1>1. PublishedComplete => PublishedReadable
  BY DEF PublishedComplete, PublishedReadable, WholeFiles
<1> QED
  BY <1>1, ArchivesComplete, PTL

-----------------------------------------------------------------------------
(***************************************************************************)
(* A published archive is no older than the call.                          *)
(***************************************************************************)
\* What is secured stays so: a pass never writes an older version.
LEMMA SecuredNext ==
  ASSUME TypeOK, [Next]_vars, NEW v \in Versions
  PROVE  (v <= mem => v <= mem') /\ (Secured(v) => Secured(v)')
<1> USE DEF Secured
<1>0. mem \in Nat /\ v \in Nat
  BY DEF TypeOK, Versions
<1>1. ASSUME NEW c \in Takers, Step(c) \/ Crash(c)
      PROVE  (v <= mem => v <= mem') /\ (Secured(v) => Secured(v)')
  BY <1>1, GameSteps
<1>2. ASSUME NEW c \in Takers, NEW t \in Types, TakeSnapshot(c, t)
      PROVE  (v <= mem => v <= mem') /\ (Secured(v) => Secured(v)')
  BY <1>2 DEF TakeSnapshot, game
<1>3. ASSUME NEW c \in Takers, NewRconWithRetry(c) \/ Redial(c)
      PROVE  (v <= mem => v <= mem') /\ (Secured(v) => Secured(v)')
  BY <1>3, Reconnects DEF game
<1>4. CASE Edit
  BY <1>0, <1>4 DEF Edit
<1>5. CASE AutoSave \/ ServerRestart
  BY <1>5 DEF AutoSave, ServerRestart
<1>6. ASSUME NEW f \in Files, WriteFile(f)
      PROVE  (v <= mem => v <= mem') /\ (Secured(v) => Secured(v)')
  BY <1>6 DEF WriteFile, TypeOK
<1>7. CASE Tick \/ UNCHANGED vars
  BY <1>7 DEF Tick, vars
<1> QED
  BY <1>1, <1>2, <1>3, <1>4, <1>5, <1>6, <1>7 DEF Next

LEMMA FreshNext ==
  ASSUME TypeOK, Connections, OwnHosts, [Next]_vars,
         NEW d \in Takers, TodoInv(d), FreshInv(d)
  PROVE  FreshInv(d)'
<1>j. /\ job[d] \in Jobs /\ FilesOf[job[d].type] \subseteq Files
      /\ job[d].since \in Versions /\ job[d].since \in Nat /\ mem \in Nat
  BY FilesOfAssumption DEF TypeOK, Jobs, Versions
<1>s. PICK v \in Versions : v = job[d].since
  BY <1>j
<1>t. (v <= mem => v <= mem') /\ (Secured(v) => Secured(v)')
  BY SecuredNext
<1>1. CASE pc'[d] \in {"idle", "redial"}
  BY <1>1 DEF FreshInv, Busy, Archived
<1>2. CASE CreateServerArchive(d)
  <2>1. pc'[d] = "copy" /\ job[d].todo = FilesOf[job[d].type] /\ job' = job
    BY <1>2, ZipCreated DEF TodoInv, Begun
  <2>2. pc[d] = "create"
    BY <1>2, ZipCreated
  <2>3. Fresh(d, FilesOf[job[d].type] \ job[d].todo)'
    BY <2>1 DEF Fresh
  <2> QED
    BY <1>s, <1>t, <2>1, <2>2, <2>3 DEF FreshInv, Secured, Archived, Busy
<1>3. ASSUME NEW f \in Files, WriteFileToZip(d, f) PROVE FreshInv(d)'
  <2>1. disk[f] # Absent
    BY AbsentAssumption, BoundAssumption DEF TypeOK, Versions
  <2>2. /\ pc[d] = "copy" /\ pc'[d] = "copy" /\ f \in job[d].todo
        /\ job'[d].todo = job[d].todo \ {f} /\ job'[d].type = job[d].type
        /\ job'[d].since = job[d].since
    BY <1>3, FileCopied
  <2>3. ASSUME d \in Guarded
        PROVE  Fresh(d, FilesOf[job[d].type] \ job[d].todo)'
    <3>1. disk[f] >= job[d].since /\ Fresh(d, FilesOf[job[d].type] \ job[d].todo)
      BY <2>2, <2>3 DEF FreshInv, Secured
    <3> QED
      BY <1>3, <1>j, <2>1, <2>2, <3>1, FileCopied DEF Fresh
  <2> QED
    BY <1>s, <1>t, <2>2, <2>3 DEF FreshInv, Secured, Archived, Busy
<1>4. CASE CloseArchive(d)
  <2>1. /\ pc[d] = "copy" /\ pc'[d] \in Archived /\ job' = job /\ job[d].todo = {}
    BY <1>4, ZipClosed
  <2>2. Fresh(d, FilesOf[job[d].type]) => Fresh(d, FilesOf[job[d].type])'
    BY <1>4, <2>1, ZipClosed DEF Fresh
  <2> QED
    BY <1>s, <1>t, <2>1, <2>2 DEF FreshInv, Archived, Busy
<1>5. CASE SaveAll(d) /\ pc'[d] = "saveoff" /\ pass' = mem /\ mem' = mem
           /\ disk' = [f \in Files |-> mem] /\ job' = job /\ Busy(d)
  BY <1>5, <1>j DEF FreshInv, Secured, Archived, Busy
<1>6. CASE /\ <<pc[d], pc'[d]>> \in {<<"saveoff", "create">>, <<"saveon", "publish">>}
           /\ job' = job /\ tmp' = tmp /\ UNCHANGED <<mem, pass, disk>>
  BY <1>6, <1>s, <1>t DEF FreshInv, Secured, Fresh, TmpFile, Archived, Busy
<1>7. CASE /\ pc[d] \in {"dial", "path", "name"}
           /\ \/ pc'[d] \in {"path", "name", "saveall"}
              \/ pc[d] = "name" /\ pc'[d] = "create" /\ rcon[d] = "none"
           /\ mem' = mem /\ job'[d].since = job[d].since
  BY <1>7 DEF FreshInv, Archived, Busy, Connections
<1>8. CASE /\ pc'[d] \in {"idle", "restore"} /\ mem' = mem
           /\ (pc'[d] = "restore" => Busy(d) /\ job'[d].since = job[d].since)
  BY <1>8 DEF FreshInv, Archived, Busy
<1>9. CASE Step(d) \/ Crash(d)
  BY <1>2, <1>3, <1>4, <1>5, <1>6, <1>7, <1>8, <1>9, ZipKept
<1>10. ASSUME NEW t \in Types, TakeSnapshot(d, t) PROVE FreshInv(d)'
  BY <1>10, <1>j, Begins DEF FreshInv, Archived, Busy
<1>11. CASE Untouched(d)
  <2>1. ASSUME NEW fs, Fresh(d, fs) PROVE Fresh(d, fs)'
    BY <1>11, <2>1 DEF Untouched, Fresh
  <2> QED
    BY <1>11, <1>s, <1>t, <2>1 DEF FreshInv, Untouched, Busy
<1> QED
  BY <1>1, <1>9, <1>10, <1>11, OthersApart

LEMMA PublishedFreshNext ==
  ASSUME FreshZips, [Next]_vars
  PROVE  PublishedFresh'
<1> SUFFICES ASSUME NEW o \in store', o.guarded, Readable(o), NEW f \in FilesOf[o.type]
             PROVE  o.zip.data[f] # Absent /\ o.zip.data[f] >= o.since
  BY DEF PublishedFresh
<1>1. CASE o \in store
  BY <1>1 DEF FreshZips, PublishedFresh
<1>2. CASE o \notin store
  <2>1. PICK c \in Takers : PublishArchive(c) /\ Put(c)
    BY <1>2, OnlyPutsStore DEF FreshZips
  <2>2. FreshInv(c) /\ pc[c] = "publish"
    BY <2>1 DEF FreshZips, PublishArchive
  <2>0. o.zip.form # "short"
    BY DEF Readable
  <2>3. /\ o.type = job[c].type /\ o.zip = tmp[TmpFile(c)]
        /\ o.since = job[c].since /\ c \in Guarded
    BY <1>2, <2>0, <2>1, WhatIsPut, Zenon
  <2> QED
    BY <2>2, <2>3 DEF FreshInv, Archived, Fresh
<1> QED
  BY <1>1, <1>2

\* No file of a readable archive published with a connection is older than the call,
\* even if other calls turn saving back on in the middle: PublishedFresh, if
\* takers have temporary directories of their own.
THEOREM ArchivesFresh ==
  ASSUME OwnHosts
  PROVE  Spec => []PublishedFresh
<1>1. Init => FreshZips
  <2>1. ASSUME Init, NEW d \in Takers PROVE TodoInv(d) /\ FreshInv(d)
    BY <2>1 DEF Init, TodoInv, Begun, FreshInv, Archived, Busy
  <2> QED
    BY <2>1, TypeInit DEF Init, FreshZips, PublishedFresh, Connections
<1>2. FreshZips /\ [Next]_vars => FreshZips'
  <2>1. ASSUME FreshZips, [Next]_vars, NEW d \in Takers
        PROVE  TodoInv(d)' /\ FreshInv(d)'
    BY <2>1, TodoNext, FreshNext DEF FreshZips
  <2> QED
    BY <2>1, TypeNext, ConnectionsNext, PublishedFreshNext DEF FreshZips
<1>3. FreshZips => PublishedFresh
  BY DEF FreshZips
<1> QED
  BY <1>1, <1>2, <1>3, PTL DEF Spec
=============================================================================
