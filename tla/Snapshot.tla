------------------------------ MODULE Snapshot ------------------------------
(***************************************************************************)
(* Taking a snapshot of a running Minecraft server: SafeArchiveThenPublish *)
(* and everything it calls.  The library asks the game server over rcon to *)
(* flush the world (save-all) and to stop writing (save-off), zips the     *)
(* server directory into a temporary file, turns saving back on (save-on)  *)
(* and puts the zip file in S3.                                            *)
(*                                                                         *)
(* A taker is one Server value of the library used by one goroutine, so it *)
(* runs one call at a time; takers run on hosts (whose temporary directory *)
(* they share) and all of them snapshot the same game server.              *)
(*                                                                         *)
(* The game server, its rcon service, S3 and the clock are external: they  *)
(* are modelled by what the code uses them for.  The content of a file is  *)
(* the version of the world it was written from, so two files belong       *)
(* together exactly when their versions are equal.                         *)
(***************************************************************************)
EXTENDS Integers

CONSTANTS
    Takers,      \* the Server values that take snapshots
    Guarded,     \* those with an address and an rcon port (GoodRcon)
    Hosts,       \* the machines the takers run on
    HostOf,      \* the machine of each taker
    Files,       \* the files under ServerDirectory
    Types,       \* the archive types asked for
    FilesOf,     \* the files each type of archive asks for
    Faults,      \* what may go wrong: a subset of AllFaults
    MaxVersion,  \* bound: how often the players change the world
    MaxTime,     \* bound: how many seconds the clock advances
    Retries,     \* how often a caller asks for a dial to be retried
    Absent       \* a file that is not in a zip file

\* rcon: an exchange fails (its command executed or not); restart: the game
\* server restarts; crash: a taker's process dies; disk: creating, reading or
\* writing a file fails; flush: the last write of a zip file, by its deferred
\* Close, fails; read: the one Read of the zip file does not return all of it;
\* s3: the put fails (the object stored or not).
AllFaults == {"rcon", "restart", "crash", "disk", "flush", "read", "s3"}

Versions == 0 .. MaxVersion
Times == 0 .. MaxTime

ASSUME GuardedAssumption == Guarded \subseteq Takers
ASSUME HostOfAssumption == HostOf \in [Takers -> Hosts]
ASSUME FilesOfAssumption == FilesOf \in [Types -> SUBSET Files]
ASSUME TypesAssumption == Types # {}
ASSUME FaultsAssumption == Faults \subseteq AllFaults
ASSUME BoundAssumption == MaxVersion \in Nat /\ MaxTime \in Nat /\ Retries \in Nat
ASSUME AbsentAssumption == Absent \notin Nat

VARIABLES
    \* the game server
    mem,       \* the version of the world in memory
    pass,      \* the version the last save pass wrote, or is writing
    disk,      \* the version of each file on disk
    writing,   \* the files the save pass in progress has yet to write
    autosave,  \* FALSE between save-off and save-on
    \* the takers
    pc,        \* where each taker's call is
    rcon,      \* Server.Rcon: none, live, or dead (a Client nobody answers)
    job,       \* the locals of each taker's call
    result,    \* how each taker's last call ended
    \* shared by them
    now,       \* the clock, in seconds: what FormatForTimeName keeps of it
    tmp,       \* the temporary zip file of each host and second
    store      \* the objects under the server's prefix in the archive bucket

game == <<mem, pass, disk, writing, autosave>>
vars == <<mem, pass, disk, writing, autosave, pc, rcon, job, result, now,
          tmp, store>>

(***************************************************************************)
(* Types.  A zip file being written is open; Close makes it well-formed;   *)
(* it is unflushed when Close failed, broken when two writers shared it,   *)
(* and short when its end was not read.  since and alone are history: the  *)
(* version in memory when the call began, and whether no other taker has   *)
(* been in a call since then.                                              *)
(***************************************************************************)
Labels == {"idle", "redial", "dial", "path", "name", "saveall", "saveoff", "create",
           "copy", "saveon", "restore", "publish"}
Contents == [Files -> Versions \cup {Absent}]
Forms == {"none", "open", "closed", "unflushed", "broken", "short"}
Zips == [form : Forms, data : Contents]
Jobs == [type : Types, key : Times, name : Times, todo : SUBSET Files,
         tries : 0 .. Retries, since : Versions, alone : BOOLEAN]
Objects == [type : Types, key : Times, zip : Zips, guarded : BOOLEAN,
            since : Versions, alone : BOOLEAN]

NoFiles == [f \in Files |-> Absent]
NoZip == [form |-> "none", data |-> NoFiles]
NoJob == [type |-> CHOOSE t \in Types : TRUE, key |-> 0, name |-> 0,
          todo |-> {}, tries |-> 0, since |-> 0, alone |-> FALSE]

TypeOK ==
    /\ mem \in Versions /\ pass \in Versions /\ disk \in [Files -> Versions]
    /\ writing \subseteq Files /\ autosave \in BOOLEAN
    /\ pc \in [Takers -> Labels]
    /\ rcon \in [Takers -> {"none", "live", "dead"}]
    /\ job \in [Takers -> Jobs]
    /\ result \in [Takers -> {"none", "ok", "err"}]
    /\ now \in Times
    /\ tmp \in [Hosts \X Times -> Zips]
    /\ store \subseteq Objects

\* A server that has just been started and has saved, with no snapshot yet.
Init ==
    /\ mem = 0 /\ pass = 0 /\ disk = [f \in Files |-> 0]
    /\ writing = {} /\ autosave = TRUE
    /\ pc = [c \in Takers |-> "idle"]
    /\ rcon = [c \in Takers |-> "none"]
    /\ job = [c \in Takers |-> NoJob]
    /\ result = [c \in Takers |-> "none"]
    /\ now = 0
    /\ tmp = [p \in Hosts \X Times |-> NoZip]
    /\ store = {}

-----------------------------------------------------------------------------
(***************************************************************************)
(* The game server (external).  One thread ticks the world, runs the save  *)
(* passes and serves rcon, so the world does not change and no command is  *)
(* executed in the middle of a pass; only the files on disk show it.       *)
(***************************************************************************)

\* The players change the world.
Edit ==
    /\ writing = {} /\ mem < MaxVersion
    /\ mem' = mem + 1
    /\ UNCHANGED <<pass, disk, writing, autosave, pc, rcon, job, result, now,
                   tmp, store>>

\* The periodic save: it starts a pass unless saving is off.
AutoSave ==
    /\ autosave /\ writing = {} /\ pass < mem
    /\ pass' = mem /\ writing' = Files
    /\ UNCHANGED <<mem, disk, autosave, pc, rcon, job, result, now, tmp, store>>

WriteFile(f) ==
    /\ f \in writing
    /\ disk' = [disk EXCEPT ![f] = pass]
    /\ writing' = writing \ {f}
    /\ UNCHANGED <<mem, pass, autosave, pc, rcon, job, result, now, tmp, store>>

\* An orderly restart saves everything, comes back with saving on, and leaves
\* every connection without a peer.
ServerRestart ==
    /\ "restart" \in Faults
    /\ pass' = mem /\ disk' = [f \in Files |-> mem] /\ writing' = {}
    /\ autosave' = TRUE
    /\ rcon' = [c \in Takers |-> IF rcon[c] = "live" THEN "dead" ELSE rcon[c]]
    /\ UNCHANGED <<mem, pc, job, result, now, tmp, store>>

Tick ==
    /\ now < MaxTime
    /\ now' = now + 1
    /\ UNCHANGED <<mem, pass, disk, writing, autosave, pc, rcon, job, result,
                   tmp, store>>

-----------------------------------------------------------------------------
(***************************************************************************)
(* A call that moves on, and a call that returns.  A taker is busy in a    *)
(* snapshot; making a connection beforehand is a call of its own.          *)
(***************************************************************************)
Busy(c) == pc[c] \notin {"idle", "redial"}

Goto(c, l) ==
    /\ pc' = [pc EXCEPT ![c] = l]
    /\ UNCHANGED <<job, result>>

Return(c, r) ==
    /\ pc' = [pc EXCEPT ![c] = "idle"]
    /\ job' = [job EXCEPT ![c] = NoJob]
    /\ result' = [result EXCEPT ![c] = r]

TmpFile(c) == <<HostOf[c], job[c].name>>

(***************************************************************************)
(* Server.NewRconWithRetry (with Retries = 0, Server.NewRcon): a caller's  *)
(* way to get rid of a Client nobody answers.                              *)
(***************************************************************************)
NewRconWithRetry(c) ==
    /\ pc[c] = "idle"
    /\ pc' = [pc EXCEPT ![c] = "redial"]
    /\ UNCHANGED <<game, rcon, job, result, now, tmp, store>>

\* The loop ends, with a connection or without; the last snapshot's result
\* is still that.
Dialled(c) ==
    /\ pc' = [pc EXCEPT ![c] = "idle"]
    /\ job' = [job EXCEPT ![c] = NoJob]

\* A dial fails.  The first one is made before any is counted as a retry.
DialFailed(c) ==
    IF job[c].tries < Retries
    THEN job' = [job EXCEPT ![c].tries = @ + 1] /\ UNCHANGED pc
    ELSE Dialled(c)

\* One dial; the Server keeps the Client it had unless it succeeds.  The
\* process may die of something else while it dials or waits.
Redial(c) ==
    /\ pc[c] = "redial"
    /\ \/ c \in Guarded /\ rcon' = [rcon EXCEPT ![c] = "live"] /\ Dialled(c)
       \/ /\ c \notin Guarded \/ Faults \cap {"rcon", "restart"} # {}
          /\ DialFailed(c)
          /\ UNCHANGED rcon
       \/ "crash" \in Faults /\ rcon' = [rcon EXCEPT ![c] = "none"] /\ Dialled(c)
    /\ UNCHANGED <<game, result, now, tmp, store>>

\* TakeServerSnapshot, TakeWorldSnapshot, TakeSnapshotWithFiles.  A Server
\* that already has a Client keeps it, whether or not anyone answers.
TakeSnapshot(c, t) ==
    /\ pc[c] = "idle"
    /\ pc' = [pc EXCEPT ![c] = IF c \in Guarded /\ rcon[c] = "none"
                               THEN "dial" ELSE "path"]
    /\ job' = [d \in Takers |->
                 IF d = c
                 THEN [NoJob EXCEPT !.type = t, !.todo = FilesOf[t], !.since = mem,
                                    !.alone = \A e \in Takers \ {c} : ~Busy(e)]
                 ELSE [job[d] EXCEPT !.alone = FALSE]]
    /\ UNCHANGED <<game, rcon, result, now, tmp, store>>

\* The branch of SafeArchiveThenPublish that makes a connection.
DialRcon(c) ==
    /\ pc[c] = "dial"
    /\ \/ /\ rcon' = [rcon EXCEPT ![c] = "live"]
          /\ Goto(c, "path")
       \/ /\ Faults \cap {"rcon", "restart"} # {}
          /\ Return(c, "err")
          /\ UNCHANGED rcon
    /\ UNCHANGED <<game, now, tmp, store>>

\* Variant: the time is rounded up to the next second instead of truncated.
ArchivePathRounded(c) ==
    /\ pc[c] = "path"
    /\ job' = [job EXCEPT ![c].key = now + 1]
    /\ pc' = [pc EXCEPT ![c] = "name"]
    /\ UNCHANGED <<game, rcon, result, now, tmp, store>>

\* Two readings of the clock name the object and then the temporary file.
ArchivePath(c) ==
    /\ pc[c] = "path"
    /\ job' = [job EXCEPT ![c].key = now]
    /\ pc' = [pc EXCEPT ![c] = "name"]
    /\ UNCHANGED <<game, rcon, result, now, tmp, store>>

\* Variant: save-all is left out.
FirstStepNoSaveAll(c) == IF rcon[c] = "none" THEN "create" ELSE "saveoff"

\* ArchiveServer sends its commands if it is given a connection.
FirstStep(c) == IF rcon[c] = "none" THEN "create" ELSE "saveall"

ArchiveName(c) ==
    /\ pc[c] = "name"
    /\ job' = [job EXCEPT ![c].name = now]
    /\ pc' = [pc EXCEPT ![c] = FirstStep(c)]
    /\ UNCHANGED <<game, rcon, result, now, tmp, store>>

-----------------------------------------------------------------------------
(***************************************************************************)
(* The three rcon commands of ArchiveServer.  A command is executed on a   *)
(* live connection, between save passes; its reply may then be lost.  Any  *)
(* exchange that fails is an error to the caller, and the Client stays.    *)
(***************************************************************************)
\* Variant: save-off is left out.
FollowingNoSaveOff(l) ==
    [saveall |-> "create", saveoff |-> "create", saveon |-> "publish"][l]

\* The step of the call that follows a command.
Following(l) ==
    [saveall |-> "saveoff", saveoff |-> "create", saveon |-> "publish"][l]

Executed(c) == rcon[c] = "live" /\ writing = {}
Replied(c) == Goto(c, Following(pc[c])) \/ ("rcon" \in Faults /\ Return(c, "err"))

\* Variants: an error is logged and the call goes on; a dead peer is waited for.
UnansweredIgnored(c) ==
    /\ rcon[c] = "dead" \/ "rcon" \in Faults
    /\ IF pc[c] = "restore" THEN Return(c, "err") ELSE Goto(c, Following(pc[c]))
    /\ UNCHANGED game
UnansweredAwaited(c) ==
    /\ "rcon" \in Faults
    /\ Return(c, "err")
    /\ UNCHANGED game

Unanswered(c) ==
    /\ rcon[c] = "dead" \/ "rcon" \in Faults
    /\ Return(c, "err")
    /\ UNCHANGED game

SaveAll(c) ==
    /\ pc[c] = "saveall"
    /\ \/ /\ Executed(c)
          /\ pass' = mem /\ disk' = [f \in Files |-> mem]
          /\ UNCHANGED <<mem, writing, autosave>>
          /\ Replied(c)
       \/ Unanswered(c)
    /\ UNCHANGED <<rcon, now, tmp, store>>

SaveOff(c) ==
    /\ pc[c] = "saveoff"
    /\ \/ /\ Executed(c)
          /\ autosave' = FALSE
          /\ UNCHANGED <<mem, pass, disk, writing>>
          /\ Replied(c)
       \/ Unanswered(c)
    /\ UNCHANGED <<rcon, now, tmp, store>>

\* After the archive was made (saveon) or was not (restore): in the second
\* case the call fails whatever the reply.
SaveOn(c) ==
    /\ pc[c] \in {"saveon", "restore"}
    /\ \/ /\ Executed(c)
          /\ autosave' = TRUE
          /\ UNCHANGED <<mem, pass, disk, writing>>
          /\ IF pc[c] = "saveon" THEN Replied(c) ELSE Return(c, "err")
       \/ Unanswered(c)
    /\ UNCHANGED <<rcon, now, tmp, store>>

-----------------------------------------------------------------------------
(***************************************************************************)
(* CreateServerArchive and writeFileToZip.  os.Create truncates a file of  *)
(* the same name; two takers writing to one file spoil it.  The deferred   *)
(* Close of the zip.Writer runs on every return of CreateServerArchive and *)
(* its error is dropped.                                                   *)
(***************************************************************************)
SharedWith(c) == {d \in Takers \ {c} : pc[d] = "copy" /\ TmpFile(d) = TmpFile(c)}

CreateServerArchive(c) ==
    /\ pc[c] = "create"
    /\ tmp' = [tmp EXCEPT ![TmpFile(c)] =
                 [form |-> IF SharedWith(c) = {} THEN "open" ELSE "broken",
                  data |-> NoFiles]]
    /\ Goto(c, "copy")
    /\ UNCHANGED <<game, rcon, now, store>>

\* One file met by the walk; the order of the walk is immaterial.
WriteFileToZip(c, f) ==
    /\ pc[c] = "copy" /\ f \in job[c].todo
    /\ tmp' = [tmp EXCEPT ![TmpFile(c)].data[f] = disk[f]]
    /\ job' = [job EXCEPT ![c].todo = @ \ {f}]
    /\ UNCHANGED <<game, pc, rcon, result, now, store>>

CloseZip(c) ==
    \E form \in IF tmp[TmpFile(c)].form # "open" THEN {tmp[TmpFile(c)].form}
                ELSE {"closed"} \cup (IF "flush" \in Faults THEN {"unflushed"} ELSE {}) :
      tmp' = [tmp EXCEPT ![TmpFile(c)].form = form]

\* Variant: save-on is left out.
AfterArchiveNoSaveOn(c) == "publish"

\* What ArchiveServer does once CreateServerArchive has succeeded.
AfterArchive(c) == IF rcon[c] = "none" THEN "publish" ELSE "saveon"

CloseArchive(c) ==
    /\ pc[c] = "copy" /\ job[c].todo = {}
    /\ CloseZip(c)
    /\ Goto(c, AfterArchive(c))
    /\ UNCHANGED <<game, rcon, now, store>>

\* Variants: ArchiveServer returns at once; the error is dropped.
AfterFailureReturn(c) == Return(c, "err")
AfterFailureDropped(c) == Goto(c, AfterArchive(c))

\* An error of CreateServerArchive: save-on is still sent, then it is returned.
AfterFailure(c) == IF rcon[c] = "none" THEN Return(c, "err") ELSE Goto(c, "restore")

\* CreateServerArchive fails before it has made the zip file, or leaves one
\* that holds what was copied so far.
FailArchive(c) ==
    /\ "disk" \in Faults
    /\ \/ pc[c] = "create" /\ UNCHANGED tmp
       \/ pc[c] = "copy" /\ CloseZip(c)
    /\ AfterFailure(c)
    /\ UNCHANGED <<game, rcon, now, store>>

-----------------------------------------------------------------------------
\* PublishArchive: read the temporary file and put it under the object's key.
\* The buffer is as long as the file, one Read fills as much of it as it may,
\* and nobody looks at how much that was: the rest is put as zeros, where a
\* zip file has its directory.
ShortRead == [form |-> "short", data |-> NoFiles]
Read(c) == {tmp[TmpFile(c)]} \cup (IF "read" \in Faults THEN {ShortRead} ELSE {})

Put(c) ==
    \E zip \in Read(c) :
      LET k == job[c].key
          t == job[c].type
      IN  store' = {o \in store : <<o.type, o.key>> # <<t, k>>} \cup
                   {[type |-> t, key |-> k, zip |-> zip,
                     guarded |-> c \in Guarded,
                     since |-> job[c].since, alone |-> job[c].alone]}

PublishArchive(c) ==
    /\ pc[c] = "publish"
    /\ \/ Put(c) /\ (Return(c, "ok") \/ ("s3" \in Faults /\ Return(c, "err")))
       \/ Faults \cap {"s3", "disk"} # {} /\ Return(c, "err") /\ UNCHANGED store
    /\ UNCHANGED <<game, rcon, now, tmp>>

\* The process dies and is started again; what it wrote stays.
Crash(c) ==
    /\ "crash" \in Faults
    /\ Busy(c)
    /\ Return(c, "err")
    /\ rcon' = [rcon EXCEPT ![c] = "none"]
    /\ UNCHANGED <<game, now, tmp, store>>

-----------------------------------------------------------------------------
Step(c) ==
    \/ DialRcon(c) \/ ArchivePath(c) \/ ArchiveName(c)
    \/ SaveAll(c) \/ SaveOff(c) \/ SaveOn(c)
    \/ CreateServerArchive(c) \/ (\E f \in Files : WriteFileToZip(c, f))
    \/ CloseArchive(c) \/ FailArchive(c) \/ PublishArchive(c)

Next ==
    \/ Edit \/ AutoSave \/ (\E f \in Files : WriteFile(f)) \/ ServerRestart \/ Tick
    \/ \E c \in Takers : \/ NewRconWithRetry(c) \/ Redial(c)
                        \/ (\E t \in Types : TakeSnapshot(c, t)) \/ Step(c) \/ Crash(c)

Spec == Init /\ [][Next]_vars

(***************************************************************************)
(* Fairness: a goroutine in a call keeps running, and a save pass in       *)
(* progress goes on.  It is strong fairness for the sake of the commands:  *)
(* the game server serves rcon between ticks, so it does not neglect a     *)
(* command for ever although save passes come and go.  A dial gets through *)
(* or fails.  Nobody has to start a call, change the world, or fail.       *)
(***************************************************************************)
Fairness ==
    /\ WF_vars(\E f \in Files : WriteFile(f))
    /\ \A c \in Takers : SF_vars(Step(c)) /\ WF_vars(Redial(c))

FairSpec == Spec /\ Fairness

-----------------------------------------------------------------------------
(***************************************************************************)
(* Properties.                                                             *)
(***************************************************************************)

Readable(o) == o.zip.form = "closed"

\* What the save-all, save-off, copy, save-on sequence is for: a readable
\* archive published by a call that had a connection and no other call beside
\* it holds every file it was asked for, all of the same version of the world,
\* and not one from before the call.  Restarts of the game server, lost
\* replies, crashes and earlier failed calls do not matter.
PointInTime ==
    \A o \in store : o.guarded /\ o.alone /\ Readable(o) =>
        \E v \in o.since .. MaxVersion :
            \A f \in FilesOf[o.type] : o.zip.data[f] = v

\* Whatever other calls do, and whatever errors end them, a published archive
\* is a readable zip file of exactly the files asked for, but for two errors
\* that the code does not look at: the Close of the zip file fails, or one
\* Read does not return all of it.  Then what is published is no zip file.
\* (When takers share a temporary directory this does not hold.)
PublishedComplete ==
    \A o \in store :
        \/ o.zip.form = "unflushed" /\ "flush" \in Faults
        \/ o.zip.form = "short" /\ "read" \in Faults
        \/ /\ Readable(o)
           /\ {f \in Files : o.zip.data[f] # Absent} = FilesOf[o.type]

\* What the tests of an archive made without an error take for granted: a
\* published archive can be opened.
PublishedReadable == \A o \in store : Readable(o)

\* With a connection, even if other calls turn saving back on in the middle,
\* no file of a readable archive is older than the call: save-all worked.
PublishedFresh ==
    \A o \in store : o.guarded /\ Readable(o) =>
        \A f \in FilesOf[o.type] : o.zip.data[f] # Absent /\ o.zip.data[f] >= o.since

\* Nobody leaves the server unable to save without having been told: if no
\* call is in progress and no taker's last call failed, saving is on.
AutoSaveRestored ==
    (\A c \in Takers : ~Busy(c) /\ result[c] # "err") => autosave

\* Saving is off only while a call with a connection is between save-off and
\* save-on, or after one that failed and has not succeeded since.
SaveOffAccounted ==
    autosave \/ \E c \in Guarded :
        \/ pc[c] \in {"create", "copy", "saveon", "restore"}
        \/ result[c] = "err" /\ pc[c] # "publish"

\* If rcon answers and no taker crashes, saving is always turned back on,
\* whatever happens to the archive.
SavingResumes == ~autosave ~> autosave

\* Every call returns, though the game server restarts again and again while
\* a taker dials it, sends to it or archives it.
CallsReturn == \A c \in Takers : pc[c] # "idle" ~> pc[c] = "idle"

\* "Make sure this happens no matter what" (save-on): a save-off that the
\* server executes does not end the call.
SaveOnNoMatterWhat ==
    [][\A c \in Takers : SaveOff(c) /\ autosave' = FALSE => pc'[c] # "idle"]_vars
=============================================================================
