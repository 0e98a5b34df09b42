--------------------------- MODULE SnapshotProofs ---------------------------
(***************************************************************************)
(* Theorems about Snapshot, for every set of takers, hosts, files and      *)
(* faults: type correctness, that saving is never left off unnoticed, and  *)
(* that a snapshot taken alone is of one version of the world.             *)
(***************************************************************************)
EXTENDS Snapshot, TLAPS

(***************************************************************************)
(* The idle job is a job, and every taker has a temporary file.            *)
(***************************************************************************)
LEMMA NoJobType == NoJob \in Jobs
<1>1. (CHOOSE t \in Types : TRUE) \in Types
  BY TypesAssumption
<1>2. 0 \in Times /\ 0 \in Versions /\ 0 \in 0 .. Retries
  BY BoundAssumption DEF Times, Versions
<1> QED
  BY <1>1, <1>2 DEF NoJob, Jobs, Times, Versions

LEMMA TmpFileType ==
  ASSUME job \in [Takers -> Jobs], NEW c \in Takers
  PROVE  TmpFile(c) \in Hosts \X Times
BY HostOfAssumption DEF TmpFile, Jobs

\* Initially everything has its type.
LEMMA TypeInit == Init => TypeOK
<1> SUFFICES ASSUME Init PROVE TypeOK
  OBVIOUS
<1>1. 0 \in Versions /\ 0 \in Times
  BY BoundAssumption DEF Versions, Times
<1>2. NoZip \in Zips
  BY DEF NoZip, NoFiles, Zips, Forms, Contents
<1> QED
  BY <1>1, <1>2, NoJobType DEF Init, TypeOK, Labels

(***************************************************************************)
(* The endings of a step, which the actions share.                         *)
(***************************************************************************)
CallTypeOK ==
    /\ pc' \in [Takers -> Labels]
    /\ job' \in [Takers -> Jobs]
    /\ result' \in [Takers -> {"none", "ok", "err"}]

LEMMA GotoType ==
  ASSUME TypeOK, NEW c \in Takers, NEW l \in Labels, Goto(c, l)
  PROVE  CallTypeOK
BY DEF TypeOK, Goto, CallTypeOK

LEMMA ReturnType ==
  ASSUME TypeOK, NEW c \in Takers, NEW r \in {"ok", "err"}, Return(c, r)
  PROVE  CallTypeOK
BY NoJobType DEF TypeOK, Return, CallTypeOK, Labels

LEMMA CommandType ==
  ASSUME TypeOK, NEW c \in Takers, pc[c] \in {"saveall", "saveoff", "saveon"},
         Replied(c)
  PROVE  CallTypeOK
<1>1. Following(pc[c]) \in Labels
  BY DEF Following, Labels
<1> QED
  BY <1>1, GotoType, ReturnType DEF Replied

LEMMA UnansweredType ==
  ASSUME TypeOK, NEW c \in Takers, Unanswered(c)
  PROVE  CallTypeOK /\ UNCHANGED game
BY ReturnType DEF Unanswered

LEMMA CloseZipType ==
  ASSUME TypeOK, NEW c \in Takers, CloseZip(c)
  PROVE  tmp' \in [Hosts \X Times -> Zips]
<1>1. TmpFile(c) \in Hosts \X Times
  BY TmpFileType DEF TypeOK
<1>2. PICK form \in Forms :
        tmp' = [tmp EXCEPT ![TmpFile(c)].form = form]
  BY <1>1 DEF CloseZip, TypeOK, Zips, Forms
<1>3. [tmp[TmpFile(c)] EXCEPT !.form = form] \in Zips
  BY <1>1 DEF TypeOK, Zips
<1> QED
  BY <1>1, <1>2, <1>3 DEF TypeOK

LEMMA ReadType ==
  ASSUME TypeOK, NEW c \in Takers
  PROVE  Read(c) \subseteq Zips
<1>1. tmp[TmpFile(c)] \in Zips
  BY TmpFileType DEF TypeOK
<1>2. ShortRead \in Zips
  BY DEF ShortRead, NoFiles, Zips, Forms, Contents
<1> QED
  BY <1>1, <1>2 DEF Read

(***************************************************************************)
(* Every step keeps the types: one step of the proof for each action.      *)
(***************************************************************************)
LEMMA TypeNext == TypeOK /\ [Next]_vars => TypeOK'
<1> SUFFICES ASSUME TypeOK, [Next]_vars PROVE TypeOK'
  OBVIOUS
<1> USE DEF game
<1>1. CASE Edit
  BY <1>1, BoundAssumption DEF Edit, TypeOK, Versions
<1>2. CASE AutoSave
  BY <1>2 DEF AutoSave, TypeOK
<1>3. ASSUME NEW f \in Files, WriteFile(f) PROVE TypeOK'
  BY <1>3 DEF WriteFile, TypeOK
<1>4. CASE ServerRestart
  BY <1>4 DEF ServerRestart, TypeOK
<1>5. CASE Tick
  BY <1>5, BoundAssumption DEF Tick, TypeOK, Times
<1>6. ASSUME NEW c \in Takers, NEW t \in Types, TakeSnapshot(c, t) PROVE TypeOK'
  <2>1. pc' \in [Takers -> Labels]
    BY <1>6 DEF TakeSnapshot, TypeOK, Labels
  <2>2. job' \in [Takers -> Jobs]
    <3>1. ASSUME NEW b \in BOOLEAN
          PROVE  [NoJob EXCEPT !.type = t, !.todo = FilesOf[t], !.since = mem,
                               !.alone = b] \in Jobs
      BY NoJobType, FilesOfAssumption DEF Jobs, TypeOK
    <3>2. ASSUME NEW d \in Takers PROVE [job[d] EXCEPT !.alone = FALSE] \in Jobs
      <4>1. job[d] \in Jobs
        BY DEF TypeOK
      <4> QED
        BY <4>1 DEF Jobs
    <3>3. (\A e \in Takers \ {c} : ~Busy(e)) \in BOOLEAN
      OBVIOUS
    <3> QED
      BY <1>6, <3>1, <3>2, <3>3 DEF TakeSnapshot
  <2> QED
    BY <1>6, <2>1, <2>2 DEF TakeSnapshot, TypeOK
<1>7. ASSUME NEW c \in Takers, DialRcon(c) PROVE TypeOK'
  <2>1. CallTypeOK
    BY <1>7, GotoType, ReturnType DEF DialRcon, Labels
  <2>2. rcon' \in [Takers -> {"none", "live", "dead"}]
    BY <1>7 DEF DialRcon, TypeOK
  <2> QED
    BY <1>7, <2>1, <2>2 DEF DialRcon, TypeOK, CallTypeOK
<1>8. ASSUME NEW c \in Takers, ArchivePath(c) PROVE TypeOK'
  <2>1. job[c] \in Jobs /\ now \in Times
    BY DEF TypeOK
  <2>2. [job[c] EXCEPT !.key = now] \in Jobs
    BY <2>1 DEF Jobs
  <2> QED
    BY <1>8, <2>2 DEF ArchivePath, TypeOK, Labels
<1>9. ASSUME NEW c \in Takers, ArchiveName(c) PROVE TypeOK'
  <2>1. job[c] \in Jobs /\ now \in Times
    BY DEF TypeOK
  <2>2. [job[c] EXCEPT !.name = now] \in Jobs
    BY <2>1 DEF Jobs
  <2> QED
    BY <1>9, <2>2 DEF ArchiveName, FirstStep, TypeOK, Labels
<1>10. ASSUME NEW c \in Takers, SaveAll(c) PROVE TypeOK'
  <2>1. CallTypeOK
    BY <1>10, CommandType, UnansweredType DEF SaveAll
  <2>2. pass' \in Versions /\ disk' \in [Files -> Versions]
    BY <1>10, UnansweredType DEF SaveAll, TypeOK
  <2> QED
    BY <1>10, <2>1, <2>2, UnansweredType DEF SaveAll, TypeOK, CallTypeOK
<1>11. ASSUME NEW c \in Takers, SaveOff(c) PROVE TypeOK'
  <2>1. CallTypeOK
    BY <1>11, CommandType, UnansweredType DEF SaveOff
  <2> QED
    BY <1>11, <2>1, UnansweredType DEF SaveOff, TypeOK, CallTypeOK
<1>12. ASSUME NEW c \in Takers, SaveOn(c) PROVE TypeOK'
  <2>1. CallTypeOK
    BY <1>12, CommandType, ReturnType, UnansweredType DEF SaveOn
  <2> QED
    BY <1>12, <2>1, UnansweredType DEF SaveOn, TypeOK, CallTypeOK
<1>13. ASSUME NEW c \in Takers, CreateServerArchive(c) PROVE TypeOK'
  <2>1. CallTypeOK
    BY <1>13, GotoType DEF CreateServerArchive, Labels
  <2>2. tmp' \in [Hosts \X Times -> Zips]
    BY <1>13, TmpFileType
       DEF CreateServerArchive, TypeOK, Zips, Forms, Contents, NoFiles
  <2> QED
    BY <1>13, <2>1, <2>2 DEF CreateServerArchive, TypeOK, CallTypeOK
<1>14. ASSUME NEW c \in Takers, NEW f \in Files, WriteFileToZip(c, f) PROVE TypeOK'
  <2>1. [job[c] EXCEPT !.todo = @ \ {f}] \in Jobs
    BY DEF Jobs, TypeOK
  <2>2. TmpFile(c) \in Hosts \X Times
    BY TmpFileType DEF TypeOK
  <2>3. [tmp[TmpFile(c)] EXCEPT !.data[f] = disk[f]] \in Zips
    BY <2>2 DEF TypeOK, Zips, Contents
  <2>4. tmp' \in [Hosts \X Times -> Zips]
    BY <1>14, <2>2, <2>3 DEF WriteFileToZip, TypeOK
  <2> QED
    BY <1>14, <2>1, <2>4 DEF WriteFileToZip, TypeOK
<1>15. ASSUME NEW c \in Takers, CloseArchive(c) PROVE TypeOK'
  <2>1. CallTypeOK
    BY <1>15, GotoType DEF CloseArchive, AfterArchive, Labels
  <2>2. tmp' \in [Hosts \X Times -> Zips]
    BY <1>15, CloseZipType DEF CloseArchive
  <2> QED
    BY <1>15, <2>1, <2>2 DEF CloseArchive, TypeOK, CallTypeOK
<1>16. ASSUME NEW c \in Takers, FailArchive(c) PROVE TypeOK'
  <2>1. CallTypeOK
    BY <1>16, GotoType, ReturnType DEF FailArchive, AfterFailure, Labels
  <2>2. tmp' \in [Hosts \X Times -> Zips]
    BY <1>16, CloseZipType DEF FailArchive, TypeOK
  <2> QED
    BY <1>16, <2>1, <2>2 DEF FailArchive, TypeOK, CallTypeOK
<1>17. ASSUME NEW c \in Takers, PublishArchive(c) PROVE TypeOK'
  <2>1. CallTypeOK
    BY <1>17, ReturnType DEF PublishArchive
  <2>2. Read(c) \subseteq Zips
    BY ReadType
  <2>3. Put(c) => store' \subseteq Objects
    <3>1. job[c] \in Jobs /\ store \subseteq Objects
      BY DEF TypeOK
    <3>2. (c \in Guarded) \in BOOLEAN
      OBVIOUS
    <3>3. ASSUME NEW zip \in Read(c)
          PROVE  [type |-> job[c].type, key |-> job[c].key, zip |-> zip,
                  guarded |-> c \in Guarded,
                  since |-> job[c].since, alone |-> job[c].alone] \in Objects
      BY <2>2, <3>1, <3>2 DEF Jobs, Objects
    <3> QED
      BY <3>1, <3>3 DEF Put
  <2>4. store' \subseteq Objects
    BY <1>17, <2>3 DEF PublishArchive, TypeOK
  <2> QED
    BY <1>17, <2>1, <2>4 DEF PublishArchive, TypeOK, CallTypeOK
<1>18. ASSUME NEW c \in Takers, Crash(c) PROVE TypeOK'
  <2>1. CallTypeOK
    BY <1>18, ReturnType DEF Crash
  <2> QED
    BY <1>18, <2>1 DEF Crash, TypeOK, CallTypeOK
<1>19. CASE UNCHANGED vars
  BY <1>19 DEF vars, TypeOK
<1>20. ASSUME NEW c \in Takers, NewRconWithRetry(c) PROVE TypeOK'
  BY <1>20 DEF NewRconWithRetry, TypeOK, Labels
<1>21. ASSUME NEW c \in Takers, Redial(c) PROVE TypeOK'
  <2>1. ASSUME Dialled(c)
        PROVE  pc' \in [Takers -> Labels] /\ job' \in [Takers -> Jobs]
    BY <2>1, NoJobType DEF Dialled, TypeOK, Labels
  <2>2. ASSUME job[c].tries < Retries
        PROVE  [job[c] EXCEPT !.tries = @ + 1] \in Jobs
    <3>1. job[c] \in Jobs
      BY DEF TypeOK
    <3>2. job[c].tries + 1 \in 0 .. Retries
      BY <2>2, <3>1, BoundAssumption DEF Jobs
    <3> QED
      BY <3>1, <3>2 DEF Jobs
  <2>3. pc' \in [Takers -> Labels] /\ job' \in [Takers -> Jobs]
    BY <1>21, <2>1, <2>2 DEF Redial, DialFailed, TypeOK
  <2>4. rcon' \in [Takers -> {"none", "live", "dead"}]
    BY <1>21 DEF Redial, TypeOK
  <2> QED
    BY <1>21, <2>3, <2>4 DEF Redial, TypeOK
<1> QED
  BY <1>1, <1>2, <1>3, <1>4, <1>5, <1>6, <1>7, <1>8, <1>9, <1>10, <1>11, <1>12,
     <1>13, <1>14, <1>15, <1>16, <1>17, <1>18, <1>19, <1>20, <1>21 DEF Next, Step

\* Every variable always has its type.
THEOREM TypeCorrect == Spec => []TypeOK
BY TypeInit, TypeNext, PTL DEF Spec

-----------------------------------------------------------------------------
(***************************************************************************)
(* Connections: only takers with an address ever have one or try to make   *)
(* one, and past the dialling they keep it, dead or alive.                 *)
(***************************************************************************)
Connections ==
    \A c \in Takers :
        /\ rcon[c] # "none" \/ pc[c] = "dial" => c \in Guarded
        /\ c \in Guarded /\ pc[c] \notin {"idle", "redial", "dial"} => rcon[c] # "none"

\* What a step of a taker leaves alone: the other takers.
LEMMA OtherTakers ==
  ASSUME TypeOK, NEW c \in Takers, Step(c) \/ Crash(c), NEW d \in Takers \ {c}
  PROVE  /\ Busy(c)
         /\ pc'[d] = pc[d] /\ job'[d] = job[d] /\ rcon'[d] = rcon[d]
         /\ result'[d] = result[d]
<1> USE DEF TypeOK, Goto, Return, Replied, Unanswered, AfterFailure
<1>1. CASE DialRcon(c) \/ ArchivePath(c) \/ ArchiveName(c)
  BY <1>1 DEF DialRcon, ArchivePath, ArchiveName, Busy
<1>2. CASE SaveAll(c) \/ SaveOff(c) \/ SaveOn(c)
  BY <1>2 DEF SaveAll, SaveOff, SaveOn, Busy
<1>3. CASE CreateServerArchive(c) \/ \E f \in Files : WriteFileToZip(c, f)
  BY <1>3 DEF CreateServerArchive, WriteFileToZip, Busy
<1>4. CASE CloseArchive(c) \/ FailArchive(c) \/ PublishArchive(c) \/ Crash(c)
  BY <1>4 DEF CloseArchive, FailArchive, PublishArchive, Crash, Busy
<1> QED
  BY <1>1, <1>2, <1>3, <1>4 DEF Step

\* A dial outside a snapshot concerns nobody else, nor what a snapshot left.
LEMMA Reconnects ==
  ASSUME TypeOK, NEW c \in Takers, NewRconWithRetry(c) \/ Redial(c)
  PROVE  /\ UNCHANGED <<game, result, now, tmp, store>>
         /\ pc[c] \in {"idle", "redial"} /\ pc'[c] \in {"idle", "redial"}
         /\ rcon'[c] # "none" => rcon[c] # "none" \/ c \in Guarded
         /\ \A d \in Takers \ {c} :
              pc'[d] = pc[d] /\ job'[d] = job[d] /\ rcon'[d] = rcon[d]
<1>1. CASE NewRconWithRetry(c)
  BY <1>1 DEF NewRconWithRetry, TypeOK
<1>2. CASE Redial(c)
  BY <1>2 DEF Redial, DialFailed, Dialled, TypeOK
<1> QED
  BY <1>1, <1>2

LEMMA ConnectionsNext ==
  TypeOK /\ Connections /\ [Next]_vars => Connections'
<1> SUFFICES ASSUME TypeOK, Connections, [Next]_vars PROVE Connections'
  OBVIOUS
<1>1. ASSUME NEW c \in Takers, Step(c) PROVE Connections'
  <2>1. /\ rcon'[c] # "none" \/ pc'[c] = "dial" => c \in Guarded
        /\ c \in Guarded /\ pc'[c] \notin {"idle", "redial", "dial"} => rcon'[c] # "none"
    <3> USE DEF TypeOK, Connections, Goto, Return
    <3>1. CASE DialRcon(c) \/ ArchivePath(c) \/ ArchiveName(c)
      BY <3>1 DEF DialRcon, ArchivePath, ArchiveName, FirstStep
    <3>2. CASE SaveAll(c) \/ SaveOff(c) \/ SaveOn(c)
      BY <3>2 DEF SaveAll, SaveOff, SaveOn, Replied, Unanswered, Following
    <3>3. CASE CreateServerArchive(c) \/ \E f \in Files : WriteFileToZip(c, f)
      BY <3>3 DEF CreateServerArchive, WriteFileToZip
    <3>4. CASE CloseArchive(c) \/ FailArchive(c) \/ PublishArchive(c)
      BY <3>4 DEF CloseArchive, AfterArchive, FailArchive, AfterFailure, PublishArchive
    <3> QED
      BY <1>1, <3>1, <3>2, <3>3, <3>4 DEF Step
  <2> QED
    BY <1>1, <2>1, OtherTakers DEF Connections
<1>2. ASSUME NEW c \in Takers, Crash(c) PROVE Connections'
  BY <1>2 DEF Crash, Return, TypeOK, Connections
<1>3. ASSUME NEW c \in Takers, NEW t \in Types, TakeSnapshot(c, t) PROVE Connections'
  BY <1>3 DEF TakeSnapshot, TypeOK, Connections
<1>4. CASE ServerRestart
  BY <1>4 DEF ServerRestart, TypeOK, Connections
<1>5. CASE Edit \/ AutoSave \/ Tick \/ (\E f \in Files : WriteFile(f)) \/ UNCHANGED vars
  BY <1>5 DEF Edit, AutoSave, Tick, WriteFile, vars, Connections
<1>6. ASSUME NEW c \in Takers, NewRconWithRetry(c) \/ Redial(c) PROVE Connections'
  BY <1>6, Reconnects DEF Connections
<1> QED
  BY <1>1, <1>2, <1>3, <1>4, <1>5, <1>6 DEF Next

\* Only save-off turns saving off.
LEMMA OnlySaveOff ==
  ASSUME TypeOK, [Next]_vars, autosave, ~autosave'
  PROVE  \E c \in Takers : SaveOff(c)
<1> USE DEF game
<1>1. ASSUME NEW c \in Takers, Step(c) PROVE SaveOff(c)
  BY <1>1 DEF Step, DialRcon, ArchivePath, ArchiveName, SaveAll, SaveOn,
     CreateServerArchive, WriteFileToZip, CloseArchive, FailArchive,
     PublishArchive, Unanswered
<1>2. ASSUME NEW c \in Takers,
             Crash(c) \/ \E t \in Types : TakeSnapshot(c, t)
      PROVE  FALSE
  BY <1>2 DEF Crash, TakeSnapshot
<1>3. ASSUME NEW c \in Takers, NewRconWithRetry(c) \/ Redial(c) PROVE FALSE
  BY <1>3, Reconnects
<1> QED
  BY <1>1, <1>2, <1>3 DEF Next, Edit, AutoSave, WriteFile, ServerRestart, Tick, vars

(***************************************************************************)
(* Saving off is accounted for.  The witness of a call past save-off is    *)
(* that call; it needs Connections, because only a call with a connection  *)
(* goes on to save-on.                                                     *)
(***************************************************************************)
LEMMA SaveOffNext ==
  TypeOK /\ Connections /\ SaveOffAccounted /\ [Next]_vars => SaveOffAccounted'
<1> SUFFICES ASSUME TypeOK, Connections, SaveOffAccounted, [Next]_vars,
                    ~autosave'
             PROVE  \E c \in Guarded :
                      \/ pc'[c] \in {"create", "copy", "saveon", "restore"}
                      \/ result'[c] = "err" /\ pc'[c] # "publish"
  BY DEF SaveOffAccounted
<1> DEFINE Off(d) == \/ pc[d] \in {"create", "copy", "saveon", "restore"}
                     \/ result[d] = "err" /\ pc[d] # "publish"
           OffNext(d) == \/ pc'[d] \in {"create", "copy", "saveon", "restore"}
                         \/ result'[d] = "err" /\ pc'[d] # "publish"
<1>1. ASSUME NEW c \in Takers, SaveOff(c), autosave
      PROVE  c \in Guarded /\ OffNext(c)
  <2>1. rcon[c] = "live" /\ pc[c] = "saveoff" /\ Replied(c)
    BY <1>1 DEF SaveOff, Executed, Unanswered, game
  <2>2. c \in Guarded
    BY <2>1 DEF Connections
  <2>3. Goto(c, "create") \/ Return(c, "err")
    BY <2>1 DEF Replied, Following
  <2>4. OffNext(c)
    BY <2>3 DEF Goto, Return, TypeOK
  <2> QED
    BY <2>2, <2>4
<1>2. CASE autosave
  <2>1. PICK c \in Takers : SaveOff(c)
    BY <1>2, OnlySaveOff
  <2> QED
    BY <1>1, <1>2, <2>1 DEF OffNext
<1>3. CASE ~autosave
  <2>1. PICK d \in Guarded : Off(d)
    BY <1>3 DEF SaveOffAccounted
  <2>2. d \in Takers
    BY GuardedAssumption
  <2> SUFFICES OffNext(d)
    OBVIOUS
  <2>3. CASE Step(d)
    <3> USE <2>1, <2>2 DEF TypeOK, Goto, Return
    <3>1. CASE DialRcon(d) \/ ArchivePath(d) \/ ArchiveName(d)
      BY <3>1 DEF DialRcon, ArchivePath, ArchiveName, FirstStep
    <3>2. CASE SaveAll(d) \/ SaveOff(d)
      BY <3>2 DEF SaveAll, SaveOff, Replied, Unanswered, Following
    <3>3. CASE SaveOn(d)
      BY <3>3 DEF SaveOn, Unanswered
    <3>4. CASE CreateServerArchive(d) \/ \E f \in Files : WriteFileToZip(d, f)
      BY <3>4 DEF CreateServerArchive, WriteFileToZip
    <3>5. CASE CloseArchive(d) \/ FailArchive(d)
      BY <3>5 DEF CloseArchive, AfterArchive, FailArchive, AfterFailure, Connections
    <3>6. CASE PublishArchive(d)
      BY <3>6 DEF PublishArchive
    <3> QED
      BY <2>3, <3>1, <3>2, <3>3, <3>4, <3>5, <3>6 DEF Step
  <2>4. CASE Crash(d) \/ \E t \in Types : TakeSnapshot(d, t)
    BY <2>1, <2>2, <2>4 DEF Crash, Return, TakeSnapshot, TypeOK
  <2>5. ASSUME NEW c \in Takers \ {d}, Step(c) \/ Crash(c) PROVE OffNext(d)
    BY <2>1, <2>2, <2>5, OtherTakers
  <2>6. ASSUME NEW c \in Takers \ {d}, NEW t \in Types, TakeSnapshot(c, t)
        PROVE  OffNext(d)
    BY <2>1, <2>2, <2>6 DEF TakeSnapshot, TypeOK
  <2>7. CASE Edit \/ AutoSave \/ Tick \/ ServerRestart \/ UNCHANGED vars
             \/ \E f \in Files : WriteFile(f)
    BY <2>1, <2>7 DEF Edit, AutoSave, Tick, ServerRestart, WriteFile, vars
  <2>8. ASSUME NEW c \in Takers, NewRconWithRetry(c) \/ Redial(c) PROVE OffNext(d)
    BY <2>1, <2>2, <2>8, Reconnects
  <2> QED
    BY <2>3, <2>4, <2>5, <2>6, <2>7, <2>8 DEF Next
<1> QED
  BY <1>2, <1>3

\* Saving is only ever off on behalf of a call that still has to turn it on,
\* or of one that failed: SaveOffAccounted, for any number of takers.
THEOREM SavingAccounted == Spec => []SaveOffAccounted
<1>1. Init => Connections /\ SaveOffAccounted
  BY DEF Init, Connections, SaveOffAccounted
<1> QED
  BY <1>1, TypeInit, TypeNext, ConnectionsNext, SaveOffNext, PTL DEF Spec

\* When every call has returned and none has failed, saving is on.
THEOREM SavingRestored == Spec => []AutoSaveRestored
<1>1. SaveOffAccounted => AutoSaveRestored
  BY GuardedAssumption DEF SaveOffAccounted, AutoSaveRestored, Busy
<1> QED
  BY <1>1, SavingAccounted, PTL

-----------------------------------------------------------------------------
(***************************************************************************)
(* A published archive is one version of the world.  The invariant follows *)
(* the call: GameInv says that outside a pass every file holds the version *)
(* of the last pass; AloneInv that nobody else is in a call beside one     *)
(* that is alone; TakerInv what a call with a live connection has secured  *)
(* at each of its steps: after save-all a pass no older than the call,     *)
(* after save-off that no pass can start, and while it copies that what is *)
(* in the zip file is of that pass.                                        *)
(***************************************************************************)
GameInv ==
    /\ pass <= mem
    /\ \A f \in Files \ writing : disk[f] = pass

AloneInv ==
    \A c \in Takers : Busy(c) /\ job[c].alone => \A d \in Takers \ {c} : ~Busy(d)

Quiet(c) == c \in Guarded /\ job[c].alone /\ rcon[c] = "live"
Holds(c, fs, v) == \A f \in fs : tmp[TmpFile(c)].data[f] = v

TakerInv(c) ==
    /\ Busy(c) => job[c].since <= mem
    /\ pc[c] \in {"dial", "path", "name", "saveall", "saveoff", "create"}
         => job[c].todo = FilesOf[job[c].type]
    /\ Quiet(c) /\ pc[c] \in {"saveoff", "create", "copy", "saveon"}
         => job[c].since <= pass
    /\ Quiet(c) /\ pc[c] \in {"create", "copy", "saveon"} => ~autosave /\ writing = {}
    /\ Quiet(c) /\ pc[c] = "copy"
         => Holds(c, FilesOf[job[c].type] \ job[c].todo, pass)
    /\ Quiet(c) /\ pc[c] = "saveon" => Holds(c, FilesOf[job[c].type], pass)
    /\ c \in Guarded /\ job[c].alone /\ pc[c] = "publish"
         => \E v \in job[c].since .. mem : Holds(c, FilesOf[job[c].type], v)

QuietInv == TypeOK /\ Connections /\ GameInv /\ AloneInv
            /\ (\A c \in Takers : TakerInv(c)) /\ PointInTime

\* What the game server is asked to do in a step of a taker's call.
LEMMA GameSteps ==
  ASSUME TypeOK, NEW c \in Takers, Step(c) \/ Crash(c)
  PROVE  /\ mem' = mem /\ writing' = writing
         /\ \/ UNCHANGED <<pass, disk>>
            \/ writing = {} /\ pass' = mem /\ disk' = [f \in Files |-> mem]
<1>1. CASE SaveAll(c)
  BY <1>1 DEF SaveAll, Executed, Unanswered, game
<1>2. CASE SaveOff(c) \/ SaveOn(c)
  BY <1>2 DEF SaveOff, SaveOn, Unanswered, game
<1>3. CASE DialRcon(c) \/ ArchivePath(c) \/ ArchiveName(c)
  BY <1>3 DEF DialRcon, ArchivePath, ArchiveName, game
<1>4. CASE CreateServerArchive(c) \/ \E f \in Files : WriteFileToZip(c, f)
  BY <1>4 DEF CreateServerArchive, WriteFileToZip, game
<1>5. CASE CloseArchive(c) \/ FailArchive(c) \/ PublishArchive(c) \/ Crash(c)
  BY <1>5 DEF CloseArchive, FailArchive, PublishArchive, Crash, game
<1> QED
  BY <1>1, <1>2, <1>3, <1>4, <1>5 DEF Step

LEMMA GameNext == TypeOK /\ GameInv /\ [Next]_vars => GameInv'
<1> SUFFICES ASSUME TypeOK, GameInv, [Next]_vars PROVE GameInv'
  OBVIOUS
<1> USE DEF GameInv
<1>1. ASSUME NEW c \in Takers, Step(c) \/ Crash(c) PROVE GameInv'
  BY <1>1, GameSteps DEF TypeOK, Versions
<1>2. ASSUME NEW c \in Takers, NEW t \in Types, TakeSnapshot(c, t) PROVE GameInv'
  BY <1>2 DEF TakeSnapshot, game
<1>3. CASE Edit
  BY <1>3 DEF Edit, TypeOK, Versions
<1>4. CASE AutoSave
  BY <1>4 DEF AutoSave, TypeOK, Versions
<1>5. ASSUME NEW f \in Files, WriteFile(f) PROVE GameInv'
  BY <1>5 DEF WriteFile, TypeOK
<1>6. CASE ServerRestart
  BY <1>6 DEF ServerRestart, TypeOK, Versions
<1>7. CASE Tick \/ UNCHANGED vars
  BY <1>7 DEF Tick, vars
<1>8. ASSUME NEW c \in Takers, NewRconWithRetry(c) \/ Redial(c) PROVE GameInv'
  BY <1>8, Reconnects DEF game
<1> QED
  BY <1>1, <1>2, <1>3, <1>4, <1>5, <1>6, <1>7, <1>8 DEF Next

\* In a step of its call a taker keeps the history of the call, or returns.
LEMMA OwnJob ==
  ASSUME TypeOK, NEW c \in Takers, Step(c) \/ Crash(c)
  PROVE  \/ pc'[c] = "idle"
         \/ /\ job'[c].alone = job[c].alone /\ job'[c].since = job[c].since
            /\ job'[c].type = job[c].type
<1> USE DEF TypeOK, Jobs, Goto, Return
<1>1. CASE DialRcon(c) \/ ArchivePath(c) \/ ArchiveName(c)
  BY <1>1 DEF DialRcon, ArchivePath, ArchiveName
<1>2. CASE SaveAll(c) \/ SaveOff(c) \/ SaveOn(c)
  BY <1>2 DEF SaveAll, SaveOff, SaveOn, Replied, Unanswered
<1>3. CASE CreateServerArchive(c) \/ \E f \in Files : WriteFileToZip(c, f)
  BY <1>3 DEF CreateServerArchive, WriteFileToZip
<1>4. CASE CloseArchive(c) \/ FailArchive(c) \/ PublishArchive(c) \/ Crash(c)
  BY <1>4 DEF CloseArchive, FailArchive, AfterFailure, PublishArchive, Crash
<1> QED
  BY <1>1, <1>2, <1>3, <1>4 DEF Step

LEMMA AloneNext == TypeOK /\ AloneInv /\ [Next]_vars => AloneInv'
<1> SUFFICES ASSUME TypeOK, AloneInv, [Next]_vars PROVE AloneInv'
  OBVIOUS
<1>1. ASSUME NEW c \in Takers, Step(c) \/ Crash(c) PROVE AloneInv'
  BY <1>1, OtherTakers, OwnJob DEF AloneInv, Busy
<1>2. ASSUME NEW c \in Takers, NEW t \in Types, TakeSnapshot(c, t) PROVE AloneInv'
  <2>1. ASSUME NEW d \in Takers \ {c} PROVE job'[d].alone = FALSE /\ pc'[d] = pc[d]
    BY <1>2 DEF TakeSnapshot, TypeOK, Jobs
  <2>2. job'[c].alone => \A e \in Takers \ {c} : ~Busy(e)
    BY <1>2 DEF TakeSnapshot, NoJob
  <2> QED
    BY <2>1, <2>2 DEF AloneInv, Busy
<1>3. CASE Edit \/ AutoSave \/ Tick \/ ServerRestart \/ UNCHANGED vars
           \/ \E f \in Files : WriteFile(f)
  BY <1>3 DEF Edit, AutoSave, Tick, ServerRestart, WriteFile, vars, AloneInv, Busy
<1>4. ASSUME NEW c \in Takers, NewRconWithRetry(c) \/ Redial(c) PROVE AloneInv'
  BY <1>4, Reconnects DEF AloneInv, Busy
<1> QED
  BY <1>1, <1>2, <1>3, <1>4 DEF Next

(***************************************************************************)
(* TakerInv of the taker that moves, one step of the proof per action.     *)
(***************************************************************************)
LEMMA OwnTakerNext ==
  ASSUME QuietInv, NEW c \in Takers, Step(c) \/ Crash(c)
  PROVE  TakerInv(c)'
<1>t. TypeOK /\ TypeOK' /\ TakerInv(c) /\ GameInv /\ Connections
  BY TypeNext DEF QuietInv, Next
<1>j. job[c] \in Jobs /\ tmp \in [Hosts \X Times -> Zips] /\ pc[c] \in Labels
  BY <1>t DEF TypeOK
<1>p. TmpFile(c) \in Hosts \X Times
  BY TmpFileType, <1>t DEF TypeOK
<1>0. CASE pc'[c] = "idle"
  BY <1>0 DEF TakerInv, Busy
<1>1. CASE DialRcon(c) /\ pc'[c] # "idle"
  BY <1>t, <1>1 DEF DialRcon, Goto, Return, TypeOK, TakerInv, Busy, game
<1>2. CASE ArchivePath(c)
  BY <1>t, <1>j, <1>2 DEF ArchivePath, TypeOK, Jobs, TakerInv, Busy, game
<1>3. CASE ArchiveName(c)
  <2>1. /\ pc'[c] \in {"create", "saveall"} /\ rcon' = rcon
        /\ pc'[c] = "create" => rcon[c] # "live"
    BY <1>t, <1>3 DEF ArchiveName, FirstStep, TypeOK
  <2>2. /\ job'[c].since = job[c].since /\ mem' = mem /\ Busy(c)
        /\ job'[c].todo = job[c].todo /\ job'[c].type = job[c].type /\ pc[c] = "name"
    BY <1>t, <1>j, <1>3 DEF ArchiveName, TypeOK, Jobs, Busy, game
  <2> QED
    BY <1>t, <2>1, <2>2 DEF TakerInv, Quiet, Busy
<1>4. CASE SaveAll(c) /\ pc'[c] # "idle"
  <2>1. /\ pc[c] = "saveall" /\ pc'[c] = "saveoff" /\ job' = job
        /\ pass' = mem /\ mem' = mem
    BY <1>t, <1>4 DEF SaveAll, Replied, Following, Unanswered, Goto, Return, TypeOK
  <2> QED
    BY <1>t, <2>1 DEF TakerInv, Busy
<1>5. CASE SaveOff(c) /\ pc'[c] # "idle"
  <2>1. /\ pc[c] = "saveoff" /\ pc'[c] = "create" /\ job' = job /\ rcon' = rcon
        /\ ~autosave' /\ writing' = {} /\ pass' = pass /\ mem' = mem
    BY <1>t, <1>5 DEF SaveOff, Executed, Replied, Following, Unanswered, Goto, Return,
       TypeOK
  <2> QED
    BY <1>t, <2>1 DEF TakerInv, Quiet, Busy
<1>6. CASE SaveOn(c) /\ pc'[c] # "idle"
  <2>1. /\ pc[c] = "saveon" /\ pc'[c] = "publish" /\ job' = job /\ rcon' = rcon
        /\ rcon[c] = "live" /\ tmp' = tmp /\ pass' = pass /\ mem' = mem
    BY <1>t, <1>6 DEF SaveOn, Executed, Replied, Following, Unanswered, Goto, Return,
       TypeOK
  <2>2. Holds(c, FilesOf[job[c].type], pass)' <=> Holds(c, FilesOf[job[c].type], pass)
    BY <2>1 DEF Holds, TmpFile
  <2>3. c \in Guarded /\ job[c].alone => pass \in job[c].since .. mem
    BY <1>t, <1>j, <2>1, BoundAssumption
       DEF TakerInv, Quiet, GameInv, TypeOK, Jobs, Versions
  <2> QED
    BY <1>t, <2>1, <2>2, <2>3 DEF TakerInv, Quiet, Busy, Holds, TmpFile
<1>7. CASE CreateServerArchive(c)
  <2>1. /\ pc[c] = "create" /\ pc'[c] = "copy" /\ job' = job /\ rcon' = rcon
        /\ UNCHANGED game
    BY <1>t, <1>7 DEF CreateServerArchive, Goto, TypeOK
  <2>2. Holds(c, FilesOf[job[c].type] \ job[c].todo, pass)'
    BY <1>t, <2>1 DEF TakerInv, Holds
  <2> QED
    BY <1>t, <2>1, <2>2 DEF TakerInv, Quiet, Busy, game
<1>8. ASSUME NEW f \in Files, WriteFileToZip(c, f) PROVE TakerInv(c)'
  <2>1. /\ pc[c] = "copy" /\ pc'[c] = "copy" /\ UNCHANGED <<game, rcon>>
        /\ f \in job[c].todo
    BY <1>8 DEF WriteFileToZip
  <2>2. /\ job'[c].alone = job[c].alone /\ job'[c].since = job[c].since
        /\ job'[c].type = job[c].type /\ job'[c].name = job[c].name
        /\ job'[c].todo = job[c].todo \ {f}
    BY <1>t, <1>8 DEF WriteFileToZip, TypeOK, Jobs
  <2>3. TmpFile(c)' = TmpFile(c)
    BY <2>2 DEF TmpFile
  <2>4. ASSUME NEW g \in Files
        PROVE  tmp'[TmpFile(c)].data[g]
                 = IF g = f THEN disk[f] ELSE tmp[TmpFile(c)].data[g]
    BY <1>8, <1>j, <1>p DEF WriteFileToZip, Zips, Contents
  <2>5. CASE Quiet(c)
    <3>1. ~autosave /\ writing = {} /\ job[c].since <= pass /\ disk[f] = pass
      BY <1>t, <2>1, <2>5 DEF TakerInv, GameInv
    <3>2. Holds(c, FilesOf[job[c].type] \ job[c].todo, pass)
      BY <1>t, <2>1, <2>5 DEF TakerInv
    <3>3. FilesOf[job[c].type] \subseteq Files
      BY <1>j, FilesOfAssumption DEF Jobs
    <3>4. Holds(c, FilesOf[job[c].type] \ job[c].todo, pass)'
      BY <2>1, <2>2, <2>3, <2>4, <3>1, <3>2, <3>3 DEF Holds, game
    <3> QED
      BY <1>t, <2>1, <2>2, <3>1, <3>4 DEF TakerInv, Busy, game
  <2>6. CASE ~Quiet(c)
    BY <1>t, <2>1, <2>2, <2>6 DEF TakerInv, Quiet, Busy, game
  <2> QED
    BY <2>5, <2>6
<1>9. CASE CloseArchive(c)
  <2>1. /\ pc[c] = "copy" /\ UNCHANGED <<game, rcon, job>> /\ job[c].todo = {}
        /\ pc'[c] = IF rcon[c] = "none" THEN "publish" ELSE "saveon"
    BY <1>t, <1>9 DEF CloseArchive, AfterArchive, Goto, TypeOK
  <2>2. TmpFile(c)' = TmpFile(c)
    BY <2>1 DEF TmpFile
  <2>3. tmp'[TmpFile(c)].data = tmp[TmpFile(c)].data
    BY <1>9, <1>j, <1>p DEF CloseArchive, CloseZip, Zips
  <2>4. Holds(c, FilesOf[job[c].type], pass)' <=> Holds(c, FilesOf[job[c].type], pass)
    BY <2>1, <2>2, <2>3 DEF Holds, game
  <2>5. c \in Guarded => pc'[c] = "saveon"
    BY <1>t, <2>1 DEF Connections
  <2> QED
    BY <1>t, <2>1, <2>4, <2>5 DEF TakerInv, Quiet, Busy, game
<1>10. CASE FailArchive(c) /\ pc'[c] # "idle"
  <2>1. pc'[c] = "restore" /\ UNCHANGED <<game, job>> /\ Busy(c)
    BY <1>t, <1>10 DEF FailArchive, AfterFailure, Goto, Return, TypeOK, Busy
  <2> QED
    BY <1>t, <2>1 DEF TakerInv, game
<1>11. CASE PublishArchive(c) \/ Crash(c)
  BY <1>t, <1>0, <1>11 DEF PublishArchive, Crash, Return, TypeOK
<1> QED
  BY <1>0, <1>1, <1>2, <1>3, <1>4, <1>5, <1>6, <1>7, <1>8, <1>9, <1>10, <1>11 DEF Step

(***************************************************************************)
(* TakerInv of a taker that does not move: the steps of other takers leave *)
(* a call that is alone in peace because there are none.                   *)
(***************************************************************************)
LEMMA TakerNext ==
  ASSUME QuietInv, [Next]_vars, NEW d \in Takers
  PROVE  TakerInv(d)'
<1>t. TypeOK /\ TypeOK' /\ TakerInv(d) /\ GameInv /\ AloneInv
  BY TypeNext DEF QuietInv
<1>1. CASE Step(d) \/ Crash(d)
  BY <1>1, OwnTakerNext
<1>2. ASSUME NEW c \in Takers \ {d}, Step(c) \/ Crash(c) PROVE TakerInv(d)'
  <2>1. /\ Busy(c) /\ pc'[d] = pc[d] /\ job'[d] = job[d] /\ rcon'[d] = rcon[d]
        /\ mem' = mem
    BY <1>t, <1>2, OtherTakers, GameSteps
  <2>2. ~(Busy(d) /\ job[d].alone)
    BY <1>t, <2>1 DEF AloneInv
  <2> QED
    BY <1>t, <2>1, <2>2 DEF TakerInv, Quiet, Busy
<1>3. ASSUME NEW t \in Types, TakeSnapshot(d, t) PROVE TakerInv(d)'
  <2>1. pc'[d] \in {"dial", "path"} /\ mem' = mem
    BY <1>t, <1>3 DEF TakeSnapshot, TypeOK, game
  <2>2. job'[d].since = mem /\ job'[d].type = t /\ job'[d].todo = FilesOf[t]
    BY <1>3 DEF TakeSnapshot, NoJob
  <2> QED
    BY <1>t, <2>1, <2>2 DEF TakerInv, TypeOK, Versions
<1>4. ASSUME NEW c \in Takers \ {d}, NEW t \in Types, TakeSnapshot(c, t)
      PROVE  TakerInv(d)'
  <2>1. pc'[d] = pc[d] /\ mem' = mem
    BY <1>t, <1>4 DEF TakeSnapshot, TypeOK, game
  <2>2. /\ job'[d].since = job[d].since /\ job'[d].type = job[d].type
        /\ job'[d].todo = job[d].todo /\ ~job'[d].alone
    BY <1>t, <1>4 DEF TakeSnapshot, TypeOK, Jobs
  <2> QED
    BY <1>t, <2>1, <2>2 DEF TakerInv, Quiet, Busy
<1>5. CASE Edit
  <2>1. mem \in Nat /\ job[d].since \in Nat
    BY <1>t DEF TypeOK, Jobs, Versions
  <2>2. mem' = mem + 1 /\ UNCHANGED <<pass, writing, autosave, pc, rcon, job, tmp>>
    BY <1>5 DEF Edit
  <2> QED
    BY <1>t, <2>1, <2>2 DEF TakerInv, Quiet, Holds, TmpFile, Busy
<1>6. CASE AutoSave
  BY <1>t, <1>6 DEF AutoSave, TakerInv, Quiet, Holds, TmpFile, Busy, TypeOK
<1>7. ASSUME NEW f \in Files, WriteFile(f) PROVE TakerInv(d)'
  BY <1>t, <1>7 DEF WriteFile, TakerInv, Quiet, Holds, TmpFile, Busy
<1>8. CASE ServerRestart
  BY <1>t, <1>8 DEF ServerRestart, TakerInv, Quiet, Holds, TmpFile, Busy, TypeOK
<1>9. CASE Tick \/ UNCHANGED vars
  BY <1>t, <1>9 DEF Tick, vars, TakerInv, Quiet, Holds, TmpFile, Busy
<1>10. ASSUME NEW c \in Takers, NewRconWithRetry(c) \/ Redial(c) PROVE TakerInv(d)'
  <2>1. CASE c = d
    BY <1>10, <2>1, Reconnects, <1>t DEF TakerInv, Busy
  <2>2. CASE c # d
    BY <1>10, <2>2, Reconnects, <1>t DEF TakerInv, Quiet, Holds, TmpFile, Busy, game
  <2> QED
    BY <2>1, <2>2
<1> QED
  BY <1>1, <1>2, <1>3, <1>4, <1>5, <1>6, <1>7, <1>8, <1>9, <1>10 DEF Next

\* Only a put changes what is in the bucket.
LEMMA OnlyPutsStore ==
  ASSUME TypeOK, [Next]_vars
  PROVE  UNCHANGED store \/ \E c \in Takers : PublishArchive(c) /\ Put(c)
<1>1. ASSUME NEW c \in Takers, Step(c) \/ Crash(c)
      PROVE  UNCHANGED store \/ (PublishArchive(c) /\ Put(c))
  BY <1>1 DEF Step, DialRcon, ArchivePath, ArchiveName, SaveAll, SaveOff, SaveOn,
     CreateServerArchive, WriteFileToZip, CloseArchive, FailArchive, PublishArchive,
     Crash
<1>2. ASSUME NEW c \in Takers, NEW t \in Types, TakeSnapshot(c, t)
      PROVE  UNCHANGED store
  BY <1>2 DEF TakeSnapshot
<1>3. ASSUME NEW c \in Takers, NewRconWithRetry(c) \/ Redial(c) PROVE UNCHANGED store
  BY <1>3, Reconnects
<1> QED
  BY <1>1, <1>2, <1>3
     DEF Next, Edit, AutoSave, WriteFile, ServerRestart, Tick, vars

\* What a put adds is the taker's temporary file, unless it was not read to
\* its end, filed as its call asked.
LEMMA WhatIsPut ==
  ASSUME NEW c \in Takers, Put(c), NEW o \in store' \ store
  PROVE  /\ o.type = job[c].type
         /\ o.zip = tmp[TmpFile(c)] \/ (o.zip.form = "short" /\ "read" \in Faults)
         /\ o.since = job[c].since /\ o.alone = job[c].alone
         /\ o.guarded = (c \in Guarded)
<1>1. PICK zip \in Read(c) :
        o = [type |-> job[c].type, key |-> job[c].key, zip |-> zip,
             guarded |-> c \in Guarded,
             since |-> job[c].since, alone |-> job[c].alone]
  BY DEF Put
<1>2. /\ o.type = job[c].type /\ o.zip = zip
      /\ o.since = job[c].since /\ o.alone = job[c].alone
  BY <1>1
<1>4. zip = tmp[TmpFile(c)] \/ (zip.form = "short" /\ "read" \in Faults)
  BY DEF Read, ShortRead
<1>3. o.guarded = (c \in Guarded)
  BY <1>1, Zenon
<1> QED
  BY <1>2, <1>3, <1>4, Zenon

\* What a put adds is as TakerInv says.
LEMMA PointInTimeNext ==
  ASSUME QuietInv, [Next]_vars
  PROVE  PointInTime'
<1>t. TypeOK /\ PointInTime /\ \A c \in Takers : TakerInv(c)
  BY DEF QuietInv
<1>1. CASE UNCHANGED store
  BY <1>t, <1>1 DEF PointInTime
<1>2. ASSUME NEW c \in Takers, PublishArchive(c), Put(c) PROVE PointInTime'
  <2>1. pc[c] = "publish" /\ TakerInv(c)
    BY <1>t, <1>2 DEF PublishArchive
  <2> SUFFICES ASSUME NEW o \in store', o.guarded, o.alone, Readable(o)
               PROVE  \E v \in o.since .. MaxVersion :
                        \A f \in FilesOf[o.type] : o.zip.data[f] = v
    BY DEF PointInTime
  <2>2. CASE o \in store
    BY <1>t, <2>2 DEF PointInTime
  <2>3. CASE o \notin store
    <3>0. o.zip.form # "short"
      BY DEF Readable
    <3>1. /\ o.type = job[c].type /\ o.zip = tmp[TmpFile(c)]
          /\ o.since = job[c].since
          /\ c \in Guarded /\ job[c].alone
      BY <1>2, <2>3, <3>0, WhatIsPut, Zenon
    <3>2. job[c].since .. mem \subseteq job[c].since .. MaxVersion
      BY <1>t, BoundAssumption DEF TypeOK, Jobs, Versions
    <3> QED
      BY <2>1, <3>1, <3>2 DEF TakerInv, Holds
  <2> QED
    BY <2>2, <2>3
<1> QED
  BY <1>t, <1>1, <1>2, OnlyPutsStore

\* The invariant holds in every run.
LEMMA QuietAlways == Spec => []QuietInv
<1>1. Init => QuietInv
  <2>1. ASSUME Init PROVE GameInv
    BY <2>1 DEF Init, GameInv
  <2>2. ASSUME Init PROVE Connections /\ AloneInv /\ PointInTime
    BY <2>2 DEF Init, Connections, AloneInv, PointInTime, Busy
  <2>3. ASSUME Init, NEW c \in Takers PROVE TakerInv(c)
    BY <2>3 DEF Init, TakerInv, Busy
  <2> QED
    BY <2>1, <2>2, <2>3, TypeInit DEF QuietInv
<1>2. QuietInv /\ [Next]_vars => QuietInv'
  BY TypeNext, ConnectionsNext, GameNext, AloneNext, TakerNext, PointInTimeNext
     DEF QuietInv
<1> QED
  BY <1>1, <1>2, PTL DEF Spec

\* A readable archive published by a call with a connection and no call beside it is
\* one version of the world, from within the call: PointInTime, whatever
\* fails, for any number of takers, files and seconds.
THEOREM SnapshotsAreConsistent == Spec => []PointInTime
<1>1. QuietInv => PointInTime
  BY DEF QuietInv
<1> QED
  BY <1>1, QuietAlways, PTL

-----------------------------------------------------------------------------
(***************************************************************************)
(* Why a call returns, as far as it is a matter of safety: the steps of a  *)
(* call are in one order, with no way back, and in between nobody else     *)
(* moves it.  (That it takes those steps is fairness; the two together are *)
(* CallsReturn.)                                                           *)
(***************************************************************************)
Place ==
    [redial |-> 0, dial |-> 1, path |-> 2, name |-> 3, saveall |-> 4, saveoff |-> 5,
     create |-> 6, copy |-> 7, saveon |-> 8, restore |-> 8, publish |-> 9]

Advances(c) ==
    \/ pc'[c] = "idle"
    \/ pc'[c] # "redial" /\ Place[pc'[c]] > Place[pc[c]]
    \/ pc'[c] = pc[c] /\ job'[c].todo \subseteq job[c].todo /\ job'[c].todo # job[c].todo
    \/ pc'[c] = pc[c] /\ job'[c].tries > job[c].tries

Stays(c) ==
    pc'[c] = pc[c] /\ job'[c].todo = job[c].todo /\ job'[c].tries = job[c].tries

CallsOnlyAdvance ==
    [][\A c \in Takers : pc[c] # "idle" =>
         /\ Advances(c) \/ Stays(c)
         /\ Step(c) \/ Redial(c) => Advances(c)]_vars

LEMMA StepAdvances ==
  ASSUME TypeOK, NEW c \in Takers, Step(c) \/ Redial(c) \/ Crash(c)
  PROVE  Advances(c)
<1> USE DEF TypeOK, Jobs, Goto, Return, Advances, Place
<1>1. CASE DialRcon(c) \/ ArchivePath(c) \/ ArchiveName(c)
  BY <1>1 DEF DialRcon, ArchivePath, ArchiveName, FirstStep
<1>2. CASE SaveAll(c) \/ SaveOff(c) \/ SaveOn(c)
  BY <1>2 DEF SaveAll, SaveOff, SaveOn, Replied, Unanswered, Following
<1>3. CASE CreateServerArchive(c)
  BY <1>3 DEF CreateServerArchive
<1>4. ASSUME NEW f \in Files, WriteFileToZip(c, f) PROVE Advances(c)
  BY <1>4 DEF WriteFileToZip
<1>5. CASE CloseArchive(c) \/ FailArchive(c) \/ PublishArchive(c) \/ Crash(c)
  BY <1>5 DEF CloseArchive, AfterArchive, FailArchive, AfterFailure, PublishArchive,
     Crash
<1>6. CASE Redial(c)
  BY <1>6, BoundAssumption DEF Redial, Dialled, DialFailed
<1> QED
  BY <1>1, <1>2, <1>3, <1>4, <1>5, <1>6 DEF Step

LEMMA OthersStay ==
  ASSUME TypeOK, [Next]_vars, NEW d \in Takers, pc[d] # "idle",
         ~(Step(d) \/ Redial(d) \/ Crash(d))
  PROVE  Stays(d)
<1>1. ASSUME NEW c \in Takers \ {d}, Step(c) \/ Crash(c) PROVE Stays(d)
  BY <1>1, OtherTakers DEF Stays
<1>2. ASSUME NEW c \in Takers \ {d}, NewRconWithRetry(c) \/ Redial(c) PROVE Stays(d)
  BY <1>2, Reconnects DEF Stays
<1>3. ASSUME NEW c \in Takers \ {d}, NEW t \in Types, TakeSnapshot(c, t)
      PROVE  Stays(d)
  BY <1>3 DEF TakeSnapshot, TypeOK, Jobs, Stays
<1>4. ~NewRconWithRetry(d) /\ \A t \in Types : ~TakeSnapshot(d, t)
  BY DEF NewRconWithRetry, TakeSnapshot
<1>5. CASE Edit \/ AutoSave \/ Tick \/ ServerRestart \/ UNCHANGED vars
           \/ \E f \in Files : WriteFile(f)
  BY <1>5 DEF Edit, AutoSave, Tick, ServerRestart, WriteFile, vars, Stays
<1> QED
  BY <1>1, <1>2, <1>3, <1>4, <1>5 DEF Next

\* Every step of a call brings it nearer to its end, and no step of anyone
\* else takes it back: CallsOnlyAdvance, whatever fails.
THEOREM CallsAdvance == Spec => CallsOnlyAdvance
<1>1. ASSUME TypeOK, [Next]_vars, NEW c \in Takers, pc[c] # "idle"
      PROVE  /\ Advances(c) \/ Stays(c)
             /\ Step(c) \/ Redial(c) => Advances(c)
  BY <1>1, StepAdvances, OthersStay
<1>2. ASSUME TypeOK, [Next]_vars
      PROVE  \A c \in Takers : pc[c] # "idle" =>
               /\ Advances(c) \/ Stays(c)
               /\ Step(c) \/ Redial(c) => Advances(c)
  BY <1>1, <1>2
<1> QED
  BY <1>2, TypeCorrect, PTL DEF Spec, CallsOnlyAdvance

-----------------------------------------------------------------------------
(***************************************************************************)
(* Lost replies are all that keeps "no matter what" from being so.  For    *)
(* one taker: a connection is dead because the server restarted, which     *)
(* turned saving on, and the taker cannot have turned it off since.        *)
(***************************************************************************)
DeadSaves == \A c \in Takers : rcon[c] = "dead" => autosave

LEMMA DeadSavesNext ==
  ASSUME \A c, d \in Takers : c = d, TypeOK, DeadSaves, [Next]_vars
  PROVE  DeadSaves'
<1> SUFFICES ASSUME NEW d \in Takers, rcon'[d] = "dead" PROVE autosave'
  BY DEF DeadSaves
<1>1. CASE ServerRestart
  BY <1>1 DEF ServerRestart
<1>2. ASSUME ~ServerRestart PROVE rcon[d] = "dead"
  <2>1. ASSUME NEW c \in Takers, Step(c) \/ Crash(c) PROVE rcon[d] = "dead"
    BY <2>1 DEF Step, DialRcon, ArchivePath, ArchiveName, SaveAll, SaveOff, SaveOn,
       CreateServerArchive, WriteFileToZip, CloseArchive, FailArchive, PublishArchive,
       Crash, TypeOK
  <2>2. ASSUME NEW c \in Takers, NEW t \in Types, TakeSnapshot(c, t)
        PROVE  rcon[d] = "dead"
    BY <2>2 DEF TakeSnapshot
  <2>3. ASSUME NEW c \in Takers, NewRconWithRetry(c) \/ Redial(c)
        PROVE  rcon[d] = "dead"
    BY <2>3 DEF NewRconWithRetry, Redial, TypeOK
  <2> QED
    BY <1>2, <2>1, <2>2, <2>3 DEF Next, Edit, AutoSave, WriteFile, Tick, vars
<1>3. ASSUME NEW c \in Takers, SaveOff(c), ~ServerRestart, autosave PROVE autosave'
  BY <1>2, <1>3 DEF SaveOff, Executed, Unanswered, game
<1> QED
  BY <1>1, <1>2, <1>3, OnlySaveOff DEF DeadSaves

(***************************************************************************)
(* If no reply is lost, a save-off that a lone taker's server executes does*)
(* not end the call, so save-on follows (archive.go's "no matter what"): the*)
(* connection it goes over is alive, since only a restart kills one, and a *)
(* restart turns saving on.                                                *)
(***************************************************************************)
THEOREM SaveOnUnlessReplyLost ==
  ASSUME \A c, d \in Takers : c = d, "rcon" \notin Faults
  PROVE  Spec => SaveOnNoMatterWhat
<1>1. Init => DeadSaves
  BY DEF Init, DeadSaves
<1>2. ASSUME TypeOK, DeadSaves
      PROVE  \A c \in Takers : SaveOff(c) /\ autosave' = FALSE => pc'[c] # "idle"
  <2> SUFFICES ASSUME NEW c \in Takers, SaveOff(c), autosave' = FALSE
               PROVE  pc'[c] # "idle"
    OBVIOUS
  <2>1. ~Unanswered(c)
    BY <1>2 DEF Unanswered, DeadSaves, game
  <2>2. Goto(c, "create")
    BY <2>1 DEF SaveOff, Replied, Following
  <2> QED
    BY <1>2, <2>2 DEF Goto, TypeOK
<1>3. TypeOK /\ DeadSaves /\ [Next]_vars => DeadSaves'
  BY DeadSavesNext
<1> QED
  BY <1>1, <1>2, <1>3, TypeCorrect, PTL DEF Spec, SaveOnNoMatterWhat
=============================================================================
