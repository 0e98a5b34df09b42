-------------------------- MODULE ServerFilesProofs --------------------------
(***************************************************************************)
(* Theorems about ServerFiles, for any number of threads, processes,       *)
(* directories, files and entries, and over every fault.                   *)
(***************************************************************************)
EXTENDS ServerFiles, TLAPS

(***************************************************************************)
(* What a thread holds at each label.  A configuration in hand is whole or *)
(* empty because that is what a load yields, and edits keep its entries.   *)
(***************************************************************************)
ThreadOK(t) ==
    /\ pc[t] # "idle" => dir[t] \in Dirs /\ named[t] \in Dirs \cup {Here}
    /\ pc[t] \in {"chdir", "walk", "back"} => saved[t] \in Dirs
    /\ pc[t] \notin {"walk", "back"} => zip[t] = {}
    /\ pc[t] \in {"edit", "write"} => conf[t] \in Whole \cup {Empty}
    /\ pc[t] \notin {"edit", "write"} => edits[t] = Empty

FilesOK ==
    /\ TypeOK
    /\ \A t \in Threads : ThreadOK(t)
    /\ WholeOrEmpty

LEMMA ConfigFacts ==
  /\ Empty \in Configs /\ Empty \in Edits /\ Empty \notin Whole /\ DOMAIN Empty = {}
  /\ Whole \subseteq Configs
  /\ None \notin Configs /\ Garbled \notin Configs /\ Garbled # None
<1>1. Empty \in [{} -> Values] /\ DOMAIN Empty = {}
  BY DEF Empty
<1>2. Empty \in Configs /\ Empty \in Edits
  BY <1>1 DEF Configs, Edits
<1>3. Whole \subseteq Configs
  BY DEF Configs, Whole, AllKeys
<1>4. Empty \notin Whole
  BY <1>1, KeysAssumption DEF Whole
<1> QED
  BY <1>1, <1>2, <1>3, <1>4, GarbledAssumption

\* Setting an entry that is there, and noting it.
LEMMA EntrySet ==
  ASSUME NEW c \in Whole \cup {Empty}, NEW k \in DOMAIN c, NEW v \in Values
  PROVE  [c EXCEPT ![k] = v] \in Whole
BY ConfigFacts DEF Whole

LEMMA EntryNoted ==
  ASSUME NEW e \in Edits, NEW k \in Keys, NEW v \in Values
  PROVE  Added(e, k, v) \in Edits
<1>1. PICK ks \in SUBSET Keys : e \in [ks -> Values]
  BY DEF Edits
<1>2. Added(e, k, v) \in [ks \cup {k} -> Values]
  BY <1>1 DEF Added
<1>3. ks \cup {k} \in SUBSET Keys
  OBVIOUS
<1> QED
  BY <1>2, <1>3 DEF Edits

(***************************************************************************)
(* The end of the calls of some threads.                                   *)
(***************************************************************************)
LEMMA StopEffect ==
  ASSUME TypeOK, NEW ts, Stop(ts)
  PROVE  /\ pc' \in [Threads -> Labels] /\ named' \in [Threads -> Dirs \cup {Here, None}]
         /\ dir' \in [Threads -> Dirs \cup {None}] /\ saved' \in [Threads -> Dirs \cup {None}]
         /\ zip' \in [Threads -> SUBSET (Dirs \X Names)]
         /\ conf' \in [Threads -> Configs \cup {None}]
         /\ alone' \in [Threads -> BOOLEAN] /\ edits' \in [Threads -> Edits]
         /\ \A t \in Threads \cap ts :
              pc'[t] = "idle" /\ zip'[t] = {} /\ edits'[t] = Empty
         /\ \A t \in Threads \ ts :
              /\ pc'[t] = pc[t] /\ named'[t] = named[t] /\ dir'[t] = dir[t]
              /\ saved'[t] = saved[t] /\ zip'[t] = zip[t] /\ conf'[t] = conf[t]
              /\ alone'[t] = alone[t] /\ edits'[t] = edits[t]
BY ConfigFacts DEF Stop, TypeOK, Labels

\* A stopped thread holds nothing.
LEMMA StoppedThread ==
  ASSUME FilesOK, NEW ts, Stop(ts), NEW t \in Threads
  PROVE  ThreadOK(t)'
BY StopEffect DEF FilesOK, ThreadOK

\* What Without forgets is forgotten, and nothing else changes.
LEMMA Forgotten ==
  ASSUME kept \in [Dirs -> Whole \cup {None}], NEW ds
  PROVE  /\ Without(ds) \in [Dirs -> Whole \cup {None}]
         /\ \A d \in Dirs : Without(ds)[d] = IF d \in ds THEN None ELSE kept[d]
BY DEF Without

LEMMA ExitOK ==
  ASSUME FilesOK, NEW p \in Processes, Exit(p)
  PROVE  FilesOK'
<1> DEFINE ts == {t \in Threads : ProcOf[t] = p}
           ds == {dir[t] : t \in {u \in ts : pc[u] = "write"}}
<1>1. Stop(ts) /\ UNCHANGED file /\ kept' = Without(ds)
  BY DEF Exit
<1> HIDE DEF ts, ds
<1>2. \A t \in Threads : ThreadOK(t)'
  BY <1>1, StoppedThread
<1>3. kept' \in [Dirs -> Whole \cup {None}] /\ \A d \in Dirs : kept[d] = None => kept'[d] = None
  BY <1>1, Forgotten DEF FilesOK, TypeOK
<1>4. cwd' \in [Processes -> Dirs] /\ mixed' \in [Processes -> BOOLEAN]
  BY HomeAssumption DEF Exit, FilesOK, TypeOK
<1>5. TypeOK'
  BY <1>1, <1>3, <1>4, StopEffect DEF FilesOK, TypeOK
<1>6. WholeOrEmpty'
  BY <1>1, <1>3 DEF FilesOK, WholeOrEmpty
<1> QED
  BY <1>2, <1>5, <1>6 DEF FilesOK

LEMMA ProcessOf ==
  ASSUME NEW t \in Threads
  PROVE  ProcOf[t] \in Processes
BY ProcAssumption

LEMMA ResolveType ==
  ASSUME TypeOK, NEW t \in Threads, NEW name \in Dirs \cup {Here}
  PROVE  Resolve(t, name) \in Dirs
BY ProcessOf DEF Resolve, TypeOK

(***************************************************************************)
(* The steps of an archive.  The files are not touched.                    *)
(***************************************************************************)
LEMMA ArchiveStepsOK ==
  ASSUME FilesOK, NEW t \in Threads,
         \/ \E name \in Given[t] : CreateServerArchive(t, name)
         \/ Getwd(t) \/ Chdir(t) \/ WriteFileToZip(t) \/ ChdirBack(t)
  PROVE  FilesOK'
<1>1. TypeOK /\ ThreadOK(t) /\ ProcOf[t] \in Processes
  BY ProcessOf DEF FilesOK
<1>2. WholeOrEmpty'
  BY DEF FilesOK, WholeOrEmpty, CreateServerArchive, Getwd, Chdir, WriteFileToZip, ChdirBack
\* It is enough to look at the thread that moves.
<1>3. ASSUME TypeOK', ThreadOK(t)',
             \A u \in Threads \ {t} :
                /\ pc'[u] = pc[u] /\ named'[u] = named[u] /\ dir'[u] = dir[u]
                /\ saved'[u] = saved[u] /\ zip'[u] = zip[u] /\ conf'[u] = conf[u]
                /\ edits'[u] = edits[u]
      PROVE  FilesOK'
  BY <1>2, <1>3 DEF FilesOK, ThreadOK
<1>4. ASSUME NEW name \in Given[t], CreateServerArchive(t, name) PROVE FilesOK'
  <2>1. name \in Dirs \cup {Here} /\ Resolve(t, name) \in Dirs
    BY <1>1, NamesAssumption, ResolveType
  <2>2. alone' \in [Threads -> BOOLEAN] /\ mixed' \in [Processes -> BOOLEAN]
    BY <1>1, <1>4 DEF CreateServerArchive, TypeOK
  <2> QED
    BY <1>1, <1>3, <1>4, <2>1, <2>2
       DEF CreateServerArchive, Goto, TypeOK, ThreadOK, Labels
<1>5. CASE Getwd(t)
  <2>1. CASE Return(t)
    BY <1>1, <1>2, <1>5, <2>1, StopEffect, StoppedThread
       DEF Getwd, Return, FilesOK, TypeOK
  <2>2. CASE ~Return(t)
    BY <1>1, <1>3, <1>5, <2>2 DEF Getwd, GetwdFailed, Goto, TypeOK, ThreadOK, Labels
  <2> QED
    BY <2>1, <2>2
<1>6. CASE Chdir(t)
  BY <1>1, <1>3, <1>6 DEF Chdir, FailArchive, Goto, TypeOK, ThreadOK, Labels
<1>7. CASE WriteFileToZip(t)
  <2>1. CASE pc' = pc
    <3>1. PICK n \in Names : zip' = [zip EXCEPT ![t] = @ \cup {<<cwd[ProcOf[t]], n>>}]
      BY <1>1, <1>7, <2>1 DEF WriteFileToZip, FailArchive, Goto, TypeOK
    <3> QED
      BY <1>1, <1>3, <1>7, <2>1, <3>1 DEF WriteFileToZip, FailArchive, Goto, TypeOK, ThreadOK
  <2>2. CASE pc' # pc
    BY <1>1, <1>3, <1>7, <2>2 DEF WriteFileToZip, FailArchive, Goto, TypeOK, ThreadOK, Labels
  <2> QED
    BY <2>1, <2>2
<1>8. CASE ChdirBack(t)
  <2>1. cwd' \in [Processes -> Dirs]
    BY <1>1, <1>8 DEF ChdirBack, TypeOK, ThreadOK
  <2> QED
    BY <1>1, <1>2, <1>8, <2>1, StopEffect, StoppedThread
       DEF ChdirBack, Return, FilesOK, TypeOK
<1> QED
  BY <1>4, <1>5, <1>6, <1>7, <1>8

-----------------------------------------------------------------------------
(***************************************************************************)
(* Configurations.  As long as anything is said of the configuration of a  *)
(* directory, one thread at most has it in hand, holds it with the edits   *)
(* it made, and has found the file empty since it truncated it.            *)
(***************************************************************************)
OneEditor ==
    \A t, u \in Threads, d \in Dirs :
        EditingIn(t, d) /\ EditingIn(u, d) /\ t # u => kept[d] = None

InHand(t) ==
    \A d \in Dirs :
        EditingIn(t, d) /\ kept[d] # None =>
            /\ conf[t] = Edited(kept[d], edits[t])
            /\ pc[t] = "write" => file[d] = Empty

EditInv ==
    /\ OneEditor
    /\ \A t \in Threads : InHand(t)
    /\ ConfigKept

FilesInv == FilesOK /\ EditInv

\* An edited configuration is a whole one, and the edit of an edit one more.
LEMMA EditedWhole ==
  ASSUME NEW c \in Whole, NEW e \in Edits
  PROVE  Edited(c, e) \in Whole /\ Edited(c, Empty) = c
<1>1. PICK ks \in SUBSET Keys : e \in [ks -> Values]
  BY DEF Edits
<1> QED
  BY <1>1, ConfigFacts DEF Edited, Whole

LEMMA EditedAgain ==
  ASSUME NEW c \in Whole, NEW e \in Edits, NEW k \in Keys, NEW v \in Values
  PROVE  Edited(c, Added(e, k, v))
           = [Edited(c, e) EXCEPT ![k] = v]
BY EditedWhole DEF Edited, Added, Whole

(***************************************************************************)
(* Threads that stop leave nothing in hand, and what they left truncated   *)
(* is forgotten.                                                           *)
(***************************************************************************)
LEMMA ExitEdits ==
  ASSUME FilesInv, NEW p \in Processes, Exit(p)
  PROVE  EditInv'
<1> DEFINE ts == {t \in Threads : ProcOf[t] = p}
           ds == {dir[t] : t \in {u \in ts : pc[u] = "write"}}
<1>1. Stop(ts) /\ UNCHANGED file /\ kept' = Without(ds)
  BY DEF Exit
<1>2. \A d \in Dirs : kept'[d] # None => kept'[d] = kept[d] /\ d \notin ds
  BY <1>1, Forgotten DEF FilesInv, FilesOK, TypeOK
<1>3. \A t \in Threads, d \in Dirs : EditingIn(t, d)' => EditingIn(t, d) /\ t \notin ts
  BY <1>1, StopEffect DEF FilesInv, FilesOK, EditingIn
<1>4. \A t \in Threads \ ts : pc'[t] = pc[t] /\ conf'[t] = conf[t] /\ edits'[t] = edits[t]
                              /\ dir'[t] = dir[t]
  BY <1>1, StopEffect DEF FilesInv, FilesOK
<1>5. OneEditor' /\ \A t \in Threads : InHand(t)'
  BY <1>1, <1>2, <1>3, <1>4 DEF FilesInv, EditInv, OneEditor, InHand
<1>6. ASSUME NEW d \in Dirs, kept'[d] # None,
             \A t \in Threads : ~(pc'[t] = "write" /\ dir'[t] = d)
      PROVE  file'[d] = kept'[d]
  <2>1. \A t \in Threads : ~(pc[t] = "write" /\ dir[t] = d)
    BY <1>2, <1>4, <1>6
  <2> QED
    BY <1>1, <1>2, <1>6, <2>1 DEF FilesInv, EditInv, ConfigKept
<1> QED
  BY <1>5, <1>6 DEF EditInv, ConfigKept

\* An archive touches no configuration.
LEMMA ArchiveEdits ==
  ASSUME FilesInv, NEW t \in Threads,
         \/ \E name \in Given[t] : CreateServerArchive(t, name)
         \/ Getwd(t) \/ Chdir(t) \/ WriteFileToZip(t) \/ ChdirBack(t)
  PROVE  EditInv'
<1>1. TypeOK /\ UNCHANGED <<file, kept>>
  BY DEF FilesInv, FilesOK, CreateServerArchive, Getwd, Chdir, WriteFileToZip, ChdirBack
<1>2. pc[t] \notin {"edit", "write"} /\ pc'[t] \notin {"edit", "write"}
  <2>1. CASE \E name \in Given[t] : CreateServerArchive(t, name)
    BY <1>1, <2>1 DEF CreateServerArchive, Goto, TypeOK
  <2>2. CASE Getwd(t) \/ ChdirBack(t)
    BY <1>1, <2>2, StopEffect DEF Getwd, GetwdFailed, ChdirBack, Return, Goto, TypeOK
  <2>3. CASE Chdir(t) \/ WriteFileToZip(t)
    BY <1>1, <2>3 DEF Chdir, WriteFileToZip, FailArchive, Goto, TypeOK
  <2> QED
    BY <2>1, <2>2, <2>3
<1>3. ASSUME NEW u \in Threads \ {t}
      PROVE  pc'[u] = pc[u] /\ dir'[u] = dir[u] /\ conf'[u] = conf[u] /\ edits'[u] = edits[u]
  <2>1. CASE \E name \in Given[t] : CreateServerArchive(t, name)
    BY <1>1, <2>1 DEF CreateServerArchive, Goto, TypeOK
  <2>2. CASE Getwd(t) \/ ChdirBack(t)
    BY <1>1, <2>2, StopEffect DEF Getwd, GetwdFailed, ChdirBack, Return, Goto, TypeOK
  <2>3. CASE Chdir(t) \/ WriteFileToZip(t)
    BY <1>1, <2>3 DEF Chdir, WriteFileToZip, FailArchive, Goto, TypeOK
  <2> QED
    BY <2>1, <2>2, <2>3
<1>4. \A u \in Threads, d \in Dirs : EditingIn(u, d)' <=> EditingIn(u, d)
  BY <1>2, <1>3 DEF EditingIn
<1>5. OneEditor' /\ \A u \in Threads : InHand(u)'
  BY <1>1, <1>2, <1>3, <1>4 DEF FilesInv, EditInv, OneEditor, InHand, EditingIn
<1>6. ConfigKept'
  BY <1>1, <1>2, <1>3 DEF FilesInv, EditInv, ConfigKept
<1> QED
  BY <1>5, <1>6 DEF EditInv

(***************************************************************************)
(* The steps of an edit.                                                   *)
(***************************************************************************)
LEMMA LoadedConfig ==
  ASSUME FilesInv, NEW t \in Threads, NEW name \in Given[t], NEW d \in Dirs,
         pc[t] = "idle", TakeConfig(t, name, d)
  PROVE  FilesInv'
<1>1. TypeOK /\ ThreadOK(t) /\ name \in Dirs \cup {Here}
  BY NamesAssumption DEF FilesInv, FilesOK
<1>2. PICK c \in Loaded(d) : conf' = [conf EXCEPT ![t] = c]
  BY DEF TakeConfig
<1>3. c \in Whole \cup {Empty} /\ (file[d] # Garbled => c = file[d])
  BY <1>2 DEF Loaded, FilesInv, FilesOK, WholeOrEmpty
<1>4. /\ kept' \in [Dirs -> Whole \cup {None}]
      /\ \A e \in Dirs : kept'[e] # None
           => kept'[e] = kept[e] /\ (e = d => \A u \in Threads : ~EditingIn(u, d))
  BY <1>1, Forgotten DEF TakeConfig, TypeOK
<1>5. /\ TypeOK' /\ ThreadOK(t)'
      /\ pc'[t] = "edit" /\ dir'[t] = d /\ conf'[t] = c /\ edits'[t] = Empty
  BY <1>1, <1>2, <1>3, <1>4, ConfigFacts DEF TakeConfig, Goto, TypeOK, ThreadOK, Labels
<1>6. \A u \in Threads \ {t} :
        /\ pc'[u] = pc[u] /\ dir'[u] = dir[u] /\ conf'[u] = conf[u] /\ edits'[u] = edits[u]
        /\ named'[u] = named[u] /\ saved'[u] = saved[u] /\ zip'[u] = zip[u]
  BY <1>1, <1>2 DEF TakeConfig, Goto, TypeOK
<1>7. FilesOK'
  BY <1>4, <1>5, <1>6 DEF FilesInv, FilesOK, ThreadOK, WholeOrEmpty, TakeConfig
<1>8. OneEditor'
  BY <1>4, <1>5, <1>6 DEF FilesInv, EditInv, OneEditor, EditingIn
<1>9. ASSUME NEW u \in Threads PROVE InHand(u)'
  <2>1. CASE u # t
    BY <1>4, <1>6, <2>1 DEF FilesInv, EditInv, InHand, EditingIn, TakeConfig
  <2>2. CASE u = t /\ kept'[d] # None
    <3>1. kept[d] \in Whole /\ file[d] = kept[d] /\ kept'[d] = kept[d]
      BY <1>1, <1>4, <2>2 DEF FilesInv, EditInv, ConfigKept, EditingIn, TypeOK
    <3>2. conf'[t] = Edited(kept'[d], edits'[t])
      BY <1>3, <1>5, <3>1, EditedWhole, ConfigFacts
    <3> QED
      BY <1>5, <2>2, <3>2 DEF InHand, EditingIn
  <2>3. CASE u = t /\ kept'[d] = None
    BY <1>5, <2>3 DEF InHand, EditingIn
  <2> QED
    BY <2>1, <2>2, <2>3
<1>10. ConfigKept'
  BY <1>1, <1>4, <1>5, <1>6 DEF FilesInv, EditInv, ConfigKept, TakeConfig
<1> QED
  BY <1>7, <1>8, <1>9, <1>10 DEF FilesInv, EditInv

LEMMA EntrySetKept ==
  ASSUME FilesInv, NEW t \in Threads, NEW k \in AllKeys, NEW v \in Values, SetEntry(t, k, v)
  PROVE  FilesInv'
<1>1. TypeOK /\ ThreadOK(t) /\ pc[t] = "edit"
  BY DEF FilesInv, FilesOK, SetEntry
<1>2. conf[t] \in Whole \cup {Empty} /\ edits[t] \in Edits
  BY <1>1 DEF ThreadOK, TypeOK
<1>3. /\ conf'[t] = IF k \in DOMAIN conf[t] THEN [conf[t] EXCEPT ![k] = v] ELSE conf[t]
      /\ conf' \in [Threads -> Configs \cup {None}] /\ conf'[t] \in Whole \cup {Empty}
  <2>1. CASE k \in DOMAIN conf[t]
    <3>1. [conf[t] EXCEPT ![k] = v] \in Whole
      BY <1>2, <2>1, EntrySet
    <3>2. conf' = [conf EXCEPT ![t] = [conf[t] EXCEPT ![k] = v]]
      BY <2>1 DEF SetEntry
    <3> QED
      BY <1>1, <2>1, <3>1, <3>2, ConfigFacts DEF TypeOK
  <2>2. CASE k \notin DOMAIN conf[t]
    BY <1>1, <1>2, <2>2 DEF SetEntry, TypeOK
  <2> QED
    BY <2>1, <2>2
<1>4. /\ edits'[t] = IF k \in Keys
                     THEN Added(edits[t], k, v)
                     ELSE edits[t]
      /\ edits' \in [Threads -> Edits]
  <2>1. CASE k \in Keys
    <3>1. Added(edits[t], k, v) \in Edits
      BY <1>2, <2>1, EntryNoted
    <3> QED
      BY <1>1, <2>1, <3>1 DEF SetEntry, TypeOK
  <2>2. CASE k \notin Keys
    BY <1>1, <2>2 DEF SetEntry, TypeOK
  <2> QED
    BY <2>1, <2>2
<1>5. \A u \in Threads \ {t} : conf'[u] = conf[u] /\ edits'[u] = edits[u]
  BY <1>1 DEF SetEntry, TypeOK
<1>6. UNCHANGED <<cwd, file, pc, named, dir, saved, zip, alone, mixed, kept>>
  BY DEF SetEntry
<1>7. FilesOK'
  BY <1>1, <1>3, <1>4, <1>5, <1>6 DEF FilesInv, FilesOK, TypeOK, ThreadOK, WholeOrEmpty
<1>8. ASSUME NEW d \in Dirs, EditingIn(t, d), kept[d] # None
      PROVE  conf'[t] = Edited(kept[d], edits'[t])
  <2>1. kept[d] \in Whole /\ conf[t] = Edited(kept[d], edits[t])
    BY <1>1, <1>8 DEF FilesInv, EditInv, InHand, TypeOK
  <2>2. conf[t] \in Whole /\ DOMAIN conf[t] = Keys
    BY <1>2, <2>1, EditedWhole DEF Whole
  <2>3. CASE k \in Keys
    <3>1. conf'[t] = [Edited(kept[d], edits[t]) EXCEPT ![k] = v]
      BY <1>3, <2>1, <2>2, <2>3
    <3>2. Edited(kept[d], edits'[t]) = [Edited(kept[d], edits[t]) EXCEPT ![k] = v]
      BY <1>2, <1>4, <2>1, <2>3, EditedAgain
    <3> QED
      BY <3>1, <3>2
  <2>4. CASE k \notin Keys
    BY <1>3, <1>4, <2>1, <2>2, <2>4
  <2> QED
    BY <2>3, <2>4
<1>9. EditInv'
  BY <1>1, <1>5, <1>6, <1>8 DEF FilesInv, EditInv, OneEditor, InHand, EditingIn, ConfigKept
<1> QED
  BY <1>7, <1>9 DEF FilesInv

\* A thread that is done with a configuration it did not write.
LEMMA Discarded ==
  ASSUME FilesInv, NEW t \in Threads, Discard(t)
  PROVE  FilesInv'
<1>1. Stop({t}) /\ pc[t] = "edit" /\ UNCHANGED <<cwd, file, mixed, kept>>
  BY DEF Discard, Return
<1>2. FilesOK'
  BY <1>1, StopEffect, StoppedThread DEF FilesInv, FilesOK, TypeOK, WholeOrEmpty
<1>3. /\ pc'[t] = "idle"
      /\ \A u \in Threads \ {t} :
           pc'[u] = pc[u] /\ dir'[u] = dir[u] /\ conf'[u] = conf[u] /\ edits'[u] = edits[u]
  BY <1>1, StopEffect DEF FilesInv, FilesOK
<1>4. EditInv'
  BY <1>1, <1>3 DEF FilesInv, EditInv, OneEditor, InHand, EditingIn, ConfigKept
<1> QED
  BY <1>2, <1>4 DEF FilesInv

LEMMA TruncatedFile ==
  ASSUME FilesInv, NEW t \in Threads, NEW d \in Dirs, pc[t] = "edit", Truncate(t, d)
  PROVE  FilesInv'
<1>1. TypeOK /\ ThreadOK(t) /\ dir[t] \in Dirs
  BY DEF FilesInv, FilesOK, ThreadOK
<1>2. /\ kept' \in [Dirs -> Whole \cup {None}]
      /\ \A e \in Dirs : kept'[e] # None
           => kept'[e] = kept[e] /\ (d # dir[t] => e # d /\ e # dir[t])
      /\ \A e \in Dirs : kept[e] = None => kept'[e] = None
  BY <1>1, Forgotten DEF Truncate, TypeOK
<1>3. /\ file' \in [Dirs -> Configs \cup {Garbled}] /\ file'[d] = Empty
      /\ \A e \in Dirs \ {d} : file'[e] = file[e]
  BY <1>1, ConfigFacts DEF Truncate, TypeOK
<1>4. /\ pc'[t] = "write" /\ dir'[t] = d
      /\ \A u \in Threads \ {t} : pc'[u] = pc[u] /\ dir'[u] = dir[u]
      /\ UNCHANGED <<cwd, named, saved, zip, conf, alone, mixed, edits>>
  BY <1>1 DEF Truncate, Goto, TypeOK
<1>5. FilesOK'
  <2>1. pc' \in [Threads -> Labels] /\ dir' \in [Threads -> Dirs \cup {None}]
    BY <1>1 DEF Truncate, Goto, TypeOK, Labels
  <2>2. TypeOK'
    BY <1>1, <1>2, <1>3, <1>4, <2>1 DEF TypeOK
  <2>3. ASSUME NEW u \in Threads PROVE ThreadOK(u)'
    <3>1. ThreadOK(u)
      BY DEF FilesInv, FilesOK
    <3> QED
      BY <1>1, <1>4, <3>1 DEF ThreadOK
  <2>4. WholeOrEmpty'
    BY <1>2, <1>3 DEF FilesInv, FilesOK, WholeOrEmpty
  <2> QED
    BY <2>2, <2>3, <2>4 DEF FilesOK
\* Where anything is kept, the thread edits what it edited before.
<1>6. \A e \in Dirs : kept'[e] # None => (EditingIn(t, e)' <=> EditingIn(t, e))
  BY <1>2, <1>4 DEF EditingIn
<1>7. OneEditor'
  BY <1>2, <1>4, <1>6 DEF FilesInv, EditInv, OneEditor, EditingIn
<1>8. ASSUME NEW u \in Threads PROVE InHand(u)'
  <2>1. CASE u = t
    BY <1>2, <1>3, <1>4, <1>6, <2>1 DEF FilesInv, EditInv, InHand, EditingIn
  <2>2. CASE u # t
    BY <1>2, <1>3, <1>4, <2>2 DEF FilesInv, EditInv, InHand, EditingIn
  <2> QED
    BY <2>1, <2>2
<1>9. ConfigKept'
  BY <1>2, <1>3, <1>4 DEF FilesInv, EditInv, ConfigKept
<1> QED
  BY <1>5, <1>7, <1>8, <1>9 DEF FilesInv, EditInv

LEMMA StoredConfig ==
  ASSUME FilesInv, NEW t \in Threads, NEW d \in Dirs, pc[t] = "write", dir[t] = d, Store(t, d)
  PROVE  FilesInv'
<1>1. TypeOK /\ conf[t] \in Whole \cup {Empty} /\ edits[t] \in Edits /\ WholeOrEmpty
  BY DEF FilesInv, FilesOK, ThreadOK, TypeOK
<1>2. PICK c \in Written(file[d], conf[t]) : file' = [file EXCEPT ![d] = c]
  BY DEF Store
<1>3. /\ kept' \in [Dirs -> Whole \cup {None}]
      /\ kept'[d] = IF kept[d] = None THEN None ELSE Edited(kept[d], edits[t])
      /\ \A e \in Dirs \ {d} : kept'[e] = kept[e]
  BY <1>1, EditedWhole DEF Store, TypeOK
<1>4. /\ pc'[t] = "idle"
      /\ \A u \in Threads \ {t} :
           pc'[u] = pc[u] /\ dir'[u] = dir[u] /\ conf'[u] = conf[u] /\ edits'[u] = edits[u]
  BY <1>1, StopEffect DEF Store, Return
\* If anything is kept, the file was empty and is now what was in hand.
<1>5. ASSUME kept[d] # None PROVE c = kept'[d] /\ c \in Whole
  <2>1. EditingIn(t, d) /\ file[d] = Empty /\ conf[t] = Edited(kept[d], edits[t])
    BY <1>5 DEF FilesInv, EditInv, InHand, EditingIn
  <2>2. conf[t] \in Whole
    BY <1>1, <1>5, <2>1, EditedWhole DEF TypeOK
  <2> QED
    BY <1>2, <1>3, <1>5, <2>1, <2>2, ConfigFacts DEF Written
<1>6. c \in Whole \cup {Empty, Garbled}
  BY <1>1, <1>2 DEF Written, WholeOrEmpty
<1>7. WholeOrEmpty'
  BY <1>1, <1>2, <1>3, <1>5, <1>6 DEF WholeOrEmpty, TypeOK
<1>8. FilesOK'
  <2>1. file' \in [Dirs -> Configs \cup {Garbled}]
    BY <1>1, <1>2, <1>6, ConfigFacts DEF TypeOK
  <2>2. TypeOK'
    BY <1>1, <1>3, <2>1, StopEffect DEF Store, Return, TypeOK
  <2> QED
    BY <1>7, <2>2, StoppedThread DEF FilesInv, FilesOK, Store, Return
<1>9. OneEditor'
  BY <1>3, <1>4 DEF FilesInv, EditInv, OneEditor, EditingIn
<1>10. ASSUME NEW u \in Threads PROVE InHand(u)'
  <2>1. CASE u = t
    BY <1>4, <2>1 DEF InHand, EditingIn
  <2>2. ASSUME u # t, NEW e \in Dirs, EditingIn(u, e)', kept'[e] # None
        PROVE  e # d
    BY <1>3, <1>4, <2>2 DEF FilesInv, EditInv, OneEditor, EditingIn
  <2> QED
    BY <1>1, <1>2, <1>3, <1>4, <2>1, <2>2 DEF FilesInv, EditInv, InHand, EditingIn, TypeOK
<1>11. ConfigKept'
  BY <1>1, <1>2, <1>3, <1>4, <1>5 DEF FilesInv, EditInv, ConfigKept, TypeOK
<1> QED
  BY <1>8, <1>9, <1>10, <1>11 DEF FilesInv, EditInv

LEMMA FilesInvNext == FilesInv /\ [Next]_vars => FilesInv'
<1> SUFFICES ASSUME FilesInv, [Next]_vars PROVE FilesInv'
  OBVIOUS
<1>0. ASSUME NEW p \in Processes, Exit(p) PROVE FilesInv'
  BY <1>0, ExitOK, ExitEdits DEF FilesInv
<1>1. ASSUME NEW p \in Processes, Crash(p) PROVE FilesInv'
  BY <1>0, <1>1 DEF Crash
<1>2. ASSUME NEW t \in Threads,
             \/ \E name \in Given[t] : CreateServerArchive(t, name)
             \/ Getwd(t) \/ Chdir(t) \/ WriteFileToZip(t) \/ ChdirBack(t)
      PROVE  FilesInv'
  BY <1>2, ArchiveStepsOK, ArchiveEdits DEF FilesInv
<1>3. ASSUME NEW t \in Threads, NEW name \in Given[t], NewConfigFromFile(t, name)
      PROVE  FilesInv'
  <2>1. Resolve(t, name) \in Dirs
    BY NamesAssumption, ResolveType DEF FilesInv, FilesOK
  <2> QED
    BY <1>0, <1>3, <2>1, ProcessOf, LoadedConfig DEF NewConfigFromFile, LoadFailed
<1>4. ASSUME NEW t \in Threads, NEW k \in AllKeys, NEW v \in Values, SetEntry(t, k, v)
      PROVE  FilesInv'
  BY <1>4, EntrySetKept
<1>5. ASSUME NEW t \in Threads, Discard(t) PROVE FilesInv'
  BY <1>5, Discarded
<1>6. ASSUME NEW t \in Threads, CreateFile(t) PROVE FilesInv'
  <2>1. Resolve(t, named[t]) \in Dirs
    BY <1>6, ResolveType DEF FilesInv, FilesOK, ThreadOK, CreateFile
  <2> QED
    BY <1>0, <1>6, <2>1, ProcessOf, TruncatedFile DEF CreateFile
<1>7. ASSUME NEW t \in Threads, WriteTo(t) PROVE FilesInv'
  <2>1. dir[t] \in Dirs
    BY <1>7 DEF FilesInv, FilesOK, ThreadOK, WriteTo
  <2> QED
    BY <1>0, <1>7, <2>1, ProcessOf, StoredConfig DEF WriteTo
<1>8. CASE UNCHANGED vars
  BY <1>8 DEF vars, FilesInv, FilesOK, TypeOK, ThreadOK, WholeOrEmpty, EditInv, OneEditor,
     InHand, EditingIn, ConfigKept
<1> QED
  BY <1>1, <1>2, <1>3, <1>4, <1>5, <1>6, <1>7, <1>8 DEF Next

LEMMA FilesInvariant == Spec => []FilesInv
<1>1. Init => FilesInv
  <2> SUFFICES ASSUME Init PROVE FilesInv
    OBVIOUS
  <2>1. TypeOK
    BY HomeAssumption, ConfigFacts DEF Init, TypeOK, Labels
  <2>2. (\A t \in Threads : ThreadOK(t)) /\ WholeOrEmpty
    BY DEF Init, ThreadOK, WholeOrEmpty
  <2>3. EditInv
    BY DEF Init, EditInv, OneEditor, InHand, EditingIn, ConfigKept
  <2> QED
    BY <2>1, <2>2, <2>3 DEF FilesInv, FilesOK
<1> QED
  BY <1>1, FilesInvNext, PTL DEF Spec

\* Every variable always has its type.
THEOREM FilesTypeCorrect == Spec => []TypeOK
<1>1. FilesInv => TypeOK
  BY DEF FilesInv, FilesOK
<1> QED
  BY <1>1, FilesInvariant, PTL

\* Whatever overlaps, fails or crashes, a configuration file never has some
\* of its entries only.
THEOREM ConfigsAreWhole == Spec => []WholeOrEmpty
<1>1. FilesInv => WholeOrEmpty
  BY DEF FilesInv, FilesOK
<1> QED
  BY <1>1, FilesInvariant, PTL

\* A configuration that one caller at a time changes, to the end, has every
\* edit made to it.
THEOREM EditsAreKept == Spec => []ConfigKept
<1>1. FilesInv => ConfigKept
  BY DEF FilesInv, EditInv
<1> QED
  BY <1>1, FilesInvariant, PTL

-----------------------------------------------------------------------------
(***************************************************************************)
(* Working directories.  An archive that is alone in its process is the    *)
(* only one there, finds the process where it put it, and has copied from  *)
(* the directory it was asked for.                                         *)
(***************************************************************************)
AloneOK(t) ==
    LET p == ProcOf[t]
    IN  Zipping(t) /\ alone[t] =>
          /\ \A u \in Threads : Zipping(u) /\ ProcOf[u] = p => u = t
          /\ dir[t] = IF named[t] # Here THEN named[t]
                      ELSE IF mixed[p] THEN dir[t] ELSE Home[p]
          /\ pc[t] = "walk" => cwd[p] = dir[t]
          /\ zip[t] \subseteq {dir[t]} \X Names
          /\ pc[t] = "back" /\ zip[t] # {} => zip[t] = {dir[t]} \X Names

\* As long as no archives of a process have overlapped, each of them is alone
\* and knows the way home.
UnmixedOK(p) ==
    ~mixed[p] =>
        \A t \in Threads :
            Zipping(t) /\ ProcOf[t] = p =>
                alone[t] /\ (pc[t] # "getwd" => saved[t] = Home[p])

WalkInv ==
    /\ \A t \in Threads : AloneOK(t)
    /\ \A p \in Processes : UnmixedOK(p)
    /\ BackHome

(***************************************************************************)
(* A step of an archive concerns no other archive: those of its process    *)
(* are not alone, and the others do not share its directory.               *)
(***************************************************************************)
OnlyMoves(t) ==
    /\ UNCHANGED mixed
    /\ \A q \in Processes \ {ProcOf[t]} : cwd'[q] = cwd[q]
    /\ \A u \in Threads \ {t} :
         /\ pc'[u] = pc[u] /\ named'[u] = named[u] /\ dir'[u] = dir[u]
         /\ saved'[u] = saved[u] /\ zip'[u] = zip[u] /\ alone'[u] = alone[u]

LEMMA OneArchiveMoves ==
  ASSUME WalkInv, NEW t \in Threads, Zipping(t), OnlyMoves(t), AloneOK(t)',
         ~mixed[ProcOf[t]] =>
            /\ Zipping(t)' => alone'[t] /\ (pc'[t] # "getwd" => saved'[t] = Home[ProcOf[t]])
            /\ pc'[t] \notin {"walk", "back"} => cwd'[ProcOf[t]] = Home[ProcOf[t]]
  PROVE  WalkInv'
<1>1. \A u \in Threads : Zipping(u)' => Zipping(u)
  BY DEF OnlyMoves, Zipping
<1>2. ASSUME NEW u \in Threads \ {t}, Zipping(u), alone[u] PROVE ProcOf[u] # ProcOf[t]
  BY <1>2 DEF WalkInv, AloneOK
<1>3. ASSUME NEW u \in Threads PROVE AloneOK(u)'
  <2>1. CASE u # t /\ Zipping(u)' /\ alone'[u]
    <3>1. Zipping(u) /\ alone[u] /\ ProcOf[u] # ProcOf[t] /\ ProcOf[u] \in Processes
      BY <1>1, <1>2, <2>1, ProcessOf DEF OnlyMoves
    <3>2. AloneOK(u)
      BY DEF WalkInv
    <3> QED
      BY <1>1, <2>1, <3>1, <3>2 DEF AloneOK, OnlyMoves
  <2> QED
    BY <2>1 DEF AloneOK
<1>4. ASSUME NEW q \in Processes PROVE UnmixedOK(q)'
  <2> SUFFICES ASSUME ~mixed[q], NEW u \in Threads, Zipping(u)', ProcOf[u] = q
               PROVE  alone'[u] /\ (pc'[u] # "getwd" => saved'[u] = Home[q])
    BY DEF UnmixedOK, OnlyMoves
  <2>1. CASE u = t
    BY <2>1
  <2>2. CASE u # t
    BY <1>1, <2>2 DEF WalkInv, UnmixedOK, OnlyMoves
  <2> QED
    BY <2>1, <2>2
<1>5. BackHome'
  <2> SUFFICES ASSUME NEW q \in Processes, ~mixed[q],
                      \A u \in Threads : ProcOf[u] = q => pc'[u] \notin {"walk", "back"}
               PROVE  cwd'[q] = Home[q]
    BY DEF BackHome, OnlyMoves
  <2>1. CASE q = ProcOf[t]
    BY <2>1
  <2>2. CASE q # ProcOf[t]
    BY <2>2 DEF WalkInv, BackHome, OnlyMoves
  <2> QED
    BY <2>1, <2>2
<1> QED
  BY <1>3, <1>4, <1>5 DEF WalkInv

\* An archive that begins: it is alone, or none of its process is.
LEMMA ArchiveBegins ==
  ASSUME FilesOK, WalkInv, NEW t \in Threads, NEW name \in Given[t],
         CreateServerArchive(t, name)
  PROVE  WalkInv'
<1> DEFINE p == ProcOf[t]
           others == {u \in Process(t) \ {t} : Zipping(u)}
<1>1. TypeOK /\ ThreadOK(t) /\ p \in Processes /\ pc[t] = "idle"
  BY ProcessOf DEF FilesOK, CreateServerArchive
<1>2. /\ pc'[t] = "getwd" /\ named'[t] = name /\ dir'[t] = Resolve(t, name)
      /\ zip'[t] = {} /\ alone'[t] = (others = {})
      /\ mixed'[p] = (mixed[p] \/ others # {}) /\ UNCHANGED cwd
      /\ \A q \in Processes \ {p} : mixed'[q] = mixed[q]
  BY <1>1 DEF CreateServerArchive, Goto, TypeOK, ThreadOK
<1>3. \A u \in Threads \ {t} :
        /\ pc'[u] = pc[u] /\ named'[u] = named[u] /\ dir'[u] = dir[u]
        /\ saved'[u] = saved[u] /\ zip'[u] = zip[u]
        /\ alone'[u] = (alone[u] /\ u \notin others)
  BY <1>1 DEF CreateServerArchive, Goto, TypeOK
<1>4. \A u \in Threads : u \in others <=> ProcOf[u] = p /\ u # t /\ Zipping(u)
  BY DEF Process
<1>5. /\ \A u \in Threads \ {t} : Zipping(u)' <=> Zipping(u)
      /\ ~Zipping(t) /\ Zipping(t)'
  BY <1>1, <1>2, <1>3 DEF Zipping
<1> HIDE DEF others
<1>6. AloneOK(t)'
  <2> SUFFICES ASSUME alone'[t] PROVE AloneOK(t)'
    BY DEF AloneOK
  <2>1. \A u \in Threads : Zipping(u)' /\ ProcOf[u] = p => u = t
    BY <1>2, <1>4, <1>5
  <2>2. ~mixed[p] => cwd[p] = Home[p]
    BY <1>1, <1>2, <1>4 DEF WalkInv, BackHome, Zipping
  <2>3. dir'[t] = IF named'[t] # Here THEN named'[t]
                  ELSE IF mixed'[p] THEN dir'[t] ELSE Home[p]
    BY <1>2, <2>2 DEF Resolve
  <2> QED
    BY <1>2, <2>1, <2>3 DEF AloneOK
<1>7. ASSUME NEW u \in Threads \ {t} PROVE AloneOK(u)'
  <2> SUFFICES ASSUME Zipping(u)', alone'[u] PROVE AloneOK(u)'
    BY DEF AloneOK
  <2>1. Zipping(u) /\ alone[u] /\ ProcOf[u] # p /\ ProcOf[u] \in Processes
    BY <1>3, <1>4, <1>5, ProcessOf
  <2>2. AloneOK(u)
    BY DEF WalkInv
  <2> QED
    BY <1>2, <1>3, <1>5, <2>1, <2>2 DEF AloneOK
<1>8. ASSUME NEW q \in Processes PROVE UnmixedOK(q)'
  <2> SUFFICES ASSUME ~mixed'[q], NEW u \in Threads, Zipping(u)', ProcOf[u] = q
               PROVE  alone'[u] /\ (pc'[u] # "getwd" => saved'[u] = Home[q])
    BY DEF UnmixedOK
  <2>1. CASE u = t
    BY <1>2, <2>1
  <2>2. CASE u # t
    BY <1>2, <1>3, <1>4, <1>5, <2>2 DEF WalkInv, UnmixedOK
  <2> QED
    BY <2>1, <2>2
<1>9. BackHome'
  BY <1>1, <1>2, <1>3 DEF WalkInv, BackHome
<1> QED
  BY <1>6, <1>7, <1>8, <1>9 DEF WalkInv

\* What a step leaves of the other threads.
LEMMA OthersRest ==
  ASSUME FilesOK, NEW t \in Threads,
         Getwd(t) \/ Chdir(t) \/ WriteFileToZip(t) \/ ChdirBack(t)
  PROVE  OnlyMoves(t)
<1>1. TypeOK /\ ProcOf[t] \in Processes
  BY ProcessOf DEF FilesOK
<1>2. CASE Getwd(t)
  BY <1>1, <1>2, StopEffect DEF Getwd, GetwdFailed, Return, Goto, OnlyMoves, TypeOK
<1>3. CASE Chdir(t) \/ WriteFileToZip(t)
  BY <1>1, <1>3 DEF Chdir, WriteFileToZip, FailArchive, Goto, OnlyMoves, TypeOK
<1>4. CASE ChdirBack(t)
  BY <1>1, <1>4, StopEffect DEF ChdirBack, Return, OnlyMoves, TypeOK
<1> QED
  BY <1>2, <1>3, <1>4

LEMMA ArchiveWalks ==
  ASSUME FilesOK, WalkInv, NEW t \in Threads,
         Getwd(t) \/ Chdir(t) \/ WriteFileToZip(t) \/ ChdirBack(t)
  PROVE  WalkInv'
<1> DEFINE p == ProcOf[t]
<1>1. /\ TypeOK /\ ThreadOK(t) /\ p \in Processes /\ OnlyMoves(t)
      /\ AloneOK(t) /\ UnmixedOK(p) /\ BackHome
  BY ProcessOf, OthersRest DEF FilesOK, WalkInv
<1>2. Zipping(t)
  BY DEF Zipping, Getwd, Chdir, WriteFileToZip, ChdirBack
<1>3. \A u \in Threads \ {t} : Zipping(u)' <=> Zipping(u)
  BY <1>1 DEF OnlyMoves, Zipping
\* Where there was no overlap, t is alone, and at home until it walks.
<1>4. ~mixed[p] =>
        /\ alone[t] /\ (pc[t] # "getwd" => saved[t] = Home[p])
        /\ \A u \in Threads \ {t} : ProcOf[u] = p => pc[u] \notin {"walk", "back"}
        /\ pc[t] \notin {"walk", "back"} => cwd[p] = Home[p]
  <2>1. ~mixed[p] => alone[t] /\ (pc[t] # "getwd" => saved[t] = Home[p])
    BY <1>1, <1>2 DEF UnmixedOK
  <2>2. ~mixed[p] => \A u \in Threads \ {t} : ProcOf[u] = p => pc[u] \notin {"walk", "back"}
    BY <1>1, <1>2, <2>1 DEF AloneOK, Zipping
  <2> QED
    BY <1>1, <2>1, <2>2 DEF BackHome
\* The thread that moves goes on with what it was asked for.
<1>5. ASSUME Zipping(t)', alone'[t] = alone[t], dir'[t] = dir[t], named'[t] = named[t],
             pc'[t] = "walk" => cwd'[p] = dir[t],
             alone[t] => zip'[t] \subseteq {dir[t]} \X Names,
             alone[t] /\ pc'[t] = "back" /\ zip'[t] # {} => zip'[t] = {dir[t]} \X Names
      PROVE  AloneOK(t)'
  BY <1>1, <1>2, <1>3, <1>5 DEF AloneOK, OnlyMoves
<1>6. CASE pc'[t] = "idle"
  <2>1. AloneOK(t)' /\ ~Zipping(t)'
    BY <1>6 DEF AloneOK, Zipping
  <2>2. ~mixed[p] => cwd'[p] = Home[p]
    BY <1>1, <1>4, <1>6
       DEF Getwd, Chdir, WriteFileToZip, ChdirBack, FailArchive, Goto, TypeOK
  <2> QED
    BY <1>1, <1>2, <2>1, <2>2, OneArchiveMoves
<1>7. CASE Getwd(t) /\ pc'[t] # "idle"
  <2>1. /\ pc[t] = "getwd" /\ pc'[t] = "chdir" /\ saved'[t] = cwd[p] /\ UNCHANGED cwd
        /\ UNCHANGED <<named, dir, zip, alone>>
    BY <1>1, <1>7, StopEffect DEF Getwd, GetwdFailed, Return, Goto, TypeOK
  <2>2. AloneOK(t)'
    BY <1>1, <1>5, <2>1 DEF ThreadOK, Zipping
  <2> QED
    BY <1>1, <1>2, <1>4, <2>1, <2>2, OneArchiveMoves
<1>8. CASE Chdir(t)
  <2>1. /\ pc[t] = "chdir" /\ zip[t] = {} /\ zip'[t] = {}
        /\ UNCHANGED <<named, dir, saved, alone>>
        /\ \/ pc'[t] = "walk" /\ cwd'[p] = dir[t]
           \/ pc'[t] = "back" /\ UNCHANGED cwd
    BY <1>1, <1>8 DEF Chdir, FailArchive, Goto, TypeOK, ThreadOK
  <2>2. AloneOK(t)'
    BY <1>1, <1>5, <2>1 DEF Zipping
  <2> QED
    BY <1>1, <1>2, <1>4, <2>1, <2>2, OneArchiveMoves
<1>9. CASE WriteFileToZip(t)
  <2>1. /\ pc[t] = "walk" /\ UNCHANGED <<cwd, named, dir, saved, alone>>
        /\ pc'[t] \in {"walk", "back"}
    BY <1>1, <1>9 DEF WriteFileToZip, FailArchive, Goto, TypeOK
  <2>2. ASSUME alone[t]
        PROVE  /\ zip'[t] \subseteq {dir[t]} \X Names
               /\ pc'[t] = "back" /\ zip'[t] # {} => zip'[t] = {dir[t]} \X Names
    <3>1. zip[t] \subseteq {dir[t]} \X Names /\ cwd[p] = dir[t]
      BY <1>1, <1>2, <2>1, <2>2 DEF AloneOK
    <3>2. CASE UNCHANGED pc
      <4>1. PICK n \in Names : zip' = [zip EXCEPT ![t] = @ \cup {<<cwd[p], n>>}]
        BY <1>1, <1>9, <2>1, <3>2 DEF WriteFileToZip, FailArchive, Goto, TypeOK
      <4> QED
        BY <1>1, <2>1, <3>1, <3>2, <4>1 DEF TypeOK
    <3>3. CASE FailArchive(t)
      BY <1>1, <3>3 DEF FailArchive, TypeOK
    <3>4. CASE UNCHANGED zip /\ \A n \in Names : \E d \in Dirs : <<d, n>> \in zip[t]
      <4>1. ASSUME NEW n \in Names PROVE <<dir[t], n>> \in zip[t]
        <5>1. PICK d \in Dirs : <<d, n>> \in zip[t]
          BY <3>4
        <5>2. <<d, n>> \in {dir[t]} \X Names
          BY <3>1, <5>1
        <5> QED
          BY <5>1, <5>2
      <4>2. \A x \in {dir[t]} \X Names : x \in zip[t]
        BY <4>1
      <4>3. {dir[t]} \X Names \subseteq zip[t] /\ zip'[t] = zip[t]
        BY <3>4, <4>2
      <4> QED
        BY <3>1, <4>3
    <3> QED
      BY <1>9, <3>2, <3>3, <3>4 DEF WriteFileToZip
  <2>3. AloneOK(t)'
    <3>1. alone[t] => cwd'[p] = dir[t]
      BY <1>1, <1>2, <2>1 DEF AloneOK
    <3> QED
      BY <1>1, <1>2, <1>3, <2>1, <2>2, <3>1 DEF AloneOK, OnlyMoves, Zipping
  <2> QED
    BY <1>1, <1>2, <1>4, <2>1, <2>3, OneArchiveMoves
<1>10. CASE ChdirBack(t)
  BY <1>1, <1>6, <1>10, StopEffect DEF ChdirBack, Return
<1> QED
  BY <1>6, <1>7, <1>8, <1>9, <1>10

(***************************************************************************)
(* A step that is not of an archive: the threads that change are not       *)
(* zipping and did not, and no directory changes.                          *)
(***************************************************************************)
LEMMA EditsWalkNot ==
  ASSUME FilesOK, WalkInv, NEW t \in Threads, pc[t] \in {"idle", "edit", "write"},
         UNCHANGED <<cwd, mixed>>, pc'[t] \in {"idle", "edit", "write"},
         \A u \in Threads \ {t} :
            /\ pc'[u] = pc[u] /\ named'[u] = named[u] /\ dir'[u] = dir[u]
            /\ saved'[u] = saved[u] /\ zip'[u] = zip[u] /\ alone'[u] = alone[u]
  PROVE  WalkInv'
<1>1. \A u \in Threads : (Zipping(u)' <=> Zipping(u)) /\ (Zipping(u) => u # t)
  BY DEF Zipping
<1>2. ASSUME NEW u \in Threads PROVE AloneOK(u)'
  BY <1>1 DEF WalkInv, AloneOK
<1>3. ASSUME NEW q \in Processes PROVE UnmixedOK(q)'
  BY <1>1 DEF WalkInv, UnmixedOK
<1>4. BackHome'
  BY DEF WalkInv, BackHome
<1> QED
  BY <1>2, <1>3, <1>4 DEF WalkInv

LEMMA ExitWalk ==
  ASSUME FilesOK, WalkInv, NEW p \in Processes, Exit(p)
  PROVE  WalkInv'
<1> DEFINE ts == {t \in Threads : ProcOf[t] = p}
<1>1. /\ \A t \in ts : pc'[t] = "idle"
      /\ \A t \in Threads \ ts :
           /\ pc'[t] = pc[t] /\ named'[t] = named[t] /\ dir'[t] = dir[t]
           /\ saved'[t] = saved[t] /\ zip'[t] = zip[t] /\ alone'[t] = alone[t]
  BY StopEffect DEF Exit, FilesOK
<1>2. /\ cwd'[p] = Home[p]
      /\ \A q \in Processes \ {p} : cwd'[q] = cwd[q] /\ mixed'[q] = mixed[q]
  BY DEF Exit, FilesOK, TypeOK
<1>3. \A t \in Threads : Zipping(t)' <=> Zipping(t) /\ t \notin ts
  BY <1>1 DEF Zipping
<1>4. ASSUME NEW u \in Threads PROVE AloneOK(u)'
  <2> SUFFICES ASSUME Zipping(u)', alone'[u] PROVE AloneOK(u)'
    BY DEF AloneOK
  <2>1. Zipping(u) /\ alone[u] /\ u \notin ts /\ ProcOf[u] \in Processes \ {p}
    BY <1>1, <1>3, ProcessOf
  <2>2. AloneOK(u)
    BY DEF WalkInv
  <2> QED
    BY <1>1, <1>2, <1>3, <2>1, <2>2 DEF AloneOK
<1>5. ASSUME NEW q \in Processes PROVE UnmixedOK(q)'
  <2>1. CASE q = p
    BY <1>3, <2>1 DEF UnmixedOK
  <2>2. CASE q # p
    BY <1>1, <1>2, <1>3, <2>2 DEF WalkInv, UnmixedOK
  <2> QED
    BY <2>1, <2>2
<1>6. BackHome'
  BY <1>1, <1>2 DEF WalkInv, BackHome
<1> QED
  BY <1>4, <1>5, <1>6 DEF WalkInv

LEMMA WalkNext == FilesOK /\ WalkInv /\ [Next]_vars => WalkInv'
<1> SUFFICES ASSUME FilesOK, WalkInv, [Next]_vars PROVE WalkInv'
  OBVIOUS
<1>0. TypeOK
  BY DEF FilesOK
<1>1. ASSUME NEW p \in Processes, Exit(p) PROVE WalkInv'
  BY <1>1, ExitWalk
<1>2. ASSUME NEW p \in Processes, Crash(p) PROVE WalkInv'
  BY <1>1, <1>2 DEF Crash
<1>3. ASSUME NEW t \in Threads, NEW name \in Given[t], CreateServerArchive(t, name)
      PROVE  WalkInv'
  BY <1>3, ArchiveBegins
<1>4. ASSUME NEW t \in Threads, Getwd(t) \/ Chdir(t) \/ WriteFileToZip(t) \/ ChdirBack(t)
      PROVE  WalkInv'
  BY <1>4, ArchiveWalks
<1>5. ASSUME NEW t \in Threads, NEW name \in Given[t], NewConfigFromFile(t, name)
      PROVE  WalkInv'
  <2>1. ASSUME TakeConfig(t, name, Resolve(t, name)) PROVE WalkInv'
    BY <1>0, <1>5, <2>1, EditsWalkNot DEF NewConfigFromFile, TakeConfig, Goto, TypeOK
  <2> QED
    BY <1>1, <1>5, <2>1, ProcessOf DEF NewConfigFromFile, LoadFailed
<1>6. ASSUME NEW t \in Threads, NEW k \in AllKeys, NEW v \in Values, SetEntry(t, k, v)
      PROVE  WalkInv'
  BY <1>0, <1>6, EditsWalkNot DEF SetEntry
<1>7. ASSUME NEW t \in Threads, Discard(t) PROVE WalkInv'
  BY <1>0, <1>7, StopEffect, EditsWalkNot DEF Discard, Return
<1>8. ASSUME NEW t \in Threads, CreateFile(t) PROVE WalkInv'
  <2>1. ASSUME pc[t] = "edit", Truncate(t, Resolve(t, named[t])) PROVE WalkInv'
    BY <1>0, <2>1, EditsWalkNot DEF Truncate, Goto, TypeOK
  <2> QED
    BY <1>1, <1>8, <2>1, ProcessOf DEF CreateFile
<1>9. ASSUME NEW t \in Threads, WriteTo(t) PROVE WalkInv'
  <2>1. ASSUME pc[t] = "write", Store(t, dir[t]) PROVE WalkInv'
    BY <1>0, <2>1, StopEffect, EditsWalkNot DEF Store, Return
  <2> QED
    BY <1>1, <1>9, <2>1, ProcessOf DEF WriteTo
<1>10. CASE UNCHANGED vars
  BY <1>10 DEF vars, WalkInv, AloneOK, UnmixedOK, BackHome, Zipping
<1> QED
  BY <1>2, <1>3, <1>4, <1>5, <1>6, <1>7, <1>8, <1>9, <1>10 DEF Next

LEMMA WalkInvariant == Spec => []WalkInv
<1>1. Init => WalkInv
  BY DEF Init, WalkInv, AloneOK, UnmixedOK, BackHome, Zipping
<1>2. FilesInv /\ WalkInv /\ [Next]_vars => WalkInv'
  BY WalkNext DEF FilesInv
<1> QED
  BY <1>1, <1>2, FilesInvariant, PTL DEF Spec

\* A process none of whose archives overlapped is where it started whenever
\* it is not walking, however its calls ended.
THEOREM ProcessesComeHome == Spec => []BackHome
<1>1. WalkInv => BackHome
  BY DEF WalkInv
<1> QED
  BY <1>1, WalkInvariant, PTL

\* An archive made alone in its process is of the directory asked for, and of
\* no other.
THEOREM ArchivesOwnDirectory == Spec => []OwnDirectory
<1>1. WalkInv => OwnDirectory
  BY DEF WalkInv, AloneOK, OwnDirectory, Zipping
<1> QED
  BY <1>1, WalkInvariant, PTL
=============================================================================
