----------------------------- MODULE ServerFiles -----------------------------
(***************************************************************************)
(* What the library does to the files of a host.  CreateServerArchive      *)
(* walks a server's directory from within: it changes the working          *)
(* directory of the whole process and changes it back.  ServerConfig is    *)
(* loaded, edited and written back in place.  Threads are the goroutines   *)
(* of the callers; those of one process share its working directory, and   *)
(* all share the files.                                                    *)
(*                                                                         *)
(* A server's directory has one configuration file.  Directories and files *)
(* are named by their directory: absolutely, or by Here, which stands for  *)
(* a name relative to the working directory ("." is ServerDirectory's      *)
(* default).  Every directory has every file an archive asks for.  A       *)
(* configuration is small: one write stores all of it or fails.            *)
(***************************************************************************)
EXTENDS Naturals

CONSTANTS
    Threads,    \* the goroutines that use the library
    Zippers,    \* those that make archives
    Editors,    \* those that change configurations
    Processes,
    ProcOf,     \* the process of each thread
    Dirs,       \* the servers' directories
    Home,       \* the working directory each process starts in
    Here,       \* a relative name
    Given,      \* the names each thread is given
    Names,      \* the files an archive asks for
    Keys,       \* the entries a configuration has
    OtherKeys,  \* and some it does not have
    Values,
    Faults,     \* a subset of AllFaults
    Garbled,    \* a file of two configurations, one written over the other
    None

\* disk: a call of the operating system fails; crash: a process dies.
AllFaults == {"disk", "crash"}

ASSUME RolesAssumption == Zippers \subseteq Threads /\ Editors \subseteq Threads
ASSUME ProcAssumption == ProcOf \in [Threads -> Processes]
ASSUME HomeAssumption == Home \in [Processes -> Dirs]
ASSUME NamesAssumption ==
    /\ Names # {} /\ Here \notin Dirs /\ None \notin Dirs \cup {Here}
    /\ Given \in [Threads -> SUBSET (Dirs \cup {Here})]
ASSUME KeysAssumption == Keys # {} /\ Keys \cap OtherKeys = {} /\ Values # {}
ASSUME FilesFaultsAssumption == Faults \subseteq AllFaults

AllKeys == Keys \cup OtherKeys
Configs == UNION {[ks -> Values] : ks \in SUBSET AllKeys}
Whole == [Keys -> Values]
Empty == [k \in {} |-> None]

ASSUME GarbledAssumption == None \notin Configs /\ Garbled \notin Configs \cup {None}

VARIABLES
    cwd,    \* the working directory of each process
    file,   \* the configuration file of each directory
    pc,     \* where each thread's call is
    named,  \* the name it was given
    dir,    \* the directory it opened
    saved,  \* currentDir, what the deferred Chdir goes back to
    zip,    \* the files in the archive: their directory and name
    conf,   \* the ServerConfig it holds
    \* history
    alone,  \* no other archive in the thread's process since its own began
    mixed,  \* two archives of the process have overlapped
    kept,   \* each directory's configuration with all edits made since, as
            \* long as they were made one at a time and to the end, else None
    edits   \* the entries a thread has set since it loaded

vars == <<cwd, file, pc, named, dir, saved, zip, conf, alone, mixed, kept, edits>>

Labels == {"idle", "getwd", "chdir", "walk", "back", "edit", "write"}
Edits == UNION {[ks -> Values] : ks \in SUBSET Keys}

TypeOK ==
    /\ cwd \in [Processes -> Dirs]
    /\ file \in [Dirs -> Configs \cup {Garbled}]
    /\ pc \in [Threads -> Labels]
    /\ named \in [Threads -> Dirs \cup {Here, None}]
    /\ dir \in [Threads -> Dirs \cup {None}]
    /\ saved \in [Threads -> Dirs \cup {None}]
    /\ zip \in [Threads -> SUBSET (Dirs \X Names)]
    /\ conf \in [Threads -> Configs \cup {None}]
    /\ alone \in [Threads -> BOOLEAN]
    /\ mixed \in [Processes -> BOOLEAN]
    /\ kept \in [Dirs -> Whole \cup {None}]
    /\ edits \in [Threads -> Edits]

Init ==
    /\ cwd = Home
    /\ file \in [Dirs -> Whole] /\ kept = file
    /\ pc = [t \in Threads |-> "idle"]
    /\ named = [t \in Threads |-> None]
    /\ dir = [t \in Threads |-> None]
    /\ saved = [t \in Threads |-> None]
    /\ zip = [t \in Threads |-> {}]
    /\ conf = [t \in Threads |-> None]
    /\ alone = [t \in Threads |-> FALSE]
    /\ mixed = [p \in Processes |-> FALSE]
    /\ edits = [t \in Threads |-> Empty]

-----------------------------------------------------------------------------
Process(t) == {u \in Threads : ProcOf[u] = ProcOf[t]}
Resolve(t, name) == IF name = Here THEN cwd[ProcOf[t]] ELSE name

Zipping(t) == pc[t] \in {"getwd", "chdir", "walk", "back"}
EditingIn(t, d) == pc[t] \in {"edit", "write"} /\ dir[t] = d

\* The calls of these threads are over.
Stop(ts) ==
    LET over(f, v) == [t \in Threads |-> IF t \in ts THEN v ELSE f[t]]
    IN  /\ pc' = over(pc, "idle") /\ named' = over(named, None)
        /\ dir' = over(dir, None) /\ saved' = over(saved, None)
        /\ zip' = over(zip, {}) /\ conf' = over(conf, None)
        /\ alone' = over(alone, FALSE) /\ edits' = over(edits, Empty)
Return(t) == Stop({t})

Goto(t, l) == pc' = [pc EXCEPT ![t] = l]

\* Nothing can be said any more of the configurations of ds.
Without(ds) == [d \in Dirs |-> IF d \in ds THEN None ELSE kept[d]]

\* The process exits, whatever its threads are doing, and is started again.
Exit(p) ==
    LET ts == {t \in Threads : ProcOf[t] = p}
    IN  /\ Stop(ts)
        /\ cwd' = [cwd EXCEPT ![p] = Home[p]]
        /\ mixed' = [mixed EXCEPT ![p] = FALSE]
        /\ kept' = Without({dir[t] : t \in {u \in ts : pc[u] = "write"}})
        /\ UNCHANGED file

Crash(p) == "crash" \in Faults /\ Exit(p)

-----------------------------------------------------------------------------
(***************************************************************************)
(* CreateServerArchive.  An error before Getwd leaves nothing behind.      *)
(***************************************************************************)
CreateServerArchive(t, name) ==
    /\ t \in Zippers /\ pc[t] = "idle"
    /\ LET others == {u \in Process(t) \ {t} : Zipping(u)}
       IN  /\ alone' = [u \in Threads |->
                          IF u = t THEN others = {} ELSE alone[u] /\ u \notin others]
           /\ mixed' = [mixed EXCEPT ![ProcOf[t]] = @ \/ others # {}]
    /\ Goto(t, "getwd")
    /\ named' = [named EXCEPT ![t] = name]
    /\ dir' = [dir EXCEPT ![t] = Resolve(t, name)]
    /\ UNCHANGED <<cwd, file, saved, zip, conf, kept, edits>>

\* Variant: the way back is deferred before it is known.
GetwdFailedBack(t) == Goto(t, "back") /\ UNCHANGED <<named, dir, saved, zip, conf, alone, edits>>

\* Getwd fails: the function returns, and nothing has been deferred.
GetwdFailed(t) == Return(t)

Getwd(t) ==
    /\ pc[t] = "getwd"
    /\ \/ /\ saved' = [saved EXCEPT ![t] = cwd[ProcOf[t]]]
          /\ Goto(t, "chdir")
          /\ UNCHANGED <<named, dir, zip, conf, alone, edits>>
       \/ "disk" \in Faults /\ GetwdFailed(t)
    /\ UNCHANGED <<cwd, file, mixed, kept>>

\* Variants: an error returns as it stands; it is dropped.
FailArchiveNoChdir(t) == Return(t)
FailArchiveDropped(t) == Goto(t, "walk") /\ UNCHANGED <<named, dir, saved, zip, conf, alone, edits>>

\* An error from here on: no archive, but the deferred Chdir.
FailArchive(t) ==
    /\ Goto(t, "back")
    /\ zip' = [zip EXCEPT ![t] = {}]
    /\ UNCHANGED <<named, dir, saved, conf, alone, edits>>

Chdir(t) ==
    /\ pc[t] = "chdir"
    /\ \/ cwd' = [cwd EXCEPT ![ProcOf[t]] = dir[t]] /\ Goto(t, "walk")
          /\ UNCHANGED <<named, dir, saved, zip, conf, alone, edits>>
       \/ "disk" \in Faults /\ FailArchive(t) /\ UNCHANGED cwd
    /\ UNCHANGED <<file, mixed, kept>>

\* A file of the walk is found and opened by a relative name.
WriteFileToZip(t) ==
    /\ pc[t] = "walk"
    /\ \/ /\ \E n \in Names : /\ \A d \in Dirs : <<d, n>> \notin zip[t]
                              /\ zip' = [zip EXCEPT ![t] = @ \cup {<<cwd[ProcOf[t]], n>>}]
          /\ UNCHANGED <<pc, named, dir, saved, conf, alone, edits>>
       \/ "disk" \in Faults /\ FailArchive(t)
       \/ /\ \A n \in Names : \E d \in Dirs : <<d, n>> \in zip[t]
          /\ Goto(t, "back")
          /\ UNCHANGED <<named, dir, saved, zip, conf, alone, edits>>
    /\ UNCHANGED <<cwd, file, mixed, kept>>

\* The deferred Chdir, on every return after Getwd.
ChdirBack(t) ==
    /\ pc[t] = "back"
    /\ cwd' = [cwd EXCEPT ![ProcOf[t]] = saved[t]]
    /\ Return(t)
    /\ UNCHANGED <<file, mixed, kept>>

-----------------------------------------------------------------------------
(***************************************************************************)
(* ServerConfig.  An error of any of its calls ends the process            *)
(* (CheckFatalError).  A configuration is written to the name it was       *)
(* loaded from.                                                            *)
(***************************************************************************)
\* Variant: an error leaves an empty configuration.
LoadFailedEmpty(t) ==
    /\ Goto(t, "edit")
    /\ conf' = [conf EXCEPT ![t] = Empty]
    /\ named' = [named EXCEPT ![t] = Here]
    /\ dir' = [dir EXCEPT ![t] = cwd[ProcOf[t]]]
    /\ UNCHANGED <<cwd, file, saved, zip, alone, mixed, kept, edits>>

LoadFailed(t) == Exit(ProcOf[t])

\* ini.Load (external) takes an empty file for a configuration without
\* entries; of a garbled one it makes some configuration or an error.
Loaded(d) == IF file[d] = Garbled THEN Whole ELSE {file[d]}

\* The configuration of d, by the name it was given.
TakeConfig(t, name, d) ==
    /\ conf' \in {[conf EXCEPT ![t] = c] : c \in Loaded(d)}
    /\ Goto(t, "edit")
    /\ named' = [named EXCEPT ![t] = name]
    /\ dir' = [dir EXCEPT ![t] = d]
    /\ kept' = Without({e \in {d} : \E u \in Threads : EditingIn(u, e)})
    /\ UNCHANGED <<cwd, file, saved, zip, alone, mixed, edits>>

NewConfigFromFile(t, name) ==
    /\ t \in Editors /\ pc[t] = "idle"
    /\ LET d == Resolve(t, name)
       IN  \/ TakeConfig(t, name, d)
           \/ ("disk" \in Faults \/ file[d] = Garbled) /\ LoadFailed(t)

Added(c, k, v) == [l \in DOMAIN c \cup {k} |-> IF l = k THEN v ELSE c[l]]

\* Variant: an entry that is not there is added.
SetEntryAdds(t, k, v) ==
    /\ pc[t] = "edit"
    /\ conf' = [conf EXCEPT ![t] = Added(@, k, v)]
    /\ UNCHANGED <<cwd, file, pc, named, dir, saved, zip, alone, mixed, kept, edits>>

\* An entry that is not there is not added.
SetEntry(t, k, v) ==
    /\ pc[t] = "edit"
    /\ IF k \in DOMAIN conf[t] THEN conf' = [conf EXCEPT ![t][k] = v] ELSE UNCHANGED conf
    /\ edits' = IF k \in Keys THEN [edits EXCEPT ![t] = Added(@, k, v)] ELSE edits
    /\ UNCHANGED <<cwd, file, pc, named, dir, saved, zip, alone, mixed, kept>>

\* HasKey and List only read; the caller is done with the configuration.
Discard(t) ==
    /\ pc[t] = "edit"
    /\ Return(t)
    /\ UNCHANGED <<cwd, file, mixed, kept>>

\* WriteToFile: os.Create truncates whatever the name now leads to.
Truncate(t, d) ==
    /\ file' = [file EXCEPT ![d] = Empty]
    /\ Goto(t, "write")
    /\ dir' = [dir EXCEPT ![t] = d]
    /\ kept' = Without(IF d = dir[t] THEN {} ELSE {d, dir[t]})
    /\ UNCHANGED <<cwd, named, saved, zip, conf, alone, mixed, edits>>

CreateFile(t) ==
    /\ pc[t] = "edit"
    /\ \/ Truncate(t, Resolve(t, named[t]))
       \/ "disk" \in Faults /\ Exit(ProcOf[t])

\* What a write from the start of a file makes of it: all that is written,
\* or that and the end of something longer.
Written(old, new) ==
    IF new = Empty THEN {old}
    ELSE IF old \in {Empty, new} THEN {new} ELSE {new, Garbled}

\* A configuration with some entries set anew.
Edited(c, e) == [k \in Keys |-> IF k \in DOMAIN e THEN e[k] ELSE c[k]]

Store(t, d) ==
    /\ file' \in {[file EXCEPT ![d] = c] : c \in Written(file[d], conf[t])}
    /\ kept' = [kept EXCEPT ![d] = IF @ = None THEN None ELSE Edited(@, edits[t])]
    /\ Return(t)
    /\ UNCHANGED <<cwd, mixed>>

WriteTo(t) ==
    /\ pc[t] = "write"
    /\ Store(t, dir[t]) \/ ("disk" \in Faults /\ Exit(ProcOf[t]))

-----------------------------------------------------------------------------
Next ==
    \/ \E p \in Processes : Crash(p)
    \/ \E t \in Threads :
         \/ \E d \in Given[t] : CreateServerArchive(t, d) \/ NewConfigFromFile(t, d)
         \/ Getwd(t) \/ Chdir(t) \/ WriteFileToZip(t) \/ ChdirBack(t)
         \/ \E k \in AllKeys, v \in Values : SetEntry(t, k, v)
         \/ Discard(t) \/ CreateFile(t) \/ WriteTo(t)

Spec == Init /\ [][Next]_vars

-----------------------------------------------------------------------------
(***************************************************************************)
(* Properties.                                                             *)
(***************************************************************************)

\* A finished archive whose call was the only one of its process holds the
\* files of the directory asked for and no others.  For a relative name that
\* is a directory the process started in, unless calls overlapped before: the
\* process may be somewhere else for good.  Errors of earlier calls do not
\* matter.
OwnDirectory ==
    \A t \in Threads :
        /\ pc[t] = "back" /\ zip[t] # {} /\ alone[t]
        /\ named[t] = Here => ~mixed[ProcOf[t]]
        => zip[t] = {IF named[t] = Here THEN Home[ProcOf[t]] ELSE named[t]} \X Names

\* A process none of whose archives overlapped is in the directory it started
\* in whenever it is not walking another, however its calls ended.
BackHome ==
    \A p \in Processes :
        ~mixed[p] /\ (\A t \in Threads : ProcOf[t] = p => pc[t] \notin {"walk", "back"})
        => cwd[p] = Home[p]

\* If a directory's configuration was changed by one caller at a time, who
\* was not interrupted between truncation and write and whose name led to one
\* file throughout, every entry is there with the value last set: no edit is
\* lost and none undone, whatever happens to other files and to archives.
ConfigKept ==
    \A d \in Dirs :
        kept[d] # None /\ (\A t \in Threads : ~(pc[t] = "write" /\ dir[t] = d))
        => file[d] = kept[d]

\* Whatever overlaps, fails or crashes, a configuration file is never one
\* with some of its entries: it has them all, or lost them all, or is two
\* written over each other, which takes callers that overlap.
WholeOrEmpty ==
    \A d \in Dirs : \/ file[d] \in Whole \cup {Empty}
                    \/ file[d] = Garbled /\ kept[d] = None
=============================================================================
