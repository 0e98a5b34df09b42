# Verification of mcawslib

mcawslib is a Go library that runs Minecraft servers on AWS: it launches them as
ECS tasks, backs them up to S3 while they run, and puts them on the network
behind a bungee proxy and Route 53. The library starts no goroutine of its own
and keeps almost no state. What is hard about it is outside: every operation is
a sequence of calls to services that change in between, that other processes
call too, and that may do what they are asked and fail to say so. The models are
about those sequences.

## Inventory

| Part | Source | State | Operations | What is hard | What makes it right |
|---|---|---|---|---|---|
| Snapshots | `archive.go`, `server-archive.go` | `Server.Rcon`; a temporary zip file; the S3 object | `TakeServerSnapshot`, `TakeWorldSnapshot`, `TakeSnapshotWithFiles`, `SafeArchiveThenPublish`, `ArchiveServer`, `CreateServerArchive`, `PublishArchive` | the game server writes while files are copied; save-off and save-on are not paired by anything but the call; lost replies; restarts; two snapshots at once | the archive is the world at one instant; saving is on afterwards; what is published is complete |
| Rcon client | `rcon.go`, `server-rcon.go` | one connection | `NewRcon`, `NewRconWithRetry`, `Send`, `SaveAll`, `SaveOff`, `SaveOn`, `NumberOfUsers` | an error does not say whether the command was executed; a broken connection is replaced only when a caller dials again | an error is reported; a retried dial gives up |
| Servers | `serverspec.go`, `server.go` | none; `Server` values are copies | `LaunchServer`, `GetServers`, `GetServer`, `GetServerWait`, `GetServerFromName`, `Terminate` | check-then-act on names; errors after a launch that took place; ports not bound yet | names are unique, at least for one careful client; a server that was waited for has its ports |
| Proxy and DNS | `proxy.go`, `dns.go` | `Proxy.Rcon`; bungee's configuration; Route 53 | `AddServerAccess`, `RemoveServerAccess`, `StartProxyForServer`, `StopProxyForServer`, `AttachToNetwork`, `AttachToProxyNetwork`, `DetachFromProxyNetwork` | stale `Proxy` and `Server` values, relaunches that empty the configuration, names computed in two ways | what a call says it did is so; stale callers do no harm |
| Archive listing | `archiveDb.go` | none; S3 keys | `GetArchives`, `GetArchivesForServer`, `GetLatestSnapshot`, `ArchivePath` | pages read while objects are put; user, server and type are read back from keys | every archive that was there is found, under its own user and server; the latest is the latest |
| Files of a host | `config.go`, `archive.go` | an ini file; the working directory of the process | `NewConfigFromFile`, `SetEntry`, `WriteToFile`; `CreateServerArchive` | truncate, then write; two writers; a directory change that all goroutines see, undone on every error | no entry is lost, none is invented; an archive is of the directory asked for, and the process is back where it was |
| Rest | `errors.go`, `minecraft.go`, task definitions, game server directory, build files | – | – | – | – |

They interact through four things: the game server, which snapshots command
over rcon; ECS, which is where `Server` and `Proxy` values come from and go
stale against; the bucket, which snapshots fill and listings read; and names,
which tie S3 keys, tasks, forced hosts and DNS records together. The hazards, each at its line, are in `PROJECT.json`.

## Modules

| Module | What it is |
|---|---|
| `Snapshot` | snapshots, for any number of takers of one game server |
| `AtomicBackup` | what a snapshot promises: the world at one instant of the call, or nothing |
| `SnapshotRefinement` | the view of one taker of `Snapshot` as an `AtomicBackup` |
| `MCSnapshot` | instances for TLC |
| `SnapshotProofs` | theorems about `Snapshot`: types, saving, one version of the world |
| `SnapshotZipProofs` | theorems about its zip files, beside other calls |
| `SnapshotRefinementProofs` | that one taker implements `AtomicBackup` |
| `ArchiveListing`, `MCArchiveListing`, `ArchiveListingProofs` | finding a server's archives while others are put |
| `ServerFiles`, `MCServerFiles`, `ServerFilesProofs` | the configuration file, and the working directory an archive changes |
| `Fleet`, `MCFleet`, `FleetProofs` | launching, finding and terminating servers |
| `ProxyNetwork`, `MCProxyNetwork`, `ProxyNetworkProofs` | the proxy, its rcon connections and its DNS |

A definition named "Variant: ..." in its comment is not part of a
specification. It is a plausible slip of the code (a dropped guard, a missing
command), kept next to the definition it would replace; replacing it must make
the property that guards against it fail. `PROJECT.json` lists the pairs.

### Snapshot

A *taker* is a `Server` value used by one goroutine of one process; takers on
one host share its temporary directory, and all snapshot one game server. `pc`
walks a taker through `SafeArchiveThenPublish`; `job` holds the locals of the
call; `rcon` is `Server.Rcon` (none, live, or a `Client` whose peer is gone and
which `HasRconConnection` goes on believing in); `tmp` is the zip file of each
host and second, since `FormatForTimeName` keeps seconds; `store` is the bucket.
A file's content is the version of the world it was written from.

| Action | Code |
|---|---|
| `NewRconWithRetry`, `Redial` | `Server.NewRcon` and `Server.NewRconWithRetry`, called by the taker between snapshots; one dial a step |
| `TakeSnapshot`, `DialRcon` | the entry points and the branch of `SafeArchiveThenPublish` that connects |
| `ArchivePath`, `ArchiveName` | two readings of the clock: the S3 key and the temporary file |
| `SaveAll`, `SaveOff`, `SaveOn` | the commands of `ArchiveServer`; `SaveOn` at `restore` is the one after an archive that failed |
| `CreateServerArchive`, `WriteFileToZip`, `CloseArchive`, `FailArchive` | `os.Create`, one file of the walk, the deferred closes, any error return |
| `PublishArchive` | reading the zip file (`Read`: one `file.Read`, whose count nobody looks at) and the put |
| `Edit`, `AutoSave`, `WriteFile`, `ServerRestart`, `Tick`, `Crash` | players, the game server, the clock, the taker's process |

Each command of `ArchiveServer` is executed and answered, executed with its reply lost, or
neither; the caller cannot tell the last two apart. Assumed of the game server:
one thread ticks the world, saves and serves rcon, so a command is executed
between save passes, and save-all has finished when it is answered; a restart is
orderly (it saves, and comes back with saving on). A server killed in the middle
of a pass, commands delayed past their caller's death, and clocks that disagree
are not modelled. The order of the walk is abstracted: any order is allowed. A
retried dial is made `Retries` + 1 times, as the code counts; one that fails
leaves the `Client` the `Server` had.

### ArchiveListing

One caller lists a user's objects, a page a step, while `PutObject` adds and
replaces objects of any user. A key is a directory (of a user, server and type: its
place) and a second; `Rank` orders the directories. A name is the sequence of its
path elements, usually one: a `/` in it, which nothing forbids, makes two.
`archivePath` joins the elements, `archiveFromS3Object` takes the first three
for user, server and type, whatever they were made from, and the listing's prefix
is a name with any end. `now` stamps LastModified,
and a put may bear a key of any earlier second, since a snapshot makes its key
before it copies. `archives` is the `ArchiveMap`.
`before`, the bucket when the call began, is history.

| Action | Code |
|---|---|
| `GetArchives`, `ListPage`, `ListError`, `Return` | `GetArchives`: its parameters, an iteration of the loop, its error return, the answer |
| `GetArchivesForServer`, `OfType`, `GetLatestSnapshot` | the filters and the sort, as operators on an answer |
| `PutObject`, `Tick` | S3 and the clock |

Assumed: S3 lists what has been put (strong consistency) in the order of the
keys, and a continuation token names the key a page ended with; no two places have
one directory, and no name ends in a `/` (`S3PathJoin` would drop it); hosts agree on the offset of their clocks, so that times
in keys are ordered as they are written. Objects the library did not put are not
modelled (a key of fewer than three elements would panic at archiveDb.go:305).

### ServerFiles

Threads are the goroutines of callers, several to a process. A thread makes an
archive (`CreateServerArchive`, `Getwd`, `Chdir`, `WriteFileToZip` per file,
`ChdirBack`) or edits a configuration (`NewConfigFromFile`, `SetEntry`,
`CreateFile`, `WriteTo`). `cwd` is shared by the threads of a process and is what
a relative name means when it is used, so every step that opens something
resolves its name anew. Errors are where the code has them: before the deferred
`Chdir` is registered an archive just returns (`GetwdFailed`), afterwards it goes
back (`FailArchive`); an error of a configuration call ends the process (`Exit`),
and with it the calls of its other threads.

History says what a property may rely on: `alone` and `mixed`, whether archives
of one process overlapped; `kept`, each configuration with the edits made to it,
forgotten (`None`) once two callers had it open together, a process ended between
truncation and write, or a name led to one file at the load and to another at
the write. A write over the content another caller has just written leaves the
new content or, if that is shorter, a mixture (`Garbled`).

Assumed: the deferred `Chdir` itself succeeds; one write stores a configuration
whole or fails; `CheckFatalError` exits; a configuration is written to the name it
was loaded from; a restarted process starts in the same directory.

### Fleet

Tasks are handed out by ECS, run (which binds their ports), and stop. A client
goes through `LaunchServer` in three steps, as many as the calls it makes that
another client can come between: list and check, run, get. `CheckNames` and
`RunTask` keep every error return; `GetLaunched` keeps the one place where a nil
`Server` is used (the process panics). Lookups return a copy: the task and
whether its ports were bound then. ECS lists tasks atomically, pending ones
included. An answer with several tasks does not occur, as one is asked for.

### ProxyNetwork

A proxy's launches are numbered, and `IpOf` gives the public IP of the EC2 host
each runs on, which two launches may share: `PublicProxyIp` is the host's, so it
does not tell them apart. A server's launch stands for its address. Each
administrator holds a `Proxy` (`task`, the launch it was fetched of, and `rcon`)
and `Server`s (`known`) fetched at some time; nothing tells it that they are out of
date. A relaunch breaks the connections made to the earlier launch; a new dial by
a `Proxy` fetched before it reaches the new proxy if that is on the same host, and
then only if it has the same port, so it may fail too. A call walks through the steps its code makes in its
order: `LookUp` (`PublicDNS` by `ProxiedServerFQDN`, with the fallback of
`StopProxyForServer`), `GetRcon`, `ServerNames`, `Send`, `Change` (the Route 53
upsert or delete). FQDNs keep the trailing dot that `ProxiedServerFQDN` trims,
because bungee compares names as strings. `alone` and `answer` are history.

Assumed: Route 53 deletes a record only when given its value; records are those
the library makes, with one value each; bungee executes a command it receives
(the code does not read the reply of any but `getServers`); a reply that arrives
arrives before the proxy is relaunched; a proxy that stops closes its
connections. One proxy name is modelled: proxies share nothing but the zone.

## Runs

| Run | Instance | Shows |
|---|---|---|
| `snap_single` | one taker, two files, two types, two seconds, the world changes once; every fault but a failed flush or a short read | `TypeOK`; `SaveOffAccounted`; `ImplementsAtomicBackup`: every behaviour is one of `AtomicBackup` |
| `snap_shared` | two takers on two hosts, two files; rcon, restart, crash, disk and short-read faults | `PointInTime`, `PublishedComplete`, `PublishedFresh`, `AutoSaveRestored` |
| `snap_live` | two takers, one file, disk faults and restarts, `FairSpec` | `SavingResumes`, `CallsReturn` |
| `snap_lost_reply` | one taker, rcon faults | **violated**: `SaveOnNoMatterWhat` |
| `snap_flush` | one taker, a failed flush | **violated**: `PublishedReadable` |
| `listing` | two users, one's name a prefix of the other's, five places, one of a server with a `/` in its name, three seconds, up to three objects, a page of one object; failing requests, `FairSpec` | `TypeOK`, `ListingComplete`, `LatestNotOlder`, `ListingEnds` |
| `files` | two threads in one process that zip, one of which also edits, and one of another process that edits; two directories, two files, two entries and one that is not there; errors and crashes | `TypeOK`, `OwnDirectory`, `BackHome`, `WholeOrEmpty`, `ConfigKept` |
| `fleet` | two clients, three tasks, two names of which one has a bad task definition; every fault | `TypeOK`, `RetrySafe`, `DuplicatesOverlap`, `WaitedHasPorts` |
| `fleet_names` | two clients, two tasks, no fault | **violated**: `UniqueNames` |
| `proxy` | two administrators, one server with two launches, three launches of the proxy, two of them on one host; DNS and rcon faults | `TypeOK`, `AnswersHold` |
| `proxy_detach` | one administrator, no fault | **violated**: `DetachFindsRecord` |
| `proxy_rcon` | one administrator, rcon faults | **violated**: `GetRconWorks` |

*Bounds.* `MaxVersion`: one change of the world is enough to tell a file of before
from one of after, which is all the snapshot properties compare. `MaxTime` is 1 where keys
must differ and 0 where all calls fall in one second, the worse case: later
objects replace earlier ones under their key. Two takers, clients or
administrators are the interference; a third task lets a name be reused while two
launches overlap. `MaxRuns` at 2 gives each held address an
earlier and a current launch; `MaxProxies` at 3 gives a held `Proxy` a
successor on its own host and one on another. `Retries` is 1 where the loop matters: one failure
that is retried and one that is not. A page of one object makes every boundary
between two objects a boundary between pages; three objects let a page be
followed by one that a put came before, into or after. In `files` two entries are
the least of which a file can have some. There a thread of the shared process
names its directory absolutely and the other by its relative name, since it is
between the two that a directory change is seen. Three seconds give a key an
earlier, an equal and a later time than another. Calls are not bounded: every model runs for ever,
and deadlock is checked in every run.

*Symmetry* is used in `fleet`, `proxy`, `files` and `snap_shared`, which check no
liveness, over sets that appear in no ordered way; in `snap_shared` takers change
places together with their hosts.

*Fairness.* `FairSpec` assumes that a save pass goes on (the game server's
thread runs) and that a goroutine in a call keeps running. For the call it is
strong fairness, because the commands are served between save passes: passes may
come and go for ever, and the game server still gets to its rcon queue each
tick. A retried dial gets through or fails, each time. The `FairSpec` of
`ArchiveListing` has S3 answer each request, with a page or an error.
`ListingEnds` holds although puts go on for ever, as long as the bucket is
finite (`MaxObjects`, and the seconds of the keys): nothing in the code limits a stream of new keys put ahead of the
listing. Nothing is assumed of callers, players or faults. `snap_live` leaves out
rcon faults and crashes: with them saving need not come back, which is what
`snap_lost_reply` shows.

### What the violations mean

- `snap_lost_reply`: "Make sure this happens no matter what" (archive.go:67) is
  not so when save-off itself reports an error: if only its reply was lost, the
  server stays with saving off until a later snapshot succeeds.
- `snap_flush`: an archive whose last write fails is published as good, since
  `archive.Close()` is deferred and unchecked. `PublishedComplete` names it as one of
  two exceptions.
- `fleet_names`: the check for duplicate names does not prevent them.
  `DuplicatesOverlap` and `RetrySafe` say what it does give.
- `proxy_detach`: detaching depends on the proxy's own record, which its comment
  does not say and attaching does not need.
- `proxy_rcon`: `GetRcon` reuses a connection whether or not it works.

Seen, and not given a run: `GetArchivesForServer` (archiveDb.go:261-265) never
looks at the type it is asked for, so `LatestWorldSnapshot` may return a server
snapshot, where snapshot_test.go:62 asserts that every archive returned has the type asked for;
`LatestNotOlder` is stated so as to hold of the code as it is. `PublishArchive`
(archive.go:189-192) reads the zip file with one `file.Read` and ignores the count,
so a short one (of a file over the limit of one read) publishes zeros for the rest;
it is the other exception of `PublishedComplete`, and refutes `PublishedReadable` as
the failed `Close` does. A user or server with a `/` in its name is split
(archiveDb.go:389-392): its archives are filed under another name, and found as
that one's. A proxy relaunched on the same host has the IP of the one before
(proxy.go:162-164), so an administrator with the old `Proxy` may detach a
record that leads to the new one.
The comment of `StartProxyForServer`
(proxy.go:298-301) says it creates the server's DNS entry, which only
`AttachToProxyNetwork` does; the comment of `LaunchServer` (serverspec.go:74)
says that every error is a `TaskError`, and the first two are not.

## Theorems

TLAPS checks these for every value of the constants that meets the ASSUMEs of
the modules. Seven have a hypothesis of their own, named below. Every safety
property that a passing run checks has its theorem, and three of the five that a
run refutes have one under the hypothesis that rules the counterexample out. The inductive invariants
were checked by TLC on the instances of the runs before they were proved.

### Snapshot

- `TypeCorrect`, `SavingAccounted`, `SavingRestored`: `TypeOK`,
  `SaveOffAccounted`, `AutoSaveRestored`. The call past its save-off is the
  witness of saving that is off; that it goes on to save-on needs `Connections`
  (a guarded taker past the dial has a connection, dead or alive).
- `SnapshotsAreConsistent`: `PointInTime`. It speaks of
  the bucket, so it is not inductive: `QuietInv` has to say what a call that
  is alone knows while it copies. Between a save-off it executed and its save-on
  no pass is in progress and the disk is the world at one version, except that a
  restart may save a newer one; then the connection is dead, so the save-on
  fails and the call never gets to publish.
- `ArchivesComplete`, `ArchivesFresh` (`SnapshotZipProofs`): `PublishedComplete`
  and `PublishedFresh`, which hold though other calls run in the middle.
  Hypothesis: no two takers share a host (`OwnHosts`), since two that do may be
  given one temporary file, and one truncates what the other has written.
  `ArchivesReadable` is what is left of `PublishedReadable`, which `snap_flush`
  refutes: the same, if zip files are written and read whole (`WholeFiles`).
  `CompleteInv` follows the zip file:
  open with the files no longer to do, then closed with all. `FreshInv` rests on
  `SecuredNext`: once memory, the pass and the disk are no older than the
  call, they stay so, whoever saves, restarts or turns saving on.
- `SnapshotIsAtomic` (`SnapshotRefinementProofs`): `ImplementsAtomicBackup`. Each
  action of `Snapshot` is mapped: `TakeSnapshot` is `Ask`, a put is `Keep`, any
  other end of a call, a crash included, is `Refuse`, `Edit` is `Play`, and the
  rest change nothing of the backup. That a put keeps one version, of
  between the request and now, comes from `QuietInv`, and that it is readable
  from `CompleteZips`. Hypothesis (`Single`, `WholeFiles`): one taker,
  with an address, and every type of archive has a file. (The versions of an
  archive of nothing cannot be told, so the mapping would have to invent one.)
- `CallsAdvance`: every step of a call brings it nearer to its end, and no step
  of anyone else takes it back. With the fairness of `FairSpec` this is
  `CallsReturn`, which is only model-checked.
- `SaveOnUnlessReplyLost`: `SaveOnNoMatterWhat`, for one taker whose connections do
  not break. The connection that is dead without the taker knowing was killed by a
  restart, which turned saving on (`DeadSaves`), so a save-off that turns it off is
  answered. (A crash after it still leaves saving off: `SaveOffAccounted`.)

### ServerFiles

- `FilesTypeCorrect`, `ConfigsAreWhole`, `EditsAreKept`: `TypeOK`, `WholeOrEmpty`,
  `ConfigKept`, from `FilesInv`. A thread that edits has a configuration that is
  whole or empty (`ThreadOK`). While `kept` is not `None` a file has one
  editor (`OneEditor`), and what that editor has in hand is what was kept,
  with its edits made (`InHand`), so the write stores what should be there.
- `ProcessesComeHome`, `ArchivesOwnDirectory`: `BackHome`, `OwnDirectory`, from
  `WalkInv`. An archive that is alone in its process finds the process where it
  put it and has copied from there only (`AloneOK`); as long as no archives of
  a process have overlapped, each of them is alone, and what it `saved` is the
  process's home (`UnmixedOK`), so the way back leads there after any error.

### ArchiveListing

- `ListingTypeCorrect`, `ListingsComplete`, `LatestIsLatest`:
  `TypeOK`, `ListingComplete`, `LatestNotOlder`, from `ListInv`.
  An archive in the map is what is read back from the key of its object
  (`ReadFromObjects`); each object there when the call began still has
  one of its key, no older, in the bucket (`StillThere`); and each one that the
  token has passed is in the map (`PassedListed`). That a page passes nothing by
  is the lemma `TokenDivides`: the objects of a page come before the rest
  (`PageFirst`), in an order of keys that is strict, transitive and total.
  `PlainReadBack` is the round trip through the key, for names without a `/`.
- `ListingsRunOut`: the keys that a listing may still list only get fewer, and
  each page but the last takes at least one away, whatever is put in between.
  With fairness and finitely many keys this is `ListingEnds`, which is only
  model-checked.

### Fleet

- `FleetTypeCorrect`: `TypeOK`.
- `DuplicateLaunchesOverlap`, `RetriesAreSafe`: `DuplicatesOverlap`, `RetrySafe`.
  The invariant
  says that a call about to run a task has seen every task of its client, and
  none in use under its name. A task starts with what its client had seen
  (`seen`), hence a duplicate's launches overlapped; and of two tasks of one
  client one has seen the other (`KnowsOwn`), so they are not both in use under
  one name. `KnownInv` is about the `Server` values: they are of tasks that were
  handed out, so `Terminate` stops nothing that was never started.
- `OneClientUniqueNames`: `UniqueNames`, if one client does all the launching; with
  two, `fleet_names` refutes it.
- `WaitedServersHavePorts`: `WaitedHasPorts`, from `WaitInv`: the task a wait
  ended for has run, and a task that has run can only stop (`RanStays`), so if it
  is still found when the server is fetched its ports are bound.

### ProxyNetwork

- `NetworkTypeCorrect`, `AnswersStay`: `TypeOK`, `AnswersHold`, from `NetworkInv`,
  for any number of administrators and servers. `CallOK` says what a call has in
  hand at each of its steps; while it runs nothing is settled about its
  label in its part of the network (`InDoubt`), and a call that is alone is the
  only one about the same thing (`AloneOK`), so what its last step does is so
  when it answers; and no name is ever forced with its trailing dot (`NoDots`), so
  removing the other form removes all.
- `GetRconWorksWhileCurrent`: what is so of `GetRconWorks`. If connections do not
  break by themselves, the one that `GetRcon` hands on works, unless the proxy was
  relaunched since its `Proxy` was fetched (`ConnectionInv`: only a relaunch
  leaves a broken connection behind). `proxy_rcon` refutes it without the hypothesis.

### What is only model-checked

The liveness properties `SavingResumes`, `CallsReturn` and `ListingEnds`: the
prover does not do fairness. (`CallsAdvance` and `ListingsRunOut` are
what can be proved of two of them.) The five violations are counterexamples of
TLC, on instances; `SaveOnUnlessReplyLost`, `ArchivesReadable` and
`OneClientUniqueNames` say when three of the properties hold, and
`GetRconWorksWhileCurrent` what is left of a fourth.

## Not modelled

The server's own `PublicDNS`, accessors, sorts by anything but time, formatting
and logging, errors' texts, task definitions and build files are left out: they
keep no state that an operation here depends on. `List` and `NumberOfUsers` ask
the game server and change nothing. In `Snapshot`, a taker is alone in its
process, and in `ServerFiles` an archive is not part of a snapshot: the rcon
commands and the directory changes meet only in that a fatal error is a crash of
`Snapshot`. Two snapshots on one host in one second write into one temporary
file; `Snapshot` has it, and the runs give each taker its own host, since nothing in
the code says what should hold then. Temporary archives are never removed, there
or in the code.

## Plan

Written, in this order: `Snapshot` with its abstract specification and proofs,
since losing a world is the worst this library can do; `Fleet`; `ProxyNetwork`;
`ArchiveListing`; `ServerFiles`; the retried dial in `Snapshot`.

Proved, in this order: `SnapshotProofs`, `FleetProofs`, `ProxyNetworkProofs`,
`ServerFilesProofs`, `ArchiveListingProofs`, `SnapshotZipProofs`,
`SnapshotRefinementProofs`.

Worth doing next:

1. An abstract specification of a configuration file (a map that edits
   change one at a time) and `ServerFiles` shown to implement it for callers that do not
   overlap.
2. A theorem for `proxy_detach`: what keeps the proxy's own record in place, and so
   lets detaching find its record, is not in this library but in who calls
   `AttachToNetwork`; it would need a model of such a caller.
