--------------------------- MODULE ArchiveListing ---------------------------
(***************************************************************************)
(* Finding a server's archives: GetArchives lists a user's objects in the  *)
(* archive bucket page by page, while snapshots go on being taken and put; *)
(* ArchiveMap sorts them by user and server; GetArchivesForServer and      *)
(* GetLatestSnapshot answer from the map.                                  *)
(*                                                                         *)
(* A key is <user>/<server>/<type element>/<time>-...: a directory and a   *)
(* time, in seconds.  A name is the sequence of its path elements, of one  *)
(* element unless there is a "/" in it, which nobody forbids; what is read *)
(* back from a key are elements.  S3 is external: a page is of one         *)
(* instant, pages follow the order of the keys, and a put replaces the     *)
(* object of its key.  Callers of the listing only read, so there is one.  *)
(***************************************************************************)
EXTENDS Naturals, Sequences, FiniteSets

CONSTANTS
    Elements,   \* the path elements of the names
    Users,      \* user names
    Servers,    \* server names
    BeginsWith, \* BeginsWith[e]: the elements that begin with e, e included
    Places,     \* the <<user, server, type>> that snapshots are taken of
    Rank,       \* the order of their directories, all different, among the keys
    Faults,     \* a subset of AllFaults
    PageSize,   \* the objects S3 returns at once
    MaxTime,    \* bounds the clock
    MaxObjects, \* bounds the objects in the bucket
    None

\* aws: a request to list objects fails.
AllFaults == {"aws"}

Types == {"ServerSnapshot", "WorldSnapshot", "MiscSnapshot"}
Times == 0 .. MaxTime

ASSUME NamesAssumption ==
    \A n \in Users \cup Servers : n \in Seq(Elements) /\ n # <<>>
ASSUME PlacesAssumption == Places \subseteq Users \X Servers \X Types
ASSUME PrefixAssumption ==
    /\ BeginsWith \in [Elements -> SUBSET Elements]
    /\ \A e \in Elements : e \in BeginsWith[e]
ASSUME RankAssumption ==
    /\ Rank \in [Places -> Nat]
    /\ \A p, q \in Places : Rank[p] = Rank[q] => p = q
ASSUME ListingFaultsAssumption == Faults \subseteq AllFaults
ASSUME ListingBoundAssumption ==
    PageSize \in Nat \ {0} /\ MaxTime \in Nat /\ MaxObjects \in Nat

VARIABLES
    now,       \* the clock, in seconds
    bucket,    \* the objects: place, time in the key, LastModified
    at,        \* where the call is: idle, list, answer
    user,      \* the user whose archives are asked for
    token,     \* the key the next page follows, None for the first
    archives,  \* the ArchiveMap built so far
    before     \* history: the bucket when the call began

call == <<at, user, token, archives, before>>
vars == <<now, bucket, at, user, token, archives, before>>

Keys == [place : Places, time : Times]
ASSUME ListingNoneAssumption == None \notin Users \cup Keys

Objects == [place : Places, time : Times, mod : Times]
ReadNames == {<<e>> : e \in Elements}
Archives == [user : ReadNames, server : ReadNames, type : Types \cup {"BadType"},
             object : Objects]

TypeOK ==
    /\ now \in Times
    /\ bucket \subseteq Objects
    /\ at \in {"idle", "list", "answer"}
    /\ user \in Users \cup {None}
    /\ token \in Keys \cup {None}
    /\ archives \subseteq Archives
    /\ before \subseteq Objects

Init ==
    /\ now = 0 /\ bucket = {}
    /\ at = "idle" /\ user = None /\ token = None
    /\ archives = {} /\ before = {}

-----------------------------------------------------------------------------
(***************************************************************************)
(* Snapshots (the module Snapshot has them in full) share nothing with the *)
(* listing but the bucket.  A snapshot makes its key when it begins and    *)
(* puts its object when it ends, which may be much later.                  *)
(***************************************************************************)
Tick ==
    /\ now < MaxTime
    /\ now' = now + 1
    /\ UNCHANGED <<bucket, call>>

Key(o) == [place |-> o.place, time |-> o.time]

\* The put of a snapshot of p that began at second t.
PutObject(p, t) ==
    LET o == [place |-> p, time |-> t, mod |-> now]
        others == {q \in bucket : Key(q) # Key(o)}
    IN  /\ t <= now
        /\ Cardinality(others) < MaxObjects
        /\ bucket' = others \cup {o}
        /\ UNCHANGED <<now, call>>

-----------------------------------------------------------------------------
(***************************************************************************)
(* Keys and archives.                                                      *)
(***************************************************************************)
typeToPathElement ==
    [ServerSnapshot |-> "server", WorldSnapshot |-> "worlds", MiscSnapshot |-> "misc"]

\* The directory of a place: its names and its type, joined by "/".
archivePath(p) == p[1] \o p[2] \o <<typeToPathElement[p[3]]>>

typeFromS3Key(key) ==
    CASE key[3] = "server" -> "ServerSnapshot"
      [] key[3] = "worlds" -> "WorldSnapshot"
      [] key[3] = "misc" -> "MiscSnapshot"
      [] OTHER -> "BadType"

\* Variant: the server is read one element too far.
archiveFromS3ObjectShifted(o) ==
    LET key == archivePath(o.place)
    IN  [user |-> <<key[1]>>, server |-> <<key[3]>>, type |-> typeFromS3Key(key),
         object |-> o]

\* The key is split at each "/": its first three elements are the user, the
\* server and the type, whatever names they were made from.
archiveFromS3Object(o) ==
    LET key == archivePath(o.place)
    IN  [user |-> <<key[1]>>, server |-> <<key[2]>>, type |-> typeFromS3Key(key),
         object |-> o]

\* The order in which S3 lists keys: the times of one directory ascend.
KeyBefore(k, l) ==
    Rank[k.place] < Rank[l.place] \/ (k.place = l.place /\ k.time < l.time)

-----------------------------------------------------------------------------
(***************************************************************************)
(* GetArchives.  The prefix is the user's name alone, so the objects of    *)
(* every user whose name begins with it are listed.                        *)
(***************************************************************************)
HasPrefix(key, u) ==
    /\ Len(u) <= Len(key)
    /\ \A i \in 1 .. Len(u) - 1 : key[i] = u[i]
    /\ key[Len(u)] \in BeginsWith[u[Len(u)]]

GetArchives(u) ==
    /\ at = "idle"
    /\ at' = "list" /\ user' = u /\ token' = None
    /\ archives' = {} /\ before' = bucket
    /\ UNCHANGED <<now, bucket>>

Ahead == {o \in bucket : /\ HasPrefix(archivePath(o.place), user)
                         /\ token = None \/ KeyBefore(token, Key(o))}
Page == {o \in Ahead : Cardinality({p \in Ahead : KeyBefore(p, o)}) < PageSize}
Last(os) == CHOOSE o \in os : \A p \in os : ~KeyBefore(o, p)

\* Variant: the first page is asked for again and again.
NextTokenUnset == token

\* ContinuationToken, for the page after this one.
NextToken == Key(Last(Page))

\* Variant: the loop is left with the map made so far, and no error.
ListFailedDropped == at' = "answer" /\ UNCHANGED <<user, token, archives, before>>

\* The call ends in an error, whatever pages it has.
ListFailed == at' = "idle" /\ user' = None /\ token' = None
              /\ archives' = {} /\ before' = {}

\* The map's own keys are the user and the server of an archive.
addFromListResponse(os) == archives \cup {archiveFromS3Object(o) : o \in os}

\* The loop goes on while the response is truncated.
ListPage ==
    /\ at = "list"
    /\ archives' = addFromListResponse(Page)
    /\ IF Page = Ahead
       THEN at' = "answer" /\ UNCHANGED token
       ELSE at' = at /\ token' = NextToken
    /\ UNCHANGED <<now, bucket, user, before>>

ListError ==
    /\ "aws" \in Faults
    /\ at = "list"
    /\ ListFailed
    /\ UNCHANGED <<now, bucket>>

\* The filters of the map: by type over all servers; by server, where the
\* type asked for is not looked at.
OfType(t) == {a \in archives : a.user = user /\ a.type = t}

GetArchivesForServer(s, t) == {a \in archives : a.user = user /\ a.server = s}

\* Variant: the archives are sorted by the times in their keys.
LatestByKey(as) == {a \in as : \A b \in as : b.object.time <= a.object.time}

\* sort.Sort(ByLastMod): of those of one second any may come last.
Latest(as) == {a \in as : \A b \in as : b.object.mod <= a.object.mod}

\* GetLatestSnapshot: an error if there are none.
GetLatestSnapshot(s, t) == Latest(GetArchivesForServer(s, t))

\* The caller has its answer.
Return ==
    /\ at = "answer"
    /\ at' = "idle" /\ user' = None /\ token' = None
    /\ archives' = {} /\ before' = {}
    /\ UNCHANGED <<now, bucket>>

-----------------------------------------------------------------------------
Next ==
    \/ Tick
    \/ \E p \in Places, t \in Times : PutObject(p, t)
    \/ (\E u \in Users : GetArchives(u)) \/ ListPage \/ ListError \/ Return

Spec == Init /\ [][Next]_vars

\* The caller's goroutine runs, and S3 answers it with a page or an error.
FairSpec == Spec /\ WF_vars(ListPage)

-----------------------------------------------------------------------------
(***************************************************************************)
(* Properties.                                                             *)
(***************************************************************************)
PutBefore(p) == {o \in before : o.place = p}

\* Names without a "/", which are read back as they were written.
Plain(p) == Len(p[1]) = 1 /\ Len(p[2]) = 1

\* An answer holds every archive of the user that was in the bucket when the
\* call began, under its own server and type, though pages are read at
\* different times and objects put and replaced in between.  (One whose user
\* or server has a "/" in its name is filed under other names.)
ListingComplete ==
    at = "answer" =>
        \A s \in Servers, t \in Types : \A o \in PutBefore(<<user, s, t>>) :
            Plain(o.place) =>
                \E a \in GetArchivesForServer(s, t) \cap OfType(t) :
                    Key(a.object) = Key(o) /\ a.object.mod >= o.mod

\* If a snapshot of the type asked for was put before the call, the call finds
\* one that is not older than it: one put earlier never wins, however late it
\* was put after it was begun and wherever the pages divided.  Nor does a later
\* one of another user or server, although the listing meets those too (but
\* for the misfiled ones of names with a "/").  Its type is not looked at.
LatestNotOlder ==
    at = "answer" =>
        \A s \in Servers, t \in Types : \A o \in PutBefore(<<user, s, t>>) :
            Plain(o.place) =>
                /\ GetLatestSnapshot(s, t) # {}
                /\ \A a \in GetLatestSnapshot(s, t) :
                    /\ a.object.mod >= o.mod
                    /\ Plain(a.object.place) =>
                         a.object.place[1] = user /\ a.object.place[2] = s

\* A listing ends, although snapshots put meanwhile add to its pages.
ListingEnds == at = "list" ~> at # "list"
=============================================================================
