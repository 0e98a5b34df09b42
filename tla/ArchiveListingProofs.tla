------------------------ MODULE ArchiveListingProofs ------------------------
(***************************************************************************)
(* Theorems about ArchiveListing, for any users, servers and keys, any     *)
(* size of a page and any number of objects: what a listing that reads its *)
(* pages at different times still promises.                                *)
(***************************************************************************)
EXTENDS ArchiveListing, FiniteSetTheorems, TLAPS

(***************************************************************************)
(* The inductive invariant.  Objects are only replaced, by later ones, so  *)
(* those of the beginning are still there or replaced; the pages read so   *)
(* far cover every key up to the token; and an archive is what is read     *)
(* from its object.                                                        *)
(***************************************************************************)
BucketOK == IsFiniteSet(bucket) /\ \A o \in bucket : o.mod <= now

ReadFromObjects == \A a \in archives : a = archiveFromS3Object(a.object)

StillThere ==
    at # "idle" =>
        /\ user \in Users
        /\ \A o \in before : \E q \in bucket : Key(q) = Key(o) /\ q.mod >= o.mod

Passed(o) == at = "answer" \/ (token # None /\ ~KeyBefore(token, Key(o)))

Listed(o) == \E a \in archives : Key(a.object) = Key(o) /\ a.object.mod >= o.mod

PassedListed ==
    at # "idle" => \A o \in before : o.place[1] = user /\ Passed(o) => Listed(o)

ListInv ==
    /\ TypeOK
    /\ BucketOK
    /\ ReadFromObjects
    /\ StillThere
    /\ PassedListed

(***************************************************************************)
(* The order of the keys: a strict total order.                            *)
(***************************************************************************)
Keyed(k) == k.place \in Places /\ k.time \in Nat

LEMMA ObjectsKeyed ==
  ASSUME NEW o \in Objects
  PROVE  Keyed(o) /\ Keyed(Key(o)) /\ Key(o) \in Keys /\ o.mod \in Nat
BY ListingBoundAssumption DEF Objects, Keyed, Key, Keys, Times

LEMMA KeyOrderStrict ==
  ASSUME NEW k, Keyed(k)
  PROVE  ~KeyBefore(k, k)
BY RankAssumption DEF Keyed, KeyBefore

LEMMA KeyOrderTransitive ==
  ASSUME NEW k, NEW l, NEW m, Keyed(k), Keyed(l), Keyed(m), KeyBefore(k, l), KeyBefore(l, m)
  PROVE  KeyBefore(k, m)
BY RankAssumption DEF Keyed, KeyBefore

LEMMA KeyOrderTotal ==
  ASSUME NEW k, NEW l, Keyed(k), Keyed(l), ~KeyBefore(k, l), ~KeyBefore(l, k)
  PROVE  k.place = l.place /\ k.time = l.time
BY RankAssumption DEF Keyed, KeyBefore

\* Of some subsets of a finite set one is minimal.
LEMMA MinimalSubset ==
  ASSUME NEW S, IsFiniteSet(S), NEW T \in SUBSET (SUBSET S), T # {}
  PROVE  \E x \in T : \A y \in T : ~(y \subseteq x /\ y # x)
<1>1. T \subseteq FiniteSubsetsOf(S)
  BY FS_FiniteSubsetsOfFinite
<1>2. IsWellFoundedOn(StrictSubsetOrdering(S), FiniteSubsetsOf(S))
  BY FS_StrictSubsetOrderingWellFounded
<1>3. \E x \in T : \A y \in T : ~(<<y, x>> \in StrictSubsetOrdering(S))
  BY <1>1, <1>2, WFMin, Zenon
<1> QED
  BY <1>3 DEF StrictSubsetOrdering

\* A finite set of objects has a first one and a last one.
LEMMA FirstExists ==
  ASSUME NEW os \in SUBSET Objects, IsFiniteSet(os), os # {}
  PROVE  \E o \in os : \A p \in os : ~KeyBefore(p, o)
<1> DEFINE Below(o) == {p \in os : KeyBefore(p, o)}
           T == {Below(o) : o \in os}
<1>1. T \in SUBSET (SUBSET os) /\ T # {}
  OBVIOUS
<1>2. PICK x \in T : \A y \in T : ~(y \subseteq x /\ y # x)
  <2> HIDE DEF T
  <2> QED
    BY <1>1, MinimalSubset
<1>3. PICK o \in os : x = Below(o)
  OBVIOUS
<1>4. ASSUME NEW p \in os, KeyBefore(p, o)
      PROVE  FALSE
  <2>1. Below(p) \subseteq Below(o)
    BY <1>4, ObjectsKeyed, KeyOrderTransitive
  <2>2. p \in Below(o) /\ p \notin Below(p)
    BY <1>4, ObjectsKeyed, KeyOrderStrict
  <2>3. Below(p) # Below(o)
    BY <2>2
  <2> QED
    BY <2>1, <2>3, <1>2, <1>3
<1> QED
  BY <1>4

LEMMA LastExists ==
  ASSUME NEW os \in SUBSET Objects, IsFiniteSet(os), os # {}
  PROVE  \E o \in os : \A p \in os : ~KeyBefore(o, p)
<1> DEFINE Above(o) == {p \in os : KeyBefore(o, p)}
           T == {Above(o) : o \in os}
<1>1. T \in SUBSET (SUBSET os) /\ T # {}
  OBVIOUS
<1>2. PICK x \in T : \A y \in T : ~(y \subseteq x /\ y # x)
  <2> HIDE DEF T
  <2> QED
    BY <1>1, MinimalSubset
<1>3. PICK o \in os : x = Above(o)
  OBVIOUS
<1>4. ASSUME NEW p \in os, KeyBefore(o, p)
      PROVE  FALSE
  <2>1. Above(p) \subseteq Above(o)
    BY <1>4, ObjectsKeyed, KeyOrderTransitive
  <2>2. p \in Above(o) /\ p \notin Above(p)
    BY <1>4, ObjectsKeyed, KeyOrderStrict
  <2>3. Above(p) # Above(o)
    BY <2>2
  <2> QED
    BY <2>1, <2>3, <1>2, <1>3
<1> QED
  BY <1>4

(***************************************************************************)
(* A page: some of the objects ahead, none after one that is left.         *)
(***************************************************************************)
LEMMA AheadFinite ==
  ASSUME TypeOK, BucketOK
  PROVE  Ahead \in SUBSET Objects /\ IsFiniteSet(Ahead)
<1>1. Ahead \in SUBSET bucket
  BY DEF Ahead
<1> QED
  BY <1>1, FS_Subset DEF TypeOK, BucketOK

LEMMA BelowFinite ==
  ASSUME TypeOK, BucketOK, NEW o
  PROVE  /\ IsFiniteSet({p \in Ahead : KeyBefore(p, o)})
         /\ Cardinality({p \in Ahead : KeyBefore(p, o)}) \in Nat
BY AheadFinite, FS_Subset, FS_CardinalityType

LEMMA PageNonempty ==
  ASSUME TypeOK, BucketOK, Ahead # {}
  PROVE  Page # {}
<1>1. PICK o \in Ahead : \A p \in Ahead : ~KeyBefore(p, o)
  BY AheadFinite, FirstExists
<1>2. {p \in Ahead : KeyBefore(p, o)} = {}
  BY <1>1
<1>3. Cardinality({p \in Ahead : KeyBefore(p, o)}) < PageSize
  BY <1>2, FS_EmptySet, ListingBoundAssumption
<1> QED
  BY <1>3 DEF Page

LEMMA PageFirst ==
  ASSUME TypeOK, BucketOK, NEW p \in Page, NEW o \in Ahead, o \notin Page
  PROVE  KeyBefore(p, o)
<1> DEFINE Below(q) == {r \in Ahead : KeyBefore(r, q)}
<1>1. p \in Ahead /\ Cardinality(Below(p)) < PageSize
  BY DEF Page
<1>2. ~(Cardinality(Below(o)) < PageSize)
  BY DEF Page
<1>3. Keyed(o) /\ Keyed(p) /\ \A r \in Ahead : Keyed(r)
  BY <1>1, AheadFinite, ObjectsKeyed
<1>4. SUFFICES ASSUME ~KeyBefore(p, o)
               PROVE  FALSE
  OBVIOUS
<1>5. Below(o) \subseteq Below(p)
  <2>1. CASE KeyBefore(o, p)
    BY <2>1, <1>3, KeyOrderTransitive
  <2>2. CASE ~KeyBefore(o, p)
    BY <2>2, <1>3, <1>4, KeyOrderTotal DEF KeyBefore
  <2> QED
    BY <2>1, <2>2
<1>6. Cardinality(Below(o)) <= Cardinality(Below(p))
  BY <1>5, BelowFinite, FS_Subset
<1> QED
  BY <1>1, <1>2, <1>6, BelowFinite, ListingBoundAssumption

\* The token of the next page divides what this one holds from what is left.
LEMMA TokenDivides ==
  ASSUME TypeOK, BucketOK, Page # {}
  PROVE  /\ NextToken \in Keys
         /\ \A o \in Ahead : ~KeyBefore(NextToken, Key(o)) => o \in Page
<1>1. Page \in SUBSET Ahead
  BY DEF Page
<1>2. Page \in SUBSET Objects /\ IsFiniteSet(Page)
  BY <1>1, AheadFinite, FS_Subset
<1>3. Last(Page) \in Page
  BY <1>2, LastExists DEF Last
<1>4. NextToken \in Keys
  BY <1>2, <1>3, ObjectsKeyed DEF NextToken
<1>5. ASSUME NEW o \in Ahead, ~KeyBefore(NextToken, Key(o)), o \notin Page
      PROVE  FALSE
  BY <1>3, <1>5, PageFirst DEF NextToken, KeyBefore, Key
<1> QED
  BY <1>4, <1>5

(***************************************************************************)
(* What is read back from a key: its first elements, which are those of    *)
(* the names; and of names of one element each, what was written in it.    *)
(***************************************************************************)
LEMMA PlaceNames ==
  ASSUME NEW p \in Places
  PROVE  /\ p \in Users \X Servers \X Types
         /\ p[1] \in Users /\ p[2] \in Servers /\ p[3] \in Types
         /\ p[1] \in Seq(Elements) /\ Len(p[1]) \in Nat /\ Len(p[1]) >= 1
         /\ p[2] \in Seq(Elements) /\ Len(p[2]) \in Nat /\ Len(p[2]) >= 1
<1>1. p \in Users \X Servers \X Types
  BY PlacesAssumption
<1>2. p[1] \in Users /\ p[2] \in Servers /\ p[3] \in Types
  BY <1>1
<1>3. ASSUME NEW n \in Users \cup Servers
      PROVE  n \in Seq(Elements) /\ Len(n) \in Nat /\ Len(n) >= 1
  BY NamesAssumption
<1> QED
  BY <1>1, <1>2, <1>3

LEMMA FirstOfName ==
  ASSUME NEW n \in Seq(Elements)
  PROVE  /\ Len(n) >= 1 => n[1] \in Elements
         /\ Len(n) >= 2 => n[2] \in Elements
         /\ Len(n) >= 1 => n[Len(n)] \in Elements
         /\ Len(n) = 1 => n = <<n[1]>>
OBVIOUS

\* The elements of a directory.
LEMMA PathElements ==
  ASSUME NEW p \in Places
  PROVE  /\ Len(archivePath(p)) = Len(p[1]) + Len(p[2]) + 1
         /\ \A i \in 1 .. Len(p[1]) : archivePath(p)[i] = p[1][i]
         /\ \A i \in 1 .. Len(p[2]) : archivePath(p)[Len(p[1]) + i] = p[2][i]
         /\ archivePath(p)[Len(p[1]) + Len(p[2]) + 1] = typeToPathElement[p[3]]
<1> DEFINE u == p[1]
           s == p[2]
           e == typeToPathElement[p[3]]
           All == Elements \cup {e}
<1>1. /\ u \in Seq(All) /\ s \in Seq(All) /\ <<e>> \in Seq(All)
      /\ Len(u) \in Nat /\ Len(s) \in Nat
  BY PlaceNames
<1>2. archivePath(p) = u \o s \o <<e>>
  BY DEF archivePath
<1> HIDE DEF u, s, e, All
<1>3. /\ Len(u \o s \o <<e>>) = Len(u) + Len(s) + 1
      /\ \A i \in 1 .. Len(u) : (u \o s \o <<e>>)[i] = u[i]
      /\ \A i \in 1 .. Len(s) : (u \o s \o <<e>>)[Len(u) + i] = s[i]
      /\ (u \o s \o <<e>>)[Len(u) + Len(s) + 1] = e
  BY <1>1
<1> QED
  BY <1>2, <1>3 DEF u, s, e

\* The elements that are read back.
LEMMA FirstElements ==
  ASSUME NEW p \in Places
  PROVE  /\ archivePath(p)[1] = p[1][1]
         /\ Len(p[1]) >= 2 => archivePath(p)[2] = p[1][2]
         /\ Len(p[1]) = 1 => archivePath(p)[2] = p[2][1]
         /\ Plain(p) => archivePath(p)[3] = typeToPathElement[p[3]]
<1> DEFINE u == p[1]
           s == p[2]
           e == typeToPathElement[p[3]]
           k == archivePath(p)
<1>1. /\ Len(u) \in Nat /\ Len(u) >= 1 /\ Len(s) \in Nat /\ Len(s) >= 1
      /\ \A i \in 1 .. Len(u) : k[i] = u[i]
      /\ \A i \in 1 .. Len(s) : k[Len(u) + i] = s[i]
      /\ k[Len(u) + Len(s) + 1] = e
  BY PlaceNames, PathElements
<1> HIDE DEF u, s, e, k
<1>2. k[1] = u[1] /\ (Len(u) >= 2 => k[2] = u[2])
  BY <1>1
<1>3. ASSUME Len(u) = 1 PROVE k[2] = s[1]
  <2>1. 1 \in 1 .. Len(s) /\ Len(u) + 1 = 2
    BY <1>1, <1>3
  <2>2. k[Len(u) + 1] = s[1]
    BY <1>1, <2>1
  <2> QED
    BY <2>1, <2>2
<1>4. ASSUME Len(u) = 1, Len(s) = 1 PROVE k[3] = e
  <2>1. Len(u) + Len(s) + 1 = 3
    BY <1>4
  <2> QED
    BY <1>1, <2>1
<1> QED
  BY <1>2, <1>3, <1>4 DEF u, s, e, k, Plain

LEMMA ArchiveRead ==
  ASSUME NEW o \in Objects
  PROVE  archiveFromS3Object(o) \in Archives /\ archiveFromS3Object(o).object = o
<1> DEFINE p == o.place
           key == archivePath(p)
<1>1. p \in Places
  BY DEF Objects
<1> HIDE DEF p
<1>2. key[1] \in Elements
  <2>1. key[1] = p[1][1]
    BY <1>1, FirstElements
  <2> QED
    BY <1>1, <2>1, PlaceNames, FirstOfName
<1>3. key[2] \in Elements
  <2>1. CASE Len(p[1]) >= 2
    <3>1. key[2] = p[1][2]
      BY <1>1, <2>1, FirstElements
    <3> QED
      BY <1>1, <2>1, <3>1, PlaceNames, FirstOfName
  <2>2. CASE Len(p[1]) = 1
    <3>1. key[2] = p[2][1]
      BY <1>1, <2>2, FirstElements
    <3> QED
      BY <1>1, <3>1, PlaceNames, FirstOfName
  <2>3. Len(p[1]) >= 2 \/ Len(p[1]) = 1
    <3> DEFINE n == Len(p[1])
    <3>1. n \in Nat /\ n >= 1
      BY <1>1, PlaceNames
    <3> HIDE DEF n
    <3>2. n >= 2 \/ n = 1
      BY <3>1
    <3> QED
      BY <3>2 DEF n
  <2> QED
    BY <2>1, <2>2, <2>3
<1>4. typeFromS3Key(key) \in Types \cup {"BadType"}
  BY DEF typeFromS3Key, Types
<1> HIDE DEF key
<1>5. archiveFromS3Object(o) = [user |-> <<key[1]>>, server |-> <<key[2]>>,
                                type |-> typeFromS3Key(key), object |-> o]
  BY DEF archiveFromS3Object, key, p
<1> QED
  BY <1>2, <1>3, <1>4, <1>5 DEF Archives, ReadNames

LEMMA TypeReadBack ==
  ASSUME NEW t \in Types, NEW key, key[3] = typeToPathElement[t]
  PROVE  typeFromS3Key(key) = t
BY DEF Types, typeFromS3Key, typeToPathElement

LEMMA PlainReadBack ==
  ASSUME NEW o \in Objects, Plain(o.place)
  PROVE  /\ archiveFromS3Object(o).user = o.place[1]
         /\ archiveFromS3Object(o).server = o.place[2]
         /\ archiveFromS3Object(o).type = o.place[3]
<1> DEFINE p == o.place
           key == archivePath(p)
<1>1. p \in Places /\ Len(p[1]) = 1 /\ Len(p[2]) = 1
  BY DEF Objects, Plain
<1>2. archiveFromS3Object(o) = [user |-> <<key[1]>>, server |-> <<key[2]>>,
                                type |-> typeFromS3Key(key), object |-> o]
  BY DEF archiveFromS3Object
<1> HIDE DEF p
<1>3. key[1] = p[1][1] /\ key[2] = p[2][1] /\ key[3] = typeToPathElement[p[3]]
  BY <1>1, FirstElements DEF Plain
<1>4. p[1] = <<p[1][1]>> /\ p[2] = <<p[2][1]>>
  BY <1>1, PlaceNames, FirstOfName
<1>5. typeFromS3Key(key) = p[3]
  BY <1>1, <1>3, PlaceNames, TypeReadBack
<1> HIDE DEF key
<1> QED
  BY <1>2, <1>3, <1>4, <1>5 DEF p

\* The keys of a user's own objects begin with the user's name.
LEMMA OwnPrefix ==
  ASSUME NEW p \in Places
  PROVE  HasPrefix(archivePath(p), p[1])
<1> DEFINE u == p[1]
           n == Len(p[2])
           k == archivePath(p)
<1>1. /\ Len(u) \in Nat /\ Len(u) >= 1 /\ n \in Nat
      /\ Len(k) = Len(u) + n + 1
      /\ \A i \in 1 .. Len(u) : k[i] = u[i]
  BY PlaceNames, PathElements
<1>2. u[Len(u)] \in Elements
  BY PlaceNames, FirstOfName
<1> HIDE DEF u, n, k
<1>3. /\ Len(u) <= Len(k)
      /\ \A i \in 1 .. Len(u) - 1 : k[i] = u[i]
      /\ k[Len(u)] = u[Len(u)]
  BY <1>1
<1> QED
  BY <1>2, <1>3, PrefixAssumption DEF HasPrefix, u, k

(***************************************************************************)
(* The steps.                                                              *)
(***************************************************************************)
LEMMA ListInit == Init => ListInv
<1> SUFFICES ASSUME Init
             PROVE  ListInv
  OBVIOUS
<1>1. IsFiniteSet(bucket)
  BY FS_EmptySet DEF Init
<1> QED
  BY <1>1, ListingBoundAssumption
     DEF Init, ListInv, TypeOK, BucketOK, ReadFromObjects, StillThere, PassedListed, Times

\* No step of the world touches the call.
LEMMA TickOK ==
  ASSUME ListInv, Tick
  PROVE  ListInv'
<1>1. TypeOK' /\ BucketOK'
  BY ListingBoundAssumption DEF Tick, call, ListInv, TypeOK, BucketOK, Times, Objects
<1>2. ReadFromObjects' /\ StillThere' /\ PassedListed'
  BY DEF Tick, call, ListInv, ReadFromObjects, archiveFromS3Object, StillThere, PassedListed,
         Passed, Listed
<1> QED
  BY <1>1, <1>2 DEF ListInv

LEMMA PutObjectOK ==
  ASSUME ListInv, NEW p \in Places, NEW t \in Times, PutObject(p, t)
  PROVE  ListInv'
<1> DEFINE o == [place |-> p, time |-> t, mod |-> now]
           others == {q \in bucket : Key(q) # Key(o)}
<1>1. bucket' = others \cup {o} /\ UNCHANGED <<now, call>>
  BY DEF PutObject
<1>2. o \in Objects /\ o.mod = now /\ now \in Nat
  BY ListingBoundAssumption DEF ListInv, TypeOK, Objects, Times
<1>3. IsFiniteSet(others)
  BY FS_Subset DEF ListInv, BucketOK
<1>4. IsFiniteSet(bucket')
  BY <1>1, <1>3, FS_AddElement
<1>5. TypeOK' /\ BucketOK'
  BY <1>1, <1>2, <1>4 DEF ListInv, TypeOK, BucketOK, call
<1>6. ASSUME NEW b \in before, at # "idle"
      PROVE  \E q \in bucket' : Key(q) = Key(b) /\ q.mod >= b.mod
  <2>1. PICK q \in bucket : Key(q) = Key(b) /\ q.mod >= b.mod
    BY <1>6 DEF ListInv, StillThere
  <2>2. CASE q \in others
    BY <1>1, <2>1, <2>2
  <2>3. CASE Key(q) = Key(o)
    <3>1. q.mod <= now /\ q.mod \in Nat /\ b.mod \in Nat
      BY ObjectsKeyed DEF ListInv, TypeOK, BucketOK
    <3>2. o \in bucket' /\ Key(o) = Key(b) /\ o.mod >= b.mod
      BY <1>1, <1>2, <2>1, <2>3, <3>1
    <3> QED
      BY <3>2
  <2> QED
    BY <2>2, <2>3
<1>7. StillThere'
  BY <1>1, <1>6 DEF ListInv, StillThere, call, Key
<1>8. ReadFromObjects' /\ PassedListed'
  BY <1>1 DEF call, ListInv, ReadFromObjects, archiveFromS3Object, PassedListed, Passed, Listed
<1> QED
  BY <1>5, <1>7, <1>8 DEF ListInv

\* A call begins with the first page, and nothing passed.
LEMMA GetArchivesOK ==
  ASSUME ListInv, NEW u \in Users, GetArchives(u)
  PROVE  ListInv'
<1>1. TypeOK' /\ BucketOK' /\ ReadFromObjects'
  BY DEF GetArchives, ListInv, TypeOK, BucketOK, ReadFromObjects
<1>2. \A o \in bucket : o.mod >= o.mod
  BY ObjectsKeyed DEF ListInv, TypeOK
<1>3. StillThere'
  BY <1>2 DEF GetArchives, StillThere, Key
<1>4. PassedListed'
  BY DEF GetArchives, PassedListed, Passed
<1> QED
  BY <1>1, <1>3, <1>4 DEF ListInv

\* An object that is passed after a page was passed before it, or is on it.
LEMMA PassedByPage ==
  ASSUME ListInv, ListPage, NEW o \in before, o.place[1] = user, Passed(o)'
  PROVE  Passed(o) \/ \E q \in Page : Key(q) = Key(o) /\ q.mod >= o.mod
<1> SUFFICES ASSUME ~Passed(o)
             PROVE  \E q \in Page : Key(q) = Key(o) /\ q.mod >= o.mod
  OBVIOUS
<1>1. PICK q \in bucket : Key(q) = Key(o) /\ q.mod >= o.mod
  BY DEF ListPage, ListInv, StillThere
<1>2. o.place \in Places
  BY DEF ListInv, TypeOK, Objects
<1>3. q \in Ahead
  <2>1. q.place = o.place /\ HasPrefix(archivePath(q.place), user)
    BY <1>1, <1>2, OwnPrefix DEF Key
  <2>2. token = None \/ KeyBefore(token, Key(q))
    BY <1>1 DEF Passed
  <2> QED
    BY <1>2, <2>1, <2>2 DEF Ahead
<1>4. q \in Page
  <2>1. CASE Page = Ahead
    BY <2>1, <1>3
  <2>2. CASE Page # Ahead
    <3>1. at' = "list" /\ token' = NextToken
      BY <2>2 DEF ListPage
    <3>2. Page # {}
      BY <1>3, PageNonempty DEF ListInv
    <3>3. ~KeyBefore(NextToken, Key(q))
      BY <1>1, <3>1 DEF Passed, KeyBefore, Key
    <3> QED
      BY <1>3, <3>2, <3>3, TokenDivides DEF ListInv
  <2> QED
    BY <2>1, <2>2
<1> QED
  BY <1>1, <1>4

LEMMA ListPageOK ==
  ASSUME ListInv, ListPage
  PROVE  ListInv'
<1>1. archives' = archives \cup {archiveFromS3Object(o) : o \in Page}
  BY DEF ListPage, addFromListResponse
<1>2. Page \subseteq Ahead /\ Ahead \subseteq Objects
  BY AheadFinite DEF Page, ListInv
<1>3. archives' \subseteq Archives
  BY <1>1, <1>2, ArchiveRead DEF ListInv, TypeOK
<1>4. token' \in Keys \cup {None}
  <2>1. CASE Page = Ahead
    BY <2>1 DEF ListPage, ListInv, TypeOK
  <2>2. CASE Page # Ahead
    <3>1. Page # {}
      BY <1>2, <2>2, PageNonempty DEF ListInv
    <3> QED
      BY <2>2, <3>1, TokenDivides DEF ListPage, ListInv
  <2> QED
    BY <2>1, <2>2
<1>5. TypeOK' /\ BucketOK'
  BY <1>3, <1>4 DEF ListPage, ListInv, TypeOK, BucketOK
<1>6. ReadFromObjects'
  BY <1>1, <1>2, ArchiveRead DEF ListInv, ReadFromObjects, archiveFromS3Object
<1>7. StillThere'
  BY DEF ListPage, ListInv, StillThere, Key
<1>8. ASSUME NEW o \in before, o.place[1] = user, Passed(o)'
      PROVE  Listed(o)'
  <2>1. CASE Passed(o)
    BY <1>1, <1>8, <2>1 DEF ListPage, ListInv, PassedListed, Listed, Key
  <2>2. CASE ~Passed(o)
    <3>1. PICK q \in Page : Key(q) = Key(o) /\ q.mod >= o.mod
      BY <1>8, <2>2, PassedByPage
    <3>2. archiveFromS3Object(q) \in archives' /\ archiveFromS3Object(q).object = q
      BY <1>1, <1>2, ArchiveRead
    <3> QED
      BY <3>1, <3>2 DEF Listed, Key
  <2> QED
    BY <2>1, <2>2
<1>9. PassedListed'
  BY <1>8 DEF PassedListed, ListPage
<1> QED
  BY <1>5, <1>6, <1>7, <1>9 DEF ListInv

\* A call that ends leaves nothing.
LEMMA CallEndOK ==
  ASSUME ListInv, ListFailed, UNCHANGED <<now, bucket>>
  PROVE  ListInv'
BY DEF ListFailed, ListInv, TypeOK, BucketOK, ReadFromObjects, StillThere, PassedListed

LEMMA ListNext == ListInv /\ [Next]_vars => ListInv'
<1> SUFFICES ASSUME ListInv, [Next]_vars
             PROVE  ListInv'
  OBVIOUS
<1>1. CASE Tick
  BY <1>1, TickOK
<1>2. ASSUME NEW p \in Places, NEW t \in Times, PutObject(p, t)
      PROVE  ListInv'
  BY <1>2, PutObjectOK
<1>3. ASSUME NEW u \in Users, GetArchives(u)
      PROVE  ListInv'
  BY <1>3, GetArchivesOK
<1>4. CASE ListPage
  BY <1>4, ListPageOK
<1>5. CASE ListError
  BY <1>5, CallEndOK DEF ListError
<1>6. CASE Return
  BY <1>6, CallEndOK DEF Return, ListFailed
<1>7. CASE UNCHANGED vars
  BY <1>7 DEF vars, ListInv, TypeOK, BucketOK, ReadFromObjects, archiveFromS3Object, StillThere,
              PassedListed, Passed, Listed
<1> QED
  BY <1>1, <1>2, <1>3, <1>4, <1>5, <1>6, <1>7 DEF Next

LEMMA ListInvariant == Spec => []ListInv
BY ListInit, ListNext, PTL DEF Spec

(***************************************************************************)
(* Every variable keeps its type: the names read back are elements of      *)
(* names, and a page that is asked for follows a key.                      *)
(***************************************************************************)
THEOREM ListingTypeCorrect == Spec => []TypeOK
<1>1. ListInv => TypeOK
  BY DEF ListInv
<1> QED
  BY <1>1, ListInvariant, PTL

\* What an archive of the map says of its object.
LEMMA ArchiveOf ==
  ASSUME ListInv, NEW a \in archives
  PROVE  /\ a.object \in Objects /\ a.object.mod \in Times
         /\ Plain(a.object.place) => a.object.place = <<a.user, a.server, a.type>>
<1>1. a.object \in Objects /\ a.object.mod \in Times
  BY DEF ListInv, TypeOK, Archives, Objects
<1>2. a.object.place \in Users \X Servers \X Types
  BY <1>1, PlacesAssumption DEF Objects
<1>3. Plain(a.object.place) =>
        /\ a.user = a.object.place[1] /\ a.server = a.object.place[2]
        /\ a.type = a.object.place[3]
  BY <1>1, PlainReadBack DEF ListInv, ReadFromObjects
<1> QED
  BY <1>1, <1>2, <1>3

(***************************************************************************)
(* An answer of GetArchives holds every archive of the user that was in    *)
(* the bucket when the call began, however the pages divide and whatever   *)
(* snapshots put and replace between them.                                 *)
(***************************************************************************)
LEMMA ListedWhole ==
  ASSUME ListInv, at = "answer", NEW s \in Servers, NEW t \in Types,
         NEW o \in PutBefore(<<user, s, t>>), Plain(o.place)
  PROVE  \E a \in GetArchivesForServer(s, t) \cap OfType(t) :
            Key(a.object) = Key(o) /\ a.object.mod >= o.mod
<1>1. o \in before /\ o.place = <<user, s, t>>
  BY DEF PutBefore
<1>2. PICK a \in archives : Key(a.object) = Key(o) /\ a.object.mod >= o.mod
  BY <1>1 DEF ListInv, PassedListed, Passed, Listed
<1>3. a.object.place = o.place
  BY <1>2 DEF Key
<1>4. a.user = user /\ a.server = s /\ a.type = t
  BY <1>1, <1>3, ArchiveOf
<1> QED
  BY <1>2, <1>4 DEF GetArchivesForServer, OfType

THEOREM ListingsComplete == Spec => []ListingComplete
<1>1. ListInv => ListingComplete
  BY ListedWhole DEF ListingComplete
<1> QED
  BY <1>1, ListInvariant, PTL

LEMMA TimesNat == Times \subseteq Nat
BY ListingBoundAssumption DEF Times

\* Of some archives one is the latest.
LEMMA LatestExists ==
  ASSUME NEW as, as # {}, \A a \in as : a.object.mod \in Times
  PROVE  Latest(as) # {}
<1> DEFINE Later(a) == {t \in Times : a.object.mod < t}
           T == {Later(a) : a \in as}
<1>1. IsFiniteSet(Times)
  BY FS_Interval, ListingBoundAssumption DEF Times
<1>2. T \in SUBSET (SUBSET Times) /\ T # {}
  OBVIOUS
<1>3. PICK x \in T : \A y \in T : ~(y \subseteq x /\ y # x)
  <2> HIDE DEF T
  <2> QED
    BY <1>1, <1>2, MinimalSubset
<1>4. PICK a \in as : x = Later(a)
  OBVIOUS
<1>5. ASSUME NEW b \in as, ~(b.object.mod <= a.object.mod)
      PROVE  FALSE
  <2> DEFINE i == a.object.mod
             j == b.object.mod
  <2>1. i \in Times /\ j \in Times /\ ~(j <= i)
    BY <1>5
  <2> HIDE DEF i, j
  <2>2. ASSUME NEW t \in Times, j < t
        PROVE  i < t
    <3>1. i \in Nat /\ j \in Nat /\ t \in Nat
      BY <2>1, TimesNat
    <3> QED
      BY <2>1, <2>2, <3>1
  <2>3. j \in {t \in Times : i < t} /\ j \notin {t \in Times : j < t}
    BY <2>1, TimesNat
  <2>4. Later(b) \subseteq Later(a) /\ Later(b) # Later(a)
    BY <2>2, <2>3 DEF i, j
  <2> QED
    BY <2>4, <1>3, <1>4
<1> QED
  BY <1>5 DEF Latest

(***************************************************************************)
(* If the server had a snapshot when the call began, GetLatestSnapshot     *)
(* finds one; none of those it may return is older, and none is of another *)
(* user or server whose names have no "/".                                 *)
(***************************************************************************)
THEOREM LatestIsLatest == Spec => []LatestNotOlder
<1>1. ASSUME ListInv, at = "answer", NEW s \in Servers, NEW t \in Types,
             NEW o \in PutBefore(<<user, s, t>>), Plain(o.place)
      PROVE  /\ GetLatestSnapshot(s, t) # {}
             /\ \A a \in GetLatestSnapshot(s, t) :
                  /\ a.object.mod >= o.mod
                  /\ Plain(a.object.place) =>
                       a.object.place[1] = user /\ a.object.place[2] = s
  <2> DEFINE as == GetArchivesForServer(s, t)
  <2>1. PICK b \in as : b.object.mod >= o.mod
    BY <1>1, ListedWhole
  <2>2. \A a \in as : a.object.mod \in Times
    BY <1>1, ArchiveOf DEF GetArchivesForServer
  <2>3. GetLatestSnapshot(s, t) # {}
    BY <2>1, <2>2, LatestExists DEF GetLatestSnapshot
  <2>4. o.mod \in Nat
    BY <1>1, ObjectsKeyed DEF PutBefore, ListInv, TypeOK
  <2>5. ASSUME NEW a \in GetLatestSnapshot(s, t)
        PROVE  a.object.mod >= o.mod
    <3>1. a \in as /\ b.object.mod <= a.object.mod
      BY <2>1, <2>5 DEF GetLatestSnapshot, Latest
    <3>2. a.object.mod \in Nat /\ b.object.mod \in Nat
      BY <2>1, <2>2, <3>1, TimesNat
    <3> QED
      BY <2>1, <2>4, <3>1, <3>2
  <2>6. ASSUME NEW a \in GetLatestSnapshot(s, t), Plain(a.object.place)
        PROVE  a.object.place[1] = user /\ a.object.place[2] = s
    <3>1. a \in archives /\ a.user = user /\ a.server = s
      BY DEF GetLatestSnapshot, Latest, GetArchivesForServer
    <3> QED
      BY <1>1, <2>6, <3>1, ArchiveOf
  <2> QED
    BY <2>3, <2>5, <2>6
<1>2. ListInv => LatestNotOlder
  BY <1>1 DEF LatestNotOlder
<1> QED
  BY <1>2, ListInvariant, PTL

-----------------------------------------------------------------------------
(***************************************************************************)
(* Why a listing ends, as far as it is a matter of safety: the keys it may *)
(* still list only get fewer, whatever is put meanwhile, and every page    *)
(* but the last takes at least one of them away.  (That pages are answered *)
(* is fairness; the two together are ListingEnds.)                         *)
(***************************************************************************)
KeysLeft == {k \in Keys : token = None \/ KeyBefore(token, k)}

PagesRunOut ==
    [][at = "list" /\ at' = "list" =>
         /\ KeysLeft' \subseteq KeysLeft
         /\ ListPage => KeysLeft' # KeysLeft]_vars

\* The key of an object of the page is left before the page, and not after.
LEMMA PageTakesKey ==
  ASSUME ListInv, ListPage, at' = "list"
  PROVE  KeysLeft' \subseteq KeysLeft /\ KeysLeft' # KeysLeft
<1>1. TypeOK /\ BucketOK
  BY DEF ListInv
<1>2. Page # Ahead /\ token' = NextToken
  BY DEF ListPage
<1>3. Page \subseteq Ahead /\ Page # {}
  BY <1>1, <1>2, PageNonempty DEF Page
<1>4. PICK o \in Page : NextToken = Key(o)
  <2>1. IsFiniteSet(Page) /\ Page \in SUBSET Objects
    BY <1>1, <1>3, AheadFinite, FS_Subset
  <2>2. Last(Page) \in Page
    BY <1>3, <2>1, LastExists DEF Last
  <2> QED
    BY <2>2 DEF NextToken
<1>5. o \in Objects /\ (token = None \/ KeyBefore(token, Key(o)))
  BY <1>1, <1>3, AheadFinite DEF Ahead
<1>6. Key(o) \in Keys /\ Keyed(Key(o))
  BY <1>5, ObjectsKeyed
<1>7. token # None => token \in Keys /\ Keyed(token)
  BY <1>1, ListingBoundAssumption DEF TypeOK, Keys, Keyed, Times
<1>8. token' = Key(o) /\ token' # None
  BY <1>2, <1>4, <1>6, ListingNoneAssumption
<1>9. Key(o) \in KeysLeft
  BY <1>5, <1>6 DEF KeysLeft
<1>10. KeysLeft' = {k \in Keys : KeyBefore(Key(o), k)}
  BY <1>8 DEF KeysLeft
<1>11. Key(o) \notin KeysLeft'
  BY <1>6, <1>10, KeyOrderStrict
<1>12. ASSUME NEW k \in Keys, KeyBefore(Key(o), k) PROVE k \in KeysLeft
  <2>1. Keyed(k)
    BY ListingBoundAssumption DEF Keys, Keyed, Times
  <2>2. token = None \/ KeyBefore(token, k)
    BY <1>5, <1>6, <1>7, <1>12, <2>1, KeyOrderTransitive
  <2> QED
    BY <2>2 DEF KeysLeft
<1> QED
  BY <1>9, <1>10, <1>11, <1>12

\* No page of a listing lists again what an earlier one did: PagesRunOut, for
\* any bucket, page size and prefixes.
THEOREM ListingsRunOut == Spec => PagesRunOut
<1>1. ASSUME ListInv, [Next]_vars, at = "list", at' = "list"
      PROVE  /\ KeysLeft' \subseteq KeysLeft
             /\ ListPage => KeysLeft' # KeysLeft
  <2>1. CASE ListPage
    BY <1>1, <2>1, PageTakesKey
  <2>2. CASE token' = token
    <3>1. KeysLeft' = KeysLeft
      BY <2>2 DEF KeysLeft
    <3> QED
      BY <1>1, <2>1, <3>1
  <2> QED
    BY <1>1, <2>1, <2>2
       DEF Next, Tick, PutObject, GetArchives, ListError, ListFailed, Return, call, vars
<1> QED
  BY <1>1, ListInvariant, PTL DEF Spec, PagesRunOut
=============================================================================
