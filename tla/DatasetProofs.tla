---------------------------- MODULE DatasetProofs -----------------------------
(***************************************************************************)
(* Theorems of Dataset, for any versions, files, failures and purges.      *)
(***************************************************************************)
EXTENDS Dataset, WellFoundedInduction, TLAPS

\* A set of hours has a last one.
LEMMA LatestIsLast ==
    ASSUME NEW hours \in SUBSET Hour
    PROVE  IF hours = {} THEN Latest(hours) = None
           ELSE Latest(hours) \in hours /\ \A d \in hours : d <= Latest(hours)
<1>1. CASE hours = {}
      BY <1>1 DEF Latest
<1>2. CASE hours # {}
  <2> DEFINE distances == {n \in Nat : \E d \in hours : n = MaxHour - d}
  <2>1. distances \subseteq Nat /\ distances # {}
    <3>1. PICK d \in hours : d \in 1 .. MaxHour
          BY <1>2 DEF Hour
    <3>2. MaxHour - d \in distances
          BY <3>1, BoundAssumption
    <3> QED  BY <3>2
  <2>2. PICK n \in distances : \A m \in distances : ~ (<<m, n>> \in OpToRel(<, Nat))
    <3> HIDE DEF distances
    <3> QED  BY <2>1, NatLessThanWellFounded, WFMin
  <2>3. PICK d \in hours : n = MaxHour - d
        BY <2>2
  <2>4. ASSUME NEW e \in hours PROVE e <= d
    <3>1. d \in 1 .. MaxHour /\ e \in 1 .. MaxHour
          BY DEF Hour
    <3>2. MaxHour - e \in distances
          BY <3>1, BoundAssumption
    <3>3. ~ (MaxHour - e < n)
          BY <2>2, <3>2 DEF OpToRel
    <3> QED  BY <2>3, <3>1, <3>3, BoundAssumption
  <2> QED  BY <1>2, <2>4 DEF Latest
<1> QED  BY <1>1, <1>2

-----------------------------------------------------------------------------
(* Types.                                                                  *)

LEMMA ContentTypes ==
    /\ Empty \in Content
    /\ \A v \in Version : Whole(v) \in Content
    /\ \A c \in Content : Partial(c) \subseteq Content
    /\ \A c \in Content \cup {None} : c # None <=> c \in Content
<1>1. Empty \in Content
      BY DEF Empty, Content
<1>2. ASSUME NEW v \in Version PROVE Whole(v) \in Content
      BY ReleaseAssumption DEF Whole, Content
<1>3. ASSUME NEW c \in Content, NEW p \in Partial(c) PROVE p \in Content
  <2> DEFINE before(k) == {r \in c.rows : r.key < k}
  <2>1. CASE p = Empty
        BY <1>1, <2>1
  <2>2. CASE p = [header |-> TRUE, rows |-> c.rows, whole |-> FALSE]
        BY <2>2 DEF Content
  <2>3. ASSUME NEW r \in c.rows,
               \/ p = [header |-> TRUE, rows |-> before(r.key), whole |-> FALSE]
               \/ p = [header |-> TRUE, rows |-> before(r.key) \cup {[key |-> r.key, val |-> Cut]}, whole |-> FALSE]
        PROVE  p \in Content
    <3>1. c.rows \subseteq Row
          BY DEF Content
    <3>2. [key |-> r.key, val |-> Cut] \in Row
          BY <3>1 DEF Row
    <3>3. before(r.key) \subseteq Row
          BY <3>1
    <3> HIDE DEF before
    <3>4. before(r.key) \cup {[key |-> r.key, val |-> Cut]} \subseteq Row
          BY <3>2, <3>3
    <3>5. \A rows \in SUBSET Row : [header |-> TRUE, rows |-> rows, whole |-> FALSE] \in Content
          BY DEF Content
    <3> QED  BY <2>3, <3>3, <3>4, <3>5
  <2> QED  BY <1>3, <2>1, <2>2, <2>3 DEF Partial
<1> QED  BY <1>1, <1>2, <1>3, NoneAssumption

\* Placing something in the file or the archive that is being written.
LEMMA DownloadTypes ==
    ASSUME TypeOK, curr \in Hour, NEW c \in Content, Download(c)
    PROVE  /\ file' \in [Hour -> Content \cup {None}]
           /\ archive' \in [Hour -> Content \cup {None}]
<1> QED  BY DEF Download, TypeOK

LEMMA TypesOfPrepare == TypeOK /\ Prepare => TypeOK'
<1> SUFFICES ASSUME TypeOK, Prepare PROVE TypeOK'
    OBVIOUS
<1>1. \A hours \in SUBSET Hour : Latest(hours) \in Hour \cup {None}
      BY LatestIsLast
<1>2. Files \in SUBSET Hour /\ Files \ {Last} \in SUBSET Hour
      BY DEF Files
<1>3. Last \in Hour \cup {None} /\ prev' \in Hour \cup {None} /\ curr' \in Hour \cup {None}
      BY <1>1, <1>2 DEF Prepare, Last, isStale, TypeOK
<1>4. file' \in [Hour -> Content \cup {None}] /\ archive' \in [Hour -> Content \cup {None}]
      BY Zenon DEF Prepare, TypeOK
<1> QED  BY <1>3, <1>4 DEF Prepare, TypeOK, outside

\* What is known of a run that is under way.
Steps == {"idle", "download", "fetch", "extract", "extracting", "process", "write"}

\* The file of today is the last one, and the base is the only other one.  A
\* file that is being written has not been applied.
Places ==
    /\ pc \in Steps
    /\ pc # "idle" =>
         /\ curr \in Hour
         /\ \/ prev = None /\ Files \subseteq {curr}
            \/ prev \in Files /\ prev < curr /\ Files \subseteq {prev, curr}
    /\ pc = "fetch" =>
         /\ coming \in Version
         /\ archived => file[curr] = None /\ archive[curr] # None
         /\ ~archived => file[curr] # None
    /\ pc = "extract" => archive[curr] # None /\ file[curr] = None
    /\ pc = "extracting" => archive[curr] # None /\ file[curr] # None
    /\ pc \in {"process", "write"} => file[curr] # None
    /\ pc \in {"fetch", "extracting"} => curr \notin applied

\* Every step but Prepare keeps the types.
LEMMA TypesOfRun == TypeOK /\ Places /\ [Next]_vars => TypeOK'
<1> SUFFICES ASSUME TypeOK, Places, [Next]_vars PROVE TypeOK'
    OBVIOUS
<1> USE DEF TypeOK
<1>1. CASE Publish \/ Tick \/ Purge
  <2>1. CASE Publish
        BY <2>1, BoundAssumption DEF Publish, Version, disk, run
  <2>2. CASE Tick
        BY <2>2, BoundAssumption DEF Tick, Hour, disk, run
  <2>3. CASE Purge
        BY <2>3 DEF Purge, outside, run
  <2> QED  BY <1>1, <2>1, <2>2, <2>3
<1>2. CASE Prepare
      BY <1>2, TypesOfPrepare
<1>3. CASE Found \/ FoundArchive \/ ExtractRefused \/ ReadFails
      BY <1>3 DEF Found, FoundArchive, ExtractRefused, ReadFails, Over, Goto, outside, disk
<1>4. CASE Fetch \/ Fetched \/ FetchedErrorPage
  <2>2. curr \in Hour
        BY <1>4 DEF Places, Fetch, Fetched, FetchedErrorPage
  <2>3. file' \in [Hour -> Content \cup {None}] /\ archive' \in [Hour -> Content \cup {None}]
    <3>1. CASE Fetch
          BY <2>2, <3>1, ContentTypes, DownloadTypes DEF Fetch
    <3>2. CASE Fetched
          BY <2>2, <3>2, ContentTypes, DownloadTypes DEF Fetched, Places
    <3>3. CASE FetchedErrorPage
          BY <2>2, <3>3, ContentTypes, DownloadTypes DEF FetchedErrorPage
    <3> QED  BY <1>4, <3>1, <3>2, <3>3
  <2> QED  BY <1>4, <2>3 DEF Fetch, Fetched, FetchedErrorPage, Goto, Fault, outside
<1>5. CASE FetchFails
  <2>1. file' \in [Hour -> Content \cup {None}] /\ archive' \in [Hour -> Content \cup {None}]
    <3>1. CASE pc = "fetch"
          BY <1>5, <3>1, ContentTypes, DownloadTypes DEF FetchFails, Places
    <3>2. CASE pc # "fetch"
          BY <1>5, <3>2 DEF FetchFails, disk
    <3> QED  BY <3>1, <3>2
  <2> QED  BY <1>5, <2>1 DEF FetchFails, Over, Fault, outside
<1>6. CASE Extract \/ Extracted \/ ExtractedPart
  <2>1. curr \in Hour /\ (archive[curr] \in Content)
        BY <1>6, ContentTypes DEF Places, Extract, Extracted, ExtractedPart
  <2>2. file' \in [Hour -> Content \cup {None}] /\ archive' \in [Hour -> Content \cup {None}]
        BY <1>6, <2>1, ContentTypes DEF Extract, Extracted, ExtractedPart
  <2> QED  BY <1>6, <2>2 DEF Extract, Extracted, ExtractedPart, Goto, outside
<1>7. CASE Read
  <2>1. curr \in Hour /\ file[curr] \in Content
        BY <1>7, ContentTypes DEF Read, Places
  <2>2. todo' \subseteq Row
        BY <1>7, <2>1 DEF Read, whole, diffRows, Content
  <2> QED  BY <1>7, <2>2 DEF Read, outside, disk
<1>8. ASSUME Upsert(Batch) PROVE db' \in [Key -> Version \cup {Cut, None}]
  <2>1. Batch \subseteq Row
        BY DEF Batch
  <2> QED  BY <1>8, <2>1 DEF Upsert, Row
<1>9. CASE Write \/ WriteFails
      BY <1>8, <1>9 DEF Write, WriteFails, Over, Fault, outside, disk
<1>10. CASE Finish
      BY <1>10 DEF Finish, Over, outside, disk, whole, Places
<1>11. CASE Crash
  <2>1. file' \in [Hour -> Content \cup {None}] /\ archive' \in [Hour -> Content \cup {None}]
    <3>1. CASE pc = "fetch"
          BY <1>11, <3>1, ContentTypes, DownloadTypes DEF Crash, Places
    <3>2. CASE pc = "extracting"
      <4>1. curr \in Hour /\ archive[curr] \in Content
            BY <3>2, ContentTypes DEF Places
      <4> QED  BY <1>11, <3>2, <4>1, ContentTypes DEF Crash
    <3>3. CASE pc \notin {"fetch", "extracting"}
          BY <1>11, <3>3 DEF Crash, disk
    <3> QED  BY <3>1, <3>2, <3>3
  <2> QED  BY <1>11, <2>1 DEF Crash, Over, Fault, outside
<1>12. CASE UNCHANGED vars
      BY <1>12 DEF vars, outside, disk, run
<1> QED
    BY <1>1, <1>2, <1>3, <1>4, <1>5, <1>6, <1>7, <1>9, <1>10, <1>11, <1>12 DEF Next, Process

-----------------------------------------------------------------------------
(* Files have one row of a key, and runs find them where they expect them. *)

UniqueKeys ==
    /\ \A d \in Hour : file[d] # None => Unique(file[d].rows)
    /\ \A d \in Hour : archive[d] # None => Unique(archive[d].rows)

LEMMA UniqueContents ==
    /\ Unique(Empty.rows)
    /\ \A v \in Version : Unique(Whole(v).rows)
    /\ \A c \in Content : Unique(c.rows) => \A p \in Partial(c) : Unique(p.rows)
<1>1. Unique(Empty.rows)
      BY DEF Empty, Unique
<1>2. \A v \in Version : Unique(Whole(v).rows)
      BY ReleaseAssumption DEF Whole
<1>3. ASSUME NEW c \in Content, Unique(c.rows), NEW p \in Partial(c) PROVE Unique(p.rows)
  <2> DEFINE before(k) == {r \in c.rows : r.key < k}
  <2>1. CASE p = Empty
        BY <1>1, <2>1
  <2>2. CASE p = [header |-> TRUE, rows |-> c.rows, whole |-> FALSE]
        BY <1>3, <2>2
  <2>3. ASSUME NEW r \in c.rows, p = [header |-> TRUE, rows |-> before(r.key), whole |-> FALSE]
        PROVE  Unique(p.rows)
        BY <1>3, <2>3 DEF Unique
  <2>4. ASSUME NEW r \in c.rows,
               p = [header |-> TRUE, rows |-> before(r.key) \cup {[key |-> r.key, val |-> Cut]}, whole |-> FALSE]
        PROVE  Unique(p.rows)
    <3>1. p.rows = before(r.key) \cup {[key |-> r.key, val |-> Cut]}
          BY <2>4
    <3>2. r.key \in Int
          BY KeyAssumption DEF Content, Row
    <3>3. \A q \in before(r.key) : q.key # r.key
          BY <3>2
    <3> QED  BY <1>3, <3>1, <3>3 DEF Unique
  <2> QED  BY <2>1, <2>2, <2>3, <2>4 DEF Partial
<1> QED  BY <1>1, <1>2, <1>3

LEMMA DownloadUnique ==
    ASSUME TypeOK, UniqueKeys, curr \in Hour, NEW c \in Content, Unique(c.rows), Download(c)
    PROVE  UniqueKeys'
<1> QED  BY DEF Download, TypeOK, UniqueKeys

LEMMA UniqueNext == TypeOK /\ Places /\ UniqueKeys /\ [Next]_vars => UniqueKeys'
<1> SUFFICES ASSUME TypeOK, Places, UniqueKeys, [Next]_vars PROVE UniqueKeys'
    OBVIOUS
<1>1. CASE UNCHANGED disk
      BY <1>1 DEF disk, UniqueKeys
<1>2. CASE Purge
      BY <1>2 DEF Purge, UniqueKeys
<1>3. CASE Prepare
  <2>1. \A d \in Hour : file'[d] \in {file[d], None} /\ archive'[d] \in {archive[d], None}
        BY <1>3 DEF Prepare
  <2> QED  BY <2>1 DEF UniqueKeys
<1>4. CASE Fetch \/ Fetched \/ FetchedErrorPage
  <2>1. PICK c \in Content : Unique(c.rows) /\ Download(c)
        BY <1>4, ContentTypes, UniqueContents DEF Fetch, Fetched, FetchedErrorPage, Places
  <2>2. curr \in Hour
        BY <1>4 DEF Places, Fetch, Fetched, FetchedErrorPage
  <2> QED  BY <2>1, <2>2, DownloadUnique
<1>5. CASE (FetchFails \/ Crash) /\ pc = "fetch"
  <2>1. coming \in Version /\ curr \in Hour
        BY <1>5 DEF Places
  <2>2. PICK c \in Partial(Whole(coming)) : Download(c)
        BY <1>5 DEF FetchFails, Crash
  <2>3. c \in Content /\ Unique(c.rows)
        BY <2>1, ContentTypes, UniqueContents
  <2> QED  BY <2>1, <2>2, <2>3, DownloadUnique
<1>6. ASSUME NEW c \in Content, Unique(c.rows), curr \in Hour, file' = [file EXCEPT ![curr] = c],
             \A d \in Hour : archive'[d] \in {archive[d], None}
      PROVE  UniqueKeys'
      BY <1>6 DEF UniqueKeys, TypeOK
<1>7. CASE Extract
      BY <1>6, <1>7, ContentTypes, UniqueContents DEF Extract, Places
<1>8. CASE Extracted \/ ExtractedPart \/ (Crash /\ pc = "extracting")
  <2>1. curr \in Hour /\ archive[curr] \in Content /\ Unique(archive[curr].rows)
        BY <1>8, ContentTypes DEF Extracted, ExtractedPart, Places, UniqueKeys, TypeOK
  <2>2. PICK c \in Content : Unique(c.rows) /\ file' = [file EXCEPT ![curr] = c]
        BY <1>8, <2>1, ContentTypes, UniqueContents DEF Extracted, ExtractedPart, Crash
  <2>3. \A d \in Hour : archive'[d] \in {archive[d], None}
        BY <1>8, <2>1 DEF Extracted, ExtractedPart, Crash, TypeOK
  <2> QED  BY <1>6, <2>1, <2>2, <2>3
<1>9. CASE ReadFails \/ Read \/ Write \/ WriteFails \/ Finish \/ Found \/ FoundArchive \/ ExtractRefused \/ Publish \/ Tick
      BY <1>1, <1>9 DEF ReadFails, Read, Write, WriteFails, Finish, Found, FoundArchive, ExtractRefused, Publish, Tick
<1>10. CASE (FetchFails /\ pc # "fetch") \/ (Crash /\ pc \notin {"fetch", "extracting"}) \/ UNCHANGED vars
      BY <1>1, <1>10 DEF FetchFails, Crash, vars
<1> QED
    BY <1>2, <1>3, <1>4, <1>5, <1>7, <1>8, <1>9, <1>10 DEF Next, Process

\* What Prepare picks, and leaves.
LEMMA Prepared ==
    ASSUME TypeOK, Prepare
    PROVE  /\ curr' \in Hour /\ \A d \in Files : d <= curr'
           /\ \/ prev' = None /\ Files \subseteq {curr'} /\ file' = file
              \/ /\ prev' \in Files /\ prev' < curr'
                 /\ Files' = Files \cap {prev', curr'}
                 /\ \A d \in Files : d = curr' \/ d <= prev'
                 /\ \A d \in {prev', curr'} : file'[d] = file[d]
<1> USE LifetimeAssumption, BoundAssumption, NoneAssumption DEF TypeOK
<1>1. Files \in SUBSET Hour /\ Files \ {Last} \in SUBSET Hour
      BY DEF Files
<1>2. IF Files = {} THEN Last = None ELSE Last \in Files /\ \A d \in Files : d <= Last
      BY <1>1, LatestIsLast DEF Last
<1>3. \A d \in Files : d \in Nat
      BY <1>1 DEF Hour
<1>4. prev' = None => file' = file
      BY DEF Prepare
<1>5. prev' \in Files /\ curr' \in Hour =>
          Files' = Files \cap {prev', curr'} /\ \A d \in {prev', curr'} : file'[d] = file[d]
  <2> SUFFICES ASSUME prev' \in Files, curr' \in Hour
               PROVE  Files' = Files \cap {prev', curr'} /\ \A d \in {prev', curr'} : file'[d] = file[d]
      OBVIOUS
  <2>1. prev' # None
        BY <1>1
  <2>2. \A d \in Hour : file'[d] = IF d \in {prev', curr'} THEN file[d] ELSE None
        BY <2>1 DEF Prepare
  <2> QED  BY <1>1, <2>2 DEF Files
<1>6. CASE isStale(Last)
  <2>1. curr' = hour /\ prev' = Last
        BY <1>6 DEF Prepare
  <2>2. CASE Files = {}
        BY <1>2, <1>4, <2>1, <2>2
  <2>3. CASE Files # {}
    <3>1. Last \in Files /\ Last + Lifetime <= hour /\ Last \in Nat /\ hour \in Nat
      <4>1. Last \in Files
            BY <1>2, <2>3
      <4>2. Last # None
            BY <1>1, <4>1
      <4>3. hour \in Nat
            BY DEF Hour
      <4> QED  BY <1>3, <1>6, <4>1, <4>2, <4>3 DEF isStale
    <3>2. Last < hour
          BY <3>1
    <3> QED  BY <1>2, <1>3, <1>5, <2>1, <2>3, <3>1, <3>2
  <2> QED  BY <2>2, <2>3
<1>7. CASE ~isStale(Last)
  <2>1. curr' = Last /\ prev' = Latest(Files \ {Last}) /\ Last # None
        BY <1>7 DEF Prepare, isStale
  <2>2. Last \in Files
        BY <1>2, <2>1
  <2>3. IF Files \ {Last} = {} THEN prev' = None
        ELSE prev' \in Files \ {Last} /\ \A d \in Files \ {Last} : d <= prev'
        BY <1>1, <2>1, LatestIsLast
  <2>4. prev' # None => prev' \in Files /\ prev' < Last
        BY <1>2, <1>3, <2>2, <2>3
  <2> QED  BY <1>1, <1>2, <1>4, <1>5, <2>1, <2>2, <2>3, <2>4
<1> QED  BY <1>6, <1>7

\* The file of today is there once something has been written to it.
LEMMA FileAppears ==
    ASSUME TypeOK, curr \in Hour, NEW c \in Content, file' = [file EXCEPT ![curr] = c]
    PROVE  Files' = Files \cup {curr} /\ file'[curr] = c /\ file'[curr] # None
           /\ \A d \in Hour : d # curr => file'[d] = file[d]
<1> QED  BY ContentTypes DEF TypeOK, Files

LEMMA DownloadPlaces ==
    ASSUME TypeOK, curr \in Hour, NEW c \in Content, Download(c)
    PROVE  IF archived THEN file' = file /\ archive'[curr] # None
           ELSE /\ Files' = Files \cup {curr} /\ file'[curr] = c /\ file'[curr] # None
                /\ archive' = archive /\ \A d \in Hour : d # curr => file'[d] = file[d]
<1>1. CASE archived
      BY <1>1, ContentTypes DEF Download, TypeOK
<1>2. CASE ~archived
      BY <1>2, FileAppears DEF Download
<1> QED  BY <1>1, <1>2

LEMMA PlacesNext == TypeOK /\ Places /\ [Next]_vars => Places'
<1> SUFFICES ASSUME TypeOK, Places, [Next]_vars PROVE Places'
    OBVIOUS
<1> USE DEF Places, Steps
<1>1. CASE Publish \/ Tick
      BY <1>1 DEF Publish, Tick, disk, run, Files
<1>2. CASE Purge
      BY <1>2 DEF Purge, run
<1>3. CASE Prepare
  <2>1. pc' = "download"
        BY <1>3 DEF Prepare
  <2>2. prev' = None => Files' = Files
        BY <1>3 DEF Prepare, Files
  <2> QED  BY <1>3, <2>1, <2>2, Prepared
<1>4. CASE Found \/ FoundArchive \/ ExtractRefused \/ ReadFails
      BY <1>4 DEF Found, FoundArchive, ExtractRefused, ReadFails, Over, Goto, disk, Files
<1>5. CASE Fetch
  <2>1. curr \in Hour /\ published \in Version
        BY <1>5 DEF Fetch, TypeOK
  <2>2. IF archived THEN file' = file /\ archive'[curr] # None
        ELSE Files' = Files \cup {curr} /\ file'[curr] # None
        BY <1>5, <2>1, ContentTypes, DownloadPlaces DEF Fetch
  <2>3. pc' = "fetch" /\ coming' = published /\ applied' = applied \ {curr} /\ file[curr] = None
        /\ UNCHANGED <<prev, curr, archived>>
        BY <1>5 DEF Fetch, outside
  <2>4. archived => Files' = Files
        BY <2>2 DEF Files
  <2>5. pc # "idle"
        BY <1>5 DEF Fetch
  <2> QED  BY <2>1, <2>2, <2>3, <2>4, <2>5
<1>6. CASE Fetched \/ FetchedErrorPage
  <2>1. PICK c \in Content : Download(c)
        BY <1>6, ContentTypes DEF Fetched, FetchedErrorPage
  <2>2. curr \in Hour /\ pc = "fetch"
        BY <1>6 DEF Fetched, FetchedErrorPage
  <2>3. IF archived THEN file' = file /\ archive'[curr] # None
        ELSE Files' = Files \cup {curr} /\ file'[curr] # None
        BY <2>1, <2>2, DownloadPlaces
  <2>4. archived => Files' = Files
        BY <2>3 DEF Files
  <2>5. pc' = (IF archived THEN "extract" ELSE "process") /\ UNCHANGED <<prev, curr, archived>>
        BY <1>6 DEF Fetched, FetchedErrorPage, Goto, outside
  <2> QED  BY <2>2, <2>3, <2>4, <2>5
<1>7. CASE FetchFails \/ WriteFails \/ Finish \/ Crash
      BY <1>7 DEF FetchFails, WriteFails, Finish, Crash, Over
<1>8. CASE Extract
  <2>1. curr \in Hour /\ Empty \in Content /\ archive[curr] # None
        BY <1>8, ContentTypes DEF Extract
  <2>2. Files' = Files \cup {curr} /\ file'[curr] # None
        BY <1>8, <2>1, FileAppears DEF Extract
  <2>3. pc' = "extracting" /\ applied' = applied \ {curr} /\ UNCHANGED <<prev, curr, archive>> /\ pc # "idle"
        BY <1>8 DEF Extract, Goto
  <2> QED  BY <2>1, <2>2, <2>3
<1>9. CASE Extracted \/ ExtractedPart
  <2>1. curr \in Hour /\ archive[curr] \in Content /\ pc = "extracting"
        BY <1>9, ContentTypes DEF Extracted, ExtractedPart, TypeOK
  <2>2. PICK c \in Content : file' = [file EXCEPT ![curr] = c]
        BY <1>9, <2>1, ContentTypes DEF Extracted, ExtractedPart
  <2>3. Files' = Files \cup {curr} /\ file'[curr] # None
        BY <2>1, <2>2, FileAppears
  <2>4. pc' = "process" /\ UNCHANGED <<prev, curr>>
        BY <1>9 DEF Extracted, ExtractedPart, Goto
  <2> QED  BY <2>1, <2>3, <2>4
<1>10. CASE Read \/ Write
      BY <1>10 DEF Read, Write, disk, Files
<1>11. CASE UNCHANGED vars
      BY <1>11 DEF vars, outside, disk, run, Files
<1> QED
    BY <1>1, <1>2, <1>3, <1>4, <1>5, <1>6, <1>7, <1>8, <1>9, <1>10, <1>11 DEF Next, Process

-----------------------------------------------------------------------------
(* What the database covers.                                               *)

Holds(rows) == \A r \in rows : db[r.key] = r.val
IsLast(d) == d \in Files /\ \A e \in Files : e <= d
IsBase(g, d) == IsLast(d) /\ g \in Files /\ g < d /\ \A e \in Files : e = d \/ e <= g

\* The file that was applied last is in the database.
LastHolds == \A d \in Hour : IsLast(d) /\ d \in applied /\ sound => Holds(file[d].rows)

\* Until a newer file is applied, what the two have in common is.
BaseHolds ==
    \A d, g \in Hour :
        IsBase(g, d) /\ d \notin applied /\ g \in applied /\ sound => Holds(file[d].rows \cap file[g].rows)

\* While the newer file is being written, all of the older one is.
FetchHolds ==
    pc \in {"fetch", "extracting"} /\ prev \in applied /\ prev \in Files /\ sound => Holds(file[prev].rows)

Bases == LastHolds /\ BaseHolds /\ FetchHolds

\* Rows that are not left to do, and are no part of the base, are written.
Written ==
    pc = "write" =>
        /\ todo \subseteq file[curr].rows
        /\ \A r \in file[curr].rows \ todo : prev = None \/ r \notin file[prev].rows => db[r.key] = r.val

IInv == TypeOK /\ Places /\ UniqueKeys /\ Bases /\ Written

LEMMA BasesStay ==
    ASSUME Bases, UNCHANGED <<file, db, applied, sound, prev>>,
           pc' \in {"fetch", "extracting"} => pc' = pc
    PROVE  Bases'
<1> QED  BY DEF Bases, LastHolds, BaseHolds, FetchHolds, IsLast, IsBase, Files, Holds

\* During a run the file of today is the last one, if it is there, and the
\* base is the last one otherwise.
LEMMA LastInRun ==
    ASSUME TypeOK, Places, pc # "idle"
    PROVE  /\ curr \in Files => IsLast(curr)
           /\ prev \in Files /\ curr \notin Files => IsLast(prev)
           /\ prev \in Files /\ curr \in Files => IsBase(prev, curr)
           /\ \A d \in Hour : IsLast(d) => d = (IF curr \in Files THEN curr ELSE prev)
           /\ \A d, g \in Hour : IsBase(g, d) => d = curr /\ g = prev
           /\ prev # None <=> prev \in Files
           /\ curr \in Files <=> file[curr] # None
<1>1. Files \subseteq Nat /\ Files \subseteq Hour
      BY DEF Files, Hour
<1>2. prev # None <=> prev \in Files
      BY <1>1, NoneAssumption DEF Places
<1>3. curr \in Nat /\ curr \in Hour
      BY DEF Places, Hour
<1>4. curr \in Files <=> file[curr] # None
      BY <1>3 DEF Files
<1>5. CASE prev = None /\ Files \subseteq {curr}
      BY <1>1, <1>2, <1>3, <1>4, <1>5 DEF IsLast, IsBase
<1>6. CASE prev \in Files /\ prev < curr /\ Files \subseteq {prev, curr}
      BY <1>1, <1>2, <1>3, <1>4, <1>6 DEF IsLast, IsBase
<1> QED  BY <1>5, <1>6 DEF Places

LEMMA BasesOfPrepare == ASSUME IInv, Prepare PROVE Bases'
<1>1. curr' \in Hour /\ (\A d \in Files : d <= curr') /\ Files \subseteq Nat
      BY Prepared DEF IInv, Files, Hour
<1>2. pc' = "download" /\ UNCHANGED <<db, applied, sound>>
      BY DEF Prepare
<1>3. \A rows : Holds(rows)' <=> Holds(rows)
      BY <1>2 DEF Holds
<1>4. CASE file' = file
      BY <1>2, <1>4 DEF IInv, Bases, LastHolds, BaseHolds, FetchHolds, IsLast, IsBase, Files, Holds
<1>5. CASE /\ prev' \in Files /\ prev' < curr'
           /\ Files' = Files \cap {prev', curr'}
           /\ \A d \in Files : d = curr' \/ d <= prev'
           /\ \A d \in {prev', curr'} : file'[d] = file[d]
  <2>1. \A d \in Hour : IsLast(d)' => IsLast(d) /\ file'[d] = file[d]
        BY <1>1, <1>5 DEF IsLast
  <2>2. \A d, g \in Hour : IsBase(g, d)' => IsBase(g, d) /\ file'[d] = file[d] /\ file'[g] = file[g]
        BY <1>1, <1>5 DEF IsLast, IsBase
  <2>3. LastHolds'
        BY <1>2, <1>3, <2>1 DEF LastHolds, IInv, Bases, Holds
  <2>4. BaseHolds'
        BY <1>2, <1>3, <2>2 DEF BaseHolds, IInv, Bases, Holds
  <2>5. FetchHolds'
        BY <1>2 DEF FetchHolds
  <2> QED  BY <2>3, <2>4, <2>5 DEF Bases
<1> QED  BY <1>4, <1>5, Prepared DEF IInv

\* Today's file is begun: so far it has nothing in common with the base.
LEMMA BasesOfBegin ==
    ASSUME IInv, TypeOK', Places', UNCHANGED <<prev, curr, db, sound>>, applied' = applied \ {curr},
           pc # "idle", file[curr] = None, pc' \in {"fetch", "extracting"},
           file' = file \/ file' = [file EXCEPT ![curr] = Empty]
    PROVE  Bases'
<1> USE DEF IInv
<1>1. curr \in Hour /\ curr \notin Files
      BY DEF Places, Files
<1>2. ASSUME prev \in applied, prev \in Files, sound
      PROVE  Holds(file[prev].rows) /\ file'[prev] = file[prev]
  <2>1. IsLast(prev) /\ prev \in Hour /\ prev # curr
        BY <1>1, <1>2, LastInRun DEF Files
  <2> QED  BY <1>2, <2>1 DEF Bases, LastHolds, TypeOK
<1>3. prev \in Files' => prev \in Files
  <2>1. prev # None => prev \in Files
        BY LastInRun
  <2>2. None \notin Files'
        BY NoneAssumption DEF Files
  <2> QED  BY <2>1, <2>2
<1>4. FetchHolds'
      BY <1>2, <1>3 DEF FetchHolds, Holds
<1>5. CASE file' = file
      BY <1>1, <1>4, <1>5 DEF Bases, LastHolds, BaseHolds, IsLast, IsBase, Files, Holds
<1>6. Files' \subseteq Nat /\ curr \in Nat /\ \A d \in Files' : d = curr \/ d < curr
      BY <1>1 DEF Places, Files, Hour
<1>7. CASE file' = [file EXCEPT ![curr] = Empty]
  <2>1. file'[curr] = Empty
        BY <1>1, <1>7 DEF TypeOK
  <2>2. curr \in Files'
        BY <1>1, <2>1, ContentTypes DEF Files
  <2>3. \A d \in Hour : IsLast(d)' => d = curr
        BY <1>1, <1>6, <2>2 DEF IsLast
  <2>4. LastHolds'
        BY <2>3 DEF LastHolds
  <2>5. BaseHolds'
    <3>1. \A d, g \in Hour : IsBase(g, d)' => d = curr
          BY <2>3 DEF IsBase
    <3>2. file'[curr].rows = {}
          BY <2>1 DEF Empty
    <3> QED  BY <3>1, <3>2 DEF BaseHolds, Holds
  <2> QED  BY <1>4, <2>4, <2>5 DEF Bases
<1> QED  BY <1>5, <1>7

\* Today's file gets content: what it has in common with the base is written.
LEMMA BasesOfContent ==
    ASSUME IInv, Places', NEW c \in Content, file' = [file EXCEPT ![curr] = c],
           UNCHANGED <<prev, curr, applied, db, sound>>,
           pc \in {"fetch", "extracting"}, pc' \in {"idle", "process"}
    PROVE  Bases'
<1> USE DEF IInv
<1>1. curr \in Hour /\ curr \notin applied /\ pc # "idle"
      BY DEF Places
<1>2. file'[curr] = c /\ (\A d \in Hour : d # curr => file'[d] = file[d]) /\ Files' = Files \cup {curr}
      BY <1>1, FileAppears
<1>3. Files \subseteq Hour /\ Hour \subseteq Nat
      BY DEF Files, Hour
<1>4. \A d \in Files' : d = curr \/ (d = prev /\ prev \in Files /\ d < curr)
      BY <1>1, <1>2, <1>3 DEF Places
<1>5. \A d \in Hour : IsLast(d)' => d = curr
      BY <1>1, <1>2, <1>3, <1>4 DEF IsLast
<1>6. \A d, g \in Hour : IsBase(g, d)' => d = curr /\ g = prev /\ prev \in Files /\ prev # curr
      BY <1>1, <1>3, <1>4, <1>5 DEF IsBase
<1>7. LastHolds'
      BY <1>1, <1>5 DEF LastHolds
<1>8. BaseHolds'
      BY <1>2, <1>3, <1>6 DEF BaseHolds, Bases, FetchHolds, Holds
<1>9. FetchHolds'
      BY DEF FetchHolds
<1> QED  BY <1>7, <1>8, <1>9 DEF Bases

\* Rows of today's file are written as they are there.
LEMMA UpsertRows ==
    ASSUME IInv, pc = "write", Upsert(Batch)
    PROVE  /\ Batch \subseteq file[curr].rows
           /\ \A r \in Batch : db'[r.key] = r.val
           /\ \A r \in file[curr].rows : db[r.key] = r.val => db'[r.key] = r.val
<1> USE DEF IInv
<1>1. file[curr] \in Content /\ Unique(file[curr].rows) /\ Batch \subseteq file[curr].rows
      BY ContentTypes DEF Places, UniqueKeys, Written, Batch, TypeOK
<1>2. \A r \in file[curr].rows : r.key \in Key
      BY <1>1 DEF Content, Row
<1>3. \A k \in Key : db'[k] = IF \E r \in Batch : r.key = k
                              THEN (CHOOSE r \in Batch : r.key = k).val ELSE db[k]
      BY DEF Upsert
<1>4. ASSUME NEW r \in Batch PROVE (CHOOSE q \in Batch : q.key = r.key) = r
      BY <1>1 DEF Unique
<1>5. \A r \in Batch : db'[r.key] = r.val
      BY <1>1, <1>2, <1>3, <1>4
<1>6. ASSUME NEW r \in file[curr].rows, db[r.key] = r.val PROVE db'[r.key] = r.val
  <2>1. CASE \E q \in Batch : q.key = r.key
        BY <1>1, <1>5, <2>1 DEF Unique
  <2>2. CASE ~ \E q \in Batch : q.key = r.key
        BY <1>2, <1>3, <1>6, <2>2
  <2> QED  BY <2>1, <2>2
<1> QED  BY <1>1, <1>5, <1>6

LEMMA BasesOfUpsert ==
    ASSUME IInv, pc = "write", Upsert(Batch), UNCHANGED <<file, applied, sound>>, pc' \in {"idle", "write"}
    PROVE  Bases'
<1> USE DEF IInv
<1>1. \A r \in file[curr].rows : db[r.key] = r.val => db'[r.key] = r.val
      BY UpsertRows
<1>2. curr \in Files /\ Files' = Files
      BY LastInRun DEF Places, Files
<1>3. \A d \in Hour : IsLast(d) => d = curr
      BY <1>2, LastInRun
<1>4. \A d, g \in Hour : IsBase(g, d) => d = curr
      BY <1>3 DEF IsBase
<1>5. LastHolds'
      BY <1>1, <1>2, <1>3 DEF Bases, LastHolds, Holds, IsLast
<1>6. BaseHolds'
      BY <1>1, <1>2, <1>4 DEF Bases, BaseHolds, Holds, IsLast, IsBase
<1>7. FetchHolds'
      BY DEF FetchHolds
<1> QED  BY <1>5, <1>6, <1>7 DEF Bases

\* At the end of a run all of today's file is there.
LEMMA BasesOfFinish == ASSUME IInv, Finish PROVE Bases'
<1> USE DEF IInv, Finish
<1>1. curr \in Files /\ Files' = Files /\ file' = file /\ db' = db /\ pc' = "idle" /\ pc = "write" /\ prev' = prev
      BY LastInRun DEF Places, Files, disk, Over
<1>2. \A d \in Hour : IsLast(d) => d = curr
      BY <1>1, LastInRun
<1>3. \A d, g \in Hour : IsBase(g, d) => d = curr
      BY <1>2 DEF IsBase
<1>4. sound' => Holds(file[curr].rows)
  <2> SUFFICES ASSUME sound', NEW r \in file[curr].rows PROVE db[r.key] = r.val
      BY DEF Holds
  <2>1. prev = None \/ r \notin file[prev].rows => db[r.key] = r.val
        BY <1>1 DEF Written
  <2>2. CASE prev # None /\ r \in file[prev].rows
    <3>1. sound /\ prev \in applied
          BY <2>2 DEF whole
    <3>2. IsBase(prev, curr) /\ IsLast(curr) /\ prev \in Hour /\ curr \in Hour
          BY <1>1, <2>2, LastInRun DEF Files
    <3>3. CASE curr \in applied
          BY <3>1, <3>2, <3>3 DEF Bases, LastHolds, Holds
    <3>4. CASE curr \notin applied
          BY <2>2, <3>1, <3>2, <3>4 DEF Bases, BaseHolds, Holds
    <3> QED  BY <3>3, <3>4
  <2> QED  BY <2>1, <2>2
<1>5. LastHolds'
      BY <1>1, <1>2, <1>4 DEF LastHolds, Holds, IsLast
<1>6. BaseHolds'
      BY <1>1, <1>3 DEF BaseHolds, IsBase, IsLast
<1>7. FetchHolds'
      BY <1>1 DEF FetchHolds
<1> QED  BY <1>5, <1>6, <1>7 DEF Bases

LEMMA InitHolds == Init => IInv
<1> SUFFICES ASSUME Init PROVE IInv
    OBVIOUS
<1>1. TypeOK
      BY BoundAssumption DEF Init, TypeOK, Hour, Version
<1>2. Files = {}
      BY DEF Init, Files
<1> QED
    BY <1>1, <1>2 DEF Init, IInv, Places, Steps, UniqueKeys, Bases, LastHolds, BaseHolds, FetchHolds,
                      IsLast, IsBase, Written

LEMMA BasesNext == ASSUME IInv, Next, TypeOK', Places' PROVE Bases'
<1> USE DEF IInv
<1>1. CASE Publish \/ Tick \/ Found \/ FoundArchive \/ ExtractRefused \/ ReadFails \/ Read
      BY <1>1, BasesStay DEF Publish, Tick, Found, FoundArchive, ExtractRefused, ReadFails, Read,
                             disk, run, Over, Goto
<1>2. CASE Purge
  <2>1. Files' = {} /\ pc' = "idle"
        BY <1>2 DEF Purge, Files, run
  <2> QED  BY <2>1 DEF Bases, LastHolds, BaseHolds, FetchHolds, IsLast, IsBase
<1>3. CASE Prepare
      BY <1>3, BasesOfPrepare
<1>4. CASE Fetch
  <2>1. file' = file \/ file' = [file EXCEPT ![curr] = Empty]
        BY <1>4 DEF Fetch, Download
  <2> QED  BY <1>4, <2>1, BasesOfBegin DEF Fetch
<1>5. CASE Extract
      BY <1>5, BasesOfBegin DEF Extract, Goto, Places
<1>6. CASE Fetched \/ FetchedErrorPage
  <2>1. PICK c \in Content : Download(c)
        BY <1>6, ContentTypes DEF Fetched, FetchedErrorPage, Places
  <2>2. /\ pc = "fetch" /\ pc' = (IF archived THEN "extract" ELSE "process")
        /\ UNCHANGED <<prev, curr, applied, db, sound>>
        BY <1>6 DEF Fetched, FetchedErrorPage, Goto
  <2>3. CASE archived
        BY <2>1, <2>2, <2>3, BasesStay DEF Download
  <2>4. CASE ~archived
        BY <2>1, <2>2, <2>4, BasesOfContent DEF Download
  <2> QED  BY <2>3, <2>4
<1>7. CASE Extracted \/ ExtractedPart
  <2>1. archive[curr] \in Content
        BY <1>7, ContentTypes DEF Extracted, ExtractedPart, Places, TypeOK
  <2>2. PICK c \in Content : file' = [file EXCEPT ![curr] = c]
        BY <1>7, <2>1, ContentTypes DEF Extracted, ExtractedPart
  <2> QED  BY <1>7, <2>2, BasesOfContent DEF Extracted, ExtractedPart, Goto
<1>8. CASE Write \/ WriteFails
  <2>1. /\ UNCHANGED <<file, applied, sound, prev>> /\ pc = "write" /\ pc' \in {"idle", "write"}
        /\ Upsert(Batch) \/ UNCHANGED db
        BY <1>8 DEF Write, WriteFails, disk, Over
  <2> QED  BY <2>1, BasesOfUpsert, BasesStay
<1>9. CASE Finish
      BY <1>9, BasesOfFinish
<1>10. CASE FetchFails \/ Crash
  <2>1. pc' = "idle" /\ UNCHANGED <<prev, curr, applied, db, sound>>
        BY <1>10 DEF FetchFails, Crash, Over
  <2>2. CASE file' = file
        BY <2>1, <2>2, BasesStay
  <2>3. CASE pc = "fetch"
    <3>1. PICK c \in Partial(Whole(coming)) : Download(c)
          BY <1>10, <2>3 DEF FetchFails, Crash
    <3>2. c \in Content
          BY <2>3, ContentTypes DEF Places
    <3> QED  BY <2>1, <2>2, <2>3, <3>1, <3>2, BasesOfContent DEF Download
  <2>4. CASE pc = "extracting"
    <3>1. archive[curr] \in Content /\ Crash
          BY <1>10, <2>4, ContentTypes DEF Places, TypeOK, FetchFails
    <3>2. PICK c \in Content : file' = [file EXCEPT ![curr] = c]
          BY <2>4, <3>1, ContentTypes DEF Crash
    <3> QED  BY <2>1, <2>4, <3>2, BasesOfContent
  <2>5. CASE pc \notin {"fetch", "extracting"}
        BY <1>10, <2>2, <2>5 DEF FetchFails, Crash, disk
  <2> QED  BY <2>3, <2>4, <2>5
<1> QED
    BY <1>1, <1>2, <1>3, <1>4, <1>5, <1>6, <1>7, <1>8, <1>9, <1>10 DEF Next, Process

LEMMA WrittenNext == ASSUME IInv, Next PROVE Written'
<1> USE DEF IInv
<1>1. CASE pc' # "write"
      BY <1>1 DEF Written
<1>2. CASE Publish \/ Tick
      BY <1>2 DEF Publish, Tick, run, disk, Written
<1>3. CASE Read
      BY <1>3 DEF Read, Written, whole, diffRows, disk
<1>4. CASE Write
  <2>1. pc = "write" /\ Upsert(Batch) /\ todo' = todo \ Batch /\ UNCHANGED <<file, prev, curr>>
        BY <1>4 DEF Write, disk
  <2> QED  BY <2>1, UpsertRows DEF Written
<1> QED
    BY <1>1, <1>2, <1>3, <1>4
    DEF Next, Process, Purge, Prepare, Found, FoundArchive, Fetch, Fetched, ExtractRefused, Extract,
        Extracted, ExtractedPart, ReadFails, Finish, FetchedErrorPage, FetchFails, WriteFails, Crash,
        Over, Goto, run

LEMMA Inductive == IInv /\ [Next]_vars => IInv'
<1> SUFFICES ASSUME IInv, [Next]_vars PROVE IInv'
    OBVIOUS
<1>1. TypeOK' /\ Places' /\ UniqueKeys'
      BY TypesOfRun, PlacesNext, UniqueNext DEF IInv
<1>2. CASE Next
      BY <1>1, <1>2, BasesNext, WrittenNext DEF IInv
<1>3. CASE UNCHANGED vars
      BY <1>1, <1>3
      DEF IInv, vars, outside, disk, run, Bases, LastHolds, BaseHolds, FetchHolds, Written, IsLast, IsBase,
          Files, Holds
<1> QED  BY <1>2, <1>3

THEOREM Invariance == Spec => []IInv
<1> QED  BY InitHolds, Inductive, PTL DEF Spec

\* The variables keep their types.
THEOREM TypeCorrect == Spec => []TypeOK
<1>1. IInv => TypeOK
      BY DEF IInv
<1> QED  BY <1>1, Invariance, PTL

\* After a run has written its file to the end, the database has each row of the
\* file as it is there, as long as no run took for its base a file that had never
\* been applied, which is what a failed run may leave (see NoLossWithoutFailure).
THEOREM LastFileIsCovered == Spec => []Covered
<1>1. ASSUME IInv PROVE Covered
  <2>1. Files \in SUBSET Hour /\ None \notin Files
        BY NoneAssumption DEF Files
  <2>2. Last # None => IsLast(Last) /\ Last \in Hour
        BY <2>1, LatestIsLast DEF Last, IsLast
  <2> QED  BY <1>1, <2>2 DEF IInv, Bases, LastHolds, Holds, Covered
<1> QED  BY <1>1, Invariance, PTL

-----------------------------------------------------------------------------
(* While nothing fails.                                                    *)

CleanRows(c) == c.header /\ \A r \in c.rows : r.val # Cut

\* Every file on disk is complete and applied, but that of the run under way;
\* archives are there only while one is being used.
Clean ==
    faults = 0 =>
        /\ sound
        /\ \A d \in Files : d \in applied \/ (pc # "idle" /\ d = curr)
        /\ \A d \in Files : CleanRows(file[d]) \/ (pc \in {"fetch", "extracting"} /\ d = curr)
        /\ \A d \in Hour : archive[d] # None => archived /\ pc \in {"fetch", "extract", "extracting"} /\ d = curr
        /\ pc \in {"extract", "extracting"} => CleanRows(archive[curr]) /\ archive[curr].whole

LEMMA CleanNext == IInv /\ Clean /\ [Next]_vars => Clean'
<1> SUFFICES ASSUME IInv, Clean, [Next]_vars, faults' = 0 PROVE Clean'
    BY DEF Clean
<1> USE DEF IInv
<1>1. faults = 0 /\ ~FetchFails /\ ~FetchedErrorPage /\ ~Crash
  <2>1. faults' \in {faults, faults + 1} /\ (FetchFails \/ FetchedErrorPage \/ Crash => faults' = faults + 1)
        BY DEF Next, Process, vars, Publish, Tick, Purge, Prepare, Found, FoundArchive, Fetch, Fetched,
               ExtractRefused, Extract, Extracted, ExtractedPart, ReadFails, Read, Write, Finish,
               FetchedErrorPage, FetchFails, WriteFails, Crash, Fault
  <2> QED  BY <2>1 DEF TypeOK
<1>2. /\ sound
      /\ \A d \in Files : d \in applied \/ (pc # "idle" /\ d = curr)
      /\ \A d \in Files : CleanRows(file[d]) \/ (pc \in {"fetch", "extracting"} /\ d = curr)
      /\ \A d \in Hour : archive[d] # None => archived /\ pc \in {"fetch", "extract", "extracting"} /\ d = curr
      /\ pc \in {"extract", "extracting"} => CleanRows(archive[curr]) /\ archive[curr].whole
      BY <1>1 DEF Clean
<1>3. pc # "idle" => curr \in Hour /\ (file[curr] # None <=> curr \in Files)
      BY LastInRun DEF Places
<1>4. ~ReadFails /\ ~ExtractRefused /\ ~ExtractedPart
  <2>1. ASSUME ReadFails PROVE FALSE
    <3>1. pc = "process" /\ Unreadable
          BY <2>1 DEF ReadFails
    <3>2. file[curr].header /\ (prev # None => file[prev].header)
          BY <1>2, <1>3, <3>1, LastInRun DEF Places, CleanRows
    <3> QED  BY <3>1, <3>2 DEF Unreadable, whole
  <2> QED  BY <1>2, <2>1 DEF ExtractRefused, ExtractedPart, CleanRows
<1>5. ~WriteFails
  <2>1. ASSUME WriteFails PROVE \E r \in Batch : r.val = Cut
        BY <1>1, <2>1 DEF WriteFails, Fault, TypeOK
  <2>2. pc = "write" => Batch \subseteq file[curr].rows /\ CleanRows(file[curr])
        BY <1>2, <1>3 DEF Places, Written, Batch
  <2> QED  BY <2>1, <2>2 DEF CleanRows, WriteFails
<1>6. CASE Publish \/ Tick \/ Read \/ Write \/ UNCHANGED vars
  <2>1. /\ UNCHANGED <<archived, disk, curr, applied, sound>>
        /\ pc' = pc \/ (pc = "process" /\ pc' = "write")
        BY <1>6 DEF Publish, Tick, Read, Write, outside, run, vars
  <2> QED  BY <1>2, <2>1 DEF disk, Clean, Files
<1>7. CASE Purge
      BY <1>2, <1>7 DEF Purge, run, Clean, Files
<1>8. CASE Prepare
  <2>1. pc = "idle" /\ pc' = "download" /\ UNCHANGED <<archived, applied, sound>>
        BY <1>8 DEF Prepare, outside
  <2>2. \A d \in Hour : file'[d] \in {file[d], None} /\ archive'[d] \in {archive[d], None}
        BY <1>8 DEF Prepare
  <2> QED  BY <1>2, <2>1, <2>2 DEF Clean, Files
<1>9. CASE Found \/ FoundArchive
      BY <1>2, <1>3, <1>9 DEF Found, FoundArchive, Goto, disk, Clean, Files
<1>10. CASE Fetch
  <2>1. /\ pc = "download" /\ pc' = "fetch" /\ applied' = applied \ {curr} /\ UNCHANGED <<archived, curr, sound>>
        /\ Download(Empty) /\ curr \in Hour /\ curr \notin Files
        BY <1>3, <1>10 DEF Fetch, outside
  <2>2. \A d \in Hour : (d # curr => file'[d] = file[d]) /\ (d # curr \/ ~archived => archive'[d] = archive[d])
        BY <2>1 DEF Download, TypeOK
  <2> QED  BY <1>2, <2>1, <2>2 DEF Clean, Files
<1>11. CASE Fetched
  <2>1. CleanRows(Whole(coming)) /\ Whole(coming).whole /\ Whole(coming) \in Content
        BY <1>11, ReleaseAssumption, ContentTypes DEF Fetched, Places, Whole, CleanRows
  <2>2. /\ pc = "fetch" /\ pc' = (IF archived THEN "extract" ELSE "process")
        /\ UNCHANGED <<archived, curr, applied, sound>> /\ Download(Whole(coming)) /\ curr \in Hour
        BY <1>3, <1>11 DEF Fetched, Goto, outside
  <2>3. CASE archived
    <3>1. file' = file /\ archive'[curr] = Whole(coming) /\ \A d \in Hour : d # curr => archive'[d] = archive[d]
          BY <2>2, <2>3 DEF Download, TypeOK
    <3>2. Files' = Files /\ curr \notin Files
          BY <1>3, <2>2, <2>3, <3>1 DEF Files, Places
    <3> QED  BY <1>2, <2>1, <2>2, <2>3, <3>1, <3>2 DEF Clean
  <2>4. CASE ~archived
    <3>1. /\ archive' = archive /\ file'[curr] = Whole(coming) /\ Files' = Files \cup {curr}
          /\ \A d \in Hour : d # curr => file'[d] = file[d]
          BY <2>1, <2>2, <2>4, FileAppears DEF Download
    <3>2. Files \subseteq Hour /\ \A d \in Hour : archive[d] = None
          BY <1>2, <2>4 DEF Files
    <3> QED  BY <1>2, <2>1, <2>2, <2>4, <3>1, <3>2 DEF Clean
  <2> QED  BY <2>3, <2>4
<1>12. CASE Extract
  <2>1. /\ pc = "extract" /\ pc' = "extracting" /\ applied' = applied \ {curr}
        /\ UNCHANGED <<archived, curr, sound, archive>> /\ file' = [file EXCEPT ![curr] = Empty] /\ curr \in Hour
        BY <1>3, <1>12 DEF Extract, Goto, outside
  <2>2. Files' = Files \cup {curr} /\ \A d \in Hour : d # curr => file'[d] = file[d]
        BY <2>1, ContentTypes, FileAppears
  <2> QED  BY <1>2, <2>1, <2>2 DEF Clean, Files
<1>13. CASE Extracted
  <2>1. /\ pc = "extracting" /\ pc' = "process" /\ UNCHANGED <<curr, applied, sound>>
        /\ file' = [file EXCEPT ![curr] = archive[curr]] /\ archive' = [archive EXCEPT ![curr] = None]
        /\ curr \in Hour /\ archive[curr] \in Content
        BY <1>3, <1>13, ContentTypes DEF Extracted, Goto, Places, TypeOK
  <2>2. /\ Files' = Files \cup {curr} /\ file'[curr] = archive[curr]
        /\ \A d \in Hour : d # curr => file'[d] = file[d]
        BY <2>1, FileAppears
  <2>3. \A d \in Hour : archive'[d] # None => d # curr /\ archive'[d] = archive[d]
        BY <2>1 DEF TypeOK
  <2> QED  BY <1>2, <2>1, <2>2, <2>3 DEF Clean, Files
<1>14. CASE Finish
  <2>1. /\ pc = "write" /\ pc' = "idle" /\ applied' = applied \cup {curr} /\ UNCHANGED <<disk, curr>>
        /\ sound' = (whole \/ (sound /\ prev \in applied))
        BY <1>14 DEF Finish, Over
  <2>2. prev # None => prev \in Files /\ prev # curr
        BY <2>1, LastInRun DEF Places, Files, Hour
  <2>3. sound'
        BY <1>2, <2>1, <2>2 DEF whole
  <2> QED  BY <1>2, <2>1, <2>3 DEF Clean, Files, disk
<1> QED
    BY <1>1, <1>4, <1>5, <1>6, <1>7, <1>8, <1>9, <1>10, <1>11, <1>12, <1>13, <1>14 DEF Next, Process

\* As long as nothing fails, a diff is only taken against a file that has been
\* applied, whenever hours begin and versions come out.
THEOREM NoLossWithoutFailure == Spec => []LossNeedsFailure
<1>1. Init => Clean
      BY DEF Init, Clean, Files
<1>2. Clean => LossNeedsFailure
      BY DEF Clean, LossNeedsFailure
<1> QED  BY <1>1, <1>2, CleanNext, Invariance, PTL DEF Spec
-----------------------------------------------------------------------------
(* The database only moves forward.                                        *)

\* Rows come from versions that were published.
FromRelease(rows) ==
    \A r \in rows : r.val = Cut \/ \E u \in Version : u <= published /\ r \in Release[u]

Origin ==
    /\ \A d \in Hour : file[d] # None => FromRelease(file[d].rows)
    /\ \A d \in Hour : archive[d] # None => FromRelease(archive[d].rows)
    /\ \A k \in Key : db[k] \in {None, Cut}
                      \/ \E u \in Version : u <= published /\ [key |-> k, val |-> db[k]] \in Release[u]
    /\ pc = "fetch" => coming <= published

\* Writing these rows takes nothing back.
Ahead(rows) ==
    \A r \in rows : r.val = Cut \/ db[r.key] \in {None, Cut} \/ db[r.key] <= r.val

\* An archive that a run may still open is newer than each file, and the last
\* of those is stale by then: a run does not write older rows after newer ones.
Newest(d) == archive[d] # None /\ \A e \in Files : e < d
ArchivesInTime ==
    /\ \A d \in Files : d <= hour
    /\ \A d \in Hour : archive[d] # None => d <= hour /\ (pc # "idle" => d <= curr)
    /\ \A d, e \in Hour : Newest(d) /\ IsLast(e) => e + Lifetime <= hour
    /\ pc # "idle" =>
         /\ curr <= hour
         /\ file[curr] = None => prev = None \/ prev + Lifetime <= hour

\* What the next run may write, or the one under way, is ahead of the database.
AllAhead ==
    /\ \A d \in Hour : IsLast(d) => Ahead(file[d].rows)
    /\ \A d \in Hour : Newest(d) => Ahead(archive[d].rows)
    /\ pc = "fetch" => Ahead(Release[coming])
    /\ pc = "extracting" => Ahead(archive[curr].rows)

Forward == Origin /\ ArchivesInTime /\ AllAhead

\* A version that is not out of date is ahead of what was written from others.
LEMMA ReleaseIsAhead ==
    ASSUME TypeOK, Origin, NEW v \in Version, published <= v
    PROVE  Ahead(Release[v])
<1> SUFFICES ASSUME NEW r \in Release[v], db[r.key] \notin {None, Cut}
             PROVE  db[r.key] <= r.val
    BY DEF Ahead
<1>1. r.key \in Key
      BY ReleaseAssumption DEF Row
<1>2. PICK u \in Version : u <= published /\ [key |-> r.key, val |-> db[r.key]] \in Release[u]
      BY <1>1 DEF Origin
<1>3. u <= v
      BY <1>2 DEF TypeOK, Version
<1> QED  BY <1>2, <1>3, VersionAssumption

\* Half a file has rows of the whole, or cut ones.
LEMMA PartialRows ==
    ASSUME NEW c \in Content, NEW p \in Partial(c), NEW r \in p.rows
    PROVE  r.val = Cut \/ r \in c.rows
<1> DEFINE before(k) == {q \in c.rows : q.key < k}
<1>1. CASE p = Empty
      BY <1>1 DEF Empty
<1>2. CASE p = [header |-> TRUE, rows |-> c.rows, whole |-> FALSE]
      BY <1>2
<1>3. ASSUME NEW q \in c.rows, p = [header |-> TRUE, rows |-> before(q.key), whole |-> FALSE]
      PROVE  r \in c.rows
      BY <1>3
<1>4. ASSUME NEW q \in c.rows,
             p = [header |-> TRUE, rows |-> before(q.key) \cup {[key |-> q.key, val |-> Cut]}, whole |-> FALSE]
      PROVE  r.val = Cut \/ r \in c.rows
      BY <1>4
<1> QED  BY <1>1, <1>2, <1>3, <1>4 DEF Partial

\* What a step may put on disk, of today: nothing else changes there but that
\* archives go.
Puts(c) ==
    \/ file' = [file EXCEPT ![curr] = c] /\ \A d \in Hour : archive'[d] \in {archive[d], None}
    \/ archive' = [archive EXCEPT ![curr] = c] /\ file' = file

\* And where it gets it: a version, or an archive.
Source(c) ==
    \/ c = Empty
    \/ pc = "fetch" /\ c \in {Whole(coming)} \cup Partial(Whole(coming))
    \/ pc = "extracting" /\ c \in {archive[curr]} \cup Partial(archive[curr])

LEMMA SourceRows ==
    ASSUME TypeOK, Places, Origin, NEW c, Source(c)
    PROVE  /\ c \in Content
           /\ FromRelease(c.rows)
           /\ \/ c.rows = {}
              \/ pc = "fetch" /\ (Ahead(Release[coming]) => Ahead(c.rows))
              \/ pc = "extracting" /\ (Ahead(archive[curr].rows) => Ahead(c.rows))
<1>1. CASE c = Empty
      BY <1>1, ContentTypes DEF Empty, FromRelease
<1>2. CASE pc = "fetch" /\ c \in {Whole(coming)} \cup Partial(Whole(coming))
  <2>1. coming \in Version /\ coming <= published /\ Whole(coming) \in Content
        BY <1>2, ContentTypes DEF Places, Origin
  <2>2. Whole(coming).rows = Release[coming] /\ c \in Content
        BY <1>2, <2>1, ContentTypes DEF Whole
  <2>3. \A r \in c.rows : r.val = Cut \/ r \in Release[coming]
        BY <1>2, <2>1, <2>2, PartialRows
  <2> QED  BY <1>2, <2>1, <2>2, <2>3 DEF FromRelease, Ahead
<1>3. CASE pc = "extracting" /\ c \in {archive[curr]} \cup Partial(archive[curr])
  <2>1. curr \in Hour /\ archive[curr] # None /\ archive[curr] \in Content
        BY <1>3, ContentTypes DEF Places, TypeOK
  <2>2. c \in Content
        BY <1>3, <2>1, ContentTypes
  <2>3. \A r \in c.rows : r.val = Cut \/ r \in archive[curr].rows
        BY <1>3, <2>1, PartialRows
  <2>4. FromRelease(archive[curr].rows)
        BY <2>1 DEF Origin
  <2> QED  BY <1>3, <2>2, <2>3, <2>4 DEF FromRelease, Ahead
<1> QED  BY <1>1, <1>2, <1>3 DEF Source

\* A step changes the disk in no other way than these.
LEMMA DiskSteps ==
    ASSUME TypeOK, Places, Next
    PROVE  \/ UNCHANGED disk
           \/ Purge
           \/ Prepare
           \/ pc # "idle" /\ curr \in Hour /\ \E c : Source(c) /\ Puts(c)
<1> DEFINE Put == pc # "idle" /\ curr \in Hour /\ \E c : Source(c) /\ Puts(c)
<1>1. ASSUME NEW c, Download(c) PROVE Puts(c)
      BY <1>1 DEF Download, Puts
<1>2. CASE Fetch \/ Fetched \/ FetchedErrorPage
  <2>1. pc # "idle" /\ curr \in Hour
        BY <1>2 DEF Fetch, Fetched, FetchedErrorPage, Places
  <2>2. \E c : Source(c) /\ Download(c)
        BY <1>2 DEF Fetch, Fetched, FetchedErrorPage, Source
  <2> QED  BY <1>1, <2>1, <2>2
<1>3. CASE (FetchFails \/ Crash) /\ pc = "fetch"
  <2>1. \E c : Source(c) /\ Download(c)
        BY <1>3 DEF FetchFails, Crash, Source
  <2> QED  BY <1>1, <1>3, <2>1 DEF Places
<1>4. CASE Extract
  <2>1. pc # "idle" /\ curr \in Hour /\ Source(Empty) /\ Puts(Empty)
        BY <1>4 DEF Extract, Places, Source, Puts
  <2> QED  BY <2>1
<1>5. CASE Extracted \/ ExtractedPart \/ (Crash /\ pc = "extracting")
  <2>1. pc = "extracting" /\ curr \in Hour
        BY <1>5 DEF Extracted, ExtractedPart, Places
  <2>2. \A d \in Hour : archive'[d] \in {archive[d], None}
        BY <1>5, <2>1 DEF Extracted, ExtractedPart, Crash, TypeOK
  <2>3. \E c : Source(c) /\ file' = [file EXCEPT ![curr] = c]
        BY <1>5, <2>1 DEF Extracted, ExtractedPart, Crash, Source
  <2> QED  BY <2>1, <2>2, <2>3 DEF Puts
<1>6. CASE \/ Publish \/ Tick \/ Found \/ FoundArchive \/ ExtractRefused \/ ReadFails \/ Read
           \/ Write \/ WriteFails \/ Finish
      BY <1>6 DEF Publish, Tick, Found, FoundArchive, ExtractRefused, ReadFails, Read, Write,
                  WriteFails, Finish
<1>7. CASE (FetchFails /\ pc # "fetch") \/ (Crash /\ pc \notin {"fetch", "extracting"})
      BY <1>7 DEF FetchFails, Crash
<1> QED  BY <1>2, <1>3, <1>4, <1>5, <1>6, <1>7 DEF Next, Process

\* The database changes by an upsert of rows of today's file, or not at all.
LEMMA DatabaseSteps ==
    ASSUME IInv, Next
    PROVE  \/ UNCHANGED db
           \/ /\ pc = "write" /\ pc' \in {"idle", "write"} /\ UNCHANGED disk
              /\ curr \in Hour /\ curr \in Files
              /\ \A k \in Key : db'[k] = db[k]
                     \/ \E r \in file[curr].rows : r.key = k /\ db'[k] = r.val
<1>1. CASE (Write \/ WriteFails) /\ Upsert(Batch)
  <2>1. pc = "write" /\ pc' \in {"idle", "write"} /\ UNCHANGED disk
        BY <1>1 DEF Write, WriteFails, Over
  <2>2. curr \in Hour /\ curr \in Files
        BY <2>1 DEF IInv, Places, Files
  <2>3. Batch \subseteq file[curr].rows /\ \A r \in Batch : db'[r.key] = r.val
        BY <1>1, <2>1, UpsertRows
  <2>4. ASSUME NEW k \in Key
        PROVE  db'[k] = db[k] \/ \E r \in file[curr].rows : r.key = k /\ db'[k] = r.val
    <3>1. CASE \E r \in Batch : r.key = k
          BY <2>3, <3>1
    <3>2. CASE ~ \E r \in Batch : r.key = k
          BY <1>1, <3>2 DEF Upsert
    <3> QED  BY <3>1, <3>2
  <2> QED  BY <2>1, <2>2, <2>4
<1> QED
    BY <1>1
    DEF Next, Process, Publish, Tick, Purge, Prepare, Found, FoundArchive, Fetch, Fetched,
        ExtractRefused, Extract, Extracted, ExtractedPart, ReadFails, Read, Write, Finish,
        FetchedErrorPage, FetchFails, WriteFails, Crash

LEMMA PublishedGrows ==
    ASSUME TypeOK, Next
    PROVE  published' \in Version /\ published <= published' /\ hour' \in Hour /\ hour <= hour'
<1> QED
    BY BoundAssumption
    DEF TypeOK, Version, Hour, Next, Process, Publish, Tick, Purge, Prepare, Found, FoundArchive,
        Fetch, Fetched, ExtractRefused, Extract, Extracted, ExtractedPart, ReadFails, Read, Write,
        Finish, FetchedErrorPage, FetchFails, WriteFails, Crash, outside

LEMMA OriginNext == ASSUME IInv, Origin, Next PROVE Origin'
<1> USE DEF IInv
<1>1. published \in Version /\ published' \in Version /\ published <= published'
      BY PublishedGrows DEF TypeOK
<1>2. \A u \in Version : u <= published => u <= published'
      BY <1>1 DEF Version
<1>4. \A d \in Hour : /\ file'[d] # None => FromRelease(file'[d].rows)
                      /\ archive'[d] # None => FromRelease(archive'[d].rows)
  <2>1. CASE UNCHANGED disk
        BY <2>1 DEF disk, Origin
  <2>2. CASE Purge
        BY <2>2 DEF Purge
  <2>3. CASE Prepare
    <3>1. \A d \in Hour : file'[d] \in {file[d], None} /\ archive'[d] \in {archive[d], None}
          BY <2>3 DEF Prepare
    <3> QED  BY <3>1 DEF Origin
  <2>4. ASSUME NEW c, curr \in Hour, Source(c), Puts(c)
        PROVE  \A d \in Hour : /\ file'[d] # None => FromRelease(file'[d].rows)
                               /\ archive'[d] # None => FromRelease(archive'[d].rows)
    <3>1. FromRelease(c.rows)
          BY <2>4, SourceRows
    <3>2. \A d \in Hour : file'[d] \in {file[d], None, c} /\ archive'[d] \in {archive[d], None, c}
          BY <2>4 DEF Puts, TypeOK
    <3> QED  BY <3>1, <3>2 DEF Origin
  <2> QED  BY <2>1, <2>2, <2>3, <2>4, DiskSteps
<1>5. \A d \in Hour : (file[d] # None => FromRelease(file[d].rows))'
      BY <1>2, <1>4 DEF FromRelease
<1>6. \A d \in Hour : (archive[d] # None => FromRelease(archive[d].rows))'
      BY <1>2, <1>4 DEF FromRelease
<1>7. ASSUME NEW k \in Key
      PROVE  db'[k] \in {None, Cut}
             \/ \E u \in Version : u <= published' /\ [key |-> k, val |-> db'[k]] \in Release[u]
  <2>1. CASE db'[k] = db[k]
        BY <1>2, <2>1 DEF Origin
  <2>2. CASE db'[k] # db[k]
    <3>1. PICK r \in file[curr].rows : r.key = k /\ db'[k] = r.val /\ curr \in Hour /\ curr \in Files
          BY <2>2, DatabaseSteps
    <3>2. file[curr] # None /\ file[curr] \in Content
          BY <3>1, ContentTypes DEF Files, TypeOK
    <3>3. r = [key |-> k, val |-> db'[k]]
          BY <3>1, <3>2 DEF Content, Row
    <3>4. r.val = Cut \/ \E u \in Version : u <= published /\ r \in Release[u]
          BY <3>1, <3>2 DEF Origin, FromRelease
    <3> QED  BY <1>2, <3>1, <3>3, <3>4
  <2> QED  BY <2>1, <2>2
<1>8. pc' = "fetch" => coming' <= published'
  <2>1. CASE Fetch
        BY <1>1, <2>1 DEF Fetch, outside, Version
  <2>2. CASE ~Fetch
    <3>1. pc' = "fetch" => pc = "fetch" /\ coming' = coming
          BY <2>2
          DEF Next, Process, Publish, Tick, Purge, Prepare, Found, FoundArchive, Fetched,
              ExtractRefused, Extract, Extracted, ExtractedPart, ReadFails, Read, Write, Finish,
              FetchedErrorPage, FetchFails, WriteFails, Crash, Over, Goto, run
    <3>2. pc = "fetch" => coming \in Version
          BY DEF Places
    <3> QED  BY <1>2, <3>1, <3>2 DEF Origin
  <2> QED  BY <2>1, <2>2
<1> QED  BY <1>5, <1>6, <1>7, <1>8 DEF Origin

\* The name of today's file, and the steps that choose it.
LEMMA RunStays ==
    ASSUME Next, ~Prepare
    PROVE  prev' = prev /\ curr' = curr /\ (pc' # "idle" => pc # "idle")
<1> QED
    BY DEF Next, Process, Publish, Tick, Purge, Found, FoundArchive, Fetch, Fetched,
           ExtractRefused, Extract, Extracted, ExtractedPart, ReadFails, Read, Write, Finish,
           FetchedErrorPage, FetchFails, WriteFails, Crash, Over, Goto, run

\* Something is put on disk of today: today's file is last once it is there,
\* and no archive is newer then.
LEMMA PutPlaces ==
    ASSUME IInv, ArchivesInTime, pc # "idle", curr \in Hour, NEW c \in Content, Puts(c)
    PROVE  \/ /\ Files' = Files \cup {curr} /\ file'[curr] = c
              /\ \A d \in Hour : IsLast(d)' => d = curr
              /\ \A d \in Hour : ~Newest(d)'
              /\ \A d \in Hour : archive'[d] # None => archive[d] # None
           \/ /\ file' = file /\ Files' = Files /\ archive'[curr] = c
              /\ \A d \in Hour : d # curr => archive'[d] = archive[d]
<1> USE DEF IInv
<1>1. Files \subseteq Hour /\ Hour \subseteq Nat
      BY DEF Files, Hour
<1>2. CASE file' = [file EXCEPT ![curr] = c] /\ \A d \in Hour : archive'[d] \in {archive[d], None}
  <2>1. Files' = Files \cup {curr} /\ file'[curr] = c
        BY <1>2, FileAppears
  <2>2. \A d \in Files : d <= curr
        BY <1>1 DEF Places
  <2>3. \A d \in Hour : IsLast(d)' => d = curr
        BY <1>1, <2>1, <2>2 DEF IsLast
  <2>4. \A d \in Hour : archive'[d] # None => archive[d] # None /\ d <= curr
        BY <1>2 DEF ArchivesInTime
  <2>5. \A d \in Hour : ~Newest(d)'
        BY <1>1, <2>1, <2>4 DEF Newest
  <2> QED  BY <2>1, <2>3, <2>4, <2>5
<1>3. CASE archive' = [archive EXCEPT ![curr] = c] /\ file' = file
      BY <1>3 DEF Files, TypeOK
<1> QED  BY <1>2, <1>3 DEF Puts

\* Prepare leaves the last file where it is, and takes it for today's only
\* if no archive is newer.
LEMMA PreparedInTime ==
    ASSUME IInv, ArchivesInTime, Prepare
    PROVE  /\ Files' \subseteq Files
           /\ \A d \in Hour : archive'[d] # None => archive'[d] = archive[d] /\ d <= curr'
           /\ \A d \in Hour : IsLast(d)' => IsLast(d) /\ file'[d] = file[d]
           /\ \A d \in Hour : Newest(d)' => Newest(d)
           /\ curr' <= hour
           /\ file'[curr'] = None => prev' = None \/ prev' + Lifetime <= hour
<1> USE DEF IInv
<1>1. Files \in SUBSET Hour /\ Hour \subseteq Nat /\ None \notin Hour /\ hour \in Hour
      BY NoneAssumption DEF Files, Hour, TypeOK
<1>2. IF Files = {} THEN Last = None ELSE Last \in Files /\ \A d \in Files : d <= Last
      BY <1>1, LatestIsLast DEF Last
<1>3. \A d \in Hour : file'[d] \in {file[d], None} /\ archive'[d] \in {archive[d], None}
      BY DEF Prepare
<1>4. Files' \subseteq Files
      BY <1>3 DEF Files
<1>5. Files # {} => Last \in Files' /\ file'[Last] = file[Last]
  <2> SUFFICES ASSUME Files # {} PROVE Last \in Files' /\ file'[Last] = file[Last]
      OBVIOUS
  <2>1. Last \in Files /\ Last \in Hour
        BY <1>1, <1>2
  <2>2. prev' = Last \/ curr' = Last
        BY DEF Prepare
  <2>3. file'[Last] = file[Last]
        BY <2>1, <2>2 DEF Prepare
  <2> QED  BY <2>1, <2>3 DEF Files
<1>6. ASSUME NEW d \in Hour, IsLast(d)' PROVE IsLast(d) /\ file'[d] = file[d]
  <2>1. d \in Files /\ Files # {}
        BY <1>4, <1>6 DEF IsLast
  <2>2. Last <= d /\ d <= Last
        BY <1>2, <1>5, <1>6, <2>1 DEF IsLast
  <2>3. Last \in Nat /\ d \in Nat
        BY <1>1, <1>2, <2>1
  <2>4. d = Last
        BY <2>2, <2>3
  <2> QED  BY <1>2, <1>5, <2>1, <2>4 DEF IsLast
<1>7. ASSUME NEW d \in Hour, Newest(d)' PROVE Newest(d)
  <2>1. archive[d] # None
        BY <1>3, <1>7 DEF Newest
  <2>2. CASE Files = {}
        BY <2>1, <2>2 DEF Newest
  <2>3. CASE Files # {}
    <3>1. Last < d
          BY <1>5, <1>7, <2>3 DEF Newest
    <3>2. \A e \in Files : e \in Nat /\ e <= Last
          BY <1>1, <1>2, <2>3
    <3>3. d \in Nat /\ Last \in Nat
          BY <1>1, <1>2, <2>3
    <3>4. \A e \in Files : e < d
          BY <3>1, <3>2, <3>3
    <3> QED  BY <2>1, <3>4 DEF Newest
  <2> QED  BY <2>2, <2>3
<1>8. CASE isStale(Last)
  <2>1. curr' = hour /\ prev' = Last
        BY <1>8 DEF Prepare
  <2>2. \A d \in Hour : archive'[d] # None => archive'[d] = archive[d] /\ d <= curr'
        BY <1>3, <2>1 DEF ArchivesInTime
  <2>3. curr' <= hour
        BY <1>1, <2>1
  <2>4. prev' = None \/ prev' + Lifetime <= hour
        BY <1>8, <2>1 DEF isStale
  <2> QED  BY <1>4, <1>6, <1>7, <2>2, <2>3, <2>4
<1>9. CASE ~isStale(Last)
  <2>1. curr' = Last /\ Last \in Files /\ Files # {}
        BY <1>2, <1>9 DEF Prepare, isStale
  <2>2. Last \in Hour /\ IsLast(Last)
        BY <1>1, <1>2, <2>1 DEF IsLast
  <2>3. ASSUME NEW d \in Hour, archive[d] # None PROVE d <= Last
    <3>1. ~Newest(d)
          BY <1>9, <2>2 DEF ArchivesInTime, isStale
    <3>2. PICK e \in Files : ~(e < d)
          BY <2>3, <3>1 DEF Newest
    <3> QED  BY <1>1, <1>2, <2>1, <3>2
  <2>4. curr' <= hour
        BY <2>1 DEF ArchivesInTime
  <2>5. file'[curr'] # None
        BY <1>5, <2>1 DEF Files
  <2> QED  BY <1>3, <1>4, <1>6, <1>7, <2>1, <2>3, <2>4, <2>5
<1> QED  BY <1>8, <1>9

LEMMA InTimeNext == ASSUME IInv, ArchivesInTime, Origin, Next PROVE ArchivesInTime'
<1> USE DEF IInv
<1>1. hour \in Hour /\ hour' \in Hour /\ hour <= hour'
      BY PublishedGrows DEF TypeOK
<1>2. Files \subseteq Hour /\ Hour \subseteq Nat /\ Lifetime \in Nat
      BY LifetimeAssumption DEF Files, Hour
<1>3. CASE UNCHANGED disk /\ ~Prepare
  <2>1. prev' = prev /\ curr' = curr /\ (pc' # "idle" => pc # "idle")
        BY <1>3, RunStays
  <2>2. file' = file /\ archive' = archive /\ Files' = Files
        BY <1>3 DEF disk, Files
  <2>3. \A d \in Hour : (Newest(d)' <=> Newest(d)) /\ (IsLast(d)' <=> IsLast(d))
        BY <2>2 DEF Newest, IsLast
  <2>4. \A d \in Hour : (d <= hour => d <= hour') /\ (d + Lifetime <= hour => d + Lifetime <= hour')
        BY <1>1, <1>2
  <2>5. pc # "idle" => curr \in Hour /\ (prev = None \/ prev \in Hour)
        BY <1>2 DEF Places
  <2> QED  BY <1>2, <2>1, <2>2, <2>3, <2>4, <2>5 DEF ArchivesInTime
<1>4. CASE Purge
  <2>1. Files' = {} /\ pc' = "idle" /\ \A d \in Hour : archive'[d] = None
        BY <1>4 DEF Purge, Files, Places, run
  <2> QED  BY <2>1 DEF ArchivesInTime, Newest
<1>5. CASE Prepare
  <2>1. hour' = hour /\ pc = "idle"
        BY <1>5 DEF Prepare, outside
  <2>2. \A d \in Hour : archive'[d] # None => archive[d] # None
        BY <1>5 DEF Prepare
  <2> QED  BY <1>2, <1>5, <2>1, <2>2, PreparedInTime DEF ArchivesInTime
<1>6. ASSUME pc # "idle", curr \in Hour, NEW c, Source(c), Puts(c), ~Purge, ~Prepare
      PROVE  ArchivesInTime'
  <2>1. c \in Content /\ c # None
        BY <1>6, SourceRows, ContentTypes
  <2>2. prev' = prev /\ curr' = curr
        BY <1>6, RunStays
  <2>3. \A d \in Hour : (d <= hour => d <= hour') /\ (d + Lifetime <= hour => d + Lifetime <= hour')
        BY <1>1, <1>2
  <2>4. curr <= hour' /\ (prev = None \/ prev \in Hour)
        BY <1>2, <1>6, <2>3 DEF ArchivesInTime, Places
  <2>5. CASE /\ Files' = Files \cup {curr} /\ file'[curr] = c
             /\ \A d \in Hour : IsLast(d)' => d = curr
             /\ \A d \in Hour : ~Newest(d)'
             /\ \A d \in Hour : archive'[d] # None => archive[d] # None
        BY <1>2, <1>6, <2>1, <2>2, <2>3, <2>4, <2>5 DEF ArchivesInTime
  <2>6. CASE /\ file' = file /\ Files' = Files /\ archive'[curr] = c
             /\ \A d \in Hour : d # curr => archive'[d] = archive[d]
    <3>1. \A d \in Hour : IsLast(d)' <=> IsLast(d)
          BY <2>6 DEF IsLast
    <3>2. \A d \in Hour : d # curr => (Newest(d)' <=> Newest(d))
          BY <2>6 DEF Newest
    <3>3. ASSUME NEW d \in Hour, d = curr, Newest(d)', NEW e \in Hour, IsLast(e)
          PROVE  e + Lifetime <= hour
      <4>1. curr \notin Files
        <5>1. \A g \in Files : g < d
              BY <2>6, <3>3 DEF Newest
        <5>2. ~(d < d)
              BY <1>2
        <5> QED  BY <3>3, <5>1, <5>2
      <4>2. file[curr] = None
            BY <1>6, <4>1 DEF Files
      <4>3. e = prev /\ prev # None
            BY <1>6, <3>3, <4>1, LastInRun, NoneAssumption
      <4> QED  BY <1>6, <4>2, <4>3 DEF ArchivesInTime
    <3>4. \A d, e \in Hour : Newest(d)' /\ IsLast(e)' => e + Lifetime <= hour'
      <4> SUFFICES ASSUME NEW d \in Hour, NEW e \in Hour, Newest(d)', IsLast(e)'
                   PROVE  e + Lifetime <= hour
          BY <2>3
      <4>1. IsLast(e)
            BY <3>1
      <4>2. CASE d = curr
            BY <3>3, <4>1, <4>2
      <4>3. CASE d # curr
            BY <3>2, <4>1, <4>3 DEF ArchivesInTime
      <4> QED  BY <4>2, <4>3
    <3>5. \A d \in Hour : archive'[d] # None => d <= hour' /\ d <= curr
          BY <1>2, <1>6, <2>3, <2>4, <2>6 DEF ArchivesInTime
    <3>6. (\A d \in Files' : d <= hour') /\ (file'[curr] = None => prev = None \/ prev + Lifetime <= hour')
          BY <1>2, <1>6, <2>3, <2>4, <2>6 DEF ArchivesInTime
    <3> QED  BY <2>2, <2>4, <3>4, <3>5, <3>6 DEF ArchivesInTime
  <2> QED  BY <1>6, <2>1, <2>5, <2>6, PutPlaces
<1> QED  BY <1>3, <1>4, <1>5, <1>6, DiskSteps

\* Rows of today's file are written: what is in the file stays ahead.
LEMMA AheadOfUpsert ==
    ASSUME IInv, ArchivesInTime, AllAhead, curr \in Hour, curr \in Files, pc = "write",
           pc' \in {"idle", "write"}, UNCHANGED disk, curr' = curr,
           \A k \in Key : db'[k] = db[k] \/ \E r \in file[curr].rows : r.key = k /\ db'[k] = r.val
    PROVE  AllAhead'
<1> USE DEF IInv
<1>1. Files' = Files /\ file' = file /\ archive' = archive
      BY DEF disk, Files
<1>2. \A d \in Hour : IsLast(d)' => d = curr
      BY <1>1, LastInRun DEF IsLast
<1>3. \A d \in Hour : ~Newest(d)'
  <2>1. \A d \in Hour : archive[d] # None => d <= curr
        BY DEF ArchivesInTime
  <2> QED  BY <1>1, <2>1 DEF Newest, Hour
<1>4. Ahead(file[curr].rows)
      BY LastInRun DEF AllAhead
<1>5. file[curr] \in Content /\ Unique(file[curr].rows)
      BY ContentTypes DEF Files, TypeOK, UniqueKeys
<1>6. ASSUME NEW r \in file[curr].rows, db'[r.key] # db[r.key] PROVE db'[r.key] = r.val
  <2>1. r.key \in Key
        BY <1>5 DEF Content, Row
  <2>2. PICK q \in file[curr].rows : q.key = r.key /\ db'[r.key] = q.val
        BY <1>6, <2>1
  <2> QED  BY <1>5, <2>2 DEF Unique
<1>7. \A r \in file[curr].rows : r.val \in Int
      BY <1>5 DEF Content, Row, Version, Cut
<1>8. Ahead(file[curr].rows)'
  <2> SUFFICES ASSUME NEW r \in file[curr].rows
               PROVE  r.val = Cut \/ db'[r.key] \in {None, Cut} \/ db'[r.key] <= r.val
      BY <1>1 DEF Ahead
  <2> QED  BY <1>4, <1>6, <1>7 DEF Ahead
<1> QED  BY <1>1, <1>2, <1>3, <1>8 DEF AllAhead

LEMMA AheadNext == ASSUME IInv, Forward, Next PROVE AllAhead'
<1> USE DEF IInv, Forward
<1>1. CASE UNCHANGED db
  <2>1. ASSUME NEW rows PROVE Ahead(rows)' <=> Ahead(rows)
        BY <1>1 DEF Ahead
  <2>2. pc' = "fetch" => Ahead(Release[coming])'
    <3>1. CASE Fetch
      <4>1. coming' = published /\ published \in Version
            BY <3>1 DEF Fetch, TypeOK
      <4>2. published <= published
            BY <4>1 DEF Version
      <4>3. Ahead(Release[published])
            BY <4>1, <4>2, ReleaseIsAhead
      <4> QED  BY <1>1, <4>1, <4>3 DEF Ahead
    <3>2. CASE ~Fetch
      <4>1. pc' = "fetch" => pc = "fetch" /\ coming' = coming
            BY <3>2
            DEF Next, Process, Publish, Tick, Purge, Prepare, Found, FoundArchive, Fetched,
                ExtractRefused, Extract, Extracted, ExtractedPart, ReadFails, Read, Write, Finish,
                FetchedErrorPage, FetchFails, WriteFails, Crash, Over, Goto, run
      <4> QED  BY <1>1, <4>1 DEF AllAhead, Ahead
    <3> QED  BY <3>1, <3>2
  <2>3. pc' = "extracting" => Ahead(archive[curr].rows)'
    <3>1. CASE Extract
      <4>1. curr \in Hour /\ file[curr] = None /\ archive[curr] # None /\ UNCHANGED <<archive, curr>>
            BY <3>1 DEF Extract, Places, Goto
      <4>2. Newest(curr)
            BY <3>1, <4>1 DEF Extract, Newest, Places, Files
      <4> QED  BY <1>1, <4>1, <4>2 DEF AllAhead, Ahead
    <3>2. CASE ~Extract
      <4>1. pc' = "extracting" => pc = "extracting" /\ curr' = curr /\ archive' = archive
            BY <3>2
            DEF Next, Process, Publish, Tick, Purge, Prepare, Found, FoundArchive, Fetch, Fetched,
                ExtractRefused, Extracted, ExtractedPart, ReadFails, Read, Write, Finish,
                FetchedErrorPage, FetchFails, WriteFails, Crash, Over, Goto, run, disk
      <4> QED  BY <1>1, <4>1 DEF AllAhead, Ahead
    <3> QED  BY <3>1, <3>2
  <2>4. /\ \A d \in Hour : IsLast(d)' => Ahead(file[d].rows)'
        /\ \A d \in Hour : Newest(d)' => Ahead(archive[d].rows)'
    <3>1. CASE UNCHANGED disk
          BY <1>1, <3>1 DEF disk, AllAhead, Ahead, IsLast, Newest, Files
    <3>2. CASE Purge
      <4>1. Files' = {} /\ \A d \in Hour : archive'[d] = None
            BY <3>2 DEF Purge, Files
      <4> QED  BY <4>1 DEF IsLast, Newest
    <3>3. CASE Prepare
      <4>1. /\ \A d \in Hour : archive'[d] # None => archive'[d] = archive[d]
            /\ \A d \in Hour : IsLast(d)' => IsLast(d) /\ file'[d] = file[d]
            /\ \A d \in Hour : Newest(d)' => Newest(d)
            BY <3>3, PreparedInTime
      <4>2. \A d \in Hour : Newest(d)' => archive'[d] = archive[d]
            BY <4>1 DEF Newest
      <4> QED  BY <1>1, <4>1, <4>2 DEF AllAhead, Ahead
    <3>4. ASSUME pc # "idle", curr \in Hour, NEW c, Source(c), Puts(c)
          PROVE  /\ \A d \in Hour : IsLast(d)' => Ahead(file[d].rows)'
                 /\ \A d \in Hour : Newest(d)' => Ahead(archive[d].rows)'
      <4>1. c \in Content /\ (c.rows = {} \/ Ahead(c.rows))
            BY <3>4, SourceRows DEF AllAhead
      <4>2. Ahead(c.rows)
            BY <4>1 DEF Ahead
      <4>3. CASE /\ file'[curr] = c
                 /\ \A d \in Hour : IsLast(d)' => d = curr
                 /\ \A d \in Hour : ~Newest(d)'
            BY <1>1, <4>2, <4>3 DEF Ahead
      <4>4. CASE /\ file' = file /\ Files' = Files /\ archive'[curr] = c
                 /\ \A d \in Hour : d # curr => archive'[d] = archive[d]
        <5>1. \A d \in Hour : IsLast(d)' => IsLast(d)
              BY <4>4 DEF IsLast
        <5>2. \A d \in Hour : d # curr /\ Newest(d)' => Newest(d)
              BY <4>4 DEF Newest
        <5> QED  BY <1>1, <4>2, <4>4, <5>1, <5>2 DEF AllAhead, Ahead
      <4> QED  BY <3>4, <4>1, <4>3, <4>4, PutPlaces
    <3> QED  BY <3>1, <3>2, <3>3, <3>4, DiskSteps
  <2> QED  BY <2>2, <2>3, <2>4 DEF AllAhead
<1>2. CASE ~ UNCHANGED db
  <2>1. pc = "write"
        BY <1>2, DatabaseSteps
  <2>2. ~Prepare
        BY <2>1 DEF Prepare
  <2>3. curr' = curr
        BY <2>2, RunStays
  <2> QED  BY <1>2, <2>3, DatabaseSteps, AheadOfUpsert
<1> QED  BY <1>1, <1>2

LEMMA ForwardInit == Init => Forward
<1> SUFFICES ASSUME Init PROVE Forward
    OBVIOUS
<1>1. Files = {} /\ \A d \in Hour : archive[d] = None
      BY DEF Init, Files
<1> QED  BY <1>1 DEF Init, Forward, Origin, ArchivesInTime, AllAhead, IsLast, Newest, Files

LEMMA ForwardNext == IInv /\ Forward /\ [Next]_vars => Forward'
<1> SUFFICES ASSUME IInv, Forward, [Next]_vars PROVE Forward'
    OBVIOUS
<1>1. CASE Next
      BY <1>1, OriginNext, InTimeNext, AheadNext DEF Forward
<1>2. CASE UNCHANGED vars
      BY <1>2
      DEF vars, outside, disk, run, Forward, Origin, ArchivesInTime, AllAhead, Ahead, FromRelease,
          IsLast, Newest, Files
<1> QED  BY <1>1, <1>2

\* The database never takes a row back to what an older version had, whatever
\* files and archives failed runs, crashes and purges leave behind, and in
\* whichever order versions and hours come.
THEOREM NothingIsTakenBack == Spec => OnlyForward
<1>1. ASSUME IInv, Forward, [Next]_vars, NEW k \in Key, db[k] \notin {None, Cut}, db'[k] # db[k]
      PROVE  db'[k] \in {Cut} \/ db'[k] > db[k]
  <2>1. Next
        BY <1>1 DEF vars
  <2>2. PICK r \in file[curr].rows : r.key = k /\ db'[k] = r.val /\ curr \in Hour /\ curr \in Files /\ pc = "write"
        BY <1>1, <2>1, DatabaseSteps
  <2>3. Ahead(file[curr].rows)
        BY <1>1, <2>2, LastInRun DEF IInv, Forward, AllAhead
  <2>4. r.val = Cut \/ db[k] <= r.val
        BY <1>1, <2>2, <2>3 DEF Ahead
  <2>5. file[curr] \in Content /\ r \in Row
        BY <1>1, <2>2, ContentTypes DEF IInv, TypeOK, Files, Content
  <2>6. r.val \in Int /\ db[k] \in Int
        BY <1>1, <2>5 DEF Row, Version, Cut, IInv, TypeOK
  <2> QED  BY <1>1, <2>2, <2>4, <2>6
<1>2. IInv /\ Forward /\ [Next]_vars =>
        [\A k \in Key : db[k] \notin {None, Cut} /\ db'[k] # db[k] => db'[k] \in {Cut} \/ db'[k] > db[k]]_vars
      BY <1>1
<1> QED  BY <1>2, ForwardInit, ForwardNext, Invariance, PTL DEF Spec, OnlyForward
=============================================================================
