------------------------------- MODULE Dataset -------------------------------
(***************************************************************************)
(* util/dataset.go, tsv_dataset.go and dataset_writer.go: a third party's  *)
(* table is downloaded once a day into a file named by the hour, and what  *)
(* is new in it since the file before is written to the database, batch by *)
(* batch.  The last two files stay, and tell the next run what it has to   *)
(* do; nothing else is remembered of a run, which may fail or die at any   *)
(* step.  A mutex keeps runs apart.                                        *)
(*                                                                         *)
(* A file is a header line and rows in the order of their keys.            *)
(***************************************************************************)
EXTENDS Integers, FiniteSets

CONSTANTS
    Key,         \* keys of rows, numbers
    Release,     \* the versions that are published in turn: sets of rows
    MaxVersion,  \* number of versions
    BatchSize,   \* rows of an upsert
    None,
    Lifetime,    \* hours until a file is stale
    MaxHour,     \* bounds hours
    MaxFault,    \* bounds failures and crashes
    MaxPurge     \* bounds purges

ASSUME BatchAssumption == BatchSize \in Nat \ {0}
ASSUME LifetimeAssumption == Lifetime \in Nat \ {0}
ASSUME BoundAssumption == MaxHour \in Nat \ {0} /\ MaxVersion \in Nat \ {0}

Hour == 1 .. MaxHour
Version == 1 .. MaxVersion
\* The value of a row is the version in which it last changed; 0 is that of a
\* row that was cut off and still reads as one.
Cut == 0
Row == [key : Key, val : Version \cup {Cut}]
Content == [header : BOOLEAN, rows : SUBSET Row, whole : BOOLEAN]

\* A version has one row of a key.
Unique(rows) == \A r, q \in rows : r.key = q.key => r = q
ASSUME KeyAssumption == Key \subseteq Int
ASSUME ReleaseAssumption ==
    \A v \in Version : Unique(Release[v]) /\ \A r \in Release[v] : r \in Row /\ r.val # Cut
\* A row that is published again has not changed, or has changed since: its
\* value does not come back to an older one.
ASSUME VersionAssumption ==
    \A v, w \in Version : v <= w =>
        \A r \in Release[v], q \in Release[w] : r.key = q.key => r.val <= q.val
ASSUME NoneAssumption == None \notin Hour /\ None \notin Version /\ None \notin Content

VARIABLES
    published,  \* the newest version
    hour,
    archived,   \* the dataset comes compressed
    file,       \* files of rows, by hour
    archive,    \* downloaded archives, by hour
    pc,
    prev, curr, \* prev_filename and curr_filename, as hours
    coming,     \* the version that is being downloaded
    todo,       \* rows to write
    db,
    applied,    \* history: hours whose file has been written to the end
    sound,      \* history: each diff was against a file that had been applied
    faults, purges

disk == <<file, archive>>
outside == <<published, hour, archived>>
run == <<pc, prev, curr, coming, todo>>
vars == <<outside, disk, run, db, applied, sound, faults, purges>>

Empty == [header |-> FALSE, rows |-> {}, whole |-> FALSE]
Whole(v) == [header |-> TRUE, rows |-> Release[v], whole |-> TRUE]

\* What is on disk of c when writing it stops half way: the last row may be cut.
Partial(c) ==
    LET before(k) == {r \in c.rows : r.key < k}
        stopped(rows) == [header |-> TRUE, rows |-> rows, whole |-> FALSE]
    IN {Empty} \cup
       (IF c.header
        THEN {stopped(c.rows)} \cup
             UNION {{stopped(before(r.key)),
                     stopped(before(r.key) \cup {[key |-> r.key, val |-> Cut]})} : r \in c.rows}
        ELSE {})

\* The hours of a set, from the last one back.
Latest(hours) == IF hours = {} THEN None ELSE CHOOSE d \in hours : \A e \in hours : e <= d
Files == {d \in Hour : file[d] # None}
Last == Latest(Files)
OnDisk(d) == d # None /\ file[d] # None

Init ==
    /\ published = 1
    /\ hour = 1
    /\ archived \in BOOLEAN
    /\ file = [d \in Hour |-> None]
    /\ archive = [d \in Hour |-> None]
    /\ pc = "idle" /\ prev = None /\ curr = None /\ coming = None /\ todo = {}
    /\ db = [k \in Key |-> None]
    /\ applied = {}
    /\ sound = TRUE
    /\ faults = 0
    /\ purges = 0

Fault == faults < MaxFault /\ faults' = faults + 1
\* The run is over; it returns an error unless it comes from Finish.
Over == pc' = "idle" /\ todo' = {} /\ UNCHANGED <<prev, curr, coming>>
Goto(step) == pc' = step /\ UNCHANGED <<prev, curr, coming, todo>>

-----------------------------------------------------------------------------
Publish ==
    /\ published < MaxVersion
    /\ published' = published + 1
    /\ UNCHANGED <<hour, archived, disk, run, db, applied, sound, faults, purges>>

Tick ==
    /\ hour < MaxHour
    /\ hour' = hour + 1
    /\ UNCHANGED <<published, archived, disk, run, db, applied, sound, faults, purges>>

\* PurgeDatasetTemporaryFiles, from the dashboard; refused while a run is on.
Purge ==
    /\ pc = "idle"
    /\ purges < MaxPurge
    /\ file' = [d \in Hour |-> None]
    /\ archive' = [d \in Hour |-> None]
    /\ applied' = {}
    /\ purges' = purges + 1
    /\ UNCHANGED <<outside, run, db, sound, faults>>

-----------------------------------------------------------------------------
(* Init: prepareFilenames, cleanup and download.                           *)

isStale(d) == d = None \/ d + Lifetime <= hour

\* Mutant: the file of the last run is named after the hour that comes.
PrepareAhead ==
    /\ pc = "idle"
    /\ curr' = hour + 1
    /\ prev' = Last
    /\ pc' = "download"
    /\ UNCHANGED <<outside, disk, coming, todo, db, applied, sound, faults, purges>>
\* Mutant: the files are sorted the other way round.
PrepareDescending ==
    /\ pc = "idle"
    /\ LET other == Latest(Files \ {Last})
       IN /\ curr' = IF isStale(Last) THEN hour ELSE IF other # None THEN other ELSE Last
          /\ prev' = IF isStale(Last) \/ other # None THEN Last ELSE None
    /\ pc' = "download"
    /\ UNCHANGED <<outside, disk, coming, todo, db, applied, sound, faults, purges>>
\* Mutant: without datasetSyncMutex a run begins while another is under way.
PrepareAnytime ==
    /\ curr' = IF isStale(Last) THEN hour ELSE Last
    /\ prev' = IF isStale(Last) THEN Last ELSE Latest(Files \ {Last})
    /\ pc' = "download"
    /\ UNCHANGED <<outside, disk, coming, todo, db, applied, sound, faults, purges>>

\* The file of today and the one before it.  Files of neither are removed,
\* unless there is only one; a removal that is cut short leaves files older
\* than both, which nobody reads.
Prepare ==
    /\ pc = "idle"
    /\ curr' = IF isStale(Last) THEN hour ELSE Last
    /\ prev' = IF isStale(Last) THEN Last ELSE Latest(Files \ {Last})
    /\ LET kept == IF prev' = None THEN Hour ELSE {prev', curr'}
       IN /\ file' = [d \in Hour |-> IF d \in kept THEN file[d] ELSE None]
          /\ archive' = [d \in Hour |-> IF d \in kept THEN archive[d] ELSE None]
    /\ pc' = "download"
    /\ UNCHANGED <<outside, coming, todo, db, applied, sound, faults, purges>>

\* Mutant: a file that is there already is no download, and an error.
FoundIsError ==
    /\ pc = "download"
    /\ file[curr] # None
    /\ Over
    /\ UNCHANGED <<outside, disk, db, applied, sound, faults, purges>>

\* Whatever is on disk under the name of today is taken for the download.
Found ==
    /\ pc = "download"
    /\ file[curr] # None
    /\ Goto("process")
    /\ UNCHANGED <<outside, disk, db, applied, sound, faults, purges>>

FoundArchive ==
    /\ pc = "download"
    /\ file[curr] = None
    /\ archived /\ archive[curr] # None
    /\ Goto("extract")
    /\ UNCHANGED <<outside, disk, db, applied, sound, faults, purges>>

Download(c) ==
    IF archived
    THEN archive' = [archive EXCEPT ![curr] = c] /\ UNCHANGED file
    ELSE file' = [file EXCEPT ![curr] = c] /\ UNCHANGED archive

\* The answer has come, the file is made and its content is on its way.
Fetch ==
    /\ pc = "download"
    /\ file[curr] = None
    /\ archived => archive[curr] = None
    /\ Download(Empty)
    /\ coming' = published
    /\ pc' = "fetch"
    /\ applied' = applied \ {curr}
    /\ UNCHANGED <<outside, prev, curr, todo, db, sound, faults, purges>>

Fetched ==
    /\ pc = "fetch"
    /\ Download(Whole(coming))
    /\ Goto(IF archived THEN "extract" ELSE "process")
    /\ UNCHANGED <<outside, db, applied, sound, faults, purges>>

\* The status of the answer is not looked at: an error page is saved as well.
FetchedErrorPage ==
    /\ pc = "fetch"
    /\ Fault
    /\ Download(Empty)
    /\ Goto(IF archived THEN "extract" ELSE "process")
    /\ UNCHANGED <<outside, db, applied, sound, purges>>

\* No answer, or one that breaks off.
FetchFails ==
    /\ pc \in {"download", "fetch"}
    /\ Fault
    /\ IF pc = "fetch"
       THEN \E c \in Partial(Whole(coming)) : Download(c)
       ELSE UNCHANGED disk
    /\ Over
    /\ UNCHANGED <<outside, db, applied, sound, purges>>

ExtractRefused ==
    /\ pc = "extract"
    /\ ~archive[curr].header
    /\ Over
    /\ UNCHANGED <<outside, disk, db, applied, sound, faults, purges>>

Extract ==
    /\ pc = "extract"
    /\ archive[curr].header
    /\ file' = [file EXCEPT ![curr] = Empty]
    /\ applied' = applied \ {curr}
    /\ Goto("extracting")
    /\ UNCHANGED <<outside, archive, db, sound, faults, purges>>

Extracted ==
    /\ pc = "extracting"
    /\ archive[curr].whole
    /\ file' = [file EXCEPT ![curr] = archive[curr]]
    /\ archive' = [archive EXCEPT ![curr] = None]
    /\ Goto("process")
    /\ UNCHANGED <<outside, db, applied, sound, faults, purges>>

\* The archive breaks off: download returns no error, and the archive stays.
ExtractedPart ==
    /\ pc = "extracting"
    /\ ~archive[curr].whole
    /\ \E c \in Partial(archive[curr]) : file' = [file EXCEPT ![curr] = c]
    /\ Goto("process")
    /\ UNCHANGED <<outside, archive, db, applied, sound, faults, purges>>

-----------------------------------------------------------------------------
(* Process: processAll or processDiff, and the DatasetWriter.              *)

whole == prev = None

\* Mutant: rows that changed are left out.
diffAdded(old, new) == {r \in new : \A q \in old : q.key # r.key}

\* Rows of new that are not in old just so: what the merge of the two files,
\* in the order of their keys, comes to.
diffRows(old, new) == new \ old

Unreadable == ~file[curr].header \/ (~whole /\ ~file[prev].header)

ReadFails ==
    /\ pc = "process"
    /\ Unreadable
    /\ Over
    /\ UNCHANGED <<outside, disk, db, applied, sound, faults, purges>>

Read ==
    /\ pc = "process"
    /\ ~Unreadable
    /\ todo' = IF whole THEN file[curr].rows ELSE diffRows(file[prev].rows, file[curr].rows)
    /\ pc' = "write"
    /\ UNCHANGED <<outside, disk, prev, curr, coming, db, applied, sound, faults, purges>>

\* The next rows in the order of the file.
Batch == {r \in todo : Cardinality({q \in todo : q.key < r.key}) < BatchSize}
Upsert(rows) ==
    db' = [k \in Key |-> IF \E r \in rows : r.key = k
                         THEN (CHOOSE r \in rows : r.key = k).val ELSE db[k]]

Write ==
    /\ pc = "write"
    /\ todo # {}
    /\ Upsert(Batch)
    /\ todo' = todo \ Batch
    /\ UNCHANGED <<outside, disk, pc, prev, curr, coming, applied, sound, faults, purges>>

\* A batch is refused, or a row that was cut off does not parse.
WriteFails ==
    /\ pc = "write"
    /\ todo # {}
    /\ \/ Fault /\ (UNCHANGED db \/ Upsert(Batch))
       \/ (\E r \in Batch : r.val = Cut) /\ UNCHANGED <<db, faults>>
    /\ Over
    /\ UNCHANGED <<outside, disk, applied, sound, purges>>

Finish ==
    /\ pc = "write"
    /\ todo = {}
    /\ applied' = applied \cup {curr}
    /\ sound' = (whole \/ (sound /\ prev \in applied))
    /\ Over
    /\ UNCHANGED <<outside, disk, db, faults, purges>>

\* The process dies.
Crash ==
    /\ pc # "idle"
    /\ Fault
    /\ CASE pc = "fetch" -> \E c \in Partial(Whole(coming)) : Download(c)
         [] pc = "extracting" -> \E c \in Partial(archive[curr]) :
                file' = [file EXCEPT ![curr] = c] /\ UNCHANGED archive
         [] OTHER -> UNCHANGED disk
    /\ Over
    /\ UNCHANGED <<outside, db, applied, sound, purges>>

-----------------------------------------------------------------------------
Process ==
    \/ Prepare \/ Found \/ FoundArchive \/ Fetch \/ Fetched
    \/ ExtractRefused \/ Extract \/ Extracted \/ ExtractedPart
    \/ ReadFails \/ Read \/ Write \/ Finish

Next ==
    \/ Publish \/ Tick \/ Purge
    \/ Process
    \/ FetchedErrorPage \/ FetchFails \/ WriteFails
    \/ Crash

Spec == Init /\ [][Next]_vars

-----------------------------------------------------------------------------
(* Properties.                                                             *)

TypeOK ==
    /\ published \in Version /\ hour \in Hour /\ archived \in BOOLEAN
    /\ file \in [Hour -> Content \cup {None}]
    /\ archive \in [Hour -> Content \cup {None}]
    /\ pc \in {"idle", "download", "fetch", "extract", "extracting", "process", "write"}
    /\ prev \in Hour \cup {None} /\ curr \in Hour \cup {None}
    /\ coming \in Version \cup {None}
    /\ todo \subseteq Row
    /\ db \in [Key -> Version \cup {Cut, None}]
    /\ applied \subseteq Hour
    /\ sound \in BOOLEAN
    /\ faults \in Nat /\ purges \in Nat

\* Once the last file has been applied, the database has each of its rows as it
\* is there, whatever was written before and however often a run failed; but
\* not if a diff was taken against a file that had never been applied.
Covered ==
    (Last # None /\ Last \in applied /\ sound) =>
        \A r \in file[Last].rows : db[r.key] = r.val

\* A diff is taken against a file that was not applied only after a failure:
\* hours that begin and versions that come out at any moment do no harm.
LossNeedsFailure == faults = 0 => sound

\* The database does not go back to what an older version had.
OnlyForward ==
    [][\A k \in Key : db[k] \notin {None, Cut} /\ db'[k] # db[k] => db'[k] \in {Cut} \/ db'[k] > db[k]]_vars

\* Runs come again and again, and get on.
FairSpec == Spec /\ WF_vars(Process)

\* Some run in the end applies a file that is not stale: whatever half done
\* files and archives failures leave behind, the runs get past them.  Not so if
\* a file cannot be read, or its last row cannot: that stays so until it is stale.
Settles ==
    <>[](\/ ~isStale(Last) /\ Last \in applied
         \/ \E d \in Files : ~file[d].header
         \/ \E d \in Files : \E r \in file[d].rows : r.val = Cut
         \/ archive[hour] # None /\ ~archive[hour].header)
=============================================================================
