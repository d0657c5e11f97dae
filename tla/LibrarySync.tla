----------------------------- MODULE LibrarySync -----------------------------
(***************************************************************************)
(* The two workers that carry watched state between a user's accounts:     *)
(* sync_stremio_stremio.go between the Stremio libraries of A and B, and   *)
(* sync_stremio_trakt.go between the library of A and a history at Trakt.  *)
(* Each worker runs once at a time, but the two run side by side, and the  *)
(* user goes on watching.                                                  *)
(*                                                                         *)
(* A library item is read and written as a whole.  A movie, which counts   *)
(* how often it was watched, is an item with one video.  What the field of *)
(* a series shows depends on the list of videos that it is read with: the  *)
(* workers take the lists that Cinemeta has, from a cache that keeps them  *)
(* for two hours.                                                          *)
(*                                                                         *)
(* Times are kept as what the Trakt worker compares them with: era 0 is    *)
(* not after LastSyncedAt, era 1 is after it but not after the start of    *)
(* the sync that is running, era 2 is after that too.                      *)
(***************************************************************************)
EXTENDS WatchedBitField, FiniteSets, Functions

CONSTANTS
    A, B,        \* Stremio accounts
    Movie,       \* items of type movie
    Series,      \* items of type series
    Releases,    \* the lists of videos that Cinemeta has for an item, in turn
    Special,     \* episodes of season 0
    NoField,     \* an item's empty watched field
    AToB, BToA,            \* directions of the link between A and B
    ToTrakt, ToStremio,    \* directions of the link between A and Trakt
    MaxEvent,    \* bounds the user's actions and the errors, together
    MaxFault     \* bounds the errors

Account == {A, B}
Item == Movie \cup Series
Kind == {"movie", "series"}
Of(kind) == IF kind = "movie" THEN Movie ELSE Series
\* Movies come first; a kind without items needs no request.
Kinds == (IF Movie = {} THEN <<>> ELSE <<"movie">>) \o (IF Series = {} THEN <<>> ELSE <<"series">>)
ListsOf(i) == {Releases[i][n] : n \in 1 .. Len(Releases[i])}
VideosOf(i) == UNION {{l[n] : n \in 1 .. Len(l)} : l \in ListsOf(i)}
Video == UNION {VideosOf(i) : i \in Item}
\* The shorter list is one stretch of the longer: videos came at either end.
StretchOf(l, longer) ==
    \E d \in 0 .. Len(longer) :
        /\ Len(l) + d <= Len(longer)
        /\ \A n \in 1 .. Len(l) : longer[n + d] = l[n]
\* A list names each video once.  The id of a video begins with its item's.
ASSUME ReleasesAssumption ==
    \A i \in Item :
        /\ Releases[i] \in Seq(Seq(VideosOf(i))) /\ Releases[i] # <<>>
        /\ \A l \in ListsOf(i) : IsInjective(l)
        /\ \A j \in Item : j # i => VideosOf(j) \cap VideosOf(i) = {}
ASSUME UndefinedAssumption == Undefined \notin Video
\* What the watched field of an item is parsed into, when it is not empty.
Field == [anchor : Video \cup {Undefined}, anchorLength : Nat, bytes : Nat, ones : SUBSET Nat]
ASSUME NoFieldAssumption == NoField \notin Field

Era == 0 .. 2
NotPlayed == -1

VARIABLES
    release,   \* which of its lists Cinemeta has for an item
    cached,    \* the oldest of its lists that a cache may still have
    lib,       \* the libraries: state and watched field of each item
    age,       \* era of the modification time of an item of A
    plays,     \* the history at Trakt: era of the last play of a video
    synced,    \* LastSyncedAt is set
    ssLib, ssTodo,  \* Stremio worker: the items it fetched, what is left to do
    ssEra,     \* era of its ctx.now
    stPc, stFull,         \* Trakt worker: step, isFullSync
    stIds, stLib,         \* items it knows, as they were fetched
    stPlays,   \* plays it has fetched
    stTodo,
    made,      \* history: videos the user watched
    exposed,   \* history: items to which something happened that the workers do
               \* not repair
    events, faults

ss == <<ssLib, ssTodo, ssEra>>
st == <<stPc, stFull, stIds, stLib, stPlays, stTodo>>
budget == <<events, faults>>
lists == <<release, cached>>
vars == <<lists, lib, age, plays, synced, ss, st, made, exposed, events, faults>>

Listing(i) == Releases[i][release[i]]
\* The lists that FetchMeta may return for an item: what Cinemeta has, or what
\* it had when the cache of some process was filled.
Lists(i) == {Releases[i][n] : n \in cached[i] .. release[i]}
Listings == {l \in [Item -> UNION {ListsOf(i) : i \in Item}] : \A i \in Item : l[i] \in Lists(i)}

Absent == [state |-> "absent", field |-> NoField]
NoItems == [i \in Item |-> Absent]

\* NewWatchedBitFieldFromString, or a new field for an item that has none.
BitsOf(x, videos) ==
    IF x.field = NoField THEN NewBitField8(Len(videos)) ELSE FromField(x.field, videos)
Reading(x, videos) == Marks(BitsOf(x, videos), videos)
\* What an item shows to the user.
Watched(x, i) == Reading(x, Listing(i))
Played == {v \in Video : plays[v] # NotPlayed}

\* x with the videos of W watched, those that the list lacks passed over.
Merged(x, videos, W, state) ==
    [state |-> state, field |-> ToField(SetVideos(BitsOf(x, videos), videos, W), videos)]

\* The era of a time that is now.
Newest == IF stPc = "idle" THEN 1 ELSE 2

Within == events + faults < MaxEvent
Event == Within /\ events' = events + 1 /\ UNCHANGED faults
Fault == Within /\ faults < MaxFault /\ faults' = faults + 1 /\ UNCHANGED events

\* Items that an update to what they are in new makes show less.
Erased(a, items, new) ==
    {i \in items : ~(Watched(lib[a][i], i) \subseteq Watched(new[i], i))}

Put(a, items, new) ==
    lib' = [lib EXCEPT ![a] = [i \in Item |-> IF i \in items THEN new[i] ELSE lib[a][i]]]
Touch(items, e) == age' = [i \in Item |-> IF i \in items THEN e ELSE age[i]]

Init ==
    /\ release = [i \in Item |-> 1] /\ cached = [i \in Item |-> 1]
    /\ lib = [a \in Account |-> NoItems]
    /\ age = [i \in Item |-> 1]
    /\ plays = [v \in Video |-> NotPlayed]
    /\ synced = FALSE
    /\ ssLib = [a \in Account |-> NoItems] /\ ssTodo = <<>> /\ ssEra = 1
    /\ stPc = "idle" /\ stFull = FALSE /\ stIds = {} /\ stLib = NoItems
    /\ stPlays = {} /\ stTodo = <<>>
    /\ made = {}
    /\ exposed = {}
    /\ events = 0
    /\ faults = 0

-----------------------------------------------------------------------------
(* What happens outside.                                                   *)

\* The user watches a video in Stremio.  An item that is not in the library
\* is kept all the same, as removed.
Watch(a, i, v) ==
    /\ Event
    /\ v \in Range(Listing(i))
    /\ \E s \in IF lib[a][i].state = "listed" THEN {"listed"} ELSE {"listed", "removed"} :
          Put(a, {i}, [j \in {i} |-> Merged(lib[a][i], Listing(i), {v}, s)])
    /\ Touch(IF a = A THEN {i} ELSE {}, Newest)
    /\ made' = made \cup {v}
    /\ UNCHANGED <<lists, plays, synced, ss, st, exposed>>

\* The user adds an item to the library or removes it; it stays watched.
Toggle(a, i) ==
    /\ Event
    /\ lib[a][i].state # "absent"
    /\ Put(a, {i}, [j \in {i} |-> [lib[a][i] EXCEPT
                    !.state = IF @ = "listed" THEN "removed" ELSE "listed"]])
    /\ Touch(IF a = A THEN {i} ELSE {}, Newest)
    /\ UNCHANGED <<lists, plays, synced, ss, st, made, exposed>>

\* The user watches a video elsewhere and Trakt takes note.
Play(i, v) ==
    /\ Event
    /\ v \in VideosOf(i)
    /\ plays' = [plays EXCEPT ![v] = Newest]
    /\ made' = made \cup {v}
    /\ exposed' = IF v \in Range(Listing(i)) THEN exposed ELSE exposed \cup {i}
    /\ UNCHANGED <<lists, lib, age, synced, ss, st>>

\* The user tells Trakt of a video watched before the last sync began.
PlayBackdated(i, v) ==
    /\ Event
    /\ v \in VideosOf(i)
    /\ plays[v] = NotPlayed
    /\ plays' = [plays EXCEPT ![v] = 0]
    /\ made' = made \cup {v}
    /\ exposed' = exposed \cup {i}
    /\ UNCHANGED <<lists, lib, age, synced, ss, st>>

\* What the libraries and the workers have of an item.
Copies(i) == {lib[a][i] : a \in Account} \cup {ssLib[a][i] : a \in Account} \cup {stLib[i]}

\* Cinemeta has another list for an item.  Every mark of the item moves when
\* videos came in between others: the lists are sorted, specials first.
Release(i) ==
    /\ release[i] < Len(Releases[i])
    /\ release' = [release EXCEPT ![i] = @ + 1]
    /\ LET list == Releases[i][release[i] + 1]
           same == /\ \A x \in Copies(i) : Reading(x, list) = Watched(x, i)
                   /\ Played \cap VideosOf(i) \subseteq Range(list)
       IN exposed' = IF same THEN exposed ELSE exposed \cup {i}
    /\ UNCHANGED <<cached, lib, age, plays, synced, ss, st, made, budget>>

\* metaCache: an entry is dropped after two hours.
CacheExpires(i) ==
    /\ \E n \in cached[i] + 1 .. release[i] : cached' = [cached EXCEPT ![i] = n]
    /\ UNCHANGED <<release, lib, age, plays, synced, ss, st, made, exposed, budget>>

\* The dashboard's reset of the sync state.
Reset ==
    /\ Event
    /\ synced
    /\ synced' = FALSE
    /\ UNCHANGED <<lists, lib, age, plays, ss, st, made, exposed>>

-----------------------------------------------------------------------------
(* sync-stremio-stremio.                                                   *)

\* Items that are not removed.
Fetched(a) == [i \in Item |-> IF lib[a][i].state = "listed" THEN lib[a][i] ELSE Absent]

\* The four updates of a sync, in order.
Pushes ==
    LET both(src, dst) == [n \in 1 .. Len(Kinds) |-> [src |-> src, dst |-> dst, kind |-> Kinds[n]]]
    IN (IF AToB THEN both(A, B) ELSE <<>>) \o (IF BToA THEN both(B, A) ELSE <<>>)

\* GetAllLibraryItems of A, then of B.  Whatever happens between the two might
\* as well happen before, if it is about B, or after.
SsFetch ==
    /\ ssTodo = <<>>
    /\ Pushes # <<>>
    /\ ssEra' = Newest
    /\ ssLib' = [a \in Account |-> Fetched(a)]
    /\ ssTodo' = Pushes
    /\ UNCHANGED <<lists, lib, age, plays, synced, st, made, exposed, budget>>

\* What the source shows as watched and the target does not, by the list of l.
Missing(p, i, l) ==
    IF ssLib[p.src][i].field = NoField THEN {}
    ELSE Reading(ssLib[p.src][i], l[i]) \ Reading(ssLib[p.dst][i], l[i])

SsItems(p, l) == {i \in Of(p.kind) : Missing(p, i, l) # {}}
\* Mutant: the item of the source is copied whole.
SsNewCopies(p, l) == [i \in SsItems(p, l) |-> [ssLib[p.src][i] EXCEPT !.state = "listed"]]
SsNew(p, l) ==
    [i \in SsItems(p, l) |-> Merged(ssLib[p.dst][i], l[i], Missing(p, i, l), "listed")]

\* UpdateLibraryItems of syncMovies or syncSeries.
SsUpdate(p, l) ==
    /\ Put(p.dst, SsItems(p, l), SsNew(p, l))
    /\ Touch(IF p.dst = A THEN SsItems(p, l) ELSE {}, ssEra)
    /\ exposed' = exposed \cup Erased(p.dst, SsItems(p, l), SsNew(p, l))
                          \cup (IF p.dst = A /\ ssEra # Newest THEN SsItems(p, l) ELSE {})

\* What is left to do; nothing is remembered of a sync that is over, whose
\* LastSyncedAt is saved and not used.
SsGoOn(todo) ==
    /\ ssTodo' = todo
    /\ IF todo = <<>>
       THEN ssLib' = [a \in Account |-> NoItems] /\ ssEra' = 1
       ELSE UNCHANGED <<ssLib, ssEra>>

\* Mutant: the worker leaves after an update.
SsPushStops ==
    /\ ssTodo # <<>>
    /\ \E l \in Listings : SsUpdate(Head(ssTodo), l)
    /\ SsGoOn(<<>>)
    /\ UNCHANGED <<lists, plays, synced, st, made, budget>>

SsPush ==
    /\ ssTodo # <<>>
    /\ \E l \in Listings : SsUpdate(Head(ssTodo), l)
    /\ SsGoOn(Tail(ssTodo))
    /\ UNCHANGED <<lists, plays, synced, st, made, budget>>

\* A request fails, and an update may have been applied all the same.
SsFails ==
    /\ ssTodo # <<>>
    /\ Fault
    /\ \/ UNCHANGED <<lib, age, exposed>>
       \/ \E l \in Listings : SsUpdate(Head(ssTodo), l)
    /\ SsGoOn(<<>>)
    /\ UNCHANGED <<lists, plays, synced, st, made>>

-----------------------------------------------------------------------------
(* sync-stremio-trakt.                                                     *)

\* What becomes of an era when the sync ends: with its start as the new
\* LastSyncedAt, or with the old one.
Later(e, commit) == IF commit THEN (IF e = 2 THEN 1 ELSE 0) ELSE (IF e = 2 THEN 1 ELSE e)

StIdle(commit) ==
    /\ stPc' = "idle"
    /\ stFull' = FALSE
    /\ stIds' = {}
    /\ stLib' = NoItems
    /\ stPlays' = {}
    /\ stTodo' = <<>>
    /\ age' = [i \in Item |-> Later(age[i], commit)]
    /\ plays' = [v \in Video |-> IF plays[v] = NotPlayed THEN NotPlayed ELSE Later(plays[v], commit)]
    /\ ssEra' = IF ssTodo = <<>> THEN 1 ELSE Later(ssEra, commit)

\* The four updates of a sync, in order.
Stages ==
    LET both(to) == [n \in 1 .. Len(Kinds) |-> [to |-> to, kind |-> Kinds[n]]]
    IN (IF ToTrakt THEN both("trakt") ELSE <<>>) \o (IF ToStremio THEN both("stremio") ELSE <<>>)

StStart ==
    /\ stPc = "idle"
    /\ stFull' = ~synced
    /\ stPc' = IF synced THEN "ids" ELSE "items"
    /\ stIds' = IF synced THEN {} ELSE Item
    /\ UNCHANGED <<lists, lib, age, plays, synced, ss, stLib, stPlays, stTodo, made, exposed, budget>>

\* GetAllLibraryItemTimestamps: what was modified after LastSyncedAt.
StFetchIds ==
    /\ stPc = "ids"
    /\ stIds' = {i \in Item : lib[A][i].state # "absent" /\ age[i] >= 1}
    /\ stPc' = "items"
    /\ UNCHANGED <<lists, lib, age, plays, synced, ss, stFull, stLib, stPlays, stTodo, made, exposed, budget>>

\* GetAllLibraryItems, removed ones too, then getAllTraktHistory since
\* LastSyncedAt.  Again nothing between the two can tell them apart.
StFetch ==
    /\ stPc = "items"
    /\ stLib' = [i \in Item |-> IF i \in stIds THEN lib[A][i] ELSE Absent]
    /\ stPlays' = {v \in Played : stFull \/ plays[v] >= 1}
    /\ stTodo' = Stages
    /\ stPc' = "push"
    /\ UNCHANGED <<lists, lib, age, plays, synced, ss, stFull, stIds, made, exposed, budget>>

\* What the fetched items show as watched, by the lists of l, and Trakt does
\* not have: a full sync looks at the fetched history, another one asks Trakt
\* for each item.
Unplayed(kind, skipped, l) ==
    (UNION {Reading(stLib[i], l[i]) : i \in {j \in (Of(kind) \cap stIds) \ skipped :
                                                stLib[j].field # NoField}})
        \ (Special \cup (IF stFull THEN stPlays ELSE Played))

\* Items that show something else by an older list.
Misread(kind, l) == {i \in Of(kind) : Reading(stLib[i], l[i]) # Watched(stLib[i], i)}

\* AddToHistory: a movie with the time it was last watched, an episode now.
AddToHistory(kind, new) ==
    \E at \in [new -> IF kind = "movie" THEN 0 .. Newest ELSE {Newest}] :
        plays' = [v \in Video |-> IF v \in new THEN at[v] ELSE plays[v]]

Stage(to, kind) ==
    /\ stPc = "push"
    /\ stTodo # <<>>
    /\ Head(stTodo) = [to |-> to, kind |-> kind]

ToTraktPush(kind) ==
    /\ Stage("trakt", kind)
    /\ \E l \in Listings :
          /\ AddToHistory(kind, Unplayed(kind, {}, l))
          /\ exposed' = exposed \cup Misread(kind, l)
    /\ stTodo' = Tail(stTodo)
    /\ UNCHANGED <<lists, lib, age, synced, ss, stPc, stFull, stIds, stLib, stPlays, made, budget>>

\* Items whose id cannot be looked up are passed over.
LookupFails(kind) ==
    /\ Stage("trakt", kind)
    /\ ~stFull
    /\ Fault
    /\ \E l \in Listings, skipped \in (SUBSET (Of(kind) \cap stIds)) \ {{}} :
          /\ AddToHistory(kind, Unplayed(kind, skipped, l))
          /\ exposed' = exposed \cup Misread(kind, l) \cup skipped
    /\ stTodo' = Tail(stTodo)
    /\ UNCHANGED <<lists, lib, age, synced, ss, stPc, stFull, stIds, stLib, stPlays, made>>

PlaysOf(i) == stPlays \cap VideosOf(i)

\* GetAllLibraryItems of the items that were played and not fetched yet.
FetchMissing(kind) ==
    LET new == {i \in Of(kind) \ stIds : PlaysOf(i) # {}}
    IN /\ Stage("stremio", kind)
       /\ stIds' = stIds \cup new
       /\ stLib' = [i \in Item |-> IF i \in new THEN lib[A][i] ELSE stLib[i]]
       /\ stPc' = "update"
       /\ UNCHANGED <<lists, lib, age, plays, synced, ss, stFull, stPlays, stTodo, made, exposed, budget>>

StItems(kind, l) == {i \in Of(kind) : ~(PlaysOf(i) \subseteq Reading(stLib[i], l[i]))}
\* Mutant: an item that is not in the library is not given a state.
StNewBare(kind, l) ==
    [i \in StItems(kind, l) |-> Merged(stLib[i], l[i], PlaysOf(i), stLib[i].state)]
StNew(kind, l) ==
    [i \in StItems(kind, l) |->
        Merged(stLib[i], l[i], PlaysOf(i),
               IF stLib[i].state = "absent" THEN "listed" ELSE stLib[i].state)]

\* Items that do not end with what was fetched of them and their plays, by an
\* older list.
Mistaken(kind, l) ==
    {i \in Of(kind) :
        LET x == IF i \in StItems(kind, l) THEN StNew(kind, l)[i] ELSE stLib[i]
        IN Watched(x, i) # Watched(stLib[i], i) \cup PlaysOf(i)}

\* UpdateLibraryItems with the start of the sync as modification time.
StUpdate(kind) ==
    \E l \in Listings :
        /\ Put(A, StItems(kind, l), StNew(kind, l))
        /\ Touch(StItems(kind, l), 1)
        /\ exposed' = exposed \cup Erased(A, StItems(kind, l), StNew(kind, l))
                              \cup Mistaken(kind, l)
                              \cup {i \in StItems(kind, l) : age[i] = 2}

ToStremioPush ==
    /\ stPc = "update"
    /\ StUpdate(Head(stTodo).kind)
    /\ stTodo' = Tail(stTodo)
    /\ stPc' = "push"
    /\ UNCHANGED <<lists, plays, synced, ss, stFull, stIds, stLib, stPlays, made, budget>>

StDone ==
    /\ stPc = "push"
    /\ stTodo = <<>>
    /\ synced' = TRUE
    /\ StIdle(TRUE)
    /\ UNCHANGED <<lists, lib, ssLib, ssTodo, made, exposed, budget>>

\* A request fails, and an update may have been applied all the same.
StFails ==
    /\ stPc \notin {"idle", "failed"}
    /\ Fault
    /\ \/ UNCHANGED <<lib, age, plays, exposed>>
       \/ /\ stPc = "update"
          /\ StUpdate(Head(stTodo).kind)
          /\ UNCHANGED plays
       \/ \E kind \in Kind, l \in Listings :
             /\ Stage("trakt", kind)
             /\ AddToHistory(kind, Unplayed(kind, {}, l))
             /\ exposed' = exposed \cup Misread(kind, l)
             /\ UNCHANGED <<lib, age>>
    /\ stPc' = "failed"
    /\ UNCHANGED <<lists, synced, ss, stFull, stIds, stLib, stPlays, stTodo, made>>

\* Mutant: LastSyncedAt is saved after an error too.
StAbortCommits ==
    /\ stPc = "failed"
    /\ synced' = TRUE
    /\ StIdle(TRUE)
    /\ UNCHANGED <<lists, lib, ssLib, ssTodo, made, exposed, budget>>

\* The sync returns without a new LastSyncedAt.
StAbort ==
    /\ stPc = "failed"
    /\ StIdle(FALSE)
    /\ UNCHANGED <<lists, lib, synced, ssLib, ssTodo, made, exposed, budget>>

-----------------------------------------------------------------------------
User ==
    \/ \E a \in Account, i \in Item, v \in Video : Watch(a, i, v)
    \/ \E a \in Account, i \in Item : Toggle(a, i)
    \/ \E i \in Item, v \in Video : Play(i, v) \/ PlayBackdated(i, v)
    \/ Reset

SyncStremioStremio == SsFetch \/ SsPush

SyncStremioTrakt ==
    \/ StStart \/ StFetchIds \/ StFetch
    \/ \E kind \in Kind : ToTraktPush(kind) \/ FetchMissing(kind)
    \/ ToStremioPush \/ StDone \/ StAbort

Next ==
    \/ User
    \/ \E i \in Item : Release(i) \/ CacheExpires(i)
    \/ SyncStremioStremio
    \/ SyncStremioTrakt
    \/ \E kind \in Kind : LookupFails(kind)
    \/ SsFails
    \/ StFails

Spec == Init /\ [][Next]_vars

-----------------------------------------------------------------------------
(* Properties.                                                             *)

ItemState == {Absent} \cup [state : {"listed", "removed"}, field : Field]
Library == [Item -> ItemState]

TypeOK ==
    /\ DOMAIN release = Item /\ \A i \in Item : release[i] \in 1 .. Len(Releases[i])
    /\ DOMAIN cached = Item /\ \A i \in Item : cached[i] \in 1 .. release[i]
    /\ DOMAIN lib = Account /\ \A a \in Account : lib[a] \in Library
    /\ age \in [Item -> Era]
    /\ plays \in [Video -> Era \cup {NotPlayed}]
    /\ synced \in BOOLEAN
    /\ DOMAIN ssLib = Account /\ \A a \in Account : ssLib[a] \in Library
    /\ ssTodo \in Seq([src : Account, dst : Account, kind : Kind]) /\ ssEra \in Era
    /\ stPc \in {"idle", "ids", "items", "push", "update", "failed"} /\ stFull \in BOOLEAN
    /\ stIds \subseteq Item /\ stLib \in Library /\ stPlays \subseteq Video
    /\ stTodo \in Seq([to : {"trakt", "stremio"}, kind : Kind])
    /\ stPc = "update" => stTodo # <<>>
    /\ made \subseteq Video /\ exposed \subseteq Item
    /\ events \in Nat /\ faults \in Nat

\* An item to whose list videos have come at the ends only.
Grown(i) ==
    \A m, n \in 1 .. release[i] : m <= n => StretchOf(Releases[i][m], Releases[i][n])

\* While its list grows at the ends, nothing of an item is ever shown as watched,
\* in either library by whichever list or at Trakt, that the user has not
\* watched: not by a sync, not by a field that is read with another list than
\* it was written with.
NothingInvented ==
    \A i \in Item : Grown(i) =>
        /\ \A a \in Account : \A videos \in Lists(i) : Reading(lib[a][i], videos) \subseteq made
        /\ Played \cap VideosOf(i) \subseteq made

\* An update takes a mark from a library only if the worker's copy of the item
\* does not have it by the list that the worker goes by: it was set after the
\* worker had fetched the item, or the item was fetched as removed.  Once the
\* cache has the newest list, that is what the user sees.
OnlyUnseenIsLost ==
    [][\A a \in Account, i \in Item : lib[a][i] # lib'[a][i] =>
          \E videos \in Lists(i) :
              LET lost == Reading(lib[a][i], videos) \ Reading(lib'[a][i], videos)
              IN \/ lost = {}
                 \/ ssTodo # <<>> /\ lost \cap Reading(ssLib[a][i], videos) = {}
                 \/ stPc = "update" /\ a = A /\ lost \cap Reading(stLib[i], videos) = {}]_vars

\* What is not after LastSyncedAt is on both sides.
SyncedUpTo ==
    (synced /\ stPc = "idle" /\ ToTrakt /\ ToStremio) =>
        \A i \in Item \ exposed :
            /\ age[i] = 0 => Watched(lib[A][i], i) \subseteq Played \cup Special
            /\ \A v \in VideosOf(i) : plays[v] = 0 => v \in Watched(lib[A][i], i)

\* Both workers are scheduled for ever, and a worker that runs goes on: it
\* can always take a step, so this is weak fairness of its actions.  A list
\* stays in the cache for two hours.
FairSpec ==
    /\ Spec
    /\ []<><<TRUE>>_ssTodo
    /\ []<><<TRUE>>_<<stPc, stTodo>>
    /\ \A i \in Item : WF_vars(CacheExpires(i))

\* What one side has, the other has, as far as the directions of the links go.
InSync(i) ==
    LET onA == Watched(lib[A][i], i)
        onB == Watched(lib[B][i], i)
        played == Played \cap VideosOf(i)
    IN /\ ToTrakt => onA \subseteq played \cup Special
       /\ ToStremio => played \subseteq onA
       /\ (AToB /\ lib[A][i].state = "listed") => onA \subseteq onB
       /\ (BToA /\ lib[B][i].state = "listed") => onB \subseteq onA

\* Once the user rests, every mark of an item reaches every side that the
\* directions let it reach, and the sides stay so; but for the items to which
\* something happened that the workers do not repair.
Converges == <>[](\A i \in Item \ exposed : InSync(i))
=============================================================================
