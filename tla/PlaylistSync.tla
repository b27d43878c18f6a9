---------------------------- MODULE PlaylistSync -----------------------------
(***************************************************************************)
(* How the medias of playlists follow their sources, and who may write     *)
(* them.  Three kinds of process share the Playlist table:                 *)
(*                                                                         *)
(*   - the batch's DiffHostedService, a scheduled pass that compares every *)
(*     enabled playlist with its source and publishes DiffPlaylistEvents;  *)
(*   - the batch's consumers of those events: RabbitNotificationConsumer   *)
(*     tells the user, RabbitSynchronizeConsumer pulls the source again    *)
(*     and merges it into the row;                                         *)
(*   - the requests of the WebApi: a user opens a playlist, edits the copy *)
(*     in the browser and PUTs it back, changes its settings, deletes it,  *)
(*     imports a new one or resets one from its source.                    *)
(*                                                                         *)
(* Rows have no concurrency token: a save overwrites the columns it        *)
(* writes.  Every load, every pull from a source and every save is a step  *)
(* of its own, so that all the steps of the others may come in between.    *)
(***************************************************************************)
EXTENDS PlaylistMerge

CONSTANTS
    MaxId,          \* bound: playlists ever created have ids 1..MaxId
    Existing,       \* ids 1..Existing are in the table at the start
    Urls,           \* the addresses of sources
    Offers,         \* the lists a source may serve
    Down,           \* the answer of a source whose pull throws
    None,           \* no row, or an idle process
    Handlers,       \* DiffPlaylistEvents the batch may handle at a time
    Clients,        \* browser sessions with at most one request each
    DialogUsers,    \* those in which the diff dialog is used
    ContextPerRun,  \* whether each pass of the job gets a new DbContext
    MaxPending,     \* bound: undelivered DiffPlaylistEvents of a playlist
    MaxChanges,     \* bound: how often sources change
    MaxCrashes      \* bound: how often the batch process dies

Ids == 1 .. MaxId

ASSUME SyncAssumption ==
    /\ MaxId \in Nat
    /\ Existing \in 0 .. MaxId
    /\ Offers \subseteq Lists
    /\ \A list \in MaybeLists : list # Down
    /\ DialogUsers \subseteq Clients
    /\ ContextPerRun \in BOOLEAN
    /\ MaxPending \in Nat
    /\ MaxChanges \in Nat
    /\ MaxCrashes \in Nat

\* The columns of a Playlist that matter here: SynkConfig.Url,
\* SynkConfig.AutoSynchronize, Status = Enabled, and Medias.
Row == [url : Urls, auto : BOOLEAN, enabled : BOOLEAN, medias : MaybeLists]

\* The copies on which the diff dialog can be used.
LoadedRow == {row \in Row : row.medias # Null}

\* What the batch holds of a playlist while it works on it.
Snapshot == [url : Urls, medias : MaybeLists]

\* A delivery in RabbitSynchronizeConsumer: base is the list it loaded,
\* medias the list it is about to save.
Delivery == [pc : {"pulling", "saving"}, id : Ids, url : Urls,
             base : Lists, medias : Lists]

\* A browser session: the user has a playlist open, row being the copy in the
\* browser; the diff dialog shows a report on it; a PUT is between its load and
\* its save; or SynkAsync resets a playlist from its source.
Session ==
    [pc : {"open"}, id : Ids, row : Row]
        \cup [pc : {"diff"}, id : Ids, row : LoadedRow, new : Lists, removed : Lists]
        \cup [pc : {"put", "light"}, id : Ids, row : Row,
              loaded : [url : Urls, enabled : BOOLEAN]]
        \cup [pc : {"resetting", "replacing"}, id : Ids, url : Urls, medias : MaybeLists]

ASSUME NoneAssumption == None \notin Row \cup Snapshot \cup Delivery \cup Session

VARIABLES
    rows,      \* the Playlist table
    nextId,    \* the sequence that gives new rows their ids
    source,    \* what each source would answer now
    job,       \* the rows of the job's current pass not compared yet
    tracked,   \* the rows the DbContext of the job already tracks
    pending,   \* how many DiffPlaylistEvents of each playlist are queued
    published, \* the TraceEvents that the last step has published
    handlers,  \* the deliveries in RabbitSynchronizeConsumer
    clients,   \* the browser sessions
    changes, crashes,   \* how often the environment has acted
    misled     \* history: the playlists to a copy of which a user has applied a
               \* report that was not on that copy

table == <<rows, nextId>>
batch == <<job, tracked, pending, handlers>>
environment == <<source, changes, crashes, misled>>
vars == <<table, batch, published, clients, environment>>

Present(p) == rows[p] # None

\* The source answers, and not with null.
ServesList(u) == source[u] \notin {Null, Down}

\* Rows written before the column AutoSynchronize existed have FALSE, the
\* default of its migration; rows written since have TRUE.  No code changes it.
Init ==
    /\ rows \in {r \in [Ids -> {None} \cup Row] :
                   \A p \in Ids : IF p <= Existing
                                  THEN r[p] # None /\ r[p].medias \in Offers
                                  ELSE r[p] = None}
    /\ nextId = Existing + 1
    /\ source \in [Urls -> Offers]
    /\ job = [p \in Ids |-> None]
    /\ tracked = [p \in Ids |-> None]
    /\ pending = [p \in Ids |-> 0]
    /\ published = {}
    /\ handlers = [h \in Handlers |-> None]
    /\ clients = [c \in Clients |-> None]
    /\ changes = 0
    /\ crashes = 0
    /\ misled = {}

------------------------------------------------------------------------------
(* DiffHostedService *)

SnapshotOf(p) == [url |-> rows[p].url, medias |-> rows[p].medias]

\* Entity Framework hands out the entity it already tracks for a key, with
\* the values of the query that first loaded it.
Loaded(p) ==
    IF ~ContextPerRun /\ tracked[p] # None THEN tracked[p] ELSE SnapshotOf(p)

\* The schedule fires: the query takes every enabled row.
StartPass ==
    /\ \A p \in Ids : job[p] = None
    /\ job' = [p \in Ids |-> IF Present(p) /\ rows[p].enabled THEN Loaded(p) ELSE None]
    /\ tracked' = IF ContextPerRun THEN tracked
                  ELSE [p \in Ids |-> IF job'[p] # None THEN job'[p] ELSE tracked[p]]
    /\ published' = {}
    /\ UNCHANGED <<table, pending, handlers, clients, environment>>

\* The difference the pass finds for a row: removed is null for a row without
\* medias, and removed.Any() then throws.
PassDiff(p) == DiffWithSource(job[p].medias, source[job[p].url])

PassFails(p) ==
    \/ source[job[p].url] = Down
    \/ source[job[p].url] # Down /\ PassDiff(p).removed = Null

\* One row of the pass: publish a DiffPlaylistEvent if the source differs from
\* the row, an error TraceEvent if comparing them throws.
ComparePlaylist(p) ==
    /\ job[p] # None
    /\ job' = [job EXCEPT ![p] = None]
    /\ \/ /\ PassFails(p)
          /\ published' = {<<p, "error">>}
          /\ UNCHANGED pending
       \/ /\ ~PassFails(p)
          /\ PassDiff(p).new \cup PassDiff(p).removed # {}
          /\ pending[p] < MaxPending
          /\ pending' = [pending EXCEPT ![p] = @ + 1]
          /\ published' = {}
       \/ /\ ~PassFails(p)
          /\ PassDiff(p).new \cup PassDiff(p).removed = {}
          /\ published' = {}
          /\ UNCHANGED pending
    /\ UNCHANGED <<table, tracked, handlers, clients, environment>>

------------------------------------------------------------------------------
(* RabbitNotificationConsumer and RabbitSynchronizeConsumer *)

\* Mutant of Synchronizable: the AutoSynchronize test is dropped.
AnyRow(p) == Present(p)

\* The guard of SynkPlaylistAsync: it refuses a row that is gone, and a row
\* whose AutoSynchronize is set.
Synchronizable(p) == Present(p) /\ ~rows[p].auto

\* A DiffPlaylistEvent is delivered to both consumers: the first publishes a
\* note that the source changed; the second loads the row, and does no more if
\* SynkPlaylistAsync throws, at its guard or because TvgMedias is null.
ConsumeDiff(h, p) ==
    /\ pending[p] > 0
    /\ handlers[h] = None
    /\ pending' = [pending EXCEPT ![p] = @ - 1]
    /\ published' = {<<p, "changed">>}
    /\ handlers' = IF Synchronizable(p) /\ rows[p].medias # Null
                   THEN [handlers EXCEPT ![h] =
                           [pc |-> "pulling", id |-> p, url |-> rows[p].url,
                            base |-> rows[p].medias, medias |-> rows[p].medias]]
                   ELSE handlers
    /\ UNCHANGED <<table, job, tracked, clients, environment>>

\* The consumer pulls the source again and merges its list into the medias it
\* has loaded.  The exception of a pull that fails is swallowed; a merge that
\* changes nothing is not saved, but noted.
PullSource(h) ==
    /\ handlers[h] # None
    /\ handlers[h].pc = "pulling"
    /\ LET offered == source[handlers[h].url]
           diff == DiffWithSource(handlers[h].base, offered)
       IN  \/ /\ offered = Down
              /\ handlers' = [handlers EXCEPT ![h] = None]
              /\ published' = {}
           \/ /\ offered # Down
              /\ ~Changed(diff)
              /\ handlers' = [handlers EXCEPT ![h] = None]
              /\ published' = {<<handlers[h].id, "synchronized">>}
           \/ /\ offered # Down
              /\ Changed(diff)
              /\ handlers' = [handlers EXCEPT ![h] =
                    [@ EXCEPT !.pc = "saving",
                              !.medias = ApplyDiff(handlers[h].base, diff)]]
              /\ published' = {}
    /\ UNCHANGED <<table, job, tracked, pending, clients, environment>>

\* Mutants of SaveMerge: the merge is added to what the row holds by then, or
\* inserts the row again if it is gone.
SaveMergeIntoCurrent(h) ==
    /\ handlers[h] # None
    /\ handlers[h].pc = "saving"
    /\ Present(handlers[h].id)
    /\ rows' = [rows EXCEPT ![handlers[h].id].medias = OrEmpty(@) \cup handlers[h].medias]
    /\ handlers' = [handlers EXCEPT ![h] = None]
    /\ published' = {}
    /\ UNCHANGED <<nextId, job, tracked, pending, clients, environment>>

SaveMergeUpserts(h) ==
    /\ handlers[h] # None
    /\ handlers[h].pc = "saving"
    /\ rows' = [rows EXCEPT ![handlers[h].id] =
                  [url |-> handlers[h].url, auto |-> FALSE, enabled |-> TRUE,
                   medias |-> handlers[h].medias]]
    /\ handlers' = [handlers EXCEPT ![h] = None]
    /\ published' = {}
    /\ UNCHANGED <<nextId, job, tracked, pending, clients, environment>>

\* SaveChangesAsync writes the column Medias of the row.  A row that is gone
\* is a DbUpdateConcurrencyException, which the consumer swallows.
SaveMerge(h) ==
    /\ handlers[h] # None
    /\ handlers[h].pc = "saving"
    /\ LET p == handlers[h].id
       IN  \/ /\ Present(p)
              /\ rows' = [rows EXCEPT ![p].medias = handlers[h].medias]
              /\ published' = {<<p, "synchronized">>}
           \/ /\ ~Present(p)
              /\ published' = {}
              /\ UNCHANGED rows
    /\ handlers' = [handlers EXCEPT ![h] = None]
    /\ UNCHANGED <<nextId, job, tracked, pending, clients, environment>>

------------------------------------------------------------------------------
(* The pages of the client and PlaylistsController, for any user *)

\* GetAsync gives the browser a copy of the row.
Open(c, p) ==
    /\ clients[c] = None
    /\ Present(p)
    /\ clients' = [clients EXCEPT ![c] = [pc |-> "open", id |-> p, row |-> rows[p]]]
    /\ published' = {}
    /\ UNCHANGED <<table, batch, environment>>

\* What the pages let the user do to a list: nothing, drop a media, or give it
\* another name, group or guide, which keep its url and its persisted Id.
ListEdits(list) ==
    IF list = Null THEN {Null}
    ELSE {list}
         \cup {list \ {m} : m \in list}
         \cup {(list \ {e[1]}) \cup {e[2]} :
                 e \in {f \in list \X Media : /\ UrlOf[f[1]] = UrlOf[f[2]]
                                             /\ IdOf[f[1]] = IdOf[f[2]]}}

\* The playlist page edits the list and PUTs the model, settings included; the
\* dialogs of the playlist's settings PUT the light model.
Edits(row, kind) ==
    IF kind = "put"
    THEN {[row EXCEPT !.medias = list] : list \in ListEdits(row.medias)}
    ELSE {[url |-> u, auto |-> row.auto, enabled |-> e, medias |-> row.medias] :
            u \in Urls, e \in BOOLEAN}

\* PutAsync and PutLightAsync load the row (404 if it is gone) and assign the
\* fields of the model to it; PutLightAsync leaves the medias alone.
SendPut(c, kind) ==
    /\ clients[c] # None
    /\ clients[c].pc = "open"
    /\ LET p == clients[c].id
       IN  /\ Present(p)
           /\ \E row \in Edits(clients[c].row, kind) :
                 clients' = [clients EXCEPT ![c] =
                   [pc |-> kind, id |-> p, row |-> row,
                    loaded |-> [url |-> rows[p].url, enabled |-> rows[p].enabled]]]
    /\ published' = {}
    /\ UNCHANGED <<table, batch, environment>>

\* The diff dialog asks DiffAsync for a report.  It posts the id and the url of
\* the playlist; the request looks at the url only, and compares the source with
\* any row that has it.  A report with no list of removed medias cannot be
\* accepted: acceptMerge throws.
AskDiff(c) ==
    /\ c \in DialogUsers
    /\ clients[c] # None
    /\ clients[c].pc = "open"
    /\ clients[c].row.medias # Null
    /\ LET copy == clients[c].row
       IN  /\ source[copy.url] # Down
           /\ \E q \in Ids :
                 /\ Present(q)
                 /\ rows[q].url = copy.url
                 /\ LET report == DiffWithSource(rows[q].medias, source[copy.url])
                    IN  /\ report.removed # Null
                        /\ clients' = [clients EXCEPT ![c] =
                              [pc |-> "diff", id |-> clients[c].id, row |-> copy,
                               new |-> report.new, removed |-> report.removed]]
    /\ published' = {}
    /\ UNCHANGED <<table, batch, environment>>

\* acceptMerge applies the report to the copy in the browser and PUTs the whole
\* playlist: PutAsync loads the row as above.  A report that lists as new a channel
\* that the copy has was computed on another list than the copy.
AcceptMerge(c) ==
    /\ clients[c] # None
    /\ clients[c].pc = "diff"
    /\ LET p == clients[c].id
           copy == clients[c].row
       IN  /\ Present(p)
           /\ clients' = [clients EXCEPT ![c] =
                 [pc |-> "put", id |-> p,
                  row |-> [copy EXCEPT !.medias = AcceptDiff(copy.medias, clients[c])],
                  loaded |-> [url |-> rows[p].url, enabled |-> rows[p].enabled]]]
           /\ misled' = IF UrlsOf(clients[c].new) \cap UrlsOf(copy.medias) = {}
                        THEN misled ELSE misled \cup {p}
    /\ published' = {}
    /\ UNCHANGED <<table, batch, source, changes, crashes>>

CloseDialog(c) ==
    /\ clients[c] # None
    /\ clients[c].pc = "diff"
    /\ clients' = [clients EXCEPT ![c] =
          [pc |-> "open", id |-> clients[c].id, row |-> clients[c].row]]
    /\ published' = {}
    /\ UNCHANGED <<table, batch, environment>>

\* Mutant of SavePut: the medias sent are added to those of the row.
SavePutAdds(c) ==
    /\ clients[c] # None
    /\ clients[c].pc \in {"put", "light"}
    /\ LET p == clients[c].id
           sent == clients[c].row
       IN  /\ Present(p)
           /\ rows' = [rows EXCEPT ![p].medias = OrEmpty(@) \cup OrEmpty(sent.medias)]
           /\ clients' = [clients EXCEPT ![c] = [pc |-> "open", id |-> p, row |-> sent]]
    /\ published' = {}
    /\ UNCHANGED <<nextId, batch, environment>>

\* SaveChangesAsync writes the columns whose value differs from the one it
\* loaded; Medias always does, since jsonb does not keep the text it was given.
\* The page stays open with the copy it has sent.
SavePut(c) ==
    /\ clients[c] # None
    /\ clients[c].pc \in {"put", "light"}
    /\ LET p == clients[c].id
           sent == clients[c].row
           loaded == clients[c].loaded
       IN  /\ \/ /\ Present(p)
                 /\ rows' = [rows EXCEPT ![p] =
                       [url |-> IF sent.url = loaded.url THEN @.url ELSE sent.url,
                        auto |-> @.auto,
                        enabled |-> IF sent.enabled = loaded.enabled
                                    THEN @.enabled ELSE sent.enabled,
                        medias |-> IF clients[c].pc = "light"
                                   THEN @.medias ELSE sent.medias]]
              \/ ~Present(p) /\ UNCHANGED rows
           /\ clients' = [clients EXCEPT ![c] = [pc |-> "open", id |-> p, row |-> sent]]
    /\ published' = {}
    /\ UNCHANGED <<nextId, batch, environment>>

\* Delete removes the row of any id.
Delete(p) ==
    /\ Present(p)
    /\ rows' = [rows EXCEPT ![p] = None]
    /\ published' = {}
    /\ UNCHANGED <<nextId, batch, clients, environment>>

\* Mutants of ImportFromUrl: the new row is left to the batch, or takes the
\* first id that is free.
ImportManual(u) ==
    /\ nextId <= MaxId
    /\ ServesList(u)
    /\ rows' = [rows EXCEPT ![nextId] =
                  [url |-> u, auto |-> FALSE, enabled |-> TRUE, medias |-> source[u]]]
    /\ nextId' = nextId + 1
    /\ published' = {}
    /\ UNCHANGED <<batch, clients, environment>>

ImportReusesIds(u) ==
    /\ nextId <= MaxId
    /\ ServesList(u)
    /\ \E p \in Ids :
          /\ ~Present(p)
          /\ \A q \in 1 .. p - 1 : Present(q)
          /\ rows' = [rows EXCEPT ![p] =
                        [url |-> u, auto |-> TRUE, enabled |-> TRUE, medias |-> source[u]]]
          /\ nextId' = IF p = nextId THEN nextId + 1 ELSE nextId
    /\ published' = {}
    /\ UNCHANGED <<batch, clients, environment>>

\* ImportFromUrl pulls the source and inserts a new row with what it serves.
\* A pull that throws, or gives a null list, throws before the insert; an
\* empty list leaves the medias of the new row null.
ImportFromUrl(u) ==
    /\ nextId <= MaxId
    /\ ServesList(u)
    /\ rows' = [rows EXCEPT ![nextId] =
                  [url |-> u, auto |-> TRUE, enabled |-> TRUE,
                   medias |-> IF source[u] = {} THEN Null ELSE source[u]]]
    /\ nextId' = nextId + 1
    /\ published' = {}
    /\ UNCHANGED <<batch, clients, environment>>

\* Mutant of SynkAsync: the reset skips the guard of SynkPlaylistAsync.
SynkAsyncAny(c, p) ==
    /\ clients[c] = None
    /\ Present(p)
    /\ clients' = [clients EXCEPT ![c] =
          [pc |-> "resetting", id |-> p, url |-> rows[p].url, medias |-> rows[p].medias]]
    /\ published' = {}
    /\ UNCHANGED <<table, batch, environment>>

\* SynkAsync takes a row with the posted url, whoever owns it; SynkPlaylistAsync
\* passes the same guard as in the batch, then finds the row to replace.
SynkAsync(c, p) ==
    /\ clients[c] = None
    /\ Synchronizable(p)
    /\ clients' = [clients EXCEPT ![c] =
          [pc |-> "resetting", id |-> p, url |-> rows[p].url, medias |-> rows[p].medias]]
    /\ published' = {}
    /\ UNCHANGED <<table, batch, environment>>

\* Mutant of PullReset: the answer of a source is stored whatever it is.
PullResetUnchecked(c) ==
    /\ clients[c] # None
    /\ clients[c].pc = "resetting"
    /\ clients' = [clients EXCEPT ![c] =
          [pc |-> "replacing", id |-> @.id, url |-> @.url, medias |-> source[@.url]]]
    /\ published' = {}
    /\ UNCHANGED <<table, batch, environment>>

\* A source that serves an empty list leaves the medias as they were loaded.
PullReset(c) ==
    /\ clients[c] # None
    /\ clients[c].pc = "resetting"
    /\ LET offered == source[clients[c].url]
       IN  clients' = [clients EXCEPT ![c] =
             IF ~ServesList(clients[c].url) THEN None
             ELSE [pc |-> "replacing", id |-> @.id, url |-> @.url,
                   medias |-> IF offered = {} THEN @.medias ELSE offered]]
    /\ published' = {}
    /\ UNCHANGED <<table, batch, environment>>

SaveReset(c) ==
    /\ clients[c] # None
    /\ clients[c].pc = "replacing"
    /\ LET p == clients[c].id
       IN  \/ /\ Present(p)
              /\ rows' = [rows EXCEPT ![p].medias = clients[c].medias]
           \/ ~Present(p) /\ UNCHANGED rows
    /\ clients' = [clients EXCEPT ![c] = None]
    /\ published' = {}
    /\ UNCHANGED <<nextId, batch, environment>>

\* The user closes the page, or the WebApi dies before its request has saved.
Leave(c) ==
    /\ clients[c] # None
    /\ clients' = [clients EXCEPT ![c] = None]
    /\ published' = {}
    /\ UNCHANGED <<table, batch, environment>>

------------------------------------------------------------------------------
(* The environment *)

\* A source starts to serve another list, a null one, or none at all.
SourceChanges(u) ==
    /\ changes < MaxChanges
    /\ source' \in {[source EXCEPT ![u] = s] : s \in Offers \cup {Null, Down}}
    /\ source' # source
    /\ changes' = changes + 1
    /\ published' = {}
    /\ UNCHANGED <<table, batch, clients, crashes, misled>>

\* The batch dies and restarts.  Its receive endpoint is a temporary queue,
\* which goes with it, and so do the pass and the deliveries in progress.
BatchDies ==
    /\ crashes < MaxCrashes
    /\ crashes' = crashes + 1
    /\ job' = [p \in Ids |-> None]
    /\ tracked' = [p \in Ids |-> None]
    /\ pending' = [p \in Ids |-> 0]
    /\ handlers' = [h \in Handlers |-> None]
    /\ published' = {}
    /\ UNCHANGED <<table, clients, source, changes, misled>>

Deliver(p) == \E h \in Handlers : ConsumeDiff(h, p)

Next ==
    \/ StartPass
    \/ \E p \in Ids : ComparePlaylist(p)
    \/ \E p \in Ids : Deliver(p)
    \/ \E h \in Handlers : PullSource(h)
    \/ \E h \in Handlers : SaveMerge(h)
    \/ \E c \in Clients, p \in Ids : Open(c, p)
    \/ \E c \in Clients, kind \in {"put", "light"} : SendPut(c, kind)
    \/ \E c \in Clients : AskDiff(c)
    \/ \E c \in Clients : AcceptMerge(c)
    \/ \E c \in Clients : CloseDialog(c)
    \/ \E c \in Clients : SavePut(c)
    \/ \E p \in Ids : Delete(p)
    \/ \E u \in Urls : ImportFromUrl(u)
    \/ \E c \in Clients, p \in Ids : SynkAsync(c, p)
    \/ \E c \in Clients : PullReset(c)
    \/ \E c \in Clients : SaveReset(c)
    \/ \E c \in Clients : Leave(c)
    \/ \E u \in Urls : SourceChanges(u)
    \/ BatchDies

Spec == Init /\ [][Next]_vars

\* The schedule fires again and again; tasks that were started run; the queue
\* is first in first out, so no event is passed over for ever.
Fairness ==
    /\ WF_vars(StartPass)
    /\ \A p \in Ids : WF_vars(ComparePlaylist(p)) /\ SF_vars(Deliver(p))
    /\ \A h \in Handlers : WF_vars(PullSource(h)) /\ WF_vars(SaveMerge(h))

FairSpec == Spec /\ Fairness

------------------------------------------------------------------------------
(* Properties *)

TypeOK ==
    /\ rows \in [Ids -> {None} \cup Row]
    /\ nextId \in 1 .. MaxId + 1
    /\ source \in [Urls -> {Null, Down} \cup Offers]
    /\ job \in [Ids -> {None} \cup Snapshot]
    /\ tracked \in [Ids -> {None} \cup Snapshot]
    /\ pending \in [Ids -> 0 .. MaxPending]
    /\ published \subseteq Ids \X {"error", "changed", "synchronized"}
    /\ handlers \in [Handlers -> {None} \cup Delivery]
    /\ clients \in [Clients -> {None} \cup Session]
    /\ changes \in 0 .. MaxChanges
    /\ crashes \in 0 .. MaxCrashes
    /\ misled \subseteq Ids

\* A playlist that was deleted never comes back: neither a merge nor a PUT nor
\* a reset that had loaded it before, nor an import, writes its id again
\* (the saves of PlaylistService and PlaylistsController are updates).
DeletedStaysDeleted ==
    [][\A p \in Ids : p < nextId /\ rows[p] = None => rows'[p] = None]_vars

\* The medias of a row whose AutoSynchronize is set change only by a PUT of a
\* user: whatever the row, the pass, the events in the queue and SynkAsync do,
\* the guard of SynkPlaylistAsync keeps every synchronisation off it.
AutoRowsChangeByHandOnly ==
    [][\A p \in Ids :
        /\ Present(p)
        /\ rows[p].auto
        /\ rows'[p] \notin {rows[p], None}
        => \E c \in Clients : /\ clients[c] # None
                             /\ clients[c].id = p
                             /\ clients[c].pc \in {"put", "light"}]_vars

\* The channels that some source may list twice itself.
OfferedTwice == UNION {Twice(list) : list \in Offers}

\* A list that has two versions of such channels only.
Tidy(list) == Twice(OrEmpty(list)) \subseteq OfferedTwice

\* No playlist ever lists two versions (two medias with one url) of a channel that no
\* source lists twice, however merges, resets, PUTs of old copies and reports of the
\* diff dialog follow each other, unless a user has applied a report to a copy of it
\* that the report was not on: the list a save writes was computed from one list and
\* one pull.
OneVersionPerChannel ==
    \A p \in Ids \ misled : Present(p) => Tidy(rows[p].medias)

\* Why it holds: the lists on their way to a row are tidy too,
DeliveriesTidy ==
    \A h \in Handlers : handlers[h] # None /\ handlers[h].id \notin misled =>
        Tidy(handlers[h].base) /\ Tidy(handlers[h].medias)

SessionsTidy ==
    \A c \in Clients : clients[c] # None /\ clients[c].id \notin misled =>
        IF clients[c].pc \in {"resetting", "replacing"}
        THEN Tidy(clients[c].medias)
        ELSE Tidy(clients[c].row.medias)

\* and so is what a report adds.
ReportsTidy ==
    \A c \in Clients : clients[c] # None /\ clients[c].pc = "diff" => Tidy(clients[c].new)

\* A row with an id that was given out, and not one of those the batch leaves.
Manual(p) == p < nextId /\ (Present(p) => ~rows[p].auto)

\* Every synchronisation in progress is one of a row whose AutoSynchronize is
\* not set, or that was deleted since.
DeliveriesManual ==
    \A h \in Handlers : handlers[h] # None => Manual(handlers[h].id)

ResetsManual ==
    \A c \in Clients :
        clients[c] # None /\ clients[c].pc \in {"resetting", "replacing"}
            => Manual(clients[c].id)

\* Ids that were not given out have no row.
FreshIds == \A p \in Ids : Present(p) => p < nextId

\* The inductive invariants of the proofs: SyncInv alone, and TidyInv with it.
SyncInv ==
    /\ TypeOK
    /\ FreshIds
    /\ DeliveriesManual
    /\ ResetsManual

TidyInv ==
    /\ OneVersionPerChannel
    /\ DeliveriesTidy
    /\ SessionsTidy
    /\ ReportsTidy

\* What a delivery is about to save keeps the versions it has loaded.
DeliveriesKeepVersions ==
    \A h \in Handlers :
        handlers[h] # None /\ handlers[h].pc = "saving"
            => KeepsVersions(handlers[h].base, handlers[h].medias)

\* The save of a merge by a delivery of RabbitSynchronizeConsumer.
SavesMerge(h) ==
    /\ handlers[h] # None
    /\ handlers[h].pc = "saving"
    /\ handlers'[h] = None
    /\ rows' # rows

\* What the user has made of a media outlives every merge that leaves its
\* channel in the playlist.
EditsSurvive(h) ==
    LET p == handlers[h].id
    IN  KeepsVersions(OrEmpty(rows[p].medias), OrEmpty(rows'[p].medias))

\* A merge replaces no version of a channel that stays, provided the row still
\* has the medias that the delivery has loaded.
MergeKeepsEditsItSaw ==
    [][\A h \in Handlers :
        SavesMerge(h) /\ rows[handlers[h].id].medias = handlers[h].base
            => EditsSurvive(h)]_vars

\* The same without the proviso: what the comment on RabbitSynchronizeConsumer
\* says, that it adds the newest medias and deletes the removed ones.
MergeOnlyAddsAndDeletes ==
    [][\A h \in Handlers : SavesMerge(h) => EditsSurvive(h)]_vars

\* A merge in the batch makes the playlist list exactly the channels of the
\* list that its pull got: what the comment on RabbitSynchronizeConsumer says.
\* It needs medias with distinct urls to have distinct Ids.
MergesMatchTheirPull ==
    [][\A h \in Handlers :
        /\ handlers[h] # None
        /\ handlers[h].pc = "pulling"
        /\ handlers'[h] # None
        /\ handlers'[h].pc = "saving"
        => UrlsOf(handlers'[h].medias) = UrlsOf(OrEmpty(source[handlers[h].url]))]_vars

\* A report shown on a playlist that still has its url lists no media as new
\* whose channel the playlist has: what the comment on DiffAsync says, that it
\* reports the new medias and those that no longer exist.
ReportsAreOnThePlaylist ==
    [][\A c \in Clients :
        /\ clients[c] # None
        /\ clients[c].pc = "open"
        /\ clients'[c] # None
        /\ clients'[c].pc = "diff"
        /\ Present(clients[c].id)
        /\ rows[clients[c].id].url = clients[c].row.url
        => UrlsOf(clients'[c].new)
             \cap UrlsOf(OrEmpty(rows[clients[c].id].medias)) = {}]_vars

\* The batch is responsible for p: enabled, synchronised by events, holding
\* medias, and with a source that serves a list.
Followed(p) ==
    /\ Present(p)
    /\ rows[p].enabled
    /\ ~rows[p].auto
    /\ ~NullOrEmpty(rows[p].medias)
    /\ ServesList(rows[p].url)

InSync(p) ==
    UrlsOf(OrEmpty(rows[p].medias)) = UrlsOf(source[rows[p].url])

\* Every followed playlist comes to list exactly the channels its source
\* serves, across crashes that lose the events, changes of the source between
\* two pulls, and users that save old copies meanwhile.
FollowsItsSource ==
    \A p \in Ids : Followed(p) ~> ~Followed(p) \/ InSync(p)

\* The same for the rows whose AutoSynchronize is set.
AutoRowsFollowTheirSource ==
    \A p \in Ids :
        /\ Present(p)
        /\ rows[p].enabled
        /\ rows[p].auto
        /\ ~NullOrEmpty(rows[p].medias)
        /\ ServesList(rows[p].url)
        ~> ~Present(p) \/ ~ServesList(rows[p].url) \/ InSync(p)

\* The same for the rows without medias.
EmptiedRowsFollowTheirSource ==
    \A p \in Ids :
        /\ Present(p)
        /\ rows[p].enabled
        /\ ~rows[p].auto
        /\ rows[p].medias = {}
        /\ ServesList(rows[p].url)
        ~> ~Present(p) \/ ~ServesList(rows[p].url) \/ InSync(p)

\* A playlist is settled: it has caught up, and whatever synchronises it now, the
\* deliveries as well as the resets, is about its present source and, once it has
\* pulled, about what that serves.
DeliveriesAgree(p) ==
    \A h \in Handlers :
        handlers[h] # None /\ handlers[h].id = p =>
            /\ handlers[h].url = rows[p].url
            /\ handlers[h].pc = "saving" =>
                  UrlsOf(handlers[h].medias) = UrlsOf(source[rows[p].url])

ResetsAgree(p) ==
    \A c \in Clients :
        clients[c] # None /\ clients[c].id = p =>
            /\ clients[c].pc \in {"resetting", "replacing"} => clients[c].url = rows[p].url
            /\ clients[c].pc = "replacing" =>
                  UrlsOf(OrEmpty(clients[c].medias)) = UrlsOf(source[rows[p].url])

Settled(p) == Followed(p) /\ InSync(p) /\ DeliveriesAgree(p) /\ ResetsAgree(p)

\* A user saves a copy of p.
SavesPut(c, p) ==
    /\ clients[c] # None
    /\ clients[c].id = p
    /\ clients[c].pc \in {"put", "light"}
    /\ clients'[c] # None

\* A settled playlist stays settled until its source serves something else, a user
\* saves a copy of it, or it is deleted: neither a pass on old rows, nor an event
\* delivered twice or late, nor several deliveries of it at a time, each with a list
\* it has loaded before the other saved, nor a reset among them, nor the death of the
\* batch takes it away from its source again.  Merges need medias with distinct urls
\* to have distinct Ids.
SettledStaysSettled ==
    [][\A p \in Ids : Settled(p) =>
        \/ Settled(p)'
        \/ source'[rows[p].url] # source[rows[p].url]
        \/ \E c \in Clients : SavesPut(c, p)
        \/ rows'[p] = None]_vars

\* The playlists that users have open in a browser.
Opened ==
    {clients[c].id : c \in {d \in Clients : /\ clients[d] # None
                                          /\ clients[d].pc \in {"open", "diff", "put", "light"}}}

Store == INSTANCE PlaylistStore WITH open <- Opened

\* The table keeps the promises of PlaylistStore: each step of the batch, of
\* the requests and of the environment is a creation, an edit by a user who has
\* the playlist open, a refresh of a row that is not auto, a removal, or none.
KeepsStorePromises == Store!Spec
=============================================================================
