# A TLA+ model of Synker

Synker keeps IPTV playlists for its users. A playlist is a list of medias
(channels) that was pulled from a *source*, an m3u file or an Xtream account at a
url; a user edits it in the browser (renames, sorts, removes, disables channels),
and the program keeps it up to date with its source. This directory specifies and
verifies the part of the program where that can go wrong: several processes load,
compute and overwrite the same rows with no lock and no version number, events
cross a message queue, sources fail or change between two pulls, a cache
answers in between, and the pages of the browser edit copies while timers and answers
arrive in any order.

1. [The system](#1-the-system): components, state, operations, hard behaviours
2. [The modules](#2-the-modules), and how they correspond to the code
3. [The runs](#3-the-runs): what TLC checks, in which bounds
4. [Fairness](#4-fairness)
5. [The proofs](#5-the-proofs)
6. [Where the code and its words disagree](#6-where-the-code-and-its-words-disagree)
7. [What is not modelled](#7-what-is-not-modelled)
8. [What could come next](#8-what-could-come-next)

To repeat everything, in this directory: `tlc -config X.cfg M` for each pair of
section 3, `tlapm M.tla` for each module of section 5.

## 1. The system

Three programs and a browser client share a PostgreSQL database (Entity Framework,
one `SynkerDbContext` per request or delivery), a RabbitMQ broker (MassTransit for
events, a plain client for mails), an Elasticsearch server and a Firebase database.

| component | state it keeps | operations that change state | what makes it correct |
|---|---|---|---|
| **Playlist synchronisation** `PlaylistService` | none; it changes rows | `SynkPlaylistAsync` (merge an existing row; reset a row or import a new one), `DiffWithSourceAsync` | a merge makes the row list what the source serves, keeps what the user made of a channel that stays, and touches only rows left to the batch |
| **Diff job** `DiffHostedService` (batch) | the rows of the current pass, the entities its `DbContext` tracks | a pass over all enabled rows; per row a pull, and a `DiffPlaylistEvent` | every difference is found again until it is merged |
| **Diff consumers** `RabbitSynchronizeConsumer`, `RabbitNotificationConsumer` (batch) | deliveries in progress | load, pull, merge, save; publish a note | as above, with several deliveries of one playlist at a time |
| **Batch process** `SyncLibrary/Program.cs` | a receive endpoint on a temporary queue | start, stop | lost events are made up for |
| **Playlist requests** `PlaylistsController` | none; rows | `PutAsync`, `PutLightAsync`, `Delete`, `SynkAsync`, `DiffAsync`, `ImportFromUrl` | a stale copy must not do more than the user asked for; a deleted row stays deleted |
| **List cache** `ListAsync`, `ClearCache` | `IMemoryCache`: lists, and per user an index of their keys | fill, clear, expire | a user sees their own changes |
| **Playlist page** of the client | a copy of the row in the browser: the array the table shows and the one that is saved, a selection and its counter, bulk requests in flight | select, move, delete, save, reset, merge in the diff dialog, bulk requests | what is saved is what was shown; an answer changes what it was asked for |
| **Search pages** of the client | two timers per page, requests in flight, the last query in the local storage | type, turn, leave, come back | the table settles on the answer to the query it shows; the next visit restores it |
| **Health job**, `FirebaseNotificationConsumer`, **home page** | checks in progress, a temporary queue, a record per playlist in Firebase, an icon per playlist | a pass, a check, a put, a visit | the record and the icon settle on the state of the source |
| **Playlist table** `Playlist`, `SynkConfig` | the rows | column-wise updates, no concurrency token | |
| Notes of `TraceEvent`s | per-user notes in Firebase | post a note | notes are not lost |
| Mail queue `MessageQueueService`, `NotificationConsumer`, `NotificationService` | a RabbitMQ queue | publish; the consumer is started nowhere | a mail is sent once, and is sent |
| Media references, site packs, picons | Elasticsearch indexes | bulk index, delete-then-index, remove duplicates | a rebuild loses nothing |
| Matching, TMDB limit | a counter shared by threads | match one or all medias | the rate limit holds |
| Commands | a table shared with agents | create, set a status | statuses only advance |
| Users, tokens | the user table | insert a user at the first token | one row per user |
| Providers, handlers, Tvheadend and Xtream clients, Elastic client, other controllers, start-up, Identity server | none that outlives a call | | |

How the parts interact on the path this project is about:

```
   schedule                         RabbitMQ (temporary queue)
      |                                     |
 DiffHostedService --pull--> source         v
      |  load rows                  RabbitNotificationConsumer --> TraceEvent "changed"
      |  diff                       RabbitSynchronizeConsumer
      +--publish DiffPlaylistEvent-->  load row, guard
                                       pull source again
   PostgreSQL: Playlist rows  <------  save column Medias  ---> TraceEvent "synchronized"
      ^          ^
      |          +---- PlaylistsController: GET / PUT / PUT light / DELETE /
      |                synk (reset) / import / diff report
      +--------------- browser copy, edited by the user for as long as they like
```

The behaviours that are hard here, and hard to test:

* **Lost updates.** A merge, a reset and a PUT each write a list computed from a
  copy; the copy of a merge is as old as a pull from the network, the copy of a PUT
  as old as the page in the browser.
* **Events that outlive their reason.** When an event is consumed the row may have
  changed, been deleted, been switched to another source, or have been merged by a
  delivery that runs concurrently; the source is pulled a second time and may answer
  something else.
* **Loss.** The receive endpoint is a temporary queue: the batch's death loses the
  queue, the pass and the deliveries. A pull that fails throws, and the consumer
  swallows the exception. Nothing is retried; only later passes can make up for it.
* **Nulls.** `TvgMedias` may be null (an import of an empty list), empty (a merge
  with a source that served nothing), and `removed` is null for both; some callers
  test for it and some do not.
* **Two identities of a media.** The diff compares `Url`, the removal compares `Id`,
  and the two do not separate the same medias.
* **A change tracker that outlives its query**: a `DbContext` used for two passes
  answers the second from the entities of the first.
* **A cache with a hand-made index**, which is read, filled and cleared in separate
  steps by concurrent requests.
* **Passes that overlap.** The body of the health job's `ForAll` is an `async void`: a
  pass ends when its checks have begun, reports of several passes are consumed several
  at a time, and the put of an old one may be the last.
* **Two arrays for one list.** The playlist page shows one array and saves another; they
  are the same object until a report of the diff dialog replaces one of them.
* **Answers and timers of a page that has moved on**: a bulk request answered after its
  medias were moved or deleted, a search answered after a newer one, a timer that fires
  for a page that was left.

`PROJECT.json` lists these and the remaining hazards with the line where each bites
and the properties that cover it.

## 2. The modules

```
 PlaylistMerge          the algorithm: diff, merge, and the dialog's merge; no state
   |        \
 PlaylistStore \        abstract: what the table promises, whoever writes it
   |            \
 PlaylistSync ---+      detailed: job, queue, deliveries, requests, sources, crashes
   |    \                 Store == INSTANCE PlaylistStore WITH open <- Opened
   |     PlaylistSyncProofs -> PlaylistSyncSafety -> PlaylistSyncTidy
 MCPlaylistSync         small instances of PlaylistSync

 ListView               abstract: what a user may count on of a kept list
   |
 PlaylistCache          the list cache; View == INSTANCE ListView WITH shown <- Shown
   |    \
   |     PlaylistCacheProofs
 MCPlaylistCache

 PlaylistPage           the playlist page of the browser
   |    \
   |     PlaylistPageProofs ---+
 MCPlaylistPage                |
                               +--- ListLemmas   sequences: removal, appending, least elements
 SearchPages            the pages that search
   |    \                      |
   |     SearchPagesProofs ----+
 MCSearchPages                 |
                               |
 HealthRegister         abstract: a register per playlist, written with what was measured
   |                           |
 HealthBoard            health job, board and home page
   |    \                      |
   |     HealthBoardProofs ----+
 MCHealthBoard
```

### PlaylistMerge

`DiffWithSource` is `PlaylistService.DiffWithSourceAsync` after the pull, with its
three exits: the provider returned null, the row has no medias (this is where
`removed` becomes null), and the two `Except`s by url. `RemoveAll` and `ApplyDiff` are
the loop of `SynkPlaylistAsync`, which removes by *Id*. `AcceptDiff` is
`acceptMerge` of the client's dialog, which removes by *url*. A media is an opaque
value with two projections, `UrlOf` and `IdOf`; a list is the set of its members (no
property here is about order, and the code never removes one of two equal medias).
Two medias with one url are two *versions* of a channel: what the source serves, and
what the user has made of it.

### PlaylistSync

| variable | code |
|---|---|
| `rows` | the `Playlist` table: `SynkConfig.Url`, `SynkConfig.AutoSynchronize`, `Status = Enabled`, `Medias` (a jsonb column, hence saved as a whole) |
| `nextId` | the sequence of the primary key |
| `source` | what a pull from each url would answer now: a list, null, or `Down` (it throws). A url that cannot be parsed or is null is a source that is always `Down` |
| `job` | the rows of the running pass of `DiffHostedService` that are not compared yet, as loaded by its query |
| `tracked` | the change tracker of the job's `DbContext`, when one context serves all passes |
| `pending` | `DiffPlaylistEvent`s in the queue, per playlist |
| `handlers` | deliveries in `RabbitSynchronizeConsumer`: `pulling` after its load, `saving` after its pull |
| `clients` | browser sessions: `open` with a copy of the row, `diff` with the dialog, `put`/`light` between load and save of the request, `resetting`/`replacing` in `SynkAsync` |
| `published` | the `TraceEvent`s the last step has published (an output) |
| `changes`, `crashes` | how often the environment has acted (bounds) |

| action | code |
|---|---|
| `StartPass` | the schedule fires and the query takes all enabled rows |
| `ComparePlaylist(p)` | the body of the loop: pull, diff, publish an event, or an error note if any of it throws (also `removed.Any()` on null) |
| `Deliver(p)`, `ConsumeDiff(h, p)` | an event reaches both consumers: the note "changed", the load and the guard of `SynkPlaylistAsync` |
| `PullSource(h)` | the second pull and the merge in memory |
| `SaveMerge(h)` | `SaveChangesAsync`: writes `Medias`, or throws if the row is gone |
| `Open(c, p)` | GET of a playlist into the browser |
| `SendPut(c, kind)`, `SavePut(c)` | PUT and PUT light: the edited copy is sent and the row loaded; then the columns that differ from the loaded values are written |
| `AskDiff(c)`, `AcceptMerge(c)`, `CloseDialog(c)` | the diff dialog: report of `DiffAsync` (on the *first* row with the url), merge in the browser followed by a PUT, or none |
| `Delete(p)`, `ImportFromUrl(u)` | the requests of these names |
| `SynkAsync(c, p)`, `PullReset(c)`, `SaveReset(c)` | the reset of a row from its source: load and guard, pull, save |
| `Leave(c)` | the page is closed, or the WebApi dies during a request |
| `SourceChanges(u)`, `BatchDies` | the environment |

Each load, each pull and each save that another process can come between is an action
of its own, with these exceptions, each an abstraction:

* the delivery of an event and the load that follows it at once;
* the load and pull of `DiffAsync`, and the pull and insert of `ImportFromUrl`: they save no
  row that existed before, and what they produce, a report and a new row, is stale again
  as soon as the source or the row changes afterwards, which it may;
* the pull and the publication of `ComparePlaylist`: an event carries no list;
* the two loads of `SynkAsync` (one by url, one by id in `SynkPlaylistAsync`): the guard looks
  at a flag that no code changes;
* `StartPass` waits until the rows of the pass before are compared. The body of
  `ForAll` is an `async void`, so passes may overlap; since a comparison can come any time after
  its pass began and only publishes an event, two passes publish what one and a later
  delivery do.

The load of `SendPut` only serves the comparison of columns in `SavePut`.

`misled` is a history variable, of no effect on the others: the playlists to a copy of which a
user has applied a report of the dialog that lists as new a channel the copy has, so that it
was computed on another list.

`ContextPerRun` says whether the job gets a new `DbContext` for each pass. That is up
to the scheduler library that creates the hosted service, which is not in the
repository, so the safety runs take the worse case, FALSE, and the theorems hold
for both.

### PlaylistStore

What the table promises to somebody who knows neither the batch nor the requests:
rows are created with a fresh id and `AutoSynchronize` set; the medias of such a row
change only through a user who has it open; a synchronisation changes the medias and
nothing else; a removed row stays removed. `PlaylistSync` implements it with
`open <- Opened`, the playlists some session holds (`KeepsStorePromises`).

### PlaylistCache

`version` counts the changes of each user's playlists in the database; an answer is
the version it was read from. `ListMisses`, `ListReads`, `ListCommits` and `ListFails`
are the steps of `ListAsync` through `GetOrCreateAsync`; `Save` then `ClearCache` are
the requests that end in `ClearCache`; `SaveWithoutClear` stands for `PutAsync`,
`SynkAsync` and the batch, which clear nothing. `told` is the ghost of the property: the
version that held when the user got the answer to their last change. A user may have any
number of requests at a time (`Tabs`, `UserOf`): neither the WebApi nor the client keeps
them apart. So `ClearCache` may come between `ListMisses` and `ListCommits`, and the list
stored after it is from before the change: two history variables record it, `overtaken` (the
requests that are waiting for a list while the cache of their user is cleared) and `late`
(the lists such a request has stored). The steps of a request that contain no `await`, the
update of the index on a miss and `ClearCache`, are one action each. The index
has the two forms the code gives it: created with the first list's key, then extended
with the *user's own* key (line 95 adds that one in place of the list's), so a
`ClearCache` after it also drops the index. `KeysOf` is what the clients of a user ask
for: the pages of this repository ask for one list (page 0, no search, no sort, light),
other clients of the api may ask for any.

### ListView

What a user may count on of the list that is kept for them, without keys, index or
requests: it may be forgotten at any time (`Forget`), it is replaced by a list from after
the last change they were told of only (`Show`), and telling them of a change forgets it
(`Tell`). `PlaylistCache` implements it with `shown <- Shown`, the list under the
*first key* of the index, the one key that `ClearCache` reaches, unless a request that
`ClearCache` has overtaken stored it (`KeepsView`).

### PlaylistPage

| variable | code (`playlist.component.ts`) |
|---|---|
| `data`, `list`, `shared` | `dataSource.data`, `playlistBS.value.tvgMedias`, and whether they are one array. A media is an object of the heap: an id and a number that tells copies of it apart |
| `selected`, `counter`, `drag` | the flags `selected` of the medias, `atLeastOneSelected`, `mouseDown` with `select` |
| `loop` | the `forEach` of `moveUp` and `moveDown`, whose iterations nothing comes between |
| `requests` | `executeHandlers`, `matchVideos` (which look the answers up in the saved array) and `matchPicons` (which looks them up in the table's) in flight, with the ids they were sent for |

The actions bear the names of the handlers. A handler runs to completion and is one step,
because the browser has one thread; what interleaves are handlers and answers. Two of
them are what the code does and not what its names say: `DeleteSelected` deletes nothing,
since the filtered array goes to a data source that the next statement replaces, and
`SwitchPosition` runs past the end of the array, throws, and ends the loop half-way. The
table's sort, filter and pages are a choice of any rows. Answers hold *copies* of medias,
so a media that is replaced loses its selection.

### SearchPages

`Type` and `Turn` are what the user does, `TableEvent` the debounce of the component,
`Ask` the one of the data source, `Answer` and `Fail` what comes back, `Open` and `Leave`
the router. `Switching` holds the page that asks through `switchMap` (medias) and
`Restoring` the one that restores the text into its data source too (site packs); the
epg and xmltv pages are neither. `LateAsk` is the timer of a data source whose page was
left: `ngOnDestroy` ends the subscription of the component, and nothing ends that of
the data source. The three pages of one code share a key of the local storage, as in the
code (`LS_EpgQueryKey` exists and is not used).

### HealthBoard

`StartPass` starts a check for every row, `Respond` ends one (`HealthAsync` and the
publication in one step: the queue loses and reorders events anyhow), `Put` and `PutFails` are the consumer, in any order of the queue, `Die` the
death of the batch; `OpenHome` and `Receive` are `ngOnInit` of the home page and a value
of its subscription. `Receive` keeps the first `isOnline` of a visit, as `Object.assign`
does. The medias of a row are `list` or `null`: a null throws after the request and
nothing is published. The rows come and go by `RowChanges`, which stands for all that
`PlaylistSync` says of them.

### HealthRegister

What the board promises to somebody who knows neither passes nor checks nor queues: a
register per playlist. A source is asked and what it did is under way (`Measure`); what is
under way is written, once or again, in any order (`Write`), or lost (`Lose`). Nothing is
written that was not measured, nor for another playlist. `HealthBoard` implements it with
`inFlight <- Range(events)` (`KeepsRegister`): two queued events of one content are one, so a
put may leave it under way.

## 3. The runs

In all runs of `MCPlaylistSync` there are two channels; the first has two versions,
`a1` as its source serves it and `a2` as a user renames it. A source serves `{a1}`,
`{a1, b1}` and in some runs `{}`; it may also start to answer null or to fail. So a
pull can add a channel, remove one, keep an edited one, keep all, or get nothing, and
each of these can happen to a row that is untouched, edited, stale, emptied or null.
In `batch` the source serves `{a1, a2}`, the first channel twice, or `{b1}`: no provider
removes duplicates.
A third channel adds no case to a diff that looks at medias one by one.

| run | config | what is asked | bounds, and why they are enough |
|---|---|---|---|
| `sync` | `MCPlaylistSync` | every interleaving of the job, one delivery and one user keeps the types, the tidy lists, `DeletedStaysDeleted`, `AutoRowsChangeByHandOnly`, `MergeKeepsEditsItSaw`, `MergesMatchTheirPull`, `SettledStaysSettled`, and implements `PlaylistStore` | 1 row, 1 source that changes once, 1 delivery, 1 session, 1 event: the shortest instance in which all three kinds of writer meet on one row, with empty and null lists |
| `batch` | `MCPlaylistSyncBatch` | `SyncInv`, no id comes back, `PlaylistStore`, and `FollowsItsSource`, with two deliveries at a time | 2 ids of which one is imported meanwhile, 2 deliveries, 2 events, 1 crash: two merges of one row that may have pulled different lists, the loss of up to 2 events, and a merge of a row that is deleted while another takes a new id |
| `dialog` | `MCPlaylistSyncDialog` | what the dialog could break: `OneVersionPerChannel`, `MergeKeepsEditsItSaw`, and `FollowsItsSource` with a user who edits, saves old copies, resets and merges | as `sync`, with the dialog, in which a report may be older or newer than the copy, and lists with two versions of a channel arise |
| `cache` | `MCPlaylistCache` | `OwnChangesAreListed`, `FirstKeyIsFresh`, the invariant behind them, and `KeepsView` | 2 users, one with two requests at a time for 1 list, the other with one for 2 lists, 2 changes per user: a list read before, between and after two changes and stored after another request has cleared the cache, and a second list that the index does not have |
| `page` | `MCPlaylistPage` | `PageInv`, `CounterCovers`, `RowsAreDistinct`, `OnlyReportsPartArrays`, `AnswersStayOnTarget`, `OnlyDeletionsLoseChannels` | 2 medias and one a report may add, 2 requests in flight, 2 objects of an id beside each other: two answers about one media, a media deleted while an answer is out, indexes that differ between the parted arrays |
| `queries` | `MCSearchPages` | `SearchInv`, `SettledShowsCurrent`, `StoredIsOnScreen`, `ShowsCurrentOnly`, `Settles` | one page of each kind, two of which share a key, 2 texts, 2 pages of results, 2 requests in flight on a plain page, 1 timer left behind: an older answer after a newer one, and a query stored for a page that was left |
| `health` | `MCHealthBoard` | `HealthInv`, `AgreementLasts`, `KeepsRegister`, `HealthSettles`, `HomeCatchesUp` | 1 playlist (no step relates two), 3 checks and 3 events at a time, 3 changes, 2 crashes, one `DbContext` for all passes: three overlapping passes with the source changing between them |
| `auto_rows_never_synchronised` | `MCPlaylistSyncAuto` | finding 1 | |
| `emptied_rows_never_refilled` | `MCPlaylistSyncEmptied` | finding 2 | |
| `merge_reverts_edits` | `MCPlaylistSyncRace` | finding 3 | |
| `merge_deletes_by_id` | `MCPlaylistSyncPorts` | finding 4, with `IdOf <- OneId` | |
| `report_on_another_playlist` | `MCPlaylistSyncReport` | finding 5, with two rows of one url | |

The first seven pass; each of the last five has one property, stated from the words of
a comment in the code, that TLC shows violated. The properties:

* `DeletedStaysDeleted`: no merge, PUT or reset that had loaded a row, and no import,
  brings a deleted id back.
* `AutoRowsChangeByHandOnly`: however old the event or the copy, a synchronisation
  never touches a row whose `AutoSynchronize` is set. It relates the guard, evaluated
  once at the load, to a save much later; it holds because no code changes the flag
  of an existing row and because ids are not used again.
* `OneVersionPerChannel`: no sequence of merges, resets, PUTs of stale copies and reports of
  the dialog makes a row list one channel twice that no source lists twice, unless the user
  has applied a report to a copy that it was not on (`misled`). It holds because each
  save writes a list computed from *one* list and *one* pull, however stale the list
  is, and it would not if the merge were applied to what the row holds when it is saved,
  or if a PUT added its medias to the row's (the mutants). The exception is what the
  code does: `DiffAsync` compares the source with the row, the dialog adds the
  result to the copy in the browser, which may have the channel in another version.
* `MergeKeepsEditsItSaw`: a merge replaces no version of a channel that stays, if the row
  still is what the delivery loaded. Without the proviso it is finding 3.
* `MergesMatchTheirPull`: after a merge the row lists exactly the channels the pull got,
  if `Id`s do not collide. Without that it is finding 4.
* `FollowsItsSource`: a row that the batch is responsible for (enabled, not auto, with
  medias, with a source that serves a list) comes to list the channels of its source,
  or stops to be one, whatever was lost on the way.
* `SettledStaysSettled`: a playlist that lists what its source serves, with nothing under
  way that says otherwise, stays so until the source changes, a user saves a copy or the
  playlist is deleted. It is the other half of `FollowsItsSource`: neither a pass on the
  rows of an old `DbContext`, nor an event delivered twice or late, nor deliveries or
  resets side by side, nor a crash brings an old list back.
* `OwnChangesAreListed`: a user who asks for one list only (`OneKey`: what the client of
  this repository does), who has deleted, imported or renamed a playlist of theirs, and
  got the answer, has no list from before it in the cache, except one that was stored by a
  request which was waiting while another cleared the cache. The exception is the race
  between `ListAsync` and `ClearCache`, and it does happen in the code: the old list stays
  until it expires, is cleared or the WebApi restarts, and where `ClearCache` has dropped the
  index no later one reaches it. The property says that nothing else leaves such a
  list behind, whatever requests overlap. `FirstKeyIsFresh` and `KeepsView` say
  how much of this is left to those who ask for several lists: the one under the key that
  the index was created with. Line 95 leaves the others out of the index.
* `CounterCovers`: the bar with the bulk operations, which `atLeastOneSelected` hides at 0,
  is never hidden from a user who has rows selected, though answers, deletions and
  reports change rows and selection and leave the counter. During a drag it may be.
* `OnlyReportsPartArrays`: `Save` posts what the table shows, until a report of the diff
  dialog is accepted; the next rebuild of the data source makes them one again.
* `AnswersStayOnTarget`: whatever was moved, deleted or merged since a bulk request was
  sent, its answer replaces medias it was sent for, in place, and brings nothing deleted
  back. `matchPicons` is excepted while the arrays have parted.
* `RowsAreDistinct`, `OnlyDeletionsLoseChannels`: the arrays of the page never hold one media
  twice, and what `Save` posts loses a channel only by a deletion or a report that
  removes it: not by a move that stops half-way (`switchPosition` runs past the end), by
  an answer after moves, or by a rebuild. Again `matchPicons` on parted arrays is excepted,
  because it does lose channels.
* `SettledShowsCurrent`, `ShowsCurrentOnly`, `StoredIsOnScreen`, `Settles`: see section 2. The
  first two need `switchMap` (their mutant is `mergeMap`): at rest the table of the media
  page shows the answer to its current query, and before that no answer to an older one
  comes into it. The third is what makes a visit restore the
  last one's query in spite of timers that were left behind.
* `KeepsRegister`, `AgreementLasts`: what is written for a playlist is what its own source
  did when it was asked, and a board that has caught up shows the state of the source
  until that changes, though passes overlap and events are put late or not at all.
* `HealthSettles`, `HomeCatchesUp`: no report carries a date that is looked at, so an old
  one may be put last; it is the passes after it that make the board right. A source that
  times out, and a row with null medias, are never reported: the premise leaves them out.

Every property of a passing run has a mutant of the code in `PROJECT.json`, a definition
of the module changed as a plausible bug would change it, under which TLC finds the
property violated in the same bounds; the mutated operators stand in the modules
beside the originals, marked as such.

Deadlock is checked in every run; none can stop (the schedule always fires again).

## 4. Fairness

`FairSpec` is used by the runs with a liveness property only (`dialog`, `batch`, the first two
findings, `queries`, `health`).

* `WF(StartPass)`, `WF(ComparePlaylist(p))`: the schedule is a cron expression, and a
  pass, once started, goes through its rows. `ComparePlaylist` is disabled while the
  bound `MaxPending` is reached; the delivery of an event enables it again.
* `SF(Deliver(p))`: strong, because a delivery needs a free slot and the slots may be
  taken again and again by other events. The queue of the endpoint is first in, first
  out, so an event at its head is the next one delivered whenever a slot is free.
* `WF(PullSource(h))`, `WF(SaveMerge(h))`: tasks that were started run; a pull ends with
  an answer or an exception (the http clients have timeouts).
* Nothing is assumed of users, of sources or of crashes: no fairness on `SavePut`,
  `SourceChanges`, `BatchDies` and so on. `FollowsItsSource` therefore also holds when a
  user stops in the middle of anything.

* `SearchPages`: `WF` of the timers and of answers; a request has an answer or an error.
  Nothing is assumed of the user: `Settles` is about one who stops.
* `HealthBoard`: `WF` of passes, checks and deliveries; `SF` of a put for a playlist and of
  what Firebase tells the page, because puts may fail, and the page be closed, again and
  again without doing so for ever.

The liveness runs of `PlaylistSync` take `ContextPerRun = TRUE`. With one context for all passes the job would
compare the first list it ever loaded: a difference that arises later may stay
unnoticed.

## 5. The proofs

TLAPS checks all of the following, for every value of the constants that satisfies
the named assumptions: any number of playlists, sources, deliveries, sessions and
medias, any bounds.

| module | theorem | says |
|---|---|---|
| `PlaylistSyncProofs` | `TypeCorrect` | `Spec => []TypeOK` |
| | `MergeMatchesSource`, `MergeIsFinal` | where the `Id`s of the list do not collide, `ApplyDiff` of `DiffWithSource` leaves exactly the channels offered, and nothing to merge |
| | `ChangedMeansDifferent`, `TwoMergesSuffice` | whatever the `Id`s: a diff has something to save exactly when the channels differ, and a second merge adds what a collision made the first one drop |
| | `AcceptedReportMatches` | whatever the `Id`s: the dialog's merge, by url, leaves exactly the channels of the source on the list the report was computed on, and makes none double |
| `PlaylistSyncSafety` | `SyncInvariant` | `Spec => []SyncInv` |
| | `AutoRowsAreLeftAlone` | `Spec => AutoRowsChangeByHandOnly` |
| | `MergesAreExact` | `Spec => MergesMatchTheirPull`, if `CollisionFree(Media)` |
| | `ImplementsStore` | `Spec => KeepsStorePromises`, the refinement |
| | `NoResurrection` | `Spec => DeletedStaysDeleted` |
| `PlaylistSyncTidy` | `TidyInvariant`, `NoTwoVersions` | `Spec => []TidyInv` and `[]OneVersionPerChannel` |
| | `MergesKeepEdits` | `Spec => MergeKeepsEditsItSaw`, if `CollisionFree(Media)` |
| | `SettledPlaylistsStay` | `Spec => SettledStaysSettled`, if `CollisionFree(Media)` |
| `PlaylistCacheProofs` | `CacheInvariant`, `FirstListIsFresh`, `UsersSeeTheirChanges` | `Spec => []CacheInv`, `[]FirstKeyIsFresh` and `[]OwnChangesAreListed` |
| | `ImplementsView` | `Spec => KeepsView`, the refinement |
| `PlaylistPageProofs` | `PageInvariant`, `CounterIsEnough` | `Spec => []PageInv` and `[]CounterCovers` |
| | `ReportsPartArrays` | `Spec => OnlyReportsPartArrays` |
| | `AnswersReplaceTheirOwn` | `Spec => AnswersStayOnTarget` |
| | `NoRowTwice` | `Spec => []RowsAreDistinct` |
| | `ChannelsAreKept` | `Spec => OnlyDeletionsLoseChannels` |
| `SearchPagesProofs` | `SearchInvariant`, `TableIsCurrent`, `NextVisitRestoresIt` | `Spec => []SearchInv`, `[]SettledShowsCurrent` and `[]StoredIsOnScreen` |
| | `NoAnswerOvertakes` | `Spec => ShowsCurrentOnly` |
| `HealthBoardProofs` | `HealthInvariant` | `Spec => []HealthInv` |
| | `ImplementsRegister` | `Spec => KeepsRegister`, the refinement |
| | `AgreementStays` | `Spec => AgreementLasts` |

`ListLemmas` holds what these proofs need of sequences: what removing and appending an
element do to the set of the elements and to their being distinct, that a sequence has
finitely many elements, that a set of indexes has a least one.

**Assumptions.** `MergeAssumption`, `SyncAssumption`, `NoneAssumption`, `CacheAssumption`,
`PageAssumption`, `SearchAssumption`, `HealthAssumption`: the constants have their types,
and `Null`, `Down` and `None` are none of the values they are told apart from. TLC evaluates
them in every run. `CollisionFree(Media)` is the one hypothesis of theorems beyond them,
stated where it is needed, and finding 4 of section 6 is what happens without it. The
exceptions for `misled`, `overtaken` and `late` are no hypotheses on the behaviours: they name,
inside the properties, the playlists and lists to which the code makes no promise.

**Arguments.** None of the properties is inductive.

* `SyncInv` adds to the types what a delivery or a reset needs when it saves: the row it
  has passed the guard with is still not auto, or is gone and its id is spent
  (`DeliveriesManual`, `ResetsManual`, both through `Manual`), and ids that were not given
  out have no row (`FreshIds`), without which an import could put an auto row under the
  id of a delivery in progress. The proof has one lemma per action; most of them cite a
  few shared ones on what a step that writes one row, or one session, keeps.
  `AutoRowsChangeByHandOnly` and the refinement follow step by step from it: a
  `SaveMerge` is a `Refresh` because of `DeliveriesManual`, a `SavePut` is an `Edit` because
  its session is in `Opened`, and `DeletedStaysDeleted` is then proved about the steps of
  `PlaylistStore` alone.
* `TidyInv` says that the lists *on their way* to a row are tidy as well: those of
  deliveries, copies, resets and reports. The merge keeps it (`MergeTwice`) because what it
  adds has urls that the list it started from has not, so that the two versions of a
  channel come from one list (`DisjointTwice`); a report keeps it where it adds nothing the
  copy has, and where it does the playlist is `misled`.
* `MergesKeepEdits` needs `DeliveriesKeepVersions`: what a delivery is about to save keeps
  the versions of what it loaded, which `MergeKeepsVersions` shows of the merge where
  removal by `Id` removes nothing but what the diff named.
* `SettledStaysSettled` names what a settled playlist needs of the steps under way:
  a delivery or a reset of it has the row's url, and if it has pulled, what it is about
  to save lists the channels of the source (`DeliveriesAgree`, `ResetsAgree`, conjuncts of
  its premise, since without them the playlist is not settled yet). A step then keeps
  all four conjuncts or is one of the exceptions; a pull keeps them because a merge of any
  list with what the source serves now matches the source (`MergeMatchesSource`).
* `CacheInv` says that a list already read is as new as what its user was told, unless its
  request was overtaken, and no newer than the table (`FillsAreFresh`): telling the user and
  clearing the cache are one step, which overtakes every request that has read. The list under the first key of an index is stored
  from such a read, is `late`, or was not there when the index was created, because only a
  miss creates one; a `ClearCache` removes it before it tells. That is inductive for any number of
  keys, and each of its steps is one of `ListView`. A user with one key has
  no list but that one and late ones (`Indexed`, `FillsAreIndexed`), hence
  `OwnChangesAreListed`.
* The register is implemented step by step: `Respond` is a `Measure` or nothing, `Put` a
  `Write` that may leave an equal event in the queue, `PutFails` and `Die` lose.
  `AgreementLasts` is then proved about the steps of `HealthRegister` alone: what is measured
  of a source that stays is its state, and what is written was measured.

* `CounterCovers` says nothing of what the counter counts after a rebuild. It is
  inductive together with `SelectionShown`, that selected medias are in the table: then the
  counter bounds the whole selection, and a step that only shrinks the selection keeps the
  bound, whatever it does to the rows (`CountShrinks`). `LoopMovesRows` makes a
  move an exchange of two rows, which changes no set (`SwapKeepsRange`).
  `AnswersStayOnTarget` needs `SharedArray`, so that the index found in one array is of
  the other, and what `findIndex` returns (`FirstWithFinds`).
* `RowsAreDistinct` is inductive with `PageInv`: an answer writes fresh copies, each at the
  row of its own id (`HitsAreFirst`, `ReplacedDistinct`), `AcceptMerge` appends a media the
  saved array does not have (`AcceptedList`), and a swap is injective. The same four facts
  about the arrays give `OnlyDeletionsLoseChannels`: an answer to a lookup in the saved array
  keeps the id at every index, a swap keeps the set of rows.
* `SettledShowsCurrent` follows from `OneRequest`: on the switching page the only request
  out is for the current query, so that its answer is too. `ShowsCurrentOnly` needs
  `DeadIsQuiet` as well: a stream that has ended has nothing out that could still come. `StoredIsOnScreen` needs
  `LeftBehind`: while timers of left pages run, the page's own has not run out.
  `FilterIsTyped` relates the box to the data source once the debounce is over.

**Only model-checked.** `FollowsItsSource`, `Settles`, `HealthSettles` and `HomeCatchesUp`:
liveness under fairness, and `ENABLED`, are beyond the prover. Everything else the passing
runs check is also proved.

## 6. Where the code and its words disagree

1. **Auto-synchronised playlists are never synchronised.** The guard of
   `SynkPlaylistAsync` throws when `AutoSynchronize` is *true* (`PlaylistService.cs:128`);
   its message speaks of the opposite. New rows have TRUE by default and nothing changes
   it, so the batch compares them, publishes their events, notifies the user, and refuses
   them, on every pass. The model keeps the guard as it is: "left to the batch" means
   `~auto` everywhere, which are the rows from before the column existed.
2. **An emptied playlist is never refilled**: `removed` is null for it and
   `DiffHostedService.cs:65` calls `Any()` on it. A merge itself empties a row, when the
   source serves an empty list or null.
3. **A merge reverts edits** that are saved between its load and its save.
4. **A merge deletes too much** where two medias have one `Id`, which leaves out the scheme
   and the port of the url.
5. **A report on another playlist**: `DiffAsync` takes the first row with the url.

For 1, 2 and 4 the trace is a plain sequence of legal steps; 3 needs a PUT between
two steps of a delivery; 5 needs two rows with one url.

Seen while modelling, without words in the repository that say otherwise; the modules
follow the code:

* `deleteSelected` of the playlist page deletes nothing (`playlist.component.ts:507`), and
  `switchPosition` gives both medias one position (`:334`).
* `matchPicons` writes to the saved array at an index of the table's (`:589`): after an accepted
  report it hits another media.
* The filter of the playlist page is set to the stored text (`:250`) and read with `JSON.parse`
  by the `filterPredicate`, which throws unless the text is empty or JSON.
* The home page keeps the first health of a visit (`home.component.ts:36`), and the job never
  reports a source that times out (`PlaylistService.cs:277`).
* A request that fails ends the table of the media page for the rest of the visit
  (`media.component.ts:200`).
* `saveAll` of the site packs saves back documents deleted since they were read
  (`sitepack.component.ts:340`), and `reload` (`:152`) leaves the old subscription running
  beside a new one.
* The match dialog closes when the answer to the *last media* comes, not the last answer
  (`matchTvg.component.ts:85`).
* `SynkAsync` ends in `CreatedAtRoute(nameof(SynkAsync))` and no route has that name
  (`PlaylistsController.cs:324`): the row is saved and the answer is an error, so
  that the page never shows the reset list.

## 7. What is not modelled

* In the modelled components: `ExecuteHandlersAsync` (cleans names), the media filter
  `IsValid`, tags, `UpdateIsXtreamTag`, the tvg sites and the other settings of
  `SynkConfig`, the order of medias and equal duplicates; the circuit breaker and the
  rate limit of the bus, which only delay deliveries; requests that save nothing
  (matching, `GetFile`) and `Import`, which always throws.
  The consumers swallow their exceptions, so a delivery is never repeated. A report with a null `removed`, which `DiffAsync` returns for a row without medias,
  cannot be accepted: `acceptMerge` throws.
* The user's edits are a small repertoire: rename a channel (or change its group or guide),
  remove one, change the url or the status. They end in the same two requests as every other edit.
* Two threads inside `ClearCache` and `ListAsync` at the same `List<string>`, which has no
  lock: the accesses have no `await` and are one step here. Requests that overlap between
  their `await`s are modelled.
* On the playlist page: positions, names and guides of medias, which the dialogs and
  `organizeMedias` write in place, the filter and the stored state of the table, the answer
  of a reset (which is an error, see above), an answer of `matchPicons` at an index past the end
  of the saved array.
* On the search pages: the sort, the page size, `reload` and `saveAll` of the site packs, an answer
  to a delete that comes after the page is left, the edit dialogs.
* The notes of `TraceEvent`s: each is posted under a fresh key and no step reads it back.
* Mails: nothing in the repository starts `NotificationConsumer`, so that a mail is one
  publication to a queue without a reader.
* Media references, site packs and picons: rebuilds are a few calls of Elasticsearch in a row,
  and what they may lose depends on its bulk, refresh and conflict rules, which the repository
  does not fix. The two steps that bite are listed as hazards.
* The TMDB limit, commands and users: one counter inside a request, one write per request, one
  check-then-insert. The service and the agents are not in the repository; the insert of a user
  is guarded by the unique index on `User.Email` (`SynkerDbContext.cs`).
* Most lines of script in the repository are third-party code it carries along (the swagger
  pages of the WebApi, jQuery and bootstrap of the Identity server): they are no part of the
  system and no module is about them.
  The media providers, handlers, clients of http services, configuration and the Identity server
  keep no state between calls, or are text processing.

## 8. What could come next

Everything above is checked and, but for the liveness properties, proved. What would add to it,
in this order:

1. Promises that survive the dialog: what a session's copy still shares with the row.
2. The TMDB limit: the threads of `MatchVideosByPlaylistAsync`, with the tests, additions and
   decrements of the counter as separate steps: how far below zero it goes, and how many
   requests one window of ten seconds sees.
3. Media references, site packs and picons as sets of documents, once the rules of the
   index are settled: that a rebuild that runs alone loses nothing.
4. A stronger `PlaylistStore` that also promises tidy rows, `misled` ones excepted.
5. Two threads inside the list of one cache index, as one step per access.
6. Pure functions against reference definitions: the Levenshtein distance
   (`Extensions.cs`), `GetPaged`.
