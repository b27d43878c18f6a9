----------------------------- MODULE HealthBoard -----------------------------
(***************************************************************************)
(* From the health job of the batch to the icon of the home page.  A pass  *)
(* of PlaylistHealthHostedService starts a check of every row and does not *)
(* wait for them (the body of ForAll is an async void), so that passes     *)
(* overlap; a check asks the source for its headers and publishes an event *)
(* to the temporary queue of the batch; FirebaseNotificationConsumer puts  *)
(* events at the key of their playlist, several at a time and so in any    *)
(* order, and swallows the exception of a put that fails; the home page    *)
(* listens to the keys of the playlists it lists.                          *)
(*                                                                         *)
(* The medias of a row count here only as null or not: PlaylistSync tells  *)
(* how they come to be so.  The notes that errors publish have an empty    *)
(* user and are read by nobody, and are left out.                          *)
(***************************************************************************)
EXTENDS Naturals, Sequences, FiniteSets, SequencesExt

CONSTANTS
    Playlists,
    ContextPerRun,  \* whether the job gets a DbContext of its own for each pass
    MaxChecks,      \* bound: checks that run at a time
    MaxEvents,      \* bound: events in the queue
    MaxChanges,     \* bound: times sources and rows change
    MaxCrashes,     \* bound: times the batch dies
    None            \* no report, no entity

\* A source answers the request for its headers with success or another status
\* or refuses it, or lets it time out.
SourceStates == {"online", "offline", "hanging"}

Reports == {"online", "offline"}

Medias == {"list", "null"}

Check == [playlist : Playlists, medias : Medias]

Event == [playlist : Playlists, report : Reports]

ASSUME HealthAssumption ==
    /\ IsFiniteSet(Playlists)
    /\ ContextPerRun \in BOOLEAN
    /\ MaxChecks \in Nat
    /\ MaxEvents \in Nat
    /\ MaxChanges \in Nat
    /\ MaxCrashes \in Nat
    /\ None \notin Reports \cup Medias

VARIABLES
    source,   \* what the source of a playlist does
    row,      \* the medias of its row, "gone" when it is deleted
    tracked,  \* the entity the DbContext of the job tracks
    checks,   \* the checks that wait for an answer
    events,   \* the queue
    board,    \* playlisthealthstate/<id> of the Firebase database
    home,     \* whether the home page is open
    seen,     \* the value of the key the page was last told
    icon,     \* isOnline of the playlist on the page
    changes,  \* how often sources and rows have changed
    crashes   \* how often the batch has died

outside == <<source, row, changes>>
batch == <<tracked, checks, events, crashes>>
client == <<home, seen, icon>>
vars == <<outside, batch, board, client>>

Nothing == [p \in Playlists |-> None]

Init ==
    /\ source \in [Playlists -> SourceStates]
    /\ row \in [Playlists -> Medias]
    /\ tracked = Nothing
    /\ checks = <<>>
    /\ events = <<>>
    /\ board = Nothing
    /\ home = FALSE
    /\ seen = Nothing
    /\ icon = Nothing
    /\ changes = 0
    /\ crashes = 0

------------------------------------------------------------------------------
(* The batch *)

Rows == {p \in Playlists : row[p] # "gone"}

\* The medias of the entity a query of the job returns for a row.
Loaded(p) == IF ContextPerRun \/ tracked[p] = None THEN row[p] ELSE tracked[p]

\* ForAll in any order; the pass is over when its checks have begun.
StartPass ==
    /\ Rows # {}
    /\ \E order \in SetToSeqs(Rows) :
          checks' = checks \o [i \in DOMAIN order |->
                        [playlist |-> order[i], medias |-> Loaded(order[i])]]
    /\ Len(checks') <= MaxChecks
    /\ tracked' = [p \in Playlists |-> IF p \in Rows THEN Loaded(p) ELSE tracked[p]]
    /\ UNCHANGED <<outside, events, crashes, board, client>>

\* Mutant of Respond: a source that refuses the request is not reported.
RespondOnline(i) ==
    /\ LET c == checks[i]
       IN  IF source[c.playlist] # "online" \/ c.medias = "null"
           THEN UNCHANGED events
           ELSE /\ Len(events) < MaxEvents
                /\ events' = Append(events, [playlist |-> c.playlist, report |-> "online"])
    /\ checks' = RemoveAt(checks, i)
    /\ UNCHANGED <<outside, tracked, crashes, board, client>>

\* Mutant of Respond: a row without medias is reported like a source that is offline.
RespondNullOffline(i) ==
    /\ LET c == checks[i]
       IN  IF source[c.playlist] = "hanging"
           THEN UNCHANGED events
           ELSE /\ Len(events) < MaxEvents
                /\ events' = Append(events,
                     [playlist |-> c.playlist,
                      report |-> IF c.medias = "null" THEN "offline" ELSE source[c.playlist]])
    /\ checks' = RemoveAt(checks, i)
    /\ UNCHANGED <<outside, tracked, crashes, board, client>>

\* A request that times out throws past the catch of HealthAsync, and TvgMedias.Count
\* of null throws after it: both end in a trace event and no health event.
Respond(i) ==
    /\ LET c == checks[i]
       IN  IF source[c.playlist] = "hanging" \/ c.medias = "null"
           THEN UNCHANGED events
           ELSE /\ Len(events) < MaxEvents
                /\ events' = Append(events, [playlist |-> c.playlist,
                                             report |-> source[c.playlist]])
    /\ checks' = RemoveAt(checks, i)
    /\ UNCHANGED <<outside, tracked, crashes, board, client>>

\* Consume of the health event, where the put succeeds
Put(i) ==
    /\ board' = [board EXCEPT ![events[i].playlist] = events[i].report]
    /\ events' = RemoveAt(events, i)
    /\ UNCHANGED <<outside, tracked, checks, crashes, client>>

\* and where its exception is logged.
PutFails(i) ==
    /\ events' = RemoveAt(events, i)
    /\ UNCHANGED <<outside, tracked, checks, crashes, board, client>>

\* The queue dies with the process; so does it when the publication of a trace
\* event fails, which throws out of an async void.
Die ==
    /\ crashes < MaxCrashes
    /\ crashes' = crashes + 1
    /\ tracked' = Nothing
    /\ checks' = <<>>
    /\ events' = <<>>
    /\ UNCHANGED <<outside, board, client>>

------------------------------------------------------------------------------
(* Sources, rows and the home page *)

SourceChanges(p, s) ==
    /\ changes < MaxChanges
    /\ source[p] # s
    /\ source' = [source EXCEPT ![p] = s]
    /\ changes' = changes + 1
    /\ UNCHANGED <<row, batch, board, client>>

\* A merge, an edit or a deletion of the row.
RowChanges(p, m) ==
    /\ changes < MaxChanges
    /\ row[p] \notin {m, "gone"}
    /\ row' = [row EXCEPT ![p] = m]
    /\ changes' = changes + 1
    /\ UNCHANGED <<source, batch, board, client>>

\* Mutant of OpenHome: the list of the last visit is shown again.
OpenHomeAgain ==
    /\ ~home
    /\ home' = TRUE
    /\ seen' = Nothing
    /\ UNCHANGED <<outside, batch, board, icon>>

\* The resolver brings a list without health, ngOnInit watches its keys.
OpenHome ==
    /\ ~home
    /\ home' = TRUE
    /\ seen' = Nothing
    /\ icon' = Nothing
    /\ UNCHANGED <<outside, batch, board>>

\* Object.assign gives the values the playlist has precedence over those of the
\* report: isOnline is taken from the first one and keeps its value.
Receive(p) ==
    /\ home
    /\ board[p] \notin {None, seen[p]}
    /\ seen' = [seen EXCEPT ![p] = board[p]]
    /\ icon' = [icon EXCEPT ![p] = IF @ = None THEN board[p] ELSE @]
    /\ UNCHANGED <<outside, batch, board, home>>

CloseHome ==
    /\ home
    /\ home' = FALSE
    /\ UNCHANGED <<outside, batch, board, seen, icon>>

------------------------------------------------------------------------------

Consume == \E i \in DOMAIN events : Put(i) \/ PutFails(i)

Next ==
    \/ StartPass
    \/ \E i \in DOMAIN checks : Respond(i)
    \/ Consume
    \/ Die
    \/ \E p \in Playlists, s \in SourceStates : SourceChanges(p, s)
    \/ \E p \in Playlists, m \in Medias \cup {"gone"} : RowChanges(p, m)
    \/ OpenHome
    \/ \E p \in Playlists : Receive(p)
    \/ CloseHome

Spec == Init /\ [][Next]_vars

\* The schedule starts a pass every quarter of an hour and a request ends or times out;
\* an event is consumed, and puts do not fail for ever; the page is told what is put
\* unless it is closed each time.
FairSpec ==
    /\ Spec
    /\ WF_vars(StartPass)
    /\ WF_vars(\E i \in DOMAIN checks : Respond(i))
    /\ WF_vars(Consume)
    /\ \A p \in Playlists :
          /\ SF_vars(\E i \in DOMAIN events : events[i].playlist = p /\ Put(i))
          /\ SF_vars(Receive(p))

------------------------------------------------------------------------------

HealthTypeOK ==
    /\ source \in [Playlists -> SourceStates]
    /\ row \in [Playlists -> Medias \cup {"gone"}]
    /\ tracked \in [Playlists -> Medias \cup {None}]
    /\ checks \in Seq(Check)
    /\ events \in Seq(Event)
    /\ board \in [Playlists -> Reports \cup {None}]
    /\ home \in BOOLEAN
    /\ seen \in [Playlists -> Reports \cup {None}]
    /\ icon \in [Playlists -> Reports \cup {None}]
    /\ changes \in 0 .. MaxChanges
    /\ crashes \in 0 .. MaxCrashes

\* The home page shows an icon for the playlists it has been told of and no others,
\* and one it was told the first time.
IconsAreReported == \A p \in Playlists : icon[p] = None <=> seen[p] = None

HealthInv == HealthTypeOK /\ IconsAreReported

\* A source that keeps its state, and answers at all, is shown in that state on the
\* board for good, whatever was lost in the queue, failed to be put, or was put late
\* over a newer report: the passes after it make up for it.  This needs the row to
\* have medias, in the entity too that the job may go on tracking.
HealthSettles ==
    \A p \in Playlists, s \in Reports :
        <>[](source[p] = s /\ row[p] = "list" /\ Loaded(p) = "list")
            => <>[](board[p] = s)

\* The icon of a visit stays at the first report, but a user who comes back finds the
\* settled state: whoever opens the page again and again is shown it again and again.
HomeCatchesUp ==
    \A p \in Playlists, s \in Reports :
        <>[](source[p] = s /\ row[p] = "list" /\ Loaded(p) = "list") /\ []<><<OpenHome>>_vars
            => []<>(home /\ icon[p] = s)

\* The board has caught up with a source, and so have all reports under way.
Agrees(p, s) ==
    /\ source[p] = s
    /\ board[p] = s
    /\ \A e \in Range(events) : e.playlist = p => e.report = s

\* Once the board has caught up, it shows the state of the source until that changes:
\* however passes overlap and events are put late, twice, or not at all, whatever is
\* made of the row and whenever the batch dies, nothing else is written meanwhile.
AgreementLasts ==
    [][\A p \in Playlists, s \in Reports :
          Agrees(p, s) /\ source'[p] = s => Agrees(p, s)']_vars

Register == INSTANCE HealthRegister WITH inFlight <- Range(events)

\* The path from the check to the board keeps the promises of HealthRegister: what is
\* written for a playlist is what its own source did at a time it was asked.
KeepsRegister == Register!Spec

=============================================================================
