-------------------------- MODULE PlaylistSyncProofs --------------------------
(***************************************************************************)
(* Proofs about PlaylistSync, for every number of playlists, sources,      *)
(* deliveries and browser sessions.                                        *)
(***************************************************************************)
EXTENDS PlaylistSync, TLAPS

------------------------------------------------------------------------------
(* Lemmas about the operators of PlaylistMerge *)

\* The difference between two lists is made of lists.
LEMMA DiffType ==
    ASSUME NEW existing \in MaybeLists, NEW offered \in MaybeLists
    PROVE  /\ DiffWithSource(existing, offered).new \in Lists
           /\ DiffWithSource(existing, offered).removed \in MaybeLists
<1>1. CASE existing = Null
  BY <1>1 DEF DiffWithSource, OrEmpty, NullOrEmpty, Lists, MaybeLists
<1>2. CASE existing # Null
  BY <1>2 DEF DiffWithSource, OrEmpty, NullOrEmpty, Without, Lists, MaybeLists
<1> QED
  BY <1>1, <1>2

\* The merge of two lists is a list.
LEMMA MergeType ==
    ASSUME NEW existing \in Lists, NEW offered \in MaybeLists
    PROVE  ApplyDiff(existing, DiffWithSource(existing, offered)) \in Lists
<1>1. DiffWithSource(existing, offered).new \in Lists
  BY DiffType DEF MaybeLists
<1> QED
  BY <1>1 DEF ApplyDiff, RemoveAll, Lists

\* No list has two versions of a channel if a list that includes it has not.
LEMMA TwiceGrows ==
    ASSUME NEW list, NEW longer, list \subseteq longer
    PROVE  Twice(list) \subseteq Twice(longer)
BY DEF Twice, UrlsOf

\* Joining to a list medias whose channels it does not have makes no channel double.
LEMMA DisjointTwice ==
    ASSUME NEW list, NEW other, UrlsOf(list) \cap UrlsOf(other) = {}
    PROVE  Twice(list \cup other) \subseteq Twice(list) \cup Twice(other)
<1> SUFFICES ASSUME NEW m \in list \cup other, NEW n \in list \cup other,
                    m # n, UrlOf[m] = UrlOf[n]
             PROVE  UrlOf[m] \in Twice(list) \cup Twice(other)
  BY DEF Twice
<1>1. (m \in list /\ n \in list) \/ (m \in other /\ n \in other)
  BY DEF UrlsOf
<1> QED
  BY <1>1 DEF Twice, UrlsOf

\* A merge makes no channel double: the two versions were in the playlist, or in
\* what the source has served.
LEMMA MergeTwice ==
    ASSUME NEW existing \in Lists, NEW offered \in MaybeLists
    PROVE  Twice(ApplyDiff(existing, DiffWithSource(existing, offered)))
             \subseteq Twice(existing) \cup Twice(OrEmpty(offered))
<1> DEFINE diff == DiffWithSource(existing, offered)
           kept == RemoveAll(existing, OrEmpty(diff.removed))
<1>1. existing # Null
  BY MergeAssumption DEF Lists
<1>2. Twice(kept) \subseteq Twice(existing)
  BY TwiceGrows DEF RemoveAll
<1>3. UrlsOf(kept) \cap UrlsOf(diff.new) = {} /\ Twice(diff.new) \subseteq Twice(OrEmpty(offered))
  <2>1. CASE offered = Null
    BY <1>1, <2>1 DEF DiffWithSource, UrlsOf, Twice
  <2>2. CASE offered # Null /\ existing = {}
    BY <1>1, <2>2 DEF DiffWithSource, NullOrEmpty, OrEmpty, RemoveAll, UrlsOf
  <2>3. CASE offered # Null /\ existing # {}
    <3>1. diff.new = Without(offered, existing) /\ OrEmpty(offered) = offered
      BY <1>1, <2>3 DEF DiffWithSource, NullOrEmpty, OrEmpty
    <3>2. Without(offered, existing) \subseteq offered
      BY DEF Without
    <3>3. UrlsOf(kept) \cap UrlsOf(Without(offered, existing)) = {}
      BY DEF RemoveAll, Without, UrlsOf
    <3> QED
      BY <3>1, <3>2, <3>3, TwiceGrows
  <2> QED
    BY <2>1, <2>2, <2>3
<1>4. ApplyDiff(existing, diff) = kept \cup diff.new
  BY DEF ApplyDiff
<1> HIDE DEF kept, diff
<1>5. Twice(kept \cup diff.new) \subseteq Twice(kept) \cup Twice(diff.new)
  BY <1>3, DisjointTwice
<1> QED
  BY <1>2, <1>3, <1>4, <1>5 DEF diff

\* Where Media.Id tells apart what Media.Url tells apart, a merge replaces no
\* version of a channel that stays.
LEMMA MergeKeepsVersions ==
    ASSUME NEW existing \in Lists, NEW offered \in MaybeLists, CollisionFree(existing)
    PROVE  KeepsVersions(existing, ApplyDiff(existing, DiffWithSource(existing, offered)))
<1> DEFINE diff == DiffWithSource(existing, offered)
           merged == ApplyDiff(existing, diff)
<1>1. existing # Null
  BY MergeAssumption DEF Lists
<1>2. SUFFICES ASSUME NEW m \in existing, NEW n \in merged, UrlOf[n] = UrlOf[m]
               PROVE  m \in merged
  BY DEF KeepsVersions, UrlsOf
<1>3. CASE offered = Null
  BY <1>1, <1>2, <1>3 DEF ApplyDiff, RemoveAll, DiffWithSource, OrEmpty
<1>4. CASE offered # Null
  <2>1. diff = [new |-> Without(offered, existing), removed |-> Without(existing, offered)]
    BY <1>1, <1>4 DEF DiffWithSource, NullOrEmpty
  <2>2. OrEmpty(diff.removed) = Without(existing, offered)
    BY <2>1, MergeAssumption DEF OrEmpty, Without, Lists
  <2>3. n \notin diff.new
    BY <1>2, <2>1 DEF Without, UrlsOf
  <2>4. n \in RemoveAll(existing, Without(existing, offered))
    BY <2>2, <2>3 DEF ApplyDiff
  <2>5. n \notin Without(existing, offered)
    BY <2>4 DEF RemoveAll
  <2>6. UrlOf[m] \in UrlsOf(offered)
    BY <1>2, <2>4, <2>5 DEF RemoveAll, Without
  <2>7. \A r \in Without(existing, offered) : IdOf[r] # IdOf[m]
    BY <2>6 DEF Without, CollisionFree
  <2> QED
    BY <2>2, <2>7 DEF ApplyDiff, RemoveAll
<1> QED
  BY <1>3, <1>4

\* Where Media.Id tells apart what Media.Url tells apart, a merge leaves
\* exactly the channels that the source serves.
THEOREM MergeMatchesSource ==
    ASSUME NEW existing \in Lists, NEW offered \in MaybeLists, CollisionFree(existing)
    PROVE  UrlsOf(ApplyDiff(existing, DiffWithSource(existing, offered)))
             = UrlsOf(OrEmpty(offered))
<1>1. existing # Null
  BY MergeAssumption DEF Lists
<1>2. CASE offered = Null
  BY <1>1, <1>2 DEF DiffWithSource, ApplyDiff, RemoveAll, OrEmpty, UrlsOf
<1>3. CASE offered # Null /\ existing = {}
  BY <1>1, <1>3 DEF DiffWithSource, NullOrEmpty, ApplyDiff, RemoveAll, OrEmpty, UrlsOf
<1>4. CASE offered # Null /\ existing # {}
  <2>1. DiffWithSource(existing, offered)
          = [new |-> Without(offered, existing), removed |-> Without(existing, offered)]
    BY <1>1, <1>4 DEF DiffWithSource, NullOrEmpty
  <2>2. Without(existing, offered) # Null
    BY MergeAssumption DEF Without, Lists
  <2> DEFINE kept == RemoveAll(existing, Without(existing, offered))
  <2>3. ApplyDiff(existing, DiffWithSource(existing, offered))
          = kept \cup Without(offered, existing)
    BY <2>1, <2>2 DEF ApplyDiff, OrEmpty
  <2>4. kept = {m \in existing : UrlOf[m] \in UrlsOf(offered)}
    <3>1. ASSUME NEW m \in existing, UrlOf[m] \in UrlsOf(offered)
          PROVE  m \in kept
      BY <3>1 DEF RemoveAll, Without, CollisionFree
    <3>2. ASSUME NEW m \in kept
          PROVE  m \in existing /\ UrlOf[m] \in UrlsOf(offered)
      BY <3>2 DEF RemoveAll, Without
    <3> QED
      BY <3>1, <3>2
  <2> QED
    BY <1>4, <2>3, <2>4 DEF OrEmpty, Without, UrlsOf
<1> QED
  BY <1>2, <1>3, <1>4

\* `changed` means what it says, whatever the Ids: a merge has something to save
\* exactly when the playlist does not list the channels that the source serves.
THEOREM ChangedMeansDifferent ==
    ASSUME NEW list \in Lists, NEW offered \in MaybeLists
    PROVE  Changed(DiffWithSource(list, offered)) <=> UrlsOf(list) # UrlsOf(OrEmpty(offered))
<1>1. list # Null
  BY MergeAssumption DEF Lists
<1>2. CASE offered = Null
  BY <1>1, <1>2 DEF DiffWithSource, Changed, OrEmpty, UrlsOf
<1>3. CASE offered # Null /\ list = {}
  BY <1>1, <1>3 DEF DiffWithSource, Changed, NullOrEmpty, OrEmpty, UrlsOf
<1>4. CASE offered # Null /\ list # {}
  <2>1. DiffWithSource(list, offered)
          = [new |-> Without(offered, list), removed |-> Without(list, offered)]
    BY <1>1, <1>4 DEF DiffWithSource, NullOrEmpty
  <2>2. Without(list, offered) # Null /\ OrEmpty(offered) = offered
    BY <1>4, MergeAssumption DEF Without, Lists, OrEmpty
  <2>3. Changed(DiffWithSource(list, offered))
          <=> Without(list, offered) # {} \/ Without(offered, list) # {}
    BY <2>1, <2>2 DEF Changed, OrEmpty
  <2>4. Without(list, offered) # {} \/ Without(offered, list) # {}
          <=> UrlsOf(list) # UrlsOf(offered)
    BY DEF Without, UrlsOf
  <2> QED
    BY <2>2, <2>3, <2>4
<1> QED
  BY <1>2, <1>3, <1>4

\* Whatever the Ids, a merge lists no channel that the source does not serve; it
\* may drop one that the source serves.
LEMMA MergeAddsNothingElse ==
    ASSUME NEW existing \in Lists, NEW offered \in MaybeLists
    PROVE  UrlsOf(ApplyDiff(existing, DiffWithSource(existing, offered)))
             \subseteq UrlsOf(OrEmpty(offered))
<1>1. existing # Null
  BY MergeAssumption DEF Lists
<1>2. CASE offered = Null
  BY <1>1, <1>2 DEF DiffWithSource, ApplyDiff, RemoveAll, OrEmpty, UrlsOf
<1>3. CASE offered # Null /\ existing = {}
  BY <1>1, <1>3 DEF DiffWithSource, NullOrEmpty, ApplyDiff, RemoveAll, OrEmpty, UrlsOf
<1>4. CASE offered # Null /\ existing # {}
  <2>1. DiffWithSource(existing, offered)
          = [new |-> Without(offered, existing), removed |-> Without(existing, offered)]
    BY <1>1, <1>4 DEF DiffWithSource, NullOrEmpty
  <2>2. Without(existing, offered) # Null
    BY MergeAssumption DEF Without, Lists
  <2>3. ApplyDiff(existing, DiffWithSource(existing, offered))
          = RemoveAll(existing, Without(existing, offered)) \cup Without(offered, existing)
    BY <2>1, <2>2 DEF ApplyDiff, OrEmpty
  <2>4. ASSUME NEW m \in RemoveAll(existing, Without(existing, offered))
        PROVE  UrlOf[m] \in UrlsOf(offered)
    BY DEF RemoveAll, Without
  <2> QED
    BY <1>4, <2>3, <2>4 DEF OrEmpty, Without, UrlsOf
<1> QED
  BY <1>2, <1>3, <1>4

\* Two merges with one list of the source leave exactly the channels it serves,
\* whatever the Ids: a channel that the first drops because its Id is that of one
\* the source has dropped, the second adds.
THEOREM TwoMergesSuffice ==
    ASSUME NEW existing \in Lists, NEW offered \in MaybeLists
    PROVE  LET once == ApplyDiff(existing, DiffWithSource(existing, offered))
           IN  UrlsOf(ApplyDiff(once, DiffWithSource(once, offered)))
                 = UrlsOf(OrEmpty(offered))
<1> DEFINE once == ApplyDiff(existing, DiffWithSource(existing, offered))
           twice == ApplyDiff(once, DiffWithSource(once, offered))
<1>1. once \in Lists /\ UrlsOf(once) \subseteq UrlsOf(OrEmpty(offered))
  BY MergeType, MergeAddsNothingElse
<1> SUFFICES UrlsOf(twice) = UrlsOf(OrEmpty(offered))
  OBVIOUS
<1> HIDE DEF once
<1>2. once # Null
  BY <1>1, MergeAssumption DEF Lists
<1>3. CASE offered = Null
  BY <1>2, <1>3 DEF DiffWithSource, ApplyDiff, RemoveAll, OrEmpty, UrlsOf
<1>4. CASE offered # Null /\ once = {}
  BY <1>2, <1>4 DEF DiffWithSource, NullOrEmpty, ApplyDiff, RemoveAll, OrEmpty, UrlsOf
<1>5. CASE offered # Null /\ once # {}
  <2>1. Without(once, offered) = {} /\ {} # Null /\ OrEmpty(offered) = offered
    BY <1>1, <1>5, MergeAssumption DEF Without, UrlsOf, OrEmpty
  <2>2. DiffWithSource(once, offered) = [new |-> Without(offered, once), removed |-> {}]
    BY <1>2, <1>5, <2>1 DEF DiffWithSource, NullOrEmpty
  <2>3. twice = once \cup Without(offered, once)
    BY <2>1, <2>2 DEF ApplyDiff, RemoveAll, OrEmpty
  <2> QED
    BY <1>1, <2>1, <2>3 DEF Without, UrlsOf
<1> QED
  BY <1>3, <1>4, <1>5

\* A merge leaves nothing to merge: the next pass on what it has saved, with a
\* source that serves the same, publishes no event.
THEOREM MergeIsFinal ==
    ASSUME NEW existing \in Lists, NEW offered \in MaybeLists, CollisionFree(existing)
    PROVE  LET merged == ApplyDiff(existing, DiffWithSource(existing, offered))
           IN  ~Changed(DiffWithSource(merged, offered))
BY MergeType, MergeMatchesSource, ChangedMeansDifferent

\* What the diff dialog makes of a report on the list that it holds has exactly
\* the channels of the source, whatever the Ids, and two versions only of those of
\* which the list or the source has two.
THEOREM AcceptedReportMatches ==
    ASSUME NEW list \in Lists, NEW offered \in MaybeLists,
           DiffWithSource(list, offered).removed # Null
    PROVE  LET accepted == AcceptDiff(list, DiffWithSource(list, offered))
           IN  /\ UrlsOf(accepted) = UrlsOf(OrEmpty(offered))
               /\ Twice(accepted) \subseteq Twice(list) \cup Twice(OrEmpty(offered))
<1> DEFINE diff == DiffWithSource(list, offered)
<1>1. list # Null
  BY MergeAssumption DEF Lists
<1>2. CASE offered = Null
  <2>1. AcceptDiff(list, diff) = {}
    BY <1>1, <1>2 DEF DiffWithSource, AcceptDiff, Without, OrEmpty, UrlsOf
  <2> QED
    BY <1>2, <2>1 DEF OrEmpty, UrlsOf, Twice
<1>3. CASE offered # Null
  <2>1. diff = [new |-> Without(offered, list), removed |-> Without(list, offered)]
    BY <1>1, <1>3 DEF DiffWithSource
  <2>2. AcceptDiff(list, diff) = {m \in list : UrlOf[m] \in UrlsOf(offered)}
                                    \cup Without(offered, list)
    BY <2>1 DEF AcceptDiff, Without, UrlsOf
  <2>3. UrlsOf(AcceptDiff(list, diff)) = UrlsOf(OrEmpty(offered))
    BY <1>3, <2>2 DEF OrEmpty, Without, UrlsOf
  <2>4. Twice(AcceptDiff(list, diff)) \subseteq Twice(list) \cup Twice(OrEmpty(offered))
    <3> DEFINE kept == {m \in list : UrlOf[m] \in UrlsOf(offered)}
    <3>1. Twice(kept) \subseteq Twice(list)
      BY TwiceGrows
    <3>2. Without(offered, list) \subseteq offered
      BY DEF Without
    <3>3. Twice(Without(offered, list)) \subseteq Twice(offered)
      BY <3>2, TwiceGrows
    <3>4. UrlsOf(kept) \cap UrlsOf(Without(offered, list)) = {}
      BY DEF Without, UrlsOf
    <3> HIDE DEF kept
    <3>5. Twice(kept \cup Without(offered, list))
            \subseteq Twice(kept) \cup Twice(Without(offered, list))
      BY <3>4, DisjointTwice
    <3>6. OrEmpty(offered) = offered
      BY <1>3 DEF OrEmpty
    <3> QED
      BY <2>2, <3>1, <3>3, <3>5, <3>6 DEF kept
  <2> QED
    BY <2>3, <2>4
<1> QED
  BY <1>2, <1>3

------------------------------------------------------------------------------
(* Types *)

LEMMA RowFields ==
    ASSUME NEW r \in Row
    PROVE  /\ r.url \in Urls
           /\ r.auto \in BOOLEAN
           /\ r.enabled \in BOOLEAN
           /\ r.medias \in MaybeLists
BY DEF Row

\* What TypeOK says of a row that is there.
LEMMA PresentRow ==
    ASSUME TypeOK, NEW p \in Ids, Present(p)
    PROVE  rows[p] \in Row
BY DEF TypeOK, Present

LEMMA InitType == Init => TypeOK
<1> SUFFICES ASSUME Init PROVE TypeOK
  OBVIOUS
<1>1. nextId \in 1 .. MaxId + 1
  BY SyncAssumption DEF Init
<1>2. pending \in [Ids -> 0 .. MaxPending]
  BY SyncAssumption DEF Init
<1>3. changes \in 0 .. MaxChanges /\ crashes \in 0 .. MaxCrashes
  BY SyncAssumption DEF Init
<1> QED
  BY <1>1, <1>2, <1>3 DEF Init, TypeOK

LEMMA StartPassType == TypeOK /\ StartPass => TypeOK'
<1> SUFFICES ASSUME TypeOK, StartPass PROVE TypeOK'
  OBVIOUS
<1>1. ASSUME NEW p \in Ids, Present(p) PROVE Loaded(p) \in Snapshot
  BY <1>1, PresentRow, RowFields DEF Loaded, SnapshotOf, Snapshot, TypeOK
<1>2. job' \in [Ids -> {None} \cup Snapshot]
  BY <1>1 DEF StartPass
<1>3. tracked' \in [Ids -> {None} \cup Snapshot]
  BY <1>2 DEF StartPass, TypeOK
<1> QED
  BY <1>2, <1>3 DEF StartPass, TypeOK, table, environment

LEMMA CompareType == ASSUME TypeOK, NEW p \in Ids, ComparePlaylist(p) PROVE TypeOK'
<1>1. job' \in [Ids -> {None} \cup Snapshot]
  BY DEF ComparePlaylist, TypeOK
<1>2. pending' \in [Ids -> 0 .. MaxPending]
  BY SyncAssumption DEF ComparePlaylist, TypeOK
<1>3. published' \subseteq Ids \X {"error", "changed", "synchronized"}
  BY DEF ComparePlaylist
<1> QED
  BY <1>1, <1>2, <1>3 DEF ComparePlaylist, TypeOK, table, environment

LEMMA ConsumeType ==
    ASSUME TypeOK, NEW h \in Handlers, NEW p \in Ids, ConsumeDiff(h, p) PROVE TypeOK'
<1>1. pending' \in [Ids -> 0 .. MaxPending]
  BY SyncAssumption DEF ConsumeDiff, TypeOK
<1>2. published' \subseteq Ids \X {"error", "changed", "synchronized"}
  BY DEF ConsumeDiff
<1>3. handlers' \in [Handlers -> {None} \cup Delivery]
  <2>1. CASE Synchronizable(p) /\ rows[p].medias # Null
    <3>1. rows[p] \in Row
      BY <2>1, PresentRow DEF Synchronizable
    <3>2. rows[p].medias \in Lists /\ rows[p].url \in Urls
      BY <3>1, <2>1, RowFields DEF MaybeLists
    <3>3. [pc |-> "pulling", id |-> p, url |-> rows[p].url,
           base |-> rows[p].medias, medias |-> rows[p].medias] \in Delivery
      BY <3>2 DEF Delivery
    <3> QED
      BY <2>1, <3>3 DEF ConsumeDiff, TypeOK
  <2>2. CASE ~(Synchronizable(p) /\ rows[p].medias # Null)
    BY <2>2 DEF ConsumeDiff, TypeOK
  <2> QED
    BY <2>1, <2>2
<1> QED
  BY <1>1, <1>2, <1>3 DEF ConsumeDiff, TypeOK, table, environment

\* What TypeOK says of a delivery in progress.
LEMMA DeliveryFields ==
    ASSUME TypeOK, NEW h \in Handlers, handlers[h] # None
    PROVE  /\ handlers[h] \in Delivery
           /\ handlers[h].id \in Ids
           /\ handlers[h].url \in Urls
           /\ handlers[h].base \in Lists
           /\ handlers[h].medias \in Lists
<1>1. handlers[h] \in Delivery
  BY DEF TypeOK
<1> QED
  BY <1>1 DEF Delivery

\* What a source serves is a list or null, and lists no more channels twice than
\* sources do.
LEMMA ServedList ==
    ASSUME TypeOK, NEW u \in Urls, source[u] # Down
    PROVE  /\ source[u] \in MaybeLists
           /\ Tidy(source[u])
<1>1. CASE source[u] = Null
  BY <1>1 DEF MaybeLists, Tidy, OrEmpty, Twice, UrlsOf
<1>2. CASE source[u] # Null
  <2>1. source[u] \in Offers /\ source[u] \in Lists
    BY <1>2, SyncAssumption DEF TypeOK
  <2>2. Tidy(source[u])
    BY <1>2, <2>1 DEF Tidy, OrEmpty, OfferedTwice
  <2> QED
    BY <2>1, <2>2 DEF MaybeLists
<1> QED
  BY <1>1, <1>2

LEMMA PullType ==
    ASSUME TypeOK, NEW h \in Handlers, PullSource(h) PROVE TypeOK'
<1>1. handlers[h] # None
  BY DEF PullSource
<1> DEFINE offered == source[handlers[h].url]
           diff == DiffWithSource(handlers[h].base, offered)
<1>2. published' \subseteq Ids \X {"error", "changed", "synchronized"}
  BY <1>1, DeliveryFields DEF PullSource
<1>3. handlers' \in [Handlers -> {None} \cup Delivery]
  <2>1. ASSUME offered # Down
        PROVE  [handlers[h] EXCEPT !.pc = "saving",
                                   !.medias = ApplyDiff(handlers[h].base, diff)] \in Delivery
    <3>1. ApplyDiff(handlers[h].base, diff) \in Lists
      BY <1>1, <2>1, DeliveryFields, ServedList, MergeType
    <3> HIDE DEF diff
    <3> QED
      BY <1>1, <3>1, DeliveryFields DEF Delivery
  <2> QED
    BY <2>1 DEF PullSource, TypeOK
<1> QED
  BY <1>2, <1>3 DEF PullSource, TypeOK, table, environment

\* Writing the medias of a row that is there gives a table.
LEMMA MediasType ==
    ASSUME TypeOK, NEW p \in Ids, Present(p), NEW list \in MaybeLists
    PROVE  [rows EXCEPT ![p].medias = list] \in [Ids -> {None} \cup Row]
<1>1. [rows[p] EXCEPT !.medias = list] \in Row
  BY PresentRow DEF Row
<1> QED
  BY <1>1 DEF TypeOK

LEMMA SaveMergeType ==
    ASSUME TypeOK, NEW h \in Handlers, SaveMerge(h) PROVE TypeOK'
<1>1. handlers[h] # None
  BY DEF SaveMerge
<1>2. published' \subseteq Ids \X {"error", "changed", "synchronized"}
  BY <1>1, DeliveryFields DEF SaveMerge
<1>3. rows' \in [Ids -> {None} \cup Row]
  BY <1>1, DeliveryFields, MediasType DEF SaveMerge, TypeOK, MaybeLists
<1>4. handlers' \in [Handlers -> {None} \cup Delivery]
  BY DEF SaveMerge, TypeOK
<1> QED
  BY <1>2, <1>3, <1>4 DEF SaveMerge, TypeOK, environment

LEMMA OpenType ==
    ASSUME TypeOK, NEW c \in Clients, NEW p \in Ids, Open(c, p) PROVE TypeOK'
<1>1. rows[p] \in Row
  BY PresentRow DEF Open
<1>2. [pc |-> "open", id |-> p, row |-> rows[p]] \in Session
  BY <1>1 DEF Session
<1>3. clients' \in [Clients -> {None} \cup Session]
  BY <1>2 DEF Open, TypeOK
<1> QED
  BY <1>3 DEF Open, TypeOK, table, batch, environment

\* What TypeOK says of a playlist that is open in a browser, or being PUT.
LEMMA CopyFields ==
    ASSUME TypeOK, NEW c \in Clients, clients[c] # None,
           clients[c].pc \in {"open", "diff", "put", "light"}
    PROVE  /\ clients[c].id \in Ids
           /\ clients[c].row \in Row
<1>1. clients[c] \in Session
  BY DEF TypeOK
<1> QED
  BY <1>1 DEF Session, LoadedRow

\* What TypeOK says of a reset in progress.
LEMMA ResetFields ==
    ASSUME TypeOK, NEW c \in Clients, clients[c] # None,
           clients[c].pc \in {"resetting", "replacing"}
    PROVE  /\ clients[c].id \in Ids
           /\ clients[c].url \in Urls
           /\ clients[c].medias \in MaybeLists
<1>1. clients[c] \in Session
  BY DEF TypeOK
<1> QED
  BY <1>1 DEF Session

\* Edits of a list are lists, and tidy ones of a tidy list.
LEMMA ListEditsTidy ==
    ASSUME NEW list \in MaybeLists, NEW edited \in ListEdits(list)
    PROVE  /\ edited \in MaybeLists
           /\ Tidy(list) => Tidy(edited)
<1>1. CASE list = Null
  BY <1>1 DEF ListEdits
<1>2. CASE list # Null
  <2>1. list \in Lists
    BY <1>2 DEF MaybeLists
  <2>2. CASE edited = list
    BY <2>2
  <2>3. ASSUME NEW m \in list, edited = list \ {m}
        PROVE  edited \in Lists /\ Twice(edited) \subseteq Twice(list)
    BY <2>1, <2>3, TwiceGrows DEF Lists
  <2>4. ASSUME NEW e \in list \X Media, UrlOf[e[1]] = UrlOf[e[2]],
               edited = (list \ {e[1]}) \cup {e[2]}
        PROVE  edited \in Lists /\ Twice(edited) \subseteq Twice(list)
    <3>1. e[1] \in list /\ e[2] \in Media
      BY <2>4
    <3>2. edited \in Lists
      BY <2>1, <2>4, <3>1 DEF Lists
    <3>3. ASSUME NEW m \in edited, NEW n \in edited, m # n, UrlOf[m] = UrlOf[n]
          PROVE  UrlOf[m] \in Twice(list)
      <4>1. CASE m \in list /\ n \in list
        BY <3>3, <4>1 DEF Twice, UrlsOf
      <4>2. CASE m = e[2] /\ n \in list \ {e[1]}
        BY <2>4, <3>1, <3>3, <4>2 DEF Twice, UrlsOf
      <4>3. CASE n = e[2] /\ m \in list \ {e[1]}
        BY <2>4, <3>1, <3>3, <4>3 DEF Twice, UrlsOf
      <4> QED
        BY <2>4, <3>3, <4>1, <4>2, <4>3
    <3> QED
      BY <3>2, <3>3 DEF Twice
  <2>5. edited \in Lists /\ Twice(edited) \subseteq Twice(list)
    BY <1>2, <2>1, <2>2, <2>3, <2>4 DEF ListEdits
  <2>6. edited # Null
    BY <2>5, MergeAssumption DEF Lists
  <2> QED
    BY <1>2, <2>5, <2>6 DEF Tidy, OrEmpty, MaybeLists
<1> QED
  BY <1>1, <1>2

LEMMA EditsTidy ==
    ASSUME NEW row \in Row, NEW kind, NEW sent \in Edits(row, kind)
    PROVE  /\ sent \in Row
           /\ Tidy(row.medias) => Tidy(sent.medias)
<1>1. CASE kind = "put"
  <2>1. PICK list \in ListEdits(row.medias) : sent = [row EXCEPT !.medias = list]
    BY <1>1 DEF Edits
  <2>2. list \in MaybeLists /\ (Tidy(row.medias) => Tidy(list))
    BY RowFields, ListEditsTidy
  <2> QED
    BY <2>1, <2>2 DEF Row
<1>2. CASE kind # "put"
  <2>1. PICK u \in Urls, e \in BOOLEAN :
          sent = [url |-> u, auto |-> row.auto, enabled |-> e, medias |-> row.medias]
    BY <1>2 DEF Edits
  <2> QED
    BY <2>1, RowFields DEF Row
<1> QED
  BY <1>1, <1>2

LEMMA SendPutType ==
    ASSUME TypeOK, NEW c \in Clients, NEW kind \in {"put", "light"}, SendPut(c, kind)
    PROVE  TypeOK'
<1>1. clients[c] # None /\ clients[c].pc = "open"
  BY DEF SendPut
<1> DEFINE p == clients[c].id
<1>2. p \in Ids /\ clients[c].row \in Row /\ rows[p] \in Row
  BY <1>1, CopyFields, PresentRow DEF SendPut
<1>3. PICK row \in Edits(clients[c].row, kind) :
        clients' = [clients EXCEPT ![c] =
          [pc |-> kind, id |-> p, row |-> row,
           loaded |-> [url |-> rows[p].url, enabled |-> rows[p].enabled]]]
  BY DEF SendPut
<1>4. row \in Row
  BY <1>2, EditsTidy
<1>5. [pc |-> kind, id |-> p, row |-> row,
       loaded |-> [url |-> rows[p].url, enabled |-> rows[p].enabled]] \in Session
  BY <1>2, <1>4, RowFields DEF Session
<1>6. clients' \in [Clients -> {None} \cup Session]
  BY <1>3, <1>5 DEF TypeOK
<1> QED
  BY <1>6 DEF SendPut, TypeOK, table, batch, environment

LEMMA AskDiffType == ASSUME TypeOK, NEW c \in Clients, AskDiff(c) PROVE TypeOK'
<1> DEFINE copy == clients[c].row
<1>1. /\ clients[c] # None
      /\ clients[c].pc = "open"
      /\ copy.medias # Null
      /\ source[copy.url] # Down
  BY DEF AskDiff
<1>2. clients[c].id \in Ids /\ copy \in Row /\ copy.url \in Urls
  BY <1>1, CopyFields, RowFields
<1>3. PICK q \in Ids :
        LET report == DiffWithSource(rows[q].medias, source[copy.url])
        IN  /\ Present(q)
            /\ report.removed # Null
            /\ clients' = [clients EXCEPT ![c] =
                 [pc |-> "diff", id |-> clients[c].id, row |-> copy,
                  new |-> report.new, removed |-> report.removed]]
  BY DEF AskDiff
<1> DEFINE report == DiffWithSource(rows[q].medias, source[copy.url])
<1>4. source[copy.url] \in MaybeLists /\ rows[q].medias \in MaybeLists
  BY <1>1, <1>2, <1>3, ServedList, PresentRow, RowFields
<1>5. report.new \in Lists /\ report.removed \in Lists
  BY <1>3, <1>4, DiffType DEF MaybeLists
<1> HIDE DEF report
<1>6. [pc |-> "diff", id |-> clients[c].id, row |-> copy,
       new |-> report.new, removed |-> report.removed] \in Session
  BY <1>1, <1>2, <1>5 DEF Session, LoadedRow
<1>7. clients' \in [Clients -> {None} \cup Session]
  BY <1>3, <1>6 DEF report, TypeOK
<1> QED
  BY <1>7 DEF AskDiff, TypeOK, table, batch, environment

\* What TypeOK says of a report in the diff dialog.
LEMMA ReportFields ==
    ASSUME TypeOK, NEW c \in Clients, clients[c] # None, clients[c].pc = "diff"
    PROVE  /\ clients[c].new \in Lists
           /\ clients[c].removed \in Lists
           /\ clients[c].row.medias \in Lists
<1>1. clients[c] \in Session
  BY DEF TypeOK
<1>2. clients[c].row \in LoadedRow /\ clients[c].new \in Lists /\ clients[c].removed \in Lists
  BY <1>1 DEF Session
<1> QED
  BY <1>2, RowFields DEF LoadedRow, MaybeLists

LEMMA AcceptType == ASSUME TypeOK, NEW c \in Clients, AcceptMerge(c) PROVE TypeOK'
<1> DEFINE p == clients[c].id
           copy == clients[c].row
           list == AcceptDiff(copy.medias, clients[c])
<1>1. clients[c] # None /\ clients[c].pc = "diff" /\ Present(p)
  BY DEF AcceptMerge
<1>2. p \in Ids /\ copy \in Row /\ rows[p] \in Row
  BY <1>1, CopyFields, PresentRow
<1>3. list \in Lists
  <2>1. {m \in copy.medias : UrlOf[m] \notin UrlsOf(clients[c].removed)} \in Lists
    BY <1>1, ReportFields DEF Lists
  <2> QED
    BY <1>1, <2>1, ReportFields DEF AcceptDiff, Without, Lists
<1> HIDE DEF list
<1>4. [copy EXCEPT !.medias = list] \in Row
  BY <1>2, <1>3 DEF Row, MaybeLists
<1> DEFINE s == [pc |-> "put", id |-> p, row |-> [copy EXCEPT !.medias = list],
                 loaded |-> [url |-> rows[p].url, enabled |-> rows[p].enabled]]
<1>5. s \in Session
  BY <1>2, <1>4, RowFields DEF Session
<1>6. clients' = [clients EXCEPT ![c] = s]
  BY DEF AcceptMerge, list
<1> HIDE DEF s
<1>7. clients' \in [Clients -> {None} \cup Session]
  BY <1>5, <1>6 DEF TypeOK
<1>8. misled' \subseteq Ids
  BY <1>2 DEF AcceptMerge, TypeOK
<1> QED
  BY <1>7, <1>8 DEF AcceptMerge, TypeOK, table, batch

LEMMA CloseType == ASSUME TypeOK, NEW c \in Clients, CloseDialog(c) PROVE TypeOK'
<1>1. [pc |-> "open", id |-> clients[c].id, row |-> clients[c].row] \in Session
  BY CopyFields DEF CloseDialog, Session
<1>2. clients' \in [Clients -> {None} \cup Session]
  BY <1>1 DEF CloseDialog, TypeOK
<1> QED
  BY <1>2 DEF CloseDialog, TypeOK, table, batch, environment

\* What a PUT writes into the row of a playlist that is there.
LEMMA SavePutRow ==
    ASSUME TypeOK, NEW c \in Clients, SavePut(c), Present(clients[c].id)
    PROVE  LET p == clients[c].id
           IN  \E u \in Urls, e \in BOOLEAN, list \in {rows[p].medias, clients[c].row.medias} :
                 /\ list \in MaybeLists
                 /\ rows' = [rows EXCEPT ![p] =
                       [url |-> u, auto |-> rows[p].auto, enabled |-> e, medias |-> list]]
<1> DEFINE p == clients[c].id
           sent == clients[c].row
           loaded == clients[c].loaded
<1>1. clients[c] # None /\ clients[c].pc \in {"put", "light"}
  BY DEF SavePut
<1>2. p \in Ids /\ sent \in Row /\ rows[p] \in Row
  BY <1>1, CopyFields, PresentRow
<1> DEFINE u == IF sent.url = loaded.url THEN rows[p].url ELSE sent.url
           e == IF sent.enabled = loaded.enabled THEN rows[p].enabled ELSE sent.enabled
           list == IF clients[c].pc = "light" THEN rows[p].medias ELSE sent.medias
<1>3. u \in Urls /\ e \in BOOLEAN /\ list \in MaybeLists
  BY <1>2, RowFields
<1>4. list \in {rows[p].medias, sent.medias}
  OBVIOUS
<1>5. rows' = [rows EXCEPT ![p] =
        [url |-> u, auto |-> rows[p].auto, enabled |-> e, medias |-> list]]
  BY <1>2 DEF SavePut, TypeOK
<1> HIDE DEF u, e, list
<1> QED
  BY <1>3, <1>4, <1>5

LEMMA SavePutType ==
    ASSUME TypeOK, NEW c \in Clients, SavePut(c) PROVE TypeOK'
<1> DEFINE p == clients[c].id
<1>1. clients[c] # None /\ clients[c].pc \in {"put", "light"}
  BY DEF SavePut
<1>2. p \in Ids /\ clients[c].row \in Row
  BY <1>1, CopyFields
<1>3. rows' \in [Ids -> {None} \cup Row]
  <2>1. CASE Present(p)
    <3>1. PICK u \in Urls, e \in BOOLEAN,
               list \in {rows[p].medias, clients[c].row.medias} :
            /\ list \in MaybeLists
            /\ rows' = [rows EXCEPT ![p] =
                 [url |-> u, auto |-> rows[p].auto, enabled |-> e, medias |-> list]]
      BY <2>1, SavePutRow
    <3>2. [url |-> u, auto |-> rows[p].auto, enabled |-> e, medias |-> list] \in Row
      BY <1>2, <2>1, PresentRow, RowFields DEF Row
    <3> QED
      BY <3>1, <3>2 DEF TypeOK
  <2>2. CASE ~Present(p)
    BY <2>2 DEF SavePut, TypeOK
  <2> QED
    BY <2>1, <2>2
<1>4. [pc |-> "open", id |-> p, row |-> clients[c].row] \in Session
  BY <1>2 DEF Session
<1>5. clients' \in [Clients -> {None} \cup Session]
  BY <1>4 DEF SavePut, TypeOK
<1> QED
  BY <1>3, <1>5 DEF SavePut, TypeOK, batch, environment

LEMMA DeleteType == ASSUME TypeOK, NEW p \in Ids, Delete(p) PROVE TypeOK'
BY DEF Delete, TypeOK, batch, environment

LEMMA ImportType == ASSUME TypeOK, NEW u \in Urls, ImportFromUrl(u) PROVE TypeOK'
<1>1. nextId \in Ids /\ nextId + 1 \in 1 .. MaxId + 1
  BY SyncAssumption DEF ImportFromUrl, TypeOK, Ids
<1>2. source[u] \in Lists
  BY ServedList DEF ImportFromUrl, ServesList, MaybeLists
<1> DEFINE row == [url |-> u, auto |-> TRUE, enabled |-> TRUE,
                   medias |-> IF source[u] = {} THEN Null ELSE source[u]]
<1>3. row \in Row
  BY <1>2 DEF Row, MaybeLists
<1>4. rows' \in [Ids -> {None} \cup Row]
  BY <1>1, <1>3 DEF ImportFromUrl, TypeOK
<1> QED
  BY <1>1, <1>4 DEF ImportFromUrl, TypeOK, batch, environment

LEMMA SynkAsyncType ==
    ASSUME TypeOK, NEW c \in Clients, NEW p \in Ids, SynkAsync(c, p) PROVE TypeOK'
<1>1. rows[p] \in Row
  BY PresentRow DEF SynkAsync, Synchronizable
<1>2. [pc |-> "resetting", id |-> p, url |-> rows[p].url, medias |-> rows[p].medias] \in Session
  BY <1>1, RowFields DEF Session
<1>3. clients' \in [Clients -> {None} \cup Session]
  BY <1>2 DEF SynkAsync, TypeOK
<1> QED
  BY <1>3 DEF SynkAsync, TypeOK, table, batch, environment

\* What PullReset makes of a session.
LEMMA PullResetSession ==
    ASSUME TypeOK, NEW c \in Clients, PullReset(c)
    PROVE  \/ clients' = [clients EXCEPT ![c] = None]
           \/ \E list \in {clients[c].medias, source[clients[c].url]} :
                /\ list \in MaybeLists
                /\ Tidy(clients[c].medias) => Tidy(list)
                /\ clients' = [clients EXCEPT ![c] =
                     [pc |-> "replacing", id |-> clients[c].id,
                      url |-> clients[c].url, medias |-> list]]
<1> DEFINE s == clients[c]
           offered == source[s.url]
<1>1. s # None /\ s.pc = "resetting"
  BY DEF PullReset
<1>2. s.id \in Ids /\ s.url \in Urls /\ s.medias \in MaybeLists
  BY <1>1, ResetFields
<1>3. CASE ~ServesList(s.url)
  BY <1>3 DEF PullReset
<1>4. CASE ServesList(s.url)
  <2>1. offered \in MaybeLists /\ Tidy(offered)
    BY <1>2, <1>4, ServedList DEF ServesList
  <2> DEFINE list == IF offered = {} THEN s.medias ELSE offered
  <2>2. clients' = [clients EXCEPT ![c] =
          [pc |-> "replacing", id |-> s.id, url |-> s.url, medias |-> list]]
    BY <1>4 DEF PullReset, TypeOK
  <2> QED
    BY <1>2, <2>1, <2>2
<1> QED
  BY <1>3, <1>4

LEMMA PullResetType == ASSUME TypeOK, NEW c \in Clients, PullReset(c) PROVE TypeOK'
<1>1. clients[c] # None /\ clients[c].pc = "resetting"
  BY DEF PullReset
<1>2. clients' \in [Clients -> {None} \cup Session]
  <2>1. ASSUME NEW list \in MaybeLists
        PROVE  [pc |-> "replacing", id |-> clients[c].id, url |-> clients[c].url,
                medias |-> list] \in Session
    BY <1>1, ResetFields DEF Session
  <2> QED
    BY <2>1, PullResetSession DEF TypeOK
<1> QED
  BY <1>2 DEF PullReset, TypeOK, table, batch, environment

LEMMA SaveResetType == ASSUME TypeOK, NEW c \in Clients, SaveReset(c) PROVE TypeOK'
<1>1. clients[c] # None /\ clients[c].pc = "replacing"
  BY DEF SaveReset
<1>2. rows' \in [Ids -> {None} \cup Row]
  BY <1>1, ResetFields, MediasType DEF SaveReset, TypeOK
<1>3. clients' \in [Clients -> {None} \cup Session]
  BY DEF SaveReset, TypeOK
<1> QED
  BY <1>2, <1>3 DEF SaveReset, TypeOK, batch, environment

LEMMA LeaveType == ASSUME TypeOK, NEW c \in Clients, Leave(c) PROVE TypeOK'
BY DEF Leave, TypeOK, table, batch, environment

LEMMA SourceType == ASSUME TypeOK, NEW u \in Urls, SourceChanges(u) PROVE TypeOK'
<1>1. source' \in [Urls -> {Null, Down} \cup Offers]
  BY DEF SourceChanges, TypeOK
<1>2. changes' \in 0 .. MaxChanges
  BY SyncAssumption DEF SourceChanges, TypeOK
<1> QED
  BY <1>1, <1>2 DEF SourceChanges, TypeOK, table, batch

LEMMA BatchDiesType == TypeOK /\ BatchDies => TypeOK'
<1> SUFFICES ASSUME TypeOK, BatchDies PROVE TypeOK'
  OBVIOUS
<1>1. crashes' \in 0 .. MaxCrashes /\ pending' \in [Ids -> 0 .. MaxPending]
  BY SyncAssumption DEF BatchDies, TypeOK
<1> QED
  BY <1>1 DEF BatchDies, TypeOK, table

LEMMA StutterType == TypeOK /\ UNCHANGED vars => TypeOK'
BY DEF TypeOK, vars, table, batch, environment

\* One case per action of Next; nothing to do for a step that is none of them.
LEMMA TypeStep == TypeOK /\ [Next]_vars => TypeOK'
<1> SUFFICES ASSUME TypeOK, Next PROVE TypeOK'
  BY StutterType
<1> QED
  BY StartPassType, CompareType, ConsumeType, PullType, SaveMergeType, OpenType,
     SendPutType, SavePutType, DeleteType, ImportType, SynkAsyncType, PullResetType,
     SaveResetType, AskDiffType, AcceptType, CloseType, LeaveType, SourceType, BatchDiesType
     DEF Next, Deliver

\* Every variable keeps its type.
THEOREM TypeCorrect == Spec => []TypeOK
<1>1. Init => TypeOK
  BY InitType
<1> QED
  BY <1>1, TypeStep, PTL DEF Spec
=============================================================================
