---------------------------- MODULE PlaylistMerge ----------------------------
(***************************************************************************)
(* What one synchronisation does to the medias of a playlist, as pure      *)
(* operators: PlaylistService.DiffWithSourceAsync and the merge that       *)
(* PlaylistService.SynkPlaylistAsync applies to its result.                *)
(*                                                                         *)
(* A media is an opaque value.  The code tells medias apart in two ways:   *)
(* the diff compares Media.Url, the removal compares Media.Id, which is    *)
(* the host, the path and the name of the media, WITHOUT the scheme and    *)
(* the port.  UrlOf and IdOf are those two projections: two medias with    *)
(* one url are two versions (say, before and after a rename by the user)   *)
(* of one channel, and two medias with distinct urls may share an Id.      *)
(* A list of medias is abstracted to the set of its members.               *)
(***************************************************************************)
EXTENDS Naturals, FiniteSets

CONSTANTS
    Media,     \* the medias that sources serve and users keep
    UrlOf,     \* Media.Url
    IdOf,      \* Media.Id
    Null       \* a C# null where a list is expected

ASSUME MergeAssumption ==
    /\ UrlOf \in [Media -> {UrlOf[m] : m \in Media}]
    /\ IdOf \in [Media -> {IdOf[m] : m \in Media}]
    /\ \A list \in SUBSET Media : list # Null

Lists == SUBSET Media

MaybeLists == {Null} \cup Lists

UrlsOf(list) == {UrlOf[m] : m \in list}

\* list ?? new List<TvgMedia>()
OrEmpty(list) == IF list = Null THEN {} ELSE list

\* list == null || !list.Any()
NullOrEmpty(list) == list = Null \/ list = {}

\* Mutant of Without: medias are compared whole, not by their urls.
WithoutSame(list, other) == list \ other

\* The medias of a list whose url the other list does not have.
Without(list, other) == {m \in list : UrlOf[m] \notin UrlsOf(other)}

\* The pair (tvgMedia, removed) that DiffWithSourceAsync returns once the
\* source has answered with the list `offered`.
DiffWithSource(existing, offered) ==
    IF offered = Null
    THEN [new |-> {}, removed |-> OrEmpty(existing)]
    ELSE IF NullOrEmpty(existing)
    THEN [new |-> offered, removed |-> Null]
    ELSE [new |-> Without(offered, existing), removed |-> Without(existing, offered)]

\* playlist.TvgMedias.RemoveAll(x => removed.Any(r => r.Id == x.Id))
RemoveAll(existing, removed) ==
    {m \in existing : \A r \in removed : IdOf[r] # IdOf[m]}

\* Mutant of ApplyDiff: what the source dropped is kept.
ApplyDiffAddsOnly(existing, diff) == existing \cup diff.new

\* The medias after the RemoveAll and the AddRange of SynkPlaylistAsync.
ApplyDiff(existing, diff) ==
    RemoveAll(existing, OrEmpty(diff.removed)) \cup diff.new

\* What PlaylistDiffDialog.acceptMerge makes of the list in the browser, given a
\* report of PlaylistsController.DiffAsync: here medias are told apart by url.
AcceptDiff(list, diff) == Without(list, diff.removed) \cup diff.new

\* Mutant of Changed: a diff that only adds is not saved.
ChangedIfRemoved(diff) == OrEmpty(diff.removed) # {}

\* `changed`: whether SynkPlaylistAsync has anything to save.
Changed(diff) == OrEmpty(diff.removed) # {} \/ diff.new # {}

\* No two medias of the list that have distinct urls share an Id.
CollisionFree(list) ==
    \A m, n \in list : IdOf[m] = IdOf[n] => UrlOf[m] = UrlOf[n]

\* The channels of which the list has two versions: two medias with one url.
Twice(list) ==
    {u \in UrlsOf(list) : \E m, n \in list : m # n /\ UrlOf[m] = u /\ UrlOf[n] = u}

\* The medias of one list whose channels are still in another are in it as they
\* were, not in another version.
KeepsVersions(old, new) ==
    \A m \in old : UrlOf[m] \in UrlsOf(new) => m \in new
=============================================================================
