---------------------------- MODULE PlaylistCache ----------------------------
(***************************************************************************)
(* The cache of playlist lists in the WebApi: PlaylistsController.ListAsync*)
(* keeps each answer in the process-wide IMemoryCache under a key made of  *)
(* the user, the hash of the query and the `light` flag, and keeps, under  *)
(* one more key of the user, an index: the list of the keys that ClearCache*)
(* must remove.  PutLightAsync, Delete and ImportFromUrl clear the cache of*)
(* the CALLER once they have saved; PutAsync and the batch never do.       *)
(*                                                                         *)
(* The database is abstracted to a version per user, which every change of *)
(* one of the user's playlists increments, and an answer to the version it *)
(* was read from.                                                          *)
(***************************************************************************)
EXTENDS Naturals

CONSTANTS
    Users,
    Keys,         \* the cache keys of a user's lists: query hash and light flag
    KeysOf,       \* the keys that a user's clients ask for
    Tabs,         \* requests at a time: nothing keeps a user from having several
    UserOf,       \* the user who makes each of them
    None,         \* no cache entry
    MaxVersion    \* bound: changes to the playlists of a user

ASSUME CacheAssumption ==
    /\ UserOf \in [Tabs -> Users]
    /\ KeysOf \in [Users -> SUBSET Keys]
    /\ MaxVersion \in Nat

Versions == 0 .. MaxVersion

\* The index of a user: the key it was created with, and whether the user's
\* own key, which line 95 adds in place of a list's key, is in it as well.
Index == [first : Keys, self : BOOLEAN]

\* A request between two awaits.  own tells whether it changed a playlist of
\* the user who made it.
Request ==
    [pc : {"filling"}, key : Keys]
        \cup [pc : {"read"}, key : Keys, version : Versions]
        \cup [pc : {"saved"}, own : BOOLEAN]

ASSUME NoneAssumption == None \notin Versions \cup Index \cup Request

VARIABLES
    version,    \* the state of each user's playlists in the database
    told,       \* what version held when the last request of the user that
                \* changed one of their own playlists was answered
    pages,      \* the cached lists
    index,      \* the cached indexes
    request,    \* what each tab is waiting for
    overtaken,  \* history: the tabs that wait for a list, and whose user's cache
                \* was cleared since they asked
    late        \* history: the keys of the lists that such a tab has stored

history == <<overtaken, late>>
vars == <<version, told, pages, index, request, overtaken, late>>

Init ==
    /\ version = [u \in Users |-> 0]
    /\ told = [u \in Users |-> 0]
    /\ pages = [u \in Users |-> [k \in Keys |-> None]]
    /\ index = [u \in Users |-> None]
    /\ request = [t \in Tabs |-> None]
    /\ overtaken = {}
    /\ late = {}

\* Mutant of ListMisses: the index is not written.
ListMissesUnindexed(t, k) ==
    /\ request[t] = None
    /\ pages[UserOf[t]][k] = None
    /\ request' = [request EXCEPT ![t] = [pc |-> "filling", key |-> k]]
    /\ UNCHANGED <<version, told, pages, index, history>>

\* GetOrCreateAsync misses and runs its factory up to its first await: the
\* user's own key is added to an index that exists, else an index is created
\* with the key of this list.  (A hit answers from pages and changes nothing.)
ListMisses(t, k) ==
    /\ request[t] = None
    /\ LET u == UserOf[t]
       IN  /\ pages[u][k] = None
           /\ index' = [index EXCEPT ![u] =
                 IF @ = None THEN [first |-> k, self |-> FALSE]
                 ELSE [@ EXCEPT !.self = TRUE]]
    /\ request' = [request EXCEPT ![t] = [pc |-> "filling", key |-> k]]
    /\ UNCHANGED <<version, told, pages, history>>

\* The query of the factory, in a thread of the pool.
ListReads(t) ==
    /\ request[t] # None
    /\ request[t].pc = "filling"
    /\ request' = [request EXCEPT ![t] =
          [pc |-> "read", key |-> request[t].key, version |-> version[UserOf[t]]]]
    /\ UNCHANGED <<version, told, pages, index, history>>

\* GetOrCreateAsync stores the answer and returns it, even if the cache of its user
\* was cleared since it missed.
ListCommits(t) ==
    /\ request[t] # None
    /\ request[t].pc = "read"
    /\ pages' = [pages EXCEPT ![UserOf[t]][request[t].key] = request[t].version]
    /\ late' = LET stored == {<<UserOf[t], request[t].key>>}
               IN  IF t \in overtaken THEN late \cup stored ELSE late \ stored
    /\ request' = [request EXCEPT ![t] = None]
    /\ overtaken' = overtaken \ {t}
    /\ UNCHANGED <<version, told, index>>

\* The query throws: nothing is stored, but the index was written.
ListFails(t) ==
    /\ request[t] # None
    /\ request[t].pc = "filling"
    /\ request' = [request EXCEPT ![t] = None]
    /\ overtaken' = overtaken \ {t}
    /\ UNCHANGED <<version, told, pages, index, late>>

\* PutLightAsync, Delete and ImportFromUrl save a change to a playlist, which
\* need not be one of the caller's own.
Save(t, owner) ==
    /\ request[t] = None
    /\ version[owner] < MaxVersion
    /\ version' = [version EXCEPT ![owner] = @ + 1]
    /\ request' = [request EXCEPT ![t] = [pc |-> "saved", own |-> owner = UserOf[t]]]
    /\ UNCHANGED <<told, pages, index, history>>

\* The lists of a user that are on their way into the cache are overtaken.
Overtake(u) ==
    /\ overtaken' = overtaken \cup {t \in Tabs :
          /\ UserOf[t] = u
          /\ request[t] # None
          /\ request[t].pc \in {"filling", "read"}}
    /\ UNCHANGED late

\* Mutant of ClearCache: only the index is removed.
ClearIndexOnly(t) ==
    /\ request[t] # None
    /\ request[t].pc = "saved"
    /\ index' = [index EXCEPT ![UserOf[t]] = None]
    /\ told' = IF request[t].own
               THEN [told EXCEPT ![UserOf[t]] = version[UserOf[t]]] ELSE told
    /\ request' = [request EXCEPT ![t] = None]
    /\ Overtake(UserOf[t])
    /\ UNCHANGED <<version, pages>>

\* Mutant of ClearCache: the index is looked for under a key it is not at.
ClearMissesIndex(t) ==
    /\ request[t] # None
    /\ request[t].pc = "saved"
    /\ told' = IF request[t].own
               THEN [told EXCEPT ![UserOf[t]] = version[UserOf[t]]] ELSE told
    /\ request' = [request EXCEPT ![t] = None]
    /\ Overtake(UserOf[t])
    /\ UNCHANGED <<version, pages, index>>

\* ClearCache: removes the entry of every key in the caller's index.  If the
\* user's own key is among them, the index itself is gone after it.
ClearCache(t) ==
    /\ request[t] # None
    /\ request[t].pc = "saved"
    /\ LET u == UserOf[t]
       IN  /\ \/ /\ index[u] = None
                 /\ UNCHANGED <<pages, index>>
              \/ /\ index[u] # None
                 /\ pages' = [pages EXCEPT ![u][index[u].first] = None]
                 /\ index' = [index EXCEPT ![u] = IF @.self THEN None ELSE @]
           /\ told' = IF request[t].own THEN [told EXCEPT ![u] = version[u]] ELSE told
           /\ Overtake(u)
    /\ request' = [request EXCEPT ![t] = None]
    /\ UNCHANGED version

\* PutAsync, SynkAsync and the batch change a playlist and clear no cache.
SaveWithoutClear(owner) ==
    /\ version[owner] < MaxVersion
    /\ version' = [version EXCEPT ![owner] = @ + 1]
    /\ UNCHANGED <<told, pages, index, request, history>>

\* A list that nobody asked for in two hours leaves the cache; indexes do not.
Expire(u, k) ==
    /\ pages[u][k] # None
    /\ pages' = [pages EXCEPT ![u][k] = None]
    /\ UNCHANGED <<version, told, index, request, history>>

\* The WebApi restarts: its cache is empty and its requests are gone.
Restart ==
    /\ pages' = [u \in Users |-> [k \in Keys |-> None]]
    /\ index' = [u \in Users |-> None]
    /\ request' = [t \in Tabs |-> None]
    /\ overtaken' = {}
    /\ late' = {}
    /\ UNCHANGED <<version, told>>

Next ==
    \/ \E t \in Tabs : \E k \in KeysOf[UserOf[t]] : ListMisses(t, k)
    \/ \E t \in Tabs : ListReads(t)
    \/ \E t \in Tabs : ListCommits(t)
    \/ \E t \in Tabs : ListFails(t)
    \/ \E t \in Tabs, u \in Users : Save(t, u)
    \/ \E t \in Tabs : ClearCache(t)
    \/ \E u \in Users : SaveWithoutClear(u)
    \/ \E u \in Users, k \in Keys : Expire(u, k)
    \/ Restart

Spec == Init /\ [][Next]_vars

------------------------------------------------------------------------------
(* Properties *)

TypeOK ==
    /\ version \in [Users -> Versions]
    /\ told \in [Users -> Versions]
    /\ pages \in [Users -> [Keys -> {None} \cup Versions]]
    /\ index \in [Users -> {None} \cup Index]
    /\ request \in [Tabs -> {None} \cup Request]
    /\ overtaken \subseteq Tabs
    /\ late \subseteq Users \X Keys

\* A user who asks for one list only: the client of this repository does, page 0,
\* no search, no sort, light.
OneKey(u) == \A k, l \in KeysOf[u] : k = l

\* A list that was stored by a request that no ClearCache of its user overtook.
Timely(u, k) == pages[u][k] # None /\ <<u, k>> \notin late

\* A user who asks for one list only, and who has deleted, imported or renamed a
\* playlist and got the answer, is shown a list from before it in one case alone:
\* ListAsync was waiting for its query while the cache of that user was cleared, and
\* has stored the old list after it.  Every other cached list is as new as the last
\* answer that told the user of a change to their own playlists.
OwnChangesAreListed ==
    \A u \in Users, k \in Keys :
        OneKey(u) /\ Timely(u, k) => told[u] <= pages[u][k]

\* The list that the index of a user was created with.
Shown ==
    [u \in Users |->
        IF index[u] # None /\ Timely(u, index[u].first)
        THEN pages[u][index[u].first] ELSE None]

\* What ClearCache promises a user who asks for many lists: the index loses all
\* keys but the first, and the list under that one, unless a request stored it that
\* ClearCache had overtaken, is never older than the last change the user was told of.
FirstKeyIsFresh == \A u \in Users : Shown[u] # None => told[u] <= Shown[u]

\* The list under the first key of the index is, but for one that comes too late, all
\* that ListView lets it be: it is only ever replaced by a list from after the last
\* change its user was told of, and forgotten when they are told of the next.
View == INSTANCE ListView WITH shown <- Shown
KeepsView == View!Spec

\* Why these hold: a list on its way into the cache, already read and not overtaken,
\* holds the user's changes,
FillsAreFresh ==
    \A t \in Tabs :
        request[t] # None /\ request[t].pc = "read"
            => /\ t \notin overtaken => told[UserOf[t]] <= request[t].version
               /\ request[t].version <= version[UserOf[t]]

ToldIsPast == \A u \in Users : told[u] <= version[u]

\* and the lists of a user who asks for one only are in their index, so that
\* ClearCache reaches them, unless they come too late for it.
Indexed ==
    \A u \in Users :
        /\ index[u] # None => index[u].first \in KeysOf[u]
        /\ OneKey(u) => \A k \in Keys :
              Timely(u, k) => index[u] # None /\ index[u].first = k

FillsAreIndexed ==
    \A t \in Tabs :
        request[t] # None /\ request[t].pc \in {"filling", "read"}
            => /\ t \notin overtaken => index[UserOf[t]] # None
               /\ request[t].key \in KeysOf[UserOf[t]]

CacheInv ==
    /\ TypeOK
    /\ FirstKeyIsFresh
    /\ Indexed
    /\ FillsAreIndexed
    /\ FillsAreFresh
    /\ ToldIsPast
=============================================================================
