-------------------------- MODULE PlaylistCacheProofs --------------------------
(***************************************************************************)
(* Proofs about PlaylistCache, for every number of users, of requests at a *)
(* time and of cache keys: but for a list whose request ClearCache has     *)
(* overtaken, the list under the first key of an index is what ListView    *)
(* lets it be, and users who ask for one list only are shown their own     *)
(* changes.                                                                *)
(***************************************************************************)
EXTENDS PlaylistCache, TLAPS

\* What TypeOK says of a request in progress.
LEMMA RequestFields ==
    ASSUME TypeOK, NEW t \in Tabs, request[t] # None
    PROVE  /\ request[t] \in Request
           /\ UserOf[t] \in Users
           /\ request[t].pc \in {"filling", "read"} => request[t].key \in Keys
           /\ request[t].pc = "read" => request[t].version \in Versions
           /\ request[t].pc = "saved" => request[t].own \in BOOLEAN
<1>1. request[t] \in Request
  BY DEF TypeOK
<1> QED
  BY <1>1, CacheAssumption DEF Request

LEMMA InitInv == Init => CacheInv
<1> SUFFICES ASSUME Init PROVE CacheInv
  OBVIOUS
<1>1. TypeOK
  BY CacheAssumption DEF Init, TypeOK, Versions
<1>2. FirstKeyIsFresh /\ Indexed
  BY DEF Init, FirstKeyIsFresh, Shown, Timely, Indexed
<1>3. FillsAreIndexed /\ FillsAreFresh
  BY DEF Init, FillsAreIndexed, FillsAreFresh
<1>4. ASSUME NEW u \in Users PROVE told[u] <= version[u]
  <2>1. told[u] = 0 /\ version[u] = 0
    BY DEF Init
  <2> QED
    BY <2>1
<1> QED
  BY <1>1, <1>2, <1>3, <1>4 DEF CacheInv, ToldIsPast

\* A miss creates an index with a key that no list is cached under, or keeps its
\* first key.
LEMMA MissesInv ==
    ASSUME CacheInv, NEW t \in Tabs, NEW k \in KeysOf[UserOf[t]], ListMisses(t, k)
    PROVE  CacheInv'
<1> DEFINE u == UserOf[t]
<1>1. u \in Users /\ k \in Keys
  BY CacheAssumption
<1> DEFINE i == IF index[u] = None THEN [first |-> k, self |-> FALSE]
                ELSE [index[u] EXCEPT !.self = TRUE]
<1>2. /\ i \in Index
      /\ i.first = IF index[u] = None THEN k ELSE index[u].first
  BY <1>1 DEF CacheInv, TypeOK, Index
<1>3. index' = [index EXCEPT ![u] = i]
  BY DEF ListMisses
<1> HIDE DEF i
<1> DEFINE r == [pc |-> "filling", key |-> k]
<1>4. r \in Request /\ r.pc = "filling" /\ r.key = k
  BY <1>1 DEF Request
<1>5. request' = [request EXCEPT ![t] = r]
  BY DEF ListMisses
<1> HIDE DEF r
<1>6. UNCHANGED <<version, told, pages, overtaken, late>> /\ pages[u][k] = None
  BY DEF ListMisses, history
<1>7. index'[u] = i /\ \A v \in Users \ {u} : index'[v] = index[v]
  BY <1>1, <1>3 DEF CacheInv, TypeOK
<1>8. i # None
  BY <1>2, NoneAssumption
<1>9. TypeOK'
  BY <1>1, <1>2, <1>3, <1>4, <1>5, <1>6 DEF CacheInv, TypeOK
<1>10. ToldIsPast'
  BY <1>6 DEF CacheInv, ToldIsPast
<1>11. FirstKeyIsFresh'
  BY <1>2, <1>6, <1>7, <1>8 DEF CacheInv, FirstKeyIsFresh, Shown, Timely
<1>12. Indexed'
  <2>1. i.first \in KeysOf[u]
    BY <1>1, <1>2 DEF CacheInv, Indexed
  <2>2. ASSUME OneKey(u), NEW l \in Keys, Timely(u, l) PROVE i.first = l
    BY <1>1, <1>2, <2>2 DEF CacheInv, Indexed
  <2> QED
    BY <1>6, <1>7, <1>8, <2>1, <2>2 DEF CacheInv, Indexed, Timely
<1>13. \A s \in Tabs : request'[s] = IF s = t THEN r ELSE request[s]
  BY <1>5 DEF CacheInv, TypeOK
<1>14. FillsAreIndexed'
  BY <1>4, <1>6, <1>7, <1>8, <1>13, CacheAssumption DEF CacheInv, FillsAreIndexed
<1>15. FillsAreFresh'
  BY <1>4, <1>6, <1>13 DEF CacheInv, FillsAreFresh
<1> QED
  BY <1>9, <1>10, <1>11, <1>12, <1>14, <1>15 DEF CacheInv

LEMMA ReadsInv ==
    ASSUME CacheInv, NEW t \in Tabs, ListReads(t)
    PROVE  CacheInv'
<1> DEFINE r == [pc |-> "read", key |-> request[t].key, version |-> version[UserOf[t]]]
<1>1. request[t] # None /\ request[t].pc = "filling" /\ UserOf[t] \in Users
  BY CacheAssumption DEF ListReads
<1>2. r \in Request
  BY <1>1, RequestFields DEF CacheInv, TypeOK, Request
<1>3. r.pc = "read" /\ r.key = request[t].key /\ r.version = version[UserOf[t]]
  OBVIOUS
<1>4. request' = [request EXCEPT ![t] = r] /\ UNCHANGED <<version, told, pages, index, overtaken, late>>
  BY DEF ListReads, history
<1> HIDE DEF r
<1>5. \A s \in Tabs : request'[s] = IF s = t THEN r ELSE request[s]
  BY <1>4 DEF CacheInv, TypeOK
<1>6. TypeOK'
  BY <1>2, <1>4 DEF CacheInv, TypeOK
<1>7. FirstKeyIsFresh' /\ Indexed' /\ ToldIsPast'
  BY <1>4 DEF CacheInv, FirstKeyIsFresh, Shown, Timely, Indexed, ToldIsPast
<1>8. FillsAreIndexed'
  BY <1>1, <1>3, <1>4, <1>5 DEF CacheInv, FillsAreIndexed
<1>9. FillsAreFresh'
  <2>1. version[UserOf[t]] <= version[UserOf[t]]
    BY <1>1, CacheAssumption DEF CacheInv, TypeOK, Versions
  <2> QED
    BY <1>1, <1>3, <1>4, <1>5, <2>1 DEF CacheInv, FillsAreFresh, ToldIsPast
<1> QED
  BY <1>6, <1>7, <1>8, <1>9 DEF CacheInv

\* The list that is stored has the user's changes, and is in their index.
LEMMA CommitsInv ==
    ASSUME CacheInv, NEW t \in Tabs, ListCommits(t)
    PROVE  CacheInv'
<1> DEFINE u == UserOf[t]
           k == request[t].key
           v == request[t].version
<1>1. request[t] # None /\ request[t].pc = "read" /\ u \in Users
  BY CacheAssumption DEF ListCommits
<1>2. k \in Keys /\ v \in Versions
  BY <1>1, RequestFields DEF CacheInv
<1>3. /\ pages' = [pages EXCEPT ![u][k] = v]
      /\ request' = [request EXCEPT ![t] = None]
      /\ UNCHANGED <<version, told, index>>
      /\ overtaken' = overtaken \ {t}
      /\ late' = IF t \in overtaken THEN late \cup {<<u, k>>} ELSE late \ {<<u, k>>}
  BY DEF ListCommits
<1>4. \A w \in Users, l \in Keys :
        pages'[w][l] = IF w = u /\ l = k THEN v ELSE pages[w][l]
  BY <1>1, <1>2, <1>3 DEF CacheInv, TypeOK
<1>5. \A s \in Tabs : request'[s] = IF s = t THEN None ELSE request[s]
  BY <1>3 DEF CacheInv, TypeOK
<1>6. TypeOK'
  BY <1>1, <1>2, <1>3 DEF CacheInv, TypeOK
<1>10. \A w \in Users, l \in Keys :
         Timely(w, l)' <=> IF w = u /\ l = k THEN t \notin overtaken /\ v # None
                           ELSE Timely(w, l)
  BY <1>1, <1>2, <1>3, <1>4 DEF Timely
<1>7. FirstKeyIsFresh'
  <2>1. ASSUME NEW w \in Users, index[w] # None
        PROVE  index[w].first \in Keys
    BY <2>1 DEF CacheInv, TypeOK, Index
  <2>2. t \notin overtaken => told[u] <= v
    BY <1>1 DEF CacheInv, FillsAreFresh
  <2> QED
    BY <1>3, <1>4, <1>10, <2>1, <2>2 DEF CacheInv, FirstKeyIsFresh, Shown, Timely
<1>8. Indexed'
  <2>1. (t \notin overtaken => index[u] # None) /\ k \in KeysOf[u]
    BY <1>1 DEF CacheInv, FillsAreIndexed
  <2>2. OneKey(u) /\ t \notin overtaken => index[u].first = k
    BY <1>1, <2>1 DEF CacheInv, Indexed, OneKey
  <2> QED
    BY <1>1, <1>2, <1>3, <1>10, <2>1, <2>2 DEF CacheInv, Indexed
<1>9. FillsAreIndexed' /\ FillsAreFresh' /\ ToldIsPast'
  BY <1>3, <1>5 DEF CacheInv, FillsAreIndexed, FillsAreFresh, ToldIsPast
<1> QED
  BY <1>6, <1>7, <1>8, <1>9 DEF CacheInv

LEMMA FailsInv ==
    ASSUME CacheInv, NEW t \in Tabs, ListFails(t)
    PROVE  CacheInv'
<1>1. /\ request' = [request EXCEPT ![t] = None]
      /\ overtaken' = overtaken \ {t}
      /\ UNCHANGED <<version, told, pages, index, late>>
  BY DEF ListFails
<1>2. \A s \in Tabs : request'[s] = IF s = t THEN None ELSE request[s]
  BY <1>1 DEF CacheInv, TypeOK
<1>3. TypeOK'
  BY <1>1 DEF CacheInv, TypeOK
<1> QED
  BY <1>1, <1>2, <1>3 DEF CacheInv, FirstKeyIsFresh, Shown, Timely, Indexed, FillsAreIndexed,
     FillsAreFresh, ToldIsPast

\* A change of a user's playlists ages no list and no promise.
LEMMA NewVersion ==
    ASSUME CacheInv, NEW u \in Users, version[u] < MaxVersion,
           version' = [version EXCEPT ![u] = @ + 1], UNCHANGED told
    PROVE  /\ version' \in [Users -> Versions]
           /\ ToldIsPast'
           /\ \A w \in Users : version[w] <= version'[w]
<1>1. \A w \in Users : version[w] \in Nat /\ version[w] =< MaxVersion /\ told[w] \in Nat
  BY CacheAssumption DEF CacheInv, TypeOK, Versions
<1>2. version[u] + 1 \in Versions
  BY <1>1, CacheAssumption DEF Versions
<1>3. version' \in [Users -> Versions]
  BY <1>2 DEF CacheInv, TypeOK
<1>4. \A w \in Users : version'[w] \in {version[w], version[w] + 1}
  BY DEF CacheInv, TypeOK
<1>5. ToldIsPast'
  BY <1>1, <1>4 DEF CacheInv, ToldIsPast
<1> QED
  BY <1>1, <1>3, <1>4, <1>5

\* and what was read before it stays past.
LEMMA FreshStays ==
    ASSUME CacheInv, NEW t \in Tabs, request[t] # None, request[t].pc = "read",
           version' \in [Users -> Versions], version[UserOf[t]] <= version'[UserOf[t]]
    PROVE  /\ t \notin overtaken => told[UserOf[t]] <= request[t].version
           /\ request[t].version <= version'[UserOf[t]]
<1>1. /\ t \notin overtaken => told[UserOf[t]] <= request[t].version
      /\ request[t].version <= version[UserOf[t]]
  BY DEF CacheInv, FillsAreFresh
<1>2. /\ request[t].version \in Nat
      /\ version[UserOf[t]] \in Nat
      /\ version'[UserOf[t]] \in Nat
  BY RequestFields, CacheAssumption DEF CacheInv, TypeOK, Versions
<1> QED
  BY <1>1, <1>2

LEMMA SaveInv ==
    ASSUME CacheInv, NEW t \in Tabs, NEW u \in Users, Save(t, u)
    PROVE  CacheInv'
<1> DEFINE r == [pc |-> "saved", own |-> u = UserOf[t]]
<1>1. r \in Request /\ r.pc = "saved"
  BY DEF Request
<1>2. request' = [request EXCEPT ![t] = r] /\ UNCHANGED <<told, pages, index, overtaken, late>>
  BY DEF Save, history
<1> HIDE DEF r
<1>3. \A s \in Tabs : request'[s] = IF s = t THEN r ELSE request[s]
  BY <1>2 DEF CacheInv, TypeOK
<1>4. /\ version' \in [Users -> Versions]
      /\ ToldIsPast'
      /\ \A w \in Users : version[w] <= version'[w]
  BY <1>2, NewVersion DEF Save
<1>5. TypeOK'
  BY <1>1, <1>2, <1>4 DEF CacheInv, TypeOK
<1>6. FirstKeyIsFresh' /\ Indexed'
  BY <1>2 DEF CacheInv, FirstKeyIsFresh, Shown, Timely, Indexed
<1>7. FillsAreIndexed'
  BY <1>1, <1>2, <1>3 DEF CacheInv, FillsAreIndexed
<1>8. FillsAreFresh'
  BY <1>1, <1>2, <1>3, <1>4, FreshStays, CacheAssumption DEF FillsAreFresh
<1> QED
  BY <1>4, <1>5, <1>6, <1>7, <1>8 DEF CacheInv

LEMMA SaveWithoutClearInv ==
    ASSUME CacheInv, NEW u \in Users, SaveWithoutClear(u)
    PROVE  CacheInv'
<1>1. UNCHANGED <<told, pages, index, request, overtaken, late>>
  BY DEF SaveWithoutClear, history
<1>2. /\ version' \in [Users -> Versions]
      /\ ToldIsPast'
      /\ \A w \in Users : version[w] <= version'[w]
  BY <1>1, NewVersion DEF SaveWithoutClear
<1>3. FillsAreFresh'
  BY <1>1, <1>2, FreshStays, CacheAssumption DEF FillsAreFresh
<1> QED
  BY <1>1, <1>2, <1>3
     DEF CacheInv, TypeOK, FirstKeyIsFresh, Shown, Timely, Indexed, FillsAreIndexed

\* What ClearCache does to the lists of the caller, and to nobody else's: the one
\* under the first key of the index goes, and no list or index comes.
LEMMA Cleared ==
    ASSUME CacheInv, NEW t \in Tabs, ClearCache(t)
    PROVE  /\ pages' \in [Users -> [Keys -> {None} \cup Versions]]
           /\ index' \in [Users -> {None} \cup Index]
           /\ \A w \in Users \ {UserOf[t]} : pages'[w] = pages[w] /\ index'[w] = index[w]
           /\ \A k \in Keys : pages'[UserOf[t]][k] \in {None, pages[UserOf[t]][k]}
           /\ index'[UserOf[t]] \in {None, index[UserOf[t]]}
           /\ index[UserOf[t]] # None => pages'[UserOf[t]][index[UserOf[t]].first] = None
<1> DEFINE u == UserOf[t]
           first == index[u].first
<1>1. u \in Users
  BY CacheAssumption
<1>2. CASE index[u] = None /\ UNCHANGED <<pages, index>>
  BY <1>1, <1>2 DEF CacheInv, TypeOK
<1>3. CASE /\ index[u] # None
           /\ pages' = [pages EXCEPT ![u][first] = None]
           /\ index' = [index EXCEPT ![u] = IF @.self THEN None ELSE @]
  <2>1. first \in Keys
    BY <1>1, <1>3 DEF CacheInv, TypeOK, Index
  <2>2. \A w \in Users, k \in Keys :
           pages'[w][k] = IF w = u /\ k = first THEN None ELSE pages[w][k]
    BY <1>1, <1>3, <2>1 DEF CacheInv, TypeOK
  <2>3. /\ pages' \in [Users -> [Keys -> {None} \cup Versions]]
        /\ \A w \in Users \ {u} : pages'[w] = pages[w]
    BY <1>1, <1>3, <2>1 DEF CacheInv, TypeOK
  <2>4. /\ index' \in [Users -> {None} \cup Index]
        /\ \A w \in Users \ {u} : index'[w] = index[w]
        /\ index'[u] \in {None, index[u]}
    BY <1>1, <1>3 DEF CacheInv, TypeOK
  <2> QED
    BY <1>1, <2>1, <2>2, <2>3, <2>4
<1> QED
  BY <1>2, <1>3 DEF ClearCache

\* The lists of the user that are on their way into the cache may now be too old, or
\* in no index: they are overtaken.
LEMMA ClearInv ==
    ASSUME CacheInv, NEW t \in Tabs, ClearCache(t)
    PROVE  CacheInv'
<1> DEFINE u == UserOf[t]
<1>1. request[t] # None /\ request[t].pc = "saved" /\ u \in Users
  BY CacheAssumption DEF ClearCache
<1>2. /\ request' = [request EXCEPT ![t] = None]
      /\ UNCHANGED <<version, late>>
      /\ overtaken' = overtaken \cup {s \in Tabs :
            UserOf[s] = u /\ request[s] # None /\ request[s].pc \in {"filling", "read"}}
  BY DEF ClearCache, Overtake
<1>3. \A s \in Tabs : request'[s] = IF s = t THEN None ELSE request[s]
  BY <1>2 DEF CacheInv, TypeOK
<1>4. told' = [told EXCEPT ![u] = version[u]] \/ told' = told
  BY DEF ClearCache
<1>5. \A w \in Users : told'[w] = told[w] \/ (w = u /\ told'[w] = version[w])
  BY <1>1, <1>4 DEF CacheInv, TypeOK
<1>6. /\ pages' \in [Users -> [Keys -> {None} \cup Versions]]
      /\ index' \in [Users -> {None} \cup Index]
      /\ \A w \in Users \ {u} : pages'[w] = pages[w] /\ index'[w] = index[w]
      /\ \A k \in Keys : pages'[u][k] \in {None, pages[u][k]}
      /\ index'[u] \in {None, index[u]}
      /\ index[u] # None => pages'[u][index[u].first] = None
  BY Cleared
<1>7. TypeOK'
  BY <1>1, <1>2, <1>4, <1>6 DEF CacheInv, TypeOK
<1>8. FirstKeyIsFresh'
  BY <1>2, <1>5, <1>6 DEF CacheInv, FirstKeyIsFresh, Shown, Timely
<1>9. Indexed'
  <2>1. ASSUME OneKey(u), NEW k \in Keys PROVE ~Timely(u, k)'
    BY <1>1, <1>2, <1>6, <2>1 DEF CacheInv, Indexed, Timely
  <2>2. index'[u] # None => index'[u].first \in KeysOf[u]
    BY <1>1, <1>6 DEF CacheInv, Indexed
  <2> QED
    BY <1>2, <1>6, <2>1, <2>2 DEF CacheInv, Indexed, Timely
<1>10. ToldIsPast'
  <2>1. \A w \in Users : version[w] \in Nat
    BY CacheAssumption DEF CacheInv, TypeOK, Versions
  <2> QED
    BY <1>2, <1>5, <2>1 DEF CacheInv, ToldIsPast
<1>11. FillsAreIndexed' /\ FillsAreFresh'
  <2>1. ASSUME NEW s \in Tabs, request'[s] # None, request'[s].pc \in {"filling", "read"}
        PROVE  /\ request'[s] = request[s]
               /\ UserOf[s] \in Users
               /\ s \notin overtaken' => UserOf[s] # u /\ s \notin overtaken
    BY <1>2, <1>3, <2>1, CacheAssumption
  <2>2. FillsAreIndexed'
    BY <1>6, <2>1 DEF CacheInv, FillsAreIndexed
  <2>3. FillsAreFresh'
    BY <1>2, <1>5, <2>1 DEF CacheInv, FillsAreFresh
  <2> QED
    BY <2>2, <2>3
<1> QED
  BY <1>7, <1>8, <1>9, <1>10, <1>11 DEF CacheInv

LEMMA ExpireInv ==
    ASSUME CacheInv, NEW u \in Users, NEW k \in Keys, Expire(u, k)
    PROVE  CacheInv'
<1>1. /\ pages' = [pages EXCEPT ![u][k] = None]
      /\ UNCHANGED <<version, told, index, request, overtaken, late>>
  BY DEF Expire, history
<1>2. \A w \in Users, l \in Keys : pages'[w][l] \in {None, pages[w][l]}
  BY <1>1 DEF CacheInv, TypeOK
<1>3. TypeOK'
  BY <1>1 DEF CacheInv, TypeOK
<1>4. FirstKeyIsFresh'
  <2>1. ASSUME NEW w \in Users, index[w] # None
        PROVE  index[w].first \in Keys
    BY <2>1 DEF CacheInv, TypeOK, Index
  <2> QED
    BY <1>1, <1>2, <2>1 DEF CacheInv, FirstKeyIsFresh, Shown, Timely
<1>5. Indexed'
  BY <1>1, <1>2 DEF CacheInv, Indexed, Timely
<1>6. FillsAreIndexed' /\ FillsAreFresh' /\ ToldIsPast'
  BY <1>1 DEF CacheInv, FillsAreIndexed, FillsAreFresh, ToldIsPast
<1> QED
  BY <1>3, <1>4, <1>5, <1>6 DEF CacheInv

LEMMA RestartInv == CacheInv /\ Restart => CacheInv'
BY DEF CacheInv, Restart, TypeOK, FirstKeyIsFresh, Shown, Timely, Indexed, FillsAreIndexed,
       FillsAreFresh, ToldIsPast

LEMMA StutterInv == CacheInv /\ UNCHANGED vars => CacheInv'
BY DEF CacheInv, vars, TypeOK, FirstKeyIsFresh, Shown, Timely, Indexed, FillsAreIndexed,
       FillsAreFresh, ToldIsPast

\* The inductive invariant of the list cache, however many requests a user makes at a
\* time: but for those that ClearCache has overtaken, the list under the first key of an
\* index, and every answer on its way into the cache, is from after the last change its
\* user was told of, and the lists of a user who asks for one only are under that key.
THEOREM CacheInvariant == Spec => []CacheInv
<1>1. CacheInv /\ [Next]_vars => CacheInv'
  BY MissesInv, ReadsInv, CommitsInv, FailsInv, SaveInv, ClearInv,
     SaveWithoutClearInv, ExpireInv, RestartInv, StutterInv
     DEF Next
<1> QED
  BY <1>1, InitInv, PTL DEF Spec

\* Whatever lists a user asks for, and however many at a time, the one under the first
\* key of their index is never older than the last change they were told of, unless it
\* was stored by a request that ClearCache had overtaken.
THEOREM FirstListIsFresh == Spec => []FirstKeyIsFresh
<1>1. CacheInv => FirstKeyIsFresh
  BY DEF CacheInv
<1> QED
  BY <1>1, CacheInvariant, PTL

\* A user who asks for one list only, and who was told of a change to their playlists,
\* is never shown an older list, however many requests they and the others make at a
\* time, unless a request that ClearCache had overtaken stored it.
THEOREM UsersSeeTheirChanges == Spec => []OwnChangesAreListed
<1>1. CacheInv => OwnChangesAreListed
  BY DEF CacheInv, FirstKeyIsFresh, Shown, Timely, Indexed, OwnChangesAreListed
<1> QED
  BY <1>1, CacheInvariant, PTL

------------------------------------------------------------------------------
(* The list under the first key is a ListView *)

LEMMA InitView == Init => View!Init
BY DEF Init, View!Init, Shown

\* A step that changes neither what holds nor what users were told, and after which
\* no list is under a first key that was not there before, is one that forgets.
LEMMA LosesOnly ==
    ASSUME UNCHANGED <<version, told>>,
           \A w \in Users : Shown'[w] \in {None, Shown[w]}
    PROVE  View!Forget
<1> DEFINE U == {w \in Users : Shown'[w] = None}
<1>1. Shown' = [w \in Users |-> Shown'[w]]
  BY DEF Shown
<1>2. Shown' = [w \in Users |-> IF w \in U THEN None ELSE Shown[w]]
  BY <1>1
<1>3. U \in SUBSET Users
  OBVIOUS
<1> QED
  BY <1>2, <1>3 DEF View!Forget

LEMMA MissesView ==
    ASSUME CacheInv, NEW t \in Tabs, NEW k \in KeysOf[UserOf[t]], ListMisses(t, k)
    PROVE  View!Forget
<1> DEFINE u == UserOf[t]
           i == IF index[u] = None THEN [first |-> k, self |-> FALSE]
                ELSE [index[u] EXCEPT !.self = TRUE]
<1>1. u \in Users
  BY CacheAssumption
<1>2. i.first = IF index[u] = None THEN k ELSE index[u].first
  BY <1>1 DEF CacheInv, TypeOK, Index
<1>3. index' = [index EXCEPT ![u] = i] /\ pages[u][k] = None
  BY DEF ListMisses
<1> HIDE DEF i
<1>4. UNCHANGED <<version, told, pages, late>>
  BY DEF ListMisses, history
<1>5. index'[u] = i /\ \A v \in Users \ {u} : index'[v] = index[v]
  BY <1>1, <1>3 DEF CacheInv, TypeOK
<1>6. \A w \in Users : Shown'[w] \in {None, Shown[w]}
  BY <1>2, <1>3, <1>4, <1>5 DEF Shown, Timely
<1> QED
  BY <1>4, <1>6, LosesOnly

LEMMA CommitsView ==
    ASSUME CacheInv, NEW t \in Tabs, ListCommits(t)
    PROVE  View!Forget \/ \E u \in Users : View!Show(u)
<1> DEFINE u == UserOf[t]
           k == request[t].key
           v == request[t].version
<1>1. request[t] # None /\ request[t].pc = "read" /\ u \in Users
  BY CacheAssumption DEF ListCommits
<1>2. k \in Keys /\ v \in Versions /\ (t \notin overtaken => index[u] # None)
  BY <1>1, RequestFields DEF CacheInv, FillsAreIndexed
<1>3. /\ pages' = [pages EXCEPT ![u][k] = v]
      /\ UNCHANGED <<version, told, index>>
      /\ late' = IF t \in overtaken THEN late \cup {<<u, k>>} ELSE late \ {<<u, k>>}
  BY DEF ListCommits
<1>4. \A w \in Users, l \in Keys :
        pages'[w][l] = IF w = u /\ l = k THEN v ELSE pages[w][l]
  BY <1>1, <1>2, <1>3 DEF CacheInv, TypeOK
<1>5. ASSUME NEW w \in Users, index[w] # None PROVE index[w].first \in Keys
  BY <1>5 DEF CacheInv, TypeOK, Index
<1>6. \A w \in Users :
         Shown'[w] = IF w = u /\ index[u] # None /\ index[u].first = k
                     THEN IF t \in overtaken THEN None ELSE v
                     ELSE Shown[w]
  <2>1. v # None
    BY <1>2, NoneAssumption
  <2> QED
    BY <1>1, <1>2, <1>3, <1>4, <1>5, <2>1 DEF Shown, Timely
<1>7. CASE index[u] # None /\ index[u].first = k /\ t \notin overtaken
  <2>1. v \in told[u] .. version[u]
    <3>1. told[u] <= v /\ v <= version[u]
      BY <1>1, <1>7 DEF CacheInv, FillsAreFresh
    <3>2. told[u] \in Nat /\ version[u] \in Nat /\ v \in Nat
      BY <1>1, <1>2, CacheAssumption DEF CacheInv, TypeOK, Versions
    <3> QED
      BY <3>1, <3>2
  <2>2. DOMAIN Shown = Users /\ Shown' = [w \in Users |-> Shown'[w]]
    BY DEF Shown
  <2>3. Shown' = [Shown EXCEPT ![u] = v]
    BY <1>1, <1>6, <1>7, <2>2
  <2>4. View!Show(u)
    BY <1>3, <2>1, <2>3 DEF View!Show
  <2> QED
    BY <1>1, <2>4
<1>8. CASE ~(index[u] # None /\ index[u].first = k /\ t \notin overtaken)
  BY <1>3, <1>6, <1>8, LosesOnly
<1> QED
  BY <1>7, <1>8

LEMMA ClearView ==
    ASSUME CacheInv, NEW t \in Tabs, ClearCache(t)
    PROVE  View!Forget \/ \E u \in Users : View!Tell(u)
<1> DEFINE u == UserOf[t]
<1>1. u \in Users /\ UNCHANGED <<version, late>>
  BY CacheAssumption DEF ClearCache, Overtake
<1>2. /\ \A w \in Users \ {u} : pages'[w] = pages[w] /\ index'[w] = index[w]
      /\ index'[u] \in {None, index[u]}
      /\ index[u] # None => pages'[u][index[u].first] = None
  BY Cleared
<1>3. \A w \in Users : Shown'[w] = IF w = u THEN None ELSE Shown[w]
  BY <1>1, <1>2 DEF Shown, Timely
<1>4. CASE told' = [told EXCEPT ![u] = version[u]]
  <2>1. DOMAIN Shown = Users /\ Shown' = [w \in Users |-> Shown'[w]]
    BY DEF Shown
  <2>2. Shown' = [Shown EXCEPT ![u] = None]
    BY <1>1, <1>3, <2>1
  <2>3. View!Tell(u)
    BY <1>1, <1>4, <2>2 DEF View!Tell
  <2> QED
    BY <1>1, <2>3
<1>5. CASE told' = told
  BY <1>1, <1>3, <1>5, LosesOnly
<1> QED
  BY <1>4, <1>5 DEF ClearCache

LEMMA ExpireView ==
    ASSUME CacheInv, NEW u \in Users, NEW k \in Keys, Expire(u, k)
    PROVE  View!Forget
<1>1. pages' = [pages EXCEPT ![u][k] = None] /\ UNCHANGED <<version, told, index, late>>
  BY DEF Expire, history
<1>2. \A w \in Users, l \in Keys : pages'[w][l] \in {None, pages[w][l]}
  BY <1>1 DEF CacheInv, TypeOK
<1>3. ASSUME NEW w \in Users, index[w] # None PROVE index[w].first \in Keys
  BY <1>3 DEF CacheInv, TypeOK, Index
<1>4. \A w \in Users : Shown'[w] \in {None, Shown[w]}
  BY <1>1, <1>2, <1>3 DEF Shown, Timely
<1> QED
  BY <1>1, <1>4, LosesOnly

LEMMA StepView == CacheInv /\ [Next]_vars => [View!Next]_(View!vars)
<1> SUFFICES ASSUME CacheInv, [Next]_vars PROVE View!Next \/ UNCHANGED View!vars
  OBVIOUS
<1>1. ASSUME NEW t \in Tabs, NEW k \in KeysOf[UserOf[t]], ListMisses(t, k) PROVE View!Next
  BY <1>1, MissesView DEF View!Next
<1>2. ASSUME NEW t \in Tabs, ListCommits(t) PROVE View!Next
  BY <1>2, CommitsView DEF View!Next
<1>3. ASSUME NEW t \in Tabs, ClearCache(t) PROVE View!Next
  BY <1>3, ClearView DEF View!Next
<1>4. ASSUME NEW u \in Users, NEW k \in Keys, Expire(u, k) PROVE View!Next
  BY <1>4, ExpireView DEF View!Next
<1>5. CASE Restart
  <2>1. UNCHANGED <<version, told>> /\ \A w \in Users : Shown'[w] \in {None, Shown[w]}
    BY <1>5 DEF Restart, Shown, Timely
  <2> QED
    BY <2>1, LosesOnly DEF View!Next
<1>6. ASSUME NEW u \in Users,
             SaveWithoutClear(u) \/ \E t \in Tabs : Save(t, u)
      PROVE  View!Next
  <2>1. /\ version' = [version EXCEPT ![u] = @ + 1]
        /\ UNCHANGED <<told, pages, index, late>>
    BY <1>6 DEF SaveWithoutClear, Save, history
  <2>2. View!Change(u)
    BY <2>1 DEF View!Change, Shown, Timely
  <2> QED
    BY <2>2 DEF View!Next
<1>7. CASE UNCHANGED <<version, told, pages, index, late>>
  BY <1>7 DEF View!vars, Shown, Timely
<1> QED
  BY <1>1, <1>2, <1>3, <1>4, <1>5, <1>6, <1>7 DEF Next, vars, history, ListReads, ListFails

\* Whatever lists a user asks for, the one under the first key of their index is
\* replaced only by lists from after the last change they were told of, or by one that
\* comes too late, and forgotten when they are told of the next.
THEOREM ImplementsView == Spec => KeepsView
<1>1. Spec => [][View!Next]_(View!vars)
  BY CacheInvariant, StepView, PTL DEF Spec
<1> QED
  BY <1>1, InitView, PTL DEF Spec, KeepsView, View!Spec

=============================================================================
