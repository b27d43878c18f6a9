--------------------------- MODULE PlaylistSyncSafety ---------------------------
(***************************************************************************)
(* The inductive invariant SyncInv of PlaylistSync, and the safety         *)
(* properties that follow from it.                                         *)
(***************************************************************************)
EXTENDS PlaylistSyncProofs

------------------------------------------------------------------------------
(* What the steps have in common *)

\* The parts of SyncInv about rows, kept by a write to a row that is there.
LEMMA WriteKeepsRows ==
    ASSUME SyncInv, NEW p \in Ids, Present(p), NEW row \in Row,
           row.auto = rows[p].auto,
           rows' = [rows EXCEPT ![p] = row], nextId' = nextId
    PROVE  /\ FreshIds'
           /\ \A q \in Ids : Manual(q) => Manual(q)'
<1>1. \A q \in Ids : rows'[q] = IF q = p THEN row ELSE rows[q]
  BY DEF SyncInv, TypeOK
<1>2. FreshIds'
  BY <1>1 DEF SyncInv, FreshIds, Present
<1>3. \A q \in Ids : Manual(q) => Manual(q)'
  BY <1>1 DEF Manual, Present
<1> QED
  BY <1>2, <1>3

\* The part about deliveries, kept by a step that starts none and changes none.
LEMMA DeliveriesKept ==
    ASSUME SyncInv, \A h \in Handlers : handlers'[h] \in {None, handlers[h]},
           \A q \in Ids : Manual(q) => Manual(q)'
    PROVE  DeliveriesManual'
<1>1. ASSUME NEW h \in Handlers, handlers'[h] # None
      PROVE  Manual(handlers[h].id)'
  <2>1. handlers'[h] = handlers[h] /\ handlers[h] # None
    BY <1>1
  <2>2. handlers[h].id \in Ids /\ Manual(handlers[h].id)
    BY <2>1, DeliveryFields DEF SyncInv, DeliveriesManual
  <2> QED
    BY <2>1, <2>2 DEF Manual, Present
<1> QED
  BY <1>1 DEF DeliveriesManual

\* The parts about sessions, kept by a step that starts none and changes none.
LEMMA SessionsKept ==
    ASSUME SyncInv, \A c \in Clients : clients'[c] \in {None, clients[c]},
           \A q \in Ids : Manual(q) => Manual(q)'
    PROVE  ResetsManual'
<1>1. ASSUME NEW c \in Clients, clients'[c] # None,
             clients'[c].pc \in {"resetting", "replacing"}
      PROVE  Manual(clients[c].id)'
  <2>1. clients'[c] = clients[c] /\ clients[c] # None
    BY <1>1
  <2>2. clients[c].id \in Ids /\ Manual(clients[c].id)
    BY <1>1, <2>1, ResetFields DEF SyncInv, ResetsManual
  <2> QED
    BY <2>1, <2>2 DEF Manual, Present
<1> QED
  BY <1>1 DEF ResetsManual

\* A step that writes no row keeps what SyncInv says of the table.
LEMMA RowsKept ==
    ASSUME SyncInv, UNCHANGED table
    PROVE  /\ FreshIds'
           /\ \A q \in Ids : Manual(q) => Manual(q)'
BY DEF SyncInv, table, FreshIds, Manual, Present

------------------------------------------------------------------------------
(* The batch keeps SyncInv *)

\* A step that touches neither the table nor a delivery nor a session.
LEMMA QuietInv ==
    ASSUME SyncInv, TypeOK', UNCHANGED <<table, handlers, clients>>
    PROVE  SyncInv'
BY RowsKept, DeliveriesKept, SessionsKept DEF SyncInv

LEMMA BatchDiesInv ==
    ASSUME SyncInv, TypeOK', BatchDies
    PROVE  SyncInv'
<1>1. \A h \in Handlers : handlers'[h] \in {None, handlers[h]}
  BY DEF BatchDies
<1>2. \A c \in Clients : clients'[c] \in {None, clients[c]}
  BY DEF BatchDies
<1> QED
  BY <1>1, <1>2, RowsKept, DeliveriesKept, SessionsKept DEF SyncInv, BatchDies

\* A new delivery is of a row that passed the guard.
LEMMA ConsumeInv ==
    ASSUME SyncInv, TypeOK', NEW h \in Handlers, NEW p \in Ids, ConsumeDiff(h, p)
    PROVE  SyncInv'
<1>1. CASE Synchronizable(p) /\ rows[p].medias # Null
  <2>1. handlers' = [handlers EXCEPT ![h] =
          [pc |-> "pulling", id |-> p, url |-> rows[p].url,
           base |-> rows[p].medias, medias |-> rows[p].medias]]
    BY <1>1 DEF ConsumeDiff
  <2>2. UNCHANGED <<table, clients>>
    BY DEF ConsumeDiff
  <2>3. Manual(p)
    BY <1>1 DEF SyncInv, FreshIds, Synchronizable, Manual
  <2>4. \A q \in Ids : Manual(q) => Manual(q)'
    BY <2>2, RowsKept
  <2>5. DeliveriesManual'
    <3>1. ASSUME NEW g \in Handlers, handlers'[g] # None
          PROVE  Manual(handlers[g].id)'
      <4>1. CASE g = h
        <5>1. handlers'[g].id = p
          BY <2>1, <4>1 DEF SyncInv, TypeOK
        <5> QED
          BY <5>1, <2>3, <2>4 DEF Manual, Present
      <4>2. CASE g # h
        <5>1. handlers'[g] = handlers[g]
          BY <2>1, <4>2 DEF SyncInv, TypeOK
        <5>2. handlers[g].id \in Ids /\ Manual(handlers[g].id)
          BY <3>1, <5>1, DeliveryFields DEF SyncInv, DeliveriesManual
        <5> QED
          BY <5>1, <5>2, <2>4 DEF Manual, Present
      <4> QED
        BY <4>1, <4>2
    <3> QED
      BY <3>1 DEF DeliveriesManual
  <2> QED
    BY <2>2, <2>5, RowsKept, SessionsKept DEF SyncInv
<1>2. CASE ~(Synchronizable(p) /\ rows[p].medias # Null)
  BY <1>2, QuietInv DEF ConsumeDiff
<1> QED
  BY <1>1, <1>2

\* What a pull makes of a delivery: nothing, or the same one with a merged list.
LEMMA PullDelivery ==
    ASSUME TypeOK, NEW h \in Handlers, PullSource(h)
    PROVE  LET offered == source[handlers[h].url]
               merged == ApplyDiff(handlers[h].base, DiffWithSource(handlers[h].base, offered))
           IN  /\ handlers[h] # None
               /\ \A g \in Handlers \ {h} : handlers'[g] = handlers[g]
               /\ \/ handlers'[h] = None
                  \/ /\ offered # Down
                     /\ handlers'[h].pc = "saving"
                     /\ handlers'[h].id = handlers[h].id
                     /\ handlers'[h].url = handlers[h].url
                     /\ handlers'[h].base = handlers[h].base
                     /\ handlers'[h].medias = merged
<1> DEFINE offered == source[handlers[h].url]
           merged == ApplyDiff(handlers[h].base, DiffWithSource(handlers[h].base, offered))
<1>1. handlers[h] # None /\ handlers[h] \in Delivery
  BY DeliveryFields DEF PullSource
<1>2. \/ handlers' = [handlers EXCEPT ![h] = None]
      \/ /\ offered # Down
         /\ handlers' = [handlers EXCEPT ![h] = [@ EXCEPT !.pc = "saving", !.medias = merged]]
  BY DEF PullSource
<1> HIDE DEF merged
<1>3. \A g \in Handlers \ {h} : handlers'[g] = handlers[g]
  BY <1>2 DEF TypeOK
<1>4. CASE handlers' = [handlers EXCEPT ![h] = None]
  BY <1>1, <1>3, <1>4 DEF TypeOK, merged
<1>5. CASE /\ offered # Down
           /\ handlers' = [handlers EXCEPT ![h] = [@ EXCEPT !.pc = "saving", !.medias = merged]]
  <2>1. handlers'[h] = [handlers[h] EXCEPT !.pc = "saving", !.medias = merged]
    BY <1>5 DEF TypeOK
  <2>2. /\ handlers'[h].pc = "saving"
        /\ handlers'[h].id = handlers[h].id
        /\ handlers'[h].url = handlers[h].url
        /\ handlers'[h].base = handlers[h].base
        /\ handlers'[h].medias = merged
    BY <1>1, <2>1 DEF Delivery
  <2> QED
    BY <1>1, <1>3, <1>5, <2>2 DEF merged
<1> QED
  BY <1>2, <1>4, <1>5

LEMMA PullInv ==
    ASSUME SyncInv, TypeOK', NEW h \in Handlers, PullSource(h)
    PROVE  SyncInv'
<1>1. UNCHANGED <<table, clients>>
  BY DEF PullSource
<1>2. DeliveriesManual'
  BY <1>1, PullDelivery DEF SyncInv, DeliveriesManual, Manual, Present, table
<1> QED
  BY <1>1, <1>2, RowsKept, SessionsKept DEF SyncInv

LEMMA SaveMergeInv ==
    ASSUME SyncInv, TypeOK', NEW h \in Handlers, SaveMerge(h)
    PROVE  SyncInv'
<1> DEFINE p == handlers[h].id
           row == [rows[p] EXCEPT !.medias = handlers[h].medias]
<1>1. handlers[h] # None /\ p \in Ids /\ handlers[h].medias \in Lists
  BY DeliveryFields DEF SaveMerge, SyncInv
<1>2. \A g \in Handlers : handlers'[g] \in {None, handlers[g]}
  BY DEF SaveMerge, SyncInv, TypeOK
<1>3. \A c \in Clients : clients'[c] \in {None, clients[c]}
  BY DEF SaveMerge
<1>4. FreshIds' /\ \A q \in Ids : Manual(q) => Manual(q)'
  <2>1. CASE Present(p)
    <3>1. row \in Row /\ row.auto = rows[p].auto
      BY <1>1, <2>1, PresentRow DEF SyncInv, Row, MaybeLists
    <3>2. rows' = [rows EXCEPT ![p] = row] /\ nextId' = nextId
      BY <2>1 DEF SaveMerge
    <3> HIDE DEF row
    <3> QED
      BY <1>1, <2>1, <3>1, <3>2, WriteKeepsRows
  <2>2. CASE ~Present(p)
    BY <2>2, RowsKept DEF SaveMerge, table
  <2> QED
    BY <2>1, <2>2
<1> QED
  BY <1>2, <1>3, <1>4, DeliveriesKept, SessionsKept DEF SyncInv

------------------------------------------------------------------------------
(* The requests keep SyncInv *)

\* What SyncInv asks of a session.
GoodSession(s) ==
    s.pc \in {"resetting", "replacing"} => s.id \in Ids /\ Manual(s.id)

\* A step that gives one session a good state and writes no row.
LEMMA SessionInv ==
    ASSUME SyncInv, TypeOK', UNCHANGED <<table, handlers>>,
           NEW c \in Clients, NEW s, s = None \/ GoodSession(s),
           clients' = [clients EXCEPT ![c] = s]
    PROVE  SyncInv'
<1>1. clients'[c] = s /\ \A d \in Clients \ {c} : clients'[d] = clients[d]
  BY DEF SyncInv, TypeOK
<1>2. ResetsManual'
  BY <1>1 DEF SyncInv, ResetsManual, GoodSession, Manual, Present, table
<1> QED
  BY <1>2, RowsKept, DeliveriesKept DEF SyncInv

LEMMA OpenInv ==
    ASSUME SyncInv, TypeOK', NEW c \in Clients, NEW p \in Ids, Open(c, p)
    PROVE  SyncInv'
<1> DEFINE s == [pc |-> "open", id |-> p, row |-> rows[p]]
<1>1. GoodSession(s)
  BY DEF GoodSession
<1>2. clients' = [clients EXCEPT ![c] = s] /\ UNCHANGED <<table, handlers>>
  BY DEF Open, batch
<1> HIDE DEF s
<1> QED
  BY <1>1, <1>2, SessionInv

LEMMA SendPutInv ==
    ASSUME SyncInv, TypeOK', NEW c \in Clients, NEW kind \in {"put", "light"},
           SendPut(c, kind)
    PROVE  SyncInv'
<1> DEFINE p == clients[c].id
<1>1. PICK row \in Edits(clients[c].row, kind) :
        clients' = [clients EXCEPT ![c] =
          [pc |-> kind, id |-> p, row |-> row,
           loaded |-> [url |-> rows[p].url, enabled |-> rows[p].enabled]]]
  BY DEF SendPut
<1> DEFINE s == [pc |-> kind, id |-> p, row |-> row,
                 loaded |-> [url |-> rows[p].url, enabled |-> rows[p].enabled]]
<1>2. GoodSession(s)
  BY DEF GoodSession
<1>3. clients' = [clients EXCEPT ![c] = s] /\ UNCHANGED <<table, handlers>>
  BY <1>1 DEF SendPut, batch
<1> HIDE DEF s
<1> QED
  BY <1>2, <1>3, SessionInv

LEMMA AskDiffInv ==
    ASSUME SyncInv, TypeOK', NEW c \in Clients, AskDiff(c)
    PROVE  SyncInv'
<1>1. UNCHANGED <<table, handlers>>
  BY DEF AskDiff, batch
<1>2. PICK new, removed :
        clients' = [clients EXCEPT ![c] =
          [pc |-> "diff", id |-> clients[c].id, row |-> clients[c].row,
           new |-> new, removed |-> removed]]
  BY DEF AskDiff
<1> DEFINE s == [pc |-> "diff", id |-> clients[c].id, row |-> clients[c].row,
                 new |-> new, removed |-> removed]
<1>3. GoodSession(s)
  BY DEF GoodSession
<1>4. clients' = [clients EXCEPT ![c] = s]
  BY <1>2
<1> HIDE DEF s
<1> QED
  BY <1>1, <1>3, <1>4, SessionInv

\* What AcceptMerge makes of a session.
LEMMA AcceptSession ==
    ASSUME NEW c \in Clients, AcceptMerge(c)
    PROVE  LET copy == clients[c].row
           IN  \E loaded : clients' = [clients EXCEPT ![c] =
                 [pc |-> "put", id |-> clients[c].id,
                  row |-> [copy EXCEPT !.medias = AcceptDiff(copy.medias, clients[c])],
                  loaded |-> loaded]]
BY DEF AcceptMerge

LEMMA AcceptInv ==
    ASSUME SyncInv, TypeOK', NEW c \in Clients, AcceptMerge(c)
    PROVE  SyncInv'
<1> DEFINE copy == clients[c].row
           row == [copy EXCEPT !.medias = AcceptDiff(copy.medias, clients[c])]
<1>1. PICK loaded : clients' = [clients EXCEPT ![c] =
                [pc |-> "put", id |-> clients[c].id, row |-> row, loaded |-> loaded]]
  BY AcceptSession
<1> HIDE DEF row
<1> DEFINE s == [pc |-> "put", id |-> clients[c].id, row |-> row, loaded |-> loaded]
<1>2. GoodSession(s)
  BY DEF GoodSession
<1>3. clients' = [clients EXCEPT ![c] = s] /\ UNCHANGED <<table, handlers>>
  BY <1>1 DEF AcceptMerge, batch
<1> HIDE DEF s
<1> QED
  BY <1>2, <1>3, SessionInv

LEMMA CloseInv ==
    ASSUME SyncInv, TypeOK', NEW c \in Clients, CloseDialog(c)
    PROVE  SyncInv'
<1> DEFINE s == [pc |-> "open", id |-> clients[c].id, row |-> clients[c].row]
<1>1. GoodSession(s)
  BY DEF GoodSession
<1>2. clients' = [clients EXCEPT ![c] = s] /\ UNCHANGED <<table, handlers>>
  BY DEF CloseDialog, batch
<1> HIDE DEF s
<1> QED
  BY <1>1, <1>2, SessionInv

LEMMA SynkAsyncInv ==
    ASSUME SyncInv, TypeOK', NEW c \in Clients, NEW p \in Ids, SynkAsync(c, p)
    PROVE  SyncInv'
<1> DEFINE s == [pc |-> "resetting", id |-> p, url |-> rows[p].url,
                 medias |-> rows[p].medias]
<1>1. Manual(p)
  BY DEF SynkAsync, Synchronizable, SyncInv, FreshIds, Manual
<1>2. GoodSession(s)
  BY <1>1 DEF GoodSession
<1>3. clients' = [clients EXCEPT ![c] = s] /\ UNCHANGED <<table, handlers>>
  BY DEF SynkAsync, batch
<1> HIDE DEF s
<1> QED
  BY <1>2, <1>3, SessionInv

LEMMA PullResetInv ==
    ASSUME SyncInv, TypeOK', NEW c \in Clients, PullReset(c)
    PROVE  SyncInv'
<1>1. UNCHANGED <<table, handlers>>
  BY DEF PullReset, batch
<1>2. CASE clients' = [clients EXCEPT ![c] = None]
  BY <1>1, <1>2, SessionInv
<1>3. ASSUME NEW list,
             clients' = [clients EXCEPT ![c] =
               [pc |-> "replacing", id |-> clients[c].id,
                url |-> clients[c].url, medias |-> list]]
      PROVE  SyncInv'
  <2> DEFINE s == [pc |-> "replacing", id |-> clients[c].id,
                   url |-> clients[c].url, medias |-> list]
  <2>1. clients[c] # None /\ clients[c].pc = "resetting"
    BY DEF PullReset
  <2>2. clients[c].id \in Ids /\ Manual(clients[c].id)
    BY <2>1, ResetFields DEF SyncInv, ResetsManual
  <2>3. GoodSession(s)
    BY <2>2 DEF GoodSession
  <2> HIDE DEF s
  <2>4. clients' = [clients EXCEPT ![c] = s]
    BY <1>3 DEF s
  <2> QED
    BY <1>1, <2>3, <2>4, SessionInv
<1> QED
  BY <1>2, <1>3, PullResetSession DEF SyncInv

LEMMA LeaveInv ==
    ASSUME SyncInv, TypeOK', NEW c \in Clients, Leave(c)
    PROVE  SyncInv'
BY SessionInv DEF Leave, batch

LEMMA SaveResetInv ==
    ASSUME SyncInv, TypeOK', NEW c \in Clients, SaveReset(c)
    PROVE  SyncInv'
<1> DEFINE p == clients[c].id
           row == [rows[p] EXCEPT !.medias = clients[c].medias]
<1>1. /\ clients[c] # None
      /\ clients[c].pc = "replacing"
      /\ UNCHANGED <<nextId, handlers>>
  BY DEF SaveReset, batch
<1>2. p \in Ids /\ clients[c].medias \in MaybeLists
  BY <1>1, ResetFields DEF SyncInv
<1>3. \A d \in Clients : clients'[d] \in {None, clients[d]}
  BY DEF SaveReset, SyncInv, TypeOK
<1>4. FreshIds' /\ \A q \in Ids : Manual(q) => Manual(q)'
  <2>1. CASE Present(p)
    <3>1. row \in Row /\ row.auto = rows[p].auto
      BY <1>2, <2>1, PresentRow DEF SyncInv, Row
    <3>2. rows' = [rows EXCEPT ![p] = row]
      BY <2>1 DEF SaveReset
    <3> HIDE DEF row
    <3> QED
      BY <1>1, <1>2, <2>1, <3>1, <3>2, WriteKeepsRows
  <2>2. CASE ~Present(p)
    BY <2>2, RowsKept DEF SaveReset, table
  <2> QED
    BY <2>1, <2>2
<1> QED
  BY <1>1, <1>3, <1>4, DeliveriesKept, SessionsKept DEF SyncInv

\* A PUT does not touch the auto flag.
LEMMA SavePutInv ==
    ASSUME SyncInv, TypeOK', NEW c \in Clients, SavePut(c)
    PROVE  SyncInv'
<1> DEFINE p == clients[c].id
           sent == clients[c].row
<1>1. clients[c] # None /\ clients[c].pc \in {"put", "light"} /\ UNCHANGED <<nextId, handlers>>
  BY DEF SavePut, batch
<1>2. p \in Ids /\ sent \in Row
  BY <1>1, CopyFields DEF SyncInv
<1>3. FreshIds' /\ \A q \in Ids : Manual(q) => Manual(q)'
  <2>1. CASE Present(p)
    <3>1. PICK u \in Urls, e \in BOOLEAN, list \in {rows[p].medias, clients[c].row.medias} :
            /\ list \in MaybeLists
            /\ rows' = [rows EXCEPT ![p] =
                 [url |-> u, auto |-> rows[p].auto, enabled |-> e, medias |-> list]]
      BY <2>1, SavePutRow DEF SyncInv
    <3> DEFINE row == [url |-> u, auto |-> rows[p].auto, enabled |-> e, medias |-> list]
    <3>2. row \in Row /\ row.auto = rows[p].auto
      BY <1>2, <2>1, <3>1, PresentRow, RowFields DEF SyncInv, Row
    <3>3. rows' = [rows EXCEPT ![p] = row]
      BY <3>1
    <3> HIDE DEF row
    <3> QED
      BY <1>1, <1>2, <2>1, <3>2, <3>3, WriteKeepsRows
  <2>2. CASE ~Present(p)
    BY <2>2, <1>1, RowsKept DEF SavePut, table
  <2> QED
    BY <2>1, <2>2
<1> DEFINE s == [pc |-> "open", id |-> p, row |-> sent]
<1>4. clients'[c] = s /\ \A d \in Clients \ {c} : clients'[d] = clients[d]
  BY DEF SavePut, SyncInv, TypeOK
<1>5. ResetsManual'
  <2>1. ASSUME NEW d \in Clients, clients'[d] # None,
               clients'[d].pc \in {"resetting", "replacing"}
        PROVE  Manual(clients[d].id)'
    <3>1. clients'[d] = clients[d]
      BY <1>4, <2>1
    <3>2. clients[d].id \in Ids /\ Manual(clients[d].id)
      BY <2>1, <3>1, ResetFields DEF SyncInv, ResetsManual
    <3> QED
      BY <1>3, <3>1, <3>2 DEF Manual, Present
  <2> QED
    BY <2>1 DEF ResetsManual
<1>6. \A h \in Handlers : handlers'[h] \in {None, handlers[h]}
  BY <1>1
<1> QED
  BY <1>3, <1>5, <1>6, DeliveriesKept DEF SyncInv

LEMMA DeleteInv ==
    ASSUME SyncInv, TypeOK', NEW p \in Ids, Delete(p)
    PROVE  SyncInv'
<1>1. \A q \in Ids : rows'[q] = IF q = p THEN None ELSE rows[q]
  BY DEF Delete, SyncInv, TypeOK
<1>2. UNCHANGED <<nextId, handlers, clients>>
  BY DEF Delete, batch
<1>3. FreshIds'
  BY <1>1, <1>2 DEF SyncInv, FreshIds, Present
<1>4. \A q \in Ids : Manual(q) => Manual(q)'
  BY <1>1, <1>2 DEF Manual, Present
<1> QED
  BY <1>2, <1>3, <1>4, DeliveriesKept, SessionsKept DEF SyncInv

\* The new row of an import, at the next id, holds what a source serves.
LEMMA ImportRow ==
    ASSUME SyncInv, NEW u \in Urls, ImportFromUrl(u)
    PROVE  /\ nextId \in Ids
           /\ rows[nextId] = None
           /\ nextId' = nextId + 1
           /\ \E list \in MaybeLists :
                /\ Tidy(list)
                /\ rows' = [rows EXCEPT ![nextId] =
                     [url |-> u, auto |-> TRUE, enabled |-> TRUE, medias |-> list]]
<1>1. nextId \in Ids
  BY SyncAssumption DEF ImportFromUrl, SyncInv, TypeOK, Ids
<1>2. rows[nextId] = None
  BY <1>1 DEF SyncInv, FreshIds, Present, Ids
<1>3. source[u] \in MaybeLists /\ Tidy(source[u])
  BY ServedList DEF ImportFromUrl, ServesList, SyncInv
<1> DEFINE list == IF source[u] = {} THEN Null ELSE source[u]
<1>4. list \in MaybeLists /\ Tidy(list)
  BY <1>3 DEF Tidy, OrEmpty, Twice, UrlsOf, MaybeLists
<1>5. rows' = [rows EXCEPT ![nextId] =
                [url |-> u, auto |-> TRUE, enabled |-> TRUE, medias |-> list]]
  BY DEF ImportFromUrl
<1> HIDE DEF list
<1> QED
  BY <1>1, <1>2, <1>4, <1>5 DEF ImportFromUrl

LEMMA ImportInv ==
    ASSUME SyncInv, TypeOK', NEW u \in Urls, ImportFromUrl(u)
    PROVE  SyncInv'
<1>1. PICK list \in MaybeLists :
        rows' = [rows EXCEPT ![nextId] =
          [url |-> u, auto |-> TRUE, enabled |-> TRUE, medias |-> list]]
  BY ImportRow
<1> DEFINE row == [url |-> u, auto |-> TRUE, enabled |-> TRUE, medias |-> list]
<1>2. nextId \in Ids /\ rows[nextId] = None /\ nextId' = nextId + 1
  BY ImportRow
<1>3. \A q \in Ids : rows'[q] = IF q = nextId THEN row ELSE rows[q]
  BY <1>1, <1>2 DEF SyncInv, TypeOK
<1> HIDE DEF row
<1>4. FreshIds'
  BY <1>2, <1>3 DEF SyncInv, FreshIds, Present, Ids
<1>5. \A q \in Ids : Manual(q) => Manual(q)'
  BY <1>2, <1>3 DEF Manual, Present, Ids
<1>6. UNCHANGED <<handlers, clients>>
  BY DEF ImportFromUrl, batch
<1> QED
  BY <1>4, <1>5, <1>6, DeliveriesKept, SessionsKept DEF SyncInv

------------------------------------------------------------------------------
(* SyncInv is an invariant *)

LEMMA InitInv == Init => SyncInv
<1> SUFFICES ASSUME Init PROVE SyncInv
  OBVIOUS
<1>1. FreshIds
  BY SyncAssumption DEF Init, FreshIds, Present, Ids
<1>2. DeliveriesManual /\ ResetsManual
  BY DEF Init, DeliveriesManual, ResetsManual
<1> QED
  BY <1>1, <1>2, InitType DEF SyncInv

LEMMA StepInv == SyncInv /\ [Next]_vars => SyncInv'
<1> SUFFICES ASSUME SyncInv, [Next]_vars PROVE SyncInv'
  OBVIOUS
<1>1. TypeOK'
  BY TypeStep DEF SyncInv
<1>2. CASE StartPass
  BY <1>1, <1>2, QuietInv DEF StartPass
<1>3. ASSUME NEW p \in Ids, ComparePlaylist(p) PROVE SyncInv'
  BY <1>1, <1>3, QuietInv DEF ComparePlaylist
<1>4. ASSUME NEW u \in Urls, SourceChanges(u) PROVE SyncInv'
  BY <1>1, <1>4, QuietInv DEF SourceChanges, batch
<1>5. CASE UNCHANGED vars
  BY <1>1, <1>5, QuietInv DEF vars, batch
<1> QED
  BY <1>1, <1>2, <1>3, <1>4, <1>5, ConsumeInv, PullInv, SaveMergeInv, OpenInv, SendPutInv,
     SavePutInv, DeleteInv, ImportInv, SynkAsyncInv, PullResetInv, SaveResetInv,
     AskDiffInv, AcceptInv, CloseInv, LeaveInv, BatchDiesInv
     DEF Next, Deliver

\* Lists on their way from a source to a row are, in every reachable state, on
\* their way to a row left to the batch.
THEOREM SyncInvariant == Spec => []SyncInv
<1> QED
  BY InitInv, StepInv, PTL DEF Spec

------------------------------------------------------------------------------
(* Rows whose AutoSynchronize is set *)

\* The property AutoRowsChangeByHandOnly of one step.
ByHandOnly ==
    \A p \in Ids :
        /\ Present(p)
        /\ rows[p].auto
        /\ rows'[p] \notin {rows[p], None}
        => \E c \in Clients : /\ clients[c] # None
                             /\ clients[c].id = p
                             /\ clients[c].pc \in {"put", "light"}

LEMMA ByHandStep == SyncInv /\ [Next]_vars => ByHandOnly
<1> SUFFICES ASSUME SyncInv, [Next]_vars,
                    NEW p \in Ids, Present(p), rows[p].auto,
                    rows'[p] \notin {rows[p], None}
             PROVE  \E c \in Clients : /\ clients[c] # None
                                       /\ clients[c].id = p
                                       /\ clients[c].pc \in {"put", "light"}
  BY DEF ByHandOnly
<1>1. ~Manual(p)
  BY DEF Manual
<1>2. ASSUME NEW h \in Handlers, SaveMerge(h) PROVE FALSE
  <2>1. handlers[h] # None /\ Manual(handlers[h].id)
    BY <1>2 DEF SaveMerge, SyncInv, DeliveriesManual
  <2>2. handlers[h].id # p
    BY <1>1, <2>1
  <2> QED
    BY <1>2, <2>2 DEF SaveMerge, SyncInv, TypeOK
<1>3. ASSUME NEW c \in Clients, SaveReset(c) PROVE FALSE
  <2>1. clients[c] # None /\ Manual(clients[c].id)
    BY <1>3 DEF SaveReset, SyncInv, ResetsManual
  <2>2. clients[c].id # p
    BY <1>1, <2>1
  <2> QED
    BY <1>3, <2>2 DEF SaveReset, SyncInv, TypeOK
<1>4. ASSUME NEW c \in Clients, SavePut(c)
      PROVE  /\ clients[c] # None
             /\ clients[c].id = p
             /\ clients[c].pc \in {"put", "light"}
  <2>1. clients[c].id = p
    BY <1>4 DEF SavePut, SyncInv, TypeOK
  <2> QED
    BY <1>4, <2>1 DEF SavePut
<1>5. ASSUME NEW q \in Ids, Delete(q) PROVE FALSE
  BY <1>5 DEF Delete, SyncInv, TypeOK
<1>6. ASSUME NEW u \in Urls, ImportFromUrl(u) PROVE FALSE
  <2>1. nextId # p
    BY <1>6, ImportRow DEF Present
  <2> QED
    BY <1>6, <2>1 DEF ImportFromUrl, SyncInv, TypeOK
<1>7. rows' # rows
  OBVIOUS
<1>8. PICK c \in Clients : SavePut(c)
  BY <1>2, <1>3, <1>5, <1>6, <1>7
     DEF Next, vars, table, Deliver, StartPass, ComparePlaylist, ConsumeDiff, PullSource, Open,
         SendPut, AskDiff, AcceptMerge, CloseDialog, SynkAsync, PullReset, Leave, SourceChanges, BatchDies
<1> QED
  BY <1>4, <1>8

\* No pass, queued event, merge or reset ever writes the medias of a row whose
\* AutoSynchronize is set: only a PUT does.
THEOREM AutoRowsAreLeftAlone == Spec => AutoRowsChangeByHandOnly
<1>1. SyncInv /\ [Next]_vars => [ByHandOnly]_vars
  BY ByHandStep
<1>2. Spec => [][ByHandOnly]_vars
  BY <1>1, SyncInvariant, PTL DEF Spec
<1> QED
  BY <1>2 DEF AutoRowsChangeByHandOnly, ByHandOnly

------------------------------------------------------------------------------
(* Merges match what was pulled *)

\* The property MergesMatchTheirPull of one step.
MatchesPull ==
    \A h \in Handlers :
        /\ handlers[h] # None
        /\ handlers[h].pc = "pulling"
        /\ handlers'[h] # None
        /\ handlers'[h].pc = "saving"
        => UrlsOf(handlers'[h].medias) = UrlsOf(OrEmpty(source[handlers[h].url]))

LEMMA MatchesPullStep ==
    ASSUME CollisionFree(Media)
    PROVE  SyncInv /\ [Next]_vars => MatchesPull
<1> SUFFICES ASSUME SyncInv, [Next]_vars, NEW h \in Handlers,
                    handlers[h] # None, handlers[h].pc = "pulling",
                    handlers'[h] # None, handlers'[h].pc = "saving"
             PROVE  UrlsOf(handlers'[h].medias) = UrlsOf(OrEmpty(source[handlers[h].url]))
  BY DEF MatchesPull
<1> DEFINE offered == source[handlers[h].url]
           merged == ApplyDiff(handlers[h].base, DiffWithSource(handlers[h].base, offered))
<1>1. ASSUME NEW g \in Handlers, NEW p \in Ids, ConsumeDiff(g, p) PROVE FALSE
  BY <1>1 DEF ConsumeDiff, SyncInv, TypeOK
<1>2. ASSUME NEW g \in Handlers, SaveMerge(g) PROVE FALSE
  BY <1>2 DEF SaveMerge, SyncInv, TypeOK
<1>3. PICK g \in Handlers : PullSource(g)
  BY <1>1, <1>2 DEF Next, vars, batch, Deliver, StartPass, ComparePlaylist, Open, SendPut,
     AskDiff, AcceptMerge, CloseDialog, SavePut, Delete, ImportFromUrl, SynkAsync, PullReset, SaveReset, Leave, SourceChanges,
     BatchDies
<1>4. g = h
  BY <1>3 DEF PullSource, SyncInv, TypeOK
<1>5. /\ offered # Down
      /\ handlers' = [handlers EXCEPT ![h] = [@ EXCEPT !.pc = "saving", !.medias = merged]]
  BY <1>3, <1>4 DEF PullSource, SyncInv, TypeOK
<1>6. handlers[h].base \in Lists /\ offered \in MaybeLists
  BY <1>5, DeliveryFields, ServedList DEF SyncInv
<1>7. CollisionFree(handlers[h].base)
  BY <1>6 DEF CollisionFree, Lists
<1>8. UrlsOf(merged) = UrlsOf(OrEmpty(offered))
  BY <1>6, <1>7, MergeMatchesSource
<1> HIDE DEF merged
<1>9. handlers'[h].medias = merged
  BY <1>5, DeliveryFields DEF SyncInv, TypeOK, Delivery
<1> QED
  BY <1>8, <1>9

\* Where Media.Id tells apart what Media.Url tells apart, a merge makes the
\* playlist list exactly the channels that its pull got.
THEOREM MergesAreExact ==
    ASSUME CollisionFree(Media)
    PROVE  Spec => MergesMatchTheirPull
<1>1. SyncInv /\ [Next]_vars => [MatchesPull]_vars
  BY CollisionFree(Media), MatchesPullStep
<1>2. Spec => [][MatchesPull]_vars
  BY <1>1, SyncInvariant, PTL DEF Spec
<1> QED
  BY <1>2 DEF MergesMatchTheirPull, MatchesPull

------------------------------------------------------------------------------
(* PlaylistSync implements PlaylistStore *)

LEMMA InitStore == Init => Store!Init
<1> SUFFICES ASSUME Init PROVE Store!Init
  OBVIOUS
<1>1. Opened = {}
  BY DEF Init, Opened
<1>2. nextId \in 1 .. MaxId + 1 /\ rows \in [Ids -> {None} \cup Row]
  BY InitType DEF TypeOK
<1>3. ASSUME NEW p \in Ids
      PROVE  /\ p >= nextId => rows[p] = None
             /\ p < nextId => rows[p] # None
  BY SyncAssumption DEF Init, Ids
<1> QED
  BY <1>1, <1>2, <1>3
     DEF Store!Init, Store!Ids, Store!Row, Store!MaybeLists, Store!Lists,
         Ids, Row, MaybeLists, Lists

\* A step that writes no row is at most one of Browse.
LEMMA BrowseStep ==
    ASSUME TypeOK', UNCHANGED table
    PROVE  Store!Browse
<1>1. ASSUME NEW c \in Clients, (clients[c] # None)',
             (clients[c].pc \in {"open", "diff", "put", "light"})'
      PROVE  (clients[c].id \in Ids)'
  BY <1>1 DEF TypeOK, Session
<1>2. Opened' \in SUBSET Ids
  BY <1>1 DEF Opened
<1> QED
  BY <1>2 DEF Store!Browse, Store!Ids, Ids, table

\* A step that changes only the medias of a row left to the batch.
LEMMA RefreshStep ==
    ASSUME SyncInv, NEW p \in Ids, Present(p), ~rows[p].auto,
           NEW list \in MaybeLists,
           rows' = [rows EXCEPT ![p].medias = list],
           nextId' = nextId, Opened' = Opened
    PROVE  Store!Refresh(p)
BY DEF Present, Store!Refresh, Store!MaybeLists, Store!Lists, MaybeLists, Lists

LEMMA SaveMergeStore ==
    ASSUME SyncInv, TypeOK', NEW h \in Handlers, SaveMerge(h)
    PROVE  Store!Browse \/ \E p \in Ids : Store!Refresh(p)
<1> DEFINE p == handlers[h].id
<1>1. p \in Ids /\ handlers[h].medias \in MaybeLists /\ Manual(p)
  BY DeliveryFields DEF SaveMerge, SyncInv, DeliveriesManual, MaybeLists
<1>2. nextId' = nextId /\ Opened' = Opened
  BY DEF SaveMerge, Opened
<1>3. CASE Present(p)
  BY <1>1, <1>2, <1>3, RefreshStep DEF SaveMerge, Manual
<1>4. CASE ~Present(p)
  BY <1>4, BrowseStep DEF SaveMerge, table
<1> QED
  BY <1>3, <1>4

LEMMA SaveResetStore ==
    ASSUME SyncInv, TypeOK', NEW c \in Clients, SaveReset(c)
    PROVE  Store!Browse \/ \E p \in Ids : Store!Refresh(p)
<1> DEFINE p == clients[c].id
<1>1. clients[c] # None /\ clients[c].pc = "replacing"
  BY DEF SaveReset
<1>2. p \in Ids /\ clients[c].medias \in MaybeLists /\ Manual(p)
  BY <1>1, ResetFields DEF SyncInv, ResetsManual
<1>3. Opened' = Opened
  BY <1>1 DEF SaveReset, SyncInv, TypeOK, Opened
<1>4. CASE Present(p)
  BY <1>2, <1>3, <1>4, RefreshStep DEF SaveReset, Manual
<1>5. CASE ~Present(p)
  BY <1>5, BrowseStep DEF SaveReset, table
<1> QED
  BY <1>4, <1>5

\* A PUT is an edit of a playlist that its user has open.
LEMMA SavePutStore ==
    ASSUME SyncInv, TypeOK', NEW c \in Clients, SavePut(c)
    PROVE  Store!Browse \/ \E p \in Ids : Store!Edit(p)
<1> DEFINE p == clients[c].id
           sent == clients[c].row
<1>1. clients[c] # None /\ clients[c].pc \in {"put", "light"} /\ nextId' = nextId
  BY DEF SavePut
<1>2. p \in Ids /\ sent \in Row /\ p \in Opened
  BY <1>1, CopyFields DEF SyncInv, Opened
<1>3. Opened' = Opened
  <2>1. /\ clients'[c].id = p /\ clients'[c].pc = "open" /\ clients'[c] # None
        /\ \A d \in Clients \ {c} : clients'[d] = clients[d]
    <3>1. [pc |-> "open", id |-> p, row |-> sent] = clients'[c]
      BY DEF SavePut, SyncInv, TypeOK
    <3>2. clients'[c] \in Session
      BY <1>2, <3>1 DEF Session
    <3> QED
      BY <3>1, <3>2, NoneAssumption DEF SavePut, SyncInv, TypeOK
  <2> QED
    BY <1>1, <2>1 DEF Opened
<1>4. CASE Present(p)
  <2>1. PICK u \in Urls, e \in BOOLEAN, list \in {rows[p].medias, sent.medias} :
          /\ list \in MaybeLists
          /\ rows' = [rows EXCEPT ![p] =
               [url |-> u, auto |-> rows[p].auto, enabled |-> e, medias |-> list]]
    BY <1>4, SavePutRow DEF SyncInv
  <2> DEFINE row == [url |-> u, auto |-> rows[p].auto, enabled |-> e, medias |-> list]
  <2>2. row \in Row /\ row.auto = rows[p].auto
    BY <1>2, <1>4, <2>1, PresentRow, RowFields DEF SyncInv, Row
  <2>3. rows' = [rows EXCEPT ![p] = row]
    BY <2>1
  <2> HIDE DEF row
  <2> QED
    BY <1>1, <1>2, <1>3, <1>4, <2>2, <2>3
       DEF Present, Store!Edit, Store!Row, Store!MaybeLists, Store!Lists,
           Row, MaybeLists, Lists
<1>5. CASE ~Present(p)
  BY <1>1, <1>5, BrowseStep DEF SavePut, table
<1> QED
  BY <1>4, <1>5

LEMMA ImportStore ==
    ASSUME SyncInv, NEW u \in Urls, ImportFromUrl(u)
    PROVE  Store!Create
<1>1. PICK list \in MaybeLists :
        rows' = [rows EXCEPT ![nextId] =
          [url |-> u, auto |-> TRUE, enabled |-> TRUE, medias |-> list]]
  BY ImportRow
<1> DEFINE row == [url |-> u, auto |-> TRUE, enabled |-> TRUE, medias |-> list]
<1>2. row \in Row /\ row.auto /\ row.medias = list
  BY DEF Row
<1>3. rows' = [rows EXCEPT ![nextId] = row]
  BY <1>1
<1> HIDE DEF row
<1>4. nextId \in Ids /\ nextId' = nextId + 1 /\ Opened' = Opened
  BY ImportRow DEF ImportFromUrl, Opened
<1> QED
  BY <1>1, <1>2, <1>3, <1>4
     DEF Store!Create, Store!Row, Store!Ids, Store!MaybeLists, Store!Lists,
         Row, Ids, MaybeLists, Lists

LEMMA DeleteStore ==
    ASSUME NEW p \in Ids, Delete(p)
    PROVE  Store!Remove(p)
BY DEF Delete, Present, Store!Remove, Opened

LEMMA StepStore == SyncInv /\ TypeOK' /\ [Next]_vars => [Store!Next]_(Store!vars)
<1> SUFFICES ASSUME SyncInv, TypeOK', [Next]_vars PROVE Store!Next
  OBVIOUS
<1>1. CASE UNCHANGED table
  BY <1>1, BrowseStep DEF Store!Next
<1>2. ASSUME NEW h \in Handlers, SaveMerge(h) PROVE Store!Next
  BY <1>2, SaveMergeStore DEF Store!Next, Store!Ids, Ids
<1>3. ASSUME NEW c \in Clients, SaveReset(c) PROVE Store!Next
  BY <1>3, SaveResetStore DEF Store!Next, Store!Ids, Ids
<1>4. ASSUME NEW c \in Clients, SavePut(c) PROVE Store!Next
  BY <1>4, SavePutStore DEF Store!Next, Store!Ids, Ids
<1>5. ASSUME NEW u \in Urls, ImportFromUrl(u) PROVE Store!Next
  BY <1>5, ImportStore DEF Store!Next
<1>6. ASSUME NEW p \in Ids, Delete(p) PROVE Store!Next
  BY <1>6, DeleteStore DEF Store!Next, Store!Ids, Ids
<1>7. [Next]_vars => \/ UNCHANGED table
                     \/ \E h \in Handlers : SaveMerge(h)
                     \/ \E c \in Clients : SaveReset(c) \/ SavePut(c)
                     \/ \E u \in Urls : ImportFromUrl(u)
                     \/ \E p \in Ids : Delete(p)
  BY DEF Next, vars, Deliver, StartPass, ComparePlaylist, ConsumeDiff, PullSource, Open,
         SendPut, AskDiff, AcceptMerge, CloseDialog, SynkAsync, PullReset, Leave, SourceChanges, BatchDies
<1> QED
  BY <1>1, <1>2, <1>3, <1>4, <1>5, <1>6, <1>7

\* The batch, the requests and the environment together implement the table of
\* PlaylistStore: creations at fresh ids, edits of open playlists, refreshes of
\* rows left to the batch, and removals.
THEOREM ImplementsStore == Spec => KeepsStorePromises
<1>1. SyncInv => TypeOK
  BY DEF SyncInv
<1>2. Spec => [][Store!Next]_(Store!vars)
  BY <1>1, TypeCorrect, SyncInvariant, StepStore, PTL DEF Spec
<1> QED
  BY <1>2, InitStore, PTL DEF Spec, KeepsStorePromises, Store!Spec

------------------------------------------------------------------------------
(* Deleted rows *)

\* The property DeletedStaysDeleted of one step.
StaysDeleted ==
    \A p \in Ids : p < nextId /\ rows[p] = None => rows'[p] = None

\* It follows from the abstract table: its one write to an absent row is at
\* nextId.
LEMMA StaysDeletedStep ==
    ASSUME TypeOK, [Store!Next]_(Store!vars)
    PROVE  StaysDeleted
<1>1. CASE Store!Create
  BY <1>1 DEF Store!Create, Store!Ids, Ids, StaysDeleted, TypeOK
<1>2. ASSUME NEW p \in Ids, Store!Edit(p) \/ Store!Refresh(p) \/ Store!Remove(p)
      PROVE  StaysDeleted
  BY <1>2 DEF Store!Edit, Store!Refresh, Store!Remove, StaysDeleted, TypeOK
<1>3. CASE Store!Browse \/ UNCHANGED (Store!vars)
  BY <1>3 DEF Store!Browse, Store!vars, StaysDeleted
<1> QED
  BY <1>1, <1>2, <1>3 DEF Store!Next, Store!Ids, Ids

\* A deleted playlist never comes back, whatever had loaded it before.
THEOREM NoResurrection == Spec => DeletedStaysDeleted
<1>1. Spec => [][Store!Next]_(Store!vars)
  BY ImplementsStore, PTL DEF KeepsStorePromises, Store!Spec
<1>2. TypeOK /\ [Next]_vars /\ [Store!Next]_(Store!vars) => [StaysDeleted]_vars
  BY StaysDeletedStep
<1>3. Spec => [][StaysDeleted]_vars
  BY <1>1, <1>2, TypeCorrect, PTL DEF Spec
<1> QED
  BY <1>3 DEF DeletedStaysDeleted, StaysDeleted
=============================================================================
