--------------------------- MODULE PlaylistSyncTidy ---------------------------
(***************************************************************************)
(* What the lists of PlaylistSync look like: no channel gets two versions  *)
(* but by a report on another list than the one it is applied to, and      *)
(* where Media.Id tells apart what Media.Url does a merge keeps the edits  *)
(* that it saw and nothing takes a settled playlist away from its source.  *)
(***************************************************************************)
EXTENDS PlaylistSyncSafety

------------------------------------------------------------------------------
(* What the steps have in common *)

\* A step that writes no row and starts no delivery, and no session either.
LEMMA TidyKept ==
    ASSUME TidyInv, OneVersionPerChannel', misled \subseteq misled',
           \A h \in Handlers : handlers'[h] \in {None, handlers[h]},
           \A c \in Clients : clients'[c] \in {None, clients[c]}
    PROVE  TidyInv'
<1>1. DeliveriesTidy'
  BY DEF TidyInv, DeliveriesTidy
<1>2. SessionsTidy'
  BY DEF TidyInv, SessionsTidy
<1>3. ReportsTidy'
  BY DEF TidyInv, ReportsTidy
<1> QED
  BY <1>1, <1>2, <1>3 DEF TidyInv

\* A step that writes no row keeps the rows tidy.
LEMMA RowsTidy ==
    ASSUME TidyInv, UNCHANGED rows, misled \subseteq misled'
    PROVE  OneVersionPerChannel'
BY DEF TidyInv, OneVersionPerChannel, Present

\* A write of a tidy list keeps the rows tidy.
LEMMA WriteTidy ==
    ASSUME TypeOK, TidyInv, NEW p \in Ids, NEW row, p \notin misled => Tidy(row.medias),
           rows' = [rows EXCEPT ![p] = row], UNCHANGED misled
    PROVE  OneVersionPerChannel'
<1>1. \A q \in Ids : rows'[q] = IF q = p THEN row ELSE rows[q]
  BY DEF TypeOK
<1> QED
  BY <1>1 DEF TidyInv, OneVersionPerChannel, Present

------------------------------------------------------------------------------
(* The batch keeps the lists tidy *)

LEMMA QuietTidy ==
    ASSUME TidyInv, UNCHANGED <<rows, handlers, clients, misled>>
    PROVE  TidyInv'
BY RowsTidy, TidyKept

LEMMA BatchDiesTidy ==
    ASSUME TidyInv, BatchDies
    PROVE  TidyInv'
<1>1. \A h \in Handlers : handlers'[h] \in {None, handlers[h]}
  BY DEF BatchDies
<1>2. UNCHANGED <<rows, clients, misled>>
  BY DEF BatchDies, table
<1> QED
  BY <1>1, <1>2, RowsTidy, TidyKept

\* A new delivery has a copy of the medias of its row.
LEMMA ConsumeTidy ==
    ASSUME SyncInv, TidyInv, NEW h \in Handlers, NEW p \in Ids, ConsumeDiff(h, p)
    PROVE  TidyInv'
<1>1. UNCHANGED <<rows, clients, misled>>
  BY DEF ConsumeDiff, table, environment
<1>2. CASE Synchronizable(p) /\ rows[p].medias # Null
  <2>1. p \notin misled => Tidy(rows[p].medias)
    BY <1>2 DEF TidyInv, OneVersionPerChannel, Synchronizable
  <2>2. handlers' = [handlers EXCEPT ![h] =
          [pc |-> "pulling", id |-> p, url |-> rows[p].url,
           base |-> rows[p].medias, medias |-> rows[p].medias]]
    BY <1>2 DEF ConsumeDiff
  <2>3. DeliveriesTidy'
    BY <1>1, <2>1, <2>2 DEF TidyInv, SyncInv, TypeOK, DeliveriesTidy
  <2>4. SessionsTidy' /\ ReportsTidy'
    BY <1>1 DEF TidyInv, SessionsTidy, ReportsTidy
  <2> QED
    BY <1>1, <2>3, <2>4, RowsTidy DEF TidyInv
<1>3. CASE ~(Synchronizable(p) /\ rows[p].medias # Null)
  BY <1>1, <1>3, QuietTidy DEF ConsumeDiff
<1> QED
  BY <1>2, <1>3

\* The list a delivery is about to save merges a tidy list into a tidy list.
LEMMA PullTidy ==
    ASSUME SyncInv, TidyInv, NEW h \in Handlers, PullSource(h)
    PROVE  TidyInv'
<1> DEFINE offered == source[handlers[h].url]
           merged == ApplyDiff(handlers[h].base, DiffWithSource(handlers[h].base, offered))
<1>1. UNCHANGED <<rows, clients, misled>>
  BY DEF PullSource, table, environment
<1>2. /\ handlers[h] # None
      /\ \A g \in Handlers \ {h} : handlers'[g] = handlers[g]
      /\ \/ handlers'[h] = None
         \/ /\ offered # Down
            /\ handlers'[h].id = handlers[h].id
            /\ handlers'[h].base = handlers[h].base
            /\ handlers'[h].medias = merged
  BY PullDelivery DEF SyncInv
<1>3. handlers[h].id \notin misled => Tidy(handlers[h].base)
  BY <1>2 DEF TidyInv, DeliveriesTidy
<1>4. offered # Down /\ Tidy(handlers[h].base) => Tidy(merged)
  <2> SUFFICES ASSUME offered # Down, Tidy(handlers[h].base) PROVE Tidy(merged)
    OBVIOUS
  <2>1. handlers[h].base \in Lists /\ offered \in MaybeLists /\ Tidy(offered)
    BY <1>2, DeliveryFields, ServedList DEF SyncInv
  <2>2. merged \in Lists /\ Twice(merged) \subseteq Twice(handlers[h].base) \cup Twice(OrEmpty(offered))
    BY <2>1, MergeType, MergeTwice
  <2> HIDE DEF merged, offered
  <2>3. OrEmpty(handlers[h].base) = handlers[h].base /\ OrEmpty(merged) = merged
    BY <2>1, <2>2, MergeAssumption DEF OrEmpty, Lists
  <2> QED
    BY <2>1, <2>2, <2>3 DEF Tidy
<1> HIDE DEF merged
<1>5. DeliveriesTidy'
  BY <1>1, <1>2, <1>3, <1>4 DEF TidyInv, DeliveriesTidy
<1>6. SessionsTidy' /\ ReportsTidy'
  BY <1>1 DEF TidyInv, SessionsTidy, ReportsTidy
<1> QED
  BY <1>1, <1>5, <1>6, RowsTidy DEF TidyInv

LEMMA SaveMergeTidy ==
    ASSUME SyncInv, TidyInv, NEW h \in Handlers, SaveMerge(h)
    PROVE  TidyInv'
<1> DEFINE p == handlers[h].id
           row == [rows[p] EXCEPT !.medias = handlers[h].medias]
<1>1. handlers[h] # None /\ p \in Ids /\ handlers[h].medias \in Lists
  BY DeliveryFields DEF SaveMerge, SyncInv
<1>2. \A g \in Handlers : handlers'[g] \in {None, handlers[g]}
  BY DEF SaveMerge, SyncInv, TypeOK
<1>3. OneVersionPerChannel'
  <2>1. CASE Present(p)
    <3>1. row.medias = handlers[h].medias
      BY <1>1, <2>1, PresentRow DEF SyncInv, Row
    <3>2. p \notin misled => Tidy(row.medias)
      BY <1>1, <3>1 DEF TidyInv, DeliveriesTidy
    <3>3. rows' = [rows EXCEPT ![p] = row] /\ UNCHANGED misled
      BY <2>1 DEF SaveMerge, environment
    <3> HIDE DEF row
    <3> QED
      BY <1>1, <3>2, <3>3, WriteTidy DEF SyncInv
  <2>2. CASE ~Present(p)
    BY <2>2, RowsTidy DEF SaveMerge, environment
  <2> QED
    BY <2>1, <2>2
<1> QED
  BY <1>2, <1>3, TidyKept DEF SaveMerge, environment

------------------------------------------------------------------------------
(* The requests keep the lists tidy *)

\* What TidyInv asks of a session, given the playlists that it exempts.
TidySession(s, exempt) ==
    /\ s.id \notin exempt => IF s.pc \in {"resetting", "replacing"}
                             THEN Tidy(s.medias) ELSE Tidy(s.row.medias)
    /\ s.pc = "diff" => Tidy(s.new)

\* A step that gives one session a tidy list and writes no row.
LEMMA SessionTidy ==
    ASSUME SyncInv, TidyInv, UNCHANGED <<rows, handlers>>, misled \subseteq misled',
           NEW c \in Clients, NEW s, s = None \/ TidySession(s, misled'),
           clients' = [clients EXCEPT ![c] = s]
    PROVE  TidyInv'
<1>1. clients'[c] = s /\ \A d \in Clients \ {c} : clients'[d] = clients[d]
  BY DEF SyncInv, TypeOK
<1>2. SessionsTidy'
  BY <1>1 DEF TidyInv, SessionsTidy, TidySession
<1>3. ReportsTidy'
  BY <1>1 DEF TidyInv, ReportsTidy, TidySession
<1>4. DeliveriesTidy'
  BY DEF TidyInv, DeliveriesTidy
<1> QED
  BY <1>2, <1>3, <1>4, RowsTidy DEF TidyInv

LEMMA OpenTidy ==
    ASSUME SyncInv, TidyInv, NEW c \in Clients, NEW p \in Ids, Open(c, p)
    PROVE  TidyInv'
<1> DEFINE s == [pc |-> "open", id |-> p, row |-> rows[p]]
<1>1. TidySession(s, misled')
  BY DEF Open, TidyInv, OneVersionPerChannel, TidySession, environment
<1>2. clients' = [clients EXCEPT ![c] = s] /\ UNCHANGED <<rows, handlers, misled>>
  BY DEF Open, table, batch, environment
<1> HIDE DEF s
<1> QED
  BY <1>1, <1>2, SessionTidy

LEMMA SendPutTidy ==
    ASSUME SyncInv, TidyInv, NEW c \in Clients, NEW kind \in {"put", "light"},
           SendPut(c, kind)
    PROVE  TidyInv'
<1> DEFINE p == clients[c].id
<1>1. clients[c] # None /\ clients[c].pc = "open"
  BY DEF SendPut
<1>2. clients[c].row \in Row /\ (p \notin misled => Tidy(clients[c].row.medias))
  BY <1>1, CopyFields DEF SyncInv, TidyInv, SessionsTidy
<1>3. PICK row \in Edits(clients[c].row, kind) :
        clients' = [clients EXCEPT ![c] =
          [pc |-> kind, id |-> p, row |-> row,
           loaded |-> [url |-> rows[p].url, enabled |-> rows[p].enabled]]]
  BY DEF SendPut
<1>4. p \notin misled => Tidy(row.medias)
  BY <1>2, EditsTidy
<1> DEFINE s == [pc |-> kind, id |-> p, row |-> row,
                 loaded |-> [url |-> rows[p].url, enabled |-> rows[p].enabled]]
<1>5. TidySession(s, misled')
  BY <1>4 DEF SendPut, TidySession, environment
<1>6. clients' = [clients EXCEPT ![c] = s] /\ UNCHANGED <<rows, handlers, misled>>
  BY <1>3 DEF SendPut, table, batch, environment
<1> HIDE DEF s
<1> QED
  BY <1>5, <1>6, SessionTidy

\* A report adds only what the source has served.
LEMMA AskDiffTidy ==
    ASSUME SyncInv, TidyInv, NEW c \in Clients, AskDiff(c)
    PROVE  TidyInv'
<1> DEFINE copy == clients[c].row
           offered == source[copy.url]
<1>1. /\ clients[c] # None
      /\ clients[c].pc = "open"
      /\ offered # Down
      /\ UNCHANGED <<rows, handlers, misled>>
  BY DEF AskDiff, table, batch, environment
<1>2. PICK q \in Ids :
        LET report == DiffWithSource(rows[q].medias, offered)
        IN  /\ Present(q)
            /\ clients' = [clients EXCEPT ![c] =
                 [pc |-> "diff", id |-> clients[c].id, row |-> copy,
                  new |-> report.new, removed |-> report.removed]]
  BY DEF AskDiff
<1> DEFINE report == DiffWithSource(rows[q].medias, offered)
<1>3. rows[q].medias \in MaybeLists /\ offered \in MaybeLists /\ Tidy(offered)
  BY <1>1, <1>2, CopyFields, PresentRow, RowFields, ServedList DEF SyncInv
<1>4. report.new \in Lists /\ report.new \subseteq OrEmpty(offered)
  BY <1>3, DiffType DEF DiffWithSource, OrEmpty, Without
<1> DEFINE s == [pc |-> "diff", id |-> clients[c].id, row |-> copy,
                 new |-> report.new, removed |-> report.removed]
<1>5. s.new = report.new /\ s.id = clients[c].id /\ s.row = copy /\ s.pc = "diff"
  OBVIOUS
<1>6. clients' = [clients EXCEPT ![c] = s]
  BY <1>2
<1> HIDE DEF s, report, offered
<1>7. Tidy(report.new)
  <2>1. OrEmpty(report.new) = report.new
    BY <1>4, MergeAssumption DEF OrEmpty, Lists
  <2>2. Twice(report.new) \subseteq Twice(OrEmpty(offered))
    BY <1>4, TwiceGrows
  <2> QED
    BY <1>3, <2>1, <2>2 DEF Tidy
<1>8. clients[c].id \notin misled => Tidy(copy.medias)
  BY <1>1 DEF TidyInv, SessionsTidy
<1>9. TidySession(s, misled')
  BY <1>1, <1>5, <1>7, <1>8 DEF TidySession
<1> QED
  BY <1>1, <1>6, <1>9, SessionTidy

\* A report that lists no channel of the copy as new makes none double.
LEMMA AcceptTidy ==
    ASSUME SyncInv, TidyInv, NEW c \in Clients, AcceptMerge(c)
    PROVE  TidyInv'
<1> DEFINE p == clients[c].id
           copy == clients[c].row
           new == clients[c].new
           list == AcceptDiff(copy.medias, clients[c])
           row == [copy EXCEPT !.medias = list]
<1>1. /\ clients[c] # None
      /\ clients[c].pc = "diff"
      /\ UNCHANGED <<rows, handlers>>
      /\ misled \subseteq misled'
      /\ p \notin misled' => p \notin misled /\ UrlsOf(new) \cap UrlsOf(copy.medias) = {}
  BY DEF AcceptMerge, table, batch
<1>2. copy.medias \in Lists /\ new \in Lists /\ copy \in Row
  BY <1>1, ReportFields, CopyFields DEF SyncInv
<1>3. list = Without(copy.medias, clients[c].removed) \cup new
  BY DEF AcceptDiff
<1>4. Without(copy.medias, clients[c].removed) \subseteq copy.medias
  BY DEF Without
<1> DEFINE kept == Without(copy.medias, clients[c].removed)
<1> HIDE DEF kept, list, row
<1>5. row.medias = list /\ list # Null
  BY <1>2, <1>3, <1>4, MergeAssumption DEF row, kept, Row, Lists
<1>6. ASSUME p \notin misled' PROVE Tidy(row.medias)
  <2>1. Tidy(copy.medias) /\ Tidy(new)
    BY <1>1, <1>6 DEF TidyInv, SessionsTidy, ReportsTidy
  <2>2. OrEmpty(copy.medias) = copy.medias /\ OrEmpty(new) = new /\ OrEmpty(list) = list
    BY <1>2, <1>5, MergeAssumption DEF OrEmpty, Lists
  <2>3. UrlsOf(kept) \cap UrlsOf(new) = {} /\ kept \subseteq copy.medias
    BY <1>1, <1>4, <1>6 DEF UrlsOf, kept
  <2>4. Twice(kept \cup new) \subseteq Twice(kept) \cup Twice(new)
    BY <2>3, DisjointTwice
  <2>5. Twice(kept) \subseteq Twice(copy.medias)
    BY <2>3, TwiceGrows
  <2> QED
    BY <1>3, <1>5, <2>1, <2>2, <2>4, <2>5 DEF Tidy, kept
<1>7. PICK loaded : clients' = [clients EXCEPT ![c] =
                [pc |-> "put", id |-> p, row |-> row, loaded |-> loaded]]
  BY AcceptSession DEF row, list
<1> DEFINE s == [pc |-> "put", id |-> p, row |-> row, loaded |-> loaded]
<1>8. TidySession(s, misled')
  BY <1>6 DEF TidySession
<1>9. clients' = [clients EXCEPT ![c] = s]
  BY <1>7
<1> HIDE DEF s
<1> QED
  BY <1>1, <1>8, <1>9, SessionTidy

LEMMA CloseTidy ==
    ASSUME SyncInv, TidyInv, NEW c \in Clients, CloseDialog(c)
    PROVE  TidyInv'
<1> DEFINE s == [pc |-> "open", id |-> clients[c].id, row |-> clients[c].row]
<1>1. TidySession(s, misled')
  BY DEF CloseDialog, TidyInv, SessionsTidy, TidySession, environment
<1>2. clients' = [clients EXCEPT ![c] = s] /\ UNCHANGED <<rows, handlers, misled>>
  BY DEF CloseDialog, table, batch, environment
<1> HIDE DEF s
<1> QED
  BY <1>1, <1>2, SessionTidy

LEMMA SynkAsyncTidy ==
    ASSUME SyncInv, TidyInv, NEW c \in Clients, NEW p \in Ids, SynkAsync(c, p)
    PROVE  TidyInv'
<1> DEFINE s == [pc |-> "resetting", id |-> p, url |-> rows[p].url,
                 medias |-> rows[p].medias]
<1>1. TidySession(s, misled')
  BY DEF SynkAsync, Synchronizable, TidyInv, OneVersionPerChannel, TidySession, environment
<1>2. clients' = [clients EXCEPT ![c] = s] /\ UNCHANGED <<rows, handlers, misled>>
  BY DEF SynkAsync, table, batch, environment
<1> HIDE DEF s
<1> QED
  BY <1>1, <1>2, SessionTidy

LEMMA PullResetTidy ==
    ASSUME SyncInv, TidyInv, NEW c \in Clients, PullReset(c)
    PROVE  TidyInv'
<1>1. UNCHANGED <<rows, handlers, misled>>
  BY DEF PullReset, table, batch, environment
<1>2. CASE clients' = [clients EXCEPT ![c] = None]
  BY <1>1, <1>2, SessionTidy
<1>3. ASSUME NEW list, Tidy(clients[c].medias) => Tidy(list),
             clients' = [clients EXCEPT ![c] =
               [pc |-> "replacing", id |-> clients[c].id,
                url |-> clients[c].url, medias |-> list]]
      PROVE  TidyInv'
  <2> DEFINE s == [pc |-> "replacing", id |-> clients[c].id,
                   url |-> clients[c].url, medias |-> list]
  <2>1. clients[c].id \notin misled => Tidy(list)
    BY <1>3 DEF PullReset, TidyInv, SessionsTidy
  <2>2. TidySession(s, misled')
    BY <1>1, <2>1 DEF TidySession
  <2>3. clients' = [clients EXCEPT ![c] = s]
    BY <1>3
  <2> HIDE DEF s
  <2> QED
    BY <1>1, <2>2, <2>3, SessionTidy
<1> QED
  BY <1>2, <1>3, PullResetSession DEF SyncInv

LEMMA LeaveTidy ==
    ASSUME SyncInv, TidyInv, NEW c \in Clients, Leave(c)
    PROVE  TidyInv'
BY SessionTidy DEF Leave, table, batch, environment

LEMMA SaveResetTidy ==
    ASSUME SyncInv, TidyInv, NEW c \in Clients, SaveReset(c)
    PROVE  TidyInv'
<1> DEFINE p == clients[c].id
           row == [rows[p] EXCEPT !.medias = clients[c].medias]
<1>1. clients[c] # None /\ clients[c].pc = "replacing" /\ UNCHANGED <<handlers, misled>>
  BY DEF SaveReset, batch, environment
<1>2. /\ p \in Ids
      /\ clients[c].medias \in MaybeLists
      /\ p \notin misled => Tidy(clients[c].medias)
  BY <1>1, ResetFields DEF SyncInv, TidyInv, SessionsTidy
<1>3. \A d \in Clients : clients'[d] \in {None, clients[d]}
  BY DEF SaveReset, SyncInv, TypeOK
<1>4. OneVersionPerChannel'
  <2>1. CASE Present(p)
    <3>1. row.medias = clients[c].medias
      BY <1>2, <2>1, PresentRow DEF SyncInv, Row
    <3>2. rows' = [rows EXCEPT ![p] = row]
      BY <2>1 DEF SaveReset
    <3> HIDE DEF row
    <3> QED
      BY <1>1, <1>2, <3>1, <3>2, WriteTidy DEF SyncInv
  <2>2. CASE ~Present(p)
    BY <1>1, <2>2, RowsTidy DEF SaveReset
  <2> QED
    BY <2>1, <2>2
<1> QED
  BY <1>1, <1>3, <1>4, TidyKept

\* A PUT writes the tidy list it was sent.
LEMMA SavePutTidy ==
    ASSUME SyncInv, TidyInv, NEW c \in Clients, SavePut(c)
    PROVE  TidyInv'
<1> DEFINE p == clients[c].id
           sent == clients[c].row
<1>1. /\ clients[c] # None
      /\ clients[c].pc \in {"put", "light"}
      /\ UNCHANGED <<handlers, misled>>
  BY DEF SavePut, batch, environment
<1>2. p \in Ids /\ (p \notin misled => Tidy(sent.medias))
  BY <1>1, CopyFields DEF SyncInv, TidyInv, SessionsTidy
<1>3. OneVersionPerChannel'
  <2>1. CASE Present(p)
    <3>1. PICK u \in Urls, e \in BOOLEAN, list \in {rows[p].medias, clients[c].row.medias} :
            rows' = [rows EXCEPT ![p] =
              [url |-> u, auto |-> rows[p].auto, enabled |-> e, medias |-> list]]
      BY <2>1, SavePutRow DEF SyncInv
    <3> DEFINE row == [url |-> u, auto |-> rows[p].auto, enabled |-> e, medias |-> list]
    <3>2. p \notin misled => Tidy(row.medias)
      BY <1>2, <2>1, <3>1 DEF TidyInv, OneVersionPerChannel
    <3>3. rows' = [rows EXCEPT ![p] = row]
      BY <3>1
    <3> HIDE DEF row
    <3> QED
      BY <1>1, <1>2, <3>2, <3>3, WriteTidy DEF SyncInv
  <2>2. CASE ~Present(p)
    BY <1>1, <2>2, RowsTidy DEF SavePut
  <2> QED
    BY <2>1, <2>2
<1> DEFINE s == [pc |-> "open", id |-> p, row |-> sent]
<1>4. clients'[c] = s /\ \A d \in Clients \ {c} : clients'[d] = clients[d]
  BY DEF SavePut, SyncInv, TypeOK
<1>5. SessionsTidy' /\ ReportsTidy'
  BY <1>1, <1>2, <1>4 DEF TidyInv, SessionsTidy, ReportsTidy
<1>6. DeliveriesTidy'
  BY <1>1 DEF TidyInv, DeliveriesTidy
<1> QED
  BY <1>3, <1>5, <1>6 DEF TidyInv

LEMMA DeleteTidy ==
    ASSUME SyncInv, TidyInv, NEW p \in Ids, Delete(p)
    PROVE  TidyInv'
<1>1. UNCHANGED <<handlers, clients, misled>>
  BY DEF Delete, batch, environment
<1>2. OneVersionPerChannel'
  BY <1>1 DEF Delete, SyncInv, TypeOK, TidyInv, OneVersionPerChannel, Present
<1> QED
  BY <1>1, <1>2, TidyKept

LEMMA ImportTidy ==
    ASSUME SyncInv, TidyInv, NEW u \in Urls, ImportFromUrl(u)
    PROVE  TidyInv'
<1>1. PICK list \in MaybeLists :
        /\ Tidy(list)
        /\ rows' = [rows EXCEPT ![nextId] =
             [url |-> u, auto |-> TRUE, enabled |-> TRUE, medias |-> list]]
  BY ImportRow
<1> DEFINE row == [url |-> u, auto |-> TRUE, enabled |-> TRUE, medias |-> list]
<1>2. Tidy(row.medias) /\ rows' = [rows EXCEPT ![nextId] = row] /\ nextId \in Ids
  BY <1>1, ImportRow
<1> HIDE DEF row
<1>3. OneVersionPerChannel'
  BY <1>2, WriteTidy DEF SyncInv, ImportFromUrl, environment
<1> QED
  BY <1>3, TidyKept DEF ImportFromUrl, batch, environment

------------------------------------------------------------------------------
(* TidyInv is an invariant *)

LEMMA InitTidy == Init => TidyInv
<1> SUFFICES ASSUME Init PROVE TidyInv
  OBVIOUS
<1>1. ASSUME NEW p \in Ids, Present(p) PROVE Tidy(rows[p].medias)
  <2>1. rows[p].medias \in Offers
    BY <1>1 DEF Init, Present
  <2>2. OrEmpty(rows[p].medias) = rows[p].medias
    BY <2>1, SyncAssumption, MergeAssumption DEF OrEmpty, Lists
  <2> QED
    BY <2>1, <2>2 DEF Tidy, OfferedTwice
<1>2. DeliveriesTidy /\ SessionsTidy /\ ReportsTidy
  BY DEF Init, DeliveriesTidy, SessionsTidy, ReportsTidy
<1> QED
  BY <1>1, <1>2 DEF TidyInv, OneVersionPerChannel

LEMMA StepTidy == SyncInv /\ TidyInv /\ [Next]_vars => TidyInv'
<1> SUFFICES ASSUME SyncInv, TidyInv, [Next]_vars PROVE TidyInv'
  OBVIOUS
<1>1. CASE StartPass
  BY <1>1, QuietTidy DEF StartPass, table, environment
<1>2. ASSUME NEW p \in Ids, ComparePlaylist(p) PROVE TidyInv'
  BY <1>2, QuietTidy DEF ComparePlaylist, table, environment
<1>3. ASSUME NEW u \in Urls, SourceChanges(u) PROVE TidyInv'
  BY <1>3, QuietTidy DEF SourceChanges, table, batch
<1>4. CASE UNCHANGED vars
  BY <1>4, QuietTidy DEF vars, table, batch, environment
<1> QED
  BY <1>1, <1>2, <1>3, <1>4, BatchDiesTidy, ConsumeTidy, PullTidy, SaveMergeTidy,
     OpenTidy, SendPutTidy, AskDiffTidy, AcceptTidy, CloseTidy, SavePutTidy, DeleteTidy,
     ImportTidy, SynkAsyncTidy, PullResetTidy, SaveResetTidy, LeaveTidy
     DEF Next, Deliver

\* Every list on its way to a row, and every list in a row, has two versions only of
\* channels that a source lists twice, unless a user has applied to a copy of the
\* playlist a report that was not on that copy.
THEOREM TidyInvariant == Spec => []TidyInv
BY InitTidy, StepTidy, SyncInvariant, PTL DEF Spec

\* However merges, resets, PUTs of old copies and reports of the diff dialog
\* interleave, no playlist ever lists two versions of a channel that no source lists
\* twice, but one to a copy of which a user has applied a report on another list.
THEOREM NoTwoVersions == Spec => []OneVersionPerChannel
<1>1. TidyInv => OneVersionPerChannel
  BY DEF TidyInv
<1> QED
  BY <1>1, TidyInvariant, PTL

------------------------------------------------------------------------------
(* Edits outlive merges that saw them *)

\* The property MergeKeepsEditsItSaw of one step.
KeepsEditsItSaw ==
    \A h \in Handlers :
        SavesMerge(h) /\ rows[handlers[h].id].medias = handlers[h].base
            => EditsSurvive(h)

LEMMA KeepsEditsStep == SyncInv /\ DeliveriesKeepVersions /\ [Next]_vars => KeepsEditsItSaw
<1> SUFFICES ASSUME SyncInv, DeliveriesKeepVersions, [Next]_vars, NEW h \in Handlers, SavesMerge(h),
                    rows[handlers[h].id].medias = handlers[h].base
             PROVE  EditsSurvive(h)
  BY DEF KeepsEditsItSaw
<1> DEFINE p == handlers[h].id
<1>1. /\ handlers[h] # None
      /\ handlers[h].pc = "saving"
      /\ handlers'[h] = None
      /\ rows' # rows
  BY DEF SavesMerge
<1>2. p \in Ids /\ handlers[h].base \in Lists /\ handlers[h].medias \in Lists
  BY <1>1, DeliveryFields DEF SyncInv
<1>3. PICK g \in Handlers : SaveMerge(g)
  <2>1. ~UNCHANGED handlers
    BY <1>1
  <2> QED
    BY <1>1, <2>1 DEF Next, vars, table, batch, Deliver, StartPass, ComparePlaylist,
       ConsumeDiff, PullSource, Open, SendPut, AskDiff, AcceptMerge, CloseDialog, SavePut, Delete, ImportFromUrl, SynkAsync,
       PullReset, SaveReset, Leave, SourceChanges, BatchDies
<1>4. g = h
  BY <1>1, <1>3 DEF SaveMerge, SyncInv, TypeOK
<1>5. Present(p) /\ rows' = [rows EXCEPT ![p].medias = handlers[h].medias]
  BY <1>1, <1>3, <1>4 DEF SaveMerge
<1>6. rows[p] \in Row
  BY <1>2, <1>5, PresentRow DEF SyncInv
<1>7. rows'[p].medias = handlers[h].medias
  BY <1>2, <1>5, <1>6 DEF SyncInv, TypeOK, Row
<1>8. OrEmpty(rows[p].medias) = handlers[h].base /\ OrEmpty(rows'[p].medias) = handlers[h].medias
  BY <1>2, <1>7, MergeAssumption DEF OrEmpty, Lists
<1>9. KeepsVersions(handlers[h].base, handlers[h].medias)
  BY <1>1 DEF DeliveriesKeepVersions
<1> QED
  BY <1>8, <1>9 DEF EditsSurvive

\* DeliveriesKeepVersions is inductive: only PullSource starts to save a list.
LEMMA KeepVersionsStep ==
    ASSUME CollisionFree(Media)
    PROVE  SyncInv /\ DeliveriesKeepVersions /\ [Next]_vars => DeliveriesKeepVersions'
<1> SUFFICES ASSUME SyncInv, DeliveriesKeepVersions, [Next]_vars,
                    NEW h \in Handlers, handlers'[h] # None, handlers'[h].pc = "saving"
             PROVE  KeepsVersions(handlers'[h].base, handlers'[h].medias)
  BY DEF DeliveriesKeepVersions
<1>1. CASE handlers'[h] = handlers[h]
  BY <1>1 DEF DeliveriesKeepVersions
<1>2. CASE handlers'[h] # handlers[h]
  <2> DEFINE offered == source[handlers[h].url]
             merged == ApplyDiff(handlers[h].base, DiffWithSource(handlers[h].base, offered))
  <2>1. ASSUME NEW g \in Handlers, NEW p \in Ids, ConsumeDiff(g, p) PROVE FALSE
    BY <1>2, <2>1 DEF ConsumeDiff, SyncInv, TypeOK
  <2>2. ASSUME NEW g \in Handlers, SaveMerge(g) PROVE FALSE
    BY <1>2, <2>2 DEF SaveMerge, SyncInv, TypeOK
  <2>3. ASSUME BatchDies PROVE FALSE
    BY <2>3 DEF BatchDies
  <2>4. PICK g \in Handlers : PullSource(g)
    BY <1>2, <2>1, <2>2, <2>3 DEF Next, vars, batch, Deliver, StartPass, ComparePlaylist, Open,
       SendPut, AskDiff, AcceptMerge, CloseDialog, SavePut, Delete, ImportFromUrl, SynkAsync,
       PullReset, SaveReset, Leave, SourceChanges
  <2>5. /\ handlers[h] # None
        /\ offered # Down
        /\ handlers'[h].base = handlers[h].base
        /\ handlers'[h].medias = merged
    BY <1>2, <2>4, PullDelivery DEF SyncInv
  <2>6. handlers[h].base \in Lists /\ offered \in MaybeLists
    BY <2>5, DeliveryFields, ServedList DEF SyncInv
  <2>7. CollisionFree(handlers[h].base)
    BY <2>6 DEF CollisionFree, Lists
  <2>8. KeepsVersions(handlers[h].base, merged)
    BY <2>6, <2>7, MergeKeepsVersions
  <2> HIDE DEF merged
  <2> QED
    BY <2>5, <2>8
<1> QED
  BY <1>1, <1>2

\* Where Media.Id tells apart what Media.Url tells apart, a merge replaces no
\* version of a channel in a row that still has the medias the delivery has
\* loaded: the user's edits outlive the merges that saw them.
THEOREM MergesKeepEdits ==
    ASSUME CollisionFree(Media)
    PROVE  Spec => MergeKeepsEditsItSaw
<1>1. Init => DeliveriesKeepVersions
  BY DEF Init, DeliveriesKeepVersions
<1>2. SyncInv /\ DeliveriesKeepVersions /\ [Next]_vars => DeliveriesKeepVersions'
  BY CollisionFree(Media), KeepVersionsStep
<1>3. SyncInv /\ DeliveriesKeepVersions /\ [Next]_vars => [KeepsEditsItSaw]_vars
  BY KeepsEditsStep
<1>4. Spec => [][KeepsEditsItSaw]_vars
  BY <1>1, <1>2, <1>3, SyncInvariant, PTL DEF Spec
<1> QED
  BY <1>4 DEF MergeKeepsEditsItSaw, KeepsEditsItSaw

------------------------------------------------------------------------------
(* Settled playlists stay settled *)

\* What DeliveriesAgree and ResetsAgree ask of one delivery d and one session s
\* about playlist p, whose source u serves the channels `served`.
DeliveryAgrees(d, p, u, served) ==
    d.id = p => /\ d.url = u
                /\ d.pc = "saving" => UrlsOf(d.medias) = served

SessionAgrees(s, p, u, served) ==
    s.id = p => /\ s.pc \in {"resetting", "replacing"} => s.url = u
                /\ s.pc = "replacing" => UrlsOf(OrEmpty(s.medias)) = served

\* What a settled playlist is, in these terms.
LEMMA SettledFields ==
    ASSUME TypeOK, NEW p \in Ids, Settled(p)
    PROVE  LET u == rows[p].url
               served == UrlsOf(source[u])
           IN  /\ Present(p)
               /\ rows[p] \in Row
               /\ u \in Urls
               /\ rows[p].enabled
               /\ ~rows[p].auto
               /\ source[u] \in Lists
               /\ source[u] # {}
               /\ ServesList(u)
               /\ UrlsOf(OrEmpty(rows[p].medias)) = served
               /\ \A h \in Handlers : handlers[h] # None => DeliveryAgrees(handlers[h], p, u, served)
               /\ \A c \in Clients : clients[c] # None => SessionAgrees(clients[c], p, u, served)
<1> DEFINE u == rows[p].url
<1>1. /\ Present(p)
      /\ rows[p].enabled
      /\ ~rows[p].auto
      /\ ~NullOrEmpty(rows[p].medias)
      /\ ServesList(u)
      /\ UrlsOf(OrEmpty(rows[p].medias)) = UrlsOf(source[u])
  BY DEF Settled, Followed, InSync
<1>2. rows[p] \in Row /\ u \in Urls /\ rows[p].medias \in Lists
  BY <1>1, PresentRow, RowFields DEF NullOrEmpty, MaybeLists
<1>3. source[u] \in Lists
  BY <1>1, <1>2, ServedList DEF ServesList, MaybeLists
<1>4. UrlsOf(OrEmpty(rows[p].medias)) # {}
  BY <1>1, <1>2 DEF NullOrEmpty, OrEmpty, UrlsOf
<1>5. source[u] # {}
  BY <1>1, <1>4 DEF UrlsOf
<1>6. \A h \in Handlers : handlers[h] # None => DeliveryAgrees(handlers[h], p, u, UrlsOf(source[u]))
  BY DEF Settled, DeliveriesAgree, DeliveryAgrees
<1>7. \A c \in Clients : clients[c] # None => SessionAgrees(clients[c], p, u, UrlsOf(source[u]))
  BY DEF Settled, ResetsAgree, SessionAgrees
<1> QED
  BY <1>1, <1>2, <1>3, <1>5, <1>6, <1>7

\* A settled playlist stays settled in a step that writes it no list but one with
\* the channels its source still serves, and starts nothing that disagrees.
LEMMA StaysSettled ==
    ASSUME TypeOK, NEW p \in Ids, Settled(p),
           NEW u, u = rows[p].url, NEW served, served = UrlsOf(source[u]),
           source'[u] = source[u],
           NEW list \in MaybeLists, UrlsOf(OrEmpty(list)) = served,
           rows'[p] = [rows[p] EXCEPT !.medias = list],
           \A h \in Handlers : \/ handlers'[h] \in {None, handlers[h]}
                               \/ DeliveryAgrees(handlers'[h], p, u, served),
           \A c \in Clients : \/ clients'[c] \in {None, clients[c]}
                              \/ SessionAgrees(clients'[c], p, u, served)
    PROVE  Settled(p)'
<1>1. /\ rows[p] \in Row
      /\ u \in Urls
      /\ rows[p].enabled
      /\ ~rows[p].auto
      /\ source[u] \in Lists
      /\ source[u] # {}
      /\ ServesList(u)
      /\ \A h \in Handlers : handlers[h] # None => DeliveryAgrees(handlers[h], p, u, served)
      /\ \A c \in Clients : clients[c] # None => SessionAgrees(clients[c], p, u, served)
  BY SettledFields
<1>2. /\ rows'[p] \in Row
      /\ rows'[p].url = u
      /\ rows'[p].auto = rows[p].auto
      /\ rows'[p].enabled = rows[p].enabled
      /\ rows'[p].medias = list
  BY <1>1 DEF Row
<1>3. rows'[p] # None
  BY <1>2, NoneAssumption
<1>4. ~NullOrEmpty(list)
  <2>1. served # {}
    BY <1>1 DEF UrlsOf, Lists
  <2> QED
    BY <2>1 DEF NullOrEmpty, OrEmpty, UrlsOf
<1>5. Followed(p)'
  BY <1>1, <1>2, <1>3, <1>4 DEF Followed, Present, ServesList, NullOrEmpty
<1>6. InSync(p)'
  BY <1>2 DEF InSync
<1>7. DeliveriesAgree(p)'
  BY <1>1, <1>2 DEF DeliveriesAgree, DeliveryAgrees
<1>8. ResetsAgree(p)'
  BY <1>1, <1>2 DEF ResetsAgree, SessionAgrees
<1> QED
  BY <1>5, <1>6, <1>7, <1>8 DEF Settled

\* In particular in a step that leaves its row alone.
LEMMA RowUntouched ==
    ASSUME TypeOK, NEW p \in Ids, Settled(p),
           NEW u, u = rows[p].url, NEW served, served = UrlsOf(source[u]),
           source'[u] = source[u], rows'[p] = rows[p],
           \A h \in Handlers : \/ handlers'[h] \in {None, handlers[h]}
                               \/ DeliveryAgrees(handlers'[h], p, u, served),
           \A c \in Clients : \/ clients'[c] \in {None, clients[c]}
                              \/ SessionAgrees(clients'[c], p, u, served)
    PROVE  Settled(p)'
<1>1. rows[p] \in Row /\ UrlsOf(OrEmpty(rows[p].medias)) = served
  BY SettledFields
<1>2. rows[p].medias \in MaybeLists /\ rows'[p] = [rows[p] EXCEPT !.medias = rows[p].medias]
  BY <1>1 DEF Row
<1> QED
  BY <1>1, <1>2, StaysSettled

\* A new delivery has the url of its row, and has pulled nothing yet.
LEMMA ConsumeSettled ==
    ASSUME SyncInv, NEW p \in Ids, Settled(p),
           NEW h \in Handlers, NEW q \in Ids, ConsumeDiff(h, q)
    PROVE  Settled(p)'
<1> DEFINE d == [pc |-> "pulling", id |-> q, url |-> rows[q].url,
                 base |-> rows[q].medias, medias |-> rows[q].medias]
<1>1. UNCHANGED <<rows, source, clients>>
  BY DEF ConsumeDiff, table, environment
<1>2. handlers' \in {handlers, [handlers EXCEPT ![h] = d]}
  BY DEF ConsumeDiff
<1>3. DeliveryAgrees(d, p, rows[p].url, UrlsOf(source[rows[p].url]))
  BY DEF DeliveryAgrees
<1> HIDE DEF d
<1>4. \A g \in Handlers : \/ handlers'[g] \in {None, handlers[g]}
                          \/ DeliveryAgrees(handlers'[g], p, rows[p].url,
                                            UrlsOf(source[rows[p].url]))
  BY <1>2, <1>3 DEF SyncInv, TypeOK
<1> QED
  BY <1>1, <1>4, RowUntouched DEF SyncInv

\* A delivery that pulls the source a settled playlist has, gets what it lists.
LEMMA PullSettled ==
    ASSUME CollisionFree(Media), SyncInv, NEW p \in Ids, Settled(p),
           NEW h \in Handlers, PullSource(h)
    PROVE  Settled(p)'
<1> DEFINE u == rows[p].url
           served == UrlsOf(source[u])
           offered == source[handlers[h].url]
           merged == ApplyDiff(handlers[h].base, DiffWithSource(handlers[h].base, offered))
<1>1. UNCHANGED <<rows, source, clients>>
  BY DEF PullSource, table, environment
<1>2. /\ handlers[h] # None
      /\ \A g \in Handlers \ {h} : handlers'[g] = handlers[g]
      /\ \/ handlers'[h] = None
         \/ /\ offered # Down
            /\ handlers'[h].id = handlers[h].id
            /\ handlers'[h].url = handlers[h].url
            /\ handlers'[h].medias = merged
  BY PullDelivery DEF SyncInv
<1>3. DeliveryAgrees(handlers[h], p, u, served) /\ source[u] \in Lists
  BY <1>2, SettledFields DEF SyncInv
<1>4. ASSUME offered # Down, handlers[h].url = u PROVE UrlsOf(merged) = served
  <2>1. handlers[h].base \in Lists /\ offered \in MaybeLists
    BY <1>2, <1>4, DeliveryFields, ServedList DEF SyncInv
  <2>2. CollisionFree(handlers[h].base)
    BY <2>1 DEF CollisionFree, Lists
  <2>3. OrEmpty(offered) = source[u]
    BY <1>3, <1>4, MergeAssumption DEF OrEmpty, Lists
  <2> QED
    BY <2>1, <2>2, <2>3, MergeMatchesSource
<1> HIDE DEF merged
<1>5. handlers'[h] = None \/ DeliveryAgrees(handlers'[h], p, u, served)
  BY <1>2, <1>3, <1>4 DEF DeliveryAgrees
<1> QED
  BY <1>1, <1>2, <1>5, RowUntouched DEF SyncInv

\* A merge that is saved in a settled playlist has the channels of its source.
LEMMA SaveMergeSettled ==
    ASSUME SyncInv, NEW p \in Ids, Settled(p), NEW h \in Handlers, SaveMerge(h)
    PROVE  Settled(p)'
<1> DEFINE u == rows[p].url
           served == UrlsOf(source[u])
           list == handlers[h].medias
<1>1. UNCHANGED <<source, clients>>
  BY DEF SaveMerge, environment
<1>2. handlers[h] # None /\ handlers[h].pc = "saving" /\ list \in Lists
  BY DeliveryFields DEF SaveMerge, SyncInv
<1>3. DeliveryAgrees(handlers[h], p, u, served) /\ Present(p)
  BY <1>2, SettledFields DEF SyncInv
<1>4. \A g \in Handlers : handlers'[g] \in {None, handlers[g]}
  BY DEF SaveMerge, SyncInv, TypeOK
<1>5. CASE handlers[h].id = p
  <2>1. UrlsOf(OrEmpty(list)) = served /\ list \in MaybeLists
    BY <1>2, <1>3, <1>5, MergeAssumption DEF DeliveryAgrees, OrEmpty, Lists, MaybeLists
  <2>2. rows'[p] = [rows[p] EXCEPT !.medias = list]
    BY <1>3, <1>5 DEF SaveMerge, SyncInv, TypeOK
  <2> QED
    BY <1>1, <1>4, <2>1, <2>2, StaysSettled DEF SyncInv
<1>6. CASE handlers[h].id # p
  <2>1. rows'[p] = rows[p]
    BY <1>6 DEF SaveMerge, SyncInv, TypeOK
  <2> QED
    BY <1>1, <1>4, <2>1, RowUntouched DEF SyncInv
<1> QED
  BY <1>5, <1>6

\* A step that only gives one session a state that agrees.
LEMMA SessionSettled ==
    ASSUME SyncInv, NEW p \in Ids, Settled(p), UNCHANGED <<rows, source, handlers>>,
           NEW c \in Clients, NEW s,
           s = None \/ SessionAgrees(s, p, rows[p].url, UrlsOf(source[rows[p].url])),
           clients' = [clients EXCEPT ![c] = s]
    PROVE  Settled(p)'
<1>1. clients'[c] = s /\ \A d \in Clients \ {c} : clients'[d] = clients[d]
  BY DEF SyncInv, TypeOK
<1> QED
  BY <1>1, RowUntouched DEF SyncInv

\* A reset takes the url of its row.
LEMMA SynkAsyncSettled ==
    ASSUME SyncInv, NEW p \in Ids, Settled(p),
           NEW c \in Clients, NEW q \in Ids, SynkAsync(c, q)
    PROVE  Settled(p)'
<1> DEFINE s == [pc |-> "resetting", id |-> q, url |-> rows[q].url,
                 medias |-> rows[q].medias]
<1>1. SessionAgrees(s, p, rows[p].url, UrlsOf(source[rows[p].url]))
  BY DEF SessionAgrees
<1>2. clients' = [clients EXCEPT ![c] = s] /\ UNCHANGED <<rows, source, handlers>>
  BY DEF SynkAsync, table, batch, environment
<1> HIDE DEF s
<1> QED
  BY <1>1, <1>2, SessionSettled

\* The source of a settled playlist serves a list with medias: a reset takes it.
LEMMA PullResetSettled ==
    ASSUME SyncInv, NEW p \in Ids, Settled(p), NEW c \in Clients, PullReset(c)
    PROVE  Settled(p)'
<1> DEFINE u == rows[p].url
           served == UrlsOf(source[u])
           offered == source[clients[c].url]
<1>1. clients[c] # None /\ clients[c].pc = "resetting" /\ UNCHANGED <<rows, source, handlers>>
  BY DEF PullReset, table, batch, environment
<1>2. /\ SessionAgrees(clients[c], p, u, served)
      /\ source[u] \in Lists
      /\ source[u] # {}
      /\ ServesList(u)
  BY <1>1, SettledFields DEF SyncInv
<1>3. CASE clients' = [clients EXCEPT ![c] = None]
  BY <1>1, <1>3, SessionSettled
<1>4. ASSUME clients' # [clients EXCEPT ![c] = None] PROVE Settled(p)'
  <2> DEFINE list == IF offered = {} THEN clients[c].medias ELSE offered
             s == [pc |-> "replacing", id |-> clients[c].id, url |-> clients[c].url,
                   medias |-> list]
  <2>1. clients' = [clients EXCEPT ![c] = s]
    BY <1>4 DEF PullReset
  <2>2. ASSUME clients[c].id = p
        PROVE  clients[c].url = u /\ UrlsOf(OrEmpty(list)) = served
    <3>1. clients[c].url = u
      BY <1>1, <1>2, <2>2 DEF SessionAgrees
    <3>2. list = source[u]
      BY <1>2, <3>1
    <3> QED
      BY <1>2, <3>1, <3>2, MergeAssumption DEF OrEmpty, Lists
  <2> HIDE DEF list
  <2>3. SessionAgrees(s, p, u, served)
    BY <2>2 DEF SessionAgrees
  <2> HIDE DEF s
  <2> QED
    BY <1>1, <2>1, <2>3, SessionSettled
<1> QED
  BY <1>3, <1>4

\* A reset that is saved in a settled playlist has the channels of its source.
LEMMA SaveResetSettled ==
    ASSUME SyncInv, NEW p \in Ids, Settled(p), NEW c \in Clients, SaveReset(c)
    PROVE  Settled(p)'
<1> DEFINE u == rows[p].url
           served == UrlsOf(source[u])
           list == clients[c].medias
<1>1. /\ clients[c] # None
      /\ clients[c].pc = "replacing"
      /\ UNCHANGED <<source, handlers>>
  BY DEF SaveReset, batch, environment
<1>2. list \in MaybeLists
  BY <1>1, ResetFields DEF SyncInv
<1>3. SessionAgrees(clients[c], p, u, served) /\ Present(p)
  BY <1>1, SettledFields DEF SyncInv
<1>4. \A d \in Clients : clients'[d] \in {None, clients[d]}
  BY DEF SaveReset, SyncInv, TypeOK
<1>5. CASE clients[c].id = p
  <2>1. UrlsOf(OrEmpty(list)) = served
    BY <1>1, <1>3, <1>5 DEF SessionAgrees
  <2>2. rows'[p] = [rows[p] EXCEPT !.medias = list]
    BY <1>3, <1>5 DEF SaveReset, SyncInv, TypeOK
  <2> QED
    BY <1>1, <1>2, <1>4, <2>1, <2>2, StaysSettled DEF SyncInv
<1>6. CASE clients[c].id # p
  <2>1. rows'[p] = rows[p]
    BY <1>6 DEF SaveReset, SyncInv, TypeOK
  <2> QED
    BY <1>1, <1>4, <2>1, RowUntouched DEF SyncInv
<1> QED
  BY <1>5, <1>6

\* A session of the pages of the client: no reset.
OfPages(s) == s.pc \in {"open", "diff", "put", "light"}

\* The pages of the client and the diff dialog write no row before the PUT.
LEMMA PagesSettled ==
    ASSUME SyncInv, NEW p \in Ids, Settled(p), NEW c \in Clients,
           \/ \E q \in Ids : Open(c, q)
           \/ \E kind \in {"put", "light"} : SendPut(c, kind)
           \/ AskDiff(c)
           \/ AcceptMerge(c)
           \/ CloseDialog(c)
           \/ Leave(c)
    PROVE  Settled(p)'
<1>1. UNCHANGED <<rows, source, handlers>>
  BY DEF Open, SendPut, AskDiff, AcceptMerge, CloseDialog, Leave, table, batch, environment
<1>2. ASSUME NEW s, OfPages(s),
             clients' = [clients EXCEPT ![c] = s]
      PROVE  Settled(p)'
  <2>1. SessionAgrees(s, p, rows[p].url, UrlsOf(source[rows[p].url]))
    BY <1>2 DEF OfPages, SessionAgrees
  <2> QED
    BY <1>1, <1>2, <2>1, SessionSettled
<1>3. ASSUME NEW q \in Ids, Open(c, q) PROVE Settled(p)'
  <2> DEFINE s == [pc |-> "open", id |-> q, row |-> rows[q]]
  <2>1. OfPages(s) /\ clients' = [clients EXCEPT ![c] = s]
    BY <1>3 DEF Open, OfPages
  <2> HIDE DEF s
  <2> QED
    BY <1>2, <2>1
<1>4. ASSUME NEW kind \in {"put", "light"}, SendPut(c, kind) PROVE Settled(p)'
  <2>1. PICK row, loaded :
          clients' = [clients EXCEPT ![c] =
            [pc |-> kind, id |-> clients[c].id, row |-> row, loaded |-> loaded]]
    BY <1>4 DEF SendPut
  <2> DEFINE s == [pc |-> kind, id |-> clients[c].id, row |-> row, loaded |-> loaded]
  <2>2. OfPages(s) /\ clients' = [clients EXCEPT ![c] = s]
    BY <2>1 DEF OfPages
  <2> HIDE DEF s
  <2> QED
    BY <1>2, <2>2
<1>5. ASSUME AskDiff(c) PROVE Settled(p)'
  <2>1. PICK new, removed :
          clients' = [clients EXCEPT ![c] =
            [pc |-> "diff", id |-> clients[c].id, row |-> clients[c].row,
             new |-> new, removed |-> removed]]
    BY <1>5 DEF AskDiff
  <2> DEFINE s == [pc |-> "diff", id |-> clients[c].id, row |-> clients[c].row,
                   new |-> new, removed |-> removed]
  <2>2. OfPages(s) /\ clients' = [clients EXCEPT ![c] = s]
    BY <2>1 DEF OfPages
  <2> HIDE DEF s
  <2> QED
    BY <1>2, <2>2
<1>6. ASSUME AcceptMerge(c) PROVE Settled(p)'
  <2>1. PICK row, loaded :
          clients' = [clients EXCEPT ![c] =
            [pc |-> "put", id |-> clients[c].id, row |-> row, loaded |-> loaded]]
    BY <1>6, AcceptSession
  <2> DEFINE s == [pc |-> "put", id |-> clients[c].id, row |-> row, loaded |-> loaded]
  <2>2. OfPages(s) /\ clients' = [clients EXCEPT ![c] = s]
    BY <2>1 DEF OfPages
  <2> HIDE DEF s
  <2> QED
    BY <1>2, <2>2
<1>7. ASSUME CloseDialog(c) PROVE Settled(p)'
  <2> DEFINE s == [pc |-> "open", id |-> clients[c].id, row |-> clients[c].row]
  <2>1. OfPages(s) /\ clients' = [clients EXCEPT ![c] = s]
    BY <1>7 DEF CloseDialog, OfPages
  <2> HIDE DEF s
  <2> QED
    BY <1>2, <2>1
<1>8. ASSUME Leave(c) PROVE Settled(p)'
  BY <1>1, <1>8, SessionSettled DEF Leave
<1> QED
  BY <1>3, <1>4, <1>5, <1>6, <1>7, <1>8

\* A PUT saves a copy of its own playlist, and leaves the others alone.
LEMMA SavePutSettled ==
    ASSUME SyncInv, NEW p \in Ids, Settled(p), NEW c \in Clients, SavePut(c)
    PROVE  Settled(p)' \/ SavesPut(c, p)
<1> DEFINE s == [pc |-> "open", id |-> clients[c].id, row |-> clients[c].row]
<1>1. /\ clients[c] # None
      /\ clients[c].pc \in {"put", "light"}
      /\ UNCHANGED <<source, handlers>>
  BY DEF SavePut, batch, environment
<1>2. clients'[c] = s /\ \A d \in Clients \ {c} : clients'[d] = clients[d]
  BY DEF SavePut, SyncInv, TypeOK
<1>3. OfPages(s) /\ s \in Session
  BY <1>1, CopyFields DEF OfPages, Session, SyncInv
<1> HIDE DEF s
<1>4. SessionAgrees(s, p, rows[p].url, UrlsOf(source[rows[p].url]))
  BY <1>3 DEF OfPages, SessionAgrees
<1>5. CASE clients[c].id = p
  BY <1>1, <1>2, <1>3, <1>5, NoneAssumption DEF SavesPut
<1>6. CASE clients[c].id # p
  <2>1. rows'[p] = rows[p]
    BY <1>6 DEF SavePut, SyncInv, TypeOK
  <2> QED
    BY <1>1, <1>2, <1>4, <2>1, RowUntouched DEF SyncInv
<1> QED
  BY <1>5, <1>6

\* A step that touches no row, no source and no request.
LEMMA QuietSettled ==
    ASSUME SyncInv, NEW p \in Ids, Settled(p), UNCHANGED <<rows, source, clients>>,
           \A h \in Handlers : handlers'[h] \in {None, handlers[h]}
    PROVE  Settled(p)'
BY RowUntouched DEF SyncInv

\* The property SettledStaysSettled of one step.
StillSettled ==
    \A p \in Ids : Settled(p) =>
        \/ Settled(p)'
        \/ source'[rows[p].url] # source[rows[p].url]
        \/ \E c \in Clients : SavesPut(c, p)
        \/ rows'[p] = None

LEMMA StillSettledStep ==
    ASSUME CollisionFree(Media)
    PROVE  SyncInv /\ [Next]_vars => StillSettled
<1> SUFFICES ASSUME SyncInv, [Next]_vars, NEW p \in Ids, Settled(p),
                    source'[rows[p].url] = source[rows[p].url],
                    \A c \in Clients : ~SavesPut(c, p),
                    rows'[p] # None
             PROVE  Settled(p)'
  BY DEF StillSettled
<1>1. ASSUME NEW q \in Ids, Delete(q) PROVE Settled(p)'
  <2>1. rows'[p] = rows[p] /\ UNCHANGED <<source, handlers, clients>>
    BY <1>1 DEF Delete, batch, environment, SyncInv, TypeOK
  <2> QED
    BY <2>1, RowUntouched DEF SyncInv
<1>2. ASSUME NEW u \in Urls, ImportFromUrl(u) PROVE Settled(p)'
  <2>1. nextId # p
    BY <1>2, ImportRow, SettledFields DEF Present, SyncInv
  <2>2. rows'[p] = rows[p] /\ UNCHANGED <<source, handlers, clients>>
    BY <1>2, <2>1 DEF ImportFromUrl, batch, environment, SyncInv, TypeOK
  <2> QED
    BY <2>2, RowUntouched DEF SyncInv
<1>3. ASSUME NEW u \in Urls, SourceChanges(u) PROVE Settled(p)'
  <2>1. UNCHANGED <<rows, handlers, clients>>
    BY <1>3 DEF SourceChanges, table, batch
  <2> QED
    BY <2>1, RowUntouched DEF SyncInv
<1>4. CASE BatchDies
  <2>1. UNCHANGED <<rows, source, clients>> /\ \A h \in Handlers : handlers'[h] = None
    BY <1>4 DEF BatchDies, table
  <2> QED
    BY <2>1, QuietSettled
<1>5. CASE StartPass
  BY <1>5, QuietSettled DEF StartPass, table, environment
<1>6. ASSUME NEW q \in Ids, ComparePlaylist(q) PROVE Settled(p)'
  BY <1>6, QuietSettled DEF ComparePlaylist, table, environment
<1>7. CASE UNCHANGED vars
  BY <1>7, QuietSettled DEF vars, table, batch, environment
<1> QED
  BY CollisionFree(Media), <1>1, <1>2, <1>3, <1>4, <1>5, <1>6, <1>7, ConsumeSettled,
     PullSettled, SaveMergeSettled, SynkAsyncSettled, PullResetSettled, SaveResetSettled,
     PagesSettled, SavePutSettled
     DEF Next, Deliver

\* Where Media.Id tells apart what Media.Url tells apart, nothing that the batch,
\* its crashes or the resets do takes a settled playlist away from its source:
\* only a change of the source, a PUT of a user or a deletion does.
THEOREM SettledPlaylistsStay ==
    ASSUME CollisionFree(Media)
    PROVE  Spec => SettledStaysSettled
<1>1. SyncInv /\ [Next]_vars => [StillSettled]_vars
  BY CollisionFree(Media), StillSettledStep
<1>2. Spec => [][StillSettled]_vars
  BY <1>1, SyncInvariant, PTL DEF Spec
<1> QED
  BY <1>2 DEF SettledStaysSettled, StillSettled
=============================================================================
