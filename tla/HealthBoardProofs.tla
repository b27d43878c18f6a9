-------------------------- MODULE HealthBoardProofs --------------------------
(***************************************************************************)
(* The invariant of HealthBoard, for any number of playlists, checks and   *)
(* events: every variable keeps its type, and the home page shows an icon  *)
(* for exactly the playlists it was told of.  Then that the path to the    *)
(* board implements HealthRegister, and what follows from that alone: the  *)
(* board stays where it has caught up.                                     *)
(***************************************************************************)
EXTENDS HealthBoard, ListLemmas

\* The members of a finite set in any order are a sequence.
LEMMA OrderSeq ==
    ASSUME NEW S, IsFiniteSet(S), NEW order \in SetToSeqs(S)
    PROVE  order \in Seq(S)
<1>1. Cardinality(S) \in Nat
  BY FS_CardinalityType
<1>2. order \in [1 .. Cardinality(S) -> S]
  BY DEF SetToSeqs
<1> QED
  BY <1>1, <1>2, SeqDef

\* A job loads medias or null for a row that is there.
LEMMA LoadedType ==
    ASSUME HealthTypeOK, NEW p \in Rows
    PROVE  Loaded(p) \in Medias
BY HealthAssumption DEF HealthTypeOK, Rows, Loaded

LEMMA InitInv == Init => HealthInv
<1> SUFFICES ASSUME Init PROVE HealthInv
  OBVIOUS
<1>1. checks \in Seq(Check) /\ events \in Seq(Event)
  BY EmptySeq DEF Init
<1>2. HealthTypeOK
  <2>1. Nothing \in [Playlists -> Reports \cup {None}] /\ Nothing \in [Playlists -> Medias \cup {None}]
    BY DEF Nothing
  <2>2. row \in [Playlists -> Medias \cup {"gone"}]
    BY DEF Init
  <2>3. 0 \in 0 .. MaxChanges /\ 0 \in 0 .. MaxCrashes
    BY HealthAssumption
  <2> QED
    BY <1>1, <2>1, <2>2, <2>3 DEF Init, HealthTypeOK
<1>3. IconsAreReported
  BY DEF Init, IconsAreReported, Nothing
<1> QED
  BY <1>2, <1>3 DEF HealthInv

LEMMA StartPassInv == HealthInv /\ StartPass => HealthInv'
<1> SUFFICES ASSUME HealthInv, StartPass PROVE HealthInv'
  OBVIOUS
<1>1. IsFiniteSet(Rows)
  BY HealthAssumption, FS_Subset DEF Rows
<1>2. PICK order \in SetToSeqs(Rows) :
        checks' = checks \o [i \in DOMAIN order |->
                      [playlist |-> order[i], medias |-> Loaded(order[i])]]
  BY DEF StartPass
<1> DEFINE started == [i \in DOMAIN order |->
                          [playlist |-> order[i], medias |-> Loaded(order[i])]]
<1>3. order \in Seq(Rows)
  BY <1>1, OrderSeq
<1>4. \A i \in 1 .. Len(order) :
        [playlist |-> order[i], medias |-> Loaded(order[i])] \in Check
  <2> SUFFICES ASSUME NEW i \in 1 .. Len(order)
               PROVE  [playlist |-> order[i], medias |-> Loaded(order[i])] \in Check
    OBVIOUS
  <2>1. order[i] \in Rows
    BY <1>3, ElementOfSeq
  <2>2. Loaded(order[i]) \in Medias
    BY <2>1, LoadedType DEF HealthInv
  <2> QED
    BY <2>1, <2>2 DEF Check, Rows
<1>5. started \in [1 .. Len(order) -> Check] /\ Len(order) \in Nat
  BY <1>3, <1>4, LenProperties
<1>6. started \in Seq(Check)
  BY <1>5, SeqDef
<1>7. checks' \in Seq(Check)
  BY <1>2, <1>6, ConcatProperties DEF HealthInv, HealthTypeOK
<1>8. tracked' \in [Playlists -> Medias \cup {None}]
  <2>1. \A p \in Playlists : (IF p \in Rows THEN Loaded(p) ELSE tracked[p]) \in Medias \cup {None}
    BY LoadedType DEF HealthInv, HealthTypeOK
  <2> QED
    BY <2>1 DEF StartPass
<1> QED
  BY <1>7, <1>8 DEF StartPass, outside, client, HealthInv, HealthTypeOK, IconsAreReported

LEMMA RespondInv ==
    ASSUME HealthInv, NEW i \in DOMAIN checks, Respond(i)
    PROVE  HealthInv'
<1> DEFINE c == checks[i]
<1>1. c \in Check
  BY ElementOfSeq, LenProperties DEF HealthInv, HealthTypeOK
<1>2. checks' \in Seq(Check)
  BY RemoveAtSeq DEF Respond, HealthInv, HealthTypeOK
<1>3. events' \in Seq(Event)
  <2>1. CASE events' = events
    BY <2>1 DEF HealthInv, HealthTypeOK
  <2>2. CASE /\ source[c.playlist] # "hanging"
             /\ events' = Append(events, [playlist |-> c.playlist,
                                          report |-> source[c.playlist]])
    <3>1. c.playlist \in Playlists
      BY <1>1 DEF Check
    <3>2. source[c.playlist] \in Reports
      BY <2>2, <3>1 DEF HealthInv, HealthTypeOK, SourceStates, Reports
    <3>3. [playlist |-> c.playlist, report |-> source[c.playlist]] \in Event
      BY <3>1, <3>2 DEF Event
    <3> QED
      BY <2>2, <3>3, AppendProperties DEF HealthInv, HealthTypeOK
  <2> QED
    BY <2>1, <2>2 DEF Respond
<1> QED
  BY <1>2, <1>3 DEF Respond, outside, client, HealthInv, HealthTypeOK, IconsAreReported

LEMMA PutInv ==
    ASSUME HealthInv, NEW i \in DOMAIN events, Put(i) \/ PutFails(i)
    PROVE  HealthInv'
<1>1. events[i] \in Event
  BY ElementOfSeq, LenProperties DEF HealthInv, HealthTypeOK
<1>2. events' \in Seq(Event)
  BY RemoveAtSeq DEF Put, PutFails, HealthInv, HealthTypeOK
<1>3. board' \in [Playlists -> Reports \cup {None}]
  BY <1>1 DEF Put, PutFails, Event, HealthInv, HealthTypeOK
<1> QED
  BY <1>2, <1>3 DEF Put, PutFails, outside, client, HealthInv, HealthTypeOK, IconsAreReported

LEMMA DieInv == HealthInv /\ Die => HealthInv'
<1> SUFFICES ASSUME HealthInv, Die PROVE HealthInv'
  OBVIOUS
<1>1. checks' \in Seq(Check) /\ events' \in Seq(Event)
  BY EmptySeq DEF Die
<1>2. tracked' \in [Playlists -> Medias \cup {None}]
  BY DEF Die, Nothing
<1>3. crashes' \in 0 .. MaxCrashes
  BY HealthAssumption DEF Die, HealthInv, HealthTypeOK
<1> QED
  BY <1>1, <1>2, <1>3 DEF Die, outside, client, HealthInv, HealthTypeOK, IconsAreReported

LEMMA OutsideInv ==
    ASSUME HealthInv, NEW p \in Playlists, NEW s \in SourceStates, NEW m \in Medias \cup {"gone"},
           SourceChanges(p, s) \/ RowChanges(p, m)
    PROVE  HealthInv'
<1>1. changes' \in 0 .. MaxChanges
  BY HealthAssumption DEF SourceChanges, RowChanges, HealthInv, HealthTypeOK
<1>2. source' \in [Playlists -> SourceStates] /\ row' \in [Playlists -> Medias \cup {"gone"}]
  BY DEF SourceChanges, RowChanges, HealthInv, HealthTypeOK
<1> QED
  BY <1>1, <1>2 DEF SourceChanges, RowChanges, batch, client, HealthInv, HealthTypeOK,
                    IconsAreReported

LEMMA HomeInv ==
    ASSUME HealthInv, OpenHome \/ CloseHome \/ \E p \in Playlists : Receive(p)
    PROVE  HealthInv'
<1>1. CASE OpenHome
  <2>1. /\ home' \in BOOLEAN
        /\ seen' \in [Playlists -> Reports \cup {None}]
        /\ icon' \in [Playlists -> Reports \cup {None}]
    BY <1>1 DEF OpenHome, Nothing
  <2>2. IconsAreReported'
    BY <1>1 DEF OpenHome, Nothing, IconsAreReported
  <2> QED
    BY <1>1, <2>1, <2>2 DEF OpenHome, outside, batch, HealthInv, HealthTypeOK
<1>2. CASE CloseHome
  BY <1>2 DEF CloseHome, outside, batch, HealthInv, HealthTypeOK, IconsAreReported
<1>3. ASSUME NEW p \in Playlists, Receive(p) PROVE HealthInv'
  <2>1. board[p] \in Reports
    BY <1>3 DEF Receive, HealthInv, HealthTypeOK
  <2>2. /\ seen' \in [Playlists -> Reports \cup {None}]
        /\ icon' \in [Playlists -> Reports \cup {None}]
    BY <1>3, <2>1 DEF Receive, HealthInv, HealthTypeOK
  <2>3. seen'[p] # None /\ icon'[p] # None
    BY <1>3, <2>1, HealthAssumption DEF Receive, HealthInv, HealthTypeOK
  <2>4. \A q \in Playlists \ {p} : seen'[q] = seen[q] /\ icon'[q] = icon[q]
    BY <1>3 DEF Receive, HealthInv, HealthTypeOK
  <2>5. IconsAreReported'
    BY <2>3, <2>4 DEF HealthInv, IconsAreReported
  <2> QED
    BY <1>3, <2>2, <2>5 DEF Receive, outside, batch, HealthInv, HealthTypeOK
<1> QED
  BY <1>1, <1>2, <1>3

LEMMA StutterInv == HealthInv /\ UNCHANGED vars => HealthInv'
BY DEF vars, outside, batch, client, HealthInv, HealthTypeOK, IconsAreReported

\* Every variable of the path from the health job to the home page keeps its type, and
\* the page shows an icon for exactly the playlists it was told of, for any number of
\* playlists, overlapping passes, lost events and visits.
THEOREM HealthInvariant == Spec => []HealthInv
<1>1. HealthInv /\ [Next]_vars => HealthInv'
  <2> SUFFICES ASSUME HealthInv, [Next]_vars PROVE HealthInv'
    OBVIOUS
  <2>1. CASE StartPass
    BY <2>1, StartPassInv
  <2>2. ASSUME NEW i \in DOMAIN checks, Respond(i) PROVE HealthInv'
    BY <2>2, RespondInv
  <2>3. CASE Consume
    BY <2>3, PutInv DEF Consume
  <2>4. CASE Die
    BY <2>4, DieInv
  <2>5. ASSUME NEW p \in Playlists, NEW s \in SourceStates, SourceChanges(p, s)
        PROVE  HealthInv'
    BY <2>5, OutsideInv
  <2>6. ASSUME NEW p \in Playlists, NEW m \in Medias \cup {"gone"}, RowChanges(p, m)
        PROVE  HealthInv'
    <3>1. "online" \in SourceStates
      BY DEF SourceStates
    <3> QED
      BY <2>6, <3>1, OutsideInv
  <2>7. CASE OpenHome \/ CloseHome \/ \E p \in Playlists : Receive(p)
    BY <2>7, HomeInv
  <2>8. CASE UNCHANGED vars
    BY <2>8, StutterInv
  <2> QED
    BY <2>1, <2>2, <2>3, <2>4, <2>5, <2>6, <2>7, <2>8 DEF Next
<1> QED
  BY <1>1, InitInv, PTL DEF Spec

------------------------------------------------------------------------------
(* HealthBoard implements HealthRegister *)

LEMMA InitRegister == Init => Register!Init
<1> SUFFICES ASSUME Init PROVE Register!Init
  OBVIOUS
<1>1. Range(events) = {}
  BY DEF Init, Range
<1> QED
  BY <1>1 DEF Init, Register!Init, Nothing

\* A check that ends asks the source, and its report is under way; or it ends in a
\* trace event.
LEMMA RespondRegister ==
    ASSUME HealthInv, NEW i \in DOMAIN checks, Respond(i)
    PROVE  Register!Lose \/ \E p \in Playlists : Register!Measure(p)
<1> DEFINE c == checks[i]
           e == [playlist |-> c.playlist, report |-> source[c.playlist]]
<1>1. c \in Check
  BY ElementOfSeq, LenProperties DEF HealthInv, HealthTypeOK
<1>2. UNCHANGED <<source, board>>
  BY DEF Respond, outside
<1>3. CASE events' = events
  BY <1>2, <1>3 DEF Register!Lose
<1>4. CASE source[c.playlist] # "hanging" /\ events' = Append(events, e)
  <2>1. c.playlist \in Playlists
    BY <1>1 DEF Check
  <2>2. source[c.playlist] \in Reports
    BY <1>4, <2>1 DEF HealthInv, HealthTypeOK, SourceStates, Reports
  <2>3. e \in Event /\ events \in Seq(Event)
    BY <2>1, <2>2 DEF Event, HealthInv, HealthTypeOK
  <2> HIDE DEF e
  <2>4. Range(events') = Range(events) \cup {e}
    BY <1>4, <2>3, AppendRange
  <2>5. Register!Measure(c.playlist)
    BY <1>2, <2>2, <2>4 DEF Register!Measure, e
  <2> QED
    BY <2>1, <2>5
<1> QED
  BY <1>3, <1>4 DEF Respond

\* A put writes an event that was queued, of which the queue may hold another; one that
\* fails loses it.
LEMMA PutRegister ==
    ASSUME HealthInv, NEW i \in DOMAIN events, Put(i) \/ PutFails(i)
    PROVE  Register!Lose \/ \E e \in Range(events) : Register!Write(e)
<1> DEFINE e == events[i]
<1>1. events \in Seq(Event) /\ events' = RemoveAt(events, i) /\ UNCHANGED source
  BY DEF Put, PutFails, outside, HealthInv, HealthTypeOK
<1>2. /\ Range(events') \subseteq Range(events)
      /\ Range(events) \subseteq Range(events') \cup {e}
  BY <1>1, RemoveAtRange, RemoveAtKeeps
<1>3. e \in Range(events)
  BY DEF Range
<1>4. CASE Put(i)
  <2>1. Range(events') \in {Range(events), Range(events) \ {e}}
    BY <1>2
  <2>2. board' = [board EXCEPT ![e.playlist] = e.report]
    BY <1>4 DEF Put
  <2>3. Register!Write(e)
    BY <1>1, <2>1, <2>2 DEF Register!Write
  <2> QED
    BY <1>3, <2>3
<1>5. CASE PutFails(i)
  BY <1>1, <1>2, <1>5 DEF PutFails, Register!Lose
<1> QED
  BY <1>4, <1>5

LEMMA DieRegister == Die => Register!Lose
<1> SUFFICES ASSUME Die PROVE Register!Lose
  OBVIOUS
<1>1. Range(events') = {}
  BY DEF Die, Range
<1> QED
  BY <1>1 DEF Die, outside, Register!Lose

LEMMA StepRegister == HealthInv /\ [Next]_vars => [Register!Next]_(Register!vars)
<1> SUFFICES ASSUME HealthInv, [Next]_vars
             PROVE  Register!Next \/ UNCHANGED <<source, events, board>>
  BY DEF Register!vars, Range
<1>1. ASSUME NEW i \in DOMAIN checks, Respond(i) PROVE Register!Next
  BY <1>1, RespondRegister DEF Register!Next
<1>2. CASE Consume
  BY <1>2, PutRegister DEF Consume, Register!Next
<1>3. CASE Die
  BY <1>3, DieRegister DEF Register!Next
<1>4. ASSUME NEW p \in Playlists, NEW s \in SourceStates, SourceChanges(p, s)
      PROVE  Register!Next
  <2>1. Range(events') = Range(events) /\ UNCHANGED board
    BY <1>4 DEF SourceChanges, batch
  <2>2. Register!Change(p)
    BY <1>4, <2>1 DEF SourceChanges, Register!Change
  <2> QED
    BY <2>2 DEF Register!Next
<1>5. [Next]_vars => \/ \E i \in DOMAIN checks : Respond(i)
                     \/ Consume
                     \/ Die
                     \/ \E p \in Playlists, s \in SourceStates : SourceChanges(p, s)
                     \/ UNCHANGED <<source, events, board>>
  BY DEF Next, vars, outside, batch, client, StartPass, RowChanges, OpenHome, Receive, CloseHome
<1> QED
  BY <1>1, <1>2, <1>3, <1>4, <1>5

\* Checks, queue and puts together implement a register per playlist in which only
\* what its own source did when it was asked is written.
THEOREM ImplementsRegister == Spec => KeepsRegister
<1>1. Spec => [][Register!Next]_(Register!vars)
  BY HealthInvariant, StepRegister, PTL DEF Spec
<1> QED
  BY <1>1, InitRegister, PTL DEF Spec, KeepsRegister, Register!Spec

------------------------------------------------------------------------------
(* The board stays where it has caught up *)

\* The property AgreementLasts of one step.
StaysAgreed ==
    \A p \in Playlists, s \in Reports :
        Agrees(p, s) /\ source'[p] = s => Agrees(p, s)'

\* It follows from the registers: what is measured while the source is in state s is
\* s, and what is written was under way.
LEMMA StaysAgreedStep ==
    ASSUME HealthInv, [Register!Next]_(Register!vars)
    PROVE  StaysAgreed
<1> SUFFICES ASSUME NEW p \in Playlists, NEW s \in Reports, Agrees(p, s), source'[p] = s
             PROVE  Agrees(p, s)'
  BY DEF StaysAgreed
<1>1. /\ source[p] = s
      /\ board[p] = s
      /\ \A e \in Range(events) : e.playlist = p => e.report = s
  BY DEF Agrees
<1>2. ASSUME NEW q \in Playlists, Register!Measure(q) PROVE Agrees(p, s)'
  <2> DEFINE e == [playlist |-> q, report |-> source[q]]
  <2>1. Range(events') = Range(events) \cup {e} /\ UNCHANGED board
    BY <1>2 DEF Register!Measure
  <2>2. e.playlist = p => e.report = s
    BY <1>1
  <2> HIDE DEF e
  <2> QED
    BY <1>1, <2>1, <2>2 DEF Agrees
<1>3. ASSUME NEW e \in Range(events), Register!Write(e) PROVE Agrees(p, s)'
  <2>1. Range(events') \subseteq Range(events)
    BY <1>3 DEF Register!Write
  <2>2. board'[p] = s
    BY <1>1, <1>3 DEF Register!Write, HealthInv, HealthTypeOK
  <2> QED
    BY <1>1, <2>1, <2>2 DEF Agrees
<1>4. CASE Register!Lose
  <2>1. Range(events') \subseteq Range(events) /\ UNCHANGED board
    BY <1>4 DEF Register!Lose
  <2> QED
    BY <1>1, <2>1 DEF Agrees
<1>5. ASSUME NEW q \in Playlists, Register!Change(q) PROVE Agrees(p, s)'
  <2>1. Range(events') = Range(events) /\ UNCHANGED board
    BY <1>5 DEF Register!Change
  <2> QED
    BY <1>1, <2>1 DEF Agrees
<1>6. CASE UNCHANGED (Register!vars)
  BY <1>1, <1>6 DEF Register!vars, Agrees
<1> QED
  BY <1>2, <1>3, <1>4, <1>5, <1>6 DEF Register!Next

\* A board that has caught up with a source shows its state until that changes,
\* however passes overlap and whatever becomes of the events meanwhile.
THEOREM AgreementStays == Spec => AgreementLasts
<1>1. Spec => [][Register!Next]_(Register!vars)
  BY ImplementsRegister, PTL DEF KeepsRegister, Register!Spec
<1>2. HealthInv /\ [Next]_vars /\ [Register!Next]_(Register!vars) => [StaysAgreed]_vars
  BY StaysAgreedStep
<1>3. Spec => [][StaysAgreed]_vars
  BY <1>1, <1>2, HealthInvariant, PTL DEF Spec
<1> QED
  BY <1>3 DEF AgreementLasts, StaysAgreed

=============================================================================
