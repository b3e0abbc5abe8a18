----------------------------- MODULE DeskProofs -----------------------------
(***************************************************************************)
(* Theorems of Desk, for any orders, syncers, desks, limits and faults: a  *)
(* consumer of the events misses one only when its transaction committed   *)
(* late, a label is printed again only for a cause, and who pages through  *)
(* a tab misses at most as many orders as left it meanwhile.               *)
(***************************************************************************)
EXTENDS Desk, FiniteSetTheorems, TLAPS

Txns == [order : Orders \cup {None}, state : States, ordered : Times, label : BOOLEAN,
         ids : SUBSET Nat]
Calls == [desk : Desks, ids : SUBSET Orders]
Jobs == [ids : SUBSET Orders, labels : SUBSET Orders, step : {"confirm", "mark"}]

(* The types, the ids of the outbox apart.                                 *)
TableTyped ==
    /\ truth \in [Orders -> States] /\ placed \in [Orders -> Times]
    /\ row \in [Orders -> Rows] /\ marked \subseteq Orders
    /\ now \in 0 .. Slots - 1 /\ kind \in Readers
    /\ faults \in 0 .. MaxFaults
OpenTyped ==
    /\ open \in [Writers -> Txns]
    /\ \A w \in Writers : open[w] = NoTxn \/ open[w].order \in Orders
DialogsTyped ==
    /\ desk \in [Desks -> Dialogs]
    /\ calls \subseteq Calls /\ jobs \subseteq Jobs
    /\ printed \subseteq Orders /\ again \subseteq Orders
Typed == TableTyped /\ OpenTyped /\ feed \in Feeds /\ DialogsTyped

(* An id belongs to one transaction, and to one event once that commits.   *)
IdsDrawn ==
    /\ lastId \in Nat
    /\ IsFiniteSet(events) /\ events \subseteq Events
    /\ \A e \in events : e.id \in 1 .. lastId
    /\ late \subseteq 1 .. lastId /\ got \subseteq 1 .. lastId
    /\ \A w \in Writers : open[w].ids = {} \/ \E i \in 1 .. lastId : open[w].ids = {i}
IdsApart ==
    /\ \A w \in Writers, e \in events : e.id \notin open[w].ids
    /\ \A v, w \in Writers : v # w => open[v].ids \cap open[w].ids = {}

(* The cursor is where the consumer last stopped.                          *)
CursorStands == cursor = 0 \/ \E e \in events : e.id = cursor

EventInv == IdsDrawn /\ IdsApart /\ CursorStands /\ MissedOnlyIfLate

(* A printed label is marked, or its mark is on its way, or was lost.      *)
MarkedOrComing ==
    \A o \in printed \ again :
        row[o].label \/ \E j \in jobs : o \in j.ids \cap j.labels
(* Two dialogs with an order in common know of it.                         *)
SharedKnown ==
    \A d, q \in Desks : d # q => desk[d].ids \cap desk[q].ids \subseteq desk[d].shared
(* What a dialog is about to print a second time.                          *)
Excused ==
    \A d \in Desks :
        desk[d].step \in {"preparing", "ready"} /\ ~desk[d].picked =>
            desk[d].ids \cap printed \subseteq again \cup desk[d].shared

LabelInv == MarkedOrComing /\ SharedKnown /\ Excused

IInv == Typed /\ EventInv /\ LabelInv

-----------------------------------------------------------------------------
(* Types.                                                                  *)

LEMMA NoneIsNoOrder == None \notin Orders /\ None = -1 /\ None \in Times
BY DeskAssumption DEF None, Times

LEMMA SubsetCounts ==
    ASSUME NEW S \in SUBSET Orders
    PROVE  IsFiniteSet(S) /\ Cardinality(S) \in Nat
BY DeskAssumption, FS_Subset, FS_CardinalityType

LEMMA InTabsSubset ==
    ASSUME NEW t, NEW table, NEW n
    PROVE  InTabs(t, table, n) \subseteq Orders
BY DEF InTabs

LEMMA FollowTyped ==
    ASSUME feed \in Feeds, NEW table, NEW n
    PROVE  Follow(table, n) \in Feeds
<1> DEFINE was == InTabs(feed.tab, row, now)
           is == InTabs(feed.tab, table, n)
<1>1. was \subseteq Orders /\ is \subseteq Orders
  BY InTabsSubset
<1>2. Cardinality(was \ is) \in Nat
  BY <1>1, SubsetCounts
<1>3. feed.stay \cap is \subseteq Orders /\ feed.left + Cardinality(was \ is) \in Nat
  BY <1>2 DEF Feeds
<1> HIDE DEF was, is
<1>4. [feed EXCEPT !.stay = feed.stay \cap is,
                   !.left = feed.left + Cardinality(was \ is)] \in Feeds
  BY <1>3 DEF Feeds
<1> QED
  BY <1>4 DEF Follow, was, is

LEMMA FeedTyped ==
    ASSUME Typed, \/ \E t \in Tabs : OpenTab(t)
                  \/ ReadRows \/ ReadTotal \/ CloseTab
    PROVE  feed' \in Feeds
<1>1. ASSUME NEW t \in Tabs, OpenTab(t)
      PROVE  feed' \in Feeds
  <2>1. InTabs(t, row, now) \subseteq Orders
    BY InTabsSubset
  <2> QED
    BY <1>1, <2>1 DEF OpenTab, Feeds
<1>2. CASE ReadRows
  <2>1. PageOf(feed.tab, feed.no) \subseteq Orders
    BY InTabsSubset DEF PageOf
  <2> QED
    BY <1>2, <2>1 DEF ReadRows, Typed, Feeds
<1>3. CASE ReadTotal
  <2>1. [feed EXCEPT !.step = "done"] \in Feeds
    BY DEF Typed, Feeds
  <2>2. feed.no + 1 \in Nat
    BY DEF Typed, Feeds
  <2>3. \A n \in Nat : [feed EXCEPT !.step = "rows", !.no = n] \in Feeds
    BY DEF Typed, Feeds
  <2> QED
    BY <1>3, <2>1, <2>2, <2>3 DEF ReadTotal
<1>4. CASE CloseTab
  <2>1. feed' = [step |-> "idle", tab |-> "new", no |-> 0, shown |-> {}, stay |-> {},
                 left |-> 0]
    BY <1>4 DEF CloseTab, Typed, Feeds
  <2> QED
    BY <2>1 DEF Feeds, Tabs
<1> QED
  BY <1>1, <1>2, <1>3, <1>4

LEMMA BesideWriters == ASSUME TableTyped PROVE Beside[kind] \subseteq Writers
BY DeskAssumption DEF TableTyped

LEMMA WrittenTyped ==
    ASSUME TableTyped, NEW t \in Txns, NEW o \in Orders
    PROVE  Written(t, row[o]) \in Rows
<1>1. now \in Times /\ None \in Times /\ row[o].first \in Times /\ row[o].changed \in Times
  BY NoneIsNoOrder DEF TableTyped, Times, Rows
<1> QED
  BY <1>1 DEF Written, Rows, Txns

LEMMA FirstUnprintedIs ==
    ASSUME NEW o \in FirstUnprinted
    PROVE  o \in Orders /\ ~row[o].label
BY InTabsSubset DEF FirstUnprinted, Unprinted

(* A dialog opens for orders the operator picked, or for unprinted ones.    *)
LEMMA DialogsOpenFor ==
    ASSUME NEW d \in Desks, AskUnprinted(d) \/ \E S \in Selections : AskSelected(d, S)
    PROVE  \E ids \in SUBSET Orders, picked \in BOOLEAN :
               /\ OpenDialog(d, ids, picked)
               /\ picked \/ \A o \in ids : ~row[o].label
<1>1. FirstUnprinted \in SUBSET Orders
  BY FirstUnprintedIs
<1> QED
  BY <1>1, FirstUnprintedIs, DeskAssumption DEF AskUnprinted, AskSelected

LEMMA TableKept ==
    ASSUME Typed, [Next]_vars
    PROVE  TableTyped'
<1> USE DEF Typed, TableTyped
<1>1. CASE UNCHANGED vars
  BY <1>1 DEF vars, bigseller, dialogs
<1>2. CASE Tick
  BY <1>2, DeskAssumption DEF Tick, bigseller, dialogs
<1>3. CASE ReadRows \/ ReadTotal \/ CloseTab \/ Poll \/ \E t \in Tabs : OpenTab(t)
  BY <1>3 DEF ReadRows, ReadTotal, CloseTab, Poll, OpenTab, bigseller, dialogs
<1>4. ASSUME NEW o \in Orders, Place(o)
      PROVE  TableTyped'
  <2>1. now \in Times /\ "new" \in States
    BY DEF Times, States
  <2> QED
    BY <1>4, <2>1 DEF Place, dialogs
<1>5. ASSUME NEW o \in Orders, Archive(o)
      PROVE  TableTyped'
  <2>1. [row EXCEPT ![o].state = "archived"] \in [Orders -> Rows]
    BY DEF Rows
  <2> QED
    BY <1>5, <2>1 DEF Archive, bigseller, dialogs
<1>6. ASSUME NEW o \in Orders, NEW s \in States, Move(o, s)
      PROVE  TableTyped'
  BY <1>6 DEF Move, dialogs
<1>7. ASSUME NEW w \in Writers, NEW o \in Orders, Upsert(w, o)
      PROVE  TableTyped'
  BY <1>7 DEF Upsert, bigseller, dialogs
<1>8. ASSUME NEW w \in Writers, Commit(w)
      PROVE  TableTyped'
  <2>1. open[w] \in Txns /\ open[w].order \in Orders
    BY <1>8 DEF OpenTyped, Commit
  <2>2. Written(open[w], row[open[w].order]) \in Rows
    BY <2>1, WrittenTyped
  <2> QED
    BY <1>8, <2>1, <2>2 DEF Commit, bigseller
<1>9. ASSUME NEW w \in Writers, Abort(w)
      PROVE  TableTyped'
  BY <1>9, DeskAssumption DEF Abort, Fault, bigseller, dialogs
<1>10. CASE Printing
  <2>1. ASSUME NEW d \in Desks,
               \/ AskUnprinted(d) \/ \E S \in Selections : AskSelected(d, S)
               \/ Close(d) \/ Wave(d)
        PROVE  TableTyped'
    BY <2>1 DEF AskUnprinted, AskSelected, OpenDialog, Close, Wave, others, bigseller
  <2>2. ASSUME NEW c \in calls, Prepared(c) \/ PrepareRefused(c) \/ PrepareFails(c)
        PROVE  TableTyped'
    BY <2>2, DeskAssumption DEF Prepared, PrepareRefused, PrepareFails, Fault, others,
       bigseller
  <2>3. ASSUME NEW j \in jobs, Confirm(j) \/ ConfirmLost(j) \/ Mark(j) \/ MarkFails(j)
        PROVE  TableTyped'
    <3>1. j.ids \subseteq Orders
      BY DEF DialogsTyped, Jobs
    <3>2. CASE Confirm(j) \/ ConfirmLost(j)
      BY <3>1, <3>2, DeskAssumption DEF Confirm, ConfirmLost, Fault, others, bigseller
    <3>3. CASE Mark(j)
      <4>1. \A o \in Orders : [row[o] EXCEPT !.label = TRUE] \in Rows
        BY DEF Rows
      <4> QED
        BY <3>3, <4>1 DEF Mark, others, bigseller
    <3>4. CASE MarkFails(j)
      BY <3>4, DeskAssumption DEF MarkFails, Fault, others, bigseller
    <3> QED
      BY <2>3, <3>2, <3>3, <3>4
  <2> QED
    BY <1>10, <2>1, <2>2, <2>3 DEF Printing
<1> QED
  BY <1>1, <1>2, <1>3, <1>4, <1>5, <1>6, <1>7, <1>8, <1>9, <1>10, BesideWriters
     DEF Next, Syncing

LEMMA FeedKept ==
    ASSUME Typed, [Next]_vars
    PROVE  feed' \in Feeds
<1>1. CASE \/ \E t \in Tabs : OpenTab(t)
           \/ ReadRows \/ ReadTotal \/ CloseTab
  BY <1>1, FeedTyped
<1>2. CASE feed' = feed
  BY <1>2 DEF Typed
<1>3. ASSUME NEW table, NEW n, feed' = Follow(table, n)
      PROVE  feed' \in Feeds
  BY <1>3, FollowTyped DEF Typed
<1>4. CASE Tick \/ \E o \in Orders : Archive(o)
  BY <1>3, <1>4 DEF Tick, Archive
<1>5. ASSUME NEW w \in Writers, Commit(w)
      PROVE  feed' \in Feeds
  BY <1>3, <1>5 DEF Commit
<1>6. CASE Printing
  BY <1>2, <1>6 DEF Printing, AskUnprinted, AskSelected, OpenDialog, Close,
     Wave, Prepared, PrepareRefused, PrepareFails, Confirm, ConfirmLost, Mark,
     MarkFails, others
<1>7. CASE UNCHANGED vars \/ Poll \/ \E o \in Orders : Place(o) \/ \E s \in States : Move(o, s)
  BY <1>2, <1>7 DEF vars, Poll, Place, Move
<1>8. ASSUME NEW w \in Writers, Abort(w) \/ \E o \in Orders : Upsert(w, o)
      PROVE  feed' \in Feeds
  BY <1>2, <1>8 DEF Abort, Upsert
<1> QED
  BY <1>1, <1>4, <1>5, <1>6, <1>7, <1>8, BesideWriters DEF Next, Syncing, Typed

LEMMA OpenKept ==
    ASSUME Typed, lastId \in Nat, [Next]_vars
    PROVE  OpenTyped'
<1>1. CASE open' = open
  BY <1>1, NoTxn' = NoTxn DEF Typed, OpenTyped
<1>2. ASSUME NEW w \in Writers, Commit(w) \/ Abort(w)
      PROVE  OpenTyped'
  <2>1. open' = [open EXCEPT ![w] = NoTxn]
    BY <1>2 DEF Commit, Abort
  <2>2. NoTxn \in Txns
    BY NoneIsNoOrder DEF NoTxn, Txns, States
  <2> QED
    BY <2>1, <2>2 DEF Typed, OpenTyped
<1>3. ASSUME NEW w \in Writers, NEW o \in Orders, Upsert(w, o)
      PROVE  OpenTyped'
  <2>1. PICK ordered \in Times, ids \in SUBSET Nat :
          open' = [open EXCEPT ![w] = [order |-> o, state |-> truth[o], ordered |-> ordered,
                                       label |-> o \in marked, ids |-> ids]]
    <3>1. (IF o \in Undated THEN None ELSE placed[o]) \in Times
      BY NoneIsNoOrder DEF Typed, TableTyped
    <3>2. {lastId + 1} \in SUBSET Nat /\ {} \in SUBSET Nat
      OBVIOUS
    <3> QED
      BY <1>3, <3>1, <3>2 DEF Upsert
  <2>2. (o \in marked) \in BOOLEAN
    OBVIOUS
  <2>3. [order |-> o, state |-> truth[o], ordered |-> ordered,
         label |-> o \in marked, ids |-> ids] \in Txns
    BY <2>2 DEF Txns, Typed, TableTyped
  <2> QED
    BY <2>1, <2>3 DEF Typed, OpenTyped
<1>4. CASE Printing
  BY <1>1, <1>4 DEF Printing, AskUnprinted, AskSelected, OpenDialog, Close,
     Wave, Prepared, PrepareRefused, PrepareFails, Confirm, ConfirmLost, Mark,
     MarkFails, others
<1>5. CASE \/ UNCHANGED vars \/ Tick \/ ReadRows \/ ReadTotal \/ CloseTab \/ Poll
           \/ \E t \in Tabs : OpenTab(t)
           \/ \E o \in Orders : Place(o) \/ Archive(o) \/ \E s \in States : Move(o, s)
  BY <1>1, <1>5 DEF vars, Tick, ReadRows, ReadTotal, CloseTab, Poll, OpenTab, Place,
     Archive, Move
<1> QED
  BY <1>2, <1>3, <1>4, <1>5, BesideWriters DEF Next, Syncing, Typed

LEMMA DialogsKept ==
    ASSUME Typed, [Next]_vars
    PROVE  DialogsTyped'
<1>1. CASE UNCHANGED <<desk, calls, jobs, printed, again>>
  BY <1>1 DEF Typed, DialogsTyped
<1>2. ASSUME NEW d \in Desks, NEW ids \in SUBSET Orders, NEW picked \in BOOLEAN,
             OpenDialog(d, ids, picked)
      PROVE  DialogsTyped'
  <2>1. /\ calls' = calls \cup {[desk |-> d, ids |-> ids]}
        /\ desk' = [q \in Desks |->
             IF q = d THEN [step |-> "preparing", picked |-> picked, ids |-> ids,
                            labels |-> {}, shared |-> ids \cap InHand(d)]
             ELSE [desk[q] EXCEPT !.shared = desk[q].shared
                                             \cup (ids \cap desk[q].ids)]]
    BY <1>2 DEF OpenDialog
  <2>2. [step |-> "preparing", picked |-> picked, ids |-> ids, labels |-> {},
         shared |-> ids \cap InHand(d)] \in Dialogs
    BY DEF Dialogs
  <2>3. \A q \in Desks : [desk[q] EXCEPT !.shared = desk[q].shared
                                                  \cup (ids \cap desk[q].ids)] \in Dialogs
    BY DEF Dialogs, Typed, DialogsTyped
  <2>4. desk' \in [Desks -> Dialogs]
    BY <2>1, <2>2, <2>3
  <2>5. calls' \subseteq Calls
    BY <2>1 DEF Calls, Typed, DialogsTyped
  <2> QED
    BY <1>2, <2>4, <2>5 DEF OpenDialog, Typed, DialogsTyped
<1>3. ASSUME NEW d \in Desks, Close(d)
      PROVE  DialogsTyped'
  <2>1. Closed \in Dialogs
    BY DEF Closed, Dialogs
  <2> QED
    BY <1>3, <2>1 DEF Close, Typed, DialogsTyped
<1>4. ASSUME NEW d \in Desks, Wave(d)
      PROVE  DialogsTyped'
  <2>1. desk[d] \in Dialogs
    BY DEF Typed, DialogsTyped
  <2>2. desk[d].labels \subseteq Orders /\ desk[d].ids \subseteq Orders
    BY <2>1 DEF Dialogs
  <2>3. [desk[d] EXCEPT !.step = "sent"] \in Dialogs
    BY <2>1 DEF Dialogs
  <2>4. desk' = [desk EXCEPT ![d] = [desk[d] EXCEPT !.step = "sent"]]
    BY <1>4, <2>1 DEF Wave, Typed, DialogsTyped
  <2> QED
    BY <1>4, <2>2, <2>3, <2>4 DEF Wave, Typed, DialogsTyped, Jobs
<1>5. ASSUME NEW c \in calls, Prepared(c)
      PROVE  DialogsTyped'
  <2>1. c.desk \in Desks /\ desk[c.desk] \in Dialogs /\ c.ids \subseteq Orders
    BY DEF Typed, DialogsTyped, Calls
  <2>2. PICK answer \in SUBSET Orders :
          \/ desk' = desk
          \/ desk' = [desk EXCEPT ![c.desk].step = "ready", ![c.desk].labels = answer]
    BY <1>5, <2>1 DEF Prepared
  <2>3. desk' \in [Desks -> Dialogs]
    BY <2>1, <2>2 DEF Dialogs, Typed, DialogsTyped
  <2> QED
    BY <1>5, <2>3 DEF Prepared, Typed, DialogsTyped
<1>6. ASSUME NEW c \in calls, PrepareFails(c) \/ PrepareRefused(c)
      PROVE  DialogsTyped'
  BY <1>6 DEF PrepareFails, PrepareRefused, Typed, DialogsTyped
<1>7. ASSUME NEW j \in jobs, Confirm(j) \/ ConfirmLost(j) \/ Mark(j) \/ MarkFails(j)
      PROVE  DialogsTyped'
  <2>1. j \in Jobs
    BY DEF Typed, DialogsTyped
  <2>2. j.labels \subseteq Orders /\ [j EXCEPT !.step = "mark"] \in Jobs
    BY <2>1 DEF Jobs
  <2> QED
    BY <1>7, <2>1, <2>2 DEF Confirm, ConfirmLost, Mark, MarkFails, Typed, DialogsTyped
<1>8. ASSUME NEW w \in Writers, Commit(w)
      PROVE  DialogsTyped'
  <2>1. open[w].order \in Orders
    BY <1>8 DEF Commit, Typed, OpenTyped
  <2> QED
    BY <1>8, <2>1 DEF Commit, Typed, DialogsTyped
<1>9. ASSUME NEW w \in Writers, Abort(w) \/ \E o \in Orders : Upsert(w, o)
      PROVE  DialogsTyped'
  BY <1>1, <1>9 DEF Abort, Upsert, dialogs
<1>10. CASE \/ UNCHANGED vars \/ Tick \/ ReadRows \/ ReadTotal \/ CloseTab \/ Poll
            \/ \E t \in Tabs : OpenTab(t)
            \/ \E o \in Orders : Place(o) \/ Archive(o) \/ \E s \in States : Move(o, s)
  BY <1>1, <1>10 DEF vars, Tick, ReadRows, ReadTotal, CloseTab, Poll, OpenTab, Place,
     Archive, Move, dialogs
<1> QED
  BY <1>2, <1>3, <1>4, <1>5, <1>6, <1>7, <1>8, <1>9, <1>10, DialogsOpenFor, BesideWriters
     DEF Next, Syncing, Printing, Typed

-----------------------------------------------------------------------------
(* The events and their consumer.                                          *)

LEMMA UpsertDraws ==
    ASSUME Typed, EventInv, NEW w \in Writers, NEW o \in Orders, Upsert(w, o)
    PROVE  EventInv'
<1> USE DEF EventInv, IdsDrawn, IdsApart, CursorStands, MissedOnlyIfLate
<1>1. PICK ids \in SUBSET Nat :
        /\ open'[w].ids = ids /\ \A v \in Writers \ {w} : open'[v] = open[v]
        /\ \/ ids = {} /\ lastId' = lastId
           \/ ids = {lastId + 1} /\ lastId' = lastId + 1
  BY DEF Upsert, Typed, OpenTyped
<1>2. UNCHANGED <<events, late, cursor, got>>
  BY DEF Upsert, consumer
<1>3. lastId \in Nat /\ lastId' \in Nat /\ 1 .. lastId \subseteq 1 .. lastId'
  BY <1>1
<1>4. \A v \in Writers : open[v].ids \subseteq 1 .. lastId
  OBVIOUS
<1>5. lastId + 1 \notin 1 .. lastId
  BY <1>3
<1>6. CASE ids = {} /\ lastId' = lastId
  <2>1. IdsDrawn'
    BY <1>1, <1>2, <1>6
  <2>2. IdsApart'
    BY <1>1, <1>2, <1>6
  <2> QED
    BY <1>2, <2>1, <2>2
<1>7. CASE ids = {lastId + 1} /\ lastId' = lastId + 1
  <2>1. IdsDrawn'
    <3>1. lastId + 1 \in 1 .. lastId'
      BY <1>3, <1>7
    <3>2. \A v \in Writers : open'[v].ids = {} \/ \E i \in 1 .. lastId' : open'[v].ids = {i}
      BY <1>1, <1>3, <1>7, <3>1
    <3> QED
      BY <1>2, <1>3, <3>2
  <2>2. IdsApart'
    BY <1>1, <1>2, <1>4, <1>5, <1>7
  <2> QED
    BY <1>2, <2>1, <2>2
<1> QED
  BY <1>1, <1>6, <1>7

LEMMA CommitTells ==
    ASSUME Typed, EventInv, NEW w \in Writers, Commit(w)
    PROVE  EventInv'
<1> USE DEF EventInv, IdsDrawn, IdsApart, CursorStands, MissedOnlyIfLate
<1> DEFINE new == {[id |-> i, order |-> open[w].order] : i \in open[w].ids}
<1>1. /\ UNCHANGED <<lastId, cursor, got>> /\ events' = events \cup new
      /\ late' = late \cup {i \in open[w].ids : \E e \in events : e.id > i}
      /\ open'[w].ids = {} /\ \A v \in Writers \ {w} : open'[v] = open[v]
  BY DEF Commit, consumer, Typed, OpenTyped, NoTxn
<1>2. open[w].order \in Orders /\ open[w].ids \subseteq 1 .. lastId
  BY DEF Commit, Typed, OpenTyped
<1>3. new \subseteq Events /\ \A e \in new : e.id \in open[w].ids
  BY <1>2 DEF Events
<1>4. new = {} \/ \E x : new = {x}
  <2>1. ASSUME NEW i, open[w].ids = {i} PROVE \E x : new = {x}
    <3>1. new = {[id |-> i, order |-> open[w].order]}
      BY <2>1
    <3> QED
      BY <3>1
  <2> QED
    BY <2>1
<1> HIDE DEF new
<1>5. IsFiniteSet(events')
  <2>1. events' = events \/ \E x : events' = events \cup {x}
    BY <1>1, <1>4
  <2>2. IsFiniteSet(events)
    OBVIOUS
  <2> QED
    BY <2>1, <2>2, FS_AddElement
<1>6. IdsDrawn'
  <2>1. \A v \in Writers : open'[v].ids = {} \/ \E i \in 1 .. lastId : open'[v].ids = {i}
    BY <1>1
  <2>2. events' \subseteq Events /\ \A e \in events' : e.id \in 1 .. lastId
    BY <1>1, <1>2, <1>3
  <2>3. late' \subseteq 1 .. lastId
    BY <1>1, <1>2
  <2> QED
    BY <1>1, <1>5, <2>1, <2>2, <2>3
<1>7. IdsApart'
  BY <1>1, <1>3
<1>8. CursorStands'
  BY <1>1
<1>9. ASSUME NEW e \in new, e.id <= cursor
      PROVE  e.id \in late'
  <2>1. e.id \in 1 .. lastId /\ e.id \in open[w].ids
    BY <1>2, <1>3
  <2>2. PICK f \in events : f.id = cursor
    BY <1>9, <2>1
  <2>3. f.id # e.id /\ f.id \in 1 .. lastId
    BY <2>1
  <2>4. f.id > e.id
    BY <1>9, <2>1, <2>2, <2>3
  <2> QED
    BY <1>1, <2>1, <2>4
<1>10. MissedOnlyIfLate'
  BY <1>1, <1>9
<1> QED
  BY <1>6, <1>7, <1>8, <1>10

\* What is up to an event that was answered was answered too.
LEMMA AnswerIsFirst ==
    ASSUME EventInv, NEW a \in Answer, NEW e \in events, cursor < e.id, e.id <= a.id
    PROVE  e \in Answer \/ e.id = a.id
<1> DEFINE UpTo(x) == {f \in events : f.id > cursor /\ f.id < x.id}
<1>1. a \in events /\ Cardinality(UpTo(a)) < Limit /\ IsFiniteSet(events)
  BY DEF Answer, EventInv, IdsDrawn
<1>2. \A f \in events : f.id \in Nat
  BY DEF EventInv, IdsDrawn
<1>3. UpTo(e) \subseteq UpTo(a) /\ UpTo(a) \subseteq events
  BY <1>1, <1>2
<1> HIDE DEF UpTo
<1>4. IsFiniteSet(UpTo(a))
  BY <1>1, <1>3, FS_Subset
<1>5. /\ IsFiniteSet(UpTo(e)) /\ Cardinality(UpTo(e)) <= Cardinality(UpTo(a))
  BY <1>3, <1>4, FS_Subset
<1>6. Cardinality(UpTo(e)) \in Nat /\ Cardinality(UpTo(a)) \in Nat
  BY <1>4, <1>5, FS_CardinalityType
<1>7. Cardinality(UpTo(e)) < Limit
  BY <1>1, <1>5, <1>6, DeskAssumption
<1>8. Answer = {f \in events : f.id > cursor /\ Cardinality(UpTo(f)) < Limit}
  BY DEF Answer, UpTo
<1>9. e.id > cursor
  OBVIOUS
<1> QED
  BY <1>7, <1>8, <1>9

LEMMA PollGets ==
    ASSUME EventInv, Poll
    PROVE  EventInv'
<1> USE DEF EventInv, IdsDrawn, IdsApart, CursorStands, MissedOnlyIfLate
<1>1. /\ UNCHANGED <<lastId, events, late, open>>
      /\ cursor' = cursor \/ \E a \in Answer : cursor' = a.id
      /\ got' = got \cup {e.id : e \in Answer}
  BY DEF Poll, outbox
<1>2. Answer \subseteq events
  BY DEF Answer
<1>3. IdsDrawn' /\ IdsApart'
  BY <1>1, <1>2
<1>4. CursorStands'
  BY <1>1, <1>2
<1>5. CASE cursor' = cursor
  BY <1>1, <1>3, <1>4, <1>5
<1>6. ASSUME NEW a \in Answer, cursor' = a.id
      PROVE  MissedOnlyIfLate'
  <2> SUFFICES ASSUME NEW e \in events, e.id <= a.id
               PROVE  e.id \in got' \cup late
    BY <1>1, <1>6
  <2>1. e.id \in Nat /\ cursor \in Nat
    OBVIOUS
  <2>2. CASE e.id <= cursor
    BY <1>1, <2>2
  <2>3. CASE cursor < e.id
    <3>1. e \in Answer \/ e.id = a.id
      BY <2>3, AnswerIsFirst
    <3> QED
      BY <1>1, <3>1
  <2> QED
    BY <2>1, <2>2, <2>3
<1> QED
  BY <1>1, <1>3, <1>4, <1>5, <1>6

LEMMA EventsKept ==
    ASSUME Typed, EventInv, [Next]_vars
    PROVE  EventInv'
<1>1. CASE UNCHANGED <<open, outbox, consumer>>
  BY <1>1 DEF EventInv, IdsDrawn, IdsApart, CursorStands, MissedOnlyIfLate, outbox, consumer
<1>2. ASSUME NEW w \in Writers, Abort(w)
      PROVE  EventInv'
  <2>1. /\ UNCHANGED <<outbox, consumer>> /\ open'[w].ids = {}
        /\ \A v \in Writers \ {w} : open'[v] = open[v]
    BY <1>2 DEF Abort, Typed, OpenTyped, NoTxn
  <2> QED
    BY <2>1 DEF EventInv, IdsDrawn, IdsApart, CursorStands, MissedOnlyIfLate, outbox, consumer
<1>3. CASE Printing
  BY <1>1, <1>3 DEF Printing, AskUnprinted, AskSelected, OpenDialog, Close,
     Wave, Prepared, PrepareRefused, PrepareFails, Confirm, ConfirmLost, Mark,
     MarkFails, others
<1>4. CASE \/ UNCHANGED vars \/ Tick \/ ReadRows \/ ReadTotal \/ CloseTab
           \/ \E t \in Tabs : OpenTab(t)
           \/ \E o \in Orders : Place(o) \/ Archive(o) \/ \E s \in States : Move(o, s)
  BY <1>1, <1>4 DEF vars, Tick, ReadRows, ReadTotal, CloseTab, OpenTab, Place, Archive, Move
<1> QED
  BY <1>2, <1>3, <1>4, UpsertDraws, CommitTells, PollGets, BesideWriters
     DEF Next, Syncing, Typed

-----------------------------------------------------------------------------
(* The labels.                                                             *)

LEMMA AskShares ==
    ASSUME Typed, LabelInv, NEW d \in Desks, NEW ids \in SUBSET Orders,
           NEW picked \in BOOLEAN, OpenDialog(d, ids, picked),
           picked \/ \A o \in ids : ~row[o].label
    PROVE  LabelInv'
<1> USE DEF LabelInv, MarkedOrComing, SharedKnown, Excused
<1>1. UNCHANGED <<row, jobs, printed, again>>
  BY DEF OpenDialog
<1>2. /\ desk'[d].ids = ids /\ desk'[d].shared = ids \cap InHand(d)
      /\ desk'[d].picked = picked
      /\ \A q \in Desks \ {d} :
            /\ desk'[q].ids = desk[q].ids /\ desk'[q].step = desk[q].step
            /\ desk'[q].picked = desk[q].picked
            /\ desk'[q].shared = desk[q].shared \cup (ids \cap desk[q].ids)
  BY DEF OpenDialog, Typed, DialogsTyped, Dialogs
<1>3. \A q \in Desks \ {d} : desk[q].ids \subseteq InHand(d)
  BY DEF InHand
<1>4. \A j \in jobs : j.ids \subseteq InHand(d)
  <2> DEFINE coming == UNION {k.ids : k \in jobs}
  <2>1. ASSUME NEW j \in jobs, NEW o \in j.ids
        PROVE  o \in coming
    <3>1. j.ids \in {k.ids : k \in jobs}
      OBVIOUS
    <3> QED
      BY <3>1, Zenon
  <2>2. \A o \in coming : o \in InHand(d)
    <3>1. InHand(d) = (UNION {desk[q].ids : q \in Desks \ {d}}) \cup coming
      BY Zenon DEF InHand
    <3> HIDE DEF coming
    <3> QED
      BY <3>1
  <2> HIDE DEF coming
  <2> QED
    BY <2>1, <2>2
<1>5. picked \/ ids \cap printed \subseteq again \cup InHand(d)
  BY <1>4
<1>6. SharedKnown'
  BY <1>2, <1>3
<1>7. Excused'
  BY <1>1, <1>2, <1>5
<1> QED
  BY <1>1, <1>6, <1>7

LEMMA WavePrints ==
    ASSUME Typed, LabelInv, NEW d \in Desks, Wave(d)
    PROVE  LabelInv'
<1> USE DEF LabelInv, MarkedOrComing, SharedKnown, Excused
<1> DEFINE labels == desk[d].labels
           ids == desk[d].ids
           job == [ids |-> ids, labels |-> labels, step |-> "confirm"]
<1>1. /\ row' = row /\ jobs' = jobs \cup {job} /\ printed' = printed \cup labels
      /\ again' = (again \ labels) \cup (labels \ ids)
  BY DEF Wave, others
<1>2. /\ desk'[d].step = "sent"
      /\ \A q \in Desks : /\ desk'[q].ids = desk[q].ids /\ desk'[q].shared = desk[q].shared
                          /\ desk'[q].picked = desk[q].picked
      /\ \A q \in Desks \ {d} : desk'[q] = desk[q]
  BY DEF Wave, Typed, DialogsTyped, Dialogs
<1>3. job.ids = ids /\ job.labels = labels
  OBVIOUS
<1> HIDE DEF job
<1>4. MarkedOrComing'
  BY <1>1, <1>3
<1>5. SharedKnown'
  BY <1>2
<1>6. Excused'
  <2> SUFFICES ASSUME NEW q \in Desks \ {d}, desk[q].step \in {"preparing", "ready"},
                      ~desk[q].picked,
                      NEW o \in desk[q].ids \cap printed'
               PROVE  o \in again' \cup desk[q].shared
    BY <1>2
  <2>1. CASE o \in labels
    BY <1>1, <2>1
  <2>2. CASE o \notin labels
    BY <1>1, <2>2
  <2> QED
    BY <2>1, <2>2
<1> QED
  BY <1>4, <1>5, <1>6

LEMMA JobsEnd ==
    ASSUME Typed, LabelInv, NEW j \in jobs,
           Confirm(j) \/ ConfirmLost(j) \/ Mark(j) \/ MarkFails(j)
    PROVE  LabelInv'
<1> USE DEF LabelInv, MarkedOrComing, SharedKnown, Excused
<1>1. UNCHANGED <<desk, printed>> /\ again \subseteq again'
  BY DEF Confirm, ConfirmLost, Mark,
     MarkFails, others
<1>2. SharedKnown' /\ Excused'
  BY <1>1
<1>3. CASE Confirm(j)
  <2> DEFINE k == [j EXCEPT !.step = "mark"]
  <2>1. j \in Jobs
    BY DEF Typed, DialogsTyped
  <2>2. k.ids = j.ids /\ k.labels = j.labels
    BY <2>1 DEF Jobs
  <2>3. jobs' = (jobs \ {j}) \cup {k} /\ row' = row /\ again' = again
    BY <1>3 DEF Confirm, others
  <2> HIDE DEF k
  <2> QED
    BY <1>1, <1>2, <2>2, <2>3
<1>4. CASE ConfirmLost(j) \/ MarkFails(j)
  <2>1. jobs' = jobs \ {j} /\ row' = row /\ again' = again \cup j.labels
    BY <1>4 DEF ConfirmLost, MarkFails, others
  <2> QED
    BY <1>1, <1>2, <2>1
<1>5. CASE Mark(j)
  <2>1. /\ jobs' = jobs \ {j} /\ again' = again
        /\ \A o \in Orders : row'[o].label <=> (row[o].label \/ o \in j.ids)
    BY <1>5 DEF Mark, Typed, TableTyped, Rows
  <2>2. printed \subseteq Orders
    BY DEF Typed, DialogsTyped
  <2> QED
    BY <1>1, <1>2, <2>1, <2>2
<1> QED
  BY <1>3, <1>4, <1>5

LEMMA LabelsKept ==
    ASSUME Typed, LabelInv, [Next]_vars
    PROVE  LabelInv'
<1> USE DEF LabelInv, MarkedOrComing, SharedKnown, Excused
<1>1. CASE UNCHANGED <<row, desk, jobs, printed, again>>
  BY <1>1
<1>2. ASSUME NEW d \in Desks, Close(d)
      PROVE  LabelInv'
  <2>1. /\ UNCHANGED <<row, jobs, printed, again>>
        /\ desk'[d].step = "closed" /\ desk'[d].ids = {}
        /\ \A q \in Desks \ {d} : desk'[q] = desk[q]
    BY <1>2 DEF Close, Closed, others, Typed, DialogsTyped
  <2> QED
    BY <2>1
<1>3. ASSUME NEW c \in calls, Prepared(c)
      PROVE  LabelInv'
  <2>1. c.desk \in Desks
    BY DEF Typed, DialogsTyped, Calls
  <2>2. /\ UNCHANGED <<row, jobs, printed, again>>
        /\ \A q \in Desks : /\ desk'[q].ids = desk[q].ids
                            /\ desk'[q].shared = desk[q].shared
                            /\ desk'[q].picked = desk[q].picked
                            /\ desk'[q].step \in {"preparing", "ready"}
                                  => desk[q].step \in {"preparing", "ready"}
    BY <1>3, <2>1 DEF Prepared, Typed, DialogsTyped, Dialogs
  <2> QED
    BY <2>2
<1>4. ASSUME NEW c \in calls, PrepareFails(c) \/ PrepareRefused(c)
      PROVE  LabelInv'
  BY <1>1, <1>4 DEF PrepareFails, PrepareRefused
<1>5. ASSUME NEW w \in Writers, Commit(w)
      PROVE  LabelInv'
  <2> DEFINE t == open[w]
  <2>1. t.order \in Orders
    BY <1>5 DEF Commit, Typed, OpenTyped
  <2>2. UNCHANGED <<desk, jobs, printed>>
    BY <1>5 DEF Commit
  <2>3. /\ row'[t.order].label = t.label
        /\ \A o \in Orders \ {t.order} : row'[o] = row[o]
    BY <1>5, <2>1 DEF Commit, Written, Typed, TableTyped
  <2>4. again' = IF row[t.order].label /\ ~t.label THEN again \cup {t.order} ELSE again
    BY <1>5 DEF Commit
  <2>5. printed \subseteq Orders
    BY DEF Typed, DialogsTyped
  <2> HIDE DEF t
  <2> QED
    BY <2>2, <2>3, <2>4, <2>5
<1>6. ASSUME NEW o \in Orders, Archive(o)
      PROVE  LabelInv'
  <2>1. UNCHANGED <<desk, jobs, printed, again>>
    BY <1>6 DEF Archive, dialogs
  <2>2. \A p \in Orders : row'[p].label = row[p].label
    BY <1>6 DEF Archive, Typed, TableTyped, Rows
  <2>3. printed \subseteq Orders
    BY DEF Typed, DialogsTyped
  <2> QED
    BY <2>1, <2>2, <2>3
<1>7. ASSUME NEW w \in Writers, Abort(w) \/ \E o \in Orders : Upsert(w, o)
      PROVE  LabelInv'
  BY <1>1, <1>7 DEF Abort, Upsert, dialogs
<1>8. CASE \/ UNCHANGED vars \/ Tick \/ ReadRows \/ ReadTotal \/ CloseTab \/ Poll
           \/ \E t \in Tabs : OpenTab(t)
           \/ \E o \in Orders : Place(o) \/ \E s \in States : Move(o, s)
  BY <1>1, <1>8 DEF vars, Tick, ReadRows, ReadTotal, CloseTab, Poll, OpenTab, Place,
     Move, dialogs
<1> QED
  <2>1. ASSUME NEW d \in Desks,
               AskUnprinted(d) \/ \E S \in Selections : AskSelected(d, S)
        PROVE  LabelInv'
    BY <2>1, DialogsOpenFor, AskShares
  <2> QED
    BY <1>2, <1>3, <1>4, <1>5, <1>6, <1>7, <1>8, <2>1, WavePrints, JobsEnd,
       BesideWriters DEF Next, Syncing, Printing, Typed

-----------------------------------------------------------------------------
(* The theorems.                                                           *)

LEMMA InitIsGood == Init => IInv
<1> SUFFICES ASSUME Init PROVE IInv
  OBVIOUS
<1>1. 0 \in 0 .. Slots - 1 /\ 0 \in 0 .. MaxFaults
  BY DeskAssumption
<1>2. Absent \in Rows
  BY NoneIsNoOrder DEF Absent, Rows, States
<1>3. TableTyped
  BY <1>1, <1>2, NoneIsNoOrder DEF Init, TableTyped, States
<1>4. NoTxn \in Txns
  BY NoneIsNoOrder DEF NoTxn, Txns, States
<1>5. OpenTyped
  BY <1>4 DEF Init, OpenTyped
<1>6. feed \in Feeds
  BY DEF Init, Feeds, Tabs
<1>7. DialogsTyped
  BY DEF Init, DialogsTyped, Dialogs, Closed
<1>8. EventInv
  BY FS_EmptySet
     DEF Init, EventInv, IdsDrawn, IdsApart, CursorStands, MissedOnlyIfLate, NoTxn
<1>9. LabelInv
  BY DEF Init, LabelInv, MarkedOrComing, SharedKnown, Excused, Closed
<1> QED
  BY <1>3, <1>5, <1>6, <1>7, <1>8, <1>9 DEF IInv, Typed

\* The inductive invariant: types, the ids of the outbox, and what the desks
\* know of the labels.
THEOREM InvariantHolds == Spec => []IInv
<1>1. IInv /\ [Next]_vars => IInv'
  <2> SUFFICES ASSUME IInv, [Next]_vars PROVE IInv'
    OBVIOUS
  <2>1. lastId \in Nat
    BY DEF IInv, EventInv, IdsDrawn
  <2> QED
    BY <2>1, TableKept, OpenKept, FeedKept, DialogsKept, EventsKept, LabelsKept
       DEF IInv, Typed
<1> QED
  BY <1>1, InitIsGood, PTL DEF Spec

\* Every variable of Desk keeps its type.
THEOREM TypeCorrect == Spec => []TypeOK
<1>1. IInv => TypeOK
  <2> SUFFICES ASSUME IInv PROVE TypeOK
    OBVIOUS
  <2> USE DEF IInv, Typed, EventInv, IdsDrawn
  <2>1. cursor \in 0 .. lastId
    BY DEF CursorStands
  <2>2. open \in [Writers -> [order : Orders \cup {None}, state : States, ordered : Times,
                             label : BOOLEAN, ids : SUBSET (1 .. lastId)]]
    <3>1. \A w \in Writers : open[w].ids \subseteq 1 .. lastId
      OBVIOUS
    <3> QED
      BY <3>1 DEF OpenTyped, Txns
  <2> QED
    BY <2>1, <2>2 DEF TypeOK, TableTyped, DialogsTyped, Calls, Jobs
<1> QED
  BY <1>1, InvariantHolds, PTL

\* The cursor passes over an event only when its transaction committed after
\* one with a greater id: one syncer alone hides nothing from a consumer.
THEOREM MissedAreLate == Spec => []MissedOnlyIfLate
<1>1. IInv => MissedOnlyIfLate
  BY DEF IInv, EventInv
<1> QED
  BY <1>1, InvariantHolds, PTL

\* A dialog opened for the unprinted labels prints one again only when its mark
\* was lost or overwritten, the order was in the hands of two dialogs, or the
\* labels were asked for by a dialog opened for others.
THEOREM EveryPrintHasACause == Spec => PrintsHaveACause
<1>1. IInv => \A d \in Desks : Wave(d) /\ ~desk[d].picked =>
         desk[d].labels \cap printed
         \subseteq again \cup desk[d].shared \cup (desk[d].labels \ desk[d].ids)
  BY DEF IInv, LabelInv, Excused, Wave
<1> QED
  BY <1>1, InvariantHolds, PTL DEF PrintsHaveACause

-----------------------------------------------------------------------------
(* The feed: an order is missed when it moves up over the offset of the    *)
(* next page, and for each that leaves the tab only one moves up over it.  *)

(* Orders sorted by their dates d, and the place of an order in a listing. *)
Dates == [Orders -> Times]
Ahead(d, p, o) == d[p] > d[o] \/ (d[p] = d[o] /\ p > o)
AheadOf(d, S, o) == {p \in S : Ahead(d, p, o)}
Rank(d, S, o) == Cardinality(AheadOf(d, S, o))
UpTo(d, S, U, k) == {o \in U : Rank(d, S, o) < k}

-----------------------------------------------------------------------------
(* Listings.                                                               *)

LEMMA DatesAreNumbers ==
    /\ Times \subseteq Int /\ Orders \subseteq Nat
    /\ \A d \in Dates, o \in Orders : d[o] \in Int
BY NoneIsNoOrder, DeskAssumption DEF Times, Dates

LEMMA RankNat ==
    ASSUME NEW S \in SUBSET Orders, NEW d, NEW o
    PROVE  /\ IsFiniteSet(S) /\ IsFiniteSet(AheadOf(d, S, o)) /\ Cardinality(S) \in Nat
           /\ Rank(d, S, o) \in Nat
<1>1. AheadOf(d, S, o) \in SUBSET Orders
  BY DEF AheadOf
<1> QED
  BY <1>1, SubsetCounts DEF Rank

\* Nobody is ahead of himself, so no rank reaches the length of the listing.
LEMMA RankInside ==
    ASSUME NEW d \in Dates, NEW S \in SUBSET Orders, NEW o \in S
    PROVE  Rank(d, S, o) < Cardinality(S)
<1>1. ~Ahead(d, o, o) /\ AheadOf(d, S, o) \subseteq S
  BY DatesAreNumbers DEF Ahead, AheadOf
<1>2. o \notin AheadOf(d, S, o)
  BY <1>1 DEF AheadOf
<1>3. Rank(d, S, o) <= Cardinality(S) /\ (Cardinality(S) = Rank(d, S, o) => S = AheadOf(d, S, o))
  BY <1>1, RankNat, FS_Subset DEF Rank
<1>4. Rank(d, S, o) # Cardinality(S)
  BY <1>2, <1>3
<1> QED
  BY <1>3, <1>4, RankNat

LEMMA RankGrows ==
    ASSUME NEW d \in Dates, NEW S \in SUBSET Orders, NEW o \in S, NEW p \in S,
           Ahead(d, p, o)
    PROVE  Rank(d, S, p) < Rank(d, S, o)
<1>1. ASSUME NEW q \in S, Ahead(d, q, p)
      PROVE  Ahead(d, q, o)
  <2>1. d[q] \in Int /\ d[p] \in Int /\ d[o] \in Int /\ q \in Int /\ p \in Int /\ o \in Int
    BY DatesAreNumbers
  <2> QED
    BY <1>1, <2>1 DEF Ahead
<1>2. AheadOf(d, S, p) \subseteq AheadOf(d, S, o) /\ p \in AheadOf(d, S, o)
  BY <1>1 DEF AheadOf
<1>3. p \notin AheadOf(d, S, p)
  BY DatesAreNumbers DEF Ahead, AheadOf
<1>4. /\ Rank(d, S, p) <= Rank(d, S, o)
      /\ Rank(d, S, o) = Rank(d, S, p) => AheadOf(d, S, o) = AheadOf(d, S, p)
  BY <1>2, RankNat, FS_Subset DEF Rank
<1>5. Rank(d, S, o) # Rank(d, S, p)
  BY <1>2, <1>3, <1>4
<1> QED
  BY <1>4, <1>5, RankNat

LEMMA RanksDiffer ==
    ASSUME NEW d \in Dates, NEW S \in SUBSET Orders, NEW o \in S, NEW p \in S,
           Rank(d, S, o) = Rank(d, S, p)
    PROVE  o = p
<1>1. d[p] \in Int /\ d[o] \in Int /\ p \in Int /\ o \in Int
  BY DatesAreNumbers
<1>2. o = p \/ Ahead(d, o, p) \/ Ahead(d, p, o)
  <2>1. \A a, b, x, y \in Int :
          x = y \/ a > b \/ (a = b /\ x > y) \/ b > a \/ (b = a /\ y > x)
    OBVIOUS
  <2> QED
    BY <1>1, <2>1, Zenon DEF Ahead
<1>3. Rank(d, S, o) \in Nat /\ Rank(d, S, p) \in Nat
  BY RankNat
<1> QED
  BY <1>2, <1>3, RankGrows

\* Of the places from k on, l hold no more than l orders.
LEMMA FewBetween ==
    ASSUME NEW d \in Dates, NEW S \in SUBSET Orders, NEW U \in SUBSET S,
           NEW k \in Nat, NEW l \in Nat,
           \A o \in U : Rank(d, S, o) >= k /\ Rank(d, S, o) < k + l
    PROVE  IsFiniteSet(U) /\ Cardinality(U) <= l
<1> DEFINE T == k .. k + l - 1
           f == [o \in U |-> Rank(d, S, o)]
<1>1. IsFiniteSet(T) /\ Cardinality(T) = l
  BY FS_Interval
<1>2. \A o \in U : Rank(d, S, o) \in T
  BY RankNat
<1>3. f \in [U -> T]
  BY <1>2
<1>4. \A o, p \in U : f[o] = f[p] => o = p
  BY RanksDiffer
<1>5. f \in Injection(U, T)
  BY <1>3, <1>4 DEF Injection, IsInjective
<1> HIDE DEF f, T
<1> QED
  BY <1>1, <1>5, FS_Injection

\* From the listing S to the listing T an order moves up by no more places
\* than orders have left.
LEMMA RankFalls ==
    ASSUME NEW d \in Dates, NEW e \in Dates, NEW S \in SUBSET Orders, NEW T \in SUBSET Orders,
           \A p \in S \cap T : e[p] = d[p], NEW o \in S \cap T
    PROVE  Rank(d, S, o) <= Rank(e, T, o) + Cardinality(S \ T)
<1>1. AheadOf(d, S, o) \subseteq AheadOf(e, T, o) \cup (S \ T)
  BY DEF AheadOf, Ahead
<1> DEFINE A == AheadOf(e, T, o)
           B == S \ T
<1>2. IsFiniteSet(A) /\ IsFiniteSet(B) /\ A \cap B \in SUBSET Orders
  BY SubsetCounts, RankNat
<1>3. IsFiniteSet(A \cup B) /\ Cardinality(A \cup B) = Cardinality(A) + Cardinality(B) - Cardinality(A \cap B)
  BY <1>2, FS_Union
<1>4. Cardinality(A) \in Nat /\ Cardinality(B) \in Nat /\ Cardinality(A \cap B) \in Nat
  BY <1>2, SubsetCounts, FS_CardinalityType
<1>5. Rank(d, S, o) <= Cardinality(A \cup B)
  BY <1>1, <1>3, FS_Subset DEF Rank
<1>6. Rank(d, S, o) \in Nat
  BY RankNat
<1> HIDE DEF A, B
<1>7. Rank(d, S, o) <= Cardinality(A) + Cardinality(B)
  BY <1>3, <1>4, <1>5, <1>6
<1> QED
  BY <1>7 DEF A, B, Rank

LEMMA TwoParts ==
    ASSUME NEW A \in SUBSET Orders, NEW B \in SUBSET Orders, NEW C \in SUBSET (A \cup B)
    PROVE  Cardinality(C) <= Cardinality(A) + Cardinality(B)
<1>1. IsFiniteSet(A) /\ IsFiniteSet(B) /\ A \cap B \in SUBSET Orders
  BY SubsetCounts
<1>2. IsFiniteSet(A \cup B) /\ Cardinality(A \cup B) = Cardinality(A) + Cardinality(B) - Cardinality(A \cap B)
  BY <1>1, FS_Union
<1>3. Cardinality(C) <= Cardinality(A \cup B) /\ C \in SUBSET Orders
  BY <1>2, FS_Subset
<1>4. Cardinality(A) \in Nat /\ Cardinality(B) \in Nat /\ Cardinality(A \cap B) \in Nat
      /\ Cardinality(C) \in Nat
  BY <1>1, <1>3, SubsetCounts
<1> QED
  BY <1>2, <1>3, <1>4

\* Of the orders still in the listing no more get under place k than were
\* there, and one for each that left.
LEMMA FewMoveUp ==
    ASSUME NEW d \in Dates, NEW e \in Dates, NEW S \in SUBSET Orders, NEW T \in SUBSET Orders,
           \A p \in S \cap T : e[p] = d[p], NEW U \in SUBSET S, NEW k \in Nat
    PROVE  Cardinality(UpTo(e, T, U \cap T, k))
           <= Cardinality(UpTo(d, S, U, k)) + Cardinality(S \ T)
<1> DEFINE l == Cardinality(S \ T)
           A == UpTo(d, S, U, k)
           B == {o \in U \cap T : Rank(d, S, o) >= k /\ Rank(d, S, o) < k + l}
           C == UpTo(e, T, U \cap T, k)
<1>1. l \in Nat
  BY SubsetCounts
<1>2. ASSUME NEW o \in C
      PROVE  o \in A \cup B
  <2>1. o \in U \cap T /\ Rank(e, T, o) < k /\ o \in S \cap T
    BY DEF UpTo
  <2>2. Rank(d, S, o) <= Rank(e, T, o) + l
    BY <2>1, RankFalls
  <2>3. Rank(d, S, o) \in Nat /\ Rank(e, T, o) \in Nat
    BY RankNat
  <2>4. Rank(d, S, o) < k + l
    BY <1>1, <2>1, <2>2, <2>3
  <2> QED
    BY <2>1, <2>3, <2>4 DEF UpTo
<1>3. A \in SUBSET Orders /\ B \in SUBSET Orders /\ B \in SUBSET S /\ C \in SUBSET Orders
  BY DEF UpTo
<1>4. Cardinality(B) <= l
  BY <1>1, <1>3, FewBetween
<1>5. Cardinality(C) <= Cardinality(A) + Cardinality(B)
  BY <1>2, <1>3, TwoParts
<1>6. Cardinality(A) \in Nat /\ Cardinality(B) \in Nat /\ Cardinality(C) \in Nat
  BY <1>3, SubsetCounts
<1> HIDE DEF A, B, C, l
<1>7. Cardinality(C) <= Cardinality(A) + l
  BY <1>1, <1>4, <1>5, <1>6
<1> QED
  BY <1>7 DEF A, C, l

-----------------------------------------------------------------------------
(* Dates do not change.                                                    *)

DateOf(o) == IF o \in Undated THEN None ELSE placed[o]

(* A row, and what is about to be written to it, has the date of its order. *)
RowsDated == \A o \in Orders : row[o].state # "absent" =>
                truth[o] # "absent" /\ row[o].ordered = DateOf(o)
OpenDated == \A w \in Writers : open[w] # NoTxn =>
                truth[open[w].order] # "absent" /\ open[w].ordered = DateOf(open[w].order)
DatesStand == RowsDated /\ OpenDated

LEMMA DatedStays ==
    ASSUME Typed, DatesStand, UNCHANGED open,
           \A o \in Orders :
               /\ row'[o].state # "absent" => row[o].state # "absent"
               /\ row'[o].ordered = row[o].ordered
               /\ truth[o] # "absent" => truth'[o] # "absent" /\ placed'[o] = placed[o]
    PROVE  DatesStand'
<1>1. \A w \in Writers : open[w] # NoTxn => open[w].order \in Orders
  BY DEF Typed, OpenTyped
<1>2. NoTxn' = NoTxn
  BY DEF NoTxn
<1>3. OpenDated'
  BY <1>1, <1>2 DEF DatesStand, OpenDated, DateOf
<1>4. RowsDated'
  BY DEF DatesStand, RowsDated, DateOf
<1> QED
  BY <1>3, <1>4 DEF DatesStand

LEMMA DatedKept ==
    ASSUME Typed, DatesStand, [Next]_vars
    PROVE  DatesStand'
<1>1. CASE UNCHANGED <<open, row, truth, placed>>
  BY <1>1, DatedStays
<1>2. ASSUME NEW o \in Orders, Place(o)
      PROVE  DatesStand'
  <2>1. UNCHANGED <<open, row>> /\ truth[o] = "absent"
        /\ \A p \in Orders \ {o} : truth'[p] = truth[p] /\ placed'[p] = placed[p]
    BY <1>2 DEF Place, Typed, TableTyped
  <2> QED
    BY <2>1, DatedStays
<1>3. ASSUME NEW o \in Orders, NEW s \in States, Move(o, s)
      PROVE  DatesStand'
  <2>1. UNCHANGED <<open, row, placed>> /\ truth' = [truth EXCEPT ![o] = s] /\ s # "absent"
    BY <1>3, DeskAssumption DEF Move, Typed, TableTyped
  <2> QED
    BY <2>1, DatedStays DEF Typed, TableTyped
<1>4. ASSUME NEW o \in Orders, Archive(o)
      PROVE  DatesStand'
  <2>1. /\ UNCHANGED <<open, truth, placed>> /\ row[o].state = "new"
        /\ \A p \in Orders : row'[p].ordered = row[p].ordered
        /\ \A p \in Orders \ {o} : row'[p] = row[p]
    BY <1>4 DEF Archive, bigseller, Typed, TableTyped, Rows
  <2> QED
    BY <2>1, DatedStays
<1>5. ASSUME NEW w \in Writers, NEW o \in Orders, Upsert(w, o)
      PROVE  DatesStand'
  <2>1. /\ UNCHANGED <<row, truth, placed>> /\ truth[o] # "absent"
        /\ open'[w].order = o /\ open'[w].ordered = DateOf(o)
        /\ \A v \in Writers \ {w} : open'[v] = open[v]
    BY <1>5 DEF Upsert, bigseller, DateOf, Typed, OpenTyped
  <2>2. NoTxn' = NoTxn
    BY DEF NoTxn
  <2> QED
    BY <2>1, <2>2 DEF DatesStand, RowsDated, OpenDated, DateOf
<1>6. ASSUME NEW w \in Writers, Commit(w) \/ Abort(w)
      PROVE  DatesStand'
  <2>1. /\ UNCHANGED <<truth, placed>> /\ open'[w] = NoTxn
        /\ \A v \in Writers \ {w} : open'[v] = open[v]
    BY <1>6 DEF Commit, Abort, bigseller, Typed, OpenTyped
  <2>2. NoTxn' = NoTxn
    BY DEF NoTxn
  <2>3. OpenDated'
    BY <2>1, <2>2 DEF DatesStand, OpenDated, DateOf
  <2>4. CASE Commit(w)
    <3>1. open[w].order \in Orders /\ open[w] # NoTxn
      BY <2>4 DEF Commit, Typed, OpenTyped
    <3>2. /\ row'[open[w].order].ordered = open[w].ordered
          /\ \A o \in Orders \ {open[w].order} : row'[o] = row[o]
      BY <2>4, <3>1 DEF Commit, Written, Typed, TableTyped
    <3>3. RowsDated'
      BY <2>1, <3>1, <3>2 DEF DatesStand, RowsDated, OpenDated, DateOf
    <3> QED
      BY <2>3, <3>3 DEF DatesStand
  <2>5. CASE Abort(w)
    BY <2>1, <2>3, <2>5 DEF Abort, DatesStand, RowsDated, DateOf
  <2> QED
    BY <1>6, <2>4, <2>5
<1>7. CASE Printing
  <2>1. UNCHANGED <<open, truth, placed>>
    BY <1>7 DEF Printing, AskUnprinted, AskSelected, OpenDialog, Close,
     Wave, Prepared, PrepareRefused, PrepareFails, Confirm, ConfirmLost, Mark,
     MarkFails, others, bigseller
  <2>2. CASE row' = row
    BY <1>1, <2>1, <2>2
  <2>3. ASSUME NEW j \in jobs, Mark(j)
        PROVE  DatesStand'
    <3>1. \A o \in Orders : row'[o].state = row[o].state /\ row'[o].ordered = row[o].ordered
      BY <2>3 DEF Mark, Typed, TableTyped, Rows
    <3> QED
      BY <2>1, <3>1, DatedStays
  <2> QED
    BY <1>7, <2>2, <2>3 DEF Printing, AskUnprinted, AskSelected, OpenDialog, Close,
     Wave, Prepared, PrepareRefused, PrepareFails, Confirm, ConfirmLost, MarkFails
<1>8. CASE \/ UNCHANGED vars \/ Tick \/ ReadRows \/ ReadTotal \/ CloseTab \/ Poll
           \/ \E t \in Tabs : OpenTab(t)
  BY <1>1, <1>8 DEF vars, Tick, ReadRows, ReadTotal, CloseTab, Poll, OpenTab, bigseller
<1> QED
  BY <1>2, <1>3, <1>4, <1>5, <1>6, <1>7, <1>8, BesideWriters DEF Next, Syncing, Typed

-----------------------------------------------------------------------------
(* Paging.                                                                 *)

Here == InTabs(feed.tab, row, now)
RowDates == [o \in Orders |-> row[o].ordered]
NotShown == feed.stay \ feed.shown
Reached == IF feed.step = "rows" THEN feed.no * PageSize ELSE (feed.no + 1) * PageSize

(* Of the places read, no more orders are still to be shown than left.     *)
PagingInv ==
    /\ feed.step \in Reading =>
          /\ feed.stay \subseteq Here
          /\ Cardinality(UpTo(RowDates, Here, NotShown, Reached)) <= feed.left
    /\ feed.step = "done" => Cardinality(NotShown) <= feed.left

LEMMA FeedFacts ==
    ASSUME Typed
    PROVE  /\ Here \in SUBSET Orders /\ NotShown \in SUBSET Orders /\ RowDates \in Dates
           /\ Reached \in Nat /\ feed.no \in Nat /\ feed.left \in Nat
           /\ feed.no * PageSize \in Nat /\ (feed.no + 1) * PageSize \in Nat
<1>1. Here \in SUBSET Orders
  BY InTabsSubset DEF Here
<1>2. /\ feed.no \in Nat /\ feed.left \in Nat /\ feed.stay \subseteq Orders /\ PageSize \in Nat
  BY DeskAssumption DEF Typed, Feeds
<1>3. \A x, y \in Nat : x * y \in Nat /\ x + 1 \in Nat
  OBVIOUS
<1>4. feed.no * PageSize \in Nat /\ (feed.no + 1) * PageSize \in Nat
  BY <1>2, <1>3, Zenon
<1>5. RowDates \in Dates
  BY DEF RowDates, Dates, Typed, TableTyped, Rows
<1> QED
  BY <1>1, <1>2, <1>4, <1>5 DEF NotShown, Reached

LEMMA AboveIsRank ==
    ASSUME Typed, NEW o \in Orders
    PROVE  Cardinality({p \in Here : Before(p, o)}) = Rank(RowDates, Here, o)
<1>1. \A p \in Here : Before(p, o) <=> Ahead(RowDates, p, o)
  BY FeedFacts DEF Before, Ahead, RowDates
<1>2. {p \in Here : Before(p, o)} = AheadOf(RowDates, Here, o)
  BY <1>1 DEF AheadOf
<1> QED
  BY <1>2 DEF Rank

\* Orders go, and the history of the reading notes them.
LEMMA FollowKeeps ==
    ASSUME Typed, PagingInv, row' \in [Orders -> Rows], feed' = Follow(row', now'),
           \A o \in Here : o \in InTabs(feed.tab, row', now') =>
               row'[o].ordered = row[o].ordered
    PROVE  PagingInv'
<1> DEFINE T == InTabs(feed.tab, row', now')
           l == Cardinality(Here \ T)
<1>1. CASE feed.step \notin Reading
  <2>1. feed' = feed
    BY <1>1 DEF Follow
  <2> QED
    BY <1>1, <2>1 DEF PagingInv, NotShown
<1>2. CASE feed.step \in Reading
  <2>1. feed' = [feed EXCEPT !.stay = feed.stay \cap T, !.left = feed.left + l]
    BY <1>2 DEF Follow, Here
  <2>2. T \in SUBSET Orders /\ l \in Nat
    BY InTabsSubset, SubsetCounts, FeedFacts
  <2> HIDE DEF T, l
  <2>3. /\ feed'.step = feed.step /\ feed'.tab = feed.tab /\ feed'.no = feed.no
        /\ feed'.shown = feed.shown /\ feed'.stay = feed.stay \cap T
        /\ feed'.left = feed.left + l
    BY <2>1 DEF Typed, Feeds
  <2>4. Here' = T
    BY <2>3 DEF Here, InTabs, InTab, DayStart, Day, T
  <2>5. NotShown' = NotShown \cap T /\ Reached' = Reached
    BY <2>3 DEF NotShown, Reached
  <2>6. RowDates' \in Dates /\ \A o \in Orders : RowDates'[o] = row'[o].ordered
    BY DEF RowDates, Dates, Rows
  <2>7. \A p \in Here \cap T : RowDates'[p] = RowDates[p]
    BY <2>2, <2>6 DEF RowDates, T
  <2>8. NotShown \in SUBSET Here
    BY <1>2 DEF PagingInv, NotShown
  <2> DEFINE before == Cardinality(UpTo(RowDates, Here, NotShown, Reached))
             after == Cardinality(UpTo(RowDates', T, NotShown \cap T, Reached))
  <2>9. after <= before + l
    BY <2>2, <2>6, <2>7, <2>8, FeedFacts, FewMoveUp DEF l
  <2>10. before <= feed.left
    BY <1>2 DEF PagingInv
  <2>11. before \in Nat /\ after \in Nat /\ feed.left \in Nat
    BY SubsetCounts, FeedFacts DEF UpTo
  <2>12. Cardinality(UpTo(RowDates, Here, NotShown, Reached))' = after
    BY <2>4, <2>5 DEF UpTo, Rank, AheadOf, Ahead
  <2> HIDE DEF before, after
  <2>13. after <= feed'.left
    BY <2>2, <2>3, <2>9, <2>10, <2>11
  <2>14. feed'.step \in Reading => feed'.stay \subseteq T
    BY <2>3
  <2> QED
    BY <1>2, <2>3, <2>4, <2>12, <2>13, <2>14 DEF PagingInv, Reading
<1> QED
  BY <1>1, <1>2

LEMMA SameFeed ==
    ASSUME PagingInv, feed' = feed, Here' = Here, RowDates' = RowDates
    PROVE  PagingInv'
<1>1. NotShown' = NotShown /\ Reached' = Reached
  BY DEF NotShown, Reached
<1>2. UpTo(RowDates, Here, NotShown, Reached)' = UpTo(RowDates, Here, NotShown, Reached)
  BY <1>1 DEF UpTo, Rank, AheadOf, Ahead
<1> QED
  BY <1>1, <1>2 DEF PagingInv

\* The orders that were to be shown on the page, and are among the places
\* read now, are on the page or were among the places read before.
LEMMA RowsShow ==
    ASSUME Typed, PagingInv, ReadRows
    PROVE  PagingInv'
<1>1. /\ feed.step = "rows" /\ feed'.step = "total" /\ feed'.tab = feed.tab
      /\ feed'.no = feed.no /\ feed'.stay = feed.stay /\ feed'.left = feed.left
      /\ feed'.shown = feed.shown \cup PageOf(feed.tab, feed.no)
      /\ UNCHANGED <<row, now>>
  BY DEF ReadRows, Typed, Feeds
<1>2. Here' = Here /\ RowDates' = RowDates
  BY <1>1 DEF Here, RowDates, InTabs, InTab, DayStart, Day
<1>3. /\ NotShown' = NotShown \ PageOf(feed.tab, feed.no)
      /\ Reached = feed.no * PageSize /\ Reached' = (feed.no + 1) * PageSize
  BY <1>1 DEF NotShown, Reached
<1> DEFINE K == (feed.no + 1) * PageSize
           A == UpTo(RowDates, Here, NotShown, Reached)
           B == UpTo(RowDates, Here, NotShown', K)
<1>4. ASSUME NEW o \in B
      PROVE  o \in A
  <2>1. o \in NotShown' /\ o \in NotShown /\ o \notin PageOf(feed.tab, feed.no)
    BY <1>3 DEF UpTo
  <2>2. o \in Here /\ o \in Orders
    BY <1>1, <2>1, FeedFacts DEF PagingInv, NotShown, Reading
  <2>3. Rank(RowDates, Here, o) < K /\ Rank(RowDates, Here, o) \in Nat
    BY FeedFacts, RankNat DEF UpTo
  <2>4. ~(Rank(RowDates, Here, o) >= feed.no * PageSize /\ Rank(RowDates, Here, o) < K)
    BY <2>1, <2>2, AboveIsRank DEF PageOf, Here
  <2>5. \A x, y \in Nat : ~(x >= y) => x < y
    OBVIOUS
  <2>6. Rank(RowDates, Here, o) < feed.no * PageSize
    BY <2>3, <2>4, <2>5, FeedFacts
  <2> QED
    BY <1>3, <2>1, <2>6 DEF UpTo
<1>5. A \in SUBSET Orders /\ B \in SUBSET Orders
  BY <1>3, FeedFacts DEF UpTo
<1>6. Cardinality(B) <= Cardinality(A) /\ Cardinality(A) \in Nat /\ Cardinality(B) \in Nat
  BY <1>4, <1>5, SubsetCounts, FS_Subset
<1>7. UpTo(RowDates, Here, NotShown, Reached)' = B
  BY <1>2, <1>3 DEF UpTo, Rank, AheadOf, Ahead
<1>8. Cardinality(A) <= feed.left /\ feed.stay \subseteq Here
  BY <1>1 DEF PagingInv, Reading
<1> HIDE DEF A, B
<1>9. Cardinality(B) <= feed.left
  BY <1>6, <1>8, FeedFacts
<1> QED
  BY <1>1, <1>2, <1>7, <1>8, <1>9 DEF PagingInv, Reading

\* At the end no place is left to be read.
LEMMA TotalEnds ==
    ASSUME Typed, PagingInv, ReadTotal
    PROVE  PagingInv'
<1> DEFINE K == (feed.no + 1) * PageSize
<1>1. /\ feed.step = "total" /\ UNCHANGED <<row, now>>
      /\ feed'.tab = feed.tab /\ feed'.stay = feed.stay /\ feed'.left = feed.left
      /\ feed'.shown = feed.shown
      /\ \/ K >= Cardinality(Here) /\ feed'.step = "done"
         \/ feed'.step = "rows" /\ feed'.no = feed.no + 1
  BY DEF ReadTotal, Typed, Feeds, Here
<1>2. Here' = Here /\ RowDates' = RowDates /\ NotShown' = NotShown /\ Reached = K
  BY <1>1 DEF Here, RowDates, NotShown, Reached, InTabs, InTab, DayStart, Day
<1>3. Cardinality(UpTo(RowDates, Here, NotShown, K)) <= feed.left /\ feed.stay \subseteq Here
  BY <1>1, <1>2 DEF PagingInv, Reading
<1>4. CASE K >= Cardinality(Here) /\ feed'.step = "done"
  <2>1. ASSUME NEW o \in NotShown
        PROVE  Rank(RowDates, Here, o) < K
    <3>1. o \in Here
      BY <1>3 DEF NotShown
    <3>2. Rank(RowDates, Here, o) < Cardinality(Here)
      BY <3>1, FeedFacts, RankInside
    <3>3. Rank(RowDates, Here, o) \in Nat /\ Cardinality(Here) \in Nat /\ K \in Nat
      BY FeedFacts, RankNat
    <3> HIDE DEF K
    <3> QED
      BY <1>4, <3>2, <3>3
  <2>2. UpTo(RowDates, Here, NotShown, K) = NotShown
    BY <2>1 DEF UpTo
  <2> QED
    BY <1>1, <1>2, <1>3, <1>4, <2>2 DEF PagingInv, Reading
<1>5. CASE feed'.step = "rows" /\ feed'.no = feed.no + 1
  <2>1. Reached' = K
    BY <1>5 DEF Reached
  <2>2. UpTo(RowDates, Here, NotShown, Reached)' = UpTo(RowDates, Here, NotShown, K)
    BY <1>2, <2>1 DEF UpTo, Rank, AheadOf, Ahead
  <2> QED
    BY <1>1, <1>2, <1>3, <1>5, <2>2 DEF PagingInv
<1> QED
  BY <1>1, <1>4, <1>5

LEMMA HereIsKnown ==
    ASSUME Typed, NEW o \in Here
    PROVE  o \in Orders /\ row[o].state # "absent"
<1>1. feed.tab \in Tabs
  BY DEF Typed, Feeds
<1> QED
  BY <1>1 DEF Here, InTabs, InTab, Tabs

LEMMA CommitFollows ==
    ASSUME Typed, DatesStand, PagingInv, NEW w \in Writers, Commit(w), row' \in [Orders -> Rows]
    PROVE  PagingInv'
<1>1. open[w] # NoTxn /\ open[w].order \in Orders /\ UNCHANGED now
  BY DEF Commit, Typed, OpenTyped
<1>2. /\ row'[open[w].order].ordered = open[w].ordered
      /\ \A o \in Orders \ {open[w].order} : row'[o] = row[o]
  BY <1>1 DEF Commit, Written, Typed, TableTyped
<1>3. ASSUME NEW o \in Here
      PROVE  row'[o].ordered = row[o].ordered
  <2>1. o \in Orders /\ row[o].state # "absent"
    BY HereIsKnown
  <2>2. row[o].ordered = DateOf(o)
    BY <2>1 DEF DatesStand, RowsDated
  <2>3. open[w].ordered = DateOf(open[w].order)
    BY <1>1 DEF DatesStand, OpenDated
  <2> QED
    BY <1>2, <2>1, <2>2, <2>3
<1>4. feed' = Follow(row', now')
  BY <1>1 DEF Commit
<1> QED
  BY <1>3, <1>4, FollowKeeps

LEMMA PagingKept ==
    ASSUME Typed, DatesStand, PagingInv, [Next]_vars
    PROVE  PagingInv'
<1>1. row' \in [Orders -> Rows]
  BY TableKept DEF TableTyped
<1>2. CASE UNCHANGED <<feed, row, now>>
  <2>1. Here' = Here /\ RowDates' = RowDates
    BY <1>2 DEF Here, RowDates, InTabs, InTab, DayStart, Day
  <2> QED
    BY <1>2, <2>1, SameFeed
<1>3. CASE Tick
  <2>1. feed' = Follow(row', now') /\ row' = row
    BY <1>3 DEF Tick
  <2> QED
    BY <1>1, <2>1, FollowKeeps
<1>4. ASSUME NEW o \in Orders, Archive(o)
      PROVE  PagingInv'
  <2>1. /\ feed' = Follow(row', now')
        /\ \A p \in Orders : row'[p].ordered = row[p].ordered
    BY <1>4 DEF Archive, Typed, TableTyped, Rows
  <2> QED
    BY <1>1, <2>1, FeedFacts, FollowKeeps
<1>5. ASSUME NEW w \in Writers, Commit(w)
      PROVE  PagingInv'
  BY <1>1, <1>5, CommitFollows
<1>6. CASE ReadRows \/ ReadTotal
  BY <1>6, RowsShow, TotalEnds
<1>7. ASSUME NEW t \in Tabs, OpenTab(t)
      PROVE  PagingInv'
  <2>1. /\ feed'.step = "rows" /\ feed'.no = 0 /\ feed'.left = 0
        /\ feed'.stay = InTabs(t, row, now) /\ feed'.tab = t /\ UNCHANGED <<row, now>>
    BY <1>7 DEF OpenTab
  <2>2. Here' = feed'.stay
    BY <2>1 DEF Here, InTabs, InTab, DayStart, Day
  <2>3. Reached' = 0
    <3>1. 0 * PageSize = 0
      BY DeskAssumption
    <3> QED
      BY <2>1, <3>1 DEF Reached
  <2>4. NotShown' \in SUBSET Orders /\ Here' \in SUBSET Orders
    BY <2>1, <2>2, InTabsSubset DEF NotShown
  <2>5. \A o \in NotShown' : Rank(RowDates', Here', o) \in Nat
    BY <2>4, RankNat
  <2>6. UpTo(RowDates, Here, NotShown, Reached)' = {}
    BY <2>3, <2>5 DEF UpTo, Rank, AheadOf, Ahead
  <2>7. Cardinality({}) = 0
    BY FS_EmptySet
  <2> QED
    BY <2>1, <2>2, <2>6, <2>7 DEF PagingInv
<1>8. CASE CloseTab
  <2>1. feed'.step = "idle"
    BY <1>8 DEF CloseTab, Typed, Feeds
  <2> QED
    BY <2>1 DEF PagingInv, Reading
<1>9. ASSUME NEW j \in jobs, Mark(j)
      PROVE  PagingInv'
  <2>1. /\ feed' = feed /\ now' = now
        /\ \A o \in Orders : /\ row'[o].state = row[o].state
                             /\ row'[o].ordered = row[o].ordered
                             /\ row'[o].synced = row[o].synced
                             /\ row'[o].changed = row[o].changed
    BY <1>9 DEF Mark, others, Typed, TableTyped, Rows
  <2>2. Here' = Here /\ RowDates' = RowDates
    BY <2>1 DEF Here, RowDates, InTabs, InTab, DayStart, Day
  <2> QED
    BY <2>1, <2>2, SameFeed
<1>10. CASE Printing
  BY <1>2, <1>9, <1>10 DEF Printing, AskUnprinted, AskSelected, OpenDialog, Close,
     Wave, Prepared, PrepareRefused, PrepareFails, Confirm, ConfirmLost, Mark,
     MarkFails, others
<1>11. CASE UNCHANGED vars \/ Poll \/ \E o \in Orders : Place(o) \/ \E s \in States : Move(o, s)
  BY <1>2, <1>11 DEF vars, Poll, Place, Move
<1>12. ASSUME NEW w \in Writers, Abort(w) \/ \E o \in Orders : Upsert(w, o)
      PROVE  PagingInv'
  BY <1>2, <1>12 DEF Abort, Upsert
<1> QED
  BY <1>3, <1>4, <1>5, <1>6, <1>7, <1>8, <1>10, <1>11, <1>12, BesideWriters
     DEF Next, Syncing, Typed

\* An operator who pages through a tab until its total says so misses at most
\* as many orders as left the tab meanwhile, however the syncers write.
THEOREM PagingMissesTheLeavers == Spec => []PagingSkipsAtMostTheLeavers
<1>1. Init => DatesStand /\ PagingInv
  <2>1. ASSUME Init
        PROVE  DatesStand
    BY <2>1 DEF Init, DatesStand, RowsDated, OpenDated, Absent
  <2>2. ASSUME Init
        PROVE  PagingInv
    BY <2>2 DEF Init, PagingInv, Reading
  <2> QED
    BY <2>1, <2>2
<1>2. IInv /\ DatesStand /\ PagingInv /\ [Next]_vars => DatesStand' /\ PagingInv'
  BY DatedKept, PagingKept DEF IInv
<1>3. PagingInv => PagingSkipsAtMostTheLeavers
  BY DEF PagingInv, NotShown, PagingSkipsAtMostTheLeavers
<1> QED
  BY <1>1, <1>2, <1>3, InvariantHolds, PTL DEF Spec
=============================================================================
