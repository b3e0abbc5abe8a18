-------------------------------- MODULE Desk --------------------------------
(***************************************************************************)
(* What the API server shows of the tables, and what is done with it: the  *)
(* feed of the operators page by page, the cursor of a consumer of the     *)
(* outbox, and the printing of every label not printed yet (api.rs,        *)
(* store.rs, resi.rs, the dialog of the web UI). Every answer is one query *)
(* of its own, and the syncers write between any two of them.              *)
(*                                                                         *)
(* A reader changes nothing another one reads, so a behaviour follows one  *)
(* kind of reader, chosen at its beginning, and leaves out what only the   *)
(* others look at. A row keeps the times somebody looks at in its state.   *)
(***************************************************************************)
EXTENDS Integers, FiniteSets

CONSTANTS
    Orders,     \* ids of orders
    Flow,       \* the moves of an order at BigSeller, for each kind of reader
    Undated,    \* orders for which BigSeller gives no creation time
    Summarized, \* orders whose Summary List was printed
    NoLabel,    \* orders BigSeller has no label for
    Writers,    \* syncers
    Beside,     \* bound: which of them write beside each kind of reader
    Desks,      \* operators that print labels
    Slots,      \* bound: points of time
    DayLen,     \* points of time in a WIB day
    Fresh,      \* NEW_FEED_WINDOW
    Old,        \* the age from which an unfindable order is archived
    PageSize,   \* orders on a page of the feed
    Limit,      \* events in an answer
    LabelCap,   \* labels printed in one go (300)
    Selections, \* bound: the selections the operators make
    MaxCalls,   \* bound: requests for labels on their way
    MaxFaults   \* bound: failed statements and lost calls

\* The states of an order at BigSeller; a row may be archived as well.
States == {"absent", "new", "processing", "pickup", "shipped", "completed",
           "canceled"}

Readers == {"feed", "events", "labels", "reports"}

ASSUME DeskAssumption ==
    /\ Orders \subseteq Nat /\ IsFiniteSet(Orders)
    /\ Undated \subseteq Orders /\ Summarized \subseteq Orders
    /\ NoLabel \subseteq Orders /\ IsFiniteSet(Desks)
    /\ Selections \subseteq SUBSET Orders
    /\ Beside \in [Readers -> SUBSET Writers]
    /\ Slots \in Nat \ {0} /\ DayLen \in Nat \ {0}
    /\ Fresh \in Nat /\ Old \in Nat
    /\ PageSize \in Nat \ {0} /\ Limit \in Nat \ {0} /\ LabelCap \in Nat \ {0}
    /\ MaxCalls \in Nat /\ MaxFaults \in Nat
    /\ Flow \in [Readers -> SUBSET ((States \ {"absent"}) \X (States \ {"absent"}))]

Tabs == {"new", "processing", "shipped", "completed", "all"}
None == 0 - 1
Times == (0 .. Slots - 1) \cup {None}
Rows == [state : States \cup {"archived"}, ordered : Times, first : Times, changed : Times,
         synced : Times, label : BOOLEAN]
Events == [id : Nat, order : Orders]
Dialogs == [step : {"closed", "preparing", "ready", "sent"}, picked : BOOLEAN,
            ids : SUBSET Orders, labels : SUBSET Orders, shared : SUBSET Orders]
Feeds == [step : {"idle", "rows", "total", "done"}, tab : Tabs, no : Nat,
          shown : SUBSET Orders, stay : SUBSET Orders, left : Nat]

VARIABLES
    now,      \* the time
    kind,     \* which readers are followed: Readers
    truth,    \* each order at BigSeller
    placed,   \* when it was placed
    row,      \* the table orders
    marked,   \* orders whose label BigSeller has as printed
    open,     \* what each syncer has read and not committed yet
    lastId,   \* the sequence of notification_outbox
    events,   \* its committed rows
    late,     \* ids committed after a greater one
    cursor,   \* the cursor of the consumer
    got,      \* the ids it got
    feed,     \* the operator who pages through a tab
    desk,     \* the print dialog of each operator
    calls,    \* labels asked for
    jobs,     \* confirmations on their way
    printed,  \* orders whose label the plugin was told to print
    again,    \* printed orders whose mark was lost, or overwritten
    faults    \* faults so far

outbox == <<lastId, events, late>>
consumer == <<cursor, got>>
dialogs == <<marked, desk, calls, jobs, printed, again>>
bigseller == <<truth, placed>>
vars == <<now, kind, bigseller, row, open, outbox, consumer, feed, dialogs, faults>>

Day(t) == t \div DayLen
DayStart(t) == Day(t) * DayLen
Absent == [state |-> "absent", ordered |-> None, first |-> None,
           changed |-> None, synced |-> None, label |-> FALSE]
Closed == [step |-> "closed", picked |-> FALSE, ids |-> {}, labels |-> {},
           shared |-> {}]
NoTxn == [order |-> None, state |-> "absent", ordered |-> None, label |-> FALSE,
          ids |-> {}]
Reading == {"rows", "total"}

Init ==
    /\ now = 0 /\ kind \in Readers
    /\ truth = [o \in Orders |-> "absent"] /\ placed = [o \in Orders |-> None]
    /\ row = [o \in Orders |-> Absent] /\ marked = {}
    /\ open = [w \in Writers |-> NoTxn]
    /\ lastId = 0 /\ events = {} /\ late = {}
    /\ cursor = 0 /\ got = {}
    /\ feed = [step |-> "idle", tab |-> "new", no |-> 0, shown |-> {},
               stay |-> {}, left |-> 0]
    /\ desk = [d \in Desks |-> Closed]
    /\ calls = {} /\ jobs = {} /\ printed = {} /\ again = {}
    /\ faults = 0

Fault == faults < MaxFaults /\ faults' = faults + 1

----------------------------------------------------------------------------
(* The feed of the ops table.                                              *)

\* FeedStatus::state_clause, and the window of the tab New: is a row in a tab.
InTab(t, r, n) ==
    CASE t = "new" -> r.state = "new" /\ r.synced > n - Fresh
      [] t = "processing" ->
            r.state \in {"processing", "pickup"} /\ r.changed >= DayStart(n)
      [] t \in {"shipped", "completed"} -> r.state = t /\ r.changed >= DayStart(n)
      [] t = "all" -> r.state \notin {"archived", "absent"}
InTabs(t, table, n) == {o \in Orders : InTab(t, table[o], n)}

\* ORDER BY ordered_at DESC NULLS LAST, id DESC.
Before(o, p) ==
    \/ row[o].ordered > row[p].ordered
    \/ row[o].ordered = row[p].ordered /\ o > p

\* LIMIT PageSize OFFSET n * PageSize.
PageOf(t, n) ==
    LET S == InTabs(t, row, now)
        Above(o) == Cardinality({p \in S : Before(p, o)})
    IN  {o \in S : Above(o) >= n * PageSize /\ Above(o) < (n + 1) * PageSize}

\* History: which orders stay in the tab that is read, and how many left it.
Follow(table, n) ==
    LET was == InTabs(feed.tab, row, now)
        is == InTabs(feed.tab, table, n)
    IN  IF feed.step \notin Reading THEN feed
        ELSE [feed EXCEPT !.stay = @ \cap is,
                          !.left = @ + Cardinality(was \ is)]

OpenTab(t) ==
    /\ kind = "feed" /\ feed.step = "idle"
    /\ feed' = [step |-> "rows", tab |-> t, no |-> 0, shown |-> {},
                stay |-> InTabs(t, row, now), left |-> 0]
    /\ UNCHANGED <<now, kind, bigseller, row, open, outbox, consumer,
                   dialogs, faults>>

\* list_orders_feed: the rows of a page, and then, in a query of its own, the
\* total that says whether there is another page.
ReadRows ==
    /\ feed.step = "rows"
    /\ feed' = [feed EXCEPT !.step = "total",
                            !.shown = @ \cup PageOf(feed.tab, feed.no)]
    /\ UNCHANGED <<now, kind, bigseller, row, open, outbox, consumer,
                   dialogs, faults>>

\* Mutant: one page too few.
ReadTotalShort ==
    /\ feed.step = "total"
    /\ feed' = IF (feed.no + 2) * PageSize >= Cardinality(InTabs(feed.tab, row, now))
               THEN [feed EXCEPT !.step = "done"]
               ELSE [feed EXCEPT !.step = "rows", !.no = @ + 1]
    /\ UNCHANGED <<now, kind, bigseller, row, open, outbox, consumer,
                   dialogs, faults>>
ReadTotal ==
    /\ feed.step = "total"
    /\ feed' = IF (feed.no + 1) * PageSize >= Cardinality(InTabs(feed.tab, row, now))
               THEN [feed EXCEPT !.step = "done"]
               ELSE [feed EXCEPT !.step = "rows", !.no = @ + 1]
    /\ UNCHANGED <<now, kind, bigseller, row, open, outbox, consumer,
                   dialogs, faults>>

CloseTab ==
    /\ feed.step = "done"
    /\ feed' = [feed EXCEPT !.step = "idle", !.shown = {}, !.stay = {}, !.left = 0,
                            !.no = 0, !.tab = "new"]
    /\ UNCHANGED <<now, kind, bigseller, row, open, outbox, consumer,
                   dialogs, faults>>

----------------------------------------------------------------------------
(* BigSeller, the clock and the syncers.                                   *)

Place(o) ==
    /\ truth[o] = "absent"
    /\ truth' = [truth EXCEPT ![o] = "new"]
    /\ placed' = [placed EXCEPT ![o] = now]
    /\ UNCHANGED <<now, kind, row, open, outbox, consumer, feed, dialogs,
                   faults>>

Move(o, s) ==
    /\ <<truth[o], s>> \in Flow[kind]
    /\ truth' = [truth EXCEPT ![o] = s]
    /\ UNCHANGED <<now, kind, placed, row, open, outbox, consumer, feed,
                   dialogs, faults>>

Tick ==
    /\ kind \in {"feed", "reports"} /\ now + 1 < Slots
    /\ now' = now + 1
    /\ feed' = Follow(row, now + 1)
    /\ UNCHANGED <<kind, bigseller, row, open, outbox, consumer, dialogs,
                   faults>>

Locked(o) == \E w \in Writers : open[w].order = o

\* upsert_order writes what the syncer read at BigSeller in a transaction that
\* it commits later: the rows of the outbox take their ids here. The lock of
\* the order, which the label mark waits for, is taken just before the commit.
Upsert(w, o) ==
    LET told == /\ kind = "events"
                /\ \/ row[o].state = "absent"
                   \/ /\ truth[o] = "canceled" /\ row[o].state # "canceled"
                      /\ o \in Summarized
    IN  /\ open[w] = NoTxn /\ truth[o] # "absent" /\ ~Locked(o)
        /\ open' = [open EXCEPT ![w] =
              [order |-> o, state |-> truth[o], label |-> o \in marked,
               ordered |-> IF o \in Undated THEN None ELSE placed[o],
               ids |-> IF told THEN {lastId + 1} ELSE {}]]
        /\ lastId' = IF told THEN lastId + 1 ELSE lastId
        /\ UNCHANGED <<now, kind, bigseller, row, events, late, consumer, feed,
                       dialogs, faults>>

\* What the row becomes: state_changed_at moves when the state does.
Packed == {"processing", "pickup", "shipped", "completed"}
Written(e, r) ==
    [state |-> e.state, ordered |-> e.ordered, label |-> e.label,
     first |-> IF e.ordered # None THEN None
               ELSE IF r.state = "absent" THEN now ELSE r.first,
     changed |-> IF e.state \notin Packed THEN None
                 ELSE IF r.state = e.state THEN r.changed ELSE now,
     synced |-> IF e.state = "new" THEN now ELSE None]

Commit(w) ==
    LET t == open[w]
    IN  /\ t # NoTxn
        /\ row' = [row EXCEPT ![t.order] = Written(t, row[t.order])]
        /\ events' = events \cup {[id |-> i, order |-> t.order] : i \in t.ids}
        /\ late' = late \cup {i \in t.ids : \E e \in events : e.id > i}
        /\ again' = IF row[t.order].label /\ ~t.label THEN again \cup {t.order} ELSE again
        /\ open' = [open EXCEPT ![w] = NoTxn]
        /\ feed' = Follow(row', now)
        /\ UNCHANGED <<now, kind, bigseller, lastId, consumer, marked, desk, calls,
                       jobs, printed, faults>>

\* A statement fails: the transaction is rolled back, its ids are not reused.
Abort(w) ==
    /\ open[w] # NoTxn
    /\ Fault
    /\ open' = [open EXCEPT ![w] = NoTxn]
    /\ UNCHANGED <<now, kind, bigseller, row, outbox, consumer, feed,
                   dialogs>>

\* The reconciliation archives a row that is new, stale and old.
Archive(o) ==
    /\ row[o].state = "new" /\ ~Locked(o)
    /\ row[o].synced <= now - Fresh
    /\ row[o].ordered # None /\ row[o].ordered < now - Old
    /\ row' = [row EXCEPT ![o].state = "archived"]
    /\ feed' = Follow(row', now)
    /\ UNCHANGED <<now, kind, bigseller, open, outbox, consumer, dialogs,
                   faults>>

----------------------------------------------------------------------------
(* GET /v1/events?since=&limit=                                            *)

\* list_events_since: the first Limit rows above the cursor.
Answer ==
    {e \in events : /\ e.id > cursor
                    /\ Cardinality({f \in events : f.id > cursor /\ f.id < e.id}) < Limit}

\* Mutant: the cursor is the first id not seen.
PollNext ==
    /\ kind = "events"
    /\ cursor' = IF Answer = {} THEN cursor ELSE 1 + (CHOOSE i \in {e.id : e \in Answer} : \A e \in Answer : e.id <= i)
    /\ got' = got \cup {e.id : e \in Answer}
    /\ UNCHANGED <<now, kind, bigseller, row, open, outbox, feed, dialogs,
                   faults>>
\* Mutant: the cursor moves to the end of the sequence.
PollToEnd ==
    /\ kind = "events"
    /\ cursor' = lastId
    /\ got' = got \cup {e.id : e \in Answer}
    /\ UNCHANGED <<now, kind, bigseller, row, open, outbox, feed, dialogs,
                   faults>>
\* next_cursor is the id of the last event, or the cursor when there is none.
Poll ==
    /\ kind = "events"
    /\ cursor' \in {e.id : e \in Answer} \cup {cursor}
    /\ \A e \in Answer : e.id <= cursor'
    /\ got' = got \cup {e.id : e \in Answer}
    /\ UNCHANGED <<now, kind, bigseller, row, open, outbox, feed, dialogs,
                   faults>>

----------------------------------------------------------------------------
(* Printing labels: all that are not printed yet, or those of a selection. *)

\* unprinted_label_ids: of the processing orders of today, oldest first.
Unprinted == {o \in InTabs("processing", row, now) : ~row[o].label}
Age(o) == IF row[o].ordered = None THEN Slots ELSE row[o].ordered
Older(p, o) == Age(p) < Age(o) \/ (Age(p) = Age(o) /\ p < o)
FirstUnprinted ==
    {o \in Unprinted : Cardinality({p \in Unprinted : Older(p, o)}) < LabelCap}

Printable(o) == o \notin NoLabel /\ truth[o] \in {"processing", "pickup"}

others == <<now, kind, bigseller, open, outbox, consumer, feed>>
\* History: orders some other dialog is open for, or whose confirmation is on
\* its way.
InHand(d) ==
    (UNION {desk[q].ids : q \in Desks \ {d}}) \cup (UNION {j.ids : j \in jobs})

\* startResiPrint: the dialog opens for these orders, of the operator's own
\* choice or not, and asks for their labels. Nothing reserves the orders:
\* another desk may have the same ones.
OpenDialog(d, ids, picked) ==
    /\ kind = "labels" /\ desk[d].step = "closed" /\ ids # {}
    /\ Cardinality(calls) < MaxCalls
    /\ calls' = calls \cup {[desk |-> d, ids |-> ids]}
    /\ desk' = [q \in Desks |->
          IF q = d THEN [step |-> "preparing", picked |-> picked, ids |-> ids,
                         labels |-> {}, shared |-> ids \cap InHand(d)]
          ELSE [desk[q] EXCEPT !.shared = @ \cup (ids \cap desk[q].ids)]]
    /\ UNCHANGED <<others, row, marked, jobs, printed, again, faults>>

\* "Cetak semua belum cetak": GET /v1/orders/resi-unprinted.
AskUnprinted(d) == OpenDialog(d, FirstUnprinted, FALSE)

\* "Print resi (n)": the orders selected in the tab Processing, printed or not.
\* The selection outlives the dialog and what becomes of the rows.
AskSelected(d, S) ==
    /\ \A o \in S : row[o].state \notin {"absent", "new"}
    /\ OpenDialog(d, S, TRUE)

\* POST /v1/orders/resi-print: BigSeller buffers the labels it has. The answer
\* goes to the dialog that is open, if only in place of the one that asked.
Prepared(c) ==
    LET d == desk[c.desk]
        answer == {o \in c.ids : Printable(o)}
    IN  /\ c \in calls /\ Cardinality(c.ids) <= LabelCap
        /\ calls' = calls \ {c}
        /\ desk' = IF d.step \in {"preparing", "ready"}
                   THEN [desk EXCEPT ![c.desk].step = "ready", ![c.desk].labels = answer]
                   ELSE desk
        /\ UNCHANGED <<others, row, marked, jobs, printed, again, faults>>

\* Too many for one go.
PrepareRefused(c) ==
    /\ c \in calls /\ Cardinality(c.ids) > LabelCap
    /\ calls' = calls \ {c}
    /\ UNCHANGED <<others, row, marked, desk, jobs, printed, again, faults>>

\* The dialog shows the error, and the plugin is not called.
PrepareFails(c) ==
    /\ c \in calls
    /\ Fault
    /\ calls' = calls \ {c}
    /\ UNCHANGED <<others, row, marked, desk, jobs, printed, again>>

\* closeResiPrint, at any time: the call goes on.
Close(d) ==
    /\ desk[d].step # "closed"
    /\ desk' = [desk EXCEPT ![d] = Closed]
    /\ UNCHANGED <<others, row, marked, calls, jobs, printed, again, faults>>

\* wavePrintV2, once: the plugin prints the labels of the answer, and the
\* dialog confirms the orders it was opened for.
Wave(d) ==
    LET labels == desk[d].labels
    IN  /\ desk[d].step = "ready" /\ labels # {}
        /\ desk' = [desk EXCEPT ![d].step = "sent"]
        /\ jobs' = jobs \cup {[ids |-> desk[d].ids, labels |-> labels, step |-> "confirm"]}
        /\ printed' = printed \cup labels
        /\ again' = (again \ labels) \cup (labels \ desk[d].ids)
        /\ UNCHANGED <<others, row, marked, calls, faults>>

\* POST /v1/orders/resi-confirm: BigSeller marks all of them, whether they had
\* a label or not.
Confirm(j) ==
    /\ j \in jobs /\ j.step = "confirm"
    /\ marked' = marked \cup j.ids
    /\ jobs' = (jobs \ {j}) \cup {[j EXCEPT !.step = "mark"]}
    /\ UNCHANGED <<others, row, desk, calls, printed, again, faults>>

\* The call, or the answer of BigSeller, is lost or is not code 0; nobody
\* looks at the outcome.
ConfirmLost(j) ==
    /\ j \in jobs /\ j.step = "confirm"
    /\ Fault
    /\ marked' \in {marked, marked \cup j.ids}
    /\ jobs' = jobs \ {j}
    /\ again' = again \cup j.labels
    /\ UNCHANGED <<others, row, desk, calls, printed>>

\* UPDATE orders SET print_label_mark = 1, one statement for all of them,
\* behind the lock of a syncer.
\* Mutant: the rows are left to the next sync.
MarkLeft(j) ==
    /\ j \in jobs /\ j.step = "mark"
    /\ jobs' = jobs \ {j}
    /\ UNCHANGED <<others, row, marked, desk, calls, printed, again, faults>>
Mark(j) ==
    /\ j \in jobs /\ j.step = "mark"
    /\ row' = [o \in Orders |-> IF o \in j.ids THEN [row[o] EXCEPT !.label = TRUE]
                                ELSE row[o]]
    /\ jobs' = jobs \ {j}
    /\ UNCHANGED <<others, marked, desk, calls, printed, again, faults>>

MarkFails(j) ==
    /\ j \in jobs /\ j.step = "mark"
    /\ Fault
    /\ jobs' = jobs \ {j}
    /\ again' = again \cup j.labels
    /\ UNCHANGED <<others, row, marked, desk, calls, printed>>

Printing ==
    \/ \E d \in Desks : \/ AskUnprinted(d) \/ Close(d) \/ Wave(d)
                         \/ \E S \in Selections : AskSelected(d, S)
    \/ \E c \in calls : Prepared(c) \/ PrepareRefused(c) \/ PrepareFails(c)
    \/ \E j \in jobs : Confirm(j) \/ ConfirmLost(j) \/ Mark(j) \/ MarkFails(j)

Syncing(w) ==
    \/ \E o \in Orders : Upsert(w, o)
    \/ Commit(w) \/ Abort(w)

Next ==
    \/ Tick \/ ReadRows \/ ReadTotal \/ CloseTab \/ Poll
    \/ \E t \in Tabs : OpenTab(t)
    \/ \E o \in Orders : \/ Place(o) \/ Archive(o)
                         \/ \E s \in States : Move(o, s)
    \/ \E w \in Beside[kind] : Syncing(w)
    \/ Printing

Spec == Init /\ [][Next]_vars

----------------------------------------------------------------------------
(* Properties.                                                             *)

TypeOK ==
    /\ now \in 0 .. Slots - 1 /\ kind \in Readers
    /\ truth \in [Orders -> States] /\ placed \in [Orders -> Times]
    /\ row \in [Orders -> Rows] /\ marked \subseteq Orders
    /\ open \in [Writers -> [order : Orders \cup {None}, state : States,
                            ordered : Times, label : BOOLEAN,
                            ids : SUBSET (1 .. lastId)]]
    /\ lastId \in Nat /\ events \subseteq Events /\ late \subseteq 1 .. lastId
    /\ cursor \in 0 .. lastId /\ got \subseteq 1 .. lastId
    /\ feed \in Feeds
    /\ desk \in [Desks -> Dialogs]
    /\ calls \subseteq [desk : Desks, ids : SUBSET Orders]
    /\ jobs \subseteq [ids : SUBSET Orders, labels : SUBSET Orders, step : {"confirm", "mark"}]
    /\ printed \subseteq Orders /\ again \subseteq Orders
    /\ faults \in 0 .. MaxFaults

\* Safety. The cursor passes over an event only when the transaction of the
\* event committed after one with a greater id: ids are drawn in the order of
\* the INSERTs and seen in the order of the commits (store.rs:1905). One
\* syncer alone never hides an event from a consumer.
MissedOnlyIfLate ==
    \A e \in events : e.id <= cursor => e.id \in got \cup late

\* Safety. An operator who pages through a tab until the total says so misses
\* at most as many orders as left the tab meanwhile: those that leave move the
\* rest up over the offset of the next page (store.rs:780).
PagingSkipsAtMostTheLeavers ==
    feed.step = "done" => Cardinality(feed.stay \ feed.shown) <= feed.left

\* Safety. A dialog opened for the labels not printed yet prints one again only
\* for a cause: its confirmation or its mark was lost, a syncer wrote an older
\* page over the mark, the order was in the hands of two dialogs at once, or the
\* dialog was closed and opened for other orders before the labels came
\* (resi.rs:262, App.tsx:1446). What the operator picks is printed whatever is
\* known of it; and the next dialog knows of it.
PrintsHaveACause ==
    [][\A d \in Desks : Wave(d) /\ ~desk[d].picked =>
         LET labels == desk[d].labels
         IN  labels \cap printed \subseteq again \cup desk[d].shared \cup (labels \ desk[d].ids)]_vars
=============================================================================
