----------------------------- MODULE OrderClaim -----------------------------
(***************************************************************************)
(* The two kinds of Postgres transaction that fight over the rows of       *)
(* `orders`, statement by statement:                                       *)
(*                                                                         *)
(*   - upsert_order (store.rs): a page of BigSeller rows is written, one   *)
(*     transaction per row, by the worker, the on-demand sync, the pack    *)
(*     refresh and the one-shot CLI, all of them concurrently;             *)
(*   - create_batch / create_batch_from_selection (batch.rs): backlog      *)
(*     orders are claimed into a batch (a "take-out" of the pick list) by  *)
(*     the scheduler and by the ops API.                                   *)
(*                                                                         *)
(* Both run at READ COMMITTED: a statement sees what was committed when it *)
(* started, a row lock is held until its transaction ends, and a statement *)
(* that reaches a row changed since its snapshot re-evaluates the row's    *)
(* own columns (but not its NOT EXISTS subquery) on the new version.       *)
(***************************************************************************)
EXTENDS Naturals, FiniteSets

CONSTANTS
    Orders,      \* rows of `orders`, keyed by (shop_id, platform_order_id)
    Shops,       \* rows of `shops`
    ShopOf,      \* the shop of each order
    Urgent,      \* orders whose carrier is_urgent_carrier recognises
    Ancient,     \* orders placed more than 30 days ago
    BatchIds,    \* the batch UUIDs that may be drawn
    Upserters,   \* tasks that run upsert_order
    Claimers,    \* tasks that create batches
    MaxUpserts,  \* bound: upsert transactions begun in a behaviour
    None         \* no transaction / no value

ASSUME ClaimAssumption ==
    /\ ShopOf \in [Orders -> Shops]
    /\ Urgent \subseteq Orders
    /\ Ancient \subseteq Orders
    /\ Upserters \cap Claimers = {}
    /\ None \notin Upserters \cup Claimers \cup Orders \cup BatchIds
    /\ MaxUpserts \in Nat

VARIABLES
    orderState,  \* orders.state as committed; "absent" when there is no row
    orderLock,   \* the transaction that holds the row lock of each order
    shopLock,    \* the upsert that holds the row lock of each shop
    members,     \* batch_orders (none is ever voided): the orders of each batch
    pdf,         \* batches.pdf_bytes: the orders it lists; {} is NULL
    created,     \* 'order.created' rows committed to notification_outbox
    canceled,    \* 'order.canceled' rows committed to notification_outbox
    up,          \* the transaction each upserter is in
    cl,          \* the transaction each claimer is in
    upserts      \* upsert transactions begun so far

vars == <<orderState, orderLock, shopLock, members, pdf, created, canceled,
          up, cl, upserts>>

-----------------------------------------------------------------------------
(* States of an order: those the mapping of a BigSeller row can yield, the  *)
(* worker's own "archived", and "absent". Shipped and later states behave   *)
(* like "processing" here: neither claimable nor canceled.                  *)

BigSellerStates == {"new", "processing", "canceled"}
States == BigSellerStates \cup {"absent", "archived"}

Sessions == {"urgent", "daily", "selection"}

(* up[u]: what an upsert_order call holds in locals.                        *)
IdleUpsert == [pc |-> "idle", order |-> None, state |-> "new", mark |-> FALSE,
               prev |-> "absent", inBatch |-> FALSE]

(* cl[c]: what a batch creation holds in locals. `todo` are the rows its    *)
(* locking SELECT has yet to reach, `held` those it locked and returned     *)
(* (once committed: those it selected, from which the PDF is drawn).        *)
IdleClaim == [pc |-> "idle", session |-> "daily", todo |-> {}, held |-> {},
              batch |-> None]

TypeOK ==
    /\ orderState \in [Orders -> States]
    /\ orderLock \in [Orders -> Upserters \cup Claimers \cup {None}]
    /\ shopLock \in [Shops -> Upserters \cup {None}]
    /\ members \in [BatchIds -> SUBSET Orders]
    /\ pdf \in [BatchIds -> SUBSET Orders]
    /\ created \in [Orders -> Nat]
    /\ canceled \in [Orders -> Nat]
    /\ up \in [Upserters -> [pc: {"idle", "read", "written", "queried"},
                             order: Orders \cup {None}, state: BigSellerStates,
                             mark: BOOLEAN, prev: States, inBatch: BOOLEAN]]
    /\ cl \in [Claimers -> [pc: {"idle", "locking", "render"},
                            session: Sessions,
                            todo: SUBSET Orders, held: SUBSET Orders,
                            batch: BatchIds \cup {None}]]
    /\ upserts \in Nat

Init ==
    /\ orderState = [o \in Orders |-> "absent"]
    /\ orderLock = [o \in Orders |-> None]
    /\ shopLock = [s \in Shops |-> None]
    /\ members = [i \in BatchIds |-> {}]
    /\ pdf = [i \in BatchIds |-> {}]
    /\ created = [o \in Orders |-> 0]
    /\ canceled = [o \in Orders |-> 0]
    /\ up = [u \in Upserters |-> IdleUpsert]
    /\ cl = [c \in Claimers |-> IdleClaim]
    /\ upserts = 0

(* EXISTS (SELECT 1 FROM batch_orders WHERE order_id = o).                  *)
InBatch(o) == \E i \in BatchIds : o \in members[i]

-----------------------------------------------------------------------------
(* upsert_order.                                                            *)

(* Mutant: the shop row is inserted with ON CONFLICT DO NOTHING, no lock.   *)
UpsertReadNoShopLock(u, o, s, m) ==
    /\ up[u].pc = "idle"
    /\ upserts < MaxUpserts
    /\ up' = [up EXCEPT ![u] = [pc |-> "read", order |-> o, state |-> s,
                                mark |-> m, prev |-> orderState[o],
                                inBatch |-> FALSE]]
    /\ upserts' = upserts + 1
    /\ UNCHANGED <<orderState, orderLock, shopLock, members, pdf, created,
                   canceled, cl>>

(* Mutant: a missing previous row is read as the empty string.              *)
UpsertReadBlankPrev(u, o, s, m) ==
    /\ up[u].pc = "idle"
    /\ upserts < MaxUpserts
    /\ shopLock[ShopOf[o]] = None
    /\ shopLock' = [shopLock EXCEPT ![ShopOf[o]] = u]
    /\ up' = [up EXCEPT ![u] = [pc |-> "read", order |-> o, state |-> s,
                                mark |-> m, inBatch |-> FALSE,
                                prev |-> IF orderState[o] = "absent" THEN ""
                                         ELSE orderState[o]]]
    /\ upserts' = upserts + 1
    /\ UNCHANGED <<orderState, orderLock, members, pdf, created, canceled, cl>>

(* The INSERT .. ON CONFLICT DO UPDATE of the shop row makes upserts of one *)
(* shop's orders run one after another; the previous state is read next,    *)
(* without a lock on the order row. `s` and `m` are the mapped row: its     *)
(* state, and whether BigSeller shows a collect or pick-list print mark.    *)
UpsertRead(u, o, s, m) ==
    /\ up[u].pc = "idle"
    /\ upserts < MaxUpserts
    /\ shopLock[ShopOf[o]] = None
    /\ shopLock' = [shopLock EXCEPT ![ShopOf[o]] = u]
    /\ up' = [up EXCEPT ![u] = [pc |-> "read", order |-> o, state |-> s,
                                mark |-> m, prev |-> orderState[o],
                                inBatch |-> FALSE]]
    /\ upserts' = upserts + 1
    /\ UNCHANGED <<orderState, orderLock, members, pdf, created, canceled, cl>>

(* Mutant: the row is written only when the transaction commits, so its     *)
(* lock is neither awaited nor held while membership is tested.             *)
UpsertWriteLate(u) ==
    /\ up[u].pc = "read"
    /\ up' = [up EXCEPT ![u].pc = "written"]
    /\ UNCHANGED <<orderState, orderLock, shopLock, members, pdf, created,
                   canceled, cl, upserts>>

(* INSERT INTO orders .. ON CONFLICT (id) DO UPDATE waits for the row lock. *)
UpsertWrite(u) ==
    /\ up[u].pc = "read"
    /\ orderLock[up[u].order] = None
    /\ orderLock' = [orderLock EXCEPT ![up[u].order] = u]
    /\ up' = [up EXCEPT ![u].pc = "written"]
    /\ UNCHANGED <<orderState, shopLock, members, pdf, created, canceled, cl,
                   upserts>>

(* The membership test of the cancel branch, a statement (and a snapshot)   *)
(* of its own that runs after the row is written.                           *)
UpsertQueryBatch(u) ==
    /\ up[u].pc = "written"
    /\ up' = [up EXCEPT ![u] = [@ EXCEPT !.pc = "queried",
                                         !.inBatch = InBatch(up[u].order)]]
    /\ UNCHANGED <<orderState, orderLock, shopLock, members, pdf, created,
                   canceled, cl, upserts>>

(* Mutant: the event is raised again for an order already canceled.         *)
CancelDueAgain(t) ==
    /\ t.prev # "absent"
    /\ t.state = "canceled"
    /\ t.inBatch \/ t.mark

(* Mutant: only BigSeller's own print mark counts, not batch membership.    *)
CancelDueMarkOnly(t) ==
    /\ t.prev \notin {"absent", "canceled"}
    /\ t.state = "canceled"
    /\ t.mark

(* An order.canceled event is due when the state changed to a cancel state  *)
(* from another one and the Summary List was already printed.               *)
CancelDue(t) ==
    /\ t.prev \notin {"absent", "canceled"}
    /\ t.state = "canceled"
    /\ t.inBatch \/ t.mark

ReleaseUpsert(u) ==
    /\ orderLock' = [o \in Orders |-> IF orderLock[o] = u THEN None
                                      ELSE orderLock[o]]
    /\ shopLock' = [s \in Shops |-> IF shopLock[s] = u THEN None
                                    ELSE shopLock[s]]
    /\ up' = [up EXCEPT ![u] = IdleUpsert]

(* History row, items, outbox rows and COMMIT: all become visible at once.  *)
UpsertCommit(u) ==
    LET t == up[u] IN
    /\ t.pc = "queried"
    /\ orderState' = [orderState EXCEPT ![t.order] = t.state]
    /\ created' = IF t.prev = "absent"
                  THEN [created EXCEPT ![t.order] = @ + 1] ELSE created
    /\ canceled' = IF CancelDue(t)
                   THEN [canceled EXCEPT ![t.order] = @ + 1] ELSE canceled
    /\ ReleaseUpsert(u)
    /\ UNCHANGED <<members, pdf, cl, upserts>>

(* Any statement may fail, and the process may die: Postgres rolls back.    *)
UpsertAbort(u) ==
    /\ up[u].pc # "idle"
    /\ ReleaseUpsert(u)
    /\ UNCHANGED <<orderState, members, pdf, created, canceled, cl, upserts>>

(* The reconciler's UPDATE .. SET state = 'archived' of one order, a        *)
(* transaction of its own that takes no lock on the shop row.               *)
Archive(o) ==
    /\ o \in Ancient
    /\ orderState[o] = "new"
    /\ orderLock[o] = None
    /\ orderState' = [orderState EXCEPT ![o] = "archived"]
    /\ UNCHANGED <<orderLock, shopLock, members, pdf, created, canceled, up,
                   cl, upserts>>

-----------------------------------------------------------------------------
(* create_batch, create_batch_from_selection and finalize_batch.            *)

(* The rows the locking SELECT matches in its snapshot.                     *)
Backlog == {o \in Orders : orderState[o] = "new" /\ ~InBatch(o)}

(* The SELECT takes its snapshot: the whole backlog for a session, the      *)
(* requested ids for a selection (an empty selection returns early).        *)
ClaimSnapshot(c, session, requested) ==
    /\ cl[c].pc = "idle"
    /\ requested # {}
    /\ session # "selection" => requested = Orders
    /\ cl' = [cl EXCEPT ![c] = [pc |-> "locking", session |-> session,
                                todo |-> Backlog \cap requested, held |-> {},
                                batch |-> None]]
    /\ UNCHANGED <<orderState, orderLock, shopLock, members, pdf, created,
                   canceled, up, upserts>>

(* Mutant: a plain SELECT, without FOR UPDATE.                              *)
ClaimRowUnlocked(c, o) ==
    /\ cl[c].pc = "locking"
    /\ o \in cl[c].todo
    /\ cl' = [cl EXCEPT ![c] = [cl[c] EXCEPT !.todo = @ \ {o},
                                             !.held = @ \cup {o}]]
    /\ UNCHANGED <<orderState, orderLock, shopLock, members, pdf, created,
                   canceled, up, upserts>>

(* FOR UPDATE OF o SKIP LOCKED reaches one row: a row another transaction   *)
(* holds is skipped, and so is one whose new version is no longer 'new'.    *)
(* Membership is NOT looked at again.                                       *)
ClaimRow(c, o) ==
    /\ cl[c].pc = "locking"
    /\ o \in cl[c].todo
    /\ IF orderLock[o] = None /\ orderState[o] = "new"
       THEN /\ orderLock' = [orderLock EXCEPT ![o] = c]
            /\ cl' = [cl EXCEPT ![c] = [cl[c] EXCEPT !.todo = @ \ {o},
                                             !.held = @ \cup {o}]]
       ELSE /\ cl' = [cl EXCEPT ![c].todo = @ \ {o}]
            /\ UNCHANGED orderLock
    /\ UNCHANGED <<orderState, shopLock, members, pdf, created, canceled, up,
                   upserts>>

(* filter_candidates_for_session; a selection keeps every claimed row.      *)
Selected(c) ==
    IF cl[c].session = "urgent" THEN cl[c].held \cap Urgent ELSE cl[c].held

ReleaseClaim(c) ==
    orderLock' = [o \in Orders |-> IF orderLock[o] = c THEN None
                                   ELSE orderLock[o]]

(* Nothing selected: an error, and the transaction is dropped.              *)
ClaimNothing(c) ==
    /\ cl[c].pc = "locking" /\ cl[c].todo = {}
    /\ Selected(c) = {}
    /\ ReleaseClaim(c)
    /\ cl' = [cl EXCEPT ![c] = IdleClaim]
    /\ UNCHANGED <<orderState, shopLock, members, pdf, created, canceled, up,
                   upserts>>

(* An INSERT into batch_orders meets batch_orders_active_order_uid: the     *)
(* order went into another batch after this claim's snapshot. The error     *)
(* rolls the whole transaction back.                                        *)
ClaimConflict(c) ==
    /\ cl[c].pc = "locking" /\ cl[c].todo = {}
    /\ \E o \in Selected(c) : InBatch(o)
    /\ ReleaseClaim(c)
    /\ cl' = [cl EXCEPT ![c] = IdleClaim]
    /\ UNCHANGED <<orderState, shopLock, members, pdf, created, canceled, up,
                   upserts>>

(* Mutant: no partial unique index on the active membership of an order.    *)
ClaimCommitNoIndex(c, i) ==
    /\ cl[c].pc = "locking" /\ cl[c].todo = {}
    /\ Selected(c) # {}
    /\ members[i] = {}
    /\ members' = [members EXCEPT ![i] = Selected(c)]
    /\ ReleaseClaim(c)
    /\ cl' = [cl EXCEPT ![c] = [IdleClaim EXCEPT !.pc = "render", !.batch = i,
                                                 !.held = Selected(c)]]
    /\ UNCHANGED <<orderState, shopLock, pdf, created, canceled, up, upserts>>

(* Mutant: the PDF lines are built from every locked row, before the        *)
(* session filter.                                                          *)
ClaimCommitUnfiltered(c, i) ==
    /\ cl[c].pc = "locking" /\ cl[c].todo = {}
    /\ Selected(c) # {}
    /\ \A o \in Selected(c) : ~InBatch(o)
    /\ members[i] = {}
    /\ members' = [members EXCEPT ![i] = Selected(c)]
    /\ ReleaseClaim(c)
    /\ cl' = [cl EXCEPT ![c] = [IdleClaim EXCEPT !.pc = "render", !.batch = i,
                                                 !.held = cl[c].held]]
    /\ UNCHANGED <<orderState, shopLock, pdf, created, canceled, up, upserts>>

(* batches (pdf_bytes NULL) and batch_orders are inserted and committed.    *)
ClaimCommit(c, i) ==
    /\ cl[c].pc = "locking" /\ cl[c].todo = {}
    /\ Selected(c) # {}
    /\ \A o \in Selected(c) : ~InBatch(o)
    /\ members[i] = {}
    /\ members' = [members EXCEPT ![i] = Selected(c)]
    /\ ReleaseClaim(c)
    /\ cl' = [cl EXCEPT ![c] = [IdleClaim EXCEPT !.pc = "render", !.batch = i,
                                                 !.held = Selected(c)]]
    /\ UNCHANGED <<orderState, shopLock, pdf, created, canceled, up, upserts>>

(* After the commit the PDF is rendered from the rows in memory and stored  *)
(* in a statement of its own.                                               *)
StorePdf(c) ==
    /\ cl[c].pc = "render"
    /\ pdf' = [pdf EXCEPT ![cl[c].batch] = cl[c].held]
    /\ cl' = [cl EXCEPT ![c] = IdleClaim]
    /\ UNCHANGED <<orderState, orderLock, shopLock, members, created, canceled,
                   up, upserts>>

(* Rendering or storing fails, or the process dies: the batch stays, ready, *)
(* with no PDF.                                                             *)
LosePdf(c) ==
    /\ cl[c].pc = "render"
    /\ cl' = [cl EXCEPT ![c] = IdleClaim]
    /\ UNCHANGED <<orderState, orderLock, shopLock, members, pdf, created,
                   canceled, up, upserts>>

(* A statement before the commit fails, or the process dies.                *)
ClaimAbort(c) ==
    /\ cl[c].pc = "locking"
    /\ ReleaseClaim(c)
    /\ cl' = [cl EXCEPT ![c] = IdleClaim]
    /\ UNCHANGED <<orderState, shopLock, members, pdf, created, canceled, up,
                   upserts>>

(* regenerate_batch_pdf of an existing batch: the members are read back.    *)
RegeneratePdf(i) ==
    /\ members[i] # {}
    /\ pdf' = [pdf EXCEPT ![i] = members[i]]
    /\ UNCHANGED <<orderState, orderLock, shopLock, members, created, canceled,
                   up, cl, upserts>>

-----------------------------------------------------------------------------
UpsertStep(u) ==
    \/ \E o \in Orders, s \in BigSellerStates, m \in BOOLEAN :
           UpsertRead(u, o, s, m)
    \/ UpsertWrite(u)
    \/ UpsertQueryBatch(u)
    \/ UpsertCommit(u)
    \/ UpsertAbort(u)

ClaimStep(c) ==
    \/ \E session \in Sessions, requested \in SUBSET Orders :
           ClaimSnapshot(c, session, requested)
    \/ \E o \in Orders : ClaimRow(c, o)
    \/ ClaimNothing(c)
    \/ ClaimConflict(c)
    \/ \E i \in BatchIds : ClaimCommit(c, i)
    \/ StorePdf(c)
    \/ LosePdf(c)
    \/ ClaimAbort(c)

Next ==
    \/ \E u \in Upserters : UpsertStep(u)
    \/ \E c \in Claimers : ClaimStep(c)
    \/ \E o \in Orders : Archive(o)
    \/ \E i \in BatchIds : RegeneratePdf(i)

Spec == Init /\ [][Next]_vars

-----------------------------------------------------------------------------
(* Properties.                                                              *)

(* An order is in at most one batch, so its pick line is printed once: the  *)
(* snapshot of a claim may be stale by the time it locks a row, and only    *)
(* the partial unique index of finalize_batch's INSERTs then stands between *)
(* two batches and the same order (batch.rs, create_batch).                 *)
ExclusiveClaim ==
    \A i, j \in BatchIds : i # j => members[i] \cap members[j] = {}

(* A stored PDF lists the orders of its batch, though it is drawn from the  *)
(* creator's memory after the commit and may be regenerated meanwhile.      *)
PdfListsMembers ==
    \A i \in BatchIds : pdf[i] # {} => pdf[i] = members[i]

(* An order that was taken out and then canceled has its cancel event, in   *)
(* whatever order the claim and the upsert interleave: the membership test  *)
(* of upsert_order runs under the row lock a claim must also take.          *)
CanceledClaimNotified ==
    \A o \in Orders : orderState[o] = "canceled" /\ InBatch(o) => canceled[o] > 0

(* An order has exactly one order.created event from the moment its row     *)
(* exists, although the "is it new" test of upsert_order reads without a    *)
(* row lock and several tasks upsert the same order: the shop row's lock    *)
(* keeps them apart.                                                        *)
CreatedOnce ==
    \A o \in Orders : created[o] = IF orderState[o] = "absent" THEN 0 ELSE 1

(* A batch takes only orders that are still 'new' when it commits: no       *)
(* upsert or archiving slips between the row lock and the membership.       *)
ClaimsOnlyNew ==
    [][\A i \in BatchIds : \A o \in members'[i] \ members[i] :
           orderState[o] = "new"]_vars

(* No order.canceled event is sent for a cancellation already reported: a   *)
(* re-read of a canceled order adds none.                                   *)
CancelReportedOnce ==
    [][\A o \in Orders : canceled'[o] # canceled[o] =>
           /\ canceled'[o] = canceled[o] + 1
           /\ orderState[o] # "canceled"
           /\ orderState'[o] = "canceled"]_vars

(* The transactions, interleaved statement by statement, do what Takeout    *)
(* does in indivisible steps: nothing of the locking can be observed.       *)
Store == INSTANCE Takeout WITH
    phase <- orderState,
    takenBy <- [o \in Orders |-> {i \in BatchIds : o \in members[i]}],
    notices <- canceled

ImplementsTakeout == Store!Spec

(* What the doc comment of create_batch_from_selection says of a request:   *)
(* an order that cannot be claimed is reported as skipped, and the request  *)
(* fails only when nothing could be claimed.                                *)
SelectionNotDoomed ==
    \A c \in Claimers :
        /\ cl[c].pc = "locking" /\ cl[c].session = "selection"
        /\ cl[c].todo = {}
        /\ \E o \in cl[c].held : ~InBatch(o)
        => \A o \in cl[c].held : ~InBatch(o)
=============================================================================
