-------------------------- MODULE OrderClaimProofs --------------------------
(***************************************************************************)
(* Theorems of OrderClaim: type correctness, the claim's safety, and that  *)
(* the interleaved transactions implement Takeout.                         *)
(***************************************************************************)
EXTENDS OrderClaim, TLAPS

(* Who holds which lock can be read off the transactions: an order row is   *)
(* held by the upsert that wrote it or by the claim that selected it.       *)
OrderLockOwned ==
    \A o \in Orders :
        /\ \A u \in Upserters :
              orderLock[o] = u <=> /\ up[u].pc \in {"written", "queried"}
                                   /\ up[u].order = o
        /\ \A c \in Claimers :
              orderLock[o] = c <=> cl[c].pc = "locking" /\ o \in cl[c].held

ShopLockOwned ==
    \A s \in Shops, u \in Upserters :
        shopLock[s] = u <=> up[u].pc # "idle" /\ ShopOf[up[u].order] = s

BusyUpsertHasOrder ==
    \A u \in Upserters : up[u].pc # "idle" => up[u].order \in Orders

(* A claimed row stays 'new' while its lock is held.                        *)
HeldIsNew ==
    \A c \in Claimers : cl[c].pc = "locking" =>
        \A o \in cl[c].held : orderState[o] = "new"

(* The previous state an upsert read may be overtaken by an archiving, but  *)
(* never in what the commit asks of it.                                     *)
PrevFresh ==
    \A u \in Upserters : up[u].pc # "idle" =>
        /\ up[u].prev = "absent" <=> orderState[up[u].order] = "absent"
        /\ up[u].prev = "canceled" <=> orderState[up[u].order] = "canceled"

MembershipFresh ==
    \A u \in Upserters : up[u].pc = "queried" =>
        (up[u].inBatch = TRUE) <=> InBatch(up[u].order)

BatchedExists ==
    \A o \in Orders : InBatch(o) => orderState[o] # "absent"

(* What the creator draws the PDF from is what it committed.                *)
RenderMatches ==
    \A c \in Claimers : cl[c].pc = "render" =>
        /\ cl[c].batch \in BatchIds
        /\ cl[c].held # {}
        /\ cl[c].held = members[cl[c].batch]

IInv ==
    /\ TypeOK
    /\ OrderLockOwned
    /\ ShopLockOwned
    /\ BusyUpsertHasOrder
    /\ HeldIsNew
    /\ PrevFresh
    /\ MembershipFresh
    /\ BatchedExists
    /\ RenderMatches
    /\ PdfListsMembers
    /\ ExclusiveClaim
    /\ CanceledClaimNotified
    /\ CreatedOnce

-----------------------------------------------------------------------------
(* The initial state.                                                       *)
LEMMA InitIInv == Init => IInv
<1> SUFFICES ASSUME Init PROVE IInv
  OBVIOUS
<1> USE ClaimAssumption
<1>1. TypeOK
  BY DEF Init, TypeOK, IdleUpsert, IdleClaim, States, BigSellerStates, Sessions
<1>2. OrderLockOwned /\ ShopLockOwned
  BY DEF Init, OrderLockOwned, ShopLockOwned, IdleUpsert, IdleClaim
<1>3. /\ BusyUpsertHasOrder /\ HeldIsNew /\ PrevFresh /\ MembershipFresh
      /\ RenderMatches
  BY DEF Init, BusyUpsertHasOrder, HeldIsNew, PrevFresh, MembershipFresh,
         RenderMatches, IdleUpsert, IdleClaim
<1>4. /\ BatchedExists /\ PdfListsMembers /\ ExclusiveClaim
      /\ CanceledClaimNotified /\ CreatedOnce
  BY DEF Init, BatchedExists, PdfListsMembers, ExclusiveClaim,
         CanceledClaimNotified, CreatedOnce, InBatch
<1> QED
  BY <1>1, <1>2, <1>3, <1>4 DEF IInv

LEMMA UpsertReadKeepsIInv ==
    ASSUME IInv, NEW u \in Upserters, NEW o \in Orders,
           NEW s \in BigSellerStates, NEW m \in BOOLEAN, UpsertRead(u, o, s, m)
    PROVE  IInv'
<1> USE ClaimAssumption DEF IInv, UpsertRead
<1>1. TypeOK'
  BY DEF TypeOK
<1>2. OrderLockOwned' /\ ShopLockOwned'
  BY DEF TypeOK, OrderLockOwned, ShopLockOwned
<1>3. BusyUpsertHasOrder' /\ PrevFresh' /\ MembershipFresh'
  BY DEF TypeOK, BusyUpsertHasOrder, PrevFresh, MembershipFresh, InBatch
<1>4. /\ HeldIsNew' /\ BatchedExists' /\ RenderMatches' /\ PdfListsMembers'
      /\ ExclusiveClaim' /\ CanceledClaimNotified' /\ CreatedOnce'
  BY DEF HeldIsNew, BatchedExists, RenderMatches, PdfListsMembers,
         ExclusiveClaim, CanceledClaimNotified, CreatedOnce, InBatch
<1> QED
  BY <1>1, <1>2, <1>3, <1>4

LEMMA UpsertWriteKeepsIInv ==
    ASSUME IInv, NEW u \in Upserters, UpsertWrite(u)
    PROVE  IInv'
<1> USE ClaimAssumption DEF IInv, UpsertWrite
<1>1. TypeOK'
  BY DEF TypeOK, BusyUpsertHasOrder
<1>2. OrderLockOwned' /\ ShopLockOwned'
  BY DEF TypeOK, OrderLockOwned, ShopLockOwned, BusyUpsertHasOrder
<1>3. BusyUpsertHasOrder' /\ PrevFresh'
  BY DEF TypeOK, BusyUpsertHasOrder, PrevFresh
<1>5. MembershipFresh'
  <2>1. \A v \in Upserters : /\ up'[v].order = up[v].order
                             /\ up'[v].inBatch = up[v].inBatch
                             /\ up'[v].pc = "queried" => up[v].pc = "queried"
    BY DEF TypeOK
  <2>2. \A o : InBatch(o)' <=> InBatch(o)
    BY DEF InBatch
  <2> QED
    BY <2>1, <2>2 DEF MembershipFresh
<1>4. /\ HeldIsNew' /\ BatchedExists' /\ RenderMatches' /\ PdfListsMembers'
      /\ ExclusiveClaim' /\ CanceledClaimNotified' /\ CreatedOnce'
  BY DEF HeldIsNew, BatchedExists, RenderMatches, PdfListsMembers,
         ExclusiveClaim, CanceledClaimNotified, CreatedOnce, InBatch
<1> QED
  BY <1>1, <1>2, <1>3, <1>4, <1>5

LEMMA UpsertQueryBatchKeepsIInv ==
    ASSUME IInv, NEW u \in Upserters, UpsertQueryBatch(u)
    PROVE  IInv'
<1> USE ClaimAssumption DEF IInv, UpsertQueryBatch
<1>a. InBatch(up[u].order) \in BOOLEAN
  BY DEF InBatch
<1>1. TypeOK'
  <2> DEFINE Tx == [pc: {"idle", "read", "written", "queried"},
                    order: Orders \cup {None}, state: BigSellerStates,
                    mark: BOOLEAN, prev: States, inBatch: BOOLEAN]
  <2>1. up \in [Upserters -> Tx]
    BY DEF TypeOK
  <2>2. PICK b \in BOOLEAN :
            up' = [up EXCEPT ![u] = [@ EXCEPT !.pc = "queried", !.inBatch = b]]
    BY <1>a
  <2>3. up' \in [Upserters -> Tx]
    BY ONLY <2>1, <2>2, u \in Upserters
  <2> QED
    BY <2>3 DEF TypeOK
<1>2. OrderLockOwned' /\ ShopLockOwned'
  BY DEF TypeOK, OrderLockOwned, ShopLockOwned
<1>3. BusyUpsertHasOrder' /\ PrevFresh'
  BY DEF TypeOK, BusyUpsertHasOrder, PrevFresh
<1>5. MembershipFresh'
  <2>1. \A v \in Upserters : /\ up'[v].order = up[v].order
                             /\ v # u => up'[v] = up[v]
    BY DEF TypeOK
  <2>2. (up'[u].inBatch = TRUE) <=> InBatch(up[u].order)
    BY <1>a DEF TypeOK
  <2>3. \A o : InBatch(o)' <=> InBatch(o)
    BY DEF InBatch
  <2> QED
    BY <2>1, <2>2, <2>3 DEF MembershipFresh
<1>4. /\ HeldIsNew' /\ BatchedExists' /\ RenderMatches' /\ PdfListsMembers'
      /\ ExclusiveClaim' /\ CanceledClaimNotified' /\ CreatedOnce'
  BY DEF HeldIsNew, BatchedExists, RenderMatches, PdfListsMembers,
         ExclusiveClaim, CanceledClaimNotified, CreatedOnce, InBatch
<1> QED
  BY <1>1, <1>2, <1>3, <1>4, <1>5

(* Ending an upsert, either way, gives back exactly the locks it held.      *)
LEMMA ReleaseUpsertKeepsLocks ==
    ASSUME IInv, NEW u \in Upserters, up[u].pc # "idle", ReleaseUpsert(u),
           UNCHANGED cl
    PROVE  OrderLockOwned' /\ ShopLockOwned'
<1> USE ClaimAssumption DEF IInv, ReleaseUpsert, IdleUpsert
<1>1. OrderLockOwned'
  BY DEF TypeOK, OrderLockOwned
<1>2. ShopLockOwned'
  BY DEF TypeOK, ShopLockOwned
<1> QED
  BY <1>1, <1>2

LEMMA UpsertCommitKeepsIInv ==
    ASSUME IInv, NEW u \in Upserters, UpsertCommit(u)
    PROVE  IInv'
<1> USE ClaimAssumption DEF IInv, UpsertCommit
<1> DEFINE t == up[u]
<1>a. /\ t.order \in Orders /\ t.state \in BigSellerStates
      /\ (t.inBatch = TRUE) <=> InBatch(t.order)
      /\ t.prev = "absent" <=> orderState[t.order] = "absent"
      /\ t.prev = "canceled" <=> orderState[t.order] = "canceled"
  BY DEF TypeOK, BusyUpsertHasOrder, MembershipFresh, PrevFresh
<1>b. up' = [up EXCEPT ![u] = IdleUpsert]
  BY DEF ReleaseUpsert
<1>1. TypeOK'
  BY <1>a DEF TypeOK, ReleaseUpsert, IdleUpsert, States, BigSellerStates
<1>2. OrderLockOwned' /\ ShopLockOwned'
  BY ReleaseUpsertKeepsLocks
<1>3. BusyUpsertHasOrder'
  BY <1>b DEF TypeOK, BusyUpsertHasOrder, IdleUpsert
<1>8. MembershipFresh'
  <2>1. \A v \in Upserters : up'[v].pc = "queried" => up'[v] = up[v]
    BY <1>b DEF TypeOK, IdleUpsert
  <2>2. \A o : InBatch(o)' <=> InBatch(o)
    BY DEF InBatch
  <2> QED
    BY <2>1, <2>2 DEF MembershipFresh
<1>4. PrevFresh'
  <2>1. ASSUME NEW v \in Upserters, up'[v].pc # "idle"
        PROVE  v # u /\ up'[v] = up[v] /\ up[v].order # t.order
    <3>1. v # u /\ up'[v] = up[v] /\ up[v].pc # "idle"
      BY <1>b, <2>1 DEF TypeOK, IdleUpsert
    <3>2. up[v].order \in Orders /\ shopLock[ShopOf[up[v].order]] = v
      BY <3>1 DEF BusyUpsertHasOrder, ShopLockOwned
    <3>3. shopLock[ShopOf[t.order]] = u
      BY <1>a DEF ShopLockOwned
    <3> QED
      BY <3>1, <3>2, <3>3
  <2> QED
    BY <1>a, <2>1 DEF TypeOK, PrevFresh, BusyUpsertHasOrder
<1>5. HeldIsNew'
  <2>1. \A c \in Claimers : cl[c].pc = "locking" => t.order \notin cl[c].held
    BY <1>a DEF OrderLockOwned
  <2> QED
    BY <1>a, <2>1 DEF TypeOK, HeldIsNew
<1>6. BatchedExists' /\ CanceledClaimNotified' /\ CreatedOnce'
  BY <1>a DEF TypeOK, BatchedExists, CanceledClaimNotified, CreatedOnce,
              InBatch, CancelDue, BigSellerStates, States
<1>7. RenderMatches' /\ PdfListsMembers' /\ ExclusiveClaim'
  BY DEF RenderMatches, PdfListsMembers, ExclusiveClaim
<1> QED
  BY <1>1, <1>2, <1>3, <1>4, <1>5, <1>6, <1>7, <1>8

LEMMA UpsertAbortKeepsIInv ==
    ASSUME IInv, NEW u \in Upserters, UpsertAbort(u)
    PROVE  IInv'
<1> USE ClaimAssumption DEF IInv, UpsertAbort
<1>1. TypeOK'
  BY DEF TypeOK, ReleaseUpsert, IdleUpsert, States, BigSellerStates
<1>2. OrderLockOwned' /\ ShopLockOwned'
  BY ReleaseUpsertKeepsLocks
<1>3. BusyUpsertHasOrder' /\ PrevFresh' /\ MembershipFresh'
  BY DEF TypeOK, BusyUpsertHasOrder, PrevFresh, MembershipFresh, InBatch,
         ReleaseUpsert, IdleUpsert
<1>4. /\ HeldIsNew' /\ BatchedExists' /\ RenderMatches' /\ PdfListsMembers'
      /\ ExclusiveClaim' /\ CanceledClaimNotified' /\ CreatedOnce'
  BY DEF HeldIsNew, BatchedExists, RenderMatches, PdfListsMembers,
         ExclusiveClaim, CanceledClaimNotified, CreatedOnce, InBatch
<1> QED
  BY <1>1, <1>2, <1>3, <1>4

LEMMA ArchiveKeepsIInv ==
    ASSUME IInv, NEW o \in Orders, Archive(o)
    PROVE  IInv'
<1> USE ClaimAssumption DEF IInv, Archive
<1>1. TypeOK'
  BY DEF TypeOK, States
<1>2. OrderLockOwned' /\ ShopLockOwned'
  BY DEF OrderLockOwned, ShopLockOwned
<1>3. BusyUpsertHasOrder' /\ PrevFresh' /\ MembershipFresh'
  BY DEF TypeOK, BusyUpsertHasOrder, PrevFresh, MembershipFresh, InBatch
<1>4. HeldIsNew'
  BY DEF TypeOK, HeldIsNew, OrderLockOwned
<1>5. BatchedExists' /\ CanceledClaimNotified' /\ CreatedOnce'
  BY DEF TypeOK, BatchedExists, CanceledClaimNotified, CreatedOnce, InBatch
<1>6. RenderMatches' /\ PdfListsMembers' /\ ExclusiveClaim'
  BY DEF RenderMatches, PdfListsMembers, ExclusiveClaim
<1> QED
  BY <1>1, <1>2, <1>3, <1>4, <1>5, <1>6

-----------------------------------------------------------------------------
(* Claims.                                                                  *)
LEMMA ClaimSnapshotKeepsIInv ==
    ASSUME IInv, NEW c \in Claimers, NEW session \in Sessions,
           NEW requested \in SUBSET Orders, ClaimSnapshot(c, session, requested)
    PROVE  IInv'
<1> USE ClaimAssumption DEF IInv, ClaimSnapshot
<1>1. TypeOK'
  BY DEF TypeOK, Backlog
<1>2. OrderLockOwned' /\ ShopLockOwned'
  BY DEF TypeOK, OrderLockOwned, ShopLockOwned
<1>3. HeldIsNew' /\ RenderMatches'
  BY DEF TypeOK, HeldIsNew, RenderMatches
<1>4. /\ BusyUpsertHasOrder' /\ PrevFresh' /\ MembershipFresh'
      /\ BatchedExists' /\ PdfListsMembers'
      /\ ExclusiveClaim' /\ CanceledClaimNotified' /\ CreatedOnce'
  BY DEF BusyUpsertHasOrder, PrevFresh, MembershipFresh, BatchedExists,
         PdfListsMembers, ExclusiveClaim, CanceledClaimNotified, CreatedOnce,
         InBatch
<1> QED
  BY <1>1, <1>2, <1>3, <1>4

LEMMA ClaimRowKeepsIInv ==
    ASSUME IInv, NEW c \in Claimers, NEW o \in Orders, ClaimRow(c, o)
    PROVE  IInv'
<1> USE ClaimAssumption DEF IInv
<1> DEFINE Tx == [pc: {"idle", "locking", "render"}, session: Sessions,
                  todo: SUBSET Orders, held: SUBSET Orders,
                  batch: BatchIds \cup {None}]
<1>a. cl \in [Claimers -> Tx] /\ cl[c].pc = "locking"
  BY DEF TypeOK, ClaimRow
<1>b. /\ cl' \in [Claimers -> Tx]
      /\ \A d \in Claimers : d # c => cl'[d] = cl[d]
      /\ cl'[c].pc = "locking"
      /\ \/ /\ orderLock[o] = None /\ orderState[o] = "new"
            /\ orderLock' = [orderLock EXCEPT ![o] = c]
            /\ cl'[c].held = cl[c].held \cup {o}
         \/ UNCHANGED orderLock /\ cl'[c].held = cl[c].held
  <2>1. CASE orderLock[o] = None /\ orderState[o] = "new"
    <3>1. /\ orderLock' = [orderLock EXCEPT ![o] = c]
          /\ cl' = [cl EXCEPT ![c] = [cl[c] EXCEPT !.todo = @ \ {o},
                                                  !.held = @ \cup {o}]]
      BY <2>1 DEF ClaimRow
    <3>2. /\ \A d \in Claimers : d # c => cl'[d] = cl[d]
          /\ cl'[c] = [cl[c] EXCEPT !.todo = @ \ {o}, !.held = @ \cup {o}]
          /\ cl' = [d \in Claimers |-> cl'[d]]
      BY ONLY <1>a, <3>1, c \in Claimers
    <3>3. /\ cl'[c] \in Tx
          /\ cl'[c].pc = "locking" /\ cl'[c].held = cl[c].held \cup {o}
      <4>1. /\ cl[c] \in Tx /\ cl[c].todo \ {o} \in SUBSET Orders
            /\ cl[c].held \cup {o} \in SUBSET Orders
        BY ONLY <1>a, c \in Claimers, o \in Orders
      <4> QED
        BY ONLY <1>a, <3>2, <4>1
    <3> QED
      BY ONLY <1>a, <2>1, <3>1, <3>2, <3>3
  <2>2. CASE ~(orderLock[o] = None /\ orderState[o] = "new")
    <3>1. UNCHANGED orderLock /\ cl' = [cl EXCEPT ![c].todo = @ \ {o}]
      BY <2>2 DEF ClaimRow
    <3> QED
      BY ONLY <1>a, <2>2, <3>1, c \in Claimers, o \in Orders
  <2> QED
    BY <2>1, <2>2
<1>c. UNCHANGED <<orderState, shopLock, members, pdf, created, canceled, up,
                  upserts>>
  BY DEF ClaimRow
<1> HIDE DEF Tx
<1>1. TypeOK'
  BY <1>b, <1>c DEF TypeOK, Tx
<1>2. OrderLockOwned'
  <2>1. orderLock \in [Orders -> Upserters \cup Claimers \cup {None}]
    BY DEF TypeOK
  <2>2. CASE UNCHANGED orderLock /\ cl'[c].held = cl[c].held
    BY <1>a, <1>b, <1>c, <2>2 DEF OrderLockOwned
  <2>3. CASE /\ orderLock[o] = None
             /\ orderLock' = [orderLock EXCEPT ![o] = c]
             /\ cl'[c].held = cl[c].held \cup {o}
    <3>1. \A q \in Orders : orderLock'[q] = IF q = o THEN c ELSE orderLock[q]
      BY ONLY <2>1, <2>3
    <3> QED
      BY <1>a, <1>b, <1>c, <2>3, <3>1 DEF OrderLockOwned
  <2> QED
    BY <1>b, <2>2, <2>3
<1>3. HeldIsNew'
  BY <1>a, <1>b, <1>c DEF HeldIsNew
<1>4. RenderMatches'
  BY <1>b, <1>c DEF RenderMatches
<1>5. /\ ShopLockOwned' /\ BusyUpsertHasOrder' /\ PrevFresh' /\ MembershipFresh'
      /\ BatchedExists' /\ PdfListsMembers'
      /\ ExclusiveClaim' /\ CanceledClaimNotified' /\ CreatedOnce'
  BY <1>c DEF ShopLockOwned, BusyUpsertHasOrder, PrevFresh, MembershipFresh,
              BatchedExists, PdfListsMembers, ExclusiveClaim,
              CanceledClaimNotified, CreatedOnce, InBatch
<1> QED
  BY <1>1, <1>2, <1>3, <1>4, <1>5

(* A claim that ends without a batch only gives back its row locks.         *)
LEMMA ClaimGivesUpKeepsIInv ==
    ASSUME IInv, NEW c \in Claimers, cl[c].pc = "locking", ReleaseClaim(c),
           cl' = [cl EXCEPT ![c] = IdleClaim],
           UNCHANGED <<orderState, shopLock, members, pdf, created, canceled,
                       up, upserts>>
    PROVE  IInv'
<1> USE ClaimAssumption DEF IInv, ReleaseClaim, IdleClaim
<1>1. TypeOK'
  BY DEF TypeOK, Sessions
<1>2. ShopLockOwned'
  BY DEF ShopLockOwned
<1>3. OrderLockOwned'
  BY DEF TypeOK, OrderLockOwned
<1>4. HeldIsNew' /\ RenderMatches'
  BY DEF TypeOK, HeldIsNew, RenderMatches
<1>5. /\ BusyUpsertHasOrder' /\ PrevFresh' /\ MembershipFresh'
      /\ BatchedExists' /\ PdfListsMembers'
      /\ ExclusiveClaim' /\ CanceledClaimNotified' /\ CreatedOnce'
  BY DEF BusyUpsertHasOrder, PrevFresh, MembershipFresh, BatchedExists,
         PdfListsMembers, ExclusiveClaim, CanceledClaimNotified, CreatedOnce,
         InBatch
<1> QED
  BY <1>1, <1>2, <1>3, <1>4, <1>5

LEMMA ClaimCommitKeepsIInv ==
    ASSUME IInv, NEW c \in Claimers, NEW i \in BatchIds, ClaimCommit(c, i)
    PROVE  IInv'
<1> USE ClaimAssumption DEF IInv
<1> DEFINE S == Selected(c)
<1>a. /\ S \subseteq cl[c].held /\ S \subseteq Orders /\ S # {}
      /\ \A o \in S : /\ orderState[o] = "new" /\ orderLock[o] = c
                      /\ ~InBatch(o)
  BY DEF ClaimCommit, Selected, TypeOK, HeldIsNew, OrderLockOwned
<1>b. /\ cl[c].pc = "locking" /\ members[i] = {}
      /\ members' = [members EXCEPT ![i] = S]
      /\ cl' = [cl EXCEPT ![c] = [IdleClaim EXCEPT !.pc = "render", !.batch = i,
                                                   !.held = S]]
      /\ orderLock' = [o \in Orders |-> IF orderLock[o] = c THEN None
                                        ELSE orderLock[o]]
      /\ UNCHANGED <<orderState, shopLock, pdf, created, canceled, up, upserts>>
  BY DEF ClaimCommit, ReleaseClaim
<1> HIDE DEF S
<1>c. \A o \in Orders : InBatch(o)' <=> InBatch(o) \/ o \in S
  BY <1>a, <1>b DEF TypeOK, InBatch
<1>1. TypeOK'
  BY <1>a, <1>b DEF TypeOK, IdleClaim, Sessions
<1>2. ShopLockOwned' /\ BusyUpsertHasOrder' /\ PrevFresh'
  BY <1>b DEF ShopLockOwned, BusyUpsertHasOrder, PrevFresh
<1>3. OrderLockOwned'
  BY <1>b DEF TypeOK, OrderLockOwned, IdleClaim
<1>4. HeldIsNew'
  BY <1>b DEF TypeOK, HeldIsNew, IdleClaim
<1>5. MembershipFresh'
  <2>1. \A u \in Upserters : up[u].pc = "queried" =>
            up[u].order \in Orders /\ up[u].order \notin S
    BY <1>a DEF OrderLockOwned, BusyUpsertHasOrder
  <2> QED
    BY <1>b, <1>c, <2>1 DEF MembershipFresh
<1>6. BatchedExists' /\ CanceledClaimNotified' /\ CreatedOnce'
  BY <1>a, <1>b, <1>c DEF BatchedExists, CanceledClaimNotified, CreatedOnce
<1>7. ExclusiveClaim'
  BY <1>a, <1>b DEF TypeOK, ExclusiveClaim, InBatch
<1>8. PdfListsMembers'
  BY <1>b DEF TypeOK, PdfListsMembers
<1>9. RenderMatches'
  BY <1>a, <1>b DEF TypeOK, RenderMatches, IdleClaim
<1> QED
  BY <1>1, <1>2, <1>3, <1>4, <1>5, <1>6, <1>7, <1>8, <1>9

(* After the commit only the PDF and the creator's locals change.           *)
LEMMA RenderKeepsIInv ==
    ASSUME IInv, NEW c \in Claimers, StorePdf(c) \/ LosePdf(c)
    PROVE  IInv'
<1> USE ClaimAssumption DEF IInv, IdleClaim
<1>a. /\ cl[c].pc = "render" /\ cl' = [cl EXCEPT ![c] = IdleClaim]
      /\ UNCHANGED <<orderState, orderLock, shopLock, members, created,
                     canceled, up, upserts>>
      /\ UNCHANGED pdf \/ pdf' = [pdf EXCEPT ![cl[c].batch] = cl[c].held]
  BY DEF StorePdf, LosePdf
<1>1. TypeOK'
  BY <1>a DEF TypeOK, Sessions, RenderMatches
<1>2. OrderLockOwned'
  BY <1>a DEF TypeOK, OrderLockOwned
<1>3. HeldIsNew' /\ RenderMatches' /\ PdfListsMembers'
  BY <1>a DEF TypeOK, HeldIsNew, RenderMatches, PdfListsMembers
<1>4. /\ ShopLockOwned' /\ BusyUpsertHasOrder' /\ PrevFresh' /\ MembershipFresh'
      /\ BatchedExists' /\ ExclusiveClaim' /\ CanceledClaimNotified'
      /\ CreatedOnce'
  BY <1>a DEF ShopLockOwned, BusyUpsertHasOrder, PrevFresh, MembershipFresh,
              BatchedExists, ExclusiveClaim, CanceledClaimNotified, CreatedOnce,
              InBatch
<1> QED
  BY <1>1, <1>2, <1>3, <1>4

LEMMA RegeneratePdfKeepsIInv ==
    ASSUME IInv, NEW i \in BatchIds, RegeneratePdf(i)
    PROVE  IInv'
<1> USE ClaimAssumption DEF IInv, RegeneratePdf
<1>1. TypeOK' /\ PdfListsMembers'
  BY DEF TypeOK, PdfListsMembers
<1>2. /\ OrderLockOwned' /\ ShopLockOwned' /\ BusyUpsertHasOrder' /\ HeldIsNew'
      /\ PrevFresh' /\ MembershipFresh' /\ BatchedExists' /\ RenderMatches'
      /\ ExclusiveClaim' /\ CanceledClaimNotified' /\ CreatedOnce'
  BY DEF OrderLockOwned, ShopLockOwned, BusyUpsertHasOrder, HeldIsNew,
         PrevFresh, MembershipFresh, BatchedExists, RenderMatches,
         ExclusiveClaim, CanceledClaimNotified, CreatedOnce, InBatch
<1> QED
  BY <1>1, <1>2

-----------------------------------------------------------------------------
(* The invariant is inductive: one case per action.                         *)
LEMMA NextKeepsIInv == IInv /\ [Next]_vars => IInv'
<1> SUFFICES ASSUME IInv, [Next]_vars PROVE IInv'
  OBVIOUS
<1>1. ASSUME NEW u \in Upserters, UpsertStep(u) PROVE IInv'
  BY <1>1, UpsertReadKeepsIInv, UpsertWriteKeepsIInv, UpsertQueryBatchKeepsIInv,
     UpsertCommitKeepsIInv, UpsertAbortKeepsIInv DEF UpsertStep
<1>2. ASSUME NEW c \in Claimers, ClaimStep(c) PROVE IInv'
  <2>1. ASSUME NEW session \in Sessions, NEW requested \in SUBSET Orders,
               ClaimSnapshot(c, session, requested)
        PROVE  IInv'
    BY <2>1, ClaimSnapshotKeepsIInv
  <2>2. ASSUME NEW o \in Orders, ClaimRow(c, o) PROVE IInv'
    BY <2>2, ClaimRowKeepsIInv
  <2>3. CASE ClaimNothing(c)
    BY <2>3, ClaimGivesUpKeepsIInv DEF ClaimNothing
  <2>4. CASE ClaimConflict(c)
    BY <2>4, ClaimGivesUpKeepsIInv DEF ClaimConflict
  <2>5. ASSUME NEW i \in BatchIds, ClaimCommit(c, i) PROVE IInv'
    BY <2>5, ClaimCommitKeepsIInv
  <2>6. CASE StorePdf(c) \/ LosePdf(c)
    BY <2>6, RenderKeepsIInv
  <2>7. CASE ClaimAbort(c)
    BY <2>7, ClaimGivesUpKeepsIInv DEF ClaimAbort
  <2> QED
    BY <1>2, <2>1, <2>2, <2>3, <2>4, <2>5, <2>6, <2>7 DEF ClaimStep
<1>3. ASSUME NEW o \in Orders, Archive(o) PROVE IInv'
  BY <1>3, ArchiveKeepsIInv
<1>4. ASSUME NEW i \in BatchIds, RegeneratePdf(i) PROVE IInv'
  BY <1>4, RegeneratePdfKeepsIInv
<1>5. CASE UNCHANGED vars
  BY <1>5 DEF vars, IInv, TypeOK, OrderLockOwned, ShopLockOwned,
     BusyUpsertHasOrder, HeldIsNew, PrevFresh, MembershipFresh, BatchedExists,
     RenderMatches, PdfListsMembers, ExclusiveClaim, CanceledClaimNotified,
     CreatedOnce, InBatch
<1> QED
  BY <1>1, <1>2, <1>3, <1>4, <1>5 DEF Next

LEMMA SpecIInv == Spec => []IInv
  BY InitIInv, NextKeepsIInv, PTL DEF Spec

(* Every variable keeps to its type, whatever the orders, shops and tasks.  *)
THEOREM TypeCorrect == Spec => []TypeOK
<1>1. IInv => TypeOK
  BY DEF IInv
<1> QED
  BY <1>1, SpecIInv, PTL

(* No order is ever in two batches: the unique index suffices, although a   *)
(* claim's snapshot may be stale when it locks its rows.                    *)
THEOREM ClaimIsExclusive == Spec => []ExclusiveClaim
<1>1. IInv => ExclusiveClaim
  BY DEF IInv
<1> QED
  BY <1>1, SpecIInv, PTL

(* A canceled order that is in a batch has its order.canceled event.        *)
THEOREM CancelIsNotified == Spec => []CanceledClaimNotified
<1>1. IInv => CanceledClaimNotified
  BY DEF IInv
<1> QED
  BY <1>1, SpecIInv, PTL

(* Exactly one order.created event per row.                                 *)
THEOREM CreatedExactlyOnce == Spec => []CreatedOnce
<1>1. IInv => CreatedOnce
  BY DEF IInv
<1> QED
  BY <1>1, SpecIInv, PTL

(* A stored PDF lists its batch's orders.                                   *)
THEOREM PdfIsOfItsBatch == Spec => []PdfListsMembers
<1>1. IInv => PdfListsMembers
  BY DEF IInv
<1> QED
  BY <1>1, SpecIInv, PTL

-----------------------------------------------------------------------------
(* Which steps change batch membership, and which the outbox.               *)
LEMMA OnlyCommitFillsBatches ==
    ASSUME Next, members' # members
    PROVE  \E c \in Claimers, i \in BatchIds : ClaimCommit(c, i)
BY DEF Next, UpsertStep, ClaimStep, UpsertRead, UpsertWrite, UpsertQueryBatch,
       UpsertCommit, UpsertAbort, Archive, ClaimSnapshot, ClaimRow,
       ClaimNothing, ClaimConflict, StorePdf, LosePdf, ClaimAbort,
       RegeneratePdf

LEMMA OnlyUpsertRaisesCancel ==
    ASSUME Next, canceled' # canceled
    PROVE  \E u \in Upserters : UpsertCommit(u)
BY DEF Next, UpsertStep, ClaimStep, UpsertRead, UpsertWrite, UpsertQueryBatch,
       UpsertAbort, Archive, ClaimSnapshot, ClaimRow, ClaimNothing,
       ClaimConflict, ClaimCommit, StorePdf, LosePdf, ClaimAbort, RegeneratePdf

LEMMA OnlyWritesChangeState ==
    ASSUME Next, orderState' # orderState
    PROVE  \/ \E u \in Upserters : UpsertCommit(u)
           \/ \E o \in Orders : Archive(o)
BY DEF Next, UpsertStep, ClaimStep, UpsertRead, UpsertWrite, UpsertQueryBatch,
       UpsertAbort, ClaimSnapshot, ClaimRow, ClaimNothing, ClaimConflict,
       ClaimCommit, StorePdf, LosePdf, ClaimAbort, RegeneratePdf

(* What a commit knows of its order and claims.                             *)
LEMMA SelectedIsFree ==
    ASSUME IInv, NEW c \in Claimers, NEW i \in BatchIds, ClaimCommit(c, i)
    PROVE  /\ Selected(c) \in SUBSET Orders /\ Selected(c) # {}
           /\ \A o \in Selected(c) : orderState[o] = "new" /\ ~InBatch(o)
           /\ members[i] = {}
           /\ members' = [members EXCEPT ![i] = Selected(c)]
           /\ UNCHANGED <<orderState, canceled>>
BY DEF IInv, TypeOK, HeldIsNew, ClaimCommit, Selected

LEMMA CommitIsFresh ==
    ASSUME IInv, NEW u \in Upserters, UpsertCommit(u)
    PROVE  LET t == up[u] IN
           /\ t.order \in Orders /\ t.state \in BigSellerStates
           /\ (t.inBatch = TRUE) <=> InBatch(t.order)
           /\ t.prev = "absent" <=> orderState[t.order] = "absent"
           /\ t.prev = "canceled" <=> orderState[t.order] = "canceled"
           /\ orderState' = [orderState EXCEPT ![t.order] = t.state]
           /\ canceled' = IF CancelDue(t)
                          THEN [canceled EXCEPT ![t.order] = @ + 1]
                          ELSE canceled
           /\ UNCHANGED members
BY DEF IInv, TypeOK, BusyUpsertHasOrder, MembershipFresh, PrevFresh,
       UpsertCommit

(* A batch takes only orders that are 'new' when it commits.                *)
THEOREM OnlyNewIsClaimed == Spec => ClaimsOnlyNew
<1> DEFINE A == \A i \in BatchIds : \A o \in members'[i] \ members[i] :
                    orderState[o] = "new"
<1>1. IInv /\ [Next]_vars => [A]_vars
  <2> SUFFICES ASSUME IInv, Next PROVE A
    OBVIOUS
  <2>1. CASE members' = members
    BY <2>1
  <2>2. CASE members' # members
    <3>1. PICK c \in Claimers, i \in BatchIds : ClaimCommit(c, i)
      BY <2>2, OnlyCommitFillsBatches
    <3> QED
      BY <3>1, SelectedIsFree DEF IInv, TypeOK
  <2> QED
    BY <2>1, <2>2
<1> QED
  BY <1>1, SpecIInv, PTL DEF Spec, ClaimsOnlyNew

(* One order.canceled event per cancellation.                               *)
THEOREM CancelIsReportedOnce == Spec => CancelReportedOnce
<1> DEFINE A == \A o \in Orders : canceled'[o] # canceled[o] =>
                    /\ canceled'[o] = canceled[o] + 1
                    /\ orderState[o] # "canceled"
                    /\ orderState'[o] = "canceled"
<1>1. IInv /\ [Next]_vars => [A]_vars
  <2> SUFFICES ASSUME IInv, Next PROVE A
    OBVIOUS
  <2>1. CASE canceled' = canceled
    BY <2>1
  <2>2. CASE canceled' # canceled
    <3>1. PICK u \in Upserters : UpsertCommit(u)
      BY <2>2, OnlyUpsertRaisesCancel
    <3> DEFINE t == up[u]
    <3>2. CancelDue(t) /\ canceled' = [canceled EXCEPT ![t.order] = @ + 1]
      BY <2>2, <3>1, CommitIsFresh
    <3>3. /\ t.order \in Orders /\ orderState[t.order] # "canceled"
          /\ orderState'[t.order] = "canceled"
      BY <3>1, <3>2, CommitIsFresh DEF IInv, TypeOK, CancelDue
    <3> QED
      BY <3>2, <3>3 DEF IInv, TypeOK
  <2> QED
    BY <2>1, <2>2
<1> QED
  BY <1>1, SpecIInv, PTL DEF Spec, CancelReportedOnce

-----------------------------------------------------------------------------
(* Refinement. The batches that hold order o, as Takeout sees them.         *)
Holders(o) == {i \in BatchIds : o \in members[i]}

LEMMA StepImplementsTakeout ==
    ASSUME IInv, Next
    PROVE  Store!Next \/ UNCHANGED Store!vars
<1> USE DEF Store!vars
<1>1. CASE members' # members
  <2>1. PICK c \in Claimers, i \in BatchIds : ClaimCommit(c, i)
    BY <1>1, OnlyCommitFillsBatches
  <2>2. PICK S \in SUBSET Orders : S = Selected(c)
    BY <2>1, SelectedIsFree
  <2>3. /\ S # {}
        /\ \A o \in S : orderState[o] = "new" /\ Holders(o) = {}
        /\ \A o \in Orders : i \notin Holders(o)
        /\ UNCHANGED <<orderState, canceled>>
    BY <2>1, <2>2, SelectedIsFree DEF InBatch, Holders
  <2>4. \A o \in Orders : Holders(o)' = IF o \in S THEN {i} ELSE Holders(o)
    <3>1. members' = [members EXCEPT ![i] = S] /\ members[i] = {}
      BY <2>1, <2>2, SelectedIsFree
    <3>2. \A j \in BatchIds : members'[j] = IF j = i THEN S ELSE members[j]
      BY <3>1 DEF IInv, TypeOK
    <3> QED
      BY <2>3, <3>1, <3>2 DEF Holders
  <2>5. [o \in Orders |-> Holders(o)]'
            = [o \in Orders |-> IF o \in S THEN {i} ELSE Holders(o)]
    BY <2>4
  <2>6. Store!Take(i, S)
    BY <2>3, <2>5 DEF Store!Take, Holders
  <2> QED
    BY <2>6 DEF Store!Next
<1>2. CASE members' = members /\ orderState' = orderState /\ canceled' = canceled
  BY <1>2
<1>3. CASE /\ members' = members
           /\ orderState' # orderState \/ canceled' # canceled
  <2>1. CASE \E u \in Upserters : UpsertCommit(u)
    <3>1. PICK u \in Upserters : UpsertCommit(u)
      BY <2>1
    <3> DEFINE t == up[u]
    <3>2. Store!Observe(t.order, t.state)
      <4>1. InBatch(t.order) <=> Holders(t.order) # {}
        BY DEF InBatch, Holders
      <4>2. CASE CancelDue(t)
        BY <1>3, <3>1, <4>2, CommitIsFresh
           DEF CancelDue, Store!Observe, Store!Cancels
      <4>3. CASE ~CancelDue(t)
        BY <1>3, <3>1, <4>1, <4>3, CommitIsFresh
           DEF CancelDue, Store!Observe, Store!Cancels, Holders
      <4> QED
        BY <4>2, <4>3
    <3> QED
      BY <3>1, <3>2, CommitIsFresh DEF Store!Next, Store!Known, BigSellerStates
  <2>2. CASE \E o \in Orders : Archive(o)
    <3>1. PICK o \in Orders : Archive(o)
      BY <2>2
    <3>2. Store!Observe(o, "archived")
      BY <3>1 DEF Archive, Store!Observe, Store!Cancels
    <3> QED
      BY <3>2 DEF Store!Next, Store!Known
  <2> QED
    BY <1>3, <2>1, <2>2, OnlyWritesChangeState, OnlyUpsertRaisesCancel
<1> QED
  BY <1>1, <1>2, <1>3

(* The statement-by-statement transactions implement Takeout's indivisible  *)
(* steps: whatever interleaving of upserts, archivings and claims Postgres  *)
(* allows, an observer of the committed tables sees orders taken out once,  *)
(* while new, and never canceled afterwards without a notice.               *)
THEOREM ClaimImplementsTakeout == Spec => ImplementsTakeout
<1>1. Init => Store!Init
  BY DEF Init, Store!Init
<1>2. IInv /\ [Next]_vars => [Store!Next]_(Store!vars)
  <2>1. ASSUME IInv, UNCHANGED vars PROVE UNCHANGED Store!vars
    BY <2>1 DEF vars, Store!vars
  <2> QED
    BY <2>1, StepImplementsTakeout
<1> QED
  BY <1>1, <1>2, SpecIInv, PTL DEF Spec, ImplementsTakeout, Store!Spec
=============================================================================
