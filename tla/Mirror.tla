------------------------------- MODULE Mirror -------------------------------
(***************************************************************************)
(* How the table orders follows BigSeller (sync.rs, pack.rs, resi.rs). A   *)
(* pull reads a bucket page by page and upserts the rows of a page one by  *)
(* one; what it writes is what BigSeller showed when the page was fetched. *)
(* The worker pulls on every turn, the on-demand sync on request, and a    *)
(* packed order is searched for; nothing orders their writes. A row that   *)
(* is still new but was not seen for a while is looked up by its number:   *)
(* the reconciliation.                                                     *)
(***************************************************************************)
EXTENDS Integers, FiniteSets

CONSTANTS
    Orders,       \* orders by the place they take in a listing: greater first
    Hidden,       \* those the search does not find once they left New
    Flow,         \* the moves of an order at BigSeller: pairs of states
    PageSize,     \* orders on a page
    MaxPages,     \* pages a pull of each bucket reads at most
    Window,       \* turns after which an unseen row is stale
    Horizon,      \* thirty days, in turns
    Cap,          \* candidates of one reconciliation (RECONCILE_CAP)
    ShippedEvery, \* the shipped bucket is pulled every so many turns
    Cycle,        \* turns of a day; the first one is in the evening
    Tasks,        \* tasks of the API server that pull beside the worker
    Labelled,     \* orders whose labels are printed
    MaxFaults     \* bound: failed calls, throttled searches and crashes

Buckets == {"new", "processing", "shipped", "canceled", "platformProcessing"}
States == Buckets \cup {"completed"}
Depth == [s \in States \cup {"absent", "archived"} |->
            IF s \in {"absent", "archived", "new"} THEN 0
            ELSE IF s \in {"processing", "platformProcessing"} THEN 1
            ELSE IF s = "shipped" THEN 2 ELSE 3]

ASSUME MirrorAssumption ==
    /\ Orders \subseteq Nat /\ IsFiniteSet(Orders) /\ Hidden \subseteq Orders
    /\ Flow \subseteq States \X States
    /\ \A m \in Flow : Depth[m[1]] < Depth[m[2]]
    /\ PageSize \in Nat \ {0} /\ Cap \in Nat \ {0}
    /\ MaxPages \in [Buckets -> Nat \ {0}]
    /\ Window \in Nat /\ Horizon \in Nat /\ MaxFaults \in Nat
    /\ ShippedEvery \in Nat \ {0} /\ Cycle \in Nat \ {0}
    /\ Labelled \subseteq Orders
    /\ Tasks \cap {"worker", "resi", "nobody"} = {}

Syncers == {"worker"} \cup Tasks
Jobs == Buckets \cup {"idle", "reconcile", "search"}
Entries == [order : Orders, state : States, mark : BOOLEAN]

VARIABLES
    truth,      \* each order at BigSeller
    marked,     \* orders whose label BigSeller has as printed
    row,        \* orders.state; "absent" when there is no row
    printed,    \* rows with print_label_mark
    age,        \* turns since synced_at, up to Horizon
    placed,     \* turns since ordered_at, up to Horizon
    writer,     \* who wrote the row last
    job,        \* what each syncer pulls
    no, more,   \* the pages read, and whether there is another query to make
    hand,       \* entries of the answer not written yet
    todo,       \* candidates of the reconciliation not looked up yet
    missed,     \* the order a search has just not found
    confirming, \* labels confirmed at BigSeller and not yet in the table
    tick,       \* turns of the worker, modulo Cycle
    faults      \* faults so far

bigseller == <<truth, marked>>
table == <<row, printed, age, writer>>
pull == <<job, no, more, hand, todo, missed>>
vars == <<bigseller, table, placed, pull, confirming, tick, faults>>

None == 0 - 1

TypeOK ==
    /\ truth \in [Orders -> States \cup {"absent"}]
    /\ marked \in SUBSET Orders /\ printed \in SUBSET Orders
    /\ confirming \in SUBSET Orders
    /\ row \in [Orders -> States \cup {"absent", "archived"}]
    /\ age \in [Orders -> 0 .. Horizon] /\ placed \in [Orders -> 0 .. Horizon]
    /\ writer \in [Orders -> Syncers \cup {"nobody", "resi"}]
    /\ job \in [Syncers -> Jobs]
    /\ no \in [Syncers -> Nat] /\ more \in [Syncers -> BOOLEAN]
    /\ hand \in [Syncers -> SUBSET Entries]
    /\ todo \in [Syncers -> SUBSET Orders]
    /\ missed \in [Syncers -> Orders \cup {None}]
    /\ tick \in 0 .. Cycle - 1 /\ faults \in 0 .. MaxFaults

Init ==
    /\ truth = [o \in Orders |-> "absent"] /\ marked = {}
    /\ row = [o \in Orders |-> "absent"] /\ printed = {}
    /\ age = [o \in Orders |-> 0] /\ placed = [o \in Orders |-> 0]
    /\ writer = [o \in Orders |-> "nobody"]
    /\ job = [p \in Syncers |-> "idle"]
    /\ no = [p \in Syncers |-> 0] /\ more = [p \in Syncers |-> FALSE]
    /\ hand = [p \in Syncers |-> {}] /\ todo = [p \in Syncers |-> {}]
    /\ missed = [p \in Syncers |-> None]
    /\ confirming = {} /\ tick = 0 /\ faults = 0

Fault == faults < MaxFaults /\ faults' = faults + 1

----------------------------------------------------------------------------
(* BigSeller: orders are placed and move on.                               *)

Place(o) ==
    /\ truth[o] = "absent"
    /\ truth' = [truth EXCEPT ![o] = "new"]
    /\ UNCHANGED <<marked, table, placed, pull, confirming, tick, faults>>

Move(o, s) ==
    /\ <<truth[o], s>> \in Flow
    /\ truth' = [truth EXCEPT ![o] = s]
    /\ UNCHANGED <<marked, table, placed, pull, confirming, tick, faults>>

\* Mutant: the state is read under a name the row does not have.
EntryUnknown(o) == [order |-> o, state |-> "unknown", mark |-> o \in marked]

\* A row of a listing, as map_order_row reads it.
Entry(o) == [order |-> o, state |-> truth[o], mark |-> o \in marked]

\* The bucket b, and the orders of its page n: a listing is sorted.
Bucket(b) == {o \in Orders : truth[o] = b}
Above(o, S) == Cardinality({x \in S : x > o})
Page(b, n) ==
    LET S == Bucket(b)
    IN  {o \in S : /\ Above(o, S) >= (n - 1) * PageSize
                   /\ Above(o, S) < n * PageSize}

Findable(o) == truth[o] # "absent" /\ (o \in Hidden => truth[o] = "new")

----------------------------------------------------------------------------
(* One pull after the other.                                               *)

\* What a syncer does after its job, by whether the job succeeded. The
\* buckets of the evening run whatever became of the first of them.
Evening == IF tick = 0 THEN "canceled" ELSE "idle"
AfterBucket(ok) ==
    [new |-> IF ok THEN "reconcile" ELSE "processing",
     reconcile |-> "processing",
     processing |-> IF tick % ShippedEvery = 0 THEN "shipped" ELSE Evening,
     shipped |-> Evening,
     canceled |-> "platformProcessing",
     platformProcessing |-> "idle"]
\* Mutant: nothing reconciles.
JobAfterUnreconciled(p, ok) ==
    IF job[p] = "new" THEN IF p = "worker" THEN "processing" ELSE "idle"
    ELSE IF p = "worker" THEN AfterBucket(ok)[job[p]] ELSE "idle"
JobAfter(p, ok) ==
    IF p = "worker" THEN AfterBucket(ok)[job[p]]
    ELSE IF job[p] = "new" /\ ok THEN "reconcile" ELSE "idle"

Enter(p, j) ==
    /\ job' = [job EXCEPT ![p] = j]
    /\ no' = [no EXCEPT ![p] = 0]
    /\ more' = [more EXCEPT ![p] = j # "idle"]
    /\ hand' = [hand EXCEPT ![p] = {}]
    /\ todo' = [todo EXCEPT ![p] = {}]
    /\ missed' = [missed EXCEPT ![p] = None]

\* A turn of the worker begins: time has passed since the last one.
Older(n) == IF n < Horizon THEN n + 1 ELSE n
BeginTurn ==
    /\ job["worker"] = "idle"
    /\ Enter("worker", "new")
    /\ tick' = (tick + 1) % Cycle
    /\ age' = [o \in Orders |-> IF row[o] = "absent" THEN 0 ELSE Older(age[o])]
    /\ placed' = [o \in Orders |-> IF truth[o] = "absent" THEN 0 ELSE Older(placed[o])]
    /\ UNCHANGED <<bigseller, row, printed, writer, confirming, faults>>

\* POST /sync: the on-demand run, one at a time.
StartSync(p) ==
    /\ job[p] = "idle"
    /\ \A q \in Tasks : job[q] \notin {"new", "reconcile"}
    /\ Enter(p, "new")
    /\ UNCHANGED <<bigseller, table, placed, confirming, tick, faults>>

\* Packing: BigSeller moves the order to processing, and the refresh that is
\* spawned searches for it.
Pack(p, o) ==
    /\ job[p] = "idle" /\ truth[o] = "new" /\ row[o] # "absent"
    /\ truth' = [truth EXCEPT ![o] = "processing"]
    /\ job' = [job EXCEPT ![p] = "search"]
    /\ todo' = [todo EXCEPT ![p] = {o}]
    /\ UNCHANGED <<marked, table, placed, no, more, hand, missed, confirming,
                   tick, faults>>

\* Mutant: only the first page is read.
FetchFirst(p) ==
    /\ job[p] \in Buckets /\ more[p] /\ hand[p] = {}
    /\ no' = [no EXCEPT ![p] = 1]
    /\ hand' = [hand EXCEPT ![p] = {Entry(o) : o \in Page(job[p], 1)}]
    /\ more' = [more EXCEPT ![p] = FALSE]
    /\ UNCHANGED <<bigseller, table, placed, job, todo, missed, confirming,
                   tick, faults>>

\* pageList: the next page as it is now, and whether the loop goes on after it.
Fetch(p) ==
    /\ job[p] \in Buckets /\ more[p] /\ hand[p] = {}
    /\ LET n == no[p] + 1
           page == Page(job[p], n)
       IN  /\ no' = [no EXCEPT ![p] = n]
           /\ hand' = [hand EXCEPT ![p] = {Entry(o) : o \in page}]
           /\ more' = [more EXCEPT ![p] =
                         /\ Cardinality(page) = PageSize
                         /\ n * PageSize < Cardinality(Bucket(job[p]))
                         /\ n < MaxPages[job[p]]]
    /\ UNCHANGED <<bigseller, table, placed, job, todo, missed, confirming,
                   tick, faults>>

\* upsert_order of the next row of the answer: it replaces what the row had.
Write(p) ==
    /\ \E e \in hand[p] :
         /\ \A f \in hand[p] : f.order <= e.order
         /\ row' = [row EXCEPT ![e.order] = e.state]
         /\ printed' = IF e.mark THEN printed \cup {e.order} ELSE printed \ {e.order}
         /\ age' = [age EXCEPT ![e.order] = 0]
         /\ writer' = [writer EXCEPT ![e.order] = p]
         /\ hand' = [hand EXCEPT ![p] = @ \ {e}]
    /\ UNCHANGED <<bigseller, placed, job, no, more, todo, missed, confirming,
                   tick, faults>>

Finished(p) == ~more[p] /\ hand[p] = {} /\ todo[p] = {} /\ missed[p] = None

EndPull(p) ==
    /\ job[p] # "idle" /\ Finished(p)
    /\ Enter(p, JobAfter(p, TRUE))
    /\ UNCHANGED <<bigseller, table, placed, confirming, tick, faults>>

----------------------------------------------------------------------------
(* The reconciliation, and the search after packing.                       *)

\* Mutant: synced_at is not compared with the window.
CandidatesSeen == {o \in Orders : row[o] = "new" /\ age[o] < Horizon}
Candidates == {o \in Orders : row[o] = "new" /\ age[o] >= Window /\ age[o] < Horizon}

\* The newest of the stale rows, up to the cap.
Select(p) ==
    /\ job[p] = "reconcile" /\ more[p]
    /\ \E T \in SUBSET Candidates :
         /\ Cardinality(T) = IF Cardinality(Candidates) < Cap
                             THEN Cardinality(Candidates) ELSE Cap
         /\ \A t \in T, u \in Candidates \ T : age[t] <= age[u]
         /\ todo' = [todo EXCEPT ![p] = T]
    /\ more' = [more EXCEPT ![p] = FALSE]
    /\ UNCHANGED <<bigseller, table, placed, job, no, hand, missed, confirming,
                   tick, faults>>

LookUp(p, o, found) ==
    /\ hand[p] = {} /\ missed[p] = None
    /\ hand' = [hand EXCEPT ![p] = IF found THEN {Entry(o)} ELSE {}]
    /\ missed' = [missed EXCEPT ![p] = IF found THEN None ELSE o]
    /\ todo' = [todo EXCEPT ![p] = @ \ {o}]
    /\ UNCHANGED <<bigseller, table, placed, job, no, more, confirming, tick>>

Search(p) ==
    /\ \E o \in todo[p] : LookUp(p, o, Findable(o))
    /\ UNCHANGED faults

\* A burst of searches is throttled: the answer has no rows.
Throttled(p) ==
    /\ \E o \in todo[p] : Findable(o) /\ LookUp(p, o, FALSE)
    /\ Fault

\* Mutant: the state of the row is not checked again.
MissUnchecked(p) ==
    /\ missed[p] # None
    /\ row' = IF job[p] = "reconcile" /\ placed[missed[p]] = Horizon
              THEN [row EXCEPT ![missed[p]] = "archived"] ELSE row
    /\ missed' = [missed EXCEPT ![p] = None]
    /\ UNCHANGED <<bigseller, printed, age, writer, placed, job, no, more, hand,
                   todo, confirming, tick, faults>>

\* The order was not found. Only the reconciliation archives its row, when it
\* is still new and the order is old; anything else is left for a later pass.
Miss(p) ==
    /\ missed[p] # None
    /\ row' = IF job[p] = "reconcile" /\ row[missed[p]] = "new"
                   /\ placed[missed[p]] = Horizon
              THEN [row EXCEPT ![missed[p]] = "archived"] ELSE row
    /\ missed' = [missed EXCEPT ![p] = None]
    /\ UNCHANGED <<bigseller, printed, age, writer, placed, job, no, more, hand,
                   todo, confirming, tick, faults>>

----------------------------------------------------------------------------
(* Labels, and what goes wrong.                                            *)

\* POST /labels/confirm: BigSeller has the label as printed, then the row.
Confirm(o) ==
    /\ o \in Labelled /\ truth[o] = "processing" /\ o \notin marked
    /\ marked' = marked \cup {o}
    /\ confirming' = confirming \cup {o}
    /\ UNCHANGED <<truth, table, placed, pull, tick, faults>>

MarkPrinted(o) ==
    /\ o \in confirming
    /\ confirming' = confirming \ {o}
    /\ IF row[o] = "absent" THEN UNCHANGED <<printed, writer>>
       ELSE /\ printed' = printed \cup {o}
            /\ writer' = [writer EXCEPT ![o] = "resi"]
    /\ UNCHANGED <<bigseller, row, age, placed, pull, tick, faults>>

ConfirmLost(o) ==
    /\ o \in confirming
    /\ Fault
    /\ confirming' = confirming \ {o}
    /\ UNCHANGED <<bigseller, table, placed, pull, tick>>

\* A call fails, and its retry: the pull ends in an error.
Fails(p) ==
    /\ job[p] # "idle" /\ ~Finished(p) /\ missed[p] = None
    /\ Fault
    /\ Enter(p, JobAfter(p, FALSE))
    /\ UNCHANGED <<bigseller, table, placed, confirming, tick>>

\* The process stops in the middle of its work; the worker begins anew.
Crash(p) ==
    /\ job[p] # "idle"
    /\ Fault
    /\ Enter(p, "idle")
    /\ tick' = IF p = "worker" THEN 0 ELSE tick
    /\ UNCHANGED <<bigseller, table, placed, confirming>>

Step(p) ==
    \/ Fetch(p) \/ Write(p) \/ EndPull(p)
    \/ Select(p) \/ Search(p) \/ Miss(p)

Next ==
    \/ BeginTurn
    \/ \E p \in Tasks : StartSync(p) \/ \E o \in Orders : Pack(p, o)
    \/ \E o \in Orders : \/ Place(o) \/ Confirm(o) \/ MarkPrinted(o) \/ ConfirmLost(o)
                         \/ \E s \in States : Move(o, s)
    \/ \E p \in Syncers : Step(p) \/ Throttled(p) \/ Fails(p) \/ Crash(p)

Spec == Init /\ [][Next]_vars
FairSpec == Spec /\ WF_vars(BeginTurn) /\ WF_vars(Step("worker"))

----------------------------------------------------------------------------
(* Properties.                                                             *)

\* Safety. A row goes back to an earlier state, or loses the mark of its
\* printed label, only when two actors cross: the row was written last by
\* somebody else than the syncer that overwrites it with an older page
\* (sync.rs:273). One syncer alone never undoes what it wrote.
NoStepBack ==
    [][\A o \in Orders :
         \/ Depth[row'[o]] < Depth[row[o]]
         \/ o \in printed /\ o \notin printed'
         => writer'[o] # writer[o]]_vars

\* Safety. The reconciliation archives a row only when it is still new and
\* nobody saw the order for the whole window, or somebody else wrote the row
\* while the candidates were looked up (sync.rs:512 checks the state again,
\* but not synced_at).
ArchivesTheUnseen ==
    [][\A p \in Syncers, o \in Orders :
         missed[p] # None /\ missed'[p] = None /\ row'[o] # row[o]
         => row[o] = "new" /\ (age[o] >= Window \/ writer[o] # p)]_vars

\* The rows of a bucket that a pull comes to before its page cap.
WithinCap(o) == Above(o, Bucket(truth[o])) < MaxPages[truth[o]] * PageSize

\* Liveness. What BigSeller settles on is what the row settles on, although
\* pages shift while they are read, older pages overwrite newer rows, calls
\* fail, and rows are archived by mistake: as long as the order stays where
\* the pulls of its bucket come to it. What lies beyond their page cap is
\* never pulled, and nothing of the sort holds of orders that complete: no
\* bucket the worker pulls lists them.
Converges ==
    \A o \in Orders \ Hidden, s \in {"new", "processing", "shipped", "canceled"} :
        <>[](truth[o] = s /\ WithinCap(o)) => <>[](row[o] = s)

\* Liveness. An order that left New does not stay new in the table, as long
\* as the rows the search never finds do not fill the candidates of a pass:
\* they stay new, and the newest are taken first (sync.rs:436).
HealsNew ==
    Cardinality(Hidden) < Cap =>
        \A o \in Orders \ Hidden :
            <>[](truth[o] \notin {"absent", "new"}) => <>[](row[o] # "new")

=============================================================================
