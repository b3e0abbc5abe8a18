---------------------------- MODULE MirrorProofs ----------------------------
(***************************************************************************)
(* Theorems of Mirror: for any orders, page size, cap, window and number   *)
(* of tasks and faults, a row steps back only when two actors cross, and   *)
(* only a row that was not seen for the window is archived.                *)
(***************************************************************************)
EXTENDS Mirror, TLAPS

Nobody == Syncers \cup {"nobody", "resi"}
RowStates == States \cup {"absent", "archived"}

(* The table, and every answer in hand, is BigSeller at an earlier time.    *)
Past(s, m, o) == Depth[s] <= Depth[truth[o]] /\ (m => o \in marked)
RowIsPast == \A o \in Orders : Past(row[o], o \in printed \/ o \in confirming, o)
HandIsPast == \A p \in Syncers : \A e \in hand[p] : Past(e.state, e.mark, e.order)

(* What a syncer wrote last is no later than what it is about to write.     *)
OwnIsOlder ==
    \A p \in Syncers : \A e \in hand[p] :
        writer[e.order] = p =>
            Depth[row[e.order]] <= Depth[e.state] /\ (e.order \in printed => e.mark)

HandIsSet ==
    \A p \in Syncers : \A e, f \in hand[p] : e.order = f.order => e = f

(* A candidate that is still to be looked up, or was just missed.           *)
Pending(p, o) == o \in todo[p] \/ missed[p] = o
PendingApart ==
    \A p \in Syncers, o \in Orders :
        /\ Pending(p, o) => \A e \in hand[p] : e.order # o
        /\ Pending(p, o) => job[p] \in {"reconcile", "search"}
        /\ missed[p] = o => o \notin todo[p]
Unseen ==
    \A p \in Syncers, o \in Orders :
        job[p] = "reconcile" /\ Pending(p, o) =>
            row[o] # "absent" /\ (age[o] >= Window \/ writer[o] # p)

(* The candidates are selected before anything is looked up.                *)
SelectsFirst ==
    \A p \in Syncers :
        job[p] = "reconcile" /\ more[p] =>
            hand[p] = {} /\ todo[p] = {} /\ missed[p] = None

(* An idle syncer has nothing in hand.                                      *)
Idle ==
    \A p \in Syncers :
        job[p] = "idle" => hand[p] = {} /\ todo[p] = {} /\ missed[p] = None

(* The worker searches for candidates only.                                 *)
WorkerPulls == job["worker"] # "search"

IInv ==
    /\ TypeOK /\ WorkerPulls
    /\ RowIsPast /\ HandIsPast
    /\ OwnIsOlder /\ HandIsSet
    /\ Idle /\ SelectsFirst /\ PendingApart /\ Unseen

-----------------------------------------------------------------------------
LEMMA DepthNat ==
    /\ \A s \in RowStates : Depth[s] \in Nat
    /\ Depth["absent"] = 0 /\ Depth["archived"] = 0 /\ Depth["new"] = 0
    /\ Depth["processing"] = 1
BY DEF Depth, RowStates, States, Buckets

LEMMA MoveIsForward ==
    ASSUME NEW m \in Flow
    PROVE  m[1] \in States /\ m[2] \in States /\ Depth[m[1]] < Depth[m[2]]
BY MirrorAssumption

LEMMA NoneIsNoOrder == None \notin Orders /\ None = -1
BY MirrorAssumption DEF None

LEMMA OlderTyped ==
    ASSUME NEW n \in 0 .. Horizon
    PROVE  Older(n) \in 0 .. Horizon /\ Older(n) >= n
BY MirrorAssumption DEF Older

LEMMA JobAfterTyped ==
    ASSUME NEW p \in Syncers, NEW ok \in BOOLEAN, WorkerPulls,
           job[p] \in Jobs \ {"idle"}
    PROVE  JobAfter(p, ok) \in Jobs /\ (p = "worker" => JobAfter(p, ok) # "search")
BY DEF JobAfter, AfterBucket, Evening, Jobs, Buckets, WorkerPulls

(* A syncer that begins a pull has nothing in hand.                         *)
LEMMA EnterTyped ==
    ASSUME TypeOK, NEW p \in Syncers, NEW j \in Jobs, Enter(p, j)
    PROVE  /\ job' \in [Syncers -> Jobs] /\ no' \in [Syncers -> Nat]
           /\ more' \in [Syncers -> BOOLEAN]
           /\ hand' \in [Syncers -> SUBSET Entries]
           /\ todo' \in [Syncers -> SUBSET Orders]
           /\ missed' \in [Syncers -> Orders \cup {None}]
           /\ hand'[p] = {} /\ todo'[p] = {} /\ missed'[p] = None
           /\ \A q \in Syncers \ {p} :
                 /\ hand'[q] = hand[q] /\ todo'[q] = todo[q]
                 /\ missed'[q] = missed[q] /\ job'[q] = job[q]
<1>1. (j # "idle") \in BOOLEAN
  OBVIOUS
<1> QED
  BY <1>1 DEF TypeOK, Enter

LEMMA EntryTyped ==
    ASSUME TypeOK, NEW o \in Orders, truth[o] # "absent"
    PROVE  Entry(o) \in Entries /\ Entry(o).order = o
           /\ Entry(o).state = truth[o] /\ Entry(o).mark = (o \in marked)
BY DEF TypeOK, Entry, Entries

(* A page holds orders of its bucket.                                       *)
LEMMA PageInBucket ==
    ASSUME NEW b \in Buckets, NEW n \in Nat, NEW o \in Page(b, n)
    PROVE  o \in Orders /\ truth[o] = b
BY DEF Page, Bucket

-----------------------------------------------------------------------------
(* Steps of BigSeller only move it forward.                                 *)
LEMMA TruthStep ==
    ASSUME IInv,
           truth' \in [Orders -> States \cup {"absent"}],
           marked' \in SUBSET Orders, marked \subseteq marked',
           \A o \in Orders : Depth[truth[o]] <= Depth[truth'[o]],
           UNCHANGED <<row, printed, writer, hand>>,
           confirming' \subseteq confirming \cup (marked' \ marked),
           confirming' \in SUBSET Orders
    PROVE  RowIsPast' /\ HandIsPast' /\ OwnIsOlder' /\ HandIsSet'
<1> USE DEF IInv, TypeOK
<1>1. ASSUME NEW s \in RowStates, NEW o \in Orders, Depth[s] <= Depth[truth[o]]
      PROVE  Depth[s] <= Depth[truth'[o]]
  <2>1. truth[o] \in RowStates /\ truth'[o] \in RowStates
    BY DEF RowStates
  <2> QED
    BY <1>1, <2>1, DepthNat
<1>2. RowIsPast'
  BY <1>1 DEF RowIsPast, Past, RowStates
<1>3. HandIsPast'
  BY <1>1 DEF HandIsPast, Past, RowStates, Entries
<1>4. OwnIsOlder' /\ HandIsSet'
  BY DEF OwnIsOlder, HandIsSet
<1> QED
  BY <1>2, <1>3, <1>4

(* A syncer that drops or keeps what is in hand, and the table stays.       *)
LEMMA HandStep ==
    ASSUME IInv, UNCHANGED <<bigseller, row, printed, writer>>,
           confirming' \in SUBSET confirming,
           \A q \in Syncers : hand'[q] \subseteq hand[q]
    PROVE  RowIsPast' /\ HandIsPast' /\ OwnIsOlder' /\ HandIsSet'
<1> USE DEF IInv, TypeOK, bigseller
<1>1. RowIsPast' /\ HandIsPast'
  BY DEF RowIsPast, HandIsPast, Past
<1>2. OwnIsOlder' /\ HandIsSet'
  BY DEF OwnIsOlder, HandIsSet
<1> QED
  BY <1>1, <1>2

(* A syncer takes in an answer: entries of BigSeller as it is now.          *)
LEMMA AnswerStep ==
    ASSUME IInv, UNCHANGED <<bigseller, table, confirming>>,
           NEW p \in Syncers, NEW S \in SUBSET Orders,
           \A o \in S : truth[o] # "absent",
           hand' = [hand EXCEPT ![p] = {Entry(o) : o \in S}]
    PROVE  /\ hand' \in [Syncers -> SUBSET Entries]
           /\ RowIsPast' /\ HandIsPast' /\ OwnIsOlder' /\ HandIsSet'
<1> USE DEF IInv, bigseller, table
<1>1. \A q \in Syncers \ {p} : hand'[q] = hand[q]
  BY DEF TypeOK
<1>2. hand'[p] = {Entry(o) : o \in S}
  BY DEF TypeOK
<1>3. \A e \in hand'[p] :
        /\ e \in Entries /\ e.order \in S
        /\ e.state = truth[e.order] /\ e.mark = (e.order \in marked)
  BY <1>2, EntryTyped
<1>4. \A e, f \in hand'[p] : e.order = f.order => e = f
  BY <1>2, EntryTyped
<1>5. hand' \in [Syncers -> SUBSET Entries]
  <2> DEFINE H == {Entry(o) : o \in S}
  <2>1. H \in SUBSET Entries
    BY <1>2, <1>3
  <2>2. hand' = [hand EXCEPT ![p] = H]
    OBVIOUS
  <2>3. hand \in [Syncers -> SUBSET Entries]
    BY DEF TypeOK
  <2> HIDE DEF H, IInv
  <2> QED
    BY <2>1, <2>2, <2>3
<1>6. \A o \in Orders : Depth[truth[o]] \in Nat
  BY DepthNat DEF TypeOK, RowStates
<1>7. RowIsPast'
  BY DEF RowIsPast, Past
<1>8. HandIsPast'
  <2>1. ASSUME NEW e \in hand'[p]
        PROVE  Depth[e.state] <= Depth[truth[e.order]] /\ (e.mark => e.order \in marked)
    <3>1. e.order \in Orders /\ e.state = truth[e.order] /\ (e.mark => e.order \in marked)
      BY <1>3
    <3>2. Depth[truth[e.order]] \in Nat
      BY <1>6, <3>1
    <3> QED
      BY <3>1, <3>2
  <2> QED
    BY <1>1, <2>1 DEF HandIsPast, Past
<1>9. OwnIsOlder'
  <2>1. \A e \in hand'[p] : Depth[row[e.order]] <= Depth[e.state]
                            /\ (e.order \in printed => e.mark)
    BY <1>3 DEF RowIsPast, Past
  <2> QED
    BY <1>1, <2>1 DEF OwnIsOlder
<1>10. HandIsSet'
  BY <1>1, <1>4 DEF HandIsSet
<1> QED
  BY <1>5, <1>7, <1>8, <1>9, <1>10

-----------------------------------------------------------------------------
(* One row of the answer in hand is written.                                *)
LEMMA WriteStep ==
    ASSUME IInv, NEW p \in Syncers, Write(p)
    PROVE  TypeOK' /\ RowIsPast' /\ HandIsPast' /\ OwnIsOlder' /\ HandIsSet'
<1>1. PICK e \in hand[p] :
         /\ row' = [row EXCEPT ![e.order] = e.state]
         /\ printed' = IF e.mark THEN printed \cup {e.order} ELSE printed \ {e.order}
         /\ age' = [age EXCEPT ![e.order] = 0]
         /\ writer' = [writer EXCEPT ![e.order] = p]
         /\ hand' = [hand EXCEPT ![p] = @ \ {e}]
  BY DEF Write
<1> DEFINE o == e.order
<1>2. e \in Entries /\ o \in Orders /\ e.state \in States /\ e.mark \in BOOLEAN
  BY DEF IInv, TypeOK, Entries
<1>3. /\ row'[o] = e.state /\ writer'[o] = p
      /\ \A x \in Orders \ {o} : row'[x] = row[x] /\ writer'[x] = writer[x]
                                /\ (x \in printed' <=> x \in printed)
      /\ o \in printed' => e.mark
      /\ hand'[p] = hand[p] \ {e}
      /\ \A q \in Syncers \ {p} : hand'[q] = hand[q]
  BY <1>1, <1>2 DEF IInv, TypeOK
<1>4. UNCHANGED <<truth, marked, confirming>>
  BY DEF Write, bigseller
<1>5. TypeOK'
  <2>1. row' \in [Orders -> States \cup {"absent", "archived"}]
    BY <1>1, <1>2 DEF IInv, TypeOK
  <2>2. printed' \in SUBSET Orders
    BY <1>1, <1>2 DEF IInv, TypeOK
  <2>3. age' \in [Orders -> 0 .. Horizon]
    <3>1. 0 \in 0 .. Horizon
      BY MirrorAssumption
    <3> QED
      BY <1>1, <1>2, <3>1 DEF IInv, TypeOK
  <2>4. writer' \in [Orders -> Syncers \cup {"nobody", "resi"}]
    BY <1>1, <1>2 DEF IInv, TypeOK
  <2>5. hand' \in [Syncers -> SUBSET Entries]
    BY <1>1 DEF IInv, TypeOK
  <2> QED
    BY <2>1, <2>2, <2>3, <2>4, <2>5 DEF IInv, TypeOK, Write, bigseller
<1>6. RowIsPast'
  <2>1. Past(e.state, e.mark, o)
    BY DEF IInv, HandIsPast
  <2>2. /\ Depth[row'[o]] <= Depth[truth'[o]]
        /\ o \in printed' \/ o \in confirming' => o \in marked'
    BY <1>2, <1>3, <1>4, <2>1 DEF IInv, RowIsPast, Past
  <2>3. \A x \in Orders \ {o} :
           /\ Depth[row'[x]] <= Depth[truth'[x]]
           /\ x \in printed' \/ x \in confirming' => x \in marked'
    BY <1>3, <1>4 DEF IInv, RowIsPast, Past
  <2> QED
    BY <2>2, <2>3 DEF RowIsPast, Past
<1>7. HandIsPast'
  BY <1>3, <1>4 DEF IInv, HandIsPast, Past
<1>8. OwnIsOlder'
  <2> SUFFICES ASSUME NEW q \in Syncers, NEW f \in hand'[q], writer'[f.order] = q
               PROVE  Depth[row'[f.order]] <= Depth[f.state]
                      /\ (f.order \in printed' => f.mark)
    BY DEF OwnIsOlder
  <2>1. f \in hand[q] /\ f.order \in Orders
    BY <1>3 DEF IInv, TypeOK, Entries
  <2>2. f.order # o
    BY <1>3, <2>1 DEF IInv, HandIsSet
  <2> QED
    BY <1>3, <2>1, <2>2 DEF IInv, OwnIsOlder
<1>9. HandIsSet'
  BY <1>3 DEF IInv, HandIsSet
<1> QED
  BY <1>5, <1>6, <1>7, <1>8, <1>9

-----------------------------------------------------------------------------
(* Candidates are looked up once, and only a write makes them fresh: a step *)
(* of p keeps those of the others, if it keeps or writes their rows.        *)
LEMMA UnseenStep ==
    ASSUME IInv, NEW p \in Syncers,
           \A q \in Syncers \ {p} :
               /\ todo'[q] = todo[q] /\ missed'[q] = missed[q]
               /\ hand'[q] = hand[q] /\ job'[q] = job[q],
           \A o \in Orders :
               row[o] # "absent" =>
                   /\ row'[o] # "absent"
                   /\ \/ age'[o] >= age[o] /\ writer'[o] = writer[o]
                      \/ writer'[o] \notin Syncers \ {p},
           age' \in [Orders -> 0 .. Horizon],
           \A o \in Orders :
               /\ Pending(p, o)' => \A e \in hand'[p] : e.order # o
               /\ Pending(p, o)' => job'[p] \in {"reconcile", "search"}
               /\ missed'[p] = o => o \notin todo'[p]
               /\ job'[p] = "reconcile" /\ Pending(p, o)' =>
                     row'[o] # "absent" /\ (age'[o] >= Window \/ writer'[o] # p)
    PROVE  PendingApart' /\ Unseen'
<1>1. PendingApart'
  <2> SUFFICES ASSUME NEW q \in Syncers, NEW o \in Orders
               PROVE  /\ Pending(q, o)' => \A e \in hand'[q] : e.order # o
                      /\ Pending(q, o)' => job'[q] \in {"reconcile", "search"}
                      /\ missed'[q] = o => o \notin todo'[q]
    BY DEF PendingApart
  <2>1. CASE q = p
    BY <2>1
  <2>2. CASE q # p
    BY <2>2 DEF IInv, PendingApart, Pending
  <2> QED
    BY <2>1, <2>2
<1>2. Unseen'
  <2> SUFFICES ASSUME NEW q \in Syncers, NEW o \in Orders,
                      job'[q] = "reconcile", Pending(q, o)'
               PROVE  row'[o] # "absent" /\ (age'[o] >= Window \/ writer'[o] # q)
    BY DEF Unseen
  <2>1. CASE q = p
    BY <2>1
  <2>2. CASE q # p
    <3>1. row[o] # "absent" /\ (age[o] >= Window \/ writer[o] # q)
      BY <2>2 DEF IInv, Unseen, Pending
    <3>2. age[o] \in Nat /\ age'[o] \in Nat /\ Window \in Nat
      BY MirrorAssumption DEF IInv, TypeOK
    <3> QED
      BY <2>2, <3>1, <3>2
  <2> QED
    BY <2>1, <2>2
<1> QED
  BY <1>1, <1>2

-----------------------------------------------------------------------------
(* Steps that leave what every syncer pulls as it is.                       *)
LEMMA PullKept ==
    ASSUME IInv, UNCHANGED <<pull, row, age>>, age' \in [Orders -> 0 .. Horizon],
           \A o \in Orders : writer'[o] \in {writer[o], "resi"}
    PROVE  WorkerPulls' /\ Idle' /\ SelectsFirst' /\ PendingApart' /\ Unseen'
<1>1. "resi" \notin Syncers
  BY MirrorAssumption DEF Syncers
<1>2. WorkerPulls' /\ Idle' /\ SelectsFirst'
  BY DEF IInv, WorkerPulls, Idle, SelectsFirst, pull
<1>3. PendingApart'
  BY DEF IInv, PendingApart, Pending, pull
<1>4. Unseen'
  BY <1>1 DEF IInv, Unseen, Pending, pull
<1> QED
  BY <1>2, <1>3, <1>4

LEMMA BigSellerStep ==
    ASSUME IInv, NEW o \in Orders, NEW s \in States, Place(o) \/ Move(o, s) \/ Confirm(o)
    PROVE  IInv'
<1>1. /\ truth' \in [Orders -> States \cup {"absent"}]
      /\ marked' \in SUBSET Orders /\ marked \subseteq marked'
      /\ confirming' \subseteq confirming \cup (marked' \ marked)
      /\ confirming' \in SUBSET Orders
      /\ UNCHANGED <<table, placed, pull, tick, faults>>
  BY DEF IInv, TypeOK, Place, Move, Confirm, States, Buckets
<1>2. \A x \in Orders : Depth[truth[x]] <= Depth[truth'[x]]
  <2>1. \A x \in Orders : Depth[truth[x]] \in Nat
    BY DepthNat DEF IInv, TypeOK, RowStates
  <2>2. CASE Place(o)
    BY <2>1, <2>2, DepthNat DEF IInv, TypeOK, Place
  <2>3. CASE Move(o, s)
    <3>1. Depth[truth[o]] < Depth[s]
      BY <2>3, MirrorAssumption DEF Move
    <3>2. Depth[s] \in Nat
      BY DepthNat DEF RowStates
    <3> QED
      BY <2>1, <2>3, <3>1, <3>2 DEF IInv, TypeOK, Move
  <2>4. CASE Confirm(o)
    BY <2>1, <2>4 DEF Confirm
  <2> QED
    BY <2>2, <2>3, <2>4
<1>3. RowIsPast' /\ HandIsPast' /\ OwnIsOlder' /\ HandIsSet'
  BY <1>1, <1>2, TruthStep DEF table, pull
<1>4. TypeOK'
  BY <1>1 DEF IInv, TypeOK, table, pull
<1>5. WorkerPulls' /\ Idle' /\ SelectsFirst' /\ PendingApart' /\ Unseen'
  BY <1>1, PullKept DEF IInv, TypeOK, table
<1> QED
  BY <1>3, <1>4, <1>5 DEF IInv

LEMMA PackStep ==
    ASSUME IInv, NEW p \in Tasks, NEW o \in Orders, Pack(p, o)
    PROVE  IInv'
<1>1. p \in Syncers /\ p # "worker"
  BY MirrorAssumption DEF Syncers
<1>2. /\ truth' = [truth EXCEPT ![o] = "processing"]
      /\ job' = [job EXCEPT ![p] = "search"]
      /\ todo' = [todo EXCEPT ![p] = {o}]
      /\ UNCHANGED <<marked, table, placed, no, more, hand, missed, confirming, tick, faults>>
  BY DEF Pack
<1>3. TypeOK'
  BY <1>1, <1>2 DEF IInv, TypeOK, table, Jobs, States, Buckets
<1>4. \A x \in Orders : Depth[truth[x]] <= Depth[truth'[x]]
  <2>1. \A x \in Orders : Depth[truth[x]] \in Nat
    BY DepthNat DEF IInv, TypeOK, RowStates
  <2> QED
    BY <1>2, <2>1, DepthNat DEF IInv, TypeOK, Pack
<1>5. RowIsPast' /\ HandIsPast' /\ OwnIsOlder' /\ HandIsSet'
  BY <1>2, <1>3, <1>4, TruthStep DEF IInv, TypeOK, table
<1>6. hand[p] = {} /\ missed[p] = None
  BY <1>1 DEF IInv, Idle, Pack
<1>7. WorkerPulls' /\ SelectsFirst' /\ Idle'
  BY <1>1, <1>2 DEF IInv, TypeOK, WorkerPulls, SelectsFirst, Idle
<1>8. PendingApart' /\ Unseen'
  <2>1. \A q \in Syncers \ {p} : todo'[q] = todo[q] /\ job'[q] = job[q]
    BY <1>1, <1>2 DEF IInv, TypeOK
  <2>2. todo'[p] = {o} /\ job'[p] = "search"
    BY <1>1, <1>2 DEF IInv, TypeOK
  <2>3. \A x \in Orders : age[x] \in Nat
    BY MirrorAssumption DEF IInv, TypeOK
  <2> QED
    BY <1>1, <1>2, <1>6, <2>1, <2>2, <2>3, UnseenStep, NoneIsNoOrder
    DEF IInv, TypeOK, Pending, table
<1> QED
  BY <1>3, <1>5, <1>7, <1>8 DEF IInv

-----------------------------------------------------------------------------
(* A syncer goes to its next pull, or stops; time may have passed.          *)
LEMMA EnterStep ==
    ASSUME IInv, NEW p \in Syncers, NEW j \in Jobs, Enter(p, j),
           p = "worker" => j # "search",
           UNCHANGED <<bigseller, row, printed, writer, confirming>>,
           age' \in [Orders -> 0 .. Horizon], placed' \in [Orders -> 0 .. Horizon],
           \A o \in Orders : row[o] # "absent" => age'[o] >= age[o],
           tick' \in 0 .. Cycle - 1, faults' \in 0 .. MaxFaults
    PROVE  IInv'
<1>1. /\ job' \in [Syncers -> Jobs] /\ no' \in [Syncers -> Nat]
      /\ more' \in [Syncers -> BOOLEAN]
      /\ hand' \in [Syncers -> SUBSET Entries]
      /\ todo' \in [Syncers -> SUBSET Orders]
      /\ missed' \in [Syncers -> Orders \cup {None}]
      /\ hand'[p] = {} /\ todo'[p] = {} /\ missed'[p] = None
      /\ \A q \in Syncers \ {p} :
            /\ hand'[q] = hand[q] /\ todo'[q] = todo[q]
            /\ missed'[q] = missed[q] /\ job'[q] = job[q]
  BY EnterTyped DEF IInv
<1>2. job'[p] = j /\ \A q \in Syncers \ {p} : more'[q] = more[q]
  BY DEF IInv, TypeOK, Enter
<1>3. TypeOK'
  BY <1>1 DEF IInv, TypeOK, bigseller
<1>4. \A q \in Syncers : hand'[q] \subseteq hand[q]
  BY <1>1
<1>5. RowIsPast' /\ HandIsPast' /\ OwnIsOlder' /\ HandIsSet'
  BY <1>4, HandStep
<1>6. WorkerPulls' /\ Idle' /\ SelectsFirst'
  <2>1. "worker" \in Syncers
    BY DEF Syncers
  <2>2. WorkerPulls'
    BY <1>1, <1>2, <2>1 DEF IInv, WorkerPulls
  <2>3. Idle'
    BY <1>1 DEF IInv, Idle
  <2>4. SelectsFirst'
    BY <1>1, <1>2 DEF IInv, SelectsFirst
  <2> QED
    BY <2>2, <2>3, <2>4
<1>7. PendingApart' /\ Unseen'
  BY <1>1, UnseenStep, NoneIsNoOrder DEF Pending
<1> QED
  BY <1>3, <1>5, <1>6, <1>7 DEF IInv

LEMMA BeginStep ==
    ASSUME IInv, BeginTurn PROVE IInv'
<1>1. "worker" \in Syncers /\ "new" \in Jobs
  BY DEF Syncers, Jobs, Buckets
<1>2. (tick + 1) % Cycle \in 0 .. Cycle - 1
  BY MirrorAssumption DEF IInv, TypeOK
<1>3. 0 \in 0 .. Horizon
  BY MirrorAssumption
<1>4. /\ age' \in [Orders -> 0 .. Horizon] /\ placed' \in [Orders -> 0 .. Horizon]
      /\ \A o \in Orders : row[o] # "absent" => age'[o] >= age[o]
  BY <1>3, OlderTyped DEF IInv, TypeOK, BeginTurn
<1> QED
  BY <1>1, <1>2, <1>4, EnterStep DEF BeginTurn, IInv, TypeOK

(* The steps that end a pull, or begin one on request.                      *)
LEMMA EndStep ==
    ASSUME IInv, NEW p \in Syncers,
           (p \in Tasks /\ StartSync(p)) \/ EndPull(p) \/ Fails(p) \/ Crash(p)
    PROVE  IInv'
<1>0. MaxFaults \in Nat /\ Cycle \in Nat \ {0}
  BY MirrorAssumption
<1>1. /\ UNCHANGED <<bigseller, row, printed, writer, confirming, age, placed>>
      /\ tick' \in {tick, 0}
      /\ faults' = faults \/ Fault
  BY DEF StartSync, EndPull, Fails, Crash, table
<1>1a. tick' \in 0 .. Cycle - 1 /\ faults' \in 0 .. MaxFaults
  BY <1>0, <1>1 DEF IInv, TypeOK, Fault
<1>2. \A o \in Orders : age[o] \in Nat
  BY MirrorAssumption DEF IInv, TypeOK
<1>3. \A j \in Jobs : (p = "worker" => j # "search") /\ Enter(p, j) => IInv'
  BY <1>1, <1>1a, <1>2, EnterStep DEF IInv, TypeOK
<1>4. "new" \in Jobs /\ "idle" \in Jobs
  BY DEF Jobs, Buckets
<1>5. job[p] # "idle" =>
        \A ok \in BOOLEAN : JobAfter(p, ok) \in Jobs
                           /\ (p = "worker" => JobAfter(p, ok) # "search")
  BY JobAfterTyped DEF IInv, TypeOK
<1>6. CASE p \in Tasks /\ StartSync(p)
  BY <1>3, <1>4, <1>6 DEF StartSync
<1>7. CASE EndPull(p)
  BY <1>3, <1>5, <1>7 DEF EndPull
<1>8. CASE Fails(p)
  BY <1>3, <1>5, <1>8 DEF Fails
<1>9. CASE Crash(p)
  BY <1>3, <1>4, <1>9 DEF Crash
<1> QED
  BY <1>6, <1>7, <1>8, <1>9

LEMMA FetchStep ==
    ASSUME IInv, NEW p \in Syncers, Fetch(p)
    PROVE  IInv'
<1> DEFINE n == no[p] + 1
           page == Page(job[p], n)
<1>1. /\ no' = [no EXCEPT ![p] = n]
      /\ hand' = [hand EXCEPT ![p] = {Entry(o) : o \in page}]
      /\ \E b \in BOOLEAN : more' = [more EXCEPT ![p] = b]
      /\ UNCHANGED <<bigseller, table, placed, job, todo, missed, confirming, tick, faults>>
  BY DEF Fetch
<1>2. job[p] \in Buckets /\ n \in Nat
  BY DEF Fetch, IInv, TypeOK
<1>3. page \in SUBSET Orders /\ \A o \in page : truth[o] # "absent"
  BY <1>2, PageInBucket DEF Buckets
<1>4. /\ hand' \in [Syncers -> SUBSET Entries]
      /\ RowIsPast' /\ HandIsPast' /\ OwnIsOlder' /\ HandIsSet'
  <2> HIDE DEF page
  <2> QED
    BY <1>1, <1>3, AnswerStep
<1>5. TypeOK'
  <2>1. no' \in [Syncers -> Nat] /\ more' \in [Syncers -> BOOLEAN]
    BY <1>1, <1>2 DEF IInv, TypeOK
  <2> QED
    BY <1>1, <1>4, <2>1 DEF IInv, TypeOK, bigseller, table
<1>6. job[p] \notin {"idle", "reconcile", "search"}
  BY <1>2 DEF Buckets
<1>7. \A q \in Syncers \ {p} : hand'[q] = hand[q] /\ more'[q] = more[q]
  BY <1>1 DEF IInv, TypeOK
<1>8. WorkerPulls' /\ Idle' /\ SelectsFirst'
  BY <1>1, <1>6, <1>7 DEF IInv, WorkerPulls, Idle, SelectsFirst
<1>9. \A o \in Orders : ~Pending(p, o)'
  BY <1>1, <1>6 DEF IInv, PendingApart, Pending
<1>10. \A o \in Orders : age[o] \in Nat
  BY MirrorAssumption DEF IInv, TypeOK
<1>11. PendingApart' /\ Unseen'
  BY <1>1, <1>7, <1>9, <1>10, UnseenStep DEF IInv, TypeOK, table, Pending
<1> QED
  BY <1>4, <1>5, <1>8, <1>11 DEF IInv

(* The answer of a search is taken in, with or without a row.               *)
LEMMA LookUpStep ==
    ASSUME IInv, NEW p \in Syncers, NEW o \in todo[p], NEW found \in BOOLEAN,
           LookUp(p, o, found), found => truth[o] # "absent",
           faults' \in 0 .. MaxFaults
    PROVE  IInv'
<1> DEFINE S == IF found THEN {o} ELSE {}
<1>1. o \in Orders
  BY DEF IInv, TypeOK
<1>2. hand' = [hand EXCEPT ![p] = {Entry(x) : x \in S}]
  <2>1. {Entry(x) : x \in S} = IF found THEN {Entry(o)} ELSE {}
    OBVIOUS
  <2> QED
    BY <2>1 DEF LookUp
<1>3. /\ missed' = [missed EXCEPT ![p] = IF found THEN None ELSE o]
      /\ todo' = [todo EXCEPT ![p] = todo[p] \ {o}]
      /\ UNCHANGED <<bigseller, table, placed, job, no, more, confirming, tick>>
      /\ hand[p] = {} /\ missed[p] = None
  BY DEF LookUp
<1>4. S \in SUBSET Orders /\ \A x \in S : truth[x] # "absent"
  BY <1>1
<1>5. /\ hand' \in [Syncers -> SUBSET Entries]
      /\ RowIsPast' /\ HandIsPast' /\ OwnIsOlder' /\ HandIsSet'
  <2> HIDE DEF S
  <2> QED
    BY <1>2, <1>3, <1>4, AnswerStep
<1>6. TypeOK'
  BY <1>1, <1>3, <1>5 DEF IInv, TypeOK, bigseller, table
<1>7. \A q \in Syncers \ {p} :
        hand'[q] = hand[q] /\ todo'[q] = todo[q] /\ missed'[q] = missed[q]
  BY <1>2, <1>3 DEF IInv, TypeOK
<1>8. /\ \A e \in hand'[p] : e.order = o
      /\ todo'[p] = todo[p] \ {o} /\ missed'[p] \in {None, o}
      /\ found => missed'[p] = None
      /\ ~found => hand'[p] = {}
  <2>1. hand'[p] = {Entry(x) : x \in S}
    BY <1>2 DEF IInv, TypeOK
  <2>2. \A e \in hand'[p] : e.order = o
    BY <2>1, <1>1 DEF Entry
  <2> QED
    BY <1>3, <2>1, <2>2 DEF IInv, TypeOK
<1>9. job[p] \in {"reconcile", "search"} /\ ~(job[p] = "reconcile" /\ more[p])
  BY <1>1 DEF IInv, PendingApart, Pending, SelectsFirst
<1>10. WorkerPulls' /\ Idle' /\ SelectsFirst'
  BY <1>3, <1>7, <1>9 DEF IInv, WorkerPulls, Idle, SelectsFirst
<1>11. \A x \in Orders : Pending(p, x)' => Pending(p, x)
  BY <1>8, <1>1, NoneIsNoOrder DEF Pending
<1>12. \A x \in Orders :
          /\ Pending(p, x)' => \A e \in hand'[p] : e.order # x
          /\ missed'[p] = x => x \notin todo'[p]
  BY <1>8, <1>1, NoneIsNoOrder DEF Pending
<1>13. \A x \in Orders : age[x] \in Nat
  BY MirrorAssumption DEF IInv, TypeOK
<1>14. \A x \in Orders :
          job'[p] = "reconcile" /\ Pending(p, x)' =>
              row'[x] # "absent" /\ (age'[x] >= Window \/ writer'[x] # p)
  BY <1>3, <1>11 DEF IInv, Unseen, table
<1>15. PendingApart' /\ Unseen'
  BY <1>3, <1>7, <1>9, <1>12, <1>13, <1>14, UnseenStep DEF IInv, TypeOK, table
<1> QED
  BY <1>5, <1>6, <1>10, <1>15 DEF IInv

LEMMA SelectStep ==
    ASSUME IInv, NEW p \in Syncers, Select(p)
    PROVE  IInv'
<1>1. PICK T \in SUBSET Candidates : todo' = [todo EXCEPT ![p] = T]
  BY DEF Select
<1>2. /\ job[p] = "reconcile" /\ more[p]
      /\ more' = [more EXCEPT ![p] = FALSE]
      /\ UNCHANGED <<bigseller, table, placed, job, no, hand, missed, confirming, tick, faults>>
  BY DEF Select
<1>3. hand[p] = {} /\ missed[p] = None
  BY <1>2 DEF IInv, SelectsFirst
<1>4. T \in SUBSET Orders
  BY DEF Candidates
<1>5. TypeOK'
  BY <1>1, <1>2, <1>4 DEF IInv, TypeOK, bigseller, table
<1>6. RowIsPast' /\ HandIsPast' /\ OwnIsOlder' /\ HandIsSet'
  BY <1>2, HandStep DEF table
<1>7. /\ \A q \in Syncers \ {p} : todo'[q] = todo[q] /\ more'[q] = more[q]
      /\ todo'[p] = T /\ ~more'[p]
  BY <1>1, <1>2 DEF IInv, TypeOK
<1>8. WorkerPulls' /\ Idle' /\ SelectsFirst'
  BY <1>2, <1>7 DEF IInv, WorkerPulls, Idle, SelectsFirst
<1>9. \A o \in T : row[o] = "new" /\ age[o] >= Window
  BY DEF Candidates
<1>10. \A o \in Orders : Pending(p, o)' => o \in T /\ missed'[p] # o
  BY <1>2, <1>3, <1>7, NoneIsNoOrder DEF Pending
<1>11. \A o \in Orders : age[o] \in Nat
  BY MirrorAssumption DEF IInv, TypeOK
<1>12. PendingApart' /\ Unseen'
  BY <1>2, <1>3, <1>7, <1>9, <1>10, <1>11, NoneIsNoOrder, UnseenStep
  DEF IInv, TypeOK, table
<1> QED
  BY <1>5, <1>6, <1>8, <1>12 DEF IInv

LEMMA MissStep ==
    ASSUME IInv, NEW p \in Syncers, Miss(p)
    PROVE  IInv'
<1> DEFINE o == missed[p]
<1>1. /\ o \in Orders
      /\ row' = row \/ (row[o] = "new" /\ row' = [row EXCEPT ![o] = "archived"])
      /\ missed' = [missed EXCEPT ![p] = None]
      /\ UNCHANGED <<bigseller, printed, age, writer, placed, job, no, more, hand,
                     todo, confirming, tick, faults>>
  BY DEF IInv, TypeOK, Miss
<1>2. /\ row' \in [Orders -> RowStates]
      /\ \A x \in Orders : /\ Depth[row'[x]] = Depth[row[x]]
                           /\ row[x] # "absent" => row'[x] # "absent"
  BY <1>1, DepthNat DEF IInv, TypeOK, RowStates
<1>3. TypeOK'
  BY <1>1, <1>2 DEF IInv, TypeOK, RowStates, bigseller
<1>0. UNCHANGED <<truth, marked, printed, writer, hand, confirming>>
  BY <1>1 DEF bigseller
<1>4. RowIsPast' /\ HandIsPast' /\ HandIsSet'
  <2>1. RowIsPast'
    BY <1>0, <1>2 DEF IInv, RowIsPast, Past
  <2> QED
    BY <1>0, <2>1 DEF IInv, HandIsPast, HandIsSet, Past
<1>5. OwnIsOlder'
  <2> SUFFICES ASSUME NEW q \in Syncers, NEW e \in hand[q], writer[e.order] = q
               PROVE  Depth[row'[e.order]] <= Depth[e.state]
                      /\ (e.order \in printed => e.mark)
    BY <1>0 DEF OwnIsOlder
  <2>1. e.order \in Orders
    BY DEF IInv, TypeOK, Entries
  <2>2. Depth[row[e.order]] <= Depth[e.state] /\ (e.order \in printed => e.mark)
    BY DEF IInv, OwnIsOlder
  <2>3. Depth[row'[e.order]] = Depth[row[e.order]]
    BY <1>2, <2>1
  <2> QED
    BY <2>2, <2>3
<1>6. \A q \in Syncers \ {p} : missed'[q] = missed[q]
  BY <1>1 DEF IInv, TypeOK
<1>7. missed'[p] = None
  BY <1>1 DEF IInv, TypeOK
<1>8. WorkerPulls' /\ Idle' /\ SelectsFirst'
  BY <1>1, <1>6, <1>7 DEF IInv, WorkerPulls, Idle, SelectsFirst
<1>9. \A x \in Orders : Pending(p, x)' => Pending(p, x) /\ missed'[p] # x
  BY <1>1, <1>7, NoneIsNoOrder DEF Pending
<1>10. \A x \in Orders : age[x] \in Nat
  BY MirrorAssumption DEF IInv, TypeOK
<1>11. \A x \in Orders :
          /\ Pending(p, x)' => \A e \in hand'[p] : e.order # x
          /\ Pending(p, x)' => job'[p] \in {"reconcile", "search"}
          /\ job'[p] = "reconcile" /\ Pending(p, x)' =>
              row'[x] # "absent" /\ (age'[x] >= Window \/ writer'[x] # p)
  BY <1>1, <1>2, <1>9 DEF IInv, PendingApart, Unseen
<1>12. PendingApart' /\ Unseen'
  BY <1>1, <1>2, <1>6, <1>7, <1>10, <1>11, NoneIsNoOrder, UnseenStep
  DEF IInv, TypeOK
<1> QED
  BY <1>3, <1>4, <1>5, <1>8, <1>12 DEF IInv

LEMMA LabelStep ==
    ASSUME IInv, NEW o \in Orders, MarkPrinted(o) \/ ConfirmLost(o)
    PROVE  IInv'
<1>1. /\ o \in confirming /\ confirming' = confirming \ {o}
      /\ printed' \in {printed, printed \cup {o}}
      /\ writer' \in {writer, [writer EXCEPT ![o] = "resi"]}
      /\ printed' = printed \/ writer' = [writer EXCEPT ![o] = "resi"]
      /\ UNCHANGED <<bigseller, row, age, placed, pull, tick>>
      /\ faults' = faults \/ Fault
  BY DEF MarkPrinted, ConfirmLost, table
<1>2. "resi" \notin Syncers
  BY MirrorAssumption DEF Syncers
<1>3. faults' \in 0 .. MaxFaults
  BY <1>1, MirrorAssumption DEF IInv, TypeOK, Fault
<1>4. TypeOK'
  BY <1>1, <1>3 DEF IInv, TypeOK, bigseller, pull
<1>5. RowIsPast' /\ HandIsPast' /\ HandIsSet'
  BY <1>1 DEF IInv, RowIsPast, HandIsPast, HandIsSet, Past, bigseller, pull
<1>6. \A x \in Orders : writer'[x] \in {writer[x], "resi"}
  BY <1>1 DEF IInv, TypeOK
<1>7. OwnIsOlder'
  <2> SUFFICES ASSUME NEW q \in Syncers, NEW e \in hand[q], writer'[e.order] = q
               PROVE  Depth[row[e.order]] <= Depth[e.state]
                      /\ (e.order \in printed' => e.mark)
    BY <1>1 DEF OwnIsOlder, pull
  <2>1. e.order \in Orders
    BY DEF IInv, TypeOK, Entries
  <2>2. writer[e.order] = q /\ (e.order \in printed' => e.order \in printed)
    BY <1>1, <1>2, <1>6, <2>1 DEF IInv, TypeOK
  <2> QED
    BY <2>2 DEF IInv, OwnIsOlder
<1>8. WorkerPulls' /\ Idle' /\ SelectsFirst' /\ PendingApart' /\ Unseen'
  BY <1>1, <1>6, PullKept DEF IInv, TypeOK
<1> QED
  BY <1>4, <1>5, <1>7, <1>8 DEF IInv

LEMMA WriteKeeps ==
    ASSUME IInv, NEW p \in Syncers, Write(p)
    PROVE  IInv'
<1>1. PICK e \in hand[p] :
         /\ row' = [row EXCEPT ![e.order] = e.state]
         /\ age' = [age EXCEPT ![e.order] = 0]
         /\ writer' = [writer EXCEPT ![e.order] = p]
         /\ hand' = [hand EXCEPT ![p] = @ \ {e}]
  BY DEF Write
<1>2. UNCHANGED <<job, no, more, todo, missed>>
  BY DEF Write
<1>3. e.order \in Orders /\ e.state \in States /\ e.state # "absent"
  BY DEF IInv, TypeOK, Entries, States, Buckets
<1>4. /\ \A x \in Orders : row[x] # "absent" => row'[x] # "absent"
      /\ \A x \in Orders \ {e.order} :
           row'[x] = row[x] /\ age'[x] = age[x] /\ writer'[x] = writer[x]
      /\ writer'[e.order] = p
      /\ hand'[p] = hand[p] \ {e}
      /\ \A q \in Syncers \ {p} : hand'[q] = hand[q]
  BY <1>1, <1>3 DEF IInv, TypeOK
<1>5. \A x \in Orders : age[x] \in Nat
  BY MirrorAssumption DEF IInv, TypeOK
<1>6. TypeOK' /\ RowIsPast' /\ HandIsPast' /\ OwnIsOlder' /\ HandIsSet'
  BY WriteStep
<1>7. WorkerPulls' /\ Idle' /\ SelectsFirst'
  BY <1>2, <1>4 DEF IInv, WorkerPulls, Idle, SelectsFirst
<1>8. \A x \in Orders : Pending(p, x)' => Pending(p, x) /\ x # e.order
  BY <1>2 DEF IInv, PendingApart, Pending
<1>9. \A x \in Orders :
          /\ Pending(p, x)' => \A f \in hand'[p] : f.order # x
          /\ Pending(p, x)' => job'[p] \in {"reconcile", "search"}
          /\ missed'[p] = x => x \notin todo'[p]
          /\ job'[p] = "reconcile" /\ Pending(p, x)' =>
              row'[x] # "absent" /\ (age'[x] >= Window \/ writer'[x] # p)
  BY <1>2, <1>4, <1>8 DEF IInv, PendingApart, Unseen
<1>10. \A x \in Orders : \/ (age'[x] >= age[x] /\ writer'[x] = writer[x])
                          \/ writer'[x] \notin Syncers \ {p}
  BY <1>4, <1>5
<1>11. age' \in [Orders -> 0 .. Horizon]
  BY <1>6 DEF TypeOK
<1>12. PendingApart' /\ Unseen'
  BY <1>2, <1>4, <1>9, <1>10, <1>11, UnseenStep
<1> QED
  BY <1>6, <1>7, <1>12 DEF IInv

-----------------------------------------------------------------------------
LEMMA InitIInv == Init => IInv
<1> SUFFICES ASSUME Init PROVE IInv
  OBVIOUS
<1> USE DEF Init
<1>1. 0 \in 0 .. Horizon /\ 0 \in 0 .. MaxFaults /\ 0 \in 0 .. Cycle - 1
  BY MirrorAssumption
<1>2. "worker" \in Syncers
  BY DEF Syncers
<1>3. TypeOK
  BY <1>1 DEF TypeOK, Jobs
<1>4. RowIsPast
  BY DepthNat DEF RowIsPast, Past
<1>5. HandIsPast /\ OwnIsOlder /\ HandIsSet
  BY DEF HandIsPast, OwnIsOlder, HandIsSet
<1>6. WorkerPulls /\ Idle /\ SelectsFirst
  BY <1>2 DEF WorkerPulls, Idle, SelectsFirst
<1>7. PendingApart /\ Unseen
  BY NoneIsNoOrder DEF PendingApart, Unseen, Pending
<1> QED
  BY <1>3, <1>4, <1>5, <1>6, <1>7 DEF IInv

(* A search that finds the order finds one BigSeller has.                   *)
LEMMA SearchStep ==
    ASSUME IInv, NEW p \in Syncers, Search(p) \/ Throttled(p)
    PROVE  IInv'
<1>1. \A o : Findable(o) \in BOOLEAN /\ (Findable(o) => truth[o] # "absent")
  BY DEF Findable
<1>2. CASE Search(p)
  <2>1. PICK o \in todo[p] : LookUp(p, o, Findable(o))
    BY <1>2 DEF Search
  <2>2. faults' \in 0 .. MaxFaults
    BY <1>2 DEF Search, IInv, TypeOK
  <2> QED
    BY <1>1, <2>1, <2>2, LookUpStep
<1>3. CASE Throttled(p)
  <2>1. PICK o \in todo[p] : LookUp(p, o, FALSE)
    BY <1>3 DEF Throttled
  <2>2. faults' \in 0 .. MaxFaults
    BY <1>3, MirrorAssumption DEF Throttled, Fault, IInv, TypeOK
  <2> QED
    BY <2>1, <2>2, LookUpStep
<1> QED
  BY <1>2, <1>3

LEMMA StepIInv == IInv /\ [Next]_vars => IInv'
<1> SUFFICES ASSUME IInv, [Next]_vars PROVE IInv'
  OBVIOUS
<1>1. CASE BeginTurn
  BY <1>1, BeginStep
<1>2. ASSUME NEW p \in Tasks, StartSync(p) \/ \E o \in Orders : Pack(p, o)
      PROVE  IInv'
  BY <1>2, EndStep, PackStep DEF Syncers
<1>3. ASSUME NEW o \in Orders,
             \/ Place(o) \/ Confirm(o) \/ MarkPrinted(o) \/ ConfirmLost(o)
             \/ \E s \in States : Move(o, s)
      PROVE  IInv'
  <2>1. "new" \in States
    BY DEF States, Buckets
  <2> QED
    BY <1>3, <2>1, BigSellerStep, LabelStep
<1>4. ASSUME NEW p \in Syncers, Step(p) \/ Throttled(p) \/ Fails(p) \/ Crash(p)
      PROVE  IInv'
  BY <1>4, FetchStep, WriteKeeps, EndStep, SelectStep, SearchStep, MissStep DEF Step
<1>5. CASE UNCHANGED vars
  <2> USE <1>5 DEF vars, bigseller, table, pull
  <2>1. TypeOK' /\ WorkerPulls' /\ RowIsPast' /\ HandIsPast' /\ OwnIsOlder'
    BY DEF IInv, TypeOK, WorkerPulls, RowIsPast, HandIsPast, OwnIsOlder, Past
  <2>2. HandIsSet' /\ Idle' /\ SelectsFirst' /\ PendingApart' /\ Unseen'
    BY DEF IInv, HandIsSet, Idle, SelectsFirst, PendingApart, Unseen, Pending
  <2> QED
    BY <2>1, <2>2 DEF IInv
<1> QED
  BY <1>1, <1>2, <1>3, <1>4, <1>5 DEF Next

(* The strengthened invariant holds in every reachable state.               *)
THEOREM InvariantHolds == Spec => []IInv
BY InitIInv, StepIInv, PTL DEF Spec

(* Every variable of the mirror keeps its type.                             *)
THEOREM TypeCorrect == Spec => []TypeOK
<1>1. IInv => TypeOK
  BY DEF IInv
<1> QED
  BY <1>1, InvariantHolds, PTL

(* The table is never ahead of BigSeller: every row, and every row about to *)
(* be written, is what BigSeller had at that time or before.                *)
THEOREM NeverAhead == Spec => [](RowIsPast /\ HandIsPast)
<1>1. IInv => RowIsPast /\ HandIsPast
  BY DEF IInv
<1> QED
  BY <1>1, InvariantHolds, PTL

-----------------------------------------------------------------------------
(* The steps that touch a row: a write, an archiving, and a label.          *)
LEMMA RowSteps ==
    ASSUME [Next]_vars
    PROVE  \/ UNCHANGED <<row, printed, writer>>
           \/ \E p \in Syncers : Write(p)
           \/ /\ \E p \in Syncers : Miss(p)
              /\ UNCHANGED <<printed, writer>>
           \/ \E o \in Orders : MarkPrinted(o)
BY DEF Next, Step, vars, table, BeginTurn, StartSync, Pack, Place, Move, Confirm,
   ConfirmLost, Fetch, EndPull, Select, Search, Throttled, LookUp, Miss, Fails,
   Crash

LEMMA StepBackNeedsTwo ==
    ASSUME IInv, [Next]_vars, NEW o \in Orders,
           \/ Depth[row'[o]] < Depth[row[o]]
           \/ o \in printed /\ o \notin printed'
    PROVE  writer'[o] # writer[o]
<1>1. /\ row[o] \in RowStates /\ Depth[row[o]] \in Nat
  BY DepthNat DEF IInv, TypeOK, RowStates
<1>2. CASE UNCHANGED <<row, printed, writer>>
  BY <1>1, <1>2
<1>3. CASE \E p \in Syncers : Write(p)
  <2>p. PICK p \in Syncers : Write(p)
    BY <1>3
  <2>1. PICK e \in hand[p] :
           /\ row' = [row EXCEPT ![e.order] = e.state]
           /\ printed' = IF e.mark THEN printed \cup {e.order} ELSE printed \ {e.order}
           /\ writer' = [writer EXCEPT ![e.order] = p]
    BY <2>p DEF Write
  <2>2. e.order = o /\ e.state \in States
    BY <1>1, <2>1 DEF IInv, TypeOK, Entries
  <2>3. row'[o] = e.state /\ writer'[o] = p /\ (e.mark => o \in printed')
    BY <2>1, <2>2 DEF IInv, TypeOK
  <2>4. writer[o] = p =>
           Depth[row[o]] <= Depth[e.state] /\ (o \in printed => e.mark)
    BY <2>2 DEF IInv, OwnIsOlder
  <2>5. Depth[e.state] \in Nat
    BY <2>2, DepthNat DEF RowStates
  <2> QED
    BY <1>1, <2>3, <2>4, <2>5
<1>4. CASE (\E p \in Syncers : Miss(p)) /\ UNCHANGED <<printed, writer>>
  <2>1. PICK p \in Syncers : Miss(p)
    BY <1>4
  <2>2. row'[o] = row[o] \/ (row[o] = "new" /\ row'[o] = "archived")
    BY <2>1 DEF Miss, IInv, TypeOK
  <2> QED
    BY <1>1, <1>4, <2>2, DepthNat
<1>5. CASE \E x \in Orders : MarkPrinted(x)
  <2>1. row' = row /\ printed \subseteq printed'
    BY <1>5 DEF MarkPrinted
  <2> QED
    BY <1>1, <2>1
<1> QED
  BY <1>2, <1>3, <1>4, <1>5, RowSteps

LEMMA UnseenIsArchived ==
    ASSUME IInv, [Next]_vars, NEW p \in Syncers, NEW o \in Orders,
           missed[p] # None, missed'[p] = None, row'[o] # row[o]
    PROVE  row[o] = "new" /\ (age[o] >= Window \/ writer[o] # p)
<1>1. CASE UNCHANGED <<row, printed, writer>>
  BY <1>1
<1>2. CASE \E q \in Syncers : Write(q)
  BY <1>2 DEF Write
<1>3. CASE \E q \in Syncers : Miss(q)
  <2>1. PICK q \in Syncers : Miss(q)
    BY <1>3
  <2>2. q = p
    BY <2>1 DEF Miss, IInv, TypeOK
  <2>3. /\ job[p] = "reconcile" /\ row[missed[p]] = "new" /\ o = missed[p]
    BY <2>1, <2>2 DEF Miss, IInv, TypeOK
  <2> QED
    BY <2>3 DEF IInv, Unseen, Pending
<1>4. CASE \E x \in Orders : MarkPrinted(x)
  BY <1>4 DEF MarkPrinted
<1> QED
  BY <1>1, <1>2, <1>3, <1>4, RowSteps

(* A row steps back only when two actors cross (upsert_order).              *)
THEOREM OneSyncerNeverStepsBack == Spec => NoStepBack
<1>1. IInv /\ [Next]_vars =>
        [\A o \in Orders :
           \/ Depth[row'[o]] < Depth[row[o]]
           \/ o \in printed /\ o \notin printed'
           => writer'[o] # writer[o]]_vars
  BY StepBackNeedsTwo
<1> QED
  BY <1>1, InvariantHolds, PTL DEF Spec, NoStepBack

(* Only an unseen row is archived (reconcile_stale_new_orders).             *)
THEOREM OnlyTheUnseenAreArchived == Spec => ArchivesTheUnseen
<1>1. IInv /\ [Next]_vars =>
        [\A p \in Syncers, o \in Orders :
           missed[p] # None /\ missed'[p] = None /\ row'[o] # row[o]
           => row[o] = "new" /\ (age[o] >= Window \/ writer[o] # p)]_vars
  BY UnseenIsArchived
<1> QED
  BY <1>1, InvariantHolds, PTL DEF Spec, ArchivesTheUnseen
=============================================================================
