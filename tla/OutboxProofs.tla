---------------------------- MODULE OutboxProofs ----------------------------
(***************************************************************************)
(* Theorems of Outbox: for any set of rows, limits and number of faults, a *)
(* row recorded as sent was delivered, it is delivered again only after a  *)
(* delivery went unrecorded, and what is settled stays settled.            *)
(***************************************************************************)
EXTENDS Outbox, TLAPS

(* What the loop holds in memory at each place.                             *)
Memory ==
    /\ pc \in {"top", "jobs", "cards"} => todo = {}
    /\ pc \notin {"load", "cards"} => card = {}
    /\ pc \in {"post", "ok", "err"} =>
           \E e \in todo : IsLowest(e, todo) /\ Kind[e] = "plain"
    /\ pc = "load" => \A e \in todo : Kind[e] = "urgent"
    /\ \A e \in card : Kind[e] = "urgent"
    /\ todo \cap card = {}

(* A polled row is not touched by anyone else until the loop comes to it.   *)
MemoryFresh ==
    \A e \in todo \cup card : status[e] = "pending" /\ wait[e] = 0

(* An event is delivered and not yet recorded.                              *)
InFlight(e) ==
    \/ pc = "ok" /\ IsLowest(e, todo)
    \/ pc = "cards" /\ e \in card

Counted ==
    \A e \in Events :
        IF InFlight(e) THEN posted[e] + carded[e] = 1 + lost[e]
        ELSE IF status[e] = "sent" THEN posted[e] + carded[e] <= 1 + lost[e]
        ELSE posted[e] + carded[e] = lost[e]

InFlightDelivered ==
    \A e \in Events : InFlight(e) =>
        /\ posted[e] + carded[e] > 0
        /\ Kind[e] = "urgent" => carded[e] > 0

AbsentUntried ==
    \A e \in Events : status[e] = "absent" => attempts[e] = 0

IInv ==
    /\ TypeOK
    /\ Memory
    /\ MemoryFresh
    /\ Counted
    /\ InFlightDelivered
    /\ AbsentUntried
    /\ SentWasDelivered
    /\ GivesUpAtMaxAttempts

-----------------------------------------------------------------------------
(* A poll returns rows of the set it polls.                                 *)
LEMMA FirstIsSubset ==
    ASSUME NEW k, NEW S
    PROVE  First(k, S) \subseteq S
BY DEF First

(* At most one row is the lowest of a list.                                 *)
LEMMA LowestIsUnique ==
    ASSUME NEW S \in SUBSET Events, NEW e, NEW f,
           IsLowest(e, S), IsLowest(f, S)
    PROVE  e = f
BY OutboxAssumption DEF IsLowest

(* Every row of the combined card's list is urgent, pending and available.  *)
LEMMA InstantListIsUrgent ==
    First(CardLimit, Urgents(First(ListLimit, Created(Available))))
        \subseteq {e \in Available : Kind[e] = "urgent"}
BY FirstIsSubset DEF Urgents, Created

-----------------------------------------------------------------------------
RowsTyped ==
    /\ status \in [Events -> {"absent", "pending", "sent", "failed"}]
    /\ attempts \in [Events -> Nat]
    /\ wait \in [Events -> Nat]

(* Recording an outcome, and showing or losing a card, keep the types.      *)
LEMMA MarksTyped ==
    ASSUME TypeOK, NEW e \in Events, MarkSent(e) \/ MarkFailed(e)
    PROVE  RowsTyped'
<1>1. CASE MarkSent(e)
  BY <1>1 DEF TypeOK, RowsTyped, MarkSent
<1>2. CASE MarkFailed(e)
  <2>1. attempts[e] + 1 \in Nat
    BY DEF TypeOK
  <2>2. MaxBackoff \in Nat
    BY OutboxAssumption
  <2> QED
    BY <1>2, <2>1, <2>2 DEF TypeOK, RowsTyped, MarkFailed
<1> QED
  BY <1>1, <1>2

LEMMA TakeTyped ==
    ASSUME TypeOK, NEW e \in Events, Take(e)
    PROVE  posted' \in [Events -> Nat] /\ carded' \in [Events -> Nat]
BY DEF TypeOK, Take

LEMMA ShowTyped ==
    ASSUME TypeOK, Show
    PROVE  carded' \in [Events -> Nat]
BY DEF TypeOK, Show

LEMMA LoseTyped ==
    ASSUME TypeOK, NEW S, Lose(S)
    PROVE  lost' \in [Events -> Nat]
BY DEF TypeOK, Lose

LEMMA TypeCorrectStep ==
    ASSUME TypeOK, [Next]_vars
    PROVE  TypeOK'
<1> USE OutboxAssumption
<1>1. ASSUME NEW e \in Events, Emit(e) PROVE TypeOK'
  BY <1>1 DEF TypeOK, Emit, deliveries, worker
<1>2. CASE Minute
  BY <1>2 DEF TypeOK, Minute, deliveries, worker
<1>3. CASE BeginDrain
  BY <1>3, FirstIsSubset DEF TypeOK, BeginDrain, Available, rows, deliveries
<1>4. CASE SkipDrain \/ EndDrain \/ SkipInstant \/ NothingToCard \/ EndCards
  BY <1>4 DEF TypeOK, SkipDrain, EndDrain, SkipInstant, NothingToCard,
              EndCards, rows, deliveries
<1>5. ASSUME NEW e \in Events,
             LeaveUrgent(e) \/ Post(e) \/ Refused(e) \/ LoadOrder(e)
      PROVE  TypeOK'
  BY <1>5 DEF TypeOK, LeaveUrgent, Post, Refused, LoadOrder, Carding, Posting, Draining, Loading,
              rows, deliveries
<1>6. ASSUME NEW e \in Events, MarkUndelivered(e) \/ MarkCard(e)
      PROVE  TypeOK'
  BY <1>6, MarksTyped DEF TypeOK, RowsTyped, MarkUndelivered, MarkCard, deliveries
<1>7. ASSUME NEW e \in Events, Deliver(e) \/ AnswerLost(e)
      PROVE  TypeOK'
  <2>1. CASE Deliver(e)
    BY <2>1, TakeTyped DEF TypeOK, Deliver, rows
  <2>2. CASE AnswerLost(e)
    BY <2>2, TakeTyped DEF TypeOK, AnswerLost, rows
  <2> QED
    BY <1>7, <2>1, <2>2
<1>8. ASSUME NEW e \in Events, Record(e) \/ LoadFails(e)
      PROVE  TypeOK'
  BY <1>8, MarksTyped DEF TypeOK, RowsTyped, Record, LoadFails, deliveries
<1>9. CASE BeginInstant
  BY <1>9, InstantListIsUrgent DEF TypeOK, BeginInstant, Available, rows, deliveries
<1>10. CASE SendCard \/ CardRefused \/ CardAnswerLost
  <2>1. CASE SendCard
    BY <2>1, ShowTyped DEF TypeOK, SendCard, rows
  <2>2. CASE CardRefused
    BY <2>2 DEF TypeOK, CardRefused, rows, deliveries
  <2>3. CASE CardAnswerLost
    <3>1. lost' \in [Events -> Nat]
      BY <2>3, LoseTyped DEF CardAnswerLost
    <3> QED
      BY <2>3, <3>1, ShowTyped DEF TypeOK, CardAnswerLost, rows
  <2> QED
    BY <1>10, <2>1, <2>2, <2>3
<1>11. CASE Interrupt
  BY <1>11, LoseTyped DEF TypeOK, Interrupt, rows
<1>12. CASE UNCHANGED vars
  BY <1>12 DEF TypeOK, vars, rows, deliveries, worker
<1> QED
  BY <1>1, <1>2, <1>3, <1>4, <1>5, <1>6, <1>7, <1>8, <1>9, <1>10, <1>11,
     <1>12 DEF Next, WorkerStep, DrainStep, InstantStep

(* What an urgent or plain row in memory is, and what is known of it.       *)
LEMMA MemoryStep ==
    ASSUME TypeOK, Memory, MemoryFresh, [Next]_vars
    PROVE  Memory' /\ MemoryFresh'
<1> USE OutboxAssumption DEF Memory, MemoryFresh, IsLowest
<1>1. ASSUME NEW e \in Events, Emit(e) PROVE Memory' /\ MemoryFresh'
  BY <1>1 DEF TypeOK, Emit, deliveries, worker
<1>2. CASE Minute
  BY <1>2 DEF TypeOK, Minute, deliveries, worker
<1>3. CASE BeginDrain
  BY <1>3, FirstIsSubset DEF TypeOK, BeginDrain, Available, rows, deliveries
<1>4. CASE SkipDrain \/ EndDrain \/ SkipInstant \/ NothingToCard \/ EndCards
  BY <1>4 DEF TypeOK, SkipDrain, EndDrain, SkipInstant, NothingToCard,
              EndCards, rows, deliveries
<1>5. ASSUME NEW e \in Events,
             LeaveUrgent(e) \/ Post(e) \/ Refused(e) \/ LoadOrder(e)
      PROVE  Memory' /\ MemoryFresh'
  BY <1>5 DEF TypeOK, LeaveUrgent, Post, Refused, LoadOrder, Carding, Posting, Draining, Loading,
              rows, deliveries
<1>6. ASSUME NEW e \in Events, MarkUndelivered(e) \/ MarkCard(e)
      PROVE  Memory' /\ MemoryFresh'
  BY <1>6 DEF TypeOK, MarkUndelivered, MarkCard, MarkSent, Draining, deliveries
<1>7. ASSUME NEW e \in Events, Deliver(e) \/ AnswerLost(e)
      PROVE  Memory' /\ MemoryFresh'
  BY <1>7 DEF TypeOK, Deliver, AnswerLost, Take, Carding, Posting, Draining, rows
<1>8. ASSUME NEW e \in Events, Record(e) \/ LoadFails(e)
      PROVE  Memory' /\ MemoryFresh'
  BY <1>8 DEF TypeOK, Record, LoadFails, Loading, MarkSent, MarkFailed, deliveries
<1>9. CASE BeginInstant
  BY <1>9, InstantListIsUrgent DEF TypeOK, BeginInstant, Available, rows, deliveries
<1>10. CASE SendCard \/ CardRefused \/ CardAnswerLost
  BY <1>10 DEF TypeOK, SendCard, CardRefused, CardAnswerLost, ReadyToSend, rows
<1>11. CASE Interrupt
  BY <1>11 DEF TypeOK, Interrupt, rows
<1>12. CASE UNCHANGED vars
  BY <1>12 DEF TypeOK, vars, rows, deliveries, worker
<1> QED
  BY <1>1, <1>2, <1>3, <1>4, <1>5, <1>6, <1>7, <1>8, <1>9, <1>10, <1>11,
     <1>12 DEF Next, WorkerStep, DrainStep, InstantStep
(* The only ways a row changes: it is inserted, time passes, or the loop    *)
(* records the outcome of a row that is pending and available.              *)
LEMMA RowsChangeByMarks ==
    ASSUME TypeOK, Memory, MemoryFresh, [Next]_vars
    PROVE  \/ \E e \in Events : Emit(e)
           \/ \E e \in Events : /\ status[e] = "pending" /\ wait[e] = 0
                                /\ MarkSent(e) \/ MarkFailed(e)
           \/ UNCHANGED <<status, attempts>>
<1>1. CASE Minute \/ UNCHANGED vars
  BY <1>1 DEF Minute, vars, rows
<1>2. CASE BeginDrain \/ SkipDrain \/ EndDrain \/ BeginInstant \/ SkipInstant
           \/ NothingToCard \/ EndCards
  BY <1>2 DEF BeginDrain, SkipDrain, EndDrain, BeginInstant, SkipInstant,
              NothingToCard, EndCards, rows
<1>3. CASE SendCard \/ CardRefused \/ CardAnswerLost \/ Interrupt
  BY <1>3 DEF SendCard, CardRefused, CardAnswerLost, Interrupt, rows
<1>4. ASSUME NEW e \in Events,
             LeaveUrgent(e) \/ Post(e) \/ Refused(e) \/ LoadOrder(e) \/ Deliver(e)
             \/ AnswerLost(e)
      PROVE  UNCHANGED <<status, attempts>>
  BY <1>4 DEF LeaveUrgent, Post, Refused, LoadOrder, Deliver, AnswerLost, rows
<1>5. ASSUME NEW e \in Events,
             MarkUndelivered(e) \/ MarkCard(e) \/ Record(e) \/ LoadFails(e)
      PROVE  /\ status[e] = "pending" /\ wait[e] = 0
             /\ MarkSent(e) \/ MarkFailed(e)
  BY <1>5 DEF MarkUndelivered, MarkCard, Record, LoadFails, Draining, Loading,
              IsLowest, MemoryFresh
<1> QED
  BY <1>1, <1>2, <1>3, <1>4, <1>5
     DEF Next, WorkerStep, DrainStep, InstantStep

(* Attempts are counted from zero and the row is given up at the last one.  *)
LEMMA AttemptsStep ==
    ASSUME TypeOK, Memory, MemoryFresh, AbsentUntried, GivesUpAtMaxAttempts,
           [Next]_vars
    PROVE  AbsentUntried' /\ GivesUpAtMaxAttempts'
<1> USE OutboxAssumption DEF AbsentUntried, GivesUpAtMaxAttempts
<1>1. ASSUME NEW e \in Events, Emit(e)
      PROVE  AbsentUntried' /\ GivesUpAtMaxAttempts'
  BY <1>1 DEF TypeOK, Emit
<1>2. ASSUME NEW e \in Events, status[e] = "pending", MarkSent(e)
      PROVE  AbsentUntried' /\ GivesUpAtMaxAttempts'
  BY <1>2 DEF TypeOK, MarkSent
<1>3. ASSUME NEW e \in Events, status[e] = "pending", MarkFailed(e)
      PROVE  AbsentUntried' /\ GivesUpAtMaxAttempts'
  BY <1>3 DEF TypeOK, MarkFailed
<1>4. CASE UNCHANGED <<status, attempts>>
  BY <1>4
<1>5. \/ \E e \in Events : Emit(e)
      \/ \E e \in Events : /\ status[e] = "pending"
                           /\ MarkSent(e) \/ MarkFailed(e)
      \/ UNCHANGED <<status, attempts>>
  BY RowsChangeByMarks DEF rows
<1> QED
  BY <1>1, <1>2, <1>3, <1>4, <1>5

-----------------------------------------------------------------------------
(* What a request delivers is a plain order in turn, not delivered yet.     *)
LEMMA TakeIsOfPlain ==
    ASSUME TypeOK, Memory, NEW e \in Events, Take(e)
    PROVE  /\ Kind[e] = "plain" /\ IsLowest(e, todo) /\ pc \in {"drain", "post"}
           /\ card = {}
           /\ posted'[e] + carded'[e] = posted[e] + carded[e] + 1
           /\ \A f \in Events \ {e} : posted'[f] = posted[f] /\ carded'[f] = carded[f]
<1>1. Kind[e] = "plain" /\ IsLowest(e, todo) /\ pc \in {"drain", "post"}
  BY LowestIsUnique DEF TypeOK, Memory, Take, Carding, Posting, Draining
<1> QED
  BY <1>1 DEF TypeOK, Memory, Take

(* Deliveries are counted against what was recorded or lost.                *)
Ledger == Counted /\ InFlightDelivered /\ SentWasDelivered

LEMMA LedgerStep ==
    ASSUME TypeOK, Memory, MemoryFresh, Ledger, [Next]_vars, TypeOK'
    PROVE  Ledger'
<1> USE OutboxAssumption
    DEF Ledger, Counted, InFlightDelivered, SentWasDelivered, InFlight
<1>1. ASSUME NEW e \in Events, Emit(e) PROVE Ledger'
  BY <1>1 DEF TypeOK, Emit, deliveries, worker
<1>2. CASE Minute \/ UNCHANGED vars
  BY <1>2 DEF Minute, vars, rows, deliveries, worker
<1>3. CASE BeginDrain \/ SkipDrain \/ EndDrain \/ BeginInstant \/ SkipInstant
           \/ NothingToCard \/ EndCards
  BY <1>3 DEF Memory, BeginDrain, SkipDrain, EndDrain, BeginInstant, SkipInstant,
              NothingToCard, EndCards, rows, deliveries
<1>4. ASSUME NEW e \in Events, LeaveUrgent(e) \/ Post(e) \/ Refused(e) \/ LoadOrder(e)
      PROVE  Ledger'
  BY <1>4 DEF LeaveUrgent, Post, Refused, LoadOrder, Carding, Posting, Draining,
       Loading, rows,
              deliveries
<1>5. ASSUME NEW e \in Events, Deliver(e)
      PROVE  Ledger'
  BY <1>5, LowestIsUnique, TakeIsOfPlain
     DEF TypeOK, Deliver, MemoryFresh, IsLowest, rows
<1>6. ASSUME NEW e \in Events, AnswerLost(e)
      PROVE  Ledger'
  BY <1>6, TakeIsOfPlain DEF TypeOK, AnswerLost, MemoryFresh, IsLowest, rows
<1>7. ASSUME NEW e \in Events, MarkUndelivered(e)
      PROVE  Ledger'
  BY <1>7 DEF TypeOK, MarkUndelivered, MarkSent, Draining, deliveries
<1>8. ASSUME NEW e \in Events, Record(e)
      PROVE  Ledger'
  BY <1>8, LowestIsUnique
     DEF TypeOK, Memory, Record, MarkSent, MarkFailed, MemoryFresh, IsLowest,
         deliveries
<1>9. ASSUME NEW e \in Events, LoadFails(e)
      PROVE  Ledger'
  BY <1>9 DEF TypeOK, LoadFails, Loading, MarkFailed, MemoryFresh, IsLowest,
              deliveries
<1>10. ASSUME NEW e \in Events, MarkCard(e)
       PROVE  Ledger'
  BY <1>10 DEF TypeOK, Memory, MarkCard, MarkSent, MemoryFresh, IsLowest,
               deliveries
<1>11. CASE SendCard
  BY <1>11 DEF TypeOK, Memory, SendCard, ReadyToSend, Show, MemoryFresh, rows
<1>12. CASE CardRefused
  BY <1>12 DEF TypeOK, CardRefused, ReadyToSend, rows, deliveries
<1>13. CASE CardAnswerLost
  BY <1>13 DEF TypeOK, Memory, CardAnswerLost, ReadyToSend, Show, Lose, rows
<1>14. CASE Interrupt
  BY <1>14 DEF TypeOK, Interrupt, Lose, Unrecorded, rows
<1> QED
  BY <1>1, <1>2, <1>3, <1>4, <1>5, <1>6, <1>7, <1>8, <1>9, <1>10, <1>11,
     <1>12, <1>13, <1>14 DEF Next, WorkerStep, DrainStep, InstantStep

-----------------------------------------------------------------------------
THEOREM InvariantHolds == Spec => []IInv
<1> USE DEF IInv
<1>1. Init => IInv
  BY OutboxAssumption
     DEF Init, TypeOK, Memory, MemoryFresh, Counted, InFlightDelivered, InFlight,
         AbsentUntried, SentWasDelivered, GivesUpAtMaxAttempts
<1>2. IInv /\ [Next]_vars => IInv'
  BY TypeCorrectStep, MemoryStep, AttemptsStep, LedgerStep DEF Ledger
<1> QED
  BY <1>1, <1>2, PTL DEF Spec

(* Every variable keeps its type.                                           *)
THEOREM TypeCorrect == Spec => []TypeOK
BY InvariantHolds, PTL DEF IInv

(* drain_outbox and run_instant_batch mark a row sent only after the        *)
(* channel its kind calls for took it.                                      *)
THEOREM SentMeansDelivered == Spec => []SentWasDelivered
BY InvariantHolds, PTL DEF IInv

(* An event is delivered once, and once more for each of its deliveries     *)
(* that a crash, a lost answer or a failed statement left unrecorded.       *)
THEOREM DeliveredOnceUnlessLost == Spec => []RepeatsOnlyAfterLoss
<1>1. IInv => RepeatsOnlyAfterLoss
  <2> SUFFICES ASSUME IInv, NEW e \in Events
               PROVE  posted[e] + carded[e] <= 1 + lost[e]
    BY DEF RepeatsOnlyAfterLoss
  <2>1. posted[e] \in Nat /\ carded[e] \in Nat /\ lost[e] \in Nat
    BY DEF IInv, TypeOK
  <2>2. \/ posted[e] + carded[e] <= 1 + lost[e]
        \/ posted[e] + carded[e] = 1 + lost[e]
        \/ posted[e] + carded[e] = lost[e]
    BY DEF IInv, Counted
  <2> QED
    BY <2>1, <2>2
<1> QED
  BY InvariantHolds, <1>1, PTL

(* mark_outbox_failed gives a row up at exactly MaxAttempts attempts.       *)
THEOREM GivenUpInTime == Spec => []GivesUpAtMaxAttempts
BY InvariantHolds, PTL DEF IInv

(* Unconditional as they are, the marks never touch a settled row.          *)
THEOREM SettledStays == Spec => SettledForGood
<1>1. IInv /\ [Next]_vars =>
        [\A e \in Events : status[e] \in {"sent", "failed"} =>
            status'[e] = status[e] /\ attempts'[e] = attempts[e]]_vars
  <2> SUFFICES ASSUME IInv, [Next]_vars,
                      NEW e \in Events, status[e] \in {"sent", "failed"}
               PROVE  status'[e] = status[e] /\ attempts'[e] = attempts[e]
    OBVIOUS
  <2>1. ASSUME NEW f \in Events, Emit(f)
        PROVE  status'[e] = status[e] /\ attempts'[e] = attempts[e]
    BY <2>1 DEF IInv, TypeOK, Emit
  <2>2. ASSUME NEW f \in Events, status[f] = "pending",
               MarkSent(f) \/ MarkFailed(f)
        PROVE  status'[e] = status[e] /\ attempts'[e] = attempts[e]
    BY <2>2 DEF IInv, TypeOK, MarkSent, MarkFailed
  <2> QED
    BY <2>1, <2>2, RowsChangeByMarks DEF IInv
<1> QED
  BY InvariantHolds, <1>1, PTL DEF Spec, SettledForGood

(* Nothing goes out for a row that backs off or is settled.                 *)
THEOREM BackoffHolds == Spec => BackoffRespected
<1>1. IInv /\ [Next]_vars =>
        [\A e \in Events : posted'[e] # posted[e] \/ carded'[e] # carded[e] =>
            status[e] = "pending" /\ wait[e] = 0]_vars
  <2> SUFFICES ASSUME IInv, [Next]_vars, NEW e \in Events,
                      posted'[e] # posted[e] \/ carded'[e] # carded[e]
               PROVE  status[e] = "pending" /\ wait[e] = 0
    OBVIOUS
  <2>1. ASSUME NEW f \in Events, Deliver(f) \/ AnswerLost(f)
        PROVE  e \in todo
    BY <2>1 DEF IInv, TypeOK, Deliver, AnswerLost, Take, Carding, Posting, Draining, IsLowest
  <2>2. CASE SendCard \/ CardAnswerLost
    BY <2>2 DEF IInv, TypeOK, MemoryFresh, SendCard, CardAnswerLost, Show
  <2>3. CASE UNCHANGED <<posted, carded>>
    BY <2>3
  <2>4. \/ \E f \in Events : Deliver(f) \/ AnswerLost(f)
        \/ SendCard \/ CardAnswerLost
        \/ UNCHANGED <<posted, carded>>
    BY DEF Next, WorkerStep, DrainStep, InstantStep, Emit, Minute, BeginDrain,
           SkipDrain, EndDrain, LeaveUrgent, Post, MarkUndelivered, Refused, Record,
           BeginInstant, SkipInstant, LoadOrder, LoadFails, NothingToCard,
           CardRefused, MarkCard, EndCards, Interrupt, deliveries, vars
  <2> QED
    BY <2>1, <2>2, <2>3, <2>4 DEF IInv, MemoryFresh
<1> QED
  BY InvariantHolds, <1>1, PTL DEF Spec, BackoffRespected

-----------------------------------------------------------------------------
(* Refinement.                                                              *)

(* What is in flight, by where the loop is.                                 *)
LEMMA OpenIs ==
    ASSUME TypeOK, Memory
    PROVE  /\ pc \notin {"ok", "cards"} => Unrecorded = {}
           /\ pc = "cards" => Unrecorded = card
           /\ pc = "ok" => \A e \in Events : IsLowest(e, todo) => Unrecorded = {e}
           /\ \A e \in Events : e \in Unrecorded <=> InFlight(e)
<1>1. pc = "cards" => Unrecorded = card
  BY DEF TypeOK, Unrecorded
<1>2. pc = "ok" => \A e \in Events : IsLowest(e, todo) => Unrecorded = {e}
  BY LowestIsUnique DEF TypeOK, Unrecorded
<1> QED
  BY <1>1, <1>2 DEF Unrecorded, InFlight

(* Every row still pending and not in flight has been delivered as often as *)
(* its delivery was lost.                                                   *)
LEMMA WaitingIs ==
    ASSUME TypeOK, Memory, MemoryFresh, Counted, NEW e \in todo \cup card, ~InFlight(e)
    PROVE  e \in Account!Waiting /\ posted[e] + carded[e] = lost[e]
<1>1. e \in Events /\ status[e] = "pending"
  BY DEF TypeOK, MemoryFresh
<1>2. e \notin Unrecorded
  BY <1>1, OpenIs
<1> QED
  BY <1>1, <1>2 DEF Account!Waiting, Counted

Shown == [e \in Events |-> posted[e] + carded[e]]
Free == {e \in Events : \/ Kind[e] = "canceled"
                        \/ Kind[e] = "plain" /\ ~config.webhook /\ config.wazapin}
Accounts == <<status, attempts, Shown, lost, Unrecorded, Free>>

LEMMA TakeIsShown ==
    ASSUME TypeOK, NEW e \in Events, Take(e)
    PROVE  Shown' = Account!More(Shown, {e})
<1>1. posted \in [Events -> Nat] /\ carded \in [Events -> Nat]
  BY DEF TypeOK
<1>2. ASSUME NEW f \in Events
      PROVE  posted'[f] + carded'[f] = posted[f] + carded[f] + IF f \in {e} THEN 1 ELSE 0
  BY <1>1 DEF Take
<1> QED
  BY <1>2 DEF Shown, Account!More

LEMMA CardIsShown ==
    ASSUME TypeOK, Show, UNCHANGED posted
    PROVE  Shown' = Account!More(Shown, card)
<1>1. posted \in [Events -> Nat] /\ carded \in [Events -> Nat]
  BY DEF TypeOK
<1>2. ASSUME NEW f \in Events
      PROVE  posted'[f] + carded'[f] = posted[f] + carded[f] + IF f \in card THEN 1 ELSE 0
  BY <1>1 DEF Show
<1> QED
  BY <1>2 DEF Shown, Account!More

LEMMA StepImplementsDelivery ==
    ASSUME TypeOK, Memory, MemoryFresh, Counted, GivesUpAtMaxAttempts, [Next]_vars
    PROVE  Account!Next \/ UNCHANGED Accounts
<1> DEFINE Goal == Account!Next \/ UNCHANGED Accounts
<1> USE OutboxAssumption
<1>0. /\ UNCHANGED <<posted, carded>> => Shown' = Shown
      /\ UNCHANGED config => Free' = Free
      /\ UNCHANGED <<pc, todo, card>> => Unrecorded' = Unrecorded
      /\ pc' \notin {"ok", "cards"} => Unrecorded' = {}
  BY DEF Shown, Free, Unrecorded, IsLowest
<1>1. ASSUME NEW e \in Events, Emit(e) PROVE Goal
  <2>1. Account!Owe(e)
    BY <1>0, <1>1 DEF Emit, deliveries, worker, Account!Owe, Shown, Free
  <2> QED
    BY <2>1 DEF Account!Next
<1>2. CASE Minute \/ UNCHANGED vars
  BY <1>0, <1>2 DEF Minute, vars, rows, deliveries, worker, Accounts
<1>3. CASE BeginDrain \/ SkipDrain \/ EndDrain \/ BeginInstant \/ SkipInstant
           \/ NothingToCard \/ EndCards \/ CardRefused
  <2>1. Unrecorded = {} /\ Unrecorded' = {}
    BY <1>0, <1>3, OpenIs
       DEF BeginDrain, SkipDrain, EndDrain, BeginInstant, SkipInstant,
           NothingToCard, EndCards, CardRefused, ReadyToSend
  <2> QED
    BY <1>0, <1>3, <2>1
       DEF BeginDrain, SkipDrain, EndDrain, BeginInstant, SkipInstant,
           NothingToCard, EndCards, CardRefused, rows, deliveries, Accounts
<1>4. ASSUME NEW e \in Events, LeaveUrgent(e) \/ Post(e) \/ Refused(e) \/ LoadOrder(e)
      PROVE  Goal
  <2>1. Unrecorded = {} /\ Unrecorded' = {}
    BY <1>0, <1>4, OpenIs DEF LeaveUrgent, Post, Refused, LoadOrder, Carding, Posting, Draining,
       Loading
  <2> QED
    BY <1>0, <1>4, <2>1
       DEF LeaveUrgent, Post, Refused, LoadOrder, rows, deliveries, Accounts
<1>5. ASSUME NEW e \in Events, Deliver(e)
      PROVE  Goal
  <2>1. Unrecorded = {} /\ ~InFlight(e) /\ e \in todo
    BY <1>5, OpenIs DEF Deliver, Take, Carding, Posting, Draining, IsLowest
  <2>2. e \in Account!Waiting /\ posted[e] + carded[e] = lost[e]
    BY <2>1, WaitingIs
  <2>3. Unrecorded' = {e}
    BY <1>5, LowestIsUnique DEF TypeOK, Deliver, Take, Carding, Posting, Draining,
       Unrecorded, IsLowest
  <2>4. Shown' = Account!More(Shown, {e})
    BY <1>5, TakeIsShown DEF Deliver
  <2>5. Account!Show({e})
    BY <1>0, <1>5, <2>1, <2>2, <2>3, <2>4
       DEF Deliver, rows, Account!Show, Shown, Free
  <2> QED
    BY <2>2, <2>5 DEF Account!Next
<1>6. ASSUME NEW e \in Events, AnswerLost(e)
      PROVE  Goal
  <2>1. Unrecorded = {} /\ ~InFlight(e) /\ e \in todo /\ Unrecorded' = {}
    BY <1>0, <1>6, OpenIs DEF AnswerLost, Take, Carding, Posting, Draining, IsLowest
  <2>2. e \in Account!Waiting /\ posted[e] + carded[e] = lost[e]
    BY <2>1, WaitingIs
  <2>3. lost' = Account!More(lost, {e})
    <3>1. lost \in [Events -> Nat] /\ lost' = [lost EXCEPT ![e] = @ + 1]
      BY <1>6 DEF TypeOK, AnswerLost, Lose
    <3>2. lost' = [f \in Events |-> IF f = e THEN lost[f] + 1 ELSE lost[f]]
      BY <3>1
    <3>3. \A f \in Events : lost[f] + 0 = lost[f]
      BY <3>1
    <3> QED
      BY <3>2, <3>3 DEF Account!More
  <2>4. Shown' = Account!More(Shown, {e})
    BY <1>6, TakeIsShown DEF AnswerLost
  <2>5. Account!ShowInDoubt({e})
    BY <1>0, <1>6, <2>1, <2>2, <2>3, <2>4
       DEF AnswerLost, rows, Account!ShowInDoubt, Shown, Free
  <2> QED
    BY <2>2, <2>5 DEF Account!Next
<1>7. ASSUME NEW e \in Events, MarkUndelivered(e)
      PROVE  Goal
  <2>1. Unrecorded = {} /\ ~InFlight(e) /\ e \in todo /\ Unrecorded' = {}
    BY <1>0, <1>7, OpenIs DEF MarkUndelivered, Draining, IsLowest
  <2>2. e \in Account!Waiting
    BY <2>1, WaitingIs
  <2>3. e \in Free
    BY <1>7 DEF MarkUndelivered, Free
  <2>4. Account!Settle(e)
    BY <1>0, <1>7, <2>1, <2>2, <2>3
       DEF MarkUndelivered, MarkSent, deliveries, Account!Settle, Shown, Free
  <2> QED
    BY <2>4 DEF Account!Next
<1>8. ASSUME NEW e \in Events, NEW n, n = attempts[e] + 1, status[e] = "pending"
      PROVE  (IF n >= MaxAttempts THEN "failed" ELSE "pending")
               = IF n = MaxAttempts THEN "failed" ELSE status[e]
  <2>1. attempts[e] \in Nat /\ attempts[e] < MaxAttempts /\ MaxAttempts \in Nat
    BY <1>8 DEF TypeOK, GivesUpAtMaxAttempts
  <2> QED
    BY <1>8, <2>1
<1>9. ASSUME NEW e \in todo, e \in Events, MarkFailed(e), Unrecorded = {},
             Unrecorded' = {}, UNCHANGED <<deliveries, config>>
      PROVE  Goal
  <2>1. ~InFlight(e)
    BY <1>9, OpenIs
  <2>2. e \in Account!Waiting /\ status[e] = "pending"
    BY <2>1, WaitingIs DEF MemoryFresh
  <2>3. status' = [status EXCEPT ![e] = IF attempts[e] + 1 = MaxAttempts
                                        THEN "failed" ELSE status[e]]
    BY <1>8, <1>9, <2>2 DEF MarkFailed
  <2>4. attempts' = [attempts EXCEPT ![e] = attempts[e] + 1]
    BY <1>9 DEF MarkFailed
  <2>5. Account!Fail(e)
    BY <1>0, <1>9, <2>2, <2>3, <2>4 DEF deliveries, Account!Fail, Shown, Free
  <2> QED
    BY <1>9, <2>5 DEF Account!Next
<1>10. ASSUME NEW e \in Events, Record(e)
       PROVE  Goal
  <2>1. Unrecorded' = {} /\ e \in todo /\ UNCHANGED <<deliveries, config>>
    BY <1>0, <1>10 DEF Record, IsLowest
  <2>2. CASE pc = "ok"
    <3>1. Unrecorded = {e}
      BY <1>10, <2>2, OpenIs DEF Record
    <3>2. Account!Settle(e)
      BY <1>0, <1>10, <2>1, <2>2, <3>1
         DEF Record, MarkSent, deliveries, Account!Settle, Shown, Free
    <3> QED
      BY <3>2 DEF Account!Next
  <2>3. CASE pc = "err"
    <3>1. Unrecorded = {} /\ MarkFailed(e)
      BY <1>10, <2>3, OpenIs DEF Record
    <3> QED
      BY <1>9, <2>1, <3>1
  <2> QED
    BY <1>10, <2>2, <2>3 DEF Record
<1>11. ASSUME NEW e \in Events, LoadFails(e)
       PROVE  Goal
  <2>1. /\ Unrecorded = {} /\ Unrecorded' = {} /\ e \in todo /\ MarkFailed(e)
        /\ UNCHANGED <<deliveries, config>>
    BY <1>0, <1>11, OpenIs DEF LoadFails, Loading, IsLowest
  <2> QED
    BY <1>9, <2>1
<1>12. ASSUME NEW e \in Events, MarkCard(e)
       PROVE  Goal
  <2>1. Unrecorded = card /\ e \in card
    BY <1>12, OpenIs DEF MarkCard, IsLowest
  <2>2. Unrecorded' = card \ {e}
    BY <1>12 DEF TypeOK, MarkCard, Unrecorded
  <2>3. Account!Settle(e)
    BY <1>0, <1>12, <2>1, <2>2
       DEF MarkCard, MarkSent, deliveries, Account!Settle, Shown, Free
  <2> QED
    BY <2>3 DEF Account!Next
<1>13. ASSUME ReadyToSend
       PROVE  /\ Unrecorded = {} /\ card \in SUBSET Account!Waiting
              /\ \A e \in card : e \in Events /\ posted[e] + carded[e] = lost[e]
  <2>1. Unrecorded = {}
    BY <1>13, OpenIs DEF ReadyToSend
  <2>2. \A e \in card : e \in Events /\ ~InFlight(e)
    BY <2>1, OpenIs DEF TypeOK
  <2> QED
    BY <2>1, <2>2, WaitingIs
<1>14. CASE SendCard
  <2>1. Unrecorded' = card
    BY <1>14 DEF TypeOK, SendCard, Unrecorded
  <2>2. Shown' = Account!More(Shown, card)
    BY <1>14, CardIsShown DEF SendCard
  <2>3. Account!Show(card)
    BY <1>0, <1>13, <1>14, <2>1, <2>2
       DEF SendCard, rows, Account!Show, Shown, Free
  <2>4. card \in SUBSET Account!Waiting
    BY <1>13, <1>14 DEF SendCard
  <2> QED
    BY <2>3, <2>4 DEF Account!Next, Account!Show
<1>15. CASE CardAnswerLost
  <2>1. Unrecorded' = {}
    BY <1>0, <1>15 DEF CardAnswerLost
  <2>2. Shown' = Account!More(Shown, card)
    BY <1>15, CardIsShown DEF CardAnswerLost
  <2>3. lost' = Account!More(lost, card)
    BY <1>15 DEF CardAnswerLost, Lose, Account!More
  <2>4. Account!ShowInDoubt(card)
    BY <1>0, <1>13, <1>15, <2>1, <2>2, <2>3
       DEF CardAnswerLost, rows, Account!ShowInDoubt, Shown, Free
  <2>5. card \in SUBSET Account!Waiting
    BY <1>13, <1>15 DEF CardAnswerLost
  <2> QED
    BY <2>4, <2>5 DEF Account!Next, Account!ShowInDoubt
<1>16. CASE Interrupt
  <2>1. Unrecorded' = {} /\ lost' = Account!More(lost, Unrecorded)
    BY <1>0, <1>16 DEF Interrupt, Lose, Account!More
  <2>2. CASE Unrecorded = {}
    <3>1. lost' = lost
      BY <2>1, <2>2 DEF TypeOK, Account!More
    <3> QED
      BY <1>0, <1>16, <2>1, <2>2, <3>1 DEF Interrupt, rows, Accounts
  <2>3. CASE Unrecorded # {}
    <3>1. Account!Forget
      BY <1>0, <1>16, <2>1, <2>3
         DEF Interrupt, rows, Account!Forget, Shown, Free
    <3> QED
      BY <3>1 DEF Account!Next
  <2> QED
    BY <2>2, <2>3
<1> QED
  BY <1>1, <1>2, <1>3, <1>4, <1>5, <1>6, <1>7, <1>10, <1>11, <1>12, <1>14,
     <1>15, <1>16 DEF Next, WorkerStep, DrainStep, InstantStep

(* The worker keeps the promise of Delivery: it delivers every event once,  *)
(* and again only when a delivery is in doubt, gives up after MaxAttempts,  *)
(* and leaves alone what is settled.                                        *)
THEOREM OutboxImplementsDelivery == Spec => ImplementsDelivery
<1>1. Init => Account!Init
  BY OutboxAssumption DEF Init, Account!Init, Unrecorded
<1>2. IInv /\ [Next]_vars => [Account!Next]_(Account!vars)
  BY StepImplementsDelivery DEF IInv, Accounts, Shown, Free, Account!vars
<1> QED
  BY <1>1, <1>2, InvariantHolds, PTL DEF Spec, ImplementsDelivery, Account!Spec
=============================================================================
