--------------------------- MODULE WorkdayProofs ---------------------------
(***************************************************************************)
(* Theorems of Workday: for any orders, hours, days and number of faults,  *)
(* a pick list is mailed at most once, and a card is repeated for a day    *)
(* only after a lost answer or a restart of that day.                      *)
(***************************************************************************)
EXTENDS Workday, TLAPS

(* The turn never runs ahead of the clock, nor a guard ahead of the turn.   *)
GuardsBehind ==
    /\ yday <= day
    /\ \A j \in Jobs : ran[j] # None => ran[j] <= yday

(* What is in hand: a card not sent today, or a batch not mailed.           *)
InHand ==
    /\ pc = "send" => job \in CardJobs /\ ran[job] # yday
    /\ pc \in {"render", "mail"} =>
           \A o \in batch : taker[o] # None /\ mails[o] = 0

MailedWasTaken ==
    \A o \in Orders : mails[o] # 0 => taker[o] # None

(* The tick of day d is under way, or may still begin.                      *)
Open(d) ==
    \/ d >= day
    \/ d = yday /\ pc \in {"due", "render", "mail", "send", "finish"}

(* The process knows that it sent the card of day d.                        *)
Known(j, d) ==
    \/ ran[j] = d
    \/ Running(j, "finish") /\ yday = d

(* A card of an open day not known to be sent was only sent in vain.        *)
SentInVain ==
    \A j \in CardJobs, d \in Days :
        Open(d) /\ ~Known(j, d) => sends[j][d] <= lost[j][d] + restarts[d]

IInv ==
    /\ TypeOK
    /\ GuardsBehind
    /\ InHand
    /\ MailedWasTaken
    /\ PickListMailedOnce
    /\ SentInVain
    /\ RepeatsOnlyAfterRestart

-----------------------------------------------------------------------------
LEMMA DaysAreNat == Days \subseteq Nat /\ None \notin Days
BY WorkdayAssumption DEF Days

(* After a job the tick goes to the next one, or to the evening.            *)
LEMMA NextJobTyped ==
    ASSUME TypeOK, NextJob
    PROVE  /\ pc' \in {"due", "evening"}
           /\ job' \in Jobs
           /\ batch' = {}
           /\ yday' = yday
BY DEF TypeOK, NextJob, After, Jobs, BatchJobs, CardJobs

LEMMA SucceedTyped ==
    ASSUME TypeOK, Succeed
    PROVE  ran' \in [Jobs -> Days \cup {None}] /\ NextJob
BY DEF TypeOK, Succeed

LEMMA RefreshTyped ==
    ASSUME TypeOK, NEW S \in SUBSET Placed, Refresh(S)
    PROVE  store' \in [Orders -> {"absent", "new", "canceled"}]
BY DEF TypeOK, Refresh, Placed

LEMMA MailTyped ==
    ASSUME TypeOK, Mail
    PROVE  mails' \in [Orders -> Nat]
BY DEF TypeOK, Mail

(* One more delivery of the card in hand, for the day of the turn.          *)
LEMMA CountsOne ==
    ASSUME NEW f \in [CardJobs -> [Days -> Nat]], NEW k \in CardJobs,
           NEW e \in Days,
           NEW g, g = [f EXCEPT ![k] = [f[k] EXCEPT ![e] = f[k][e] + 1]]
    PROVE  /\ g \in [CardJobs -> [Days -> Nat]]
           /\ g[k][e] = f[k][e] + 1
           /\ \A j \in CardJobs, d \in Days :
                  j # k \/ d # e => g[j][d] = f[j][d]
<1> DEFINE row == [f[k] EXCEPT ![e] = f[k][e] + 1]
<1>1. row \in [Days -> Nat] /\ row[e] = f[k][e] + 1
  OBVIOUS
<1>2. \A d \in Days : d # e => row[d] = f[k][d]
  OBVIOUS
<1> HIDE DEF row
<1>3. g = [f EXCEPT ![k] = row]
  BY DEF row
<1> QED
  <2>1. g \in [CardJobs -> [Days -> Nat]]
    BY <1>1, <1>3
  <2>2. g[k] = row
    BY <1>3
  <2>3. ASSUME NEW j \in CardJobs, NEW d \in Days, j # k \/ d # e
        PROVE  g[j][d] = f[j][d]
    <3>1. CASE j # k
      BY <1>3, <3>1
    <3>2. CASE j = k
      BY <2>2, <2>3, <3>2, <1>2
    <3> QED
      BY <3>1, <3>2
  <2> QED
    BY <2>1, <2>2, <2>3, <1>1

LEMMA TypeCorrectStep ==
    ASSUME TypeOK, [Next]_vars, pc = "send" => job \in CardJobs
    PROVE  TypeOK'
<1> USE WorkdayAssumption
<1>1. CASE Clock
  <2>1. day' \in Days /\ slot' \in Slots
    BY <1>1 DEF TypeOK, Clock, Days, Slots
  <2> QED
    BY <1>1, <2>1 DEF TypeOK, Clock, bigseller, outside, memory, turn
<1>2. ASSUME NEW o \in Orders, Place(o) \/ Cancel(o) PROVE TypeOK'
  BY <1>2 DEF TypeOK, Place, Cancel, clock, outside, memory, turn
<1>3. ASSUME NEW o \in Orders, ApiRefresh(o) PROVE TypeOK'
  BY <1>3, RefreshTyped DEF TypeOK, ApiRefresh, clock, bigseller, outside,
     memory, turn
<1>4. ASSUME NEW S \in SUBSET Orders, ApiBatch(S) PROVE TypeOK'
  BY <1>4 DEF TypeOK, ApiBatch, clock, bigseller, outside, memory, turn
<1>5. CASE Wake
  BY <1>5 DEF TypeOK, Wake, BeginJobs, Jobs, BatchJobs, clock, bigseller,
     outside, memory
<1>6. ASSUME NEW S \in SUBSET Placed, Sync(S) \/ Drained PROVE TypeOK'
  BY <1>6, RefreshTyped DEF TypeOK, Sync, Drained, BeginJobs, Jobs, BatchJobs,
     clock, bigseller, outside, memory
<1>7. CASE SkipJob \/ JobFails \/ BatchFails \/ CardRefused
  BY <1>7, NextJobTyped DEF TypeOK, SkipJob, JobFails, BatchFails, CardRefused,
     clock, bigseller, outside, memory
<1>8. ASSUME NEW j, Finish \/ NoBacklog(j) \/ NothingToCard PROVE TypeOK'
  BY <1>8, SucceedTyped, NextJobTyped DEF TypeOK, Finish, NoBacklog,
     NothingToCard, clock, bigseller, outside
<1>9. ASSUME NEW j \in BatchJobs, NEW S \in SUBSET Orders, TakeBatch(j, S)
      PROVE  TypeOK'
  BY <1>9 DEF TypeOK, TakeBatch, clock, bigseller, outside, memory
<1>10. CASE Render \/ BeginRekap \/ ListCancels
  BY <1>10 DEF TypeOK, Render, BeginRekap, ListCancels, CanceledToday, clock,
     bigseller, outside, memory
<1>11. CASE SendMail
  BY <1>11, MailTyped DEF TypeOK, SendMail, clock, bigseller, memory
<1>12. CASE MailAnswerLost
  BY <1>12, MailTyped, NextJobTyped DEF TypeOK, MailAnswerLost, clock,
     bigseller, memory
<1>13. ASSUME NEW j \in CardJobs, SendCard(j) PROVE TypeOK'
  <2>1. sends' \in [CardJobs -> [Days -> Nat]]
    BY <1>13, CountsOne DEF TypeOK, SendCard, Running, Show
  <2> QED
    BY <1>13, <2>1 DEF TypeOK, SendCard, clock, bigseller, memory
<1>14. CASE CardAnswerLost
  <2>1. /\ sends' \in [CardJobs -> [Days -> Nat]]
        /\ lost' \in [CardJobs -> [Days -> Nat]]
    BY <1>14, CountsOne DEF TypeOK, CardAnswerLost, Show
  <2> QED
    BY <1>14, <2>1, NextJobTyped DEF TypeOK, CardAnswerLost, clock, bigseller,
       memory
<1>15. ASSUME NEW S \in SUBSET Orders, EveningSync(S) PROVE TypeOK'
  <2>1. S \subseteq Placed
    BY <1>15 DEF EveningSync, Placed
  <2> QED
    BY <1>15, <2>1, RefreshTyped DEF TypeOK, EveningSync, clock, bigseller,
       outside
<1>16. CASE SkipEvening
  BY <1>16 DEF TypeOK, SkipEvening, clock, bigseller, outside, memory
<1>17. CASE Restart
  BY <1>17 DEF TypeOK, Restart, clock, bigseller, outside, Jobs, BatchJobs
<1>18. CASE UNCHANGED vars
  BY <1>18 DEF TypeOK, vars, clock, bigseller, outside, memory, turn
<1> QED
  BY <1>1, <1>2, <1>3, <1>4, <1>5, <1>6, <1>7, <1>8, <1>9, <1>10, <1>11,
     <1>12, <1>13, <1>14, <1>15, <1>16, <1>17, <1>18
  DEF Next, Beside, WorkerStep, JobStep, Begin, SyncToday

-----------------------------------------------------------------------------
(* What a step may change, action by action, as the invariants see it.      *)

LEMMA GuardsStep ==
    ASSUME IInv, TypeOK', [Next]_vars
    PROVE  GuardsBehind'
<1> USE DaysAreNat DEF IInv, TypeOK, GuardsBehind
<1>1. CASE Clock
  <2>1. UNCHANGED <<yday, ran>> /\ (day' = day + 1 \/ day' = day)
    BY <1>1 DEF Clock, memory, turn
  <2>2. yday \in Nat /\ day \in Nat /\ yday <= day
    OBVIOUS
  <2>3. yday' <= day'
    BY <2>1, <2>2
  <2> QED
    BY <2>1, <2>3
<1>2. ASSUME NEW o, Place(o) \/ Cancel(o) \/ ApiRefresh(o) PROVE GuardsBehind'
  BY <1>2 DEF Place, Cancel, ApiRefresh, clock, memory, turn
<1>3. ASSUME NEW S, ApiBatch(S) PROVE GuardsBehind'
  BY <1>3 DEF ApiBatch, clock, memory, turn
<1>4. ASSUME NEW S, Wake \/ Sync(S) \/ Drained PROVE GuardsBehind'
  <2>1. yday' \in {yday, day} /\ UNCHANGED <<day, ran>>
    BY <1>4 DEF Wake, Sync, Drained, BeginJobs, clock, memory
  <2>2. ASSUME NEW k \in Jobs, ran[k] # None PROVE ran[k] <= day /\ ran[k] <= yday
    <3>1. ran[k] \in Nat /\ yday \in Nat /\ day \in Nat
      BY <2>2
    <3> QED
      BY <2>2, <3>1
  <2> QED
    BY <2>1, <2>2
<1>5. CASE SkipJob \/ JobFails \/ BatchFails \/ MailAnswerLost
           \/ CardAnswerLost \/ CardRefused
  BY <1>5, NextJobTyped DEF SkipJob, JobFails, BatchFails, MailAnswerLost,
     CardAnswerLost, CardRefused, clock, memory
<1>6. ASSUME NEW j, Finish \/ NoBacklog(j) \/ NothingToCard
      PROVE  GuardsBehind'
  <2>1. Succeed /\ UNCHANGED day
    BY <1>6 DEF Finish, NoBacklog, NothingToCard, clock
  <2>2. yday' = yday
    BY <2>1, NextJobTyped DEF Succeed
  <2> QED
    BY <2>1, <2>2 DEF Succeed
<1>7. ASSUME NEW j, NEW S, TakeBatch(j, S) PROVE GuardsBehind'
  BY <1>7 DEF TakeBatch, clock, memory
<1>8. ASSUME NEW j, Render \/ SendMail \/ BeginRekap \/ ListCancels
                    \/ SendCard(j) \/ SkipEvening
      PROVE  GuardsBehind'
  BY <1>8 DEF Render, SendMail, BeginRekap, ListCancels, SendCard, SkipEvening,
     clock, memory
<1>9. ASSUME NEW S, EveningSync(S) PROVE GuardsBehind'
  BY <1>9 DEF EveningSync, clock
<1>10. CASE Restart
  BY <1>10 DEF Restart, clock
<1>11. CASE UNCHANGED vars
  BY <1>11 DEF vars, clock, memory, turn
<1> QED
  BY <1>1, <1>2, <1>3, <1>4, <1>5, <1>6, <1>7, <1>8, <1>9, <1>10, <1>11
  DEF Next, Beside, WorkerStep, JobStep, Begin, SyncToday

(* Mailing touches the orders of the batch in hand only, once.              *)
MailParts == InHand /\ MailedWasTaken /\ PickListMailedOnce

LEMMA MailStep ==
    ASSUME IInv, TypeOK', [Next]_vars
    PROVE  MailParts'
<1> USE WorkdayAssumption
    DEF IInv, TypeOK, InHand, MailedWasTaken, PickListMailedOnce, MailParts
<1>1. CASE Clock
  BY <1>1 DEF Clock, outside, memory, turn
<1>2. ASSUME NEW o, Place(o) \/ Cancel(o) \/ ApiRefresh(o) PROVE MailParts'
  BY <1>2 DEF Place, Cancel, ApiRefresh, outside, memory, turn
<1>3. ASSUME NEW S, ApiBatch(S) PROVE MailParts'
  BY <1>3 DEF ApiBatch, Backlog, outside, memory, turn
<1>4. ASSUME NEW S, Wake \/ Sync(S) \/ Drained PROVE MailParts'
  BY <1>4 DEF Wake, Sync, Drained, BeginJobs, outside, memory
<1>5. CASE SkipJob \/ JobFails \/ BatchFails \/ CardRefused
  BY <1>5, NextJobTyped DEF SkipJob, JobFails, BatchFails, CardRefused, outside
<1>6. ASSUME NEW j, Finish \/ NoBacklog(j) \/ NothingToCard PROVE MailParts'
  BY <1>6, SucceedTyped, NextJobTyped DEF Finish, NoBacklog, NothingToCard,
     outside
<1>7. ASSUME NEW j \in BatchJobs, NEW S, TakeBatch(j, S) PROVE MailParts'
  BY <1>7 DEF TakeBatch, Backlog, Jobs, outside
<1>8. CASE Render
  BY <1>8 DEF Render, outside
<1>9. CASE BeginRekap \/ ListCancels
  BY <1>9 DEF BeginRekap, ListCancels, Running, Due, CardJobs, outside, memory
<1>10. CASE SendMail
  BY <1>10 DEF SendMail, Mail
<1>11. CASE MailAnswerLost
  BY <1>11, NextJobTyped DEF MailAnswerLost, Mail
<1>12. ASSUME NEW j, SendCard(j) PROVE MailParts'
  BY <1>12 DEF SendCard
<1>13. CASE CardAnswerLost
  BY <1>13, NextJobTyped DEF CardAnswerLost
<1>14. ASSUME NEW S, EveningSync(S) \/ SkipEvening PROVE MailParts'
  BY <1>14 DEF EveningSync, SkipEvening, outside
<1>15. CASE Restart
  BY <1>15 DEF Restart, outside
<1>16. CASE UNCHANGED vars
  BY <1>16 DEF vars, outside, memory, turn
<1> QED
  BY <1>1, <1>2, <1>3, <1>4, <1>5, <1>6, <1>7, <1>8, <1>9, <1>10, <1>11,
     <1>12, <1>13, <1>14, <1>15, <1>16
  DEF Next, Beside, WorkerStep, JobStep, Begin, SyncToday

-----------------------------------------------------------------------------
(* The cards that were sent.                                                *)
CardParts == SentInVain /\ RepeatsOnlyAfterRestart

(* A step that sends no card, forgets no guard and opens no day.            *)
LEMMA QuietStep ==
    ASSUME IInv, UNCHANGED <<sends, lost, restarts>>,
           \A d \in Days : Open(d)' => Open(d),
           \A j \in CardJobs, d \in Days : Open(d)' /\ Known(j, d) => Known(j, d)'
    PROVE  CardParts'
BY DEF IInv, CardParts, SentInVain, RepeatsOnlyAfterRestart

(* The job in hand succeeds: its guard moves from an older day to the day   *)
(* of the turn, and the older day is closed.                                *)
LEMMA SucceedStep ==
    ASSUME IInv, Succeed, UNCHANGED <<day, sends, lost, restarts>>,
           pc \in {"due", "finish"}
    PROVE  CardParts'
<1> USE DaysAreNat DEF IInv, TypeOK
<1>1. /\ pc' \in {"due", "evening"} /\ yday' = yday
      /\ ran' = [ran EXCEPT ![job] = yday]
  BY NextJobTyped DEF Succeed
<1>2. \A d \in Days : Open(d)' => Open(d)
  BY <1>1 DEF Open
<1>3. ASSUME NEW j \in CardJobs, NEW d \in Days, Open(d)', Known(j, d)
      PROVE  Known(j, d)'
  <2>1. j \in Jobs /\ d \in Nat /\ yday \in Nat /\ day \in Nat
    BY DEF Jobs
  <2>2. d >= yday
    BY <1>1, <1>3, <2>1 DEF Open, GuardsBehind
  <2>3. CASE ran[j] = d
    <3>0. j \in Jobs /\ ran[j] # None
      BY <2>1, <2>3
    <3>1. d <= yday
      <4>1. ran[j] <= yday
        BY <3>0 DEF GuardsBehind
      <4> QED
        BY <4>1, <2>3
    <3>2. d = yday
      <4>1. \A m, n \in Nat : m >= n /\ m <= n => m = n
        OBVIOUS
      <4> QED
        BY <2>1, <2>2, <3>1, <4>1
    <3> QED
      BY <1>1, <2>1, <2>3, <3>2 DEF Known
  <2>4. CASE Running(j, "finish") /\ yday = d
    BY <1>1, <2>1, <2>4 DEF Known, Running
  <2> QED
    BY <1>3, <2>3, <2>4 DEF Known
<1> QED
  BY <1>2, <1>3, QuietStep

(* The card goes out: not known to be sent before, known after.             *)
LEMMA SendStep ==
    ASSUME IInv, NEW j \in CardJobs, SendCard(j)
    PROVE  CardParts'
<1> USE DaysAreNat DEF IInv, TypeOK
<1>1. /\ job = j /\ pc = "send" /\ pc' = "finish" /\ ran[j] # yday
      /\ UNCHANGED <<day, job, yday, ran, lost, restarts>>
  BY DEF SendCard, Running, InHand, clock, memory
<1>2. /\ sends'[j][yday] = sends[j][yday] + 1
      /\ \A k \in CardJobs, d \in Days :
             k # j \/ d # yday => sends'[k][d] = sends[k][d]
  <2>1. sends' = [sends EXCEPT ![j] = [sends[j] EXCEPT ![yday] = sends[j][yday] + 1]]
    BY <1>1 DEF SendCard, Show
  <2> QED
    BY <2>1, CountsOne
<1>3. sends[j][yday] <= lost[j][yday] + restarts[yday]
  BY <1>1 DEF SentInVain, Open, Known, Running
<1>4. ASSUME NEW k \in CardJobs, NEW d \in Days
      PROVE  /\ sends'[k][d] <= 1 + lost'[k][d] + restarts'[d]
             /\ Open(d)' /\ ~Known(k, d)' =>
                    sends'[k][d] <= lost'[k][d] + restarts'[d]
  <2>1. /\ sends[k][d] \in Nat /\ lost[k][d] \in Nat /\ restarts[d] \in Nat
        /\ sends[k][d] <= 1 + lost[k][d] + restarts[d]
    BY DEF RepeatsOnlyAfterRestart
  <2>2. CASE k = j /\ d = yday
    <3>1. Known(k, d)'
      BY <1>1, <2>2 DEF Known, Running
    <3>2. sends'[k][d] <= 1 + lost'[k][d] + restarts'[d]
      BY <1>1, <1>2, <1>3, <2>1, <2>2
    <3> QED
      BY <3>1, <3>2
  <2>3. CASE k # j \/ d # yday
    <3>1. sends'[k][d] = sends[k][d]
      BY <1>2, <2>3
    <3>2. Open(d)' => Open(d)
      BY <1>1 DEF Open
    <3>3. Known(k, d) => Known(k, d)'
      BY <1>1 DEF Known, Running
    <3> QED
      BY <1>1, <2>1, <3>1, <3>2, <3>3 DEF SentInVain
  <2> QED
    BY <2>2, <2>3
<1> QED
  BY <1>4 DEF CardParts, SentInVain, RepeatsOnlyAfterRestart

(* The card goes out and its answer is lost: both are counted.              *)
LEMMA LostStep ==
    ASSUME IInv, CardAnswerLost
    PROVE  CardParts'
<1> USE DaysAreNat DEF IInv, TypeOK
<1>1. /\ job \in CardJobs /\ pc = "send" /\ pc' \in {"due", "evening"}
      /\ UNCHANGED <<day, yday, ran, restarts>>
  BY NextJobTyped DEF CardAnswerLost, InHand, clock, memory
<1>2. /\ sends'[job][yday] = sends[job][yday] + 1
      /\ \A k \in CardJobs, d \in Days :
             k # job \/ d # yday => sends'[k][d] = sends[k][d]
  BY <1>1, CountsOne DEF CardAnswerLost, Show
<1>3. /\ lost'[job][yday] = lost[job][yday] + 1
      /\ \A k \in CardJobs, d \in Days :
             k # job \/ d # yday => lost'[k][d] = lost[k][d]
  BY <1>1, CountsOne DEF CardAnswerLost
<1>4. ASSUME NEW k \in CardJobs, NEW d \in Days
      PROVE  /\ sends'[k][d] <= 1 + lost'[k][d] + restarts'[d]
             /\ Open(d)' /\ ~Known(k, d)' =>
                    sends'[k][d] <= lost'[k][d] + restarts'[d]
  <2>1. /\ sends[k][d] \in Nat /\ lost[k][d] \in Nat /\ restarts[d] \in Nat
        /\ sends[k][d] <= 1 + lost[k][d] + restarts[d]
    BY DEF RepeatsOnlyAfterRestart
  <2>2. Open(d)' => Open(d)
    BY <1>1 DEF Open
  <2>3. Known(k, d) => Known(k, d)'
    BY <1>1 DEF Known, Running
  <2>4. Open(d) /\ ~Known(k, d) => sends[k][d] <= lost[k][d] + restarts[d]
    BY DEF SentInVain
  <2>5. CASE k = job /\ d = yday
    BY <1>1, <1>2, <1>3, <2>1, <2>2, <2>3, <2>4, <2>5
  <2>6. CASE k # job \/ d # yday
    BY <1>1, <1>2, <1>3, <2>1, <2>2, <2>3, <2>4, <2>6
  <2> QED
    BY <2>5, <2>6
<1> QED
  BY <1>4 DEF CardParts, SentInVain, RepeatsOnlyAfterRestart

(* A restart forgets what was sent today, and is counted for today.         *)
LEMMA RestartStep ==
    ASSUME IInv, Restart
    PROVE  CardParts'
<1> USE DaysAreNat DEF IInv, TypeOK
<1>1. /\ pc' = "sleep" /\ UNCHANGED <<day, yday, sends, lost>>
      /\ restarts'[day] = restarts[day] + 1
      /\ \A d \in Days : d # day => restarts'[d] = restarts[d]
  BY DEF Restart, clock, outside
<1>2. ASSUME NEW k \in CardJobs, NEW d \in Days
      PROVE  /\ sends'[k][d] <= 1 + lost'[k][d] + restarts'[d]
             /\ Open(d)' /\ ~Known(k, d)' =>
                    sends'[k][d] <= lost'[k][d] + restarts'[d]
  <2>1. /\ sends[k][d] \in Nat /\ lost[k][d] \in Nat /\ restarts[d] \in Nat
        /\ d \in Nat /\ day \in Nat /\ yday \in Nat
        /\ sends[k][d] <= 1 + lost[k][d] + restarts[d]
    BY DEF RepeatsOnlyAfterRestart
  <2>2. CASE d = day
    BY <1>1, <2>1, <2>2
  <2>3. CASE d > day
    <3>1. Open(d) /\ ~Known(k, d)
      BY <2>1, <2>3 DEF Open, Known, GuardsBehind, Jobs
    <3> QED
      BY <1>1, <2>1, <2>3, <3>1 DEF SentInVain
  <2>4. CASE d < day
    <3>1. ~Open(d)'
      BY <1>1, <2>1, <2>4 DEF Open
    <3> QED
      BY <1>1, <2>1, <2>4, <3>1
  <2> QED
    BY <2>1, <2>2, <2>3, <2>4
<1> QED
  BY <1>2 DEF CardParts, SentInVain, RepeatsOnlyAfterRestart

LEMMA CardStep ==
    ASSUME IInv, TypeOK', [Next]_vars
    PROVE  CardParts'
<1> USE DaysAreNat DEF IInv, TypeOK
<1>1. CASE Clock
  <2>1. day' >= day
    BY <1>1 DEF Clock
  <2>2. \A d \in Days : Open(d)' => Open(d)
    BY <1>1, <2>1 DEF Clock, Open, turn
  <2> QED
    BY <1>1, <2>2, QuietStep DEF Clock, Known, Running, outside, memory, turn
<1>2. ASSUME NEW o, Place(o) \/ Cancel(o) \/ ApiRefresh(o) PROVE CardParts'
  BY <1>2, QuietStep DEF Place, Cancel, ApiRefresh, Open, Known, Running,
     clock, outside, memory, turn
<1>3. ASSUME NEW S, ApiBatch(S) PROVE CardParts'
  BY <1>3, QuietStep DEF ApiBatch, Open, Known, Running, clock, outside,
     memory, turn
<1>4. ASSUME NEW S, Wake \/ Sync(S) \/ Drained PROVE CardParts'
  BY <1>4, QuietStep DEF Wake, Sync, Drained, BeginJobs, Open, Known, Running, clock,
     outside, memory
<1>5. CASE SkipJob \/ JobFails \/ BatchFails \/ CardRefused
  BY <1>5, QuietStep, NextJobTyped DEF SkipJob, JobFails, BatchFails,
     CardRefused, Open, Known, Running, clock, outside, memory
<1>6. CASE MailAnswerLost
  BY <1>6, QuietStep, NextJobTyped DEF MailAnswerLost, Open, Known, Running,
     clock, memory
<1>7. ASSUME NEW j, Finish \/ NoBacklog(j) \/ NothingToCard PROVE CardParts'
  BY <1>7, SucceedStep DEF Finish, NoBacklog, NothingToCard, Running, clock,
     outside
<1>8. ASSUME NEW j, NEW S, TakeBatch(j, S) PROVE CardParts'
  BY <1>8, QuietStep DEF TakeBatch, Open, Known, Running, clock, outside, memory
<1>9. CASE Render \/ SendMail \/ BeginRekap \/ ListCancels
  BY <1>9, QuietStep DEF Render, SendMail, BeginRekap, ListCancels, Open, Known,
     Running, clock, outside, memory
<1>10. ASSUME NEW S, EveningSync(S) \/ SkipEvening PROVE CardParts'
  BY <1>10, QuietStep DEF EveningSync, SkipEvening, Open, Known, Running, clock,
     outside, memory
<1>11. CASE UNCHANGED vars
  BY <1>11, QuietStep DEF vars, Open, Known, Running, clock, outside, memory,
     turn
<1> QED
  BY <1>1, <1>2, <1>3, <1>4, <1>5, <1>6, <1>7, <1>8, <1>9, <1>10, <1>11,
     SendStep, LostStep, RestartStep
  DEF Next, Beside, WorkerStep, JobStep, Begin, SyncToday

-----------------------------------------------------------------------------
LEMMA InitIInv == Init => IInv
<1> SUFFICES ASSUME Init PROVE IInv
  OBVIOUS
<1> USE WorkdayAssumption DEF Init
<1>1. TypeOK
  BY DEF TypeOK, Days, Slots, Jobs, BatchJobs
<1>2. GuardsBehind
  BY DEF GuardsBehind
<1>3. InHand /\ MailedWasTaken /\ PickListMailedOnce
  BY DEF InHand, MailedWasTaken, PickListMailedOnce
<1>4. SentInVain /\ RepeatsOnlyAfterRestart
  BY DEF SentInVain, RepeatsOnlyAfterRestart
<1> QED
  BY <1>1, <1>2, <1>3, <1>4 DEF IInv

(* The parts hold together at every step.                                   *)
LEMMA StepIInv == IInv /\ [Next]_vars => IInv'
<1> SUFFICES ASSUME IInv, [Next]_vars PROVE IInv'
  OBVIOUS
<1>1. TypeOK'
  BY TypeCorrectStep DEF IInv, InHand
<1> QED
  BY <1>1, GuardsStep, MailStep, CardStep DEF IInv, MailParts, CardParts

(* The strengthened invariant holds in every reachable state.               *)
THEOREM InvariantHolds == Spec => []IInv
BY InitIInv, StepIInv, PTL DEF Spec

(* Every variable of the worker loop keeps its type.                        *)
THEOREM TypeCorrect == Spec => []TypeOK
<1>1. IInv => TypeOK
  BY DEF IInv
<1> QED
  BY <1>1, InvariantHolds, PTL

(* The pick list of an order is mailed at most once (run_batch_email).      *)
THEOREM MailedAtMostOnce == Spec => []PickListMailedOnce
<1>1. IInv => PickListMailedOnce
  BY DEF IInv
<1> QED
  BY <1>1, InvariantHolds, PTL

(* A card is sent once for a day, but for lost answers and restarts (tick). *)
THEOREM CardOnceUnlessRestarted == Spec => []RepeatsOnlyAfterRestart
<1>1. IInv => RepeatsOnlyAfterRestart
  BY DEF IInv
<1> QED
  BY <1>1, InvariantHolds, PTL
=============================================================================
