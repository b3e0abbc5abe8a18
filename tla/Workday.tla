------------------------------ MODULE Workday ------------------------------
(***************************************************************************)
(* The worker loop through the days (sync.rs, run_worker) and the daily    *)
(* jobs it carries (scheduler.rs, tick): the morning and afternoon batch,  *)
(* the evening summary, the card of canceled orders, and then the evening  *)
(* cancel sync. What was done today is remembered in memory only, so a     *)
(* restart forgets it; a job that fails is tried again on the next turn.   *)
(* BigSeller and the API server go on beside the loop, and so does the     *)
(* WIB clock, which a turn reads again at every job.                       *)
(***************************************************************************)
EXTENDS Naturals

CONSTANTS
    Orders,      \* orders placed at BigSeller
    LastSlot,    \* a day is the slots 0..LastSlot of the WIB clock
    WorkStart,   \* first slot of the working hours
    WorkEnd,     \* first slot after the working hours
    At,          \* the slot each daily job is due (*_HOUR)
    AutoPrint,   \* AUTO_PRINT: batches are mailed to the printer
    CancelCards, \* WAZAPIN_NOTIFY_CANCEL: cancel cards are sent
    MaxDay,      \* bound: the days are 0..MaxDay
    MaxFaults,   \* bound: restarts, lost answers and rows skipped as locked
    None         \* no day / no batch

BatchJobs == {"pagi", "siang"}
CardJobs == {"rekap", "card"}
Jobs == BatchJobs \cup CardJobs

Slots == 0 .. LastSlot
Days == 0 .. MaxDay

ASSUME WorkdayAssumption ==
    /\ LastSlot \in Nat /\ MaxDay \in Nat /\ MaxFaults \in Nat
    /\ WorkStart \in Slots /\ WorkEnd \in Slots
    /\ At \in [Jobs -> Slots]
    /\ AutoPrint \in BOOLEAN /\ CancelCards \in BOOLEAN
    /\ None \notin Days /\ None \notin Jobs \cup {"api"}

VARIABLES
    day, slot,   \* the WIB clock
    truth,       \* each order at BigSeller
    born,        \* ordered_at: the day each order was placed
    store,       \* orders.state; "absent" when there is no row
    taker,       \* which job of the worker, or the API, batched each order
    mails,       \* times the pick list of each order reached the printer
    sends,       \* times each card reached the group, by job and day
    lost,        \* those of them whose answer was lost
    restarts,    \* restarts of the worker on each day
    faults,      \* faults so far
    pc, job,     \* where the turn is, and in which job
    yday,        \* the day the turn read when its jobs began
    batch,       \* the orders of the batch, or of the card, in hand
    ran,         \* ran_*_day: the day each job was last done
    lastCancel   \* last_cancel_day

clock == <<day, slot>>
bigseller == <<truth, born>>
outside == <<mails, sends, lost>>
memory == <<ran, lastCancel>>
turn == <<pc, job, yday, batch>>
vars == <<clock, bigseller, store, taker, outside, restarts, faults, memory,
          turn>>

TypeOK ==
    /\ day \in Days /\ slot \in Slots
    /\ truth \in [Orders -> {"unplaced", "new", "canceled"}]
    /\ born \in [Orders -> Days \cup {None}]
    /\ store \in [Orders -> {"absent", "new", "canceled"}]
    /\ taker \in [Orders -> BatchJobs \cup {"api", None}]
    /\ mails \in [Orders -> Nat]
    /\ sends \in [CardJobs -> [Days -> Nat]]
    /\ lost \in [CardJobs -> [Days -> Nat]]
    /\ restarts \in [Days -> Nat]
    /\ faults \in Nat
    /\ pc \in {"sleep", "sync", "drain", "due", "render", "mail", "send",
               "finish", "evening"}
    /\ job \in Jobs
    /\ yday \in Days
    /\ batch \subseteq Orders
    /\ ran \in [Jobs -> Days \cup {None}]
    /\ lastCancel \in Days \cup {None}

Init ==
    /\ day = 0 /\ slot = 0
    /\ truth = [o \in Orders |-> "unplaced"]
    /\ born = [o \in Orders |-> None]
    /\ store = [o \in Orders |-> "absent"]
    /\ taker = [o \in Orders |-> None]
    /\ mails = [o \in Orders |-> 0]
    /\ sends = [j \in CardJobs |-> [d \in Days |-> 0]]
    /\ lost = [j \in CardJobs |-> [d \in Days |-> 0]]
    /\ restarts = [d \in Days |-> 0]
    /\ faults = 0
    /\ pc = "sleep" /\ job = "pagi" /\ yday = 0 /\ batch = {}
    /\ ran = [j \in Jobs |-> None]
    /\ lastCancel = None

(* Mutant: the batch an order is in already is not looked at.               *)
BacklogAnyNew == {o \in Orders : store[o] = "new"}

(* state = 'new' and in no batch.                                           *)
Backlog == {o \in Orders : store[o] = "new" /\ taker[o] = None}

(* is_within_working_hours: an empty window means always.                   *)
InWorkHours == WorkStart >= WorkEnd \/ (WorkStart <= slot /\ slot < WorkEnd)

-----------------------------------------------------------------------------
(* Beside the loop: the clock, the buyers, and the API server.              *)

Clock ==
    /\ \/ slot < LastSlot /\ slot' = slot + 1 /\ UNCHANGED day
       \/ slot = LastSlot /\ day < MaxDay /\ slot' = 0 /\ day' = day + 1
    /\ UNCHANGED <<bigseller, store, taker, outside, restarts, faults,
                   memory, turn>>

Place(o) ==
    /\ truth[o] = "unplaced"
    /\ truth' = [truth EXCEPT ![o] = "new"]
    /\ born' = [born EXCEPT ![o] = day]
    /\ UNCHANGED <<clock, store, taker, outside, restarts, faults,
                   memory, turn>>

Cancel(o) ==
    /\ truth[o] = "new"
    /\ truth' = [truth EXCEPT ![o] = "canceled"]
    /\ UNCHANGED <<clock, born, store, taker, outside, restarts, faults,
                   memory, turn>>

(* The rows of S are upserted as BigSeller shows them.                      *)
Refresh(S) ==
    store' = [o \in Orders |-> IF o \in S THEN truth[o] ELSE store[o]]

Placed == {o \in Orders : truth[o] # "unplaced"}

(* On-demand sync and pack refresh in the API process, and the one-shot     *)
(* sync command.                                                            *)
ApiRefresh(o) ==
    /\ o \in Placed
    /\ Refresh({o})
    /\ UNCHANGED <<clock, bigseller, taker, outside, restarts, faults,
                   memory, turn>>

(* A batch made from the ops table (module OrderClaim has its detail).      *)
ApiBatch(S) ==
    /\ S # {} /\ S \subseteq Backlog
    /\ taker' = [o \in Orders |-> IF o \in S THEN "api" ELSE taker[o]]
    /\ UNCHANGED <<clock, bigseller, store, outside, restarts, faults,
                   memory, turn>>

-----------------------------------------------------------------------------
(* One turn of run_worker: sync, outbox, jobs, evening cancel sync.         *)

(* Mutant: the day is counted from 1.                                       *)
BeginJobsFromOne ==
    /\ pc' = "due"
    /\ job' = "pagi"
    /\ yday' = day + 1
    /\ UNCHANGED batch

(* tick() reads the day before it looks at its jobs.                        *)
BeginJobs ==
    /\ pc' = "due"
    /\ job' = "pagi"
    /\ yday' = day
    /\ UNCHANGED batch

(* In working hours a turn whose session check fails ends at once: it skips *)
(* the jobs and the cancel sync too, so nothing changes.                    *)
Wake ==
    /\ pc = "sleep"
    /\ IF InWorkHours THEN pc' = "sync" /\ UNCHANGED <<job, yday, batch>>
       ELSE BeginJobs
    /\ UNCHANGED <<clock, bigseller, store, taker, outside, restarts, faults,
                   memory>>

(* run_new_sync, run_reconcile and the packed buckets refresh some rows; an *)
(* error in one of them is only logged.                                     *)
Sync(S) ==
    /\ pc = "sync"
    /\ Refresh(S)
    /\ pc' = "drain"
    /\ UNCHANGED <<clock, bigseller, taker, outside, restarts, faults,
                   memory, job, yday, batch>>

(* drain_outbox (module Outbox) has ended, with or without an error.        *)
Drained ==
    /\ pc = "drain"
    /\ BeginJobs
    /\ UNCHANGED <<clock, bigseller, store, taker, outside, restarts, faults,
                   memory>>

After == [pagi |-> "siang", siang |-> "rekap", rekap |-> "card", card |-> "pagi"]

(* The job that is considered after this one, or the end of tick().         *)
NextJob ==
    /\ pc' = IF job = "card" THEN "evening" ELSE "due"
    /\ job' = After[job]
    /\ batch' = {}
    /\ UNCHANGED yday

(* Mutant: a job runs once in the life of the process.                      *)
DueOnce(j) == slot >= At[j] /\ ran[j] = None

(* Mutant: the guard reads the clock anew instead of the day of the turn.   *)
DueByClock(j) == slot >= At[j] /\ ran[j] # day

(* The clock is past the job's hour and the job is not done today.          *)
Due(j) == slot >= At[j] /\ ran[j] # yday

Running(j, at) == pc = at /\ job = j

(* Mutant: the day is not remembered.                                       *)
SucceedForgetful ==
    /\ UNCHANGED ran
    /\ NextJob

(* The job returned Ok: its day is remembered.                              *)
Succeed ==
    /\ ran' = [ran EXCEPT ![job] = yday]
    /\ NextJob

SkipJob ==
    /\ pc = "due"
    /\ ~Due(job)
    /\ NextJob
    /\ UNCHANGED <<clock, bigseller, store, taker, outside, restarts, faults,
                   memory>>

(* The job returned Err before it did anything: no channel configured, the  *)
(* database away, another claimer first. The next turn tries again.         *)
JobFails ==
    /\ pc = "due"
    /\ Due(job)
    /\ NextJob
    /\ UNCHANGED <<clock, bigseller, store, taker, outside, restarts, faults,
                   memory>>

Finish ==
    /\ pc = "finish"
    /\ Succeed
    /\ UNCHANGED <<clock, bigseller, store, taker, outside, restarts, faults,
                   lastCancel>>

(* The batch jobs, run_batch_email.                                         *)

NoBacklog(j) ==
    /\ Running(j, "due") /\ Due(j)
    /\ Backlog = {}
    /\ Succeed
    /\ UNCHANGED <<clock, bigseller, store, taker, outside, restarts, faults,
                   lastCancel>>

(* create_batch commits the membership of the rows it could lock.           *)
TakeBatch(j, S) ==
    /\ Running(j, "due") /\ Due(j)
    /\ S # {} /\ S \subseteq Backlog
    /\ S # Backlog => faults < MaxFaults
    /\ faults' = IF S = Backlog THEN faults ELSE faults + 1
    /\ taker' = [o \in Orders |-> IF o \in S THEN j ELSE taker[o]]
    /\ batch' = S
    /\ pc' = "render"
    /\ UNCHANGED <<clock, bigseller, store, outside, restarts, memory,
                   job, yday>>

(* The PDF is stored and read back; the printer's mail is optional.         *)
Render ==
    /\ pc = "render"
    /\ pc' = IF AutoPrint THEN "mail" ELSE "finish"
    /\ UNCHANGED <<clock, bigseller, store, taker, outside, restarts, faults,
                   memory, job, yday, batch>>

Mail ==
    mails' = [o \in Orders |-> IF o \in batch THEN mails[o] + 1 ELSE mails[o]]

(* What follows, the PDF for the group, never fails the job.                *)
SendMail ==
    /\ pc = "mail"
    /\ Mail
    /\ pc' = "finish"
    /\ UNCHANGED <<clock, bigseller, store, taker, sends, lost,
                   restarts, faults, memory, job, yday, batch>>

MailAnswerLost ==
    /\ pc = "mail"
    /\ faults < MaxFaults
    /\ faults' = faults + 1
    /\ Mail
    /\ NextJob
    /\ UNCHANGED <<clock, bigseller, store, taker, sends, lost,
                   restarts, memory>>

(* Rendering, storing or reading the PDF fails, or the mail is refused; the *)
(* membership is committed all the same.                                    *)
BatchFails ==
    /\ pc \in {"render", "mail"}
    /\ NextJob
    /\ UNCHANGED <<clock, bigseller, store, taker, outside, restarts, faults,
                   memory>>

(* The cards, run_rekap_sore and run_cancel_printed.                        *)

BeginRekap ==
    /\ Running("rekap", "due") /\ Due("rekap")
    /\ pc' = "send"
    /\ batch' = {}
    /\ UNCHANGED <<clock, bigseller, store, taker, outside, restarts, faults,
                   memory, job, yday>>

(* Known as canceled, placed on the day the clock shows now, and printed.   *)
CanceledToday ==
    {o \in Orders : store[o] = "canceled" /\ born[o] = day /\ taker[o] # None}

NothingToCard ==
    /\ Running("card", "due") /\ Due("card")
    /\ ~CancelCards \/ CanceledToday = {}
    /\ Succeed
    /\ UNCHANGED <<clock, bigseller, store, taker, outside, restarts, faults,
                   lastCancel>>

ListCancels ==
    /\ Running("card", "due") /\ Due("card")
    /\ CancelCards /\ CanceledToday # {}
    /\ pc' = "send"
    /\ batch' = CanceledToday
    /\ UNCHANGED <<clock, bigseller, store, taker, outside, restarts, faults,
                   memory, job, yday>>

Show ==
    sends' = [sends EXCEPT ![job] = [sends[job] EXCEPT ![yday] = sends[job][yday] + 1]]

SendCard(j) ==
    /\ Running(j, "send")
    /\ Show
    /\ pc' = "finish"
    /\ UNCHANGED <<clock, bigseller, store, taker, mails, lost, restarts,
                   faults, memory, job, yday, batch>>

CardAnswerLost ==
    /\ pc = "send"
    /\ faults < MaxFaults
    /\ faults' = faults + 1
    /\ Show
    /\ lost' = [lost EXCEPT ![job] = [lost[job] EXCEPT ![yday] = lost[job][yday] + 1]]
    /\ NextJob
    /\ UNCHANGED <<clock, bigseller, store, taker, mails, restarts,
                   memory>>

(* Mutant: the error of a job leaves tick().                                *)
CardRefusedEndsTick ==
    /\ pc = "send"
    /\ pc' = "evening" /\ job' = "pagi" /\ batch' = {} /\ yday' = yday
    /\ UNCHANGED <<clock, bigseller, store, taker, outside, restarts, faults,
                   memory>>

CardRefused ==
    /\ pc = "send"
    /\ NextJob
    /\ UNCHANGED <<clock, bigseller, store, taker, outside, restarts, faults,
                   memory>>

(* The evening cancel sync, after the jobs of the same turn: it pulls       *)
(* canceled orders, swallows the errors of its buckets, and is done for the *)
(* day. The local day is taken to be the WIB day, and the orders of the     *)
(* bucket platformProcessing, neither new nor canceled, are left out.       *)
EveningSync(S) ==
    /\ pc = "evening"
    /\ slot >= At["card"] /\ lastCancel # day
    /\ S \subseteq {o \in Orders : truth[o] = "canceled"}
    /\ Refresh(S)
    /\ lastCancel' = day
    /\ pc' = "sleep"
    /\ UNCHANGED <<clock, bigseller, taker, outside, restarts, faults,
                   ran, job, yday, batch>>

(* Not due, done today, or the session is not ready.                        *)
SkipEvening ==
    /\ pc = "evening"
    /\ pc' = "sleep"
    /\ UNCHANGED <<clock, bigseller, store, taker, outside, restarts, faults,
                   memory, job, yday, batch>>

(* The process dies or is deployed anew: its memory is gone.                *)
Restart ==
    /\ faults < MaxFaults
    /\ faults' = faults + 1
    /\ restarts' = [restarts EXCEPT ![day] = restarts[day] + 1]
    /\ pc' = "sleep" /\ job' = "pagi" /\ batch' = {}
    /\ ran' = [j \in Jobs |-> None]
    /\ lastCancel' = None
    /\ UNCHANGED <<clock, bigseller, store, taker, outside, yday>>

-----------------------------------------------------------------------------
Beside ==
    \/ Clock
    \/ \E o \in Orders : Place(o) \/ Cancel(o) \/ ApiRefresh(o)
    \/ \E S \in SUBSET Orders : ApiBatch(S)

(* The first step of a job that does not fail.                              *)
Begin(j) ==
    \/ /\ j \in BatchJobs
       /\ NoBacklog(j) \/ \E S \in SUBSET Orders : TakeBatch(j, S)
    \/ j = "rekap" /\ BeginRekap
    \/ j = "card" /\ (NothingToCard \/ ListCancels)

JobStep ==
    \/ SkipJob \/ JobFails \/ Finish
    \/ \E j \in Jobs : Begin(j)
    \/ Render \/ SendMail \/ MailAnswerLost \/ BatchFails
    \/ \E j \in CardJobs : SendCard(j)
    \/ CardAnswerLost \/ CardRefused

SyncToday == \E S \in SUBSET Orders : EveningSync(S)

WorkerStep ==
    \/ Wake
    \/ \E S \in SUBSET Placed : Sync(S)
    \/ Drained
    \/ JobStep
    \/ SyncToday
    \/ SkipEvening

Next == Beside \/ WorkerStep \/ Restart

Spec == Init /\ [][Next]_vars

(* The loop may have a request out that has no timeout: an event posted to  *)
(* the webhook, a pick list handed to the mail service.                     *)
Hanging == pc \in {"drain", "mail"}

(* Time passes, and the loop goes on except while it hangs on such a        *)
(* request, whose answer may never come. On a day that lasts long enough    *)
(* the database answers, a card of cancels is accepted and the session is   *)
(* ready; nothing is assumed of the mail, the PDF or the summary card.      *)
Fairness ==
    /\ WF_vars(Clock)
    /\ WF_vars(~Hanging /\ WorkerStep)
    /\ \A j \in Jobs : SF_vars(Begin(j))
    /\ SF_vars(SendCard("card"))
    /\ SF_vars(SyncToday)

FairSpec == Spec /\ Fairness

-----------------------------------------------------------------------------
(* Properties.                                                              *)

(* However often the jobs run, fail, are retried and forgotten, the pick    *)
(* list of an order reaches the printer at most once: a batch is mailed in  *)
(* the turn that claims it or not at all (run_batch_email).                 *)
PickListMailedOnce == \A o \in Orders : mails[o] <= 1

(* The in-memory day guards of tick() keep a card from going out twice for  *)
(* one day, except for each lost answer and each restart of that day, and   *)
(* even when midnight passes in the middle of a turn.                       *)
RepeatsOnlyAfterRestart ==
    \A j \in CardJobs, d \in Days :
        sends[j][d] <= 1 + lost[j][d] + restarts[d]

(* As long as no request hangs for ever, an order left in the backlog on    *)
(* one day is out of it the next, in a batch or canceled, although the      *)
(* session may be down all day, every mail may be refused, and the          *)
(* morning's guard may be spent before the order arrives.                   *)
BacklogTaken ==
    []<>~Hanging =>
        \A o \in Orders : day < MaxDay /\ o \in Backlog ~> o \notin Backlog

(* One job that fails on every turn (the summary card here, or a mail that  *)
(* is refused) keeps neither the other jobs nor the evening cancel sync     *)
(* from being done; only a request that hangs for ever does.                *)
FailureIsContained ==
    []<>~Hanging =>
        <>[](/\ \A j \in Jobs \ {"rekap"} : ran[j] = MaxDay
             /\ lastCancel = MaxDay)

(* What the module comment of scheduler.rs says of the cancel card: it goes *)
(* out right after the cancel sync window, for the cancels of the day whose *)
(* Summary List was printed. So the evening cancel sync finds none of them  *)
(* for which the card of the day is already done.                           *)
CardFollowsCancelSync ==
    [][SyncToday /\ ran["card"] = day =>
           \A o \in Orders : born[o] = day /\ taker[o] # None =>
               store'[o] = store[o]]_vars

(* What the comment in tick() says of a batch job that failed: later ticks  *)
(* of the same day keep retrying it. So when the job succeeds, the orders   *)
(* it took out have been mailed.                                            *)
RetryDelivers ==
    [][\A j \in BatchJobs : AutoPrint /\ ran'[j] # ran[j] /\ ran'[j] # None =>
           \A o \in Orders : taker[o] = j => mails[o] > 0]_vars

=============================================================================
