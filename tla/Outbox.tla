------------------------------- MODULE Outbox -------------------------------
(***************************************************************************)
(* Delivery of notification_outbox rows by the worker loop: drain_outbox   *)
(* (sync.rs) posts to the optional webhook and sends single cards, and     *)
(* run_instant_batch (scheduler.rs) sends one combined card for the urgent *)
(* orders. A row is read, delivered over HTTP, and only then recorded in a *)
(* statement of its own; the process may die, the answer may be lost, or   *)
(* the statement may fail in between. Rows that fail back off and are      *)
(* given up after MaxAttempts.                                             *)
(***************************************************************************)
EXTENDS Naturals, FiniteSets

CONSTANTS
    Events,       \* ids of notification_outbox rows (bigserial)
    Kind,         \* of each event: see Kinds
    DrainLimit,   \* rows drain_outbox reads at a time (20)
    ListLimit,    \* order.created rows run_instant_batch reads (200)
    CardLimit,    \* urgent orders on one card (MAX_ORDERS, 50)
    MaxAttempts,  \* attempts after which a row is 'failed' (10)
    MaxBackoff,   \* minutes a retry is put off at most (30)
    MaxFaults     \* bound: crashes, lost answers and lost records

(* "urgent" and "plain": order.created whose payload names an urgent        *)
(* carrier, or not; "canceled": order.canceled.                             *)
Kinds == {"urgent", "plain", "canceled"}

ASSUME OutboxAssumption ==
    /\ Events \subseteq Nat
    /\ IsFiniteSet(Events)
    /\ Kind \in [Events -> Kinds]
    /\ DrainLimit \in Nat \ {0} /\ ListLimit \in Nat \ {0}
    /\ CardLimit \in Nat \ {0} /\ MaxAttempts \in Nat \ {0}
    /\ MaxBackoff \in Nat /\ MaxFaults \in Nat

VARIABLES
    status,    \* 'pending', 'sent', 'failed'; "absent" before it is inserted
    attempts,  \* attempts counted on the row
    wait,      \* minutes until available_at
    posted,    \* times the webhook took the event
    carded,    \* times a group card showed the event
    lost,      \* deliveries of the event the worker failed to record
    faults,    \* faults so far
    config,    \* what the environment enables, fixed while the program runs
    pc,        \* where the worker loop is
    todo,      \* rows in memory the current loop has still to handle
    card       \* rows loaded for the combined card

rows == <<status, attempts, wait>>
deliveries == <<posted, carded, lost>>
worker == <<pc, todo, card>>
vars == <<rows, deliveries, worker, faults, config>>

(* "instant" is WAZAPIN_NOTIFY_INSTANT of a configured Wazapin.             *)
Configs == {c \in [wazapin: BOOLEAN, instant: BOOLEAN, webhook: BOOLEAN] :
                c.instant => c.wazapin}

TypeOK ==
    /\ status \in [Events -> {"absent", "pending", "sent", "failed"}]
    /\ attempts \in [Events -> Nat]
    /\ wait \in [Events -> Nat]
    /\ posted \in [Events -> Nat]
    /\ carded \in [Events -> Nat]
    /\ lost \in [Events -> Nat]
    /\ faults \in Nat
    /\ config \in Configs
    /\ pc \in {"top", "drain", "post", "ok", "err", "jobs", "load", "cards"}
    /\ todo \subseteq Events
    /\ card \subseteq Events

Init ==
    /\ status = [e \in Events |-> "absent"]
    /\ attempts = [e \in Events |-> 0]
    /\ wait = [e \in Events |-> 0]
    /\ posted = [e \in Events |-> 0]
    /\ carded = [e \in Events |-> 0]
    /\ lost = [e \in Events |-> 0]
    /\ faults = 0
    /\ config \in Configs
    /\ pc = "top"
    /\ todo = {}
    /\ card = {}

IsLowest(e, S) == e \in S /\ \A f \in S : e <= f

(* ORDER BY id LIMIT k.                                                     *)
First(k, S) == {e \in S : Cardinality({f \in S : f <= e}) <= k}

-----------------------------------------------------------------------------
(* The table.                                                               *)

(* upsert_order commits a row. Ids come from a sequence, so rows may become *)
(* visible out of id order.                                                 *)
Emit(e) ==
    /\ status[e] = "absent"
    /\ status' = [status EXCEPT ![e] = "pending"]
    /\ UNCHANGED <<attempts, wait, deliveries, worker, faults, config>>

(* now() moves past available_at of the rows that back off.                 *)
Minute ==
    /\ \E e \in Events : wait[e] > 0
    /\ wait' = [e \in Events |-> IF wait[e] > 0 THEN wait[e] - 1 ELSE 0]
    /\ UNCHANGED <<status, attempts, deliveries, worker, faults, config>>

(* Mutants: a poll that forgets one of its two conditions.                  *)
AvailableAnyStatus == {e \in Events : status[e] # "absent" /\ wait[e] = 0}
AvailableAtOnce == {e \in Events : status[e] = "pending"}

(* WHERE status = 'pending' AND available_at <= now().                      *)
Available == {e \in Events : status[e] = "pending" /\ wait[e] = 0}

(* mark_outbox_sent: no condition on the row but its id.                    *)
MarkSent(e) ==
    /\ status' = [status EXCEPT ![e] = "sent"]
    /\ attempts' = [attempts EXCEPT ![e] = @ + 1]
    /\ UNCHANGED wait

(* Mutant: the wait shrinks with the attempts instead of growing.           *)
MarkFailedShrinking(e) ==
    LET n == attempts[e] + 1 IN
    /\ status' = [status EXCEPT ![e] = IF n >= MaxAttempts THEN "failed"
                                       ELSE "pending"]
    /\ attempts' = [attempts EXCEPT ![e] = n]
    /\ wait' = [wait EXCEPT ![e] = MaxBackoff - n]

(* Mutant: the give-up test compares the attempts before this one.          *)
MarkFailedLate(e) ==
    LET n == attempts[e] + 1 IN
    /\ status' = [status EXCEPT ![e] = IF attempts[e] >= MaxAttempts
                                       THEN "failed" ELSE "pending"]
    /\ attempts' = [attempts EXCEPT ![e] = n]
    /\ wait' = [wait EXCEPT ![e] = IF n < MaxBackoff THEN n ELSE MaxBackoff]

(* mark_outbox_failed: back off a minute more each time, then give up.      *)
MarkFailed(e) ==
    LET n == attempts[e] + 1 IN
    /\ status' = [status EXCEPT ![e] = IF n >= MaxAttempts THEN "failed"
                                       ELSE "pending"]
    /\ attempts' = [attempts EXCEPT ![e] = n]
    /\ wait' = [wait EXCEPT ![e] = IF n < MaxBackoff THEN n ELSE MaxBackoff]

-----------------------------------------------------------------------------
(* drain_outbox, one row of its list after the other.                       *)

(* Nothing to deliver to: the rows stay pending.                            *)
NoChannel == ~config.wazapin /\ ~config.webhook

BeginDrain ==
    /\ pc = "top"
    /\ ~NoChannel
    /\ Available # {}
    /\ pc' = "drain"
    /\ todo' = First(DrainLimit, Available)
    /\ UNCHANGED <<rows, deliveries, card, faults, config>>

(* Outside working hours, with an empty poll or no channel, or when reading *)
(* the table fails: on to the scheduled jobs.                               *)
SkipDrain ==
    /\ pc = "top"
    /\ pc' = "jobs"
    /\ UNCHANGED <<rows, deliveries, todo, card, faults, config>>

EndDrain ==
    /\ pc = "drain" /\ todo = {}
    /\ pc' = "jobs"
    /\ UNCHANGED <<rows, deliveries, todo, card, faults, config>>

Draining(e) == pc = "drain" /\ IsLowest(e, todo)

(* An urgent order.created is left to the instant batch.                    *)
LeaveUrgent(e) ==
    /\ Draining(e)
    /\ Kind[e] = "urgent"
    /\ todo' = todo \ {e}
    /\ UNCHANGED <<rows, deliveries, pc, card, faults, config>>

(* Mutant: a webhook makes no difference to what Wazapin does not take.     *)
MarkAllUndelivered(e) ==
    /\ Draining(e)
    /\ Kind[e] = "canceled" \/ (Kind[e] = "plain" /\ config.wazapin)
    /\ MarkSent(e)
    /\ todo' = todo \ {e}
    /\ UNCHANGED <<deliveries, pc, card, faults, config>>

(* A cancel goes on the daily cancel card: the row is only marked. So is a  *)
(* plain order that Wazapin does not take when there is no webhook.         *)
MarkUndelivered(e) ==
    /\ Draining(e)
    /\ \/ Kind[e] = "canceled"
       \/ Kind[e] = "plain" /\ ~config.webhook /\ config.wazapin
    /\ MarkSent(e)
    /\ todo' = todo \ {e}
    /\ UNCHANGED <<deliveries, pc, card, faults, config>>

(* What Wazapin does not take goes to the webhook when there is one. The    *)
(* client of this request has no timeout: the loop waits for its answer.    *)
Post(e) ==
    /\ Draining(e)
    /\ Kind[e] = "plain"
    /\ config.webhook
    /\ pc' = "post"
    /\ UNCHANGED <<rows, deliveries, todo, card, faults, config>>

Posting(e) == pc = "post" /\ IsLowest(e, todo)

(* A card of its own for a plain order whose row, unlike its payload, names *)
(* an urgent carrier by now (try_handle_outbox_wazapin).                    *)
Carding(e) == Draining(e) /\ Kind[e] = "plain" /\ config.instant

(* A request that took effect.                                              *)
Take(e) ==
    \/ /\ Carding(e)
       /\ carded' = [carded EXCEPT ![e] = @ + 1]
       /\ UNCHANGED posted
    \/ /\ Posting(e)
       /\ posted' = [posted EXCEPT ![e] = @ + 1]
       /\ UNCHANGED carded

Deliver(e) ==
    /\ Take(e)
    /\ pc' = "ok"
    /\ UNCHANGED <<rows, lost, todo, card, faults, config>>

(* Mutant: any answer of the webhook counts, whatever its status.           *)
RefusedTaken(e) ==
    /\ Carding(e) \/ Posting(e)
    /\ pc' = "ok"
    /\ UNCHANGED <<rows, deliveries, todo, card, faults, config>>

(* The card cannot be made or sent, or the webhook refuses or is away.      *)
Refused(e) ==
    /\ Carding(e) \/ Posting(e)
    /\ pc' = "err"
    /\ UNCHANGED <<rows, deliveries, todo, card, faults, config>>

(* The request took effect and its answer was lost: the connection dropped, *)
(* or Wazapin's answer came after its 60 seconds.                           *)
AnswerLost(e) ==
    /\ faults < MaxFaults
    /\ Take(e)
    /\ lost' = [lost EXCEPT ![e] = @ + 1]
    /\ faults' = faults + 1
    /\ pc' = "err"
    /\ UNCHANGED <<rows, todo, card, config>>

(* Mutant: the failure is logged and never recorded on the row.             *)
RecordSuccessOnly(e) ==
    /\ pc \in {"ok", "err"} /\ IsLowest(e, todo)
    /\ IF pc = "ok" THEN MarkSent(e) ELSE UNCHANGED rows
    /\ pc' = "drain"
    /\ todo' = todo \ {e}
    /\ UNCHANGED <<deliveries, card, faults, config>>

(* The outcome is recorded on the row, in a statement of its own.           *)
Record(e) ==
    /\ pc \in {"ok", "err"} /\ IsLowest(e, todo)
    /\ IF pc = "ok" THEN MarkSent(e) ELSE MarkFailed(e)
    /\ pc' = "drain"
    /\ todo' = todo \ {e}
    /\ UNCHANGED <<deliveries, card, faults, config>>

-----------------------------------------------------------------------------
(* run_instant_batch.                                                       *)

Urgents(S) == {e \in S : Kind[e] = "urgent"}
Created(S) == {e \in S : Kind[e] # "canceled"}

BeginInstant ==
    /\ pc = "jobs"
    /\ config.instant
    /\ pc' = "load"
    /\ todo' = First(CardLimit, Urgents(First(ListLimit, Created(Available))))
    /\ UNCHANGED <<rows, deliveries, card, faults, config>>

(* Not due, outside working hours, not enabled, or the poll fails.          *)
SkipInstant ==
    /\ pc = "jobs"
    /\ pc' = "top"
    /\ UNCHANGED <<rows, deliveries, todo, card, faults, config>>

Loading(e) == pc = "load" /\ IsLowest(e, todo)

LoadOrder(e) ==
    /\ Loading(e)
    /\ todo' = todo \ {e}
    /\ card' = card \cup {e}
    /\ UNCHANGED <<rows, deliveries, pc, faults, config>>

LoadFails(e) ==
    /\ Loading(e)
    /\ MarkFailed(e)
    /\ todo' = todo \ {e}
    /\ UNCHANGED <<deliveries, pc, card, faults, config>>

NothingToCard ==
    /\ pc = "load" /\ todo = {} /\ card = {}
    /\ pc' = "top"
    /\ UNCHANGED <<rows, deliveries, todo, card, faults, config>>

ReadyToSend == pc = "load" /\ todo = {} /\ card # {}

Show == carded' = [e \in Events |-> carded[e] + IF e \in card THEN 1 ELSE 0]

SendCard ==
    /\ ReadyToSend
    /\ Show
    /\ pc' = "cards"
    /\ UNCHANGED <<rows, posted, lost, todo, card, faults, config>>

(* The whole card fails: no row is touched, the next tick tries again.      *)
CardRefused ==
    /\ ReadyToSend
    /\ pc' = "top"
    /\ card' = {}
    /\ UNCHANGED <<rows, deliveries, todo, faults, config>>

Lose(S) == lost' = [e \in Events |-> lost[e] + IF e \in S THEN 1 ELSE 0]

CardAnswerLost ==
    /\ ReadyToSend
    /\ faults < MaxFaults
    /\ Show
    /\ Lose(card)
    /\ faults' = faults + 1
    /\ pc' = "top"
    /\ card' = {}
    /\ UNCHANGED <<rows, posted, todo, config>>

(* Mutant: only the first row of the card is recorded.                      *)
MarkCardFirst(e) ==
    /\ pc = "cards" /\ IsLowest(e, card)
    /\ MarkSent(e)
    /\ card' = {}
    /\ UNCHANGED <<deliveries, pc, todo, faults, config>>

MarkCard(e) ==
    /\ pc = "cards" /\ IsLowest(e, card)
    /\ MarkSent(e)
    /\ card' = card \ {e}
    /\ UNCHANGED <<deliveries, pc, todo, faults, config>>

EndCards ==
    /\ pc = "cards" /\ card = {}
    /\ pc' = "top"
    /\ UNCHANGED <<rows, deliveries, todo, card, faults, config>>

-----------------------------------------------------------------------------
(* Faults.                                                                  *)

(* The deliveries that are lost when the worker stops where it is.          *)
Unrecorded == {e \in Events : \/ pc = "ok" /\ IsLowest(e, todo)
                              \/ pc = "cards" /\ e \in card}

(* The process dies and comes back, or a recording statement fails and the  *)
(* error leaves the loop (`?`): what was in memory is gone.                 *)
Interrupt ==
    /\ pc \notin {"top", "jobs"}
    /\ faults < MaxFaults
    /\ Lose(Unrecorded)
    /\ faults' = faults + 1
    /\ pc' \in {"top", "jobs"}
    /\ todo' = {}
    /\ card' = {}
    /\ UNCHANGED <<rows, posted, carded, config>>

-----------------------------------------------------------------------------
DrainStep ==
    \/ EndDrain
    \/ \E e \in Events :
           \/ LeaveUrgent(e)
           \/ MarkUndelivered(e)
           \/ Post(e)
           \/ Deliver(e)
           \/ Refused(e)
           \/ AnswerLost(e)
           \/ Record(e)

InstantStep ==
    \/ NothingToCard
    \/ SendCard
    \/ CardRefused
    \/ CardAnswerLost
    \/ EndCards
    \/ \E e \in Events : LoadOrder(e) \/ LoadFails(e) \/ MarkCard(e)

WorkerStep ==
    BeginDrain \/ SkipDrain \/ DrainStep \/ BeginInstant \/ SkipInstant \/ InstantStep

Next ==
    \/ \E e \in Events : Emit(e)
    \/ Minute
    \/ WorkerStep
    \/ Interrupt

Spec == Init /\ [][Next]_vars

(* The loop goes on except while it waits for the webhook, whose answer may *)
(* never come; time passes, working hours and the instant interval come     *)
(* round for ever, and a card that is tried again and again is some day     *)
(* accepted.                                                                *)
Fairness ==
    /\ WF_vars(Minute)
    /\ WF_vars(pc # "post" /\ WorkerStep)
    /\ SF_vars(BeginDrain)
    /\ SF_vars(BeginInstant)
    /\ SF_vars(SendCard)

FairSpec == Spec /\ Fairness

-----------------------------------------------------------------------------
(* Properties.                                                              *)

(* A row recorded as sent was delivered by the channel its kind calls for:  *)
(* an urgent order was on a card, a plain one reached the webhook (when     *)
(* there is one) or had a card; a cancel is never delivered from here.      *)
SentWasDelivered ==
    \A e \in Events :
        /\ status[e] = "sent" /\ Kind[e] = "urgent" => carded[e] > 0
        /\ status[e] = "sent" /\ Kind[e] = "plain" /\ config.webhook =>
               posted[e] + carded[e] > 0
        /\ Kind[e] = "canceled" => posted[e] + carded[e] = 0

(* The drain and the instant batch share a table they read without locks,   *)
(* yet an event is delivered again only after a delivery went unrecorded.   *)
RepeatsOnlyAfterLoss ==
    \A e \in Events : posted[e] + carded[e] <= 1 + lost[e]

(* A row is given up after exactly MaxAttempts attempts, and is retried     *)
(* until then.                                                              *)
GivesUpAtMaxAttempts ==
    \A e \in Events :
        /\ status[e] = "failed" => attempts[e] = MaxAttempts
        /\ status[e] = "pending" => attempts[e] < MaxAttempts

(* Neither mark has a condition on status, and still a row that is sent or  *)
(* failed never changes again.                                              *)
SettledForGood ==
    [][\A e \in Events : status[e] \in {"sent", "failed"} =>
           status'[e] = status[e] /\ attempts'[e] = attempts[e]]_vars

(* Nothing is delivered for a row that backs off or is settled, though the  *)
(* rows were polled some HTTP requests before.                              *)
BackoffRespected ==
    [][\A e \in Events : posted'[e] # posted[e] \/ carded'[e] # carded[e] =>
           status[e] = "pending" /\ wait[e] = 0]_vars

(* Polls, lists in memory, requests and marks of their own do what Delivery *)
(* does with an account of every event: a delivery in flight when the loop  *)
(* is interrupted is in doubt, and nothing else is ever delivered again.    *)
Account == INSTANCE Delivery WITH
    state <- status,
    tries <- attempts,
    shown <- [e \in Events |-> posted[e] + carded[e]],
    doubt <- lost,
    open <- Unrecorded,
    free <- {e \in Events : \/ Kind[e] = "canceled"
                            \/ Kind[e] = "plain" /\ ~config.webhook /\ config.wazapin}

ImplementsDelivery == Account!Spec

(* With instant cards enabled, and a webhook that does not leave a request  *)
(* open for ever, every row is sent or given up in the end: the urgent rows *)
(* that fill the head of drain_outbox's poll are taken off it by the        *)
(* instant batch.                                                           *)
EverythingSettles ==
    []<>(pc # "post") =>
        \A e \in Events : config.instant /\ status[e] = "pending"
                             ~> status[e] \in {"sent", "failed"}

(* What the comment in drain_outbox says of the webhook: it is for all      *)
(* events when there is no Wazapin (one that answers, that is).             *)
WebhookTakesAll ==
    []<>(pc # "post") =>
        \A e \in Events :
            ~config.wazapin /\ config.webhook /\ status[e] = "pending"
                ~> status[e] \in {"sent", "failed"}
=============================================================================
