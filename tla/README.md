# A verification development of order.rs

`order.rs` mirrors the orders of BigSeller (a marketplace back office) into
Postgres, prints pick lists ("Summary Lists") in batches, and tells a WhatsApp
group what is urgent, canceled or done. This directory holds TLA+ models of its
components, the TLC runs that check them on small instances, and TLAPS proofs
for all instances. Line numbers refer to `src/src/*.rs` unless a path is given.

## 1. Inventory

Three kinds of process share one Postgres database and one BigSeller login: the
**worker** (one sequential loop), the **API server** (concurrent handlers and
spawned tasks) and **one-shot CLI commands**. None talks to another directly;
all interaction goes through tables, the session file and the outside world.

| Component | State it keeps | Operations | Hard behaviours | What makes it correct | Module |
| --- | --- | --- | --- | --- | --- |
| Order store (`store.rs`) | `orders`, `order_items`, `shops`, `order_status_history`, `notification_outbox`, `sync_runs`, `sync_cursors` | `upsert_order`, outbox reads and marks, read models | concurrent upserts of one order; state read before the row is locked; readers between two queries | one `order.created` per order; a cancel of a printed order always raises `order.canceled`, once; reports agree | `OrderClaim`, `Desk`, `Reports` |
| Batches (`batch.rs`) | `batches`, `batch_orders`, PDF bytes | `create_batch`, `create_batch_from_selection`, `regenerate_batch_pdf`, reads | claims against claims and against upserts; a PDF drawn after the commit | an order is in one batch at most; only `new` orders are claimed; a PDF lists its batch | `OrderClaim` |
| Outbox delivery (`sync.rs` `drain_outbox`, `scheduler.rs` `run_instant_batch`, `notify.rs`) | `status`, `attempts`, `available_at` of the rows | poll, deliver, mark | at-least-once delivery over HTTP; crash between send and mark; a head of line nobody takes | sent means delivered; repeated only after a loss; given up in time; nothing waits for ever, unless a request hangs | `Outbox` |
| Worker loop (`sync.rs` `run_worker`) | tick counter, `last_cancel_day` in memory | sync, reconcile, drain, jobs, evening cancel sync | order of the parts; `continue` on a dead session; restart; a request without a timeout | every daily duty is done once, after what it depends on | `Workday` |
| Daily scheduler (`scheduler.rs`) | `ran_*_day` in memory | batch pagi and siang, rekap, cancel card | a job that fails half way and is retried; restart | a batch is mailed; a card is sent once per WIB day | `Workday` |
| Bucket sync and reconciliation (`sync.rs`) | `synced_at`, sync run log | page loops, absence detection, archive | shifting and stale pages, throttled searches, a cap on candidates | rows converge to BigSeller; no one syncer undoes its own work | `Mirror` |
| Session (`auth.rs`, `session.rs`, `accounts.rs`, `client.rs`) | `.session.json`, `bs_sessions`, cookie jar in memory | probe, re-login, persist | several processes share one login; half-written copies | an ended session comes back; nobody throws the others out for nothing | `Session` |
| On-demand sync (`ondemand.rs`) | a running flag and step list in a mutex | start, run, status | a second start while one runs; the worker's pull beside it | one run at a time, which never logs in | `Mirror`, `Session` |
| Packing (`pack.rs`) | none of its own | verify, submit, delayed refresh | the session ends between two calls; the refresh races the worker | a refused packing takes no session from anybody | `Session`, `Mirror` |
| Shipping labels (`resi.rs`, `App.tsx`) | `print_label_mark` | prepare, print, confirm | two desks; a dialog closed and reopened; a sync that overwrites the mark | a label is printed twice only for a cause | `Desk`, `Mirror` |
| HTTP API (`api.rs`), web UI (`src/web`) | none of record | parse, delegate, answer, poll | offset paging and cursors over a moving table | nothing is skipped without a cause | `Desk` |
| Group commands (`webhook.rs`) | none | one card per command | - | the card agrees with the day's rekap | `Reports` |
| Mapping and names (`map.rs`, `catalog.rs`, `product_names.rs`) | none | pure functions | articles looked up by parts of a sku | the breakdowns of the dashboard agree on it | `Reports` |
| Cards and PDFs (`batch_pdf.rs`, `instant_notify.rs`, `cancel_notify.rs`, `carrier_day_list.rs`, `daily_report.rs`, `daily_infographic.rs`) | none | selection, layout | room reckoned in one place and used up in another | what is drawn fits | `Reports`, `Paper` |
| Channels (`wazapin.rs`, `email.rs`) | none | HTTP to external services | lost answers; webhook and mail have no timeout | - | `Outbox`, `Workday` |
| Captcha and OCR (`ocr.rs`, `screen_ocr.rs`), BigSeller client and blob (`orders.rs`, `crypto.rs`), CLI and wiring (`main.rs`, `config.rs`, `db.rs`, `error.rs`, `lib.rs`) | none of record | inference, requests, parsing | - | - | by their outcomes only |


## 2. Plan

The modules in the order they were written: what the shop would miss most comes
first. Each runs under an `MC` module (`Reports` and `Paper` under `MCDesk`), with one
`.cfg` per question.
No module declares a recursive operator.

| Module | Composes / refines | State | Proofs |
| --- | --- | --- | --- |
| `OrderClaim` | implements `Takeout` | rows and row locks of `orders` and `shops`, batches, PDFs, cancel and created events, the transactions in flight | safety and the refinement |
| `Takeout` | abstract: taking an order out in one indivisible step | phase, batch and notices of each order | - |
| `Outbox` | implements `Delivery` | rows of `notification_outbox`, what reached the channels, the worker's lists | safety and the refinement |
| `Delivery` | abstract: an account of each event, its deliveries and those in doubt | what an event is owed and was given | - |
| `Workday` | worker loop, scheduler and evening sync around the order table | WIB clock, orders, batches, mails, cards, the loop's memory | safety |
| `Mirror` | worker, on-demand sync, refresh after packing and label confirmation over one table | BigSeller's orders, rows with their age, each syncer's page and candidates | safety |
| `Session` | worker, `orders login`, on-demand run and packing over one login | what BigSeller accepts, file, row, the cookies of every client | safety |
| `Desk` | readers and label dialogs beside the syncers | rows with the times readers ask for, open transactions, events, dialogs | safety |
| `Reports` | extends `Desk` | none: queries over the table of `Desk` | safety |
| `Paper` | - | none: layout functions | every input |

What would come next: liveness of `Mirror` with the on-demand sync beside the
worker on a larger instance.

## 3. The modules and the code

### OrderClaim (store.rs, batch.rs) and Takeout

An upsert is five actions: `UpsertRead` (shop upsert with its row lock, key
lookup, previous state), `UpsertWrite` (the `INSERT .. ON CONFLICT DO UPDATE`,
which waits for the row lock), `UpsertQueryBatch` (the membership test, a
statement and thus a snapshot of its own), `UpsertCommit` (history, items,
outbox rows and commit) and `UpsertAbort`. A claim is a snapshot
(`ClaimSnapshot`), one `ClaimRow` per row the locking `SELECT` reaches,
`ClaimCommit` / `ClaimConflict` / `ClaimNothing` / `ClaimAbort`, and after the
commit `StorePdf` or `LosePdf`. `RegeneratePdf` and the reconciler's `Archive`
run beside them. Two properties of Postgres at READ COMMITTED decide everything
and are modelled: `FOR UPDATE SKIP LOCKED` re-evaluates a changed row's own
columns but not the `NOT EXISTS` subquery, and a unique index refuses the second
active membership. Membership is never voided by the program, so `members`
holds active rows. States beyond `processing` (shipped, completed, ...) behave
like it here. `Takeout` says the same with no locks at all; `OrderClaim`
implements it with `phase <- orderState`, `takenBy <-` the batches that list the
order, `notices <- canceled`.

### Outbox (sync.rs `drain_outbox`, scheduler.rs `run_instant_batch`, notify.rs)

The worker is sequential: `pc` walks `top`, `drain` (with `post` while a request
to the webhook is out, and `ok`/`err` between an HTTP outcome and its
statement), `jobs`, `load`, `cards`. `Post` sends the request, which has no
timeout (sync.rs:1065): its answer may come, be an error, be lost, or never
come. Every delivery is one
action and its record another, so the process can die in between (`Interrupt`,
which also stands for a failing `mark_*` statement leaving the loop). The
channels `posted` and `carded` count what the outside really took; `AnswerLost`
and `CardAnswerLost` count a delivery the worker believes refused. `wait` is the
number of minutes to `available_at`. `config` is what the environment enables,
any of the possible combinations.

src/README.md:168 says that an urgent event of the night is put off in the
outbox, its `available_at` "pushed to the next work start". Nothing in the code
does that; the event stays available, and is not sent in the night because the
drain and the instant batch run in the working hours only. The model follows
the code.

`Delivery` promises the same without polls, lists, marks or process: an event is
shown, alone or with others, when every earlier showing of it is in doubt, then
settled; what is shown and not yet settled may be forgotten, all at once. The
mapping counts both channels as showings, takes `Unrecorded` (the row whose
answer is in hand, the rows of the card not yet marked) for what is shown and
not settled, and `lost` for what is in doubt.

### Workday (sync.rs `run_worker`, scheduler.rs `tick`)

One turn of the loop is `Wake` (work hours; in them a dead session ends the turn
at once, which is a turn that changes nothing), `Sync`, the drain of the outbox
(`Drained`: what it does is `Outbox`'s, here it only ends or does not), then the
four jobs in their order (`pc = "due"`, `job`), then `EveningSync` or `SkipEvening`. `tick`
reads the day once (`yday`), but the clock anew at each job, and `Clock` may
move between any two steps. A job that returns `Ok` sets its guard (`Succeed`);
any error leaves it and goes to the next job (`NextJob`). `TakeBatch` commits
membership; `Render`, `SendMail`, `BatchFails` and `MailAnswerLost` are what
follows. `Hanging` names the two places where the loop waits for a request that
has no timeout, the webhook and the mail. `Restart` empties the loop's memory. The API process batches
(`ApiBatch`) and refreshes (`ApiRefresh`) at any time.

Abstractions: `create_batch` is one step, its detail is `OrderClaim`'s; the
card's membership test does not look at BigSeller's own print marks (an order
printed at BigSeller but in no batch adds nothing to the questions asked); an
order's day is the day it was placed (`ordered_at`); the container's local time
is WIB, as the deployment sets it; `ordinal()` days do not wrap round within the
bound; the bucket `platformProcessing` of the evening sync is left out.

### Mirror (sync.rs, ondemand.rs, pack.rs, resi.rs)

`truth` and `marked` are what BigSeller would answer now, `row`, `printed` and
`age` what the table says, `writer` a history of who wrote a row last. A pull
fetches a page (the entries go to `hand`), and writes its rows one by one: what
is written is what was true when the page was fetched. The worker's turn is the
sequence `AfterBucket`: new, reconciliation (only after a pull of New that
succeeded), processing, shipped on some turns, and the two buckets of the
evening sync, which run whatever became of each other. The reconciliation takes
the newest stale rows up to `Cap`, searches each, writes what it finds, archives
the old ones it misses, and leaves the rest. Tasks of the API server do the same
pull and reconciliation on request, or search for a packed order; `resi` marks
labels. Orders in a page keep the order of the listing, so an order that leaves
a bucket moves the rest up over the page limit.

Abstractions: time is counted in turns (`Window`, `Horizon`); a search fails,
finds the order, or does not (`Hidden`).

The pulls stop at a page cap (`MaxPages`): 40 pages of New, 2 of processing, 12
of shipped and 80 of each bucket of the evening, of 50 rows each (sync.rs:401,
974, 986, 582). What lies beyond the cap of its bucket is not pulled. `WithinCap` names
the others, and `Converges` speaks of orders that stay among them; in the runs
the caps of processing and shipped are one page of one row, so that a second
order in the bucket is beyond it.

Of note: an order that completes is in no bucket the worker pulls, so its row
stays behind (`Converges` says so); when as many unfindable rows are stale as
`Cap` allows, the reconciliation looks up nothing else until the rows behind
them are past the thirty days it goes back, so `HealsNew` is conditional;
`sync_cancel_related` swallows the errors of its buckets, so an evening whose
calls failed counts as done, and what it missed waits for the next day.

### Session (sync.rs, auth.rs, session.rs, accounts.rs, client.rs, ondemand.rs, pack.rs, main.rs)

A cookie jar is a number in the order of issue; BigSeller accepts those from
`base` on. The worker starts (`Start`), probes and pulls; an expired session
makes it log in (`Relogin`) once for a turn's probe and once for each pull, if
`AUTO_RELOGIN` is set. A login reads captchas (`Refused`, `Exhausted`,
`Accept`), writes the file in two steps, as `fs::write` truncates before it
fills, and then the row. `orders login` does the same as another process
(`Person`), and `persist_session` writes the live cookies of the worker back
after every turn that pulled New. Tasks of the API server take the session from
the file and never log in. Sessions end (`EndedElsewhere`); any answer, to the
worker or to a task, may bring its client a new jar, up to `MaxRotations`
(`Answered`), and BigSeller forgets the older ones at some moment (`Forget`); a
task's new jar goes with its client (`Over`), so that the worker, and the file,
may be left with one that is no longer accepted. A start and a person's login
copy the file to the row by the way (`Bootstrapped`). Calls and writes fail, and
either process is killed. "sync" stands for all that read the file for calls of
their own: the on-demand run, the labels, the CLI, the refresh after a packing.

Of note: `is_valid` of `bs_sessions` is never set to false
(`mark_session_checked` is only called with true) and the row is never read
back; after every turn the file is empty for a moment to whoever reads it; a
`persist_session` over a half-written file writes it without token and account;
a jar replaced in the answer to a probe, a reconciliation, a packed bucket or
the evening's cancel sync is not saved before the next new sync; and an expired
session answered in a 200 envelope is not an authentication error for
`post_form`, so that such a packing ends with "nothing to pack".

### Desk (store.rs, api.rs, resi.rs, App.tsx)

A reader changes nothing another reader looks at, so a behaviour follows one
`kind` of reader, chosen at its beginning: the operator who pages through a tab
(rows and total are two queries), the consumer of `GET /v1/events`, the print
dialogs of two desks, and the reports. Beside it syncers write in transactions:
`Upsert` draws the ids of the outbox rows, `Commit` makes row and events
visible. A label dialog is opened for the labels not printed yet
(`AskUnprinted`) or for the orders an operator selected, printed or not
(`AskSelected`: the selection outlives the dialog), gets its answer (`Prepared`;
`PrepareRefused` beyond 300 orders),
prints (`Wave`), confirms at BigSeller (`Confirm`) and marks the rows (`Mark`);
it can be closed at any time while its calls go on, and any call can be lost.
What a selection prints again is the operator's choice, so `PrintsHaveACause` is
about the dialogs that are opened for the labels not printed yet, beside any
that are opened for selections. `feed.stay`, `feed.left`, `late`, `again` and `shared` are histories that
properties name.

Of note: the comment at store.rs:764 calls the tabs "plain state" while they
are scoped to the day; the urgent filter of the feed does not know Anteraja,
which `is_urgent_carrier` does; the dialog confirms all ids it was opened for,
also those BigSeller had no label for or the plugin failed on; a dialog that was
closed while it prepared and opened again gets the answer of the other call;
labels not printed by midnight leave the list.

### Reports (store.rs, daily_report.rs, daily_infographic.rs, carrier_day_list.rs, batch_pdf.rs, webhook.rs)

Each report is an operator over the table of `Desk`, with the filters of its
queries, and `ReportsAgree` relates their numbers in every table two orders can
be in: days partition the orders, breakdowns add up to their totals, the day on
the dashboard is the day in the rekap and on the cards. Where the numbers differ
by design of the queries the property says by what: orders without a platform
are counted as "lainnya" but their money is not found under that name; rows
without `ordered_at` are on no dashboard; archived rows are in the rekap but not
on the dashboard. The limits of the queries are constants (`SkuCap`,
`ReportCap`, `GroupCap`, `MaxCard`), and what is of no importance to the answer
of a limit is any choice (`Newest`).

The costs on the cards are not modelled: `product_names.rs` takes skus and
articles apart in ways of its own (`OB-0125-B-L` is looked up as `OB-0125B-L`),
so they may differ from the dashboard's, and no property says they do not.

### Paper (batch_pdf.rs and the cards)

The size of a page or card is reckoned before it is drawn, by another formula.
`RoomOf` against `Divider` and `Pages` for the Summary List (1-up and 2-up); `InstantRoom` against `InstantDrawn`, `CancelRoom` against `CancelDrawn`,
and the fixed boxes of the rekap, the carrier list and the infographic. Of texts
only the length matters, by the wrapping both sides share.

Of note: a row of more than 77 lines of packages fits no page, and leaves an
empty first page when it is the first row; a row as high as its picture uses a
little more than it asked for; both are allowed for in `SheetsFit`, as nothing
says otherwise. The footers are not modelled.

## 4. Runs

| Run | Instance | What it shows |
| --- | --- | --- |
| `order_claim` | 2 orders of 2 shops (one urgent, one ancient), 2 upserters, 2 claimers, 2 batches, 3 upserts; symmetry in tasks and batches | `ExclusiveClaim`, `PdfListsMembers`, `CanceledClaimNotified`, `CreatedOnce`, `ClaimsOnlyNew`, `CancelReportedOnce`, and the refinement `ImplementsTakeout` |
| `selection_race` (violation) | the same | a selection one of whose orders goes into another batch between its snapshot and its lock fails as a whole, against the doc comment of `create_batch_from_selection` |
| `outbox` | 4 rows (two urgent), polls of 2 and 3 rows, cards of 2, 2 attempts, 1 fault, every configuration | `SentWasDelivered`, `RepeatsOnlyAfterLoss`, `GivesUpAtMaxAttempts`, `SettledForGood`, `BackoffRespected`, the refinement `ImplementsDelivery`, and `EverythingSettles` |
| `outbox_no_wazapin` (violation) | 3 rows, polls and cards of 1, 1 fault | an urgent row is never posted to the webhook when there is no Wazapin, against the comment at sync.rs:1104 |
| `workday` | 2 orders, 1 day of 3 slots (night, work, evening), 1 fault | `PickListMailedOnce`, `RepeatsOnlyAfterRestart` |
| `workday_live` | 1 order, 2 days of 2 slots with no night between, no fault | `BacklogTaken`, `FailureIsContained`, and `RepeatsOnlyAfterRestart` across midnight |
| `cancel_card` (violation) | 1 order, 2 days, no fault | the cancel card is done before the evening sync finds the cancels it is for |
| `batch_mail` (violation) | the same | a batch whose PDF or mail failed is not retried: the backlog is empty by then |
| `mirror` | 2 orders, pages of 1, cap 1, the worker and one task of the API server, one label, 1 fault | `NoStepBack`, `ArchivesTheUnseen` |
| `mirror_live` | 2 orders, pages of 1, page caps of 1 and 2, cap 2, one order the search loses, the worker alone, 1 fault | `Converges`, `HealsNew` |
| `session` | 1 captcha a login, 1 task at a time, 2 disturbances, of which 1 may be a replaced jar, with and without `AUTO_RELOGIN` | `LoginsHaveACause`, `DeadOnlyIfOvertaken`, `Recovers`, `CopiesCatchUp` |
| `desk` | 2 orders (one undated, one without a label), a midnight, 2 syncers, 2 desks that also print a selection, pages of 1, 1 fault; symmetry in desks | `MissedOnlyIfLate`, `PagingSkipsAtMostTheLeavers`, `PrintsHaveACause`, `ReportsAgree`, and on paper of 6 rows and cards of 2 orders `SheetsFit`, `CardsFit` |

The runs `order_claim`, `outbox`, `workday`, `mirror`, `desk` and `session` also
check the type invariant of their module.

Why the bounds are enough. The claim's races are between two transactions of a
kind over one order and are told apart by a second order of another shop; three
upserts let an order be new, canceled and read again. In `outbox` a poll is
shorter than the table, so there is a blocked head, and two attempts reach the
give-up. In `workday` one fault (a restart, a lost answer, or a row skipped as
locked) is enough for each repeat, and two orders make partial takes possible;
two days are needed only for midnight, which `workday_live` puts right after the
working evening. In `mirror` a page of one row makes a second page, the least in
which rows shift; a cap of one makes the second candidate wait; a page cap of one cuts off
the second order of processing or shipped; two syncers are what a crossing
takes. In `session` two disturbances are the least in which a
session ends again while the first login is written, or a process dies after one
write of another, or a task loses a jar and one of those happens. In `desk` a page, an answer and a print run of one make the
second order the one that is skipped or left over; a selection is of the order that has
a label; the cap of a rekap, a report and a card
is reached by two orders. The safety properties that
have a theorem hold for every value of the constants, so the bounds matter for
the rest only: liveness, and whether the interesting cases happen at all.

Deadlock is checked in every run but `desk` and `session`: readers may have
nothing left to read and all moves be made, and without `AUTO_RELOGIN` and a
session file the worker ends with an error until a person logs in.

Bounds in the models: `MaxUpserts` (transactions begun), `MaxFaults` (crashes,
lost answers, skipped rows), `MaxDay` (days), `MaxSpent` (sessions ended, calls
failed, crashes, logins by a person, and replaced jars), `MaxRotations` (the
jars replaced by an answer among them), `MaxTasks`, `MaxCalls`,
`Selections` (what an operator selects), `Slots`, `Flow` and `Beside` (what happens beside each kind of reader; the clock
of `Desk` moves only for the feed and the reports), the ids `BatchIds`,
`Events`, `Orders`; in `Paper` `RowLines` {0, 3, 17, 90}, `MaxRows` 6, `Lengths`,
`MaxWords`, `Lines`, `MaxOrders`, which reach past every limit the layout sets
(a row too high for a page, three pages, a note longer than its lines). The
layout does not depend on the table and is looked at in one state of `desk`.
Symmetry is used in `order_claim`, over tasks and batches, and in `desk`, over
the desks, which no property names and no liveness property is about.

### Fairness

The loop of the worker awaits one thing after the other. BigSeller's client has
a timeout (client.rs:64), Wazapin's too; the webhook (sync.rs:1065) and the mail
(email.rs:81) are requests of a client without one, and may never be answered.
So no fairness is assumed of the step that follows such a request, and what
rests on the loop going round is conditional on `[]<>` no request being out: an
endpoint that answers, if only with an error, or a connection that breaks. An
endpoint that stays silent holds the outbox, the jobs and the evening sync for
as long as it does.

`Outbox!FairSpec`: minutes pass (`WF Minute`) and the loop goes on except while
a post is out (`WF pc # "post" /\ WorkerStep`). `SF BeginDrain` and
`SF BeginInstant`: working hours and the instant interval come round for ever.
`SF SendCard`: a card tried again and again is some day accepted. Nothing is
assumed of single cards or of what the webhook answers: such rows settle by
being given up.

`Workday!FairSpec`: `WF Clock`, `WF` of the loop's step except while it is
`Hanging`, and, as a day in the model has room for as many turns as one likes,
strong fairness of each job's first successful step (`Begin(j)`: the database
answers), of the cancel card being accepted and of the evening sync finding a
session. The mail may be refused on every turn, the PDF and the summary card may
fail on every turn (`FailureIsContained` is about just that), and nothing is
assumed of the session in working hours.

`Mirror!FairSpec`: the worker's turn begins again and again (`WF BeginTurn`) and
its steps go on (`WF Step("worker")`). Faults are finitely many; nothing is
assumed of the tasks of the API server or of the orders.

`Session!FairSpec`: the loop goes round (`WF Turn`), the working hours come
every day (`SF BeginTurn("new")`), a login that was begun ends (`WF LogsIn`,
`WF Copied`), and a captcha tried again and again is read sooner or later
(`SF Accept`). The requests of the module itself have timeouts; that the loop
goes round takes it that no webhook or mail holds it for ever, as above.

## 5. Proofs

Each theorem is `Spec => []Inv` (or an action property) for all constants that
satisfy the module's one assumption (`ClaimAssumption`, `OutboxAssumption`,
`WorkdayAssumption`, `MirrorAssumption`, `SessionAssumption`, `DeskAssumption`,
`ReportsAssumption`, `PaperAssumption`: types, disjointness of ids, positive
limits).

* `OrderClaimProofs`. The inductive invariant ties locks to transactions
  (`OrderLockOwned`, `ShopLockOwned`), and says what a transaction's locals are
  still worth: `HeldIsNew` (a claimed row stays new), `PrevFresh` (the previous
  state read without a lock is right about *absent* and *canceled*, the two
  things the commit asks: the shop lock keeps other upserts away, and archiving
  changes neither), `MembershipFresh` (no claim can commit the row between the
  membership test and the commit, for it would need the row lock) and
  `RenderMatches`. Without them none of `ExclusiveClaim`,
  `CanceledClaimNotified`, `CreatedOnce`, `PdfListsMembers` is preserved. From
  it follow the action properties `OnlyNewIsClaimed`, `CancelIsReportedOnce`,
  and `ClaimImplementsTakeout`: each commit is one step of `Takeout`, all else a
  stutter.
* `OutboxProofs`. `Memory` and `MemoryFresh` say what the lists in memory hold
  (rows still pending and available, by kind), `InFlight` names the deliveries
  not yet recorded, and `Counted` says how many deliveries every row has had by
  whether it is recorded or in flight. They give `SentMeansDelivered`,
  `DeliveredOnceUnlessLost`, `GivenUpInTime`, `SettledStays`, `BackoffHolds`,
  and `OutboxImplementsDelivery`: each step of the worker is one step of
  `Delivery` or a stutter (`StepImplementsDelivery`). That needs `Counted` to be
  exact while a row is pending, for `Delivery` shows an event only when all its
  showings are in doubt; what an interrupted loop leaves unmarked is forgotten
  together (`Interrupt` is `Forget`, or a stutter with nothing in flight).
* `WorkdayProofs`. `GuardsBehind` (neither the turn nor a guard is ahead of the
  clock), `InHand` (the card in hand was not sent today, the batch in hand not
  mailed), `MailedWasTaken`, and `SentInVain`: a card of a day on which a tick
  is under way or can still begin, and which the process does not know to have
  sent, was sent only with a lost answer or before a restart. The day of the
  turn may be older than the clock's, so the case of midnight inside a turn is
  in `Open(d)`. They give `MailedAtMostOnce` and `CardOnceUnlessRestarted`.
* `MirrorProofs`. `RowIsPast` and `HandIsPast`: the table and every answer in
  hand are BigSeller at an earlier time, and its orders only move on.
  `OwnIsOlder`: what a syncer wrote last is no later than what it is about to
  write, so a step back needs another writer (`OneSyncerNeverStepsBack`).
  `PendingApart`, `Unseen`, `SelectsFirst`: a candidate still to be looked up is
  in no page in hand and was stale when selected, unless another wrote it since
  (`OnlyTheUnseenAreArchived`). `NeverAhead` states the first two as a theorem:
  no row is ever ahead of its order.
* `SessionProofs`. `InHand`: what a login or a snapshot is about to write was
  accepted by BigSeller at the `base` it remembers, so a dead session in the
  file was overtaken (`DeadOnlyIfLate`). `Paid` is an account of the logins: the
  worker's logins, plus one while it has no accepted session and none on the
  way, plus one while a person's login has not yet ended the others' session,
  stay within one plus what was spent and robbed (jars BigSeller stopped
  accepting while the worker held them, a task's new jar among the reasons). It needs `ComingIsNewer` (the session of
  a login being written is newer than the one in use), `LoginWanted` and
  `OffIsOut`; that a base only grows and never passes a jar in use but by a
  disturbance or a login does the rest (`EveryLoginHasACause`).
* `DeskProofs`. `IdsDrawn`, `IdsApart` and `CursorStands` (an id belongs to one
  transaction and then to one event, the cursor is on an event) give
  `MissedAreLate`: an event below the cursor that the consumer did not get had a
  greater id before it, for any page size, by comparing the events up to two ids
  as finite sets. `MarkedOrComing` (a printed label is marked, or its mark is on
  its way, or was lost), `SharedKnown` (two dialogs with an order in common both
  know) and `Excused` give `EveryPrintHasACause`.
  Paging rests on ranks: the rank of an order is the number of orders ahead of
  it in its tab. `FewMoveUp`: when orders leave the tab and others come, a place
  below the offset of the next page is taken by no more of the old ones than
  left (`RankFalls`, and an injection from orders into places). `DatesStand`: an
  order keeps the date its row is sorted by, which rests on the creation time at
  BigSeller never changing. `PagingInv`: of the places already read, no more
  orders of the tab are still to be shown than left it. At the last page every
  place is read, which is `PagingMissesTheLeavers`.
* `ReportsProofs`. The invariant is `Sound`: the types of `Desk`, `DatesStand`,
  and `TimesPast` (an order was placed, and a row without a date was first
  seen, no later than now), without which today's orders could be of no day
  until now. The rest is arithmetic over the table: sums over finite sets of
  orders and lines (`TotalParts`, `TotalByKey`, `CountByKey`: a sum by group is
  the sum), that the lines of a union of orders are the union of their lines
  (`LineSums`), that the groups a rekap shows exist and are no more than all
  (`TopExists`, `RekapQty`), that a query which is not full returns all there is
  (`NewestAll`, `RekapAndCancels`), and that a bar has the orders of the rekap of
  its day (`BarsDays`). They give `ReportsAlwaysAgree`, and
  `EveryWindowAddsUp` for windows of any length, where the run looks at two.
* `PaperProofs`. `NotesFit`, `EveryCardFits` and `EveryListFits` hold for every
  sequence of words, orders and rows, and `CardsAlwaysFit` and `SheetsAlwaysFit`
  follow for every bound. `Wrapped` is what holds after each word of a note: the
  lines follow each other and none is too long but a single word. `Laid` is what
  holds after each row of a Summary List: sheets are numbered one after the
  other, every row ends above the foot or is alone on its page and too tall for
  any, and the next row begins below the last. A row put beside another on a
  page leaves it at least 211 tenths of a millimetre above the foot, so no page
  but its own has a row that is too tall (`LaysHere`). `EndsAre` counts the last
  pages of sheets, and `EachFits` bounds what is drawn of one order, which
  `TotalRoom` adds up.

Induction over data. The induction theorems of the proof library take a
predicate as a parameter, which the provers at hand cannot instantiate. Here a
predicate is a set: `Induct` (a set of naturals with 0 and every successor is
all of them), `InductSets` (a set of subsets, with the empty one, that has every
set whose parts less one element it has) and `StagesInduct`. That what is
defined step by step exists at all is proved once: `FoldExists` for folds over
finite sets, from which `TotalIs` gives the equation of `SumFunctionOnSet`, and
`StepsExist` for the recursive functions of `Paper`.

Only model-checked: the liveness properties `EverythingSettles`, `BacklogTaken`,
`FailureIsContained`, `Converges`, `HealsNew`, `Recovers` and `CopiesCatchUp`
(fairness is out of the prover's reach), and the violations. Every safety
property of a passing run has a theorem.

## 6. Not modelled

* `ocr.rs`, `screen_ocr.rs`: neural-network inference and text heuristics;
  whether a captcha is read is a choice of `Session`. `crypto.rs`, `orders.rs`:
  encodings and URLs; requests are modelled by their outcomes.
* `config.rs`, `db.rs`, `error.rs`, `lib.rs` and most of `main.rs`: parsing,
  pool creation, error types, commands that run one function of the library.
* The names and colours in `product_names.rs` and its article lookup, and with
  the lookup the costs printed on the cards (the dashboard's match by article is
  in `Reports`, the card's is not: the two differ on a sku such as
  `OB-0125-B-L`, and no property compares them). The CSV reading of
  `catalog.rs`, money and addresses in `map.rs` are pure functions that no
  property tells apart.
* The footers of the Summary List.
* The log tables `sync_runs` and `sync_cursors`: nothing decides on them.
* The historical backfill of the command line (sync.rs:597-642): the page loop
  of `Mirror` under a date filter, run by hand.
* Parameters, access keys and static files of `api.rs`; recognising a command
  and delivering its answer in `webhook.rs`; the display in `src/web`.
* Wording, ranking, fonts and colours of the cards.
* A worker restarted in the evening sends the cancel card of the day again, as
  its guards live in memory; `RepeatsOnlyAfterRestart` allows for it.

Where the code differs from what the repository says of it, and no run shows it:

* The comment at pack.rs:69 says that the session file is reloaded once before
  the retry. The second verification uses it; the submit that follows goes out
  with the client of the first load, whose session was refused.
* batch_pdf.rs:6 says "Footer every page". In 2-up a sheet gets one footer, in the
  column it ended on; that of the last sheet is drawn under the transform its
  page left in force, so it is scaled and moved twice.
* store.rs:1396 calls the window of the analytics "WIB-anchored". It goes back `n`
  times 24 hours from now and touches `n + 1` calendar days, of which the bars
  show `n`: what was sold before the first bar is in the totals only.
* store.rs:1283 says "exact first, then the longest dash-prefix". Beside the sku
  only its first three and two segments are looked up.
* daily_report.rs:3 says that rows of the same sku and variant are merged. They
  are grouped by the name of the product too.
* sync.rs:780 says that the cookies are kept so that nobody reads a stale jar. A
  jar that came with any other answer than a new sync's is saved only after the
  next one.
* src/README.md:174 says that the reconciliation converges, whatever
  `RECONCILE_CAP`. As many rows the search does not find as the cap has place for
  hide those behind them until they are too old to be candidates.
* src/README.md:168, on the events of the night: see Outbox in section 3.
