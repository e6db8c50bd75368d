# TLA+ models of the campaign orchestrator

The orchestrator (Go, `src/cmd`, `src/internal`) sends campaign messages from
several MAX accounts of a tenant.  It doses targets under anti-ban limits,
passes them through an outbox to RabbitMQ, takes the results of external
workers, registers replies and notifies admins.  Everything of interest
happens between goroutines that share Postgres tables, one in-memory cache and
at-least-once queues; the repository has no test of any of it.

Modules model the state and the handlers; `MC*.tla` and `*.cfg` are instances
for TLC; `*Proofs.tla` hold proofs for `tlapm`.  `PROJECT.json` maps every
definition to source lines and lists runs, mutants, findings, hazards and
theorems.

## Inventory

| Part | State | Operations | Interacts with |
|---|---|---|---|
| Domain rules (`domain/models.go`, `errors.go`) | none | status ranks, error classes, what each writer does to a target row | all below |
| Campaign doser (`worker/campaign_doser.go`, `repository/anti_ban.go`) | locals of one tick | list accounts, quota, pick, reserve cold slot, assign and enqueue, count warm | targets, quotas, usage, outbox |
| Limits (`repository/anti_ban.go`) | `tenant_accounts.cooldown_until`, `tenant_account_daily_usage`, `tenant_daily_quotas` | reserve, increment, cool down | doser, result consumer |
| Outbox worker (`worker/outbox.go`) | ids processed so far in a tick | fetch, publish with confirm, reject blocked, skip, mark | outbox rows, send queues, results queue, blocklist cache |
| Result consumer (`worker/result_consumer.go`) | `rc.results`, `rc.mu`, the AMQP channels | receive, flush, ack/nack, notify, reconnect | results queue, targets, blocklist, notify queues |
| Chat routing (same file, `postgres.go:659-864`) | `chat_phone_mappings`, `admin_chat_phone_mappings` | upsert, resolve | result consumer, doser (warm targets) |
| Blocklist cache (`blocklist/cache.go`) | a map in an `atomic.Value` | `IsBlocked`, `Add`, `Refresh` | `tenant_blocked_recipients`, outbox worker, result consumer |
| Scheduler (`worker/scheduler.go`) | goroutines about to start a campaign | list ready, start | campaign row |
| Campaign row (`repository/postgres.go`, `usecase/campaign.go`) | status, counters | start, stop, complete, count, whole-row update | scheduler, HTTP, results, replies, report |
| HTTP handlers (`transport/http.go`) | none | upload, stop, worker callback, replies webhook, report | all tables |
| Reply poller (`worker/poller.go`) | `isRunning`, a channel | publish chunks of unanswered targets | poll queue |
| Websocket hub, storage, logging, config, phone parsing | connections, files, none | | |

### What is hard, and what makes each part correct

* **Send pipeline** (doser, outbox, workers, consumer).  Queues redeliver, the
  process may crash between confirm and mark, results arrive twice and out of
  order, the callback and the consumer write the same row, and a channel that
  closes stays closed until a restart.  Correct means: no attempt is lost between claim and queue, a row is published no more often
  than faults explain, the retry budget holds, a closed target is not
  reopened, one attempt is in flight at a time, and, as long as a restart follows
  when a channel closes, everything in flight is eventually resolved.
* **Dosing.**  A tick is six statements, each using what an earlier one read;
  limits are counted on two different dates (local and UTC).  Correct means:
  the daily limit of an account and the cold quota of a day are never exceeded,
  cold messages are paced, the warm quota and the cooldown are exceeded by no
  more than the one statement that may be lost or stale.
* **Campaign lifecycle.**  Stop races the scheduler, the doser, completion and
  a report that rewrites the whole row.  Correct means: a stop is not undone, a
  stopped campaign doses at most one more target, completion means that every
  target replied and happens when they have, progress is counted, a due draft
  starts.
* **Replies.**  Two goroutines flush under one mutex held through sleeps of a
  minute; registration commits before the acknowledgement; `Add` and `Refresh`
  race.  Correct means: an acknowledged reply is registered, no registration
  is notified twice, an unsubscriber reaches the cache and stays there, every
  reply is eventually registered, the flush returns.
* **Chat routing.**  A chat belongs to one account, a recipient may be given to
  several, and one row per recipient is all that is remembered.  Correct means:
  the chat of a row or a task belongs to the account beside it, a reply is
  announced by the account that observed it, in that account's chat with the
  admin, and an answer in a reported chat finds its recipient - each of them
  for every recipient that one account alone was given, and the comments of the
  source claim no more.
* **Upload and report.**  A pipeline of goroutines with bounded channels, and an
  index of rows that two pieces of code compute independently.  Correct means:
  the upload terminates, makes one target per usable row or none at all, and
  the report writes each target into its own row, each value under its own
  column, except on the sheets the properties name.
* **A target, from outside.**  Whatever all of these do side by side, a target
  is dosed within its budget, never beside an attempt that is recorded as in
  flight, with one outbox row per dose, and never after it was closed.

## Modules

* **`TargetLifecycle`** - the abstract specification: the phase of a target
  (waiting, in flight, retry, closed), its doses and the outbox rows ever
  written.  `SendPipeline` and `CampaignLifecycle` implement it
  (`ImplementsLifecycle`); `Domain!Phase` reads the phase off the row.
* **`ReplyDelivery`**, **`CampaignUpload`** - the abstract specifications of the
  consumer's replies (a reply is registered, with its text and the block of an
  unsubscriber, then taken from the queue, and each admin told at most as often
  as it was registered) and of the upload (refused,
  or one step from the sheet to the targets it determines).  `ReplyHandling` and
  `ExcelReport` implement them (`ImplementsDelivery`, `ImplementsUpload`).
* **`Domain`** - the status functions.  `UpdateTargetStatus`,
  `ApplyRetryableFailure` and `MarkTargetDeliveryUnknown` give the status (and
  whether a retry was granted) that the statements of the same name leave in a
  row; `StatusAfterResult` and `StatusAfterCallback` are what `flush` and
  `UpdateTargetStatusWithCode` make of them.
* **`SendPipeline`** - one campaign in processing.  `SelectTarget` and
  `AssignAndEnqueue` are two steps because the doser reads and claims in two
  transactions; an outbox row is identified by target and attempt.
  `FetchBatch` / `PublishRow` / `RejectRow` / `SkipRow` / `MarkProcessed` are
  the tick of the outbox worker, `ConfirmLost` and `MarkFails` its failures.
  `WorkerSend` and `RecipientReport` are the external worker.  `TakeResult`,
  `ApplyResult`/`ApplyReply`, `AckResult` are delivery, commit and
  acknowledgement; `ResultRedelivered` and `Crash` fall between them.
  The channels are state.  `amqpChan` is the one channel of the outbox worker: once
  closed, by `ChannelCloses`, a lost confirm or a lost blocked result, every row of
  every tick is left pending (`LeftPending`) until a `Crash` restarts the process.
  `consumer` is the delivery loop: `RunExits` ends it for good when its deliveries
  have, after it was handed what the library still held (`buffered`), and
  `AckAndHang` leaves `flush` waiting for its own mutex.  A row of a `Cold` target
  may be left pending at any tick, a warm one on an open channel by a fault only.
  A restart is a fault, except one that follows the closing of the outbox channel:
  the closing was counted.  The campaign lists a phone once, so that a target stands
  for its phone, by which `RegisterReply` finds it.
* **`Dosing`** - time in slots, days in two calendars.  `tick` holds the locals
  of `doseTenant` and `scheduleTarget`: the instant, the listed accounts, the
  chosen target and account.  Each database call is an action.
* **`CampaignLifecycle`** - the campaign row.  A reply is a transaction of
  three steps (`ReplyUpdate`, `ReplyCount`, `ReplyCommit`) at READ COMMITTED
  with the row lock of the update; a report is `ReadCampaign` and, later,
  `WriteCampaign`; the scheduler is `ListReady` and, later, `StartCampaign`.
* **`BlocklistCache`** - table and map, with the load and the store of `Add`
  and the listing and the store of `Refresh` as separate steps.
* **`ReplyHandling`** - extends it with the result consumer's treatment of
  replies: `Receive` and `Append` (Run), `Tick` (flushLoop), `BeginFlush` to
  `Notified` (flush, in the order of the source), `Reconnect`, the webhook and
  a late failure beside it.  `CheckDuplicate` may go on to register a reply that
  is a duplicate, since the read may fail and the two answers may be too far apart in time.
* **`ChatRouting`** - `chat_phone_mappings` with its upsert and the fallback
  for a phone it does not match (`Upsert`), the selection of a target with what
  was read of its row (`SelectTarget`) and the later assignment to an account
  (`AssignAndEnqueue`), the worker (`SendSucceeds`, `SendFails`,
  `ClientReplies`, `NotifyAdmin`) and the four kinds of result the consumer
  tells apart.  `DropReply` is a reply that no row resolves.
* **`ExcelReport`** - `ReadRow` ... `CloseJobs` (the reader), `TakeJob` and
  `SendTarget` (the pool), `Collect` and `FinishUpload` (the handler);
  `GenerateExcel` looks the rows and columns up again.
* **`*Proofs`** - theorems: `DomainProofs` (what the row rules can do to a
  status, used by the three after it), `SendPipelineProofs`, `FlightProofs`,
  `CampaignProofs`, `DosingProofs`, `ReplyProofs`, `RoutingProofs`,
  `ExcelProofs`.

What is external (workers, RabbitMQ, Postgres) is modelled from its use in
`src/`: durable queues that redeliver what is not acknowledged, transactions
that are atomic unless split into steps above.

## Runs

| Run | Question |
|---|---|
| `send_pipeline` | one target, every kind of result and callback, one fault: rows per attempt, copies per row, one attempt in flight, refinement of `TargetLifecycle` and with it the budget |
| `send_liveness` | a cold and a warm target, a batch of one: no row lost; if closed channels are followed by restarts, the outbox drains and dosed targets are resolved |
| `dosing` | two targets, two accounts, three slots with a local and a UTC midnight between them: all limits |
| `campaign` | two targets, two overlapping replies, a report, scheduler, stop: status and counters, refinement of `TargetLifecycle` |
| `replies` | two unsubscribing clients, both flushing goroutines, refresh, webhook, two faults: safety of replies and cache, refinement of `ReplyDelivery` |
| `reply_liveness` | two replies of one client: registration and cache catch up |
| `routing` | two campaigns, two accounts, a client who is an admin too, one fault: which chat, account and target an answer is routed to |
| `excel` | every sheet of up to four rows and every header of a client or an earlier report: refinement of `CampaignUpload`, and the indices of the report |

Four runs end in a violation on purpose; each contradicts a line of the source.

| Run | What TLC shows | The line it contradicts |
|---|---|---|
| `single_flight` | a redelivered failure reopens a target whose next attempt is in flight | `anti_ban.go:124-127` |
| `viewed_replied` | a late final failure overwrites viewed or replied | `models.go:84` |
| `completion_skew` | two overlapping replies each miss the other, the campaign never completes | `postgres.go:613` |
| `notify_reconnect` | flush waits for the mutex it holds | `result_consumer.go:732` |

Every property of a passing run has a mutant of the code model that breaks it
under the same configuration.  The bodies of the mutants stand next to the
definitions they replace.

### Bounds

* Attempts: `MaxRetryAttempts` 1 to 3.  With 2, a retry and its exhaustion both
  occur; `single_flight` needs 3, so that a redelivered result finds another
  attempt to grant.
* Faults (`MaxFaults`): one, because each property speaks of what one crash,
  lost confirm, redelivery or closed channel does at any point (with the restart
  that follows the closing of the outbox channel, which is not counted); two in
  `replies`, because a lost acknowledgement and the restart that redelivers are two.
* Targets: one where the property is about the attempts of one row, two where
  it relates rows (fairness of the outbox, completion, shared accounts).
* `Dosing`: three instants, a day of two slots with the local day one slot ahead:
  local midnight falls between the first two instants, UTC midnight between the
  last two, so an account is listed by one date and counted by another on either
  side of both.  The work window's edge, a cooldown and its end occur.  One account may send three messages a day, one a single one.
* `MaxCount`, `MaxStarting`, `MaxWebhooks` cap counters that only observations
  or repeated identical operations raise.
* `campaign` has one attempt per target, since two exceed what can be enumerated:
  the retry phase of `TargetLifecycle` is not met in this run but in
  `send_pipeline`; the theorem about `CampaignLifecycle` holds for every budget.
* `routing`: one phone is enough for two accounts and two campaigns to compete
  for one row; two doses let a retry go to the other account.  One reply under
  way at a time.  Phones do not interact otherwise; the theorems have any number.
* `excel`: rows of five kinds (short, unusable, ten digits, trunk prefix, too
  many digits); four rows put two usable ones below and above a short one.
  Three workers with channels of one slot fill every channel.  Headers hold the
  four columns of the report and one other in any order: up to five of them when
  none stands twice, up to four when one may.
* The batch limit of 100 is 1 or 2: what matters is that rows are left behind.

`CHECK_DEADLOCK FALSE` stands where the modelled system may come to rest
(every target closed, bounds used up).  In the runs of
`ReplyHandling`, where the refresh always runs, and in `excel`, where a finished
upload can be reported on, deadlock is checked.

### Fairness

Weak fairness for each step of a loop that a ticker or a delivery drives, for
as long as the loop runs.  Strong fairness where a step competes for something
that is taken and given back: receiving one of several deliveries (the broker
delivers in order), acquiring `rc.mu` (a Go mutex hands over to a waiter that has
starved), a refresh whose listing may fail.  No fairness for faults, restarts,
the operator, recipients, the webhook or the report.  External: a worker answers
what it consumes, and the broker confirms or nacks what is published on an open
channel.

What the code does *not* do is not assumed either:

* The outbox worker handles every row it fetched, weakly fair; what becomes of the
  row is open.  On a closed channel all it can do is leave the row pending.  So
  `OutboxDrains` has a condition, `OutboxConnected`: the channel is not closed for
  ever.  Without a restart, it is, and nothing drains.
* A cold row is left pending outside the work window.  `Fairness` says only that
  the window comes back (strong fairness per cold target, of the step that
  publishes or rejects its row): a row that is among the oldest is fetched at every
  tick and stays there until then.  In `send_liveness` the batch holds one row, so
  that a cold row in front does hold the warm one up.
* Run is handed results while `consumer` is running.  When its deliveries have ended
  or `flush` hangs, `TakeResult` is disabled and fairness says nothing of it.  So
  `InFlightResolves` has `ConsumerConnected` as a condition too.  It excepts, besides,
  rows that were answered by the unconfirmed blocked result.
* `RepliesRegistered` names the closed delivery channel as its exception, in the same
  way.

That a restart follows is the operator's business: the program neither restarts
itself nor reports the state.

## Proofs

`tlapm SendPipelineProofs.tla` proves, for every set of targets and outcomes,
every batch limit, retry budget and number of faults:

* `TypeCorrect` - `Spec => []TypeOK`.  `TypeOK` alone is not inductive: a row
  of the batch must be a row of the outbox (`BatchOK`).
* `RowPerAttemptHolds` - exactly one outbox row per attempt.  Inductive with
  the types, because claim and row are written by one transaction.
* `NoRowLostHolds`, `CopiesBoundedHolds` - from `HandledInv`, which relates the
  copies of each row to where it is: not in the batch, in the batch, published
  and not yet marked, marked; a copy beyond the first is paid for by a fault.
  A restart that is not counted adds none: once the channel is closed no row has more
  copies than there were faults (`ClosedInv`), so that one more is within bounds.
* `OldestServedHolds` - a tick fetches a prefix of the pending rows in the order
  of `publish_at`, no more than the limit, the oldest among them: a row waits for
  older ones only.  `OrderInv` says that the order is total; the oldest row is
  found by the size of what is before it (`Extremes`).  This is the safety that
  `OutboxDrains` rests on; that older rows are not skipped for ever is the
  condition of that property and the return of the work window.
* `ReopenedByReportHolds` - no step sets a target back to an open status beyond
  its budget but two (`ReopenedBy`): a result that says `pending`, and a callback
  that names an open status with a code that the handler does not defer
  (`usecase/campaign.go:61`).  The code does not exclude either, so the theorems
  that need their absence say so of the behaviour: `[][~Reopens]_vars`.
* `AttemptBoundHolds` - from `BudgetInv`, as long as nothing `Reopens`.
* `ImplementsLifecycleHolds` - the refinement, under the same proviso.  Each step
  is a claim, a write of one status, or neither (`StatusStepOrReopens`); a claim
  is a `Dose`, a write a `GrantRetry`, a `Close` or a stutter (`PhaseMap`).
* `NeverReopensSuffices` - workers whose outcomes are none of those two are enough
  for the proviso, whatever is lost, repeated or late.  The outcomes of the runs
  are such.

`tlapm FlightProofs.tla` proves two halves of "one attempt in flight", as long as
nothing `Reopens`.  An attempt is followed as a token: a row to publish, then a
message, then a report to be applied.

* `SingleFlightWithoutFaultsHolds` - at most one.  `FlightInv` says that a target
  has one token at most, none while it waits for a retry, and that the result in
  hand has not left the queue.  `ConnectedInv`: without a fault both channels are open,
  so that no acknowledgement fails and no restart goes uncounted.
  Redelivery breaks it, as `single_flight` shows.
* `InFlightCarriedHolds` - at least one, with any number of faults: a target that
  is pending and was dosed has a row to be published, a message or an unapplied
  report of its current attempt, unless it was answered by the unconfirmed
  result of a blocked recipient.  From `CarriedInv`: a result that was applied has
  ended its attempt, so that its acknowledgement removes no carrier.  This is the
  safety that `InFlightResolves` rests on.

`tlapm CampaignProofs.tla` proves, for every finite set of targets, any number of
reply transactions and reports, every set of outcomes and every bound:

* `TypeCorrect`, `StopSticksHolds`; `LateDosesHolds` from `LateInv` (only the
  target that was selected before can be dosed late).
* `CompletedMeansRepliedHolds` - from `RepliedInv`: a copy of the row that says
  completed was read after all had replied, and a transaction that has counted
  all needs its own target at most.
* `ProgressCountedHolds` - from `CountInv`, which compares a cardinality with
  the counter after every status a target can take.
* `CompletedWithoutOverlapHolds` - from `LastReplyInv`, for a campaign with a target
  and as long as no step writes `replied` without registering the reply
  (`RepliedUnregistered`; a callback can, `usecase/campaign.go:77`).
  `RepliesRegisteredSuffices`: outcomes that never say `replied` are enough.
* `ImplementsLifecycleHolds` - as long as nothing `Reopens`, with a budget invariant
  of its own; `NeverReopensSuffices` as above.

`tlapm DosingProofs.tla` proves, for all targets, accounts, limits, intervals,
work windows, day lengths and offsets from UTC:

* `TypeCorrect` and `RefusedOnlyAcrossMidnightHolds` - with `TickInv`: what the
  tick read at its start still holds of the local day, since one goroutine doses.
* `DailyLimitKeptHolds` - from `DailyInv`: the usage of an account on a UTC day
  is the number of its messages, and the reservation tests it.
* `CooldownRespectedHolds` - `CooldownInv`: an account that has to cool down got a
  message since only if the tick had listed it before, and then that tick has
  no second one to give.
* `ColdQuotaKeptHolds`, `ColdPacedHolds`, `WarmQuotaKeptHolds` - `ColdInv`,
  `PacedInv`, `WarmInv`: a slot that was reserved belongs to the tick that
  holds it; a warm message is counted, being counted, or paid for by a fault.

`tlapm RoutingProofs.tla` proves, for all accounts, phones, targets, admins and
numbers of doses, replies and faults, `TypeCorrect`, `ChatsOwnedHolds`,
`NotifiedByObserverHolds`, `AdminChatOwnedHolds` and `AnswersRoutableHolds`.
Whom a phone was given to and which chats were written to only grows, so
`RoutingInv` describes each row, task, result and notification by itself
against these; the properties follow when one account alone was given the phone.

`tlapm ReplyProofs.tla` proves, for every set of replies, recipients and admin
phones and every number of webhooks and faults:

* `TypeCorrect` - with `LocalsInv`: a reply that was delivered and not
  acknowledged is in the hand of Run, in `rc.results` or in the flush, in one of
  them only, and still in the queue.
* `SingleResultHolds` - from `OneInv`: what was appended is flushed before Run
  receives again, by Run itself or by the ticker that came first.
* `AckedMeansRegisteredHolds`, `NotifyBoundedHolds` - from `RegisterInv`: a
  flush past its transaction has a row for its reply, and has notified nobody it
  still has to notify as often as there are rows.  The strengthening is needed
  for the duplicate check, which acknowledges on the strength of
  `last_reply_text` alone.
* `ImplementsDeliveryHolds` - the refinement of `ReplyDelivery`, from the same
  invariants: each step registers one reply, takes from the queue one that was
  registered, tells an admin who is still owed it, or is a stutter.
* `ReconnectWaitsHolds` - an action property from `MutexInv`: once flush is in
  `reconnect`, it holds the mutex it waits for, and until a restart nothing is
  flushed, acknowledged or notified.  `notify_reconnect` shows that it gets there.
* `CacheSoundHolds` - from `CacheInv`: not only the map but each copy of it that
  `Add` or `Refresh` has under way holds blocked recipients only.
* `SettledStaysHolds` - an action property, from `CacheInv`: a settled block
  leaves the map by a restart only.

`tlapm ExcelProofs.tla` proves, for every set of sheets, any number of goroutines
and channels of any capacity:

* `TypeCorrect` and `UploadCompleteHolds` - from `PlaceInv`: a row that was read
  and has a phone is in the channel of jobs, in a worker's hand, in the channel of
  results or collected, with the phone of its cell and the index its position
  determines: `r` less the short rows above it.  That index grows with every
  row that is not short (`IndexMonotone`), so it names one target.
* `ReportFaithfulHolds` - for every header, names that stand twice included.  Rows:
  what is shown in row `r` has index `r` (`RowsAlignedHere`).  Columns:
  `WithColumn` lengthens the header at its end only, and `WithSender` moves only
  what is right of the time (`ColumnsKeptHere`).
* `ImplementsUploadHolds` - the refinement of `CampaignUpload`: what was collected
  when the campaign is created is `Contents`, whatever the pool did.
* `NeverBlocksHolds`, `AdvancesHolds` - until the upload is finished one of its steps
  is possible, and each lessens `ToDo`, the work that is left (rows to read, jobs,
  holds and results weighed by what is still to happen to them).  Together they say
  that it ends, which takes induction over `ToDo` and is left to TLC's deadlock
  check.

The constants are assumed to be what their `ASSUME`s say (in `Dosing` and
`ExcelReport`, `IdleAssumption` keeps the idle value apart from the others;
`WorkerAssumption` says that the pool has a goroutine and no infinity of them),
nothing more.

Only model-checked: the liveness properties (`OutboxDrains`, `InFlightResolves`,
`DraftStarts`, `CacheCatchesUp`, `RepliesRegistered`), which take fairness and
`ENABLED` and are outside this prover's reach, and the four violations.

## Not modelled

* The reply poller: it publishes chunks of unanswered targets under a flag that
  makes a second call return, changes no row, keeps no record of what it
  polled, and its timer is off by default.  What comes of it, a reply that
  names its target, is an input of `ChatRouting` and `ReplyHandling`.
* `error_count`, soft deletion, estimated completion: decide nothing.
* Character-level functions (`ParseAdminPhones`, spintax) and message formats:
  a recipient is a normalised phone, a reply its text.  `NormalizePhone` is in
  `ExcelReport`, by the number of digits and what they start with.  `UploadComplete`
  takes the phone of a target from that same function and bounds what it returns:
  ten digits unless the cell had more than eleven (`phone.go:5` promises ten always).
* A phone listed twice in one campaign: the upload makes two targets of it
  (`ExcelReport`), the other modules take a target for its phone.
* Websocket hub, storage, logging, environment parsing, migrations, graceful
  shutdown: I/O or no state that the rest reads.
* A hazard whose effect the code allows and no line denies has no property of its
  own.  `ChatsOwned` and `AnswersRoutable` bound what a second account (the stand-in)
  can spoil by saying what holds without it; a viewed target that a late failure
  closes is closed before and after in `TargetLifecycle`, and only
  `ViewedRepliedKept` sees the difference.
* More than one orchestrator process: main and the deployment start one.
